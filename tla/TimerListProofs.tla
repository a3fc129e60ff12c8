--------------------------- MODULE TimerListProofs ---------------------------
(***************************************************************************)
(* Theorems of IntGuard and of TimerList, which composes its guards with   *)
(* the list of timers: what the guards promise, the list that stays whole, *)
(* and the refinement of Timer.                                            *)
(*                                                                         *)
(* The invariant LInv says that the heap chains some sequence p \o a, p    *)
(* behind the cursor and a from it on.  List and Ahead of TimerList, which *)
(* follow next by a recursive function, are those sequences (ListFromIs):  *)
(* induction on the index, by the least counterexample, shows it.  So each *)
(* statement is reasoned about as an operation on sequences, which is what *)
(* Timer says it is.                                                       *)
(***************************************************************************)
EXTENDS TimerList, FiniteSetTheorems, SequenceTheorems, WellFoundedInduction, TLAPS

----------------------------------------------------------------------------
(* IntGuard                                                                *)

\* What a context adds to cli_count beyond the guards it holds.
Extra(c) == IF pc[c] \in {"uncount", "halted"} THEN 1 ELSE 0

CountInv ==
  cli_count = held["main"] + held["irq"] + Extra("main") + Extra("irq")

\* While "main" executes, IF is exactly "no guard held and not in between".
MainInv ==
  ctx = "main" =>
    /\ pc["irq"] = "run" /\ held["irq"] = 0
    /\ ifl <=> held["main"] = 0 /\ pc["main"] \in {"run", "clear", "panic"}
    /\ held["main"] > 0 \/ pc["main"] \in {"uncount", "enable"} => int_aon
    /\ pc["main"] \in {"clear", "count"} => (eflags["main"] <=> held["main"] = 0)

\* While a handler executes, "main" stands where it could be interrupted, and
\* whatever level of cli() the handler is in has recorded a clear flag.
IrqInv ==
  ctx = "irq" =>
    /\ ~ifl /\ saved
    /\ held["main"] = 0 /\ pc["main"] \in {"run", "clear", "panic"}
    /\ pc["main"] = "clear" => eflags["main"]
    /\ held["irq"] > 0 \/ pc["irq"] \in {"uncount", "enable"} => ~int_aon
    /\ pc["irq"] \in {"clear", "count"} => ~eflags["irq"]

IInv == TypeOK /\ CountInv /\ MainInv /\ IrqInv /\ NoPanic

\* Every state variable keeps its type (all of manipulate.cc and the gate).
THEOREM TypeCorrect == Spec => []TypeOK
<1>1. Init => TypeOK
  <2> SUFFICES ASSUME Init PROVE TypeOK
    OBVIOUS
  <2>1. pc \in [Ctx -> PCs]
    BY DEF Init, PCs
  <2>2. eflags \in [Ctx -> BOOLEAN] /\ held \in [Ctx -> Nat] /\ spare \in [Ctx -> Nat]
    BY DEF Init
  <2>3. ctx \in Ctx /\ cli_count \in Int
    BY DEF Init, Ctx, InitialCount
  <2>4. QED BY <2>1, <2>2, <2>3 DEF Init, TypeOK
<1>2. TypeOK /\ [Next]_vars => TypeOK'
  <2> SUFFICES ASSUME TypeOK, [Next]_vars PROVE TypeOK'
    OBVIOUS
  <2> USE DEF TypeOK
  <2>1. ASSUME NEW c \in Ctx, Step(c) PROVE TypeOK'
    <3> USE DEF Goto, cpu
    <3>1. CASE Construct(c)
      BY <3>1 DEF Construct, PCs
    <3>2. CASE Reacquire(c)
      BY <3>2 DEF Reacquire, PCs
    <3>3. CASE ClearIF(c)
      BY <3>3 DEF ClearIF, PCs
    <3>4. CASE CountUp(c)
      <4>1. int_aon' \in BOOLEAN
        BY <3>4, Zenon DEF CountUp
      <4>2. cli_count' \in Int /\ pc' \in [Ctx -> PCs] /\ held' \in [Ctx -> Nat]
        BY <3>4 DEF CountUp, PCs
      <4>3. UNCHANGED <<ifl, saved, ctx, pending, eflags, spare>>
        BY <3>4 DEF CountUp
      <4>4. QED BY <4>1, <4>2, <4>3
    <3>5. CASE CountDown(c)
      BY <3>5 DEF CountDown, PCs
    <3>6. CASE EnableIF(c)
      BY <3>6 DEF EnableIF, PCs
    <3>7. CASE Die(c)
      <4>1. int_aon' \in BOOLEAN
        BY <3>7, Zenon DEF Die
      <4>2. cli_count' \in Int /\ pc' \in [Ctx -> PCs]
        BY <3>7 DEF Die, PCs
      <4>3. QED BY <3>7, <4>1, <4>2 DEF Die
    <3>8. CASE Destroy(c)
      BY <3>8 DEF Destroy, Owns, PCs
    <3>9. CASE Release(c)
      BY <3>9 DEF Release, Owns, PCs
    <3>10. CASE DestroyReleased(c)
      BY <3>10 DEF DestroyReleased, PCs
    <3>11. QED BY <2>1, <3>1, <3>2, <3>3, <3>4, <3>5, <3>6, <3>7, <3>8, <3>9, <3>10
                DEF Step, Progress, Scope
  <2>2. CASE Raise \/ Interrupt \/ InterruptReturn
    BY <2>2 DEF Raise, Interrupt, InterruptReturn, Ctx
  <2>3. CASE UNCHANGED vars
    BY <2>3 DEF vars, cpu
  <2>4. QED BY <2>1, <2>2, <2>3 DEF Next
<1>3. QED BY <1>1, <1>2, PTL DEF Spec

----------------------------------------------------------------------------
(* The inductive invariant                                                 *)

LEMMA InitInv == Init => CountInv /\ MainInv /\ IrqInv /\ NoPanic
  BY DEF Init, CountInv, Extra, MainInv, IrqInv, NoPanic, Ctx, InitialCount

\* A step of "main" keeps the invariant.
LEMMA MainStepInv ==
  ASSUME IInv, Step("main")
  PROVE  (CountInv /\ MainInv /\ IrqInv /\ NoPanic)'
<1> USE DEF IInv, TypeOK, CountInv, Extra, MainInv, IrqInv, NoPanic, Ctx, PCs,
            Goto, cpu
<1>1. CASE Construct("main")
  BY <1>1 DEF Construct
<1>2. CASE Reacquire("main")
  BY <1>2 DEF Reacquire
<1>3. CASE ClearIF("main")
  BY <1>3 DEF ClearIF
<1>4. CASE CountUp("main")
  BY <1>4 DEF CountUp, RecordsFlag
<1>5. CASE CountDown("main")
  BY <1>5 DEF CountDown
<1>6. CASE EnableIF("main")
  <2>1. ctx = "main" /\ held["irq"] = 0 /\ pc["irq"] = "run" /\ int_aon /\ ~ifl
    BY <1>6 DEF EnableIF
  <2>2. CASE cli_count = 0
    <3>1. int_aon' = FALSE /\ ifl' = TRUE
      BY <1>6, <2>1, <2>2 DEF EnableIF, Enables
    <3>2. QED BY <1>6, <2>1, <2>2, <3>1 DEF EnableIF
  <2>3. CASE cli_count # 0
    <3>1. UNCHANGED <<int_aon, ifl>>
      BY <1>6, <2>3 DEF EnableIF, Enables
    <3>2. QED BY <1>6, <2>1, <2>3, <3>1 DEF EnableIF
  <2>4. QED BY <2>2, <2>3
<1>7. CASE Die("main")
  BY <1>7 DEF Die, RecordsFlag
<1>8. CASE Destroy("main")
  BY <1>8 DEF Destroy, Owns
<1>9. CASE Release("main")
  BY <1>9 DEF Release, Owns
<1>10. CASE DestroyReleased("main")
  BY <1>10 DEF DestroyReleased
<1>11. QED BY <1>1, <1>2, <1>3, <1>4, <1>5, <1>6, <1>7, <1>8, <1>9, <1>10
           DEF Step, Progress, Scope

\* A step of a handler keeps the invariant.
LEMMA IrqStepInv ==
  ASSUME IInv, Step("irq")
  PROVE  (CountInv /\ MainInv /\ IrqInv /\ NoPanic)'
<1> USE DEF IInv, TypeOK, CountInv, Extra, MainInv, IrqInv, NoPanic, Ctx, PCs,
            Goto, cpu
<1>1. CASE Construct("irq")
  BY <1>1 DEF Construct
<1>2. CASE Reacquire("irq")
  BY <1>2 DEF Reacquire
<1>3. CASE ClearIF("irq")
  BY <1>3 DEF ClearIF
<1>4. CASE CountUp("irq")
  BY <1>4 DEF CountUp, RecordsFlag
<1>5. CASE CountDown("irq")
  BY <1>5 DEF CountDown
<1>6. CASE EnableIF("irq")
  BY <1>6 DEF EnableIF, Enables
<1>7. CASE Die("irq")
  BY <1>7 DEF Die, RecordsFlag
<1>8. CASE Destroy("irq")
  BY <1>8 DEF Destroy, Owns
<1>9. CASE Release("irq")
  BY <1>9 DEF Release, Owns
<1>10. CASE DestroyReleased("irq")
  BY <1>10 DEF DestroyReleased
<1>11. QED BY <1>1, <1>2, <1>3, <1>4, <1>5, <1>6, <1>7, <1>8, <1>9, <1>10
           DEF Step, Progress, Scope

\* So do the hardware's steps.
LEMMA HardwareStepInv ==
  ASSUME IInv, Raise \/ Interrupt \/ InterruptReturn
  PROVE  (CountInv /\ MainInv /\ IrqInv /\ NoPanic)'
<1> USE DEF IInv, TypeOK, CountInv, Extra, MainInv, IrqInv, NoPanic, Ctx, PCs
<1>1. CASE Raise
  BY <1>1 DEF Raise
<1>2. CASE Interrupt
  BY <1>2 DEF Interrupt
<1>3. CASE InterruptReturn
  BY <1>3 DEF InterruptReturn
<1>4. QED BY <1>1, <1>2, <1>3

\* The invariant of the guards is one.
THEOREM Inductive == Spec => []IInv
<1>1. Init => CountInv /\ MainInv /\ IrqInv /\ NoPanic
  BY InitInv
<1>2. TypeOK /\ TypeOK' /\ CountInv /\ MainInv /\ IrqInv /\ NoPanic /\ [Next]_vars
        => (CountInv /\ MainInv /\ IrqInv /\ NoPanic)'
  <2> SUFFICES ASSUME IInv, [Next]_vars
               PROVE  (CountInv /\ MainInv /\ IrqInv /\ NoPanic)'
    BY DEF IInv
  <2>1. CASE UNCHANGED vars
    BY <2>1 DEF vars, cpu, IInv, CountInv, Extra, MainInv, IrqInv, NoPanic
  <2>2. CASE Next
    BY <2>2, MainStepInv, IrqStepInv, HardwareStepInv DEF Next, Ctx
  <2>3. QED BY <2>1, <2>2
<1>3. QED BY <1>1, <1>2, TypeCorrect, PTL DEF Spec, IInv

----------------------------------------------------------------------------
(* What follows from it                                                    *)

\* A guard of "main" keeps every handler out: timer::add and timer::remove
\* may touch the list of timers inside one.
THEOREM MutualExclusion == Spec => []GuardExcludesHandler
<1>1. IInv => GuardExcludesHandler
  BY DEF IInv, TypeOK, MainInv, IrqInv, GuardExcludesHandler, Ctx
<1>2. QED BY <1>1, Inductive, PTL

\* No nesting of guards inside a handler ever turns interrupts on in it.
THEOREM HandlerMasked == Spec => []HandlerStaysMasked
<1>1. IInv => HandlerStaysMasked
  BY DEF IInv, IrqInv, HandlerStaysMasked
<1>2. QED BY <1>1, Inductive, PTL

\* The outermost release gives the flag back.
THEOREM FlagIsRestored == Spec => []FlagRestored
<1>1. IInv => FlagRestored
  BY DEF IInv, TypeOK, MainInv, FlagRestored
<1>2. QED BY <1>1, Inductive, PTL

\* assert(cli_count >= 0) never fires, nor do the panics of int_guard when
\* guards are only used as scopes.
THEOREM NeverPanics == Spec => []NoPanic
<1>1. IInv => NoPanic
  BY DEF IInv
<1>2. QED BY <1>1, Inductive, PTL

\* A handler leaves the counter as it found it.
THEOREM HandlerBalanced == Spec => CountBalanced
<1>1. IInv /\ [Next]_vars => [InterruptReturn => cli_count = held["main"]]_vars
  BY DEF IInv, TypeOK, CountInv, Extra, IrqInv, InterruptReturn, Ctx
<1>2. QED BY <1>1, Inductive, PTL DEF Spec, CountBalanced

----------------------------------------------------------------------------
(* What holds of the list at every statement                               *)

\* The i-th node of s, NULL before the first and after the last.
Link(s, i) == IF i \in 1 .. Len(s) THEN s[i] ELSE NULL

\* In the heap f, s is what following next from head gives.
Follows(f, head, s) ==
  /\ s \in Seq(Nodes) /\ IsInjective(s)
  /\ head = Link(s, 1)
  /\ \A i \in 1 .. Len(s) : f[s[i]].next = Link(s, i + 1)

\* And prev leads back; "before" is what the first node has as its prev.
Chained(f, head, s, before) ==
  /\ Follows(f, head, s)
  /\ \A i \in 1 .. Len(s) : f[s[i]].prev = IF i = 1 THEN before ELSE s[i - 1]

Allocated(f) == {n \in Nodes : f[n].allocated}

\* Between the statements of an add().
Building == stmt[ctx] \in {"next", "back", "fill", "head"}

UnderWay == IF Building THEN {ptr[ctx]} ELSE {}

Before == IF stmt[ctx] \in {"fill", "head"} THEN ptr[ctx] ELSE NULL

\* p are the nodes that the walk has passed, a those ahead of it.
Whole(p, a) ==
  /\ p \in Seq(Nodes) /\ a \in Seq(Nodes)
  /\ Chained(node, timer_head, p \o a, Before)
  /\ Allocated(node) = Range(p \o a) \cup UnderWay
  /\ Building => ptr[ctx] \notin Range(p \o a)
  /\ IF InWalk THEN cur = Link(a, 1) ELSE a = <<>>
  /\ at = "call" => a # <<>>

\* What the statements of an add() have made of its node so far.
Begun ==
  Building =>
    /\ ptr[ctx] \in Nodes
    /\ node[ptr[ctx]].prev = NULL
    /\ ~node[ptr[ctx]].deleted
    /\ node[ptr[ctx]].trigger_count = 0
    /\ node[ptr[ctx]].next = IF stmt[ctx] = "next" THEN NULL ELSE timer_head

Filled ==
  stmt[ctx] = "head" =>
    \E i \in Intervals :
      /\ node[ptr[ctx]].interval = i /\ node[ptr[ctx]].count_down = i
      /\ node[ptr[ctx]].since = system_tick

\* A context inside the API holds its guard or is about to; callbacks only
\* are in it while the handler calls them.
Guarded ==
  /\ \A c \in Ctx :
       /\ stmt[c] = "out" => held[c] = 0 /\ pc[c] \in {"run", "uncount", "enable"}
       /\ stmt[c] = "in" => \/ held[c] = 0 /\ pc[c] \in {"clear", "count"}
                            \/ held[c] = 1 /\ pc[c] = "run"
       /\ stmt[c] \notin {"out", "in"} => held[c] = 1 /\ pc[c] = "run"
  /\ at = "idle" <=> ctx = "main"
  /\ stmt["irq"] # "out" => at = "call"

----------------------------------------------------------------------------
(* Induction by the least counterexample                                   *)

\* A set of naturals has a least element.
LEMMA LeastNatural ==
  ASSUME NEW T, T \subseteq Nat, T # {}
  PROVE  \E n \in T : \A m \in T : n <= m
<1>1. IsWellFoundedOn(OpToRel(<, Nat), Nat)
  BY NatLessThanWellFounded
<1>2. PICK n \in T : \A m \in T : ~ (<<m, n>> \in OpToRel(<, Nat))
  BY <1>1, WFMin
<1>3. \A m \in T : ~ (m < n)
  BY <1>2 DEF OpToRel
<1> QED
  BY <1>3

----------------------------------------------------------------------------
(* Sequences of nodes without repetition, and heaps that link them          *)

\* Link is NULL exactly beyond the sequence.
LEMMA LinkFacts ==
  ASSUME NEW s \in Seq(Nodes)
  PROVE  /\ \A i \in 1 .. Len(s) : Link(s, i) = s[i] /\ Link(s, i) \in Nodes
                                   /\ Link(s, i) # NULL
         /\ \A i \in Int : i \notin 1 .. Len(s) => Link(s, i) = NULL
         /\ s = <<>> <=> Link(s, 1) = NULL
<1>1. \A i \in 1 .. Len(s) : s[i] \in Nodes
  OBVIOUS
<1>2. NULL \notin Nodes
  BY ListAssumption
<1>3. Len(s) \in Nat /\ (s = <<>> <=> Len(s) = 0)
  OBVIOUS
<1> QED
  BY <1>1, <1>2, <1>3 DEF Link

\* No list is longer than the heap.
LEMMA LengthBound ==
  ASSUME NEW s \in Seq(Nodes), IsInjective(s)
  PROVE  Len(s) \in 0 .. Cardinality(Nodes) /\ Cardinality(Nodes) \in Nat
<1>1. IsFiniteSet(Nodes)
  BY ListAssumption
<1>2. Len(s) \in Nat /\ s \in [1 .. Len(s) -> Nodes] /\ DOMAIN s = 1 .. Len(s)
  OBVIOUS
<1>3. s \in Injection(1 .. Len(s), Nodes)
  BY <1>2 DEF Injection, IsInjective
<1>4. Cardinality(1 .. Len(s)) <= Cardinality(Nodes)
  BY <1>1, <1>3, FS_Injection
<1>5. Cardinality(1 .. Len(s)) = Len(s)
  BY <1>2, FS_Interval
<1>6. Cardinality(Nodes) \in Nat
  BY <1>1, FS_CardinalityType
<1> QED
  BY <1>2, <1>4, <1>5, <1>6

\* The defining equation of ListFrom's nth.
IsWalk(nth, heap, p) ==
  nth = [i \in 1 .. Cardinality(Nodes) |->
           IF i = 1 THEN p
           ELSE IF nth[i - 1] = NULL THEN NULL ELSE heap[nth[i - 1]].next]

\* A walk along a list meets its nodes in order, then NULL.
LEMMA WalkAlong ==
  ASSUME NEW f, NEW head, NEW s, Follows(f, head, s), NEW nth, IsWalk(nth, f, head)
  PROVE  \A i \in 1 .. Cardinality(Nodes) : nth[i] = Link(s, i)
<1> DEFINE N == Cardinality(Nodes)
           Wrong == {i \in 1 .. N : nth[i] # Link(s, i)}
<1>1. /\ s \in Seq(Nodes) /\ head = Link(s, 1)
      /\ \A i \in 1 .. Len(s) : f[s[i]].next = Link(s, i + 1)
      /\ N \in Nat
  BY LengthBound DEF Follows
<1>2. \A i \in 1 .. N : nth[i] = IF i = 1 THEN head
                                 ELSE IF nth[i - 1] = NULL THEN NULL
                                 ELSE f[nth[i - 1]].next
  BY DEF IsWalk
<1>3. SUFFICES ASSUME Wrong # {} PROVE FALSE
  OBVIOUS
<1>4. PICK i \in Wrong : \A j \in Wrong : i <= j
  <2>1. Wrong \subseteq Nat
    BY <1>1
  <2> QED
    BY <1>3, <2>1, LeastNatural
<1>5. i # 1
  BY <1>1, <1>2, <1>4
<1>6. i - 1 \in 1 .. N /\ nth[i - 1] = Link(s, i - 1)
  BY <1>1, <1>4, <1>5
<1>7. CASE i - 1 \in 1 .. Len(s)
  <2>1. nth[i - 1] = s[i - 1] /\ nth[i - 1] # NULL
    BY <1>1, <1>6, <1>7, LinkFacts
  <2>2. nth[i] = f[s[i - 1]].next
    BY <1>2, <1>4, <1>5, <2>1
  <2>3. f[s[i - 1]].next = Link(s, i - 1 + 1)
    BY <1>1, <1>7
  <2> QED
    BY <1>1, <1>4, <2>2, <2>3
<1>8. CASE i - 1 \notin 1 .. Len(s)
  <2>1. nth[i - 1] = NULL
    BY <1>1, <1>6, <1>8, LinkFacts
  <2>2. nth[i] = NULL
    BY <1>2, <1>4, <1>5, <2>1
  <2>3. i \notin 1 .. Len(s)
    BY <1>1, <1>6, <1>8
  <2> QED
    BY <1>1, <1>4, <2>2, <2>3, LinkFacts
<1> QED
  BY <1>7, <1>8

\* The recursion behind ListFrom has a value at every index.
LEMMA WalkExists ==
  ASSUME NEW f, NEW head, NEW s, Follows(f, head, s)
  PROVE  IsWalk([i \in 1 .. Cardinality(Nodes) |-> Link(s, i)], f, head)
<1> DEFINE N == Cardinality(Nodes)
           nth == [i \in 1 .. N |-> Link(s, i)]
<1>1. /\ s \in Seq(Nodes) /\ head = Link(s, 1)
      /\ \A i \in 1 .. Len(s) : f[s[i]].next = Link(s, i + 1)
      /\ N \in Nat
  BY LengthBound DEF Follows
<1>2. ASSUME NEW i \in 1 .. N, i # 1
      PROVE  Link(s, i) = IF nth[i - 1] = NULL THEN NULL ELSE f[nth[i - 1]].next
  <2>1. i - 1 \in 1 .. N /\ nth[i - 1] = Link(s, i - 1)
    BY <1>1, <1>2
  <2>2. CASE i - 1 \in 1 .. Len(s)
    <3>1. nth[i - 1] = s[i - 1] /\ nth[i - 1] # NULL
      BY <1>1, <2>1, <2>2, LinkFacts
    <3>2. f[s[i - 1]].next = Link(s, i - 1 + 1)
      BY <1>1, <2>2
    <3>3. i - 1 + 1 = i
      BY <1>1
    <3> QED
      BY <3>1, <3>2, <3>3
  <2>3. CASE i - 1 \notin 1 .. Len(s)
    <3>1. nth[i - 1] = NULL
      BY <1>1, <2>1, <2>3, LinkFacts
    <3>2. i \notin 1 .. Len(s)
      BY <1>1, <2>1, <2>3
    <3> QED
      BY <1>1, <3>1, <3>2, LinkFacts
  <2> QED
    BY <2>2, <2>3
<1> QED
  BY <1>1, <1>2 DEF IsWalk

\* ListFrom is the one list that the links spell out.
LEMMA ListFromIs ==
  ASSUME NEW f, NEW head, NEW s, Follows(f, head, s)
  PROVE  ListFrom(f, head) = s
<1> DEFINE N == Cardinality(Nodes)
           nth == CHOOSE w : IsWalk(w, f, head)
<1>1. IsWalk(nth, f, head)
  BY WalkExists
<1> HIDE DEF nth
<1>2. ListFrom(f, head) = Restrict(nth, {i \in DOMAIN nth : nth[i] # NULL})
  BY DEF ListFrom, nth, IsWalk
<1>3. s \in Seq(Nodes) /\ Len(s) \in 0 .. N /\ N \in Nat
  BY LengthBound DEF Follows
<1>4. \A i \in 1 .. N : nth[i] = Link(s, i)
  BY <1>1, WalkAlong
<1>5. DOMAIN nth = 1 .. N
  BY <1>1 DEF IsWalk
<1>6. {i \in DOMAIN nth : nth[i] # NULL} = 1 .. Len(s)
  BY <1>3, <1>4, <1>5, LinkFacts
<1>7. ListFrom(f, head) = [i \in 1 .. Len(s) |-> nth[i]]
  BY <1>2, <1>6 DEF Restrict
<1>8. \A i \in 1 .. Len(s) : nth[i] = s[i]
  BY <1>3, <1>4, LinkFacts
<1>9. s = [i \in 1 .. Len(s) |-> s[i]]
  BY <1>3
<1> QED
  BY <1>7, <1>8, <1>9
----------------------------------------------------------------------------
(* What the statements do to a chained list                                *)

\* Stores to other fields, or to other nodes, leave the list alone.
LEMMA ChainFrame ==
  ASSUME NEW f, NEW g, NEW head, NEW s, NEW before,
         Chained(f, head, s, before),
         \A n \in Range(s) : g[n].next = f[n].next /\ g[n].prev = f[n].prev
  PROVE  Chained(g, head, s, before)
<1>1. s \in Seq(Nodes)
  BY DEF Chained, Follows
<1>2. \A i \in 1 .. Len(s) : s[i] \in Range(s)
  BY <1>1 DEF Range
<1> QED
  BY <1>2 DEF Chained, Follows

\* timer_head = ptr, after next and timer_head->prev were stored.
LEMMA ChainPush ==
  ASSUME NEW f, NEW head, NEW s, NEW n \in Nodes, n \notin Range(s),
         Chained(f, head, s, n), f[n].next = head, f[n].prev = NULL
  PROVE  Chained(f, n, <<n>> \o s, NULL) /\ Range(<<n>> \o s) = {n} \cup Range(s)
<1> DEFINE t == <<n>> \o s
<1>1. s \in Seq(Nodes) /\ IsInjective(s) /\ head = Link(s, 1) /\ Len(s) \in Nat
  BY DEF Chained, Follows
<1>2. /\ t \in Seq(Nodes) /\ Len(t) = Len(s) + 1 /\ t[1] = n
      /\ \A i \in 1 .. Len(s) : t[i + 1] = s[i]
  BY <1>1
<1> HIDE DEF t
<1>3. DOMAIN s = 1 .. Len(s) /\ DOMAIN t = 1 .. Len(s) + 1
  BY <1>1, <1>2
<1>4. \A i \in 1 .. Len(s) + 1 : i # 1 => i - 1 \in 1 .. Len(s) /\ t[i] = s[i - 1]
  <2> SUFFICES ASSUME NEW i \in 1 .. Len(s) + 1, i # 1
               PROVE  i - 1 \in 1 .. Len(s) /\ t[i] = s[i - 1]
    OBVIOUS
  <2>1. i - 1 \in 1 .. Len(s) /\ t[i - 1 + 1] = s[i - 1] /\ i - 1 + 1 = i
    BY <1>1, <1>2
  <2> QED
    BY <2>1
<1>5. \A i \in 1 .. Len(s) : s[i] # n
  BY <1>3 DEF Range
<1>6. IsInjective(t)
  <2>1. \A i, j \in 1 .. Len(s) : s[i] = s[j] => i = j
    BY <1>1, <1>3 DEF IsInjective
  <2>2. ASSUME NEW i \in 1 .. Len(s) + 1, NEW j \in 1 .. Len(s) + 1, t[i] = t[j]
        PROVE  i = j
    <3>1. CASE i = 1 \/ j = 1
      BY <1>2, <1>4, <1>5, <2>2, <3>1
    <3>2. CASE i # 1 /\ j # 1
      <4>1. i - 1 \in 1 .. Len(s) /\ j - 1 \in 1 .. Len(s) /\ s[i - 1] = s[j - 1]
        BY <1>4, <2>2, <3>2
      <4>2. i - 1 = j - 1
        BY <2>1, <4>1
      <4> QED
        BY <1>1, <4>2
    <3> QED
      BY <3>1, <3>2
  <2> QED
    BY <1>3, <2>2 DEF IsInjective
<1>7. Range(t) = {n} \cup Range(s)
  <2>1. \A i \in 1 .. Len(s) + 1 : t[i] \in {n} \cup Range(s)
    BY <1>2, <1>3, <1>4 DEF Range
  <2>2. \A i \in 1 .. Len(s) : i + 1 \in DOMAIN t /\ t[i + 1] = s[i]
    BY <1>1, <1>2, <1>3
  <2>3. 1 \in DOMAIN t
    BY <1>1, <1>3
  <2>4. Range(t) \subseteq {n} \cup Range(s)
    BY <1>3, <2>1 DEF Range
  <2>5. {n} \cup Range(s) \subseteq Range(t)
    BY <1>2, <1>3, <2>2, <2>3 DEF Range
  <2> QED
    BY <2>4, <2>5
<1>8. \A i \in 1 .. Len(t) : f[t[i]].next = Link(t, i + 1)
  <2> TAKE i \in 1 .. Len(t)
  <2>1. Link(t, i + 1) = Link(s, i)
    <3>1. CASE i \in 1 .. Len(s)
      BY <1>1, <1>2, <3>1 DEF Link
    <3>2. CASE i \notin 1 .. Len(s)
      BY <1>1, <1>2, <3>2 DEF Link
    <3> QED
      BY <3>1, <3>2
  <2>2. CASE i = 1
    BY <1>1, <1>2, <2>1, <2>2
  <2>3. CASE i # 1
    <3>1. i - 1 \in 1 .. Len(s) /\ t[i] = s[i - 1]
      BY <1>2, <1>4, <2>3
    <3>2. f[s[i - 1]].next = Link(s, i - 1 + 1)
      BY <3>1 DEF Chained, Follows
    <3>3. i - 1 + 1 = i
      BY <1>1
    <3> QED
      BY <2>1, <3>1, <3>2, <3>3
  <2> QED
    BY <2>2, <2>3
<1>9. \A i \in 1 .. Len(t) : f[t[i]].prev = IF i = 1 THEN NULL ELSE t[i - 1]
  <2> TAKE i \in 1 .. Len(t)
  <2>1. CASE i = 1
    BY <1>2, <2>1
  <2>2. CASE i # 1
    <3>1. i - 1 \in 1 .. Len(s) /\ t[i] = s[i - 1]
      BY <1>2, <1>4, <2>2
    <3>2. f[s[i - 1]].prev = IF i - 1 = 1 THEN n ELSE s[i - 1 - 1]
      BY <3>1 DEF Chained
    <3>3. CASE i - 1 = 1
      BY <1>2, <2>2, <3>1, <3>2, <3>3
    <3>4. CASE i - 1 # 1
      <4>1. i - 1 \in 1 .. Len(s) + 1 /\ i - 1 # 1
        BY <1>1, <3>1, <3>4
      <4>2. t[i - 1] = s[i - 1 - 1]
        BY <1>4, <4>1
      <4> QED
        BY <2>2, <3>1, <3>2, <3>4, <4>2
    <3> QED
      BY <3>3, <3>4
  <2> QED
    BY <2>1, <2>2
<1>10. Link(t, 1) = n
  BY <1>1, <1>2 DEF Link
<1> QED
  BY <1>2, <1>6, <1>7, <1>8, <1>9, <1>10 DEF Chained, Follows, t

\* if (timer_head != NULL) timer_head->prev = ptr
LEMMA ChainBack ==
  ASSUME NEW f, NEW head, NEW s, NEW n, NEW g,
         Chained(f, head, s, NULL), f \in [Nodes -> Node],
         g = IF head # NULL THEN [f EXCEPT ![head].prev = n] ELSE f
  PROVE  Chained(g, head, s, n)
<1>1. s \in Seq(Nodes) /\ IsInjective(s) /\ head = Link(s, 1) /\ Len(s) \in Nat
  BY DEF Chained, Follows
<1>2. CASE s = <<>>
  BY <1>2 DEF Chained, Follows
<1>3. CASE s # <<>>
  <2>1. head = s[1] /\ head \in Nodes /\ head # NULL /\ 1 \in 1 .. Len(s)
    BY <1>1, <1>3, LinkFacts DEF Link
  <2>2. g = [f EXCEPT ![head].prev = n]
    BY <2>1
  <2>3. PICK r \in Node : r = f[head]
    BY <2>1
  <2>4. g[head].prev = n /\ g[head].next = f[head].next
    BY <2>1, <2>2, <2>3 DEF Node
  <2>5. \A m \in Nodes : m # head => g[m] = f[m]
    BY <2>2
  <2>6. \A i \in 1 .. Len(s) : s[i] \in Nodes /\ (i # 1 => s[i] # head)
    BY <1>1, <2>1 DEF IsInjective
  <2>7. \A i \in 1 .. Len(s) : g[s[i]].next = f[s[i]].next
    BY <2>1, <2>4, <2>5, <2>6
  <2>8. \A i \in 1 .. Len(s) : g[s[i]].prev = IF i = 1 THEN n ELSE f[s[i]].prev
    BY <2>1, <2>4, <2>5, <2>6
  <2> QED
    BY <1>1, <2>7, <2>8 DEF Chained, Follows
<1> QED
  BY <1>2, <1>3
\* The cursor splits the list.
LEMMA SplitFacts ==
  ASSUME NEW p \in Seq(Nodes), NEW a \in Seq(Nodes), a # <<>>
  PROVE  /\ Append(p, Head(a)) \in Seq(Nodes) /\ Tail(a) \in Seq(Nodes)
         /\ Append(p, Head(a)) \o Tail(a) = p \o a
         /\ Head(a) \in Nodes /\ Head(a) = Link(a, 1)
         /\ Head(a) \in Range(p \o a)
         /\ Len(p) + 1 \in 1 .. Len(p \o a)
         /\ Head(a) = (p \o a)[Len(p) + 1]
         /\ Link(Tail(a), 1) = Link(p \o a, Len(p) + 2)
<1>1. /\ Len(p) \in Nat /\ Len(a) \in Nat /\ Len(a) >= 1
      /\ Len(p \o a) = Len(p) + Len(a) /\ p \o a \in Seq(Nodes)
  OBVIOUS
<1>2. /\ Tail(a) \in Seq(Nodes) /\ Len(Tail(a)) = Len(a) - 1
      /\ \A i \in 1 .. Len(a) - 1 : Tail(a)[i] = a[i + 1]
      /\ Head(a) = a[1] /\ Head(a) \in Nodes
  BY <1>1
<1>3. \A i \in 1 .. Len(a) : (p \o a)[Len(p) + i] = a[i]
  BY <1>1
<1>4. Len(p) + 1 \in 1 .. Len(p \o a) /\ Head(a) = (p \o a)[Len(p) + 1]
  BY <1>1, <1>2, <1>3
<1>5. Head(a) \in Range(p \o a)
  <2>1. DOMAIN (p \o a) = 1 .. Len(p \o a)
    BY <1>1
  <2> QED
    BY <1>4, <2>1 DEF Range
<1>6. Link(Tail(a), 1) = Link(p \o a, Len(p) + 2)
  <2>1. CASE Len(a) = 1
    BY <1>1, <1>2, <2>1 DEF Link
  <2>2. CASE Len(a) # 1
    <3>1. (p \o a)[Len(p) + 2] = a[2] /\ Tail(a)[1] = a[2]
      BY <1>1, <1>2, <1>3, <2>2
    <3> QED
      BY <1>1, <1>2, <2>2, <3>1 DEF Link
  <2> QED
    BY <2>1, <2>2
<1>7. Append(p, Head(a)) \in Seq(Nodes)
  BY <1>2
<1>8. Append(p, Head(a)) \o Tail(a) = p \o a
  <2> DEFINE q == Append(p, Head(a))
             t == Tail(a)
  <2>1. /\ Len(q) = Len(p) + 1 /\ q[Len(p) + 1] = a[1]
        /\ \A i \in 1 .. Len(p) : q[i] = p[i]
    BY <1>1, <1>2
  <2> HIDE DEF q, t
  <2>2. q \in Seq(Nodes) /\ t \in Seq(Nodes)
    BY <1>2, <1>7 DEF q, t
  <2>3. Len(t) = Len(a) - 1 /\ \A i \in 1 .. Len(a) - 1 : t[i] = a[i + 1]
    BY <1>2 DEF t
  <2>a. /\ q \o t \in Seq(Nodes) /\ Len(q \o t) = Len(q) + Len(t)
        /\ \A i \in 1 .. Len(q) : (q \o t)[i] = q[i]
        /\ \A i \in 1 .. Len(t) : (q \o t)[Len(q) + i] = t[i]
    BY <2>2
  <2>4. /\ q \o t \in Seq(Nodes) /\ Len(q \o t) = Len(p) + Len(a)
        /\ \A i \in 1 .. Len(p) + 1 : (q \o t)[i] = q[i]
        /\ \A i \in 1 .. Len(a) - 1 : (q \o t)[Len(p) + 1 + i] = t[i]
    BY <1>1, <2>1, <2>3, <2>a
  <2>5. \A i \in 1 .. Len(p) : (p \o a)[i] = p[i]
    BY <1>1
  <2>6. \A i \in 1 .. Len(p) + Len(a) : (q \o t)[i] = (p \o a)[i]
    <3> TAKE i \in 1 .. Len(p) + Len(a)
    <3>1. CASE i \in 1 .. Len(p)
      BY <1>1, <2>1, <2>4, <2>5, <3>1
    <3>2. CASE i = Len(p) + 1
      BY <1>1, <1>3, <2>1, <2>4, <3>2
    <3>3. CASE i > Len(p) + 1
      <4>1. PICK k \in 1 .. Len(a) - 1 : i = Len(p) + 1 + k
        <5>1. i - Len(p) - 1 \in 1 .. Len(a) - 1 /\ i = Len(p) + 1 + (i - Len(p) - 1)
          BY <1>1, <3>3
        <5> QED
          BY <5>1
      <4>2. (q \o t)[i] = a[k + 1]
        BY <2>3, <2>4, <4>1
      <4>3. i = Len(p) + (k + 1) /\ k + 1 \in 1 .. Len(a)
        BY <1>1, <4>1
      <4>4. (p \o a)[i] = a[k + 1]
        BY <1>3, <4>3
      <4> QED
        BY <4>2, <4>4
    <3>4. i \in 1 .. Len(p) \/ i = Len(p) + 1 \/ i > Len(p) + 1
      BY <1>1
    <3> QED
      BY <3>1, <3>2, <3>3, <3>4
  <2>7. q \o t = p \o a
    BY <1>1, <2>4, <2>6
  <2> QED
    BY <2>7 DEF q, t
<1> QED
  BY <1>2, <1>4, <1>5, <1>6, <1>7, <1>8, LinkFacts, <1>1 DEF Link

\* What follows the cursor is a list too.
LEMMA FollowsSuffix ==
  ASSUME NEW f, NEW head, NEW p \in Seq(Nodes), NEW a \in Seq(Nodes),
         Follows(f, head, p \o a)
  PROVE  Follows(f, Link(a, 1), a)
<1>1. /\ Len(p) \in Nat /\ Len(a) \in Nat /\ Len(p \o a) = Len(p) + Len(a)
      /\ DOMAIN a = 1 .. Len(a) /\ DOMAIN (p \o a) = 1 .. Len(p) + Len(a)
      /\ \A i \in 1 .. Len(a) : (p \o a)[Len(p) + i] = a[i]
  OBVIOUS
<1> DEFINE s == p \o a
<1>2. /\ \A i, j \in 1 .. Len(s) : s[i] = s[j] => i = j
      /\ \A i \in 1 .. Len(s) : f[s[i]].next = Link(s, i + 1)
  BY <1>1 DEF Follows, IsInjective
<1> HIDE DEF s
<1>3. Len(s) = Len(p) + Len(a) /\ \A i \in 1 .. Len(a) : s[Len(p) + i] = a[i]
  BY <1>1 DEF s
<1>4. IsInjective(a)
  <2>1. ASSUME NEW i \in 1 .. Len(a), NEW j \in 1 .. Len(a), a[i] = a[j]
        PROVE  i = j
    <3>1. Len(p) + i \in 1 .. Len(s) /\ Len(p) + j \in 1 .. Len(s)
      BY <1>1, <1>3
    <3>2. Len(p) + i = Len(p) + j
      BY <1>2, <1>3, <2>1, <3>1
    <3> QED
      BY <1>1, <3>2
  <2> QED
    BY <1>1, <2>1 DEF IsInjective
<1>5. \A i \in 1 .. Len(a) : f[a[i]].next = Link(a, i + 1)
  <2> TAKE i \in 1 .. Len(a)
  <2>1. Len(p) + i \in 1 .. Len(s) /\ s[Len(p) + i] = a[i]
    BY <1>1, <1>3
  <2>2. f[a[i]].next = Link(s, Len(p) + i + 1)
    BY <1>2, <2>1
  <2>3. CASE i + 1 \in 1 .. Len(a)
    <3>1. s[Len(p) + (i + 1)] = a[i + 1]
      BY <1>3, <2>3
    <3> QED
      BY <1>1, <1>3, <2>2, <2>3, <3>1 DEF Link
  <2>4. CASE i + 1 \notin 1 .. Len(a)
    BY <1>1, <1>3, <2>2, <2>4 DEF Link
  <2> QED
    BY <2>3, <2>4
<1> QED
  BY <1>4, <1>5 DEF Follows

\* The three tests of the unlinking and the delete, as one function of the heap.
Unlinked(f, n) ==
  [m \in Nodes |->
     IF m = n THEN Zero
     ELSE [f[m] EXCEPT !.next = IF m = f[n].prev THEN f[n].next ELSE @,
                       !.prev = IF m = f[n].next THEN f[n].prev ELSE @]]

\* The three tests of the handler take a node out of a chain, wherever it is.
LEMMA ChainUnlink ==
  ASSUME NEW f \in [Nodes -> Node], NEW head,
         NEW p \in Seq(Nodes), NEW a \in Seq(Nodes), a # <<>>,
         Chained(f, head, p \o a, NULL), NEW n, n = Head(a)
  PROVE  /\ Chained(Unlinked(f, n), IF head = n THEN f[n].next ELSE head,
                    p \o Tail(a), NULL)
         /\ Range(p \o Tail(a)) = Range(p \o a) \ {n}
<1> DEFINE s == p \o a
           t == p \o Tail(a)
           j == Len(p) + 1
           g == Unlinked(f, n)
<1>1. /\ Len(p) \in Nat /\ Len(a) \in Nat /\ Len(a) >= 1
      /\ Len(s) = Len(p) + Len(a)
      /\ \A i \in 1 .. Len(p) : s[i] = p[i]
      /\ \A i \in 1 .. Len(a) : s[Len(p) + i] = a[i]
      /\ s \in Seq(Nodes) /\ DOMAIN s = 1 .. Len(s)
  OBVIOUS
<1>2. /\ Tail(a) \in Seq(Nodes) /\ Len(Tail(a)) = Len(a) - 1
      /\ \A i \in 1 .. Len(a) - 1 : Tail(a)[i] = a[i + 1]
  BY <1>1
<1>3. /\ t \in Seq(Nodes) /\ Len(t) = Len(p) + Len(Tail(a)) /\ DOMAIN t = 1 .. Len(t)
      /\ \A i \in 1 .. Len(p) : t[i] = p[i]
      /\ \A i \in 1 .. Len(Tail(a)) : t[Len(p) + i] = Tail(a)[i]
  BY <1>2
<1>4. n = s[j] /\ n \in Nodes /\ j \in 1 .. Len(s)
  BY SplitFacts
<1>5. /\ \A i, k \in 1 .. Len(s) : s[i] = s[k] => i = k
      /\ \A i \in 1 .. Len(s) : f[s[i]].next = Link(s, i + 1)
      /\ \A i \in 1 .. Len(s) : f[s[i]].prev = IF i = 1 THEN NULL ELSE s[i - 1]
      /\ head = Link(s, 1)
  BY <1>1 DEF Chained, Follows, IsInjective
<1> HIDE DEF s, t, g
<1>6. Len(t) = Len(s) - 1
  BY <1>1, <1>2, <1>3
<1>7. \A i \in 1 .. Len(t) : i < j => i \in 1 .. Len(s) /\ t[i] = s[i]
  <2> SUFFICES ASSUME NEW i \in 1 .. Len(t), i < j
               PROVE  i \in 1 .. Len(s) /\ t[i] = s[i]
    OBVIOUS
  <2>1. i \in 1 .. Len(p)
    BY <1>1, <1>3
  <2> QED
    BY <1>1, <1>3, <2>1
<1>8. \A i \in 1 .. Len(t) : ~(i < j) => i + 1 \in 1 .. Len(s) /\ t[i] = s[i + 1]
  <2> SUFFICES ASSUME NEW i \in 1 .. Len(t), ~(i < j)
               PROVE  i + 1 \in 1 .. Len(s) /\ t[i] = s[i + 1]
    OBVIOUS
  <2>1. PICK k \in 1 .. Len(a) - 1 : i = Len(p) + k
    <3>1. i - Len(p) \in 1 .. Len(a) - 1 /\ i = Len(p) + (i - Len(p))
      BY <1>1, <1>2, <1>3
    <3> QED
      BY <3>1
  <2>2. t[i] = a[k + 1]
    BY <1>1, <1>2, <1>3, <2>1
  <2>3. k + 1 \in 1 .. Len(a) /\ i + 1 = Len(p) + (k + 1)
    BY <1>1, <2>1
  <2>4. s[i + 1] = a[k + 1]
    BY <1>1, <2>3
  <2> QED
    BY <1>1, <1>6, <2>2, <2>4
\* Where the node at i of the new list was in the old one.
<1> DEFINE old(i) == IF i < j THEN i ELSE i + 1
<1>9. \A i \in 1 .. Len(t) : /\ old(i) \in 1 .. Len(s) /\ old(i) # j /\ t[i] = s[old(i)]
                             /\ t[i] \in Nodes /\ t[i] # n
  <2> TAKE i \in 1 .. Len(t)
  <2>1. old(i) \in 1 .. Len(s) /\ old(i) # j /\ t[i] = s[old(i)]
    BY <1>1, <1>7, <1>8
  <2> QED
    BY <1>1, <1>4, <1>5, <2>1
<1>10. \A i \in Nat \ {0} : Link(t, i) = IF i < j THEN Link(s, i) ELSE Link(s, i + 1)
  <2> TAKE i \in Nat \ {0}
  <2>1. CASE i \in 1 .. Len(t)
    BY <1>1, <1>7, <1>8, <2>1 DEF Link
  <2>2. CASE i \notin 1 .. Len(t)
    BY <1>1, <1>4, <1>6, <2>2 DEF Link
  <2> QED
    BY <2>1, <2>2
<1>11. Range(t) = Range(s) \ {n}
  <2>1. Range(t) \subseteq Range(s) \ {n}
    BY <1>1, <1>3, <1>9 DEF Range
  <2>2. ASSUME NEW k \in 1 .. Len(s), s[k] # n
        PROVE  \E i \in 1 .. Len(t) : t[i] = s[k]
    <3>1. CASE k < j
      <4>1. k \in 1 .. Len(t)
        BY <1>1, <1>4, <1>6, <3>1
      <4> QED
        BY <1>7, <3>1, <4>1
    <3>2. CASE k > j
      <4>1. k - 1 \in 1 .. Len(t) /\ ~(k - 1 < j) /\ k - 1 + 1 = k
        BY <1>1, <1>6, <3>2
      <4> QED
        BY <1>8, <4>1
    <3> QED
      BY <1>1, <1>4, <2>2, <3>1, <3>2
  <2>3. Range(s) \ {n} \subseteq Range(t)
    <3>1. \A x \in Range(s) : \E k \in 1 .. Len(s) : s[k] = x
      BY <1>1 DEF Range
    <3>2. \A i \in 1 .. Len(t) : t[i] \in Range(t)
      BY <1>3 DEF Range
    <3> QED
      BY <2>2, <3>1, <3>2
  <2> QED
    BY <2>1, <2>3
<1>12. IsInjective(t)
  <2>1. ASSUME NEW i \in 1 .. Len(t), NEW k \in 1 .. Len(t), t[i] = t[k]
        PROVE  i = k
    <3>1. old(i) = old(k)
      <4>1. /\ old(i) \in 1 .. Len(s) /\ old(k) \in 1 .. Len(s)
            /\ s[old(i)] = s[old(k)]
        BY <1>9, <2>1
      <4> QED
        BY <1>5, <4>1
    <3> QED
      BY <1>1, <1>3, <3>1
  <2> QED
    BY <1>3, <2>1 DEF IsInjective
<1>13. ASSUME NEW m \in Nodes, m # n
       PROVE  /\ g[m].next = IF m = f[n].prev THEN f[n].next ELSE f[m].next
              /\ g[m].prev = IF m = f[n].next THEN f[n].prev ELSE f[m].prev
  <2>1. PICK r \in Node : r = f[m]
    OBVIOUS
  <2>2. g[m] = [r EXCEPT !.next = IF m = f[n].prev THEN f[n].next ELSE @,
                         !.prev = IF m = f[n].next THEN f[n].prev ELSE @]
    BY <1>13, <2>1 DEF g, Unlinked
  <2> QED
    BY <2>1, <2>2 DEF Node
<1>14. f[n].next = Link(s, j + 1) /\ f[n].prev = IF j = 1 THEN NULL ELSE s[j - 1]
  BY <1>4, <1>5
<1>15. ASSUME NEW i \in 1 .. Len(t)
       PROVE  g[t[i]].next = Link(t, i + 1)
  <2>1. /\ old(i) \in 1 .. Len(s) /\ t[i] = s[old(i)] /\ t[i] \in Nodes /\ t[i] # n
        /\ i + 1 \in Nat \ {0} /\ i \in Nat
    <3>1. i + 1 \in Nat \ {0} /\ i \in Nat
      BY <1>3
    <3> QED
      BY <1>9, <3>1
  <2>2. g[t[i]].next = IF t[i] = f[n].prev THEN f[n].next ELSE f[t[i]].next
    BY <1>13, <2>1
  <2>3. t[i] = f[n].prev <=> j # 1 /\ old(i) = j - 1
    <3>1. CASE j = 1
      BY <1>14, <2>1, <3>1, ListAssumption
    <3>2. CASE j # 1
      <4>1. f[n].prev = s[j - 1] /\ j - 1 \in 1 .. Len(s)
        BY <1>1, <1>4, <1>14, <3>2
      <4> QED
        BY <1>5, <2>1, <3>2, <4>1
    <3> QED
      BY <3>1, <3>2
  <2>4. f[t[i]].next = Link(s, old(i) + 1)
    BY <1>5, <2>1
  <2>5. Link(t, i + 1) = IF i + 1 < j THEN Link(s, i + 1) ELSE Link(s, i + 1 + 1)
    BY <1>10, <2>1
  <2>6. CASE i + 1 < j
    BY <1>1, <2>1, <2>2, <2>3, <2>4, <2>5, <2>6
  <2>7. CASE i + 1 = j
    <3>1. old(i) = i /\ i = j - 1 /\ j # 1 /\ i + 1 + 1 = j + 1
      BY <1>1, <2>1, <2>7
    <3>2. g[t[i]].next = Link(s, j + 1)
      BY <1>14, <2>2, <2>3, <3>1
    <3>3. Link(t, i + 1) = Link(s, i + 1 + 1)
      BY <1>1, <2>1, <2>5, <2>7
    <3> QED
      BY <3>1, <3>2, <3>3
  <2>8. CASE i + 1 > j
    <3>1. old(i) = i + 1 /\ old(i) # j - 1 /\ ~(i + 1 < j)
      BY <1>1, <2>1, <2>8
    <3> QED
      BY <2>2, <2>3, <2>4, <2>5, <3>1
  <2> QED
    BY <1>1, <2>1, <2>6, <2>7, <2>8
<1>16. ASSUME NEW i \in 1 .. Len(t)
       PROVE  g[t[i]].prev = IF i = 1 THEN NULL ELSE t[i - 1]
  <2>1. /\ old(i) \in 1 .. Len(s) /\ t[i] = s[old(i)] /\ t[i] \in Nodes /\ t[i] # n
        /\ t[i] # NULL /\ i \in Nat /\ i >= 1
    BY <1>3, <1>9, ListAssumption
  <2>2. g[t[i]].prev = IF t[i] = f[n].next THEN f[n].prev ELSE f[t[i]].prev
    BY <1>13, <2>1
  <2>3. t[i] = f[n].next <=> old(i) = j + 1
    <3>1. CASE j + 1 \in 1 .. Len(s)
      <4>1. f[n].next = s[j + 1]
        BY <1>14, <3>1 DEF Link
      <4> QED
        BY <1>5, <2>1, <3>1, <4>1
    <3>2. CASE j + 1 \notin 1 .. Len(s)
      <4>1. f[n].next = NULL
        BY <1>14, <3>2 DEF Link
      <4> QED
        BY <2>1, <3>2, <4>1
    <3> QED
      BY <3>1, <3>2
  <2>4. f[t[i]].prev = IF old(i) = 1 THEN NULL ELSE s[old(i) - 1]
    BY <1>5, <2>1
  <2>5. CASE i < j
    <3>1. old(i) = i /\ i # j + 1
      BY <1>1, <2>1, <2>5
    <3>2. CASE i = 1
      BY <2>2, <2>3, <2>4, <3>1, <3>2
    <3>3. CASE i # 1
      <4>1. i - 1 \in 1 .. Len(t) /\ i - 1 < j
        BY <1>1, <1>3, <2>1, <2>5, <3>3
      <4>2. t[i - 1] = s[i - 1]
        BY <1>7, <4>1
      <4> QED
        BY <2>2, <2>3, <2>4, <3>1, <3>3, <4>2
    <3> QED
      BY <3>2, <3>3
  <2>6. CASE i = j
    <3>1. old(i) = j + 1
      BY <1>1, <2>6
    <3>2. g[t[i]].prev = IF j = 1 THEN NULL ELSE s[j - 1]
      BY <1>14, <2>2, <2>3, <3>1
    <3>3. CASE j # 1
      <4>1. j - 1 \in 1 .. Len(t) /\ j - 1 < j
        BY <1>1, <1>4, <1>6, <3>3
      <4>2. t[j - 1] = s[j - 1]
        BY <1>7, <4>1
      <4> QED
        BY <2>6, <3>2, <3>3, <4>2
    <3> QED
      BY <2>6, <3>2, <3>3
  <2>7. CASE i > j
    <3>a. old(i) = i + 1 /\ i # j /\ i \in Nat /\ i >= 1 /\ i > 1
      BY <1>1, <2>1, <2>7
    <3>1. old(i) = i + 1 /\ i + 1 # j + 1 /\ i + 1 # 1 /\ i # 1 /\ i + 1 - 1 = i
      BY <1>1, <3>a
    <3>2. i - 1 \in 1 .. Len(t) /\ ~(i - 1 < j) /\ i - 1 + 1 = i
      BY <1>1, <1>3, <2>1, <2>7
    <3>3. t[i - 1] = s[i]
      BY <1>8, <3>2
    <3> QED
      BY <2>2, <2>3, <2>4, <3>1, <3>3
  <2> QED
    BY <1>1, <2>1, <2>5, <2>6, <2>7
<1>17. (IF head = n THEN f[n].next ELSE head) = Link(t, 1)
  <2>1. Link(t, 1) = IF 1 < j THEN Link(s, 1) ELSE Link(s, 1 + 1)
    BY <1>10
  <2>2. 1 \in 1 .. Len(s) /\ head = s[1]
    BY <1>1, <1>5 DEF Link
  <2>3. CASE j = 1
    BY <1>4, <1>14, <2>1, <2>2, <2>3
  <2>4. CASE j # 1
    <3>1. head # n /\ 1 < j
      BY <1>1, <1>4, <1>5, <2>2, <2>4
    <3> QED
      BY <1>5, <2>1, <3>1
  <2> QED
    BY <2>3, <2>4
<1>18. Chained(g, IF head = n THEN f[n].next ELSE head, t, NULL)
  BY <1>3, <1>12, <1>15, <1>16, <1>17 DEF Chained, Follows
<1> QED
  BY <1>11, <1>18 DEF s, t, g
----------------------------------------------------------------------------
(* TimerList keeps to the guards                                           *)

\* The inductive invariant.
Sound == ListTypeOK /\ Guarded /\ Begun /\ Filled

LInv == Sound /\ \E p, a \in Seq(Nodes) : Whole(p, a)

\* Every statement is a step of the guards or leaves them alone.
LEMMA ListStepsGuards == [ListNext]_allVars => [Next]_vars
<1> SUFFICES ASSUME [ListNext]_allVars PROVE [Next]_vars
  OBVIOUS
<1>1. ASSUME NEW c \in Ctx, Api(c) PROVE [Next]_vars
  <2>1. CASE Enter(c)
    BY <2>1 DEF Enter, Next, Step, Scope
  <2>2. CASE GuardStep(c)
    BY <2>2 DEF GuardStep, Next, Step
  <2>3. CASE Leave(c)
    BY <2>3 DEF Leave, Next, Step, Scope
  <2>4. CASE New(c) \/ LinkNext(c) \/ LinkBack(c) \/ Fill(c) \/ LinkHead(c) \/ Remove(c)
    <3>1. UNCHANGED vars
      BY <2>4 DEF New, LinkNext, LinkBack, Fill, LinkHead, Remove
    <3> QED
      BY <3>1
  <2> QED
    BY <1>1, <2>1, <2>2, <2>3, <2>4 DEF Api
<1>2. CASE RaiseIrq
  BY <1>2 DEF RaiseIrq, Next
<1>3. CASE TimerIrq
  BY <1>3 DEF TimerIrq, Next
<1>4. CASE HandlerReturn
  BY <1>4 DEF HandlerReturn, Next
<1>5. CASE Tick \/ CountNode \/ Call \/ Return \/ Unlink \/ Done
  <2>1. UNCHANGED vars
    BY <1>5 DEF Tick, CountNode, Call, Return, Unlink, Done, Visiting, InHandler
  <2> QED
    BY <2>1
<1>6. CASE UNCHANGED allVars
  BY <1>6 DEF allVars
<1> QED
  BY <1>1, <1>2, <1>3, <1>4, <1>5, <1>6 DEF ListNext, Handler

\* The composition only does to the guards what IntGuard's steps do: every
\* theorem above holds of it.
THEOREM ListObeysGuards == ListSpec => Spec
<1>1. ListInit => Init
  BY DEF ListInit
<1> QED
  BY <1>1, ListStepsGuards, PTL DEF ListSpec, Spec

\* The pairing of the two state machines' control states.
LEMMA GuardedStep ==
  ASSUME ListTypeOK, Guarded, IInv, [ListNext]_allVars
  PROVE  Guarded'
<1> USE DEF Ctx
<1>t. /\ ctx \in Ctx /\ pc \in [Ctx -> PCs] /\ held \in [Ctx -> Nat] /\ stmt \in [Ctx -> Stmts]
  BY DEF ListTypeOK, TypeOK
<1>g. /\ ctx = "main" => /\ pc["irq"] = "run" /\ held["irq"] = 0
                         /\ ifl => held["main"] = 0
      /\ ctx = "irq" => held["main"] = 0
      /\ \A c \in Ctx : pc[c] = "uncount" => cli_count > 0
      /\ cli_count \in Int
  BY DEF IInv, MainInv, IrqInv, NoPanic, TypeOK
<1>1. ASSUME NEW c \in Ctx, Api(c) PROVE Guarded'
  <2>1. CASE Enter(c)
    <3>1. /\ stmt[c] = "out" /\ stmt' = [stmt EXCEPT ![c] = "in"] /\ (c = "irq" => at = "call")
          /\ ctx = c /\ pc' = [pc EXCEPT ![c] = "clear"]
          /\ UNCHANGED <<held, ctx, at>>
      BY <2>1 DEF Enter, Proceed, Construct, Goto, cpu, listVars
    <3> QED
      BY <1>t, <3>1 DEF Guarded
  <2>2. CASE GuardStep(c)
    <3>1. UNCHANGED <<stmt, at>> /\ ctx = c
      BY <2>2 DEF GuardStep, apiVars, listVars, Progress, ClearIF, CountUp, CountDown,
                  EnableIF, Die, Goto
    <3>2. CASE ClearIF(c)
      <4>1. pc[c] = "clear" /\ pc' = [pc EXCEPT ![c] = "count"] /\ UNCHANGED <<held, ctx>>
        BY <3>2 DEF ClearIF, Goto
      <4> QED
        BY <1>t, <3>1, <4>1 DEF Guarded
    <3>3. CASE CountUp(c)
      <4>1. /\ pc[c] = "count" /\ pc' = [pc EXCEPT ![c] = "run"] /\ UNCHANGED ctx
            /\ held' = [held EXCEPT ![c] = @ + 1]
        BY <3>3 DEF CountUp, Goto, cpu
      <4> QED
        BY <1>t, <3>1, <4>1 DEF Guarded
    <3>4. CASE CountDown(c)
      <4>1. pc[c] = "uncount" /\ cli_count - 1 >= 0
        BY <1>g, <3>4 DEF CountDown, Goto
      <4>2. pc' = [pc EXCEPT ![c] = "enable"] /\ UNCHANGED <<held, ctx>>
        BY <3>4, <4>1 DEF CountDown, Goto, cpu
      <4> QED
        BY <1>t, <3>1, <4>1, <4>2 DEF Guarded
    <3>5. CASE EnableIF(c)
      <4>1. pc[c] = "enable" /\ pc' = [pc EXCEPT ![c] = "run"] /\ UNCHANGED <<held, ctx>>
        BY <3>5 DEF EnableIF, Goto
      <4> QED
        BY <1>t, <3>1, <4>1 DEF Guarded
    <3>6. CASE Die(c)
      <4>1. pc[c] = "panic"
        BY <3>6 DEF Die, Goto
      <4>2. stmt[c] \in Stmts /\ c \in Ctx
        BY <1>t
      <4> QED
        BY <4>1, <4>2 DEF Guarded
    <3> QED
      BY <2>2, <3>2, <3>3, <3>4, <3>5, <3>6 DEF GuardStep, Progress
  <2>3. CASE Leave(c)
    <3>1. /\ stmt[c] = "done" /\ stmt' = [stmt EXCEPT ![c] = "out"] /\ UNCHANGED <<at, ctx>>
          /\ ctx = c /\ pc[c] = "run" /\ pc' = [pc EXCEPT ![c] = "uncount"]
          /\ held' = [held EXCEPT ![c] = @ - 1]
      BY <2>3 DEF Leave, Proceed, Destroy, Goto, cpu, listVars
    <3> QED
      BY <1>t, <3>1 DEF Guarded
  <2>4. CASE New(c) \/ LinkNext(c) \/ LinkBack(c) \/ Fill(c) \/ LinkHead(c) \/ Remove(c)
    <3>1. /\ UNCHANGED <<at, ctx, pc, held>> /\ ctx = c /\ pc[c] = "run"
          /\ \E s \in Stmts \ {"out"}, t \in Stmts \ {"out", "in"} :
               stmt[c] = s /\ stmt' = [stmt EXCEPT ![c] = t]
      BY <2>4 DEF New, LinkNext, LinkBack, Fill, LinkHead, Remove, Running, Proceed,
                  vars, cpu, Stmts
    <3>2. PICK s \in Stmts \ {"out"}, t \in Stmts \ {"out", "in"} :
            stmt[c] = s /\ stmt' = [stmt EXCEPT ![c] = t]
      BY <3>1
    <3>3. held[c] = 1
      BY <3>1, <3>2 DEF Guarded
    <3>4. stmt'[c] = t /\ \A d \in Ctx : d # c => stmt'[d] = stmt[d]
      BY <1>t, <3>2
    <3>5. \A d \in Ctx : /\ stmt'[d] = "out" => held[d] = 0 /\ pc[d] \in {"run", "uncount", "enable"}
                         /\ stmt'[d] = "in" => \/ held[d] = 0 /\ pc[d] \in {"clear", "count"}
                                               \/ held[d] = 1 /\ pc[d] = "run"
                         /\ stmt'[d] \notin {"out", "in"} => held[d] = 1 /\ pc[d] = "run"
      <4> TAKE d \in Ctx
      <4>1. CASE d = c
        BY <3>1, <3>3, <3>4, <4>1
      <4>2. CASE d # c
        BY <3>4, <4>2 DEF Guarded
      <4> QED
        BY <4>1, <4>2
    <3>6. stmt'["irq"] # "out" => at = "call"
      BY <3>1, <3>2, <3>4 DEF Guarded
    <3> QED
      BY <3>1, <3>5, <3>6 DEF Guarded
  <2> QED
    BY <1>1, <2>1, <2>2, <2>3, <2>4 DEF Api
<1>2. CASE RaiseIrq
  BY <1>2 DEF RaiseIrq, Raise, Guarded, listVars, apiVars
<1>3. CASE TimerIrq
  <2>1. /\ ctx = "main" /\ ifl /\ ctx' = "irq" /\ at' = "enter"
        /\ UNCHANGED <<stmt, pc, held>>
    BY <1>3 DEF TimerIrq, Interrupt, apiVars
  <2>2. stmt["irq"] = "out"
    BY <2>1 DEF Guarded
  <2> QED
    BY <1>t, <2>1, <2>2 DEF Guarded
<1>4. CASE HandlerReturn
  <2>1. /\ at = "exit" /\ ctx = "irq" /\ ctx' = "main" /\ at' = "idle"
        /\ UNCHANGED <<stmt, pc, held>>
    BY <1>4 DEF HandlerReturn, InterruptReturn, apiVars
  <2> QED
    BY <1>t, <2>1 DEF Guarded
<1>5. CASE Tick \/ CountNode \/ Call \/ Return \/ Unlink \/ Done
  <2>1. /\ ctx = "irq" /\ stmt["irq"] = "out" /\ at' # "idle" /\ UNCHANGED <<stmt, ctx, pc, held>>
    BY <1>5 DEF Tick, CountNode, Call, Return, Unlink, Done, Visiting, InHandler, Running,
                vars, cpu, apiVars
  <2> QED
    BY <2>1 DEF Guarded
<1>6. CASE UNCHANGED allVars
  BY <1>6 DEF allVars, vars, cpu, listVars, apiVars, Guarded
<1> QED
  BY <1>1, <1>2, <1>3, <1>4, <1>5, <1>6 DEF ListNext, Handler

----------------------------------------------------------------------------
(* The list through each step                                              *)

\* Records of the heap, for the stores that change some fields of one.
LEMMA StoreTyped ==
  ASSUME NEW f \in [Nodes -> Node], NEW g, NEW n, NEW r \in Node,
         g = [f EXCEPT ![n] = r]
  PROVE  g \in [Nodes -> Node]
OBVIOUS

\* What the invariant says of the list, taken apart.
LEMMA WholeFacts ==
  ASSUME ListTypeOK, NEW p, NEW a, Whole(p, a)
  PROVE  /\ p \in Seq(Nodes) /\ a \in Seq(Nodes) /\ p \o a \in Seq(Nodes)
         /\ \A n \in Range(p \o a) : n \in Nodes /\ node[n].allocated
         /\ InWalk => cur = Link(a, 1)
         /\ InWalk /\ cur # NULL => /\ a # <<>> /\ cur \in Nodes /\ cur = Head(a)
                                    /\ cur \in Range(p \o a)
                                    /\ node[cur].next = Link(Tail(a), 1)
         /\ InWalk /\ cur = NULL => a = <<>>
<1>1. p \in Seq(Nodes) /\ a \in Seq(Nodes) /\ p \o a \in Seq(Nodes)
  BY DEF Whole
<1>2. \A n \in Range(p \o a) : n \in Nodes
  BY <1>1 DEF Range
<1>3. \A n \in Range(p \o a) : node[n].allocated
  BY <1>2 DEF Whole, Allocated
<1>4. InWalk => cur = Link(a, 1)
  BY DEF Whole
<1>5. InWalk /\ cur # NULL => a # <<>>
  BY <1>1, <1>4, LinkFacts
<1>6. ASSUME InWalk, a # <<>>
      PROVE  /\ cur \in Nodes /\ cur = Head(a) /\ cur \in Range(p \o a)
             /\ node[cur].next = Link(Tail(a), 1)
  <2>1. /\ Head(a) \in Nodes /\ Head(a) = Link(a, 1) /\ Head(a) \in Range(p \o a)
        /\ Len(p) + 1 \in 1 .. Len(p \o a) /\ Head(a) = (p \o a)[Len(p) + 1]
        /\ Link(Tail(a), 1) = Link(p \o a, Len(p) + 2)
    BY <1>1, <1>6, SplitFacts
  <2>2. \A i \in 1 .. Len(p \o a) : node[(p \o a)[i]].next = Link(p \o a, i + 1)
    BY DEF Whole, Chained, Follows
  <2>3. Len(p) + 1 + 1 = Len(p) + 2
    BY <1>1
  <2> QED
    BY <1>4, <1>6, <2>1, <2>2, <2>3
<1>7. InWalk /\ cur = NULL => a = <<>>
  BY <1>1, <1>4, LinkFacts
<1> QED
  BY <1>1, <1>2, <1>3, <1>4, <1>5, <1>6, <1>7

\* Steps that touch no field of the list and come with no add() under way.
LEMMA WholeFrame ==
  ASSUME ListTypeOK, NEW p, NEW a, Whole(p, a), ~Building, ~Building',
         timer_head' = timer_head, node' \in [Nodes -> Node],
         \A n \in Nodes : /\ node'[n].next = node[n].next
                          /\ node'[n].prev = node[n].prev
                          /\ node'[n].allocated = node[n].allocated
  PROVE  /\ Chained(node', timer_head', p \o a, Before')
         /\ Allocated(node') = Range(p \o a) \cup UnderWay'
         /\ Building' => ptr'[ctx'] \notin Range(p \o a)
<1>1. Before = NULL /\ UnderWay = {} /\ Before' = NULL /\ UnderWay' = {}
  BY DEF Before, UnderWay, Building
<1>2. PICK f : f = node
  OBVIOUS
<1>3. PICK g : g = node'
  OBVIOUS
<1>4. PICK h : h = timer_head
  OBVIOUS
<1>5. Chained(f, h, p \o a, NULL)
  BY <1>1, <1>2, <1>4 DEF Whole
<1>6. \A n \in Range(p \o a) : g[n].next = f[n].next /\ g[n].prev = f[n].prev
  BY <1>2, <1>3, WholeFacts
<1>7. Chained(g, h, p \o a, NULL)
  BY <1>5, <1>6, ChainFrame
<1>8. Allocated(node') = Allocated(node)
  BY DEF Allocated
<1> QED
  BY <1>1, <1>3, <1>4, <1>7, <1>8 DEF Whole

\* A step after which the list is that of p and a.
Becomes(p, a) == ListTypeOK' /\ Begun' /\ Filled' /\ Whole(p, a)'

\* Steps that store nothing to the heap.
LEMMA QuietStep ==
  ASSUME Sound, TypeOK', NEW p, NEW a, Whole(p, a), ~Building, ~Building',
         UNCHANGED <<system_tick, timer_head, node, cur>>,
         stmt' \in [Ctx -> Stmts], ptr' \in [Ctx -> Pointers],
         at' \in {"idle", "enter", "walk", "call", "exit"},
         at' = "walk" => at = "walk", at' = "call" => at = "call",
         ~InWalk' => ~InWalk \/ cur = NULL
  PROVE  Becomes(p, a)
<1> USE DEF Sound
<1>1. ListTypeOK'
  BY DEF ListTypeOK
<1>2. Begun' /\ Filled'
  BY DEF Begun, Filled, Building
<1>3. /\ Chained(node', timer_head', p \o a, Before')
      /\ Allocated(node') = Range(p \o a) \cup UnderWay'
      /\ Building' => ptr'[ctx'] \notin Range(p \o a)
  <2>1. node' \in [Nodes -> Node] /\ node' = node /\ timer_head' = timer_head
    BY DEF ListTypeOK
  <2> QED
    BY <2>1, WholeFrame
<1>4. p \in Seq(Nodes) /\ a \in Seq(Nodes)
  BY WholeFacts
<1>5. IF InWalk' THEN cur' = Link(a, 1) ELSE a = <<>>
  <2>1. InWalk' => InWalk
    BY DEF InWalk
  <2>2. IF InWalk THEN cur = Link(a, 1) ELSE a = <<>>
    BY DEF Whole
  <2>3. InWalk /\ cur = NULL => a = <<>>
    BY WholeFacts
  <2> QED
    BY <2>1, <2>2, <2>3
<1>6. at' = "call" => a # <<>>
  BY DEF Whole
<1> QED
  BY <1>1, <1>2, <1>3, <1>4, <1>5, <1>6 DEF Becomes, Whole

\* The steps between which nothing is linked.
LEMMA ControlSteps ==
  ASSUME Sound, IInv, TypeOK', Guarded', NEW p, NEW a, Whole(p, a),
         \/ \E c \in Ctx : Enter(c) \/ GuardStep(c) \/ Leave(c)
         \/ TimerIrq \/ HandlerReturn \/ Done
  PROVE  Becomes(p, a)
<1> USE DEF Ctx
<1>t. ctx \in Ctx /\ stmt \in [Ctx -> Stmts] /\ ptr \in [Ctx -> Pointers] /\ held \in [Ctx -> Nat]
      /\ at \in {"idle", "enter", "walk", "call", "exit"}
      /\ pc \in [Ctx -> PCs]
  BY DEF Sound, ListTypeOK, TypeOK
<1>1. ASSUME NEW c \in Ctx, Enter(c) \/ GuardStep(c) \/ Leave(c) PROVE Becomes(p, a)
  <2>1. CASE Enter(c)
    <3>1. /\ ctx = c /\ ctx' = c /\ stmt[c] = "out" /\ stmt' = [stmt EXCEPT ![c] = "in"]
          /\ UNCHANGED <<system_tick, timer_head, node, cur, at, ptr>>
      BY <2>1 DEF Enter, Proceed, Construct, Goto, cpu, listVars
    <3>2. stmt' \in [Ctx -> Stmts] /\ ~Building /\ ~Building'
      BY <1>t, <3>1 DEF Stmts, Building
    <3> QED
      BY <1>t, <3>1, <3>2, QuietStep DEF InWalk
  <2>2. CASE GuardStep(c)
    <3>1. /\ ctx = c /\ ctx' = c /\ pc[c] # "run"
          /\ UNCHANGED <<system_tick, timer_head, node, cur, at, stmt, ptr>>
      BY <2>2 DEF GuardStep, Progress, ClearIF, CountUp, CountDown, EnableIF, Die, Goto,
                  listVars, apiVars, cpu
    <3>2. ~Building /\ ~Building'
      BY <3>1 DEF Sound, Guarded, Building
    <3> QED
      BY <1>t, <3>1, <3>2, QuietStep DEF InWalk
  <2>3. CASE Leave(c)
    <3>1. /\ ctx = c /\ ctx' = c /\ stmt[c] = "done" /\ stmt' = [stmt EXCEPT ![c] = "out"]
          /\ ptr' = [ptr EXCEPT ![c] = NULL]
          /\ UNCHANGED <<system_tick, timer_head, node, cur, at>>
      BY <2>3 DEF Leave, Proceed, Destroy, Goto, cpu, listVars
    <3>2. /\ stmt' \in [Ctx -> Stmts] /\ ptr' \in [Ctx -> Pointers]
          /\ ~Building /\ ~Building'
      BY <1>t, <3>1 DEF Stmts, Pointers, Building
    <3> QED
      BY <1>t, <3>1, <3>2, QuietStep DEF InWalk
  <2> QED
    BY <1>1, <2>1, <2>2, <2>3
<1>2. CASE TimerIrq
  <2>1. /\ ctx = "main" /\ ctx' = "irq" /\ at' = "enter" /\ ifl
        /\ UNCHANGED <<system_tick, timer_head, node, cur, stmt, ptr>>
    BY <1>2 DEF TimerIrq, Interrupt, apiVars
  <2>2. held["main"] = 0
    BY <2>1 DEF IInv, MainInv
  <2>3. stmt["main"] \in {"out", "in"} /\ stmt["irq"] = "out" /\ at = "idle"
    BY <1>t, <2>1, <2>2 DEF Sound, Guarded
  <2>4. ~Building /\ ~Building'
    BY <2>1, <2>3 DEF Building
  <2> QED
    BY <1>t, <2>1, <2>3, <2>4, QuietStep DEF InWalk
<1>3. CASE HandlerReturn
  <2>1. /\ ctx = "irq" /\ ctx' = "main" /\ at = "exit" /\ at' = "idle"
        /\ UNCHANGED <<system_tick, timer_head, node, cur, stmt, ptr>>
    BY <1>3 DEF HandlerReturn, InterruptReturn, apiVars
  <2>2. held["main"] = 0
    BY <2>1 DEF IInv, IrqInv
  <2>3. stmt["main"] \in {"out", "in"} /\ stmt["irq"] = "out"
    BY <1>t, <2>1, <2>2 DEF Sound, Guarded
  <2>4. ~Building /\ ~Building'
    BY <2>1, <2>3 DEF Building
  <2> QED
    BY <1>t, <2>1, <2>4, QuietStep DEF InWalk
<1>4. CASE Done
  <2>1. /\ ctx = "irq" /\ ctx' = "irq" /\ at = "walk" /\ at' = "exit" /\ cur = NULL
        /\ stmt["irq"] = "out"
        /\ UNCHANGED <<system_tick, timer_head, node, cur, stmt, ptr>>
    BY <1>4 DEF Done, InHandler, Running, vars, cpu, apiVars
  <2>2. ~Building /\ ~Building'
    BY <2>1 DEF Building
  <2> QED
    BY <1>t, <2>1, <2>2, QuietStep DEF InWalk
<1> QED
  BY <1>1, <1>2, <1>3, <1>4

\* A raised request touches neither the list nor who is in the API.
LEMMA IdleSteps ==
  ASSUME Sound, TypeOK', NEW p, NEW a, Whole(p, a), RaiseIrq \/ UNCHANGED allVars
  PROVE  Becomes(p, a)
<1>1. UNCHANGED <<system_tick, timer_head, node, cur, at, stmt, ptr, ctx>>
  BY DEF RaiseIrq, Raise, listVars, apiVars, allVars, vars, cpu
<1>2. ListTypeOK'
  BY <1>1 DEF Sound, ListTypeOK
<1>3. Begun' /\ Filled' /\ Whole(p, a)'
  BY <1>1 DEF Sound, Begun, Filled, Whole, Building, UnderWay, Before, InWalk
<1> QED
  BY <1>2, <1>3 DEF Becomes

\* remove() only marks.
LEMMA RemoveStep ==
  ASSUME Sound, TypeOK', NEW p, NEW a, Whole(p, a), NEW c \in Ctx, Remove(c)
  PROVE  Becomes(p, a)
<1>1. /\ ctx = c /\ ctx' = c /\ stmt[c] = "in" /\ stmt' = [stmt EXCEPT ![c] = "done"]
      /\ UNCHANGED <<system_tick, timer_head, cur, at, ptr>>
  BY DEF Remove, Proceed, Running, vars, cpu
<1>2. PICK n \in Nodes : node' = [node EXCEPT ![n].deleted = TRUE]
  BY DEF Remove
<1>3. stmt \in [Ctx -> Stmts] /\ node \in [Nodes -> Node]
  BY DEF Sound, ListTypeOK
<1>4. stmt' \in [Ctx -> Stmts] /\ ~Building /\ ~Building'
  BY <1>1, <1>3 DEF Stmts, Building
<1>5. PICK r \in Node : r = node[n]
  BY <1>3
<1>6. [r EXCEPT !.deleted = TRUE] \in Node /\ node' = [node EXCEPT ![n] = [r EXCEPT !.deleted = TRUE]]
  BY <1>2, <1>5 DEF Node
<1>7. node' \in [Nodes -> Node]
  BY <1>3, <1>6, StoreTyped
<1>8. \A m \in Nodes : /\ node'[m].next = node[m].next
                       /\ node'[m].prev = node[m].prev
                       /\ node'[m].allocated = node[m].allocated
  <2>1. \A m \in Nodes : m # n => node'[m] = node[m]
    BY <1>3, <1>6
  <2>2. node'[n] = [r EXCEPT !.deleted = TRUE]
    BY <1>3, <1>6
  <2>3. /\ node'[n].next = r.next /\ node'[n].prev = r.prev
        /\ node'[n].allocated = r.allocated
    BY <2>2 DEF Node
  <2> QED
    BY <1>5, <2>1, <2>3
<1>9. /\ Chained(node', timer_head', p \o a, Before')
      /\ Allocated(node') = Range(p \o a) \cup UnderWay'
      /\ Building' => ptr'[ctx'] \notin Range(p \o a)
  BY <1>1, <1>4, <1>7, <1>8, WholeFrame DEF Sound
<1>10. Whole(p, a)'
  BY <1>1, <1>9 DEF Whole, InWalk
<1>11. ListTypeOK'
  BY <1>1, <1>4, <1>7 DEF Sound, ListTypeOK
<1>12. Begun' /\ Filled'
  BY <1>1, <1>4 DEF Begun, Filled, Building
<1> QED
  BY <1>10, <1>11, <1>12 DEF Becomes

\* Where the handler's own statements find the machine.
LEMMA HandlerAlone ==
  ASSUME Sound, NEW here \in {"enter", "walk", "call"}, InHandler(here)
  PROVE  /\ at = here /\ ~Building /\ ~Building'
         /\ UNCHANGED <<stmt, ptr, ctx>>
BY DEF InHandler, Running, Building, vars, cpu, apiVars

\* A visit that leaves the links alone moves at most the cursor.
LEMMA VisitStep ==
  ASSUME Sound, TypeOK', NEW p, NEW a, Whole(p, a), NEW here \in {"walk", "call"},
         InHandler(here), cur # NULL,
         NEW r, r \in Node, node' = [node EXCEPT ![cur] = r],
         r.next = node[cur].next, r.prev = node[cur].prev,
         r.allocated = node[cur].allocated,
         UNCHANGED <<system_tick, timer_head>>,
         \/ cur' = node[cur].next /\ at' = "walk"
         \/ cur' = cur /\ at' = "call"
  PROVE  /\ a # <<>> /\ cur = Head(a) /\ cur \in Nodes
         /\ at' = "walk" => Becomes(Append(p, Head(a)), Tail(a))
         /\ at' = "call" => Becomes(p, a)
<1>1. /\ at = here /\ ~Building /\ ~Building' /\ UNCHANGED <<stmt, ptr, ctx>>
  BY HandlerAlone
<1>2. /\ p \in Seq(Nodes) /\ a \in Seq(Nodes) /\ a # <<>> /\ cur = Head(a) /\ cur \in Nodes
      /\ cur = Link(a, 1) /\ node[cur].next = Link(Tail(a), 1)
  BY <1>1, WholeFacts DEF Sound, InWalk
<1>3. node \in [Nodes -> Node] /\ stmt \in [Ctx -> Stmts] /\ ptr \in [Ctx -> Pointers]
      /\ system_tick \in Word /\ timer_head \in Pointers /\ cur \in Pointers
  BY DEF Sound, ListTypeOK
<1>4. node' \in [Nodes -> Node] /\ node'[cur] = r /\ \A m \in Nodes : m # cur => node'[m] = node[m]
  BY <1>2, <1>3
<1>5. \A m \in Nodes : /\ node'[m].next = node[m].next
                       /\ node'[m].prev = node[m].prev
                       /\ node'[m].allocated = node[m].allocated
  BY <1>4
<1>6. /\ Chained(node', timer_head', p \o a, Before')
      /\ Allocated(node') = Range(p \o a) \cup UnderWay'
      /\ Building' => ptr'[ctx'] \notin Range(p \o a)
  BY <1>1, <1>4, <1>5, WholeFrame DEF Sound
<1>7. node[cur].next \in Pointers
  <2>1. PICK q \in Node : q = node[cur]
    BY <1>2, <1>3
  <2> QED
    BY <2>1 DEF Node
<1>8. ListTypeOK'
  BY <1>1, <1>3, <1>4, <1>7 DEF ListTypeOK
<1>9. Begun' /\ Filled'
  BY <1>1 DEF Begun, Filled, Building
<1>10. ASSUME at' = "walk" PROVE Becomes(Append(p, Head(a)), Tail(a))
  <2>1. /\ Append(p, Head(a)) \in Seq(Nodes) /\ Tail(a) \in Seq(Nodes)
        /\ Append(p, Head(a)) \o Tail(a) = p \o a
    BY <1>2, SplitFacts
  <2>2. cur' = Link(Tail(a), 1)
    BY <1>2, <1>10
  <2>3. Whole(Append(p, Head(a)), Tail(a))'
    BY <1>6, <1>10, <2>1, <2>2 DEF Whole, InWalk
  <2> QED
    BY <1>8, <1>9, <2>3 DEF Becomes
<1>11. ASSUME at' = "call" PROVE Becomes(p, a)
  <2>1. Whole(p, a)'
    BY <1>1, <1>2, <1>6, <1>11 DEF Whole, InWalk
  <2> QED
    BY <1>8, <1>9, <2>1 DEF Becomes
<1> QED
  BY <1>2, <1>10, <1>11

\* A word less one, or a word more, is a word.
LEMMA WordFacts ==
  /\ 0 \in Word
  /\ \A w \in Word : (w + 1) % Width \in Word /\ (w - 1) % Width \in Word
  /\ Intervals \subseteq Word
BY ListAssumption DEF Word

\* The record that each kind of visit stores.
LEMMA CountNodeStep ==
  ASSUME Sound, TypeOK', NEW p, NEW a, Whole(p, a), CountNode
  PROVE  /\ a # <<>> /\ cur = Head(a) /\ cur \in Nodes
         /\ Becomes(Append(p, Head(a)), Tail(a))
<1>1. /\ InHandler("walk") /\ cur # NULL
      /\ node' = [node EXCEPT ![cur].count_down = Counted]
      /\ cur' = node[cur].next /\ UNCHANGED <<system_tick, timer_head, at>>
  BY DEF CountNode, Visiting
<1>2. at = "walk" /\ at' = "walk"
  BY <1>1 DEF InHandler
<1>3. cur \in Nodes /\ node \in [Nodes -> Node]
  BY <1>1, <1>2, WholeFacts DEF Sound, ListTypeOK, InWalk
<1>4. PICK q \in Node : q = node[cur]
  BY <1>3
<1>5. Counted \in Word
  <2>1. q.count_down \in Word
    BY <1>4 DEF Node
  <2> QED
    BY <1>4, <2>1, WordFacts DEF Counted
<1>6. PICK k \in Word : k = Counted
  BY <1>5
<1> DEFINE r == [q EXCEPT !.count_down = k]
<1>7. /\ r \in Node /\ r.next = q.next /\ r.prev = q.prev /\ r.allocated = q.allocated
  BY DEF Node
<1>8. node' = [node EXCEPT ![cur] = r]
  BY <1>1, <1>4, <1>6
<1> HIDE DEF r
<1> QED
  BY <1>1, <1>2, <1>4, <1>7, <1>8, VisitStep

\* The count reaches zero: the cursor stays for the callback.
LEMMA CallStep ==
  ASSUME Sound, TypeOK', NEW p, NEW a, Whole(p, a), Call
  PROVE  a # <<>> /\ cur = Head(a) /\ cur \in Nodes /\ Becomes(p, a)
<1>1. /\ InHandler("walk") /\ cur # NULL
      /\ node' = [node EXCEPT ![cur].count_down = 0]
      /\ at' = "call" /\ UNCHANGED <<system_tick, timer_head, cur>>
  BY DEF Call, Visiting
<1>2. at = "walk"
  BY <1>1 DEF InHandler
<1>3. cur \in Nodes /\ node \in [Nodes -> Node]
  BY <1>1, <1>2, WholeFacts DEF Sound, ListTypeOK, InWalk
<1>4. PICK q \in Node : q = node[cur]
  BY <1>3
<1> DEFINE r == [q EXCEPT !.count_down = 0]
<1>5. r \in Node /\ r.next = q.next /\ r.prev = q.prev /\ r.allocated = q.allocated
  BY WordFacts DEF Node
<1>6. node' = [node EXCEPT ![cur] = r]
  BY <1>1, <1>4
<1> HIDE DEF r
<1> QED
  BY <1>1, <1>4, <1>5, <1>6, VisitStep

\* After the callback the cursor moves on, past what the callback added.
LEMMA ReturnStep ==
  ASSUME Sound, TypeOK', NEW p, NEW a, Whole(p, a), Return
  PROVE  /\ a # <<>> /\ cur = Head(a) /\ cur \in Nodes
         /\ Becomes(Append(p, Head(a)), Tail(a))
<1>1. /\ InHandler("call")
      /\ node' = [node EXCEPT ![cur].trigger_count = (@ + 1) % Width,
                              ![cur].count_down = node[cur].interval]
      /\ cur' = node[cur].next /\ at' = "walk" /\ UNCHANGED <<system_tick, timer_head>>
  BY DEF Return
<1>2. at = "call"
  BY <1>1 DEF InHandler
<1>3. cur # NULL
  <2>1. a # <<>> /\ cur = Link(a, 1) /\ a \in Seq(Nodes)
    BY <1>2 DEF Whole, InWalk
  <2> QED
    BY <2>1, LinkFacts
<1>4. cur \in Nodes /\ node \in [Nodes -> Node]
  BY <1>2, <1>3, WholeFacts DEF Sound, ListTypeOK, InWalk
<1>5. PICK q \in Node : q = node[cur]
  BY <1>4
<1>6. q.trigger_count \in Word /\ q.interval \in Word
  BY DEF Node
<1> DEFINE r == [q EXCEPT !.trigger_count = (@ + 1) % Width, !.count_down = q.interval]
<1>7. r \in Node /\ r.next = q.next /\ r.prev = q.prev /\ r.allocated = q.allocated
  <2>1. (q.trigger_count + 1) % Width \in Word
    BY <1>6, WordFacts
  <2> QED
    BY <1>6, <2>1 DEF Node
<1>8. node' = [node EXCEPT ![cur] = r]
  BY <1>1, <1>4, <1>5
<1> HIDE DEF r
<1> QED
  BY <1>1, <1>3, <1>5, <1>7, <1>8, VisitStep

\* The handler enters: all of the list is ahead.
LEMMA TickStep ==
  ASSUME Sound, TypeOK', NEW p, NEW a, Whole(p, a), Tick
  PROVE  a = <<>> /\ Becomes(<<>>, p)
<1>1. /\ InHandler("enter") /\ system_tick' = (system_tick + 1) % Width
      /\ cur' = timer_head /\ at' = "walk" /\ UNCHANGED <<timer_head, node>>
  BY DEF Tick
<1>2. at = "enter" /\ ~Building /\ ~Building' /\ UNCHANGED <<stmt, ptr, ctx>>
  BY <1>1, HandlerAlone
<1>3. a = <<>> /\ p \in Seq(Nodes)
  BY <1>2 DEF Whole, InWalk
<1>4. p \o a = p /\ <<>> \o p = p /\ <<>> \in Seq(Nodes)
  BY <1>3
<1>5. timer_head = Link(p, 1)
  BY <1>4 DEF Whole, Chained, Follows
<1>6. /\ Chained(node', timer_head', p \o a, Before')
      /\ Allocated(node') = Range(p \o a) \cup UnderWay'
      /\ Building' => ptr'[ctx'] \notin Range(p \o a)
  <2>1. node' \in [Nodes -> Node] /\ node' = node /\ timer_head' = timer_head
    BY <1>1 DEF Sound, ListTypeOK
  <2> QED
    BY <1>2, <2>1, WholeFrame DEF Sound
<1>7. Whole(<<>>, p)'
  <2>1. /\ Chained(node', timer_head', <<>> \o p, Before')
        /\ Allocated(node') = Range(<<>> \o p) \cup UnderWay'
        /\ Building' => ptr'[ctx'] \notin Range(<<>> \o p)
    BY <1>4, <1>6
  <2>2. InWalk' /\ cur' = Link(p, 1) /\ at' # "call"
    BY <1>1, <1>5 DEF InWalk
  <2> QED
    BY <1>3, <1>4, <2>1, <2>2 DEF Whole
<1>8. ListTypeOK'
  <2>1. system_tick' \in Word
    BY <1>1, WordFacts DEF Sound, ListTypeOK
  <2> QED
    BY <1>1, <1>2, <2>1 DEF Sound, ListTypeOK
<1>9. Begun' /\ Filled'
  BY <1>2 DEF Begun, Filled, Building
<1> QED
  BY <1>3, <1>7, <1>8, <1>9 DEF Becomes

\* The marked node leaves the list and the heap, and the cursor moves on.
LEMMA UnlinkStep ==
  ASSUME Sound, TypeOK', NEW p, NEW a, Whole(p, a), Unlink
  PROVE  /\ a # <<>> /\ cur = Head(a) /\ cur \in Nodes /\ Becomes(p, Tail(a))
         /\ Range(p \o Tail(a)) = Range(p \o a) \ {cur}
<1>1. /\ InHandler("walk") /\ cur # NULL
      /\ timer_head' = IF timer_head = cur THEN node[cur].next ELSE timer_head
      /\ node' = [m \in Nodes |-> IF m = cur THEN Zero ELSE Bypassed(cur, m)]
      /\ cur' = node[cur].next
      /\ UNCHANGED <<system_tick, at>>
  BY DEF Unlink, Visiting
<1>2. at = "walk" /\ ~Building /\ ~Building' /\ UNCHANGED <<stmt, ptr, ctx>>
  BY <1>1, HandlerAlone
<1>3. /\ p \in Seq(Nodes) /\ a \in Seq(Nodes) /\ a # <<>> /\ cur = Head(a) /\ cur \in Nodes
      /\ node[cur].next = Link(Tail(a), 1)
  BY <1>1, <1>2, WholeFacts DEF Sound, InWalk
<1>4. PICK f \in [Nodes -> Node] : f = node
  BY DEF Sound, ListTypeOK
<1>5. PICK n \in Nodes : n = cur
  BY <1>3
<1>6. PICK h \in Pointers : h = timer_head
  BY DEF Sound, ListTypeOK
<1>7. node' = Unlinked(f, n)
  BY <1>1, <1>4, <1>5 DEF Unlinked, Bypassed
<1>8. Before = NULL /\ UnderWay = {} /\ Before' = NULL /\ UnderWay' = {}
  BY <1>2 DEF Before, UnderWay, Building
<1>9. Chained(f, h, p \o a, NULL)
  BY <1>4, <1>6, <1>8 DEF Whole
<1>10. n = Head(a)
  BY <1>3, <1>5
<1>11. /\ Chained(Unlinked(f, n), IF h = n THEN f[n].next ELSE h, p \o Tail(a), NULL)
       /\ Range(p \o Tail(a)) = Range(p \o a) \ {n}
  BY <1>3, <1>9, <1>10, ChainUnlink
<1>12. timer_head' = IF h = n THEN f[n].next ELSE h
  BY <1>1, <1>4, <1>5, <1>6
<1>13. Chained(node', timer_head', p \o Tail(a), Before')
  BY <1>7, <1>8, <1>11, <1>12
<1>14. ASSUME NEW m \in Nodes
       PROVE  /\ Unlinked(f, n)[m] \in Node
              /\ Unlinked(f, n)[m].allocated = (m # n /\ f[m].allocated)
  <2>1. PICK r \in Node : r = f[m]
    OBVIOUS
  <2>2. PICK q \in Node : q = f[n]
    OBVIOUS
  <2>3. q.next \in Pointers /\ q.prev \in Pointers
    BY DEF Node
  <2>4. CASE m = n
    <3>1. Unlinked(f, n)[m] = Zero
      BY <2>4 DEF Unlinked
    <3>2. Zero \in Node
      BY WordFacts DEF Zero, Node, Pointers
    <3>3. Zero.allocated = FALSE
      BY DEF Zero
    <3> QED
      BY <2>4, <3>1, <3>2, <3>3
  <2>5. CASE m # n
    <3>1. Unlinked(f, n)[m] = [r EXCEPT !.next = IF m = q.prev THEN q.next ELSE @,
                                        !.prev = IF m = q.next THEN q.prev ELSE @]
      BY <2>1, <2>2, <2>5 DEF Unlinked
    <3>2. Unlinked(f, n)[m] \in Node /\ Unlinked(f, n)[m].allocated = r.allocated
      BY <2>3, <3>1 DEF Node
    <3>3. r.allocated \in BOOLEAN
      BY DEF Node
    <3> QED
      BY <2>1, <2>5, <3>2, <3>3
  <2> QED
    BY <2>4, <2>5
<1>15. node' \in [Nodes -> Node]
  <2>1. DOMAIN Unlinked(f, n) = Nodes /\ Unlinked(f, n) = [m \in Nodes |-> Unlinked(f, n)[m]]
    BY DEF Unlinked
  <2> QED
    BY <1>7, <1>14, <2>1
<1>16. Allocated(node') = Range(p \o Tail(a)) \cup UnderWay'
  <2>1. Allocated(node') = Allocated(f) \ {n}
    BY <1>7, <1>14 DEF Allocated
  <2>2. Allocated(f) = Range(p \o a)
    BY <1>4, <1>8 DEF Whole
  <2> QED
    BY <1>8, <1>11, <2>1, <2>2
<1>17. Tail(a) \in Seq(Nodes)
  BY <1>3
<1>18. Whole(p, Tail(a))'
  BY <1>1, <1>2, <1>3, <1>13, <1>16, <1>17 DEF Whole, InWalk
<1>19. ListTypeOK'
  <2>1. node[cur].next \in Pointers
    BY <1>3, <1>17, LinkFacts DEF Pointers, Link
  <2> QED
    BY <1>1, <1>2, <1>15, <2>1 DEF Sound, ListTypeOK
<1>20. Begun' /\ Filled'
  BY <1>2 DEF Begun, Filled, Building
<1> QED
  BY <1>3, <1>5, <1>11, <1>18, <1>19, <1>20 DEF Becomes

----------------------------------------------------------------------------
(* The list through the statements of add()                                *)

\* Stores to the node under construction are stores to none of the list.
LEMMA BuildFrame ==
  ASSUME ListTypeOK, NEW p, NEW a, Whole(p, a), Building, ptr[ctx] \in Nodes,
         NEW r \in Node, r.allocated, node' = [node EXCEPT ![ptr[ctx]] = r],
         UNCHANGED <<timer_head, ptr, ctx>>, Building', Before' = Before
  PROVE  /\ node' \in [Nodes -> Node] /\ node'[ptr[ctx]] = r
         /\ Chained(node', timer_head', p \o a, Before')
         /\ Allocated(node') = Range(p \o a) \cup UnderWay'
         /\ Building' => ptr'[ctx'] \notin Range(p \o a)
<1>1. node \in [Nodes -> Node]
  BY DEF ListTypeOK
<1>2. PICK n \in Nodes : n = ptr[ctx]
  OBVIOUS
<1>3. PICK f \in [Nodes -> Node] : f = node
  BY <1>1
<1>4. PICK g : g = node'
  OBVIOUS
<1>5. PICK h : h = timer_head
  OBVIOUS
<1>6. PICK b : b = Before
  OBVIOUS
<1>7. g = [f EXCEPT ![n] = r]
  BY <1>2, <1>3, <1>4
<1>8. g \in [Nodes -> Node] /\ g[n] = r /\ \A m \in Nodes : m # n => g[m] = f[m]
  BY <1>7
<1>9. n \notin Range(p \o a) /\ \A m \in Range(p \o a) : m \in Nodes
  BY <1>2, WholeFacts DEF Whole
<1>10. Chained(g, h, p \o a, b)
  <2>1. Chained(f, h, p \o a, b)
    BY <1>3, <1>5, <1>6 DEF Whole
  <2>2. \A m \in Range(p \o a) : g[m].next = f[m].next /\ g[m].prev = f[m].prev
    BY <1>8, <1>9
  <2> QED
    BY <2>1, <2>2, ChainFrame
<1>11. Allocated(node') = Allocated(node)
  <2>1. n \in Allocated(node)
    BY <1>2 DEF Whole, UnderWay
  <2>2. \A m \in Nodes : g[m].allocated <=> f[m].allocated
    BY <1>3, <1>8, <2>1 DEF Allocated
  <2> QED
    BY <1>3, <1>4, <2>2 DEF Allocated
<1>12. UnderWay' = UnderWay
  BY DEF UnderWay
<1> QED
  BY <1>2, <1>4, <1>5, <1>6, <1>8, <1>9, <1>10, <1>11, <1>12 DEF Whole

\* The node of an add() is fresh.
LEMMA NewStep ==
  ASSUME Sound, TypeOK', NEW p, NEW a, Whole(p, a), NEW c \in Ctx, New(c)
  PROVE  Becomes(p, a)
<1>1. /\ ctx = c /\ ctx' = c /\ stmt[c] = "in" /\ stmt' = [stmt EXCEPT ![c] = "next"]
      /\ UNCHANGED <<system_tick, timer_head, cur, at>>
  BY DEF New, Proceed, Running, vars, cpu
<1>2. PICK n \in Nodes : /\ ~node[n].allocated
                         /\ node' = [node EXCEPT ![n] = [Zero EXCEPT !.allocated = TRUE]]
                         /\ ptr' = [ptr EXCEPT ![c] = n]
  BY DEF New
<1>3. /\ stmt \in [Ctx -> Stmts] /\ ptr \in [Ctx -> Pointers]
      /\ node \in [Nodes -> Node]
  BY DEF Sound, ListTypeOK
<1>4. /\ stmt' \in [Ctx -> Stmts] /\ ptr' \in [Ctx -> Pointers]
      /\ stmt'[ctx'] = "next" /\ ptr'[ctx'] = n /\ stmt[ctx] = "in"
  BY <1>1, <1>2, <1>3 DEF Stmts, Pointers
<1>5. /\ Before = NULL /\ UnderWay = {} /\ Building'
      /\ Before' = NULL /\ UnderWay' = {n}
  BY <1>4 DEF Before, UnderWay, Building
<1> DEFINE r == [Zero EXCEPT !.allocated = TRUE]
<1>6. /\ r \in Node /\ r.allocated /\ r.prev = NULL /\ r.next = NULL
      /\ ~r.deleted /\ r.trigger_count = 0
  BY WordFacts DEF Zero, Node, Pointers
<1>7. node' = [node EXCEPT ![n] = r]
  BY <1>2
<1> HIDE DEF r
<1>8. PICK f \in [Nodes -> Node] : f = node
  BY <1>3
<1>9. PICK g : g = node'
  OBVIOUS
<1>10. PICK h : h = timer_head
  OBVIOUS
<1>11. g \in [Nodes -> Node] /\ g[n] = r /\ \A m \in Nodes : m # n => g[m] = f[m]
  BY <1>6, <1>7, <1>8, <1>9
<1>12. n \notin Range(p \o a) /\ \A m \in Range(p \o a) : m \in Nodes
  BY <1>2, WholeFacts DEF Sound
<1>13. Chained(g, h, p \o a, NULL)
  <2>1. Chained(f, h, p \o a, NULL)
    BY <1>5, <1>8, <1>10 DEF Whole
  <2>2. \A m \in Range(p \o a) : g[m].next = f[m].next /\ g[m].prev = f[m].prev
    BY <1>11, <1>12
  <2> QED
    BY <2>1, <2>2, ChainFrame
<1>14. Allocated(g) = Allocated(f) \cup {n}
  BY <1>6, <1>11 DEF Allocated
<1>15. Allocated(f) = Range(p \o a)
  BY <1>5, <1>8 DEF Whole
<1>16. Whole(p, a)'
  BY <1>1, <1>4, <1>5, <1>9, <1>10, <1>12, <1>13, <1>14, <1>15 DEF Whole, InWalk
<1>17. ListTypeOK'
  BY <1>1, <1>4, <1>9, <1>11 DEF Sound, ListTypeOK
<1>18. Begun' /\ Filled'
  BY <1>4, <1>6, <1>9, <1>11 DEF Begun, Filled
<1> QED
  BY <1>16, <1>17, <1>18 DEF Becomes

\* Its next is the head of the list.
LEMMA LinkNextStep ==
  ASSUME Sound, TypeOK', NEW p, NEW a, Whole(p, a), NEW c \in Ctx, LinkNext(c)
  PROVE  Becomes(p, a)
<1>1. /\ ctx = c /\ ctx' = c /\ stmt[c] = "next" /\ stmt' = [stmt EXCEPT ![c] = "back"]
      /\ node' = [node EXCEPT ![ptr[c]].next = timer_head]
      /\ UNCHANGED <<system_tick, timer_head, cur, at, ptr>>
  BY DEF LinkNext, Proceed, Running, vars, cpu
<1>2. /\ stmt \in [Ctx -> Stmts] /\ node \in [Nodes -> Node] /\ timer_head \in Pointers
  BY DEF Sound, ListTypeOK
<1>3. stmt' \in [Ctx -> Stmts] /\ stmt'[ctx'] = "back" /\ stmt[ctx] = "next"
  BY <1>1, <1>2 DEF Stmts
<1>4. Building /\ Building' /\ Before' = Before
  BY <1>3 DEF Building, Before
<1>5. /\ ptr[ctx] \in Nodes /\ node[ptr[ctx]].prev = NULL /\ ~node[ptr[ctx]].deleted
      /\ node[ptr[ctx]].trigger_count = 0
  BY <1>4 DEF Sound, Begun
<1>6. node[ptr[ctx]].allocated
  BY <1>4, <1>5 DEF Whole, UnderWay, Allocated
<1>7. PICK q \in Node : q = node[ptr[ctx]]
  BY <1>2, <1>5
<1>8. PICK h \in Pointers : h = timer_head
  BY <1>2
<1> DEFINE r == [q EXCEPT !.next = h]
<1>9. /\ r \in Node /\ r.allocated = q.allocated /\ r.prev = q.prev /\ r.deleted = q.deleted
      /\ r.trigger_count = q.trigger_count /\ r.next = h
  BY DEF Node
<1>10. node' = [node EXCEPT ![ptr[ctx]] = r]
  BY <1>1, <1>7, <1>8
<1> HIDE DEF r
<1>11. /\ node' \in [Nodes -> Node] /\ node'[ptr[ctx]] = r
       /\ Chained(node', timer_head', p \o a, Before')
       /\ Allocated(node') = Range(p \o a) \cup UnderWay'
       /\ Building' => ptr'[ctx'] \notin Range(p \o a)
  BY <1>1, <1>4, <1>5, <1>6, <1>7, <1>9, <1>10, BuildFrame DEF Sound
<1>12. Whole(p, a)'
  BY <1>1, <1>11 DEF Whole, InWalk
<1>13. ListTypeOK'
  BY <1>1, <1>3, <1>11 DEF Sound, ListTypeOK
<1>14. Begun' /\ Filled'
  BY <1>1, <1>3, <1>5, <1>7, <1>8, <1>9, <1>11 DEF Begun, Filled
<1> QED
  BY <1>12, <1>13, <1>14 DEF Becomes

\* Now the prev of the first node leads outside the list.
LEMMA LinkBackStep ==
  ASSUME Sound, TypeOK', NEW p, NEW a, Whole(p, a), NEW c \in Ctx, LinkBack(c)
  PROVE  Becomes(p, a)
<1>1. /\ ctx = c /\ ctx' = c /\ stmt[c] = "back" /\ stmt' = [stmt EXCEPT ![c] = "fill"]
      /\ node' = IF timer_head # NULL THEN [node EXCEPT ![timer_head].prev = ptr[c]] ELSE node
      /\ UNCHANGED <<system_tick, timer_head, cur, at, ptr>>
  BY DEF LinkBack, Proceed, Running, vars, cpu
<1>2. /\ stmt \in [Ctx -> Stmts] /\ node \in [Nodes -> Node] /\ timer_head \in Pointers
  BY DEF Sound, ListTypeOK
<1>3. stmt' \in [Ctx -> Stmts] /\ stmt'[ctx'] = "fill" /\ stmt[ctx] = "back"
  BY <1>1, <1>2 DEF Stmts
<1>4. Building /\ Building' /\ Before = NULL /\ Before' = ptr[ctx]
  BY <1>1, <1>3 DEF Building, Before
<1>5. /\ ptr[ctx] \in Nodes /\ node[ptr[ctx]].prev = NULL /\ ~node[ptr[ctx]].deleted
      /\ node[ptr[ctx]].trigger_count = 0 /\ node[ptr[ctx]].next = timer_head
  BY <1>3, <1>4 DEF Sound, Begun
<1>6. PICK n \in Nodes : n = ptr[ctx]
  BY <1>5
<1>7. PICK f \in [Nodes -> Node] : f = node
  BY <1>2
<1>8. PICK h \in Pointers : h = timer_head
  BY <1>2
<1>9. PICK g : g = node'
  OBVIOUS
<1>10. g = IF h # NULL THEN [f EXCEPT ![h].prev = n] ELSE f
  BY <1>1, <1>6, <1>7, <1>8, <1>9
<1>11. Chained(f, h, p \o a, NULL)
  BY <1>4, <1>7, <1>8 DEF Whole
<1>12. Chained(g, h, p \o a, n)
  BY <1>10, <1>11, ChainBack
<1>13. n # h
  <2>1. h # NULL => h \in Range(p \o a)
    <3>1. p \o a \in Seq(Nodes) /\ h = Link(p \o a, 1)
      BY <1>11, WholeFacts DEF Chained, Follows, Sound
    <3>2. h # NULL => 1 \in 1 .. Len(p \o a) /\ h = (p \o a)[1]
      BY <3>1 DEF Link
    <3> QED
      BY <3>1, <3>2 DEF Range
  <2>2. n \notin Range(p \o a)
    BY <1>4, <1>6 DEF Whole
  <2> QED
    BY <2>1, <2>2, ListAssumption
<1>14. /\ g \in [Nodes -> Node] /\ g[n] = f[n]
       /\ \A m \in Nodes : g[m].allocated = f[m].allocated
  <2>1. CASE h = NULL
    BY <1>10, <2>1
  <2>2. CASE h # NULL
    <3>1. h \in Nodes
      BY <2>2 DEF Pointers
    <3>2. PICK q \in Node : q = f[h]
      BY <3>1
    <3>3. g = [f EXCEPT ![h] = [q EXCEPT !.prev = n]]
      BY <1>10, <2>2, <3>2
    <3>4. [q EXCEPT !.prev = n] \in Node /\ [q EXCEPT !.prev = n].allocated = q.allocated
      BY DEF Node, Pointers
    <3> QED
      BY <1>13, <3>1, <3>2, <3>3, <3>4
  <2> QED
    BY <2>1, <2>2
<1>15. Allocated(g) = Allocated(f)
  BY <1>14 DEF Allocated
<1>16. UnderWay' = UnderWay
  BY <1>1, <1>4 DEF UnderWay
<1>17. Whole(p, a)'
  BY <1>1, <1>4, <1>6, <1>7, <1>8, <1>9, <1>12, <1>15, <1>16 DEF Whole, InWalk
<1>18. ListTypeOK'
  BY <1>1, <1>3, <1>9, <1>14 DEF Sound, ListTypeOK
<1>19. Begun' /\ Filled'
  BY <1>1, <1>3, <1>5, <1>6, <1>7, <1>9, <1>14 DEF Begun, Filled
<1> QED
  BY <1>17, <1>18, <1>19 DEF Becomes

\* The fields that the handler reads.
LEMMA FillStep ==
  ASSUME Sound, TypeOK', NEW p, NEW a, Whole(p, a), NEW c \in Ctx, Fill(c)
  PROVE  Becomes(p, a)
<1>1. /\ ctx = c /\ ctx' = c /\ stmt[c] = "fill" /\ stmt' = [stmt EXCEPT ![c] = "head"]
      /\ UNCHANGED <<system_tick, timer_head, cur, at, ptr>>
  BY DEF Fill, Proceed, Running, vars, cpu
<1>2. PICK i \in Intervals :
        node' = [node EXCEPT ![ptr[c]].interval = i, ![ptr[c]].count_down = i,
                             ![ptr[c]].since = system_tick]
  BY DEF Fill
<1>3. /\ stmt \in [Ctx -> Stmts] /\ node \in [Nodes -> Node] /\ system_tick \in Word
  BY DEF Sound, ListTypeOK
<1>4. stmt' \in [Ctx -> Stmts] /\ stmt'[ctx'] = "head" /\ stmt[ctx] = "fill"
  BY <1>1, <1>3 DEF Stmts
<1>5. Building /\ Building' /\ Before' = Before
  BY <1>1, <1>4 DEF Building, Before
<1>6. /\ ptr[ctx] \in Nodes /\ node[ptr[ctx]].prev = NULL /\ ~node[ptr[ctx]].deleted
      /\ node[ptr[ctx]].trigger_count = 0 /\ node[ptr[ctx]].next = timer_head
  BY <1>4, <1>5 DEF Sound, Begun
<1>7. node[ptr[ctx]].allocated
  BY <1>5, <1>6 DEF Whole, UnderWay, Allocated
<1>8. PICK q \in Node : q = node[ptr[ctx]]
  BY <1>3, <1>6
<1>9. PICK w \in Word : w = system_tick
  BY <1>3
<1> DEFINE r == [q EXCEPT !.interval = i, !.count_down = i, !.since = w]
<1>10. /\ r \in Node /\ r.allocated = q.allocated /\ r.prev = q.prev /\ r.deleted = q.deleted
       /\ r.trigger_count = q.trigger_count /\ r.next = q.next
       /\ r.interval = i /\ r.count_down = i /\ r.since = w
  BY WordFacts DEF Node
<1>11. node' = [node EXCEPT ![ptr[ctx]] = r]
  BY <1>1, <1>2, <1>3, <1>6, <1>8, <1>9
<1> HIDE DEF r
<1>12. /\ node' \in [Nodes -> Node] /\ node'[ptr[ctx]] = r
       /\ Chained(node', timer_head', p \o a, Before')
       /\ Allocated(node') = Range(p \o a) \cup UnderWay'
       /\ Building' => ptr'[ctx'] \notin Range(p \o a)
  BY <1>1, <1>5, <1>6, <1>7, <1>8, <1>10, <1>11, BuildFrame DEF Sound
<1>13. Whole(p, a)'
  BY <1>1, <1>12 DEF Whole, InWalk
<1>14. ListTypeOK'
  BY <1>1, <1>4, <1>12 DEF Sound, ListTypeOK
<1>15. Begun'
  BY <1>1, <1>6, <1>8, <1>10, <1>12 DEF Begun
<1>16. Filled'
  BY <1>1, <1>9, <1>10, <1>12 DEF Filled
<1> QED
  BY <1>13, <1>14, <1>15, <1>16 DEF Becomes

\* With the last store the node is the first of the list.
LEMMA LinkHeadStep ==
  ASSUME Sound, TypeOK', NEW p, NEW a, Whole(p, a), NEW c \in Ctx, LinkHead(c),
         NEW n, n = ptr[c]
  PROVE  n \in Nodes /\ n \notin Range(p \o a) /\ Becomes(<<n>> \o p, a)
<1>1. /\ ctx = c /\ ctx' = c /\ stmt[c] = "head" /\ stmt' = [stmt EXCEPT ![c] = "done"]
      /\ timer_head' = ptr[c]
      /\ UNCHANGED <<system_tick, node, cur, at, ptr>>
  BY DEF LinkHead, Proceed, Running, vars, cpu
<1>2. /\ stmt \in [Ctx -> Stmts] /\ node \in [Nodes -> Node] /\ timer_head \in Pointers
  BY DEF Sound, ListTypeOK
<1>3. stmt' \in [Ctx -> Stmts] /\ stmt'[ctx'] = "done" /\ stmt[ctx] = "head"
  BY <1>1, <1>2 DEF Stmts
<1>4. /\ Building /\ ~Building' /\ Before = ptr[ctx] /\ Before' = NULL
      /\ UnderWay = {ptr[ctx]} /\ UnderWay' = {}
  BY <1>3 DEF Building, Before, UnderWay
<1>5. /\ ptr[ctx] \in Nodes /\ node[ptr[ctx]].prev = NULL
      /\ node[ptr[ctx]].next = timer_head
  BY <1>3, <1>4 DEF Sound, Begun
<1>6. n \in Nodes /\ n = ptr[ctx]
  BY <1>1, <1>5
<1>7. PICK f : f = node
  OBVIOUS
<1>8. PICK h : h = timer_head
  OBVIOUS
<1>9. Chained(f, h, p \o a, n) /\ n \notin Range(p \o a)
  BY <1>4, <1>6, <1>7, <1>8 DEF Whole
<1>10. f[n].next = h /\ f[n].prev = NULL
  BY <1>5, <1>6, <1>7, <1>8
<1>11. Chained(f, n, <<n>> \o (p \o a), NULL) /\ Range(<<n>> \o (p \o a)) = {n} \cup Range(p \o a)
  BY <1>6, <1>9, <1>10, ChainPush
<1>12. p \in Seq(Nodes) /\ a \in Seq(Nodes) /\ <<n>> \in Seq(Nodes)
  BY <1>6, WholeFacts DEF Sound
<1>13. <<n>> \o p \in Seq(Nodes) /\ (<<n>> \o p) \o a = <<n>> \o (p \o a)
  BY <1>12, ConcatAssociative
<1>14. Allocated(f) = {n} \cup Range(p \o a)
  BY <1>4, <1>6, <1>7 DEF Whole
<1>15. Whole(<<n>> \o p, a)'
  <2>1. Chained(node', timer_head', (<<n>> \o p) \o a, Before')
    BY <1>1, <1>4, <1>6, <1>7, <1>11, <1>13
  <2>2. Allocated(node') = Range((<<n>> \o p) \o a) \cup UnderWay'
    BY <1>1, <1>4, <1>7, <1>11, <1>13, <1>14
  <2> QED
    BY <1>1, <1>4, <1>12, <1>13, <2>1, <2>2 DEF Whole, InWalk
<1>16. ListTypeOK'
  BY <1>1, <1>3, <1>5 DEF Sound, ListTypeOK, Pointers
<1>17. Begun' /\ Filled'
  BY <1>3 DEF Begun, Filled, Building
<1> QED
  BY <1>6, <1>9, <1>15, <1>16, <1>17 DEF Becomes

----------------------------------------------------------------------------
(* The inductive invariant and what follows from it                        *)

\* What a step makes of the list that p and a split.
LEMMA StepBecomes ==
  ASSUME Sound, IInv, TypeOK', Guarded', [ListNext]_allVars,
         NEW p, NEW a, Whole(p, a)
  PROVE  \E q, b \in Seq(Nodes) : Becomes(q, b)
<1>0. p \in Seq(Nodes) /\ a \in Seq(Nodes)
  BY DEF Whole
<1>1. Becomes(p, a) => \E q, b \in Seq(Nodes) : Becomes(q, b)
  BY <1>0
<1>2. ASSUME NEW c \in Ctx, Api(c) PROVE \E q, b \in Seq(Nodes) : Becomes(q, b)
  <2>1. CASE Enter(c) \/ GuardStep(c) \/ Leave(c)
    BY <1>1, <2>1, ControlSteps
  <2>2. CASE New(c)
    BY <1>1, <2>2, NewStep
  <2>3. CASE LinkNext(c)
    BY <1>1, <2>3, LinkNextStep
  <2>4. CASE LinkBack(c)
    BY <1>1, <2>4, LinkBackStep
  <2>5. CASE Fill(c)
    BY <1>1, <2>5, FillStep
  <2>6. CASE LinkHead(c)
    <3>0. PICK n : n = ptr[c]
      OBVIOUS
    <3>1. n \in Nodes /\ Becomes(<<n>> \o p, a)
      BY <2>6, <3>0, LinkHeadStep
    <3>2. <<n>> \o p \in Seq(Nodes)
      BY <1>0, <3>1
    <3> QED
      BY <1>0, <3>1, <3>2
  <2>7. CASE Remove(c)
    BY <1>1, <2>7, RemoveStep
  <2> QED
    BY <1>2, <2>1, <2>2, <2>3, <2>4, <2>5, <2>6, <2>7 DEF Api
<1>3. CASE TimerIrq \/ HandlerReturn \/ Done
  BY <1>1, <1>3, ControlSteps
<1>4. CASE RaiseIrq \/ UNCHANGED allVars
  BY <1>1, <1>4, IdleSteps
<1>5. CASE Tick
  BY <1>0, <1>5, TickStep
<1>6. CASE CountNode
  BY <1>0, <1>6, CountNodeStep, SplitFacts
<1>7. CASE Call
  BY <1>1, <1>7, CallStep
<1>8. CASE Return
  BY <1>0, <1>8, ReturnStep, SplitFacts
<1>9. CASE Unlink
  BY <1>0, <1>9, UnlinkStep, SplitFacts
<1> QED
  BY <1>2, <1>3, <1>4, <1>5, <1>6, <1>7, <1>8, <1>9 DEF ListNext, Handler

\* In the beginning there is no list.
LEMMA ListInitWhole ==
  ASSUME ListInit
  PROVE  Guarded /\ Begun /\ Filled /\ Whole(<<>>, <<>>)
<1>3. stmt[ctx] = "out" /\ ctx = "main" /\ at = "idle"
  BY DEF ListInit, Init, Ctx
<1>4. Guarded
  BY DEF ListInit, Init, Ctx, Guarded
<1>5. Begun /\ Filled /\ Before = NULL /\ UnderWay = {} /\ ~Building
  BY <1>3 DEF Begun, Filled, Before, UnderWay, Building
<1>6. Whole(<<>>, <<>>)
  <2>1. <<>> \in Seq(Nodes) /\ <<>> \o <<>> = <<>> /\ Len(<<>>) = 0 /\ Range(<<>>) = {}
    BY DEF Range
  <2>2. Link(<<>>, 1) = NULL
    BY <2>1 DEF Link
  <2>3. Chained(node, timer_head, <<>>, NULL)
    BY <2>1, <2>2 DEF Chained, Follows, IsInjective, ListInit
  <2>4. Allocated(node) = {}
    BY DEF ListInit, Zero, Allocated
  <2> QED
    BY <1>3, <1>5, <2>1, <2>3, <2>4 DEF Whole, InWalk
<1> QED
  BY <1>4, <1>5, <1>6

LEMMA ListInitInv == ListInit => LInv
<1> SUFFICES ASSUME ListInit PROVE LInv
  OBVIOUS
<1>1. TypeOK
  <2>1. pc \in [Ctx -> PCs]
    BY DEF ListInit, Init, PCs
  <2>2. eflags \in [Ctx -> BOOLEAN] /\ held \in [Ctx -> Nat] /\ spare \in [Ctx -> Nat]
    BY DEF ListInit, Init
  <2>3. ctx \in Ctx /\ cli_count \in Int
    BY DEF ListInit, Init, Ctx, InitialCount
  <2> QED
    BY <2>1, <2>2, <2>3 DEF ListInit, Init, TypeOK
<1>2. ListTypeOK
  <2>1. Zero \in Node
    BY WordFacts DEF Zero, Node, Pointers
  <2>2. node \in [Nodes -> Node]
    BY <2>1 DEF ListInit
  <2>3. system_tick \in Word
    BY WordFacts DEF ListInit
  <2>4. stmt \in [Ctx -> Stmts] /\ ptr \in [Ctx -> Pointers]
    BY DEF ListInit, Stmts, Pointers
  <2> QED
    BY <1>1, <2>2, <2>3, <2>4 DEF ListInit, ListTypeOK, Pointers
<1>3. Guarded /\ Begun /\ Filled /\ Whole(<<>>, <<>>)
  BY ListInitWhole
<1>4. <<>> \in Seq(Nodes)
  OBVIOUS
<1>5. \E p, a \in Seq(Nodes) : Whole(p, a)
  BY <1>3, <1>4
<1> QED
  BY <1>2, <1>3, <1>5 DEF LInv, Sound

\* The list, the node that an add() has under way and the cursor fit together
\* in every state of the composition.
THEOREM ListInductive == ListSpec => []LInv
<1>1. ListInit => LInv
  BY ListInitInv
<1>2. LInv /\ IInv /\ IInv' /\ [ListNext]_allVars => LInv'
  <2> SUFFICES ASSUME LInv, IInv, IInv', [ListNext]_allVars PROVE LInv'
    OBVIOUS
  <2>1. TypeOK'
    BY DEF IInv
  <2>2. Guarded'
    BY GuardedStep DEF LInv, Sound
  <2>3. PICK p, a \in Seq(Nodes) : Whole(p, a)
    BY DEF LInv
  <2>4. PICK q, b \in Seq(Nodes) : Becomes(q, b)
    BY <2>1, <2>2, <2>3, StepBecomes DEF LInv
  <2> QED
    BY <2>2, <2>4 DEF LInv, Sound, Becomes
<1>3. ListSpec => []IInv
  BY ListObeysGuards, Inductive, PTL
<1> QED
  BY <1>1, <1>2, <1>3, PTL DEF ListSpec

\* List and Ahead are the sequences of the invariant.
LEMMA ListIsWhole ==
  ASSUME NEW f, NEW head, NEW p \in Seq(Nodes), NEW a \in Seq(Nodes), NEW before,
         Chained(f, head, p \o a, before)
  PROVE  ListFrom(f, head) = p \o a /\ ListFrom(f, Link(a, 1)) = a
BY ListFromIs, FollowsSuffix DEF Chained

\* The chain read as WellLinked.
LEMMA WholeIsLinked == LInv => WellLinked
<1> SUFFICES ASSUME LInv, stmt[ctx] \in {"out", "in", "done"}
             PROVE  /\ Range(List) = {n \in Nodes : node[n].allocated}
                    /\ timer_head # NULL => node[timer_head].prev = NULL
                    /\ \A m, n \in Range(List) : node[m].next = n <=> node[n].prev = m
  BY DEF WellLinked
<1>1. PICK p, a \in Seq(Nodes) : Whole(p, a)
  BY DEF LInv
<1>2. PICK s \in Seq(Nodes) : s = p \o a
  <2>1. p \o a \in Seq(Nodes)
    OBVIOUS
  <2> QED
    BY <2>1
<1>3. ~Building /\ UnderWay = {} /\ Before = NULL
  BY DEF Building, UnderWay, Before
<1>4. PICK f : f = node
  OBVIOUS
<1>5. PICK h : h = timer_head
  OBVIOUS
<1>6. Chained(f, h, s, NULL) /\ ListFrom(f, h) = s
  <2>1. Chained(f, h, p \o a, NULL)
    BY <1>1, <1>3, <1>4, <1>5 DEF Whole
  <2>2. ListFrom(f, h) = p \o a
    BY <2>1, ListIsWhole
  <2> QED
    BY <1>2, <2>1, <2>2
<1>7. List = s
  BY <1>4, <1>5, <1>6 DEF List
<1>8. Range(s) = {n \in Nodes : node[n].allocated}
  BY <1>1, <1>2, <1>3 DEF Whole, Allocated
<1>9. /\ Len(s) \in Nat /\ DOMAIN s = 1 .. Len(s)
      /\ \A i, j \in 1 .. Len(s) : s[i] = s[j] => i = j
      /\ \A i \in 1 .. Len(s) : /\ f[s[i]].next = Link(s, i + 1)
                                /\ f[s[i]].prev = IF i = 1 THEN NULL ELSE s[i - 1]
                                /\ s[i] # NULL
      /\ h = Link(s, 1)
  BY <1>6, ListAssumption DEF Chained, Follows, IsInjective
<1>10. h # NULL => f[h].prev = NULL
  BY <1>9 DEF Link
<1>11. ASSUME NEW i \in 1 .. Len(s), NEW j \in 1 .. Len(s)
       PROVE  f[s[i]].next = s[j] <=> f[s[j]].prev = s[i]
  <2>1. f[s[i]].next = s[j] <=> i + 1 = j
    <3>1. CASE i + 1 \in 1 .. Len(s)
      BY <1>9, <3>1 DEF Link
    <3>2. CASE i + 1 \notin 1 .. Len(s)
      BY <1>9, <3>2 DEF Link
    <3> QED
      BY <3>1, <3>2
  <2>2. f[s[j]].prev = s[i] <=> i + 1 = j
    <3>1. CASE j = 1
      BY <1>9, <3>1
    <3>2. CASE j # 1
      <4>1. j - 1 \in 1 .. Len(s) /\ f[s[j]].prev = s[j - 1]
        BY <1>9, <3>2
      <4>2. f[s[j]].prev = s[i] <=> j - 1 = i
        BY <1>9, <4>1
      <4> QED
        BY <1>9, <4>2
    <3> QED
      BY <3>1, <3>2
  <2> QED
    BY <2>1, <2>2
<1>12. \A m, n \in Range(s) : f[m].next = n <=> f[n].prev = m
  BY <1>9, <1>11 DEF Range
<1> QED
  BY <1>4, <1>5, <1>7, <1>8, <1>10, <1>12

\* The chain read as NoDangling.
LEMMA WholeIsValid == LInv => NoDangling
<1> SUFFICES ASSUME LInv PROVE NoDangling
  OBVIOUS
<1>1. PICK p, a \in Seq(Nodes) : Whole(p, a)
  BY DEF LInv
<1>2. PICK s \in Seq(Nodes) : s = p \o a
  <2>1. p \o a \in Seq(Nodes)
    OBVIOUS
  <2> QED
    BY <2>1
<1> DEFINE Valid(q) == q = NULL \/ node[q].allocated
<1>3. \A n \in Range(s) : n \in Nodes /\ node[n].allocated
  BY <1>1, <1>2, WholeFacts DEF LInv, Sound
<1>4. \A i \in Int : Valid(Link(s, i))
  <2> TAKE i \in Int
  <2>1. CASE i \in 1 .. Len(s)
    BY <1>3, <2>1 DEF Link, Range
  <2>2. CASE i \notin 1 .. Len(s)
    BY <2>2 DEF Link
  <2> QED
    BY <2>1, <2>2
<1>5. Chained(node, timer_head, s, Before)
  BY <1>1, <1>2 DEF Whole
<1>6. Valid(timer_head)
  BY <1>4, <1>5 DEF Chained, Follows
<1>7. Building => /\ ptr[ctx] \in Nodes /\ node[ptr[ctx]].allocated
                  /\ node[ptr[ctx]].prev = NULL
                  /\ node[ptr[ctx]].next \in {NULL, timer_head}
  BY <1>1 DEF LInv, Sound, Begun, Whole, UnderWay, Allocated
<1>8. Valid(Before)
  BY <1>7 DEF Before, Building
<1>9. ASSUME NEW n \in Nodes, node[n].allocated
      PROVE  Valid(node[n].next) /\ Valid(node[n].prev)
  <2>1. n \in Range(s) \cup UnderWay
    BY <1>1, <1>2, <1>9 DEF Whole, Allocated
  <2>2. CASE n \in Range(s)
    <3>1. PICK i \in 1 .. Len(s) : n = s[i]
      BY <2>2 DEF Range
    <3>2. /\ node[n].next = Link(s, i + 1)
          /\ node[n].prev = IF i = 1 THEN Before ELSE s[i - 1]
      BY <1>5, <3>1 DEF Chained, Follows
    <3>3. Valid(node[n].next)
      BY <1>4, <3>2
    <3>4. CASE i = 1
      BY <1>8, <3>2, <3>3, <3>4
    <3>5. CASE i # 1
      <4>1. i - 1 \in 1 .. Len(s)
        BY <3>5
      <4>2. s[i - 1] \in Range(s)
        BY <4>1 DEF Range
      <4> QED
        BY <1>3, <3>2, <3>3, <3>5, <4>2
    <3> QED
      BY <3>4, <3>5
  <2>3. CASE n \in UnderWay
    <3>1. Building /\ n = ptr[ctx]
      BY <2>3 DEF UnderWay
    <3> QED
      BY <1>6, <1>7, <3>1
  <2> QED
    BY <2>1, <2>2, <2>3
<1>10. InWalk => Valid(cur)
  <2> SUFFICES ASSUME InWalk, cur # NULL PROVE node[cur].allocated
    OBVIOUS
  <2>1. cur \in Range(p \o a)
    BY <1>1, WholeFacts DEF LInv, Sound
  <2> QED
    BY <1>2, <1>3, <2>1
<1> QED
  BY <1>6, <1>9, <1>10 DEF NoDangling

\* Every variable of the composition keeps its type.
THEOREM ListTypeCorrect == ListSpec => []ListTypeOK
<1>1. LInv => ListTypeOK
  BY DEF LInv, Sound
<1> QED
  BY <1>1, ListInductive, PTL

\* Whoever may look at the list finds it whole, and no pointer that the code
\* may follow, not even between two stores of an add(), leads to freed memory.
THEOREM ListStaysWhole == ListSpec => []ListWhole
<1>1. LInv => ListWhole
  BY WholeIsLinked, WholeIsValid DEF ListWhole
<1> QED
  BY <1>1, ListInductive, PTL

\* A sequence without its end.
LEMMA PrefixFacts ==
  ASSUME NEW p \in Seq(Nodes), NEW a \in Seq(Nodes)
  PROVE  SubSeq(p \o a, 1, Len(p \o a) - Len(a)) = p
<1>1. Len(p) \in Nat /\ Len(a) \in Nat /\ Len(p \o a) = Len(p) + Len(a) /\ p \o a \in Seq(Nodes)
      /\ \A i \in 1 .. Len(p) : (p \o a)[i] = p[i]
  OBVIOUS
<1>2. Len(p \o a) - Len(a) = Len(p)
  BY <1>1
<1> DEFINE q == SubSeq(p \o a, 1, Len(p))
<1>3. q \in Seq(Nodes) /\ Len(q) = Len(p) /\ \A i \in 1 .. Len(p) : q[i] = (p \o a)[i]
  BY <1>1
<1> HIDE DEF q
<1>4. q = p
  BY <1>1, <1>3
<1> QED
  BY <1>2, <1>4 DEF q

----------------------------------------------------------------------------
(* Refinement: what Timer sees of each step                                *)

\* The refinement mapping, by the sequences of the invariant,
LEMMA MappedNow ==
  ASSUME NEW p, NEW a, Whole(p, a)
  PROVE  Heap = View(node, p \o a) /\ Passed = p /\ Ahead = a
<1>1. p \in Seq(Nodes) /\ a \in Seq(Nodes)
  BY DEF Whole
<1>2. PICK f : f = node
  OBVIOUS
<1>3. PICK h : h = timer_head
  OBVIOUS
<1>4. PICK b : b = Before
  OBVIOUS
<1>5. Chained(f, h, p \o a, b)
  BY <1>2, <1>3, <1>4 DEF Whole
<1>6. ListFrom(f, h) = p \o a /\ ListFrom(f, Link(a, 1)) = a
  BY <1>1, <1>5, ListIsWhole
<1>7. List = p \o a /\ Ahead = a
  BY <1>2, <1>3, <1>6 DEF List, Ahead, Whole
<1>8. SubSeq(p \o a, 1, Len(p \o a) - Len(a)) = p
  BY <1>1, PrefixFacts
<1> QED
  BY <1>7, <1>8 DEF Passed, Heap

\* and after a step.
LEMMA MappedNext ==
  ASSUME NEW p, NEW a, Whole(p, a)'
  PROVE  Heap' = View(node', p \o a) /\ Passed' = p /\ Ahead' = a
<1>1. p \in Seq(Nodes) /\ a \in Seq(Nodes)
  BY DEF Whole
<1>2. PICK f : f = node'
  OBVIOUS
<1>3. PICK h : h = timer_head'
  OBVIOUS
<1>4. PICK b : b = Before'
  OBVIOUS
<1>5. Chained(f, h, p \o a, b)
  BY <1>2, <1>3, <1>4 DEF Whole
<1>6. ListFrom(f, h) = p \o a /\ ListFrom(f, Link(a, 1)) = a
  BY <1>1, <1>5, ListIsWhole
<1>7. List' = p \o a /\ Ahead' = a
  BY <1>2, <1>3, <1>6 DEF List, Ahead, Whole
<1>8. SubSeq(p \o a, 1, Len(p \o a) - Len(a)) = p
  BY <1>1, PrefixFacts
<1> QED
  BY <1>7, <1>8 DEF Passed, Heap

\* A view depends on what is shown of the list only.
LEMMA ViewSame ==
  ASSUME NEW f, NEW g, NEW s, \A m \in Range(s) : Shown(g[m]) = Shown(f[m])
  PROVE  View(g, s) = View(f, s)
BY DEF View

\* A view at one node.
LEMMA ViewAt ==
  ASSUME NEW f, NEW s, NEW n \in Nodes
  PROVE  /\ View(f, s)[n] = IF n \in Range(s) THEN Shown(f[n]) ELSE TheTimer!Free
         /\ n \in DOMAIN View(f, s)
BY DEF View, TheTimer!Free

\* Steps that Timer does not see.
LEMMA UnseenStep ==
  ASSUME NEW p, NEW a, Whole(p, a), Whole(p, a)',
         UNCHANGED system_tick, Where' = Where,
         \A m \in Range(p \o a) : Shown(node'[m]) = Shown(node[m])
  PROVE  UNCHANGED TheTimer!vars
<1>1. Heap = View(node, p \o a) /\ Passed = p /\ Ahead = a
  BY MappedNow
<1>2. Heap' = View(node', p \o a) /\ Passed' = p /\ Ahead' = a
  BY MappedNext
<1>3. PICK f : f = node
  OBVIOUS
<1>4. PICK g : g = node'
  OBVIOUS
<1>5. View(g, p \o a) = View(f, p \o a)
  BY <1>3, <1>4, ViewSame
<1>6. Heap' = Heap
  BY <1>1, <1>2, <1>3, <1>4, <1>5
<1> QED
  BY <1>1, <1>2, <1>6 DEF TheTimer!vars

LEMMA MapInit == ListInit => TheTimer!Init
<1> SUFFICES ASSUME ListInit PROVE TheTimer!Init
  OBVIOUS
<1>1. Whole(<<>>, <<>>)
  BY ListInitWhole
<1>2. Heap = View(node, <<>> \o <<>>) /\ Passed = <<>> /\ Ahead = <<>>
  BY <1>1, MappedNow
<1>3. <<>> \o <<>> = <<>> /\ Range(<<>>) = {}
  BY DEF Range
<1>4. View(node, <<>>) = [n \in Nodes |-> TheTimer!Free]
  BY <1>3 DEF View, TheTimer!Free
<1>5. Where = "main" /\ system_tick = 0
  BY DEF ListInit, Where, InWalk
<1> QED
  BY <1>2, <1>3, <1>4, <1>5 DEF TheTimer!Init

\* What is seen of the fields that steps read.
LEMMA ShownFacts ==
  ASSUME NEW q \in Node
  PROVE  /\ Shown(q) # TheTimer!Free
         /\ Shown(q).deleted = q.deleted
         /\ Shown(q).count_down = q.count_down
         /\ Shown(q).interval = q.interval
         /\ Shown([q EXCEPT !.deleted = TRUE]) = [Shown(q) EXCEPT !.deleted = TRUE]
         /\ \A k : Shown([q EXCEPT !.count_down = k]) = [Shown(q) EXCEPT !.count_down = k]
         /\ Shown([q EXCEPT !.trigger_count = (@ + 1) % Width, !.count_down = q.interval])
              = [Shown(q) EXCEPT !.trigger_count = (@ + 1) % Width, !.count_down = q.interval]
<1>1. Shown(q) # TheTimer!Free
  <2>1. Shown(q).interval = q.interval /\ "interval" \in DOMAIN Shown(q)
    BY DEF Shown
  <2>2. "interval" \notin DOMAIN TheTimer!Free
    BY DEF TheTimer!Free
  <2> QED
    BY <2>1, <2>2
<1>2. /\ Shown(q).deleted = q.deleted
      /\ Shown(q).count_down = q.count_down
      /\ Shown(q).interval = q.interval
  BY DEF Shown
<1>b. PICK b : \A u : Shown(u) = [allocated |-> b, interval |-> u.interval,
                                 trigger_count |-> u.trigger_count,
                                 count_down |-> u.count_down,
                                 deleted |-> u.deleted, since |-> u.since]
  BY Zenon DEF Shown
<1>3. Shown([q EXCEPT !.deleted = TRUE]) = [Shown(q) EXCEPT !.deleted = TRUE]
  <2> DEFINE r == [q EXCEPT !.deleted = TRUE]
  <2>1. /\ r.interval = q.interval /\ r.trigger_count = q.trigger_count
        /\ r.count_down = q.count_down /\ r.since = q.since
    BY DEF Node
  <2>2. r.deleted = TRUE
    BY DEF Node
  <2> HIDE DEF r
  <2>3. Shown(r) = [Shown(q) EXCEPT !.deleted = TRUE]
    BY <1>b, <2>1, <2>2
  <2> QED
    BY <2>3 DEF r
<1>4. ASSUME NEW k
      PROVE  Shown([q EXCEPT !.count_down = k]) = [Shown(q) EXCEPT !.count_down = k]
  <2> DEFINE r == [q EXCEPT !.count_down = k]
  <2>1. /\ r.interval = q.interval /\ r.trigger_count = q.trigger_count
        /\ r.count_down = k /\ r.since = q.since
    BY DEF Node
  <2>2. r.deleted = q.deleted
    BY DEF Node
  <2> HIDE DEF r
  <2>3. Shown(r) = [Shown(q) EXCEPT !.count_down = k]
    BY <1>b, <2>1, <2>2
  <2> QED
    BY <2>3 DEF r
<1>5. Shown([q EXCEPT !.trigger_count = (@ + 1) % Width, !.count_down = q.interval])
        = [Shown(q) EXCEPT !.trigger_count = (@ + 1) % Width, !.count_down = q.interval]
  <2> DEFINE r == [q EXCEPT !.trigger_count = (@ + 1) % Width, !.count_down = q.interval]
  <2>1. /\ r.interval = q.interval /\ r.trigger_count = (q.trigger_count + 1) % Width
        /\ r.count_down = q.interval /\ r.since = q.since
    BY DEF Node
  <2>2. r.deleted = q.deleted
    BY DEF Node
  <2> HIDE DEF r
  <2>0. Shown(q).trigger_count = q.trigger_count
    BY DEF Shown
  <2>3. PICK k : k = (q.trigger_count + 1) % Width
    OBVIOUS
  <2>4. Shown(r) = [Shown(q) EXCEPT !.trigger_count = k, !.count_down = q.interval]
    <3>1. PICK x : x = [Shown(q) EXCEPT !.trigger_count = k]
      OBVIOUS
    <3>2. x = [allocated |-> b, interval |-> q.interval, trigger_count |-> k,
               count_down |-> q.count_down, deleted |-> q.deleted, since |-> q.since]
      BY <1>b, <3>1
    <3>3. [x EXCEPT !.count_down = q.interval] = Shown(r)
      BY <1>b, <2>1, <2>2, <2>3, <3>2
    <3> QED
      BY <3>1, <3>3
  <2> QED
    BY <2>0, <2>3, <2>4 DEF r
<1> QED
  BY <1>1, <1>2, <1>3, <1>4, <1>5

\* Steps of the handler on the node under its cursor.
LEMMA SeenVisit ==
  ASSUME Sound, NEW p, NEW a, Whole(p, a), NEW q, NEW b, Whole(q, b)',
         q \o b = p \o a, cur \in Nodes, cur = Head(a), a # <<>>,
         NEW r, node' = [node EXCEPT ![cur] = r]
  PROVE  /\ Heap' = [Heap EXCEPT ![cur] = Shown(r)]
         /\ Heap[cur] = Shown(node[cur])
         /\ TheTimer!cur = cur /\ cur \in DOMAIN Heap
         /\ Passed = p /\ Ahead = a /\ Passed' = q /\ Ahead' = b
<1>1. Heap = View(node, p \o a) /\ Passed = p /\ Ahead = a
  BY MappedNow
<1>2. Heap' = View(node', p \o a) /\ Passed' = q /\ Ahead' = b
  BY MappedNext
<1>3. p \in Seq(Nodes) /\ a \in Seq(Nodes)
  BY DEF Whole
<1>4. PICK n \in Nodes : n = cur
  OBVIOUS
<1>5. PICK f \in [Nodes -> Node] : f = node
  BY DEF Sound, ListTypeOK
<1>6. n \in Range(p \o a)
  BY <1>3, <1>4, SplitFacts
<1>g. PICK g : g = node'
  OBVIOUS
<1>s. PICK s : s = p \o a
  OBVIOUS
<1>7. View(g, s) = [View(f, s) EXCEPT ![n] = Shown(r)]
  <2>1. g = [f EXCEPT ![n] = r]
    BY <1>4, <1>5, <1>g
  <2>2. g[n] = r /\ \A m \in Nodes : m # n => g[m] = f[m]
    BY <1>5, <2>1
  <2>3. \A m \in Nodes : View(g, s)[m] = [View(f, s) EXCEPT ![n] = Shown(r)][m]
    BY <1>6, <1>s, <2>2 DEF View
  <2>4. DOMAIN View(g, s) = Nodes /\ DOMAIN [View(f, s) EXCEPT ![n] = Shown(r)] = Nodes
    BY DEF View
  <2> QED
    BY <2>3, <2>4 DEF View
<1>8. Heap' = [Heap EXCEPT ![cur] = Shown(r)]
  BY <1>1, <1>2, <1>4, <1>5, <1>7, <1>g, <1>s
<1>9. View(f, p \o a)[n] = Shown(f[n]) /\ n \in DOMAIN View(f, p \o a)
  BY <1>6, ViewAt
<1>10. TheTimer!cur = cur
  BY <1>1 DEF TheTimer!cur
<1> QED
  BY <1>1, <1>2, <1>4, <1>5, <1>8, <1>9, <1>10

\* One lemma per step that Timer sees.
LEMMA SeenCountNode ==
  ASSUME Sound, TypeOK', NEW p, NEW a, Whole(p, a), CountNode
  PROVE  TheTimer!CountDown
<1>1. /\ a # <<>> /\ cur = Head(a) /\ cur \in Nodes
      /\ Whole(Append(p, Head(a)), Tail(a))'
  BY CountNodeStep DEF Becomes
<1>2. /\ at = "walk" /\ at' = "walk" /\ ~node[cur].deleted /\ Counted # 0
      /\ node' = [node EXCEPT ![cur].count_down = Counted]
      /\ system_tick' = system_tick
  BY DEF CountNode, Visiting, InHandler
<1>3. Append(p, Head(a)) \o Tail(a) = p \o a
  BY <1>1, SplitFacts DEF Whole
<1>4. PICK q \in Node : q = node[cur]
  BY <1>1 DEF Sound, ListTypeOK
<1>5. PICK k : k = Counted
  OBVIOUS
<1> DEFINE r == [q EXCEPT !.count_down = k]
<1>6. node' = [node EXCEPT ![cur] = r]
  BY <1>2, <1>4, <1>5
<1>7. Shown(r) = [Shown(q) EXCEPT !.count_down = k]
  BY ShownFacts
<1> HIDE DEF r
<1>8. /\ Heap' = [Heap EXCEPT ![cur] = Shown(r)]
      /\ Heap[cur] = Shown(node[cur])
      /\ TheTimer!cur = cur /\ cur \in DOMAIN Heap
      /\ Passed = p /\ Ahead = a /\ Passed' = Append(p, Head(a)) /\ Ahead' = Tail(a)
  BY <1>1, <1>3, <1>6, SeenVisit
<1>9. Heap[cur].deleted = q.deleted /\ Heap[cur].count_down = q.count_down
  BY <1>4, <1>8, ShownFacts
<1>10. TheTimer!Counted = Counted
  BY <1>4, <1>8, <1>9 DEF TheTimer!Counted, Counted
<1>11. Heap' = [Heap EXCEPT ![cur].count_down = Counted]
  BY <1>4, <1>5, <1>7, <1>8
<1>12. Where = "walk" /\ Where' = "walk"
  BY <1>2 DEF Where, InWalk
<1>13. TheTimer!Visiting
  BY <1>1, <1>8, <1>12 DEF TheTimer!Visiting
<1>14. TheTimer!Advance
  BY <1>1, <1>8 DEF TheTimer!Advance
<1> QED
  BY <1>2, <1>4, <1>8, <1>9, <1>10, <1>11, <1>12, <1>13, <1>14 DEF TheTimer!CountDown

LEMMA SeenCall ==
  ASSUME Sound, TypeOK', NEW p, NEW a, Whole(p, a), Call
  PROVE  TheTimer!Call
<1>1. a # <<>> /\ cur = Head(a) /\ cur \in Nodes /\ Whole(p, a)'
  BY CallStep DEF Becomes
<1>2. /\ at = "walk" /\ at' = "call" /\ ~node[cur].deleted /\ Counted = 0
      /\ node' = [node EXCEPT ![cur].count_down = 0]
      /\ system_tick' = system_tick
  BY DEF Call, Visiting, InHandler
<1>4. PICK q \in Node : q = node[cur]
  BY <1>1 DEF Sound, ListTypeOK
<1> DEFINE r == [q EXCEPT !.count_down = 0]
<1>6. node' = [node EXCEPT ![cur] = r]
  BY <1>2, <1>4
<1>7. Shown(r) = [Shown(q) EXCEPT !.count_down = 0]
  BY ShownFacts
<1> HIDE DEF r
<1>8. /\ Heap' = [Heap EXCEPT ![cur] = Shown(r)]
      /\ Heap[cur] = Shown(node[cur])
      /\ TheTimer!cur = cur /\ cur \in DOMAIN Heap
      /\ Passed = p /\ Ahead = a /\ Passed' = p /\ Ahead' = a
  BY <1>1, <1>6, SeenVisit
<1>9. Heap[cur].deleted = q.deleted /\ Heap[cur].count_down = q.count_down
  BY <1>4, <1>8, ShownFacts
<1>10. TheTimer!Counted = Counted
  BY <1>4, <1>8, <1>9 DEF TheTimer!Counted, Counted
<1>11. Heap' = [Heap EXCEPT ![cur].count_down = 0]
  BY <1>4, <1>7, <1>8
<1>12. Where = "walk" /\ Where' = "call"
  BY <1>2 DEF Where, InWalk
<1>13. TheTimer!Visiting
  BY <1>1, <1>8, <1>12 DEF TheTimer!Visiting
<1> QED
  BY <1>2, <1>4, <1>8, <1>9, <1>10, <1>11, <1>12, <1>13 DEF TheTimer!Call

LEMMA SeenReturn ==
  ASSUME Sound, TypeOK', NEW p, NEW a, Whole(p, a), Return
  PROVE  TheTimer!Return
<1>1. /\ a # <<>> /\ cur = Head(a) /\ cur \in Nodes
      /\ Whole(Append(p, Head(a)), Tail(a))'
  BY ReturnStep DEF Becomes
<1>2. /\ at = "call" /\ at' = "walk"
      /\ node' = [node EXCEPT ![cur].trigger_count = (@ + 1) % Width,
                              ![cur].count_down = node[cur].interval]
      /\ system_tick' = system_tick
  BY DEF Return, InHandler
<1>3. Append(p, Head(a)) \o Tail(a) = p \o a
  BY <1>1, SplitFacts DEF Whole
<1>4. PICK q \in Node : q = node[cur]
  BY <1>1 DEF Sound, ListTypeOK
<1> DEFINE r == [q EXCEPT !.trigger_count = (@ + 1) % Width, !.count_down = q.interval]
<1>6. node' = [node EXCEPT ![cur] = r]
  BY <1>1, <1>2, <1>4 DEF Sound, ListTypeOK
<1>7. Shown(r) = [Shown(q) EXCEPT !.trigger_count = (@ + 1) % Width, !.count_down = q.interval]
  BY ShownFacts
<1> HIDE DEF r
<1>8. /\ Heap' = [Heap EXCEPT ![cur] = Shown(r)]
      /\ Heap[cur] = Shown(node[cur])
      /\ TheTimer!cur = cur /\ cur \in DOMAIN Heap
      /\ Passed = p /\ Ahead = a /\ Passed' = Append(p, Head(a)) /\ Ahead' = Tail(a)
  BY <1>1, <1>3, <1>6, SeenVisit
<1>9. Heap[cur].interval = q.interval
  BY <1>4, <1>8, ShownFacts
<1>11. Heap' = [Heap EXCEPT ![cur].trigger_count = (@ + 1) % Width,
                            ![cur].count_down = Heap[cur].interval]
  BY <1>4, <1>7, <1>8, <1>9
<1>12. Where = "call" /\ Where' = "walk"
  BY <1>2 DEF Where, InWalk
<1>14. TheTimer!Advance
  BY <1>1, <1>8 DEF TheTimer!Advance
<1> QED
  BY <1>2, <1>8, <1>11, <1>12, <1>14 DEF TheTimer!Return

LEMMA SeenTick ==
  ASSUME Sound, TypeOK', NEW p, NEW a, Whole(p, a), Tick
  PROVE  TheTimer!Tick
<1>1. a = <<>> /\ Whole(<<>>, p)'
  BY TickStep DEF Becomes
<1>2. /\ at = "enter" /\ at' = "walk" /\ node' = node
      /\ system_tick' = (system_tick + 1) % Width
  BY DEF Tick, InHandler
<1>3. Heap = View(node, p \o a) /\ Passed = p /\ Ahead = a
  BY MappedNow
<1>4. Heap' = View(node', <<>> \o p) /\ Passed' = <<>> /\ Ahead' = p
  BY <1>1, MappedNext
<1>5. p \o a = p /\ <<>> \o p = p
  BY <1>1 DEF Whole
<1>6. PICK f : f = node
  OBVIOUS
<1>7. Heap = View(f, p) /\ Heap' = View(f, p)
  BY <1>2, <1>3, <1>4, <1>5, <1>6
<1>8. Where = "main" /\ Where' = "walk"
  BY <1>2 DEF Where, InWalk
<1> QED
  BY <1>2, <1>3, <1>4, <1>7, <1>8 DEF TheTimer!Tick

LEMMA SeenDone ==
  ASSUME Sound, TypeOK', IInv, Guarded', NEW p, NEW a, Whole(p, a), Done
  PROVE  TheTimer!Done
<1>1. Whole(p, a)'
  BY ControlSteps DEF Becomes
<1>2. /\ at = "walk" /\ at' = "exit" /\ cur = NULL /\ node' = node
      /\ system_tick' = system_tick
  BY DEF Done, InHandler
<1>3. Heap = View(node, p \o a) /\ Passed = p /\ Ahead = a
  BY MappedNow
<1>4. Heap' = View(node', p \o a) /\ Passed' = p /\ Ahead' = a
  BY <1>1, MappedNext
<1>5. PICK f : f = node
  OBVIOUS
<1>6. Heap' = Heap
  BY <1>2, <1>3, <1>4, <1>5
<1>7. a = <<>>
  BY <1>2, WholeFacts DEF Sound, InWalk
<1>8. Where = "walk" /\ Where' = "main"
  BY <1>2 DEF Where, InWalk
<1> QED
  BY <1>2, <1>3, <1>4, <1>6, <1>7, <1>8 DEF TheTimer!Done

LEMMA SeenUnlink ==
  ASSUME Sound, TypeOK', NEW p, NEW a, Whole(p, a), Unlink
  PROVE  TheTimer!Unlink
<1>1. /\ a # <<>> /\ cur = Head(a) /\ cur \in Nodes /\ Whole(p, Tail(a))'
      /\ Range(p \o Tail(a)) = Range(p \o a) \ {cur}
  BY UnlinkStep DEF Becomes
<1>2. /\ at = "walk" /\ at' = "walk" /\ node[cur].deleted
      /\ node' = [m \in Nodes |-> IF m = cur THEN Zero ELSE Bypassed(cur, m)]
      /\ system_tick' = system_tick
  BY DEF Unlink, Visiting, InHandler
<1>3. Heap = View(node, p \o a) /\ Passed = p /\ Ahead = a
  BY MappedNow
<1>4. Heap' = View(node', p \o Tail(a)) /\ Passed' = p /\ Ahead' = Tail(a)
  BY <1>1, MappedNext
<1>5. PICK f \in [Nodes -> Node] : f = node
  BY DEF Sound, ListTypeOK
<1>6. PICK g : g = node'
  OBVIOUS
<1>7. PICK n \in Nodes : n = cur
  BY <1>1
<1>8. PICK s, t : s = p \o a /\ t = p \o Tail(a)
  OBVIOUS
<1>9. Range(t) = Range(s) \ {n} /\ n \in Range(s)
  <2>1. cur \in Range(p \o a)
    BY <1>1, SplitFacts DEF Whole
  <2> QED
    BY <1>1, <1>7, <1>8, <2>1
<1>10. \A m \in Nodes : m # n => Shown(g[m]) = Shown(f[m])
  <2> TAKE m \in Nodes
  <2> HAVE m # n
  <2>1. PICK r \in Node : r = f[m]
    BY <1>5
  <2>2. PICK q : q = f[n]
    OBVIOUS
  <2>3. g[m] = [r EXCEPT !.next = IF m = q.prev THEN q.next ELSE @,
                         !.prev = IF m = q.next THEN q.prev ELSE @]
    BY <1>2, <1>5, <1>6, <1>7, <2>1, <2>2 DEF Bypassed
  <2>4. /\ g[m].interval = r.interval /\ g[m].trigger_count = r.trigger_count
        /\ g[m].count_down = r.count_down /\ g[m].since = r.since
        /\ g[m].deleted = r.deleted
    BY <2>3 DEF Node
  <2> QED
    BY <2>1, <2>4 DEF Shown
<1>11. View(g, t) = [View(f, s) EXCEPT ![n] = TheTimer!Free]
  <2>1. \A m \in Nodes : View(g, t)[m] = [View(f, s) EXCEPT ![n] = TheTimer!Free][m]
    <3> TAKE m \in Nodes
    <3>1. CASE m = n
      BY <1>9, <3>1 DEF View, TheTimer!Free
    <3>2. CASE m # n
      BY <1>9, <1>10, <3>2 DEF View
    <3> QED
      BY <3>1, <3>2
  <2>2. DOMAIN View(g, t) = Nodes /\ DOMAIN [View(f, s) EXCEPT ![n] = TheTimer!Free] = Nodes
    BY DEF View
  <2> QED
    BY <2>1, <2>2 DEF View
<1>12. TheTimer!cur = cur
  BY <1>1, <1>3 DEF TheTimer!cur
<1>13. Heap[cur] = Shown(f[n])
  <2>1. View(f, s)[n] = Shown(f[n])
    BY <1>9, ViewAt
  <2> QED
    BY <1>3, <1>5, <1>7, <1>8, <2>1
<1>14. Heap[cur].deleted
  <2>1. PICK q \in Node : q = f[n]
    OBVIOUS
  <2>2. q.deleted /\ Shown(q).deleted = q.deleted
    BY <1>2, <1>5, <1>7, <2>1, ShownFacts
  <2> QED
    BY <1>13, <2>1, <2>2
<1>15. Heap' = [Heap EXCEPT ![cur] = TheTimer!Free]
  BY <1>3, <1>4, <1>5, <1>6, <1>7, <1>8, <1>11
<1>16. Where = "walk" /\ Where' = "walk"
  BY <1>2 DEF Where, InWalk
<1>17. TheTimer!Visiting
  BY <1>1, <1>3, <1>16 DEF TheTimer!Visiting
<1> QED
  BY <1>2, <1>3, <1>4, <1>12, <1>14, <1>15, <1>16, <1>17 DEF TheTimer!Unlink

\* Only between handlers or from within a callback is anyone inside the API.
LEMMA CallerAt ==
  ASSUME Sound, NEW c \in Ctx, ctx = c, stmt[c] # "out", at' = at
  PROVE  TheTimer!Caller /\ Where' = Where
<1>1. ctx = "main" => at = "idle"
  BY DEF Sound, Guarded
<1>2. ctx = "irq" => at = "call"
  BY DEF Sound, Guarded
<1>3. Where \in {"main", "call"}
  BY <1>1, <1>2 DEF Ctx, Where, InWalk
<1> QED
  BY <1>3 DEF TheTimer!Caller, Where, InWalk

LEMMA SeenRemove ==
  ASSUME Sound, TypeOK', NEW p, NEW a, Whole(p, a), NEW c \in Ctx, Remove(c)
  PROVE  \E n \in Nodes : TheTimer!Remove(n)
<1>1. Whole(p, a)'
  BY RemoveStep DEF Becomes
<1>2. ctx = c /\ stmt[c] = "in" /\ at' = at /\ system_tick' = system_tick
  BY DEF Remove, Proceed, Running
<1>3. PICK n \in Nodes : node[n].allocated /\ node' = [node EXCEPT ![n].deleted = TRUE]
  BY DEF Remove
<1>4. Heap = View(node, p \o a) /\ Passed = p /\ Ahead = a
  BY MappedNow
<1>5. Heap' = View(node', p \o a) /\ Passed' = p /\ Ahead' = a
  BY <1>1, MappedNext
<1>6. PICK f \in [Nodes -> Node] : f = node
  BY DEF Sound, ListTypeOK
<1>7. PICK g : g = node'
  OBVIOUS
<1>8. PICK s : s = p \o a
  OBVIOUS
<1>9. PICK q \in Node : q = f[n]
  OBVIOUS
<1>10. n \in Range(s)
  <2>1. UnderWay = {}
    BY <1>2 DEF UnderWay, Building
  <2> QED
    BY <1>3, <1>8, <2>1 DEF Whole, Allocated
<1> DEFINE r == [q EXCEPT !.deleted = TRUE]
<1>11. g = [f EXCEPT ![n] = r]
  BY <1>3, <1>6, <1>7, <1>9
<1>12. Shown(r) = [Shown(q) EXCEPT !.deleted = TRUE]
  BY ShownFacts
<1> HIDE DEF r
<1>13. View(g, s) = [View(f, s) EXCEPT ![n] = Shown(r)]
  <2>1. g[n] = r /\ \A m \in Nodes : m # n => g[m] = f[m]
    BY <1>11
  <2>2. \A m \in Nodes : View(g, s)[m] = [View(f, s) EXCEPT ![n] = Shown(r)][m]
    BY <1>10, <2>1 DEF View
  <2>3. DOMAIN View(g, s) = Nodes /\ DOMAIN [View(f, s) EXCEPT ![n] = Shown(r)] = Nodes
    BY DEF View
  <2> QED
    BY <2>2, <2>3 DEF View
<1>14. View(f, s)[n] = Shown(q)
  BY <1>9, <1>10, ViewAt
<1>15. Heap[n] = Shown(q)
  BY <1>4, <1>6, <1>8, <1>14
<1>16. Heap' = [Heap EXCEPT ![n] = Shown(r)]
  BY <1>4, <1>5, <1>6, <1>7, <1>8, <1>13
<1>17. Heap' = [Heap EXCEPT ![n].deleted = TRUE]
  BY <1>12, <1>15, <1>16
<1>18. Heap[n] # TheTimer!Free
  BY <1>15, ShownFacts
<1>19. TheTimer!Caller /\ Where' = Where
  BY <1>2, CallerAt
<1>20. TheTimer!Remove(n)
  BY <1>2, <1>4, <1>5, <1>17, <1>18, <1>19 DEF TheTimer!Remove
<1> QED
  BY <1>20

LEMMA SeenAdd ==
  ASSUME Sound, TypeOK', NEW p, NEW a, Whole(p, a), NEW c \in Ctx, LinkHead(c)
  PROVE  \E n \in Nodes : \E i \in Intervals : TheTimer!Add(n, i)
<1>1. PICK n : n = ptr[c]
  OBVIOUS
<1>2. n \in Nodes /\ n \notin Range(p \o a) /\ Whole(<<n>> \o p, a)'
  BY <1>1, LinkHeadStep DEF Becomes
<1>3. /\ ctx = c /\ stmt[c] = "head" /\ at' = at /\ node' = node
      /\ system_tick' = system_tick
  BY DEF LinkHead, Proceed, Running
<1>4. PICK i \in Intervals : /\ node[n].interval = i /\ node[n].count_down = i
                             /\ node[n].since = system_tick
  BY <1>1, <1>3 DEF Sound, Filled
<1>5. ~node[n].deleted /\ node[n].trigger_count = 0
  BY <1>1, <1>3 DEF Sound, Begun, Building
<1>6. Heap = View(node, p \o a) /\ Passed = p /\ Ahead = a
  BY MappedNow
<1>7. Heap' = View(node', (<<n>> \o p) \o a) /\ Passed' = <<n>> \o p /\ Ahead' = a
  BY <1>2, MappedNext
<1>8. PICK f \in [Nodes -> Node] : f = node
  BY DEF Sound, ListTypeOK
<1>9. PICK s, t : s = p \o a /\ t = (<<n>> \o p) \o a
  OBVIOUS
<1>10. Range(t) = {n} \cup Range(s)
  <2>1. /\ p \in Seq(Nodes) /\ a \in Seq(Nodes) /\ p \o a \in Seq(Nodes)
        /\ <<n>> \in Seq(Nodes)
    BY <1>2, WholeFacts DEF Sound
  <2>2. t = <<n>> \o (p \o a)
    BY <1>9, <2>1, ConcatAssociative
  <2>3. Allocated(f) = Range(s) \cup {n}
    BY <1>1, <1>3, <1>8, <1>9 DEF Whole, UnderWay, Building
  <2>4. stmt' = [stmt EXCEPT ![c] = "done"] /\ ctx' = ctx
    BY <1>3 DEF LinkHead, Proceed, vars, cpu
  <2>5. stmt'[ctx'] = "done"
    BY <1>3, <2>4 DEF Sound, ListTypeOK
  <2>6. UnderWay' = {}
    BY <2>5 DEF UnderWay, Building
  <2>7. Allocated(f) = Range(t)
    BY <1>2, <1>3, <1>8, <1>9, <2>6 DEF Whole
  <2> QED
    BY <2>3, <2>7
<1>11. Shown(f[n]) = TheTimer!NewNode(i)
  <2>1. PICK q \in Node : q = f[n]
    BY <1>2
  <2>2. q.deleted = FALSE
    BY <1>5, <1>8, <2>1 DEF Node
  <2>3. /\ q.interval = i /\ q.count_down = i /\ q.since = system_tick
        /\ q.trigger_count = 0
    BY <1>4, <1>5, <1>8, <2>1
  <2> QED
    BY <2>1, <2>2, <2>3 DEF Shown, TheTimer!NewNode
<1>12. View(f, t) = [View(f, s) EXCEPT ![n] = Shown(f[n])]
  <2>1. \A m \in Nodes : View(f, t)[m] = [View(f, s) EXCEPT ![n] = Shown(f[n])][m]
    BY <1>2, <1>9, <1>10 DEF View
  <2>2. DOMAIN View(f, t) = Nodes /\ DOMAIN [View(f, s) EXCEPT ![n] = Shown(f[n])] = Nodes
    BY DEF View
  <2> QED
    BY <2>1, <2>2 DEF View
<1>13. Heap' = [Heap EXCEPT ![n] = TheTimer!NewNode(i)]
  BY <1>3, <1>6, <1>7, <1>8, <1>9, <1>11, <1>12
<1>14. Heap[n] = TheTimer!Free
  <2>1. View(f, s)[n] = TheTimer!Free
    BY <1>2, <1>9, ViewAt
  <2> QED
    BY <1>6, <1>8, <1>9, <2>1
<1>15. TheTimer!Caller /\ Where' = Where
  BY <1>3, CallerAt
<1>16. TheTimer!Accepts(i)
  <2>1. i \in 1 .. Width - 1
    BY ListAssumption
  <2> QED
    BY <2>1, ListAssumption DEF TheTimer!Accepts
<1>17. TheTimer!Add(n, i)
  BY <1>3, <1>6, <1>7, <1>13, <1>14, <1>15, <1>16 DEF TheTimer!Add
<1> QED
  BY <1>2, <1>17

\* The stores of add() before its last are to what is not in the list, or to
\* a link.
LEMMA UnseenStores ==
  ASSUME Sound, TypeOK', NEW p, NEW a, Whole(p, a), NEW c \in Ctx,
         New(c) \/ LinkNext(c) \/ LinkBack(c) \/ Fill(c)
  PROVE  UNCHANGED TheTimer!vars
<1>1. Whole(p, a)'
  BY NewStep, LinkNextStep, LinkBackStep, FillStep DEF Becomes
<1>2. system_tick' = system_tick /\ Where' = Where
  BY DEF New, LinkNext, LinkBack, Fill, Where, InWalk
<1>3. ctx = c
  BY DEF New, LinkNext, LinkBack, Fill, Running
<1>4. PICK f \in [Nodes -> Node] : f = node
  BY DEF Sound, ListTypeOK
<1>5. PICK g : g = node'
  OBVIOUS
<1>6. \A m \in Range(p \o a) : m \in Nodes /\ f[m].allocated
  BY <1>4, WholeFacts DEF Sound
<1>7. \A m \in Range(p \o a) : Shown(g[m]) = Shown(f[m])
  <2>1. CASE New(c)
    <3>1. PICK n \in Nodes : /\ ~f[n].allocated
                             /\ g = [f EXCEPT ![n] = [Zero EXCEPT !.allocated = TRUE]]
      BY <1>4, <1>5, <2>1 DEF New
    <3> QED
      BY <1>6, <3>1
  <2>2. CASE LinkNext(c) \/ Fill(c)
    <3>1. PICK n : n = ptr[c]
      OBVIOUS
    <3>2. Building
      BY <1>3, <2>2 DEF LinkNext, Fill, Proceed, Building
    <3>3. n \in Nodes /\ n \notin Range(p \o a)
      BY <1>3, <3>1, <3>2 DEF Sound, Begun, Whole
    <3>4. \A m \in Nodes : m # n => g[m] = f[m]
      <4>1. CASE LinkNext(c)
        <5>1. g = [f EXCEPT ![n].next = timer_head]
          BY <1>4, <1>5, <3>1, <4>1 DEF LinkNext
        <5> QED
          BY <3>3, <5>1
      <4>2. CASE Fill(c)
        <5>1. PICK i \in Intervals :
                g = [f EXCEPT ![n].interval = i, ![n].count_down = i,
                              ![n].since = system_tick]
          BY <1>4, <1>5, <3>1, <4>2 DEF Fill
        <5> QED
          BY <3>3, <5>1
      <4> QED
        BY <2>2, <4>1, <4>2
    <3> QED
      BY <1>6, <3>3, <3>4
  <2>3. CASE LinkBack(c)
    <3>1. PICK h \in Pointers : h = timer_head
      BY DEF Sound, ListTypeOK
    <3>2. PICK n : n = ptr[c]
      OBVIOUS
    <3>3. g = IF h # NULL THEN [f EXCEPT ![h].prev = n] ELSE f
      BY <1>4, <1>5, <2>3, <3>1, <3>2 DEF LinkBack
    <3>4. CASE h = NULL
      BY <3>3, <3>4
    <3>5. CASE h # NULL
      <4>1. h \in Nodes
        BY <3>1, <3>5 DEF Pointers
      <4>2. PICK q \in Node : q = f[h]
        BY <4>1
      <4>3. g[h] = [q EXCEPT !.prev = n] /\ \A m \in Nodes : m # h => g[m] = f[m]
        BY <3>3, <3>5, <4>1, <4>2
      <4>4. /\ g[h].interval = q.interval /\ g[h].trigger_count = q.trigger_count
            /\ g[h].count_down = q.count_down /\ g[h].since = q.since
            /\ g[h].deleted = q.deleted
        BY <4>3 DEF Node
      <4>5. Shown(g[h]) = Shown(f[h])
        BY <4>2, <4>4 DEF Shown
      <4> QED
        BY <1>6, <4>3, <4>5
    <3> QED
      BY <3>4, <3>5
  <2> QED
    BY <2>1, <2>2, <2>3
<1> QED
  BY <1>1, <1>2, <1>4, <1>5, <1>7, UnseenStep

\* The guards, the arrival of an interrupt and its end.
LEMMA UnseenControl ==
  ASSUME Sound, IInv, TypeOK', Guarded', NEW p, NEW a, Whole(p, a),
         \/ \E c \in Ctx : Enter(c) \/ GuardStep(c) \/ Leave(c)
         \/ RaiseIrq \/ TimerIrq \/ HandlerReturn \/ UNCHANGED allVars
  PROVE  UNCHANGED TheTimer!vars
<1>1. Whole(p, a)'
  BY ControlSteps, IdleSteps DEF Becomes
<1>2. system_tick' = system_tick /\ node' = node
  BY DEF Enter, GuardStep, Leave, RaiseIrq, TimerIrq, HandlerReturn, allVars, listVars
<1>3. Where' = Where
  <2>1. CASE TimerIrq
    <3>1. ctx = "main" /\ at' = "enter"
      BY <2>1 DEF TimerIrq, Interrupt
    <3>2. at = "idle"
      BY <3>1 DEF Sound, Guarded
    <3> QED
      BY <3>1, <3>2 DEF Where, InWalk
  <2>2. CASE HandlerReturn
    BY <2>2 DEF HandlerReturn, Where, InWalk
  <2>3. CASE at' = at
    BY <2>3 DEF Where, InWalk
  <2> QED
    BY <2>1, <2>2, <2>3 DEF Enter, GuardStep, Leave, RaiseIrq, allVars, listVars
<1>4. \A m \in Range(p \o a) : Shown(node'[m]) = Shown(node[m])
  <2>1. PICK f : f = node
    OBVIOUS
  <2>2. \A m \in Range(p \o a) : Shown(f[m]) = Shown(f[m])
    OBVIOUS
  <2> QED
    BY <1>2, <2>1, <2>2
<1> QED
  BY <1>1, <1>2, <1>3, <1>4, UnseenStep

\* Each step of the list is a step of Timer, or one that Timer does not see.
LEMMA MapStep ==
  ASSUME LInv, IInv, IInv', Guarded', [ListNext]_allVars
  PROVE  [TheTimer!Next]_TheTimer!vars
<1>1. PICK p, a \in Seq(Nodes) : Whole(p, a)
  BY DEF LInv
<1>2. Sound /\ TypeOK'
  BY DEF LInv, IInv
<1>3. ASSUME NEW c \in Ctx, Api(c) PROVE [TheTimer!Next]_TheTimer!vars
  <2>1. CASE Enter(c) \/ GuardStep(c) \/ Leave(c)
    BY <1>1, <1>2, <2>1, UnseenControl
  <2>2. CASE New(c) \/ LinkNext(c) \/ LinkBack(c) \/ Fill(c)
    BY <1>1, <1>2, <2>2, UnseenStores
  <2>3. CASE LinkHead(c)
    BY <1>1, <1>2, <2>3, SeenAdd DEF TheTimer!Next, TheTimer!Api
  <2>4. CASE Remove(c)
    BY <1>1, <1>2, <2>4, SeenRemove DEF TheTimer!Next, TheTimer!Api
  <2> QED
    BY <1>3, <2>1, <2>2, <2>3, <2>4 DEF Api
<1>4. CASE RaiseIrq \/ TimerIrq \/ HandlerReturn \/ UNCHANGED allVars
  BY <1>1, <1>2, <1>4, UnseenControl
<1>5. CASE Tick
  BY <1>1, <1>2, <1>5, SeenTick DEF TheTimer!Next
<1>6. CASE CountNode
  BY <1>1, <1>2, <1>6, SeenCountNode DEF TheTimer!Next, TheTimer!Handler, TheTimer!Visit
<1>7. CASE Call
  BY <1>1, <1>2, <1>7, SeenCall DEF TheTimer!Next, TheTimer!Handler, TheTimer!Visit
<1>8. CASE Return
  BY <1>1, <1>2, <1>8, SeenReturn DEF TheTimer!Next, TheTimer!Handler
<1>9. CASE Unlink
  BY <1>1, <1>2, <1>9, SeenUnlink DEF TheTimer!Next, TheTimer!Handler, TheTimer!Visit
<1>10. CASE Done
  BY <1>1, <1>2, <1>10, SeenDone DEF TheTimer!Next, TheTimer!Handler
<1> QED
  BY <1>3, <1>4, <1>5, <1>6, <1>7, <1>8, <1>9, <1>10 DEF ListNext, Handler

\* Loads and stores under the guards do what Timer does in whole operations.
THEOREM ListImplementsTimer == ListSpec => ImplementsTimer
<1>1. ListInit => TheTimer!Init
  BY MapInit
<1>2. LInv /\ LInv' /\ IInv /\ IInv' /\ [ListNext]_allVars => [TheTimer!Next]_TheTimer!vars
  <2> SUFFICES ASSUME LInv, LInv', IInv, IInv', [ListNext]_allVars
               PROVE  [TheTimer!Next]_TheTimer!vars
    OBVIOUS
  <2>1. Guarded'
    BY DEF LInv, Sound
  <2> QED
    BY <2>1, MapStep
<1>3. ListSpec => []IInv
  BY ListObeysGuards, Inductive, PTL
<1> QED
  BY <1>1, <1>2, <1>3, ListInductive, PTL DEF ListSpec, ImplementsTimer, TheTimer!Spec
=============================================================================
