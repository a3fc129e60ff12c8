----------------------------- MODULE IrqProofs -----------------------------
(***************************************************************************)
(* Proofs about Irq, for any set of lines: every interrupt, spurious ones  *)
(* included, leaves the controllers with nothing in service.               *)
(***************************************************************************)
EXTENDS Irq, TLAPS

AtMostOne(S) == \A a, b \in S : a = b

\* What is in service in the course of a handler.  The cascade has no latch
\* of its own, and a slave's line is in service for the handlers of the
\* slave's lines only: that is what makes Told() sufficient.
ServiceInv ==
  /\ Cascade \notin irr["master"]
  /\ line # None => ~ifl
  /\ line = None \/ stage = "iret" => \A p \in Chips : isr[p] = {}
  /\ \A p \in Chips : AtMostOne(isr[p])
  /\ isr["slave"] # {} => line >= 8

IInv == TypeOK /\ ServiceInv

\* The priority resolver of a controller finds a bit of its input.
LEMMA MinExists ==
  ASSUME NEW S \in SUBSET Bits, S # {}
  PROVE  Min(S) \in S /\ Min(S) \in Bits
<1>1. \E x \in S : \A y \in S : x =< y
  <2>1. CASE 0 \in S
    BY <2>1 DEF Bits
  <2>2. CASE 0 \notin S /\ 1 \in S
    BY <2>2 DEF Bits
  <2>3. CASE 0 \notin S /\ 1 \notin S /\ 2 \in S
    BY <2>3 DEF Bits
  <2>4. CASE 0 \notin S /\ 1 \notin S /\ 2 \notin S /\ 3 \in S
    BY <2>4 DEF Bits
  <2>5. CASE 0 \notin S /\ 1 \notin S /\ 2 \notin S /\ 3 \notin S /\ 4 \in S
    BY <2>5 DEF Bits
  <2>6. CASE 0 \notin S /\ 1 \notin S /\ 2 \notin S /\ 3 \notin S /\ 4 \notin S /\ 5 \in S
    BY <2>6 DEF Bits
  <2>7. CASE 0 \notin S /\ 1 \notin S /\ 2 \notin S /\ 3 \notin S /\ 4 \notin S /\ 5 \notin S
    <3>1. \A y \in S : y = 6 \/ y = 7
      BY <2>7 DEF Bits
    <3>2. CASE 6 \in S
      BY <3>1, <3>2
    <3>3. CASE 6 \notin S
      <4>1. \A y \in S : y = 7
        BY <3>1, <3>3
      <4>2. QED BY <4>1
    <3>4. QED BY <3>2, <3>3
  <2>8. QED BY <2>1, <2>2, <2>3, <2>4, <2>5, <2>6, <2>7
<1>2. Min(S) \in S
  BY <1>1 DEF Min
<1>3. QED BY <1>2

\* A non-specific end of interrupt clears a register with at most one bit.
LEMMA EndedClears ==
  ASSUME NEW S \in SUBSET Bits, AtMostOne(S)
  PROVE  Ended(S) = {}
<1>1. CASE S = {}
  BY <1>1 DEF Ended
<1>2. CASE S # {}
  <2>1. Min(S) \in S
    BY <1>2, MinExists
  <2>2. S = {Min(S)}
    BY <2>1 DEF AtMostOne
  <2>3. Ended(S) = S \ {Min(S)}
    BY <1>2 DEF Ended
  <2>4. QED BY <2>2, <2>3
<1>3. QED BY <1>1, <1>2

LEMMA LineFacts ==
  ASSUME NEW n \in 0 .. 15
  PROVE  /\ Port(n) \in Chips
         /\ Pin(n) \in Bits
         /\ n # Cascade /\ Port(n) = "master" => Pin(n) # Cascade
BY DEF Port, Pin, Chips, Bits, Cascade

LEMMA InitEstablishes == Init => IInv
<1> SUFFICES ASSUME Init PROVE IInv
  OBVIOUS
<1>1. TypeOK
  <2>1. call \in [Ctx -> Calls \cup {Idle}]
    BY DEF Init
  <2>2. /\ imr \in [Chips -> SUBSET Bits] /\ irr \in [Chips -> SUBSET Bits]
        /\ isr \in [Chips -> SUBSET Bits]
    BY DEF Init
  <2>3. QED BY <2>1, <2>2 DEF Init, TypeOK
<1>2. ServiceInv
  BY DEF Init, ServiceInv, AtMostOne, Chips, None, Cascade
<1>3. QED BY <1>1, <1>2 DEF IInv

LEMMA InitializeStep == IInv /\ Initialize => IInv'
<1> SUFFICES ASSUME IInv, Initialize PROVE IInv'
  OBVIOUS
<1> USE DEF IInv, TypeOK, ServiceInv, Runs, None, Cascade, Chips
<1>1. CASE Remap
  BY <1>1 DEF Remap, AtMostOne
<1>2. CASE MaskAll
  BY <1>2 DEF MaskAll, AtMostOne
<1>3. CASE SetGates
  BY <1>3 DEF SetGates, pic, AtMostOne
<1>4. QED BY <1>1, <1>2, <1>3 DEF Initialize

\* install(), uninstall() and the two accesses of enable() and disable()
\* leave what is in service alone.
LEMMA OperationStep ==
  IInv /\ (Operation \/ \E c \in Ctx : WriteMask(c)) => IInv'
<1> SUFFICES ASSUME IInv, Operation \/ \E c \in Ctx : WriteMask(c) PROVE IInv'
  OBVIOUS
<1> USE DEF IInv
<1>1. ASSUME NEW n \in Lines, Install("main", n) \/ Uninstall("main", n)
      PROVE  IInv'
  <2>1. n \in 0 .. 15
    BY IrqAssumption
  <2>2. handled' \subseteq 0 .. 15
    BY <1>1, <2>1 DEF Install, Uninstall, TypeOK
  <2>3. TypeOK'
    BY <1>1, <2>2 DEF Install, Uninstall, TypeOK, pic
  <2>4. ServiceInv'
    BY <1>1 DEF Install, Uninstall, ServiceInv, pic, AtMostOne
  <2>5. QED BY <2>3, <2>4
<1>2. ASSUME NEW c \in Ctx, NEW f \in {"enable", "disable"},
             NEW n \in Lines \cup {Cascade}, ReadMask(c, f, n)
      PROVE  IInv'
  <2>1. n \in 0 .. 15
    BY IrqAssumption DEF Cascade
  <2>2. imr[Port(n)] \in SUBSET Bits
    BY <2>1, LineFacts DEF TypeOK
  <2>3. [fn |-> f, index |-> n, value |-> imr[Port(n)]] \in Calls
    BY <2>2 DEF Calls
  <2>4. call' \in [Ctx -> Calls \cup {Idle}]
    BY <1>2, <2>3 DEF ReadMask, TypeOK
  <2>5. TypeOK'
    BY <1>2, <2>4 DEF ReadMask, TypeOK, pic
  <2>6. ServiceInv'
    BY <1>2 DEF ReadMask, ServiceInv, pic, AtMostOne
  <2>7. QED BY <2>5, <2>6
<1>3. ASSUME NEW c \in Ctx, WriteMask(c)
      PROVE  IInv'
  <2>1. call[c] \in Calls
    BY <1>3 DEF WriteMask, TypeOK
  <2>2. /\ call[c].index \in 0 .. 15
        /\ call[c].value \subseteq Bits
    <3>1. call[c].index \in Lines \cup {Cascade} /\ call[c].value \in SUBSET Bits
      BY <2>1 DEF Calls
    <3>2. \A n \in Lines \cup {Cascade} : n \in 0 .. 15
      BY IrqAssumption DEF Cascade
    <3>3. QED BY <3>1, <3>2
  <2>3. NewMask(call[c].fn, call[c].index, call[c].value) \subseteq Bits
    BY DEF NewMask
  <2>4. imr' \in [Chips -> SUBSET Bits]
    BY <1>3, <2>2, <2>3, LineFacts DEF WriteMask, TypeOK
  <2>5. asked' \subseteq 0 .. 15 /\ missed' \subseteq 0 .. 15 /\ overtaken' \subseteq 0 .. 15
    BY <1>3, <2>2 DEF WriteMask, TypeOK
  <2>6. call' \in [Ctx -> Calls \cup {Idle}]
    BY <1>3 DEF WriteMask, TypeOK
  <2>7. TypeOK'
    BY <1>3, <2>4, <2>5, <2>6 DEF WriteMask, TypeOK
  <2>8. ServiceInv'
    BY <1>3 DEF WriteMask, ServiceInv, AtMostOne
  <2>9. QED BY <2>7, <2>8
<1>4. ASSUME NEW b \in BOOLEAN, SetIF(b)
      PROVE  IInv'
  <2>1. ifl' \in BOOLEAN
    BY <1>4 DEF SetIF
  <2>2. TypeOK'
    BY <1>4, <2>1 DEF SetIF, TypeOK, pic
  <2>3. ServiceInv'
    BY <1>4 DEF SetIF, Ready, Runs, ServiceInv, pic, AtMostOne
  <2>4. QED BY <2>2, <2>3
<1>5. CASE Operation
  BY <1>1, <1>2, <1>4, <1>5 DEF Operation, HandlerReads, Ctx
<1>6. QED BY <1>3, <1>5

LEMMA RaiseStep ==
  ASSUME IInv, NEW n \in Lines, Raise(n)
  PROVE  IInv'
<1>1. n \in 0 .. 15 /\ n # Cascade
  BY IrqAssumption
<1>2. irr' \in [Chips -> SUBSET Bits]
  BY <1>1, LineFacts DEF Raise, IInv, TypeOK
<1>3. Cascade \notin irr'["master"]
  BY <1>1, LineFacts DEF Raise, IInv, TypeOK, ServiceInv, Chips
<1>4. TypeOK'
  BY <1>2 DEF Raise, IInv, TypeOK
<1>5. ServiceInv'
  BY <1>3 DEF Raise, IInv, ServiceInv, AtMostOne
<1>6. QED BY <1>4, <1>5 DEF IInv

\* What the controllers answer to the acknowledgement of the CPU.
LEMMA Resolved ==
  ASSUME IInv, ifl, IntPin
  PROVE  /\ line = None
         /\ \A p \in Chips : isr[p] = {}
         /\ Min(MasterRequests) \in Bits
         /\ Min(MasterRequests) = Cascade => Min(SlaveRequests) \in Bits
<1> USE DEF IInv
<1>1. line = None /\ \A p \in Chips : isr[p] = {}
  BY DEF ServiceInv
<1>2. MasterRequests \in SUBSET Bits /\ MasterRequests # {}
  BY DEF IntPin, Wins, MasterRequests, TypeOK, Chips, Cascade, Bits
<1>3. Min(MasterRequests) \in MasterRequests /\ Min(MasterRequests) \in Bits
  BY <1>2, MinExists
<1>4. ASSUME Min(MasterRequests) = Cascade
      PROVE  Min(SlaveRequests) \in Bits
  <2>1. SlaveInt
    BY <1>3, <1>4 DEF MasterRequests, ServiceInv
  <2>2. SlaveRequests \in SUBSET Bits /\ SlaveRequests # {}
    BY <2>1 DEF SlaveInt, Wins, SlaveRequests, TypeOK, Chips
  <2>3. QED BY <2>2, MinExists
<1>5. QED BY <1>1, <1>3, <1>4

LEMMA InterruptStep == IInv /\ (Interrupt \/ Glitch) => IInv'
<1> SUFFICES ASSUME IInv, Interrupt \/ Glitch PROVE IInv'
  OBVIOUS
<1> DEFINE m == Min(MasterRequests)
           s == Min(SlaveRequests)
<1>1. /\ line = None
      /\ isr["master"] = {} /\ isr["slave"] = {}
      /\ m \in Bits
      /\ m = Cascade => s \in Bits
  BY Resolved DEF Interrupt, Glitch, Chips
<1>2. /\ irr' \in [Chips -> SUBSET Bits]
      /\ Cascade \notin irr'["master"]
  BY DEF Interrupt, Glitch, IInv, TypeOK, ServiceInv, Chips
<1>3. PICK n \in 0 .. 15 :
        /\ Enter(n)
        /\ isr' \in [Chips -> SUBSET Bits]
        /\ AtMostOne(isr'["master"]) /\ AtMostOne(isr'["slave"])
        /\ isr'["slave"] # {} => n >= 8
  <2>1. CASE Interrupt /\ m # Cascade
    <3>1. Enter(m) /\ isr' = [isr EXCEPT !["master"] = @ \cup {m}]
      BY <2>1 DEF Interrupt
    <3>2. m \in 0 .. 15
      BY <1>1 DEF Bits
    <3>3. isr' \in [Chips -> SUBSET Bits] /\ isr'["master"] = {m} /\ isr'["slave"] = {}
      BY <1>1, <3>1 DEF IInv, TypeOK, Chips
    <3>4. QED BY <3>1, <3>2, <3>3 DEF AtMostOne
  <2>2. CASE Interrupt /\ m = Cascade
    <3>1. /\ Enter(s + 8)
          /\ isr' = [p \in Chips |-> isr[p] \cup IF p = "master" THEN {m} ELSE {s}]
      BY <2>2 DEF Interrupt
    <3>2. s \in Bits /\ s + 8 \in 0 .. 15 /\ s + 8 >= 8
      BY <1>1, <2>2 DEF Bits
    <3>3. isr' \in [Chips -> SUBSET Bits] /\ isr'["master"] = {m} /\ isr'["slave"] = {s}
      BY <1>1, <3>1, <3>2 DEF IInv, TypeOK, Chips
    <3>4. QED BY <3>1, <3>2, <3>3 DEF AtMostOne
  <2>3. CASE Glitch /\ m # Cascade
    BY <1>1, <2>3 DEF Glitch, IInv, TypeOK, AtMostOne
  <2>4. CASE Glitch /\ m = Cascade
    <3>1. Enter(15) /\ isr' = [isr EXCEPT !["master"] = @ \cup {m}]
      BY <2>4 DEF Glitch
    <3>2. isr' \in [Chips -> SUBSET Bits] /\ isr'["master"] = {m} /\ isr'["slave"] = {}
      BY <1>1, <3>1 DEF IInv, TypeOK, Chips
    <3>3. QED BY <3>1, <3>2 DEF AtMostOne
  <2>5. QED BY <2>1, <2>2, <2>3, <2>4
<1>4. TypeOK'
  BY <1>2, <1>3 DEF Enter, IInv, TypeOK
<1>5. ServiceInv'
  BY <1>2, <1>3 DEF Enter, ServiceInv, None, Chips
<1>6. QED BY <1>4, <1>5 DEF IInv

\* The dispatcher's end of interrupt empties both controllers.
LEMMA AcknowledgeStep == IInv /\ (Acknowledge \/ Return) => IInv'
<1> SUFFICES ASSUME IInv, Acknowledge \/ Return PROVE IInv'
  OBVIOUS
<1>1. CASE Acknowledge
  <2>1. \A p \in Chips : Ended(isr[p]) = {}
    BY EndedClears DEF IInv, TypeOK, ServiceInv
  <2>2. \A p \in Chips : p \notin Told(line) => isr[p] = {}
    BY <1>1 DEF Acknowledge, IInv, TypeOK, ServiceInv, Told, Chips, None
  <2>3. isr' = [p \in Chips |-> {}]
    BY <1>1, <2>1, <2>2 DEF Acknowledge
  <2>4. TypeOK'
    BY <1>1, <2>3 DEF Acknowledge, IInv, TypeOK
  <2>5. ServiceInv'
    BY <1>1, <2>3 DEF Acknowledge, IInv, ServiceInv, AtMostOne, Chips
  <2>6. QED BY <2>4, <2>5 DEF IInv
<1>2. CASE Return
  BY <1>2 DEF Return, IInv, TypeOK, ServiceInv, pic, AtMostOne, Chips
<1>3. QED BY <1>1, <1>2

\* The invariant is inductive.
THEOREM Inductive == Spec => []IInv
<1>1. ASSUME IInv, [Next]_vars PROVE IInv'
  <2>1. CASE UNCHANGED vars
    BY <1>1, <2>1 DEF vars, pic, IInv, TypeOK, ServiceInv, AtMostOne
  <2>2. CASE Next
    BY <1>1, <2>2, InitializeStep, OperationStep, RaiseStep, InterruptStep, AcknowledgeStep
       DEF Next
  <2>3. QED BY <1>1, <2>1, <2>2
<1>2. QED BY <1>1, InitEstablishes, PTL DEF Spec

\* Every variable keeps its type.
THEOREM TypeCorrect == Spec => []TypeOK
BY Inductive, PTL DEF IInv

\* The main flow never runs with a line in service, whatever lines exist,
\* glitch or are masked meanwhile (dispatcher(), irq.cc:54-58).
THEOREM AllAcknowledged == Spec => []NothingInService
<1>1. IInv => NothingInService
  BY DEF IInv, ServiceInv, NothingInService
<1>2. QED BY <1>1, Inductive, PTL

----------------------------------------------------------------------------
(* Which updates of a mask register can be lost.                           *)

\* Before initialize() is through nobody can interfere, and no interrupt is
\* ever taken through an empty gate.
BootInv ==
  /\ boot # "fault"
  /\ boot # "done" =>
       /\ ~ifl /\ line = None /\ asked = {} /\ overtaken = {}
       /\ \A c \in Ctx : call[c] = Idle
  /\ boot = "masked" => imr = [p \in Chips |-> Bits]
  /\ boot = "done" => gates = 0 .. 15

\* A handler runs to its end, so what it has read is what the register holds
\* until it writes.  The main flow may be interrupted: what it has read is out
\* of date for the lines that handlers changed since, and for no other.
CallInv ==
  /\ call["irq"] # Idle =>
       /\ line # None /\ stage = "handler"
       /\ call["irq"].index \in HandlerLines
       /\ call["irq"].value = imr[Port(call["irq"].index)]
  /\ call["main"] # Idle =>
       \A m \in (0 .. 15) \ missed :
         Port(m) = Port(call["main"].index) =>
           (Pin(m) \in call["main"].value <=> Pin(m) \in imr[Port(m)])
  /\ call["main"] = Idle => missed = {}
  /\ missed \subseteq HandlerLines /\ overtaken \subseteq HandlerLines

AskedInv ==
  boot = "done" =>
    \A n \in (0 .. 15) \ overtaken : n \in asked <=> Pin(n) \notin imr[Port(n)]

MaskInv == BootInv /\ CallInv /\ AskedInv

LEMMA Wiring ==
  /\ \A n \in 0 .. 15 : Bit(n) = Pin(n) /\ Pin(n) \in Bits /\ Port(n) \in Chips
  /\ \A n, m \in 0 .. 15 : Port(n) = Port(m) /\ Pin(n) = Pin(m) => n = m
BY DEF Bit, Pin, Bits, Port, Chips

LEMMA MaskInit == Init => MaskInv
BY DEF Init, MaskInv, BootInv, CallInv, AskedInv, Ctx

LEMMA MaskInitialize == IInv /\ MaskInv /\ Initialize => MaskInv'
<1> SUFFICES ASSUME IInv, MaskInv, Initialize PROVE MaskInv'
  OBVIOUS
<1> USE DEF MaskInv, BootInv, CallInv, AskedInv, Ctx
<1>1. CASE Remap
  BY <1>1 DEF Remap
<1>2. CASE MaskAll
  BY <1>2 DEF MaskAll
<1>3. CASE SetGates
  <2>1. \A n \in 0 .. 15 : Pin(n) \in imr[Port(n)]
    BY <1>3, Wiring DEF SetGates
  <2>2. QED BY <1>3, <2>1 DEF SetGates, pic
<1>4. QED BY <1>1, <1>2, <1>3 DEF Initialize

LEMMA MaskRead ==
  ASSUME IInv, MaskInv, boot = "done", NEW f \in {"enable", "disable"},
         NEW n \in Lines \cup {Cascade}, ReadMask("main", f, n) \/ HandlerReads(f, n)
  PROVE  MaskInv'
<1> USE DEF MaskInv
<1>1. UNCHANGED <<ifl, boot, line, stage, imr, gates, asked, missed, overtaken>>
  BY DEF HandlerReads, ReadMask, pic
<1>2. BootInv'
  BY <1>1 DEF BootInv
<1>3. AskedInv'
  BY <1>1 DEF AskedInv
<1> DEFINE r == [fn |-> f, index |-> n, value |-> imr[Port(n)]]
<1>4. r # Idle /\ r.index = n /\ r.value = imr[Port(n)]
  BY DEF Idle
<1>5. CASE ReadMask("main", f, n)
  <2>1. call' = [call EXCEPT !["main"] = r] /\ call["main"] = Idle
    BY <1>5 DEF ReadMask, Ready
  <2>2. call'["main"] = r /\ call'["irq"] = call["irq"]
    BY <2>1 DEF IInv, TypeOK, Ctx
  <2>3. \A m \in 0 .. 15 : Port(m) = Port(n) => (Pin(m) \in r.value <=> Pin(m) \in imr[Port(m)])
    BY <1>4
  <2>4. CallInv'
    BY <1>1, <1>4, <2>1, <2>2, <2>3 DEF CallInv
  <2>5. QED BY <1>2, <1>3, <2>4
<1>6. CASE HandlerReads(f, n)
  <2>1. /\ call' = [call EXCEPT !["irq"] = r]
        /\ line # None /\ stage = "handler" /\ n \in HandlerLines
    BY <1>6 DEF HandlerReads, ReadMask, Ready, Runs
  <2>2. call'["irq"] = r /\ call'["main"] = call["main"]
    BY <2>1 DEF IInv, TypeOK, Ctx
  <2>3. CallInv'
    BY <1>1, <1>4, <2>1, <2>2 DEF CallInv
  <2>4. QED BY <1>2, <1>3, <2>3
<1>7. QED BY <1>5, <1>6

\* The write puts back what was read with one bit changed: the handler's
\* changes none but its own line, the main flow's also takes back what
\* handlers did meanwhile, and that is what overtaken remembers.
LEMMA MaskWrite ==
  ASSUME IInv, MaskInv, NEW c \in Ctx, WriteMask(c)
  PROVE  MaskInv'
<1> USE DEF MaskInv
<1> DEFINE n == call[c].index
           f == call[c].fn
           value == call[c].value
           new == NewMask(f, n, value)
<1>1. /\ UNCHANGED <<ifl, boot, line, stage, gates>>
      /\ call[c] # Idle /\ Runs(c)
      /\ imr' = [imr EXCEPT ![Port(n)] = new]
      /\ asked' = IF f = "enable" THEN asked \cup {n} ELSE asked \ {n}
      /\ missed' = IF c = "main" THEN {} ELSE missed \cup {m \in {n} : Overlapped(m)}
      /\ overtaken' = (overtaken \cup IF c = "main" THEN missed ELSE {}) \ {n}
      /\ call' = [call EXCEPT ![c] = Idle]
  BY DEF WriteMask
<1>2. f \in {"enable", "disable"} /\ n \in 0 .. 15
  <2>1. call[c] \in Calls
    BY <1>1 DEF IInv, TypeOK
  <2>2. f \in {"enable", "disable"} /\ n \in Lines \cup {Cascade}
    BY <2>1 DEF Calls
  <2>3. \A k \in Lines \cup {Cascade} : k \in 0 .. 15
    BY IrqAssumption DEF Cascade
  <2>4. QED BY <2>2, <2>3
<1>3. boot = "done"
  BY <1>1 DEF BootInv
<1>4. BootInv'
  BY <1>1, <1>3 DEF BootInv
<1>5. call'[c] = Idle /\ \A d \in Ctx \ {c} : call'[d] = call[d]
  BY <1>1 DEF IInv, TypeOK
<1>6. imr'[Port(n)] = new /\ \A p \in Chips \ {Port(n)} : imr'[p] = imr[p]
  BY <1>1, <1>2, Wiring DEF IInv, TypeOK
<1>7. "main" \in Ctx /\ "irq" \in Ctx /\ "main" # "irq" /\ (c = "main" \/ c = "irq")
  BY DEF Ctx
<1>8. /\ f = "enable" => Pin(n) \notin new
      /\ f = "disable" => Pin(n) \in new
  BY <1>2, Wiring DEF NewMask
\* For another line the register now holds what was read.
<1>9. ASSUME NEW k \in 0 .. 15, k # n, Port(k) = Port(n)
      PROVE  Pin(k) \in imr'[Port(k)] <=> Pin(k) \in value
  <2>1. Pin(k) # Pin(n) /\ Pin(k) \in Bits /\ Bit(n) = Pin(n)
    BY <1>2, <1>9, Wiring
  <2>2. Pin(k) \in new <=> Pin(k) \in value
    BY <2>1, <1>2 DEF NewMask
  <2>3. QED BY <1>6, <1>9, <2>2
\* What was read is what the register holds, but for what was missed.
<1>10. ASSUME NEW k \in 0 .. 15, Port(k) = Port(n), c = "main" => k \notin missed
       PROVE  Pin(k) \in value <=> Pin(k) \in imr[Port(k)]
  <2>1. CASE c = "irq"
    BY <1>1, <1>10, <2>1 DEF CallInv
  <2>2. CASE c = "main"
    BY <1>1, <1>10, <2>2 DEF CallInv
  <2>3. QED BY <1>7, <2>1, <2>2
<1>11. AskedInv'
  <2>1. ASSUME NEW k \in (0 .. 15) \ overtaken'
        PROVE  k \in asked' <=> Pin(k) \notin imr'[Port(k)]
    <3>1. CASE k = n
      BY <1>1, <1>2, <1>6, <1>8, <3>1
    <3>2. CASE k # n
      <4>1. k \in asked' <=> k \in asked
        BY <1>1, <3>2
      <4>2. k \notin overtaken /\ (c = "main" => k \notin missed)
        BY <1>1, <2>1, <3>2
      <4>3. k \in asked <=> Pin(k) \notin imr[Port(k)]
        BY <1>3, <4>2 DEF AskedInv
      <4>4. Pin(k) \in imr'[Port(k)] <=> Pin(k) \in imr[Port(k)]
        <5>1. CASE Port(k) = Port(n)
          BY <1>9, <1>10, <3>2, <4>2, <5>1
        <5>2. CASE Port(k) # Port(n)
          BY <1>6, <5>2, Wiring
        <5>3. QED BY <5>1, <5>2
      <4>5. QED BY <4>1, <4>3, <4>4
    <3>3. QED BY <3>1, <3>2
  <2>2. QED BY <2>1 DEF AskedInv
<1>12. CallInv'
  <2>1. CASE c = "main"
    <3>1. call["irq"] = Idle
      BY <1>1, <2>1 DEF Runs, CallInv
    <3>2. call'["main"] = Idle /\ call'["irq"] = Idle
      BY <1>5, <1>7, <2>1, <3>1
    <3>3. missed' = {} /\ overtaken' \subseteq HandlerLines
      BY <1>1, <2>1 DEF CallInv
    <3>4. QED BY <3>2, <3>3 DEF CallInv
  <2>2. CASE c = "irq"
    <3>1. call'["irq"] = Idle /\ call'["main"] = call["main"]
      BY <1>5, <1>7, <2>2
    <3>2. n \in HandlerLines
      BY <1>1, <2>2 DEF CallInv
    <3>3. /\ missed' = missed \cup {m \in {n} : Overlapped(m)}
          /\ overtaken' \subseteq HandlerLines
      BY <1>1, <1>7, <2>2 DEF CallInv
    <3>4. missed' \subseteq HandlerLines
      BY <3>2, <3>3 DEF CallInv
    <3>5. call["main"] = Idle => missed' = {}
      BY <3>3 DEF CallInv, Overlapped
    <3>6. ASSUME call["main"] # Idle, NEW m \in (0 .. 15) \ missed',
                 Port(m) = Port(call["main"].index)
          PROVE  Pin(m) \in call["main"].value <=> Pin(m) \in imr'[Port(m)]
      <4>1. m \notin missed
        BY <3>3, <3>6
      <4>2. Pin(m) \in call["main"].value <=> Pin(m) \in imr[Port(m)]
        BY <3>6, <4>1 DEF CallInv
      <4>3. CASE Port(m) = Port(n)
        <5>1. m # n
          BY <3>3, <3>6, <4>3 DEF Overlapped
        <5>2. QED BY <1>7, <1>9, <1>10, <2>2, <4>2, <4>3, <5>1
      <4>4. CASE Port(m) # Port(n)
        BY <1>6, <4>2, <4>4, Wiring
      <4>5. QED BY <4>3, <4>4
    <3>7. QED BY <3>1, <3>3, <3>4, <3>5, <3>6 DEF CallInv
  <2>3. QED BY <1>7, <2>1, <2>2
<1>13. QED BY <1>4, <1>11, <1>12

\* The other steps of Next leave masks and calls alone.
LEMMA MaskOther ==
  ASSUME IInv, MaskInv,
         \/ \E n \in Lines : Install("main", n) \/ Uninstall("main", n) \/ Raise(n)
         \/ boot = "done" /\ \E b \in BOOLEAN : SetIF(b)
         \/ Interrupt \/ Glitch \/ Acknowledge \/ Return
         \/ UNCHANGED vars
  PROVE  MaskInv'
<1> USE DEF MaskInv
<1>1. CASE \/ \E n \in Lines : Install("main", n) \/ Uninstall("main", n) \/ Raise(n)
           \/ UNCHANGED vars
  <2>1. UNCHANGED <<ifl, boot, line, stage, imr, gates, call, asked, missed, overtaken>>
    BY <1>1 DEF Install, Uninstall, Raise, vars, pic
  <2>2. QED BY <2>1 DEF BootInv, CallInv, AskedInv
<1>2. CASE boot = "done" /\ \E b \in BOOLEAN : SetIF(b)
  BY <1>2 DEF SetIF, Ready, Runs, pic, BootInv, CallInv, AskedInv
<1>3. CASE Interrupt \/ Glitch
  <2>1. ifl /\ boot = "done" /\ line = None
    BY <1>3, Resolved DEF Interrupt, Glitch, BootInv
  <2>2. PICK k \in 0 .. 15 : Enter(k)
    <3>1. \/ Enter(Min(MasterRequests)) /\ Min(MasterRequests) # Cascade
          \/ Enter(Min(SlaveRequests) + 8) /\ Min(MasterRequests) = Cascade
          \/ Enter(7) \/ Enter(15)
      BY <1>3 DEF Interrupt, Glitch
    <3>2. Min(MasterRequests) \in Bits
      BY <1>3, Resolved DEF Interrupt, Glitch
    <3>3. Min(MasterRequests) = Cascade => Min(SlaveRequests) \in Bits
      BY <1>3, Resolved DEF Interrupt, Glitch
    <3>4. QED BY <3>1, <3>2, <3>3 DEF Bits
  <2>3. UNCHANGED <<boot, imr, gates, call, asked, missed, overtaken>> /\ line' # None
    BY <2>1, <2>2 DEF Enter, BootInv, None
  <2>4. call["irq"] = Idle
    BY <2>1 DEF CallInv
  <2>5. QED BY <2>1, <2>3, <2>4 DEF BootInv, CallInv, AskedInv
<1>4. CASE Acknowledge
  BY <1>4 DEF Acknowledge, BootInv, CallInv, AskedInv
<1>5. CASE Return
  BY <1>5 DEF Return, pic, IInv, BootInv, CallInv, AskedInv
<1>6. QED BY <1>1, <1>2, <1>3, <1>4, <1>5

THEOREM MaskInductive == Spec => []MaskInv
<1>1. ASSUME IInv, MaskInv, [Next]_vars PROVE MaskInv'
  <2>1. CASE Initialize
    BY <1>1, <2>1, MaskInitialize
  <2>2. CASE Operation
    BY <1>1, <2>2, MaskRead, MaskOther DEF Operation
  <2>3. ASSUME NEW c \in Ctx, WriteMask(c) PROVE MaskInv'
    BY <1>1, <2>3, MaskWrite
  <2>4. CASE \/ \E n \in Lines : Raise(n)
             \/ Interrupt \/ Glitch \/ Acknowledge \/ Return
             \/ UNCHANGED vars
    BY <1>1, <2>4, MaskOther
  <2>5. QED BY <1>1, <2>1, <2>2, <2>3, <2>4 DEF Next
<1>2. QED BY <1>1, MaskInit, Inductive, PTL DEF Spec

\* enable() and disable() leave interrupts as they are between reading and
\* writing the register (irq.cc:117-144).  For any lines, the one change that
\* may be undone is a handler's, to a line of the register that the main flow
\* was then between reading and writing; every other line's bit is what its
\* last call asked for.
THEOREM OnlyOvertakenLost == Spec => []MasksAsAsked
<1>1. MaskInv => MasksAsAsked
  BY DEF MaskInv, CallInv, AskedInv, MasksAsAsked
<1>2. QED BY <1>1, MaskInductive, PTL

\* As the kernel uses them, from the main flow only (timer.cc:82), enable()
\* and disable() lose no update, wherever interrupts fall.
THEOREM NoUpdateLost ==
  ASSUME HandlerLines = {}
  PROVE  Spec => [](boot = "done" => asked = {n \in 0 .. 15 : Pin(n) \notin imr[Port(n)]})
<1>1. TypeOK /\ MasksAsAsked =>
        (boot = "done" => asked = {n \in 0 .. 15 : Pin(n) \notin imr[Port(n)]})
  BY DEF TypeOK, MasksAsAsked
<1>2. QED BY <1>1, TypeCorrect, OnlyOvertakenLost, PTL
=============================================================================
