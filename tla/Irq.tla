-------------------------------- MODULE Irq --------------------------------
(***************************************************************************)
(* Interrupt lines (krnl/irq.cc, krnl/irq_handler.asm): the table of       *)
(* handlers, the dispatcher with its end of interrupt, and the masks of    *)
(* two cascaded 8259A controllers, which enable() and disable() read and   *)
(* write in two accesses to a port.  The controllers themselves are        *)
(* external: fixed priorities, one latched request per line, a request     *)
(* that vanishes between INT and its acknowledgement is answered with the  *)
(* lowest line of its chip (7 or 15) and nothing in service.               *)
(*                                                                         *)
(* "main" is the flow of kinitialize(), "irq" the one handler that runs.   *)
(* Handlers are not nested: IntGuard!HandlerStaysMasked.                   *)
(***************************************************************************)
EXTENDS Integers, FiniteSetsExt

CONSTANTS
  Lines,        \* the lines devices are wired to
  HandlerLines  \* the lines a handler may enable or disable

Chips == {"master", "slave"}
Bits  == 0 .. 7
Ctx   == {"main", "irq"}
Cascade == 2    \* the line of the master that the slave is wired to
None  == -1

ASSUME IrqAssumption ==
  /\ Lines \subseteq (0 .. 15) \ {Cascade}
  /\ HandlerLines \subseteq Lines

VARIABLES
  ifl,      \* EFLAGS.IF
  boot,     \* how far initialize() has come
  line,     \* irq_index of the handler that runs, or None
  stage,    \* where the dispatcher is
  imr, irr, isr,   \* per chip: bits masked, latched, in service
  gates,    \* lines whose gate in the IDT is set
  handled,  \* lines with lpfn_irq_handler[index] != NULL
  call,     \* per context: the enable() or disable() between its accesses
  asked,    \* lines enabled and not disabled since (not in the code)
  missed,   \* lines a handler changed in the register that the main flow has
            \* read and not yet written (not in the code)
  overtaken \* lines whose last change a write of the main flow may have undone,
            \* for it had read the register before (not in the code)

pic  == <<imr, irr, isr>>
vars == <<ifl, boot, line, stage, pic, gates, handled, call, asked, missed, overtaken>>

Idle == [fn |-> "none"]
Calls == [fn : {"enable", "disable"}, index : Lines \cup {Cascade},
          value : SUBSET Bits]

TypeOK ==
  /\ ifl \in BOOLEAN
  /\ boot \in {"reset", "remapped", "masked", "done", "fault"}
  /\ line \in {None} \cup 0 .. 15
  /\ stage \in {"handler", "iret"}
  /\ imr \in [Chips -> SUBSET Bits]
  /\ irr \in [Chips -> SUBSET Bits]
  /\ isr \in [Chips -> SUBSET Bits]
  /\ gates \subseteq 0 .. 15
  /\ handled \subseteq 0 .. 15
  /\ call \in [Ctx -> Calls \cup {Idle}]
  /\ asked \subseteq 0 .. 15 /\ missed \subseteq 0 .. 15 /\ overtaken \subseteq 0 .. 15

\* The loader left interrupts off; the BIOS had all lines open.
Init ==
  /\ ifl = FALSE /\ boot = "reset" /\ line = None /\ stage = "iret"
  /\ imr = [p \in Chips |-> {}]
  /\ irr = [p \in Chips |-> {}]
  /\ isr = [p \in Chips |-> {}]
  /\ gates = {} /\ handled = {}
  /\ asked = {} /\ missed = {} /\ overtaken = {}
  /\ call = [c \in Ctx |-> Idle]

\* The context that executes.
Runs(c) == (c = "irq") = (line # None)

----------------------------------------------------------------------------
(* initialize()                                                            *)

\* The four command words to each chip; the first resets it.
Remap ==
  /\ boot = "reset" /\ Runs("main")
  /\ boot' = "remapped"
  /\ imr' = [p \in Chips |-> {}]
  /\ irr' = [p \in Chips |-> {}]
  /\ isr' = [p \in Chips |-> {}]
  /\ UNCHANGED <<ifl, line, stage, gates, handled, call, asked, missed, overtaken>>

MaskAll ==
  /\ boot = "remapped" /\ Runs("main")
  /\ boot' = "masked"
  /\ imr' = [p \in Chips |-> Bits]
  /\ UNCHANGED <<ifl, line, stage, irr, isr, gates, handled, call, asked, missed, overtaken>>

SetGates ==
  /\ boot = "masked" /\ Runs("main")
  /\ boot' = "done"
  /\ gates' = 0 .. 15
  /\ handled' = {}
  /\ UNCHANGED <<ifl, line, stage, pic, call, asked, missed, overtaken>>

----------------------------------------------------------------------------
(* The other functions                                                     *)

Ready(c) == Runs(c) /\ call[c] = Idle /\ boot # "fault"

Install(c, n) ==
  /\ Ready(c)
  /\ handled' = handled \cup {n}
  /\ UNCHANGED <<ifl, boot, line, stage, pic, gates, call, asked, missed, overtaken>>

Uninstall(c, n) ==
  /\ Ready(c)
  /\ handled' = handled \ {n}
  /\ UNCHANGED <<ifl, boot, line, stage, pic, gates, call, asked, missed, overtaken>>

Port(n) == IF n < 8 THEN "master" ELSE "slave"

\* index -= 8 for the slave; the register has eight bits.
Bit(n) == IF n < 8 THEN n ELSE n - 8

\* value = port::inb(port)
ReadMask(c, f, n) ==
  /\ Ready(c)
  /\ call' = [call EXCEPT ![c] =
                [fn |-> f, index |-> n, value |-> imr[Port(n)]]]
  /\ UNCHANGED <<ifl, boot, line, stage, pic, gates, handled, asked, missed, overtaken>>

Mut1_NewMask(f, n, value) == IF f = "enable" THEN Bits \ {Bit(n)} ELSE {Bit(n)}
NewMask(f, n, value) ==
  (IF f = "enable" THEN value \ {Bit(n)} ELSE value \cup {Bit(n)}) \cap Bits

\* The main flow is between its two accesses to the register of line n.
Overlapped(n) == call["main"] # Idle /\ Port(call["main"].index) = Port(n)

\* port::outb(port, value)
WriteMask(c) ==
  /\ Runs(c) /\ call[c] # Idle
  /\ LET n == call[c].index
         f == call[c].fn
     IN  /\ imr' = [imr EXCEPT ![Port(n)] = NewMask(f, n, call[c].value)]
         /\ asked' = IF f = "enable" THEN asked \cup {n} ELSE asked \ {n}
         /\ missed' = IF c = "main" THEN {}
                      ELSE missed \cup {m \in {n} : Overlapped(m)}
         /\ overtaken' = (overtaken \cup IF c = "main" THEN missed ELSE {}) \ {n}
  /\ call' = [call EXCEPT ![c] = Idle]
  /\ UNCHANGED <<ifl, boot, line, stage, irr, isr, gates, handled>>

\* sti() and cli() in the main flow.
SetIF(b) ==
  /\ Ready("main") /\ ifl # b
  /\ ifl' = b
  /\ UNCHANGED <<boot, line, stage, pic, gates, handled, call, asked, missed, overtaken>>

----------------------------------------------------------------------------
(* The controllers                                                         *)

\* The request with the best priority, if it beats what is in service.
Wins(requests, service) ==
  /\ requests # {}
  /\ \A b \in service : Min(requests) < b

SlaveRequests == irr["slave"] \ imr["slave"]
SlaveInt == Wins(SlaveRequests, isr["slave"])
MasterRequests ==
  (irr["master"] \cup (IF SlaveInt THEN {Cascade} ELSE {})) \ imr["master"]
IntPin == Wins(MasterRequests, isr["master"])

\* Where line n is wired.
Pin(n) == n % 8

Raise(n) ==
  /\ Pin(n) \notin irr[Port(n)]
  /\ irr' = [irr EXCEPT ![Port(n)] = @ \cup {Pin(n)}]
  /\ UNCHANGED <<ifl, boot, line, stage, imr, isr, gates, handled, call, asked, missed, overtaken>>

\* The CPU goes through the gate of line n, which clears IF.  An empty gate is
\* an exception: a panic, or a reset while exceptions have no gates either.
Enter(n) ==
  /\ boot' = IF n \in gates THEN boot ELSE "fault"
  /\ line' = n
  /\ stage' = "handler"
  /\ ifl' = FALSE
  /\ UNCHANGED <<imr, gates, handled, call, asked, missed, overtaken>>

Interrupt ==
  /\ ifl /\ IntPin
  /\ LET m == Min(MasterRequests)
         s == Min(SlaveRequests)
     IN  IF m # Cascade
         THEN /\ Enter(m)
              /\ irr' = [irr EXCEPT !["master"] = @ \ {m}]
              /\ isr' = [isr EXCEPT !["master"] = @ \cup {m}]
         ELSE /\ Enter(s + 8)
              /\ irr' = [irr EXCEPT !["slave"] = @ \ {s}]
              /\ isr' = [p \in Chips |->
                           isr[p] \cup IF p = "master" THEN {m} ELSE {s}]

\* The request is withdrawn while it is acknowledged.
Glitch ==
  /\ ifl /\ IntPin
  /\ LET m == Min(MasterRequests)
         s == Min(SlaveRequests)
     IN  IF m # Cascade
         THEN /\ Enter(7)
              /\ irr' = [irr EXCEPT !["master"] = @ \ {m}]
              /\ UNCHANGED isr
         ELSE /\ Enter(15)
              /\ irr' = [irr EXCEPT !["slave"] = @ \ {s}]
              /\ isr' = [isr EXCEPT !["master"] = @ \cup {m}]

----------------------------------------------------------------------------
(* dispatcher()                                                            *)

\* The byte 0x20 to a command port ends what has the best priority there.
Ended(service) == IF service = {} THEN {} ELSE service \ {Min(service)}

\* The chips that are told: the master always, the slave for its lines.
Mut1_Told(n) == IF n >= 8 THEN {"slave"} ELSE {"master"}
Mut2_Told(n) == IF n > 8 THEN {"master", "slave"} ELSE {"master"}
Told(n) == IF n >= 8 THEN {"master", "slave"} ELSE {"master"}

Acknowledge ==
  /\ line # None /\ stage = "handler" /\ call["irq"] = Idle
  /\ stage' = "iret"
  /\ isr' = [p \in Chips |-> IF p \in Told(line) THEN Ended(isr[p]) ELSE isr[p]]
  /\ UNCHANGED <<ifl, boot, line, imr, irr, gates, handled, call, asked, missed, overtaken>>

Return ==
  /\ line # None /\ stage = "iret"
  /\ line' = None
  /\ ifl' = TRUE
  /\ UNCHANGED <<boot, stage, pic, gates, handled, call, asked, missed, overtaken>>

----------------------------------------------------------------------------

HandlerReads(f, n) ==
  /\ n \in HandlerLines /\ stage = "handler" /\ line \in handled
  /\ ReadMask("irq", f, n)

Initialize == Remap \/ MaskAll \/ SetGates

Operation ==
  /\ boot = "done"
  /\ \/ \E n \in Lines : Install("main", n) \/ Uninstall("main", n)
     \/ \E f \in {"enable", "disable"}, n \in Lines \cup {Cascade} :
          ReadMask("main", f, n) \/ HandlerReads(f, n)
     \/ \E b \in BOOLEAN : SetIF(b)

Next ==
  \/ Initialize \/ Operation
  \/ \E c \in Ctx : WriteMask(c)
  \/ \E n \in Lines : Raise(n)
  \/ Interrupt \/ Glitch \/ Acknowledge \/ Return

Spec == Init /\ [][Next]_vars

\* Handlers return; the CPU takes a request that is there again and again.
Fairness ==
  /\ \A c \in Ctx : WF_vars(WriteMask(c))
  /\ SF_vars(Acknowledge)
  /\ WF_vars(Return)
  /\ SF_vars(Interrupt)

FairSpec == Spec /\ Fairness

----------------------------------------------------------------------------
(* Properties                                                              *)

\* Every interrupt is acknowledged exactly once and to the right chips, also
\* a spurious one: the main flow never runs with a line in service, which
\* would block that line and all below it for ever.
NothingInService ==
  line = None => \A p \in Chips : isr[p] = {}

\* The masks are what the completed calls of enable() and disable() add up to,
\* though neither masks interrupts between its two accesses.  The one update
\* that may be undone is a handler's, made while the main flow was between its
\* own two accesses to that register: what the main flow did to a line that
\* handlers leave alone is never lost, and every later call mends its line.
MasksAsAsked ==
  boot = "done" =>
    /\ overtaken \subseteq HandlerLines
    /\ \A n \in (0 .. 15) \ overtaken : n \in asked <=> Pin(n) \notin imr[Port(n)]

\* Nothing lies between the device and the CPU.
Open(n) == Pin(n) \notin imr[Port(n)] /\ (n >= 8 => Cascade \notin imr["master"])

\* The order in which the controllers serve the lines.
Rank(n) == IF n < 8 THEN 10 * n ELSE 20 + n - 8
Above(n) == {m \in Lines : Rank(m) < Rank(n)}

\* A line that stays open is served, if the main flow turns interrupts on
\* from time to time and the lines above it fall silent.
EveryLineServed ==
  \A n \in Lines :
    (/\ <>[]Open(n)
     /\ []<>ifl
     /\ <>[](\A m \in Above(n) : Pin(m) \notin irr[Port(m)]))
    => []<>(Pin(n) \notin irr[Port(n)])

=============================================================================
