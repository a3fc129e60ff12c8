------------------------------ MODULE IntGuard ------------------------------
(***************************************************************************)
(* The interrupt flag and its nesting counter (krnl/cpu/manipulate.cc),    *)
(* executed by two contexts of the one CPU: "main", the flow of            *)
(* kinitialize(), and "irq", the handler an interrupt gate enters          *)
(* (krnl/irq_handler.asm).  The model is at the granularity of the machine *)
(* instructions that matter: an interrupt may arrive between any two of    *)
(* them while IF is set, in particular inside cli() and sti() themselves.  *)
(*                                                                         *)
(* int_guard objects are anonymous, so each context only carries how many  *)
(* it has acquired and how many it has constructed and then released.      *)
(***************************************************************************)
EXTENDS Naturals, Integers

CONSTANTS
  MaxGuards,      \* bound on the guard objects alive in one context
  ScopedOnly      \* TRUE: a guard is always acquired when its scope ends

ASSUME GuardAssumption == MaxGuards \in Nat /\ ScopedOnly \in BOOLEAN

Ctx == {"main", "irq"}

VARIABLES
  ifl,        \* the CPU's EFLAGS.IF
  saved,      \* the IF that the interrupt frame on the stack will restore
  ctx,        \* the context that executes
  pending,    \* an unmasked interrupt request waits for the CPU
  cli_count,  \* static int cli_count
  int_aon,    \* static bool int_aon
  pc,         \* per context: where it is in cli(), sti() or die()
  eflags,     \* per context: the local eflags of cli()
  held,       \* per context: guards whose acquire() returned
  spare       \* per context: guards released before their scope ended

cpu  == <<ifl, saved, ctx, pending>>
vars == <<cpu, cli_count, int_aon, pc, eflags, held, spare>>

\* "run"    anywhere outside the functions below
\* "clear"  in cli(), eflags read, the cli instruction not yet executed
\* "count"  in cli(), after the cli instruction
\* "uncount" in sti(), before cli_count -= 1
\* "enable" in sti(), after the assertion
\* "panic"  in panic(), before die()
\* "halted" after die(): hlt with interrupts off
PCs == {"run", "clear", "count", "uncount", "enable", "panic", "halted"}

TypeOK ==
  /\ ifl \in BOOLEAN /\ saved \in BOOLEAN /\ pending \in BOOLEAN
  /\ ctx \in Ctx
  /\ cli_count \in Int
  /\ int_aon \in BOOLEAN
  /\ pc \in [Ctx -> PCs]
  /\ eflags \in [Ctx -> BOOLEAN]
  /\ held \in [Ctx -> Nat]
  /\ spare \in [Ctx -> Nat]

\* static int cli_count = 1: the state the loader leaves counts as one cli().
Mut_InitialCount == 0
InitialCount == 1

\* kinitialize() up to the line that calls sti(): the loader left IF clear
\* and the counter starts at one, so the first act of "main" is that sti().
Init ==
  /\ ifl = FALSE /\ saved = FALSE /\ ctx = "main" /\ pending = FALSE
  /\ cli_count = InitialCount
  /\ int_aon = TRUE
  /\ pc = [c \in Ctx |-> IF c = "main" THEN "uncount" ELSE "run"]
  /\ eflags = [c \in Ctx |-> FALSE]
  /\ held = [c \in Ctx |-> 0]
  /\ spare = [c \in Ctx |-> 0]

Goto(c, here, there) ==
  /\ ctx = c
  /\ pc[c] = here
  /\ pc' = [pc EXCEPT ![c] = there]

----------------------------------------------------------------------------
(* cli() and sti()                                                         *)

\* cli(): uint32_t eflags = readeflags().  int_guard::acquire() reaches it
\* from the constructor of a new guard or on a guard released before.
Construct(c) ==
  /\ held[c] + spare[c] < MaxGuards
  /\ Goto(c, "run", "clear")
  /\ eflags' = [eflags EXCEPT ![c] = ifl]
  /\ UNCHANGED <<cpu, cli_count, int_aon, held, spare>>

Reacquire(c) ==
  /\ spare[c] > 0
  /\ Goto(c, "run", "clear")
  /\ eflags' = [eflags EXCEPT ![c] = ifl]
  /\ spare' = [spare EXCEPT ![c] = @ - 1]
  /\ UNCHANGED <<cpu, cli_count, int_aon, held>>

Mut_ClearIF(c) ==
  /\ Goto(c, "clear", "count")
  /\ UNCHANGED <<cpu, cli_count, int_aon, eflags, held, spare>>

\* The cli instruction.
ClearIF(c) ==
  /\ Goto(c, "clear", "count")
  /\ ifl' = FALSE
  /\ UNCHANGED <<saved, ctx, pending, cli_count, int_aon, eflags, held, spare>>

\* Only the outermost cli() records the flag it found.
Mut_RecordsFlag == TRUE
RecordsFlag == cli_count = 0

\* The rest of cli() and of acquire().
CountUp(c) ==
  /\ Goto(c, "count", "run")
  /\ int_aon' = IF RecordsFlag THEN eflags[c] ELSE int_aon
  /\ cli_count' = cli_count + 1
  /\ held' = [held EXCEPT ![c] = @ + 1]
  /\ UNCHANGED <<cpu, eflags, spare>>

\* release() finds the guard acquired, or it panics.
Owns(c) == held[c] > 0

\* The destructor of an acquired guard: release() clears the flag, calls sti().
Mut_Destroy(c) ==
  /\ Owns(c)
  /\ Goto(c, "run", "run")
  /\ held' = [held EXCEPT ![c] = @ - 1]
  /\ UNCHANGED <<cpu, cli_count, int_aon, eflags, spare>>

Destroy(c) ==
  /\ Owns(c)
  /\ Goto(c, "run", "uncount")
  /\ held' = [held EXCEPT ![c] = @ - 1]
  /\ UNCHANGED <<cpu, cli_count, int_aon, eflags, spare>>

\* An explicit release() inside the scope: the object stays, released.
Release(c) ==
  /\ Owns(c)
  /\ Goto(c, "run", "uncount")
  /\ held' = [held EXCEPT ![c] = @ - 1]
  /\ spare' = [spare EXCEPT ![c] = @ + 1]
  /\ UNCHANGED <<cpu, cli_count, int_aon, eflags>>

\* The destructor calls release() unconditionally: on a guard already
\* released that is the panic "Nothing to release."
DestroyReleased(c) ==
  /\ ~ScopedOnly
  /\ spare[c] > 0
  /\ Goto(c, "run", "panic")
  /\ spare' = [spare EXCEPT ![c] = @ - 1]
  /\ UNCHANGED <<cpu, cli_count, int_aon, eflags, held>>

\* sti(): cli_count -= 1; assert(cli_count >= 0).
CountDown(c) ==
  /\ Goto(c, "uncount", IF cli_count - 1 >= 0 THEN "enable" ELSE "panic")
  /\ cli_count' = cli_count - 1
  /\ UNCHANGED <<cpu, int_aon, eflags, held, spare>>

\* The outermost sti() turns interrupts on, if its cli() found them on.
Mut1_Enables == cli_count = 0
Mut2_Enables == int_aon
Enables == cli_count = 0 /\ int_aon

EnableIF(c) ==
  /\ Goto(c, "enable", "run")
  /\ IF Enables
       THEN int_aon' = FALSE /\ ifl' = TRUE
       ELSE UNCHANGED <<int_aon, ifl>>
  /\ UNCHANGED <<saved, ctx, pending, cli_count, eflags, held, spare>>

\* die(): cli() and hlt.  Nothing but a reset follows.
Die(c) ==
  /\ Goto(c, "panic", "halted")
  /\ ifl' = FALSE
  /\ int_aon' = IF RecordsFlag THEN ifl ELSE int_aon
  /\ cli_count' = cli_count + 1
  /\ UNCHANGED <<saved, ctx, pending, eflags, held, spare>>

----------------------------------------------------------------------------
(* The hardware                                                            *)

\* The PIT raises IRQ 0 and the PIC latches it.
Raise ==
  /\ ~pending
  /\ pending' = TRUE
  /\ UNCHANGED <<ifl, saved, ctx, cli_count, int_aon, pc, eflags, held, spare>>

\* Delivery through a gate of type 0x8e: EFLAGS pushed, IF cleared.
Interrupt ==
  /\ ctx = "main" /\ ifl /\ pending /\ pc["main"] # "halted"
  /\ ctx' = "irq"
  /\ saved' = ifl
  /\ ifl' = FALSE
  /\ pending' = FALSE
  /\ UNCHANGED <<cli_count, int_aon, pc, eflags, held, spare>>

\* The handler's scopes have ended; irq_routine executes iret.
InterruptReturn ==
  /\ ctx = "irq" /\ pc["irq"] = "run" /\ held["irq"] = 0 /\ spare["irq"] = 0
  /\ ctx' = "main"
  /\ ifl' = saved
  /\ UNCHANGED <<saved, pending, cli_count, int_aon, pc, eflags, held, spare>>

----------------------------------------------------------------------------

\* What context c does on its own account, whatever happens next.
Progress(c) ==
  \/ ClearIF(c) \/ CountUp(c)
  \/ CountDown(c) \/ EnableIF(c)
  \/ Die(c)

Scope(c) ==
  \/ Construct(c) \/ Reacquire(c)
  \/ Destroy(c) \/ Release(c) \/ DestroyReleased(c)

Step(c) == Progress(c) \/ Scope(c)

Next ==
  \/ \E c \in Ctx : Step(c)
  \/ Raise \/ Interrupt \/ InterruptReturn

Spec == Init /\ [][Next]_vars

\* Code that was started goes on, and the CPU takes a pending request at an
\* instruction boundary where IF is set: a cli may come first, not for ever.
Fairness ==
  /\ \A c \in Ctx : WF_vars(Progress(c))
  /\ SF_vars(Interrupt)

FairSpec == Spec /\ Fairness

----------------------------------------------------------------------------
(* Properties                                                              *)

\* While "main" is inside a guard no handler runs and none can start: what
\* timer::add and timer::remove rely on around the list of timers.
GuardExcludesHandler ==
  held["main"] > 0 => ctx = "main" /\ ~ifl

\* A handler stays masked to its iret, even though the guards its callbacks
\* take end in sti(): int_aon is what tells the two cases apart.
HandlerStaysMasked ==
  ctx = "irq" => ~ifl

\* Outside every guard, and outside cli() and sti(), "main" runs with
\* interrupts on: no nesting of guards in either context loses the flag.
FlagRestored ==
  ctx = "main" /\ pc["main"] = "run" /\ held["main"] = 0 => ifl

\* The assertion in sti() holds however guards are used; and the panics of
\* int_guard stay silent if no guard is destroyed after an explicit release().
NoPanic ==
  /\ \A c \in Ctx : pc[c] = "uncount" => cli_count > 0
  /\ ScopedOnly => \A c \in Ctx : pc[c] \notin {"panic", "halted"}

\* The header offers release() on a scoped guard ("Interruption guard
\* (scoped/RAII)", include/cpu.h:16), so a guard released early should leave
\* its scope quietly.
ReleasedGuardEndsQuietly ==
  \A c \in Ctx : pc[c] # "panic"

\* The count is what the guards of the two contexts add up to: a handler
\* leaves it as it found it.
CountBalanced ==
  [][InterruptReturn => cli_count = held["main"]]_vars

\* If "main" keeps coming back to a point outside every guard, then requests
\* are taken again and again: IF is never lost for good.
Delivery ==
  []<>(ctx = "main" /\ pc["main"] = "run" /\ held["main"] = 0) => []<>~pending

=============================================================================
