-------------------------------- MODULE Boot --------------------------------
(***************************************************************************)
(* kinitialize() (init.cc) on top of Irq: the order in which the main flow *)
(* prepares what an interrupt may reach, and who uses the console and the  *)
(* heap when.  Neither has a lock: that main flow and handlers are never   *)
(* in them together follows from this order alone.                         *)
(***************************************************************************)
EXTENDS Integers, Sequences

CONSTANT Lines    \* as in Irq; the timer is line 0

ASSUME BootAssumption == 0 \in Lines /\ Lines \subseteq (0 .. 15) \ {2}

VARIABLES
  ifl, boot, line, stage, imr, irr, isr, gates, handled, call,  \* of Irq
  asked, missed, overtaken,  \* of Irq, history
  at,      \* the step of Program the main flow has come to
  busy,    \* it is inside that step
  video,   \* the constructor of v has filled its pool
  head     \* timer_head # NULL

irqVars == <<ifl, boot, line, stage, imr, irr, isr, gates, handled, call, asked, missed, overtaken>>
vars == <<irqVars, at, busy, video, head>>

Irq == INSTANCE Irq WITH HandlerLines <- {}

Step(op, uses) == [op |-> op, uses |-> uses]
Timer == 0
Both == {"console", "heap"}

\* console, mm, gdt and idt, isr, irq, timer, sti, abi::ctors, play.
Setup ==
  << Step("print", {"console"}), Step("mm", {"console"}), Step("idt", {}),
     Step("isr", {}), Step("remap", {}), Step("mask", {}), Step("gates", {}) >>
TimerSetup == << Step("install", {}), Step("read", {}), Step("write", {}) >>
Sti  == << Step("sti", {}) >>
Ctors == << Step("ctors", Both) >>
Play  == << Step("cli", {}), Step("add", Both), Step("sti", {}) >>

Mut1_Program == Setup \o Tail(TimerSetup) \o Sti \o << Head(TimerSetup) >>
                  \o Ctors \o Play
Mut2_Program == Setup \o TimerSetup \o Sti \o Play \o Ctors
Mut3_Program == Setup \o TimerSetup \o Sti \o Ctors
Program == Setup \o TimerSetup \o Sti \o Ctors \o Play

TypeOK ==
  /\ Irq!TypeOK
  /\ at \in 1 .. Len(Program) + 1
  /\ busy \in BOOLEAN /\ video \in BOOLEAN /\ head \in BOOLEAN

Init ==
  /\ Irq!Init
  /\ at = 1 /\ busy = FALSE /\ video = FALSE /\ head = FALSE

\* The main flow enters its next step.
Begin ==
  /\ Irq!Runs("main") /\ at <= Len(Program) /\ ~busy
  /\ busy' = TRUE
  /\ UNCHANGED <<irqVars, at, video, head>>

\* idt::initialize(): all entries zero, then lidt.
ClearGates ==
  /\ gates' = {}
  /\ UNCHANGED <<ifl, boot, line, stage, imr, irr, isr, handled, call, asked, missed, overtaken>>

\* What the step does to the interrupt system.
Effect(op) ==
  \/ op \in {"print", "mm", "isr"} /\ UNCHANGED irqVars
  \/ op = "idt"     /\ ClearGates
  \/ op = "remap"   /\ Irq!Remap
  \/ op = "mask"    /\ Irq!MaskAll
  \/ op = "gates"   /\ Irq!SetGates
  \/ op = "install" /\ Irq!Install("main", Timer)
  \/ op = "read"    /\ Irq!ReadMask("main", "enable", Timer)
  \/ op = "write"   /\ Irq!WriteMask("main")
  \/ op = "sti"     /\ Irq!SetIF(TRUE)
  \/ op = "cli"     /\ Irq!SetIF(FALSE)
  \/ op \in {"ctors", "add"} /\ UNCHANGED irqVars

Finish ==
  /\ Irq!Runs("main") /\ boot # "fault" /\ busy
  /\ Effect(Program[at].op)
  /\ busy' = FALSE
  /\ at' = at + 1
  /\ video' = (video \/ Program[at].op = "ctors")
  /\ head' = (head \/ Program[at].op = "add")

Main == Begin \/ Finish

Hardware ==
  /\ \/ \E n \in Lines : Irq!Raise(n)
     \/ Irq!Interrupt \/ Irq!Glitch
     \/ Irq!Acknowledge \/ Irq!Return
  /\ UNCHANGED <<at, busy, video, head>>

Next == Main \/ Hardware

Spec == Init /\ [][Next]_vars

----------------------------------------------------------------------------
(* Properties                                                              *)

InMain == IF busy THEN Program[at].uses ELSE {}

\* The dispatcher reports a line without handler; the handler of the timer
\* does nothing while its list is empty, otherwise its callbacks print and
\* it frees nodes.
InHandler ==
  IF line = Irq!None \/ stage # "handler" THEN {}
  ELSE IF line \notin handled THEN {"console"}
  ELSE IF head THEN Both ELSE {}

\* Whatever an interrupt reaches is ready: its gate; for a tick the handler of
\* the timer; for the callbacks of play() the video.
ReadyWhenReached ==
  /\ boot # "fault"
  /\ line = Timer => Timer \in handled
  /\ line = Timer /\ head => video

\* No handler enters malloc(), free() or the console while the main flow is
\* inside them; but the report of a spurious interrupt (line 7) may come
\* between what the constructors print, as that of an exception may anywhere.
OneUser ==
  \A r \in InMain \cap InHandler : r = "console" /\ line = 7

=============================================================================
