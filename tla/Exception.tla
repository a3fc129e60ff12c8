------------------------------ MODULE Exception ------------------------------
(***************************************************************************)
(* The way of an exception (krnl/isr_handler.asm, krnl/isr.cc): what the   *)
(* CPU, the stub and isr_routine push, and the structure that the          *)
(* dispatcher reads it as before the machine is halted.  A word is what it *)
(* is the value of, with the vector's number.                              *)
(***************************************************************************)
EXTENDS Integers, Sequences

CONSTANT Vectors    \* that may be raised in ring 0: of 0 .. 18, but not 15 and 17

VARIABLES
  raised,    \* the vector, or none
  step,      \* "none", "stub", "routine", "dispatcher" or "dead"
  stack,     \* of words, the last pushed first
  report     \* what the dispatcher prints

vars == <<raised, step, stack, report>>

NoVector == -1
Word(name) == <<name, 0>>
Words(names) == [i \in DOMAIN names |-> Word(names[i])]
Pushed(s, words) == [i \in 1 .. Len(words) + Len(s) |->
                       IF i <= Len(words) THEN words[Len(words) + 1 - i]
                       ELSE s[i - Len(words)]]

Init == raised = NoVector /\ step = "none" /\ stack = <<>> /\ report = <<>>

WithCode == {8, 10, 11, 12, 13, 14, 17}

\* The CPU.
Raise(v) ==
  /\ step = "none"
  /\ raised' = v /\ step' = "stub"
  /\ stack' = Pushed(<<>>, Words(IF v \in WithCode THEN << "eflags", "cs", "eip", "code" >>
                                 ELSE << "eflags", "cs", "eip" >>))
  /\ UNCHANGED report

\* The macros isr_ec and isr.
MutIsrEc == {8, 10, 11, 12, 13}
isr_ec == {8, 10, 11, 12, 13, 14}
Stub ==
  /\ step = "stub"
  /\ stack' = Pushed(stack, IF raised \in isr_ec THEN << <<"vector", raised>> >>
                            ELSE << Word("zero"), <<"vector", raised>> >>)
  /\ step' = "routine"
  /\ UNCHANGED <<raised, report>>

\* pushad and the segments; their address is the argument.
isr_routine ==
  /\ step = "routine"
  /\ stack' = Pushed(stack, Words(<< "eax", "ecx", "edx", "ebx", "esp", "ebp",
                                     "esi", "edi", "ds", "es", "fs", "gs" >>))
  /\ step' = "dispatcher"
  /\ UNCHANGED <<raised, report>>

isr_context_t == << "gs", "fs", "es", "ds", "edi", "esi", "ebp", "esp", "ebx", "edx",
                    "ecx", "eax", "isr_index", "error_code", "eip", "cs", "eflags" >>

\* It prints and dies: nothing is popped.
dispatcher ==
  /\ step = "dispatcher"
  /\ report' = [f \in {isr_context_t[i] : i \in DOMAIN isr_context_t} |->
                  stack[CHOOSE i \in DOMAIN isr_context_t : isr_context_t[i] = f]]
  /\ step' = "dead"
  /\ UNCHANGED <<raised, stack>>

Handle == Stub \/ isr_routine \/ dispatcher

----------------------------------------------------------------------------

\* Whatever the vector, the dispatcher names it, and prints each register and
\* the error code from the word that the CPU or the stub put it in.
ReportsFrame ==
  step = "dead" =>
    \A f \in DOMAIN report :
      report[f] = CASE f = "isr_index" -> <<"vector", raised>>
                    [] f = "error_code" -> Word(IF raised \in WithCode THEN "code" ELSE "zero")
                    [] OTHER -> Word(f)

=============================================================================
