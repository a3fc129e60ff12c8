------------------------------- MODULE PowerOn -------------------------------
(***************************************************************************)
(* From the reset of the machine to the film: the boot loader (Loader),    *)
(* begin.asm and the page tables (Paging), kinitialize() among interrupts  *)
(* (Boot, Irq), and an exception at any point once there are gates for     *)
(* them (Exception).                                                       *)
(***************************************************************************)
EXTENDS Boot

CONSTANTS Drives, Images, Vectors    \* of Loader and Exception

VARIABLES
  stage16, drive, image, total_heads, sectors_per_track,
  ax, bx, cx, dx, number_retries, memory,                  \* of Loader
  cr3, frames, todo,                                       \* of Paging
  raised, step, stack, report                              \* of Exception

loaderVars == << stage16, drive, image, total_heads, sectors_per_track,
                 ax, bx, cx, dx, number_retries, memory >>
pagingVars == <<cr3, frames, todo>>
exceptionVars == <<raised, step, stack, report>>
powerVars == <<vars, loaderVars, pagingVars, exceptionVars>>

Loader == INSTANCE Loader
Paging == INSTANCE Paging
Exception == INSTANCE Exception

\* A drive that may not tell its geometry has the one that disk.asm has for
\* that case; the image lies within the cylinders that the BIOS can name and
\* below 0xf0000, the end of what mm::initialize() maps for the kernel.
\* Vector 15 is reserved, and 17, the check of alignment, spares ring 0.
ASSUME PowerAssumption ==
  /\ \A d \in Drives :
       /\ d.heads \in Nat \ {0} /\ d.heads <= 256
       /\ d.sectors \in Nat \ {0} /\ d.sectors <= 63
       /\ d.floppy => d.heads = 2 /\ d.sectors = 18
  /\ \A i \in Images : i \in Nat \ {0} /\ Loader!Sectors(i) <= 1792
  /\ \A d \in Drives, i \in Images :
       Loader!Sectors(i) < 1024 * d.heads * d.sectors
  /\ Vectors \subseteq (0 .. 18) \ {15, 17}

PowerInit == Init /\ Loader!Init /\ Paging!Init /\ Exception!Init

Load ==
  /\ Loader!Next
  /\ UNCHANGED <<vars, pagingVars, exceptionVars>>

\* begin.asm
Enter32 ==
  /\ stage16 = "protected"
  /\ Paging!TurnOn
  /\ UNCHANGED <<vars, loaderVars, exceptionVars>>

\* The kernel executes, and no exception has been raised.
Alive == cr3 # Paging!Off /\ step = "none"

In(op) == busy /\ Program[at].op = op

\* mm::initialize() is the main flow's, in its step.
Map ==
  /\ Alive /\ In("mm")
  /\ Paging!Initialize
  /\ UNCHANGED <<vars, loaderVars, exceptionVars>>

Kernel ==
  /\ Alive /\ ~(In("mm") /\ cr3 = Paging!Tmp)
  /\ Main
  /\ UNCHANGED <<loaderVars, pagingVars, exceptionVars>>

Devices ==
  /\ Alive
  /\ Hardware
  /\ UNCHANGED <<loaderVars, pagingVars, exceptionVars>>

\* The gates of isr::initialize() clear IF, as the stubs do again.
Except ==
  /\ Alive
  /\ \E k \in 1 .. at - 1 : Program[k].op = "isr"
  /\ \E v \in Vectors : Exception!Raise(v)
  /\ ifl' = FALSE
  /\ UNCHANGED << boot, line, stage, imr, irr, isr, gates, handled, call, asked, missed, overtaken,
                  at, busy, video, head, loaderVars, pagingVars >>

HandleException ==
  /\ Exception!Handle
  /\ UNCHANGED <<vars, loaderVars, pagingVars>>

PowerNext ==
  \/ Load \/ Enter32 \/ Map \/ Kernel \/ Devices
  \/ Except \/ HandleException

\* Handlers return, ticks go on and are taken, and they are far enough apart
\* for the main flow to advance; the loader and begin.asm run alone.
Ours(A) == A /\ Alive /\ UNCHANGED <<at, busy, video, head, loaderVars, pagingVars, exceptionVars>>

PowerFairness ==
  /\ WF_powerVars(Load) /\ WF_powerVars(Enter32) /\ WF_powerVars(Map)
  /\ SF_powerVars(Kernel)
  /\ WF_powerVars(Ours(Irq!Acknowledge))
  /\ WF_powerVars(Ours(Irq!Return))
  /\ WF_powerVars(Ours(Irq!Raise(Timer)))
  /\ SF_powerVars(Ours(Irq!Interrupt))

PowerSpec == PowerInit /\ [][PowerNext]_powerVars /\ PowerFairness

----------------------------------------------------------------------------
(* Properties                                                              *)

\* The kernel is entered with its image in place.
ImageLoaded == Loader!ImageLoaded

Pages == (512 * Loader!Sectors(image) + 4095) \div 4096

\* The pages that the kernel uses stay where the loader put them, through both
\* directories; the second one maps the pool that sbrk() gives out.
PagesAsUsed ==
  /\ []Paging!PagesStay(Pages)
  /\ [][cr3' # cr3 /\ cr3' = Paging!PDE => Paging!PoolMapped(Pages)]_powerVars

\* What is printed before the machine halts is the state it was in.
ReportsFrame == Exception!ReportsFrame

\* Unless the drive gives up or an exception stops it, the machine gets to its
\* film: to a tick that calls the callbacks of play().
FilmPlays ==
  <>( stage16 = "fatal" \/ step # "none"
      \/ (line = Timer /\ Timer \in handled /\ head) )

=============================================================================
