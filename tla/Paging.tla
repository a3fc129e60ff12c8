------------------------------- MODULE Paging -------------------------------
(***************************************************************************)
(* Address translation from begin.asm to the end of mm::initialize():      *)
(* first the directory of tmppgdir.c with two pages of 4 MB, then tables   *)
(* written through it to low memory (mm/init.cc).  Everything is counted   *)
(* in pages of 4 KB, and a page table holds one range of pages.            *)
(***************************************************************************)
EXTENDS Integers, Sequences

VARIABLES
  cr3,       \* the frame of the directory, or one of the next two
  frames,    \* frame -> the directory or table written there
  todo       \* what mm::initialize() has left to do

vars == <<cr3, frames, todo>>

Off == -1      \* paging is off
Tmp == -2      \* the directory is tmp_pgdir
Fault == -3    \* no page
tmp_pgdir == {0, 768}    \* entries for 4 MB from physical address 0
Absent == [phys |-> 0, from |-> 0, to |-> 0]

\* Where the processor finds page p.
Translated(p, root, f) ==
  LET i == p \div 1024
      table == f[f[root][i]]
  IN  CASE root = Off -> p
        [] root = Tmp -> IF i \in tmp_pgdir THEN p % 1024 ELSE Fault
        [] OTHER ->
             IF i \notin DOMAIN f[root] THEN Fault
             ELSE IF p % 1024 \in table.from .. table.to - 1 THEN table.phys + (p % 1024)
             ELSE Fault
Frame(p) == Translated(p, cr3, frames)

PDE == 1
setup_pte(index, pte, phys, from, to) ==
  [index |-> index, pte |-> pte, table |-> [phys |-> phys, from |-> from, to |-> to]]

\* The lower megabyte; the kernel; the pool in two halves.
MutSetups == << setup_pte(0, 2, 0, 0, 256), setup_pte(768, 3, 0, 0, 240),
                setup_pte(769, 4, 256, 0, 1024), setup_pte(770, 5, 1279, 0, 1024) >>
Setups == << setup_pte(0, 2, 0, 0, 256), setup_pte(768, 3, 0, 0, 240),
             setup_pte(769, 4, 256, 0, 1024), setup_pte(770, 5, 1280, 0, 1024) >>

Init == cr3 = Off /\ frames = <<>> /\ todo = Setups

\* begin.asm; cr3 takes a physical address.
TurnOn ==
  /\ cr3 = Off
  /\ cr3' = Tmp
  /\ UNCHANGED <<frames, todo>>

Written(f, p, what) == [g \in DOMAIN f \cup {p} |-> IF g = p THEN what ELSE f[g]]

ClearDirectory ==
  /\ cr3 = Tmp /\ frames = <<>>
  /\ frames' = Written(frames, Frame(PDE), <<>>)
  /\ UNCHANGED <<cr3, todo>>

\* setup_pte(): the entry of the directory, then the whole table.
SetUp ==
  /\ cr3 = Tmp /\ frames # <<>> /\ todo # <<>>
  /\ LET s == Head(todo)
         dir == Frame(PDE)
     IN  frames' = Written(Written(frames, dir, Written(frames[dir], s.index, s.pte)),
                           Frame(s.pte), s.table)
  /\ todo' = Tail(todo)
  /\ UNCHANGED cr3

\* The virtual address of the directory is loaded as its physical one.
Reload ==
  /\ cr3 = Tmp /\ todo = <<>>
  /\ cr3' = PDE
  /\ UNCHANGED <<frames, todo>>

Initialize == ClearDirectory \/ SetUp \/ Reload

----------------------------------------------------------------------------
(* Properties                                                              *)

\* sbrk.cc: KRNL_MEM_BEGIN up to KRNL_MEM_END.
Pool == 786432 + 1024 .. 786432 + 3072 - 1

\* What the running kernel touches: frame -> the page it knows it by.  Its
\* image is linked at 0xc0010000; stack, screen and tables are used where
\* they are.
Used(pages) ==
  {<<786432 + 16 + k, 16 + k>> : k \in 0 .. pages - 1}
  \cup {<<p, p>> : p \in {1, 2, 3, 4, 5, 15, 184}}

\* From begin.asm on, and across the switch of directories, each page that the
\* kernel uses stays where it was loaded; after the switch the pool of sbrk()
\* is mapped as a whole, in frames of its own, with a hole on either side.
PagesStay(pages) == cr3 # Off => \A u \in Used(pages) : Frame(u[1]) = u[2]

PoolMapped(pages) ==
  LET F(p) == Translated(p, PDE, frames)
      apart == {u[2] : u \in Used(pages)}
  IN  /\ \A p \in Pool : F(p) # Fault /\ F(p) \notin apart
      /\ \A p \in Pool : p + 1 \in Pool => F(p) < F(p + 1)
      /\ \A h \in 1 .. 16 : F(786432 + 1024 - h) = Fault /\ F(786432 + 3071 + h) = Fault

=============================================================================
