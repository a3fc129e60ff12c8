------------------------------ MODULE Allocator ------------------------------
(***************************************************************************)
(* What malloc.h promises to its callers: blocks that lie in the pool, on  *)
(* a boundary, apart from one another, and that stay where they are until  *)
(* they are given back or resized.                                         *)
(***************************************************************************)
EXTENDS Integers

CONSTANTS Lo, Hi, Boundary

VARIABLE blocks    \* address -> bytes

Sound(b) ==
  /\ \A x \in DOMAIN b : x % Boundary = 0 /\ Lo <= x /\ x + b[x] <= Hi
  /\ \A x, y \in DOMAIN b : x < y => x + b[x] <= y

\* Only the blocks in S may change or go, only those in T may come.
Only(S, T) == /\ DOMAIN blocks \ S = DOMAIN blocks' \ T
              /\ \A x \in DOMAIN blocks \ S : x \notin T /\ blocks'[x] = blocks[x]

Allocate == \E T \in {DOMAIN blocks' \ DOMAIN blocks} : Only({}, T)
Release == \E S \in {DOMAIN blocks \ DOMAIN blocks'} : Only(S, {})
Resize == \E x \in DOMAIN blocks, y \in DOMAIN blocks' : Only({x}, {y})

Init == blocks = <<>>
Next == Sound(blocks') /\ (Allocate \/ Release \/ Resize)
Spec == Init /\ [][Next]_blocks

=============================================================================
