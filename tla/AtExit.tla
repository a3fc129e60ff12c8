------------------------------- MODULE AtExit -------------------------------
(***************************************************************************)
(* The table of destructors (krnl/abi/dtor.cc): a hash table of chains of  *)
(* nodes, one for each function, with a vector of the objects registered   *)
(* (stl/vector) and a heap sort over all of them (stl/algorithm).  A node  *)
(* and its link are an element of a sequence, the head first; functions    *)
(* are addresses.  Nothing here runs concurrently; a step is a call, or a  *)
(* call of a destructor.                                                   *)
(***************************************************************************)
EXTENDS Integers, Sequences, SequencesExt

CONSTANTS
  Functions,    \* addresses
  Objects,
  Word,         \* 2^32
  Multiplier,   \* 2654435761
  SLOT_SIZE,    \* 131
  Capacity,     \* 8: of a new vector
  MaxIndex      \* bound on the registrations

VARIABLES
  slot_header,        \* slot -> sequence of nodes
  cur_insert_index,
  doing,              \* "open", "one", "heapify", "sort", "all", "closed" or "panic"
  fn,                 \* "one": the function
  all,                \* the local vector of all registrations
  at                  \* the local i, cur, last or it, from 1

vars == <<slot_header, cur_insert_index, doing, fn, all, at>>

Slots == 0 .. SLOT_SIZE - 1
hash(lpfn) == ((lpfn * Multiplier) % Word) % SLOT_SIZE
chain(lpfn) == slot_header[hash(lpfn)]
Places(c, lpfn) == {k \in DOMAIN c : c[k].lpfn = lpfn}

----------------------------------------------------------------------------
(* stl/vector                                                              *)

Empty == [buff |-> <<>>, buff_size |-> Capacity]
reserve(v, need) == IF need <= v.buff_size THEN v ELSE [v EXCEPT !.buff_size = need]
MutRoom(size) == IF 1 < size \div 2 THEN size + size \div 2 ELSE size
Room(size) == IF 1 < size \div 2 THEN size + size \div 2 ELSE size + 1
push_back(v, val) ==
  LET r == reserve(v, Room(Len(v.buff))) IN [r EXCEPT !.buff = Append(@, val)]

----------------------------------------------------------------------------
(* stl/algorithm, with comp of cxa_finalize(): descending insert index     *)

comp(a, b) == a.index > b.index
Swapped(s, i, j) == [s EXCEPT ![i] = s[j], ![j] = s[i]]

\* The one of cur and its children below last that comes last.
MutToSwap(s, cur, last) ==
  LET lch == 2 * cur
      one == IF comp(s[cur], s[lch]) THEN lch ELSE cur
  IN  IF lch + 1 <= last /\ comp(s[cur], s[lch + 1]) THEN lch + 1 ELSE one
to_swap(s, cur, last) ==
  LET lch == 2 * cur
      one == IF comp(s[cur], s[lch]) THEN lch ELSE cur
  IN  IF lch + 1 <= last /\ comp(s[one], s[lch + 1]) THEN lch + 1 ELSE one

\* _shiftd_heap(): from cur down, among the first `last' elements.
Item == [lpfn : Functions, pobj : Objects, index : Int]
shiftd[s \in Seq(Item), cur \in Int, last \in Int] ==
  IF 2 * cur > last \/ to_swap(s, cur, last) = cur THEN s
  ELSE shiftd[Swapped(s, cur, to_swap(s, cur, last)), to_swap(s, cur, last), last]

----------------------------------------------------------------------------

Init ==
  /\ slot_header = [h \in Slots |-> <<>>]
  /\ cur_insert_index = 0
  /\ doing = "open" /\ fn = 0 /\ all = <<>> /\ at = 0

Registered(c, lpfn, item) ==
  IF Places(c, lpfn) = {}
  THEN << [lpfn |-> lpfn, atexits |-> push_back(Empty, item)] >> \o c
  ELSE [k \in DOMAIN c |->
          IF c[k].lpfn = lpfn THEN [c[k] EXCEPT !.atexits = push_back(@, item)] ELSE c[k]]

cxa_atexit(lpfn, pobj) ==
  /\ doing = "open" /\ cur_insert_index < MaxIndex
  /\ cur_insert_index' = cur_insert_index + 1
  /\ slot_header' =
       [slot_header EXCEPT ![hash(lpfn)] =
          Registered(@, lpfn, [pobj |-> pobj, index |-> cur_insert_index'])]
  /\ UNCHANGED <<doing, fn, all, at>>

\* cxa_finalize(lpfn), lpfn not NULL: it looks for the node ...
FinalizeOne(lpfn) ==
  /\ doing = "open"
  /\ IF Places(chain(lpfn), lpfn) = {}
     THEN doing' = "panic" /\ UNCHANGED <<fn, at>>
     ELSE \E k \in Places(chain(lpfn), lpfn) :
            /\ doing' = "one" /\ fn' = lpfn
            /\ at' = Len(chain(lpfn)[k].atexits.buff)
  /\ UNCHANGED <<slot_header, cur_insert_index, all>>

\* ... calls, from the last item to the first, ...
CallOne ==
  /\ doing = "one" /\ at > 0
  /\ at' = at - 1
  /\ UNCHANGED <<slot_header, cur_insert_index, doing, fn, all>>

\* ... and takes the node out of its chain.
Unlink ==
  /\ doing = "one" /\ at = 0
  /\ \E k \in Places(chain(fn), fn) :
       slot_header' = [slot_header EXCEPT ![hash(fn)] = RemoveAt(@, k)]
  /\ doing' = "open" /\ fn' = 0
  /\ UNCHANGED <<cur_insert_index, all, at>>

\* cxa_finalize(NULL), of dtors(): all items, slot by slot and node by node.
\* The nodes are deleted but slot_header keeps their addresses: nothing may
\* follow, and here nothing does.
Items(n) == [i \in DOMAIN n.atexits.buff |->
               [lpfn |-> n.lpfn, pobj |-> n.atexits.buff[i].pobj,
                index |-> n.atexits.buff[i].index]]
Nodes == FlattenSeq([h \in 1 .. SLOT_SIZE |-> slot_header[h - 1]])

FinalizeAll ==
  /\ doing = "open"
  /\ all' = FlattenSeq([k \in DOMAIN Nodes |-> Items(Nodes[k])])
  /\ slot_header' = [h \in Slots |-> <<>>]
  /\ doing' = "heapify"
  /\ at' = Len(all') \div 2
  /\ UNCHANGED <<cur_insert_index, fn>>

\* make_heap()
Heapify ==
  /\ doing = "heapify" /\ at > 0
  /\ all' = shiftd[all, at, Len(all)]
  /\ at' = at - 1
  /\ UNCHANGED <<slot_header, cur_insert_index, doing, fn>>

Heapified ==
  /\ doing = "heapify" /\ at = 0
  /\ doing' = "sort" /\ at' = Len(all)
  /\ UNCHANGED <<slot_header, cur_insert_index, fn, all>>

\* pop_heap()
Pop ==
  /\ doing = "sort" /\ at > 0
  /\ all' = shiftd[Swapped(all, 1, at), 1, at - 1]
  /\ at' = at - 1
  /\ UNCHANGED <<slot_header, cur_insert_index, doing, fn>>

Sorted ==
  /\ doing = "sort" /\ at = 0
  /\ doing' = "all" /\ at' = 1
  /\ UNCHANGED <<slot_header, cur_insert_index, fn, all>>

CallNext ==
  /\ doing = "all" /\ at <= Len(all)
  /\ at' = at + 1
  /\ UNCHANGED <<slot_header, cur_insert_index, doing, fn, all>>

Close ==
  /\ doing = "all" /\ at = Len(all) + 1
  /\ doing' = "closed" /\ all' = <<>> /\ at' = 0
  /\ UNCHANGED <<slot_header, cur_insert_index, fn>>

Going ==
  \/ CallOne \/ Unlink
  \/ Heapify \/ Heapified \/ Pop \/ Sorted \/ CallNext \/ Close

Next ==
  \/ \E f \in Functions : FinalizeOne(f) \/ \E o \in Objects : cxa_atexit(f, o)
  \/ FinalizeAll
  \/ Going

Spec == Init /\ [][Next]_vars

----------------------------------------------------------------------------
(* Properties                                                              *)

\* Every function has one node at most, in the chain of its slot, and no
\* vector is longer than its buffer: what cxa_atexit() and cxa_finalize()
\* look for they find, and push_back() writes inside what it has allocated.
TableSound ==
  \A h \in Slots : \A i \in DOMAIN slot_header[h] :
    LET n == slot_header[h][i]
    IN  /\ hash(n.lpfn) = h
        /\ \A j \in DOMAIN slot_header[h] : slot_header[h][j].lpfn = n.lpfn => i = j
        /\ Len(n.atexits.buff) <= n.atexits.buff_size

\* The items still to be called: of the node being finalized the first `at',
\* of the sorted vector those from `at' on.
ToCall(n) == IF doing = "one" /\ n.lpfn = fn THEN SubSeq(Items(n), 1, at) ELSE Items(n)
Pending ==
  UNION {ToSet(ToCall(n)) : n \in UNION {ToSet(slot_header[h]) : h \in Slots}}
  \cup ToSet(IF doing = "all" THEN SubSeq(all, at, Len(all)) ELSE all)

Service == INSTANCE Registry WITH
  live <- [i \in {e.index : e \in Pending} |->
             LET e == CHOOSE x \in Pending : x.index = i IN <<e.lpfn, e.pobj>>],
  issued <- cur_insert_index,
  mode <- CASE doing \in {"open", "panic", "closed"} -> {}
            [] doing = "one" -> {fn}
            [] OTHER -> Functions

\* The table, the search, the order of the two loops and the sort together
\* call each registered destructor once, in the reverse order.
ImplementsRegistry == Service!Spec

=============================================================================
