----------------------------- MODULE CtorsProofs -----------------------------
(***************************************************************************)
(* Proofs about Ctors, for any hash function of this form, any lists of    *)
(* constructors, any number of registrations, any films and any sizes of a *)
(* screen, of a byte and of a large block.  The first part is about the    *)
(* chains and vectors that cxa_atexit() builds.  The second, the film, is  *)
(* about Video: that the decompressor inverts encode.py, and that the      *)
(* loops of video::video() find the connected blocks.                      *)
(***************************************************************************)
EXTENDS Ctors, FiniteSetTheorems, SequenceTheorems, WellFoundedInduction, TLAPS

Vector == [buff : Seq([pobj : Int, index : Int]), buff_size : Nat]
Node == [lpfn : Functions, atexits : Vector]

\* What TableSound says of the chain of slot h.
Sound(c, h) ==
  \A k \in DOMAIN c :
    /\ AtExit!hash(c[k].lpfn) = h
    /\ \A j \in DOMAIN c : c[j].lpfn = c[k].lpfn => k = j
    /\ Len(c[k].atexits.buff) <= c[k].atexits.buff_size

\* The function of a constructor still to be called is one of Functions.
TableInv ==
  /\ lists \in Lists /\ which \in 1 .. 3 /\ i \in Nat \ {0}
  /\ cur_insert_index \in Nat
  /\ slot_header \in [AtExit!Slots -> Seq(Node)]
  /\ \A h \in AtExit!Slots : Sound(slot_header[h], h)

----------------------------------------------------------------------------
(* Vectors and chains                                                      *)

\* There is room for one more element.
LEMMA RoomFacts ==
  ASSUME NEW n \in Nat
  PROVE  AtExit!Room(n) \in Nat /\ AtExit!Room(n) >= n + 1
BY DEF AtExit!Room

LEMMA PushBack ==
  ASSUME NEW v \in Vector, Len(v.buff) <= v.buff_size,
         NEW x \in [pobj : Int, index : Int]
  PROVE  /\ AtExit!push_back(v, x) \in Vector
         /\ Len(AtExit!push_back(v, x).buff) <= AtExit!push_back(v, x).buff_size
<1> DEFINE n == Len(v.buff)
           r == AtExit!reserve(v, AtExit!Room(n))
<1>1. v.buff \in Seq([pobj : Int, index : Int]) /\ n \in Nat /\ v.buff_size \in Nat
  BY LenProperties DEF Vector
<1>2. AtExit!Room(n) \in Nat /\ AtExit!Room(n) >= n + 1
  BY <1>1, RoomFacts
<1>3. r \in Vector /\ r.buff = v.buff /\ r.buff_size >= n + 1
  BY <1>1, <1>2 DEF AtExit!reserve, Vector
<1>4. /\ Append(v.buff, x) \in Seq([pobj : Int, index : Int])
      /\ Len(Append(v.buff, x)) = n + 1
  BY <1>1, AppendProperties
<1>5. AtExit!push_back(v, x) = [r EXCEPT !.buff = Append(v.buff, x)]
  BY <1>3 DEF AtExit!push_back
<1> HIDE DEF r
<1> QED
  BY <1>1, <1>3, <1>4, <1>5 DEF Vector

LEMMA NewVector ==
  ASSUME NEW x \in [pobj : Int, index : Int]
  PROVE  /\ AtExit!push_back(AtExit!Empty, x) \in Vector
         /\ Len(AtExit!push_back(AtExit!Empty, x).buff)
              <= AtExit!push_back(AtExit!Empty, x).buff_size
<1>1. AtExit!Empty \in Vector /\ Len(AtExit!Empty.buff) <= AtExit!Empty.buff_size
  BY CtorsAssumption DEF AtExit!Empty, Vector
<1> QED
  BY <1>1, PushBack

LEMMA ChainFacts ==
  ASSUME NEW c \in Seq(Node)
  PROVE  /\ Len(c) \in Nat /\ DOMAIN c = 1 .. Len(c)
         /\ \A k \in 1 .. Len(c) : c[k] \in Node
BY LenProperties, ElementOfSeq

\* cxa_atexit() of a function that has no node puts one before the chain.
LEMMA InsertSound ==
  ASSUME NEW c \in Seq(Node), NEW h, Sound(c, h), NEW n \in Node,
         AtExit!hash(n.lpfn) = h, Len(n.atexits.buff) <= n.atexits.buff_size,
         \A k \in DOMAIN c : c[k].lpfn # n.lpfn
  PROVE  <<n>> \o c \in Seq(Node) /\ Sound(<<n>> \o c, h)
<1> DEFINE d == <<n>> \o c
<1>1. <<n>> \in Seq(Node) /\ Len(<<n>>) = 1 /\ <<n>>[1] = n
  OBVIOUS
<1>2. Len(c) \in Nat /\ DOMAIN c = 1 .. Len(c) /\ \A k \in 1 .. Len(c) : c[k] \in Node
  BY ChainFacts
<1>3. d \in Seq(Node) /\ Len(d) = Len(c) + 1
      /\ \A k \in 1 .. Len(c) + 1 : d[k] = IF k = 1 THEN n ELSE c[k - 1]
  <2>1. d \in Seq(Node) /\ Len(d) = 1 + Len(c)
        /\ \A k \in 1 .. 1 + Len(c) : d[k] = IF k <= 1 THEN <<n>>[k] ELSE c[k - 1]
    BY <1>1, ConcatProperties
  <2> QED
    BY <1>1, <1>2, <2>1
<1>4. DOMAIN d = 1 .. Len(c) + 1
  BY <1>3, ChainFacts
<1> HIDE DEF d
<1>5. ASSUME NEW k \in 1 .. Len(c) + 1
      PROVE  /\ AtExit!hash(d[k].lpfn) = h
             /\ \A j \in 1 .. Len(c) + 1 : d[j].lpfn = d[k].lpfn => k = j
             /\ Len(d[k].atexits.buff) <= d[k].atexits.buff_size
  <2>1. CASE k = 1
    <3>1. d[k] = n
      BY <1>3, <2>1
    <3>2. ASSUME NEW j \in 1 .. Len(c) + 1, j # 1 PROVE d[j].lpfn # n.lpfn
      <4>1. j - 1 \in DOMAIN c /\ d[j] = c[j - 1]
        BY <1>2, <1>3, <3>2
      <4> QED
        BY <4>1
    <3> QED
      BY <2>1, <3>1, <3>2
  <2>2. CASE k # 1
    <3>1. k - 1 \in DOMAIN c /\ d[k] = c[k - 1]
      BY <1>2, <1>3, <2>2
    <3>2. ASSUME NEW j \in 1 .. Len(c) + 1, d[j].lpfn = d[k].lpfn PROVE k = j
      <4>1. CASE j = 1
        BY <1>3, <3>1, <3>2, <4>1
      <4>2. CASE j # 1
        <5>1. j - 1 \in DOMAIN c /\ d[j] = c[j - 1]
          BY <1>2, <1>3, <4>2
        <5>2. j - 1 = k - 1
          BY <3>1, <3>2, <5>1 DEF Sound
        <5> QED
          BY <5>2
      <4> QED
        BY <4>1, <4>2
    <3> QED
      BY <3>1, <3>2 DEF Sound
  <2> QED
    BY <2>1, <2>2
<1> QED
  BY <1>3, <1>4, <1>5, Zenon DEF Sound, d

\* That of a function that has one adds to its vector.
Extended(c, f, x) ==
  [k \in DOMAIN c |-> IF c[k].lpfn = f
                      THEN [c[k] EXCEPT !.atexits = AtExit!push_back(@, x)] ELSE c[k]]

LEMMA ExtendSound ==
  ASSUME NEW c \in Seq(Node), NEW h, Sound(c, h), NEW f,
         NEW x \in [pobj : Int, index : Int]
  PROVE  Extended(c, f, x) \in Seq(Node) /\ Sound(Extended(c, f, x), h)
<1> DEFINE d == Extended(c, f, x)
<1>1. Len(c) \in Nat /\ DOMAIN c = 1 .. Len(c) /\ \A k \in 1 .. Len(c) : c[k] \in Node
  BY ChainFacts
<1>2. ASSUME NEW k \in DOMAIN c
      PROVE  /\ d[k] \in Node /\ d[k].lpfn = c[k].lpfn
             /\ Len(d[k].atexits.buff) <= d[k].atexits.buff_size
  <2>1. CASE c[k].lpfn # f
    BY <1>1, <2>1 DEF Sound, Extended
  <2>2. CASE c[k].lpfn = f
    <3> DEFINE v == AtExit!push_back(c[k].atexits, x)
    <3>1. d[k] = [c[k] EXCEPT !.atexits = v]
      BY <2>2 DEF Extended
    <3>2. c[k] \in Node /\ c[k].atexits \in Vector
      BY <1>1 DEF Node
    <3>3. v \in Vector /\ Len(v.buff) <= v.buff_size
      BY <3>2, PushBack DEF Sound
    <3> HIDE DEF v, d
    <3>4. d[k] \in Node /\ d[k].lpfn = c[k].lpfn /\ d[k].atexits = v
      BY <3>1, <3>2, <3>3 DEF Node
    <3> QED
      BY <3>3, <3>4
  <2> QED
    BY <2>1, <2>2
<1>3. d \in Seq(Node) /\ DOMAIN d = DOMAIN c
  <2>1. d \in [1 .. Len(c) -> Node]
    BY <1>1, <1>2 DEF Extended
  <2> HIDE DEF d
  <2> QED
    BY <1>1, <2>1, IsASeq
<1> HIDE DEF d
<1>4. Sound(d, h)
  BY <1>2, <1>3 DEF Sound
<1> QED
  BY <1>3, <1>4 DEF d

\* cxa_finalize() takes a node out of its chain.
LEMMA RemoveSound ==
  ASSUME NEW c \in Seq(Node), NEW h, Sound(c, h), NEW k \in DOMAIN c
  PROVE  AtExit!RemoveAt(c, k) \in Seq(Node) /\ Sound(AtExit!RemoveAt(c, k), h)
<1> DEFINE a == SubSeq(c, 1, k - 1)
           b == SubSeq(c, k + 1, Len(c))
           d == AtExit!RemoveAt(c, k)
           from(j) == IF j < k THEN j ELSE j + 1
<1>1. /\ Len(c) \in Nat /\ DOMAIN c = 1 .. Len(c) /\ k \in 1 .. Len(c)
      /\ \A j \in 1 .. Len(c) : c[j] \in Node
  BY ChainFacts
<1>2. a \in Seq(Node) /\ Len(a) = k - 1 /\ \A j \in 1 .. k - 1 : a[j] = c[j]
  <2>1. \A j \in 1 .. k - 1 : c[j] \in Node
    BY <1>1
  <2> QED
    BY <1>1, <2>1, SubSeqProperties
<1>3. b \in Seq(Node) /\ Len(b) = Len(c) - k /\ \A j \in 1 .. Len(c) - k : b[j] = c[k + j]
  <2>1. \A j \in k + 1 .. Len(c) : c[j] \in Node
    BY <1>1
  <2> QED
    BY <1>1, <2>1, SubSeqProperties
<1>4. d = a \o b
  BY DEF AtExit!RemoveAt
<1> HIDE DEF a, b, d
<1>5. d \in Seq(Node) /\ Len(d) = Len(c) - 1
      /\ \A j \in 1 .. Len(c) - 1 : d[j] = c[from(j)] /\ from(j) \in DOMAIN c
  <2>1. d \in Seq(Node) /\ Len(d) = (k - 1) + (Len(c) - k)
        /\ \A j \in 1 .. (k - 1) + (Len(c) - k) :
             d[j] = IF j <= k - 1 THEN a[j] ELSE b[j - (k - 1)]
    BY <1>2, <1>3, <1>4, ConcatProperties
  <2>2. ASSUME NEW j \in 1 .. Len(c) - 1
        PROVE  d[j] = c[from(j)] /\ from(j) \in DOMAIN c
    <3>1. j \in 1 .. (k - 1) + (Len(c) - k) /\ from(j) \in DOMAIN c
      BY <1>1
    <3>2. CASE j < k
      BY <1>1, <1>2, <2>1, <3>1, <3>2
    <3>3. CASE j >= k
      <4>1. j - (k - 1) \in 1 .. Len(c) - k /\ k + (j - (k - 1)) = j + 1 /\ from(j) = j + 1
        BY <1>1, <3>3
      <4>2. d[j] = b[j - (k - 1)] /\ b[j - (k - 1)] = c[k + (j - (k - 1))]
        BY <1>1, <1>3, <2>1, <3>1, <3>3, <4>1
      <4> QED
        BY <3>1, <4>1, <4>2
    <3> QED
      BY <1>1, <3>2, <3>3
  <2> QED
    BY <1>1, <2>1, <2>2
<1>6. DOMAIN d = 1 .. Len(c) - 1
  BY <1>5, ChainFacts
<1>7. \A j, m \in 1 .. Len(c) - 1 : from(j) = from(m) => j = m
  BY <1>1
<1> HIDE DEF from
<1>8. ASSUME NEW j \in DOMAIN d
      PROVE  /\ AtExit!hash(d[j].lpfn) = h
             /\ \A m \in DOMAIN d : d[m].lpfn = d[j].lpfn => j = m
             /\ Len(d[j].atexits.buff) <= d[j].atexits.buff_size
  <2>1. d[j] = c[from(j)] /\ from(j) \in DOMAIN c
    BY <1>5, <1>6
  <2>2. ASSUME NEW m \in DOMAIN d, d[m].lpfn = d[j].lpfn PROVE j = m
    <3>1. d[m] = c[from(m)] /\ from(m) \in DOMAIN c
      BY <1>5, <1>6
    <3>2. from(j) = from(m)
      BY <2>1, <2>2, <3>1 DEF Sound
    <3> QED
      BY <1>6, <1>7, <3>2
  <2> QED
    BY <2>1, <2>2 DEF Sound
<1> QED
  BY <1>5, <1>8, Zenon DEF Sound, d

----------------------------------------------------------------------------
(* The steps                                                               *)

LEMMA TableInit == Init => TableInv
<1> SUFFICES ASSUME Init PROVE TableInv
  OBVIOUS
<1>1. slot_header = [h \in AtExit!Slots |-> <<>>] /\ cur_insert_index = 0
  BY DEF Init, AtExit!Init
<1>2. slot_header \in [AtExit!Slots -> Seq(Node)]
  BY <1>1
<1>3. \A h \in AtExit!Slots : Sound(slot_header[h], h)
  BY <1>1 DEF Sound
<1>4. lists \in Lists /\ which = 1 /\ i = 1
  BY DEF Init
<1> QED
  BY <1>1, <1>2, <1>3, <1>4 DEF TableInv

\* A registration changes one chain.
LEMMA RegisterStep ==
  ASSUME TableInv, NEW f \in Functions,
         AtExit!cxa_atexit(f, 16 * (cur_insert_index + 1))
  PROVE  /\ cur_insert_index' \in Nat
         /\ slot_header' \in [AtExit!Slots -> Seq(Node)]
         /\ \A h \in AtExit!Slots : Sound(slot_header'[h], h)
<1> DEFINE x == [pobj |-> 16 * (cur_insert_index + 1), index |-> cur_insert_index']
<1>1. cur_insert_index \in Nat /\ cur_insert_index' = cur_insert_index + 1
  BY DEF TableInv, AtExit!cxa_atexit
<1>2. x \in [pobj : Int, index : Int]
  BY <1>1
<1>3. slot_header' = [slot_header EXCEPT ![AtExit!hash(f)] = AtExit!Registered(@, f, x)]
  BY DEF AtExit!cxa_atexit
<1> HIDE DEF x
<1>4. ASSUME NEW c \in Seq(Node), Sound(c, AtExit!hash(f))
      PROVE  /\ AtExit!Registered(c, f, x) \in Seq(Node)
             /\ Sound(AtExit!Registered(c, f, x), AtExit!hash(f))
  <2>1. CASE AtExit!Places(c, f) = {}
    <3> DEFINE n == [lpfn |-> f, atexits |-> AtExit!push_back(AtExit!Empty, x)]
    <3>1. AtExit!Registered(c, f, x) = <<n>> \o c
      BY <2>1 DEF AtExit!Registered
    <3>2. n \in Node /\ n.lpfn = f /\ Len(n.atexits.buff) <= n.atexits.buff_size
      BY <1>2, NewVector DEF Node
    <3>3. \A k \in DOMAIN c : c[k].lpfn # n.lpfn
      BY <2>1, <3>2 DEF AtExit!Places
    <3> HIDE DEF n
    <3> QED
      BY <1>4, <3>1, <3>2, <3>3, InsertSound
  <2>2. CASE AtExit!Places(c, f) # {}
    <3>1. AtExit!Registered(c, f, x) = Extended(c, f, x)
      BY <2>2 DEF AtExit!Registered, Extended
    <3> QED
      BY <1>2, <1>4, <3>1, ExtendSound
  <2> QED
    BY <2>1, <2>2
<1>5. AtExit!hash(f) \in AtExit!Slots =>
        /\ AtExit!Registered(slot_header[AtExit!hash(f)], f, x) \in Seq(Node)
        /\ Sound(AtExit!Registered(slot_header[AtExit!hash(f)], f, x), AtExit!hash(f))
  <2>1. PICK c : c = slot_header[AtExit!hash(f)]
    OBVIOUS
  <2>2. AtExit!hash(f) \in AtExit!Slots => c \in Seq(Node) /\ Sound(c, AtExit!hash(f))
    BY <2>1 DEF TableInv
  <2> QED
    BY <1>4, <2>1, <2>2, Zenon
<1>6. ASSUME NEW h \in AtExit!Slots
      PROVE  slot_header'[h] \in Seq(Node) /\ Sound(slot_header'[h], h)
  <2>1. CASE h = AtExit!hash(f)
    BY <1>3, <1>5, <2>1 DEF TableInv
  <2>2. CASE h # AtExit!hash(f)
    BY <1>3, <2>2 DEF TableInv
  <2> QED
    BY <2>1, <2>2
<1>7. slot_header' = [h \in AtExit!Slots |-> slot_header'[h]]
  BY <1>3 DEF TableInv
<1>8. slot_header' \in [AtExit!Slots -> Seq(Node)]
  BY <1>6, <1>7
<1> QED
  BY <1>1, <1>6, <1>8

LEMMA UnlinkStep ==
  ASSUME TableInv, AtExit!Unlink
  PROVE  /\ slot_header' \in [AtExit!Slots -> Seq(Node)]
         /\ \A h \in AtExit!Slots : Sound(slot_header'[h], h)
<1>1. PICK k \in AtExit!Places(AtExit!chain(fn), fn) :
        slot_header' = [slot_header EXCEPT ![AtExit!hash(fn)] = AtExit!RemoveAt(@, k)]
  BY DEF AtExit!Unlink
<1>2. k \in DOMAIN slot_header[AtExit!hash(fn)]
  BY DEF AtExit!Places, AtExit!chain
<1>3. AtExit!hash(fn) \in AtExit!Slots =>
        /\ AtExit!RemoveAt(slot_header[AtExit!hash(fn)], k) \in Seq(Node)
        /\ Sound(AtExit!RemoveAt(slot_header[AtExit!hash(fn)], k), AtExit!hash(fn))
  BY <1>2, RemoveSound DEF TableInv
<1> QED
  BY <1>1, <1>3 DEF TableInv

\* The other steps of a finalization leave the table alone or clear it.
LEMMA FinalizeStep ==
  ASSUME TableInv,
         \/ \E f \in Functions : AtExit!FinalizeOne(f)
         \/ AtExit!FinalizeAll
         \/ AtExit!Going
  PROVE  /\ cur_insert_index' \in Nat
         /\ slot_header' \in [AtExit!Slots -> Seq(Node)]
         /\ \A h \in AtExit!Slots : Sound(slot_header'[h], h)
<1>1. cur_insert_index' = cur_insert_index
  BY DEF AtExit!FinalizeOne, AtExit!FinalizeAll, AtExit!Going, AtExit!CallOne, AtExit!Unlink,
         AtExit!Heapify, AtExit!Heapified, AtExit!Pop, AtExit!Sorted, AtExit!CallNext,
         AtExit!Close
<1>2. \/ slot_header' = slot_header
      \/ AtExit!FinalizeAll
      \/ AtExit!Unlink
  BY DEF AtExit!FinalizeOne, AtExit!Going, AtExit!CallOne, AtExit!Heapify,
         AtExit!Heapified, AtExit!Pop, AtExit!Sorted, AtExit!CallNext, AtExit!Close
<1>3. CASE slot_header' = slot_header
  BY <1>1, <1>3 DEF TableInv
<1>4. CASE AtExit!FinalizeAll
  <2>1. slot_header' = [h \in AtExit!Slots |-> <<>>]
    BY <1>4 DEF AtExit!FinalizeAll
  <2> QED
    BY <1>1, <2>1 DEF TableInv, Sound
<1>5. CASE AtExit!Unlink
  BY <1>1, <1>5, UnlinkStep DEF TableInv
<1> QED
  BY <1>2, <1>3, <1>4, <1>5

\* What wkctor() finds in a table of the linker.
LEMMA TableEntries ==
  ASSUME NEW l \in Seq(Functions)
  PROVE  /\ Table(l)[1] = Len(l)
         /\ \A m \in 1 .. Len(l) : Table(l)[m + 1] \in Functions
<1> DEFINE S == Functions \cup {Len(l), 0}
           h == << Len(l) >>
           t == <<0>>
           p == h \o l
<1>1. Len(l) \in Nat /\ \A m \in 1 .. Len(l) : l[m] \in Functions
  BY LenProperties, ElementOfSeq
<1>2. Table(l) = p \o t
  BY <1>1 DEF Table
<1>3. h \in Seq(S) /\ t \in Seq(S) /\ Len(h) = 1 /\ Len(t) = 1 /\ h[1] = Len(l)
  OBVIOUS
<1>4. l \in Seq(S)
  BY SeqMonotonic
<1> HIDE DEF S, h, t
<1>5. /\ p \in Seq(S) /\ Len(p) = Len(h) + Len(l)
      /\ \A m \in 1 .. Len(h) + Len(l) :
           p[m] = IF m <= Len(h) THEN h[m] ELSE l[m - Len(h)]
  BY <1>3, <1>4, ConcatProperties, Zenon
<1> HIDE DEF p
<1>6. \A m \in 1 .. Len(p) + Len(t) :
        (p \o t)[m] = IF m <= Len(p) THEN p[m] ELSE t[m - Len(p)]
  <2>1. p \in Seq(S) /\ t \in Seq(S)
    BY <1>3, <1>5
  <2> QED
    BY <2>1, ConcatProperties, Zenon
<1>7. Table(l)[1] = Len(l)
  BY <1>1, <1>2, <1>3, <1>5, <1>6
<1>8. ASSUME NEW m \in 1 .. Len(l) PROVE Table(l)[m + 1] \in Functions
  <2>1. /\ m + 1 \in 1 .. Len(h) + Len(l) /\ m + 1 \in 1 .. Len(p) + Len(t)
        /\ m + 1 <= Len(p) /\ ~(m + 1 <= Len(h)) /\ (m + 1) - Len(h) = m
    BY <1>1, <1>3, <1>5
  <2>2. Table(l)[m + 1] = l[m]
    BY <1>2, <1>5, <1>6, <2>1
  <2> QED
    BY <1>1, <2>2
<1> QED
  BY <1>7, <1>8

\* wkctor() calls what the linker listed, and not the words around it.
LEMMA ListedCtor == TableInv /\ Constructing => ctor \in Functions
<1> SUFFICES ASSUME TableInv, Constructing PROVE ctor \in Functions
  OBVIOUS
<1>1. which = 1 \/ which = 2
  BY DEF TableInv, Constructing
<1>2. PICK l : l = lists[which]
  OBVIOUS
<1>3. l \in Seq(Functions)
  BY <1>1, <1>2, CtorsAssumption DEF TableInv
<1>4. i \in 1 .. Len(l) /\ ctor = Table(l)[i + 1]
  BY <1>2, <1>3, TableEntries, LenProperties DEF TableInv, Constructing, ctor
<1> QED
  BY <1>3, <1>4, TableEntries

LEMMA TableStep == TableInv /\ [Next]_vars => TableInv'
<1> SUFFICES ASSUME TableInv, [Next]_vars PROVE TableInv'
  OBVIOUS
<1>1. CASE Build \/ Construct \/ UNCHANGED vars
  BY <1>1 DEF TableInv, Build, Construct, exitVars, vars
<1>2. CASE Register
  <2>1. ctor \in Functions /\ AtExit!cxa_atexit(ctor, 16 * (cur_insert_index + 1))
    BY <1>2, ListedCtor DEF Register
  <2>2. PICK f \in Functions : AtExit!cxa_atexit(f, 16 * (cur_insert_index + 1))
    BY <2>1
  <2>3. lists' = lists /\ which' = which /\ i' \in Nat \ {0}
    BY <1>2 DEF Register, TableInv
  <2> QED
    BY <2>2, <2>3, RegisterStep DEF TableInv
<1>3. CASE NextTable
  BY <1>3 DEF TableInv, NextTable, exitVars
<1>4. CASE Later
  <2>1. lists' = lists /\ which' = which /\ i' = i
    BY <1>4 DEF Later
  <2>2. CASE \E f \in Functions \ {VideoDtor} :
               AtExit!cxa_atexit(f, 16 * (cur_insert_index + 1))
    BY <2>1, <2>2, RegisterStep DEF TableInv
  <2>3. CASE \/ \E f \in Functions : AtExit!FinalizeOne(f)
             \/ AtExit!FinalizeAll
             \/ AtExit!Going
    BY <2>1, <2>3, FinalizeStep DEF TableInv
  <2> QED
    BY <1>4, <2>2, <2>3 DEF Later
<1> QED
  BY <1>1, <1>2, <1>3, <1>4 DEF Next

\* cxa_atexit() and cxa_finalize() (dtor.cc): whatever is registered and
\* finalized in whatever order, each function has one node at most, in the
\* chain of its slot, and no vector is longer than its buffer.
THEOREM TableStaysSound == Spec => []TableSound
<1>1. TableInv => TableSound
  BY DEF TableInv, Sound, TableSound, AtExit!TableSound
<1> QED
  BY <1>1, TableInit, TableStep, PTL DEF Spec

----------------------------------------------------------------------------
(* The film                                                                *)

\* A set of numbers has a least element.
LEMMA LeastNatural ==
  ASSUME NEW T, T \subseteq Nat, T # {}
  PROVE  \E n \in T : \A m \in T : n <= m
<1>1. IsWellFoundedOn(OpToRel(<, Nat), Nat)
  BY NatLessThanWellFounded
<1>2. PICK n \in T : \A m \in T : ~ (<<m, n>> \in OpToRel(<, Nat))
  BY <1>1, WFMin
<1>3. \A m \in T : ~ (m < n)
  BY <1>2 DEF OpToRel
<1> QED
  BY <1>3

----------------------------------------------------------------------------
(* The sets of cells                                                       *)

\* What is kept of a cell.
Info == [first : Video!Cells, size : Nat, mutated : BOOLEAN,
         ch : {Video!Blank} \cup Video!dense_chars]

\* rt[v] is the root above v; rank goes down towards it.
Forest(sets, rt, rank, K) ==
  /\ sets \in [Video!Cells -> Info]
  /\ rt \in [Video!Cells -> Video!Cells]
  /\ K \in Nat /\ rank \in [Video!Cells -> 0 .. K]
  /\ \A v \in Video!Cells :
       /\ sets[rt[v]].first = rt[v]
       /\ sets[v].first = v => rt[v] = v
       /\ sets[v].first # v =>
            rank[sets[v].first] < rank[v] /\ rt[sets[v].first] = rt[v]

\* The defining equation of Path's up.
IsUp(up, sets) ==
  up = [v \in Video!Cells |-> IF sets[v].first = v THEN <<v>>
                              ELSE <<v>> \o up[sets[v].first]]

\* One step of the recursion of Path(), and a function that obeys it up to rank k.
UpStep(g, sets, v) == IF sets[v].first = v THEN <<v>> ELSE <<v>> \o g[sets[v].first]

UpTo(k, g, sets, rank) == \A v \in Video!Cells : rank[v] <= k => g[v] = UpStep(g, sets, v)

\* The recursion behind Path has a value at every cell.
LEMMA UpExists ==
  ASSUME NEW sets, NEW rt, NEW rank, NEW K, Forest(sets, rt, rank, K)
  PROVE  \E up : IsUp(up, sets)
<1> DEFINE C == Video!Cells
           Wrong == {k \in 0 .. K : ~ \E g : UpTo(k, g, sets, rank)}
<1>1. /\ K \in Nat /\ \A v \in C : rank[v] \in 0 .. K
      /\ \A v \in C : sets[v].first \in C
      /\ \A v \in C : sets[v].first # v => rank[sets[v].first] < rank[v]
  BY DEF Forest, Info
<1>2. ASSUME NEW k \in Wrong, \A j \in Wrong : k <= j PROVE FALSE
  <2>1. k \in 0 .. K /\ ~ \E g : UpTo(k, g, sets, rank)
    OBVIOUS
  <2>2. CASE k = 0
    <3> DEFINE g == [v \in C |-> <<v>>]
    <3>1. \A v \in C : rank[v] <= 0 => sets[v].first = v
      BY <1>1
    <3>2. \A v \in C : rank[v] <= 0 => g[v] = UpStep(g, sets, v)
      BY <3>1 DEF UpStep
    <3>3. UpTo(0, g, sets, rank)
      BY <3>2 DEF UpTo
    <3> HIDE DEF g
    <3> QED
      BY <2>1, <2>2, <3>3
  <2>3. CASE k # 0
    <3>1. k - 1 \in 0 .. K /\ k - 1 \notin Wrong
      <4> HIDE DEF Wrong
      <4>1. k - 1 \in 0 .. K /\ ~ (k <= k - 1)
        BY <1>1, <2>1, <2>3
      <4> QED
        BY <1>2, <4>1
    <3>2. PICK g : UpTo(k - 1, g, sets, rank)
      BY <3>1
    <3> DEFINE h == [v \in C |-> IF rank[v] <= k - 1 THEN g[v] ELSE UpStep(g, sets, v)]
    <3> HIDE DEF Wrong
    <3>3. ASSUME NEW v \in C, rank[v] <= k PROVE h[v] = UpStep(h, sets, v)
      <4>1. CASE sets[v].first = v
        <5>1. UpStep(g, sets, v) = <<v>> /\ UpStep(h, sets, v) = <<v>>
          BY <4>1 DEF UpStep
        <5>2. rank[v] <= k - 1 => g[v] = UpStep(g, sets, v)
          BY <3>2 DEF UpTo
        <5> QED
          BY <5>1, <5>2
      <4>2. CASE sets[v].first # v
        <5>1. rank[sets[v].first] <= k - 1 /\ sets[v].first \in C
          BY <1>1, <2>1, <3>1, <3>3, <4>2
        <5>2. h[sets[v].first] = g[sets[v].first]
          BY <5>1
        <5>3. UpStep(h, sets, v) = UpStep(g, sets, v)
          <6> HIDE DEF h
          <6> QED
            BY <4>2, <5>2 DEF UpStep
        <5>4. rank[v] <= k - 1 => g[v] = UpStep(g, sets, v)
          BY <3>2 DEF UpTo
        <5> QED
          BY <5>3, <5>4
      <4> QED
        BY <4>1, <4>2
    <3>4. UpTo(k, h, sets, rank)
      BY <3>3 DEF UpTo
    <3> HIDE DEF h
    <3> QED
      BY <2>1, <3>4
  <2> QED
    BY <2>2, <2>3
<1>3. Wrong = {}
  <2>1. Wrong \subseteq Nat
    <3> SUFFICES ASSUME NEW k \in Wrong PROVE k \in Nat
      OBVIOUS
    <3>1. k \in 0 .. K
      OBVIOUS
    <3> HIDE DEF Wrong
    <3> QED
      BY <1>1, <3>1
  <2> HIDE DEF Wrong
  <2> QED
    BY <1>2, <2>1, LeastNatural
<1>4. PICK g : UpTo(K, g, sets, rank)
  <2>1. K \in 0 .. K
    BY <1>1
  <2> QED
    BY <1>3, <2>1
<1> HIDE DEF Wrong
<1> DEFINE up == [v \in C |-> g[v]]
<1>5. ASSUME NEW v \in C PROVE up[v] = UpStep(up, sets, v)
  <2>1. g[v] = UpStep(g, sets, v)
    BY <1>1, <1>4 DEF UpTo
  <2>2. up[v] = g[v] /\ up[sets[v].first] = g[sets[v].first]
    BY <1>1
  <2> QED
    BY <2>1, <2>2 DEF UpStep
<1>6. up = [v \in C |-> up[v]]
  OBVIOUS
<1> HIDE DEF up
<1>7. up = [v \in C |-> UpStep(up, sets, v)]
  BY <1>5, <1>6
<1> QED
  BY <1>7 DEF IsUp, UpStep

\* The path from x consists of elements of its set, x first, the root last.
LEMMA PathFacts ==
  ASSUME NEW sets, NEW rt, NEW rank, NEW K, Forest(sets, rt, rank, K),
         NEW x \in Video!Cells
  PROVE  /\ Video!root(sets, x) = rt[x]
         /\ x \in Video!ToSet(Video!Path(sets, x))
         /\ rt[x] \in Video!ToSet(Video!Path(sets, x))
         /\ Video!ToSet(Video!Path(sets, x)) \subseteq {u \in Video!Cells : rt[u] = rt[x]}
<1> DEFINE C == Video!Cells
           up == CHOOSE w : IsUp(w, sets)
           Right(p, v) == /\ p \in Seq(C) /\ p # <<>> /\ p[1] = v /\ p[Len(p)] = rt[v]
                          /\ \A k \in 1 .. Len(p) : rt[p[k]] = rt[v]
           Wrong == {rank[v] : v \in {u \in C : ~Right(up[u], u)}}
<1>1. IsUp(up, sets)
  BY UpExists
<1>2. \A v \in C : Video!Path(sets, v) = up[v]
  BY DEF Video!Path, IsUp
<1> HIDE DEF up
<1>3. /\ K \in Nat /\ \A v \in C : rank[v] \in 0 .. K /\ rt[v] \in C
      /\ \A v \in C : sets[v].first \in C
      /\ \A v \in C : sets[v].first = v => rt[v] = v
      /\ \A v \in C : sets[v].first # v =>
            rank[sets[v].first] < rank[v] /\ rt[sets[v].first] = rt[v]
  BY DEF Forest, Info
<1>4. \A v \in C : up[v] = IF sets[v].first = v THEN <<v>> ELSE <<v>> \o up[sets[v].first]
  BY <1>1 DEF IsUp
<1>5. ASSUME NEW v \in C, ~Right(up[v], v) PROVE FALSE
  <2>1. Wrong \subseteq Nat /\ Wrong # {}
    BY <1>3, <1>5
  <2>2. PICK n \in Wrong : \A m \in Wrong : n <= m
    BY <2>1, LeastNatural
  <2>3. PICK u \in C : n = rank[u] /\ ~Right(up[u], u)
    BY <2>2
  <2>4. CASE sets[u].first = u
    <3>1. up[u] = <<u>> /\ rt[u] = u
      BY <1>3, <1>4, <2>4
    <3> QED
      BY <2>3, <3>1
  <2>5. CASE sets[u].first # u
    <3> DEFINE t == sets[u].first
               q == up[t]
               p == up[u]
    <3>1. t \in C /\ rank[t] < rank[u] /\ rt[t] = rt[u] /\ p = <<u>> \o q
      BY <1>3, <1>4, <2>5
    <3>2. Right(q, t)
      <4>1. rank[t] \notin Wrong
        <5> HIDE DEF Wrong, Right, t
        <5>1. rank[t] \in Nat /\ rank[u] \in Nat /\ ~ (rank[u] <= rank[t])
          BY <1>3, <2>3, <3>1
        <5> QED
          BY <2>2, <2>3, <5>1
      <4> QED
        BY <3>1, <4>1
    <3> HIDE DEF t, p, q
    <3>3. /\ p \in Seq(C) /\ Len(p) = 1 + Len(q) /\ Len(q) \in Nat \ {0} /\ p[1] = u
          /\ \A k \in 1 .. Len(q) : p[k + 1] = q[k]
      BY <3>1, <3>2
    <3>4. p # <<>> /\ p[Len(p)] = rt[u]
      BY <3>1, <3>2, <3>3
    <3>5. \A k \in 1 .. Len(p) : rt[p[k]] = rt[u]
      <4> TAKE k \in 1 .. Len(p)
      <4>1. CASE k = 1
        BY <3>3, <4>1
      <4>2. CASE k # 1
        <5>1. k - 1 \in 1 .. Len(q) /\ p[(k - 1) + 1] = q[k - 1]
          BY <3>3, <4>2
        <5>2. (k - 1) + 1 = k
          BY <3>3
        <5> QED
          BY <3>1, <3>2, <5>1, <5>2
      <4> QED
        BY <4>1, <4>2
    <3> QED
      BY <2>3, <3>3, <3>4, <3>5 DEF p
  <2> QED
    BY <2>4, <2>5
<1>6. Right(up[x], x) /\ Video!Path(sets, x) = up[x]
  BY <1>2, <1>5
<1> DEFINE p == up[x]
<1> HIDE DEF p
<1>7. Right(p, x) /\ Video!Path(sets, x) = p
  BY <1>6 DEF p
<1>8. /\ DOMAIN p = 1 .. Len(p) /\ Len(p) \in Nat \ {0}
      /\ \A k \in 1 .. Len(p) : p[k] \in C
  BY <1>7
<1>9. 1 \in DOMAIN p /\ Len(p) \in DOMAIN p
  BY <1>8
<1> QED
  BY <1>7, <1>8, <1>9 DEF Video!root, Video!Last, Video!ToSet

\* A root is nearer to itself than the others of its set.
LEMMA RankFacts ==
  ASSUME NEW sets, NEW rt, NEW rank, NEW K, Forest(sets, rt, rank, K),
         NEW x \in Video!Cells
  PROVE  rt[x] # x => rank[rt[x]] < rank[x]
<1> DEFINE C == Video!Cells
           Wrong == {u \in C : rt[u] # u /\ ~ (rank[rt[u]] < rank[u])}
           Ranks == {rank[u] : u \in Wrong}
<1>1. /\ K \in Nat /\ \A v \in C : rank[v] \in Nat /\ rt[v] \in C
      /\ \A v \in C : sets[v].first \in C
      /\ \A v \in C : sets[v].first = v => rt[v] = v
      /\ \A v \in C : sets[v].first # v =>
            rank[sets[v].first] < rank[v] /\ rt[sets[v].first] = rt[v]
  BY DEF Forest, Info
<1> SUFFICES ASSUME x \in Wrong PROVE FALSE
  OBVIOUS
<1>2. Ranks \subseteq Nat /\ Ranks # {}
  BY <1>1
<1>3. PICK n \in Ranks : \A m \in Ranks : n <= m
  BY <1>2, LeastNatural
<1>4. PICK u \in Wrong : n = rank[u]
  BY <1>3
<1>5. sets[u].first # u /\ u \in C /\ rt[u] # u /\ ~ (rank[rt[u]] < rank[u])
  BY <1>1, <1>4
<1> DEFINE t == sets[u].first
<1>6. t \in C /\ rank[t] < rank[u] /\ rt[t] = rt[u]
  BY <1>1, <1>5
<1>7. t \notin Wrong
  <2> SUFFICES ASSUME t \in Wrong PROVE FALSE
    OBVIOUS
  <2> HIDE DEF Wrong, t
  <2>1. rank[t] \in Ranks
    OBVIOUS
  <2>2. rank[t] \in Nat /\ rank[u] \in Nat /\ rank[u] <= rank[t]
    BY <1>1, <1>3, <1>4, <1>5, <1>6, <2>1
  <2> QED
    BY <1>6, <2>2
<1>8. rt[t] = t \/ rank[rt[t]] < rank[t]
  BY <1>6, <1>7
<1> HIDE DEF t
<1> QED
  BY <1>1, <1>5, <1>6, <1>8

\* find() keeps the sets and their roots, and points x to its root.
LEMMA FindFacts ==
  ASSUME NEW sets, NEW rt, NEW rank, NEW K, Forest(sets, rt, rank, K),
         NEW x \in Video!Cells
  PROVE  /\ Forest(Video!find(sets, x), rt, rank, K)
         /\ \A v \in Video!Cells : Video!find(sets, x)[rt[v]] = sets[rt[v]]
         /\ Video!find(sets, x)[x].first = rt[x]
         /\ \A v \in Video!Cells : sets[v].first = rt[v] => Video!find(sets, x)[v].first = rt[v]
<1> DEFINE C == Video!Cells
           P == Video!ToSet(Video!Path(sets, x))
           f == Video!find(sets, x)
<1>1. /\ x \in P /\ rt[x] \in P /\ Video!root(sets, x) = rt[x]
      /\ \A u \in P : u \in C /\ rt[u] = rt[x]
  BY PathFacts
<1>2. f = [v \in C |-> IF v \in P THEN sets[rt[x]] ELSE sets[v]]
  BY <1>1 DEF Video!find
<1> HIDE DEF P, f
<1>3. /\ \A v \in C : sets[v] \in Info /\ sets[v].first \in C
      /\ \A v \in C : rt[v] \in C /\ rank[v] \in 0 .. K /\ sets[rt[v]].first = rt[v]
      /\ \A v \in C : sets[v].first = v => rt[v] = v
      /\ \A v \in C : sets[v].first # v =>
            rank[sets[v].first] < rank[v] /\ rt[sets[v].first] = rt[v]
      /\ K \in Nat
  BY DEF Forest, Info
<1>4. \A v \in C : f[rt[v]] = sets[rt[v]]
  <2> TAKE v \in C
  <2>1. CASE rt[v] \in P
    <3>1. rt[rt[v]] = rt[x] /\ rt[rt[v]] = rt[v]
      BY <1>1, <1>3, <2>1
    <3> QED
      BY <1>2, <1>3, <2>1, <3>1
  <2>2. CASE rt[v] \notin P
    BY <1>2, <1>3, <2>2
  <2> QED
    BY <2>1, <2>2
<1>5. f[x].first = rt[x]
  BY <1>1, <1>2, <1>3
<1>6. f \in [C -> Info]
  BY <1>2, <1>3
<1>7. ASSUME NEW v \in C
      PROVE  /\ f[rt[v]].first = rt[v]
             /\ f[v].first = v => rt[v] = v
             /\ f[v].first # v => rank[f[v].first] < rank[v] /\ rt[f[v].first] = rt[v]
  <2>1. f[rt[v]].first = rt[v]
    BY <1>3, <1>4
  <2>2. CASE v \notin P
    BY <1>2, <1>3, <2>1, <2>2
  <2>3. CASE v \in P
    <3>1. f[v].first = rt[v] /\ rt[v] = rt[x]
      BY <1>1, <1>2, <1>3, <2>3
    <3>2. rt[rt[v]] = rt[v]
      BY <1>3
    <3>3. rt[v] # v => rank[rt[v]] < rank[v]
      BY RankFacts
    <3> QED
      BY <2>1, <3>1, <3>2, <3>3
  <2> QED
    BY <2>2, <2>3
<1>8. rt \in [C -> C] /\ K \in Nat /\ rank \in [C -> 0 .. K]
  BY DEF Forest
<1>9. Forest(f, rt, rank, K)
  BY <1>6, <1>7, <1>8 DEF Forest
<1>10. \A v \in C : sets[v].first = rt[v] => f[v].first = rt[v]
  BY <1>1, <1>2, <1>3
<1> QED
  BY <1>4, <1>5, <1>9, <1>10 DEF f

\* The roots once the root x is below the root y.
Merged(rt, x, y) == [v \in Video!Cells |-> IF rt[v] = x THEN y ELSE rt[v]]

\* Two roots joined are one set.
LEMMA BelowFacts ==
  ASSUME NEW sets, NEW rt, NEW rank, NEW K, Forest(sets, rt, rank, K),
         NEW x \in Video!Cells, NEW y \in Video!Cells, rt[x] = x, rt[y] = y, x # y
  PROVE  /\ \E rank2 :
              Forest(Video!Below(sets, x, y),
                     Merged(rt, x, y), rank2, K + K + 1)
         /\ \A v \in Video!Cells \ {x, y} : Video!Below(sets, x, y)[v] = sets[v]
         /\ Video!Below(sets, x, y)[y].mutated = sets[y].mutated
         /\ Video!Below(sets, x, y)[y].ch = sets[y].ch
         /\ Video!Below(sets, x, y)[y].size = sets[y].size + sets[x].size
<1> DEFINE C == Video!Cells
           f == Video!Below(sets, x, y)
           rt2 == [v \in C |-> IF rt[v] = x THEN y ELSE rt[v]]
           rank2 == [v \in C |-> IF rt[v] = x THEN rank[v] + rank[y] + 1 ELSE rank[v]]
<1>1. /\ \A v \in C : sets[v] \in Info /\ sets[v].first \in C
      /\ \A v \in C : rt[v] \in C /\ rank[v] \in 0 .. K /\ sets[rt[v]].first = rt[v]
      /\ \A v \in C : sets[v].first = v => rt[v] = v
      /\ \A v \in C : sets[v].first # v =>
            rank[sets[v].first] < rank[v] /\ rt[sets[v].first] = rt[v]
      /\ K \in Nat /\ sets \in [C -> Info]
  BY DEF Forest, Info
<1>2. PICK p \in Info : p = sets[x]
  BY <1>1
<1>3. PICK q \in Info : q = sets[y]
  BY <1>1
<1> DEFINE p2 == [p EXCEPT !.first = y]
           q2 == [q EXCEPT !.size = q.size + p.size]
<1>4. p2 \in Info /\ q2 \in Info /\ p2.first = y /\ q2.first = q.first
  BY <1>2, <1>3 DEF Info
<1>5. f = [v \in C |-> IF v = x THEN p2 ELSE IF v = y THEN q2 ELSE sets[v]]
  BY <1>1, <1>2, <1>3 DEF Video!Below
<1> HIDE DEF p2, q2, f
<1>6. f \in [C -> Info]
  BY <1>1, <1>4, <1>5
<1>7. rt2 \in [C -> C] /\ rank2 \in [C -> 0 .. K + K + 1]
  BY <1>1
<1>8. q.first = y /\ p.first = x
  BY <1>1, <1>2, <1>3
<1>9. ASSUME NEW v \in C
      PROVE  /\ f[rt2[v]].first = rt2[v]
             /\ f[v].first = v => rt2[v] = v
             /\ f[v].first # v => rank2[f[v].first] < rank2[v] /\ rt2[f[v].first] = rt2[v]
  <2>1. f[y].first = y /\ f[x].first = y
    BY <1>4, <1>5, <1>8
  <2>2. \A u \in C \ {x, y} : f[u] = sets[u]
    BY <1>5
  <2>3. f[rt2[v]].first = rt2[v]
    BY <1>1, <2>1, <2>2
  <2>4. CASE v = x
    BY <1>1, <2>1, <2>3, <2>4
  <2>5. CASE v = y
    BY <1>1, <2>1, <2>3, <2>5
  <2>6. CASE v # x /\ v # y
    <3>1. f[v].first = sets[v].first /\ sets[v].first \in C
      BY <1>1, <2>2, <2>6
    <3>2. CASE sets[v].first = v
      BY <1>1, <2>3, <2>6, <3>1, <3>2
    <3>3. CASE sets[v].first # v
      <4>1. rank[sets[v].first] < rank[v] /\ rt[sets[v].first] = rt[v]
        BY <1>1, <3>3
      <4> QED
        BY <1>1, <2>3, <3>1, <3>3, <4>1
    <3> QED
      BY <3>2, <3>3
  <2> QED
    BY <2>4, <2>5, <2>6
<1>10. K + K + 1 \in Nat
  BY <1>1
<1> HIDE DEF rt2, rank2
<1>11. Forest(f, rt2, rank2, K + K + 1)
  BY <1>6, <1>7, <1>9, <1>10 DEF Forest
<1>12. f[y] = q2 /\ \A v \in C \ {x, y} : f[v] = sets[v]
  BY <1>5
<1>13. /\ f[y].mutated = sets[y].mutated /\ f[y].ch = sets[y].ch
       /\ f[y].size = sets[y].size + sets[x].size
  BY <1>2, <1>3, <1>12 DEF q2, Info
<1> QED
  BY <1>11, <1>12, <1>13 DEF f, rt2, Merged

----------------------------------------------------------------------------
(* Division, and the places of cells                                       *)

\* Division as arithmetic knows it, and products.
LEMMA Division ==
  ASSUME NEW a \in Int, NEW w \in Nat \ {0}
  PROVE  /\ a \div w \in Int /\ a % w \in 0 .. w - 1
         /\ a = w * (a \div w) + (a % w)
OBVIOUS

LEMMA AtLeast ==
  ASSUME NEW w \in Nat \ {0}, NEW d \in Int
  PROVE  w * d \in Int /\ (d >= 1 => w * d >= w) /\ (d <= -1 => w * d <= -w)
OBVIOUS

LEMMA Distribute ==
  ASSUME NEW w \in Nat, NEW j \in Int, NEW k \in Int
  PROVE  /\ w * (j - k) = w * j - w * k /\ w * (j + k) = w * j + w * k
         /\ w * j \in Int /\ w * k \in Int
OBVIOUS

\* A number is divided in one way only.
LEMMA Unique ==
  ASSUME NEW w \in Nat \ {0}, NEW k \in Int, NEW j \in Int,
         NEW r \in 0 .. w - 1, NEW s \in 0 .. w - 1, w * k + r = w * j + s
  PROVE  k = j /\ r = s
<1>1. w * (j - k) = r - s /\ j - k \in Int
  BY Distribute
<1>2. j - k = 0 \/ j - k >= 1 \/ j - k <= -1
  OBVIOUS
<1>3. CASE j - k = 0
  BY <1>1, <1>3
<1>4. CASE j - k >= 1
  BY <1>1, <1>4, AtLeast
<1>5. CASE j - k <= -1
  BY <1>1, <1>5, AtLeast
<1> QED
  BY <1>2, <1>3, <1>4, <1>5

\* Quotient and remainder of a number that is given as such.
LEMMA Divided ==
  ASSUME NEW w \in Nat \ {0}, NEW k \in Int, NEW r \in 0 .. w - 1
  PROVE  /\ w * k + r \in Int
         /\ (w * k + r) \div w = k /\ (w * k + r) % w = r
<1> DEFINE a == w * k + r
           q == a \div w
           s == a % w
<1>1. a \in Int
  OBVIOUS
<1>2. q \in Int /\ s \in 0 .. w - 1 /\ a = w * q + s
  BY <1>1, Division
<1>3. w * k + r = w * q + s
  BY <1>2
<1> HIDE DEF q, s
<1>4. k = q /\ r = s
  BY <1>2, <1>3, Unique
<1> QED
  BY <1>1, <1>4 DEF q, s

\* Products grow with their factors.
LEMMA Monotonic ==
  ASSUME NEW w \in Nat, NEW j \in Nat, NEW k \in Nat, j <= k
  PROVE  w * j \in Nat /\ w * k \in Nat /\ w * j <= w * k
<1>1. w * (k - j) = w * k - w * j /\ w * k \in Int /\ w * j \in Int
  BY Distribute
<1>2. w * (k - j) >= 0 /\ w * j >= 0
  OBVIOUS
<1> QED
  BY <1>1, <1>2

\* A pair of digits of bases n and w is a number below n * w.
LEMMA Below2 ==
  ASSUME NEW w \in Nat \ {0}, NEW n \in Nat, NEW k \in 0 .. n - 1, NEW r \in 0 .. w - 1
  PROVE  w * k + r \in 0 .. w * n - 1
<1>1. w * (k + 1) = w * k + w /\ w * k \in Nat
  OBVIOUS
<1>2. w * (k + 1) <= w * n /\ w * n \in Nat
  BY Monotonic
<1> QED
  BY <1>1, <1>2

\* The digits of a number below n * w.
LEMMA Digits ==
  ASSUME NEW w \in Nat \ {0}, NEW n \in Nat, NEW a \in 0 .. w * n - 1
  PROVE  a \div w \in 0 .. n - 1 /\ a % w \in 0 .. w - 1 /\ a = w * (a \div w) + (a % w)
<1> DEFINE q == a \div w
<1>1. w * n \in Nat /\ a \in Nat
  OBVIOUS
<1>2. q \in Int /\ a % w \in 0 .. w - 1 /\ a = w * q + (a % w)
  BY <1>1, Division
<1> HIDE DEF q
<1>3. q >= 0
  <2>1. CASE q <= -1
    BY <1>1, <1>2, <2>1, AtLeast
  <2> QED
    BY <1>2, <2>1
<1>4. q < n
  <2>1. CASE q >= n
    <3>1. w * n <= w * q
      BY <1>2, <1>3, <2>1, Monotonic
    <3> QED
      BY <1>1, <1>2, <3>1
  <2> QED
    BY <1>2, <2>1
<1> QED
  BY <1>2, <1>3, <1>4 DEF q

\* The sizes of a screen, of a byte and of a large block are positive.
LEMMA Sizes ==
  /\ Row \in Nat \ {0} /\ Col \in Nat \ {0} /\ ByteBits \in Nat \ {0} /\ Large \in Nat \ {0}
  /\ Video!VIDEO_SIZE \in Nat \ {0} /\ Video!VIDEO_SIZE = Col * Row /\ Video!VIDEO_SIZE = Row * Col
<1>1. Row \in Nat \ {0} /\ Col \in Nat \ {0} /\ ByteBits \in Nat \ {0} /\ Large \in Nat \ {0}
  BY CtorsAssumption
<1> QED
  BY <1>1 DEF Video!VIDEO_SIZE

\* Cells are numbered without a gap within a frame, and both ways.
LEMMA Labels ==
  /\ \A c \in Video!Cells :
       /\ Video!label(c) \in 0 .. Video!VIDEO_SIZE - 1
       /\ << Video!label(c) % Col, Video!label(c) \div Col >> = c
  /\ \A l \in 0 .. Video!VIDEO_SIZE - 1 :
       /\ << l % Col, l \div Col >> \in Video!Cells
       /\ Video!label(<< l % Col, l \div Col >>) = l
<1>1. ASSUME NEW c \in Video!Cells
      PROVE  /\ Video!label(c) \in 0 .. Video!VIDEO_SIZE - 1
             /\ << Video!label(c) % Col, Video!label(c) \div Col >> = c
  <2>1. c[1] \in 0 .. Col - 1 /\ c[2] \in 0 .. Row - 1 /\ c = <<c[1], c[2]>>
    BY DEF Video!Cells
  <2>2. Video!label(c) = Col * c[2] + c[1]
    BY <2>1, Sizes DEF Video!label
  <2>3. Col * c[2] + c[1] \in 0 .. Col * Row - 1
    BY <2>1, Sizes, Below2
  <2>4. (Col * c[2] + c[1]) \div Col = c[2] /\ (Col * c[2] + c[1]) % Col = c[1]
    BY <2>1, Sizes, Divided
  <2> QED
    BY <2>1, <2>2, <2>3, <2>4, Sizes
<1>2. ASSUME NEW l \in 0 .. Video!VIDEO_SIZE - 1
      PROVE  /\ << l % Col, l \div Col >> \in Video!Cells
             /\ Video!label(<< l % Col, l \div Col >>) = l
  <2>1. l \div Col \in 0 .. Row - 1 /\ l % Col \in 0 .. Col - 1 /\ l = Col * (l \div Col) + (l % Col)
    BY Sizes, Digits
  <2>2. PICK a \in 0 .. Col - 1, b \in 0 .. Row - 1 : a = l % Col /\ b = l \div Col
    BY <2>1
  <2>3. <<a, b>> \in Video!Cells
    BY DEF Video!Cells
  <2>4. Video!label(<<a, b>>) = Col * b + a
    BY Sizes DEF Video!label
  <2> QED
    BY <2>1, <2>2, <2>3, <2>4
<1> QED
  BY <1>1, <1>2

\* The place of a cell in the pool.
Place(f, c) == f * Video!VIDEO_SIZE + Video!label(c) + 1

\* The cells of a frame are at distinct places of the pool, within it.
LEMMA Places ==
  /\ \A f \in Nat, n \in Nat : \A c \in Video!Cells :
       f < n => Place(f, c) \in 1 .. n * Video!VIDEO_SIZE
  /\ \A f, g \in Nat : \A c, d \in Video!Cells : Place(f, c) = Place(g, d) => f = g /\ c = d
  /\ \A n \in Nat : \A k \in 1 .. n * Video!VIDEO_SIZE :
       LET f == (k - 1) \div Video!VIDEO_SIZE
           l == (k - 1) % Video!VIDEO_SIZE
       IN  /\ f \in 0 .. n - 1 /\ << l % Col, l \div Col >> \in Video!Cells
           /\ Place(f, << l % Col, l \div Col >>) = k
<1> DEFINE w == Video!VIDEO_SIZE
<1>0. w \in Nat \ {0}
  BY Sizes
<1>1. ASSUME NEW f \in Nat, NEW n \in Nat, NEW c \in Video!Cells, f < n
      PROVE  Place(f, c) \in 1 .. n * w
  <2>1. w * f + Video!label(c) \in 0 .. w * n - 1
    BY <1>0, <1>1, Labels, Below2
  <2> QED
    BY <1>0, <2>1, Labels DEF Place
<1>2. ASSUME NEW f \in Nat, NEW g \in Nat, NEW c \in Video!Cells, NEW d \in Video!Cells,
             Place(f, c) = Place(g, d)
      PROVE  f = g /\ c = d
  <2>1. w * f + Video!label(c) = w * g + Video!label(d)
    BY <1>0, <1>2, Labels DEF Place
  <2>2. f = g /\ Video!label(c) = Video!label(d)
    BY <1>0, <2>1, Labels, Unique
  <2> QED
    BY <2>2, Labels
<1>3. ASSUME NEW n \in Nat, NEW k \in 1 .. n * w
      PROVE  LET f == (k - 1) \div w
                 l == (k - 1) % w
             IN  /\ f \in 0 .. n - 1 /\ << l % Col, l \div Col >> \in Video!Cells
                 /\ Place(f, << l % Col, l \div Col >>) = k
  <2>1. k - 1 \in 0 .. w * n - 1 /\ k \in Nat
    BY <1>0
  <2>2. (k - 1) \div w \in 0 .. n - 1 /\ (k - 1) % w \in 0 .. w - 1
        /\ k - 1 = w * ((k - 1) \div w) + ((k - 1) % w)
    BY <1>0, <2>1, Digits
  <2>3. PICK f \in 0 .. n - 1, l \in 0 .. w - 1 : f = (k - 1) \div w /\ l = (k - 1) % w
    BY <2>2
  <2>4. << l % Col, l \div Col >> \in Video!Cells /\ Video!label(<< l % Col, l \div Col >>) = l
    BY Labels
  <2>5. Place(f, << l % Col, l \div Col >>) = f * w + l + 1
    BY <2>4 DEF Place
  <2>6. k = f * w + l + 1
    BY <1>0, <2>1, <2>2, <2>3
  <2> QED
    BY <2>3, <2>4, <2>5, <2>6
<1> QED
  BY <1>1, <1>2, <1>3

\* The loops over x, then y, meet every cell.
LEMMA ScanFacts ==
  /\ \A k \in 1 .. Video!VIDEO_SIZE : Video!Scan[k] \in Video!Cells
  /\ \A c \in Video!Cells : \E k \in 1 .. Video!VIDEO_SIZE : Video!Scan[k] = c
<1>1. ASSUME NEW k \in 1 .. Video!VIDEO_SIZE PROVE Video!Scan[k] \in Video!Cells
  <2>1. k - 1 \in 0 .. Row * Col - 1
    BY Sizes
  <2>2. (k - 1) \div Row \in 0 .. Col - 1 /\ (k - 1) % Row \in 0 .. Row - 1
    BY <2>1, Sizes, Digits
  <2> QED
    BY <2>2 DEF Video!Scan, Video!Cells
<1>2. ASSUME NEW c \in Video!Cells PROVE \E k \in 1 .. Video!VIDEO_SIZE : Video!Scan[k] = c
  <2>1. c[1] \in 0 .. Col - 1 /\ c[2] \in 0 .. Row - 1 /\ c = <<c[1], c[2]>>
    BY DEF Video!Cells
  <2> DEFINE j == Row * c[1] + c[2]
  <2>2. j \in 0 .. Row * Col - 1 /\ j \div Row = c[1] /\ j % Row = c[2]
    BY <2>1, Sizes, Below2, Divided
  <2> HIDE DEF j
  <2>3. j + 1 \in 1 .. Video!VIDEO_SIZE /\ (j + 1) - 1 = j
    BY <2>2, Sizes
  <2>4. Video!Scan[j + 1] = << j \div Row, j % Row >>
    BY <2>3 DEF Video!Scan
  <2> QED
    BY <2>1, <2>2, <2>3, <2>4
<1> QED
  BY <1>1, <1>2

\* Being beside each other goes both ways.
LEMMA BesideBack ==
  ASSUME NEW c \in Video!Cells, NEW d \in 1 .. 4
  PROVE  \E e \in 1 .. 4 : Video!Beside(Video!Beside(c, d), e) = c
<1>1. PICK x \in Int, y \in Int : c = <<x, y>>
  <2>1. c[1] \in Int /\ c[2] \in Int /\ c = <<c[1], c[2]>>
    BY Sizes DEF Video!Cells
  <2> QED
    BY <2>1
<1>2. \A u, v \in Int : /\ Video!Beside(<<u, v>>, 1) = <<u - 1, v>>
                        /\ Video!Beside(<<u, v>>, 2) = <<u + 1, v>>
                        /\ Video!Beside(<<u, v>>, 3) = <<u, v - 1>>
                        /\ Video!Beside(<<u, v>>, 4) = <<u, v + 1>>
  BY DEF Video!Beside, Video!dxy
<1>3. CASE d = 1
  <2>1. Video!Beside(Video!Beside(c, d), 2) = <<(x - 1) + 1, y>>
    BY <1>1, <1>2, <1>3
  <2> QED
    BY <1>1, <2>1
<1>4. CASE d = 2
  <2>1. Video!Beside(Video!Beside(c, d), 1) = <<(x + 1) - 1, y>>
    BY <1>1, <1>2, <1>4
  <2> QED
    BY <1>1, <2>1
<1>5. CASE d = 3
  <2>1. Video!Beside(c, d) = <<x, y - 1>>
    BY <1>1, <1>2, <1>5
  <2>2. Video!Beside(<<x, y - 1>>, 4) = <<x, (y - 1) + 1>>
    BY <1>2
  <2>3. Video!Beside(Video!Beside(c, d), 4) = c
    BY <1>1, <2>1, <2>2
  <2> QED
    BY <2>3
<1>6. CASE d = 4
  <2>1. Video!Beside(c, d) = <<x, y + 1>>
    BY <1>1, <1>2, <1>6
  <2>2. Video!Beside(<<x, y + 1>>, 3) = <<x, (y + 1) - 1>>
    BY <1>2
  <2>3. Video!Beside(Video!Beside(c, d), 3) = c
    BY <1>1, <2>1, <2>2
  <2> QED
    BY <2>3
<1> QED
  BY <1>3, <1>4, <1>5, <1>6

\* The cells with the same root.
Class(rt, v) == {u \in Video!Cells : rt[u] = rt[v]}

\* What the roots know while sets are joined: the size of the set, and one of
\* the characters it had, Unknown only if there is no other.
Collected(sets, rt, ini) ==
  \A v \in Video!Cells :
    /\ ~sets[rt[v]].mutated
    /\ sets[rt[v]].size = Cardinality(Class(rt, v))
    /\ \E u \in Class(rt, v) : sets[rt[v]].ch = ini[u]
    /\ sets[rt[v]].ch = Video!Unknown => \A u \in Class(rt, v) : ini[u] = Video!Unknown
    /\ ini[v] = Video!Blank => Class(rt, v) = {v}

\* Such a class is finite.
LEMMA ClassFinite ==
  ASSUME NEW rt, NEW v
  PROVE  IsFiniteSet(Class(rt, v)) /\ IsFiniteSet(Video!Cells)
<1>1. IsFiniteSet(0 .. Col - 1) /\ IsFiniteSet(0 .. Row - 1)
  BY FS_Interval, Sizes
<1>2. IsFiniteSet(Video!Cells)
  BY <1>1, FS_Product DEF Video!Cells
<1>3. Class(rt, v) \in SUBSET Video!Cells
  BY DEF Class
<1> QED
  BY <1>2, <1>3, FS_Subset

\* At first each cell is a set of its own.
LEMMA AloneAtFirst ==
  ASSUME NEW ini \in [Video!Cells -> {Video!Blank} \cup Video!dense_chars]
  PROVE  LET sets == [v \in Video!Cells |-> [first |-> v, size |-> 1,
                                             mutated |-> FALSE, ch |-> ini[v]]]
             rt == [v \in Video!Cells |-> v]
         IN  Forest(sets, rt, [v \in Video!Cells |-> 0], 0) /\ Collected(sets, rt, ini)
<1> DEFINE C == Video!Cells
           info(v) == [first |-> v, size |-> 1, mutated |-> FALSE, ch |-> ini[v]]
           sets == [v \in C |-> info(v)]
           rt == [v \in C |-> v]
           rank == [v \in C |-> 0]
<1>1. \A v \in C : info(v) \in Info /\ sets[v] = info(v) /\ rt[v] = v
  BY DEF Info
<1>2. \A v \in C : Class(rt, v) = {v}
  BY DEF Class
<1>3. Forest(sets, rt, rank, 0)
  BY <1>1 DEF Forest
<1>4. \A v \in C : Cardinality({v}) = 1
  BY FS_Singleton
<1> HIDE DEF sets, rt
<1>5. ASSUME NEW v \in C PROVE sets[rt[v]].ch = ini[v] /\ sets[rt[v]].size = 1
  <2>1. sets[rt[v]] = info(v)
    BY <1>1
  <2>2. info(v).ch = ini[v] /\ info(v).size = 1
    BY Zenon
  <2> QED
    BY <2>1, <2>2, Zenon
<1>6. ASSUME NEW v \in C PROVE ~sets[rt[v]].mutated
  <2>1. sets[rt[v]] = info(v)
    BY <1>1
  <2>2. info(v).mutated = FALSE
    BY Zenon
  <2> QED
    BY <2>1, <2>2, Zenon
<1>7. Collected(sets, rt, ini)
  BY <1>2, <1>4, <1>5, <1>6 DEF Collected
<1> QED
  BY <1>3, <1>7 DEF sets, rt

\* The class of a root below which another was put has the cells of both.
LEMMA MergedClass ==
  ASSUME NEW rt \in [Video!Cells -> Video!Cells], NEW x \in Video!Cells, NEW y \in Video!Cells,
         rt[x] = x, rt[y] = y, x # y, NEW v \in Video!Cells
  PROVE  /\ Merged(rt, x, y) \in [Video!Cells -> Video!Cells]
         /\ rt[v] \in {x, y} =>
              /\ Merged(rt, x, y)[v] = y
              /\ Class(Merged(rt, x, y), v) = Class(rt, x) \cup Class(rt, y)
         /\ rt[v] \notin {x, y} =>
              /\ Merged(rt, x, y)[v] = rt[v]
              /\ Class(Merged(rt, x, y), v) = Class(rt, v)
<1> DEFINE rt2 == Merged(rt, x, y)
<1>1. rt2 \in [Video!Cells -> Video!Cells]
      /\ \A u \in Video!Cells : rt2[u] = IF rt[u] = x THEN y ELSE rt[u]
  BY DEF Merged
<1> HIDE DEF rt2
<1>2. CASE rt[v] \in {x, y}
  <2>1. rt2[v] = y
    BY <1>1, <1>2
  <2>2. \A u \in Video!Cells : rt2[u] = y <=> rt[u] = x \/ rt[u] = y
    BY <1>1
  <2>3. Class(rt2, v) = Class(rt, x) \cup Class(rt, y)
    BY <2>1, <2>2 DEF Class
  <2> QED
    BY <1>1, <1>2, <2>1, <2>3 DEF rt2
<1>3. CASE rt[v] \notin {x, y}
  <2>1. rt2[v] = rt[v]
    BY <1>1, <1>3
  <2>2. \A u \in Video!Cells : rt2[u] = rt[v] <=> rt[u] = rt[v]
    BY <1>1, <1>3
  <2>3. Class(rt2, v) = Class(rt, v)
    BY <2>1, <2>2 DEF Class
  <2> QED
    BY <1>1, <1>3, <2>1, <2>3 DEF rt2
<1> QED
  BY <1>2, <1>3

\* The lower of two sets that are joined brings no character that matters.
LEMMA JoinRootsFacts ==
  ASSUME NEW sets, NEW rt, NEW rank, NEW K, Forest(sets, rt, rank, K),
         NEW ini, Collected(sets, rt, ini),
         NEW x \in Video!Cells, NEW y \in Video!Cells, rt[x] = x, rt[y] = y, x # y,
         ini[x] # Video!Blank, ini[y] # Video!Blank,
         sets[y].ch # Video!Unknown \/ sets[x].ch = Video!Unknown
  PROVE  Collected(Video!Below(sets, x, y), Merged(rt, x, y), ini)
<1> DEFINE C == Video!Cells
           f == Video!Below(sets, x, y)
           rt2 == Merged(rt, x, y)
<1>1. /\ rt \in [C -> C] /\ sets \in [C -> Info] /\ \A v \in C : rt[rt[v]] = rt[v]
  BY DEF Forest
<1>2. \A v \in C \ {x, y} : f[v] = sets[v]
  BY BelowFacts
<1>4. PICK p \in Info, q \in Info : p = sets[x] /\ q = sets[y]
  BY <1>1
<1>5. /\ f[y].mutated = sets[y].mutated /\ f[y].ch = sets[y].ch
      /\ f[y].size = sets[y].size + sets[x].size
  BY BelowFacts
<1>6. Cardinality(Class(rt, x) \cup Class(rt, y)) = sets[y].size + sets[x].size
  <2>1. Class(rt, x) \cap Class(rt, y) = {}
    BY DEF Class
  <2>2. IsFiniteSet(Class(rt, x)) /\ IsFiniteSet(Class(rt, y))
    BY ClassFinite
  <2>3. Cardinality(Class(rt, x) \cup Class(rt, y))
          = Cardinality(Class(rt, x)) + Cardinality(Class(rt, y)) - Cardinality({})
    BY <2>1, <2>2, FS_Union
  <2>4. Cardinality({}) = 0
    BY FS_EmptySet
  <2>5. sets[x].size = Cardinality(Class(rt, x)) /\ sets[y].size = Cardinality(Class(rt, y))
    BY DEF Collected
  <2>6. sets[x].size \in Nat /\ sets[y].size \in Nat
    BY <1>4 DEF Info
  <2> QED
    BY <2>3, <2>4, <2>5, <2>6
<1> HIDE DEF f, rt2
<1>7. ASSUME NEW v \in C
      PROVE  /\ ~f[rt2[v]].mutated
             /\ f[rt2[v]].size = Cardinality(Class(rt2, v))
             /\ \E u \in Class(rt2, v) : f[rt2[v]].ch = ini[u]
             /\ f[rt2[v]].ch = Video!Unknown => \A u \in Class(rt2, v) : ini[u] = Video!Unknown
             /\ ini[v] = Video!Blank => Class(rt2, v) = {v}
  <2>1. CASE rt[v] \in {x, y}
    <3>1. rt2[v] = y /\ Class(rt2, v) = Class(rt, x) \cup Class(rt, y)
      BY <1>1, <2>1, MergedClass DEF rt2
    <3>2. ~sets[y].mutated
      BY DEF Collected
    <3>3. \E u \in Class(rt, y) : sets[y].ch = ini[u]
      BY DEF Collected
    <3>4. sets[y].ch = Video!Unknown =>
            \A u \in Class(rt, x) \cup Class(rt, y) : ini[u] = Video!Unknown
      BY DEF Collected
    <3>5. ini[v] # Video!Blank
      <4>1. v \in Class(rt, x) \cup Class(rt, y)
        BY <2>1 DEF Class
      <4>2. x \in Class(rt, v) \/ y \in Class(rt, v)
        BY <2>1 DEF Class
      <4> QED
        BY <4>2 DEF Collected
    <3> QED
      BY <1>5, <1>6, <3>1, <3>2, <3>3, <3>4, <3>5
  <2>2. CASE rt[v] \notin {x, y}
    <3>1. rt2[v] = rt[v] /\ Class(rt2, v) = Class(rt, v)
      BY <1>1, <2>2, MergedClass DEF rt2
    <3>2. f[rt[v]] = sets[rt[v]]
      BY <1>1, <1>2, <2>2
    <3> QED
      BY <3>1, <3>2 DEF Collected
  <2> QED
    BY <2>1, <2>2
<1> QED
  BY <1>7 DEF Collected, f, rt2

\* Joining the sets of b and c.
LEMMA JoinFacts ==
  ASSUME NEW sets, NEW rt, NEW rank, NEW K, Forest(sets, rt, rank, K),
         NEW ini, Collected(sets, rt, ini),
         NEW b \in Video!Cells, NEW c \in Video!Cells,
         ini[b] # Video!Blank, ini[c] # Video!Blank
  PROVE  \E rt2, rank2, K2 :
           /\ Forest(Video!JoinRoots(sets, rt[c], rt[b]), rt2, rank2, K2)
           /\ Collected(Video!JoinRoots(sets, rt[c], rt[b]), rt2, ini)
           /\ rt2[b] = rt2[c]
           /\ \A u, v \in Video!Cells : rt[u] = rt[v] => rt2[u] = rt2[v]
           /\ \A u, v \in Video!Cells : rt2[u] = rt2[v] =>
                \/ rt[u] = rt[v]
                \/ rt[u] = rt[b] /\ rt[v] = rt[c]
                \/ rt[u] = rt[c] /\ rt[v] = rt[b]
<1> DEFINE C == Video!Cells
           x == rt[c]
           y == rt[b]
<1>1. rt \in [C -> C] /\ \A v \in C : rt[rt[v]] = rt[v]
  BY DEF Forest
<1>2. x \in C /\ y \in C /\ rt[x] = x /\ rt[y] = y
  BY <1>1
<1>3. ini[x] # Video!Blank /\ ini[y] # Video!Blank
  <2>1. c \in Class(rt, x) /\ b \in Class(rt, y)
    BY <1>2 DEF Class
  <2> QED
    BY <1>2, <2>1 DEF Collected
<1>4. ASSUME NEW lo \in C, NEW hi \in C, lo # hi, {lo, hi} = {x, y},
             sets[hi].ch # Video!Unknown \/ sets[lo].ch = Video!Unknown,
             Video!JoinRoots(sets, x, y) = Video!Below(sets, lo, hi)
      PROVE  \E rt2, rank2, K2 :
               /\ Forest(Video!JoinRoots(sets, x, y), rt2, rank2, K2)
               /\ Collected(Video!JoinRoots(sets, x, y), rt2, ini)
               /\ rt2[b] = rt2[c]
               /\ \A u, v \in C : rt[u] = rt[v] => rt2[u] = rt2[v]
               /\ \A u, v \in C : rt2[u] = rt2[v] =>
                    rt[u] = rt[v] \/ (rt[u] = y /\ rt[v] = x) \/ (rt[u] = x /\ rt[v] = y)
  <2> DEFINE rt2 == Merged(rt, lo, hi)
  <2>1. rt[lo] = lo /\ rt[hi] = hi /\ ini[lo] # Video!Blank /\ ini[hi] # Video!Blank
    BY <1>2, <1>3, <1>4
  <2>2. PICK rank2 : Forest(Video!Below(sets, lo, hi), rt2, rank2, K + K + 1)
    BY <1>4, <2>1, BelowFacts
  <2>3. Collected(Video!Below(sets, lo, hi), rt2, ini)
    BY <1>4, <2>1, JoinRootsFacts
  <2>4. \A v \in C : rt2[v] = IF rt[v] = lo THEN hi ELSE rt[v]
    BY <1>1 DEF Merged
  <2> HIDE DEF rt2
  <2>5. rt2[b] = rt2[c]
    BY <1>4, <2>1, <2>4
  <2>6. \A u, v \in C : rt[u] = rt[v] => rt2[u] = rt2[v]
    BY <2>4
  <2>7. \A u, v \in C : rt2[u] = rt2[v] =>
          rt[u] = rt[v] \/ (rt[u] = y /\ rt[v] = x) \/ (rt[u] = x /\ rt[v] = y)
    BY <1>4, <2>4
  <2> QED
    BY <1>4, <2>2, <2>3, <2>5, <2>6, <2>7
<1>5. CASE x = y
  <2>1. Video!JoinRoots(sets, x, y) = sets
    BY <1>5 DEF Video!JoinRoots
  <2> QED
    BY <1>5, <2>1
<1>6. CASE x # y /\ sets[x].ch # Video!Unknown
  <2>1. Video!JoinRoots(sets, x, y) = Video!Below(sets, y, x)
    BY <1>6 DEF Video!JoinRoots
  <2>2. sets[x].ch # Video!Unknown /\ {y, x} = {x, y} /\ y # x
    BY <1>6
  <2> QED
    BY <1>2, <1>4, <2>1, <2>2
<1>7. CASE x # y /\ sets[x].ch = Video!Unknown
  <2>1. Video!JoinRoots(sets, x, y) = Video!Below(sets, x, y)
    BY <1>7 DEF Video!JoinRoots
  <2>2. sets[x].ch = Video!Unknown /\ {x, y} = {x, y} /\ x # y
    BY <1>7
  <2> QED
    BY <1>2, <1>4, <2>1, <2>2
<1> QED
  BY <1>5, <1>6, <1>7

\* The character of a set is one that it had, if large; Unknown, before it
\* is settled, only if it had no other.
Colouring(sets, rt, ini) ==
  \A v \in Video!Cells :
    /\ sets[rt[v]].size = Cardinality(Class(rt, v))
    /\ ini[v] = Video!Blank <=> sets[rt[v]].ch = Video!Blank
    /\ sets[rt[v]].size >= Large /\ (\E u \in Class(rt, v) : ini[u] # Video!Unknown) =>
         \E u \in Class(rt, v) : ini[u] # Video!Unknown /\ sets[rt[v]].ch = ini[u]
    /\ sets[rt[v]].ch = Video!Unknown /\ ~sets[rt[v]].mutated =>
         \A u \in Class(rt, v) : ini[u] = Video!Unknown

\* What Settled leaves alone.
Fixed(info) ==
  \/ info.ch = Video!Blank
  \/ info.mutated
  \/ info.ch # Video!Unknown /\ info.size >= Large

\* When the joining is over nothing is settled.
LEMMA CollectedColouring ==
  ASSUME NEW sets, NEW rt, NEW ini, Collected(sets, rt, ini)
  PROVE  Colouring(sets, rt, ini)
<1> SUFFICES ASSUME NEW v \in Video!Cells
    PROVE  /\ sets[rt[v]].size = Cardinality(Class(rt, v))
           /\ ini[v] = Video!Blank <=> sets[rt[v]].ch = Video!Blank
           /\ (\E u \in Class(rt, v) : ini[u] # Video!Unknown) =>
                \E u \in Class(rt, v) : ini[u] # Video!Unknown /\ sets[rt[v]].ch = ini[u]
           /\ sets[rt[v]].ch = Video!Unknown => \A u \in Class(rt, v) : ini[u] = Video!Unknown
  BY DEF Colouring
<1>1. PICK u \in Class(rt, v) : sets[rt[v]].ch = ini[u]
  BY DEF Collected
<1>2. u \in Video!Cells /\ v \in Class(rt, u)
  BY <1>1 DEF Class
<1>3. ini[v] = Video!Blank => u = v
  BY <1>1 DEF Collected
<1>4. ini[u] = Video!Blank => u = v
  BY <1>2 DEF Collected
<1> QED
  BY <1>1, <1>3, <1>4 DEF Collected

\* What visiting a set makes of its information: it is settled for good.
LEMMA SettledInfo ==
  ASSUME NEW q \in Info, NEW info \in Video!Settled(q)
  PROVE  /\ info \in Info /\ info.first = q.first /\ info.size = q.size
         /\ info.ch = Video!Blank <=> q.ch = Video!Blank
         /\ Fixed(info)
         /\ Fixed(q) => info = q
         /\ info # q => (q.ch = Video!Unknown /\ ~q.mutated) \/ ~ (q.size >= Large)
<1>1. CASE q.mutated
  BY <1>1 DEF Video!Settled, Fixed
<1>2. ASSUME NEW g \in {q.ch} \cup Video!dense_chars, q.ch # Video!Blank,
             info = [q EXCEPT !.ch = g, !.mutated = TRUE]
      PROVE  /\ info \in Info /\ info.first = q.first /\ info.size = q.size
             /\ info.ch # Video!Blank /\ info.mutated
  <2>1. g # Video!Blank /\ g \in {Video!Blank} \cup Video!dense_chars
    BY <1>2 DEF Video!dense_chars, Video!Blank, Info
  <2>2. /\ info.ch = g /\ info.first = q.first /\ info.size = q.size /\ info \in Info
    BY <1>2, <2>1 DEF Info
  <2>3. info.mutated = TRUE
    BY <1>2, Zenon DEF Info
  <2> QED
    BY <2>1, <2>2, <2>3
<1>3. CASE ~q.mutated /\ q.ch = Video!Unknown
  <2>1. PICK g \in Video!dense_chars : info = [q EXCEPT !.ch = g, !.mutated = TRUE]
    BY <1>3 DEF Video!Settled
  <2>2. q.ch # Video!Blank
    BY <1>3 DEF Video!Unknown, Video!Blank
  <2> QED
    BY <1>2, <1>3, <2>1, <2>2 DEF Fixed
<1>4. CASE ~q.mutated /\ q.ch # Video!Unknown /\ q.ch # Video!Blank /\ q.size < Large
  <2>1. PICK g \in {q.ch} \cup Video!dense_chars : info = [q EXCEPT !.ch = g, !.mutated = TRUE]
    BY <1>4 DEF Video!Settled
  <2>2. ~ (q.size >= Large)
    BY <1>4, Sizes DEF Info
  <2> QED
    BY <1>2, <1>4, <2>1, <2>2 DEF Fixed
<1>5. CASE ~q.mutated /\ q.ch # Video!Unknown /\ ~ (q.ch # Video!Blank /\ q.size < Large)
  <2>1. info = q
    BY <1>5 DEF Video!Settled
  <2>2. q.size \in Nat
    BY DEF Info
  <2>3. Fixed(q)
    BY <1>5, <2>2, Sizes DEF Fixed
  <2> QED
    BY <2>1, <2>3
<1> QED
  BY <1>1, <1>3, <1>4, <1>5

\* A visit settles the set of c, once.
LEMMA SettleFacts ==
  ASSUME NEW sets, NEW rt, NEW rank, NEW K, Forest(sets, rt, rank, K),
         NEW ini, Colouring(sets, rt, ini), NEW c \in Video!Cells,
         NEW info \in Video!Settled(Video!find(sets, c)[rt[c]]),
         NEW s2, s2 = [v \in Video!Cells |-> IF v = rt[c] THEN info ELSE Video!find(sets, c)[v]]
  PROVE  /\ Forest(s2, rt, rank, K)
         /\ Colouring(s2, rt, ini)
         /\ s2[rt[c]] = info /\ Fixed(info)
         /\ \A v \in Video!Cells : Fixed(sets[rt[v]]) => s2[rt[v]] = sets[rt[v]]
<1> DEFINE C == Video!Cells
           found == Video!find(sets, c)
<1>1. /\ Forest(found, rt, rank, K)
      /\ \A v \in C : found[rt[v]] = sets[rt[v]]
  BY FindFacts
<1>2. s2 = [v \in C |-> IF v = rt[c] THEN info ELSE found[v]] /\ info \in Video!Settled(found[rt[c]])
  OBVIOUS
<1> HIDE DEF found
<1>3. /\ found \in [C -> Info] /\ rt \in [C -> C]
      /\ \A v \in C : found[rt[v]].first = rt[v]
      /\ \A v \in C : found[v].first = v => rt[v] = v
  BY <1>1 DEF Forest
<1>4. PICK q \in Info : q = found[rt[c]]
  BY <1>3
<1>5. /\ info \in Info /\ info.first = q.first /\ info.size = q.size
      /\ info.ch = Video!Blank <=> q.ch = Video!Blank
      /\ Fixed(info)
      /\ Fixed(q) => info = q
      /\ info # q => (q.ch = Video!Unknown /\ ~q.mutated) \/ ~ (q.size >= Large)
  BY <1>2, <1>4, SettledInfo
<1>7. s2 \in [C -> Info] /\ \A v \in C : s2[v].first = found[v].first
  BY <1>2, <1>3, <1>4, <1>5
<1>8. Forest(s2, rt, rank, K)
  BY <1>1, <1>7 DEF Forest
<1>9. s2[rt[c]] = info
  BY <1>2, <1>3
<1>10. \A v \in C : rt[v] # rt[c] => s2[rt[v]] = sets[rt[v]]
  BY <1>1, <1>2, <1>3
<1>11. q = sets[rt[c]]
  BY <1>1, <1>4
<1>12. \A v \in C : Fixed(sets[rt[v]]) => s2[rt[v]] = sets[rt[v]]
  BY <1>5, <1>9, <1>10, <1>11
<1>13. ASSUME NEW v \in C
       PROVE  /\ s2[rt[v]].size = Cardinality(Class(rt, v))
              /\ ini[v] = Video!Blank <=> s2[rt[v]].ch = Video!Blank
              /\ s2[rt[v]].size >= Large /\ (\E u \in Class(rt, v) : ini[u] # Video!Unknown) =>
                   \E u \in Class(rt, v) : ini[u] # Video!Unknown /\ s2[rt[v]].ch = ini[u]
              /\ s2[rt[v]].ch = Video!Unknown /\ ~s2[rt[v]].mutated =>
                   \A u \in Class(rt, v) : ini[u] = Video!Unknown
  <2>1. CASE rt[v] # rt[c] \/ info = q
    <3>1. s2[rt[v]] = sets[rt[v]]
      BY <1>9, <1>10, <1>11, <2>1
    <3> QED
      BY <3>1 DEF Colouring
  <2>2. CASE rt[v] = rt[c] /\ info # q
    <3>1. s2[rt[v]] = info /\ sets[rt[v]] = q
      BY <1>9, <1>11, <2>2
    <3>2. info.size = Cardinality(Class(rt, v)) /\ (ini[v] = Video!Blank <=> info.ch = Video!Blank)
      BY <1>5, <3>1 DEF Colouring
    <3>3. ~ (info.ch = Video!Unknown /\ ~info.mutated)
      BY <1>5 DEF Fixed, Video!Unknown, Video!Blank
    <3>4. q.ch = Video!Unknown /\ ~q.mutated => \A u \in Class(rt, v) : ini[u] = Video!Unknown
      BY <3>1 DEF Colouring
    <3> QED
      BY <1>5, <2>2, <3>1, <3>2, <3>3, <3>4
  <2> QED
    BY <2>1, <2>2
<1>14. Colouring(s2, rt, ini)
  BY <1>13 DEF Colouring
<1> QED
  BY <1>5, <1>8, <1>9, <1>12, <1>14

\* From the moment that the pool is filled.
Drawing == {"frame", "join", "visit", "outline", "ready"}

\* What the pool is filled with, what is drawn first, and what is then made of it.
Chars == {Video!Blank, "#"} \cup Video!dense_chars
           \cup {Video!line_chars[d] : d \in 1 .. 4} \cup {Video!dot_chars[d] : d \in 1 .. 4}

\* The size and the characters of the pool, and where the constructor is in it.
PoolInv ==
  /\ visited \in Nat
  /\ pc \notin {"join", "visit"} => visited = 0
  /\ pc \in Drawing =>
       /\ count \in Nat
       /\ pool \in Seq(Chars) /\ Len(pool) = count * Video!VIDEO_SIZE
       /\ frame \in 0 .. count
  /\ pc = "join" => frame < count /\ visited <= 4 * Video!VIDEO_SIZE
  /\ pc = "visit" => frame < count /\ visited <= Video!VIDEO_SIZE
  /\ pc \in {"frame", "join", "visit"} /\ frame > 0 =>
       \A c \in Video!Cells : Video!at(frame - 1, c) \in {Video!Blank} \cup Video!dense_chars

\* The characters with which the cells of the frame begin.
Begins(f, c) ==
  IF Video!at(f, c) = Video!Blank THEN Video!Blank
  ELSE IF f > 0 /\ Video!at(f - 1, c) # Video!Blank THEN Video!at(f - 1, c)
  ELSE Video!Unknown

\* The characters with which the cells of the current frame begin.
Ini == [c \in Video!Cells |-> Begins(frame, c)]

\* Cells that are not connected are in different sets.
Apart(rt) ==
  \A S \in SUBSET Video!Drawn(frame) :
    Video!Connected(frame, S) =>
      \A u \in S : \A v \in Video!Cells : rt[u] = rt[v] => v \in S

\* Pair k of the loop.
First(k) == Video!Scan[(k \div 4) + 1]
Second(k) == Video!Beside(First(k), (k % 4) + 1)

\* The pairs of drawn cells that the loop has been at have one root.
JoinedSoFar(rt) ==
  \A k \in Nat :
    k < visited /\ {First(k), Second(k)} \subseteq Video!Drawn(frame) =>
      rt[First(k)] = rt[Second(k)]

\* While cells are joined: a forest whose classes are connected, with their sizes
\* and a character of theirs.
JoinInv ==
  pc = "join" =>
    \E rt, rank, K :
      /\ Forest(dsu, rt, rank, K)
      /\ Collected(dsu, rt, Ini)
      /\ Apart(rt)
      /\ JoinedSoFar(rt)

\* The classes are the connected blocks.
Blocks(rt) == \A c \in Video!Drawn(frame) : Class(rt, c) = Video!Block(frame, c)

\* The cells visited show the character of their set, which is settled.
ShownSoFar(rt) ==
  \A k \in 1 .. visited :
    /\ Video!at(frame, Video!Scan[k]) = dsu[rt[Video!Scan[k]]].ch
    /\ Fixed(dsu[rt[Video!Scan[k]]])

\* While cells are visited.
VisitInv ==
  pc = "visit" =>
    \E rt, rank, K :
      /\ Forest(dsu, rt, rank, K)
      /\ Colouring(dsu, rt, Ini)
      /\ Blocks(rt)
      /\ ShownSoFar(rt)

\* All that is known while the film is drawn.
DrawInv == PoolInv /\ JoinInv /\ VisitInv /\ BlocksColoured /\ Silhouette

----------------------------------------------------------------------------

\* A cell is where its place says, in this frame and in the last.
LEMMA AtPlace ==
  ASSUME NEW f, NEW c
  PROVE  Video!at(f, c) = pool[Place(f, c)]
BY DEF Video!at, Place

LEMMA AtPlaceNext ==
  ASSUME NEW f, NEW c
  PROVE  Video!at(f, c)' = pool'[Place(f, c)]
BY DEF Video!at, Place

\* A cell begins blank exactly if it is not drawn.
LEMMA IniFacts ==
  ASSUME PoolInv, pc \in {"frame", "join", "visit"}
  PROVE  /\ Ini \in [Video!Cells -> {Video!Blank} \cup Video!dense_chars]
         /\ \A c \in Video!Cells : Ini[c] = Video!Blank <=> c \notin Video!Drawn(frame)
         /\ Video!Drawn(frame) \subseteq Video!Cells
<1>1. \A c \in Video!Cells : Ini[c] = Begins(frame, c)
  BY DEF Ini
<1>2. frame \in Nat /\ Video!Unknown \in Video!dense_chars /\ Video!Unknown # Video!Blank
  <2>1. frame \in Nat
    BY DEF PoolInv, Drawing
  <2>2. Video!Unknown \in Video!dense_chars /\ Video!Unknown # Video!Blank
    BY DEF Video!Unknown, Video!dense_chars, Video!Blank
  <2> QED
    BY <2>1, <2>2
<1>3. \A c \in Video!Cells : Begins(frame, c) \in {Video!Blank} \cup Video!dense_chars
  BY <1>2 DEF Begins, PoolInv
<1>4. \A c \in Video!Cells : Begins(frame, c) = Video!Blank <=> Video!at(frame, c) = Video!Blank
  BY <1>2 DEF Begins
<1> QED
  BY <1>1, <1>3, <1>4 DEF Ini, Video!Drawn

\* InitialSets(): each cell alone.
LEMMA SeparateStep ==
  ASSUME DrawInv, Video!Separate
  PROVE  DrawInv'
<1>1. /\ pc = "frame" /\ frame < count /\ dsu' = Video!InitialSets(frame) /\ pc' = "join"
      /\ UNCHANGED <<film, count, pool, frame, visited>>
  BY DEF Video!Separate, Video!encoder, Video!decoder
<1>2. PoolInv /\ visited = 0
  BY <1>1 DEF DrawInv, PoolInv
<1>3. PoolInv'
  BY <1>1, <1>2, Sizes DEF PoolInv, Drawing, Video!at
<1>4. Ini \in [Video!Cells -> {Video!Blank} \cup Video!dense_chars]
      /\ \A c \in Video!Cells : Ini[c] = Begins(frame, c)
  BY <1>1, <1>2, IniFacts DEF Ini
<1>5. PICK ini : ini = Ini
  OBVIOUS
<1>6. dsu' = [v \in Video!Cells |-> [first |-> v, size |-> 1, mutated |-> FALSE, ch |-> ini[v]]]
  BY <1>1, <1>4, <1>5, Zenon DEF Video!InitialSets, Begins
<1> DEFINE rt == [v \in Video!Cells |-> v]
<1>7. Forest(dsu', rt, [v \in Video!Cells |-> 0], 0) /\ Collected(dsu', rt, ini)
  BY <1>4, <1>5, <1>6, AloneAtFirst
<1>8. Ini' = ini
  BY <1>1, <1>5 DEF Ini, Begins, Video!at
<1>9. Apart(rt)'
  BY DEF Apart, Video!Drawn
<1>10. JoinedSoFar(rt)'
  BY <1>1, <1>2 DEF JoinedSoFar
<1>11. JoinInv'
  BY <1>7, <1>8, <1>9, <1>10 DEF JoinInv
<1>12. VisitInv' /\ BlocksColoured'
  BY <1>1 DEF VisitInv, BlocksColoured, Video!BlocksColoured
<1>13. Silhouette'
  BY <1>1 DEF DrawInv, Silhouette, Video!Silhouette
<1> QED
  BY <1>3, <1>11, <1>12, <1>13 DEF DrawInv

\* Two cells are joined, or left alone: find() shortens paths and changes no root,
\* and the sets that become one were beside each other.
LEMMA ConnectStep ==
  ASSUME DrawInv, Video!Connect
  PROVE  DrawInv'
<1> DEFINE C == Video!Cells
           D == Video!Drawn(frame)
<1>1. /\ pc = "join" /\ visited < 4 * Video!VIDEO_SIZE /\ visited' = visited + 1
      /\ UNCHANGED <<pc, film, count, pool, frame>>
  BY DEF Video!Connect, Video!encoder, Video!decoder
<1>2. PoolInv /\ visited \in Nat /\ JoinInv
  BY DEF DrawInv, PoolInv
<1>3. PoolInv'
  BY <1>1, <1>2, Sizes DEF PoolInv, Drawing, Video!at
<1>4. PICK ini : ini = Ini
  OBVIOUS
<1>5. \A c \in C : ini[c] = Video!Blank <=> c \notin D
  BY <1>1, <1>2, <1>4, IniFacts
<1>6. Ini' = ini /\ Video!Drawn(frame)' = D
  BY <1>1, <1>4 DEF Ini, Begins, Video!at, Video!Drawn
<1>7. PICK rt, rank, K : /\ Forest(dsu, rt, rank, K) /\ Collected(dsu, rt, ini)
                         /\ Apart(rt) /\ JoinedSoFar(rt)
  BY <1>1, <1>2, <1>4 DEF JoinInv
<1>8. PICK sets : sets = dsu
  OBVIOUS
<1>9. (visited \div 4) + 1 \in 1 .. Video!VIDEO_SIZE /\ (visited % 4) + 1 \in 1 .. 4
  BY <1>1, <1>2, Sizes
<1>10. PICK c \in C : c = First(visited)
  BY <1>9, ScanFacts DEF First
<1>11. PICK d \in 1 .. 4 : d = (visited % 4) + 1
  BY <1>9
<1> DEFINE b == Video!Beside(c, d)
<1>12. b = Second(visited)
  BY <1>10, <1>11 DEF Second
<1>13. IF b \in C /\ c \in D /\ b \in D
       THEN \E found \in {Video!find(sets, c)} : \E both \in {Video!find(found, b)} :
              dsu' = Video!JoinRoots(both, both[c].first, both[b].first)
       ELSE dsu' = sets
  BY <1>8, <1>10, <1>11 DEF Video!Connect, First, Video!Drawn
<1>14. VisitInv' /\ BlocksColoured' /\ Silhouette'
  BY <1>1 DEF DrawInv, VisitInv, BlocksColoured, Video!BlocksColoured, Silhouette, Video!Silhouette
<1>15. CASE b \in C /\ c \in D /\ b \in D
  <2> DEFINE found == Video!find(sets, c)
             both == Video!find(found, b)
  <2>1. dsu' = Video!JoinRoots(both, both[c].first, both[b].first)
    BY <1>13, <1>15
  <2>2. /\ Forest(found, rt, rank, K) /\ found[c].first = rt[c]
        /\ \A v \in C : found[rt[v]] = sets[rt[v]]
    BY <1>7, <1>8, FindFacts
  <2> HIDE DEF found
  <2>3. /\ Forest(both, rt, rank, K) /\ both[b].first = rt[b] /\ both[c].first = rt[c]
        /\ \A v \in C : both[rt[v]] = found[rt[v]]
    BY <1>15, <2>2, FindFacts
  <2> HIDE DEF both
  <2>4. Collected(both, rt, ini)
    BY <1>7, <1>8, <2>2, <2>3 DEF Collected
  <2>5. dsu' = Video!JoinRoots(both, rt[c], rt[b])
    BY <2>1, <2>3
  <2>6. ini[b] # Video!Blank /\ ini[c] # Video!Blank
    BY <1>5, <1>15
  <2>7. PICK rt2, rank2, K2 :
           /\ Forest(dsu', rt2, rank2, K2) /\ Collected(dsu', rt2, ini)
           /\ rt2[b] = rt2[c]
           /\ \A u, v \in C : rt[u] = rt[v] => rt2[u] = rt2[v]
           /\ \A u, v \in C : rt2[u] = rt2[v] =>
                \/ rt[u] = rt[v]
                \/ rt[u] = rt[b] /\ rt[v] = rt[c]
                \/ rt[u] = rt[c] /\ rt[v] = rt[b]
    BY <1>15, <2>3, <2>4, <2>5, <2>6, JoinFacts
  <2>8. ASSUME NEW S \in SUBSET D, Video!Connected(frame, S), NEW u \in S, NEW v \in C,
               rt2[u] = rt2[v]
        PROVE  v \in S
    <3>1. \A x \in S : \A y \in C : rt[x] = rt[y] => y \in S
      BY <1>7, <2>8 DEF Apart
    <3>2. c \in S <=> b \in S
      <4>1. c \in S => b \in S
        BY <1>15, <2>8 DEF Video!Connected
      <4>2. PICK e \in 1 .. 4 : Video!Beside(b, e) = c
        BY BesideBack
      <4>3. b \in S => c \in S
        BY <1>15, <2>8, <4>2 DEF Video!Connected
      <4> QED
        BY <4>1, <4>3
    <3>3. u \in C
      BY <1>2, <1>1, IniFacts
    <3> QED
      BY <1>15, <2>7, <2>8, <3>1, <3>2, <3>3
  <2>9. Apart(rt2)'
    <3>1. \A S : Video!Connected(frame, S)' <=> Video!Connected(frame, S)
      BY <1>6 DEF Video!Connected
    <3> QED
      BY <1>6, <2>8, <3>1 DEF Apart
  <2>10. JoinedSoFar(rt2)'
    <3> SUFFICES ASSUME NEW k \in Nat, k < visited + 1, {First(k), Second(k)} \subseteq D
                 PROVE  rt2[First(k)] = rt2[Second(k)]
      BY <1>1, <1>6 DEF JoinedSoFar
    <3>1. CASE k = visited
      BY <1>10, <1>12, <2>7, <3>1
    <3>2. CASE k # visited
      <4>1. k < visited
        BY <1>2, <3>2
      <4>2. rt[First(k)] = rt[Second(k)]
        BY <1>7, <4>1 DEF JoinedSoFar
      <4>3. First(k) \in C /\ Second(k) \in C
        BY <1>1, <1>2, IniFacts
      <4> QED
        BY <2>7, <4>2, <4>3
    <3> QED
      BY <3>1, <3>2
  <2>11. JoinInv'
    BY <1>6, <2>7, <2>9, <2>10 DEF JoinInv
  <2> QED
    BY <1>3, <1>14, <2>11 DEF DrawInv
<1>16. CASE ~ (b \in C /\ c \in D /\ b \in D)
  <2>1. dsu' = dsu
    BY <1>8, <1>13, <1>16
  <2>2. Apart(rt)'
    <3>1. \A S : Video!Connected(frame, S)' <=> Video!Connected(frame, S)
      BY <1>6 DEF Video!Connected
    <3> QED
      BY <1>6, <1>7, <3>1 DEF Apart
  <2>3. JoinedSoFar(rt)'
    <3> SUFFICES ASSUME NEW k \in Nat, k < visited + 1, {First(k), Second(k)} \subseteq D
                 PROVE  rt[First(k)] = rt[Second(k)]
      BY <1>1, <1>6 DEF JoinedSoFar
    <3>1. k # visited
      <4>1. D \subseteq C
        BY <1>1, <1>2, IniFacts
      <4> QED
        BY <1>10, <1>12, <1>16, <4>1
    <3>2. k < visited
      BY <1>2, <3>1
    <3> QED
      BY <1>7, <3>2 DEF JoinedSoFar
  <2>4. JoinInv'
    BY <1>6, <1>7, <2>1, <2>2, <2>3 DEF JoinInv
  <2> QED
    BY <1>3, <1>14, <2>4 DEF DrawInv
<1> QED
  BY <1>15, <1>16

\* Blocks depend on what is blank only.
LEMMA BlocksStay ==
  ASSUME frame' = frame, Video!Drawn(frame)' = Video!Drawn(frame), NEW rt, Blocks(rt)
  PROVE  Blocks(rt)'
<1>1. \A S : Video!Connected(frame, S)' <=> Video!Connected(frame, S)
  BY DEF Video!Connected
<1>2. \A c : Video!Block(frame, c)' = Video!Block(frame, c)
  BY <1>1 DEF Video!Block
<1> QED
  BY <1>2 DEF Blocks

\* A cell takes the character of its set; the blocks and the cells of other sets
\* are as they were.
LEMMA VisitStep ==
  ASSUME DrawInv, Video!Visit
  PROVE  DrawInv'
<1> DEFINE C == Video!Cells
           D == Video!Drawn(frame)
           G == {Video!Blank} \cup Video!dense_chars
<1>1. /\ pc = "visit" /\ visited < Video!VIDEO_SIZE /\ visited' = visited + 1
      /\ UNCHANGED <<pc, film, count, frame>>
  BY DEF Video!Visit, Video!encoder, Video!decoder
<1>2. /\ PoolInv /\ visited \in Nat /\ VisitInv /\ Silhouette
      /\ count \in Nat /\ frame \in Nat /\ frame < count
      /\ pool \in Seq(Chars) /\ Len(pool) = count * Video!VIDEO_SIZE
  BY <1>1 DEF DrawInv, PoolInv, Drawing
<1>3. PICK ini : ini = Ini
  OBVIOUS
<1>4. /\ \A v \in C : ini[v] = Video!Blank <=> v \notin D
      /\ D \subseteq C
  BY <1>1, <1>2, <1>3, IniFacts
<1>5. PICK rt, rank, K : /\ Forest(dsu, rt, rank, K) /\ Colouring(dsu, rt, ini)
                         /\ Blocks(rt) /\ ShownSoFar(rt)
  BY <1>1, <1>2, <1>3 DEF VisitInv
<1>6. PICK sets : sets = dsu
  OBVIOUS
<1>7. PICK c \in C : c = Video!Scan[visited + 1]
  BY <1>1, <1>2, ScanFacts, Sizes
<1> DEFINE found == Video!find(sets, c)
<1>8. PICK info \in Video!Settled(found[found[c].first]) :
         /\ dsu' = [found EXCEPT ![found[c].first] = info]
         /\ pool' = [pool EXCEPT ![Place(frame, c)] = info.ch]
  BY <1>6, <1>7 DEF Video!Visit, Place
<1>9. found[c].first = rt[c]
  BY <1>5, <1>6, FindFacts
<1>10. PICK s2 : s2 = [v \in C |-> IF v = rt[c] THEN info ELSE found[v]]
  OBVIOUS
<1>11. /\ Forest(s2, rt, rank, K) /\ Colouring(s2, rt, ini)
       /\ s2[rt[c]] = info /\ Fixed(info)
       /\ \A v \in C : Fixed(sets[rt[v]]) => s2[rt[v]] = sets[rt[v]]
  <2>1. info \in Video!Settled(found[rt[c]])
    BY <1>8, <1>9
  <2>2. Forest(sets, rt, rank, K) /\ Colouring(sets, rt, ini)
    BY <1>5, <1>6
  <2> QED
    BY <1>10, <2>1, <2>2, SettleFacts
<1>12. dsu' = s2
  <2>1. found \in [C -> Info]
    <3>1. Forest(found, rt, rank, K)
      BY <1>5, <1>6, FindFacts
    <3> HIDE DEF found
    <3> QED
      BY <3>1 DEF Forest
  <2> HIDE DEF found
  <2> QED
    BY <1>8, <1>9, <1>10, <2>1
<1> HIDE DEF found
<1>13. info.ch \in G
  BY <1>11 DEF Forest, Info
<1>14. info.ch = Video!Blank <=> c \notin D
  BY <1>4, <1>11 DEF Colouring
<1>15. Place(frame, c) \in 1 .. Len(pool) /\ G \subseteq Chars
  BY <1>2, Places DEF Chars
<1>16. /\ pool' \in Seq(Chars) /\ Len(pool') = Len(pool) /\ DOMAIN pool' = 1 .. Len(pool)
       /\ DOMAIN pool = 1 .. Len(pool)
       /\ \A k \in 1 .. Len(pool) : pool'[k] = IF k = Place(frame, c) THEN info.ch ELSE pool[k]
  BY <1>2, <1>8, <1>13, <1>15
<1>17. \A f \in Nat : \A v \in C : f < count /\ <<f, v>> # <<frame, c>> =>
         Video!at(f, v)' = Video!at(f, v)
  <2> TAKE f \in Nat
  <2> TAKE v \in C
  <2> HAVE f < count /\ <<f, v>> # <<frame, c>>
  <2>1. Place(f, v) \in 1 .. Len(pool) /\ Place(f, v) # Place(frame, c)
    BY <1>2, Places
  <2> QED
    BY <1>16, <2>1, AtPlace, AtPlaceNext
<1>18. Video!at(frame, c)' = info.ch
  <2>1. Video!at(frame, c)' = pool'[Place(frame, c)]
    BY <1>1 DEF Video!at, Place
  <2> QED
    BY <1>15, <1>16, <2>1
<1>19. \A v \in C : /\ v \in Video!Drawn(frame)' <=> v \in D
                    /\ v # c => Video!at(frame, v)' = Video!at(frame, v)
  BY <1>1, <1>2, <1>14, <1>17, <1>18 DEF Video!Drawn
<1>20. Video!Drawn(frame)' = D
  <2>1. Video!Drawn(frame)' \subseteq C
    BY DEF Video!Drawn
  <2> QED
    BY <1>4, <1>19, <2>1
<1>21. frame > 0 => \A v \in C : Video!at(frame - 1, v)' = Video!at(frame - 1, v)
  <2> SUFFICES ASSUME frame > 0, NEW v \in C PROVE Video!at(frame - 1, v)' = Video!at(frame - 1, v)
    OBVIOUS
  <2>1. frame - 1 \in Nat /\ frame - 1 < count /\ frame - 1 # frame
    BY <1>2
  <2>2. \A f : f = frame - 1 => Video!at(f, v)' = Video!at(f, v)
    BY <1>17, <2>1
  <2>3. Video!at(frame - 1, v)' = pool'[Place(frame - 1, v)]
    BY <1>1 DEF Video!at, Place
  <2>4. Video!at(frame - 1, v) = pool[Place(frame - 1, v)]
    BY DEF Video!at, Place
  <2>5. Place(frame - 1, v) \in 1 .. Len(pool) /\ Place(frame - 1, v) # Place(frame, c)
    BY <1>2, <2>1, Places
  <2> QED
    BY <1>16, <2>3, <2>4, <2>5
<1>22. PoolInv'
  <2>1. \A v \in C : frame > 0 => Video!at(frame - 1, v) \in G
    BY <1>1, <1>2 DEF PoolInv
  <2>2. visited' \in Nat /\ visited' <= Video!VIDEO_SIZE
    BY <1>1, <1>2, Sizes
  <2> QED
    BY <1>1, <1>2, <1>16, <1>21, <2>1, <2>2 DEF PoolInv, Drawing
<1>23. Ini' = ini
  <2>1. \A v \in C : Begins(frame, v)' = Begins(frame, v)
    <3> TAKE v \in C
    <3>1. Video!at(frame, v)' = Video!Blank <=> Video!at(frame, v) = Video!Blank
      BY <1>19, <1>20 DEF Video!Drawn
    <3> QED
      BY <1>1, <1>21, <3>1 DEF Begins
  <2> QED
    BY <1>3, <2>1 DEF Ini
<1>24. Blocks(rt)'
  BY <1>1, <1>5, <1>20, BlocksStay
<1>25. ShownSoFar(rt)'
  <2> SUFFICES ASSUME NEW k \in 1 .. visited + 1
               PROVE  /\ Video!at(frame, Video!Scan[k])' = s2[rt[Video!Scan[k]]].ch
                      /\ Fixed(s2[rt[Video!Scan[k]]])
    BY <1>1, <1>12 DEF ShownSoFar
  <2>1. PICK v \in C : v = Video!Scan[k]
    <3>1. k \in 1 .. Video!VIDEO_SIZE
      BY <1>1, <1>2, Sizes
    <3> QED
      BY <3>1, ScanFacts
  <2>2. CASE v = c
    BY <1>1, <1>11, <1>18, <2>1, <2>2
  <2>3. CASE v # c
    <3>1. k \in 1 .. visited
      BY <1>2, <1>7, <2>1, <2>3
    <3>2. Video!at(frame, v) = sets[rt[v]].ch /\ Fixed(sets[rt[v]])
      BY <1>5, <1>6, <2>1, <3>1 DEF ShownSoFar
    <3>3. s2[rt[v]] = sets[rt[v]]
      BY <1>11, <3>2
    <3> QED
      BY <1>19, <2>1, <2>3, <3>2, <3>3
  <2> QED
    BY <2>2, <2>3
<1>26. VisitInv'
  BY <1>11, <1>12, <1>23, <1>24, <1>25 DEF VisitInv
<1>27. Silhouette'
  <2>1. \A k \in 1 .. Len(pool) : (pool'[k] = Video!Blank) = (pool[k] = Video!Blank)
    <3> TAKE k \in 1 .. Len(pool)
    <3>1. pool[Place(frame, c)] = Video!Blank <=> c \notin D
      BY AtPlace DEF Video!Drawn
    <3> QED
      BY <1>14, <1>16, <3>1
  <2>2. \A k \in 1 .. Len(pool) : (pool[k] = Video!Blank) = (film[k] = 1)
    BY <1>1, <1>2, <1>16 DEF Silhouette, Video!Silhouette
  <2>3. \A k \in 1 .. Len(pool) : (pool'[k] = Video!Blank) = (film[k] = 1)
    BY <2>1, <2>2, Zenon
  <2> QED
    BY <1>1, <1>2, <1>16, <2>3 DEF Silhouette, Video!Silhouette
<1>28. JoinInv' /\ BlocksColoured'
  BY <1>1 DEF JoinInv, BlocksColoured, Video!BlocksColoured
<1> QED
  BY <1>22, <1>26, <1>27, <1>28 DEF DrawInv

\* When every pair has been seen, sets are blocks.
LEMMA JoinedBlocks ==
  ASSUME PoolInv, pc = "join", visited = 4 * Video!VIDEO_SIZE,
         NEW sets, NEW rt, NEW rank, NEW K, Forest(sets, rt, rank, K),
         Collected(sets, rt, Ini), Apart(rt), JoinedSoFar(rt)
  PROVE  Blocks(rt)
<1> DEFINE C == Video!Cells
           D == Video!Drawn(frame)
<1>1. /\ \A v \in C : Ini[v] = Video!Blank <=> v \notin D
      /\ D \subseteq C
  BY IniFacts
<1> SUFFICES ASSUME NEW c \in D PROVE Class(rt, c) = Video!Block(frame, c)
  BY DEF Blocks
<1> DEFINE S == Class(rt, c)
<1>2. c \in C /\ c \in S
  BY <1>1 DEF Class
<1>3. S \subseteq D
  <2> SUFFICES ASSUME NEW v \in S, v \notin D PROVE FALSE
    OBVIOUS
  <2>1. v \in C /\ c \in Class(rt, v)
    BY <1>2 DEF Class
  <2>2. Class(rt, v) = {v}
    BY <1>1, <2>1 DEF Collected
  <2> QED
    BY <2>1, <2>2
<1>4. ASSUME NEW u \in S, NEW d \in 1 .. 4, Video!Beside(u, d) \in D
      PROVE  Video!Beside(u, d) \in S
  <2>1. PICK j \in 1 .. Video!VIDEO_SIZE : Video!Scan[j] = u
    BY <1>1, <1>3, ScanFacts
  <2> DEFINE k == 4 * (j - 1) + (d - 1)
  <2>2. k \div 4 = j - 1 /\ k % 4 = d - 1
    BY Sizes, Divided
  <2>3. k \in Nat /\ k < 4 * Video!VIDEO_SIZE
    BY Sizes
  <2> HIDE DEF k
  <2>4. (k \div 4) + 1 = j /\ (k % 4) + 1 = d
    BY <2>2, Sizes
  <2>5. First(k) = u /\ Second(k) = Video!Beside(u, d)
    BY <2>1, <2>4 DEF First, Second
  <2>6. rt[u] = rt[Video!Beside(u, d)]
    BY <1>3, <1>4, <2>3, <2>5 DEF JoinedSoFar
  <2> QED
    BY <1>1, <1>4, <2>6 DEF Class
<1>5. Video!Connected(frame, S)
  BY <1>4 DEF Video!Connected
<1>6. \A v \in Video!Block(frame, c) : v \in S
  BY <1>2, <1>3, <1>5 DEF Video!Block
<1>7. ASSUME NEW v \in S PROVE v \in Video!Block(frame, c)
  <2>1. v \in D /\ v \in C /\ rt[c] = rt[v]
    BY <1>1, <1>3, <1>7 DEF Class
  <2>2. \A T \in SUBSET D : c \in T /\ Video!Connected(frame, T) => v \in T
    BY <2>1 DEF Apart
  <2> QED
    BY <2>1, <2>2 DEF Video!Block
<1> QED
  BY <1>6, <1>7

\* The instance and this module count alike.
LEMMA SameCardinality == \A S : Video!Cardinality(S) = Cardinality(S)
BY Zenon DEF Video!Cardinality, Cardinality, Video!IsFiniteSet, IsFiniteSet

\* BlocksColoured, of frame f.
Coloured(f) ==
  \A c \in Video!Drawn(f) :
    LET block == Video!Block(f, c)
        before == {Video!at(f - 1, v) : v \in block} \ {Video!Blank, Video!Unknown}
    IN  /\ \A v \in block : Video!at(f, v) = Video!at(f, c)
        /\ Video!at(f, c) \in Video!dense_chars
        /\ f > 0 /\ Video!Cardinality(block) >= Large /\ before # {} => Video!at(f, c) \in before

\* When every cell has been visited, the frame is coloured.
LEMMA ColouredAtEnd ==
  ASSUME PoolInv, pc = "visit", visited = Video!VIDEO_SIZE, VisitInv
  PROVE  /\ Coloured(frame)
         /\ \A c \in Video!Cells : Video!at(frame, c) \in {Video!Blank} \cup Video!dense_chars
<1> DEFINE C == Video!Cells
           D == Video!Drawn(frame)
<1>1. /\ \A v \in C : Ini[v] = Video!Blank <=> v \notin D
      /\ D \subseteq C
  BY IniFacts
<1>2. PICK rt, rank, K : /\ Forest(dsu, rt, rank, K) /\ Colouring(dsu, rt, Ini)
                         /\ Blocks(rt) /\ ShownSoFar(rt)
  BY DEF VisitInv
<1>3. \A v \in C : Video!at(frame, v) = dsu[rt[v]].ch
  BY ScanFacts, <1>2 DEF ShownSoFar
<1>4. \A v \in C : dsu[rt[v]].ch \in {Video!Blank} \cup Video!dense_chars
  BY <1>2 DEF Forest, Info
<1>5. ASSUME NEW c \in D
      PROVE  /\ \A v \in Video!Block(frame, c) : Video!at(frame, v) = Video!at(frame, c)
             /\ Video!at(frame, c) \in Video!dense_chars
  <2>1. c \in C /\ Video!Block(frame, c) = Class(rt, c)
    BY <1>1, <1>2 DEF Blocks
  <2>2. \A v \in Class(rt, c) : v \in C /\ rt[v] = rt[c]
    BY DEF Class
  <2>3. Video!at(frame, c) # Video!Blank
    BY DEF Video!Drawn
  <2> QED
    BY <1>3, <1>4, <2>1, <2>2, <2>3
<1>6. ASSUME NEW c \in D, frame > 0,
             Video!Cardinality(Video!Block(frame, c)) >= Large,
             NEW v \in Video!Block(frame, c),
             Video!at(frame - 1, v) \notin {Video!Blank, Video!Unknown}
      PROVE  \E u \in Video!Block(frame, c) :
               /\ Video!at(frame, c) = Video!at(frame - 1, u)
               /\ Video!at(frame - 1, u) \notin {Video!Blank, Video!Unknown}
  <2>1. c \in C /\ Video!Block(frame, c) = Class(rt, c)
    BY <1>1, <1>2 DEF Blocks
  <2>2. v \in D /\ v \in C
    BY <1>1 DEF Video!Block
  <2>3. \A u \in C : Ini[u] = Begins(frame, u)
    BY DEF Ini
  <2>4. Ini[v] # Video!Unknown
    BY <1>6, <2>2, <2>3 DEF Begins, Video!Drawn
  <2>5. dsu[rt[c]].size >= Large
    BY <1>2, <1>6, <2>1, SameCardinality DEF Colouring
  <2>6. PICK u \in Class(rt, c) : Ini[u] # Video!Unknown /\ dsu[rt[c]].ch = Ini[u]
    BY <1>2, <1>6, <2>1, <2>4, <2>5 DEF Colouring
  <2>7. Ini[u] # Video!Blank
    BY <1>3, <2>1, <2>6 DEF Video!Drawn
  <2>8. u \in C
    BY DEF Class
  <2>9. Ini[u] = Video!at(frame - 1, u) /\ Video!at(frame - 1, u) # Video!Blank
    BY <2>3, <2>6, <2>7, <2>8 DEF Begins
  <2> QED
    BY <1>3, <2>1, <2>6, <2>7, <2>9
<1>7. Coloured(frame)
  BY <1>5, <1>6 DEF Coloured
<1> QED
  BY <1>3, <1>4, <1>7

\* A loop ends: all pairs have been joined, or all cells visited, or all frames.
LEMMA TurnStep ==
  ASSUME DrawInv, Video!Turn
  PROVE  DrawInv'
<1>1. visited' = 0 /\ UNCHANGED <<film, count, pool>>
  BY DEF Video!Turn, Video!encoder, Video!decoder
<1>2. PoolInv /\ JoinInv /\ VisitInv /\ Silhouette
  BY DEF DrawInv
<1>3. CASE pc = "join" /\ visited = 4 * Video!VIDEO_SIZE /\ pc' = "visit" /\ UNCHANGED <<frame, dsu>>
  <2>1. PoolInv'
    BY <1>1, <1>2, <1>3, Sizes DEF PoolInv, Drawing, Video!at
  <2>2. PICK rt, rank, K : /\ Forest(dsu, rt, rank, K) /\ Collected(dsu, rt, Ini)
                           /\ Apart(rt) /\ JoinedSoFar(rt)
    BY <1>2, <1>3 DEF JoinInv
  <2>3. PICK sets, ini : sets = dsu /\ ini = Ini
    OBVIOUS
  <2>4. Blocks(rt)
    BY <1>2, <1>3, <2>2, <2>3, JoinedBlocks
  <2>5. Colouring(sets, rt, ini)
    BY <2>2, <2>3, CollectedColouring
  <2>6. Ini' = ini /\ Video!Drawn(frame)' = Video!Drawn(frame)
    BY <1>1, <1>3, <2>3 DEF Ini, Begins, Video!at, Video!Drawn
  <2>7. Blocks(rt)'
    BY <1>3, <2>4, <2>6, BlocksStay
  <2>8. ShownSoFar(rt)'
    BY <1>1 DEF ShownSoFar
  <2>9. VisitInv'
    BY <1>3, <2>2, <2>3, <2>5, <2>6, <2>7, <2>8 DEF VisitInv
  <2>10. JoinInv' /\ BlocksColoured' /\ Silhouette'
    BY <1>1, <1>2, <1>3 DEF JoinInv, BlocksColoured, Video!BlocksColoured, Silhouette, Video!Silhouette
  <2> QED
    BY <2>1, <2>9, <2>10 DEF DrawInv
<1>4. CASE pc = "visit" /\ visited = Video!VIDEO_SIZE /\ pc' = "frame" /\ frame' = frame + 1
  <2>1. /\ Coloured(frame)
        /\ \A c \in Video!Cells : Video!at(frame, c) \in {Video!Blank} \cup Video!dense_chars
    BY <1>2, <1>4, ColouredAtEnd
  <2>2. frame \in Nat /\ frame < count /\ count \in Nat
    BY <1>2, <1>4 DEF PoolInv, Drawing
  <2>3. frame' - 1 = frame
    BY <1>4, <2>2
  <2>4. \A c : /\ Video!at(frame - 1, c)' = Video!at(frame, c)
               /\ Video!at(frame - 1 - 1, c)' = Video!at(frame - 1, c)
    BY <1>1, <2>3 DEF Video!at
  <2>5. Video!Drawn(frame - 1)' = Video!Drawn(frame)
    BY <2>4 DEF Video!Drawn
  <2>6. \A S : Video!Connected(frame - 1, S)' <=> Video!Connected(frame, S)
    BY <2>5 DEF Video!Connected
  <2>7. \A c : Video!Block(frame - 1, c)' = Video!Block(frame, c)
    BY <2>5, <2>6 DEF Video!Block
  <2>8. Coloured(frame - 1)'
    BY <2>1, <2>3, <2>4, <2>5, <2>7 DEF Coloured
  <2>9. BlocksColoured'
    BY <2>8, Zenon DEF Coloured, BlocksColoured, Video!BlocksColoured
  <2>10. PoolInv'
    BY <1>1, <1>2, <1>4, <2>1, <2>2, <2>4 DEF PoolInv, Drawing
  <2>11. JoinInv' /\ VisitInv' /\ Silhouette'
    BY <1>1, <1>2, <1>4 DEF JoinInv, VisitInv, Silhouette, Video!Silhouette
  <2> QED
    BY <2>9, <2>10, <2>11 DEF DrawInv
<1>5. CASE pc \in {"frame", "outline"} /\ pc' \in {"outline", "ready"} /\ frame' = 0
  <2>1. PoolInv'
    BY <1>1, <1>2, <1>5 DEF PoolInv, Drawing
  <2>2. JoinInv' /\ VisitInv' /\ BlocksColoured' /\ Silhouette'
    BY <1>1, <1>2, <1>5 DEF JoinInv, VisitInv, BlocksColoured, Video!BlocksColoured,
                            Silhouette, Video!Silhouette
  <2> QED
    BY <2>1, <2>2 DEF DrawInv
<1> QED
  BY <1>3, <1>4, <1>5 DEF Video!Turn

\* An outline is drawn in characters other than the blank, inside of the silhouette.
LEMMA OutlinedFacts ==
  ASSUME NEW f, NEW c, Video!at(f, c) \in Chars
  PROVE  /\ Video!Outlined(f, c) \in Chars
         /\ Video!Outlined(f, c) = Video!Blank <=> Video!at(f, c) = Video!Blank
<1> DEFINE empty == {d \in 1 .. 4 : /\ Video!Beside(c, d) \in Video!Cells
                                    /\ Video!at(f, Video!Beside(c, d)) = Video!Blank}
           dir == CHOOSE d \in empty : \A e \in empty : e <= d
           across == IF dir <= 2 THEN {3, 4} ELSE {1, 2}
<1>1. Video!Outlined(f, c) =
        IF Video!at(f, c) = Video!Blank \/ empty = {} THEN Video!at(f, c)
        ELSE IF Video!Cardinality(empty) > 2 \/ across \cap empty # {} THEN Video!dot_chars[dir]
        ELSE Video!line_chars[dir]
  BY Zenon DEF Video!Outlined
<1>2. ASSUME empty # {} PROVE dir \in 1 .. 4
  <2>1. \E d \in empty : \A e \in empty : e <= d
    <3>1. empty \subseteq 1 .. 4
      OBVIOUS
    <3> HIDE DEF empty
    <3>2. CASE 4 \in empty
      BY <3>1, <3>2
    <3>3. CASE 4 \notin empty /\ 3 \in empty
      BY <3>1, <3>3
    <3>4. CASE 4 \notin empty /\ 3 \notin empty /\ 2 \in empty
      BY <3>1, <3>4
    <3>5. CASE 4 \notin empty /\ 3 \notin empty /\ 2 \notin empty
      <4>1. \A e \in empty : e = 1
        BY <3>1, <3>5
      <4> QED
        BY <1>2, <4>1
    <3> QED
      BY <3>2, <3>3, <3>4, <3>5
  <2>2. empty \subseteq 1 .. 4
    OBVIOUS
  <2> HIDE DEF empty
  <2> QED
    BY <2>1, <2>2
<1> HIDE DEF empty, dir, across
<1>3. \A d \in 1 .. 4 : /\ Video!line_chars[d] # Video!Blank /\ Video!line_chars[d] \in Chars
                        /\ Video!dot_chars[d] # Video!Blank /\ Video!dot_chars[d] \in Chars
  <2>1. \A d \in 1 .. 4 : Video!line_chars[d] # Video!Blank
    <3>1. /\ Video!line_chars[1] # Video!Blank /\ Video!line_chars[2] # Video!Blank
          /\ Video!line_chars[3] # Video!Blank /\ Video!line_chars[4] # Video!Blank
      BY DEF Video!line_chars, Video!Blank
    <3>2. \A d \in 1 .. 4 : d = 1 \/ d = 2 \/ d = 3 \/ d = 4
      OBVIOUS
    <3> QED
      BY <3>1, <3>2
  <2>2. \A d \in 1 .. 4 : Video!dot_chars[d] # Video!Blank
    <3>1. /\ Video!dot_chars[1] # Video!Blank /\ Video!dot_chars[2] # Video!Blank
          /\ Video!dot_chars[3] # Video!Blank /\ Video!dot_chars[4] # Video!Blank
      BY DEF Video!dot_chars, Video!Blank
    <3>2. \A d \in 1 .. 4 : d = 1 \/ d = 2 \/ d = 3 \/ d = 4
      OBVIOUS
    <3> QED
      BY <3>1, <3>2
  <2> QED
    BY <2>1, <2>2 DEF Chars
<1> QED
  BY <1>1, <1>2, <1>3

\* The outline of a frame: blank cells stay blank and others do not become so.
LEMMA OutlineStep ==
  ASSUME DrawInv, Video!Outline
  PROVE  DrawInv'
<1> DEFINE w == Video!VIDEO_SIZE
           cell(k) == << ((k - 1) % w) % Col, ((k - 1) % w) \div Col >>
<1>1. /\ pc = "outline" /\ frame < count /\ frame' = frame + 1
      /\ UNCHANGED <<pc, film, count, visited>>
      /\ pool' = [k \in DOMAIN pool |->
                    IF (k - 1) \div w # frame THEN pool[k] ELSE Video!Outlined(frame, cell(k))]
  BY DEF Video!Outline, Video!encoder, Video!decoder
<1>2. /\ PoolInv /\ Silhouette /\ count \in Nat /\ frame \in Nat
      /\ pool \in Seq(Chars) /\ Len(pool) = count * w
  BY <1>1 DEF DrawInv, PoolInv, Drawing
<1>3. PICK f : f = frame
  OBVIOUS
<1>4. ASSUME NEW k \in 1 .. Len(pool)
      PROVE  pool'[k] \in Chars /\ (pool'[k] = Video!Blank <=> pool[k] = Video!Blank)
  <2>1. pool[k] \in Chars /\ k \in DOMAIN pool
    BY <1>2
  <2>2. CASE (k - 1) \div w # frame
    BY <1>1, <2>1, <2>2
  <2>3. CASE (k - 1) \div w = frame
    <3>1. pool'[k] = Video!Outlined(f, cell(k))
      BY <1>1, <1>3, <2>1, <2>3
    <3>2. Place(f, cell(k)) = k
      BY <1>2, <1>3, <2>3, Places
    <3>3. Video!at(f, cell(k)) = pool[k]
      BY <3>2, AtPlace
    <3> HIDE DEF cell
    <3> QED
      BY <2>1, <3>1, <3>3, OutlinedFacts
  <2> QED
    BY <2>2, <2>3
<1>5. pool' \in Seq(Chars) /\ Len(pool') = Len(pool) /\ DOMAIN pool' = 1 .. Len(pool)
      /\ DOMAIN pool = 1 .. Len(pool)
  <2>1. DOMAIN pool = 1 .. Len(pool) /\ Len(pool) \in Nat
    BY <1>2
  <2>2. DOMAIN pool' = 1 .. Len(pool) /\ pool' = [k \in 1 .. Len(pool) |-> pool'[k]]
    BY <1>1, <2>1, Zenon
  <2>3. pool' \in [1 .. Len(pool) -> Chars]
    BY <1>4, <2>2
  <2> QED
    BY <2>1, <2>3
<1>6. PoolInv'
  BY <1>1, <1>2, <1>5 DEF PoolInv, Drawing
<1>7. Silhouette'
  BY <1>1, <1>2, <1>4, <1>5 DEF Silhouette, Video!Silhouette
<1>8. JoinInv' /\ VisitInv' /\ BlocksColoured'
  BY <1>1 DEF JoinInv, VisitInv, BlocksColoured, Video!BlocksColoured
<1> QED
  BY <1>6, <1>7, <1>8 DEF DrawInv

----------------------------------------------------------------------------
(* Bits and bytes                                                          *)

\* The provers know of powers that they count subsets.
LEMMA PowerOfTwo ==
  ASSUME NEW n \in Nat
  PROVE  2 ^ n \in Nat \ {0} /\ 2 ^ (n + 1) = 2 * 2 ^ n
<1> DEFINE S == 1 .. n
           T == SUBSET S
           U == {x \cup {n + 1} : x \in T}
           f == [x \in T |-> x \cup {n + 1}]
<1>1. /\ IsFiniteSet(S) /\ Cardinality(S) = n
      /\ IsFiniteSet(1 .. n + 1) /\ Cardinality(1 .. n + 1) = n + 1
  BY FS_Interval
<1>2. IsFiniteSet(T) /\ Cardinality(T) = 2 ^ n /\ Cardinality(T) \in Nat
  BY <1>1, FS_SUBSET, FS_CardinalityType
<1>3. Cardinality(SUBSET (1 .. n + 1)) = 2 ^ (n + 1)
  BY <1>1, FS_SUBSET
<1>4. n + 1 \notin S /\ 1 .. n + 1 = S \cup {n + 1}
  OBVIOUS
<1>5. SUBSET (1 .. n + 1) = T \cup U
  <2> HIDE DEF S
  <2>1. ASSUME NEW x \in SUBSET (S \cup {n + 1}) PROVE x \in T \cup U
    <3>1. CASE n + 1 \in x
      <4>1. x \ {n + 1} \in T /\ x = (x \ {n + 1}) \cup {n + 1}
        BY <3>1
      <4> QED
        BY <4>1
    <3>2. CASE n + 1 \notin x
      BY <3>2
    <3> QED
      BY <3>1, <3>2
  <2>2. \A x \in T \cup U : x \in SUBSET (S \cup {n + 1})
    OBVIOUS
  <2> QED
    BY <1>4, <2>1, <2>2
<1>6. T \cap U = {}
  BY <1>4
<1>7. IsFiniteSet(U) /\ Cardinality(U) = Cardinality(T)
  <2> HIDE DEF S
  <2>1. f \in [T -> U]
    OBVIOUS
  <2>2. \A x, y \in T : f[x] = f[y] => x = y
    <3> SUFFICES ASSUME NEW x \in T, NEW y \in T, x \cup {n + 1} = y \cup {n + 1} PROVE x = y
      OBVIOUS
    <3>1. n + 1 \notin x /\ n + 1 \notin y
      BY <1>4
    <3> QED
      BY <3>1
  <2>3. \A u \in U : \E x \in T : f[x] = u
    OBVIOUS
  <2> HIDE DEF T, U, f
  <2>4. ExistsBijection(T, U)
    BY <2>1, <2>2, <2>3 DEF ExistsBijection, Bijection, Injection, Surjection, IsInjective
  <2> QED
    BY <1>2, <2>4, FS_Bijection
<1> HIDE DEF T, U
<1>8. Cardinality(T \cup U) = Cardinality(T) + Cardinality(U) - Cardinality({})
  BY <1>2, <1>6, <1>7, FS_Union
<1>9. Cardinality({}) = 0
  BY FS_EmptySet
<1>10. Cardinality(T) # 0
  <2>1. {} \in T
    BY DEF T
  <2> QED
    BY <1>2, <2>1, FS_EmptySet
<1>11. 2 ^ n \in Nat /\ 2 ^ n # 0
  BY <1>2, <1>10
<1>12. PICK a, b : a = 2 ^ n /\ b = 2 ^ (n + 1)
  OBVIOUS
<1>13. Cardinality(T \cup U) = b
  BY <1>3, <1>5, <1>12, Zenon
<1>14. b = a + a - 0 /\ a \in Nat \ {0}
  BY <1>2, <1>7, <1>8, <1>9, <1>11, <1>12, <1>13
<1>15. b = 2 * a
  BY <1>14
<1> QED
  BY <1>12, <1>14, <1>15, Zenon

\* Of two powers the greater is a multiple of the lesser.
LEMMA PowerMultiple ==
  ASSUME NEW p \in Nat, NEW n \in Nat, p <= n
  PROVE  \E m \in Nat : 2 ^ n = 2 ^ p * m
<1> DEFINE Wrong == {k \in Nat : p <= k /\ ~ \E m \in Nat : 2 ^ k = 2 ^ p * m}
<1> SUFFICES ASSUME n \in Wrong PROVE FALSE
  OBVIOUS
<1>1. PICK k \in Wrong : \A j \in Wrong : k <= j
  BY LeastNatural
<1>2. 2 ^ p \in Nat
  BY PowerOfTwo
<1>3. k # p
  <2>1. 2 ^ p = 2 ^ p * 1
    BY <1>2
  <2> QED
    BY <1>1, <2>1
<1>4. k - 1 \in Nat /\ p <= k - 1 /\ k \in Nat
  BY <1>1, <1>3
<1>5. k - 1 \notin Wrong
  <2> HIDE DEF Wrong
  <2> QED
    BY <1>1, <1>4
<1>6. PICK m \in Nat : 2 ^ (k - 1) = 2 ^ p * m
  BY <1>4, <1>5
<1>7. 2 ^ ((k - 1) + 1) = 2 * 2 ^ (k - 1)
  BY <1>4, PowerOfTwo
<1>8. (k - 1) + 1 = k
  BY <1>4
<1>9. 2 ^ k = 2 * (2 ^ p * m)
  BY <1>6, <1>7, <1>8
<1>10. 2 * (2 ^ p * m) = 2 ^ p * (2 * m) /\ 2 * m \in Nat
  BY <1>2
<1> QED
  BY <1>1, <1>9, <1>10

\* A sum with weights, as encode() and the decoder's read() compute it.
LEMMA SumExists ==
  ASSUME NEW N \in Nat, NEW a \in Nat, NEW w \in [1 .. N -> Nat]
  PROVE  \E n \in [0 .. N -> Nat] :
           n = [j \in 0 .. N |-> IF j = 0 THEN 0 ELSE n[j - 1] * a + w[j]]
<1> DEFINE Good(k) == \E n \in [0 .. k -> Nat] :
                        \A j \in 0 .. k : n[j] = IF j = 0 THEN 0 ELSE n[j - 1] * a + w[j]
           Wrong == {k \in 0 .. N : ~Good(k)}
<1>1. Good(0)
  <2> DEFINE n == [j \in 0 .. 0 |-> 0]
  <2>1. n \in [0 .. 0 -> Nat] /\ \A j \in 0 .. 0 : j = 0 /\ n[j] = 0
    OBVIOUS
  <2> HIDE DEF n
  <2> QED
    BY <2>1
<1>2. ASSUME NEW k \in 1 .. N, Good(k - 1) PROVE Good(k)
  <2>1. PICK n \in [0 .. k - 1 -> Nat] :
           \A j \in 0 .. k - 1 : n[j] = IF j = 0 THEN 0 ELSE n[j - 1] * a + w[j]
    BY <1>2
  <2> DEFINE h == [j \in 0 .. k |-> IF j = k THEN n[k - 1] * a + w[k] ELSE n[j]]
  <2>2. n[k - 1] \in Nat /\ w[k] \in Nat /\ n[k - 1] * a \in Nat
    BY <2>1
  <2>3. h \in [0 .. k -> Nat]
    BY <2>1, <2>2
  <2>4. ASSUME NEW j \in 0 .. k PROVE h[j] = IF j = 0 THEN 0 ELSE h[j - 1] * a + w[j]
    <3>1. CASE j = k
      <4>1. k - 1 \in 0 .. k /\ k - 1 # k
        OBVIOUS
      <4> QED
        BY <3>1, <4>1
    <3>2. CASE j # k
      <4>1. j \in 0 .. k - 1 /\ (j # 0 => j - 1 \in 0 .. k /\ j - 1 # k)
        BY <3>2
      <4> QED
        BY <2>1, <3>2, <4>1
    <3> QED
      BY <3>1, <3>2
  <2> HIDE DEF h
  <2> QED
    BY <2>3, <2>4
<1>3. Good(N)
  <2> HIDE DEF Good
  <2>1. SUFFICES ASSUME N \in Wrong PROVE FALSE
    OBVIOUS
  <2>2. PICK k \in Wrong : \A j \in Wrong : k <= j
    <3>1. Wrong \subseteq Nat
      OBVIOUS
    <3> QED
      BY <2>1, <3>1, LeastNatural
  <2>3. k \in 1 .. N /\ k - 1 \in 0 .. N /\ ~ (k <= k - 1)
    BY <1>1, <2>2
  <2>4. Good(k - 1)
    BY <2>2, <2>3
  <2> QED
    BY <1>2, <2>2, <2>3, <2>4
<1>4. PICK n \in [0 .. N -> Nat] :
         \A j \in 0 .. N : n[j] = IF j = 0 THEN 0 ELSE n[j - 1] * a + w[j]
  BY <1>3
<1>5. n = [j \in 0 .. N |-> IF j = 0 THEN 0 ELSE n[j - 1] * a + w[j]]
  BY <1>4
<1> QED
  BY <1>5

\* A bit, or the filling after the last.
BitOf(bits, k) == IF k <= Len(bits) THEN bits[k] ELSE 1

\* The defining equation of encode()'s sums.
IsByte(n, bits, i1) ==
  n = [j \in 0 .. ByteBits |->
         IF j = 0 THEN 0
         ELSE n[j - 1] + BitOf(bits, (i1 - 1) * ByteBits + j) * 2 ^ (j - 1)]

\* A byte: the last of its sums.
ByteOf(bits, i1) == (CHOOSE n : IsByte(n, bits, i1))[ByteBits]

\* encode() makes these bytes.
LEMMA EncodeIs ==
  ASSUME NEW bits
  PROVE  Video!encode(bits) =
           [k \in 1 .. Video!CeilDiv(Len(bits), ByteBits) |-> ByteOf(bits, k)]
BY DEF Video!encode, ByteOf, IsByte, BitOf

\* The bits of a byte are 0 or 1.
LEMMA BitRange ==
  ASSUME NEW bits \in Seq({0, 1}), NEW i1 \in Nat \ {0}, NEW j \in 1 .. ByteBits
  PROVE  /\ (i1 - 1) * ByteBits + j \in Nat \ {0}
         /\ BitOf(bits, (i1 - 1) * ByteBits + j) \in {0, 1}
<1>1. (i1 - 1) * ByteBits \in Nat /\ j \in Nat \ {0}
  BY Sizes
<1> DEFINE k == (i1 - 1) * ByteBits + j
<1>2. k \in Nat \ {0}
  BY <1>1
<1> HIDE DEF k
<1>3. k <= Len(bits) => bits[k] \in {0, 1}
  BY <1>2
<1> QED
  BY <1>2, <1>3 DEF BitOf, k

\* Each sum is below the next power of two.
LEMMA ByteSums ==
  ASSUME NEW bits \in Seq({0, 1}), NEW i1 \in Nat \ {0}
  PROVE  \E n : /\ IsByte(n, bits, i1) /\ n = (CHOOSE m : IsByte(m, bits, i1))
                /\ \A j \in 0 .. ByteBits : n[j] \in Nat /\ n[j] < 2 ^ j
                /\ \A j \in 1 .. ByteBits :
                     n[j] = n[j - 1] + BitOf(bits, (i1 - 1) * ByteBits + j) * 2 ^ (j - 1)
<1> DEFINE b(j) == BitOf(bits, (i1 - 1) * ByteBits + j)
           w == [j \in 1 .. ByteBits |-> b(j) * 2 ^ (j - 1)]
<1>1. ByteBits \in Nat \ {0}
  BY Sizes
<1>2. \A j \in 1 .. ByteBits : b(j) \in {0, 1} /\ 2 ^ (j - 1) \in Nat /\ 2 ^ j = 2 * 2 ^ (j - 1)
  <2> TAKE j \in 1 .. ByteBits
  <2>1. j - 1 \in Nat /\ (j - 1) + 1 = j
    BY <1>1
  <2>2. 2 ^ (j - 1) \in Nat /\ 2 ^ ((j - 1) + 1) = 2 * 2 ^ (j - 1)
    BY <2>1, PowerOfTwo
  <2> QED
    BY <2>1, <2>2, BitRange
<1> HIDE DEF b
<1>3. w \in [1 .. ByteBits -> Nat] /\ \A j \in 1 .. ByteBits : w[j] = b(j) * 2 ^ (j - 1)
  BY <1>2
<1> HIDE DEF w
<1>4. PICK a \in Nat, m \in [0 .. ByteBits -> Nat] :
         /\ a = 1
         /\ m = [j \in 0 .. ByteBits |-> IF j = 0 THEN 0 ELSE m[j - 1] * a + w[j]]
  <2>1. PICK a \in Nat : a = 1
    OBVIOUS
  <2>2. \E m \in [0 .. ByteBits -> Nat] :
          m = [j \in 0 .. ByteBits |-> IF j = 0 THEN 0 ELSE m[j - 1] * a + w[j]]
    <3>1. ByteBits \in Nat
      BY <1>1
    <3> QED
      BY <1>3, <3>1, SumExists
  <2> QED
    BY <2>1, <2>2
<1>5. IsByte(m, bits, i1)
  <2>1. ASSUME NEW j \in 0 .. ByteBits
        PROVE  m[j] = IF j = 0 THEN 0 ELSE m[j - 1] + b(j) * 2 ^ (j - 1)
    <3>1. m[j] = IF j = 0 THEN 0 ELSE m[j - 1] * a + w[j]
      BY <1>4
    <3>2. CASE j = 0
      BY <3>1, <3>2
    <3>3. CASE j # 0
      <4>1. j - 1 \in 0 .. ByteBits /\ j \in 1 .. ByteBits
        BY <1>1, <3>3
      <4>2. m[j - 1] * a = m[j - 1]
        BY <1>4, <4>1
      <4> QED
        BY <1>3, <3>1, <3>3, <4>1, <4>2
    <3> QED
      BY <3>2, <3>3
  <2>2. m = [j \in 0 .. ByteBits |-> m[j]]
    BY <1>4
  <2> QED
    BY <2>1, <2>2 DEF IsByte, b
<1> DEFINE n == CHOOSE m2 : IsByte(m2, bits, i1)
<1>6. IsByte(n, bits, i1)
  BY <1>5
<1> HIDE DEF n
<1>7. \A j \in 0 .. ByteBits : n[j] = IF j = 0 THEN 0 ELSE n[j - 1] + b(j) * 2 ^ (j - 1)
  BY <1>6 DEF IsByte, b
<1> DEFINE Wrong == {j \in 0 .. ByteBits : ~ (n[j] \in Nat /\ n[j] < 2 ^ j)}
<1>8. ASSUME NEW j \in Wrong, \A l \in Wrong : j <= l PROVE FALSE
  <2>1. j \in 0 .. ByteBits
    OBVIOUS
  <2>2. CASE j = 0
    BY <1>7, <2>1, <2>2, PowerOfTwo
  <2>3. CASE j # 0
    <3>1. j - 1 \in 0 .. ByteBits /\ j \in 1 .. ByteBits /\ ~ (j <= j - 1)
      BY <1>1, <2>1, <2>3
    <3>2. j - 1 \notin Wrong
      <4> HIDE DEF Wrong
      <4> QED
        BY <1>8, <3>1
    <3>3. n[j - 1] \in Nat /\ n[j - 1] < 2 ^ (j - 1)
      BY <3>1, <3>2
    <3>4. n[j] = n[j - 1] + b(j) * 2 ^ (j - 1)
      BY <1>7, <2>1, <2>3
    <3>5. PICK p \in Nat, c \in {0, 1} : p = 2 ^ (j - 1) /\ c = b(j)
      BY <1>2, <3>1
    <3>6. 2 ^ j = 2 * p
      BY <1>2, <3>1, <3>5
    <3>7. n[j] = n[j - 1] + c * p /\ n[j - 1] < p
      BY <3>3, <3>4, <3>5
    <3>8. c * p = 0 \/ c * p = p
      BY <3>5
    <3>9. n[j] \in Nat /\ n[j] < 2 * p
      BY <3>3, <3>7, <3>8
    <3> QED
      BY <3>6, <3>9
  <2> QED
    BY <2>2, <2>3
<1>9. Wrong = {}
  <2>1. Wrong \subseteq Nat
    BY <1>1
  <2> HIDE DEF Wrong
  <2> QED
    BY <1>8, <2>1, LeastNatural
<1>10. \A j \in 1 .. ByteBits : n[j] = n[j - 1] + b(j) * 2 ^ (j - 1)
  BY <1>1, <1>7
<1> QED
  BY <1>6, <1>9, <1>10 DEF b, n

\* A shift and a mask give back the bit that was summed.
LEMMA ByteBit ==
  ASSUME NEW bits \in Seq({0, 1}), NEW i1 \in Nat \ {0}, NEW q \in 0 .. ByteBits - 1
  PROVE  /\ ByteOf(bits, i1) \in Nat
         /\ (ByteOf(bits, i1) \div 2 ^ q) % 2 = BitOf(bits, (i1 - 1) * ByteBits + (q + 1))
<1> DEFINE b(j) == BitOf(bits, (i1 - 1) * ByteBits + j)
<1>1. ByteBits \in Nat \ {0} /\ q \in Nat /\ q + 1 \in 1 .. ByteBits
  BY Sizes
<1>2. PICK n : /\ n = (CHOOSE m : IsByte(m, bits, i1))
               /\ \A j \in 0 .. ByteBits : n[j] \in Nat /\ n[j] < 2 ^ j
               /\ \A j \in 1 .. ByteBits : n[j] = n[j - 1] + b(j) * 2 ^ (j - 1)
  BY ByteSums
<1>3. \A j \in 1 .. ByteBits : b(j) \in {0, 1}
  BY BitRange
<1> HIDE DEF b
<1>4. PICK P \in Nat \ {0} : P = 2 ^ q /\ 2 ^ (q + 1) = 2 * P
  BY <1>1, PowerOfTwo
<1>5. PICK c \in {0, 1} : c = b(q + 1)
  BY <1>1, <1>3
<1>6. n[q] \in 0 .. P - 1
  BY <1>1, <1>2, <1>4
<1> DEFINE Good(j) == \E h \in Nat : n[j] = n[q] + P * c + (2 * P) * h
           Wrong == {j \in q + 1 .. ByteBits : ~Good(j)}
<1>7. Good(q + 1)
  <2>1. n[q + 1] = n[(q + 1) - 1] + b(q + 1) * 2 ^ ((q + 1) - 1)
    BY <1>1, <1>2
  <2>2. (q + 1) - 1 = q
    BY <1>1
  <2>3. n[q + 1] = n[q] + c * P
    BY <1>4, <1>5, <2>1, <2>2
  <2>4. n[q + 1] = n[q] + P * c + (2 * P) * 0
    BY <1>6, <2>3
  <2> QED
    BY <2>4
<1>8. ASSUME NEW j \in q + 2 .. ByteBits, Good(j - 1) PROVE Good(j)
  <2>1. PICK h \in Nat : n[j - 1] = n[q] + P * c + (2 * P) * h
    BY <1>8
  <2>2. j \in 1 .. ByteBits /\ j - 1 \in Nat /\ q + 1 \in Nat /\ q + 1 <= j - 1
    BY <1>1
  <2>3. PICK m \in Nat : 2 ^ (j - 1) = 2 ^ (q + 1) * m
    BY <2>2, PowerMultiple
  <2>4. PICK d \in {0, 1} : d = b(j)
    BY <1>3, <2>2
  <2>5. n[j] = n[j - 1] + d * (2 * P * m)
    BY <1>2, <1>4, <2>2, <2>3, <2>4
  <2>6. d * m \in Nat /\ h + d * m \in Nat /\ d * (2 * P * m) = (2 * P) * (d * m)
    BY <1>4
  <2>7. (2 * P) * (h + d * m) = (2 * P) * h + (2 * P) * (d * m)
    BY <1>4, <2>6
  <2>8. P * c \in Nat /\ n[q] \in Nat /\ (2 * P) * h \in Nat /\ (2 * P) * (d * m) \in Nat
    BY <1>4, <1>6, <2>6
  <2>9. n[j] = n[q] + P * c + (2 * P) * (h + d * m)
    BY <2>1, <2>5, <2>6, <2>7, <2>8
  <2> QED
    BY <2>6, <2>9
<1>9. Good(ByteBits)
  <2> HIDE DEF Good
  <2>1. SUFFICES ASSUME ByteBits \in Wrong PROVE FALSE
    BY <1>1
  <2>2. PICK j \in Wrong : \A l \in Wrong : j <= l
    <3>1. Wrong \subseteq Nat
      BY <1>1
    <3> QED
      BY <2>1, <3>1, LeastNatural
  <2>3. j \in q + 1 .. ByteBits /\ ~Good(j)
    BY <2>2
  <2>4. j # q + 1
    BY <1>7, <2>3
  <2>5. j \in q + 2 .. ByteBits /\ j - 1 \in q + 1 .. ByteBits /\ ~ (j <= j - 1)
    BY <1>1, <2>3, <2>4
  <2>6. Good(j - 1)
    BY <2>2, <2>5
  <2> QED
    BY <1>8, <2>3, <2>5, <2>6
<1>10. PICK h \in Nat : n[ByteBits] = n[q] + P * c + (2 * P) * h
  BY <1>9
<1>11. P * (2 * h + c) = P * c + (2 * P) * h /\ 2 * h + c \in Nat /\ P * (2 * h + c) \in Nat
  BY <1>4
<1>12. n[ByteBits] = P * (2 * h + c) + n[q]
  BY <1>6, <1>10, <1>11
<1>13. n[ByteBits] \div P = 2 * h + c
  <2>1. PICK k \in Int, r \in 0 .. P - 1 : k = 2 * h + c /\ r = n[q]
    BY <1>6, <1>11
  <2>2. (P * k + r) \div P = k
    BY Divided
  <2> QED
    BY <1>12, <2>1, <2>2
<1>14. (2 * h + c) % 2 = c
  OBVIOUS
<1>15. ByteOf(bits, i1) = n[ByteBits] /\ n[ByteBits] \in Nat
  BY <1>1, <1>2 DEF ByteOf
<1> QED
  BY <1>4, <1>5, <1>13, <1>14, <1>15 DEF b

\* Quotient and remainder, of a number.
LEMMA Quotient ==
  ASSUME NEW a \in Nat, NEW w \in Nat \ {0}
  PROVE  \E q \in Nat, r \in 0 .. w - 1 : q = a \div w /\ r = a % w /\ a = w * q + r
<1> DEFINE q == a \div w
           r == a % w
<1>1. q \in Int /\ r \in 0 .. w - 1 /\ a = w * q + r
  BY Division
<1> HIDE DEF q, r
<1>2. q >= 0
  <2>1. CASE q <= -1
    BY <1>1, <2>1, AtLeast
  <2> QED
    BY <1>1, <2>1
<1>3. q \in Nat
  BY <1>1, <1>2
<1> QED
  BY <1>1, <1>3 DEF q, r

\* A code is packed into as many bytes as it takes, a character being a number.
LEMMA EncodeFacts ==
  ASSUME NEW bits \in Seq({0, 1})
  PROVE  /\ Video!CeilDiv(Len(bits), ByteBits) \in Nat
         /\ Video!encode(bits) \in Seq(Nat)
         /\ Len(Video!encode(bits)) = Video!CeilDiv(Len(bits), ByteBits)
         /\ \A k \in 1 .. Len(Video!encode(bits)) : Video!encode(bits)[k] = ByteOf(bits, k)
<1> DEFINE l == Len(bits)
           N == Video!CeilDiv(l, ByteBits)
<1>1. l \in Nat /\ ByteBits \in Nat \ {0}
  BY Sizes
<1> HIDE DEF l
<1>2. N \in Nat
  <2>1. l + ByteBits - 1 \in Nat
    BY <1>1
  <2> QED
    BY <1>1, <2>1, Quotient DEF Video!CeilDiv
<1> HIDE DEF N
<1>3. \A k \in 1 .. N : ByteOf(bits, k) \in Nat
  <2> TAKE k \in 1 .. N
  <2>1. k \in Nat \ {0} /\ 0 \in 0 .. ByteBits - 1
    BY <1>1, <1>2
  <2> QED
    BY <2>1, ByteBit
<1>4. Video!encode(bits) = [k \in 1 .. N |-> ByteOf(bits, k)]
  BY EncodeIs DEF N, l
<1> QED
  BY <1>2, <1>3, <1>4 DEF N, l

\* The byte in which bit k is, and its place there.
LEMMA EncodedBit ==
  ASSUME NEW bits \in Seq({0, 1}), NEW k \in 0 .. Len(bits) - 1
  PROVE  /\ k \div ByteBits \in Nat /\ k % ByteBits \in 0 .. ByteBits - 1
         /\ k \div ByteBits + 1 \in 1 .. Len(Video!encode(bits))
         /\ (Video!encode(bits)[k \div ByteBits + 1] \div 2 ^ (k % ByteBits)) % 2 = bits[k + 1]
<1>1. ByteBits \in Nat \ {0} /\ k \in Nat /\ Len(bits) \in Nat
  BY Sizes
<1>2. PICK q \in Nat, r \in 0 .. ByteBits - 1 :
         q = k \div ByteBits /\ r = k % ByteBits /\ k = ByteBits * q + r
  BY <1>1, Quotient
<1>3. q \in Nat
  OBVIOUS
<1> DEFINE a == Len(bits) + ByteBits - 1
           N == Video!CeilDiv(Len(bits), ByteBits)
<1>4. a \in Nat
  BY <1>1
<1>5. PICK t \in 0 .. ByteBits - 1 : a = ByteBits * N + t
  <2>1. N = a \div ByteBits
    BY DEF Video!CeilDiv
  <2> HIDE DEF a, N
  <2> QED
    <3>1. PICK b \in Nat : b = a
      BY <1>4
    <3>2. PICK u \in Nat, t \in 0 .. ByteBits - 1 :
             u = b \div ByteBits /\ t = b % ByteBits /\ b = ByteBits * u + t
      BY <1>1, Quotient
    <3> QED
      BY <2>1, <3>1, <3>2
<1>6. N \in Nat
  BY EncodeFacts
<1> HIDE DEF N
<1>7. q + 1 <= N
  <2>1. CASE N <= q
    <3>1. ByteBits * N <= ByteBits * q /\ ByteBits * q \in Nat /\ ByteBits * N \in Nat
      BY <1>1, <1>3, <1>6, <2>1, Monotonic
    <3>2. k + 1 <= Len(bits)
      BY <1>1
    <3> QED
      BY <1>1, <1>2, <1>5, <3>1, <3>2
  <2> QED
    BY <1>3, <1>6, <2>1
<1>8. q + 1 \in 1 .. Len(Video!encode(bits)) /\ q + 1 \in Nat \ {0}
  BY <1>3, <1>6, <1>7, EncodeFacts DEF N
<1>9. Video!encode(bits)[q + 1] = ByteOf(bits, q + 1)
  BY <1>8, EncodeFacts
<1>10. (ByteOf(bits, q + 1) \div 2 ^ r) % 2 = BitOf(bits, ((q + 1) - 1) * ByteBits + (r + 1))
  BY <1>2, <1>8, ByteBit
<1>11. ((q + 1) - 1) * ByteBits + (r + 1) = k + 1
  <2>1. (q + 1) - 1 = q /\ q * ByteBits = ByteBits * q /\ ByteBits * q \in Nat
    BY <1>1, <1>3
  <2> QED
    BY <1>2, <2>1
<1>12. BitOf(bits, k + 1) = bits[k + 1]
  BY <1>1 DEF BitOf
<1> QED
  BY <1>2, <1>3, <1>8, <1>9, <1>10, <1>11, <1>12

\* The stream reads, of bytes that begin at p, the bits that they encode.
LEMMA BitAt ==
  ASSUME NEW f, NEW p \in Nat, NEW bits \in Seq({0, 1}), NEW k \in 0 .. Len(bits) - 1,
         \A j \in 1 .. Len(Video!encode(bits)) : f[p + j] = Video!encode(bits)[j]
  PROVE  /\ Video!Bit(f, p * ByteBits + k) = bits[k + 1]
         /\ (p * ByteBits + k) \div ByteBits < p + Len(Video!encode(bits))
<1>1. ByteBits \in Nat \ {0} /\ k \in Nat
  BY Sizes
<1>2. PICK q \in Nat, r \in 0 .. ByteBits - 1 :
         q = k \div ByteBits /\ r = k % ByteBits /\ k = ByteBits * q + r
  BY <1>1, Quotient
<1>3. p * ByteBits + k = ByteBits * (p + q) + r
  <2>1. ByteBits * (p + q) = ByteBits * p + ByteBits * q /\ ByteBits * p \in Int
        /\ ByteBits * q \in Int
    BY <1>1, Distribute
  <2>2. p * ByteBits = ByteBits * p
    BY <1>1
  <2> QED
    BY <1>2, <2>1, <2>2
<1>4. /\ (ByteBits * (p + q) + r) \div ByteBits = p + q
      /\ (ByteBits * (p + q) + r) % ByteBits = r
  <2>1. p + q \in Int
    OBVIOUS
  <2> QED
    BY <1>1, <2>1, Divided
<1>5. q + 1 \in 1 .. Len(Video!encode(bits)) /\ Len(Video!encode(bits)) \in Nat
  BY <1>2, EncodedBit, EncodeFacts
<1>6. f[p + q + 1] = Video!encode(bits)[q + 1]
  <2>1. f[p + (q + 1)] = Video!encode(bits)[q + 1]
    BY <1>5
  <2> QED
    BY <2>1
<1>7. (Video!encode(bits)[q + 1] \div 2 ^ r) % 2 = bits[k + 1]
  BY <1>2, EncodedBit
<1>8. Video!Bit(f, p * ByteBits + k) = (f[p + q + 1] \div 2 ^ r) % 2
  BY <1>3, <1>4 DEF Video!Bit
<1> QED
  BY <1>3, <1>4, <1>5, <1>6, <1>7, <1>8

\* What FlattenSeq defines, step by step.
IsFlatten(fl, seqs) ==
  fl = [k \in 1 .. Len(seqs) |-> IF k = 1 THEN seqs[k] ELSE fl[k - 1] \o seqs[k]]

\* FlattenSeq gives the last of these.
LEMMA FlattenIs ==
  ASSUME NEW seqs, Len(seqs) # 0
  PROVE  Video!FlattenSeq(seqs) = (CHOOSE fl : IsFlatten(fl, seqs))[Len(seqs)]
BY DEF Video!FlattenSeq, IsFlatten

\* They exist.
LEMMA FlattenExists ==
  ASSUME NEW S, NEW seqs \in Seq(Seq(S)), Len(seqs) # 0
  PROVE  \E fl : IsFlatten(fl, seqs)
<1> DEFINE N == Len(seqs)
           Good(k) == \E n \in [1 .. k -> Seq(S)] :
                        \A j \in 1 .. k : n[j] = IF j = 1 THEN seqs[j] ELSE n[j - 1] \o seqs[j]
           Wrong == {k \in 1 .. N : ~Good(k)}
<1>1. N \in Nat \ {0} /\ \A k \in 1 .. N : seqs[k] \in Seq(S)
  OBVIOUS
<1> HIDE DEF N
<1>2. Good(1)
  <2> DEFINE n == [j \in 1 .. 1 |-> seqs[1]]
  <2>1. n \in [1 .. 1 -> Seq(S)] /\ \A j \in 1 .. 1 : j = 1 /\ n[j] = seqs[1]
    BY <1>1
  <2> HIDE DEF n
  <2> QED
    BY <2>1
<1>3. ASSUME NEW k \in 2 .. N, Good(k - 1) PROVE Good(k)
  <2>1. PICK n \in [1 .. k - 1 -> Seq(S)] :
           \A j \in 1 .. k - 1 : n[j] = IF j = 1 THEN seqs[j] ELSE n[j - 1] \o seqs[j]
    BY <1>3
  <2> DEFINE h == [j \in 1 .. k |-> IF j = k THEN n[k - 1] \o seqs[k] ELSE n[j]]
  <2>2. n[k - 1] \in Seq(S) /\ seqs[k] \in Seq(S) /\ n[k - 1] \o seqs[k] \in Seq(S)
    <3>1. k - 1 \in 1 .. k - 1 /\ k \in 1 .. N
      BY <1>1
    <3>2. n[k - 1] \in Seq(S) /\ seqs[k] \in Seq(S)
      BY <1>1, <2>1, <3>1
    <3> QED
      BY <3>2
  <2>3. h \in [1 .. k -> Seq(S)]
    BY <2>1, <2>2
  <2>4. ASSUME NEW j \in 1 .. k PROVE h[j] = IF j = 1 THEN seqs[j] ELSE h[j - 1] \o seqs[j]
    <3>1. CASE j = k
      <4>1. k - 1 \in 1 .. k /\ k - 1 # k /\ k # 1
        OBVIOUS
      <4>2. h[k - 1] = n[k - 1]
        BY <4>1
      <4>3. h[k] = n[k - 1] \o seqs[k]
        <5>1. k \in 1 .. k
          BY <1>1
        <5> QED
          BY <5>1, Zenon
      <4> HIDE DEF h
      <4> QED
        BY <3>1, <4>1, <4>2, <4>3
    <3>2. CASE j # k
      <4>1. j \in 1 .. k - 1 /\ (j # 1 => j - 1 \in 1 .. k /\ j - 1 # k)
        BY <3>2
      <4>2. h[j] = n[j] /\ (j # 1 => h[j - 1] = n[j - 1])
        BY <3>2, <4>1
      <4> HIDE DEF h
      <4> QED
        BY <2>1, <4>1, <4>2
    <3> QED
      BY <3>1, <3>2
  <2> HIDE DEF h
  <2> QED
    BY <2>3, <2>4
<1>4. Good(N)
  <2> HIDE DEF Good
  <2>1. SUFFICES ASSUME N \in Wrong PROVE FALSE
    BY <1>1
  <2>2. PICK k \in Wrong : \A j \in Wrong : k <= j
    <3>1. Wrong \subseteq Nat
      BY <1>1
    <3> QED
      BY <2>1, <3>1, LeastNatural
  <2>3. k \in 2 .. N /\ k - 1 \in 1 .. N /\ ~ (k <= k - 1)
    BY <1>1, <1>2, <2>2
  <2>4. Good(k - 1)
    BY <2>2, <2>3
  <2> QED
    BY <1>3, <2>2, <2>3, <2>4
<1>5. PICK n \in [1 .. N -> Seq(S)] :
         \A j \in 1 .. N : n[j] = IF j = 1 THEN seqs[j] ELSE n[j - 1] \o seqs[j]
  BY <1>4
<1>6. n = [j \in 1 .. N |-> IF j = 1 THEN seqs[j] ELSE n[j - 1] \o seqs[j]]
  BY <1>5
<1> QED
  BY <1>6 DEF IsFlatten, N

\* Two sequences one after the other.
LEMMA Concatenated ==
  ASSUME NEW S, NEW g \in Seq(S), NEW s \in Seq(S)
  PROVE  /\ g \o s \in Seq(S) /\ Len(g \o s) = Len(g) + Len(s)
         /\ \A j \in 1 .. Len(g) : (g \o s)[j] = g[j]
         /\ \A j \in 1 .. Len(s) : (g \o s)[Len(g) + j] = s[j]
OBVIOUS

\* Where each of them begins in the whole.
Offsets(off, seqs) ==
  /\ off \in [0 .. Len(seqs) -> Nat] /\ off[0] = 0
  /\ \A k \in 1 .. Len(seqs) : off[k] = off[k - 1] + Len(seqs[k])

\* These exist as well.
LEMMA OffsetsExist ==
  ASSUME NEW S, NEW seqs \in Seq(Seq(S))
  PROVE  \E off : Offsets(off, seqs)
<1> DEFINE N == Len(seqs)
           w == [k \in 1 .. N |-> Len(seqs[k])]
<1>1. N \in Nat /\ w \in [1 .. N -> Nat] /\ \A k \in 1 .. N : w[k] = Len(seqs[k])
  OBVIOUS
<1> HIDE DEF N, w
<1>2. PICK a \in Nat, n \in [0 .. N -> Nat] :
         a = 1 /\ n = [j \in 0 .. N |-> IF j = 0 THEN 0 ELSE n[j - 1] * a + w[j]]
  <2>1. PICK a \in Nat : a = 1
    OBVIOUS
  <2>2. \E n \in [0 .. N -> Nat] :
           n = [j \in 0 .. N |-> IF j = 0 THEN 0 ELSE n[j - 1] * a + w[j]]
    BY <1>1, SumExists
  <2> QED
    BY <2>1, <2>2
<1>3. n[0] = 0
  BY <1>1, <1>2
<1>4. ASSUME NEW k \in 1 .. N PROVE n[k] = n[k - 1] + Len(seqs[k])
  <2>1. k \in 0 .. N /\ k # 0 /\ k - 1 \in 0 .. N
    BY <1>1
  <2>2. n[k] = n[k - 1] * a + w[k]
    BY <1>2, <2>1
  <2>3. n[k - 1] * a = n[k - 1]
    BY <1>2, <2>1
  <2> QED
    BY <1>1, <2>2, <2>3
<1> QED
  BY <1>2, <1>3, <1>4 DEF Offsets, N

\* Each piece is at its offset.
LEMMA Flattened ==
  ASSUME NEW S, NEW seqs \in Seq(Seq(S)), NEW off, Offsets(off, seqs)
  PROVE  /\ Video!FlattenSeq(seqs) \in Seq(S)
         /\ Len(Video!FlattenSeq(seqs)) = off[Len(seqs)]
         /\ \A k \in 1 .. Len(seqs) : \A l \in 1 .. Len(seqs[k]) :
              /\ off[k - 1] + l \in 1 .. Len(Video!FlattenSeq(seqs))
              /\ Video!FlattenSeq(seqs)[off[k - 1] + l] = seqs[k][l]
<1> DEFINE N == Len(seqs)
<1>1. /\ N \in Nat /\ \A k \in 1 .. N : seqs[k] \in Seq(S) /\ Len(seqs[k]) \in Nat
      /\ \A k \in 0 .. N : off[k] \in Nat
      /\ off[0] = 0 /\ \A k \in 1 .. N : off[k] = off[k - 1] + Len(seqs[k])
  <2>1. N \in Nat /\ \A k \in 1 .. N : seqs[k] \in Seq(S)
    OBVIOUS
  <2>2. \A k \in 1 .. N : Len(seqs[k]) \in Nat
    BY <2>1
  <2>3. \A k \in 0 .. N : off[k] \in Nat
    BY DEF Offsets
  <2>4. off[0] = 0 /\ \A k \in 1 .. N : off[k] = off[k - 1] + Len(seqs[k])
    BY DEF Offsets
  <2> QED
    BY <2>1, <2>2, <2>3, <2>4
<1>2. CASE N = 0
  <2>1. Video!FlattenSeq(seqs) = seqs
    BY <1>2 DEF Video!FlattenSeq
  <2>2. seqs \in Seq(S)
    BY <1>2
  <2> QED
    BY <1>1, <1>2, <2>1, <2>2
<1>3. CASE N # 0
  <2>1. PICK fl : IsFlatten(fl, seqs) /\ Video!FlattenSeq(seqs) = fl[N]
    BY <1>3, FlattenIs, FlattenExists
  <2> HIDE DEF N
  <2>2. \A k \in 1 .. N : fl[k] = IF k = 1 THEN seqs[k] ELSE fl[k - 1] \o seqs[k]
    BY <2>1 DEF IsFlatten, N
  <2> DEFINE Holds(k, m, l) == /\ off[m - 1] + l \in 1 .. Len(fl[k])
                              /\ fl[k][off[m - 1] + l] = seqs[m][l]
             Good(k) == /\ fl[k] \in Seq(S) /\ Len(fl[k]) = off[k]
                        /\ \A m \in 1 .. k : \A l \in 1 .. Len(seqs[m]) : Holds(k, m, l)
             Wrong == {k \in 1 .. N : ~Good(k)}
  <2>3. Good(1)
    <3>1. 1 \in 1 .. N
      BY <1>1, <1>3
    <3>2. fl[1] = seqs[1] /\ seqs[1] \in Seq(S) /\ off[1] = off[1 - 1] + Len(seqs[1]) /\ 1 - 1 = 0
      BY <1>1, <2>2, <3>1
    <3>3. off[1] = Len(seqs[1])
      BY <1>1, <3>1, <3>2
    <3>4. ASSUME NEW m \in 1 .. 1, NEW l \in 1 .. Len(seqs[m]) PROVE Holds(1, m, l)
      <4>1. m = 1 /\ off[m - 1] = 0 /\ 0 + l = l
        BY <1>1, <3>1
      <4> QED
        BY <3>2, <4>1
    <3> QED
      BY <3>2, <3>3, <3>4
  <2>4. ASSUME NEW k \in 2 .. N, Good(k - 1) PROVE Good(k)
    <3>1. k \in 1 .. N /\ k - 1 \in 1 .. N /\ k - 1 \in 0 .. N /\ k # 1
      BY <1>1
    <3>2. fl[k] = fl[k - 1] \o seqs[k] /\ fl[k - 1] \in Seq(S) /\ seqs[k] \in Seq(S)
          /\ Len(fl[k - 1]) = off[k - 1]
      BY <1>1, <2>2, <2>4, <3>1
    <3>3. PICK g \in Seq(S), s \in Seq(S) : g = fl[k - 1] /\ s = seqs[k]
      BY <3>2
    <3>4. /\ fl[k] \in Seq(S) /\ Len(fl[k]) = Len(g) + Len(s)
          /\ \A j \in 1 .. Len(g) : fl[k][j] = g[j]
          /\ \A j \in 1 .. Len(s) : fl[k][Len(g) + j] = s[j]
      <4>1. fl[k] = g \o s
        BY <3>2, <3>3
      <4> QED
        BY <4>1, Concatenated
    <3>5. Len(fl[k]) = off[k]
      BY <1>1, <3>1, <3>2, <3>3, <3>4
    <3>6. ASSUME NEW m \in 1 .. k, NEW l \in 1 .. Len(seqs[m]) PROVE Holds(k, m, l)
      <4>1. CASE m = k
        <5>1. off[m - 1] = Len(g) /\ seqs[m] = s /\ l \in 1 .. Len(s) /\ Len(g) \in Nat /\ Len(s) \in Nat
          BY <3>2, <3>3, <4>1
        <5>2. Len(g) + l \in 1 .. Len(fl[k])
          BY <3>4, <5>1
        <5> QED
          BY <3>4, <5>1, <5>2
      <4>2. CASE m # k
        <5>1. m \in 1 .. k - 1
          BY <4>2
        <5>2. Holds(k - 1, m, l)
          BY <2>4, <5>1
        <5>3. PICK o : o = off[m - 1] + l
          OBVIOUS
        <5>4. o \in 1 .. Len(g) /\ g[o] = seqs[m][l]
          BY <3>3, <5>2, <5>3
        <5>5. o \in 1 .. Len(fl[k]) /\ fl[k][o] = seqs[m][l]
          <6>1. Len(fl[k]) = Len(g) + Len(s) /\ Len(g) \in Nat /\ Len(s) \in Nat
            BY <3>4
          <6>2. fl[k][o] = g[o]
            BY <3>4, <5>4
          <6> QED
            BY <5>4, <6>1, <6>2
        <5> QED
          BY <5>3, <5>5
      <4> QED
        BY <4>1, <4>2
    <3> HIDE DEF Holds
    <3> QED
      BY <3>4, <3>5, <3>6
  <2>5. Good(N)
    <3> HIDE DEF Good
    <3>1. SUFFICES ASSUME N \in Wrong PROVE FALSE
      BY <1>1, <1>3
    <3>2. PICK k \in Wrong : \A j \in Wrong : k <= j
      <4>1. Wrong \subseteq Nat
        BY <1>1
      <4> QED
        BY <3>1, <4>1, LeastNatural
    <3>3. k \in 2 .. N /\ k - 1 \in 1 .. N /\ ~ (k <= k - 1)
      BY <1>1, <2>3, <3>2
    <3>4. Good(k - 1)
      BY <3>2, <3>3
    <3> QED
      BY <2>4, <3>2, <3>3, <3>4
  <2> QED
    BY <2>1, <2>5 DEF N
<1> QED
  BY <1>2, <1>3

----------------------------------------------------------------------------
(* Codes and tries                                                         *)

\* d starts with c.
Starts(d, c) == Len(c) <= Len(d) /\ \A k \in 1 .. Len(c) : d[k] = c[k]

\* The codes of a tree: that of no symbol starts with that of another.
IsTree(t) ==
  /\ t.symbols \in Seq(Nat)
  /\ \A s \in Video!ToSet(t.symbols) : t.code[s] \in Seq({0, 1})
  /\ \A s, u \in Video!ToSet(t.symbols) : Starts(t.code[u], t.code[s]) => s = u

\* A sequence with one more element before it.
LEMMA Prepended ==
  ASSUME NEW S, NEW x \in S, NEW c \in Seq(S)
  PROVE  /\ <<x>> \o c \in Seq(S) /\ Len(<<x>> \o c) = Len(c) + 1
         /\ (<<x>> \o c)[1] = x
         /\ \A k \in 1 .. Len(c) : (<<x>> \o c)[k + 1] = c[k]
OBVIOUS

\* If it starts with another such, so do they without that element.
LEMMA StartsPrepended ==
  ASSUME NEW S, NEW x \in S, NEW y \in S, NEW c \in Seq(S), NEW d \in Seq(S),
         Starts(<<y>> \o d, <<x>> \o c)
  PROVE  x = y /\ Starts(d, c)
<1> DEFINE p == <<x>> \o c
           q == <<y>> \o d
<1>1. /\ Len(p) = Len(c) + 1 /\ p[1] = x /\ \A k \in 1 .. Len(c) : p[k + 1] = c[k]
      /\ Len(c) \in Nat
  BY Prepended
<1>2. /\ Len(q) = Len(d) + 1 /\ q[1] = y /\ \A k \in 1 .. Len(d) : q[k + 1] = d[k]
      /\ Len(d) \in Nat
  BY Prepended
<1>3. Starts(q, p)
  OBVIOUS
<1> HIDE DEF p, q
<1>4. Len(c) <= Len(d) /\ \A k \in 1 .. Len(c) + 1 : q[k] = p[k]
  BY <1>1, <1>2, <1>3 DEF Starts
<1>5. x = y
  BY <1>1, <1>2, <1>4
<1>6. ASSUME NEW k \in 1 .. Len(c) PROVE d[k] = c[k]
  <2>1. k \in 1 .. Len(d) /\ k + 1 \in 1 .. Len(c) + 1
    BY <1>1, <1>2, <1>4
  <2> QED
    BY <1>1, <1>2, <1>4, <2>1
<1> QED
  BY <1>4, <1>5, <1>6 DEF Starts

\* An element of a sequence is in its set.
LEMMA Member ==
  ASSUME NEW S, NEW s \in Seq(S), NEW k \in 1 .. Len(s)
  PROVE  s[k] \in Video!ToSet(s)
BY DEF Video!ToSet

\* The set of two sequences one after the other.
LEMMA ConcatenatedSet ==
  ASSUME NEW S, NEW g \in Seq(S), NEW s \in Seq(S)
  PROVE  Video!ToSet(g \o s) = Video!ToSet(g) \cup Video!ToSet(s)
<1> DEFINE r == g \o s
<1>1. /\ Len(r) = Len(g) + Len(s) /\ r \in Seq(S) /\ Len(g) \in Nat /\ Len(s) \in Nat
      /\ \A j \in 1 .. Len(g) : r[j] = g[j]
      /\ \A j \in 1 .. Len(s) : r[Len(g) + j] = s[j]
  BY Concatenated
<1> HIDE DEF r
<1>2. ASSUME NEW x \in Video!ToSet(r) PROVE x \in Video!ToSet(g) \cup Video!ToSet(s)
  <2>1. PICK k \in 1 .. Len(r) : r[k] = x
    BY <1>1 DEF Video!ToSet
  <2>2. CASE k <= Len(g)
    <3>1. k \in 1 .. Len(g)
      BY <1>1, <2>2
    <3> QED
      BY <1>1, <2>1, <3>1 DEF Video!ToSet
  <2>3. CASE k > Len(g)
    <3>1. k - Len(g) \in 1 .. Len(s) /\ Len(g) + (k - Len(g)) = k
      BY <1>1, <2>3
    <3>2. s[k - Len(g)] = x
      BY <1>1, <2>1, <3>1
    <3> QED
      BY <3>1, <3>2 DEF Video!ToSet
  <2> QED
    BY <1>1, <2>2, <2>3
<1>3. ASSUME NEW x \in Video!ToSet(g) PROVE x \in Video!ToSet(r)
  <2>1. PICK k \in 1 .. Len(g) : g[k] = x
    BY DEF Video!ToSet
  <2>2. k \in 1 .. Len(r) /\ r[k] = x
    BY <1>1, <2>1
  <2> QED
    <3>1. r \in Seq(S)
      BY <1>1
    <3> QED
      BY <2>2, <3>1, Member
<1>4. ASSUME NEW x \in Video!ToSet(s) PROVE x \in Video!ToSet(r)
  <2>1. PICK k \in 1 .. Len(s) : s[k] = x
    BY DEF Video!ToSet
  <2>2. PICK j \in 1 .. Len(r) : r[j] = x
    <3>1. Len(g) + k \in 1 .. Len(r) /\ r[Len(g) + k] = x
      BY <1>1, <2>1
    <3> QED
      BY <3>1
  <2> QED
    <3>1. r \in Seq(S)
      BY <1>1
    <3> QED
      BY <2>2, <3>1, Member
<1> QED
  BY <1>2, <1>3, <1>4 DEF r

\* What heappop() twice and heappush() make of two trees.
LEMMA JoinedTree ==
  ASSUME NEW a, NEW b, IsTree(a), IsTree(b)
  PROVE  /\ IsTree(Video!Joined(a, b))
         /\ Video!ToSet(Video!Joined(a, b).symbols)
              = Video!ToSet(a.symbols) \cup Video!ToSet(b.symbols)
<1> DEFINE A == Video!ToSet(a.symbols)
           C == Video!ToSet(b.symbols)
           t == Video!Joined(a, b)
<1>1. /\ t.symbols = a.symbols \o b.symbols
      /\ t.code = [s \in A \cup C |-> IF s \in A THEN <<0>> \o a.code[s] ELSE <<1>> \o b.code[s]]
  BY DEF Video!Joined
<1>2. Video!ToSet(t.symbols) = A \cup C /\ t.symbols \in Seq(Nat)
  <2>1. a.symbols \in Seq(Nat) /\ b.symbols \in Seq(Nat)
    BY DEF IsTree
  <2> QED
    BY <1>1, <2>1, ConcatenatedSet, Concatenated
<1>3. \A s \in A : a.code[s] \in Seq({0, 1})
  BY DEF IsTree
<1>4. \A s \in C : b.code[s] \in Seq({0, 1})
  BY DEF IsTree
<1>5. \A s, u \in A : Starts(a.code[u], a.code[s]) => s = u
  BY DEF IsTree
<1>6. \A s, u \in C : Starts(b.code[u], b.code[s]) => s = u
  BY DEF IsTree
<1> HIDE DEF A, C, t
<1>7. ASSUME NEW s \in A \cup C
      PROVE  \E x \in {0, 1}, c \in Seq({0, 1}) :
               /\ t.code[s] = <<x>> \o c
               /\ x = 0 => s \in A /\ c = a.code[s]
               /\ x = 1 => s \in C /\ c = b.code[s]
  <2>1. CASE s \in A
    BY <1>1, <1>3, <2>1
  <2>2. CASE s \notin A
    <3>1. s \in C /\ b.code[s] \in Seq({0, 1})
      BY <1>4, <2>2
    <3>2. t.code[s] = <<1>> \o b.code[s] /\ 1 # 0
      BY <1>1, <2>2
    <3> QED
      BY <3>1, <3>2
  <2> QED
    BY <2>1, <2>2
<1>8. ASSUME NEW s \in A \cup C PROVE t.code[s] \in Seq({0, 1})
  <2>1. PICK x \in {0, 1}, c \in Seq({0, 1}) : t.code[s] = <<x>> \o c
    BY <1>7
  <2> QED
    BY <2>1, Prepended
<1>9. ASSUME NEW s \in A \cup C, NEW u \in A \cup C, Starts(t.code[u], t.code[s]) PROVE s = u
  <2>1. PICK x \in {0, 1}, c \in Seq({0, 1}) :
           /\ t.code[s] = <<x>> \o c
           /\ x = 0 => s \in A /\ c = a.code[s]
           /\ x = 1 => s \in C /\ c = b.code[s]
    BY <1>7
  <2>2. PICK y \in {0, 1}, d \in Seq({0, 1}) :
           /\ t.code[u] = <<y>> \o d
           /\ y = 0 => u \in A /\ d = a.code[u]
           /\ y = 1 => u \in C /\ d = b.code[u]
    BY <1>7
  <2>3. Starts(<<y>> \o d, <<x>> \o c)
    BY <1>9, <2>1, <2>2
  <2>4. x = y /\ Starts(d, c)
    BY <2>3, StartsPrepended
  <2> QED
    BY <1>5, <1>6, <2>1, <2>2, <2>4
<1>10. IsTree(t)
  BY <1>2, <1>8, <1>9 DEF IsTree
<1> QED
  BY <1>2, <1>10 DEF A, C, t

\* What a trie has to say of a set of codes.
TrieHas(tr, t, S) ==
  /\ \A s \in S :
       /\ tr[t.code[s]] = s
       /\ \A q \in 0 .. Len(t.code[s]) : SubSeq(t.code[s], 1, q) \in DOMAIN tr
       /\ \A q \in 0 .. Len(t.code[s]) - 1 : tr[SubSeq(t.code[s], 1, q)] = Video!NoLabel
  /\ \A p \in DOMAIN tr : tr[p] = Video!NoLabel \/ \E s \in S : p = t.code[s]

\* The first q elements.
LEMMA Beginning ==
  ASSUME NEW S, NEW d \in Seq(S), NEW q \in 0 .. Len(d)
  PROVE  /\ SubSeq(d, 1, q) \in Seq(S) /\ Len(SubSeq(d, 1, q)) = q
         /\ \A k \in 1 .. q : SubSeq(d, 1, q)[k] = d[k]
         /\ Starts(d, SubSeq(d, 1, q))
<1>1. /\ SubSeq(d, 1, q) \in Seq(S) /\ Len(SubSeq(d, 1, q)) = q
      /\ \A k \in 1 .. q : SubSeq(d, 1, q)[k] = d[k]
  OBVIOUS
<1>2. q <= Len(d)
  OBVIOUS
<1> QED
  BY <1>1, <1>2 DEF Starts

\* All of them.
LEMMA WholeBeginning ==
  ASSUME NEW S, NEW d \in Seq(S)
  PROVE  SubSeq(d, 1, Len(d)) = d
OBVIOUS

\* Another code is inserted: it is the beginning of no other, nor they of it.
LEMMA InsertFacts ==
  ASSUME NEW t, IsTree(t), NEW tr, NEW S \in SUBSET Video!ToSet(t.symbols), TrieHas(tr, t, S),
         NEW s \in Video!ToSet(t.symbols)
  PROVE  TrieHas(Video!insert(tr, t.code[s], s), t, S \cup {s})
<1> DEFINE T == Video!ToSet(t.symbols)
           c == t.code[s]
           path == {SubSeq(c, 1, q) : q \in 0 .. Len(c)}
           new == Video!insert(tr, c, s)
<1>1. \A u \in T : t.code[u] \in Seq({0, 1}) /\ u \in Nat
  BY DEF IsTree, Video!ToSet
<1>2. \A v, u \in T : Starts(t.code[u], t.code[v]) => v = u
  BY DEF IsTree
<1>3. s \in T /\ S \subseteq T
  OBVIOUS
<1> HIDE DEF T, c
<1>4. c = t.code[s] /\ c \in Seq({0, 1}) /\ Len(c) \in Nat
  BY <1>1, <1>3 DEF c
<1>5. /\ DOMAIN new = DOMAIN tr \cup path
      /\ \A p \in DOMAIN tr \cup path :
           new[p] = IF p = c THEN s ELSE IF p \in DOMAIN tr THEN tr[p] ELSE Video!NoLabel
  BY DEF Video!insert
<1> HIDE DEF new
<1>6. c \in path
  <2>1. Len(c) \in 0 .. Len(c) /\ SubSeq(c, 1, Len(c)) = c
    BY <1>4, WholeBeginning
  <2> QED
    BY <2>1
<1>7. \A q \in 0 .. Len(c) : SubSeq(c, 1, q) \in path
  OBVIOUS
<1> HIDE DEF path
<1>8. \A u \in S :
        /\ tr[t.code[u]] = u
        /\ \A q \in 0 .. Len(t.code[u]) : SubSeq(t.code[u], 1, q) \in DOMAIN tr
        /\ \A q \in 0 .. Len(t.code[u]) - 1 : tr[SubSeq(t.code[u], 1, q)] = Video!NoLabel
  BY DEF TrieHas
<1>9. \A p \in DOMAIN tr : tr[p] = Video!NoLabel \/ \E u \in S : p = t.code[u]
  BY DEF TrieHas
<1>10. ASSUME NEW u \in T, NEW v \in T, NEW q \in 0 .. Len(t.code[u]) - 1
       PROVE  SubSeq(t.code[u], 1, q) # t.code[v]
  <2>1. SUFFICES ASSUME SubSeq(t.code[u], 1, q) = t.code[v] PROVE FALSE
    OBVIOUS
  <2>2. t.code[u] \in Seq({0, 1}) /\ q \in 0 .. Len(t.code[u]) /\ Len(t.code[u]) \in Nat
    BY <1>1
  <2>3. Starts(t.code[u], t.code[v]) /\ Len(t.code[v]) = q
    BY <2>1, <2>2, Beginning
  <2>4. u = v
    BY <1>2, <2>3
  <2> QED
    BY <2>2, <2>3, <2>4
<1>11. ASSUME NEW u \in S \cup {s}, NEW q \in 0 .. Len(t.code[u])
       PROVE  SubSeq(t.code[u], 1, q) \in DOMAIN new
  <2>1. CASE u \in S
    BY <1>5, <1>8, <2>1
  <2>2. CASE u = s
    BY <1>4, <1>5, <1>7, <2>2
  <2> QED
    BY <2>1, <2>2
<1>12. ASSUME NEW u \in S \cup {s} PROVE new[t.code[u]] = u
  <2>1. CASE t.code[u] = c
    <3>1. Starts(t.code[u], t.code[s])
      <4>1. \A k \in 1 .. Len(c) : c[k] = c[k]
        OBVIOUS
      <4> QED
        BY <1>4, <2>1, <4>1 DEF Starts
    <3>2. s = u
      BY <1>2, <1>3, <3>1
    <3> QED
      BY <1>5, <1>6, <2>1, <3>2
  <2>2. CASE t.code[u] # c
    <3>1. u \in S /\ u \in T
      BY <1>3, <1>4, <2>2
    <3>2. t.code[u] \in DOMAIN tr
      <4>1. Len(t.code[u]) \in 0 .. Len(t.code[u]) /\ SubSeq(t.code[u], 1, Len(t.code[u])) = t.code[u]
        BY <1>1, <3>1, WholeBeginning
      <4> QED
        BY <1>8, <3>1, <4>1
    <3> QED
      BY <1>5, <1>8, <2>2, <3>1, <3>2
  <2> QED
    BY <2>1, <2>2
<1>13. ASSUME NEW u \in S \cup {s}, NEW q \in 0 .. Len(t.code[u]) - 1
       PROVE  new[SubSeq(t.code[u], 1, q)] = Video!NoLabel
  <2> DEFINE p == SubSeq(t.code[u], 1, q)
  <2>1. u \in T /\ Len(t.code[u]) \in Nat /\ q \in 0 .. Len(t.code[u])
    BY <1>1, <1>3
  <2>2. p \in DOMAIN new
    BY <1>11, <2>1
  <2>3. p # c
    BY <1>3, <1>4, <1>10, <2>1
  <2>4. CASE p \in DOMAIN tr
    <3>1. \A v \in S : p # t.code[v]
      BY <1>3, <1>10, <2>1
    <3> QED
      BY <1>5, <1>9, <2>2, <2>3, <2>4, <3>1
  <2>5. CASE p \notin DOMAIN tr
    BY <1>5, <2>2, <2>3, <2>5
  <2> QED
    BY <2>4, <2>5
<1>14. ASSUME NEW p \in DOMAIN new
       PROVE  new[p] = Video!NoLabel \/ \E u \in S \cup {s} : p = t.code[u]
  BY <1>4, <1>5, <1>9
<1>15. TrieHas(new, t, S \cup {s})
  BY <1>11, <1>12, <1>13, <1>14 DEF TrieHas
<1> QED
  BY <1>15 DEF new, c

----------------------------------------------------------------------------
(* The file                                                                *)

\* The code of symbol k.
CodeOf(t, k) == t.code[t.symbols[k]]

\* The keys follow the header, at koff.
KeysAt(f, t, koff) ==
  /\ koff \in [0 .. Len(t.symbols) -> Nat] /\ koff[0] = 0
  /\ \A k \in 1 .. Len(t.symbols) :
       /\ koff[k] = koff[k - 1] + (2 + Len(Video!encode(CodeOf(t, k))))
       /\ f[7 + koff[k - 1] + 1] = t.symbols[k]
       /\ f[7 + koff[k - 1] + 2] = Len(CodeOf(t, k))
       /\ \A j \in 1 .. Len(Video!encode(CodeOf(t, k))) :
            f[(7 + koff[k - 1] + 2) + j] = Video!encode(CodeOf(t, k))[j]

\* From byte p on the bits are the codes of the film's bytes, at hoff.
DataAt(f, t, e, p, hoff) ==
  /\ hoff \in [0 .. Len(e) -> Nat] /\ hoff[0] = 0
  /\ \A k \in 1 .. Len(e) :
       /\ hoff[k] = hoff[k - 1] + Len(t.code[e[k]])
       /\ \A q \in 0 .. Len(t.code[e[k]]) - 1 :
            /\ (p * ByteBits + (hoff[k - 1] + q)) \div ByteBits < Len(f)
            /\ Video!Bit(f, p * ByteBits + (hoff[k - 1] + q)) = t.code[e[k]][q + 1]

\* Three sequences one after the other.
LEMMA Concatenated3 ==
  ASSUME NEW S, NEW g \in Seq(S), NEW s \in Seq(S), NEW r \in Seq(S)
  PROVE  /\ Len(g \o s \o r) = Len(g) + Len(s) + Len(r)
         /\ \A j \in 1 .. Len(g) : (g \o s \o r)[j] = g[j]
         /\ \A j \in 1 .. Len(s) : (g \o s \o r)[Len(g) + j] = s[j]
         /\ \A j \in 1 .. Len(r) : (g \o s \o r)[(Len(g) + Len(s)) + j] = r[j]
<1> DEFINE h == g \o s
<1>1. /\ h \in Seq(S) /\ Len(h) = Len(g) + Len(s) /\ Len(g) \in Nat /\ Len(s) \in Nat
      /\ \A j \in 1 .. Len(g) : h[j] = g[j]
      /\ \A j \in 1 .. Len(s) : h[Len(g) + j] = s[j]
  BY Concatenated
<1> HIDE DEF h
<1>2. /\ Len(h \o r) = Len(h) + Len(r)
      /\ \A j \in 1 .. Len(h) : (h \o r)[j] = h[j]
      /\ \A j \in 1 .. Len(r) : (h \o r)[Len(h) + j] = r[j]
  <2>1. PICK u \in Seq(S) : u = h
    BY <1>1
  <2>2. /\ Len(u \o r) = Len(u) + Len(r)
        /\ \A j \in 1 .. Len(u) : (u \o r)[j] = u[j]
        /\ \A j \in 1 .. Len(r) : (u \o r)[Len(u) + j] = r[j]
    BY Concatenated
  <2> QED
    BY <2>1, <2>2
<1>3. \A j \in 1 .. Len(g) : j \in 1 .. Len(h)
  BY <1>1
<1>4. \A j \in 1 .. Len(s) : Len(g) + j \in 1 .. Len(h)
  BY <1>1
<1>5. \A j \in 1 .. Len(g) : (h \o r)[j] = g[j]
  BY <1>1, <1>2, <1>3
<1>6. \A j \in 1 .. Len(s) : (h \o r)[Len(g) + j] = s[j]
  BY <1>1, <1>2, <1>4
<1>7. Len(h \o r) = Len(g) + Len(s) + Len(r)
  BY <1>1, <1>2
<1>8. \A j \in 1 .. Len(r) : (h \o r)[(Len(g) + Len(s)) + j] = r[j]
  BY <1>1, <1>2
<1>9. h = g \o s
  BY DEF h
<1> QED
  BY <1>5, <1>6, <1>7, <1>8, <1>9

\* Symbols are bytes and codes bits.
LEMMA CodesFacts ==
  ASSUME NEW t, IsTree(t), NEW k \in 1 .. Len(t.symbols)
  PROVE  /\ t.symbols \in Seq(Nat) /\ t.symbols[k] \in Nat
         /\ t.symbols[k] \in Video!ToSet(t.symbols)
         /\ CodeOf(t, k) \in Seq({0, 1}) /\ Len(CodeOf(t, k)) \in Nat
         /\ Video!encode(CodeOf(t, k)) \in Seq(Nat)
         /\ Len(Video!encode(CodeOf(t, k))) \in Nat
<1>1. t.symbols \in Seq(Nat)
  BY DEF IsTree
<1>2. t.symbols[k] \in Nat /\ t.symbols[k] \in Video!ToSet(t.symbols)
  BY <1>1, Member
<1>3. CodeOf(t, k) \in Seq({0, 1})
  BY <1>2 DEF IsTree, CodeOf
<1>4. Video!encode(CodeOf(t, k)) \in Seq(Nat)
  BY <1>3, EncodeFacts
<1> QED
  BY <1>1, <1>2, <1>3, <1>4

\* A key: its byte, its length, its bits.
KeyOf(t, k) == Video!key(t, t.symbols[k])

\* The two bytes of a key and those of its code.
LEMMA KeyFacts ==
  ASSUME NEW t, IsTree(t), NEW k \in 1 .. Len(t.symbols)
  PROVE  /\ KeyOf(t, k) \in Seq(Nat)
         /\ Len(KeyOf(t, k)) = 2 + Len(Video!encode(CodeOf(t, k)))
         /\ KeyOf(t, k)[1] = t.symbols[k] /\ KeyOf(t, k)[2] = Len(CodeOf(t, k))
         /\ \A j \in 1 .. Len(Video!encode(CodeOf(t, k))) :
              KeyOf(t, k)[2 + j] = Video!encode(CodeOf(t, k))[j]
<1>1. PICK n \in Nat, l \in Nat, c \in Seq(Nat) :
         n = t.symbols[k] /\ l = Len(CodeOf(t, k)) /\ c = Video!encode(CodeOf(t, k))
  BY CodesFacts
<1>2. << n, l >> \in Seq(Nat) /\ Len(<< n, l >>) = 2 /\ << n, l >>[1] = n /\ << n, l >>[2] = l
  OBVIOUS
<1>3. PICK s \in Seq(Nat) : s = << n, l >>
  BY <1>2
<1>4. /\ s \o c \in Seq(Nat) /\ Len(s \o c) = Len(s) + Len(c)
      /\ \A j \in 1 .. Len(s) : (s \o c)[j] = s[j]
      /\ \A j \in 1 .. Len(c) : (s \o c)[Len(s) + j] = c[j]
  BY Concatenated
<1>5. Len(s) = 2 /\ s[1] = n /\ s[2] = l /\ 1 \in 1 .. Len(s) /\ 2 \in 1 .. Len(s)
  BY <1>2, <1>3
<1>6. KeyOf(t, k) = s \o c
  BY <1>1, <1>3 DEF Video!key, CodeOf, KeyOf
<1>7. (s \o c)[1] = n /\ (s \o c)[2] = l
  BY <1>4, <1>5
<1> QED
  BY <1>1, <1>4, <1>5, <1>6, <1>7

\* The numbers at the head of the file.
HeadOf(t) ==
  LET fcount == Len(film) \div Video!VIDEO_SIZE
      elen == Len(edata)
  IN  << fcount \div Video!Base, fcount % Video!Base,
         elen \div (Video!Base * Video!Base * Video!Base),
         (elen \div (Video!Base * Video!Base)) % Video!Base,
         (elen \div Video!Base) % Video!Base, elen % Video!Base, Len(t.symbols) >>

\* A byte has a positive number of values.
LEMMA BaseFact == Video!Base \in Nat \ {0}
<1>1. ByteBits \in Nat
  BY Sizes
<1> QED
  BY <1>1, PowerOfTwo DEF Video!Base

\* The header is seven numbers.
LEMMA HeadFacts ==
  ASSUME NEW t, t.symbols \in Seq(Nat), Len(film) \in Nat, Len(edata) \in Nat
  PROVE  HeadOf(t) \in Seq(Nat) /\ Len(HeadOf(t)) = 7
<1> DEFINE b == Video!Base
<1>1. b \in Nat \ {0} /\ Video!VIDEO_SIZE \in Nat \ {0} /\ Len(t.symbols) \in Nat
  BY BaseFact, Sizes
<1> HIDE DEF b
<1>2. \A a \in Nat, w \in Nat \ {0} : a \div w \in Nat /\ a % w \in Nat
  <2> TAKE a \in Nat, w \in Nat \ {0}
  <2>1. PICK q \in Nat, r \in 0 .. w - 1 : q = a \div w /\ r = a % w
    BY Quotient
  <2> QED
    BY <2>1
<1>3. b * b \in Nat \ {0} /\ b * b * b \in Nat \ {0}
  <2>1. b * b \in Nat \ {0}
    BY <1>1, Below2, AtLeast
  <2>2. PICK c \in Nat \ {0} : c = b * b
    BY <2>1
  <2>3. c * b \in Nat \ {0}
    BY <1>1
  <2> QED
    BY <2>1, <2>2, <2>3
<1>4. Len(film) \div Video!VIDEO_SIZE \in Nat
  BY <1>1, <1>2
<1>5. PICK n1 \in Nat, n2 \in Nat, n3 \in Nat, n4 \in Nat, n5 \in Nat, n6 \in Nat, n7 \in Nat :
        /\ n1 = (Len(film) \div Video!VIDEO_SIZE) \div b
        /\ n2 = (Len(film) \div Video!VIDEO_SIZE) % b
        /\ n3 = Len(edata) \div (b * b * b)
        /\ n4 = (Len(edata) \div (b * b)) % b
        /\ n5 = (Len(edata) \div b) % b
        /\ n6 = Len(edata) % b
        /\ n7 = Len(t.symbols)
  <2>1. Len(edata) \div (b * b) \in Nat /\ Len(edata) \div b \in Nat
    BY <1>1, <1>2, <1>3
  <2>2. (Len(film) \div Video!VIDEO_SIZE) \div b \in Nat /\ (Len(film) \div Video!VIDEO_SIZE) % b \in Nat
    BY <1>1, <1>2, <1>4
  <2>3. Len(edata) \div (b * b * b) \in Nat
    BY <1>2, <1>3
  <2>4. (Len(edata) \div (b * b)) % b \in Nat /\ (Len(edata) \div b) % b \in Nat /\ Len(edata) % b \in Nat
    BY <1>1, <1>2, <2>1
  <2> QED
    BY <1>1, <2>2, <2>3, <2>4
<1>6. HeadOf(t) = << n1, n2, n3, n4, n5, n6, n7 >>
  BY <1>5 DEF HeadOf, b
<1>7. << n1, n2, n3, n4, n5, n6, n7 >> \in Seq(Nat) /\ Len(<< n1, n2, n3, n4, n5, n6, n7 >>) = 7
  OBVIOUS
<1> QED
  BY <1>6, <1>7

\* A function on 1 .. n is a sequence.
LEMMA FunctionIsSeq ==
  ASSUME NEW S, NEW n \in Nat, NEW g \in [1 .. n -> S]
  PROVE  g \in Seq(S) /\ Len(g) = n
OBVIOUS

\* A head, a sequence of pieces, and a tail.
Pack(head, seqs, tail) == head \o Video!FlattenSeq(seqs) \o tail

IsPacked(f, head, seqs, tail, off) ==
  /\ off[Len(seqs)] \in Nat
  /\ Len(f) = (Len(head) + off[Len(seqs)]) + Len(tail)
  /\ \A j \in 1 .. Len(head) : f[j] = head[j]
  /\ \A k \in 1 .. Len(seqs) : \A l \in 1 .. Len(seqs[k]) :
       f[Len(head) + (off[k - 1] + l)] = seqs[k][l]
  /\ \A j \in 1 .. Len(tail) : f[(Len(head) + off[Len(seqs)]) + j] = tail[j]

\* Everything is where these say.
LEMMA Packed ==
  ASSUME NEW S, NEW head \in Seq(S), NEW tail \in Seq(S), NEW seqs \in Seq(Seq(S)),
         NEW off, Offsets(off, seqs)
  PROVE  IsPacked(Pack(head, seqs, tail), head, seqs, tail, off)
<1> DEFINE g == Video!FlattenSeq(seqs)
<1>1. /\ g \in Seq(S) /\ Len(g) = off[Len(seqs)]
      /\ \A k \in 1 .. Len(seqs) : \A l \in 1 .. Len(seqs[k]) :
           off[k - 1] + l \in 1 .. Len(g) /\ g[off[k - 1] + l] = seqs[k][l]
  BY Flattened
<1> HIDE DEF g
<1>2. PICK u \in Seq(S) : u = g
  BY <1>1
<1>3. /\ Len(head \o u \o tail) = Len(head) + Len(u) + Len(tail)
      /\ \A j \in 1 .. Len(head) : (head \o u \o tail)[j] = head[j]
      /\ \A j \in 1 .. Len(u) : (head \o u \o tail)[Len(head) + j] = u[j]
      /\ \A j \in 1 .. Len(tail) : (head \o u \o tail)[(Len(head) + Len(u)) + j] = tail[j]
  BY Concatenated3
<1>4. ASSUME NEW k \in 1 .. Len(seqs), NEW l \in 1 .. Len(seqs[k])
      PROVE  (head \o u \o tail)[Len(head) + (off[k - 1] + l)] = seqs[k][l]
  <2>1. PICK m : m = off[k - 1] + l
    OBVIOUS
  <2>2. m \in 1 .. Len(u) /\ u[m] = seqs[k][l]
    BY <1>1, <1>2, <2>1
  <2> QED
    BY <1>3, <2>1, <2>2
<1>5. off[Len(seqs)] = Len(u) /\ Len(u) \in Nat
  BY <1>1, <1>2
<1>6. head \o u \o tail = Pack(head, seqs, tail)
  BY <1>2 DEF g, Pack
<1> QED
  BY <1>3, <1>4, <1>5, <1>6 DEF IsPacked

\* The keys, one for each symbol.
LEMMA KeysSeq ==
  ASSUME NEW t, IsTree(t)
  PROVE  /\ [k \in DOMAIN t.symbols |-> Video!key(t, t.symbols[k])] \in Seq(Seq(Nat))
         /\ Len([k \in DOMAIN t.symbols |-> Video!key(t, t.symbols[k])]) = Len(t.symbols)
         /\ Len(t.symbols) \in Nat /\ DOMAIN t.symbols = 1 .. Len(t.symbols)
<1> DEFINE ks == [k \in DOMAIN t.symbols |-> Video!key(t, t.symbols[k])]
<1>1. t.symbols \in Seq(Nat)
  BY DEF IsTree
<1>2. PICK n \in Nat : n = Len(t.symbols)
  BY <1>1
<1>3. DOMAIN t.symbols = 1 .. n
  BY <1>1, <1>2
<1>4. \A k \in 1 .. n : Video!key(t, t.symbols[k]) \in Seq(Nat)
  BY <1>2, KeyFacts DEF KeyOf
<1>5. ks \in [1 .. n -> Seq(Nat)]
  BY <1>3, <1>4
<1>6. ks \in Seq(Seq(Nat)) /\ Len(ks) = n
  BY <1>5, FunctionIsSeq
<1> QED
  BY <1>2, <1>3, <1>6

\* Where compress() puts the keys.
LEMMA KeysFacts ==
  ASSUME NEW t, IsTree(t), NEW f, NEW koff,
         koff \in [0 .. Len(t.symbols) -> Nat], koff[0] = 0,
         \A k \in 1 .. Len(t.symbols) :
           /\ koff[k] = koff[k - 1] + Len(KeyOf(t, k))
           /\ \A l \in 1 .. Len(KeyOf(t, k)) :
                f[7 + (koff[k - 1] + l)] = KeyOf(t, k)[l]
  PROVE  KeysAt(f, t, koff)
<1>1. ASSUME NEW k \in 1 .. Len(t.symbols)
      PROVE  /\ koff[k] = koff[k - 1] + (2 + Len(Video!encode(CodeOf(t, k))))
             /\ f[7 + koff[k - 1] + 1] = t.symbols[k]
             /\ f[7 + koff[k - 1] + 2] = Len(CodeOf(t, k))
             /\ \A j \in 1 .. Len(Video!encode(CodeOf(t, k))) :
                  f[(7 + koff[k - 1] + 2) + j] = Video!encode(CodeOf(t, k))[j]
  <2>1. PICK c \in Seq(Nat) : c = Video!encode(CodeOf(t, k))
    BY CodesFacts
  <2>2. PICK o \in Nat : o = koff[k - 1]
    <3>1. t.symbols \in Seq(Nat)
      BY DEF IsTree
    <3>2. k - 1 \in 0 .. Len(t.symbols)
      BY <3>1
    <3>3. koff[k - 1] \in Nat
      BY <3>2
    <3> QED
      BY <3>3
  <2>3. PICK x \in Seq(Nat) :
           /\ x = KeyOf(t, k) /\ Len(x) = 2 + Len(c)
           /\ x[1] = t.symbols[k] /\ x[2] = Len(CodeOf(t, k))
           /\ \A j \in 1 .. Len(c) : x[2 + j] = c[j]
    <3>1. /\ KeyOf(t, k) \in Seq(Nat)
          /\ Len(KeyOf(t, k)) = 2 + Len(Video!encode(CodeOf(t, k)))
          /\ KeyOf(t, k)[1] = t.symbols[k] /\ KeyOf(t, k)[2] = Len(CodeOf(t, k))
          /\ \A j \in 1 .. Len(Video!encode(CodeOf(t, k))) :
               KeyOf(t, k)[2 + j] = Video!encode(CodeOf(t, k))[j]
      BY KeyFacts
    <3> QED
      BY ONLY <2>1, <3>1
  <2>4. PICK m \in Nat : m = Len(c)
    <3>1. c \in Seq(Nat)
      BY <2>1
    <3>2. Len(c) \in Nat
      BY ONLY <3>1
    <3> QED
      BY ONLY <3>2
  <2>5. \A l \in 1 .. 2 + m : f[7 + (o + l)] = x[l]
    BY <2>2, <2>3, <2>4
  <2>6. 1 \in 1 .. 2 + m /\ 2 \in 1 .. 2 + m /\ \A j \in 1 .. m : 2 + j \in 1 .. 2 + m
    BY ONLY <2>4
  <2>7. f[7 + (o + 1)] = x[1] /\ f[7 + (o + 2)] = x[2]
    BY ONLY <2>5, <2>6
  <2>8. ASSUME NEW j \in 1 .. m PROVE f[(7 + o + 2) + j] = c[j]
    <3>1. 2 + j \in 1 .. 2 + m
      BY <2>6
    <3>2. f[7 + (o + (2 + j))] = x[2 + j]
      BY <2>5, <3>1
    <3>3. 7 + (o + (2 + j)) = (7 + o + 2) + j
      <4>1. j \in Nat /\ o \in Nat
        BY <2>2, <2>4
      <4> QED
        BY ONLY <4>1
    <3>4. x[2 + j] = c[j]
      BY <2>3, <2>4
    <3> QED
      BY ONLY <3>2, <3>3, <3>4
  <2>9. 7 + (o + 1) = 7 + o + 1 /\ 7 + (o + 2) = 7 + o + 2
    BY ONLY <2>2
  <2>10. koff[k] = o + (2 + Len(c))
    BY <2>2, <2>3
  <2>11. f[7 + o + 1] = t.symbols[k] /\ f[7 + o + 2] = Len(CodeOf(t, k))
    BY <2>3, <2>7, <2>9
  <2> QED
    BY <2>1, <2>2, <2>4, <2>8, <2>10, <2>11
<1> QED
  BY <1>1 DEF KeysAt

\* Where it puts the codes.
LEMMA DataFacts ==
  ASSUME NEW t, NEW e, NEW codes \in Seq(Seq({0, 1})), Len(e) \in Nat, Len(codes) = Len(e),
         \A k \in 1 .. Len(e) : codes[k] = t.code[e[k]],
         NEW hoff, Offsets(hoff, codes),
         NEW f, NEW p \in Nat,
         Len(f) = p + Len(Video!encode(Video!FlattenSeq(codes))),
         \A j \in 1 .. Len(Video!encode(Video!FlattenSeq(codes))) : f[p + j] = Video!encode(Video!FlattenSeq(codes))[j]
  PROVE  DataAt(f, t, e, p, hoff)
<1> DEFINE hdata == Video!FlattenSeq(codes)
<1>1. /\ hdata \in Seq({0, 1})
      /\ \A k \in 1 .. Len(e) : \A l \in 1 .. Len(codes[k]) :
           hoff[k - 1] + l \in 1 .. Len(hdata) /\ hdata[hoff[k - 1] + l] = codes[k][l]
  BY Flattened
<1> HIDE DEF hdata
<1>2. /\ hoff \in [0 .. Len(e) -> Nat] /\ hoff[0] = 0
      /\ \A k \in 1 .. Len(e) : hoff[k] = hoff[k - 1] + Len(codes[k])
  BY DEF Offsets
<1>3. ASSUME NEW k \in 1 .. Len(e), NEW q \in 0 .. Len(t.code[e[k]]) - 1
      PROVE  /\ (p * ByteBits + (hoff[k - 1] + q)) \div ByteBits < Len(f)
             /\ Video!Bit(f, p * ByteBits + (hoff[k - 1] + q)) = t.code[e[k]][q + 1]
  <2>1. PICK c \in Seq({0, 1}), o \in Nat : c = codes[k] /\ o = hoff[k - 1]
    <3>1. k - 1 \in 0 .. Len(e)
      OBVIOUS
    <3>2. hoff[k - 1] \in Nat /\ codes[k] \in Seq({0, 1})
      BY <1>2, <3>1
    <3> QED
      BY <3>2
  <2>2. c = t.code[e[k]] /\ q \in 0 .. Len(c) - 1 /\ q + 1 \in 1 .. Len(c) /\ q \in Nat
    BY <2>1
  <2>3. o + (q + 1) \in 1 .. Len(hdata) /\ hdata[o + (q + 1)] = c[q + 1]
    <3>1. \A l \in 1 .. Len(c) : o + l \in 1 .. Len(hdata) /\ hdata[o + l] = c[l]
      BY <1>1, <2>1, Zenon
    <3> QED
      BY <2>2, <3>1
  <2>4. PICK m \in 0 .. Len(hdata) - 1 : m = o + q /\ m + 1 = o + (q + 1)
    BY <1>1, <2>2, <2>3
  <2>5. /\ Video!Bit(f, p * ByteBits + m) = hdata[m + 1]
        /\ (p * ByteBits + m) \div ByteBits < p + Len(Video!encode(hdata))
    <3>1. \A j \in 1 .. Len(Video!encode(hdata)) : f[p + j] = Video!encode(hdata)[j]
      BY DEF hdata
    <3> QED
      BY <1>1, <3>1, BitAt
  <2> QED
    BY <2>1, <2>2, <2>3, <2>4, <2>5 DEF hdata
<1>4. \A k \in 1 .. Len(e) : hoff[k] = hoff[k - 1] + Len(t.code[e[k]])
  BY <1>2
<1> QED
  BY <1>2, <1>3, <1>4 DEF DataAt

\* What is known of the file that compress() writes.
LEMMA CompressFacts ==
  ASSUME NEW t, IsTree(t), edata \in Seq(Nat), Len(film) \in Nat,
         Video!ToSet(edata) \subseteq Video!ToSet(t.symbols),
         NEW hdata, hdata = Video!FlattenSeq([k \in DOMAIN edata |-> t.code[edata[k]]]),
         NEW f, f = Video!compress(t, hdata)
  PROVE  /\ \A k \in 1 .. 7 : f[k] = HeadOf(t)[k]
         /\ \E koff, hoff :
              KeysAt(f, t, koff) /\ DataAt(f, t, edata, 7 + koff[Len(t.symbols)], hoff)
<1> DEFINE ks == [k \in DOMAIN t.symbols |-> Video!key(t, t.symbols[k])]
           codes == [k \in DOMAIN edata |-> t.code[edata[k]]]
<1>1. t.symbols \in Seq(Nat) /\ Len(t.symbols) \in Nat
  BY DEF IsTree
<1>2. ks \in Seq(Seq(Nat))
  BY KeysSeq
<1>3. codes \in Seq(Seq({0, 1})) /\ Len(codes) = Len(edata) /\ Len(edata) \in Nat
      /\ \A k \in 1 .. Len(edata) : codes[k] = t.code[edata[k]]
  <2>1. \A k \in 1 .. Len(edata) : t.code[edata[k]] \in Seq({0, 1})
    <3> TAKE k \in 1 .. Len(edata)
    <3>1. edata[k] \in Video!ToSet(t.symbols)
      BY Member
    <3> QED
      BY <3>1 DEF IsTree
  <2>2. Len(edata) \in Nat /\ DOMAIN edata = 1 .. Len(edata)
    OBVIOUS
  <2>3. codes \in [1 .. Len(edata) -> Seq({0, 1})]
    BY <2>1, <2>2
  <2> QED
    BY <2>2, <2>3, FunctionIsSeq
<1>4. PICK kk \in Seq(Seq(Nat)) : kk = ks
  BY <1>2
<1>5. PICK cc \in Seq(Seq({0, 1})) : cc = codes
  BY <1>3
<1>6. PICK koff, hoff : Offsets(koff, kk) /\ Offsets(hoff, cc)
  <2>1. \E koff : Offsets(koff, kk)
    BY OffsetsExist
  <2>2. \E hoff : Offsets(hoff, cc)
    BY OffsetsExist
  <2> QED
    BY <2>1, <2>2
<1>7. hdata \in Seq({0, 1})
  <2>1. hdata = Video!FlattenSeq(cc)
    BY <1>5
  <2> QED
    BY <1>6, <2>1, Flattened
<1>8. PICK head \in Seq(Nat), tail \in Seq(Nat) :
         head = HeadOf(t) /\ Len(head) = 7 /\ tail = Video!encode(hdata)
  <2>1. HeadOf(t) \in Seq(Nat) /\ Len(HeadOf(t)) = 7
    BY <1>1, <1>3, HeadFacts
  <2>2. Video!encode(hdata) \in Seq(Nat)
    BY <1>7, EncodeFacts
  <2> QED
    BY <2>1, <2>2
<1>9. f = Pack(head, kk, tail)
  BY <1>4, <1>8 DEF Video!compress, HeadOf, Pack
<1>10. PICK n \in Nat : n = Len(t.symbols) /\ n = Len(kk)
  BY <1>4, KeysSeq
<1>11. /\ koff[n] \in Nat
       /\ Len(f) = (7 + koff[n]) + Len(tail)
       /\ \A j \in 1 .. 7 : f[j] = head[j]
       /\ \A k \in 1 .. n : \A l \in 1 .. Len(kk[k]) : f[7 + (koff[k - 1] + l)] = kk[k][l]
       /\ \A j \in 1 .. Len(tail) : f[(7 + koff[n]) + j] = tail[j]
  <2>1. IsPacked(Pack(head, kk, tail), head, kk, tail, koff)
    BY <1>6, Packed
  <2>2. IsPacked(f, head, kk, tail, koff)
    BY ONLY <1>9, <2>1
  <2>3. Len(head) = 7 /\ Len(kk) = n
    BY <1>8, <1>10
  <2>4. /\ koff[n] \in Nat
        /\ Len(f) = 7 + koff[n] + Len(tail)
    BY ONLY <2>2, <2>3 DEF IsPacked
  <2>5. ASSUME NEW j \in 1 .. 7
        PROVE  f[j] = head[j]
    <3>1. j \in 1 .. Len(head)
      BY ONLY <2>3, j \in 1 .. 7
    <3> QED
      BY ONLY <2>2, <3>1, Zenon DEF IsPacked
  <2>6. ASSUME NEW k \in 1 .. n, NEW l \in 1 .. Len(kk[k])
        PROVE  f[7 + (koff[k - 1] + l)] = kk[k][l]
    <3>1. k \in 1 .. Len(kk)
      BY ONLY <2>3, k \in 1 .. n
    <3>2. f[Len(head) + (koff[k - 1] + l)] = kk[k][l]
      BY ONLY <2>2, <3>1, l \in 1 .. Len(kk[k]), Zenon DEF IsPacked
    <3> QED
      BY ONLY <2>3, <3>2, Zenon
  <2>7. ASSUME NEW j \in 1 .. Len(tail)
        PROVE  f[(7 + koff[n]) + j] = tail[j]
    <3>1. f[(Len(head) + koff[Len(kk)]) + j] = tail[j]
      BY ONLY <2>2, j \in 1 .. Len(tail), Zenon DEF IsPacked
    <3> QED
      BY ONLY <2>3, <3>1, Zenon
  <2>8. Len(f) = (7 + koff[n]) + Len(tail)
    BY ONLY <2>4
  <2> QED
    BY ONLY <2>4, <2>5, <2>6, <2>7, <2>8, Zenon
<1>12. KeysAt(f, t, koff)
  <2>1. /\ koff \in [0 .. n -> Nat] /\ koff[0] = 0
        /\ \A k \in 1 .. n : koff[k] = koff[k - 1] + Len(kk[k])
    BY <1>6, <1>10 DEF Offsets
  <2>2. \A k \in 1 .. n : kk[k] = KeyOf(t, k)
    BY <1>1, <1>4, <1>10 DEF KeyOf
  <2>3. /\ koff \in [0 .. Len(t.symbols) -> Nat] /\ koff[0] = 0
        /\ \A k \in 1 .. Len(t.symbols) :
             /\ koff[k] = koff[k - 1] + Len(KeyOf(t, k))
             /\ \A l \in 1 .. Len(KeyOf(t, k)) :
                  f[7 + (koff[k - 1] + l)] = KeyOf(t, k)[l]
    <3>1. ASSUME NEW k \in 1 .. n
          PROVE  /\ koff[k] = koff[k - 1] + Len(KeyOf(t, k))
                 /\ \A l \in 1 .. Len(KeyOf(t, k)) : f[7 + (koff[k - 1] + l)] = KeyOf(t, k)[l]
      <4>1. PICK x : x = kk[k] /\ x = KeyOf(t, k)
        BY <2>2
      <4>2. koff[k] = koff[k - 1] + Len(x)
        BY <2>1, <4>1
      <4>3. \A l \in 1 .. Len(x) : f[7 + (koff[k - 1] + l)] = x[l]
        BY <1>11, <4>1, Zenon
      <4> QED
        BY <4>1, <4>2, <4>3
    <3> QED
      BY ONLY <1>10, <2>1, <3>1
  <2> QED
    BY <2>3, KeysFacts
<1>13. PICK p, e : p \in Nat /\ p = 7 + koff[n] /\ e = edata
  <2>1. 7 + koff[n] \in Nat
    <3>1. PICK o : o = koff[n]
      OBVIOUS
    <3>2. o \in Nat
      BY ONLY <1>11, <3>1, Zenon
    <3> QED
      BY ONLY <3>1, <3>2
  <2> QED
    BY <2>1
<1>14. DataAt(f, t, e, p, hoff)
  <2>1. /\ cc \in Seq(Seq({0, 1})) /\ Len(e) \in Nat /\ Len(cc) = Len(e)
        /\ \A k \in 1 .. Len(e) : cc[k] = t.code[e[k]]
        /\ Offsets(hoff, cc)
    BY <1>3, <1>5, <1>6, <1>13
  <2>2. hdata = Video!FlattenSeq(cc)
    BY <1>5
  <2>3. /\ Len(f) = p + Len(Video!encode(Video!FlattenSeq(cc)))
        /\ \A j \in 1 .. Len(Video!encode(Video!FlattenSeq(cc))) :
             f[p + j] = Video!encode(Video!FlattenSeq(cc))[j]
    BY ONLY <1>8, <1>11, <1>13, <2>2
  <2> QED
    BY <1>13, <2>1, <2>3, DataFacts
<1>15. \A k \in 1 .. 7 : f[k] = HeadOf(t)[k]
  BY ONLY <1>8, <1>11
<1> QED
  BY <1>10, <1>12, <1>13, <1>14, <1>15

\* The defining equation of the decoder's read().
IsField(n, from, bytes) ==
  n = [k \in 0 .. bytes |-> IF k = 0 THEN 0 ELSE n[k - 1] * Video!Base + file[from + k]]

\* read() obeys it.
LEMMA FieldFacts ==
  ASSUME NEW from \in Nat, NEW bytes \in Nat, \A k \in 1 .. bytes : file[from + k] \in Nat
  PROVE  \E n : /\ Video!Field(from, bytes) = n[bytes] /\ n[0] = 0
                /\ \A k \in 1 .. bytes : n[k] = n[k - 1] * Video!Base + file[from + k]
<1> DEFINE w == [k \in 1 .. bytes |-> file[from + k]]
           n == CHOOSE m : IsField(m, from, bytes)
<1>1. w \in [1 .. bytes -> Nat] /\ \A k \in 1 .. bytes : w[k] = file[from + k]
  OBVIOUS
<1> HIDE DEF w
<1>2. PICK a \in Nat : a = Video!Base
  BY BaseFact
<1>3. PICK u : u = w
  OBVIOUS
<1>4. \E m \in [0 .. bytes -> Nat] :
        m = [j \in 0 .. bytes |-> IF j = 0 THEN 0 ELSE m[j - 1] * a + u[j]]
  <2>1. u \in [1 .. bytes -> Nat]
    BY <1>1, <1>3
  <2> QED
    BY <2>1, SumExists
<1>5. \E m : IsField(m, from, bytes)
  <2>1. PICK m \in [0 .. bytes -> Nat] :
           m = [j \in 0 .. bytes |-> IF j = 0 THEN 0 ELSE m[j - 1] * a + u[j]]
    BY <1>4
  <2>2. ASSUME NEW j \in 0 .. bytes
        PROVE  m[j] = IF j = 0 THEN 0 ELSE m[j - 1] * Video!Base + file[from + j]
    <3>1. m[j] = IF j = 0 THEN 0 ELSE m[j - 1] * a + u[j]
      BY <2>1
    <3>2. CASE j = 0
      BY <3>1, <3>2
    <3>3. CASE j # 0
      <4>1. j \in 1 .. bytes
        BY <3>3
      <4>2. u[j] = file[from + j]
        BY <1>1, <1>3, <4>1
      <4> QED
        BY <1>2, <3>1, <3>3, <4>2
    <3> QED
      BY <3>2, <3>3
  <2>3. m = [j \in 0 .. bytes |-> m[j]]
    BY <2>1
  <2> QED
    BY <2>2, <2>3 DEF IsField
<1>6. IsField(n, from, bytes)
  BY <1>5
<1>7. Video!Field(from, bytes) = n[bytes]
  BY DEF Video!Field, IsField
<1> HIDE DEF n
<1>8. \A k \in 0 .. bytes : n[k] = IF k = 0 THEN 0 ELSE n[k - 1] * Video!Base + file[from + k]
  BY <1>6 DEF IsField
<1>9. n[0] = 0 /\ \A k \in 1 .. bytes : n[k] = n[k - 1] * Video!Base + file[from + k]
  BY <1>8
<1> QED
  BY <1>7, <1>9

\* A number divided twice, and thrice.
Twice(a, b, c) == b * c \in Nat \ {0} /\ a \div (b * c) = (a \div b) \div c

\* It is so for numbers.
LEMMA DividedTwice ==
  ASSUME NEW a \in Nat, NEW b \in Nat \ {0}, NEW c \in Nat \ {0}
  PROVE  Twice(a, b, c)
<1>1. PICK q \in Nat, r \in 0 .. b - 1 : q = a \div b /\ a = b * q + r
  BY Quotient
<1>2. PICK u \in Nat, s \in 0 .. c - 1 : u = q \div c /\ q = c * u + s
  BY Quotient
<1>3. b * s + r \in 0 .. b * c - 1
  BY Below2
<1>4. b * c \in Nat \ {0}
  BY <1>3
<1>5. a = (b * c) * u + (b * s + r)
  <2>1. PICK m \in Nat, x \in Nat, y \in Nat : m = c * u /\ x = b * m /\ y = b * s
    OBVIOUS
  <2>2. b * (m + s) = x + y
    BY <2>1, Distribute
  <2>3. (b * c) * u = x
    BY <2>1
  <2>4. b * q = b * (m + s)
    BY <1>2, <2>1
  <2>5. a = x + y + r
    BY <1>1, <2>2, <2>4
  <2> QED
    BY ONLY <2>1, <2>3, <2>5
<1>6. PICK w \in Nat \ {0} : \E v \in 0 .. w - 1 : w = b * c /\ v = b * s + r
  BY <1>3, <1>4
<1>7. PICK v \in 0 .. w - 1 : w = b * c /\ v = b * s + r
  BY <1>6
<1>8. a \div (b * c) = u
  <2>1. u \in Int
    OBVIOUS
  <2>2. (w * u + v) \div w = u
    BY <2>1, Divided
  <2> QED
    BY <1>5, <1>7, <2>2
<1> QED
  BY <1>1, <1>2, <1>4, <1>8 DEF Twice

\* The header read back.
LEMMA HeaderFields ==
  ASSUME NEW t, t.symbols \in Seq(Nat), Len(film) \in Nat, Len(edata) \in Nat,
         \A k \in 1 .. 7 : file[k] = HeadOf(t)[k]
  PROVE  /\ Video!Field(0, 2) = Len(film) \div Video!VIDEO_SIZE
         /\ Video!Field(2, 4) = Len(edata)
         /\ Video!Field(6, 1) = Len(t.symbols)
<1>1. PICK b \in Nat \ {0}, x \in Nat, e \in Nat :
         b = Video!Base /\ x = Len(film) \div Video!VIDEO_SIZE /\ e = Len(edata)
  <2>1. Len(film) \div Video!VIDEO_SIZE \in Nat
    BY Sizes, Quotient
  <2> QED
    BY <2>1, BaseFact
<1>2. /\ file[1] = x \div b /\ file[2] = x % b
      /\ file[3] = e \div (b * b * b) /\ file[4] = (e \div (b * b)) % b
      /\ file[5] = (e \div b) % b /\ file[6] = e % b
      /\ file[7] = Len(t.symbols)
  BY <1>1 DEF HeadOf
<1>3. \A k \in 1 .. 7 : file[k] \in Nat
  <2>1. HeadOf(t) \in Seq(Nat) /\ Len(HeadOf(t)) = 7
    BY HeadFacts
  <2>2. PICK h \in Seq(Nat) : h = HeadOf(t) /\ Len(h) = 7
    BY <2>1
  <2>3. ASSUME NEW k \in 1 .. 7 PROVE h[k] \in Nat
    <3>1. k \in 1 .. Len(h)
      BY <2>2
    <3> QED
      BY <3>1
  <2> QED
    BY <2>2, <2>3
<1>4. Video!Field(0, 2) = x
  <2>1. PICK n : /\ Video!Field(0, 2) = n[2] /\ n[0] = 0
                 /\ \A k \in 1 .. 2 : n[k] = n[k - 1] * Video!Base + file[0 + k]
    <3>1. PICK from \in Nat, bytes \in Nat : from = 0 /\ bytes = 2
      OBVIOUS
    <3>2. \A k \in 1 .. bytes : file[from + k] \in Nat
      BY <1>3, <3>1
    <3>3. \E n : /\ Video!Field(from, bytes) = n[bytes] /\ n[0] = 0
                 /\ \A k \in 1 .. bytes : n[k] = n[k - 1] * Video!Base + file[from + k]
      BY <3>2, FieldFacts
    <3> QED
      BY <3>1, <3>3
  <2>2. n[1] = n[0] * b + file[1] /\ n[2] = n[1] * b + file[2]
    BY <1>1, <2>1
  <2>3. PICK q \in Nat, r \in 0 .. b - 1 : q = x \div b /\ r = x % b /\ x = b * q + r
    BY Quotient
  <2>4. n[1] = q
    BY <1>2, <2>1, <2>2, <2>3
  <2>5. n[2] = q * b + r
    BY <1>2, <2>2, <2>3, <2>4
  <2> QED
    BY <2>1, <2>3, <2>5
<1>5. Video!Field(6, 1) = Len(t.symbols)
  <2>1. PICK n : /\ Video!Field(6, 1) = n[1] /\ n[0] = 0
                 /\ \A k \in 1 .. 1 : n[k] = n[k - 1] * Video!Base + file[6 + k]
    <3>1. PICK from \in Nat, bytes \in Nat : from = 6 /\ bytes = 1
      OBVIOUS
    <3>2. \A k \in 1 .. bytes : file[from + k] \in Nat
      BY <1>3, <3>1
    <3>3. \E n : /\ Video!Field(from, bytes) = n[bytes] /\ n[0] = 0
                 /\ \A k \in 1 .. bytes : n[k] = n[k - 1] * Video!Base + file[from + k]
      BY <3>2, FieldFacts
    <3> QED
      BY <3>1, <3>3
  <2>2. n[1] = n[0] * b + file[7]
    BY <1>1, <2>1
  <2>3. file[7] \in Nat
    BY <1>3
  <2>4. n[1] = file[7]
    BY <2>1, <2>2, <2>3
  <2> QED
    BY <1>2, <2>1, <2>4
<1>6. Video!Field(2, 4) = e
  <2>1. PICK n : /\ Video!Field(2, 4) = n[4] /\ n[0] = 0
                 /\ \A k \in 1 .. 4 : n[k] = n[k - 1] * Video!Base + file[2 + k]
    <3>1. PICK from \in Nat, bytes \in Nat : from = 2 /\ bytes = 4
      OBVIOUS
    <3>2. \A k \in 1 .. bytes : file[from + k] \in Nat
      BY <1>3, <3>1
    <3>3. \E n : /\ Video!Field(from, bytes) = n[bytes] /\ n[0] = 0
                 /\ \A k \in 1 .. bytes : n[k] = n[k - 1] * Video!Base + file[from + k]
      BY <3>2, FieldFacts
    <3> QED
      BY <3>1, <3>3
  <2>2. /\ n[1] = n[0] * b + file[3] /\ n[2] = n[1] * b + file[4]
        /\ n[3] = n[2] * b + file[5] /\ n[4] = n[3] * b + file[6]
    BY <1>1, <2>1
  <2>3. PICK e1 \in Nat, r0 \in 0 .. b - 1 : e1 = e \div b /\ r0 = e % b /\ e = b * e1 + r0
    BY Quotient
  <2>4. PICK e2 \in Nat, r1 \in 0 .. b - 1 : e2 = e1 \div b /\ r1 = e1 % b /\ e1 = b * e2 + r1
    BY Quotient
  <2>5. PICK e3 \in Nat, r2 \in 0 .. b - 1 : e3 = e2 \div b /\ r2 = e2 % b /\ e2 = b * e3 + r2
    BY Quotient
  <2>6. b * b \in Nat \ {0} /\ e \div (b * b) = e2
    <3>1. PICK c \in Nat \ {0} : c = b
      OBVIOUS
    <3>2. Twice(e, b, c)
      BY DividedTwice
    <3> QED
      BY <2>3, <2>4, <3>1, <3>2 DEF Twice
  <2>7. e \div (b * b * b) = e3
    <3>1. PICK c \in Nat \ {0} : c = b * b
      BY <2>6
    <3>2. Twice(e, c, b)
      BY DividedTwice
    <3> QED
      BY <2>5, <2>6, <3>1, <3>2 DEF Twice
  <2>8. file[3] = e3 /\ file[4] = r2 /\ file[5] = r1 /\ file[6] = r0
    BY <1>2, <2>3, <2>4, <2>5, <2>6, <2>7
  <2>9. n[1] = e3
    BY <2>1, <2>2, <2>8
  <2>10. e3 * b = b * e3 /\ e2 * b = b * e2 /\ e1 * b = b * e1
    OBVIOUS
  <2>11. n[2] = e2
    BY <2>2, <2>5, <2>8, <2>9, <2>10
  <2>12. n[3] = e1
    BY <2>2, <2>4, <2>8, <2>10, <2>11
  <2>13. n[4] = e
    BY <2>2, <2>3, <2>8, <2>10, <2>12
  <2> QED
    BY <2>1, <2>13
<1> QED
  BY <1>1, <1>4, <1>5, <1>6

----------------------------------------------------------------------------
(* From the film to the pool                                               *)

\* The queue is of trees, and every byte of the film is a symbol of one of them.
QueueInv ==
  pc = "merge" =>
    /\ IsFiniteSet(queue)
    /\ \A t \in queue : IsTree(t)
    /\ \A s \in Video!ToSet(edata) : \E t \in queue : s \in Video!ToSet(t.symbols)

\* The symbols of the first k keys.
SymbolsUpTo(t, k) == {t.symbols[j] : j \in 1 .. k}

\* Before the header is read.
AtHeader(t) ==
  pc = "header" => \A k \in 1 .. 7 : file[k] = HeadOf(t)[k]

\* After it.
NumbersRead ==
  pc \in {"keys", "data"} =>
    count = Len(film) \div Video!VIDEO_SIZE /\ buffer_size = Len(edata)

\* Between two keys.
AtKeys(t, koff) ==
  pc = "keys" =>
    /\ keys \in 0 .. Len(t.symbols)
    /\ pointer = 7 + koff[Len(t.symbols) - keys]
    /\ TrieHas(trie, t, SymbolsUpTo(t, Len(t.symbols) - keys))

\* Inside the code of the next byte.
Within(t, p, hoff) ==
  LET c == t.code[edata[Len(buffer) + 1]]
  IN  \E q \in 0 .. Len(c) - 1 :
        cur = SubSeq(c, 1, q) /\ seek = p * ByteBits + (hoff[Len(buffer)] + q)

\* Between two bits of the data: a beginning of the film has been decoded.
AtData(t, p, hoff) ==
  pc = "data" =>
    /\ TrieHas(trie, t, Video!ToSet(t.symbols))
    /\ buffer \in Seq(Nat) /\ Len(buffer) <= Len(edata)
    /\ \A k \in 1 .. Len(buffer) : buffer[k] = edata[k]
    /\ Len(buffer) < Len(edata) => Within(t, p, hoff)

\* The tree that the film was encoded with.
Coding(t) == IsTree(t) /\ Video!ToSet(edata) \subseteq Video!ToSet(t.symbols)

\* Until the pool is filled the file is what a tree made of the film.
FileInv ==
  pc \in {"header", "keys", "data"} =>
    \E t, koff, hoff :
      /\ Coding(t)
      /\ KeysAt(file, t, koff)
      /\ DataAt(file, t, edata, 7 + koff[Len(t.symbols)], hoff)
      /\ AtHeader(t) /\ AtKeys(t, koff) /\ AtData(t, 7 + koff[Len(t.symbols)], hoff)

\* Nothing is decoded before the data.
FreshInv ==
  /\ pc \in {"merge", "header"} => trie = [p \in {Video!Root} |-> Video!NoLabel]
  /\ pc \in {"merge", "header", "keys"} => buffer = <<>>

\* All that is known of the coding.
CodeInv ==
  /\ film \in Films /\ edata = Video!encode(film)
  /\ QueueInv /\ FileInv /\ NumbersRead /\ FreshInv

\* A film and its bytes.
LEMMA FilmFacts ==
  ASSUME film \in Films, edata = Video!encode(film)
  PROVE  /\ film \in Seq({0, 1}) /\ Len(film) \in Nat
         /\ Len(film) = (Len(film) \div Video!VIDEO_SIZE) * Video!VIDEO_SIZE
         /\ Len(film) \div Video!VIDEO_SIZE \in Nat
         /\ edata \in Seq(Nat) /\ Len(edata) \in Nat
         /\ Len(edata) * ByteBits = Len(film)
         /\ \E j, k \in 1 .. Len(edata) : edata[j] # edata[k]
<1>1. /\ film \in Seq({0, 1}) /\ Len(film) % (Row * Col) = 0 /\ Len(film) % ByteBits = 0
      /\ \E j, k \in DOMAIN Video!encode(film) : Video!encode(film)[j] # Video!encode(film)[k]
  BY CtorsAssumption
<1>2. PICK l \in Nat, v \in Nat \ {0}, b \in Nat \ {0} :
         l = Len(film) /\ v = Video!VIDEO_SIZE /\ b = ByteBits /\ l % v = 0 /\ l % b = 0
  BY <1>1, Sizes
<1>3. PICK q \in Nat : q = l \div v /\ l = v * q
  <2>1. PICK q \in Nat, r \in 0 .. v - 1 : q = l \div v /\ r = l % v /\ l = v * q + r
    BY Quotient
  <2>2. r = 0 /\ v * q \in Nat
    BY <1>2, <2>1
  <2>3. l = v * q
    BY <2>1, <2>2
  <2> QED
    BY <2>1, <2>3
<1>4. v * q = q * v
  OBVIOUS
<1>5. edata \in Seq(Nat) /\ Len(edata) = Video!CeilDiv(Len(film), ByteBits) /\ Len(edata) \in Nat
  BY <1>1, EncodeFacts
<1>6. Len(edata) * b = l
  <2>1. PICK u \in Nat, r \in 0 .. b - 1 : u = l \div b /\ r = l % b /\ l = b * u + r
    BY Quotient
  <2>2. r = 0 /\ b * u \in Nat /\ u * b = b * u
    BY <1>2, <2>1
  <2>3. l = b * u
    BY <2>1, <2>2
  <2>4. b - 1 \in 0 .. b - 1 /\ u \in Int
    OBVIOUS
  <2>5. (b * u + (b - 1)) \div b = u
    BY <2>4, Divided
  <2>6. l + b - 1 = b * u + (b - 1)
    BY <2>2, <2>3
  <2>7. Len(edata) = u
    BY <1>2, <1>5, <2>5, <2>6 DEF Video!CeilDiv
  <2> QED
    BY <2>2, <2>3, <2>7
<1>7. \E j, k \in 1 .. Len(edata) : edata[j] # edata[k]
  <2>1. DOMAIN edata = 1 .. Len(edata)
    BY <1>5
  <2> QED
    BY <1>1, <2>1
<1> QED
  BY <1>1, <1>2, <1>3, <1>4, <1>5, <1>6, <1>7

\* No code is empty.
LEMMA CodesNotEmpty ==
  ASSUME film \in Films, edata = Video!encode(film), NEW t, Coding(t),
         NEW s \in Video!ToSet(t.symbols)
  PROVE  t.code[s] \in Seq({0, 1}) /\ Len(t.code[s]) \in Nat \ {0}
<1>1. t.code[s] \in Seq({0, 1}) /\ Len(t.code[s]) \in Nat
  BY DEF Coding, IsTree
<1>2. PICK u : u \in Video!ToSet(t.symbols) /\ u # s
  <2>1. PICK j \in 1 .. Len(edata), k \in 1 .. Len(edata) : edata[j] # edata[k]
    BY FilmFacts
  <2>2. edata \in Seq(Nat)
    BY FilmFacts
  <2>3. edata[j] \in Video!ToSet(edata) /\ edata[k] \in Video!ToSet(edata)
    BY <2>2, Member
  <2> QED
    BY <2>1, <2>3 DEF Coding
<1>3. CASE Len(t.code[s]) = 0
  <2>1. t.code[u] \in Seq({0, 1})
    BY <1>2 DEF Coding, IsTree
  <2>2. Starts(t.code[u], t.code[s])
    BY <1>3, <2>1 DEF Starts
  <2>3. s = u
    BY <1>2, <2>2 DEF Coding, IsTree
  <2> QED
    BY <1>2, <2>3
<1> QED
  BY <1>1, <1>3

\* The key's bytes as the decoder counts them.
LEMMA KeyBytesFacts ==
  ASSUME NEW l \in Nat \ {0}
  PROVE  Video!KeyBytes(l) = Video!CeilDiv(l, ByteBits)
<1>1. ByteBits \in Nat \ {0} /\ l - 1 \in Nat
  BY Sizes
<1>2. PICK q \in Nat, r \in 0 .. ByteBits - 1 : q = (l - 1) \div ByteBits /\ l - 1 = ByteBits * q + r
  BY <1>1, Quotient
<1>3. l + ByteBits - 1 = ByteBits * (q + 1) + r
  <2>1. ByteBits * (q + 1) = ByteBits * q + ByteBits /\ ByteBits * q \in Nat
    BY <1>1
  <2> QED
    BY <1>1, <1>2, <2>1
<1>4. (ByteBits * (q + 1) + r) \div ByteBits = q + 1
  <2>1. q + 1 \in Int
    OBVIOUS
  <2> QED
    BY <1>1, <2>1, Divided
<1>5. Video!CeilDiv(l, ByteBits) = q + 1
  BY <1>3, <1>4 DEF Video!CeilDiv
<1>6. Video!KeyBytes(l) = q + 1
  BY <1>2 DEF Video!KeyBytes
<1> QED
  BY <1>5, <1>6

\* Two trees become one.
LEMMA MergeStep ==
  ASSUME CodeInv, Video!Merge
  PROVE  CodeInv'
<1>1. PICK a \in queue, b \in queue : queue' = (queue \ {a, b}) \cup {Video!Joined(a, b)}
  BY DEF Video!Merge, Video!Rarest
<1>2. /\ pc = "merge" /\ pc' = "merge" /\ film' = film /\ edata' = edata
      /\ trie' = trie /\ buffer' = buffer
  BY DEF Video!Merge, Video!decoder
<1>3. /\ IsFiniteSet(queue)
      /\ \A t \in queue : IsTree(t)
      /\ \A s \in Video!ToSet(edata) : \E t \in queue : s \in Video!ToSet(t.symbols)
  BY <1>2 DEF CodeInv, QueueInv
<1>4. PICK c : /\ c = Video!Joined(a, b) /\ IsTree(c)
               /\ Video!ToSet(c.symbols) = Video!ToSet(a.symbols) \cup Video!ToSet(b.symbols)
  BY <1>3, JoinedTree
<1>5. PICK Q : Q = queue /\ IsFiniteSet(Q)
  BY <1>3
<1>6. queue' = (Q \ {a, b}) \cup {c}
  BY <1>1, <1>4, <1>5
<1>7. IsFiniteSet((Q \ {a, b}) \cup {c})
  <2>1. Q \ {a, b} \in SUBSET Q
    OBVIOUS
  <2>2. IsFiniteSet(Q \ {a, b})
    BY <1>5, <2>1, FS_Subset
  <2> QED
    BY <2>2, FS_AddElement
<1>8. \A t \in queue' : IsTree(t)
  BY <1>3, <1>4, <1>5, <1>6
<1>9. ASSUME NEW s \in Video!ToSet(edata) PROVE \E t \in queue' : s \in Video!ToSet(t.symbols)
  <2>1. PICK t \in queue : s \in Video!ToSet(t.symbols)
    BY <1>3
  <2>2. CASE t \in {a, b}
    BY <1>4, <1>6, <2>1, <2>2
  <2>3. CASE t \notin {a, b}
    BY <1>5, <1>6, <2>1, <2>3
  <2> QED
    BY <2>2, <2>3
<1>10. IsFiniteSet(queue')
  BY <1>6, <1>7
<1>11. QueueInv'
  BY <1>2, <1>8, <1>9, <1>10 DEF QueueInv
<1> QED
  BY <1>2, <1>11 DEF CodeInv, FileInv, NumbersRead, FreshInv

\* The last tree writes the file.
LEMMA WriteStep ==
  ASSUME CodeInv, Video!Write
  PROVE  CodeInv'
<1>1. /\ pc = "merge" /\ pc' \in {"header", "refused"} /\ film' = film /\ edata' = edata
      /\ trie' = trie /\ buffer' = buffer
  BY DEF Video!Write, Video!decoder
<1>2. PICK t \in queue :
         file' = Video!compress(t, Video!FlattenSeq([k \in DOMAIN edata |-> t.code[edata[k]]]))
  BY DEF Video!Write
<1>3. Video!Cardinality(queue) = 1
  BY DEF Video!Write
<1>4. /\ IsFiniteSet(queue)
      /\ \A u \in queue : IsTree(u)
      /\ \A s \in Video!ToSet(edata) : \E u \in queue : s \in Video!ToSet(u.symbols)
  BY <1>1 DEF CodeInv, QueueInv
<1>5. \A u \in queue : u = t
  <2>1. PICK Q : Q = queue /\ IsFiniteSet(Q) /\ Cardinality(Q) = 1
    BY <1>3, <1>4, SameCardinality
  <2>2. \E x : Q = {x}
    BY <2>1, FS_Singleton
  <2> QED
    BY <1>2, <2>1, <2>2
<1>6. Coding(t)
  BY <1>2, <1>4, <1>5 DEF Coding
<1>7. film \in Films /\ edata = Video!encode(film)
  BY DEF CodeInv
<1>8. edata \in Seq(Nat) /\ Len(film) \in Nat
  BY <1>7, FilmFacts
<1>9. PICK h : h = Video!FlattenSeq([k \in DOMAIN edata |-> t.code[edata[k]]])
  OBVIOUS
<1>10. PICK f : f = Video!compress(t, h)
  OBVIOUS
<1>11. /\ \A k \in 1 .. 7 : f[k] = HeadOf(t)[k]
       /\ \E koff, hoff :
            KeysAt(f, t, koff) /\ DataAt(f, t, edata, 7 + koff[Len(t.symbols)], hoff)
  BY <1>6, <1>8, <1>9, <1>10, CompressFacts DEF Coding
<1>12. file' = f
  BY <1>2, <1>9, <1>10
<1>13. PICK koff, hoff :
         KeysAt(f, t, koff) /\ DataAt(f, t, edata, 7 + koff[Len(t.symbols)], hoff)
  BY <1>11
<1>14. Coding(t)'
  BY <1>1, <1>6 DEF Coding
<1>15. AtHeader(t)'
  BY <1>1, <1>11, <1>12 DEF AtHeader, HeadOf
<1>16. AtKeys(t, koff)' /\ AtData(t, 7 + koff[Len(t.symbols)], hoff)'
  BY <1>1 DEF AtKeys, AtData
<1>17. KeysAt(file, t, koff)' /\ DataAt(file, t, edata, 7 + koff[Len(t.symbols)], hoff)'
  BY <1>1, <1>12, <1>13
<1>18. FileInv'
  BY <1>14, <1>15, <1>16, <1>17 DEF FileInv
<1> QED
  BY <1>1, <1>7, <1>18 DEF CodeInv, QueueInv, NumbersRead, FreshInv

\* The header is read back.
LEMMA HeaderStep ==
  ASSUME CodeInv, Video!Header
  PROVE  CodeInv'
<1>1. /\ pc = "header" /\ pc' = "keys" /\ film' = film /\ edata' = edata
      /\ file' = file /\ trie' = trie /\ buffer' = buffer
      /\ count' = Video!Field(0, 2) /\ buffer_size' = Video!Field(2, 4)
      /\ keys' = Video!Field(6, 1) /\ pointer' = 7
  BY DEF Video!Header, Video!encoder
<1>2. PICK t, koff, hoff :
        /\ Coding(t) /\ KeysAt(file, t, koff)
        /\ DataAt(file, t, edata, 7 + koff[Len(t.symbols)], hoff) /\ AtHeader(t)
  BY <1>1 DEF CodeInv, FileInv
<1>3. t.symbols \in Seq(Nat) /\ Len(t.symbols) \in Nat
  BY <1>2 DEF Coding, IsTree
<1>4. film \in Films /\ edata = Video!encode(film)
  BY DEF CodeInv
<1>5. Len(film) \in Nat /\ Len(edata) \in Nat
  BY <1>4, FilmFacts
<1>6. /\ count' = Len(film) \div Video!VIDEO_SIZE /\ buffer_size' = Len(edata)
      /\ keys' = Len(t.symbols)
  BY <1>1, <1>2, <1>3, <1>5, HeaderFields DEF AtHeader
<1>7. koff[0] = 0
  BY <1>2 DEF KeysAt
<1>8. TrieHas(trie, t, {})
  <2>1. trie = [p \in {Video!Root} |-> Video!NoLabel]
    BY <1>1 DEF CodeInv, FreshInv
  <2> QED
    BY <2>1 DEF TrieHas
<1>9. SymbolsUpTo(t, 0) = {}
  BY DEF SymbolsUpTo
<1>10. AtKeys(t, koff)'
  <2>1. Len(t.symbols) - keys' = 0 /\ keys' \in 0 .. Len(t.symbols)
    BY <1>3, <1>6
  <2>2. pointer' = 7 + koff[Len(t.symbols) - keys']
    BY <1>1, <1>7, <2>1
  <2>3. TrieHas(trie', t, SymbolsUpTo(t, Len(t.symbols) - keys'))
    BY <1>1, <1>8, <1>9, <2>1
  <2> QED
    BY <2>1, <2>2, <2>3 DEF AtKeys
<1>11. AtHeader(t)' /\ AtData(t, 7 + koff[Len(t.symbols)], hoff)'
  BY <1>1 DEF AtHeader, AtData
<1>12. Coding(t)'
  BY <1>1, <1>2 DEF Coding
<1>13. KeysAt(file, t, koff)' /\ DataAt(file, t, edata, 7 + koff[Len(t.symbols)], hoff)'
  BY <1>1, <1>2
<1>14. FileInv'
  BY <1>10, <1>11, <1>12, <1>13 DEF FileInv
<1>15. NumbersRead' /\ FreshInv' /\ QueueInv'
  BY <1>1, <1>6 DEF NumbersRead, FreshInv, QueueInv, CodeInv
<1> QED
  BY <1>1, <1>4, <1>14, <1>15 DEF CodeInv

\* A key is read back where the last one ended: truncating the number of its bytes
\* does no harm, because no code is empty.
LEMMA InsertKeyStep ==
  ASSUME CodeInv, Video!InsertKey
  PROVE  CodeInv'
<1>1. /\ pc = "keys" /\ pc' = "keys" /\ film' = film /\ edata' = edata /\ keys > 0
      /\ file' = file /\ buffer' = buffer /\ keys' = keys - 1
      /\ count' = count /\ buffer_size' = buffer_size
  BY DEF Video!InsertKey, Video!encoder
<1>2. PICK t, koff, hoff :
        /\ Coding(t) /\ KeysAt(file, t, koff)
        /\ DataAt(file, t, edata, 7 + koff[Len(t.symbols)], hoff) /\ AtKeys(t, koff)
  BY <1>1 DEF CodeInv, FileInv
<1>3. t.symbols \in Seq(Nat) /\ IsTree(t)
  BY <1>2 DEF Coding, IsTree
<1>4. PICK n \in Nat : n = Len(t.symbols)
  BY <1>3
<1>5. /\ keys \in 0 .. n /\ pointer = 7 + koff[n - keys]
      /\ TrieHas(trie, t, SymbolsUpTo(t, n - keys))
  BY <1>1, <1>2, <1>4 DEF AtKeys
<1>6. PICK k \in 1 .. n : k = n - keys + 1
  BY <1>1, <1>5
<1>7. k - 1 = n - keys /\ n - keys' = k /\ k - 1 \in 0 .. n /\ k \in Nat
  BY <1>1, <1>5, <1>6
<1>8. PICK f, tr, c, s : f = file /\ tr = trie /\ c = CodeOf(t, k) /\ s = t.symbols[k]
  OBVIOUS
<1>9. PICK o \in Nat : o = koff[k - 1]
  <2>1. koff \in [0 .. n -> Nat]
    BY <1>2, <1>4 DEF KeysAt
  <2> QED
    BY <1>7, <2>1
<1>10. s \in Video!ToSet(t.symbols) /\ c = t.code[s]
  BY <1>3, <1>4, <1>8, Member DEF CodeOf
<1>11. c \in Seq({0, 1}) /\ Len(c) \in Nat \ {0}
  <2>1. film \in Films /\ edata = Video!encode(film)
    BY DEF CodeInv
  <2> QED
    BY <1>2, <1>10, <2>1, CodesNotEmpty
<1>12. /\ koff[k] = o + (2 + Len(Video!encode(c)))
       /\ f[7 + o + 1] = s /\ f[7 + o + 2] = Len(c)
       /\ \A j \in 1 .. Len(Video!encode(c)) : f[(7 + o + 2) + j] = Video!encode(c)[j]
  BY <1>2, <1>4, <1>8, <1>9 DEF KeysAt
<1>13. pointer = 7 + o
  BY <1>5, <1>7, <1>9
<1>14. PICK p \in Nat : p = pointer + 2 /\ p = 7 + o + 2 /\ pointer + 1 = 7 + o + 1
  BY <1>13
<1>15. c = [i0 \in 1 .. Len(c) |-> Video!Bit(f, p * ByteBits + i0 - 1)]
  <2>1. \A j \in 1 .. Len(Video!encode(c)) : f[p + j] = Video!encode(c)[j]
    BY <1>12, <1>14
  <2>2. ASSUME NEW i0 \in 1 .. Len(c) PROVE c[i0] = Video!Bit(f, p * ByteBits + i0 - 1)
    <3>1. PICK m \in 0 .. Len(c) - 1 : m = i0 - 1 /\ m + 1 = i0
      BY <1>11
    <3>2. Video!Bit(f, p * ByteBits + m) = c[m + 1]
      BY <1>11, <2>1, BitAt
    <3>3. p * ByteBits + i0 - 1 = p * ByteBits + m
      <4>1. ByteBits \in Nat
        BY Sizes
      <4>2. p * ByteBits \in Nat
        BY <4>1
      <4> QED
        BY <3>1, <4>2
    <3> QED
      BY <3>1, <3>2, <3>3
  <2>3. c = [i0 \in 1 .. Len(c) |-> c[i0]]
    BY <1>11
  <2> QED
    BY <2>2, <2>3
<1>16. trie' = Video!insert(tr, c, s)
  <2>1. trie' = Video!insert(trie,
                  [i0 \in 1 .. file[pointer + 2] |->
                     Video!Bit(file, (pointer + 2) * ByteBits + i0 - 1)], file[pointer + 1])
    BY DEF Video!InsertKey
  <2>2. file[pointer + 2] = Len(c) /\ file[pointer + 1] = s
    BY <1>8, <1>12, <1>14
  <2> QED
    BY <1>8, <1>14, <1>15, <2>1, <2>2
<1>17. pointer' = 7 + koff[k]
  <2>1. pointer' = pointer + 2 + Video!KeyBytes(file[pointer + 2])
    BY DEF Video!InsertKey
  <2>2. Video!KeyBytes(Len(c)) = Len(Video!encode(c)) /\ Len(Video!encode(c)) \in Nat
    BY <1>11, KeyBytesFacts, EncodeFacts
  <2>3. file[pointer + 2] = Len(c)
    BY <1>8, <1>12, <1>14
  <2>4. PICK m \in Nat : m = Len(Video!encode(c)) /\ m = Video!KeyBytes(Len(c))
    BY <2>2
  <2>5. pointer' = 7 + o + 2 + m
    BY <1>13, <2>1, <2>3, <2>4
  <2>6. koff[k] = o + (2 + m)
    BY <1>12, <2>4
  <2>7. 7 + o + 2 + m = 7 + (o + (2 + m))
    OBVIOUS
  <2> QED
    BY ONLY <2>5, <2>6, <2>7
<1>18. TrieHas(trie', t, SymbolsUpTo(t, k))
  <2>1. PICK S : S = SymbolsUpTo(t, k - 1)
    OBVIOUS
  <2>2. S \in SUBSET Video!ToSet(t.symbols)
    <3>1. ASSUME NEW j \in 1 .. k - 1 PROVE t.symbols[j] \in Video!ToSet(t.symbols)
      <4>1. j \in 1 .. Len(t.symbols)
        BY <1>4, <1>7
      <4> QED
        BY <1>3, <4>1, Member
    <3> QED
      BY <2>1, <3>1 DEF SymbolsUpTo
  <2>3. TrieHas(tr, t, S)
    BY <1>5, <1>7, <1>8, <2>1
  <2>4. TrieHas(Video!insert(tr, t.code[s], s), t, S \cup {s})
    BY <1>3, <1>10, <2>2, <2>3, InsertFacts
  <2>5. SymbolsUpTo(t, k) = S \cup {s}
    <3>1. 1 .. k = (1 .. k - 1) \cup {k}
      BY <1>7
    <3> QED
      BY <1>8, <2>1, <3>1 DEF SymbolsUpTo
  <2> QED
    BY <1>10, <1>16, <2>4, <2>5
<1>19. AtKeys(t, koff)'
  <2>1. keys' \in 0 .. Len(t.symbols) /\ Len(t.symbols) - keys' = k
    BY <1>1, <1>4, <1>5, <1>7
  <2>2. pointer' = 7 + koff[Len(t.symbols) - keys']
    BY <1>17, <2>1
  <2>3. TrieHas(trie', t, SymbolsUpTo(t, Len(t.symbols) - keys'))
    BY <1>18, <2>1
  <2> QED
    BY <2>1, <2>2, <2>3 DEF AtKeys
<1>20. AtHeader(t)' /\ AtData(t, 7 + koff[Len(t.symbols)], hoff)'
  BY <1>1 DEF AtHeader, AtData
<1>21. Coding(t)'
  BY <1>1, <1>2 DEF Coding
<1>22. KeysAt(file, t, koff)' /\ DataAt(file, t, edata, 7 + koff[Len(t.symbols)], hoff)'
  BY <1>1, <1>2
<1>23. FileInv'
  BY <1>19, <1>20, <1>21, <1>22 DEF FileInv
<1>24. NumbersRead' /\ FreshInv' /\ QueueInv'
  BY <1>1 DEF NumbersRead, FreshInv, QueueInv, CodeInv
<1> QED
  BY <1>1, <1>23, <1>24 DEF CodeInv

\* One element more.
LEMMA LongerBeginning ==
  ASSUME NEW S, NEW d \in Seq(S), NEW q \in 0 .. Len(d) - 1
  PROVE  Append(SubSeq(d, 1, q), d[q + 1]) = SubSeq(d, 1, q + 1)
<1>1. q \in 0 .. Len(d) /\ q + 1 \in 0 .. Len(d) /\ q \in Nat /\ q + 1 \in 1 .. Len(d)
  OBVIOUS
<1>2. PICK g \in Seq(S) : g = SubSeq(d, 1, q) /\ Len(g) = q /\ \A k \in 1 .. q : g[k] = d[k]
  BY <1>1, Beginning
<1>3. PICK r \in 0 .. Len(d) : r = q + 1
  BY <1>1
<1>4. PICK h \in Seq(S) : h = SubSeq(d, 1, r) /\ Len(h) = r /\ \A k \in 1 .. r : h[k] = d[k]
  BY Beginning
<1>5. d[q + 1] \in S
  BY <1>1
<1>6. Append(g, d[q + 1]) \in Seq(S) /\ Len(Append(g, d[q + 1])) = r
  BY <1>2, <1>3, <1>5
<1>7. ASSUME NEW k \in 1 .. r PROVE Append(g, d[q + 1])[k] = h[k]
  <2>1. CASE k = r
    BY <1>2, <1>3, <1>4, <2>1
  <2>2. CASE k # r
    <3>1. k \in 1 .. q
      BY <1>1, <1>3, <2>2
    <3> QED
      BY <1>2, <1>4, <3>1
  <2> QED
    BY <2>1, <2>2
<1>8. Append(g, d[q + 1]) = h
  BY <1>4, <1>6, <1>7
<1> QED
  BY <1>2, <1>3, <1>4, <1>8

\* The data begins where the last key ended.
LEMMA StartDataStep ==
  ASSUME CodeInv, Video!StartData
  PROVE  CodeInv'
<1>1. /\ pc = "keys" /\ pc' = "data" /\ film' = film /\ edata' = edata /\ keys = 0
      /\ file' = file /\ buffer' = buffer /\ trie' = trie
      /\ count' = count /\ buffer_size' = buffer_size
      /\ seek' = pointer * ByteBits /\ cur' = <<>>
  BY DEF Video!StartData, Video!encoder, Video!Root
<1>2. PICK t, koff, hoff :
        /\ Coding(t) /\ KeysAt(file, t, koff)
        /\ DataAt(file, t, edata, 7 + koff[Len(t.symbols)], hoff) /\ AtKeys(t, koff)
  BY <1>1 DEF CodeInv, FileInv
<1>3. t.symbols \in Seq(Nat) /\ IsTree(t)
  BY <1>2 DEF Coding, IsTree
<1>4. PICK n \in Nat : n = Len(t.symbols)
  BY <1>3
<1>5. pointer = 7 + koff[n] /\ TrieHas(trie, t, SymbolsUpTo(t, n))
  <2>1. n - keys = n
    BY <1>1
  <2> QED
    BY <1>1, <1>2, <1>4, <2>1 DEF AtKeys
<1>6. SymbolsUpTo(t, n) = Video!ToSet(t.symbols)
  BY <1>3, <1>4 DEF SymbolsUpTo, Video!ToSet
<1>7. koff \in [0 .. n -> Nat]
  BY <1>2, <1>4 DEF KeysAt
<1>8. PICK p \in Nat : p = 7 + koff[n]
  BY <1>7
<1>9. film \in Films /\ edata = Video!encode(film) /\ buffer = <<>>
  BY <1>1 DEF CodeInv, FreshInv
<1>10. edata \in Seq(Nat) /\ Len(edata) \in Nat
  BY <1>9, FilmFacts
<1>11. ASSUME Len(edata) > 0 PROVE Within(t, p, hoff)'
  <2>1. PICK c : c = t.code[edata[1]]
    OBVIOUS
  <2>2. edata[1] \in Video!ToSet(t.symbols)
    <3>1. 1 \in 1 .. Len(edata)
      BY <1>10, <1>11
    <3> QED
      BY <1>2, <1>10, <3>1, Member DEF Coding
  <2>3. c \in Seq({0, 1}) /\ Len(c) \in Nat \ {0}
    BY <1>2, <1>9, <2>1, <2>2, CodesNotEmpty
  <2>4. PICK q \in 0 .. Len(c) - 1 : q = 0
    BY <2>3
  <2>5. SubSeq(c, 1, q) = <<>>
    BY <2>3, <2>4
  <2>6. hoff[0] = 0
    BY <1>2 DEF DataAt
  <2>7. Len(buffer') = 0 /\ Len(buffer') + 1 = 1
    BY <1>1, <1>9
  <2>8. seek' = p * ByteBits + (hoff[Len(buffer')] + q)
    <3>1. p * ByteBits \in Nat
      BY Sizes
    <3>2. hoff[Len(buffer')] + q = 0
      BY <2>4, <2>6, <2>7
    <3>3. seek' = p * ByteBits
      BY <1>1, <1>5, <1>8
    <3> QED
      BY <3>1, <3>2, <3>3
  <2>9. c = t.code[edata'[Len(buffer') + 1]]
    BY <1>1, <2>1, <2>7
  <2>10. cur' = SubSeq(c, 1, q)
    BY <1>1, <2>5
  <2> QED
    BY <2>8, <2>9, <2>10 DEF Within
<1>12. AtData(t, p, hoff)'
  <2>1. TrieHas(trie', t, Video!ToSet(t.symbols))
    BY <1>1, <1>5, <1>6
  <2>2. buffer' = <<>> /\ buffer' \in Seq(Nat) /\ Len(buffer') = 0
    BY <1>1, <1>9
  <2>3. Len(buffer') <= Len(edata') /\ \A k \in 1 .. Len(buffer') : buffer'[k] = edata'[k]
    BY <1>1, <1>10, <2>2
  <2>4. Len(buffer') < Len(edata') => Within(t, p, hoff)'
    BY <1>1, <1>11, <2>2
  <2> QED
    BY <2>1, <2>2, <2>3, <2>4 DEF AtData
<1>13. AtHeader(t)' /\ AtKeys(t, koff)'
  BY <1>1 DEF AtHeader, AtKeys
<1>14. Coding(t)'
  BY <1>1, <1>2 DEF Coding
<1>15. KeysAt(file, t, koff)' /\ DataAt(file, t, edata, 7 + koff[Len(t.symbols)], hoff)'
  BY <1>1, <1>2
<1>16. FileInv'
  BY <1>4, <1>8, <1>12, <1>13, <1>14, <1>15 DEF FileInv
<1>17. NumbersRead' /\ FreshInv' /\ QueueInv'
  BY <1>1 DEF NumbersRead, FreshInv, QueueInv, CodeInv
<1> QED
  BY <1>1, <1>9, <1>16, <1>17 DEF CodeInv

\* A bit: the trie has the child, whose label is that of the code once it is complete,
\* and the next code begins at the next bit.
LEMMA DecodeBitStep ==
  ASSUME CodeInv, Video!DecodeBit
  PROVE  CodeInv'
<1>1. /\ pc = "data" /\ film' = film /\ edata' = edata
      /\ file' = file /\ trie' = trie
      /\ count' = count /\ buffer_size' = buffer_size /\ Len(buffer) < buffer_size
  BY DEF Video!DecodeBit, Video!encoder
<1>2. PICK t, koff, hoff :
        /\ Coding(t) /\ KeysAt(file, t, koff)
        /\ DataAt(file, t, edata, 7 + koff[Len(t.symbols)], hoff)
        /\ AtData(t, 7 + koff[Len(t.symbols)], hoff)
  BY <1>1 DEF CodeInv, FileInv
<1>3. t.symbols \in Seq(Nat) /\ IsTree(t)
  BY <1>2 DEF Coding, IsTree
<1>4. film \in Films /\ edata = Video!encode(film) /\ buffer_size = Len(edata)
  BY <1>1 DEF CodeInv, NumbersRead
<1>5. PICK e \in Seq(Nat) : e = edata
  BY <1>4, FilmFacts
<1>6. PICK p \in Nat : p = 7 + koff[Len(t.symbols)]
  <2>1. koff \in [0 .. Len(t.symbols) -> Nat]
    BY <1>2 DEF KeysAt
  <2>2. Len(t.symbols) \in 0 .. Len(t.symbols)
    BY <1>3
  <2>3. koff[Len(t.symbols)] \in Nat
    BY ONLY <2>1, <2>2
  <2> QED
    BY ONLY <2>3
<1>7. PICK bu \in Seq(Nat) :
         bu = buffer /\ Len(bu) < Len(e) /\ \A k \in 1 .. Len(bu) : bu[k] = e[k]
  BY <1>1, <1>2, <1>4, <1>5 DEF AtData
<1>8. TrieHas(trie, t, Video!ToSet(t.symbols)) /\ Within(t, p, hoff)
  BY <1>1, <1>2, <1>4, <1>6 DEF AtData
<1>9. PICK i0 \in 1 .. Len(e) : i0 = Len(bu) + 1 /\ i0 - 1 = Len(bu)
  BY <1>7
<1>10. PICK s, c : s \in Nat /\ s = e[i0] /\ c = t.code[s]
  <2>1. e[i0] \in Nat
    OBVIOUS
  <2> QED
    BY <2>1
<1>11. s \in Video!ToSet(t.symbols)
  BY <1>2, <1>5, <1>10, Member DEF Coding
<1>12. c \in Seq({0, 1}) /\ Len(c) \in Nat \ {0}
  BY <1>2, <1>4, <1>10, <1>11, CodesNotEmpty
<1>13. PICK o \in Nat : o = hoff[Len(bu)] /\ hoff[i0] = o + Len(c)
  <2>1. hoff \in [0 .. Len(e) -> Nat] /\ \A k \in 1 .. Len(e) : hoff[k] = hoff[k - 1] + Len(t.code[e[k]])
    BY <1>2, <1>5 DEF DataAt
  <2>2. Len(bu) \in 0 .. Len(e)
    BY <1>7
  <2>3. hoff[i0] = hoff[i0 - 1] + Len(c)
    BY <1>10, <2>1
  <2> QED
    BY <1>9, <2>1, <2>2, <2>3
<1>14. PICK q \in 0 .. Len(c) - 1 : cur = SubSeq(c, 1, q) /\ seek = p * ByteBits + (o + q)
  BY <1>5, <1>7, <1>8, <1>9, <1>10, <1>13 DEF Within
<1>15. q \in Nat /\ q + 1 \in 1 .. Len(c)
  BY <1>12, <1>14
<1>16. seek \div ByteBits < Len(file) /\ Video!Bit(file, seek) = c[q + 1]
  <2>1. PICK f : f = file
    OBVIOUS
  <2>2. DataAt(f, t, e, p, hoff)
    BY <1>2, <1>5, <1>6, <2>1
  <2>3. /\ (p * ByteBits + (hoff[i0 - 1] + q)) \div ByteBits < Len(f)
        /\ Video!Bit(f, p * ByteBits + (hoff[i0 - 1] + q)) = t.code[e[i0]][q + 1]
    BY <1>10, <1>14, <2>2 DEF DataAt
  <2> QED
    BY <1>9, <1>10, <1>13, <1>14, <2>1, <2>3
<1>17. PICK ch : ch = SubSeq(c, 1, q + 1)
  OBVIOUS
<1>18. Append(cur, Video!Bit(file, seek)) = ch
  <2>1. Append(SubSeq(c, 1, q), c[q + 1]) = SubSeq(c, 1, q + 1)
    BY <1>12, <1>14, LongerBeginning
  <2> QED
    BY <1>14, <1>16, <1>17, <2>1
<1>19. ch \in DOMAIN trie
  BY <1>8, <1>10, <1>11, <1>15, <1>17 DEF TrieHas
<1>20. /\ seek' = seek + 1
       /\ cur' = IF trie[ch] = Video!NoLabel THEN ch ELSE <<>>
       /\ buffer' = IF trie[ch] = Video!NoLabel THEN buffer ELSE Append(buffer, trie[ch])
       /\ pc' = pc
  <2>1. Video!HasNext(seek, Len(file))
    BY <1>16 DEF Video!HasNext
  <2> QED
    BY <1>18, <1>19, <2>1 DEF Video!DecodeBit, Video!Root
<1>21. AtData(t, p, hoff)'
  <2>1. CASE q + 1 < Len(c)
    <3>1. trie[ch] = Video!NoLabel
      <4>1. q + 1 \in 0 .. Len(c) - 1
        BY <1>12, <1>15, <2>1
      <4> QED
        BY <1>8, <1>10, <1>11, <1>17, <4>1 DEF TrieHas
    <3>2. buffer' = buffer /\ cur' = ch
      BY <1>20, <3>1
    <3>3. PICK r \in 0 .. Len(c) - 1 : r = q + 1
      BY <1>12, <1>15, <2>1
    <3>4. seek' = p * ByteBits + (o + r)
      <4>1. p * ByteBits \in Nat
        BY Sizes
      <4> QED
        BY <1>14, <1>15, <1>20, <3>3, <4>1
    <3>5. Within(t, p, hoff)'
      <4>1. c = t.code[edata'[Len(buffer') + 1]] /\ o = hoff[Len(buffer')]
        BY <1>1, <1>5, <1>7, <1>9, <1>10, <1>13, <3>2
      <4>2. cur' = SubSeq(c, 1, r) /\ seek' = p * ByteBits + (hoff[Len(buffer')] + r)
        BY <1>17, <3>2, <3>3, <3>4, <4>1
      <4> QED
        BY <4>1, <4>2 DEF Within
    <3> QED
      BY <1>1, <1>5, <1>7, <1>8, <3>2, <3>5 DEF AtData
  <2>2. CASE q + 1 = Len(c)
    <3>1. ch = c
      BY <1>12, <1>17, <2>2, WholeBeginning
    <3>2. trie[ch] = s
      BY <1>8, <1>10, <1>11, <3>1 DEF TrieHas
    <3>3. s \in Nat /\ s # Video!NoLabel
      BY <1>10 DEF Video!NoLabel
    <3>4. buffer' = Append(bu, s) /\ cur' = <<>>
      BY <1>7, <1>20, <3>2, <3>3
    <3>5. PICK bn \in Seq(Nat) :
             /\ bn = buffer' /\ Len(bn) = i0
             /\ \A k \in 1 .. Len(bu) : bn[k] = bu[k]
             /\ bn[i0] = s
      <4>1. /\ Append(bu, s) \in Seq(Nat) /\ Len(Append(bu, s)) = Len(bu) + 1
            /\ \A k \in 1 .. Len(bu) : Append(bu, s)[k] = bu[k]
            /\ Append(bu, s)[Len(bu) + 1] = s
        BY <3>3
      <4>2. PICK bn \in Seq(Nat) : bn = Append(bu, s)
        BY <4>1
      <4> QED
        BY <1>9, <3>4, <4>1, <4>2
    <3>6. ASSUME NEW k \in 1 .. Len(bn) PROVE bn[k] = e[k]
      <4>1. CASE k = i0
        BY <1>10, <3>5, <4>1
      <4>2. CASE k # i0
        <5>1. k \in 1 .. Len(bu)
          BY <1>9, <3>5, <4>2
        <5> QED
          BY <1>7, <3>5, <5>1
      <4> QED
        BY <4>1, <4>2
    <3>7. Len(bn) <= Len(e)
      BY <3>5
    <3>8. ASSUME Len(bn) < Len(e) PROVE Within(t, p, hoff)'
      <4>1. PICK d : d = t.code[e[i0 + 1]]
        OBVIOUS
      <4>2. e[i0 + 1] \in Video!ToSet(t.symbols)
        <5>1. i0 + 1 \in 1 .. Len(e)
          BY <3>5, <3>8
        <5> QED
          BY <1>2, <1>5, <5>1, Member DEF Coding
      <4>3. d \in Seq({0, 1}) /\ Len(d) \in Nat \ {0}
        BY <1>2, <1>4, <4>1, <4>2, CodesNotEmpty
      <4>4. PICK r \in 0 .. Len(d) - 1 : r = 0
        BY <4>3
      <4>5. SubSeq(d, 1, r) = <<>>
        BY <4>3, <4>4
      <4>6. seek' = p * ByteBits + (hoff[i0] + r)
        <5>1. p * ByteBits \in Nat
          BY Sizes
        <5> QED
          <6>1. PICK m \in Nat : m = p * ByteBits
            BY <5>1
          <6>2. seek' = m + (o + q) + 1
            BY <1>14, <1>20, <6>1
          <6>3. hoff[i0] = o + (q + 1)
            BY <1>13, <2>2
          <6>4. m + (o + q) + 1 = m + ((o + (q + 1)) + 0)
            BY <1>15
          <6> QED
            BY ONLY <4>4, <6>1, <6>2, <6>3, <6>4
      <4>7. d = t.code[edata'[Len(buffer') + 1]] /\ hoff[Len(buffer')] = hoff[i0]
        BY <1>1, <1>5, <3>5, <4>1
      <4> QED
        BY <3>4, <4>5, <4>6, <4>7 DEF Within
    <3> QED
      BY <1>1, <1>5, <1>8, <3>5, <3>6, <3>7, <3>8 DEF AtData
  <2> QED
    BY <1>12, <1>15, <2>1, <2>2
<1>22. AtHeader(t)' /\ AtKeys(t, koff)'
  BY <1>1, <1>20 DEF AtHeader, AtKeys
<1>23. Coding(t)'
  BY <1>1, <1>2 DEF Coding
<1>24. KeysAt(file, t, koff)' /\ DataAt(file, t, edata, 7 + koff[Len(t.symbols)], hoff)'
  BY <1>1, <1>2
<1>25. FileInv'
  BY <1>6, <1>21, <1>22, <1>23, <1>24 DEF FileInv
<1>26. NumbersRead' /\ FreshInv' /\ QueueInv'
  BY <1>1, <1>20 DEF NumbersRead, FreshInv, QueueInv, CodeInv
<1> QED
  BY <1>1, <1>4, <1>25, <1>26 DEF CodeInv

\* The pool is filled with the bits of the film.
LEMMA FillStep ==
  ASSUME CodeInv, DrawInv, Video!Fill
  PROVE  CodeInv' /\ DrawInv'
<1>1. /\ pc = "data" /\ pc' = "frame" /\ Len(buffer) = buffer_size
      /\ film' = film /\ edata' = edata /\ count' = count /\ visited' = visited /\ frame' = 0
      /\ pool' = [k \in 1 .. buffer_size * ByteBits |->
                    IF Video!Bit(buffer, k - 1) = 1 THEN Video!Blank ELSE "#"]
  BY DEF Video!Fill, Video!encoder
<1>2. PICK t, koff, hoff : AtData(t, 7 + koff[Len(t.symbols)], hoff)
  BY <1>1 DEF CodeInv, FileInv
<1>3. /\ film \in Films /\ edata = Video!encode(film)
      /\ count = Len(film) \div Video!VIDEO_SIZE /\ buffer_size = Len(edata)
  BY <1>1 DEF CodeInv, NumbersRead
<1>4. PICK bits \in Seq({0, 1}) :
        /\ bits = film /\ Len(bits) \in Nat /\ count \in Nat
        /\ Len(bits) = count * Video!VIDEO_SIZE /\ Len(edata) * ByteBits = Len(bits)
  BY <1>3, FilmFacts
<1>5. PICK e \in Seq(Nat) : e = edata /\ e = Video!encode(bits)
  BY <1>3, <1>4, FilmFacts
<1>6. PICK bu : bu = buffer /\ \A k \in 1 .. Len(e) : bu[k] = e[k]
  BY <1>1, <1>2, <1>3, <1>5 DEF AtData
<1>7. ASSUME NEW k \in 1 .. Len(bits) PROVE Video!Bit(bu, k - 1) = bits[k]
  <2>1. PICK p \in Nat, m \in 0 .. Len(bits) - 1 : p = 0 /\ m = k - 1 /\ m + 1 = k
    BY <1>4
  <2>2. \A j \in 1 .. Len(Video!encode(bits)) : bu[p + j] = Video!encode(bits)[j]
    <3>1. \A j \in 1 .. Len(e) : p + j = j
      BY <2>1
    <3> QED
      BY <1>5, <1>6, <3>1
  <2>3. Video!Bit(bu, p * ByteBits + m) = bits[m + 1]
    BY <2>2, BitAt
  <2>4. p * ByteBits + m = k - 1
    BY <2>1, Sizes
  <2> QED
    BY <2>1, <2>3, <2>4
<1>8. pool' = [k \in 1 .. Len(bits) |-> IF bits[k] = 1 THEN Video!Blank ELSE "#"]
  <2>1. pool' = [k \in 1 .. Len(bits) |->
                   IF Video!Bit(bu, k - 1) = 1 THEN Video!Blank ELSE "#"]
    BY <1>1, <1>3, <1>4, <1>6
  <2> QED
    BY <1>7, <2>1
<1>9. pool' \in [1 .. Len(bits) -> Chars]
  BY <1>8 DEF Chars
<1>10. pool' \in Seq(Chars) /\ Len(pool') = Len(bits) /\ DOMAIN pool' = 1 .. Len(bits)
  <2>1. PICK g : g = pool' /\ g \in [1 .. Len(bits) -> Chars]
    BY <1>9
  <2>2. g \in Seq(Chars) /\ Len(g) = Len(bits) /\ DOMAIN g = 1 .. Len(bits)
    BY <1>4, <2>1, FunctionIsSeq
  <2> QED
    BY <2>1, <2>2
<1>11. Video!Blank # "#"
  BY DEF Video!Blank
<1>12. \A k \in 1 .. Len(bits) : (pool'[k] = Video!Blank) = (bits[k] = 1)
  BY <1>8, <1>11
<1>13. Silhouette'
  BY <1>1, <1>4, <1>10, <1>12 DEF Silhouette, Video!Silhouette, Video!VIDEO_SIZE
<1>14. visited' = 0
  BY <1>1 DEF DrawInv, PoolInv
<1>15. PoolInv'
  <2>1. 0 \in 0 .. count /\ Len(pool') = count * Video!VIDEO_SIZE
    BY <1>4, <1>10
  <2> QED
    <3>1. /\ count' \in Nat /\ pool' \in Seq(Chars) /\ frame' \in 0 .. count' /\ ~ (frame' > 0)
          /\ Len(pool') = count' * Video!VIDEO_SIZE
      <4>1. count' \in Nat
        BY <1>1, <1>4
      <4>2. frame' \in 0 .. count' /\ ~ (frame' > 0)
        BY <1>1, <2>1
      <4>3. Len(pool') = count' * Video!VIDEO_SIZE
        BY <1>1, <2>1
      <4> QED
        BY <1>10, <4>1, <4>2, <4>3
    <3>2. visited' \in Nat /\ pc' \notin {"join", "visit"}
      BY <1>1, <1>14
    <3> QED
      BY <1>14, <3>1, <3>2, Zenon DEF PoolInv
<1>16. JoinInv' /\ VisitInv' /\ BlocksColoured'
  BY <1>1 DEF JoinInv, VisitInv, BlocksColoured, Video!BlocksColoured
<1>17. CodeInv'
  BY <1>1, <1>3 DEF CodeInv, QueueInv, FileInv, NumbersRead, FreshInv
<1> QED
  BY <1>13, <1>15, <1>16, <1>17 DEF DrawInv

\* Before the pool is filled nothing is said of it; afterwards the coding is done.
LEMMA CodingKeepsDrawing ==
  ASSUME DrawInv, pc \notin Drawing, pc' \notin Drawing, visited' = visited
  PROVE  DrawInv'
<1>1. \A d \in {"frame", "join", "visit", "outline", "ready"} : pc # d /\ pc' # d
  BY DEF Drawing
<1>2. visited' = 0
  BY <1>1 DEF DrawInv, PoolInv
<1>3. PoolInv'
  BY <1>1, <1>2 DEF PoolInv, Drawing
<1>4. JoinInv' /\ VisitInv' /\ BlocksColoured' /\ Silhouette'
  BY <1>1 DEF JoinInv, VisitInv, BlocksColoured, Video!BlocksColoured, Silhouette, Video!Silhouette
<1> QED
  BY <1>3, <1>4 DEF DrawInv

\* Once the pool is filled the code is not used.
LEMMA DrawingKeepsCoding ==
  ASSUME CodeInv, pc' \in Drawing, film' = film, edata' = edata
  PROVE  CodeInv'
BY DEF CodeInv, QueueInv, FileInv, NumbersRead, FreshInv, Drawing

\* The steps of encode.py, ...
LEMMA EncodeStep ==
  ASSUME CodeInv, DrawInv, Video!Encode
  PROVE  CodeInv' /\ DrawInv'
<1>1. pc \notin Drawing /\ pc' \notin Drawing /\ visited' = visited
  BY DEF Video!Encode, Video!Merge, Video!Write, Video!picture, Drawing
<1> QED
  BY <1>1, MergeStep, WriteStep, CodingKeepsDrawing DEF Video!Encode

\* ... of the decompressor, ...
LEMMA DecodeStep ==
  ASSUME CodeInv, DrawInv, Video!Decode
  PROVE  CodeInv' /\ DrawInv'
<1>1. CASE Video!Header
  <2>1. pc \notin Drawing /\ pc' \notin Drawing /\ visited' = visited
    BY <1>1 DEF Video!Header, Video!picture, Drawing
  <2> QED
    BY <1>1, <2>1, HeaderStep, CodingKeepsDrawing
<1>2. CASE Video!InsertKey
  <2>1. pc \notin Drawing /\ pc' \notin Drawing /\ visited' = visited
    BY <1>2 DEF Video!InsertKey, Video!picture, Drawing
  <2> QED
    BY <1>2, <2>1, InsertKeyStep, CodingKeepsDrawing
<1>3. CASE Video!StartData
  <2>1. pc \notin Drawing /\ pc' \notin Drawing /\ visited' = visited
    BY <1>3 DEF Video!StartData, Video!picture, Drawing
  <2> QED
    BY <1>3, <2>1, StartDataStep, CodingKeepsDrawing
<1>4. CASE Video!DecodeBit
  <2>1. pc = "data" /\ pc' \in {"data", "panic", "null"} /\ visited' = visited
    BY <1>4 DEF Video!DecodeBit, Video!picture
  <2>2. pc \notin Drawing /\ pc' \notin Drawing
    BY <2>1 DEF Drawing
  <2> QED
    BY <1>4, <2>1, <2>2, DecodeBitStep, CodingKeepsDrawing
<1> QED
  BY <1>1, <1>2, <1>3, <1>4 DEF Video!Decode

\* ... and of the rest of the constructor.
LEMMA DrawStep ==
  ASSUME CodeInv, DrawInv, Video!Draw
  PROVE  CodeInv' /\ DrawInv'
<1>1. CASE Video!Fill
  BY <1>1, FillStep
<1>2. CASE Video!Separate
  <2>1. pc' \in Drawing /\ film' = film /\ edata' = edata
    BY <1>2 DEF Video!Separate, Video!encoder, Drawing
  <2> QED
    BY <1>2, <2>1, SeparateStep, DrawingKeepsCoding
<1>3. CASE Video!Connect
  <2>1. pc' \in Drawing /\ film' = film /\ edata' = edata
    BY <1>3 DEF Video!Connect, Video!encoder, Drawing
  <2> QED
    BY <1>3, <2>1, ConnectStep, DrawingKeepsCoding
<1>4. CASE Video!Visit
  <2>1. pc' \in Drawing /\ film' = film /\ edata' = edata
    BY <1>4 DEF Video!Visit, Video!encoder, Drawing
  <2> QED
    BY <1>4, <2>1, VisitStep, DrawingKeepsCoding
<1>5. CASE Video!Turn
  <2>1. pc' \in Drawing /\ film' = film /\ edata' = edata
    BY <1>5 DEF Video!Turn, Video!encoder, Drawing
  <2> QED
    BY <1>5, <2>1, TurnStep, DrawingKeepsCoding
<1>6. CASE Video!Outline
  <2>1. pc' \in Drawing /\ film' = film /\ edata' = edata
    BY <1>6 DEF Video!Outline, Video!encoder, Drawing
  <2> QED
    BY <1>6, <2>1, OutlineStep, DrawingKeepsCoding
<1> QED
  BY <1>1, <1>2, <1>3, <1>4, <1>5, <1>6 DEF Video!Draw

\* At first no byte is in a tree with another.
LEMMA FilmInit == Init => CodeInv /\ DrawInv
<1> SUFFICES ASSUME Init PROVE CodeInv /\ DrawInv
  OBVIOUS
<1>1. /\ pc = "merge" /\ film \in Films /\ edata = Video!encode(film)
      /\ queue = {Video!Leaf(n) : n \in Video!ToSet(edata)}
      /\ trie = [p \in {Video!Root} |-> Video!NoLabel] /\ buffer = <<>> /\ visited = 0
  BY DEF Init, Video!Init
<1>2. PICK e \in Seq(Nat) : e = edata
  BY <1>1, FilmFacts
<1>3. DOMAIN e = 1 .. Len(e) /\ Len(e) \in Nat
  OBVIOUS
<1>4. IsFiniteSet(queue)
  <2> DEFINE g == [k \in 1 .. Len(e) |-> Video!Leaf(e[k])]
  <2>1. \A k \in 1 .. Len(e) : g[k] \in queue
    BY <1>1, <1>2, Member
  <2>2. g \in Seq(queue) /\ Len(g) = Len(e)
    BY <1>3, <2>1
  <2>3. ASSUME NEW x \in queue PROVE \E k \in 1 .. Len(g) : g[k] = x
    <3>1. PICK n \in Video!ToSet(edata) : x = Video!Leaf(n)
      BY <1>1
    <3>2. PICK k \in 1 .. Len(e) : n = e[k]
      BY <1>2, <1>3 DEF Video!ToSet
    <3> QED
      BY <2>2, <3>1, <3>2
  <2> HIDE DEF g
  <2> QED
    BY <2>2, <2>3 DEF IsFiniteSet
<1>5. ASSUME NEW n \in Nat
      PROVE  IsTree(Video!Leaf(n)) /\ n \in Video!ToSet(Video!Leaf(n).symbols)
  <2> DEFINE t == Video!Leaf(n)
  <2>1. t.symbols = <<n>> /\ t.code = [s \in {n} |-> <<>>]
    BY DEF Video!Leaf
  <2> HIDE DEF t
  <2>2. Video!ToSet(t.symbols) = {n} /\ t.symbols \in Seq(Nat)
    BY <2>1 DEF Video!ToSet
  <2>3. IsTree(t)
    BY <2>1, <2>2 DEF IsTree
  <2> QED
    BY <2>2, <2>3 DEF t
<1>6. \A n \in Video!ToSet(edata) : n \in Nat
  BY <1>2 DEF Video!ToSet
<1>7. QueueInv
  <2>1. \A t \in queue : IsTree(t)
    BY <1>1, <1>5, <1>6
  <2>2. ASSUME NEW s \in Video!ToSet(edata) PROVE \E t \in queue : s \in Video!ToSet(t.symbols)
    <3>1. Video!Leaf(s) \in queue
      BY <1>1
    <3> QED
      BY <1>5, <1>6, <3>1
  <2> QED
    BY <1>4, <2>1, <2>2 DEF QueueInv
<1>8. CodeInv
  BY <1>1, <1>7 DEF CodeInv, FileInv, NumbersRead, FreshInv
<1>9. PoolInv /\ JoinInv /\ VisitInv
  BY <1>1 DEF PoolInv, JoinInv, VisitInv, Drawing
<1>10. BlocksColoured /\ Silhouette
  BY <1>1 DEF BlocksColoured, Video!BlocksColoured, Silhouette, Video!Silhouette
<1> QED
  BY <1>8, <1>9, <1>10 DEF DrawInv

\* The inductive invariant.
VideoInv == CodeInv /\ DrawInv

\* Every step of the program keeps it.
LEMMA FilmStep == VideoInv /\ [Next]_vars => VideoInv'
<1> SUFFICES ASSUME VideoInv, [Next]_vars PROVE VideoInv'
  OBVIOUS
<1>1. CASE Build
  BY <1>1, EncodeStep DEF Build, VideoInv
<1>2. CASE Construct
  BY <1>2, DecodeStep, DrawStep DEF Construct, VideoInv
<1>3. ASSUME UNCHANGED videoVars PROVE VideoInv'
  <2>1. CodeInv'
    <3>1. film' \in Films /\ edata' = Video!encode(film')
      BY <1>3 DEF videoVars, VideoInv, CodeInv
    <3>2. QueueInv' /\ NumbersRead' /\ FreshInv'
      BY <1>3 DEF videoVars, VideoInv, CodeInv, QueueInv, NumbersRead, FreshInv
    <3>3. FileInv'
      <4>1. CASE pc \in {"header", "keys", "data"}
        <5>1. PICK t, koff, hoff :
                /\ Coding(t)
                /\ KeysAt(file, t, koff)
                /\ DataAt(file, t, edata, 7 + koff[Len(t.symbols)], hoff)
                /\ AtHeader(t) /\ AtKeys(t, koff) /\ AtData(t, 7 + koff[Len(t.symbols)], hoff)
          BY <4>1 DEF VideoInv, CodeInv, FileInv
        <5>2. Coding(t)' /\ KeysAt(file, t, koff)'
              /\ DataAt(file, t, edata, 7 + koff[Len(t.symbols)], hoff)'
          BY <1>3, <5>1 DEF videoVars, Coding
        <5>3. AtHeader(t)'
          BY <1>3, <5>1 DEF videoVars, AtHeader, HeadOf
        <5>4. AtKeys(t, koff)'
          BY <1>3, <5>1 DEF videoVars, AtKeys
        <5>5. AtData(t, 7 + koff[Len(t.symbols)], hoff)'
          BY <1>3, <5>1 DEF videoVars, AtData, Within
        <5> QED
          BY <5>2, <5>3, <5>4, <5>5 DEF FileInv
      <4>2. CASE pc \notin {"header", "keys", "data"}
        BY <1>3, <4>2 DEF videoVars, FileInv
      <4> QED
        BY <4>1, <4>2
    <3> QED
      BY <3>1, <3>2, <3>3 DEF CodeInv
  <2>2. PoolInv'
    BY <1>3 DEF videoVars, VideoInv, DrawInv, PoolInv, Video!at
  <2>3. JoinInv'
    BY <1>3 DEF videoVars, VideoInv, DrawInv, JoinInv, Ini, Begins, Apart, JoinedSoFar,
                Video!at, Video!Drawn, Video!Connected
  <2>4. VisitInv'
    BY <1>3 DEF videoVars, VideoInv, DrawInv, VisitInv, Ini, Begins, Blocks, ShownSoFar,
                Video!at, Video!Drawn, Video!Connected, Video!Block
  <2>5. BlocksColoured'
    <3>1. \A f, c : Video!at(f, c)' = Video!at(f, c)
      BY <1>3 DEF videoVars, Video!at
    <3>2. \A f : Video!Drawn(f)' = Video!Drawn(f)
      BY <3>1 DEF Video!Drawn
    <3>3. \A f, S : Video!Connected(f, S)' <=> Video!Connected(f, S)
      BY <3>2 DEF Video!Connected
    <3>4. \A f, c : Video!Block(f, c)' = Video!Block(f, c)
      BY <3>2, <3>3 DEF Video!Block
    <3>5. PICK f : f = frame - 1
      OBVIOUS
    <3>6. pc = "frame" /\ frame > 0 => Coloured(f)
      <4>1. pc = "frame" /\ frame > 0 => Coloured(frame - 1)
        BY Zenon DEF VideoInv, DrawInv, BlocksColoured, Video!BlocksColoured, Coloured
      <4> QED
        BY <3>5, <4>1
    <3>7. Coloured(f) => Coloured(f)'
      BY <3>1, <3>2, <3>4 DEF Coloured
    <3>8. pc' = pc /\ frame' = frame /\ frame' - 1 = f
      BY <1>3, <3>5 DEF videoVars
    <3>9. pc' = "frame" /\ frame' > 0 => Coloured(frame - 1)'
      BY <3>6, <3>7, <3>8 DEF Coloured
    <3> QED
      BY <3>9, Zenon DEF Coloured, BlocksColoured, Video!BlocksColoured
  <2>6. Silhouette'
    BY <1>3 DEF videoVars, VideoInv, DrawInv, Silhouette, Video!Silhouette
  <2> QED
    BY <2>1, <2>2, <2>3, <2>4, <2>5, <2>6 DEF VideoInv, DrawInv
<1>4. CASE Register
  BY <1>3, <1>4 DEF Register
<1>5. CASE NextTable
  BY <1>3, <1>5 DEF NextTable
<1>6. CASE Later
  BY <1>3, <1>6 DEF Later
<1>7. CASE UNCHANGED vars
  BY <1>3, <1>7 DEF vars
<1> QED
  BY <1>1, <1>2, <1>4, <1>5, <1>6, <1>7 DEF Next

\* From the moment that the constructor of badapple::video fills it, the pool has
\* as many cells as the film and is blank exactly where the film is: the
\* decompressor (decompressor.cc, stream.cc) inverts encode.py for every film,
\* whichever of equally rare trees are joined first, and neither the joining, the
\* colouring nor the outlining (video.cc) changes the silhouette.
THEOREM FilmIsDecoded == Spec => []Silhouette
<1>1. Init => VideoInv
  BY FilmInit DEF VideoInv
<1>2. VideoInv => Silhouette
  BY DEF VideoInv, DrawInv
<1> QED
  BY <1>1, <1>2, FilmStep, PTL DEF Spec

\* When a frame has been drawn, each connected block of it has one character, and
\* a large block keeps one of its characters of the frame before, if it had any:
\* find(), join() and the loops of video::video() compute the connected blocks
\* of any frame, whatever characters rand() chooses.
THEOREM BlocksAreColoured == Spec => []BlocksColoured
<1>1. Init => VideoInv
  BY FilmInit DEF VideoInv
<1>2. VideoInv => BlocksColoured
  BY DEF VideoInv, DrawInv
<1> QED
  BY <1>1, <1>2, FilmStep, PTL DEF Spec

=============================================================================
