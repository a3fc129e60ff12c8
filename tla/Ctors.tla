-------------------------------- MODULE Ctors --------------------------------
(***************************************************************************)
(* abi::ctors() (krnl/abi/ctor.cc) calls the constructors that the linker  *)
(* has listed, in the main flow.  Each registers the destructor of its     *)
(* object (AtExit) as the compiler has it do; that of badapple::video      *)
(* first decodes and draws the film (Video).  The kernel lists the video   *)
(* alone; other lists stand for other users of this runtime, who construct *)
(* local statics and finalize later.                                       *)
(***************************************************************************)
EXTENDS Integers, Sequences

CONSTANTS
  Films, Row, Col, ByteBits, Large,                            \* of Video
  Functions, Word, Multiplier, SLOT_SIZE, Capacity, MaxIndex,  \* of AtExit
  VideoDtor,   \* the one of Functions that destroys v
  Lists        \* pairs, .init_array and .ctors: sequences of destructors

VARIABLES
  pc, film, edata, queue, file, pointer, keys, count, buffer_size, trie, cur,
  seek, buffer, pool, frame, visited, dsu,                     \* of Video
  slot_header, cur_insert_index, doing, fn, all, at,           \* of AtExit
  lists,
  which, i    \* the table wkctor() is at, 3 for none, and its local i

Video == INSTANCE Video

\* Films are whole screens and whole bytes, and not the same byte throughout.
ASSUME CtorsAssumption ==
  /\ Capacity \in Nat
  /\ \A l \in Lists : l[1] \in Seq(Functions) /\ l[2] \in Seq(Functions)
  /\ {Row, Col, ByteBits, Large} \subseteq Nat \ {0}
  /\ \A f \in Films :
       /\ f \in Seq({0, 1})
       /\ Len(f) % (Row * Col) = 0 /\ Len(f) % ByteBits = 0
       /\ \E j, k \in DOMAIN Video!encode(f) : Video!encode(f)[j] # Video!encode(f)[k]

Objects == {16 * n : n \in 1 .. MaxIndex}
AtExit == INSTANCE AtExit

videoVars == << pc, film, edata, queue, file, pointer, keys, count, buffer_size,
                trie, cur, seek, buffer, pool, frame, visited, dsu >>
exitVars == <<slot_header, cur_insert_index, doing, fn, all, at>>
vars == <<videoVars, exitVars, lists, which, i>>

HasVideo == \E l \in 1 .. 2 : \E k \in DOMAIN lists[l] : lists[l][k] = VideoDtor

\* link.ld: how many words there are between the labels of a table, less two;
\* the entries; a zero.
Table(l) == LET words == 1 + Len(l) + 1 IN << words - 2 >> \o l \o <<0>>

Init ==
  /\ lists \in Lists
  /\ Video!Init /\ (~HasVideo => film = CHOOSE f \in Films : TRUE)
  /\ AtExit!Init
  /\ which = 1 /\ i = 1

\* resource/encode.py runs when the kernel is built.
Build ==
  /\ HasVideo
  /\ Video!Encode
  /\ UNCHANGED <<exitVars, lists, which, i>>

Constructing ==
  /\ which <= 2 /\ i <= Table(lists[which])[1]
  /\ HasVideo => pc \notin {"merge", "refused"}
ctor == Table(lists[which])[i + 1]

\* The constructor's own work, ...
Construct ==
  /\ Constructing /\ ctor = VideoDtor /\ pc # "ready"
  /\ Video!Decode \/ Video!Draw
  /\ UNCHANGED <<exitVars, lists, which, i>>

\* ... and its registration; objects are numbered as they are constructed.
Register ==
  /\ Constructing /\ (ctor = VideoDtor => pc = "ready")
  /\ AtExit!cxa_atexit(ctor, 16 * (cur_insert_index + 1))
  /\ i' = i + 1
  /\ UNCHANGED <<videoVars, lists, which>>

\* The end of wkctor() for one table.
NextTable ==
  /\ which <= 2 /\ i > Table(lists[which])[1]
  /\ which' = which + 1 /\ i' = 1
  /\ UNCHANGED <<videoVars, exitVars, lists>>

\* After ctors(): a local static is constructed, or somebody finalizes.
Later ==
  /\ which = 3
  /\ \/ \E f \in Functions \ {VideoDtor} :
          AtExit!cxa_atexit(f, 16 * (cur_insert_index + 1))
     \/ \E f \in Functions : AtExit!FinalizeOne(f)
     \/ AtExit!FinalizeAll
     \/ AtExit!Going
  /\ UNCHANGED <<videoVars, lists, which, i>>

Next == Build \/ Construct \/ Register \/ NextTable \/ Later

\* Nothing runs beside the main flow but interrupts, which return.
Spec == Init /\ [][Next]_vars /\ WF_vars(Build \/ Construct \/ Register \/ NextTable)

----------------------------------------------------------------------------
(* Properties, of Video and of AtExit                                      *)

\* The pool is the film's silhouette from the moment it is filled.
Silhouette == Video!Silhouette

\* A connected block is drawn in one character; large ones keep theirs.
BlocksColoured == Video!BlocksColoured

\* The chains and vectors of cxa_atexit() are sound.
TableSound == AtExit!TableSound

\* Destructors are called once each, in the reverse order of construction.
ImplementsRegistry == AtExit!ImplementsRegistry

\* The constructor of the video comes to its end, so that play() finds v.
FilmReady == HasVideo => <>(pc = "ready")

=============================================================================
