-------------------------------- MODULE Heap --------------------------------
(***************************************************************************)
(* mm/malloc.cc (Doug Lea's malloc 2.8.6 as config.h configures it: no     *)
(* mmap, no locks, no footers) on mm/sbrk.cc.  Operators have the names of *)
(* the functions and macros they translate; m is the malloc_state, with    *)
(* the break and the memory that holds the chunks.  Nothing but malloc     *)
(* moves the break, so there is one segment and it ends at the break.      *)
(***************************************************************************)
EXTENDS Integers, Sequences, FiniteSets, SequencesExt, TLC

CONSTANTS
  Word,            \* 2^32: size_t and pointers are taken modulo this
  HalfWord,        \* 2^16
  Begin, End,      \* KRNL_MEM_BEGIN, KRNL_MEM_END
  PageSize,        \* malloc_getpagesize, and so the first granularity
  TrimThreshold,   \* DEFAULT_TRIM_THRESHOLD
  Sizes,           \* what callers ask for
  Lists,           \* lists of sizes for the independent_... calls
  Products,        \* numbers and sizes for calloc()
  Aligned,         \* call, alignment and size for the memalign() family
  Values,          \* arguments of malloc_trim(), mallopt(), footprint limit
  Orders,          \* of the blocks, by address, in the arrays to bulk_free()
  MaxCalls,        \* bounds the calls of a behaviour
  MaxOther         \* how many of the first may be other than malloc(), free()

ASSUME HeapAssumption ==
  /\ Word = HalfWord * HalfWord
  /\ 0 < Begin /\ Begin < End /\ End < Word
  /\ Begin % PageSize = 0 /\ PageSize % 64 = 0
  /\ \E k \in 4 .. 16 : PageSize = 2 ^ k

VARIABLES
  gm,       \* the malloc_state, the memory and the break
  blocks,   \* the callers' blocks: address -> bytes asked for
  ret,      \* what the last malloc() asked for and returned
  calls

vars == <<gm, blocks, ret, calls>>

Null == 0
MFAIL == Word - 1
U(n) == n % Word
MaxSizeT == Word - 1
Overhead == 4                       \* CHUNK_OVERHEAD
MinChunk == 16                      \* MIN_CHUNK_SIZE
MaxRequest == U((-MinChunk) * 4)    \* MAX_REQUEST
TopFoot == 40                       \* TOP_FOOT_SIZE
Padding == TopFoot + 8              \* SYS_ALLOC_PADDING

RoundUp(n, unit) == LET t == U(n + unit - 1) IN t - (t % unit)
chunk2mem(p) == p + 8
mem2chunk(mem) == mem - 8
pad_request(bytes) == RoundUp(bytes + Overhead, 8)
request2size(bytes) ==
  IF bytes < MinChunk - Overhead - 1 THEN MinChunk ELSE pad_request(bytes)

Nothing(m) == [m |-> m, mem |-> Null]

Put(f, a, v) == (a :> v) @@ f
Without(f, a) == [x \in DOMAIN f \ {a} |-> f[x]]
SumOf(seq) == FoldLeft(+, 0, seq)
Least(S, rank) == CHOOSE x \in S : \A y \in S : rank[x] <= rank[y]

----------------------------------------------------------------------------
(* Heads and feet of chunks                                                *)

chunksize(m, p) == m.head[p].size
pinuse(m, p) == m.head[p].pinuse
cinuse(m, p) == m.head[p].cinuse
Head3(s, pin, cin) == [size |-> s, pinuse |-> pin, cinuse |-> cin]
SetHead(m, p, h) == [m EXCEPT !.head = Put(@, p, h)]
SetPinuse(m, n, bit) == SetHead(m, n, Head3(chunksize(m, n), bit, cinuse(m, n)))

\* A chunk cut out of another has no head yet: what its word holds then is
\* overwritten, its pinuse bit by the chunk before it.
Pending(m, p) == p \in DOMAIN m.head /\ pinuse(m, p)
SetNextPinuse(m, n) ==
  IF n \in DOMAIN m.head THEN SetPinuse(m, n, TRUE)
  ELSE SetHead(m, n, Head3(0, TRUE, FALSE))

set_inuse(m, p, s) ==
  SetNextPinuse(SetHead(m, p, Head3(s, Pending(m, p), TRUE)), p + s)
set_inuse_and_pinuse(m, p, s) ==
  SetNextPinuse(SetHead(m, p, Head3(s, TRUE, TRUE)), p + s)
set_size_and_pinuse_of_inuse_chunk(m, p, s) == SetHead(m, p, Head3(s, TRUE, TRUE))
set_size_and_pinuse_of_free_chunk(m, p, s) ==
  [SetHead(m, p, Head3(s, TRUE, FALSE)) EXCEPT !.foot = Put(@, p + s, s)]
set_free_with_pinuse(m, p, s, n) ==
  set_size_and_pinuse_of_free_chunk(SetPinuse(m, n, FALSE), p, s)

----------------------------------------------------------------------------
(* Small bins: lists, the chunk at b->fd first                             *)

small_index(s) == s \div 8
is_small(s) == small_index(s) < 32

insert_small_chunk(m, p, s) ==
  LET i == small_index(s)
      rest == IF i \in m.smallmap THEN m.smallbins[i] ELSE <<>>
  IN  [m EXCEPT !.smallmap = @ \cup {i}, !.smallbins = Put(@, i, <<p>> \o rest)]

unlink_small_chunk(m, p, s) ==
  LET i == small_index(s)
      rest == Remove(m.smallbins[i], p)
  IN  [m EXCEPT !.smallbins = Put(@, i, rest),
                !.smallmap = IF rest = <<>> THEN @ \ {i} ELSE @]

replace_dv(m, p, s) ==
  [(IF m.dvsize # 0 THEN insert_small_chunk(m, m.dv, m.dvsize) ELSE m)
     EXCEPT !.dv = p, !.dvsize = s]

----------------------------------------------------------------------------
(* Tree bins.  A node is known by its place: its bin, then the child[]     *)
(* taken at each step from the root.  A place holds a ring of chunks of    *)
(* one size, in the order of fd, the one linked into the tree first.       *)

compute_tree_index(s) ==
  LET x == s \div 256
      k == CHOOSE k \in 0 .. 15 : 2 ^ k <= x /\ x < 2 ^ (k + 1)
  IN  IF x = 0 THEN 0 ELSE IF x > 65535 THEN 31
      ELSE 2 * k + ((s \div 2 ^ (k + 7)) % 2)

\* The bit of s that chooses the child at place k of bin k[1].
bit_for_tree_index(i) == IF i = 31 THEN 31 ELSE i \div 2 + 6
Turn(s, k) == (s \div 2 ^ (bit_for_tree_index(k[1]) + 1 - Len(k))) % 2

\* The places that lead to size s from the root of its bin, first to last.
Descent(m, s) ==
  LET from[k \in Seq(Nat)] ==
        IF k \notin DOMAIN m.tree THEN <<>>
        ELSE IF chunksize(m, m.tree[k][1]) = s THEN <<k>>
        ELSE <<k>> \o from[Append(k, Turn(s, k))]
  IN  from[<<compute_tree_index(s)>>]

\* A chunk of a new size becomes a leaf below t, or the root of its bin, one of
\* a size that is there the second of its ring.
insert_below(m, x, s, t) ==
  IF chunksize(m, m.tree[t][1]) = s
  THEN [m EXCEPT !.tree = Put(@, t, << m.tree[t][1], x >> \o Tail(m.tree[t]))]
  ELSE [m EXCEPT !.tree = Put(@, Append(t, Turn(s, t)), <<x>>)]

insert_root(m, x, i) == [m EXCEPT !.treemap = @ \cup {i}, !.tree = Put(@, <<i>>, <<x>>)]

insert_large_chunk(m, x, s) ==
  IF compute_tree_index(s) \in m.treemap THEN insert_below(m, x, s, Last(Descent(m, s)))
  ELSE insert_root(m, x, compute_tree_index(s))

Child(m, k, b) == Append(k, b) \in DOMAIN m.tree

\* From a place down, with a preference for child[b].
Downward(m, k, b) ==
  LET from[q \in Seq(Nat)] ==
        IF Child(m, q, b) THEN <<q>> \o from[Append(q, b)]
        ELSE IF Child(m, q, 1 - b) THEN <<q>> \o from[Append(q, 1 - b)]
        ELSE <<q>>
  IN  from[k]

\* The chunk before x in its ring takes its place, or else a leaf below it.
unlink_at(m, x, k, ring, leaf) ==
  IF Len(ring) > 1
  THEN [m EXCEPT !.tree = Put(@, k,
          IF x = ring[1] THEN <<Last(ring)>> \o Tail(Front(ring)) ELSE Remove(ring, x))]
  ELSE IF leaf # k
  THEN [m EXCEPT !.tree = Without(Put(@, k, @[leaf]), leaf)]
  ELSE [m EXCEPT !.tree = Without(@, k),
                 !.treemap = IF Len(k) = 1 THEN @ \ {k[1]} ELSE @]

unlink_large_chunk(m, x) ==
  LET k == CHOOSE k \in DOMAIN m.tree : x \in ToSet(m.tree[k])
  IN  unlink_at(m, x, k, m.tree[k], Last(Downward(m, k, 1)))

insert_chunk(m, p, s) ==
  IF is_small(s) THEN insert_small_chunk(m, p, s) ELSE insert_large_chunk(m, p, s)
unlink_chunk(m, p, s) ==
  IF is_small(s) THEN unlink_small_chunk(m, p, s) ELSE unlink_large_chunk(m, p)

----------------------------------------------------------------------------
(* Memory from and to sbrk()                                               *)

moved_break(m, increment, to) ==
  IF to < Begin \/ to > End THEN [m |-> m, at |-> MFAIL, size |-> increment]
  ELSE [m |-> [m EXCEPT !.pbreak = to], at |-> m.pbreak, size |-> increment]

sbrk(m, increment) == moved_break(m, increment, U(m.pbreak + increment))

ensure_initialization(m) ==
  IF m.granularity # 0 THEN m
  ELSE [m EXCEPT !.granularity = PageSize, !.trim_threshold = TrimThreshold]

\* Before the first allocation the granularity is zero, and so is the result.
granularity_align(m, n) == IF m.granularity = 0 THEN 0 ELSE RoundUp(n, m.granularity)

init_top(m, p, s) ==
  [SetHead(SetHead(m, p, Head3(s, TRUE, FALSE)), p + s, Head3(TopFoot, FALSE, FALSE))
     EXCEPT !.top = p, !.topsize = s, !.trim_check = m.trim_threshold]

\* From the top; with nothing when it is too small.
split_top(m, nb) ==
  IF nb >= m.topsize THEN Nothing(m)
  ELSE LET r == m.top + nb
           s == m.topsize - nb
       IN  [m |-> [set_size_and_pinuse_of_inuse_chunk(
                     SetHead(m, r, Head3(s, TRUE, FALSE)), m.top, nb)
                     EXCEPT !.top = r, !.topsize = s],
            mem |-> chunk2mem(m.top)]

within_limit(m, n) ==
  \/ m.footprint_limit = 0
  \/ U(m.footprint + n) > m.footprint /\ U(m.footprint + n) <= m.footprint_limit

\* What a first try asks for: with a top, the part of the request it lacks.
contiguous_size(m, nb, asize) ==
  IF m.top = Null THEN U(asize + RoundUp(m.pbreak, PageSize) - m.pbreak)
  ELSE granularity_align(m, U(nb - m.topsize + Padding))

contiguous(m, nb, ssize) ==
  IF /\ ~m.noncontiguous /\ ssize < MaxSizeT \div 2
     /\ m.top = Null => ssize > nb /\ within_limit(m, ssize)
  THEN sbrk(m, ssize)
  ELSE [m |-> m, at |-> MFAIL, size |-> ssize]

\* After a failure, and from then on, the whole request is asked for.
second_try(first, asize) ==
  IF first.at # MFAIL \/ asize >= MaxSizeT \div 2
  THEN [first EXCEPT !.m.noncontiguous = @ \/ first.at = MFAIL]
  ELSE sbrk([first.m EXCEPT !.noncontiguous = TRUE], asize)

account(got) ==
  [got.m EXCEPT !.footprint = @ + got.size, !.size = @ + got.size,
                !.max_footprint = Max({@, got.m.footprint + got.size}),
                !.base = IF got.m.top = Null THEN got.at ELSE @]

\* The space is the first, or it follows the top, which ends at the break.
extend_top(m, got, nb) ==
  IF got.at = MFAIL THEN [m |-> got.m, mem |-> Null]
  ELSE IF m.top = Null
  THEN split_top(init_top(account(got), got.at, got.size - TopFoot), nb)
  ELSE split_top(init_top(account(got), m.top, m.topsize + got.size), nb)

grow(m, nb, asize) ==
  IF asize <= nb \/ ~within_limit(m, asize) THEN Nothing(m)
  ELSE extend_top(m, second_try(contiguous(m, nb, contiguous_size(m, nb, asize)), asize), nb)

initialized_alloc(m, nb) == grow(m, nb, granularity_align(m, U(nb + Padding)))
sys_alloc(m, nb) == initialized_alloc(ensure_initialization(m), nb)

released_top(m, back, extra) ==
  IF extra > 0 /\ back.at # MFAIL
  THEN init_top([back.m EXCEPT !.size = @ - extra, !.footprint = @ - extra],
                m.top, m.topsize - extra)
  ELSE IF m.topsize > m.trim_check THEN [m EXCEPT !.trim_check = MaxSizeT]
  ELSE m

\* Whole units that the top can do without, all but one.
spare(m, pad) ==
  IF m.topsize <= pad THEN 0
  ELSE ((m.topsize - pad + m.granularity - 1) \div m.granularity - 1) * m.granularity

initialized_trim(m, pad) ==
  IF pad >= MaxRequest \/ m.top = Null THEN m
  ELSE LET extra == spare(m, pad + TopFoot) IN released_top(m, sbrk(m, -extra), extra)
sys_trim(m, pad) == initialized_trim(ensure_initialization(m), pad)

trim_if_due(m, grown) == IF grown > m.trim_check THEN sys_trim(m, 0) ELSE m

----------------------------------------------------------------------------
(* Freeing                                                                 *)

file(m, p, s) == IF p = m.dv THEN [m EXCEPT !.dvsize = s] ELSE insert_chunk(m, p, s)

\* Mutant: a designated victim that joins the top remains one.
MutJoinForward(m, p, s, next) ==
  IF cinuse(m, next)
  THEN IF p = m.dv /\ pinuse(m, next)
       THEN set_free_with_pinuse([m EXCEPT !.dvsize = s], p, s, next)
       ELSE insert_chunk(set_free_with_pinuse(m, p, s, next), p, s)
  ELSE IF next = m.top
  THEN [SetHead(m, p, Head3(m.topsize + s, TRUE, FALSE)) EXCEPT !.top = p, !.topsize = @ + s]
  ELSE IF next = m.dv
  THEN [set_size_and_pinuse_of_free_chunk(m, p, s + m.dvsize)
          EXCEPT !.dv = p, !.dvsize = s + @]
  ELSE file(set_size_and_pinuse_of_free_chunk(
              unlink_chunk(m, next, chunksize(m, next)), p, s + chunksize(m, next)),
            p, s + chunksize(m, next))

\* The chunk of s bytes at p, in front of next, joins the free ones after it.
join_forward(m, p, s, next) ==
  IF cinuse(m, next)
  THEN IF p = m.dv /\ pinuse(m, next)
       THEN set_free_with_pinuse([m EXCEPT !.dvsize = s], p, s, next)
       ELSE insert_chunk(set_free_with_pinuse(m, p, s, next), p, s)
  ELSE IF next = m.top
  THEN [SetHead(m, p, Head3(m.topsize + s, TRUE, FALSE))
          EXCEPT !.top = p, !.topsize = @ + s,
                 !.dv = IF p = @ THEN Null ELSE @,
                 !.dvsize = IF p = m.dv THEN 0 ELSE @]
  ELSE IF next = m.dv
  THEN [set_size_and_pinuse_of_free_chunk(m, p, s + m.dvsize)
          EXCEPT !.dv = p, !.dvsize = s + @]
  ELSE file(set_size_and_pinuse_of_free_chunk(
              unlink_chunk(m, next, chunksize(m, next)), p, s + chunksize(m, next)),
            p, s + chunksize(m, next))

\* The chunk of psize bytes at p joins the one before it first.
dispose_chunk(m, p, psize) ==
  LET q == p - m.foot[p]
  IN  IF pinuse(m, p) THEN join_forward(m, p, psize, p + psize)
      ELSE join_forward(IF q = m.dv THEN m ELSE unlink_chunk(m, q, m.foot[p]),
                        q, psize + m.foot[p], p + psize)

trim_grown(m, g) == IF g.topsize > m.topsize THEN trim_if_due(g, g.topsize) ELSE g
dlfree(m, mem) ==
  IF mem = Null THEN m
  ELSE trim_grown(m, dispose_chunk(m, mem2chunk(mem), chunksize(m, mem2chunk(mem))))

\* Gives back what the chunk at p has beyond nb bytes.
cut(m, p, nb, s) ==
  dispose_chunk(set_inuse(set_inuse(m, p, nb), p + nb, s - nb), p + nb, s - nb)

----------------------------------------------------------------------------
(* Allocating                                                              *)

\* The chunk v of size s becomes nb bytes in use and a rest, if there is one.
carve(m, v, nb, s, Rest(_, _, _)) ==
  IF s - nb < MinChunk THEN set_inuse_and_pinuse(m, v, s)
  ELSE Rest(set_size_and_pinuse_of_free_chunk(
              set_size_and_pinuse_of_inuse_chunk(m, v, nb), v + nb, s - nb),
            v + nb, s - nb)

\* Of the chunks at these places, the first of the least size that fits.
best(m, places, nb) ==
  LET fits == {k \in places : chunksize(m, m.tree[k][1]) >= nb}
  IN  IF fits = {} THEN Null
      ELSE m.tree[Least(fits, [k \in fits |-> chunksize(m, m.tree[k][1])])][1]

\* Mutant: larger chunks to the right of the path are not looked at.
MutSearched(m, nb, path) ==
  LET later == {j \in m.treemap : j > compute_tree_index(nb)}
  IN  ToSet(path) \cup (IF best(m, ToSet(path), nb) = Null /\ later # {}
                        THEN ToSet(Downward(m, <<Min(later)>>, 0)) ELSE {})

\* The places a search for nb goes through: down towards its size; then, from
\* the deepest child[1] it passed, or else from the next bin, to the least.
searched(m, nb, path) ==
  LET passed == {k \in ToSet(path) :
                  Turn(nb, k) = 0 /\ Child(m, k, 1) /\ chunksize(m, m.tree[k][1]) # nb}
      deepest == CHOOSE k \in passed : \A q \in passed : Len(q) <= Len(k)
      later == {j \in m.treemap : j > compute_tree_index(nb)}
  IN  ToSet(path) \cup
        (IF passed # {} THEN ToSet(Downward(m, Append(deepest, 1), 0))
         ELSE IF best(m, ToSet(path), nb) = Null /\ later # {}
         THEN ToSet(Downward(m, <<Min(later)>>, 0))
         ELSE {})

\* Mutant: a signed comparison with a designated victim that is too small.
MutTakeLarge(m, v, nb) ==
  IF v = Null \/ chunksize(m, v) - nb >= m.dvsize - nb THEN Nothing(m)
  ELSE [m |-> carve(unlink_large_chunk(m, v), v, nb, chunksize(m, v), insert_chunk),
        mem |-> chunk2mem(v)]

take_large(m, v, nb) ==
  IF v = Null \/ chunksize(m, v) - nb >= U(m.dvsize - nb) THEN Nothing(m)
  ELSE [m |-> carve(unlink_large_chunk(m, v), v, nb, chunksize(m, v), insert_chunk),
        mem |-> chunk2mem(v)]

tmalloc_large(m, nb) == take_large(m, best(m, searched(m, nb, Descent(m, nb)), nb), nb)

tmalloc_small(m, nb) ==
  LET v == best(m, ToSet(Downward(m, <<Min(m.treemap)>>, 0)), nb)
  IN  [m |-> carve(unlink_large_chunk(m, v), v, nb, chunksize(m, v), replace_dv),
       mem |-> chunk2mem(v)]

\* The first chunk of bin i.
take_small(m, i, nb) ==
  LET p == m.smallbins[i][1]
  IN  [m |-> carve(unlink_small_chunk(m, p, i * 8), p, nb, i * 8, replace_dv),
       mem |-> chunk2mem(p)]

use_dv(m, nb) ==
  LET kept(g, r, s) == [g EXCEPT !.dv = r, !.dvsize = s]
  IN  [m |-> carve([m EXCEPT !.dv = Null, !.dvsize = 0], m.dv, nb, m.dvsize, kept),
       mem |-> chunk2mem(m.dv)]

\* A small request takes of the bins what leaves nothing too small, or else the
\* least that fits if the designated victim does not; a large one the best of
\* the trees if it is better than the designated victim.
from_bins(m, bytes, nb) ==
  LET bins == {i \in m.smallmap : i >= small_index(nb)}
  IN  IF bytes >= MaxRequest THEN Nothing(m)
      ELSE IF bytes < 245                       \* MAX_SMALL_REQUEST
      THEN IF bins # {} /\ (Min(bins) <= small_index(nb) + 1 \/ nb > m.dvsize)
           THEN take_small(m, Min(bins), nb)
           ELSE IF nb > m.dvsize /\ m.treemap # {} THEN tmalloc_small(m, nb)
           ELSE Nothing(m)
      ELSE IF m.treemap # {} THEN tmalloc_large(m, nb) ELSE Nothing(m)

or_else(r, nb) ==
  IF r.mem # Null THEN r
  ELSE IF nb <= r.m.dvsize THEN use_dv(r.m, nb)
  ELSE IF nb < r.m.topsize THEN split_top(r.m, nb)
  ELSE sys_alloc(r.m, nb)

dlmalloc(m, bytes) ==
  LET nb == IF bytes >= MaxRequest THEN MaxSizeT ELSE request2size(bytes)
  IN  or_else(from_bins(m, bytes, nb), nb)

\* Mutant: the product is not checked for overflow.
MutCalloc(m, n, s) == dlmalloc(m, U(n * s))

dlcalloc(m, n, s) ==
  dlmalloc(m, IF Max({n, s}) >= HalfWord /\ n # 0 /\ U(n * s) \div n # s
              THEN MaxSizeT ELSE U(n * s))

use_or_cut(m, p, nb, s) == IF s - nb < MinChunk THEN set_inuse(m, p, s) ELSE cut(m, p, nb, s)

\* The chunk of s bytes at p has nb bytes, where it is; Null when it cannot be.
try_realloc_chunk(m, p, s, nb) ==
  LET next == p + s
      s2 == s + m.dvsize
      s3 == s + chunksize(m, next)
  IN  IF s >= nb
      THEN [m |-> IF s - nb >= MinChunk THEN cut(m, p, nb, s) ELSE m, mem |-> chunk2mem(p)]
      ELSE IF next = m.top
      THEN IF s + m.topsize <= nb THEN Nothing(m)
           ELSE [m |-> [SetHead(set_inuse(m, p, nb), p + nb,
                                Head3(s + m.topsize - nb, TRUE, FALSE))
                          EXCEPT !.top = p + nb, !.topsize = s + @ - nb],
                 mem |-> chunk2mem(p)]
      ELSE IF next = m.dv
      THEN IF s2 < nb THEN Nothing(m)
           ELSE IF s2 - nb < MinChunk
           THEN [m |-> [set_inuse(m, p, s2) EXCEPT !.dv = Null, !.dvsize = 0],
                 mem |-> chunk2mem(p)]
           ELSE [m |-> [SetPinuse(set_size_and_pinuse_of_free_chunk(
                                    set_inuse(m, p, nb), p + nb, s2 - nb), p + s2, FALSE)
                          EXCEPT !.dv = p + nb, !.dvsize = s2 - nb],
                 mem |-> chunk2mem(p)]
      ELSE IF cinuse(m, next) \/ s3 < nb THEN Nothing(m)
      ELSE [m |-> use_or_cut(unlink_chunk(m, next, s3 - s), p, nb, s3), mem |-> chunk2mem(p)]

\* Gives back the part of p before q, then what is left behind nb bytes.
lead_off(m, p, q) ==
  IF q = p THEN m
  ELSE dispose_chunk(set_inuse(set_inuse(m, q, chunksize(m, p) - (q - p)), p, q - p), p, q - p)
trail_off(m, p, nb) ==
  [m |-> IF chunksize(m, p) > nb + MinChunk THEN cut(m, p, nb, chunksize(m, p)) ELSE m,
   mem |-> chunk2mem(p)]

\* The first chunk from p that begins on a boundary and leaves p itself room.
aligned_at(p, boundary) ==
  LET br == mem2chunk(RoundUp(chunk2mem(p), boundary))
  IN  IF br = p \/ br - p >= MinChunk THEN br ELSE br + boundary

align_chunk(r, boundary, nb) ==
  IF r.mem = Null THEN r
  ELSE LET q == aligned_at(mem2chunk(r.mem), boundary)
       IN  trail_off(lead_off(r.m, mem2chunk(r.mem), q), q, nb)

internal_memalign(m, alignment, bytes) ==
  LET boundary == CHOOSE a \in {2 ^ k : k \in 4 .. 16} :
                    a >= alignment /\ (a = MinChunk \/ a \div 2 < alignment)
      nb == request2size(bytes)
  IN  IF bytes >= MaxRequest - boundary THEN Nothing(m)
      ELSE align_chunk(dlmalloc(m, nb + boundary + MinChunk - Overhead), boundary, nb)

\* What posix_memalign(), valloc() and pvalloc() make of their arguments.
posix_accepts(alignment) == \E k \in 2 .. 16 : alignment = 2 ^ k
page_request(call, alignment, bytes) ==
  [alignment |-> CASE call = "memalign" -> alignment
                   [] call = "posix" -> IF alignment = 4 THEN 16 ELSE alignment
                   [] OTHER -> PageSize,
   bytes |-> IF call = "pvalloc" THEN RoundUp(bytes, PageSize) ELSE bytes]

dlmemalign(m, alignment, bytes) ==
  IF alignment <= 8 THEN dlmalloc(m, bytes) ELSE internal_memalign(m, alignment, bytes)

\* The chunk of the allocation r becomes one chunk of each of these sizes, the
\* last with what there is beyond their sum; mems lists them.
elements(r, parts) ==
  LET p == mem2chunk(r.mem)
      at(i) == p + SumOf(SubSeq(parts, 1, i - 1))
      slop == chunksize(r.m, p) - SumOf(parts)
      element(g, i) == set_size_and_pinuse_of_inuse_chunk(g, at(i),
                         parts[i] + IF i = Len(parts) THEN slop ELSE 0)
  IN  IF r.mem = Null THEN [m |-> ensure_initialization(r.m), mems |-> <<>>]
      ELSE [m |-> FoldLeft(element, r.m, [i \in 1 .. Len(parts) |-> i]),
            mems |-> [i \in 1 .. Len(parts) |-> chunk2mem(at(i))]]

\* Elements of the given sizes and, unless the caller has one, the array of
\* pointers to them; with no sizes an empty array.
ialloc(m, sizes, own) ==
  LET array == IF own THEN <<>> ELSE << request2size(Len(sizes) * 4) >>
      parts == [i \in DOMAIN sizes |-> request2size(sizes[i])] \o array
  IN  IF parts = <<>> THEN [m |-> m, mems |-> <<>>]
      ELSE elements(dlmalloc(m, IF sizes = <<>> THEN 0 ELSE SumOf(parts) - Overhead), parts)

\* The caller's array in order; an element whose successor in memory is also
\* the next in the array is first joined to it.
free_or_join(m, p, s, following) ==
  IF following = chunk2mem(p + s)
  THEN [m |-> set_inuse(m, p, s + chunksize(m, p + s)), at |-> p]
  ELSE [m |-> dispose_chunk(m, p, s), at |-> Null]

internal_bulk_free(m, mems) ==
  LET chunk(acc, i) == IF acc.at # Null THEN acc.at ELSE mem2chunk(mems[i])
      one(acc, i) == free_or_join(acc.m, chunk(acc, i), chunksize(acc.m, chunk(acc, i)),
                                  IF i < Len(mems) THEN mems[i + 1] ELSE Null)
      all == FoldLeft(one, [m |-> m, at |-> Null], [i \in 1 .. Len(mems) |-> i])
  IN  trim_if_due(all.m, all.m.topsize)

\* In place, or by malloc(), memcpy() and free(); may_move is false for
\* dlrealloc_in_place().
move_block(r, mem) == IF r.mem = Null THEN r ELSE [r EXCEPT !.m = dlfree(@, mem)]
or_moved(t, mem, bytes, may_move) ==
  IF t.mem # Null \/ ~may_move THEN t ELSE move_block(dlmalloc(t.m, bytes), mem)
dlrealloc(m, mem, bytes, may_move) ==
  LET p == mem2chunk(mem)
  IN  IF bytes >= MaxRequest THEN Nothing(m)
      ELSE or_moved(try_realloc_chunk(m, p, chunksize(m, p), request2size(bytes)),
                    mem, bytes, may_move)

set_mparam(m, param, value) ==
  IF param = "trim" THEN [m EXCEPT !.trim_threshold = value]
  ELSE IF value >= PageSize /\ (\E k \in 0 .. 16 : value = 2 ^ k)
  THEN [m EXCEPT !.granularity = value]
  ELSE m
change_mparam(m, param, value) == set_mparam(ensure_initialization(m), param, value)

dlmalloc_set_footprint_limit(m, bytes) ==
  [m EXCEPT !.footprint_limit =
     IF bytes = MaxSizeT THEN 0 ELSE granularity_align(m, bytes)]

----------------------------------------------------------------------------
(* The state machine: any sequence of calls                                *)

Zeroed ==
  [pbreak |-> Begin, head |-> <<>>, foot |-> <<>>, base |-> 0, size |-> 0,
   top |-> Null, topsize |-> 0, dv |-> Null, dvsize |-> 0,
   smallmap |-> {}, smallbins |-> <<>>, treemap |-> {}, tree |-> <<>>,
   footprint |-> 0, max_footprint |-> 0, footprint_limit |-> 0,
   noncontiguous |-> FALSE, trim_check |-> 0,
   granularity |-> 0, trim_threshold |-> 0]

Quiet == [bytes |-> 0, mem |-> Begin]

Init ==
  /\ gm = Zeroed
  /\ blocks = <<>>
  /\ ret = Quiet
  /\ calls = 0

\* The chunks from the first to the top, as the sizes lead from one to the next.
Walk(m) ==
  LET from[p \in Nat] == IF p >= m.top \/ p \notin DOMAIN m.head THEN {}
                         ELSE {p} \cup (IF chunksize(m, p) = 0 THEN {} ELSE from[p + chunksize(m, p)])
  IN  IF m.top = Null THEN {} ELSE from[m.base]

\* What the heap reports of itself: chunks, used and free bytes, and space in
\* other segments.
internal_mallinfo(m) ==
  LET bytes(S) == FoldSet(LAMBDA p, sum : sum + chunksize(m, p), 0, S)
      free == bytes({p \in Walk(m) : ~cinuse(m, p)}) + m.topsize + TopFoot
      sum == bytes(Walk(m)) + m.topsize + TopFoot
  IN  IF m.top = Null THEN [uordblks |-> 0, fordblks |-> 0, hblkhd |-> 0]
      ELSE [uordblks |-> m.footprint - free, fordblks |-> free, hblkhd |-> m.footprint - sum]

dlmalloc_usable_size(m, mem) ==
  IF cinuse(m, mem2chunk(mem)) THEN chunksize(m, mem2chunk(mem)) - Overhead ELSE 0

\* What is inside chunks now is the user's or nobody's: forget it.
Tidy(m) ==
  LET kept == Walk(m) \cup {m.top, m.top + m.topsize}
  IN  [m EXCEPT !.head = Restrict(@, {p \in DOMAIN @ : p \in kept}),
                !.foot = Restrict(@, {p \in DOMAIN @ : p \in kept /\ ~pinuse(m, p)})]

Becomes(m) == gm' = Tidy(m) /\ ret' = Quiet
Got(mem, bytes) == blocks' = IF mem = Null THEN blocks ELSE Put(blocks, mem, bytes)

Within(bound) == calls < bound /\ calls' = calls + 1

Malloc(bytes) ==
  /\ Within(MaxCalls)
  /\ \E r \in {dlmalloc(gm, bytes)} :
       /\ gm' = Tidy(r.m)
       /\ ret' = [bytes |-> bytes, mem |-> r.mem]
       /\ Got(r.mem, bytes)

Calloc(n, s) ==
  /\ Within(MaxOther)
  /\ \E r \in {dlcalloc(gm, n, s)} : Becomes(r.m) /\ Got(r.mem, n * s)

Memalign(call, alignment, bytes) ==
  LET asked == page_request(call, alignment, bytes)
  IN  /\ Within(MaxOther)
      /\ call = "posix" => posix_accepts(alignment)
      /\ \E r \in {dlmemalign(gm, asked.alignment, asked.bytes)} :
           Becomes(r.m) /\ Got(r.mem, asked.bytes)

Free(mem) ==
  /\ Within(MaxCalls)
  /\ Becomes(dlfree(gm, mem))
  /\ blocks' = Without(blocks, mem)

Realloc(mem, bytes, may_move) ==
  /\ Within(MaxOther)
  /\ \E r \in {dlrealloc(gm, mem, bytes, may_move)} :
       /\ Becomes(r.m)
       /\ blocks' = IF r.mem = Null THEN blocks ELSE Put(Without(blocks, mem), r.mem, bytes)

Independent(sizes, own) ==
  /\ Within(MaxOther)
  /\ \E r \in {ialloc(gm, sizes, own)} :
       /\ Becomes(r.m)
       /\ LET asked(i) == IF i <= Len(sizes) THEN sizes[i] ELSE Len(sizes) * 4
              new == [a \in ToSet(r.mems) |-> asked(CHOOSE i \in DOMAIN r.mems : r.mems[i] = a)]
          IN  blocks' = new @@ blocks

\* The callers' blocks by address.
Ascending == [i \in 1 .. Cardinality(DOMAIN blocks) |->
                CHOOSE x \in DOMAIN blocks : Cardinality({y \in DOMAIN blocks : y < x}) = i - 1]

\* Order says which of them, and in what order the caller's array has them.
BulkFree(order) ==
  LET mems == [i \in DOMAIN order |-> Ascending[order[i]]]
  IN  /\ Within(MaxOther)
      /\ \A i \in DOMAIN order : order[i] <= Cardinality(DOMAIN blocks)
      /\ Becomes(internal_bulk_free(gm, mems))
      /\ blocks' = Restrict(blocks, DOMAIN blocks \ ToSet(mems))

Trim(pad) == Within(MaxOther) /\ Becomes(sys_trim(gm, pad)) /\ UNCHANGED blocks

Mallopt(param, value) ==
  Within(MaxOther) /\ Becomes(change_mparam(gm, param, value)) /\ UNCHANGED blocks

Limit(bytes) ==
  Within(MaxOther) /\ Becomes(dlmalloc_set_footprint_limit(gm, bytes)) /\ UNCHANGED blocks

Next ==
  \/ \E n \in Sizes : Malloc(n)
  \/ \E mem \in DOMAIN blocks : Free(mem)
  \/ \E c \in Products : Calloc(c[1], c[2])
  \/ \E a \in Aligned : Memalign(a[1], a[2], a[3])
  \/ \E mem \in DOMAIN blocks, n \in Sizes, may_move \in BOOLEAN : Realloc(mem, n, may_move)
  \/ \E sizes \in Lists, own \in BOOLEAN : Independent(sizes, own)
  \/ \E order \in Orders : BulkFree(order)
  \/ \E v \in Values : Trim(v)
  \/ \E v \in Values, param \in {"trim", "granularity"} : Mallopt(param, v)
  \/ \E v \in Values : Limit(v)

Spec == Init /\ [][Next]_vars

----------------------------------------------------------------------------
(* Properties                                                              *)

\* do_check_malloc_state(): what the code asserts of its own structures when
\* it is compiled with DEBUG, which this program never is.

Used(m) == {p \in Walk(m) : cinuse(m, p)}
Unused(m) == {p \in Walk(m) : ~cinuse(m, p)}
InBins(m) == UNION {ToSet(m.smallbins[i]) : i \in m.smallmap}
               \cup UNION {ToSet(m.tree[k]) : k \in DOMAIN m.tree}

CheckChunks(m) ==
  LET chunks == Walk(m)
  IN  \A p \in chunks :
        LET next == p + chunksize(m, p)
        IN  /\ chunksize(m, p) >= MinChunk /\ chunksize(m, p) % 8 = 0
            /\ next \in chunks \cup {m.top}
            /\ pinuse(m, next) = cinuse(m, p)
            /\ ~cinuse(m, p) => /\ pinuse(m, p)
                                /\ m.foot[next] = chunksize(m, p)
                                /\ next = m.top \/ cinuse(m, next)

CheckTop(m) ==
  /\ m.top # Null => /\ m.head[m.top] = Head3(m.topsize, TRUE, FALSE) /\ m.topsize > 0
                     /\ m.top + m.topsize + TopFoot = m.base + m.size
                     /\ ~pinuse(m, m.top + m.topsize)
  /\ m.base = (IF m.top = Null THEN 0 ELSE Begin)
  /\ m.pbreak = Begin + m.size /\ m.pbreak <= End
  /\ m.size = m.footprint /\ m.footprint <= m.max_footprint
  /\ internal_mallinfo(m).hblkhd = 0

CheckBins(m) ==
  /\ InBins(m) = Unused(m) \ {m.dv}
  /\ IF m.dv = Null THEN m.dvsize = 0
     ELSE m.dv \in Unused(m) /\ m.dvsize = chunksize(m, m.dv)
  /\ \A i \in m.smallmap : /\ m.smallbins[i] # <<>> /\ IsInjective(m.smallbins[i])
                            /\ \A p \in ToSet(m.smallbins[i]) : chunksize(m, p) = i * 8
  /\ m.treemap = {k[1] : k \in DOMAIN m.tree}
  /\ \A k \in DOMAIN m.tree :
       LET s == chunksize(m, m.tree[k][1])
       IN  /\ IsInjective(m.tree[k]) /\ s >= 256
           /\ \A p \in ToSet(m.tree[k]) : chunksize(m, p) = s
           /\ Last(Descent(m, s)) = k

\* The heap's own view: chunks that tile the segment up to the top, no two
\* free neighbours, every free chunk in the one bin and at the one place of
\* the tree where a search for its size looks.
ChunksSound == CheckTop(gm) /\ (gm.top # Null => CheckChunks(gm)) /\ CheckBins(gm)

\* Every block a caller has is a chunk in use, of its own, and large enough:
\* and there is no other chunk in use, so nothing leaks.
BlocksAreChunks ==
  /\ Used(gm) = {mem2chunk(a) : a \in DOMAIN blocks}
  /\ \A a \in DOMAIN blocks : blocks[a] <= dlmalloc_usable_size(gm, a)

\* The heap is what malloc.cc believes it to be, and its callers too.
HeapSound == ChunksSound /\ BlocksAreChunks

Service == INSTANCE Allocator WITH Lo <- Begin, Hi <- End, Boundary <- 8

\* malloc(), realloc(), free() and the rest implement an allocator.
ImplementsAllocator == Service!Spec

Called == calls' # calls /\ ret' # Quiet
Nb(bytes) == request2size(bytes)
Fitting(m, nb) == {p \in Unused(m) : chunksize(m, p) >= nb}

\* A large request that a free chunk other than the top can serve is served
\* from the smallest such chunk (malloc.cc:150).
ServedBest(bytes, mem) ==
  LET fitting == Fitting(gm, request2size(bytes))
  IN  fitting # {} =>
        \E p \in fitting : /\ mem = chunk2mem(p)
                           /\ \A q \in fitting : chunksize(gm, p) <= chunksize(gm, q)
BestFit ==
  [][Called /\ ret'.bytes >= 245 /\ ret'.bytes < MaxRequest
       => ServedBest(ret'.bytes, ret'.mem)]_vars

\* malloc() returns NULL only for want of memory: no free chunk and not the top
\* is large enough, and the pool or the limit has no room for the whole request.
NoRoom(bytes) ==
  LET nb == request2size(bytes)
      unit == gm'.granularity
      more == ((nb + Padding + unit - 1) \div unit) * unit
  IN  /\ Fitting(gm, nb) = {} /\ nb >= gm.topsize
      /\ \/ gm.pbreak + more > End
         \/ gm.footprint_limit # 0 /\ gm.footprint + more > gm.footprint_limit
FailsOnlyWhenFull ==
  [][Called /\ ret'.mem = Null /\ ret'.bytes < MaxRequest => NoRoom(ret'.bytes)]_vars

=============================================================================
