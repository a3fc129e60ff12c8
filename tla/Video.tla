-------------------------------- MODULE Video --------------------------------
(***************************************************************************)
(* The film, from encode.py through decompressor.cc and stream.cc into the *)
(* pool that the constructor of badapple::video fills and artify() draws   *)
(* (video.cc).  A character of the film is a bit, 1 for '*': blank.  Bytes *)
(* have ByteBits bits and a screen Row * Col cells; a character of the     *)
(* pool is a string.                                                       *)
(***************************************************************************)
EXTENDS Integers, Sequences, FiniteSets, SequencesExt

CONSTANTS
  Films,      \* sequences of bits: whole screens, and more than one symbol
  Row, Col,   \* VIDEO_MAX_ROW, VIDEO_MAX_COLUMN
  ByteBits,   \* 8
  Large       \* 100: blocks of so many cells keep their character

VIDEO_SIZE == Row * Col
Base == 2 ^ ByteBits

VARIABLES
  pc,
  film,     \* the text that encode.py reads
  edata,    \* its bytes
  queue,    \* the priority queue: trees of symbols with their codes
  file,     \* the bytes it writes, linked into the kernel
  pointer, keys, count, buffer_size, trie, cur, seek, buffer,  \* decompressor
  pool, frame, visited, dsu                                    \* video

encoder == <<film, edata, queue>>
decoder == <<pointer, keys, count, buffer_size, trie, cur, seek, buffer>>
picture == <<pool, frame, visited, dsu>>
vars == <<pc, encoder, file, decoder, picture>>

----------------------------------------------------------------------------
(* encode.py                                                               *)

CeilDiv(n, d) == (n + d - 1) \div d

\* Bits to bytes, the first bit lowest; the last byte is filled up with ones.
encode(bits) ==
  LET bit(k) == IF k <= Len(bits) THEN bits[k] ELSE 1
      byte(i) ==
        LET n[j \in 0 .. ByteBits] ==
              IF j = 0 THEN 0
              ELSE n[j - 1] + bit((i - 1) * ByteBits + j) * 2 ^ (j - 1)
        IN  n[ByteBits]
  IN  [i \in 1 .. CeilDiv(Len(bits), ByteBits) |-> byte(i)]

Leaf(n) == [freq |-> Cardinality({i \in DOMAIN edata : edata[i] = n}),
            symbols |-> <<n>>, code |-> [s \in {n} |-> <<>>]]

\* a to the left, b to the right.
Joined(a, b) ==
  [freq |-> a.freq + b.freq,
   symbols |-> a.symbols \o b.symbols,
   code |-> [s \in ToSet(a.symbols) \cup ToSet(b.symbols) |->
               IF s \in ToSet(a.symbols) THEN <<0>> \o a.code[s] ELSE <<1>> \o b.code[s]]]

Rarest(q) == {a \in q : \A b \in q : a.freq <= b.freq}

\* heappop() twice: which of equally rare trees come first is not modelled.
Merge ==
  /\ pc = "merge" /\ Cardinality(queue) > 1
  /\ \E a \in Rarest(queue) : \E b \in Rarest(queue \ {a}) :
       queue' = (queue \ {a, b}) \cup {Joined(a, b)}
  /\ UNCHANGED <<pc, film, edata, file, decoder, picture>>

key(tree, n) == << n, Len(tree.code[n]) >> \o encode(tree.code[n])

compress(tree, hdata) ==
  LET fcount == Len(film) \div VIDEO_SIZE
      elen == Len(edata)
  IN  << fcount \div Base, fcount % Base,
         elen \div (Base * Base * Base), (elen \div (Base * Base)) % Base,
         (elen \div Base) % Base, elen % Base, Len(tree.symbols) >>
      \o FlattenSeq([i \in DOMAIN tree.symbols |-> key(tree, tree.symbols[i])])
      \o encode(hdata)

\* bytearray() accepts nothing above a byte.
Write ==
  /\ pc = "merge" /\ Cardinality(queue) = 1
  /\ \E tree \in queue :
       \E hdata \in {FlattenSeq([i \in DOMAIN edata |-> tree.code[edata[i]]])} :
         file' = compress(tree, hdata)
  /\ pc' = IF \A i \in DOMAIN file' : file'[i] < Base THEN "header" ELSE "refused"
  /\ queue' = {}
  /\ UNCHANGED <<film, edata, decoder, picture>>

----------------------------------------------------------------------------
(* stream.cc: a position counted in bits; nextb() panics at the end        *)

HasNext(at, end) == at \div ByteBits < end
Bit(bytes, at) == (bytes[at \div ByteBits + 1] \div 2 ^ (at % ByteBits)) % 2

----------------------------------------------------------------------------
(* decompressor.cc                                                         *)

Root == <<>>
NoLabel == -1
Field(from, bytes) ==
  LET ret[k \in 0 .. bytes] == IF k = 0 THEN 0 ELSE ret[k - 1] * Base + file[from + k]
  IN  ret[bytes]

Header ==
  /\ pc = "header"
  /\ count' = Field(0, 2) /\ buffer_size' = Field(2, 4) /\ keys' = Field(6, 1)
  /\ pointer' = 7
  /\ pc' = "keys"
  /\ UNCHANGED <<encoder, file, trie, cur, seek, buffer, picture>>

\* What a key of this length is taken to occupy, after truncating division.
MutKeyBytes(length) == length \div ByteBits + 1
KeyBytes(length) == IF length = 0 THEN 1 ELSE (length - 1) \div ByteBits + 1

insert(t, code, label) ==
  LET path == {SubSeq(code, 1, n) : n \in 0 .. Len(code)}
  IN  [p \in DOMAIN t \cup path |->
         IF p = code THEN label ELSE IF p \in DOMAIN t THEN t[p] ELSE NoLabel]

InsertKey ==
  /\ pc = "keys" /\ keys > 0
  /\ LET length == file[pointer + 2]
         start == (pointer + 2) * ByteBits
     IN  /\ trie' = insert(trie, [i \in 1 .. length |-> Bit(file, start + i - 1)], file[pointer + 1])
         /\ pointer' = pointer + 2 + KeyBytes(length)
  /\ keys' = keys - 1
  /\ UNCHANGED <<pc, encoder, file, count, buffer_size, cur, seek, buffer, picture>>

StartData ==
  /\ pc = "keys" /\ keys = 0
  /\ seek' = pointer * ByteBits
  /\ cur' = Root
  /\ pc' = "data"
  /\ UNCHANGED <<encoder, file, pointer, keys, count, buffer_size, trie, buffer, picture>>

\* A bit; a missing child is a null pointer that is read through.
DecodeBit ==
  /\ pc = "data" /\ Len(buffer) < buffer_size
  /\ IF ~HasNext(seek, Len(file)) THEN pc' = "panic" /\ UNCHANGED <<seek, cur, buffer>>
     ELSE LET child == Append(cur, Bit(file, seek))
          IN  IF child \notin DOMAIN trie THEN pc' = "null" /\ UNCHANGED <<seek, cur, buffer>>
              ELSE /\ seek' = seek + 1
                   /\ cur' = IF trie[child] = NoLabel THEN child ELSE Root
                   /\ buffer' = IF trie[child] = NoLabel THEN buffer
                                ELSE Append(buffer, trie[child])
                   /\ UNCHANGED pc
  /\ UNCHANGED <<encoder, file, pointer, keys, count, buffer_size, trie, picture>>

----------------------------------------------------------------------------
(* video.cc                                                                *)

Blank == " "
Unknown == "?"
dense_chars == {"?", "o", "%"}
line_chars == << "\\", "/", "fs", "^" >>     \* "fs" for char(28)
dot_chars == << "apos", "grave", ",", "." >>

\* After btrie::free() (whose root keeps pointers that nothing follows): one
\* cell for every bit of the buffer, however many cells the pool has.
Fill ==
  /\ pc = "data" /\ Len(buffer) = buffer_size
  /\ pool' = [k \in 1 .. buffer_size * ByteBits |->
                IF Bit(buffer, k - 1) = 1 THEN Blank ELSE "#"]
  /\ trie' = [p \in {Root} |-> NoLabel]
  /\ buffer' = <<>> /\ buffer_size' = 0 /\ file' = <<>> /\ pointer' = 0 /\ seek' = 0
  /\ frame' = 0
  /\ pc' = "frame"
  /\ UNCHANGED <<encoder, keys, count, cur, visited, dsu>>

\* Cells are (x, y); a frame's cell is at its label in the pool.
Cells == (0 .. Col - 1) \X (0 .. Row - 1)
label(c) == c[2] * Col + c[1]
at(f, c) == pool[f * VIDEO_SIZE + label(c) + 1]
dxy == << <<-1, 0>>, <<1, 0>>, <<0, -1>>, <<0, 1>> >>
Beside(c, d) == << c[1] + dxy[d][1], c[2] + dxy[d][2] >>

\* The loops over x, then y.
Scan == [i \in 1 .. VIDEO_SIZE |-> << (i - 1) \div Row, (i - 1) % Row >>]

\* The elements from x up to its root.
Path(sets, x) ==
  LET up[v \in Cells] == IF sets[v].first = v THEN <<v>> ELSE <<v>> \o up[sets[v].first]
  IN  up[x]
root(sets, x) == Last(Path(sets, x))

\* find(): everything on the path points to the root afterwards.
find(sets, x) ==
  [v \in Cells |-> IF v \in ToSet(Path(sets, x)) THEN sets[root(sets, x)] ELSE sets[v]]

\* The root x goes below the root y.
Below(sets, x, y) == [sets EXCEPT ![x].first = y, ![y].size = @ + sets[x].size]
MutJoinRoots(sets, x, y) == IF x = y THEN sets ELSE Below(sets, x, y)
JoinRoots(sets, x, y) ==
  IF x = y THEN sets
  ELSE IF sets[x].ch # Unknown THEN Below(sets, y, x) ELSE Below(sets, x, y)

InitialSets(f) ==
  [c \in Cells |->
     [first |-> c, size |-> 1, mutated |-> FALSE,
      ch |-> IF at(f, c) = Blank THEN Blank
             ELSE IF f > 0 /\ at(f - 1, c) # Blank THEN at(f - 1, c) ELSE Unknown]]

\* A character continues from the last frame.
Separate ==
  /\ pc = "frame" /\ frame < count
  /\ dsu' = InitialSets(frame)
  /\ pc' = "join"
  /\ UNCHANGED <<encoder, file, decoder, pool, frame, visited>>

\* A cell and the next of the four beside it are joined if neither is blank.
Connect ==
  /\ pc = "join" /\ visited < 4 * VIDEO_SIZE
  /\ LET c == Scan[(visited \div 4) + 1]
         b == Beside(c, (visited % 4) + 1)
     IN  IF b \in Cells /\ at(frame, c) # Blank /\ at(frame, b) # Blank
         THEN \E found \in {find(dsu, c)} : \E both \in {find(found, b)} :
                dsu' = JoinRoots(both, both[c].first, both[b].first)
         ELSE UNCHANGED dsu
  /\ visited' = visited + 1
  /\ UNCHANGED <<pc, encoder, file, decoder, pool, frame>>

\* The next cell takes the character of its set, which the first of the set to
\* come settles: the most significant bit says that it has.
Settled(info) ==
  IF info.mutated THEN {info}
  ELSE IF info.ch = Unknown THEN {[info EXCEPT !.ch = c, !.mutated = TRUE] : c \in dense_chars}
  ELSE IF info.ch # Blank /\ info.size < Large
  THEN {[info EXCEPT !.ch = c, !.mutated = TRUE] : c \in {info.ch} \cup dense_chars}
  ELSE {info}

Visit ==
  /\ pc = "visit" /\ visited < VIDEO_SIZE
  /\ \E c \in {Scan[visited + 1]} : \E found \in {find(dsu, c)} :
       \E info \in Settled(found[found[c].first]) :
           /\ dsu' = [found EXCEPT ![found[c].first] = info]
           /\ pool' = [pool EXCEPT ![frame * VIDEO_SIZE + label(c) + 1] = info.ch]
  /\ visited' = visited + 1
  /\ UNCHANGED <<pc, encoder, file, decoder, frame>>

Turn ==
  /\ \/ pc = "join" /\ visited = 4 * VIDEO_SIZE /\ pc' = "visit" /\ UNCHANGED <<frame, dsu>>
     \/ pc = "visit" /\ visited = VIDEO_SIZE /\ pc' = "frame" /\ frame' = frame + 1 /\ dsu' = <<>>
     \/ pc = "frame" /\ frame = count /\ pc' = "outline" /\ frame' = 0 /\ UNCHANGED dsu
     \/ pc = "outline" /\ frame = count /\ pc' = "ready" /\ frame' = 0 /\ UNCHANGED dsu
  /\ visited' = 0
  /\ UNCHANGED <<encoder, file, decoder, pool>>

\* A cell with blank neighbours takes a character for the last of them: a line
\* if only that side and the one opposite are blank.
MutOutlined(f, c) ==
  LET empty == {d \in 1 .. 4 : Beside(c, d) \in Cells /\ at(f, Beside(c, d)) = Blank}
      dir == CHOOSE d \in empty : \A e \in empty : e <= d
      across == IF dir <= 2 THEN {3, 4} ELSE {1, 2}
  IN  IF empty = {} THEN at(f, c)
      ELSE IF Cardinality(empty) > 2 \/ across \cap empty # {} THEN dot_chars[dir]
      ELSE line_chars[dir]

Outlined(f, c) ==
  LET empty == {d \in 1 .. 4 : Beside(c, d) \in Cells /\ at(f, Beside(c, d)) = Blank}
      dir == CHOOSE d \in empty : \A e \in empty : e <= d
      across == IF dir <= 2 THEN {3, 4} ELSE {1, 2}
  IN  IF at(f, c) = Blank \/ empty = {} THEN at(f, c)
      ELSE IF Cardinality(empty) > 2 \/ across \cap empty # {} THEN dot_chars[dir]
      ELSE line_chars[dir]

Outline ==
  /\ pc = "outline" /\ frame < count
  /\ pool' = [k \in DOMAIN pool |->
                IF (k - 1) \div VIDEO_SIZE # frame THEN pool[k]
                ELSE LET l == (k - 1) % VIDEO_SIZE
                     IN  Outlined(frame, << l % Col, l \div Col >>)]
  /\ frame' = frame + 1
  /\ UNCHANGED <<pc, encoder, file, decoder, visited, dsu>>

----------------------------------------------------------------------------

Init ==
  /\ pc = "merge"
  /\ film \in Films
  /\ edata = encode(film)
  /\ queue = {Leaf(n) : n \in ToSet(edata)}
  /\ file = <<>>
  /\ pointer = 0 /\ keys = 0 /\ count = 0 /\ buffer_size = 0
  /\ trie = [p \in {Root} |-> NoLabel]
  /\ cur = Root /\ seek = 0 /\ buffer = <<>>
  /\ pool = <<>> /\ frame = 0 /\ visited = 0 /\ dsu = <<>>

\* When the kernel is built; decompressor::decompressor(); the rest of
\* video::video().
Encode == Merge \/ Write
Decode == Header \/ InsertKey \/ StartData \/ DecodeBit
Draw == Fill \/ Separate \/ Connect \/ Visit \/ Turn \/ Outline

Next == Encode \/ Decode \/ Draw

Spec == Init /\ [][Next]_vars /\ WF_vars(Next)

----------------------------------------------------------------------------
(* Properties                                                              *)

\* From the moment it is filled the pool has the cells of the film, no more
\* and no fewer, blank exactly where the film is: decoding inverts encoding,
\* and drawing keeps the silhouette.
Silhouette ==
  pc \in {"frame", "join", "visit", "outline", "ready"} =>
    /\ Len(pool) = count * VIDEO_SIZE
    /\ \A k \in DOMAIN pool : (pool[k] = Blank) = (film[k] = 1)

\* The cells of frame f connected with c: those in every set of drawn cells
\* that has c and the drawn neighbours of its members.
Drawn(f) == {c \in Cells : at(f, c) # Blank}
Connected(f, S) ==
  \A c \in S : \A d \in 1 .. 4 : Beside(c, d) \in Drawn(f) => Beside(c, d) \in S
Block(f, c) ==
  {v \in Drawn(f) : \A S \in SUBSET Drawn(f) : c \in S /\ Connected(f, S) => v \in S}

\* A connected block is drawn in one character; a large one in a character it
\* had in the last frame, if it had one other than the question mark.
BlocksColoured ==
  pc = "frame" /\ frame > 0 =>
    \A c \in Drawn(frame - 1) :
      LET f == frame - 1
          block == Block(f, c)
          before == {at(f - 1, v) : v \in block} \ {Blank, Unknown}
      IN  /\ \A v \in block : at(f, v) = at(f, c)
          /\ at(f, c) \in dense_chars
          /\ f > 0 /\ Cardinality(block) >= Large /\ before # {} => at(f, c) \in before

\* The constructor comes to its end, without panic and without reading
\* through a null pointer.
FilmReady == <>(pc = "ready")

=============================================================================
