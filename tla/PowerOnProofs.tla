---------------------------- MODULE PowerOnProofs ----------------------------
(***************************************************************************)
(* Proofs about PowerOn, for any geometry of the drive, any image and any  *)
(* memory the assumptions admit: the boot loader leaves the kernel where   *)
(* it is entered, the page tables keep it there, an exception is reported  *)
(* as it happened, and interrupts find everything set up.                  *)
(***************************************************************************)
EXTENDS PowerOn, SequenceTheorems, TLAPS

----------------------------------------------------------------------------
(* The boot loader                                                         *)

\* Sectors of the image, and the first n places from 0x10000 on.
Size == Loader!Sectors(image)
At(k) == 65536 + 512 * k
Places(n) == {At(k) : k \in 0 .. n - 1}

\* Of the sectors of a segment.
Offsets == {512 * k : k \in 0 .. 7}

\* load() in the middle of its loop: its registers say the same of how far it
\* is, and the next place may already hold what a failed read left there.
Registers ==
  /\ cx \in 1 .. Size + 1
  /\ ax = Size - (cx - 1)
  /\ bx \in Offsets
  /\ dx \in Nat /\ dx * 16 + bx = At(cx - 1)

Filled ==
  /\ \/ DOMAIN memory = Places(cx - 1)
     \/ ax # 0 /\ DOMAIN memory = Places(cx)
  /\ \A k \in 0 .. cx - 2 : memory[At(k)] = k + 1

Loading ==
  /\ total_heads = drive.heads /\ sectors_per_track = drive.sectors
  /\ Registers /\ Filled

LoadInv ==
  /\ drive \in Drives /\ image \in Images
  /\ stage16 \in {"detect", "load", "protected", "fatal"}
  /\ stage16 = "detect" => total_heads = 2 /\ sectors_per_track = 18 /\ memory = <<>>
  /\ stage16 = "load" => Loading
  /\ ImageLoaded

----------------------------------------------------------------------------

\* The blocks of a drive that has all the cylinders the BIOS can name.
Blocks(h, s) == 1024 * h * s

LEMMA DivMod ==
  ASSUME NEW a \in Nat, NEW b \in Nat \ {0}
  PROVE  /\ a \div b \in Nat
         /\ a % b \in 0 .. b - 1
         /\ a = b * (a \div b) + (a % b)
  OBVIOUS

LEMMA Monotonic ==
  ASSUME NEW a \in Nat, NEW b \in Nat, NEW c \in Nat, b <= c
  PROVE  a * b \in Nat /\ a * c \in Nat /\ a * b <= a * c
  OBVIOUS

\* Block c of a drive of h heads with s sectors to a track lies within the
\* first 1024 cylinders.
LEMMA Within ==
  ASSUME NEW h \in Nat, NEW s \in Nat, NEW track \in Nat, NEW cylinder \in Nat,
         NEW r \in Nat, NEW q \in Nat, track = h * cylinder + r,
         s * track + q < 1024 * h * s
  PROVE  cylinder < 1024
<1>1. SUFFICES ASSUME 1024 <= cylinder PROVE FALSE
  OBVIOUS
<1>2. h * 1024 \in Nat /\ h * cylinder \in Nat /\ h * 1024 <= h * cylinder
  BY <1>1, Monotonic
<1>3. h * 1024 <= track
  BY <1>2
<1>4. s * (h * 1024) \in Nat /\ s * track \in Nat /\ s * (h * 1024) <= s * track
  BY <1>2, <1>3, Monotonic
<1>5. s * (h * 1024) = 1024 * h * s
  OBVIOUS
<1>6. QED BY <1>4, <1>5

\* Where block c is on a drive of h heads with s sectors to a track.
IsAt(c, h, s, track, sector, cylinder, side) ==
  /\ track = c \div s /\ sector = c % s
  /\ sector \in 0 .. s - 1 /\ c = s * track + sector
  /\ cylinder = track \div h /\ side = track % h
  /\ side \in 0 .. h - 1 /\ track = h * cylinder + side
  /\ c < Blocks(h, s) => cylinder < 1024

LEMMA Geometry ==
  ASSUME NEW c \in Nat, NEW h \in Nat \ {0}, NEW s \in Nat \ {0}
  PROVE  \E track, sector, cylinder, side \in Nat :
           IsAt(c, h, s, track, sector, cylinder, side)
<1>1. PICK track \in Nat, sector \in Nat :
        /\ track = c \div s /\ sector = c % s
        /\ sector \in 0 .. s - 1 /\ c = s * track + sector
  <2>2. c \div s \in Nat /\ c % s \in 0 .. s - 1 /\ c = s * (c \div s) + (c % s)
    BY DivMod, Zenon
  <2>3. c % s \in Nat
    BY <2>2
  <2>4. QED BY <2>2, <2>3, Zenon
<1>2. PICK cylinder \in Nat, side \in Nat :
        /\ cylinder = track \div h /\ side = track % h
        /\ side \in 0 .. h - 1 /\ track = h * cylinder + side
  <2>1. /\ track \div h \in Nat /\ track % h \in 0 .. h - 1
        /\ track = h * (track \div h) + (track % h)
    BY DivMod, Zenon
  <2>2. track % h \in Nat
    BY <2>1
  <2>3. QED BY <2>1, <2>2, Zenon
<1>3. ASSUME s * track + sector < Blocks(h, s) PROVE cylinder < 1024
  <2>1. h \in Nat /\ s \in Nat
    OBVIOUS
  <2>2. track = h * cylinder + side
    BY <1>2
  <2>3. s * track + sector < 1024 * h * s
    BY <1>3 DEF Blocks
  <2>4. QED BY <2>1, <2>2, <2>3, Within
<1>4. c < Blocks(h, s) => cylinder < 1024
  <2>1. c = s * track + sector
    BY <1>1, Zenon
  <2>2. QED BY <1>3, <2>1
<1>5. IsAt(c, h, s, track, sector, cylinder, side)
  BY <1>1, <1>2, <1>4, Zenon DEF IsAt
<1>6. QED BY <1>5, Zenon

\* read() names a cylinder, head and sector that the BIOS takes for the block
\* meant, although they are spread over registers of eight bits.
LEMMA ServedIsMeant ==
  ASSUME NEW h \in Nat \ {0}, h <= 256, NEW s \in Nat \ {0}, s <= 63,
         drive.heads = h, drive.sectors = s,
         total_heads = h, sectors_per_track = s,
         NEW c \in Nat, cx = c, c < Blocks(h, s)
  PROVE  Loader!Served = cx
<1>1. PICK track, sector, cylinder, side \in Nat :
        IsAt(c, h, s, track, sector, cylinder, side)
  BY Geometry, Zenon
<1>2. /\ sector \in 0 .. s - 1 /\ side \in 0 .. h - 1
      /\ track = h * cylinder + side /\ c = s * track + sector
  BY <1>1, Zenon DEF IsAt
<1>3. cylinder < 1024
  BY <1>1, Zenon DEF IsAt
<1>4. /\ Loader!sector_index = sector + 1 /\ Loader!head_index = side
      /\ Loader!cylinder_index = cylinder
  BY <1>1, Zenon DEF IsAt, Loader!sector_index, Loader!head_index, Loader!cylinder_index
<1>5. Loader!dh = side
  <2>1. side % 256 = side
    BY <1>2
  <2>2. QED BY <1>4, <2>1 DEF Loader!dh
<1>6. Loader!cl = sector + 1 + 64 * (cylinder \div 256)
  <2>1. (cylinder \div 256) % 4 = cylinder \div 256
    BY <1>3
  <2>2. QED BY <1>4, <2>1 DEF Loader!cl
<1>7. Loader!cl \div 64 = cylinder \div 256 /\ Loader!cl % 64 = sector + 1
  BY <1>2, <1>3, <1>6
<1>8. Loader!ch + 256 * (Loader!cl \div 64) = cylinder
  <2>1. (cylinder % 256) + 256 * (cylinder \div 256) = cylinder
    OBVIOUS
  <2>2. Loader!ch = cylinder % 256
    BY <1>4, Zenon DEF Loader!ch
  <2>3. QED BY <1>7, <2>1, <2>2, Zenon
<1>9. Loader!Served = (cylinder * h + side) * s + (sector + 1) - 1
  <2>1. Loader!Served = ((Loader!ch + 256 * (Loader!cl \div 64)) * drive.heads
                          + Loader!dh) * drive.sectors + (Loader!cl % 64) - 1
    BY Zenon DEF Loader!Served
  <2>2. QED BY <1>5, <1>7, <1>8, <2>1, Zenon
<1>10. cylinder * h + side = track
  BY <1>2
<1>11. track * s + (sector + 1) - 1 = cx
  BY <1>2
<1>12. QED BY <1>9, <1>10, <1>11, Zenon

----------------------------------------------------------------------------

LEMMA Sizes ==
  ASSUME drive \in Drives, image \in Images
  PROVE  /\ Size \in Nat \ {0} /\ Size <= 1792 /\ Loader!kernel_sectors = Size
         /\ Size = ((image - 1) \div 512) + 1
<1>1. image \in Nat \ {0} /\ Size <= 1792
  BY PowerAssumption DEF Size
<1>2. Size = (image + 512 - 1) \div 512
  BY DEF Size, Loader!Sectors
<1>3. Size \in Nat \ {0} /\ Size <= 1792 /\ Size = ((image - 1) \div 512) + 1
  BY <1>1, <1>2
<1>4. Loader!kernel_sectors = Size
  BY <1>3 DEF Size, Loader!kernel_sectors, Loader!U16
<1>5. QED BY <1>3, <1>4

\* The drive holds the image.
LEMMA Fits ==
  ASSUME drive \in Drives, image \in Images
  PROVE  \E h, s \in Nat \ {0} :
           /\ h <= 256 /\ s <= 63 /\ drive.heads = h /\ drive.sectors = s
           /\ Blocks(h, s) \in Nat /\ Size < Blocks(h, s)
<1>1. PICK h, s \in Nat \ {0} :
        h <= 256 /\ s <= 63 /\ drive.heads = h /\ drive.sectors = s
  <2>1. /\ drive.heads \in Nat \ {0} /\ drive.heads <= 256
        /\ drive.sectors \in Nat \ {0} /\ drive.sectors <= 63
    BY PowerAssumption
  <2>2. QED BY <2>1
<1>2. Loader!Sectors(image) < 1024 * drive.heads * drive.sectors
  BY PowerAssumption
<1>3. Blocks(h, s) \in Nat
  BY DEF Blocks
<1>4. Size < Blocks(h, s)
  BY <1>1, <1>2 DEF Blocks, Size
<1>5. QED BY <1>1, <1>3, <1>4

LEMMA NextPlace ==
  ASSUME NEW n \in Nat
  PROVE  /\ Places(n) \cup {At(n)} = Places(n + 1)
         /\ \A k \in 0 .. n - 1 : At(k) \in Places(n) /\ At(k) # At(n)
BY DEF Places, At

\* What is added to the memory where load() is.
LEMMA PutFacts ==
  ASSUME LoadInv, stage16 = "load", ax # 0, NEW what, Loader!Put(what)
  PROVE  /\ cx \in 1 .. Size
         /\ DOMAIN memory' = Places(cx)
         /\ memory'[At(cx - 1)] = what
         /\ \A k \in 0 .. cx - 2 : memory'[At(k)] = k + 1
<1>1. Size \in Nat \ {0} /\ Size <= 1792
  BY Sizes DEF LoadInv
<1>2. Loading
  BY DEF LoadInv
<1>3. cx \in 1 .. Size
  BY <1>1, <1>2 DEF Loading, Registers, Filled
<1>4. Loader!Place = At(cx - 1)
  BY <1>1, <1>2, <1>3 DEF Loading, Registers, Filled, Loader!Place, At
<1>5. Places(cx - 1) \cup {At(cx - 1)} = Places(cx)
  <2>1. cx - 1 \in Nat /\ (cx - 1) + 1 = cx
    BY <1>1, <1>3
  <2>2. QED BY <2>1, NextPlace
<1>6. DOMAIN memory \cup {At(cx - 1)} = Places(cx)
  BY <1>2, <1>5 DEF Loading, Registers, Filled
<1>7. memory' = [a \in Places(cx) |-> IF a = At(cx - 1) THEN what ELSE memory[a]]
  BY <1>4, <1>6 DEF Loader!Put
<1>8. ASSUME NEW k \in 0 .. cx - 2
      PROVE  memory'[At(k)] = k + 1
  <2>1. At(k) \in Places(cx) /\ At(k) # At(cx - 1)
    BY <1>1, <1>3 DEF Places, At
  <2>2. memory[At(k)] = k + 1
    BY <1>2 DEF Loading, Registers, Filled
  <2>3. QED BY <1>7, <2>1, <2>2
<1>9. At(cx - 1) \in Places(cx)
  BY <1>5
<1>10. QED BY <1>3, <1>7, <1>8, <1>9

LEMMA LoadInit == PowerInit => LoadInv
BY DEF PowerInit, Loader!Init, LoadInv, ImageLoaded, Loader!ImageLoaded

LEMMA DetectStep == LoadInv /\ Loader!Detect => LoadInv'
<1> SUFFICES ASSUME LoadInv, Loader!Detect PROVE LoadInv'
  OBVIOUS
<1>1. drive \in Drives /\ image \in Images /\ drive' = drive /\ image' = image
  BY DEF LoadInv, Loader!Detect
<1>2. /\ drive.heads \in Nat \ {0} /\ drive.heads <= 256
      /\ drive.sectors \in Nat \ {0} /\ drive.sectors <= 63
      /\ drive.floppy => drive.heads = 2 /\ drive.sectors = 18
  BY <1>1, PowerAssumption
<1>3. total_heads' = drive.heads /\ sectors_per_track' = drive.sectors
  <2>1. CASE drive.floppy /\ UNCHANGED <<total_heads, sectors_per_track>>
    BY <1>2, <2>1 DEF LoadInv, Loader!Detect
  <2>2. ASSUME NEW high \in 0 .. 3,
               Loader!Detected(drive.heads - 1, drive.sectors + 64 * high)
        PROVE  total_heads' = drive.heads /\ sectors_per_track' = drive.sectors
    <3>1. drive.heads - 1 + 1 = drive.heads
      BY <1>2
    <3>2. (drive.sectors + 64 * high) % 64 = drive.sectors
      BY <1>2
    <3>3. QED BY <2>2, <3>1, <3>2 DEF Loader!Detected
  <2>3. QED BY <2>1, <2>2 DEF Loader!Detect
<1>4. Size' = Size /\ Size \in Nat \ {0} /\ Size <= 1792 /\ Loader!kernel_sectors = Size
  BY <1>1, Sizes DEF Size, Loader!Sectors
<1>5. DOMAIN memory' = Places(0)
  BY DEF LoadInv, Loader!Detect, Places
<1>6. Loading'
  <2>1. ax' = Size /\ bx' = 0 /\ cx' = 1 /\ dx' = 4096
    BY <1>4, SMT DEF Loader!Detect
  <2>2. 0 \in Offsets
    BY DEF Offsets
  <2>3. Registers'
    BY <1>4, <2>1, <2>2, SMT DEF Registers, At
  <2>4. Filled'
    BY <1>5, <2>1, SMT DEF Filled
  <2>5. QED BY <1>3, <1>1, <2>3, <2>4, SMT DEF Loading
<1>7. stage16' = "load"
  BY DEF Loader!Detect
<1>8. QED BY <1>1, <1>6, <1>7 DEF LoadInv, ImageLoaded, Loader!ImageLoaded

\* The next offset and, every eighth time, the next segment.
LEMMA Advance ==
  ASSUME NEW c \in Nat \ {0}, c <= 1792, NEW b \in Offsets,
         NEW d \in Nat, d * 16 + b = At(c - 1)
  PROVE  /\ b + 512 # 4096 => b + 512 \in Offsets /\ d * 16 + (b + 512) = At(c)
         /\ b + 512 = 4096 => /\ (d + 256) % 65536 = d + 256
                             /\ (d + 256) * 16 + 0 = At(c)
<1>1. PICK k \in 0 .. 7 : b = 512 * k
  BY DEF Offsets
<1>2. d * 16 + b = 65536 + 512 * (c - 1)
  BY DEF At
<1>3. ASSUME b + 512 # 4096 PROVE b + 512 \in Offsets
  <2>1. k + 1 \in 0 .. 7 /\ b + 512 = 512 * (k + 1)
    BY <1>1, <1>3
  <2>2. QED BY <2>1 DEF Offsets
<1>4. d + 256 < 65536
  BY <1>1, <1>2, SMT
<1>5. /\ d * 16 + (b + 512) = At(c)
      /\ b + 512 = 4096 => (d + 256) * 16 + 0 = At(c)
  BY <1>1, <1>2, SMT DEF At
<1>6. (d + 256) % 65536 = d + 256
  BY <1>4, SMT
<1>7. QED BY <1>3, <1>5, <1>6, SMT

LEMMA ReadStep == LoadInv /\ Loader!Read => LoadInv'
<1> SUFFICES ASSUME LoadInv, Loader!Read PROVE LoadInv'
  OBVIOUS
<1>1. drive \in Drives /\ image \in Images /\ Loading
  BY DEF LoadInv, Loader!Read
<1>2. /\ drive' = drive /\ image' = image /\ stage16 = "load" /\ ax # 0
      /\ total_heads' = total_heads /\ sectors_per_track' = sectors_per_track
      /\ stage16' = "load"
  BY DEF Loader!Read
<1>3. PICK n \in Nat \ {0} : n <= 1792 /\ Size = n /\ Size' = n
  <2>1. Size \in Nat \ {0} /\ Size <= 1792
    BY <1>1, Sizes
  <2>2. Size' = Size
    BY <1>2 DEF Size, Loader!Sectors
  <2>3. QED BY <2>1, <2>2
<1>4. PICK c \in 1 .. n : cx = c /\ ax = n - (c - 1)
  BY <1>1, <1>2, <1>3 DEF Loading, Registers
<1>5. Loader!Served = c
  <2>1. PICK h, s \in Nat \ {0} :
          /\ h <= 256 /\ s <= 63 /\ drive.heads = h /\ drive.sectors = s
          /\ Blocks(h, s) \in Nat /\ Size < Blocks(h, s)
    <3>1. drive \in Drives /\ image \in Images
      BY <1>1
    <3>2. QED BY <3>1, Fits, Zenon
  <2>2. c \in Nat /\ c < Blocks(h, s)
    BY <1>3, <1>4, <2>1
  <2>3. total_heads = h /\ sectors_per_track = s
    BY <1>1, <2>1 DEF Loading
  <2>4. drive.heads = h /\ drive.sectors = s /\ cx = c
    BY <1>4, <2>1
  <2>5. Loader!Served = cx
    BY <2>1, <2>2, <2>3, <2>4, ServedIsMeant
  <2>6. QED BY <2>5, <1>4
<1>6. Loader!Put(c)
  BY <1>5 DEF Loader!Read
<1>7. cx' = c + 1 /\ ax' = n - c
  BY <1>3, <1>4 DEF Loader!Read, Loader!U16
<1>8. /\ bx' \in Offsets
      /\ dx' \in Nat /\ dx' * 16 + bx' = At(c)
  <2>1. PICK b \in Offsets, d \in Nat : bx = b /\ dx = d /\ d * 16 + b = At(c - 1)
    BY <1>1, <1>4 DEF Loading, Registers
  <2>2. c \in Nat \ {0} /\ c <= 1792
    BY <1>3
  <2>3. CASE b + 512 # 4096
    <3>1. bx' = b + 512 /\ dx' = d
      BY <2>1, <2>3, SMT DEF Loader!Read, Loader!SectorSize
    <3>2. b + 512 \in Offsets /\ d * 16 + (b + 512) = At(c)
      BY <2>1, <2>2, <2>3, Advance, SMT
    <3>3. QED BY <3>1, <3>2, SMT
  <2>4. CASE b + 512 = 4096
    <3>1. (d + 256) % 65536 = d + 256 /\ (d + 256) * 16 + 0 = At(c)
      BY <2>1, <2>2, <2>4, Advance, SMT
    <3>2. bx' = 0 /\ dx' = d + 256
      BY <2>1, <2>4, <3>1, SMT DEF Loader!Read, Loader!SectorSize, Loader!U16
    <3>3. 0 \in Offsets /\ d + 256 \in Nat
      BY DEF Offsets
    <3>4. QED BY <3>1, <3>2, <3>3, SMT
  <2>5. QED BY <2>3, <2>4
<1>9. /\ DOMAIN memory' = Places(c) /\ memory'[At(c - 1)] = c
      /\ \A k \in 0 .. c - 2 : memory'[At(k)] = k + 1
  BY <1>2, <1>4, <1>6, PutFacts
<1>10. c + 1 - 1 = c /\ c + 1 \in 1 .. n + 1 /\ n - c = n - (c + 1 - 1)
  OBVIOUS
<1>11. Registers'
  <2>1. cx' \in 1 .. Size' + 1
    BY <1>3, <1>7, <1>10
  <2>2. ax' = Size' - (cx' - 1)
    BY <1>3, <1>7, <1>10
  <2>3. dx' * 16 + bx' = At(cx' - 1)
    BY <1>7, <1>8, <1>10
  <2>4. QED BY <1>8, <2>1, <2>2, <2>3, Zenon DEF Registers
<1>12. Filled'
  <2>1. ASSUME NEW k \in 0 .. c - 1 PROVE memory'[At(k)] = k + 1
    <3>1. k \in 0 .. c - 2 \/ (k = c - 1 /\ k + 1 = c)
      OBVIOUS
    <3>2. QED BY <1>9, <3>1
  <2>2. c + 1 - 2 = c - 1
    OBVIOUS
  <2>3. QED BY <1>7, <1>9, <1>10, <2>1, <2>2 DEF Filled
<1>13. Loading'
  BY <1>1, <1>2, <1>11, <1>12 DEF Loading
<1>14. QED BY <1>1, <1>2, <1>13 DEF LoadInv, ImageLoaded, Loader!ImageLoaded

LEMMA FailStep == LoadInv /\ Loader!Fail => LoadInv'
<1> SUFFICES ASSUME LoadInv, Loader!Fail PROVE LoadInv'
  OBVIOUS
<1>1. /\ drive \in Drives /\ image \in Images /\ Loading
      /\ stage16 = "load" /\ ax # 0 /\ Loader!Put(Loader!Rubbish)
  BY DEF LoadInv, Loader!Fail
<1>2. /\ DOMAIN memory' = Places(cx)
      /\ \A k \in 0 .. cx - 2 : memory'[At(k)] = k + 1
  BY <1>1, PutFacts
<1>3. UNCHANGED <<drive, image, total_heads, sectors_per_track, ax, bx, cx, dx>>
  BY DEF Loader!Fail
<1>4. Loading'
  BY <1>1, <1>2, <1>3 DEF Loading, Registers, Filled, Size, Loader!Sectors
<1>5. stage16' \in {"load", "fatal"}
  BY <1>1 DEF Loader!Fail
<1>6. QED BY <1>1, <1>3, <1>4, <1>5 DEF LoadInv, ImageLoaded, Loader!ImageLoaded

LEMMA EnterStep == LoadInv /\ Loader!Enter => LoadInv'
<1> SUFFICES ASSUME LoadInv, Loader!Enter PROVE LoadInv'
  OBVIOUS
<1>1. drive \in Drives /\ image \in Images /\ Loading /\ ax = 0
  BY DEF LoadInv, Loader!Enter
<1>2. /\ drive' = drive /\ image' = image /\ memory' = memory
      /\ stage16' = "protected"
  BY DEF Loader!Enter
<1>3. /\ Size \in Nat \ {0} /\ Size <= 1792 /\ Size = ((image - 1) \div 512) + 1
      /\ image \in Nat \ {0}
  BY <1>1, Sizes, PowerAssumption
<1>4. cx = Size + 1 /\ DOMAIN memory = Places(Size)
  BY <1>1, <1>3 DEF Loading, Registers, Filled
<1>5. DOMAIN memory' = {65536 + 512 * k : k \in 0 .. (image' - 1) \div 512}
  <2>1. Size - 1 = (image' - 1) \div 512
    BY <1>2, <1>3
  <2>2. QED BY <1>2, <1>4, <2>1 DEF Places, At
<1>6. ASSUME NEW a \in DOMAIN memory'
      PROVE  memory'[a] = ((a - 65536) \div 512) + 1
  <2>1. PICK k \in 0 .. Size - 1 : a = At(k)
    BY <1>2, <1>4 DEF Places
  <2>2. k \in 0 .. cx - 2 /\ (a - 65536) \div 512 = k
    BY <1>3, <1>4, <2>1 DEF At
  <2>3. memory[At(k)] = k + 1
    BY <1>1, <2>2 DEF Loading, Registers, Filled
  <2>4. QED BY <1>2, <2>1, <2>2, <2>3
<1>7. QED BY <1>1, <1>2, <1>5, <1>6 DEF LoadInv, ImageLoaded, Loader!ImageLoaded

\* What comes after the loader leaves its memory alone.
LEMMA LoaderStutter == LoadInv /\ UNCHANGED loaderVars => LoadInv'
BY DEF LoadInv, Loading, Registers, Filled, loaderVars, Size, Loader!Sectors, ImageLoaded,
    Loader!ImageLoaded

LEMMA LoadStep == LoadInv /\ [PowerNext]_powerVars => LoadInv'
<1>1. ASSUME LoadInv, Load PROVE LoadInv'
  BY <1>1, DetectStep, ReadStep, FailStep, EnterStep DEF Load, Loader!Next
<1>2. ASSUME Enter32 \/ Map \/ Kernel \/ Devices \/ Except \/ HandleException
             \/ UNCHANGED powerVars
      PROVE  UNCHANGED loaderVars
  BY <1>2, Zenon DEF Enter32, Map, Kernel, Devices, Except, HandleException, powerVars
<1>3. QED BY <1>1, <1>2, LoaderStutter DEF PowerNext

\* The kernel is entered with each sector of its image in its place, whatever
\* the geometry of the drive and the size of the image (disk.asm, link.py).
THEOREM KernelIsLoaded == PowerSpec => []ImageLoaded
<1>1. LoadInv => ImageLoaded
  BY DEF LoadInv
<1>2. QED BY LoadInit, LoadStep, <1>1, PTL DEF PowerSpec

----------------------------------------------------------------------------
(* Paging                                                                  *)

\* The directory and the first n of the tables of mm::initialize() are written.
Tables(n) ==
  /\ 1 \in DOMAIN frames
  /\ DOMAIN frames[1] = {Paging!Setups[i].index : i \in 1 .. n}
  /\ \A i \in 1 .. n :
       /\ frames[1][Paging!Setups[i].index] = Paging!Setups[i].pte
       /\ Paging!Setups[i].pte \in DOMAIN frames
       /\ frames[Paging!Setups[i].pte] = Paging!Setups[i].table

Entries == {Paging!Setups[i] : i \in 1 .. 4}

PageInv ==
  /\ cr3 \in {Paging!Off, Paging!Tmp, Paging!PDE}
  /\ frames = <<>> => cr3 # Paging!PDE /\ todo = Paging!Setups
  /\ frames # <<>> =>
       \E n \in 0 .. 4 :
         /\ todo \in Seq(Entries) /\ Len(todo) = 4 - n
         /\ \A i \in 1 .. 4 - n : todo[i] = Paging!Setups[n + i]
         /\ Tables(n)
         /\ cr3 = Paging!PDE => n = 4

LEMMA SetupFacts ==
  /\ Paging!Setups[1].index = 0 /\ Paging!Setups[2].index = 768
  /\ Paging!Setups[3].index = 769 /\ Paging!Setups[4].index = 770
  /\ \A i \in 1 .. 4 : Paging!Setups[i].pte = i + 1
  /\ Paging!Setups[1].table = [phys |-> 0, from |-> 0, to |-> 256]
  /\ Paging!Setups[2].table = [phys |-> 0, from |-> 0, to |-> 240]
  /\ Paging!Setups[3].table = [phys |-> 256, from |-> 0, to |-> 1024]
  /\ Paging!Setups[4].table = [phys |-> 1280, from |-> 0, to |-> 1024]
  /\ Len(Paging!Setups) = 4 /\ Paging!Setups \in Seq(Entries)
BY DEF Paging!Setups, Paging!setup_pte, Entries

\* Under the directory of tmppgdir.c low pages are where they are.
LEMMA LowPages ==
  ASSUME cr3 = Paging!Tmp, NEW p \in 0 .. 15
  PROVE  Paging!Frame(p) = p
<1>1. p \div 1024 = 0 /\ p % 1024 = p
  OBVIOUS
<1>2. QED
  BY <1>1 DEF Paging!Frame, Paging!Translated, Paging!Tmp, Paging!Off, Paging!tmp_pgdir

LEMMA ClearStep ==
  ASSUME PageInv, Paging!ClearDirectory
  PROVE  PageInv'
<1>1. Paging!Frame(1) = 1
  BY LowPages DEF Paging!ClearDirectory
<1>2. frames' = [g \in DOMAIN frames \cup {1} |-> IF g = 1 THEN <<>> ELSE frames[g]]
  BY <1>1 DEF Paging!ClearDirectory, Paging!Written, Paging!PDE
<1>3. frames' # <<>> /\ Tables(0)'
  BY <1>2 DEF Tables
<1>4. cr3' = Paging!Tmp /\ cr3 = Paging!Tmp /\ todo' = Paging!Setups
  BY DEF Paging!ClearDirectory, PageInv
<1>5. QED
  BY <1>3, <1>4, SetupFacts DEF PageInv, Paging!Tmp, Paging!PDE

LEMMA SetUpStep ==
  ASSUME PageInv, Paging!SetUp
  PROVE  PageInv'
<1>1. /\ cr3 = Paging!Tmp /\ cr3' = Paging!Tmp /\ frames # <<>>
      /\ todo # <<>> /\ todo' = Tail(todo)
  BY DEF Paging!SetUp
<1>2. PICK n \in 0 .. 4 :
        /\ todo \in Seq(Entries) /\ Len(todo) = 4 - n
        /\ \A i \in 1 .. 4 - n : todo[i] = Paging!Setups[n + i]
        /\ Tables(n)
  BY <1>1 DEF PageInv
<1>3. n \in 0 .. 3
  BY <1>1, <1>2
<1> DEFINE s == Paging!Setups[n + 1]
<1>4. Head(todo) = s /\ s.pte = n + 2
  BY <1>1, <1>2, <1>3, SetupFacts
<1>5. Paging!Frame(1) = 1 /\ Paging!Frame(s.pte) = n + 2
  BY <1>1, <1>3, <1>4, LowPages
<1>6. /\ DOMAIN frames' = DOMAIN frames \cup {1, n + 2}
      /\ frames'[n + 2] = s.table
      /\ \A g \in DOMAIN frames \ {1, n + 2} : frames'[g] = frames[g]
      /\ frames'[1] = Paging!Written(frames[1], s.index, n + 2)
  BY <1>3, <1>4, <1>5 DEF Paging!SetUp, Paging!Written, Paging!PDE
<1>7. /\ todo' \in Seq(Entries) /\ Len(todo') = 4 - (n + 1)
      /\ \A i \in 1 .. 4 - (n + 1) : todo'[i] = Paging!Setups[n + 1 + i]
  <2>1. /\ Tail(todo) \in Seq(Entries) /\ Len(Tail(todo)) = Len(todo) - 1
        /\ \A i \in 1 .. Len(todo) - 1 : Tail(todo)[i] = todo[i + 1]
    BY <1>1, <1>2
  <2>2. QED BY <1>1, <1>2, <1>3, <2>1
<1>8. Tables(n + 1)'
  <2>1. \A i \in 1 .. n + 1 : i \in 1 .. n \/ i = n + 1
    BY <1>3
  <2>2. \A i \in 1 .. n : Paging!Setups[i].pte = i + 1 /\ Paging!Setups[i].index # s.index
    BY <1>3, SetupFacts
  <2>3. DOMAIN frames'[1] = {Paging!Setups[i].index : i \in 1 .. n + 1}
    BY <1>2, <1>3, <1>6, <2>1 DEF Tables, Paging!Written
  <2>4. ASSUME NEW i \in 1 .. n
        PROVE  /\ frames'[1][Paging!Setups[i].index] = Paging!Setups[i].pte
               /\ Paging!Setups[i].pte \in DOMAIN frames'
               /\ frames'[Paging!Setups[i].pte] = Paging!Setups[i].table
    <3>1. /\ Paging!Setups[i].pte = i + 1 /\ i + 1 # 1 /\ i + 1 # n + 2
          /\ Paging!Setups[i].index # s.index
      BY <1>3, <2>2
    <3>2. /\ frames[1][Paging!Setups[i].index] = i + 1
          /\ Paging!Setups[i].index \in DOMAIN frames[1]
          /\ i + 1 \in DOMAIN frames
          /\ frames[i + 1] = Paging!Setups[i].table
      BY <1>2, <3>1 DEF Tables
    <3>3. frames'[1][Paging!Setups[i].index] = i + 1
      BY <1>6, <3>1, <3>2 DEF Paging!Written
    <3>4. i + 1 \in DOMAIN frames' /\ frames'[i + 1] = Paging!Setups[i].table
      BY <1>6, <3>1, <3>2
    <3>5. QED BY <3>1, <3>3, <3>4
  <2>5. /\ frames'[1][s.index] = s.pte /\ s.pte \in DOMAIN frames'
        /\ frames'[s.pte] = s.table
    BY <1>4, <1>6 DEF Paging!Written
  <2>6. QED BY <1>6, <2>1, <2>3, <2>4, <2>5 DEF Tables
<1>9. frames' # <<>>
  BY <1>6
<1>10. n + 1 \in 0 .. 4
  BY <1>3
<1>11. QED
  BY <1>1, <1>7, <1>8, <1>9, <1>10 DEF PageInv, Paging!Tmp, Paging!PDE, Paging!Off

LEMMA ReloadStep ==
  ASSUME PageInv, Paging!Reload
  PROVE  PageInv'
<1>1. /\ todo = <<>> /\ cr3' = Paging!PDE /\ frames' = frames /\ todo' = todo
  BY DEF Paging!Reload
<1>2. frames # <<>>
  <2>1. Paging!Setups # <<>>
    BY DEF Paging!Setups
  <2>2. QED BY <1>1, <2>1 DEF PageInv
<1>3. PICK n \in 0 .. 4 : Len(todo) = 4 - n /\ Tables(n)
  BY <1>2 DEF PageInv
<1>4. n = 4
  BY <1>1, <1>3
<1>5. Tables(4)' /\ todo' \in Seq(Entries) /\ Len(todo') = 4 - 4
  BY <1>1, <1>3, <1>4 DEF Tables
<1>6. QED
  BY <1>1, <1>2, <1>5 DEF PageInv

LEMMA PageStep == PageInv /\ [PowerNext]_powerVars => PageInv'
<1>1. ASSUME PageInv, Enter32 PROVE PageInv'
  BY <1>1 DEF Enter32, Paging!TurnOn, PageInv, Tables, Paging!Off, Paging!Tmp, Paging!PDE
<1>2. ASSUME PageInv, Map PROVE PageInv'
  BY <1>2, ClearStep, SetUpStep, ReloadStep DEF Map, Paging!Initialize
<1>3. ASSUME PageInv, UNCHANGED pagingVars PROVE PageInv'
  BY <1>3 DEF PageInv, Tables, pagingVars
<1>4. ASSUME Load \/ Kernel \/ Devices \/ Except \/ HandleException \/ UNCHANGED powerVars
      PROVE  UNCHANGED pagingVars
  BY <1>4, Zenon DEF Load, Kernel, Devices, Except, HandleException, powerVars
<1>5. QED BY <1>1, <1>2, <1>3, <1>4 DEF PowerNext

LEMMA PageInit == PowerInit => PageInv
BY DEF PowerInit, Paging!Init, PageInv, Paging!Off, Paging!PDE

LEMMA OfDirectory ==
  ASSUME NEW i \in Nat, NEW o \in Nat, o < 1024
  PROVE  (1024 * i + o) \div 1024 = i /\ (1024 * i + o) % 1024 = o
  OBVIOUS

\* Where the page tables put page o of the kth of them.
LEMMA Mapped ==
  ASSUME Tables(4), NEW k \in 1 .. 4, NEW o \in Nat, o < 1024
  PROVE  LET s == Paging!Setups[k]
         IN  Paging!Translated(1024 * s.index + o, Paging!PDE, frames) =
               IF s.table.from <= o /\ o < s.table.to THEN s.table.phys + o ELSE Paging!Fault
<1> DEFINE s == Paging!Setups[k]
           p == 1024 * s.index + o
<1>1. s.index \in Nat /\ s.table.from \in Nat /\ s.table.to \in Nat
  BY SetupFacts, SMT
<1>2. p \div 1024 = s.index /\ p % 1024 = o
  BY <1>1, OfDirectory
<1>3. /\ s.index \in DOMAIN frames[1]
      /\ frames[frames[1][s.index]] = s.table
  BY DEF Tables
<1> HIDE DEF s, p
<1>4. Paging!Translated(p, Paging!PDE, frames) =
        IF o \in s.table.from .. s.table.to - 1 THEN s.table.phys + o ELSE Paging!Fault
  BY <1>2, <1>3 DEF Paging!Translated, Paging!PDE, Paging!Off, Paging!Tmp
<1>5. o \in s.table.from .. s.table.to - 1 <=> s.table.from <= o /\ o < s.table.to
  BY <1>1
<1>6. QED BY <1>4, <1>5 DEF s, p

\* The four of them one by one.
Seen(i, o) == Paging!Translated(1024 * i + o, Paging!PDE, frames)

LEMMA EachTable ==
  ASSUME Tables(4), NEW o \in Nat, o < 1024
  PROVE  /\ o < 256 => Seen(0, o) = o
         /\ o < 240 => Seen(768, o) = o
         /\ o >= 240 => Seen(768, o) = Paging!Fault
         /\ Seen(769, o) = 256 + o
         /\ Seen(770, o) = 1280 + o
<1>1. ASSUME NEW k \in 1 .. 4
      PROVE  Seen(Paging!Setups[k].index, o) =
               IF Paging!Setups[k].table.from <= o /\ o < Paging!Setups[k].table.to
                 THEN Paging!Setups[k].table.phys + o ELSE Paging!Fault
  BY Mapped DEF Seen
<1>2. o < 256 => Seen(0, o) = 0 + o
  BY <1>1, SetupFacts
<1>3. o < 240 => Seen(768, o) = 0 + o
  BY <1>1, SetupFacts
<1>4. o >= 240 => Seen(768, o) = Paging!Fault
  BY <1>1, SetupFacts
<1>5. Seen(769, o) = 256 + o
  BY <1>1, SetupFacts
<1>6. Seen(770, o) = 1280 + o
  BY <1>1, SetupFacts
<1>7. QED BY <1>2, <1>3, <1>4, <1>5, <1>6

\* Nothing is mapped above the tables.
LEMMA Above ==
  ASSUME Tables(4), NEW o \in Nat, o < 1024
  PROVE  Paging!Translated(1024 * 771 + o, Paging!PDE, frames) = Paging!Fault
<1> DEFINE p == 1024 * 771 + o
<1>1. p \div 1024 = 771
  BY OfDirectory, SMT
<1>2. 771 \notin DOMAIN frames[1]
  <2>1. \A i \in 1 .. 4 : Paging!Setups[i].index # 771
    BY SetupFacts, SMT
  <2>2. QED BY <2>1, SMT DEF Tables
<1> HIDE DEF p
<1>3. Paging!Translated(p, Paging!PDE, frames) = Paging!Fault
  BY <1>1, <1>2, SMT DEF Paging!Translated, Paging!PDE, Paging!Off, Paging!Tmp
<1>4. QED BY <1>3 DEF p

LEMMA FewPages ==
  ASSUME LoadInv
  PROVE  Pages \in Nat /\ Pages <= 224
<1>1. Size \in Nat /\ Size <= 1792
  BY Sizes DEF LoadInv
<1>2. Pages = (512 * Size + 4095) \div 4096
  BY DEF Pages, Size
<1>3. QED BY <1>1, <1>2, SMT

\* A page that the kernel uses is one of its image or one of the low ones.
LEMMA UsedPage ==
  ASSUME NEW n \in Nat, n <= 224, NEW u \in Paging!Used(n)
  PROVE  \/ \E o \in Nat : o >= 16 /\ o < 240 /\ u[1] = 1024 * 768 + o /\ u[2] = o
         \/ \E o \in Nat : o < 256 /\ u[1] = o /\ u[2] = o
<1>1. CASE u \in {<<786432 + 16 + k, 16 + k>> : k \in 0 .. n - 1}
  <2>1. PICK k \in 0 .. n - 1 : u = <<786432 + 16 + k, 16 + k>>
    BY <1>1
  <2>2. /\ 16 + k \in Nat /\ 16 + k >= 16 /\ 16 + k < 240
        /\ u[1] = 1024 * 768 + (16 + k) /\ u[2] = 16 + k
    BY <2>1, SMT
  <2>3. QED BY <2>2, SMT
<1>2. CASE u \in {<<p, p>> : p \in {1, 2, 3, 4, 5, 15, 184}}
  BY <1>2, SMT
<1>3. QED BY <1>1, <1>2, SMT DEF Paging!Used

\* Both directories find the kernel's pages in their places.
LEMMA Stay ==
  ASSUME PageInv, NEW n \in Nat, n <= 224
  PROVE  Paging!PagesStay(n)
<1> SUFFICES ASSUME cr3 # Paging!Off, NEW u \in Paging!Used(n)
             PROVE  Paging!Frame(u[1]) = u[2]
  BY DEF Paging!PagesStay
<1>1. CASE cr3 = Paging!Tmp
  <2>1. ASSUME NEW o \in Nat, o < 256
        PROVE  /\ Paging!Translated(1024 * 768 + o, Paging!Tmp, frames) = o
               /\ Paging!Translated(o, Paging!Tmp, frames) = o
    <3>1. /\ (1024 * 768 + o) \div 1024 = 768 /\ (1024 * 768 + o) % 1024 = o
          /\ o \div 1024 = 0 /\ o % 1024 = o
      BY <2>1, SMT
    <3>2. QED
      BY <3>1, SMT DEF Paging!Translated, Paging!Tmp, Paging!Off, Paging!tmp_pgdir
  <2>2. QED
    BY <1>1, <2>1, UsedPage, SMT DEF Paging!Frame
<1>2. CASE cr3 = Paging!PDE
  <2>1. Tables(4)
    BY <1>2, SMT DEF PageInv
  <2>2. ASSUME NEW o \in Nat, o < 240
        PROVE  Paging!Translated(1024 * 768 + o, Paging!PDE, frames) = o
    <3>1. o < 1024
      BY <2>2, SMT
    <3>2. Seen(768, o) = o
      BY <2>1, <2>2, <3>1, EachTable
    <3>3. QED BY <3>2 DEF Seen
  <2>3. ASSUME NEW o \in Nat, o < 256
        PROVE  Paging!Translated(o, Paging!PDE, frames) = o
    <3>1. o < 1024
      BY <2>3, SMT
    <3>2. Seen(0, o) = o
      BY <2>1, <2>3, <3>1, EachTable
    <3>3. 1024 * 0 + o = o
      OBVIOUS
    <3>4. QED BY <3>2, <3>3 DEF Seen
  <2>4. QED
    BY <1>2, <2>2, <2>3, UsedPage, SMT DEF Paging!Frame
<1>3. QED BY <1>1, <1>2 DEF PageInv

\* Where the tables put the pool, and the hole on either side of it.
LEMMA Pool ==
  ASSUME Tables(4)
  PROVE  /\ \A o \in Nat : o < 2048 =>
              Paging!Translated(1024 * 769 + o, Paging!PDE, frames) = 256 + o
         /\ \A h \in 1 .. 16 :
              /\ Paging!Translated(786432 + 1024 - h, Paging!PDE, frames) = Paging!Fault
              /\ Paging!Translated(786432 + 3071 + h, Paging!PDE, frames) = Paging!Fault
<1>1. ASSUME NEW o \in Nat, o < 1024
      PROVE  /\ Paging!Translated(1024 * 769 + o, Paging!PDE, frames) = 256 + o
             /\ Paging!Translated(1024 * 770 + o, Paging!PDE, frames) = 1280 + o
             /\ o >= 240 =>
                  Paging!Translated(1024 * 768 + o, Paging!PDE, frames) = Paging!Fault
  <2>1. /\ Seen(769, o) = 256 + o /\ Seen(770, o) = 1280 + o
        /\ o >= 240 => Seen(768, o) = Paging!Fault
    BY <1>1, EachTable
  <2>2. QED BY <2>1 DEF Seen
<1>2. ASSUME NEW o \in Nat, o < 2048
      PROVE  Paging!Translated(1024 * 769 + o, Paging!PDE, frames) = 256 + o
  <2>1. CASE o < 1024
    BY <1>1, <2>1
  <2>2. CASE o >= 1024
    <3>1. /\ o - 1024 \in Nat /\ o - 1024 < 1024
          /\ 1024 * 770 + (o - 1024) = 1024 * 769 + o
          /\ 1280 + (o - 1024) = 256 + o
      BY <1>2, <2>2, SMT
    <3>2. QED BY <1>1, <3>1, SMT
  <2>3. QED BY <2>1, <2>2
<1>3. ASSUME NEW h \in 1 .. 16
      PROVE  /\ Paging!Translated(786432 + 1024 - h, Paging!PDE, frames) = Paging!Fault
             /\ Paging!Translated(786432 + 3071 + h, Paging!PDE, frames) = Paging!Fault
  <2>1. /\ 1024 - h \in Nat /\ 1024 - h < 1024 /\ 1024 - h >= 240
        /\ 1024 * 768 + (1024 - h) = 786432 + 1024 - h
        /\ h - 1 \in Nat /\ h - 1 < 1024
        /\ 1024 * 771 + (h - 1) = 786432 + 3071 + h
    BY SMT
  <2>2. Paging!Translated(1024 * 768 + (1024 - h), Paging!PDE, frames) = Paging!Fault
    <3>1. PICK o \in Nat : o = 1024 - h /\ o < 1024 /\ o >= 240
      BY <2>1
    <3>2. Paging!Translated(1024 * 768 + o, Paging!PDE, frames) = Paging!Fault
      BY <1>1, <3>1
    <3>3. QED BY <3>1, <3>2
  <2>3. Paging!Translated(1024 * 771 + (h - 1), Paging!PDE, frames) = Paging!Fault
    BY <2>1, Above, SMT
  <2>4. QED BY <2>1, <2>2, <2>3, SMT
<1>4. QED BY <1>2, <1>3, SMT

LEMMA WholePool ==
  ASSUME Tables(4), NEW n \in Nat, n <= 224
  PROVE  Paging!PoolMapped(n)
<1> DEFINE F(p) == Paging!Translated(p, Paging!PDE, frames)
<1>1. ASSUME NEW p \in Paging!Pool
      PROVE  p \in Nat /\ F(p) = p - 787200
  <2>1. p - 787456 \in Nat /\ p - 787456 < 2048 /\ 1024 * 769 + (p - 787456) = p
    BY SMT DEF Paging!Pool
  <2>2. QED BY <2>1, Pool, SMT
<1>2. ASSUME NEW p \in Paging!Pool
      PROVE  p >= 787456
  BY SMT DEF Paging!Pool
<1>3. ASSUME NEW u \in Paging!Used(n)
      PROVE  u[2] \in Nat /\ u[2] < 256
  BY UsedPage, SMT
<1> HIDE DEF F
<1>4. \A p \in Paging!Pool : F(p) # Paging!Fault /\ F(p) \notin {u[2] : u \in Paging!Used(n)}
  BY <1>1, <1>2, <1>3, SMT DEF Paging!Fault
<1>5. \A p \in Paging!Pool : p + 1 \in Paging!Pool => F(p) < F(p + 1)
  BY <1>1, SMT
<1>6. \A h \in 1 .. 16 : F(786432 + 1024 - h) = Paging!Fault /\ F(786432 + 3071 + h) = Paging!Fault
  BY Pool, SMT DEF F
<1>7. QED
  BY <1>4, <1>5, <1>6, SMT DEF F, Paging!PoolMapped

\* The pages of the kernel stay where the loader put them, through the
\* directory of begin.asm and through the switch to that of mm::initialize(),
\* which maps the pool of sbrk() as a whole, in frames apart from theirs, with
\* a hole on either side (tmppgdir.c, mm/init.cc).
THEOREM PagesSettle == PowerSpec => PagesAsUsed
<1>1. LoadInv /\ PageInv => Paging!PagesStay(Pages)
  BY FewPages, Stay
<1>2. ASSUME LoadInv, PageInv, [PowerNext]_powerVars, cr3' # cr3, cr3' = Paging!PDE
      PROVE  Paging!PoolMapped(Pages)
  <2>1. Map
    <3>1. ASSUME Enter32 PROVE FALSE
      BY <1>2, <3>1, SMT DEF Enter32, Paging!TurnOn, Paging!Tmp, Paging!PDE
    <3>2. ASSUME Load \/ Kernel \/ Devices \/ Except \/ HandleException \/ UNCHANGED powerVars
          PROVE  cr3' = cr3
      BY <3>2, Zenon DEF Load, Kernel, Devices, Except, HandleException, powerVars, pagingVars
    <3>3. QED BY <1>2, <3>1, <3>2, Zenon DEF PowerNext
  <2>2. Paging!Reload
    BY <1>2, <2>1, Zenon DEF Map, Paging!Initialize, Paging!ClearDirectory, Paging!SetUp
  <2>3. Tables(4)
    <3>1. PageInv'
      BY <1>2, PageStep
    <3>2. frames' = frames /\ frames' # <<>>
      BY <1>2, <2>2, <3>1 DEF PageInv, Paging!Reload
    <3>3. Tables(4)'
      BY <1>2, <3>1, <3>2 DEF PageInv
    <3>4. QED BY <3>2, <3>3 DEF Tables
  <2>4. QED BY <1>2, <2>3, FewPages, WholePool
<1>3. QED
  BY LoadInit, LoadStep, PageInit, PageStep, <1>1, <1>2, PTL DEF PowerSpec, PagesAsUsed


----------------------------------------------------------------------------

(* Exceptions                                                              *)

Code == Exception!Word(IF raised \in Exception!WithCode THEN "code" ELSE "zero")

\* The words pushed up to each step, the last one first.
Frame ==
  << <<"vector", raised>>, Code,
     Exception!Word("eip"), Exception!Word("cs"), Exception!Word("eflags") >>
Context ==
  << Exception!Word("gs"), Exception!Word("fs"), Exception!Word("es"), Exception!Word("ds"),
     Exception!Word("edi"), Exception!Word("esi"), Exception!Word("ebp"), Exception!Word("esp"),
     Exception!Word("ebx"), Exception!Word("edx"), Exception!Word("ecx"), Exception!Word("eax"),
     <<"vector", raised>>, Code,
     Exception!Word("eip"), Exception!Word("cs"), Exception!Word("eflags") >>

\* What each of the steps finds on the stack.
StackInv ==
  /\ step \in {"none", "stub", "routine", "dispatcher", "dead"}
  /\ step # "none" => raised \in Vectors
  /\ step = "stub" =>
       stack = IF raised \in Exception!WithCode
               THEN << Code, Exception!Word("eip"), Exception!Word("cs"), Exception!Word("eflags") >>
               ELSE << Exception!Word("eip"), Exception!Word("cs"), Exception!Word("eflags") >>
  /\ step = "routine" => stack = Frame
  /\ step = "dispatcher" => stack = Context
  /\ ReportsFrame

\* What is pushed last comes first.
LEMMA Pushed3 ==
  ASSUME NEW a, NEW b, NEW c
  PROVE  Exception!Pushed(<<>>, <<a, b, c>>) = <<c, b, a>>
BY DEF Exception!Pushed

LEMMA Pushed4 ==
  ASSUME NEW a, NEW b, NEW c, NEW d
  PROVE  Exception!Pushed(<<>>, <<a, b, c, d>>) = <<d, c, b, a>>
BY DEF Exception!Pushed

LEMMA PushedOn4 ==
  ASSUME NEW a, NEW b, NEW c, NEW d, NEW e
  PROVE  Exception!Pushed(<<a, b, c, d>>, <<e>>) = <<e, a, b, c, d>>
BY DEF Exception!Pushed

LEMMA PushedOn3 ==
  ASSUME NEW a, NEW b, NEW c, NEW d, NEW e
  PROVE  Exception!Pushed(<<a, b, c>>, <<d, e>>) = <<e, d, a, b, c>>
BY DEF Exception!Pushed

LEMMA PushedRegisters ==
  ASSUME NEW a, NEW b, NEW c, NEW d, NEW e,
         NEW r1, NEW r2, NEW r3, NEW r4, NEW r5, NEW r6,
         NEW r7, NEW r8, NEW r9, NEW r10, NEW r11, NEW r12
  PROVE  Exception!Pushed(<<a, b, c, d, e>>,
                          <<r1, r2, r3, r4, r5, r6, r7, r8, r9, r10, r11, r12>>) =
           <<r12, r11, r10, r9, r8, r7, r6, r5, r4, r3, r2, r1, a, b, c, d, e>>
BY DEF Exception!Pushed

LEMMA RaiseStep ==
  ASSUME StackInv, NEW v \in Vectors, Exception!Raise(v)
  PROVE  StackInv'
<1>1. /\ raised' = v /\ step' = "stub" /\ step = "none"
      /\ stack' = Exception!Pushed(<<>>, Exception!Words(
                    IF v \in Exception!WithCode THEN << "eflags", "cs", "eip", "code" >>
                    ELSE << "eflags", "cs", "eip" >>))
  BY DEF Exception!Raise
<1>2. /\ Exception!Words(<< "eflags", "cs", "eip", "code" >>) =
           << Exception!Word("eflags"), Exception!Word("cs"), Exception!Word("eip"),
              Exception!Word("code") >>
      /\ Exception!Words(<< "eflags", "cs", "eip" >>) =
           << Exception!Word("eflags"), Exception!Word("cs"), Exception!Word("eip") >>
  BY DEF Exception!Words
<1>3. stack' = IF v \in Exception!WithCode
               THEN << Exception!Word("code"), Exception!Word("eip"), Exception!Word("cs"),
                       Exception!Word("eflags") >>
               ELSE << Exception!Word("eip"), Exception!Word("cs"), Exception!Word("eflags") >>
  BY <1>1, <1>2, Pushed3, Pushed4
<1>4. QED
  BY <1>1, <1>3 DEF StackInv, Code, ReportsFrame, Exception!ReportsFrame

\* The macros isr_ec and isr agree with the CPU on every vector but 17.
LEMMA StubStep ==
  ASSUME StackInv, Exception!Stub
  PROVE  StackInv'
<1>1. /\ raised' = raised /\ step' = "routine" /\ step = "stub"
      /\ stack' = Exception!Pushed(stack,
                    IF raised \in Exception!isr_ec THEN << <<"vector", raised>> >>
                    ELSE << Exception!Word("zero"), <<"vector", raised>> >>)
  BY DEF Exception!Stub
<1>2. raised \in Vectors /\ raised # 17
  BY <1>1, PowerAssumption DEF StackInv
<1>3. raised \in Exception!isr_ec <=> raised \in Exception!WithCode
  BY <1>2 DEF Exception!isr_ec, Exception!WithCode
<1>4. stack' = Frame
  BY <1>1, <1>3, PushedOn3, PushedOn4 DEF StackInv, Frame, Code
<1>5. Frame' = Frame
  BY <1>1 DEF Frame, Code
<1>6. QED
  BY <1>1, <1>2, <1>4, <1>5 DEF StackInv, ReportsFrame, Exception!ReportsFrame

LEMMA RoutineStep ==
  ASSUME StackInv, Exception!isr_routine
  PROVE  StackInv'
<1> DEFINE names == << "eax", "ecx", "edx", "ebx", "esp", "ebp",
                       "esi", "edi", "ds", "es", "fs", "gs" >>
<1>1. /\ raised' = raised /\ step' = "dispatcher" /\ step = "routine"
      /\ stack' = Exception!Pushed(stack, Exception!Words(names))
  BY DEF Exception!isr_routine
<1>2. Exception!Words(names) =
        << Exception!Word("eax"), Exception!Word("ecx"), Exception!Word("edx"),
           Exception!Word("ebx"), Exception!Word("esp"), Exception!Word("ebp"),
           Exception!Word("esi"), Exception!Word("edi"), Exception!Word("ds"),
           Exception!Word("es"), Exception!Word("fs"), Exception!Word("gs") >>
  BY DEF Exception!Words
<1>3. stack' = Context
  BY <1>1, <1>2, PushedRegisters DEF StackInv, Frame, Context
<1>4. Context' = Context
  BY <1>1 DEF Context, Code
<1>5. QED
  BY <1>1, <1>3, <1>4 DEF StackInv, ReportsFrame, Exception!ReportsFrame

\* isr_context_t names each word of the stack.
LEMMA Names ==
  LET n == Exception!isr_context_t
  IN  /\ DOMAIN n = 1 .. 17
      /\ \A i \in 1 .. 17 :
           Context[i] = CASE n[i] = "isr_index" -> <<"vector", raised>>
                          [] n[i] = "error_code" -> Code
                          [] OTHER -> Exception!Word(n[i])
<1> DEFINE n == Exception!isr_context_t
           Is(i) == Context[i] = CASE n[i] = "isr_index" -> <<"vector", raised>>
                                   [] n[i] = "error_code" -> Code
                                   [] OTHER -> Exception!Word(n[i])
<1>1. Is(1) /\ Is(2) /\ Is(3) /\ Is(4) /\ Is(5) /\ Is(6)
  BY DEF Exception!isr_context_t, Context
<1>2. Is(7) /\ Is(8) /\ Is(9) /\ Is(10) /\ Is(11) /\ Is(12)
  BY DEF Exception!isr_context_t, Context
<1>3. Is(13) /\ Is(14) /\ Is(15) /\ Is(16) /\ Is(17)
  BY DEF Exception!isr_context_t, Context
<1>4. DOMAIN n = 1 .. 17
  BY DEF Exception!isr_context_t
<1> HIDE DEF Is
<1>5. ASSUME NEW i \in 1 .. 17 PROVE Is(i)
  <2>1. \/ i = 1 \/ i = 2 \/ i = 3 \/ i = 4 \/ i = 5 \/ i = 6 \/ i = 7 \/ i = 8 \/ i = 9
        \/ i = 10 \/ i = 11 \/ i = 12 \/ i = 13 \/ i = 14 \/ i = 15 \/ i = 16 \/ i = 17
    OBVIOUS
  <2>2. QED BY <1>1, <1>2, <1>3, <2>1
<1>6. QED BY <1>4, <1>5 DEF Is

LEMMA DispatcherStep ==
  ASSUME StackInv, Exception!dispatcher
  PROVE  StackInv'
<1> DEFINE n == Exception!isr_context_t
           Place(f) == CHOOSE i \in DOMAIN n : n[i] = f
<1>1. /\ raised' = raised /\ step' = "dead" /\ step = "dispatcher" /\ stack = Context
      /\ report' = [f \in {n[i] : i \in DOMAIN n} |-> stack[Place(f)]]
  BY DEF Exception!dispatcher, StackInv
<1>2. ASSUME NEW f \in DOMAIN report'
      PROVE  report'[f] = CASE f = "isr_index" -> <<"vector", raised>>
                            [] f = "error_code" -> Code
                            [] OTHER -> Exception!Word(f)
  <2>1. f \in {n[i] : i \in DOMAIN n} /\ report'[f] = Context[Place(f)]
    BY <1>1, <1>2
  <2>2. Place(f) \in DOMAIN n /\ n[Place(f)] = f
    BY <2>1
  <2> HIDE DEF Place, n
  <2>3. Place(f) \in 1 .. 17
    BY <2>2, Names DEF n
  <2>4. QED BY <2>1, <2>2, <2>3, Names DEF n
<1>3. ReportsFrame'
  BY <1>1, <1>2 DEF ReportsFrame, Exception!ReportsFrame, Code
<1>4. QED BY <1>1, <1>3 DEF StackInv

LEMMA StackStep == StackInv /\ [PowerNext]_powerVars => StackInv'
<1>1. ASSUME StackInv, Except PROVE StackInv'
  BY <1>1, RaiseStep DEF Except
<1>2. ASSUME StackInv, HandleException PROVE StackInv'
  BY <1>2, StubStep, RoutineStep, DispatcherStep DEF HandleException, Exception!Handle
<1>3. ASSUME StackInv, UNCHANGED exceptionVars PROVE StackInv'
  BY <1>3
  DEF exceptionVars, StackInv, Frame, Context, Code, ReportsFrame, Exception!ReportsFrame
<1>4. ASSUME Load \/ Enter32 \/ Map \/ Kernel \/ Devices \/ UNCHANGED powerVars
      PROVE  UNCHANGED exceptionVars
  BY <1>4, Zenon DEF Load, Enter32, Map, Kernel, Devices, powerVars
<1>5. QED BY <1>1, <1>2, <1>3, <1>4 DEF PowerNext

\* What the dispatcher prints of an exception before the machine halts is the
\* state it was raised in, for every vector that ring 0 can raise
\* (isr_handler.asm, isr.cc).
THEOREM ExceptionIsReported == PowerSpec => []ReportsFrame
<1>1. PowerInit => StackInv
  BY DEF PowerInit, Exception!Init, StackInv, ReportsFrame, Exception!ReportsFrame
<1>2. StackInv => ReportsFrame
  BY DEF StackInv
<1>3. QED BY <1>1, <1>2, StackStep, PTL DEF PowerSpec

----------------------------------------------------------------------------
(* The boot sequence                                                       *)

TimerCall == [fn |-> "enable", index |-> Timer, value |-> Irq!Bits]

\* What kinitialize() has done to the interrupt system by step `at`.
Controllers ==
  /\ at \in 1 .. 16 /\ (at = 16 => ~busy)
  /\ boot = IF at <= 5 THEN "reset" ELSE IF at = 6 THEN "remapped"
            ELSE IF at = 7 THEN "masked" ELSE "done"
  /\ at >= 8 => gates = 0 .. 15
  /\ at >= 8 => handled = IF at = 8 THEN {} ELSE {Timer}
  /\ imr \in [Irq!Chips -> SUBSET Irq!Bits]
  /\ irr \in [Irq!Chips -> SUBSET Irq!Bits]
  /\ at >= 7 =>
       /\ imr["slave"] = Irq!Bits
       /\ imr["master"] = IF at <= 10 THEN Irq!Bits ELSE Irq!Bits \ {Timer}
  /\ call["irq"] = Irq!Idle /\ DOMAIN call = Irq!Ctx
  /\ call["main"] = IF at = 10 THEN TimerCall ELSE Irq!Idle
  /\ line \in {Irq!None, Timer, 7}

\* Only the timer and the spurious line of its chip interrupt the main flow,
\* and no earlier than its first sti; the list of timers is empty before play().
Flags ==
  /\ ifl => at \in {12, 13, 16}
  /\ line # Irq!None => at \in {12, 13, 16}
  /\ head => at >= 15
  /\ at >= 13 => video

BootInv == Controllers /\ Flags

LEMMA Ops ==
  /\ Len(Program) = 15
  /\ Program[1].op = "print" /\ Program[2].op = "mm" /\ Program[3].op = "idt"
  /\ Program[4].op = "isr" /\ Program[5].op = "remap" /\ Program[6].op = "mask"
  /\ Program[7].op = "gates" /\ Program[8].op = "install" /\ Program[9].op = "read"
  /\ Program[10].op = "write" /\ Program[11].op = "sti" /\ Program[12].op = "ctors"
  /\ Program[13].op = "cli" /\ Program[14].op = "add" /\ Program[15].op = "sti"
<1> USE DEF Program, Setup, TimerSetup, Sti, Ctors, Play, Step, Both
<1>1. Len(Program) = 15
  OBVIOUS
<1>2. /\ Program[1].op = "print" /\ Program[2].op = "mm" /\ Program[3].op = "idt"
      /\ Program[4].op = "isr" /\ Program[5].op = "remap" /\ Program[6].op = "mask"
  OBVIOUS
<1>3. /\ Program[7].op = "gates" /\ Program[8].op = "install" /\ Program[9].op = "read"
      /\ Program[10].op = "write" /\ Program[11].op = "sti"
  OBVIOUS
<1>4. /\ Program[12].op = "ctors" /\ Program[13].op = "cli" /\ Program[14].op = "add"
      /\ Program[15].op = "sti"
  OBVIOUS
<1>5. QED BY <1>1, <1>2, <1>3, <1>4

LEMMA FinishStep ==
  ASSUME BootInv, Finish
  PROVE  BootInv'
<1>1. /\ ~busy' /\ at' = at + 1 /\ line = Irq!None /\ at \in 1 .. 15
      /\ Effect(Program[at].op)
  BY DEF BootInv, Controllers, Finish, Irq!Runs, Irq!None
<1> DEFINE op == Program[at].op
<1>2. (head' => head \/ op = "add") /\ (video \/ op = "ctors" => video')
  BY Zenon DEF Finish
<1>3. CASE at = 1
  <2>1. op = "print"
    BY <1>3, Ops
  <2>2. UNCHANGED irqVars
    BY <1>1, <2>1 DEF Effect
  <2>3. Controllers'
    BY <1>1, <1>3, <2>2
    DEF BootInv, Controllers, irqVars, Timer, Irq!Chips, Irq!Bits, Irq!Ctx, Irq!Idle,
        Irq!None
  <2>4. Flags'
    BY <1>1, <1>3, <1>2, <2>1, <2>2 DEF BootInv, Flags, irqVars
  <2>5. QED BY <2>3, <2>4 DEF BootInv
<1>4. CASE at = 2
  <2>1. op = "mm"
    BY <1>4, Ops
  <2>2. UNCHANGED irqVars
    BY <1>1, <2>1 DEF Effect
  <2>3. Controllers'
    BY <1>1, <1>4, <2>2
    DEF BootInv, Controllers, irqVars, Timer, Irq!Chips, Irq!Bits, Irq!Ctx, Irq!Idle,
        Irq!None
  <2>4. Flags'
    BY <1>1, <1>4, <1>2, <2>1, <2>2 DEF BootInv, Flags, irqVars
  <2>5. QED BY <2>3, <2>4 DEF BootInv
<1>5. CASE at = 3
  <2>1. op = "idt"
    BY <1>5, Ops
  <2>2. ClearGates
    BY <1>1, <2>1 DEF Effect
  <2>3. Controllers'
    BY <1>1, <1>5, <2>2
    DEF BootInv, Controllers, ClearGates, Timer, Irq!Chips, Irq!Bits, Irq!Ctx, Irq!Idle,
        Irq!None
  <2>4. Flags'
    BY <1>1, <1>5, <1>2, <2>1, <2>2 DEF BootInv, Flags, ClearGates
  <2>5. QED BY <2>3, <2>4 DEF BootInv
<1>6. CASE at = 4
  <2>1. op = "isr"
    BY <1>6, Ops
  <2>2. UNCHANGED irqVars
    BY <1>1, <2>1 DEF Effect
  <2>3. Controllers'
    BY <1>1, <1>6, <2>2
    DEF BootInv, Controllers, irqVars, Timer, Irq!Chips, Irq!Bits, Irq!Ctx, Irq!Idle,
        Irq!None
  <2>4. Flags'
    BY <1>1, <1>6, <1>2, <2>1, <2>2 DEF BootInv, Flags, irqVars
  <2>5. QED BY <2>3, <2>4 DEF BootInv
<1>7. CASE at = 5
  <2>1. op = "remap"
    BY <1>7, Ops
  <2>2. Irq!Remap
    BY <1>1, <2>1 DEF Effect
  <2>3. Controllers'
    BY <1>1, <1>7, <2>2
    DEF BootInv, Controllers, Irq!Remap, Timer, Irq!Chips, Irq!Bits, Irq!Ctx, Irq!Idle,
        Irq!None
  <2>4. Flags'
    BY <1>1, <1>7, <1>2, <2>1, <2>2 DEF BootInv, Flags, Irq!Remap
  <2>5. QED BY <2>3, <2>4 DEF BootInv
<1>8. CASE at = 6
  <2>1. op = "mask"
    BY <1>8, Ops
  <2>2. Irq!MaskAll
    BY <1>1, <2>1 DEF Effect
  <2>3. Controllers'
    BY <1>1, <1>8, <2>2
    DEF BootInv, Controllers, Irq!MaskAll, Timer, Irq!Chips, Irq!Bits, Irq!Ctx, Irq!Idle,
        Irq!None
  <2>4. Flags'
    BY <1>1, <1>8, <1>2, <2>1, <2>2 DEF BootInv, Flags, Irq!MaskAll
  <2>5. QED BY <2>3, <2>4 DEF BootInv
<1>9. CASE at = 7
  <2>1. op = "gates"
    BY <1>9, Ops
  <2>2. Irq!SetGates
    BY <1>1, <2>1 DEF Effect
  <2>3. Controllers'
    BY <1>1, <1>9, <2>2
    DEF BootInv, Controllers, Irq!SetGates, Irq!pic, Timer, Irq!Chips, Irq!Bits, Irq!Ctx,
        Irq!Idle, Irq!None
  <2>4. Flags'
    BY <1>1, <1>9, <1>2, <2>1, <2>2 DEF BootInv, Flags, Irq!SetGates, Irq!pic
  <2>5. QED BY <2>3, <2>4 DEF BootInv
<1>10. CASE at = 8
  <2>1. op = "install"
    BY <1>10, Ops
  <2>2. Irq!Install("main", Timer)
    BY <1>1, <2>1 DEF Effect
  <2>3. Controllers'
    BY <1>1, <1>10, <2>2
    DEF BootInv, Controllers, Irq!Install, Irq!pic, Timer, Irq!Chips, Irq!Bits, Irq!Ctx,
        Irq!Idle, Irq!None
  <2>4. Flags'
    BY <1>1, <1>10, <1>2, <2>1, <2>2 DEF BootInv, Flags, Irq!Install, Irq!pic
  <2>5. QED BY <2>3, <2>4 DEF BootInv
<1>11. CASE at = 9
  <2>1. op = "read"
    BY <1>11, Ops
  <2>2. Irq!ReadMask("main", "enable", Timer)
    BY <1>1, <2>1 DEF Effect
  <2>3. Irq!Port(Timer) = "master" /\ imr["master"] = Irq!Bits /\ call["irq"] = Irq!Idle
    BY <1>11 DEF BootInv, Controllers, Irq!Port, Timer
  <2>4. call' = [call EXCEPT !["main"] = TimerCall]
    BY <2>2, <2>3 DEF Irq!ReadMask, TimerCall
  <2>5. call'["main"] = TimerCall /\ call'["irq"] = Irq!Idle /\ DOMAIN call' = Irq!Ctx
    BY <2>3, <2>4 DEF BootInv, Controllers, Irq!Ctx
  <2>6. Controllers'
    BY <1>1, <1>11, <2>2, <2>5 DEF BootInv, Controllers, Irq!ReadMask, Irq!pic
  <2>7. Flags'
    BY <1>1, <1>11, <1>2, <2>1, <2>2
    DEF BootInv, Flags, Irq!ReadMask, Irq!pic, Irq!Port, TimerCall
  <2>8. QED BY <2>6, <2>7 DEF BootInv
<1>12. CASE at = 10
  <2>1. op = "write"
    BY <1>12, Ops
  <2>2. Irq!WriteMask("main")
    BY <1>1, <2>1 DEF Effect
  <2>3. Controllers'
    BY <1>1, <1>12, <2>2
    DEF BootInv, Controllers, Irq!WriteMask, Irq!NewMask, Irq!Bit, Irq!Port, TimerCall,
        Timer, Irq!Chips, Irq!Bits, Irq!Ctx, Irq!Idle, Irq!None
  <2>4. Flags'
    BY <1>1, <1>12, <1>2, <2>1, <2>2
    DEF BootInv, Flags, Irq!WriteMask, Irq!NewMask, Irq!Bit, Irq!Port, TimerCall
  <2>5. QED BY <2>3, <2>4 DEF BootInv
<1>13. CASE at = 11
  <2>1. op = "sti"
    BY <1>13, Ops
  <2>2. Irq!SetIF(TRUE)
    BY <1>1, <2>1 DEF Effect
  <2>3. Controllers'
    BY <1>1, <1>13, <2>2
    DEF BootInv, Controllers, Irq!SetIF, Irq!pic, Timer, Irq!Chips, Irq!Bits, Irq!Ctx,
        Irq!Idle, Irq!None
  <2>4. Flags'
    BY <1>1, <1>13, <1>2, <2>1, <2>2 DEF BootInv, Flags, Irq!SetIF, Irq!pic
  <2>5. QED BY <2>3, <2>4 DEF BootInv
<1>14. CASE at = 12
  <2>1. op = "ctors"
    BY <1>14, Ops
  <2>2. UNCHANGED irqVars
    BY <1>1, <2>1 DEF Effect
  <2>3. Controllers'
    BY <1>1, <1>14, <2>2
    DEF BootInv, Controllers, irqVars, Timer, Irq!Chips, Irq!Bits, Irq!Ctx, Irq!Idle,
        Irq!None
  <2>4. Flags'
    BY <1>1, <1>14, <1>2, <2>1, <2>2 DEF BootInv, Flags, irqVars
  <2>5. QED BY <2>3, <2>4 DEF BootInv
<1>15. CASE at = 13
  <2>1. op = "cli"
    BY <1>15, Ops
  <2>2. Irq!SetIF(FALSE)
    BY <1>1, <2>1 DEF Effect
  <2>3. Controllers'
    BY <1>1, <1>15, <2>2
    DEF BootInv, Controllers, Irq!SetIF, Irq!pic, Timer, Irq!Chips, Irq!Bits, Irq!Ctx,
        Irq!Idle, Irq!None
  <2>4. Flags'
    BY <1>1, <1>15, <1>2, <2>1, <2>2 DEF BootInv, Flags, Irq!SetIF, Irq!pic
  <2>5. QED BY <2>3, <2>4 DEF BootInv
<1>16. CASE at = 14
  <2>1. op = "add"
    BY <1>16, Ops
  <2>2. UNCHANGED irqVars
    BY <1>1, <2>1 DEF Effect
  <2>3. Controllers'
    BY <1>1, <1>16, <2>2
    DEF BootInv, Controllers, irqVars, Timer, Irq!Chips, Irq!Bits, Irq!Ctx, Irq!Idle,
        Irq!None
  <2>4. Flags'
    BY <1>1, <1>16, <1>2, <2>1, <2>2 DEF BootInv, Flags, irqVars
  <2>5. QED BY <2>3, <2>4 DEF BootInv
<1>17. CASE at = 15
  <2>1. op = "sti"
    BY <1>17, Ops
  <2>2. Irq!SetIF(TRUE)
    BY <1>1, <2>1 DEF Effect
  <2>3. Controllers'
    BY <1>1, <1>17, <2>2
    DEF BootInv, Controllers, Irq!SetIF, Irq!pic, Timer, Irq!Chips, Irq!Bits, Irq!Ctx,
        Irq!Idle, Irq!None
  <2>4. Flags'
    BY <1>1, <1>17, <1>2, <2>1, <2>2 DEF BootInv, Flags, Irq!SetIF, Irq!pic
  <2>5. QED BY <2>3, <2>4 DEF BootInv
<1>18. QED
  BY <1>1, <1>3, <1>4, <1>5, <1>6, <1>7, <1>8, <1>9, <1>10, <1>11, <1>12, <1>13, <1>14,
     <1>15, <1>16, <1>17

\* With the other lines masked, what the chips put through is the timer's.
LEMMA OnlyTimer ==
  ASSUME BootInv, at >= 11, Irq!IntPin
  PROVE  Irq!MasterRequests = {Timer} /\ Irq!Min(Irq!MasterRequests) = Timer
<1>1. Irq!SlaveRequests = {}
  BY DEF BootInv, Controllers, Irq!SlaveRequests, Irq!Chips, Irq!Bits
<1>2. ~Irq!SlaveInt
  BY <1>1 DEF Irq!SlaveInt, Irq!Wins
<1>3. Irq!MasterRequests = irr["master"] \ (Irq!Bits \ {Timer})
  BY <1>2 DEF BootInv, Controllers, Irq!MasterRequests
<1>4. Irq!MasterRequests \subseteq {Timer}
  BY <1>3 DEF BootInv, Controllers, Irq!Chips
<1>5. Irq!MasterRequests = {Timer}
  BY <1>4 DEF Irq!IntPin, Irq!Wins
<1>6. Irq!Min({Timer}) = Timer
  BY DEF Irq!Min, Timer
<1>7. QED BY <1>5, <1>6

LEMMA RaiseLineStep ==
  ASSUME BootInv, NEW n \in Lines, Irq!Raise(n), UNCHANGED <<at, busy, video, head>>
  PROVE  BootInv'
<1>1. n \in 0 .. 15 /\ Irq!Pin(n) \in Irq!Bits
  BY BootAssumption DEF Irq!Pin, Irq!Bits
<1>2. Irq!Port(n) \in Irq!Chips
  BY DEF Irq!Port, Irq!Chips
<1>3. irr' \in [Irq!Chips -> SUBSET Irq!Bits]
  BY <1>1, <1>2 DEF Irq!Raise, BootInv, Controllers
<1>4. Controllers'
  BY <1>3 DEF Irq!Raise, BootInv, Controllers
<1>5. Flags'
  BY DEF Irq!Raise, BootInv, Flags
<1>6. QED BY <1>4, <1>5 DEF BootInv

LEMMA TakenStep ==
  ASSUME BootInv, Irq!Interrupt \/ Irq!Glitch, UNCHANGED <<at, busy, video, head>>
  PROVE  BootInv'
<1>1. ifl /\ at \in {12, 13, 16} /\ Irq!IntPin
  BY DEF Irq!Interrupt, Irq!Glitch, BootInv, Flags
<1>2. Irq!Min(Irq!MasterRequests) = Timer /\ Timer # Irq!Cascade
  BY <1>1, OnlyTimer DEF Timer, Irq!Cascade
<1>3. /\ Irq!Enter(Timer) \/ Irq!Enter(7)
      /\ irr' = [irr EXCEPT !["master"] = @ \ {Timer}]
  BY <1>2 DEF Irq!Interrupt, Irq!Glitch
<1>4. irr' \in [Irq!Chips -> SUBSET Irq!Bits]
  BY <1>3 DEF BootInv, Controllers, Irq!Chips
<1>5. /\ line' \in {Timer, 7} /\ boot' = boot /\ UNCHANGED <<imr, gates, handled, call>>
  BY <1>1, <1>3 DEF Irq!Enter, BootInv, Controllers, Timer
<1>6. Controllers'
  BY <1>4, <1>5 DEF BootInv, Controllers
<1>7. Flags'
  BY <1>1 DEF BootInv, Flags
<1>8. QED BY <1>6, <1>7 DEF BootInv

LEMMA HardwareStep ==
  ASSUME BootInv, Hardware
  PROVE  BootInv'
<1>1. ASSUME Irq!Acknowledge PROVE BootInv'
  BY <1>1 DEF Hardware, Irq!Acknowledge, BootInv, Controllers, Flags
<1>2. ASSUME Irq!Return PROVE BootInv'
  <2>1. at \in {12, 13, 16} /\ at' = at
    BY <1>2 DEF Hardware, Irq!Return, BootInv, Flags
  <2>2. Controllers'
    BY <1>2 DEF Hardware, Irq!Return, Irq!pic, BootInv, Controllers
  <2>3. Flags'
    BY <2>1 DEF Hardware, BootInv, Flags
  <2>4. QED BY <2>2, <2>3 DEF BootInv
<1>3. QED
  BY <1>1, <1>2, RaiseLineStep, TakenStep DEF Hardware

LEMMA BootStep == BootInv /\ [PowerNext]_powerVars => BootInv'
<1>1. ASSUME BootInv, Begin PROVE BootInv'
  <2>1. at # 16
    BY <1>1, Ops DEF Begin
  <2>2. QED BY <1>1, <2>1 DEF Begin, irqVars, BootInv, Controllers, Flags
<1>2. ASSUME BootInv, Kernel PROVE BootInv'
  BY <1>1, <1>2, FinishStep DEF Kernel, Main
<1>3. ASSUME BootInv, Devices PROVE BootInv'
  BY <1>3, HardwareStep DEF Devices
<1>4. ASSUME BootInv, Except PROVE BootInv'
  BY <1>4 DEF Except, BootInv, Controllers, Flags
<1>5. ASSUME BootInv, UNCHANGED vars PROVE BootInv'
  BY <1>5 DEF vars, irqVars, BootInv, Controllers, Flags
<1>6. ASSUME Load \/ Enter32 \/ Map \/ HandleException \/ UNCHANGED powerVars
      PROVE  UNCHANGED vars
  BY <1>6, Zenon DEF Load, Enter32, Map, HandleException, powerVars
<1>7. QED BY <1>2, <1>3, <1>4, <1>5, <1>6 DEF PowerNext

LEMMA BootInit == PowerInit => BootInv
BY DEF PowerInit, Init, Irq!Init, BootInv, Controllers, Flags, Timer,
       Irq!Chips, Irq!Bits, Irq!Ctx, Irq!Idle, Irq!None

\* From the first sti on, whatever an interrupt reaches has been made ready
\* for it: its gate, the handler of the timer, and for the callbacks of play()
\* the video (init.cc, irq.cc).
THEOREM InterruptsFindAllReady == PowerSpec => []ReadyWhenReached
<1>1. BootInv => ReadyWhenReached
  BY DEF BootInv, Controllers, Flags, ReadyWhenReached, Irq!None, Timer
<1>2. QED BY BootInit, BootStep, <1>1, PTL DEF PowerSpec

\* No interrupt enters malloc(), free() or the console while the main flow is
\* inside them, but for the report of a spurious interrupt (init.cc; malloc.cc
\* and console.cc have no lock).
THEOREM OneAtATime == PowerSpec => []OneUser
<1>1. ASSUME BootInv, NEW r \in InMain \cap InHandler
      PROVE  r = "console" /\ line = 7
  <2>1. line # Irq!None /\ at \in {12, 13, 16}
    BY <1>1 DEF InHandler, BootInv, Flags
  <2>2. busy /\ at \in {12, 13}
    BY <1>1, <2>1 DEF InMain, BootInv, Controllers
  <2>3. ~head /\ handled = {Timer}
    BY <2>2, <1>1 DEF BootInv, Controllers, Flags
  <2>4. line # Timer /\ r = "console"
    BY <1>1, <2>3 DEF InHandler
  <2>5. QED BY <1>1, <2>1, <2>4 DEF BootInv, Controllers
<1>2. BootInv => OneUser
  BY <1>1 DEF OneUser
<1>3. QED BY BootInit, BootStep, <1>2, PTL DEF PowerSpec

==============================================================================
