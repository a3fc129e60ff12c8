------------------------------- MODULE Loader -------------------------------
(***************************************************************************)
(* The boot loader (boot/boot.asm, boot/disk.asm) and the size link.py     *)
(* writes into it: it reads the kernel, which follows the loader on the    *)
(* drive, sector by sector to 0x10000.  The BIOS and the drive are         *)
(* external: a read may fail and leave rubbish behind, a reset succeeds.   *)
(* A sector's content is its number (LBA).                                 *)
(***************************************************************************)
EXTENDS Integers

CONSTANTS
  Drives,    \* [heads, sectors, floppy]: up to 256 heads and 63 sectors
  Images     \* sizes of kernel.bin in bytes

VARIABLES
  stage16,     \* "detect", "load", "protected" or "fatal"
  drive, image,
  total_heads, sectors_per_track,
  ax, bx, cx, dx,      \* of load(): sectors left, offset, LBA, segment
  number_retries,
  memory       \* physical address -> what a sector's place there holds

vars == << stage16, drive, image, total_heads, sectors_per_track,
           ax, bx, cx, dx, number_retries, memory >>

U16 == 65536
SectorSize == 512
Rubbish == -1

\* link.py: the image is padded to whole sectors; kernel_sectors has 16 bits.
Sectors(size) == (size + 512 - 1) \div 512
kernel_sectors == Sectors(image) % U16

Init ==
  /\ stage16 = "detect"
  /\ drive \in Drives /\ image \in Images
  /\ total_heads = 2 /\ sectors_per_track = 18
  /\ ax = 0 /\ bx = 0 /\ cx = 0 /\ dx = 0 /\ number_retries = 0
  /\ memory = <<>>

----------------------------------------------------------------------------

\* int 13h, ah = 8: the largest head in dh; in cl the sectors of a track and,
\* above them, two bits of the largest cylinder.  It may fail on a floppy.
Detected(dh, cl) ==
  /\ total_heads' = dh + 1
  /\ sectors_per_track' = cl % 64

\* detect() and the parameters of load().
Detect ==
  /\ stage16 = "detect"
  /\ \/ \E high \in 0 .. 3 : Detected(drive.heads - 1, drive.sectors + 64 * high)
     \/ drive.floppy /\ UNCHANGED <<total_heads, sectors_per_track>>
  /\ ax' = kernel_sectors /\ bx' = 0 /\ cx' = 1 /\ dx' = 4096
  /\ stage16' = "load"
  /\ UNCHANGED <<drive, image, number_retries, memory>>

\* What read() puts in ch, cl and dh.
sector_index == (cx % sectors_per_track) + 1
head_index == (cx \div sectors_per_track) % total_heads
cylinder_index == (cx \div sectors_per_track) \div total_heads
ch == cylinder_index % 256
MutCl == sector_index
cl == sector_index + 64 * ((cylinder_index \div 256) % 4)
dh == head_index % 256

\* The sector that the BIOS takes them for.
Served == LET cylinder == ch + 256 * (cl \div 64)
          IN  (cylinder * drive.heads + dh) * drive.sectors + (cl % 64) - 1

Place == (dx * 16 + bx) % 1048576
Put(what) == memory' = [a \in DOMAIN memory \cup {Place} |->
                          IF a = Place THEN what ELSE memory[a]]

\* A read that succeeds, and load() goes on to the next sector.
Read ==
  /\ stage16 = "load" /\ ax # 0
  /\ Put(Served)
  /\ number_retries' = 0
  /\ ax' = ax - 1
  /\ cx' = (cx + 1) % U16
  /\ IF bx + SectorSize # 4096 THEN bx' = bx + SectorSize /\ UNCHANGED dx
     ELSE bx' = 0 /\ dx' = (dx + 256) % U16
  /\ UNCHANGED <<stage16, drive, image, total_heads, sectors_per_track>>

\* One that fails: the drive is reset, and five are too many.
Fail ==
  /\ stage16 = "load" /\ ax # 0
  /\ Put(Rubbish)
  /\ number_retries' = number_retries + 1
  /\ stage16' = IF number_retries' = 5 THEN "fatal" ELSE stage16
  /\ UNCHANGED <<drive, image, total_heads, sectors_per_track, ax, bx, cx, dx>>

\* Protected mode, and the jump into the kernel; the registers are dead.
Enter ==
  /\ stage16 = "load" /\ ax = 0
  /\ stage16' = "protected"
  /\ bx' = 0 /\ cx' = 0 /\ dx' = 0
  /\ UNCHANGED <<drive, image, total_heads, sectors_per_track, ax, number_retries, memory>>

Next == Detect \/ Read \/ Fail \/ Enter

Spec == Init /\ [][Next]_vars

----------------------------------------------------------------------------

\* When the kernel is entered its sectors lie from 0x10000 on in their order,
\* each whole, and nothing else was written: whatever the drive's geometry,
\* the reads that failed and the segment that load() had to step.
ImageLoaded ==
  stage16 = "protected" =>
    /\ DOMAIN memory = {65536 + 512 * k : k \in 0 .. (image - 1) \div 512}
    /\ \A a \in DOMAIN memory : memory[a] = ((a - 65536) \div 512) + 1

=============================================================================
