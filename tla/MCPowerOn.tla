------------------------------ MODULE MCPowerOn ------------------------------
(* PowerOn with a floppy, a drive with one head and one sector, one with    *)
(* many of both, and images of up to 260 sectors.                          *)
EXTENDS PowerOn

MCDrives ==
  { [heads |-> 2, sectors |-> 18, floppy |-> TRUE],
    [heads |-> 1, sectors |-> 1, floppy |-> FALSE],
    [heads |-> 256, sectors |-> 63, floppy |-> FALSE] }

MCImages == {1, 4096, 5000, 20481, 132609}

=============================================================================
