--------------------------------- MODULE Ata ---------------------------------
(***************************************************************************)
(* The polling driver of kernel/drivers/ata/ata.c against a drive.  The    *)
(* driver's steps are its port accesses; the drive is external and runs at *)
(* its own pace: after a command, and between two sectors, it is busy and  *)
(* then either asks for the data of a sector or reports an error.          *)
(* While it is not busy it is ready (RDY).                                 *)
(***************************************************************************)
EXTENDS Integers

CONSTANTS
    WORDS,      \* words of a sector, 256
    Counts,     \* values of sector_count that callers pass
    ALL,        \* the number of sectors that a count of 0 means to the drive
    MaxCalls    \* bound on the number of calls

VARIABLES
    op, sector_count, j, i,   \* the call: "read" or "write", and its loops
    pc,
    bsy, drq, err,            \* the status register
    sectors, words,           \* what the drive has still to transfer
    ncalls

vars == <<op, sector_count, j, i, pc, bsy, drq, err, sectors, words, ncalls>>
drive == <<bsy, drq, err, sectors, words>>
rdy == ~bsy

Init ==
    /\ op = "read" /\ sector_count = 0 /\ j = 0 /\ i = 0
    /\ pc = "idle"
    /\ bsy = FALSE /\ drq = FALSE /\ err = FALSE
    /\ sectors = 0 /\ words = 0
    /\ ncalls = 0

sectors_ATA_PIO(o, count) ==
    /\ pc = "idle"
    /\ ncalls < MaxCalls
    /\ ncalls' = ncalls + 1
    /\ op' = o /\ sector_count' = count
    /\ pc' = "wait_BSY"
    /\ UNCHANGED <<j, i, drive>>

read_sectors_ATA_PIO(count)  == sectors_ATA_PIO("read", count)
write_sectors_ATA_PIO(count) == sectors_ATA_PIO("write", count)

\* The first wait, the parameters and the command.
command ==
    /\ pc = "wait_BSY"
    /\ ~bsy
    /\ bsy' = TRUE /\ drq' = FALSE /\ err' = FALSE
    /\ sectors' = IF sector_count = 0 THEN ALL ELSE sector_count
    /\ words' = 0
    /\ j' = 0
    /\ pc' = "loop"
    /\ UNCHANGED <<op, sector_count, i, ncalls>>

loop ==
    /\ pc = "loop"
    /\ pc' = IF j < sector_count THEN "loop_BSY" ELSE "idle"
    /\ UNCHANGED <<op, sector_count, j, i, drive, ncalls>>

ATA_wait_BSY ==
    /\ pc = "loop_BSY"
    /\ ~bsy
    /\ pc' = "loop_DRQ"
    /\ UNCHANGED <<op, sector_count, j, i, drive, ncalls>>

ATA_wait_DRQ ==
    /\ pc = "loop_DRQ"
    /\ rdy
    /\ i' = 0
    /\ pc' = "data"
    /\ UNCHANGED <<op, sector_count, j, drive, ncalls>>

\* External: what an access to the data register does to the drive.
Transfer ==
    /\ words' = IF drq THEN words - 1 ELSE words
    /\ drq' = (drq /\ words > 1)
    /\ bsy' = (bsy \/ (drq /\ words = 1 /\ sectors > 1))
    /\ sectors' = IF drq /\ words = 1 THEN sectors - 1 ELSE sectors
    /\ UNCHANGED err

\* inw moves a word; outl moves two, so a write has twice as many.
ACCESSES == IF op = "read" THEN WORDS ELSE 2 * WORDS

data ==
    /\ pc = "data"
    /\ Transfer
    /\ i' = i + 1
    /\ pc' = IF i + 1 = ACCESSES THEN "loop" ELSE "data"
    /\ j' = IF i + 1 = ACCESSES THEN j + 1 ELSE j
    /\ UNCHANGED <<op, sector_count, ncalls>>

\* External: the drive has the sector, or failed.
drive_ready ==
    /\ bsy
    /\ bsy' = FALSE /\ drq' = TRUE /\ words' = WORDS
    /\ UNCHANGED <<op, sector_count, j, i, pc, err, sectors, ncalls>>

drive_error ==
    /\ bsy
    /\ bsy' = FALSE /\ err' = TRUE /\ sectors' = 0
    /\ UNCHANGED <<op, sector_count, j, i, pc, drq, words, ncalls>>

Next ==
    \/ \E count \in Counts : read_sectors_ATA_PIO(count) \/ write_sectors_ATA_PIO(count)
    \/ command \/ loop \/ ATA_wait_BSY \/ ATA_wait_DRQ \/ data
    \/ drive_ready \/ drive_error

Spec == Init /\ [][Next]_vars

-----------------------------------------------------------------------------
\* "DRQ: ... Don't access the data register while this bit is 0." (ata.c:9)
DataOnlyWithDRQ == pc = "data" => drq

=============================================================================
