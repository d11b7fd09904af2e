----------------------------- MODULE DiskStream -----------------------------
(***************************************************************************)
(* A stream over the primary disk (drivers/disk/disk.c): a position in     *)
(* bytes, and reads that fetch a sector at a time, one action per level of *)
(* the recursion of disk_stream_read.  A byte of the disk is named by its  *)
(* address, so that what a read delivers is a sequence of addresses.       *)
(***************************************************************************)
EXTENDS Integers, Sequences

CONSTANTS
  SECTOR_SIZE_IN_BYTES,
  Positions,             \* the positions that callers seek to
  ReadSizes,             \* the numbers of bytes that callers read
  MaxPosition            \* no read begins behind this position

ASSUME DiskStreamAssumption ==
  /\ SECTOR_SIZE_IN_BYTES \in Nat \ {0}
  /\ Positions \subseteq Nat
  /\ ReadSizes \subseteq Nat
  /\ MaxPosition \in Nat

VARIABLES
  streamer_pos,
  reading,          \* a call of disk_stream_read has not returned
  bytes_to_read,    \* the argument of its innermost recursive call
  read_buffer,      \* what has been written to the buffer of the caller
  sectors,          \* history: the sectors fetched by the call
  from, asked       \* history: position and size of the outermost call

vars == <<streamer_pos, reading, bytes_to_read, read_buffer, sectors,
          from, asked>>
-----------------------------------------------------------------------------
NoByte == -1

sector == streamer_pos \div SECTOR_SIZE_IN_BYTES
sector_offset == streamer_pos % SECTOR_SIZE_IN_BYTES

OverflowsBySize ==                     \* variant: the offset is forgotten
  bytes_to_read >= SECTOR_SIZE_IN_BYTES

is_overflowing == sector_offset + bytes_to_read >= SECTOR_SIZE_IN_BYTES

WholeSector ==                         \* variant: the offset is forgotten
  IF is_overflowing THEN SECTOR_SIZE_IN_BYTES ELSE bytes_to_read

(* How many bytes of this sector are wanted.                               *)
BytesTaken ==
  IF is_overflowing
  THEN bytes_to_read - ((sector_offset + bytes_to_read) - SECTOR_SIZE_IN_BYTES)
  ELSE bytes_to_read

(* temp_buffer[sector_offset + index] for every index < n; behind the end  *)
(* of temp_buffer there is no byte of the disk.                            *)
CopiedBytes(n) ==
  [i \in 1 .. n |->
     IF sector_offset + (i - 1) < SECTOR_SIZE_IN_BYTES
     THEN sector * SECTOR_SIZE_IN_BYTES + sector_offset + (i - 1)
     ELSE NoByte]

disk_stream_seek(position) ==
  /\ ~reading
  /\ streamer_pos' = position
  /\ from' = position
  /\ asked' = 0
  /\ read_buffer' = <<>>
  /\ sectors' = {}
  /\ UNCHANGED <<reading, bytes_to_read>>

disk_stream_read(n) ==
  /\ ~reading
  /\ reading' = TRUE
  /\ bytes_to_read' = n
  /\ from' = streamer_pos
  /\ asked' = n
  /\ read_buffer' = <<>>
  /\ sectors' = {}
  /\ UNCHANGED streamer_pos

ReadSameSector ==                      \* variant: the stream does not move
  /\ reading
  /\ sectors' = sectors \cup {sector}
  /\ read_buffer' = CopiedBytes(BytesTaken)
  /\ reading' = is_overflowing
  /\ UNCHANGED <<streamer_pos, bytes_to_read, from, asked>>

(* One level: ata_lba_read_sector, the copy, and the recursive call, which *)
(* is made whenever the read is taken to overflow, even for 0 bytes.       *)
ReadSector ==
  /\ reading
  /\ sectors' = sectors \cup {sector}
  /\ read_buffer' = read_buffer \o CopiedBytes(BytesTaken)
  /\ streamer_pos' = streamer_pos + BytesTaken
  /\ reading' = is_overflowing
  /\ bytes_to_read' = bytes_to_read - BytesTaken
  /\ UNCHANGED <<from, asked>>

(* disk_stream_new *)
Init ==
  /\ streamer_pos = 0
  /\ reading = FALSE
  /\ bytes_to_read = 0
  /\ read_buffer = <<>>
  /\ sectors = {}
  /\ from = 0
  /\ asked = 0

Next ==
  \/ \E position \in Positions : disk_stream_seek(position)
  \/ streamer_pos <= MaxPosition /\ \E n \in ReadSizes : disk_stream_read(n)
  \/ ReadSector

Spec == Init /\ [][Next]_vars

(* The recursion runs with interrupts disabled.                            *)
FairSpec == Spec /\ WF_vars(ReadSector)
-----------------------------------------------------------------------------
(* Positions and counts are natural numbers: the subtractions of the code, *)
(* on unsigned words, never wrap; and only bytes of the disk are copied.   *)
TypeOK ==
  /\ streamer_pos \in Nat
  /\ reading \in BOOLEAN
  /\ bytes_to_read \in Nat
  /\ read_buffer \in Seq(Nat)
  /\ sectors \subseteq Nat
  /\ from \in Nat
  /\ asked \in Nat

(* Between two levels of the recursion, the buffer holds the bytes from    *)
(* the position of the call up to the stream's, and the rest is to come.   *)
PrefixRead ==
  /\ Len(read_buffer) = streamer_pos - from
  /\ \A i \in 1 .. Len(read_buffer) : read_buffer[i] = from + i - 1
  /\ reading => streamer_pos + bytes_to_read = from + asked
  /\ ~reading => streamer_pos = from + asked

(* A read delivers the bytes that follow the position of the stream, all   *)
(* and in order, across any number of sectors, and leaves the stream       *)
(* behind them.                                                            *)
ReadDelivers ==
  ~reading => /\ read_buffer = [i \in 1 .. asked |-> from + i - 1]
              /\ streamer_pos = from + asked

(* Every read returns.                                                     *)
ReadReturns == reading ~> ~reading

(* disk.c:80 "if we are trying to read out of bounds of current sector":   *)
(* a sector is fetched only if some of its bytes are asked for.            *)
NoExtraSector ==
  ~reading /\ asked > 0 =>
    \A s \in sectors : /\ s * SECTOR_SIZE_IN_BYTES < from + asked
                       /\ from < (s + 1) * SECTOR_SIZE_IN_BYTES
=============================================================================
