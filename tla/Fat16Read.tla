----------------------------- MODULE Fat16Read -----------------------------
(***************************************************************************)
(* How fs/fat16/fat16.c reads the bytes of a file: the FAT entry of a      *)
(* cluster, the walk along the chain of clusters, and the recursion of     *)
(* fat16_read_from_disk, one action per cluster-sized piece.               *)
(*                                                                         *)
(* A byte of the disk is named by its address, and a stream delivers the   *)
(* bytes behind its position (DiskStream, ReadDelivers).  The disk is a    *)
(* volume with one file: chain holds the clusters of the file in order.    *)
(* A word that is read outside of the file allocation table has some       *)
(* value, filler: there lie the header, directories and data.              *)
(***************************************************************************)
EXTENDS Integers, Sequences, SequencesExt

CONSTANTS
  sector_size,
  sectors_per_cluster,
  reserved_sectors,       \* the table begins behind them
  last_sector,            \* the last sector of the root directory
  NumClusters,
  FileSizes,              \* sizes of the file
  FillerWords,            \* values of words outside of the table
  WordModulus             \* 2^32

total_cluster_size == sectors_per_cluster * sector_size
Clusters == 2 .. (NumClusters + 1)
FAT16_ENTRY_SIZE == 2
LastOfChain == 65535               \* 0xFFFF, what a formatter writes;
                                   \* the largest word

(* A volume with room for the file behind the root directory.              *)
ASSUME Fat16ReadAssumption ==
  /\ {sector_size, sectors_per_cluster, reserved_sectors} \subseteq Nat \ {0}
  /\ {last_sector, NumClusters} \subseteq Nat
  /\ FileSizes \subseteq 1 .. (NumClusters * total_cluster_size)
  /\ FillerWords \subseteq 0 .. LastOfChain

(* Every byte of the volume has an address of 32 bits: streamer_pos.       *)
ASSUME AddressAssumption ==
  /\ WordModulus \in Nat
  /\ (last_sector + 1 + NumClusters * sectors_per_cluster) * sector_size
       <= WordModulus

VARIABLES
  chain, file_size, filler,    \* the disk
  offset, size,                \* arguments of the innermost recursive call
  out                          \* what has been written to the buffer

disk == <<chain, file_size, filler>>
file_vars == <<disk, offset, size, out>>
-----------------------------------------------------------------------------
PiecesOf(n) == (n + total_cluster_size - 1) \div total_cluster_size

(* The entry of a cluster in the table, as the formatter wrote it.         *)
TableEntry(c) ==
  IF \E i \in 1 .. (Len(chain) - 1) : chain[i] = c
  THEN chain[(CHOOSE i \in 1 .. (Len(chain) - 1) : chain[i] = c) + 1]
  ELSE IF c = chain[Len(chain)] THEN LastOfChain ELSE 0

fat16_table_position == reserved_sectors * sector_size

(* The word of two bytes at a position of the disk.                        *)
WordAt(position) ==
  LET c == (position - fat16_table_position) \div FAT16_ENTRY_SIZE
  IN  IF c \in Clusters /\ position % 2 = fat16_table_position % 2
      THEN TableEntry(c) ELSE filler

(* The position of the table is multiplied with that of the entry.         *)
fat16_get_entry(cluster) ==
  WordAt((fat16_table_position * cluster * FAT16_ENTRY_SIZE) % WordModulus)

(* -ERR_INVARG, once it is an unsigned cluster number                      *)
InvalidCluster == WordModulus - 1

(* 0xFF8, 0xFFF, FAT16_BAD_SECTOR, 0xFF0, 0xFF6, 0                         *)
RejectedEntries == {4088, 4095, 4087, 4080, 4086, 0}

OneClusterTooFar(cluster, off) ==      \* variant: walks before it counts
  fat16_get_entry(cluster)

fat16_get_cluster_from_offset(cluster, off) ==
  LET walk[i \in 0 .. (off \div total_cluster_size)] ==
        IF i = 0 THEN cluster
        ELSE LET entry == fat16_get_entry(walk[i - 1])
             IN  IF walk[i - 1] = InvalidCluster \/ entry \in RejectedEntries
                 THEN InvalidCluster ELSE entry
  IN  walk[off \div total_cluster_size]

SectorFromZero(cluster) ==             \* variant: clusters begin at 0
  (last_sector + cluster * sectors_per_cluster + 1) % WordModulus

fat16_cluster_to_sector(cluster) ==
  (last_sector + (cluster - 2) * sectors_per_cluster + 1) % WordModulus

size_readable == IF size > total_cluster_size THEN total_cluster_size ELSE size

OffsetKept ==                          \* variant: offset is passed on as it is
  /\ size > 0
  /\ out' = out \o [i \in 1 .. size_readable |-> i]
  /\ size' = size - size_readable
  /\ UNCHANGED <<disk, offset>>

ReadWithoutProgress ==                 \* variant: size is not reduced
  /\ size > 0
  /\ offset' = (offset + size_readable) % total_cluster_size
  /\ UNCHANGED <<disk, size, out>>

(* The cluster is unsigned, so that the test for an error never succeeds;  *)
(* and the whole offset is added to the address of the cluster.            *)
fat16_read_from_disk ==
  LET current_cluster == fat16_get_cluster_from_offset(chain[1], offset)
      position == (fat16_cluster_to_sector(current_cluster) * sector_size
                     + offset) % WordModulus
  IN  /\ size > 0
      /\ out' = out \o [i \in 1 .. size_readable |-> position + i - 1]
      /\ offset' = offset + size_readable
      /\ size' = size - size_readable
      /\ UNCHANGED disk

(* The loaders read the whole file from its beginning.                     *)
FileInit ==
  /\ file_size \in FileSizes
  /\ chain \in {c \in [1 .. PiecesOf(file_size) -> Clusters] : IsInjective(c)}
  /\ filler \in FillerWords
  /\ offset = 0
  /\ size = file_size
  /\ out = <<>>

FileNext == fat16_read_from_disk

FileSpec == FileInit /\ [][FileNext]_file_vars

(* The recursion runs with interrupts disabled.                            *)
FileFairSpec == FileSpec /\ WF_file_vars(FileNext)
-----------------------------------------------------------------------------
(* The address of byte i of the file, counted from 0.                      *)
AddressInFile(i) ==
  (last_sector + 1 + (chain[(i \div total_cluster_size) + 1] - 2)
                       * sectors_per_cluster) * sector_size
    + (i % total_cluster_size)

ReadCorrectly == \A i \in 1 .. Len(out) : out[i] = AddressInFile(i - 1)

(* The buffer of a loader, which is as large as the file, is filled to its *)
(* last byte and no further, whatever clusters the walk ends up in.        *)
BufferFilled ==
  /\ Len(out) + size = file_size
  /\ offset = Len(out)

(* A file that fits into one cluster (of 64 KB on the boot disk, boot.s)   *)
(* is read correctly, wherever the cluster lies.                           *)
OneClusterFileRead == file_size <= total_cluster_size => ReadCorrectly

(* The read ends.                                                          *)
ReadEnds == <>(size = 0)

(* fat16.c:246 "returns effective cluster given starting cluster and the   *)
(* offset": the bytes of every file are those of its chain of clusters.    *)
FileRead == ReadCorrectly
=============================================================================
