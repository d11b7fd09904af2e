---------------------------- MODULE Fat16Proofs ----------------------------
(***************************************************************************)
(* Proofs about the FAT16 file system and what it is built on.             *)
(*                                                                         *)
(* DiskStream: whatever the size of a sector, the position and the length  *)
(* of a read, the bytes delivered are those of the disk.  Fat16Read, whose *)
(* files are read through such streams.  Parser and Fat16Dir: the units of *)
(* a path, and the file that is found with them.                           *)
(***************************************************************************)
EXTENDS DiskStream, Fat16Read, Fat16Dir, SequenceTheorems,
        WellFoundedInduction, FiniteSetTheorems, TLAPS


(* sector and sector_offset locate the position of the stream.             *)
LEMMA SectorFacts ==
  ASSUME TypeOK
  PROVE  /\ sector \in Nat
         /\ sector_offset \in 0 .. (SECTOR_SIZE_IN_BYTES - 1)
         /\ sector * SECTOR_SIZE_IN_BYTES + sector_offset = streamer_pos
<1>1. SECTOR_SIZE_IN_BYTES \in Nat \ {0} /\ streamer_pos \in Nat
  BY DiskStreamAssumption DEF TypeOK
<1>2. ASSUME NEW a \in Nat, NEW b \in Nat \ {0}
      PROVE  /\ a \div b \in Nat
             /\ a % b \in 0 .. (b - 1)
             /\ (a \div b) * b + (a % b) = a
  BY SMT
<1> QED BY <1>1, <1>2, Zenon DEF sector, sector_offset

(* A level takes no more than is asked for and no more than the sector     *)
(* has left, and the level that does not recurse takes all.                *)
LEMMA TakenFacts ==
  ASSUME TypeOK
  PROVE  /\ BytesTaken \in Nat
         /\ BytesTaken <= bytes_to_read
         /\ sector_offset + BytesTaken <= SECTOR_SIZE_IN_BYTES
         /\ ~is_overflowing => BytesTaken = bytes_to_read
<1>1. /\ SECTOR_SIZE_IN_BYTES \in Nat \ {0}
      /\ bytes_to_read \in Nat
      /\ sector_offset \in 0 .. (SECTOR_SIZE_IN_BYTES - 1)
  BY SectorFacts, DiskStreamAssumption DEF TypeOK
<1> QED BY <1>1 DEF BytesTaken, is_overflowing

(* The bytes copied by one level are those behind the position.            *)
LEMMA CopiedFacts ==
  ASSUME TypeOK
  PROVE  CopiedBytes(BytesTaken)
           = [i \in 1 .. BytesTaken |-> streamer_pos + i - 1]
<1> DEFINE n == BytesTaken  o == sector_offset  d == SECTOR_SIZE_IN_BYTES
           base == sector * SECTOR_SIZE_IN_BYTES
<1>1. d \in Nat /\ n \in Nat /\ o \in Nat /\ o + n <= d
  BY SectorFacts, TakenFacts, DiskStreamAssumption
<1>2. base \in Nat /\ base + o = streamer_pos /\ streamer_pos \in Nat
  BY SectorFacts, DiskStreamAssumption DEF TypeOK
<1>3. CopiedBytes(n) = [i \in 1 .. n |->
                          IF o + (i - 1) < d THEN base + o + (i - 1) ELSE NoByte]
  BY DEF CopiedBytes
<1> HIDE DEF n, o, d, base
<1>4. ASSUME NEW i \in 1 .. n
      PROVE  /\ o + (i - 1) < d
             /\ base + o + (i - 1) = streamer_pos + i - 1
  BY <1>1, <1>2
<1>5. [i \in 1 .. n |-> IF o + (i - 1) < d THEN base + o + (i - 1) ELSE NoByte]
        = [i \in 1 .. n |-> streamer_pos + i - 1]
  BY <1>4
<1> QED BY <1>3, <1>5 DEF n

(* Appending the next bytes to a prefix of a read gives a longer prefix.   *)
LEMMA AppendBytes ==
  ASSUME NEW b \in Seq(Nat), NEW start \in Nat, NEW n \in Nat,
         \A i \in 1 .. Len(b) : b[i] = start + i - 1
  PROVE  LET c == b \o [i \in 1 .. n |-> start + Len(b) + i - 1]
         IN  /\ c \in Seq(Nat)
             /\ Len(c) = Len(b) + n
             /\ \A i \in 1 .. Len(c) : c[i] = start + i - 1
<1> DEFINE e == [i \in 1 .. n |-> start + Len(b) + i - 1]
           c == b \o e
<1>1. e \in Seq(Nat) /\ Len(e) = n
  <2>1. \A i \in 1 .. n : start + Len(b) + i - 1 \in Nat
    OBVIOUS
  <2>2. e \in [1 .. n -> Nat]
    BY <2>1
  <2> QED BY <2>2
<1>2. \A i \in 1 .. n : e[i] = start + Len(b) + i - 1
  OBVIOUS
<1> HIDE DEF e
<1>3. c \in Seq(Nat) /\ Len(c) = Len(b) + n
  BY <1>1
<1>4. ASSUME NEW i \in 1 .. Len(c) PROVE c[i] = start + i - 1
  <2>1. CASE i <= Len(b)
    BY <1>1, <1>3, <2>1
  <2>2. CASE i > Len(b)
    <3>1. i - Len(b) \in 1 .. n
      BY <1>3, <2>2
    <3>2. c[i] = e[i - Len(b)]
      BY <1>1, <1>3, <2>2
    <3> QED BY <1>2, <3>1, <3>2
  <2> QED BY <1>3, <2>1, <2>2
<1> QED BY <1>3, <1>4 DEF e
-----------------------------------------------------------------------------
ReadInv == TypeOK /\ PrefixRead

LEMMA ReadInvInit == Init => ReadInv
<1> SUFFICES ASSUME Init PROVE ReadInv
  OBVIOUS
<1>1. reading \in BOOLEAN
  BY Zenon DEF Init
<1>2. read_buffer \in Seq(Nat) /\ Len(read_buffer) = 0
  BY DEF Init
<1>3. sectors \subseteq Nat
  BY DEF Init
<1>4. streamer_pos = 0 /\ from = 0 /\ asked = 0 /\ bytes_to_read = 0
  BY DEF Init
<1>5. TypeOK
  BY <1>1, <1>2, <1>3, <1>4 DEF TypeOK
<1> QED BY <1>2, <1>4, <1>5 DEF Init, ReadInv, PrefixRead

LEMMA ReadInvNext == ReadInv /\ [Next]_vars => ReadInv'
<1> SUFFICES ASSUME ReadInv, [Next]_vars PROVE ReadInv'
  OBVIOUS
<1> USE DEF ReadInv
<1>1. ASSUME NEW position \in Positions, disk_stream_seek(position)
      PROVE  ReadInv'
  <2>1. position \in Nat
    BY <1>1, DiskStreamAssumption
  <2> QED BY <1>1, <2>1 DEF disk_stream_seek, TypeOK, PrefixRead
<1>2. ASSUME NEW n \in ReadSizes, disk_stream_read(n)
      PROVE  ReadInv'
  <2>1. n \in Nat
    BY <1>2, DiskStreamAssumption
  <2> QED BY <1>2, <2>1 DEF disk_stream_read, TypeOK, PrefixRead
<1>3. CASE ReadSector
  <2> DEFINE n == BytesTaken
  <2>1. /\ n \in Nat /\ n <= bytes_to_read
        /\ ~is_overflowing => n = bytes_to_read
    BY TakenFacts
  <2>2. read_buffer' = read_buffer \o [i \in 1 .. n |-> streamer_pos + i - 1]
    BY <1>3, CopiedFacts DEF ReadSector
  <2>3. /\ streamer_pos' = streamer_pos + n
        /\ bytes_to_read' = bytes_to_read - n
        /\ reading' = is_overflowing
        /\ reading /\ from' = from /\ asked' = asked
        /\ sectors' = sectors \cup {sector}
    BY <1>3 DEF ReadSector
  <2> HIDE DEF n
  <2>4. streamer_pos = from + Len(read_buffer)
    BY DEF TypeOK, PrefixRead
  <2>5. read_buffer'
          = read_buffer \o [i \in 1 .. n |-> from + Len(read_buffer) + i - 1]
    BY <2>2, <2>4
  <2>6. /\ read_buffer' \in Seq(Nat)
        /\ Len(read_buffer') = Len(read_buffer) + n
        /\ \A i \in 1 .. Len(read_buffer') : read_buffer'[i] = from + i - 1
    BY <2>1, <2>5, AppendBytes DEF TypeOK, PrefixRead
  <2>7. reading' \in BOOLEAN
    BY <2>3 DEF is_overflowing
  <2>8. /\ streamer_pos' \in Nat /\ bytes_to_read' \in Nat
        /\ from' \in Nat /\ asked' \in Nat
    BY <2>1, <2>3 DEF TypeOK
  <2>9. sectors' \subseteq Nat
    BY <2>3, SectorFacts DEF TypeOK
  <2>10. TypeOK'
    BY <2>6, <2>7, <2>8, <2>9, Zenon DEF TypeOK
  <2>11. streamer_pos' + bytes_to_read' = from' + asked'
    BY <2>1, <2>3 DEF TypeOK, PrefixRead
  <2>12. streamer_pos + bytes_to_read = from + asked
    BY <2>3 DEF PrefixRead
  <2>13. n = bytes_to_read => streamer_pos' = from' + asked'
    BY <2>3, <2>12, Zenon
  <2>14. ~reading' => streamer_pos' = from' + asked'
    BY <2>1, <2>3, <2>13, Zenon
  <2>15. Len(read_buffer') = streamer_pos' - from'
    BY <2>1, <2>3, <2>4, <2>6 DEF TypeOK
  <2>16. \A i \in 1 .. Len(read_buffer') : read_buffer'[i] = from' + i - 1
    BY <2>3, <2>6
  <2>17. PrefixRead'
    BY <2>11, <2>14, <2>15, <2>16, Zenon DEF PrefixRead
  <2> QED BY <2>10, <2>17
<1>4. CASE UNCHANGED vars
  BY <1>4 DEF vars, TypeOK, PrefixRead
<1> QED BY <1>1, <1>2, <1>3, <1>4 DEF Next

LEMMA ReadInvariant == Spec => []ReadInv
<1>1. Init => ReadInv
  BY ReadInvInit
<1>2. ReadInv /\ [Next]_vars => ReadInv'
  BY ReadInvNext
<1> QED BY <1>1, <1>2, PTL DEF Spec

(* The unsigned subtractions of disk_stream_read never wrap, and nothing   *)
(* behind the end of temp_buffer is copied.                                *)
THEOREM DiskTypeSafety == Spec => []TypeOK
<1>1. ReadInv => TypeOK
  BY DEF ReadInv
<1> QED BY <1>1, ReadInvariant, PTL

(* Between any two levels of the recursion the buffer holds a prefix of    *)
(* what was asked for.                                                     *)
THEOREM DiskPrefixRead == Spec => []PrefixRead
<1>1. ReadInv => PrefixRead
  BY DEF ReadInv
<1> QED BY <1>1, ReadInvariant, PTL

(* When disk_stream_read returns, it has delivered the bytes that follow   *)
(* the position of the stream, all and in order.                           *)
THEOREM DiskReadDelivers == Spec => []ReadDelivers
<1>1. ReadInv => ReadDelivers
  <2> SUFFICES ASSUME ReadInv, ~reading PROVE ReadDelivers
    BY DEF ReadDelivers
  <2>1. /\ read_buffer \in Seq(Nat) /\ from \in Nat /\ asked \in Nat
        /\ Len(read_buffer) = asked
        /\ streamer_pos = from + asked
        /\ \A i \in 1 .. Len(read_buffer) : read_buffer[i] = from + i - 1
    BY DEF ReadInv, TypeOK, PrefixRead
  <2>2. read_buffer = [i \in 1 .. asked |-> from + i - 1]
    BY <2>1
  <2> QED BY <2>1, <2>2 DEF ReadDelivers
<1> QED BY <1>1, ReadInvariant, PTL
-----------------------------------------------------------------------------
(***************************************************************************)
(* Proofs about Fat16Read, which reads the pieces of a file through such a *)
(* stream: whatever the volume and the file, its buffer is filled exactly, *)
(* and a file of one cluster is read correctly.                            *)
(***************************************************************************)

(* Buffer and arguments of the recursion agree, and before the first byte  *)
(* is read the whole file is asked for: the recursion of a file that fits  *)
(* into one cluster has one level, at offset 0.                            *)
FileInv ==
  /\ file_size \in Nat \ {0} /\ size \in Nat /\ offset \in Nat
  /\ \E S : out \in Seq(S)
  /\ chain[1] \in Clusters
  /\ BufferFilled
  /\ offset = 0 \/ offset >= total_cluster_size \/ size = 0
  /\ OneClusterFileRead

(* Byte counts are natural numbers, and a cluster has at least one byte.   *)
LEMMA ClusterFacts ==
  /\ sector_size \in Nat \ {0} /\ sectors_per_cluster \in Nat \ {0}
  /\ last_sector \in Nat /\ NumClusters \in Nat
  /\ total_cluster_size \in Nat \ {0}
<1>1. /\ sector_size \in Nat \ {0} /\ sectors_per_cluster \in Nat \ {0}
      /\ last_sector \in Nat /\ NumClusters \in Nat
  BY Fat16ReadAssumption
<1>2. \A a, b \in Nat \ {0} : a * b \in Nat \ {0}
  BY SMT
<1> QED BY <1>1, <1>2 DEF total_cluster_size

LEMMA FileInvInit == ASSUME FileInit PROVE FileInv
<1> DEFINE t == total_cluster_size
<1>1. t \in Nat \ {0} /\ NumClusters \in Nat
  BY ClusterFacts
<1>2. file_size \in Nat \ {0}
  <2> HIDE DEF t
  <2>1. NumClusters * t \in Nat
    BY <1>1
  <2>2. FileSizes \subseteq 1 .. (NumClusters * total_cluster_size)
    BY Fat16ReadAssumption
  <2>3. file_size \in FileSizes
    BY DEF FileInit
  <2> QED BY <2>1, <2>2, <2>3 DEF t
<1>3. PiecesOf(file_size) \in Nat \ {0}
  <2> HIDE DEF t
  <2>1. \A a, b \in Nat \ {0} : (a + b - 1) \div b \in Nat \ {0}
    BY SMT
  <2> QED BY <1>1, <1>2, <2>1 DEF PiecesOf, t
<1>4. chain[1] \in Clusters
  BY <1>3 DEF FileInit
<1>5. /\ size = file_size /\ offset = 0 /\ out = <<>>
  BY DEF FileInit
<1>6. BufferFilled /\ \E S : out \in Seq(S)
  BY <1>2, <1>5 DEF BufferFilled
<1>7. OneClusterFileRead
  BY <1>5 DEF OneClusterFileRead, ReadCorrectly
<1> QED BY <1>2, <1>4, <1>5, <1>6, <1>7 DEF FileInv

(* The walk from the start of a file stays in its first cluster.           *)
LEMMA FirstCluster ==
  ASSUME NEW c
  PROVE  fat16_get_cluster_from_offset(c, 0) = c
<1> DEFINE t == total_cluster_size
           Entry(w, i) == fat16_get_entry(w[i - 1])
           Step(w) == [i \in 0 .. (0 \div t) |->
                         IF i = 0 THEN c
                         ELSE IF \/ w[i - 1] = InvalidCluster
                                 \/ Entry(w, i) \in RejectedEntries
                              THEN InvalidCluster ELSE Entry(w, i)]
           walk == CHOOSE w : w = Step(w)
<1>1. t \in Nat \ {0}
  BY ClusterFacts
<1>2. 0 \div t = 0
  <2> HIDE DEF t
  <2> QED BY <1>1
<1>3. fat16_get_cluster_from_offset(c, 0) = walk[0 \div t]
  BY Zenon DEF fat16_get_cluster_from_offset
<1>4. ASSUME NEW w PROVE Step(w) = [i \in 0 .. 0 |-> c]
  <2>1. \A i \in 0 .. 0 : i = 0
    OBVIOUS
  <2> QED BY <1>2, <2>1
<1> HIDE DEF Step
<1>5. \E w : w = Step(w)
  BY <1>4, Zenon
<1>6. walk = Step(walk)
  BY <1>5, Zenon
<1> HIDE DEF walk
<1>7. walk = [i \in 0 .. 0 |-> c]
  BY <1>4, <1>6, Zenon
<1> QED BY <1>2, <1>3, <1>7

(* The cluster of a file lies on the disk: its address does not wrap.      *)
LEMMA AddressFacts ==
  ASSUME NEW c \in Clusters
  PROVE  /\ WordModulus \in Nat \ {0}
         /\ fat16_cluster_to_sector(c)
              = last_sector + 1 + (c - 2) * sectors_per_cluster
         /\ fat16_cluster_to_sector(c) * sector_size \in Nat
         /\ fat16_cluster_to_sector(c) * sector_size < WordModulus
<1> DEFINE k == sectors_per_cluster
           A == last_sector + 1 + (c - 2) * k
           B == last_sector + 1 + NumClusters * k
<1>1. /\ sector_size \in Nat \ {0} /\ k \in Nat \ {0}
      /\ last_sector \in Nat /\ NumClusters \in Nat
  BY ClusterFacts
<1>2. c - 2 \in Nat /\ c - 2 < NumClusters
  BY <1>1 DEF Clusters
<1>3. \A x, y, z \in Nat : x < y /\ z # 0 => x * z \in Nat /\ y * z \in Nat
                                              /\ x * z < y * z
  BY SMT
<1>4. /\ (c - 2) * k \in Nat /\ NumClusters * k \in Nat
      /\ (c - 2) * k < NumClusters * k
  BY <1>1, <1>2, <1>3
<1>5. A \in Nat /\ B \in Nat /\ A < B
  BY <1>1, <1>4
<1>6. WordModulus \in Nat /\ B * sector_size <= WordModulus
  BY AddressAssumption
<1>7. last_sector + (c - 2) * k + 1 = A
  BY <1>1, <1>4
<1>8. fat16_cluster_to_sector(c) = A % WordModulus
  BY <1>7 DEF fat16_cluster_to_sector
<1> HIDE DEF A, B, k
<1>9. A * sector_size \in Nat /\ A * sector_size < WordModulus
  BY <1>1, <1>3, <1>5, <1>6
<1>10. A <= A * sector_size
  BY <1>1, <1>5
<1>11. A % WordModulus = A
  BY <1>5, <1>6, <1>9, <1>10
<1> QED BY <1>6, <1>8, <1>9, <1>11 DEF A, k

LEMMA FileInvNext ==
  ASSUME FileInv, [FileNext]_file_vars
  PROVE  FileInv'
<1> DEFINE t == total_cluster_size
           n == size_readable
<1>1. t \in Nat \ {0}
  BY ClusterFacts
<1>2. CASE UNCHANGED file_vars
  BY <1>2 DEF file_vars, disk, FileInv, BufferFilled,
     OneClusterFileRead, ReadCorrectly, AddressInFile
<1>3. CASE FileNext
  <2> DEFINE cluster == fat16_get_cluster_from_offset(chain[1], offset)
             position == (fat16_cluster_to_sector(cluster) * sector_size
                            + offset) % WordModulus
  <2>1. /\ size > 0
        /\ out' = out \o [i \in 1 .. n |-> position + i - 1]
        /\ offset' = offset + n
        /\ size' = size - n
        /\ chain' = chain /\ file_size' = file_size
    BY <1>3, Zenon DEF FileNext, fat16_read_from_disk, disk
  <2>2. /\ file_size \in Nat \ {0} /\ size \in Nat /\ offset \in Nat
        /\ chain[1] \in Clusters
        /\ Len(out) + size = file_size /\ offset = Len(out)
        /\ offset = 0 \/ offset >= t \/ size = 0
    BY Zenon DEF FileInv, BufferFilled
  <2>3. n = IF size > t THEN t ELSE size
    BY Zenon DEF size_readable
  <2> PICK S : out \in Seq(S)
    BY DEF FileInv
  <2> HIDE DEF t, n
  <2>4. n \in Nat /\ n <= size /\ (n = t \/ n = size)
    BY <1>1, <2>2, <2>3
  <2>5. /\ size' \in Nat /\ offset' \in Nat
        /\ offset' >= t \/ size' = 0
    BY <1>1, <2>1, <2>2, <2>4
  <2> HIDE DEF position
  <2>6. /\ \E T : out' \in Seq(T)
        /\ Len(out') = Len(out) + n
        /\ \A i \in 1 .. n : out'[Len(out) + i] = position + i - 1
    <3> DEFINE e == [i \in 1 .. n |-> position + i - 1]
               T == S \cup {e[i] : i \in 1 .. n}
    <3>1. e \in [1 .. n -> T]
      BY Zenon
    <3>2. \A i \in 1 .. n : e[i] = position + i - 1
      BY Zenon
    <3>3. out' = out \o e
      BY <2>1, Zenon
    <3>4. \A i \in 1 .. Len(out) : out[i] \in T
      OBVIOUS
    <3> HIDE DEF e, T
    <3>5. e \in Seq(T) /\ Len(e) = n
      BY <2>4, <3>1
    <3>6. out \in Seq(T)
      BY <3>4
    <3>7. out \o e \in Seq(T) /\ Len(out \o e) = Len(out) + n
      BY <3>5, <3>6
    <3>8. ASSUME NEW i \in 1 .. n PROVE (out \o e)[Len(out) + i] = e[i]
      BY <2>4, <3>5, <3>6, <3>7
    <3> QED BY <3>2, <3>3, <3>7, <3>8, Zenon
  <2>7. BufferFilled'
    <3>1. /\ offset' = offset + n /\ size' = size - n
          /\ file_size' = file_size /\ Len(out') = Len(out) + n
      BY <2>1, <2>6, Zenon
    <3>2. Len(out) \in Nat /\ Len(out) + size = file_size
          /\ offset = Len(out) /\ size \in Nat
      BY <2>2, Zenon
    <3>3. ASSUME NEW l, NEW l1, l \in Nat, l1 = l + n,
                 l + size = file_size, offset = l
          PROVE  l1 + size' = file_size' /\ offset' = l1
      BY <2>2, <2>4, <3>1, <3>3
    <3>4. Len(out') + size' = file_size' /\ offset' = Len(out')
      BY <3>1, <3>2, <3>3, Zenon
    <3> QED BY <3>4, Zenon DEF BufferFilled
  <2>8. ASSUME file_size' <= t PROVE ReadCorrectly'
    <3>1. offset = 0 /\ Len(out) = 0 /\ n = size /\ n <= t
      BY <1>1, <2>1, <2>2, <2>3, <2>8
    <3>2. cluster = chain[1]
      BY <3>1, FirstCluster
    <3> DEFINE base == fat16_cluster_to_sector(chain[1]) * sector_size
    <3>3. /\ WordModulus \in Nat \ {0} /\ base \in Nat /\ base < WordModulus
          /\ base = (last_sector + 1 + (chain[1] - 2) * sectors_per_cluster)
                      * sector_size
      BY <2>2, AddressFacts
    <3>4. position = (base + 0) % WordModulus
      BY <3>1, <3>2 DEF position
    <3> HIDE DEF base
    <3>5. position = base
      BY <3>3, <3>4
    <3>6. ASSUME NEW i \in 1 .. Len(out')
          PROVE  out'[i] = AddressInFile(i - 1)'
      <4>1. i \in 1 .. n /\ Len(out) + i = i
        BY <2>4, <2>6, <3>1
      <4>2. out'[i] = base + (i - 1)
        BY <2>6, <3>3, <3>5, <4>1
      <4>3. (i - 1) \div t = 0 /\ (i - 1) % t = i - 1
        BY <1>1, <2>4, <3>1, <4>1
      <4>4. AddressInFile(i - 1)' = base + (i - 1)
        BY <2>1, <3>3, <4>3 DEF AddressInFile, t
      <4> QED BY <4>2, <4>4
    <3> QED BY <3>6 DEF ReadCorrectly
  <2>9. OneClusterFileRead'
    BY <2>8 DEF OneClusterFileRead, t
  <2> QED BY <2>1, <2>2, <2>5, <2>6, <2>7, <2>9 DEF FileInv, t
<1> QED BY <1>2, <1>3

LEMMA FileInvariant == FileSpec => []FileInv
<1>1. FileInit => FileInv
  BY FileInvInit
<1>2. FileInv /\ [FileNext]_file_vars => FileInv'
  BY FileInvNext
<1> QED BY <1>1, <1>2, PTL DEF FileSpec

(* However the walk along the chain of clusters goes wrong, the recursion  *)
(* of fat16_read_from_disk writes the file_size bytes of its buffer, each  *)
(* piece behind the last one, and never a byte more.                       *)
THEOREM FileBufferFilled == FileSpec => []BufferFilled
<1>1. FileInv => BufferFilled
  BY DEF FileInv
<1> QED BY <1>1, FileInvariant, PTL

(* A file that fits into one cluster is read from that cluster, byte for   *)
(* byte, on every volume whose addresses fit into 32 bits.                 *)
THEOREM FileOneClusterRead == FileSpec => []OneClusterFileRead
<1>1. FileInv => OneClusterFileRead
  BY DEF FileInv
<1> QED BY <1>1, FileInvariant, PTL
-----------------------------------------------------------------------------
(* Induction: a nonempty set of naturals has a least element, and a set of *)
(* naturals that holds 0 and the successors of its members up to n holds   *)
(* them all.  Predicates are given as sets.                                *)
LEMMA LeastNatural ==
  ASSUME NEW T, T \subseteq Nat, T # {}
  PROVE  \E x \in T : \A y \in T : x <= y
<1> DEFINE R == {ss \in Nat \X Nat : ss[1] < ss[2]}
<1>1. IsWellFoundedOn(R, Nat)
  BY NatLessThanWellFounded DEF OpToRel
<1>2. PICK x \in T : \A y \in T : ~ (<<y, x>> \in R)
  <2> HIDE DEF R
  <2> QED BY <1>1, WFMin
<1>3. ASSUME NEW y \in T PROVE x <= y
  <2>1. ~ (<<y, x>> \in R)
    BY <1>2
  <2>2. y < x => <<y, x>> \in R
    OBVIOUS
  <2> QED BY <2>1, <2>2
<1> QED BY <1>2, <1>3

LEMMA UpTo ==
  ASSUME NEW n \in Nat, NEW S, 0 \in S,
         \A i \in 1 .. n : i - 1 \in S => i \in S
  PROVE  \A i \in 0 .. n : i \in S
<1> SUFFICES ASSUME NEW k \in 0 .. n, k \notin S PROVE FALSE
  OBVIOUS
<1> DEFINE Bad == {i \in 0 .. n : i \notin S}
<1>1. PICK i \in Bad : \A j \in Bad : i <= j
  <2>1. Bad \subseteq Nat /\ k \in Bad
    OBVIOUS
  <2> HIDE DEF Bad
  <2> QED BY <2>1, LeastNatural
<1>2. i \in 1 .. n /\ i - 1 \in 0 .. n /\ ~(i <= i - 1)
  BY <1>1
<1>3. i - 1 \in S
  BY <1>1, <1>2
<1> QED BY <1>1, <1>2, <1>3

(* A recursive function over 0 .. n exists.                                *)
IsRecursive(g, n, x, F) ==
  g = [i \in 0 .. n |-> IF i = 0 THEN x ELSE F[i][g[i - 1]]]

LEMMA RecursionExists ==
  ASSUME NEW n \in Nat, NEW M, NEW x \in M, NEW F \in [1 .. n -> [M -> M]]
  PROVE  \E g \in [0 .. n -> M] : IsRecursive(g, n, x, F)
<1> DEFINE Good(k, g) == /\ g \in [0 .. k -> M]
                         /\ g[0] = x
                         /\ \A i \in 1 .. k : g[i] = F[i][g[i - 1]]
           S == {k \in 0 .. n : \E g : Good(k, g)}
<1>1. 0 \in S
  <2>1. Good(0, [i \in 0 .. 0 |-> x])
    OBVIOUS
  <2> HIDE DEF Good
  <2> QED BY <2>1
<1>2. ASSUME NEW k \in 1 .. n, k - 1 \in S PROVE k \in S
  <2>1. PICK g : Good(k - 1, g)
    BY <1>2
  <2> DEFINE h == [i \in 0 .. k |-> IF i = k THEN F[k][g[k - 1]] ELSE g[i]]
  <2>2. g[k - 1] \in M
    BY <2>1
  <2>3. F[k][g[k - 1]] \in M
    BY <2>2
  <2>4. h \in [0 .. k -> M]
    BY <2>1, <2>3
  <2>5. h[0] = x
    BY <2>1
  <2>6. ASSUME NEW i \in 1 .. k PROVE h[i] = F[i][h[i - 1]]
    <3>1. i - 1 \in 0 .. k /\ i - 1 # k
      OBVIOUS
    <3>2. h[i - 1] = g[i - 1]
      BY <3>1
    <3>3. CASE i = k
      BY <3>2, <3>3
    <3>4. CASE i # k
      <4>1. i \in 1 .. (k - 1)
        BY <3>4
      <4> QED BY <2>1, <3>2, <3>4, <4>1
    <3> QED BY <3>3, <3>4
  <2>7. Good(k, h)
    BY <2>4, <2>5, <2>6
  <2> HIDE DEF Good
  <2> QED BY <2>7
<1>3. n \in S
  <2> HIDE DEF S
  <2>1. \A i \in 0 .. n : i \in S
    BY <1>1, <1>2, UpTo
  <2> QED BY <2>1
<1>4. PICK g : Good(n, g)
  BY <1>3
<1>5. g = [i \in 0 .. n |-> IF i = 0 THEN x ELSE F[i][g[i - 1]]]
  <2>1. \A i \in 0 .. n : g[i] = IF i = 0 THEN x ELSE F[i][g[i - 1]]
    <3> TAKE i \in 0 .. n
    <3>1. i # 0 => i \in 1 .. n
      OBVIOUS
    <3> QED BY <1>4, <3>1
  <2> QED BY <1>4, <2>1
<1> QED BY <1>4, <1>5 DEF IsRecursive
-----------------------------------------------------------------------------
(* The recursion of Joined is a function, and its values are texts.        *)
LEMMA JoinedFcn ==
  ASSUME NEW C, "/" \in C, NEW us \in Seq(Seq(C))
  PROVE  \E g \in [0 .. Len(us) -> Seq(C)] :
           /\ g[0] = <<>>
           /\ \A i \in 1 .. Len(us) :
                g[i] = IF i = 1 THEN us[1] ELSE g[i - 1] \o <<"/">> \o us[i]
           /\ Joined(us) = g[Len(us)]
<1> DEFINE n == Len(us)
           M == Seq(C)
           Next1(i, x) == IF i = 1 THEN us[1] ELSE x \o <<"/">> \o us[i]
           F == [i \in 1 .. n |-> [x \in M |-> Next1(i, x)]]
           Step(g) == [i \in 0 .. n |-> IF i = 0 THEN <<>>
                                        ELSE Next1(i, g[i - 1])]
           join == CHOOSE g : g = Step(g)
<1>1. n \in Nat /\ <<>> \in M /\ \A i \in 1 .. n : us[i] \in M
  OBVIOUS
<1>2. ASSUME NEW i \in 1 .. n, NEW x \in M PROVE Next1(i, x) \in M
  <2>1. us[1] \in M /\ us[i] \in M /\ <<"/">> \in M
    BY <1>2
  <2> QED BY <2>1
<1> HIDE DEF M
<1>3. Joined(us) = join[n]
  BY Zenon DEF Joined
<1> HIDE DEF Next1
<1>4. F \in [1 .. n -> [M -> M]]
  BY <1>2
<1>5. PICK h \in [0 .. n -> M] : IsRecursive(h, n, <<>>, F)
  BY <1>1, <1>4, RecursionExists
<1>6. h = Step(h)
  <2>1. ASSUME NEW i \in 0 .. n PROVE h[i] = Step(h)[i]
    <3>1. CASE i = 0
      BY <1>5, <3>1 DEF IsRecursive
    <3>2. CASE i # 0
      <4>1. i \in 1 .. n /\ i - 1 \in 0 .. n
        BY <1>1, <3>2
      <4>2. h[i] = F[i][h[i - 1]] /\ h[i - 1] \in M
        BY <1>5, <3>2, <4>1 DEF IsRecursive
      <4> QED BY <3>2, <4>1, <4>2
    <3> QED BY <3>1, <3>2
  <2> QED BY <1>5, <2>1
<1>7. join = Step(join)
  <2> HIDE DEF Step
  <2> QED BY <1>6, Zenon
<1> HIDE DEF join
<1>8. ASSUME NEW i \in 1 .. n PROVE join[i] = Next1(i, join[i - 1])
  <2>1. i \in 0 .. n /\ i # 0
    BY <1>1
  <2> QED BY <1>7, <2>1, Zenon
<1>9. join[0] = <<>>
  BY <1>1, <1>7
<1>10. \A i \in 0 .. n : join[i] \in M
  <2> DEFINE S == {i \in 0 .. n : join[i] \in M}
  <2>1. 0 \in S
    BY <1>1, <1>9
  <2>2. ASSUME NEW i \in 1 .. n, i - 1 \in S PROVE i \in S
    BY <1>2, <1>8, <2>2
  <2> HIDE DEF S
  <2>3. \A i \in 0 .. n : i \in S
    BY <1>1, <2>1, <2>2, UpTo
  <2> QED BY <2>3 DEF S
<1>11. join \in [0 .. n -> M]
  BY <1>7, <1>10
<1> QED BY <1>3, <1>8, <1>9, <1>11 DEF M, Next1

(* What Joined does with one unit, and with one unit more.                 *)
LEMMA JoinedOne ==
  ASSUME NEW C, "/" \in C, NEW u \in Seq(C)
  PROVE  Joined(<<u>>) = u
<1>1. <<u>> \in Seq(Seq(C)) /\ Len(<<u>>) = 1 /\ <<u>>[1] = u
  OBVIOUS
<1>2. PICK g : /\ \A i \in 1 .. 1 : g[i] = IF i = 1 THEN <<u>>[1]
                                    ELSE g[i - 1] \o <<"/">> \o <<u>>[i]
               /\ Joined(<<u>>) = g[1]
  BY <1>1, JoinedFcn
<1> QED BY <1>1, <1>2

LEMMA JoinedAppend ==
  ASSUME NEW C, "/" \in C, NEW us \in Seq(Seq(C)), us # <<>>, NEW u \in Seq(C)
  PROVE  /\ Joined(us) \in Seq(C)
         /\ Joined(Append(us, u)) = Joined(us) \o <<"/">> \o u
<1> DEFINE n == Len(us)
           vs == Append(us, u)
<1>1. /\ vs \in Seq(Seq(C)) /\ Len(vs) = n + 1 /\ vs[n + 1] = u
      /\ n \in Nat \ {0} /\ \A i \in 1 .. n : vs[i] = us[i]
  OBVIOUS
<1> HIDE DEF vs
<1>2. PICK g \in [0 .. n -> Seq(C)] :
           /\ g[0] = <<>>
           /\ \A i \in 1 .. n :
                g[i] = IF i = 1 THEN us[1] ELSE g[i - 1] \o <<"/">> \o us[i]
           /\ Joined(us) = g[n]
  BY JoinedFcn
<1>3. PICK h \in [0 .. Len(vs) -> Seq(C)] :
           /\ h[0] = <<>>
           /\ \A i \in 1 .. Len(vs) :
                h[i] = IF i = 1 THEN vs[1] ELSE h[i - 1] \o <<"/">> \o vs[i]
           /\ Joined(vs) = h[Len(vs)]
  BY <1>1, JoinedFcn
<1>4. \A i \in 0 .. n : h[i] = g[i]
  <2> DEFINE S == {i \in 0 .. n : h[i] = g[i]}
  <2>1. 0 \in S
    BY <1>1, <1>2, <1>3
  <2>2. ASSUME NEW i \in 1 .. n, i - 1 \in S PROVE i \in S
    <3>1. i \in 1 .. Len(vs) /\ vs[i] = us[i] /\ vs[1] = us[1]
      BY <1>1
    <3>2. h[i - 1] = g[i - 1] /\ i \in 0 .. n
      BY <2>2
    <3>3. h[i] = IF i = 1 THEN us[1] ELSE g[i - 1] \o <<"/">> \o us[i]
      BY <1>3, <3>1, <3>2, Zenon
    <3>4. h[i] = g[i]
      BY <1>2, <3>3, Zenon
    <3> QED BY <3>2, <3>4
  <2> HIDE DEF S
  <2>3. \A i \in 0 .. n : i \in S
    BY <1>1, <2>1, <2>2, UpTo
  <2> QED BY <2>3 DEF S
<1>5. h[n + 1] = h[n] \o <<"/">> \o vs[n + 1]
  <2>1. n + 1 \in 1 .. (n + 1) /\ n + 1 # 1 /\ (n + 1) - 1 = n
    BY <1>1
  <2> QED BY <1>1, <1>3, <2>1, Zenon
<1>6. n \in 0 .. n
  BY <1>1
<1>7. Joined(us) \in Seq(C)
  BY <1>2, <1>6, Zenon
<1>8. Joined(vs) = h[n + 1]
  BY <1>1, <1>3, Zenon
<1>9. Joined(vs) = Joined(us) \o <<"/">> \o u
  BY <1>1, <1>2, <1>4, <1>5, <1>6, <1>8, Zenon
<1> QED BY <1>7, <1>9 DEF vs

(* The same for the names of a text: one character more is a slash, or one *)
(* name more.                                                              *)
LEMMA NamesInFcn ==
  ASSUME NEW C, NEW t \in Seq(C)
  PROVE  \E g \in [0 .. Len(t) -> Seq(C)] :
           /\ g[0] = <<>>
           /\ \A i \in 1 .. Len(t) :
                g[i] = IF t[i] = "/" THEN g[i - 1] ELSE Append(g[i - 1], t[i])
           /\ NamesIn(t) = g[Len(t)]
<1> DEFINE n == Len(t)
           M == Seq(C)
           Next1(i, x) == IF t[i] = "/" THEN x ELSE Append(x, t[i])
           F == [i \in 1 .. n |-> [x \in M |-> Next1(i, x)]]
           Step(g) == [i \in 0 .. n |-> IF i = 0 THEN <<>>
                                        ELSE Next1(i, g[i - 1])]
           names == CHOOSE g : g = Step(g)
<1>1. n \in Nat /\ <<>> \in M
  OBVIOUS
<1>2. ASSUME NEW i \in 1 .. n, NEW x \in M PROVE Next1(i, x) \in M
  <2>1. t[i] \in C
    OBVIOUS
  <2> QED BY <2>1
<1> HIDE DEF M
<1>3. NamesIn(t) = names[n]
  BY Zenon DEF NamesIn
<1> HIDE DEF Next1
<1>4. F \in [1 .. n -> [M -> M]]
  BY <1>2
<1>5. PICK h \in [0 .. n -> M] : IsRecursive(h, n, <<>>, F)
  BY <1>1, <1>4, RecursionExists
<1>6. h = Step(h)
  <2>1. ASSUME NEW i \in 0 .. n PROVE h[i] = Step(h)[i]
    <3>1. CASE i = 0
      BY <1>5, <3>1 DEF IsRecursive
    <3>2. CASE i # 0
      <4>1. i \in 1 .. n /\ i - 1 \in 0 .. n
        BY <1>1, <3>2
      <4>2. h[i] = F[i][h[i - 1]] /\ h[i - 1] \in M
        BY <1>5, <3>2, <4>1 DEF IsRecursive
      <4> QED BY <3>2, <4>1, <4>2
    <3> QED BY <3>1, <3>2
  <2> QED BY <1>5, <2>1
<1>7. names = Step(names)
  <2> HIDE DEF Step
  <2> QED BY <1>6, Zenon
<1> HIDE DEF names
<1>8. ASSUME NEW i \in 1 .. n PROVE names[i] = Next1(i, names[i - 1])
  <2>1. i \in 0 .. n /\ i # 0
    BY <1>1
  <2> QED BY <1>7, <2>1, Zenon
<1>9. names[0] = <<>>
  BY <1>1, <1>7
<1>10. \A i \in 0 .. n : names[i] \in M
  <2> DEFINE S == {i \in 0 .. n : names[i] \in M}
  <2>1. 0 \in S
    BY <1>1, <1>9
  <2>2. ASSUME NEW i \in 1 .. n, i - 1 \in S PROVE i \in S
    BY <1>2, <1>8, <2>2
  <2> HIDE DEF S
  <2>3. \A i \in 0 .. n : i \in S
    BY <1>1, <2>1, <2>2, UpTo
  <2> QED BY <2>3 DEF S
<1>11. names \in [0 .. n -> M]
  BY <1>7, <1>10
<1> QED BY <1>3, <1>8, <1>9, <1>11 DEF M, Next1

LEMMA NamesInEmpty == NamesIn(<<>>) = <<>>
<1> DEFINE e == <<>>
<1>1. e \in Seq({}) /\ Len(e) = 0
  OBVIOUS
<1> HIDE DEF e
<1>2. PICK g : g[0] = <<>> /\ NamesIn(e) = g[Len(e)]
  BY <1>1, NamesInFcn, Zenon
<1> QED BY <1>1, <1>2 DEF e

LEMMA NamesInAppend ==
  ASSUME NEW C, NEW t \in Seq(C), NEW c \in C
  PROVE  /\ NamesIn(t) \in Seq(C)
         /\ NamesIn(Append(t, c)) = IF c = "/" THEN NamesIn(t)
                                    ELSE Append(NamesIn(t), c)
<1> DEFINE n == Len(t)
           v == Append(t, c)
<1>1. /\ v \in Seq(C) /\ Len(v) = n + 1 /\ v[n + 1] = c
      /\ n \in Nat /\ \A i \in 1 .. n : v[i] = t[i]
  OBVIOUS
<1> HIDE DEF v
<1>2. PICK g \in [0 .. n -> Seq(C)] :
           /\ g[0] = <<>>
           /\ \A i \in 1 .. n :
                g[i] = IF t[i] = "/" THEN g[i - 1] ELSE Append(g[i - 1], t[i])
           /\ NamesIn(t) = g[n]
  BY NamesInFcn
<1>3. PICK h \in [0 .. Len(v) -> Seq(C)] :
           /\ h[0] = <<>>
           /\ \A i \in 1 .. Len(v) :
                h[i] = IF v[i] = "/" THEN h[i - 1] ELSE Append(h[i - 1], v[i])
           /\ NamesIn(v) = h[Len(v)]
  BY <1>1, NamesInFcn
<1>4. \A i \in 0 .. n : h[i] = g[i]
  <2> DEFINE S == {i \in 0 .. n : h[i] = g[i]}
  <2>1. 0 \in S
    BY <1>1, <1>2, <1>3
  <2>2. ASSUME NEW i \in 1 .. n, i - 1 \in S PROVE i \in S
    <3>1. i \in 1 .. Len(v) /\ v[i] = t[i]
      BY <1>1
    <3>2. h[i - 1] = g[i - 1] /\ i \in 0 .. n
      BY <2>2
    <3>3. h[i] = IF t[i] = "/" THEN g[i - 1] ELSE Append(g[i - 1], t[i])
      BY <1>3, <3>1, <3>2, Zenon
    <3>4. h[i] = g[i]
      BY <1>2, <3>3, Zenon
    <3> QED BY <3>2, <3>4
  <2> HIDE DEF S
  <2>3. \A i \in 0 .. n : i \in S
    BY <1>1, <2>1, <2>2, UpTo
  <2> QED BY <2>3 DEF S
<1>5. h[n + 1] = IF c = "/" THEN h[n] ELSE Append(h[n], c)
  <2>1. n + 1 \in 1 .. (n + 1) /\ (n + 1) - 1 = n
    BY <1>1
  <2> QED BY <1>1, <1>3, <2>1, Zenon
<1>6. n \in 0 .. n
  BY <1>1
<1>7. NamesIn(t) \in Seq(C)
  BY <1>2, <1>6, Zenon
<1>8. NamesIn(v) = h[n + 1]
  BY <1>1, <1>3, Zenon
<1>9. NamesIn(v) = IF c = "/" THEN NamesIn(t) ELSE Append(NamesIn(t), c)
  BY <1>1, <1>2, <1>4, <1>5, <1>6, <1>8, Zenon
<1> QED BY <1>7, <1>9 DEF v

LEMMA AppendTwo ==
  ASSUME NEW C, NEW x \in Seq(C), NEW a \in C, NEW b \in C
  PROVE  /\ Append(x, a) \in Seq(C)
         /\ x \o <<a>> \o <<b>> = Append(Append(x, a), b)
<1>1. <<a>> \in Seq(C) /\ <<b>> \in Seq(C)
  OBVIOUS
<1>2. x \o <<a>> = Append(x, a) /\ Append(x, a) \in Seq(C)
  BY <1>1
<1>3. \A y \in Seq(C) : y \o <<b>> = Append(y, b)
  BY <1>1
<1> QED BY <1>2, <1>3

(* The names of joined units of one character each are the units.          *)
LEMMA NamesJoined ==
  ASSUME NEW C, "/" \in C, NEW us \in Seq(Seq(C)),
         \A i \in 1 .. Len(us) : Len(us[i]) = 1 /\ us[i][1] # "/"
  PROVE  /\ Joined(us) \in Seq(C)
         /\ NamesIn(Joined(us)) = [i \in 1 .. Len(us) |-> us[i][1]]
<1> DEFINE n == Len(us)
           heads(k) == [i \in 1 .. k |-> us[i][1]]
<1>1. n \in Nat /\ \A i \in 1 .. n : us[i] \in Seq(C) /\ us[i] = <<us[i][1]>>
                                       /\ us[i][1] \in C
  OBVIOUS
<1>2. PICK g \in [0 .. n -> Seq(C)] :
           /\ g[0] = <<>>
           /\ \A i \in 1 .. n :
                g[i] = IF i = 1 THEN us[1] ELSE g[i - 1] \o <<"/">> \o us[i]
           /\ Joined(us) = g[n]
  BY JoinedFcn
<1> DEFINE S == {i \in 0 .. n : NamesIn(g[i]) = heads(i)}
<1>3. 0 \in S
  <2>1. heads(0) = <<>>
    OBVIOUS
  <2> QED BY <1>1, <1>2, <2>1, NamesInEmpty
<1>4. ASSUME NEW i \in 1 .. n, i - 1 \in S PROVE i \in S
  <2> DEFINE c == us[i][1]
             x == g[i - 1]
  <2>1. i - 1 \in 0 .. n /\ x \in Seq(C) /\ NamesIn(x) = heads(i - 1)
    BY <1>1, <1>2, <1>4
  <2>2. c \in C /\ c # "/" /\ us[i] = <<c>>
    BY <1>1
  <2>3. heads(i) = Append(heads(i - 1), c)
    <3>1. \A j \in 1 .. n : us[j][1] \in C
      BY <1>1
    <3>2. heads(i - 1) \in Seq(C) /\ Len(heads(i - 1)) = i - 1
      BY <1>1, <3>1
    <3>3. heads(i) \in Seq(C) /\ Len(heads(i)) = i
      <4>1. \A j \in 1 .. i : us[j][1] \in C
        BY <1>1, <3>1
      <4>2. heads(i) \in [1 .. i -> C] /\ i \in Nat
        BY <1>1, <4>1
      <4> HIDE DEF heads
      <4> QED BY <4>2
    <3>4. ASSUME NEW j \in 1 .. i PROVE heads(i)[j] = us[j][1]
      OBVIOUS
    <3>5. ASSUME NEW j \in 1 .. (i - 1) PROVE heads(i - 1)[j] = us[j][1]
      OBVIOUS
    <3> HIDE DEF heads
    <3>6. \A j \in 1 .. i : Append(heads(i - 1), c)[j] = heads(i)[j]
      <4> TAKE j \in 1 .. i
      <4>1. CASE j = i
        BY <2>2, <3>2, <3>4, <4>1
      <4>2. CASE j # i
        <5>1. j \in 1 .. (i - 1)
          BY <4>2
        <5> QED BY <2>2, <3>2, <3>4, <3>5, <5>1
      <4> QED BY <4>1, <4>2
    <3> HIDE DEF c
    <3>7. Append(heads(i - 1), c) \in Seq(C)
          /\ Len(Append(heads(i - 1), c)) = i
      BY <2>2, <3>2
    <3> QED BY <3>3, <3>6, <3>7
  <2> HIDE DEF heads, c, x
  <2>4. CASE i = 1
    <3>1. g[i] = us[i] /\ x = <<>>
      BY <1>2, <2>4 DEF x
    <3>2. g[i] = Append(<<>>, c) /\ <<>> \in Seq(C)
      BY <2>2, <3>1
    <3>3. NamesIn(g[i]) = Append(NamesIn(<<>>), c)
      BY <2>2, <3>2, NamesInAppend, Zenon
    <3>4. NamesIn(g[i]) = heads(i)
      BY <2>1, <2>3, <3>1, <3>3, Zenon
    <3> QED BY <3>4
  <2>5. CASE i # 1
    <3> DEFINE y == Append(x, "/")
    <3>0. g[i] = x \o <<"/">> \o us[i]
      BY <1>2, <2>5 DEF x
    <3>1. y \in Seq(C) /\ g[i] = Append(y, c)
      BY <2>1, <2>2, <3>0, AppendTwo
    <3>2. NamesIn(y) = NamesIn(x)
      BY <2>1, NamesInAppend
    <3>3. NamesIn(g[i]) = Append(NamesIn(y), c)
      <4> HIDE DEF y
      <4> QED BY <2>2, <3>1, NamesInAppend, Zenon
    <3>4. NamesIn(g[i]) = heads(i)
      BY <2>1, <2>3, <3>2, <3>3, Zenon
    <3> QED BY <3>4
  <2> QED BY <2>4, <2>5
<1>5. n \in S
  <2> HIDE DEF S
  <2>1. \A i \in 0 .. n : i \in S
    BY <1>1, <1>3, <1>4, UpTo
  <2> QED BY <1>1, <2>1
<1>6. n \in 0 .. n
  BY <1>1
<1> QED BY <1>2, <1>5, <1>6
-----------------------------------------------------------------------------
(* The parser.                                                             *)
Characters == {"/"} \cup UNION {{p[i] : i \in DOMAIN p} : p \in Paths}

LEMMA TextType ==
  ASSUME path \in Paths
  PROVE  "/" \in Characters /\ path \in Seq(Characters)
         /\ Text \in Seq(Characters) /\ Len(Text) \in Nat
<1> DEFINE D == {path[i] : i \in DOMAIN path}
<1>1. path \in Seq(D) /\ D \subseteq Characters
  BY Fat16DirAssumption DEF Characters
<1> HIDE DEF D
<1>2. path \in Seq(Characters)
  BY <1>1
<1>3. Text \in Seq(Characters)
  BY <1>2 DEF Text
<1>4. "/" \in Characters
  BY DEF Characters
<1> HIDE DEF Characters
<1> QED BY <1>2, <1>3, <1>4

(* The end of a unit is its first slash or the end of the text.            *)
LEMMA UnitEndFacts ==
  ASSUME NEW C, NEW s \in Seq(C)
  PROVE  /\ UnitEnd(s) \in 1 .. (Len(s) + 1)
         /\ UnitEnd(s) = Len(s) + 1 \/ s[UnitEnd(s)] = "/"
         /\ \A j \in 1 .. (UnitEnd(s) - 1) : s[j] # "/"
<1> DEFINE P(i) == /\ i = Len(s) + 1 \/ s[i] = "/"
                   /\ \A j \in 1 .. (i - 1) : s[j] # "/"
           E == {i \in 1 .. (Len(s) + 1) : i = Len(s) + 1 \/ s[i] = "/"}
<1>1. Len(s) \in Nat /\ E \subseteq Nat /\ Len(s) + 1 \in E
  OBVIOUS
<1>2. PICK e \in E : \A i \in E : e <= i
  <2> HIDE DEF E
  <2> QED BY <1>1, LeastNatural
<1>3. e \in 1 .. (Len(s) + 1) /\ P(e)
  <2>1. ASSUME NEW j \in 1 .. (e - 1) PROVE s[j] # "/"
    <3>1. j \in 1 .. (Len(s) + 1) /\ ~(e <= j)
      BY <1>1, <1>2
    <3> QED BY <1>2, <3>1
  <2> QED BY <1>2, <2>1
<1>4. UnitEnd(s) = CHOOSE i \in 1 .. (Len(s) + 1) : P(i)
  BY DEF UnitEnd
<1> HIDE DEF P
<1>5. UnitEnd(s) \in 1 .. (Len(s) + 1) /\ P(UnitEnd(s))
  BY <1>3, <1>4, Zenon
<1> QED BY <1>5 DEF P

(* Facts about sequences that the provers are given by name.               *)
LEMMA Concat ==
  ASSUME NEW C, NEW x \in Seq(C), NEW y \in Seq(C)
  PROVE  x \o y \in Seq(C) /\ Len(x \o y) = Len(x) + Len(y)
  OBVIOUS

LEMMA Appended ==
  ASSUME NEW S, NEW s \in Seq(S), NEW x \in S
  PROVE  /\ Append(s, x) \in Seq(S) /\ Append(s, x) # <<>>
         /\ Len(s) \in Nat /\ Len(Append(s, x)) = Len(s) + 1
         /\ Append(s, x)[Len(s) + 1] = x
         /\ \A i \in 1 .. Len(s) : Append(s, x)[i] = s[i]
  OBVIOUS

LEMMA Suffix ==
  ASSUME NEW C, NEW t \in Seq(C), NEW m \in Nat
  PROVE  /\ SubSeq(t, m + 1, Len(t)) \in Seq(C)
         /\ Len(t) \in Nat
         /\ Len(SubSeq(t, m + 1, Len(t)))
              = IF m <= Len(t) THEN Len(t) - m ELSE 0
         /\ \A j \in 1 .. Len(SubSeq(t, m + 1, Len(t))) :
              SubSeq(t, m + 1, Len(t))[j] = t[m + j]
  OBVIOUS

(* A unit and the rest behind its slash make up the path.                  *)
LEMMA AdvanceFacts ==
  ASSUME NEW C, NEW s \in Seq(C), s # <<>>
  PROVE  LET u == path_get_current_unit_and_advance(s)
         IN  /\ u.unit \in Seq(C) /\ u.rest \in Seq(C)
             /\ \A j \in 1 .. Len(u.unit) : u.unit[j] # "/"
             /\ \/ s = u.unit \o <<"/">> \o u.rest
                \/ s = u.unit /\ u.rest = <<>>
<1> DEFINE e == UnitEnd(s)
           a == SubSeq(s, 1, e - 1)
           b == SubSeq(s, e + 1, Len(s))
           u == path_get_current_unit_and_advance(s)
<1>1. u.unit = a /\ u.rest = b
  BY DEF path_get_current_unit_and_advance
<1>2. /\ e \in 1 .. (Len(s) + 1) /\ Len(s) \in Nat
      /\ e = Len(s) + 1 \/ s[e] = "/"
      /\ \A j \in 1 .. (e - 1) : s[j] # "/"
  BY UnitEndFacts
<1> HIDE DEF e
<1>3. a \in Seq(C) /\ Len(a) = e - 1 /\ \A j \in 1 .. (e - 1) : a[j] = s[j]
  BY <1>2
<1>4. /\ b \in Seq(C)
      /\ Len(b) = IF e <= Len(s) THEN Len(s) - e ELSE 0
      /\ \A j \in 1 .. Len(b) : b[j] = s[e + j]
  BY <1>2
<1> HIDE DEF a, b
<1>5. CASE e = Len(s) + 1
  <2>1. b = <<>>
    BY <1>2, <1>4, <1>5
  <2>2. s = a
    BY <1>2, <1>3, <1>5
  <2>3. \A j \in 1 .. Len(a) : a[j] # "/"
    BY <1>2, <1>3
  <2> QED BY <1>1, <1>3, <1>4, <2>1, <2>2, <2>3
<1>6. CASE e # Len(s) + 1
  <2> DEFINE c == a \o <<s[e]>>
             w == c \o b
  <2>1. e \in 1 .. Len(s) /\ s[e] = "/" /\ s[e] \in C /\ Len(b) = Len(s) - e
    BY <1>2, <1>4, <1>6
  <2>2. c \in Seq(C) /\ Len(c) = e /\ \A j \in 1 .. e : c[j] = s[j]
    BY <1>2, <1>3, <2>1
  <2> HIDE DEF c
  <2>3. w \in Seq(C) /\ Len(w) = Len(s)
    <3>1. w \in Seq(C) /\ Len(w) = Len(c) + Len(b)
      BY <1>4, <2>2, Concat, Zenon
    <3> QED BY <1>2, <2>1, <2>2, <3>1
  <2>4. ASSUME NEW j \in 1 .. Len(s) PROVE w[j] = s[j]
    <3>1. CASE j <= e
      BY <1>2, <1>4, <2>1, <2>2, <3>1
    <3>2. CASE j > e
      <4>1. j - e \in 1 .. Len(b) /\ e + (j - e) = j
        BY <1>2, <2>1, <3>2
      <4>2. w[j] = b[j - e]
        BY <1>2, <1>4, <2>1, <2>2, <2>3, <3>2
      <4> QED BY <1>4, <4>1, <4>2
    <3>3. j <= e \/ j > e
      BY <1>2
    <3> QED BY <3>1, <3>2, <3>3, Zenon
  <2> HIDE DEF w
  <2>5. s = w
    BY <2>3, <2>4
  <2>6. \A j \in 1 .. Len(a) : a[j] # "/"
    BY <1>2, <1>3
  <2> QED BY <1>1, <1>3, <1>4, <2>1, <2>5, <2>6 DEF w, c
<1> QED BY <1>5, <1>6

(* What has been taken from a text t, and what is left of it.              *)
Splits(t, us, rest) ==
  \/ t = Joined(us) \o <<"/">> \o rest
  \/ t = Joined(us) /\ rest = <<>>

(* The first unit splits the text, and each further unit splits its rest.  *)
LEMMA SplitsFirst ==
  ASSUME NEW C, "/" \in C, NEW t \in Seq(C), t # <<>>
  PROVE  LET u == path_get_current_unit_and_advance(t)
         IN  Splits(t, <<u.unit>>, u.rest)
<1> DEFINE u == path_get_current_unit_and_advance(t)
<1>1. /\ u.unit \in Seq(C)
      /\ \/ t = u.unit \o <<"/">> \o u.rest
         \/ t = u.unit /\ u.rest = <<>>
  BY AdvanceFacts
<1> HIDE DEF u
<1>2. Joined(<<u.unit>>) = u.unit
  BY <1>1, JoinedOne
<1> QED BY <1>1, <1>2 DEF Splits, u

(* Concatenation under a name of its own, which the provers can match.     *)
Cat(x, y) == x \o y

LEMMA SlashesRegrouped ==
  ASSUME NEW C, NEW j \in Seq(C), NEW l \in Seq(C), NEW v \in Seq(C),
         NEW w \in Seq(C)
  PROVE  Cat(Cat(j, l), Cat(Cat(v, l), w)) = Cat(Cat(Cat(Cat(j, l), v), l), w)
<1>1. \A x, y \in Seq(C) : Cat(x, y) \in Seq(C)
  BY Concat DEF Cat
<1>2. \A x, y, z \in Seq(C) : Cat(Cat(x, y), z) = Cat(x, Cat(y, z))
  <2> TAKE x, y, z \in Seq(C)
  <2>1. (x \o y) \o z = x \o (y \o z)
    OBVIOUS
  <2> QED BY <2>1 DEF Cat
<1> DEFINE js == Cat(j, l)
           jv == Cat(js, v)
           vl == Cat(v, l)
<1>3. js \in Seq(C) /\ jv \in Seq(C) /\ vl \in Seq(C)
  BY <1>1
<1>4. Cat(jv, l) = Cat(js, vl)
  BY <1>2, <1>3
<1>5. Cat(Cat(js, vl), w) = Cat(js, Cat(vl, w))
  BY <1>2, <1>3
<1> QED BY <1>4, <1>5

LEMMA SplitsFurther ==
  ASSUME NEW C, "/" \in C, NEW t \in Seq(C), NEW us \in Seq(Seq(C)), us # <<>>,
         NEW r \in Seq(C), r # <<>>, Splits(t, us, r)
  PROVE  LET u == path_get_current_unit_and_advance(r)
         IN  Splits(t, Append(us, u.unit), u.rest)
<1> DEFINE u == path_get_current_unit_and_advance(r)
           v == u.unit
           w == u.rest
<1>1. /\ v \in Seq(C) /\ w \in Seq(C)
      /\ r = v \o <<"/">> \o w \/ (r = v /\ w = <<>>)
  BY AdvanceFacts
<1> HIDE DEF u, v, w
<1> DEFINE j == Joined(us)
<1>2. j \in Seq(C) /\ Joined(Append(us, v)) = j \o <<"/">> \o v
  BY <1>1, JoinedAppend
<1>3. t = j \o <<"/">> \o r
  BY DEF Splits
<1> HIDE DEF j
<1>4. CASE r = v /\ w = <<>>
  BY <1>2, <1>3, <1>4 DEF Splits, u, v, w
<1>5. CASE r = v \o <<"/">> \o w
  <2> DEFINE sl == <<"/">>
  <2>1. sl \in Seq(C)
    OBVIOUS
  <2> HIDE DEF sl
  <2>2. j \in Seq(C) /\ v \in Seq(C) /\ w \in Seq(C)
    BY <1>1, <1>2
  <2>3. (j \o sl) \o ((v \o sl) \o w) = (((j \o sl) \o v) \o sl) \o w
    <3>1. Cat(Cat(j, sl), Cat(Cat(v, sl), w))
            = Cat(Cat(Cat(Cat(j, sl), v), sl), w)
      BY <2>1, <2>2, SlashesRegrouped
    <3> QED BY <3>1 DEF Cat
  <2>4. t = Joined(Append(us, v)) \o <<"/">> \o w
    BY <1>2, <1>3, <1>5, <2>3 DEF sl
  <2> QED BY <2>4 DEF Splits, u, v, w
<1> QED BY <1>1, <1>4, <1>5

(* The units of a path of single names and slashes have one character.     *)
LEMMA AdvanceWellFormed ==
  ASSUME NEW C, NEW t \in Seq(C), NEW k \in Nat,
         \A i \in 1 .. Len(t) : t[i] = "/" <=> i % 2 = 0,
         SubSeq(t, 2 * k + 1, Len(t)) # <<>>
  PROVE  LET u == path_get_current_unit_and_advance(
                    SubSeq(t, 2 * k + 1, Len(t)))
         IN  /\ Len(u.unit) = 1
             /\ u.rest = SubSeq(t, 2 * (k + 1) + 1, Len(t))
<1> DEFINE s == SubSeq(t, 2 * k + 1, Len(t))
           e == UnitEnd(s)
           u == path_get_current_unit_and_advance(s)
<1>1. /\ s \in Seq(C) /\ Len(t) \in Nat /\ 2 * k + 1 <= Len(t)
      /\ Len(s) = Len(t) - 2 * k
      /\ \A j \in 1 .. Len(s) : s[j] = t[2 * k + j]
  <2> DEFINE m == 2 * k
  <2>1. m \in Nat
    OBVIOUS
  <2> HIDE DEF m
  <2>2. SubSeq(t, m + 1, Len(t)) # <<>>
    BY DEF m
  <2>3. /\ SubSeq(t, m + 1, Len(t)) \in Seq(C) /\ Len(t) \in Nat
        /\ m + 1 <= Len(t)
        /\ Len(SubSeq(t, m + 1, Len(t))) = Len(t) - m
        /\ \A j \in 1 .. Len(SubSeq(t, m + 1, Len(t))) :
              SubSeq(t, m + 1, Len(t))[j] = t[m + j]
    <3> DEFINE x == SubSeq(t, m + 1, Len(t))
    <3>1. /\ x \in Seq(C) /\ Len(t) \in Nat
          /\ Len(x) = IF m <= Len(t) THEN Len(t) - m ELSE 0
          /\ \A j \in 1 .. Len(x) : x[j] = t[m + j]
      BY <2>1, Suffix
    <3> HIDE DEF x
    <3>2. Len(x) # 0
      BY <2>2, <3>1 DEF x
    <3>3. m + 1 <= Len(t) /\ Len(x) = Len(t) - m
      BY <2>1, <3>1, <3>2
    <3> QED BY <3>1, <3>3 DEF x
  <2> QED BY <2>3 DEF m
<1>2. s # <<>>
  OBVIOUS
<1> HIDE DEF s
<1>3. /\ e \in 1 .. (Len(s) + 1)
      /\ e = Len(s) + 1 \/ s[e] = "/"
      /\ \A j \in 1 .. (e - 1) : s[j] # "/"
  BY <1>1, UnitEndFacts
<1>4. s[1] # "/"
  <2>1. (2 * k + 1) % 2 # 0 /\ 2 * k + 1 \in 1 .. Len(t) /\ 1 \in 1 .. Len(s)
    BY <1>1
  <2> QED BY <1>1, <2>1
<1>5. 2 \in 1 .. Len(s) => s[2] = "/"
  <2>1. (2 * k + 2) % 2 = 0
    OBVIOUS
  <2>2. 2 \in 1 .. Len(s) => 2 * k + 2 \in 1 .. Len(t)
    BY <1>1
  <2> QED BY <1>1, <2>1, <2>2
<1> HIDE DEF e
<1>6. e # 1
  BY <1>1, <1>3, <1>4
<1>7. ~(e > 2)
  <2> SUFFICES ASSUME e > 2 PROVE FALSE
    OBVIOUS
  <2>1. 2 \in 1 .. (e - 1) /\ 2 \in 1 .. Len(s)
    BY <1>1, <1>3
  <2> QED BY <1>3, <1>5, <2>1
<1>8. e = 2
  BY <1>1, <1>3, <1>6, <1>7
<1>9. u.unit = SubSeq(s, 1, 1) /\ u.rest = SubSeq(s, 3, Len(s))
  BY <1>2, <1>8 DEF path_get_current_unit_and_advance, e
<1>10. Len(SubSeq(s, 1, 1)) = 1
  BY <1>1
<1>11. SubSeq(s, 3, Len(s)) = SubSeq(t, 2 * (k + 1) + 1, Len(t))
  <2> DEFINE x == SubSeq(s, 3, Len(s))
             y == SubSeq(t, 2 * (k + 1) + 1, Len(t))
             m == IF Len(s) >= 2 THEN Len(s) - 2 ELSE 0
  <2>1. x \in Seq(C) /\ Len(x) = m /\ \A j \in 1 .. m : x[j] = s[j + 2]
    BY <1>1
  <2>2. /\ y \in Seq(C) /\ Len(y) = m
        /\ \A j \in 1 .. m : y[j] = t[2 * (k + 1) + j]
    BY <1>1
  <2>3. ASSUME NEW j \in 1 .. m PROVE s[j + 2] = t[2 * (k + 1) + j]
    <3>1. j + 2 \in 1 .. Len(s) /\ 2 * k + (j + 2) = 2 * (k + 1) + j
      BY <1>1
    <3> QED BY <1>1, <3>1
  <2> HIDE DEF x, y
  <2>4. \A j \in 1 .. m : x[j] = y[j]
    BY <2>1, <2>2, <2>3
  <2>5. m \in Nat
    BY <1>1
  <2> HIDE DEF m
  <2>6. x = y
    BY <2>1, <2>2, <2>4, <2>5
  <2> QED BY <2>6 DEF x, y
<1> QED BY <1>9, <1>10, <1>11 DEF u, s

(* The invariant of the parser: what it has taken and what is left are     *)
(* the text, and on a well formed path every unit is one name.             *)
ParseInv ==
  /\ path \in Paths
  /\ parsing \in {"start", "units", "done", "failed", "panic"}
  /\ parsing = "start" => units = <<>>
  /\ parsing = "done" => __path = <<>>
  /\ parsing \in {"units", "done"} =>
       /\ units # <<>>
       /\ Text = <<>> => units = <<NullUnit>> /\ __path = <<>>
       /\ Text # <<>> =>
            /\ units \in Seq(Seq(Characters))
            /\ __path \in Seq(Characters)
            /\ \A i \in 1 .. Len(units) :
                 \A j \in 1 .. Len(units[i]) : units[i][j] # "/"
            /\ Splits(Text, units, __path)
            /\ WellFormed =>
                 /\ \A i \in 1 .. Len(units) : Len(units[i]) = 1
                 /\ __path = SubSeq(Text, 2 * Len(units) + 1, Len(Text))

(* One unit more keeps the invariant.                                      *)
LEMMA UnitTaken ==
  ASSUME path \in Paths, Text # <<>>, path' = path,
         NEW s \in Seq(Characters), s # <<>>,
         LET u == path_get_current_unit_and_advance(s)
         IN  units' = Append(units, u.unit) /\ __path' = u.rest,
         units \in Seq(Seq(Characters)),
         \A i \in 1 .. Len(units) :
            \A j \in 1 .. Len(units[i]) : units[i][j] # "/",
         \/ units = <<>> /\ s = Text
         \/ units # <<>> /\ Splits(Text, units, s),
         WellFormed => /\ \A i \in 1 .. Len(units) : Len(units[i]) = 1
                       /\ s = SubSeq(Text, 2 * Len(units) + 1, Len(Text))
  PROVE  /\ units' # <<>> /\ Text' = Text /\ (WellFormed' <=> WellFormed)
         /\ units' \in Seq(Seq(Characters))
         /\ __path' \in Seq(Characters)
         /\ \A i \in 1 .. Len(units') :
              \A j \in 1 .. Len(units'[i]) : units'[i][j] # "/"
         /\ Splits(Text, units', __path')
         /\ WellFormed =>
              /\ \A i \in 1 .. Len(units') : Len(units'[i]) = 1
              /\ __path' = SubSeq(Text, 2 * Len(units') + 1, Len(Text))
<1> DEFINE u == path_get_current_unit_and_advance(s)
           C == Characters
<1>1. units' = Append(units, u.unit) /\ __path' = u.rest
  OBVIOUS
<1>2. "/" \in C /\ Text \in Seq(C) /\ Len(Text) \in Nat
  BY TextType
<1>3. Text' = Text
  BY DEF Text
<1>4. WellFormed' <=> WellFormed
  BY <1>3 DEF WellFormed
<1>5. /\ u.unit \in Seq(C) /\ u.rest \in Seq(C)
      /\ \A j \in 1 .. Len(u.unit) : u.unit[j] # "/"
  BY AdvanceFacts
<1>6. WellFormed => /\ Len(u.unit) = 1
                    /\ u.rest = SubSeq(Text, 2 * (Len(units) + 1) + 1, Len(Text))
  <2> SUFFICES ASSUME WellFormed
               PROVE  /\ Len(u.unit) = 1
                      /\ u.rest = SubSeq(Text, 2 * (Len(units) + 1) + 1, Len(Text))
    OBVIOUS
  <2>1. \A i \in 1 .. Len(Text) : Text[i] = "/" <=> i % 2 = 0
    BY <1>2 DEF WellFormed
  <2>2. Len(units) \in Nat /\ s = SubSeq(Text, 2 * Len(units) + 1, Len(Text))
    OBVIOUS
  <2> QED BY <1>2, <2>1, <2>2, AdvanceWellFormed
<1>7. Splits(Text, Append(units, u.unit), u.rest)
  <2>1. CASE units = <<>> /\ s = Text
    <3>1. Append(units, u.unit) = <<u.unit>>
      BY <2>1
    <3> QED BY <1>2, <2>1, <3>1, SplitsFirst
  <2>2. CASE units # <<>> /\ Splits(Text, units, s)
    BY <1>2, <2>2, SplitsFurther
  <2> QED BY <2>1, <2>2
<1> HIDE DEF u, C
<1> DEFINE us == Append(units, u.unit)
           n == Len(units)
<1>8. /\ us \in Seq(Seq(C)) /\ Len(us) = n + 1 /\ us[n + 1] = u.unit /\ n \in Nat
      /\ us # <<>> /\ \A i \in 1 .. n : us[i] = units[i]
  BY <1>5, Appended DEF C
<1> HIDE DEF us
<1>9. ASSUME NEW i \in 1 .. Len(us)
      PROVE  /\ \A j \in 1 .. Len(us[i]) : us[i][j] # "/"
             /\ WellFormed => Len(us[i]) = 1
  <2>1. CASE i = n + 1
    BY <1>5, <1>6, <1>8, <2>1
  <2>2. CASE i # n + 1
    <3>1. i \in 1 .. n
      BY <1>8, <2>2
    <3> QED BY <1>8, <3>1
  <2> QED BY <2>1, <2>2
<1>10. units' = us
  BY <1>1 DEF us
<1>11. WellFormed => u.rest = SubSeq(Text, 2 * Len(us) + 1, Len(Text))
  BY <1>6, <1>8
<1>12. Splits(Text, us, u.rest)
  BY <1>7 DEF us
<1> QED BY <1>1, <1>3, <1>4, <1>5, <1>8, <1>9, <1>10, <1>11, <1>12, Zenon DEF C

LEMMA ParseInvInit ==
  ASSUME path \in Paths, ParserInit
  PROVE  ParseInv
  BY DEF ParserInit, ParseInv

(* A unit is taken, or it is too long.                                     *)
LEMMA TakeUnitInv ==
  ASSUME path \in Paths, path' = path,
         NEW s \in Seq(Characters), TakeUnit(s, "units"),
         units = <<>> => s = Text,
         units # <<>> =>
           /\ Text # <<>> /\ s # <<>>
           /\ units \in Seq(Seq(Characters))
           /\ \A i \in 1 .. Len(units) :
                \A j \in 1 .. Len(units[i]) : units[i][j] # "/"
           /\ Splits(Text, units, s)
           /\ WellFormed => /\ \A i \in 1 .. Len(units) : Len(units[i]) = 1
                            /\ s = SubSeq(Text, 2 * Len(units) + 1, Len(Text))
  PROVE  ParseInv'
<1> DEFINE u == path_get_current_unit_and_advance(s)
<1>1. \/ parsing' = "panic"
      \/ /\ parsing' = "units" /\ __path' = u.rest
         /\ units' = Append(units, u.unit)
  BY DEF TakeUnit
<1>2. Text' = Text
  BY DEF Text
<1>3. CASE parsing' = "panic"
  BY <1>3 DEF ParseInv
<1>4. CASE /\ parsing' = "units" /\ __path' = u.rest
           /\ units' = Append(units, u.unit)
  <2>1. CASE s = <<>>
    <3>1. u.unit = NullUnit /\ u.rest = <<>>
      BY <2>1 DEF path_get_current_unit_and_advance
    <3>2. units = <<>> /\ Text = <<>>
      BY <2>1
    <3>3. units' = <<NullUnit>> /\ __path' = <<>> /\ units' # <<>>
      BY <1>4, <3>1, <3>2
    <3> HIDE DEF u
    <3> QED BY <1>2, <1>4, <3>2, <3>3, Zenon DEF ParseInv
  <2>2. CASE s # <<>>
    <3>1. Text # <<>>
      BY <2>2
    <3>2. /\ units \in Seq(Seq(Characters))
          /\ \A i \in 1 .. Len(units) :
               \A j \in 1 .. Len(units[i]) : units[i][j] # "/"
          /\ \/ units = <<>> /\ s = Text
             \/ units # <<>> /\ Splits(Text, units, s)
      <4>1. CASE units = <<>>
        BY <4>1
      <4>2. CASE units # <<>>
        BY <4>2
      <4> QED BY <4>1, <4>2
    <3>3. WellFormed => /\ \A i \in 1 .. Len(units) : Len(units[i]) = 1
                        /\ s = SubSeq(Text, 2 * Len(units) + 1, Len(Text))
      <4>1. CASE units = <<>>
        <5>1. Len(units) = 0
          BY <4>1
        <5>2. Text = SubSeq(Text, 1, Len(Text))
          <6>1. Text \in Seq(Characters)
            BY TextType
          <6> QED BY <6>1
        <5> QED BY <4>1, <5>1, <5>2
      <4>2. CASE units # <<>>
        BY <4>2
      <4> QED BY <4>1, <4>2
    <3>4. LET v == path_get_current_unit_and_advance(s)
          IN  units' = Append(units, v.unit) /\ __path' = v.rest
      BY <1>4
    <3>5. /\ units' # <<>> /\ Text' = Text /\ (WellFormed' <=> WellFormed)
          /\ units' \in Seq(Seq(Characters))
          /\ __path' \in Seq(Characters)
          /\ \A i \in 1 .. Len(units') :
               \A j \in 1 .. Len(units'[i]) : units'[i][j] # "/"
          /\ Splits(Text, units', __path')
          /\ WellFormed =>
               /\ \A i \in 1 .. Len(units') : Len(units'[i]) = 1
               /\ __path' = SubSeq(Text, 2 * Len(units') + 1, Len(Text))
      BY <2>2, <3>1, <3>2, <3>3, <3>4, UnitTaken
    <3>6. Characters' = Characters /\ Paths' = Paths
      BY DEF Characters
    <3>7. Splits(Text, units, __path)' <=> Splits(Text, units', __path')
      BY <1>2 DEF Splits, Joined
    <3>8. (parsing \in {"start", "units", "done", "failed", "panic"})'
          /\ parsing' # "start" /\ parsing' # "done"
      BY <1>4
    <3> QED BY <1>2, <3>1, <3>5, <3>7, <3>8, Zenon DEF ParseInv
  <2> QED BY <2>1, <2>2
<1> QED BY <1>1, <1>3, <1>4

(* The parser keeps its invariant.                                         *)
LEMMA ParseInvNext ==
  ASSUME ParseInv, parse_path \/ parse_path_loop
  PROVE  ParseInv'
<1>1. path \in Paths /\ path' = path /\ Text' = Text
  BY DEF ParseInv, parse_path, parse_path_loop, Text
<1>2. CASE parse_path
  <2>1. parsing = "start" /\ units = <<>>
    BY <1>2 DEF parse_path, ParseInv
  <2>2. CASE parsing' \in {"panic", "failed"}
    BY <1>1, <2>2 DEF ParseInv
  <2>3. CASE TakeUnit(Text, "units")
    <3>1. Text \in Seq(Characters)
      BY <1>1, TextType
    <3> QED BY <1>1, <2>1, <2>3, <3>1, TakeUnitInv
  <2> QED BY <1>2, <2>2, <2>3 DEF parse_path, Text
<1>3. CASE parse_path_loop
  <2>1. parsing = "units" /\ units # <<>>
    BY <1>3 DEF parse_path_loop, ParseInv
  <2>2. CASE __path # <<>> /\ TakeUnit(__path, "units")
    <3>1. Text # <<>>
      BY <2>1, <2>2 DEF ParseInv
    <3>2. /\ __path \in Seq(Characters) /\ units \in Seq(Seq(Characters))
          /\ \A i \in 1 .. Len(units) :
               \A j \in 1 .. Len(units[i]) : units[i][j] # "/"
          /\ Splits(Text, units, __path)
          /\ WellFormed =>
               /\ \A i \in 1 .. Len(units) : Len(units[i]) = 1
               /\ __path = SubSeq(Text, 2 * Len(units) + 1, Len(Text))
      BY <2>1, <3>1, Zenon DEF ParseInv
    <3> QED BY <1>1, <2>1, <2>2, <3>1, <3>2, TakeUnitInv
  <2>3. CASE __path = <<>> /\ parsing' = "done" /\ UNCHANGED <<__path, units>>
    <3>1. WellFormed' <=> WellFormed
      BY <1>1 DEF WellFormed
    <3>2. Splits(Text, units, __path)' <=> Splits(Text, units, __path)
      BY <1>1, <2>3 DEF Splits, Joined
    <3>3. parsing' # "start" /\ parsing \in {"units", "done"}
          /\ parsing' \in {"start", "units", "done", "failed", "panic"}
      BY <2>1, <2>3
    <3>4. __path' = __path /\ units' = units /\ __path' = <<>>
      BY <2>3
    <3> QED BY <1>1, <3>1, <3>2, <3>3, <3>4, Zenon DEF ParseInv
  <2> QED BY <1>3, <2>2, <2>3 DEF parse_path_loop
<1> QED BY <1>2, <1>3

LEMMA ParseInvStutter ==
  ASSUME ParseInv, UNCHANGED parser_vars
  PROVE  ParseInv'
<1>1. path' = path /\ __path' = __path /\ units' = units /\ parsing' = parsing
      /\ Text' = Text
  BY DEF parser_vars, Text
<1>2. WellFormed' <=> WellFormed
  BY <1>1 DEF WellFormed
<1>3. Splits(Text, units, __path)' <=> Splits(Text, units, __path)
  BY <1>1 DEF Splits, Joined
<1> QED BY <1>1, <1>2, <1>3, Zenon DEF ParseInv

(* With no text left the invariant is the property.                        *)
LEMMA ParseInvSplit ==
  ASSUME ParseInv
  PROVE  UnitsAreTheSplit
<1> SUFFICES ASSUME parsing = "done", Text # <<>>
             PROVE  /\ Text \in {Joined(units), Append(Joined(units), "/")}
                    /\ \A i \in DOMAIN units : \A j \in DOMAIN units[i] :
                         units[i][j] # "/"
  BY DEF UnitsAreTheSplit
<1>1. __path = <<>>
  BY DEF ParseInv
<1>2. parsing \in {"units", "done"}
  OBVIOUS
<1>3. /\ units # <<>> /\ units \in Seq(Seq(Characters))
      /\ \A i \in 1 .. Len(units) :
           \A j \in 1 .. Len(units[i]) : units[i][j] # "/"
      /\ Splits(Text, units, __path)
  BY <1>2, Zenon DEF ParseInv
<1>4. Joined(units) \in Seq(Characters) /\ "/" \in Characters
  <2>1. "/" \in Characters
    BY TextType DEF ParseInv
  <2>2. PICK g \in [0 .. Len(units) -> Seq(Characters)] :
             Joined(units) = g[Len(units)]
    BY <1>3, <2>1, JoinedFcn
  <2>3. Len(units) \in 0 .. Len(units)
    BY <1>3
  <2> QED BY <2>1, <2>2, <2>3
<1> DEFINE j == Joined(units)
<1> HIDE DEF j
<1>5. Text = j \o <<"/">> \o <<>> \/ Text = j
  BY <1>1, <1>3 DEF Splits, j
<1>6. j \o <<"/">> \o <<>> = Append(j, "/")
  <2>1. j \in Seq(Characters)
    BY <1>4 DEF j
  <2> QED BY <1>4, <2>1
<1>7. Text \in {j, Append(j, "/")}
  BY <1>5, <1>6
<1>8. \A i \in DOMAIN units : \A k \in DOMAIN units[i] : units[i][k] # "/"
  <2> TAKE i \in DOMAIN units
  <2>1. i \in 1 .. Len(units) /\ units[i] \in Seq(Characters)
    BY <1>3
  <2>2. DOMAIN units[i] = 1 .. Len(units[i])
    BY <2>1
  <2> QED BY <1>3, <2>1, <2>2
<1> QED BY <1>7, <1>8 DEF j

(* parse_path returns the list of the units of the path, for every path    *)
(* and every limit on its length: joined with slashes they give back the   *)
(* text behind the drive, but for one slash at its end, and no unit holds  *)
(* a slash.                                                                *)
THEOREM UnitsAreTheSplitHolds == SearchSpec => []UnitsAreTheSplit
<1>1. SearchInit => ParseInv
  BY ParseInvInit DEF SearchInit
<1>2. ParseInv /\ [SearchNext]_search_vars => ParseInv'
  <2> SUFFICES ASSUME ParseInv, [SearchNext]_search_vars PROVE ParseInv'
    OBVIOUS
  <2>1. CASE Parse
    BY <2>1, ParseInvNext DEF Parse
  <2>2. CASE UNCHANGED parser_vars
    BY <2>2, ParseInvStutter
  <2> QED BY <2>1, <2>2
        DEF SearchNext, search_vars, LookupRoot, LookupNullUnit, LookupInFile,
            LookupInDirectory, LookupInNull
<1> QED BY <1>1, <1>2, ParseInvSplit, PTL DEF SearchSpec
-----------------------------------------------------------------------------
(* The search.                                                             *)
(* A nonempty set of indices has a greatest one: the last match.           *)
LEMMA GreatestUpTo ==
  ASSUME NEW n \in Nat, NEW T, T \subseteq 1 .. n, T # {}
  PROVE  \E i \in T : \A j \in T : j <= i
<1> DEFINE D == {n - i : i \in T}
<1>1. D \subseteq Nat /\ D # {}
  <2>1. \A i \in T : n - i \in Nat
    OBVIOUS
  <2>2. PICK i \in T : TRUE
    OBVIOUS
  <2>3. n - i \in D
    OBVIOUS
  <2> QED BY <2>1, <2>3
<1>2. PICK x \in D : \A y \in D : x <= y
  <2> HIDE DEF D
  <2> QED BY <1>1, LeastNatural
<1>3. PICK i \in T : x = n - i
  BY <1>2
<1>4. ASSUME NEW j \in T PROVE j <= i
  <2>1. n - j \in D
    OBVIOUS
  <2>2. n - i <= n - j
    BY <1>2, <1>3, <2>1
  <2> QED BY <2>2
<1> QED BY <1>4

(* Entries of a directory, and how many of them the search looks at.       *)
LEMMA DirectoryFacts ==
  ASSUME NEW dir \in Directories
  PROVE  /\ Len(dir) \in Nat /\ DOMAIN dir = 1 .. Len(dir)
         /\ \A i \in 1 .. Len(dir) : dir[i] \in Entries
         /\ fat16_total_files_in_directory(dir) \in 0 .. Len(dir)
         /\ (\A i \in 1 .. Len(dir) : ~Deleted(dir[i]))
              => fat16_total_files_in_directory(dir) = Len(dir)
         /\ \A i, j \in 1 .. Len(dir) :
              (dir[i].name = dir[j].name /\ ~Deleted(dir[i]) /\ ~Deleted(dir[j]))
                => i = j
<1>1. PICK m \in 0 .. MaxEntries : dir \in [1 .. m -> Entries]
  BY DEF Directories, BoundedSeq, SeqOf
<1>2. m \in Nat /\ dir \in Seq(Entries) /\ Len(dir) = m /\ DOMAIN dir = 1 .. m
  <2>1. m \in Nat
    BY <1>1, Fat16DirAssumption
  <2> HIDE DEF Entries
  <2> QED BY <1>1, <2>1
<1> DEFINE U == {i \in DOMAIN dir : ~Deleted(dir[i])}
<1>3. fat16_total_files_in_directory(dir) = Cardinality(U)
  BY DEF fat16_total_files_in_directory
<1>4. IsFiniteSet(1 .. m) /\ Cardinality(1 .. m) = m
  <2>1. /\ IsFiniteSet(1 .. m)
        /\ Cardinality(1 .. m) = IF 1 > m THEN 0 ELSE m - 1 + 1
    BY <1>2, FS_Interval
  <2> QED BY <1>2, <2>1
<1>5. U \in SUBSET (1 .. m)
  BY <1>2
<1>6. (\A i \in 1 .. m : ~Deleted(dir[i])) => U = 1 .. m
  BY <1>2
<1> HIDE DEF U
<1>7. IsFiniteSet(U) /\ Cardinality(U) <= m
  BY <1>4, <1>5, FS_Subset
<1>8. Cardinality(U) \in Nat
  BY <1>7, FS_CardinalityType
<1>9. Cardinality(U) \in 0 .. m
  BY <1>2, <1>7, <1>8
<1>10. \A i, j \in 1 .. m :
         (dir[i].name = dir[j].name /\ ~Deleted(dir[i]) /\ ~Deleted(dir[j]))
           => i = j
  BY <1>2 DEF Directories
<1>11. \A i \in 1 .. m : dir[i] \in Entries
  BY <1>1
<1> QED BY <1>2, <1>3, <1>4, <1>6, <1>9, <1>10, <1>11, Zenon

(* What the loop over a directory returns.                                 *)
LEMMA FindResult ==
  ASSUME NEW dir \in Directories, NEW str,
         Matches(dir, str) # {}
  PROVE  \E i \in Matches(dir, str) :
            fat16_find_unit_in_directory(dir, str) = dir[i]
<1> DEFINE T == Matches(dir, str)
           n == Len(dir)
           P(i) == \A j \in T : j <= i
<1>1. n \in Nat /\ fat16_total_files_in_directory(dir) \in 0 .. n
  BY DirectoryFacts
<1>2. T \subseteq 1 .. n
  BY <1>1 DEF Matches
<1>3. fat16_find_unit_in_directory(dir, str) = dir[CHOOSE i \in T : P(i)]
  BY DEF fat16_find_unit_in_directory
<1> HIDE DEF T
<1>4. \E i \in T : P(i)
  BY <1>1, <1>2, GreatestUpTo DEF T
<1> HIDE DEF P
<1>5. (CHOOSE i \in T : P(i)) \in T
  BY <1>4, Zenon
<1> QED BY <1>3, <1>5, Zenon DEF T

(* What is found has the name that was asked for and is not deleted.       *)
LEMMA FindFacts ==
  ASSUME NEW dir \in Directories, NEW str, NEW e,
         e = fat16_find_unit_in_directory(dir, str), e # NotFound
  PROVE  e \in Range(dir) /\ e \in Entries /\ str = <<e.name>> /\ ~Deleted(e)
<1>1. Matches(dir, str) # {}
  BY DEF fat16_find_unit_in_directory
<1>2. PICK i \in Matches(dir, str) : e = dir[i]
  BY <1>1, FindResult
<1>3. /\ Len(dir) \in Nat /\ DOMAIN dir = 1 .. Len(dir)
      /\ fat16_total_files_in_directory(dir) \in 0 .. Len(dir)
      /\ \A k \in 1 .. Len(dir) : dir[k] \in Entries
  BY DirectoryFacts
<1>4. /\ i \in 1 .. fat16_total_files_in_directory(dir)
      /\ <<dir[i].name>> = str /\ ~Deleted(dir[i])
  BY <1>2 DEF Matches
<1>5. i \in 1 .. Len(dir)
  BY <1>3, <1>4
<1>6. dir[i] \in Range(dir)
  BY <1>3, <1>5 DEF Range
<1> QED BY <1>2, <1>3, <1>4, <1>5, <1>6, Zenon

(* Without deleted entries every name of a directory is found.             *)
LEMMA FindUnique ==
  ASSUME NEW dir \in Directories, \A x \in Range(dir) : ~Deleted(x),
         NEW e \in Range(dir)
  PROVE  /\ fat16_find_unit_in_directory(dir, <<e.name>>) = e
         /\ e \in Entries
<1>1. PICK k \in DOMAIN dir : e = dir[k]
  BY DEF Range
<1>2. /\ Len(dir) \in Nat /\ DOMAIN dir = 1 .. Len(dir)
      /\ (\A i \in 1 .. Len(dir) : ~Deleted(dir[i]))
           => fat16_total_files_in_directory(dir) = Len(dir)
      /\ \A i \in 1 .. Len(dir) : dir[i] \in Entries
      /\ \A i, j \in 1 .. Len(dir) :
           (dir[i].name = dir[j].name /\ ~Deleted(dir[i]) /\ ~Deleted(dir[j]))
             => i = j
  BY DirectoryFacts, Zenon
<1>3. \A i \in 1 .. Len(dir) : ~Deleted(dir[i])
  BY <1>2 DEF Range
<1>4. Matches(dir, <<e.name>>)
        = {i \in 1 .. Len(dir) : <<dir[i].name>> = <<e.name>> /\ ~Deleted(dir[i])}
  BY <1>2, <1>3 DEF Matches
<1>5. k \in Matches(dir, <<e.name>>)
  BY <1>1, <1>2, <1>3, <1>4
<1>6. PICK i \in Matches(dir, <<e.name>>) :
           fat16_find_unit_in_directory(dir, <<e.name>>) = dir[i]
  BY <1>5, FindResult
<1>7. i \in 1 .. Len(dir) /\ dir[i].name = dir[k].name
  BY <1>1, <1>4, <1>6
<1>8. i = k
  BY <1>1, <1>2, <1>3, <1>7
<1> QED BY <1>1, <1>2, <1>6, <1>8

(* The directory of the i-th unit, and the entry found in it.              *)
DirAt(i) == IF i = 1 THEN root ELSE sub
FoundAt(i) == fat16_find_unit_in_directory(DirAt(i), units[i])

(* The entry e, or nothing for want of memory.                             *)
UnitOf(e) == current_unit = e \/ (no_memory = TRUE /\ current_unit = NotFound)

(* The search is over: every unit was found, the path had none, or a unit  *)
(* in the middle was not that of a directory that could be loaded.         *)
SearchEnd ==
  \/ /\ \A i \in 1 .. (Len(units) - 1) : FoundAt(i).kind = "directory"
     /\ UnitOf(FoundAt(Len(units))) /\ null_read = FALSE
     /\ units[1] # NullUnit
  \/ units[1] = NullUnit /\ null_read = TRUE
  \/ /\ \/ \E i \in 1 .. (Len(units) - 1) : FoundAt(i).kind # "directory"
        \/ no_memory = TRUE
     /\ current_unit = NotFound \/ null_read = TRUE
     /\ units[1] # NullUnit

(* Every unit before next_path_unit was found and is a directory, but for  *)
(* the last one, which is the entry at hand.                               *)
SearchInv ==
  /\ root \in Directories /\ sub \in Directories
  /\ next_path_unit \in Nat
  /\ next_path_unit # 1 => parsing = "done"
  /\ no_memory \in BOOLEAN
  /\ next_path_unit = 1 => null_read = FALSE
  /\ next_path_unit > 1 =>
       /\ next_path_unit <= Len(units)
       /\ null_read = FALSE /\ units[1] # NullUnit
       /\ UnitOf(FoundAt(next_path_unit - 1))
       /\ \A i \in 1 .. (next_path_unit - 2) : FoundAt(i).kind = "directory"
  /\ next_path_unit = 0 => SearchEnd

SearchIInv == ParseInv /\ SearchInv

LEMMA SearchInvInit ==
  ASSUME SearchInit
  PROVE  SearchIInv
<1>1. ParseInv
  BY ParseInvInit DEF SearchInit
<1>2. no_memory \in BOOLEAN
  BY Zenon DEF SearchInit
<1>3. SearchInv
  BY <1>2 DEF SearchInit, SearchInv
<1> QED BY <1>1, <1>3 DEF SearchIInv

(* A parsed path has at least one unit.                                    *)
LEMMA UnitsLen ==
  ASSUME ParseInv, parsing = "done"
  PROVE  Len(units) \in Nat /\ Len(units) >= 1
<1>0. parsing \in {"units", "done"}
  OBVIOUS
<1>1. units # <<>> /\ \E S : units \in Seq(S)
  <2>1. CASE Text = <<>>
    <3>1. units = <<NullUnit>>
      BY <1>0, <2>1, Zenon DEF ParseInv
    <3>2. units \in Seq({NullUnit}) /\ units # <<>>
      BY <3>1
    <3> QED BY <3>2
  <2>2. CASE Text # <<>>
    <3>1. units \in Seq(Seq(Characters)) /\ units # <<>>
      BY <1>0, <2>2, Zenon DEF ParseInv
    <3> QED BY <3>1, Zenon
  <2> QED BY <2>1, <2>2
<1>2. PICK S : units \in Seq(S)
  BY <1>1
<1> QED BY <1>1, <1>2

(* The search keeps its invariant.                                         *)
LEMMA SearchInvNext ==
  ASSUME SearchIInv, [SearchNext]_search_vars
  PROVE  SearchIInv'
<1> DEFINE n == Len(units)
           k == next_path_unit
<1>1. ParseInv /\ SearchInv
  BY DEF SearchIInv
<1>2. CASE UNCHANGED search_vars
  <2>1. ParseInv'
    BY <1>1, <1>2, ParseInvStutter DEF search_vars
  <2>2. SearchInv'
    BY <1>1, <1>2 DEF search_vars, volume, parser_vars, search, SearchInv,
                      SearchEnd, FoundAt, DirAt, UnitOf
  <2> QED BY <2>1, <2>2 DEF SearchIInv
<1>3. CASE Parse
  <2>1. ParseInv'
    BY <1>1, <1>3, ParseInvNext DEF Parse
  <2>2. parsing # "done"
    BY <1>3 DEF Parse, parse_path, parse_path_loop
  <2>3. k = 1
    BY <1>1, <2>2 DEF SearchInv
  <2>4. SearchInv'
    BY <1>1, <1>3, <2>3 DEF Parse, volume, search, SearchInv
  <2> QED BY <2>1, <2>4 DEF SearchIInv
<1>4. CASE UNCHANGED <<volume, parser_vars>> /\ parsing = "done"
           /\ (LookupRoot \/ LookupNullUnit \/ LookupInFile
               \/ LookupInDirectory \/ LookupInNull)
  <2>1. ParseInv'
    BY <1>1, <1>4, ParseInvStutter
  <2>2. n \in Nat /\ n >= 1
    BY <1>1, <1>4, UnitsLen
  <2>3. /\ root' = root /\ sub' = sub /\ units' = units /\ parsing' = "done"
        /\ \A i : FoundAt(i)' = FoundAt(i)
        /\ Len(units') = n
    BY <1>4 DEF volume, parser_vars, FoundAt, DirAt
  <2>4. /\ root \in Directories /\ sub \in Directories /\ k \in Nat
        /\ root' \in Directories /\ sub' \in Directories
        /\ no_memory \in BOOLEAN /\ no_memory' \in BOOLEAN
    BY <1>1, <1>4, <2>3 DEF SearchInv, LookupRoot, LookupNullUnit, LookupInFile,
             LookupInDirectory, LookupInNull, NewUnit
  <2>5. NotFound.kind # "directory"
    BY DEF NotFound
  <2>6. k > 1 =>
          /\ k <= n /\ null_read = FALSE /\ units[1] # NullUnit
          /\ UnitOf(FoundAt(k - 1))
          /\ \A i \in 1 .. (k - 2) : FoundAt(i).kind = "directory"
    BY <1>1 DEF SearchInv
  <2>7. CASE LookupRoot
    <3>1. /\ units[1] # NullUnit /\ UnitOf(FoundAt(1))'
          /\ null_read' = FALSE
      <4>1. NewUnit(FoundAt(1)) /\ units[1] # NullUnit /\ null_read' = FALSE
        BY <1>1, <2>7 DEF LookupRoot, FoundAt, DirAt, SearchInv
      <4> QED BY <2>3, <4>1 DEF NewUnit, UnitOf
    <3>2. CASE n = 1
      <4>1. next_path_unit' = 0
        BY <2>7, <3>2 DEF LookupRoot
      <4>2. \A i \in 1 .. (n - 1) : FALSE
        BY <3>2
      <4>3. SearchEnd'
        BY <2>3, <3>1, <3>2, <4>2 DEF SearchEnd
      <4> QED BY <2>1, <2>3, <2>4, <4>1, <4>3 DEF SearchIInv, SearchInv
    <3>3. CASE n # 1 /\ current_unit' = NotFound
      <4>1. next_path_unit' = 0
        BY <2>7, <3>3 DEF LookupRoot
      <4>2. 1 \in 1 .. (n - 1)
        <5> HIDE DEF n
        <5> QED BY <2>2, <3>3
      <4>3. FoundAt(1).kind # "directory" \/ no_memory' = TRUE
        BY <2>3, <2>5, <3>1, <3>3 DEF UnitOf
      <4>4. SearchEnd'
        BY <2>3, <3>1, <3>3, <4>2, <4>3 DEF SearchEnd
      <4> QED BY <2>1, <2>3, <2>4, <4>1, <4>4 DEF SearchIInv, SearchInv
    <3>4. CASE n # 1 /\ current_unit' # NotFound
      <4>1. next_path_unit' = 2
        BY <2>7, <3>4, Zenon DEF LookupRoot
      <4>2. 2 <= n /\ \A i \in 1 .. (2 - 2) : FALSE
        <5> HIDE DEF n
        <5> QED BY <2>2, <3>4
      <4>3. 2 - 1 = 1
        OBVIOUS
      <4> QED BY <2>1, <2>3, <2>4, <3>1, <4>1, <4>2, <4>3
              DEF SearchIInv, SearchInv
    <3> QED BY <3>2, <3>3, <3>4
  <2>8. CASE LookupNullUnit
    <3>1. units[1] = NullUnit /\ null_read' = TRUE /\ next_path_unit' = 0
      BY <2>8 DEF LookupNullUnit
    <3>2. SearchEnd'
      BY <2>3, <3>1 DEF SearchEnd
    <3> QED BY <2>1, <2>3, <2>4, <3>1, <3>2 DEF SearchIInv, SearchInv
  <2>9. CASE LookupInFile \/ LookupInNull
    <3>1. /\ k > 1 /\ next_path_unit' = 0
          /\ current_unit.kind # "directory" \/ no_memory = TRUE
          /\ current_unit' = NotFound \/ null_read' = TRUE
          /\ no_memory' = no_memory
      BY <2>4, <2>5, <2>9 DEF LookupInFile, LookupInNull
    <3>2. /\ k - 1 \in 1 .. (n - 1)
          /\ FoundAt(k - 1).kind # "directory" \/ no_memory' = TRUE
      BY <2>2, <2>4, <2>6, <3>1 DEF UnitOf
    <3>3. units'[1] # NullUnit
      BY <2>3, <2>6, <3>1
    <3>4. SearchEnd'
      BY <2>3, <3>1, <3>2, <3>3 DEF SearchEnd
    <3> QED BY <2>1, <2>3, <2>4, <3>1, <3>4 DEF SearchIInv, SearchInv
  <2>10. CASE LookupInDirectory
    <3>1. /\ k > 1 /\ current_unit.kind = "directory" /\ ~no_memory
          /\ \/ current_unit' = FoundAt(k)
             \/ no_memory' = TRUE /\ current_unit' = NotFound
          /\ null_read' = null_read
          /\ next_path_unit' = IF k = n THEN 0 ELSE k + 1
      <4>1. /\ k > 1 /\ current_unit.kind = "directory" /\ ~no_memory
            /\ NewUnit(FoundAt(k)) /\ null_read' = null_read
            /\ next_path_unit' = IF k = n THEN 0 ELSE k + 1
        BY <2>4, <2>10
           DEF LookupInDirectory, FoundAt, DirAt, fat16_load_directory
      <4> QED BY <4>1 DEF NewUnit
    <3>2. \A i \in 1 .. (k - 1) : FoundAt(i).kind = "directory"
      <4> TAKE i \in 1 .. (k - 1)
      <4>1. i = k - 1 \/ i \in 1 .. (k - 2)
        BY <2>4
      <4> QED BY <2>6, <3>1, <4>1 DEF UnitOf
    <3>3. null_read' = FALSE /\ units[1] # NullUnit /\ k <= n
      BY <2>6, <3>1
    <3>4. CASE k = n
      <4>1. SearchEnd'
        BY <2>3, <3>1, <3>2, <3>3, <3>4 DEF SearchEnd, UnitOf
      <4>2. next_path_unit' = 0
        BY <3>1, <3>4
      <4> QED BY <2>1, <2>3, <2>4, <4>1, <4>2 DEF SearchIInv, SearchInv
    <3>5. CASE k # n
      <4>1. next_path_unit' = k + 1 /\ k + 1 <= n
        BY <2>2, <2>4, <3>1, <3>3, <3>5
      <4>2. k + 1 - 1 = k /\ k + 1 - 2 = k - 1
            /\ k + 1 \in Nat /\ k + 1 # 0 /\ k + 1 # 1
        BY <2>4, <3>1
      <4> HIDE DEF k
      <4> QED BY <2>1, <2>3, <2>4, <3>1, <3>2, <3>3, <4>1, <4>2
              DEF SearchIInv, SearchInv, UnitOf
    <3> QED BY <3>4, <3>5
  <2> QED BY <1>4, <2>7, <2>8, <2>9, <2>10
<1>5. ASSUME LookupRoot \/ LookupNullUnit \/ LookupInFile
               \/ LookupInDirectory \/ LookupInNull
      PROVE  UNCHANGED <<volume, parser_vars>> /\ parsing = "done"
  <2>1. k \in Nat /\ (k # 1 => parsing = "done")
    BY <1>1 DEF SearchInv
  <2>2. UNCHANGED <<volume, parser_vars>>
    BY <1>5 DEF LookupRoot, LookupNullUnit, LookupInFile, LookupInDirectory,
             LookupInNull
  <2>3. parsing = "done"
    BY <1>5, <2>1 DEF LookupRoot, LookupNullUnit, LookupInFile,
             LookupInDirectory, LookupInNull
  <2> QED BY <2>2, <2>3
<1> QED BY <1>2, <1>3, <1>4, <1>5 DEF SearchNext

LEMMA OneCharacter ==
  ASSUME NEW C, NEW x \in Seq(C), Len(x) = 1
  PROVE  x = <<x[1]>> /\ x[1] \in C
<1>1. x[1] \in C
  OBVIOUS
<1>2. <<x[1]>> \in Seq(C) /\ Len(<<x[1]>>) = 1 /\ <<x[1]>>[1] = x[1]
  BY <1>1
<1>3. \A i \in 1 .. 1 : i = 1
  OBVIOUS
<1> QED BY <1>1, <1>2, <1>3, SeqEqual

(* Units of one character that is no slash are the names of the path.      *)
LEMMA WantedUnits ==
  ASSUME ParseInv, parsing = "done", Text # <<>>,
         \A i \in 1 .. Len(units) : Len(units[i]) = 1
  PROVE  /\ Len(units) \in Nat /\ Len(units) >= 1
         /\ Wanted # <<>> /\ Len(Wanted) = Len(units)
         /\ \A i \in 1 .. Len(units) : /\ Wanted[i] = units[i][1]
                                       /\ units[i] = <<Wanted[i]>>
<1> DEFINE n == Len(units)
           heads == [i \in 1 .. n |-> units[i][1]]
           C == Characters
<1>1. n \in Nat /\ n >= 1
  BY UnitsLen
<1>2. /\ units \in Seq(Seq(C)) /\ __path = <<>>
      /\ \A i \in 1 .. Len(units) :
           \A j \in 1 .. Len(units[i]) : units[i][j] # "/"
      /\ Splits(Text, units, __path)
  <2>1. parsing \in {"units", "done"}
    OBVIOUS
  <2> QED BY <2>1, Zenon DEF ParseInv
<1>3. "/" \in C
  BY TextType DEF ParseInv
<1>4. \A i \in 1 .. n : /\ Len(units[i]) = 1 /\ units[i][1] # "/"
                        /\ units[i] \in Seq(C)
  BY <1>2
<1>5. \A i \in 1 .. n : units[i] = <<units[i][1]>> /\ units[i][1] \in C
  <2> TAKE i \in 1 .. n
  <2> QED BY <1>4, OneCharacter
<1>6. Joined(units) \in Seq(C) /\ NamesIn(Joined(units)) = heads
  BY <1>2, <1>3, <1>4, NamesJoined
<1>7. Wanted = heads
  <2> DEFINE j == Joined(units)
  <2>1. j \in Seq(C) /\ NamesIn(j) = heads
    BY <1>6
  <2>2. Text = j \o <<"/">> \o <<>> \/ Text = j
    BY <1>2 DEF Splits
  <2> HIDE DEF j, heads
  <2>3. j \o <<"/">> \o <<>> = Append(j, "/")
    BY <1>3, <2>1
  <2>4. NamesIn(Append(j, "/")) = NamesIn(j)
    BY <1>3, <2>1, NamesInAppend
  <2> QED BY <2>1, <2>2, <2>3, <2>4 DEF Wanted
<1>8. heads \in [1 .. n -> C] /\ \A i \in 1 .. n : heads[i] = units[i][1]
  BY <1>5
<1> HIDE DEF heads, n
<1>9. Len(heads) = n /\ heads # <<>>
  <2>1. heads \in Seq(C) /\ Len(heads) = n
    BY <1>1, <1>8
  <2> QED BY <1>1, <2>1
<1> QED BY <1>1, <1>5, <1>7, <1>8, <1>9 DEF n

(* Only an empty text has a unit without a string.                         *)
LEMMA TextNotEmpty ==
  ASSUME ParseInv, parsing = "done", units[1] # NullUnit
  PROVE  Text # <<>>
<1>1. parsing \in {"units", "done"}
  OBVIOUS
<1>2. Text = <<>> => units = <<NullUnit>>
  BY <1>1, Zenon DEF ParseInv
<1> QED BY <1>2

(* What was found on the way down is what the path names.                  *)
LEMMA SearchInvRight ==
  ASSUME SearchIInv
  PROVE  NeverTheWrongFile
<1> SUFFICES ASSUME next_path_unit = 0, ~null_read, current_unit # NotFound
             PROVE  Resolves(current_unit)
  BY DEF NeverTheWrongFile
<1> DEFINE n == Len(units)
<1>1. /\ ParseInv /\ parsing = "done" /\ SearchEnd
      /\ root \in Directories /\ sub \in Directories
  BY DEF SearchIInv, SearchInv
<1>2. /\ \A i \in 1 .. (n - 1) : FoundAt(i).kind = "directory"
      /\ current_unit = FoundAt(n) /\ units[1] # NullUnit
  BY <1>1 DEF SearchEnd, UnitOf
<1>3. n \in Nat /\ n >= 1
  BY <1>1, UnitsLen
<1>4. Text # <<>>
  BY <1>1, <1>2, TextNotEmpty
<1>5. ASSUME NEW i \in 1 .. n
      PROVE  /\ FoundAt(i) # NotFound /\ FoundAt(i) \in Range(DirAt(i))
             /\ units[i] = <<FoundAt(i).name>> /\ ~Deleted(FoundAt(i))
  <2>1. FoundAt(i) # NotFound
    <3>1. CASE i = n
      BY <1>2, <3>1
    <3>2. CASE i # n
      <4>1. i \in 1 .. (n - 1)
        <5> HIDE DEF n
        <5> QED BY <1>3, <3>2
      <4>2. FoundAt(i).kind = "directory"
        BY <1>2, <4>1
      <4> QED BY <4>2 DEF NotFound
    <3> QED BY <3>1, <3>2
  <2>2. DirAt(i) \in Directories
    BY <1>1 DEF DirAt
  <2> QED BY <2>1, <2>2, FindFacts, Zenon DEF FoundAt
<1>6. \A i \in 1 .. n : Len(units[i]) = 1
  <2>1. \A x : Len(<<x>>) = 1
    OBVIOUS
  <2> QED BY <1>5, <2>1, Zenon
<1>7. /\ Wanted # <<>> /\ Len(Wanted) = n
      /\ \A i \in 1 .. n : units[i] = <<Wanted[i]>>
  BY <1>1, <1>4, <1>6, WantedUnits
<1>8. \A i \in 1 .. n : FoundAt(i) \in Named(DirAt(i), Wanted[i])
  <2> TAKE i \in 1 .. n
  <2>1. FoundAt(i).name = Wanted[i]
    BY <1>5, <1>7
  <2> QED BY <1>5, <2>1 DEF Named
<1>9. n \in 1 .. n /\ \A i \in 1 .. (n - 1) : i \in 1 .. n
  <2> HIDE DEF n
  <2> QED BY <1>3
<1>10. current_unit \in Named(DirAt(n), Wanted[n])
  BY <1>2, <1>8, <1>9, Zenon
<1>11. \A i \in 1 .. (n - 1) :
         \E d \in Named(DirAt(i), Wanted[i]) : d.kind = "directory"
  BY <1>2, <1>8, <1>9, Zenon
<1> HIDE DEF n
<1> QED BY <1>7, <1>10, <1>11 DEF Resolves, DirAt

(* What the path names was found on the way down.                          *)
LEMMA SearchInvFound ==
  ASSUME SearchIInv
  PROVE  FoundWithoutDeletions
<1> SUFFICES ASSUME next_path_unit = 0, WellFormed, Undeleted, ~no_memory,
                    NEW e \in Range(root) \cup Range(sub), Resolves(e)
             PROVE  current_unit = e /\ ~null_read
  BY Zenon DEF FoundWithoutDeletions
<1> DEFINE n == Len(units)
<1>1. /\ ParseInv /\ parsing = "done" /\ SearchEnd
      /\ root \in Directories /\ sub \in Directories
  BY DEF SearchIInv, SearchInv
<1>2. Text # <<>>
  <2>1. Len(Text) # 0
    <3>1. path \in Seq(Characters) /\ Len(path) > 3
      BY <1>1, TextType DEF ParseInv, WellFormed
    <3>2. PICK m \in Nat : m = 3 /\ m + 1 = 4
      OBVIOUS
    <3>3. Len(SubSeq(path, m + 1, Len(path)))
            = IF m <= Len(path) THEN Len(path) - m ELSE 0
      BY <3>1, Suffix
    <3>4. Len(path) \in Nat
      BY <3>1
    <3>5. SubSeq(path, m + 1, Len(path)) = Text
      BY <3>2, Zenon DEF Text
    <3>6. Len(path) - m # 0 /\ m <= Len(path)
      <4>1. \A x \in Nat : x > 3 => x - m # 0 /\ m <= x
        BY <3>2
      <4> QED BY <3>1, <3>4, <4>1, Zenon
    <3> QED BY <3>3, <3>5, <3>6
  <2> QED BY <2>1
<1>3. \A i \in 1 .. n : Len(units[i]) = 1
  <2>1. parsing \in {"units", "done"}
    BY <1>1
  <2> QED BY <1>1, <1>2, <2>1, Zenon DEF ParseInv
<1>4. /\ n \in Nat /\ n >= 1 /\ Len(Wanted) = n
      /\ \A i \in 1 .. n : units[i] = <<Wanted[i]>>
  BY <1>1, <1>2, <1>3, WantedUnits
<1>5. ASSUME NEW i \in 1 .. n, NEW d \in Named(DirAt(i), Wanted[i])
      PROVE  FoundAt(i) = d /\ units[i] # NullUnit
  <2>1. /\ DirAt(i) \in Directories /\ d \in Range(DirAt(i))
        /\ \A x \in Range(DirAt(i)) : ~Deleted(x)
        /\ d.name = Wanted[i]
    BY <1>1, <1>5 DEF DirAt, Named, Undeleted
  <2>2. /\ fat16_find_unit_in_directory(DirAt(i), <<d.name>>) = d
        /\ d \in Entries
    BY <2>1, FindUnique
  <2>3. units[i] = <<d.name>>
    BY <1>4, <2>1
  <2>4. d.name \in Names /\ d.name # "null"
    BY <2>2, Fat16DirAssumption DEF Entries
  <2>5. units[i] # NullUnit
    BY <2>3, <2>4 DEF NullUnit
  <2> QED BY <2>2, <2>3, <2>5 DEF FoundAt
<1>6. /\ e \in Named(DirAt(n), Wanted[n])
      /\ \A i \in 1 .. (n - 1) :
           \E d \in Named(DirAt(i), Wanted[i]) : d.kind = "directory"
  BY <1>4 DEF Resolves, DirAt
<1>7. /\ n \in 1 .. n /\ 1 \in 1 .. n
      /\ \A i \in 1 .. (n - 1) : i \in 1 .. n
      /\ n = 1 \/ 1 \in 1 .. (n - 1)
  <2> HIDE DEF n
  <2> QED BY <1>4
<1>8. FoundAt(n) = e /\ units[n] # NullUnit
  BY <1>5, <1>6, <1>7, Zenon
<1>9. \A i \in 1 .. (n - 1) : FoundAt(i).kind = "directory" /\ units[i] # NullUnit
  <2> TAKE i \in 1 .. (n - 1)
  <2>1. PICK d \in Named(DirAt(i), Wanted[i]) : d.kind = "directory"
    BY <1>6
  <2> QED BY <1>5, <1>7, <2>1, Zenon
<1>10. units[1] # NullUnit
  BY <1>7, <1>8, <1>9, Zenon
<1> HIDE DEF n
<1> QED BY <1>1, <1>8, <1>9, <1>10 DEF SearchEnd, UnitOf, n

LEMMA SearchIInvHolds == SearchSpec => []SearchIInv
  BY SearchInvInit, SearchInvNext, PTL DEF SearchSpec

(* fat16_get_unit never returns an entry other than the one that the path  *)
(* names, whatever the directories hold, deleted entries included, however *)
(* many slashes the path has too many and whichever allocation fails.      *)
THEOREM NeverTheWrongFileHolds == SearchSpec => []NeverTheWrongFile
  BY SearchIInvHolds, SearchInvRight, PTL

(* On a volume without deleted entries, and with memory for its units,     *)
(* fat16_get_unit finds what a well formed path of any depth names,        *)
(* without reading through a null pointer, in directories of any size.     *)
THEOREM FoundWithoutDeletionsHolds == SearchSpec => []FoundWithoutDeletions
  BY SearchIInvHolds, SearchInvFound, PTL
=============================================================================
