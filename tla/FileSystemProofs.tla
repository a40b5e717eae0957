--------------------------- MODULE FileSystemProofs ---------------------------
(***************************************************************************)
(* Proofs about FileSystem and FileCalls for every layout of the disk and  *)
(* every shell.                                                            *)
(*                                                                         *)
(* First the usage maps: each block that can be allocated has one byte in  *)
(* the maps and shares it with no other, a block that is allocated was not *)
(* marked before, and marking or freeing one changes the mark of no other. *)
(*                                                                         *)
(* Then the links.  A disk is sane when every link of a marked block leads *)
(* to a marked block of the right kind, and no two lead to the same; which *)
(* distributors belong to directories (dirs), and that those of one file   *)
(* do not run in a circle (rank), is part of it, though the disk does not  *)
(* say so.  Each byte of a file has a part that a trail of distributors    *)
(* leads to.  Each disk_wr of each call keeps the disk so, and so do a     *)
(* stop of the machine and the next start.                                 *)
(***************************************************************************)
EXTENDS FileCalls, FiniteSetTheorems, SequenceTheorems, WellFoundedInduction, TLAPS

(* What a usage map can hold: bytes of the two maps.                       *)
MapBytes == 0 .. BlockNum - 1

-----------------------------------------------------------------------------
(* The regions of the disk, in numbers.                                    *)
LEMMA Layout ==
  /\ files_start_address \in Nat /\ BlockNum = 2 * files_start_address
  /\ info_block_end \in Nat /\ 0 < info_block_end /\ info_block_end < files_start_address
  /\ info_block_meta * BlockLen = 0 /\ info_block_file * BlockLen = files_start_address
  /\ error_place = BlockNum - 1 /\ metadata_start = info_block_end
  /\ info_block_meta # info_block_file
<1>1. InfoBlocks * BlockLen \in Nat /\ 2 * InfoBlocks < InfoBlocks * BlockLen
  <2>1. InfoBlocks \in Nat /\ BlockLen \in Nat /\ InfoBlocks >= 1 /\ BlockLen >= 3
    BY FileSystemAssumption
  <2>2. InfoBlocks * BlockLen \in Nat
    BY <2>1
  <2>3. InfoBlocks * (BlockLen - 3) >= 0
    BY <2>1
  <2>4. InfoBlocks * BlockLen >= 3 * InfoBlocks
    BY <2>1, <2>3
  <2>5. QED  BY <2>1, <2>2, <2>4
<1>2. InfoBlocks \in Nat \ {0} /\ BlockLen \in Nat
  BY FileSystemAssumption
<1>3. 0 * BlockLen = 0
  BY <1>2
<1>4. QED
  BY <1>1, <1>2, <1>3 DEF files_start_address, BlockNum, info_block_end, info_block_meta,
                          info_block_file, error_place, metadata_start

(* update_info_space: no two blocks share a byte of the maps.              *)
LEMMA OneByteEach ==
  ASSUME NEW a \in Addresses, NEW b \in Addresses, ByteOf(a) = ByteOf(b)
  PROVE  a = b
<1>1. a \in Int /\ b \in Int /\ info_block_end <= a /\ info_block_end <= b
  BY Layout DEF Addresses
<1>2. QED  BY <1>1, Layout DEF ByteOf

(* A set of numbers that is not empty has a smallest one.                  *)
LEMMA SmallestExists ==
  ASSUME NEW S \in SUBSET Nat, S # {}
  PROVE  \E e \in S : \A f \in S : e <= f
<1>1. IsWellFoundedOn(OpToRel(<, Nat), Nat)
  BY NatLessThanWellFounded
<1>2. PICK x \in S : \A y \in S : ~ (<<y, x>> \in OpToRel(<, Nat))
  BY <1>1, WFMin
<1>3. ASSUME NEW y \in S, ~ (x <= y)
      PROVE  FALSE
  <2>1. y < x /\ <<y, x>> \in Nat \X Nat
    BY <1>3
  <2>2. <<y, x>>[1] = y /\ <<y, x>>[2] = x
    OBVIOUS
  <2>3. <<y, x>> \in OpToRel(<, Nat)
    BY <2>1, <2>2 DEF OpToRel
  <2>4. QED  BY <1>2, <2>3
<1>4. QED  BY <1>3

(* find_empty_block finds the block of a byte that is zero, if there is    *)
(* one.                                                                    *)
LEMMA FindsFree ==
  ASSUME NEW s, NEW start \in {info_block_meta, info_block_file}, FreeBytes(s, start) # {}
  PROVE  \E e \in FreeBytes(s, start) : find_empty_block(s, start) = AddressOf(start, e)
<1> DEFINE Least(e) == \A f \in FreeBytes(s, start) : e <= f
<1>1. FreeBytes(s, start) \in SUBSET Nat
  BY Layout DEF FreeBytes
<1>2. \E e \in FreeBytes(s, start) : Least(e)
  BY <1>1, SmallestExists
<1>3. (CHOOSE e \in FreeBytes(s, start) : Least(e)) \in FreeBytes(s, start)
  <2> HIDE DEF Least
  <2>1. QED  BY <1>2
<1>4. QED  BY <1>3 DEF find_empty_block

-----------------------------------------------------------------------------
(* A block for a distributor or a part of a file is not in use before, and *)
(* lies in the region of the files.                                        *)
LEMMA FilesBlockIsFree ==
  ASSUME NEW s, FreeBytes(s, info_block_file) # {}
  PROVE  LET a == find_empty_block(s, info_block_file)
         IN  a \in files_start_address .. BlockNum - 1 /\ a \in Addresses \ Marked(s.disk)
<1>1. PICK e \in FreeBytes(s, info_block_file) :
        find_empty_block(s, info_block_file) = AddressOf(info_block_file, e)
  BY FindsFree
<1>2. e \in files_start_address .. BlockNum - 1 /\ e \notin s.disk.map
  BY Layout DEF FreeBytes
<1>3. AddressOf(info_block_file, e) = e
  BY DEF AddressOf
<1>4. e \in Addresses /\ ByteOf(e) = e
  BY <1>2, Layout DEF Addresses, ByteOf
<1>5. QED  BY <1>1, <1>2, <1>3, <1>4 DEF Marked

(* So is a block for metadata, as long as its region lasts (the bound in   *)
(* create_metadata).                                                       *)
LEMMA MetadataBlockIsFree ==
  ASSUME NEW s, FreeBytes(s, info_block_meta) # {},
         find_empty_block(s, info_block_meta) < files_start_address
  PROVE  LET a == find_empty_block(s, info_block_meta)
         IN  a \in metadata_start .. files_start_address - 1 /\ a \in Addresses \ Marked(s.disk)
<1>1. PICK e \in FreeBytes(s, info_block_meta) :
        find_empty_block(s, info_block_meta) = AddressOf(info_block_meta, e)
  BY FindsFree
<1>2. e \in 0 .. BlockNum - 1 /\ e \notin s.disk.map
  BY Layout DEF FreeBytes
<1>3. AddressOf(info_block_meta, e) = info_block_end + e
  BY Layout DEF AddressOf
<1>4. info_block_end + e < files_start_address
  BY <1>1, <1>3
<1>5. info_block_end + e \in Addresses /\ ByteOf(info_block_end + e) = e
  BY <1>2, <1>4, Layout DEF Addresses, ByteOf
<1>6. QED  BY <1>1, <1>2, <1>3, <1>4, <1>5, Layout DEF Marked

-----------------------------------------------------------------------------
(* A disk whose blocks hold things from C, and what a call has made of it. *)
Disks(C) == [blk : [Addresses -> C], map : SUBSET MapBytes]
Calls(C) == [disk : Disks(C), log : Seq(Disks(C)),
             fault : {"none", "hangs", "corrupts", "full"}]

LEMMA WroteIsCall ==
  ASSUME NEW C, NEW s \in Calls(C), NEW d \in Disks(C)
  PROVE  Wrote(s, d) \in Calls(C) /\ Wrote(s, d).disk = d /\ Wrote(s, d).fault = s.fault
<1> DEFINE l == Append(s.log, d)
<1>1. s.log \in Seq(Disks(C))
  BY DEF Calls
<1>2. l \in Seq(Disks(C))
  BY <1>1, AppendProperties
<1>3. Wrote(s, d) = [s EXCEPT !.disk = d, !.log = l]
  BY DEF Wrote
<1> HIDE DEF l
<1>4. QED  BY <1>2, <1>3 DEF Calls

LEMMA FailsIsCall ==
  ASSUME NEW C, NEW s \in Calls(C), NEW how \in {"none", "hangs", "corrupts", "full"}
  PROVE  Fails(s, how) \in Calls(C) /\ Fails(s, how).disk = s.disk
BY DEF Fails, Calls

LEMMA ByteIsInMap ==
  ASSUME NEW a \in Addresses
  PROVE  ByteOf(a) \in MapBytes
<1>1. a \in Int /\ info_block_end <= a /\ a <= BlockNum - 1
  BY Layout DEF Addresses
<1>2. QED  BY <1>1, Layout DEF ByteOf, MapBytes

(* disk_wr of a block leaves the marks and every other block alone.        *)
LEMMA StoreKeepsMarks ==
  ASSUME NEW C, NEW s \in Calls(C), NEW a \in Addresses, NEW content \in C
  PROVE  /\ Store(s, a, content) \in Calls(C)
         /\ Store(s, a, content).disk.map = s.disk.map
         /\ Store(s, a, content).disk.blk = [s.disk.blk EXCEPT ![a] = content]
<1> DEFINE d == [s.disk EXCEPT !.blk = [s.disk.blk EXCEPT ![a] = content]]
<1>1. s.disk \in Disks(C)
  BY DEF Calls
<1>2. /\ d \in Disks(C) /\ d.map = s.disk.map
      /\ d.blk = [s.disk.blk EXCEPT ![a] = content]
  BY <1>1 DEF Disks
<1>3. Store(s, a, content) = Wrote(s, d)
  BY DEF Store
<1> HIDE DEF d
<1>4. QED  BY <1>2, <1>3, WroteIsCall

(* update_info_space(a, 1) changes the mark of a and of no other block.    *)
LEMMA MarkUsedMarks ==
  ASSUME NEW C, NEW s \in Calls(C), NEW a \in Addresses
  PROVE  /\ MarkUsed(s, a) \in Calls(C)
         /\ Marked(MarkUsed(s, a).disk) = Marked(s.disk) \cup {a}
         /\ MarkUsed(s, a).disk.blk = s.disk.blk
<1> DEFINE d == [s.disk EXCEPT !.map = s.disk.map \cup {ByteOf(a)}]
<1>1. s.disk \in Disks(C) /\ ByteOf(a) \in MapBytes
  BY ByteIsInMap DEF Calls
<1>2. d \in Disks(C) /\ d.map = s.disk.map \cup {ByteOf(a)} /\ d.blk = s.disk.blk
  BY <1>1 DEF Disks
<1>3. MarkUsed(s, a) = Wrote(s, d)
  BY DEF MarkUsed
<1> HIDE DEF d
<1>4. Marked(d) = Marked(s.disk) \cup {a}
  BY <1>2, OneByteEach DEF Marked
<1>5. QED  BY <1>2, <1>3, <1>4, WroteIsCall

(* update_info_space(a, 0) likewise: no other block becomes free.          *)
THEOREM FreesOneBlock ==
  ASSUME NEW C, Blank \in C, NEW s \in Calls(C), NEW a \in Addresses
  PROVE  /\ MarkFree(s, a) \in Calls(C)
         /\ Marked(MarkFree(s, a).disk) = Marked(s.disk) \ {a}
         /\ \A b \in Addresses \ {a} : Block(MarkFree(s, a), b) = Block(s, b)
<1> DEFINE d == [s.disk EXCEPT !.map = s.disk.map \ {ByteOf(a)},
                               !.blk = [s.disk.blk EXCEPT ![a] = Blank]]
<1>1. s.disk \in Disks(C)
  BY DEF Calls
<1>2. /\ d \in Disks(C) /\ d.map = s.disk.map \ {ByteOf(a)}
      /\ d.blk = [s.disk.blk EXCEPT ![a] = Blank]
  BY <1>1 DEF Disks
<1>3. MarkFree(s, a) = Wrote(s, d)
  BY DEF MarkFree
<1>4. s.disk.blk \in [Addresses -> C]
  BY <1>1 DEF Disks
<1> HIDE DEF d
<1>5. Marked(d) = Marked(s.disk) \ {a}
  BY <1>2, OneByteEach DEF Marked
<1>6. \A b \in Addresses \ {a} : d.blk[b] = s.disk.blk[b]
  BY <1>2, <1>4
<1>7. MarkFree(s, a) \in Calls(C) /\ MarkFree(s, a).disk = d
  BY <1>2, <1>3, WroteIsCall
<1>8. QED  BY <1>5, <1>6, <1>7 DEF Block

(* Store and mark: a is marked and holds content, the rest is as it was.   *)
LEMMA AllocatedMarks ==
  ASSUME NEW C, NEW s \in Calls(C), NEW a \in Addresses, NEW content \in C
  PROVE  /\ Allocated(s, a, content).s \in Calls(C)
         /\ Allocated(s, a, content).at = a
         /\ Marked(Allocated(s, a, content).s.disk) = Marked(s.disk) \cup {a}
         /\ Allocated(s, a, content).s.disk.blk = [s.disk.blk EXCEPT ![a] = content]
<1> DEFINE stored == Store(s, a, content)
<1>1. /\ stored \in Calls(C) /\ stored.disk.map = s.disk.map
      /\ stored.disk.blk = [s.disk.blk EXCEPT ![a] = content]
  BY StoreKeepsMarks
<1>2. Marked(stored.disk) = Marked(s.disk)
  BY <1>1 DEF Marked
<1>3. Allocated(s, a, content) = [s |-> MarkUsed(stored, a), at |-> a]
  BY DEF Allocated
<1> HIDE DEF stored
<1>4. /\ MarkUsed(stored, a) \in Calls(C)
      /\ Marked(MarkUsed(stored, a).disk) = Marked(s.disk) \cup {a}
      /\ MarkUsed(stored, a).disk.blk = [s.disk.blk EXCEPT ![a] = content]
  <2>1. /\ MarkUsed(stored, a) \in Calls(C)
        /\ Marked(MarkUsed(stored, a).disk) = Marked(stored.disk) \cup {a}
        /\ MarkUsed(stored, a).disk.blk = stored.disk.blk
    <3>1. stored \in Calls(C)
      BY <1>1
    <3>2. QED  BY <3>1, MarkUsedMarks
  <2>2. QED  BY <2>1, <1>1, <1>2
<1>5. QED  BY <1>3, <1>4

(* While there is a block left for the files, create_file_distributor and  *)
(* create_file_part hand out one that nobody has, mark it and no other,    *)
(* and leave what all others hold.                                         *)
THEOREM AllocatesFreshBlock ==
  ASSUME NEW C, NEW s \in Calls(C), NEW content \in C, FreeBytes(s, info_block_file) # {}
  PROVE  LET new == FromFiles(s, content)
         IN  /\ new.s \in Calls(C)
             /\ new.at \in Addresses \ Marked(s.disk)
             /\ Marked(new.s.disk) = Marked(s.disk) \cup {new.at}
             /\ \A b \in Addresses \ {new.at} : Block(new.s, b) = Block(s, b)
<1> DEFINE a == find_empty_block(s, info_block_file)
           all == Allocated(s, a, content)
           new == FromFiles(s, content)
<1>1. a \in Addresses \ Marked(s.disk)
  BY FilesBlockIsFree
<1>2. s.disk.blk \in [Addresses -> C]
  BY DEF Calls, Disks
<1>3. new = RoomLeft(all)
  BY DEF FromFiles
<1>4. all = [s |-> all.s, at |-> a]
  BY DEF Allocated
<1> HIDE DEF a, new
<1>5. /\ all.s \in Calls(C) /\ all.at = a
      /\ Marked(all.s.disk) = Marked(s.disk) \cup {a}
      /\ all.s.disk.blk = [s.disk.blk EXCEPT ![a] = content]
  BY <1>1, AllocatedMarks
<1> HIDE DEF all
<1>6. new.at = a /\ new.s \in Calls(C) /\ new.s.disk = all.s.disk
  <2>1. CASE a = error_place
    <3>1. new = [all EXCEPT !.s = Fails(all.s, "full")]
      BY <2>1, <1>3, <1>5 DEF RoomLeft
    <3>2. new = [s |-> Fails(all.s, "full"), at |-> a]
      BY <3>1, <1>4
    <3>3. QED  BY <3>2, <1>5, FailsIsCall
  <2>2. CASE a # error_place
    BY <2>2, <1>3, <1>5 DEF RoomLeft
  <2>3. QED  BY <2>1, <2>2
<1>7. \A b \in Addresses \ {a} : all.s.disk.blk[b] = s.disk.blk[b]
  BY <1>2, <1>5
<1>8. QED  BY <1>1, <1>5, <1>6, <1>7 DEF Block, new

(* So does create_metadata, while the region of the metadata lasts and the *)
(* name fits into a block.                                                 *)
THEOREM CreatesFreshMetadata ==
  ASSUME NEW C, NEW s \in Calls(C), NEW name, NEW type, NEW perm,
         Metadata(name, type, perm) \in C,
         FreeBytes(s, info_block_meta) # {}, Length(name) < NameSize,
         find_empty_block(s, info_block_meta) < files_start_address
  PROVE  LET new == create_metadata(s, name, type, perm)
         IN  /\ new.s \in Calls(C)
             /\ new.at \in Addresses \ Marked(s.disk)
             /\ new.at < files_start_address
             /\ Marked(new.s.disk) = Marked(s.disk) \cup {new.at}
             /\ \A b \in Addresses \ {new.at} : Block(new.s, b) = Block(s, b)
<1> DEFINE a == find_empty_block(s, info_block_meta)
           new == create_metadata(s, name, type, perm)
<1>1. a \in Addresses \ Marked(s.disk) /\ a < files_start_address
  <2>1. a \in metadata_start .. files_start_address - 1 /\ a \in Addresses \ Marked(s.disk)
    BY MetadataBlockIsFree
  <2> HIDE DEF a
  <2>2. QED  BY <2>1, Layout
<1>2. new = Allocated(s, a, Metadata(name, type, perm))
  BY <1>1 DEF create_metadata
<1>3. s.disk.blk \in [Addresses -> C]
  BY DEF Calls, Disks
<1> HIDE DEF a, new
<1>4. /\ new.s \in Calls(C) /\ new.at = a
      /\ Marked(new.s.disk) = Marked(s.disk) \cup {a}
      /\ new.s.disk.blk = [s.disk.blk EXCEPT ![a] = Metadata(name, type, perm)]
  BY <1>1, <1>2, AllocatedMarks
<1>5. \A b \in Addresses \ {a} : new.s.disk.blk[b] = s.disk.blk[b]
  BY <1>3, <1>4
<1>6. QED  BY <1>1, <1>4, <1>5 DEF Block, new

-----------------------------------------------------------------------------
(* What blocks hold, and the links in it: the one at -1 of metadata leads  *)
(* to its first distributor, that of a distributor to the next one.        *)
Infos == [kind : {"meta"}, name : Names \cup {"root"}, size : Nat, dist : Addresses,
          perm : {0, 1, 2}, type : {0, 1}]
Dists == [kind : {"dist"}, part : [0 .. FileParts - 1 -> Addresses], next : Addresses]
Parts == [kind : {"data"}, byte : [0 .. BlockLen - 1 -> 0 .. 255]]
Blocks == {Blank} \cup Infos \cup Dists \cup Parts

Indices == -1 .. FileParts - 1
HasLink(b, i) == (b.kind = "meta" /\ i = -1) \/ (b.kind = "dist" /\ i \in Indices)
Points(b, i) == IF i >= 0 THEN b.part[i] ELSE IF b.kind = "meta" THEN b.dist ELSE b.next

(* The bytes of the maps that stand for a block.                           *)
BlockBytes == {ByteOf(a) : a \in Addresses}

(* The link at i of block a may lead to b: from metadata to a distributor, *)
(* and from one to another, that is one of the distributors of directories,*)
(* dirs, if this is; from the slots of one to metadata or to a part of a   *)
(* file.  From one distributor to the next rank grows.                     *)
MayLead(d, dirs, rank, a, i, b) ==
  /\ b \in Marked(d) /\ b # metadata_start
  /\ IF i >= 0 THEN d.blk[b].kind = IF a \in dirs THEN "meta" ELSE "data"
     ELSE IF d.blk[a].kind = "meta" THEN d.blk[b].kind = "dist" /\ (b \in dirs <=> d.blk[a].type = 1)
     ELSE d.blk[b].kind = "dist" /\ (b \in dirs <=> a \in dirs) /\ rank[a] < rank[b]

LinksLead(d, dirs, rank) ==
  \A a \in Marked(d), i \in Indices :
    HasLink(d.blk[a], i) /\ Points(d.blk[a], i) # error_place
    => MayLead(d, dirs, rank, a, i, Points(d.blk[a], i))

LinksDiffer(d) ==
  \A a, b \in Marked(d), i, j \in Indices :
    /\ HasLink(d.blk[a], i) /\ HasLink(d.blk[b], j)
    /\ Points(d.blk[a], i) = Points(d.blk[b], j) /\ Points(d.blk[a], i) # error_place
    => a = b /\ i = j

MapsFit(d) == d.map \subseteq BlockBytes
PlaceIsNoEntry(d) == error_place \in Marked(d) => d.blk[error_place].kind # "meta"
Distribute(d, dirs) ==
  dirs \subseteq {a \in Marked(d) : d.blk[a].kind = "dist"} /\ error_place \notin dirs

Sane(d, dirs, rank) ==
  /\ d \in Disks(Blocks) /\ rank \in [Addresses -> Nat]
  /\ MapsFit(d) /\ PlaceIsNoEntry(d) /\ Distribute(d, dirs)
  /\ LinksLead(d, dirs, rank) /\ LinksDiffer(d)

Unled(d, b) ==
  \A a \in Marked(d), i \in Indices :
    HasLink(d.blk[a], i) /\ Points(d.blk[a], i) # error_place => Points(d.blk[a], i) # b

-----------------------------------------------------------------------------
(* What a sane disk is made of.                                            *)
LEMMA SaneTypes ==
  ASSUME NEW d, NEW dirs, NEW rank, Sane(d, dirs, rank)
  PROVE  /\ d.blk \in [Addresses -> Blocks] /\ d.map \in SUBSET MapBytes
         /\ Marked(d) \subseteq Addresses
         /\ \A a \in Addresses : d.blk[a] \in Blocks
BY DEF Sane, Disks, Marked

(* A block that is not marked can be written.                              *)
LEMMA Scribbled ==
  ASSUME NEW d, NEW dirs, NEW rank, Sane(d, dirs, rank),
         NEW a \in Addresses \ Marked(d), NEW e \in Disks(Blocks),
         e.map = d.map, \A x \in Addresses \ {a} : e.blk[x] = d.blk[x]
  PROVE  Sane(e, dirs, rank)
<1>1. Marked(e) = Marked(d) /\ \A x \in Marked(d) : e.blk[x] = d.blk[x] /\ x \in Addresses
  BY DEF Marked
<1>2. MapsFit(e)
  BY DEF Sane, MapsFit
<1>3. PlaceIsNoEntry(e)
  BY <1>1 DEF Sane, PlaceIsNoEntry
<1>4. Distribute(e, dirs)
  BY <1>1 DEF Sane, Distribute
<1>5. LinksLead(e, dirs, rank)
  <2>1. LinksLead(d, dirs, rank)
    BY DEF Sane
  <2>2. QED  BY <2>1, <1>1 DEF LinksLead, MayLead
<1>6. LinksDiffer(e)
  <2>1. LinksDiffer(d)
    BY DEF Sane
  <2>2. QED  BY <2>1, <1>1 DEF LinksDiffer
<1>7. QED  BY <1>2, <1>3, <1>4, <1>5, <1>6 DEF Sane

(* A block that leads nowhere can be marked.                               *)
LEMMA MarkedSane ==
  ASSUME NEW d, NEW dirs, NEW rank, Sane(d, dirs, rank),
         NEW a \in Addresses \ Marked(d), NEW e \in Disks(Blocks),
         e.blk = d.blk, Marked(e) = Marked(d) \cup {a}, MapsFit(e),
         \A i \in Indices : HasLink(d.blk[a], i) => Points(d.blk[a], i) = error_place,
         d.blk[a].kind = "meta" => a # error_place
  PROVE  Sane(e, dirs, rank) /\ Unled(e, a)
<1>3. PlaceIsNoEntry(e)
  BY DEF Sane, PlaceIsNoEntry
<1>4. Distribute(e, dirs)
  BY DEF Sane, Distribute
<1>5. LinksLead(e, dirs, rank)
  <2>1. LinksLead(d, dirs, rank)
    BY DEF Sane
  <2>2. QED  BY <2>1 DEF LinksLead, MayLead
<1>6. LinksDiffer(e)
  <2>1. LinksDiffer(d)
    BY DEF Sane
  <2>2. QED  BY <2>1 DEF LinksDiffer
<1>8. Unled(e, a)
  <2>1. LinksLead(d, dirs, rank)
    BY DEF Sane
  <2>2. QED  BY <2>1 DEF LinksLead, MayLead, Unled
<1>7. QED  BY <1>3, <1>4, <1>5, <1>6, <1>8 DEF Sane

(* A block that nothing leads to can be freed, with all links it has.      *)
LEMMA FreedSane ==
  ASSUME NEW d, NEW dirs, NEW rank, Sane(d, dirs, rank),
         NEW a \in Marked(d), Unled(d, a), NEW e \in Disks(Blocks), MapsFit(e),
         Marked(e) = Marked(d) \ {a}, \A x \in Addresses \ {a} : e.blk[x] = d.blk[x]
  PROVE  /\ Sane(e, dirs \ {a}, rank)
         /\ \A b \in Addresses : Unled(d, b) => Unled(e, b)
         /\ \A i \in Indices : HasLink(d.blk[a], i) => Unled(e, Points(d.blk[a], i))
<1>1. \A x \in Marked(e) : e.blk[x] = d.blk[x] /\ x \in Addresses /\ x \in Marked(d) /\ x # a
  BY DEF Marked
<1>3. PlaceIsNoEntry(e)
  BY <1>1 DEF Sane, PlaceIsNoEntry
<1>4. Distribute(e, dirs \ {a})
  BY <1>1 DEF Sane, Distribute
<1>5. LinksLead(e, dirs \ {a}, rank)
  <2>1. LinksLead(d, dirs, rank)
    BY DEF Sane
  <2>2. QED  BY <2>1, <1>1 DEF LinksLead, MayLead, Unled
<1>0. LinksDiffer(d)
  BY DEF Sane
<1>6. LinksDiffer(e)
  BY <1>0, <1>1 DEF LinksDiffer
<1>7. \A b \in Addresses : Unled(d, b) => Unled(e, b)
  BY <1>1 DEF Unled
<1>8. \A i \in Indices : HasLink(d.blk[a], i) => Unled(e, Points(d.blk[a], i))
  BY <1>0, <1>1 DEF Unled, LinksDiffer
<1>9. QED  BY <1>3, <1>4, <1>5, <1>6, <1>7, <1>8 DEF Sane

(* A block can be stored with what it held of the same kind, as long as    *)
(* every link is the one it had, or none, or leads to a block that nothing *)
(* leads to: b, at the index j.                                            *)
LEMMA LinkedSane ==
  ASSUME NEW d, NEW dirs, NEW rank, Sane(d, dirs, rank),
         NEW a \in Marked(d), NEW c \in Blocks, c.kind = d.blk[a].kind,
         c.kind = "meta" => c.type = d.blk[a].type,
         NEW e \in Disks(Blocks), e.map = d.map, e.blk = [d.blk EXCEPT ![a] = c],
         NEW j \in Indices, NEW b, Unled(d, b),
         HasLink(c, j) /\ b # error_place => MayLead(d, dirs, rank, a, j, b),
         \A i \in Indices : HasLink(c, i) =>
           \/ Points(c, i) \in {Points(d.blk[a], i), error_place}
           \/ i = j /\ Points(c, i) = b
  PROVE  Sane(e, dirs, rank)
<1>1. /\ Marked(e) = Marked(d) /\ \A x \in Marked(d) \ {a} : e.blk[x] = d.blk[x]
      /\ e.blk[a] = c
  BY SaneTypes DEF Marked
<1>2. /\ \A x \in Marked(d) : e.blk[x].kind = d.blk[x].kind
      /\ \A x \in Marked(d) : e.blk[x].kind = "meta" => e.blk[x].type = d.blk[x].type
      /\ \A i : HasLink(c, i) <=> HasLink(d.blk[a], i)
  BY <1>1 DEF HasLink
<1>3. MapsFit(e)
  BY DEF Sane, MapsFit
<1>4. PlaceIsNoEntry(e)
  BY <1>1, <1>2 DEF Sane, PlaceIsNoEntry
<1>5. Distribute(e, dirs)
  BY <1>1, <1>2 DEF Sane, Distribute
<1>6. LinksLead(e, dirs, rank)
  <2>1. LinksLead(d, dirs, rank)
    BY DEF Sane
  <2>2. ASSUME NEW x \in Marked(e), NEW i \in Indices, HasLink(e.blk[x], i),
               Points(e.blk[x], i) # error_place
        PROVE  MayLead(d, dirs, rank, x, i, Points(e.blk[x], i))
    BY <2>1, <2>2, <1>1, <1>2 DEF LinksLead
  <2>3. ASSUME NEW x \in Marked(e), NEW i \in Indices, NEW y,
               MayLead(d, dirs, rank, x, i, y)
        PROVE  MayLead(e, dirs, rank, x, i, y)
    BY <2>3, <1>1, <1>2 DEF MayLead
  <2>4. QED  BY <2>2, <2>3 DEF LinksLead
<1>7. LinksDiffer(e)
  <2>1. LinksDiffer(d)
    BY DEF Sane
  <2>2. QED  BY <2>1, <1>1, <1>2 DEF LinksDiffer, Unled
<1>8. QED  BY <1>3, <1>4, <1>5, <1>6, <1>7 DEF Sane

(* A distributor that nothing leads to, and that leads to no further one,  *)
(* can be given any rank.                                                  *)
LEMMA RankedSane ==
  ASSUME NEW d, NEW dirs, NEW rank, Sane(d, dirs, rank),
         NEW b \in Marked(d), Unled(d, b), d.blk[b].kind = "dist", d.blk[b].next = error_place,
         NEW n \in Nat
  PROVE  Sane(d, dirs, [rank EXCEPT ![b] = n])
<1>1. LinksLead(d, dirs, rank)
  BY DEF Sane
<1>2. rank \in [Addresses -> Nat] /\ Marked(d) \subseteq Addresses
  BY DEF Sane, Marked
<1> DEFINE order == [rank EXCEPT ![b] = n]
<1>3. \A x \in Addresses \ {b} : order[x] = rank[x]
  BY <1>2
<1> HIDE DEF order
<1>4. ASSUME NEW x \in Marked(d), NEW i \in Indices, HasLink(d.blk[x], i),
             Points(d.blk[x], i) # error_place
      PROVE  MayLead(d, dirs, order, x, i, Points(d.blk[x], i))
  <2> DEFINE y == Points(d.blk[x], i)
  <2>1. MayLead(d, dirs, rank, x, i, y) /\ y # b
    BY <1>1, <1>4 DEF LinksLead, Unled
  <2>2. ~ (i >= 0) /\ d.blk[x].kind # "meta" => x # b
    BY <1>4 DEF Points
  <2> HIDE DEF y
  <2>3. MayLead(d, dirs, order, x, i, y)
    BY <1>2, <1>3, <2>1, <2>2 DEF MayLead
  <2>4. QED  BY <2>3 DEF y
<1>5. LinksLead(d, dirs, order)
  BY <1>4 DEF LinksLead
<1>6. order \in [Addresses -> Nat]
  BY <1>2 DEF order
<1>7. QED  BY <1>5, <1>6 DEF Sane, order

(* A distributor that nothing leads to can become one of a directory.      *)
LEMMA AdoptedSane ==
  ASSUME NEW d, NEW dirs, NEW rank, Sane(d, dirs, rank),
         NEW b \in Marked(d), b # error_place, Unled(d, b), d.blk[b].kind = "dist",
         \A i \in Indices : Points(d.blk[b], i) = error_place
  PROVE  Sane(d, dirs \cup {b}, rank)
<1>1. LinksLead(d, dirs, rank)
  BY DEF Sane
<1>3. LinksLead(d, dirs \cup {b}, rank)
  BY <1>1 DEF LinksLead, MayLead, Unled
<1>4. Distribute(d, dirs \cup {b})
  BY DEF Sane, Distribute
<1>5. QED  BY <1>3, <1>4 DEF Sane

(* Induction over the natural numbers, for a set that is given.            *)
LEMMA NumbersInduct ==
  ASSUME NEW S \in SUBSET Nat, 0 \in S, \A n \in S : n + 1 \in S
  PROVE  S = Nat
<1> SUFFICES ASSUME Nat \ S # {}
             PROVE  FALSE
  OBVIOUS
<1>1. PICK e \in Nat \ S : \A f \in Nat \ S : e <= f
  BY SmallestExists
<1>2. e - 1 \in Nat /\ e - 1 \notin Nat \ S
  BY <1>1
<1>3. QED  BY <1>1, <1>2

(* The place that stands for failure, and that of the root, are blocks.    *)
LEMMA PlaceIsAddress == error_place \in Addresses /\ metadata_start \in Addresses
BY Layout DEF Addresses

(* What the kinds of blocks are.                                           *)
LEMMA KindsOfBlocks ==
  ASSUME NEW b \in Blocks
  PROVE  /\ b.kind = "meta" => b \in Infos
         /\ b.kind = "dist" => b \in Dists
         /\ b.kind = "data" => b \in Parts
         /\ \A i \in Indices : HasLink(b, i) => Points(b, i) \in Addresses
<1>1. /\ b.kind = "meta" => b \in Infos
      /\ b.kind = "dist" => b \in Dists
      /\ b.kind = "data" => b \in Parts
  <2>1. b = Blank => b.kind = "blank"
    BY DEF Blank
  <2>2. b \in Infos => b.kind = "meta"
    BY DEF Infos
  <2>3. b \in Dists => b.kind = "dist"
    BY DEF Dists
  <2>4. b \in Parts => b.kind = "data"
    BY DEF Parts
  <2>5. b = Blank \/ b \in Infos \/ b \in Dists \/ b \in Parts
    BY DEF Blocks
  <2>6. QED  BY <2>1, <2>2, <2>3, <2>4, <2>5
<1>2. ASSUME NEW i \in Indices, HasLink(b, i)
      PROVE  Points(b, i) \in Addresses
  <2>1. i \in Int /\ (i >= 0 => i \in 0 .. FileParts - 1)
    BY FileSystemAssumption DEF Indices
  <2>2. CASE b.kind = "meta"
    BY <2>1, <2>2, <1>1, <1>2 DEF HasLink, Points, Infos
  <2>3. CASE b.kind = "dist"
    BY <2>1, <2>3, <1>1, <1>2 DEF HasLink, Points, Dists
  <2>4. QED  BY <2>2, <2>3, <1>2 DEF HasLink
<1>3. QED  BY <1>1, <1>2

-----------------------------------------------------------------------------
IsMeta(d, a) == a \in Marked(d) /\ d.blk[a].kind = "meta"
IsDist(d, a) == a \in Marked(d) /\ d.blk[a].kind = "dist"

(* The links that Chain follows.                                           *)
Onwards(s, a) == IF a = error_place THEN error_place ELSE Block(s, a).next
Follow(s, d) == CHOOSE link : link = [i \in 0 .. BlockNum |->
  IF i = 0 THEN d
  ELSE LET before == link[i - 1]
       IN  IF before = error_place THEN error_place ELSE Block(s, before).next]

(* There is one such list of links, of the length of the disk.             *)
LEMMA FollowExists ==
  ASSUME NEW s, NEW d
  PROVE  /\ Follow(s, d) = [i \in 0 .. BlockNum |-> IF i = 0 THEN d ELSE Onwards(s, Follow(s, d)[i - 1])]
         /\ \A i \in 0 .. BlockNum : Follow(s, d)[i] = IF i = 0 THEN d ELSE Onwards(s, Follow(s, d)[i - 1])
<1> DEFINE S == {n \in Nat : \E f : f = [i \in 0 .. n |-> IF i = 0 THEN d ELSE Onwards(s, f[i - 1])]}
<1>1. 0 \in S
  <2> DEFINE f == [i \in 0 .. 0 |-> d]
  <2>1. f = [i \in 0 .. 0 |-> IF i = 0 THEN d ELSE Onwards(s, f[i - 1])]
    OBVIOUS
  <2> HIDE DEF f
  <2>2. QED  BY <2>1
<1>2. ASSUME NEW n \in S
      PROVE  n + 1 \in S
  <2>1. PICK f : f = [i \in 0 .. n |-> IF i = 0 THEN d ELSE Onwards(s, f[i - 1])]
    OBVIOUS
  <2> DEFINE g == [i \in 0 .. n + 1 |-> IF i = n + 1 THEN Onwards(s, f[n]) ELSE f[i]]
  <2>2. \A i \in 0 .. n : g[i] = f[i]
    OBVIOUS
  <2>3. ASSUME NEW i \in 0 .. n + 1
        PROVE  g[i] = IF i = 0 THEN d ELSE Onwards(s, g[i - 1])
    <3>1. CASE i = n + 1
      BY <3>1, <2>2
    <3>2. CASE i # n + 1
      <4>1. i \in 0 .. n /\ (i # 0 => i - 1 \in 0 .. n)
        BY <3>2
      <4>2. f[i] = IF i = 0 THEN d ELSE Onwards(s, f[i - 1])
        BY <2>1, <4>1
      <4>3. g[i] = f[i] /\ (i # 0 => g[i - 1] = f[i - 1])
        BY <4>1, <2>2
      <4> HIDE DEF g
      <4>4. QED  BY <4>2, <4>3
    <3>3. QED  BY <3>1, <3>2
  <2>4. g = [i \in 0 .. n + 1 |-> g[i]]
    OBVIOUS
  <2> HIDE DEF g
  <2>5. g = [i \in 0 .. n + 1 |-> IF i = 0 THEN d ELSE Onwards(s, g[i - 1])]
    BY <2>3, <2>4
  <2>6. QED  BY <2>5
<1>3. S = Nat
  <2> HIDE DEF S
  <2>1. S \in SUBSET Nat
    BY DEF S
  <2>2. QED  BY <1>1, <1>2, <2>1, NumbersInduct
<1>4. BlockNum \in Nat
  BY Layout
<1>5. \E f : f = [i \in 0 .. BlockNum |-> IF i = 0 THEN d ELSE Onwards(s, f[i - 1])]
  BY <1>3, <1>4
<1>6. Follow(s, d) = CHOOSE f : f = [i \in 0 .. BlockNum |-> IF i = 0 THEN d ELSE Onwards(s, f[i - 1])]
  BY DEF Follow, Onwards
<1>7. Follow(s, d) = [i \in 0 .. BlockNum |-> IF i = 0 THEN d ELSE Onwards(s, Follow(s, d)[i - 1])]
  BY <1>5, <1>6
<1> DEFINE F == Follow(s, d)
<1>8. F = [i \in 0 .. BlockNum |-> IF i = 0 THEN d ELSE Onwards(s, F[i - 1])]
  BY <1>7
<1> HIDE DEF F
<1>9. \A i \in 0 .. BlockNum : F[i] = IF i = 0 THEN d ELSE Onwards(s, F[i - 1])
  BY <1>8
<1>10. QED  BY <1>8, <1>9 DEF F

(* The distributors behind one of a sane disk are of its kind, and all     *)
(* different: so they end.                                                 *)
LEMMA FollowsDistributors ==
  ASSUME NEW s, NEW dirs, NEW rank, Sane(s.disk, dirs, rank),
         NEW d, d = error_place \/ IsDist(s.disk, d),
         NEW n \in 0 .. BlockNum, Follow(s, d)[n] # error_place
  PROVE  LET link == Follow(s, d)
         IN  /\ \A m \in 0 .. n : /\ link[m] # error_place /\ IsDist(s.disk, link[m])
                                  /\ link[m] \in dirs <=> d \in dirs
             /\ \A m \in 0 .. n - 1 : rank[link[m]] < rank[link[n]]
<1> DEFINE link == Follow(s, d)
           Kept(a) == a # error_place /\ IsDist(s.disk, a) /\ (a \in dirs <=> d \in dirs)
           Right(k) == /\ \A m \in 0 .. k : Kept(link[m])
                       /\ \A m \in 0 .. k - 1 : rank[link[m]] < rank[link[k]]
           S == {k \in Nat : k <= BlockNum /\ link[k] # error_place => Right(k)}
<1>0. BlockNum \in Nat /\ \A i \in 0 .. BlockNum : link[i] = IF i = 0 THEN d ELSE Onwards(s, link[i - 1])
  BY FollowExists, Layout
<1> HIDE DEF link
<1>1. 0 \in S
  BY <1>0
<1>2. ASSUME NEW k \in S
      PROVE  k + 1 \in S
  <2> SUFFICES ASSUME k + 1 <= BlockNum, link[k + 1] # error_place
               PROVE  Right(k + 1)
    OBVIOUS
  <2>1. k \in Nat /\ k <= BlockNum /\ k + 1 \in 0 .. BlockNum /\ (k + 1) - 1 = k
    BY <1>0
  <2>2. link[k + 1] = Onwards(s, link[k])
    BY <2>1, <1>0
  <2>3. link[k] # error_place /\ link[k + 1] = s.disk.blk[link[k]].next
    BY <2>2 DEF Onwards, Block
  <2>4. Right(k)
    BY <2>1, <2>3
  <2>5. Kept(link[k])
    BY <2>1, <2>4
  <2>6. MayLead(s.disk, dirs, rank, link[k], -1, link[k + 1])
    <3>1. -1 \in Indices /\ ~ (-1 >= 0)
      BY FileSystemAssumption DEF Indices
    <3>2. HasLink(s.disk.blk[link[k]], -1) /\ Points(s.disk.blk[link[k]], -1) = link[k + 1]
      BY <2>3, <2>5, <3>1 DEF IsDist, HasLink, Points
    <3>3. QED  BY <2>5, <3>1, <3>2 DEF IsDist, LinksLead, Sane
  <2>7. Kept(link[k + 1]) /\ rank[link[k]] < rank[link[k + 1]]
    BY <2>6, <2>5 DEF MayLead, IsDist
  <2>8. \A m \in 0 .. k + 1 : Kept(link[m])
    <3> HIDE DEF Kept
    <3>1. QED  BY <2>1, <2>4, <2>7
  <2>9. ASSUME NEW m \in 0 .. (k + 1) - 1
        PROVE  rank[link[m]] < rank[link[k + 1]]
    <3>1. m \in 0 .. k + 1 /\ (m = k \/ m \in 0 .. k - 1) /\ k \in 0 .. k + 1 /\ k + 1 \in 0 .. k + 1
      BY <2>1
    <3>2. m # k => rank[link[m]] < rank[link[k]]
      BY <2>4, <3>1
    <3>3. \A x \in 0 .. k + 1 : link[x] \in Addresses
      BY <2>8 DEF IsDist, Marked
    <3>4. \A x \in 0 .. k + 1 : rank[link[x]] \in Nat
      BY <3>3 DEF Sane
    <3> HIDE DEF Right, S
    <3>5. QED  BY <2>7, <3>1, <3>2, <3>4
  <2>10. QED  BY <2>8, <2>9
<1>3. S = Nat
  <2> HIDE DEF S
  <2>1. S \in SUBSET Nat
    BY DEF S
  <2>2. QED  BY <1>1, <1>2, <2>1, NumbersInduct
<1>4. n \in S /\ n <= BlockNum
  BY <1>3, <1>0
<1>5. Right(n)
  BY <1>4 DEF link
<1>6. QED  BY <1>5 DEF link

(* So following the links comes to an end.                                 *)
LEMMA LinksEnd ==
  ASSUME NEW s, NEW dirs, NEW rank, Sane(s.disk, dirs, rank),
         NEW d, d = error_place \/ IsDist(s.disk, d)
  PROVE  \E n \in 0 .. BlockNum : /\ Follow(s, d)[n] = error_place
                                  /\ \A i \in 0 .. n - 1 : Follow(s, d)[i] # error_place
<1> DEFINE link == Follow(s, d)
           Ends == {n \in 0 .. BlockNum : link[n] = error_place}
<1>0. BlockNum \in Nat
  BY Layout
<1>1. ASSUME Ends = {}
      PROVE  FALSE
  <2>1. \A n \in 0 .. BlockNum : link[n] # error_place
    BY <1>1
  <2>2. ASSUME NEW n \in 0 .. BlockNum
        PROVE  link[n] \in Addresses /\ \A m \in 0 .. n - 1 : rank[link[m]] < rank[link[n]]
    <3>1. n \in 0 .. n
      BY <1>0
    <3>2. QED  BY <2>1, <3>1, FollowsDistributors DEF IsDist, Marked
  <2> HIDE DEF link
  <2>3. \A m, n \in 0 .. BlockNum : link[m] = link[n] => m = n
    <3>1. \A n \in 0 .. BlockNum : rank[link[n]] \in Nat
      BY <2>2 DEF Sane
    <3>2. SUFFICES ASSUME NEW m \in 0 .. BlockNum, NEW n \in 0 .. BlockNum, m < n
                   PROVE  link[m] # link[n]
      BY <1>0
    <3>3. m \in 0 .. n - 1
      BY <3>2, <1>0
    <3>4. QED  BY <3>1, <2>2, <3>3
  <2> DEFINE S == 0 .. BlockNum
             T == 0 .. BlockNum - 1
             f == [n \in S |-> link[n]]
  <2>4. Addresses \subseteq T
    BY Layout DEF Addresses
  <2>5. IsFiniteSet(S) /\ Cardinality(S) = BlockNum + 1
    <3>1. 0 \in Int /\ BlockNum \in Int /\ 0 <= BlockNum
      BY <1>0
    <3>2. QED  BY <3>1, FS_Interval
  <2>6. IsFiniteSet(T) /\ Cardinality(T) = BlockNum
    <3>1. 0 \in Int /\ BlockNum - 1 \in Int /\ ~ (0 > BlockNum - 1)
      BY Layout
    <3>2. QED  BY <3>1, <1>0, FS_Interval
  <2>7. f \in [S -> T]
    BY <2>2, <2>4
  <2>8. Cardinality(T) < Cardinality(S)
    BY <2>5, <2>6, <1>0
  <2>9. \E x, y \in S : x # y /\ f[x] = f[y]
    <3> HIDE DEF S, T, f
    <3>1. QED  BY <2>5, <2>6, <2>7, <2>8, FS_PigeonHole
  <2>10. QED  BY <2>9, <2>3
<1>2. Ends \in SUBSET Nat /\ Ends # {}
  BY <1>1, <1>0
<1>3. PICK n \in Ends : \A m \in Ends : n <= m
  <2> HIDE DEF Ends
  <2>1. QED  BY <1>2, SmallestExists
<1>4. \A i \in 0 .. n - 1 : link[i] # error_place
  BY <1>3, <1>0
<1>5. QED  BY <1>3, <1>4

(* Each distributor of a list but the last leads to the one behind it.     *)
Linkwise(s, chain) == \A k \in 1 .. Len(chain) - 1 : chain[k + 1] = Block(s, chain[k]).next

(* Chain is a list of them, from d to one that leads to none.              *)
LEMMA ChainOfDistributors ==
  ASSUME NEW s, NEW dirs, NEW rank, Sane(s.disk, dirs, rank),
         NEW d, d = error_place \/ IsDist(s.disk, d)
  PROVE  LET chain == Chain(s, d)
         IN  /\ chain \in Seq(Addresses)
             /\ \A k \in 1 .. Len(chain) : /\ chain[k] # error_place /\ IsDist(s.disk, chain[k])
                                           /\ chain[k] \in dirs <=> d \in dirs
             /\ d # error_place => Len(chain) > 0 /\ Block(s, chain[Len(chain)]).next = error_place
             /\ d # error_place => chain[1] = d
             /\ d = error_place => Len(chain) = 0
             /\ Linkwise(s, chain)
<1> DEFINE link == Follow(s, d)
           Ends(n) == link[n] = error_place /\ \A i \in 0 .. n - 1 : link[i] # error_place
           n == CHOOSE m \in 0 .. BlockNum : Ends(m)
<1>1. BlockNum \in Nat /\ \A i \in 0 .. BlockNum : link[i] = IF i = 0 THEN d ELSE Onwards(s, link[i - 1])
  BY FollowExists, Layout
<1>2. Chain(s, d) = [k \in 1 .. n |-> link[k - 1]]
  BY DEF Chain, Follow
<1>3. \E m \in 0 .. BlockNum : Ends(m)
  BY LinksEnd
<1>4. n \in 0 .. BlockNum /\ Ends(n)
  <2> HIDE DEF Ends
  <2>1. QED  BY <1>3
<1> HIDE DEF n
<1>5. ASSUME NEW m \in 0 .. n - 1
      PROVE  /\ link[m] # error_place /\ IsDist(s.disk, link[m])
             /\ link[m] \in dirs <=> d \in dirs
  <2>1. m \in 0 .. BlockNum /\ m \in 0 .. m /\ link[m] # error_place
    BY <1>4, <1>1
  <2>2. QED  BY <2>1, FollowsDistributors
<1> HIDE DEF link
<1>6. Len(Chain(s, d)) = n /\ Chain(s, d) \in Seq(Addresses)
  <2>1. \A k \in 1 .. n : link[k - 1] \in Addresses
    <3>1. \A k \in 1 .. n : k - 1 \in 0 .. n - 1
      BY <1>4, <1>1
    <3>2. QED  BY <3>1, <1>5 DEF IsDist, Marked
  <2>2. Chain(s, d) \in [1 .. n -> Addresses] /\ n \in Nat
    BY <2>1, <1>2, <1>4, <1>1
  <2> HIDE DEF Ends
  <2>3. QED  BY <2>2
<1>7. \A k \in 1 .. n : Chain(s, d)[k] = link[k - 1] /\ k - 1 \in 0 .. n - 1
  BY <1>2, <1>4, <1>1
<1>8. d # error_place => n > 0 /\ Chain(s, d)[1] = d /\ Block(s, Chain(s, d)[n]).next = error_place
  <2>1. link[0] = d
    BY <1>1
  <2>2. d # error_place => n > 0 /\ n - 1 \in 0 .. n - 1 /\ 1 \in 1 .. n /\ n \in 1 .. n
    BY <2>1, <1>4, <1>1
  <2>3. d # error_place => link[n] = Onwards(s, link[n - 1]) /\ link[n - 1] # error_place
    BY <2>2, <1>4, <1>1, <1>5
  <2>4. QED  BY <2>1, <2>2, <2>3, <1>4, <1>7 DEF Onwards
<1>9. d = error_place => n = 0
  <2>1. link[0] = d
    BY <1>1
  <2>2. QED  BY <2>1, <1>4, <1>1
<1>10. ASSUME NEW k \in 1 .. n - 1
       PROVE  Chain(s, d)[k + 1] = Block(s, Chain(s, d)[k]).next
  <2>1. /\ k \in 1 .. n /\ k + 1 \in 1 .. n /\ (k + 1) - 1 = k /\ k \in 0 .. BlockNum /\ k # 0
        /\ k - 1 \in 0 .. n - 1
    BY <1>4, <1>1
  <2>2. Chain(s, d)[k + 1] = link[k] /\ Chain(s, d)[k] = link[k - 1]
    BY <2>1, <1>7
  <2>3. link[k] = Onwards(s, link[k - 1]) /\ link[k - 1] # error_place
    BY <2>1, <1>1, <1>5
  <2>4. QED  BY <2>2, <2>3 DEF Onwards
<1>11. Linkwise(s, Chain(s, d))
  BY <1>6, <1>10 DEF Linkwise
<1>12. QED  BY <1>5, <1>6, <1>7, <1>8, <1>9, <1>11

(* The smallest member of a set of natural numbers.                        *)
LEMMA MinIsIn ==
  ASSUME NEW S \in SUBSET Nat, S # {}
  PROVE  Min(S) \in S
<1>1. \E e \in S : \A f \in S : e <= f
  BY SmallestExists
<1>2. QED  BY <1>1 DEF Min

(* Of L groups of F, the group and the place in it.                        *)
LEMMA DivideBounded ==
  ASSUME NEW L \in Nat, NEW F \in Nat \ {0}, NEW x \in Nat, x < L * F
  PROVE  x \div F \in 0 .. L - 1 /\ x % F \in 0 .. F - 1
<1>1. x \div F \in Nat /\ x % F \in 0 .. F - 1 /\ x = F * (x \div F) + (x % F)
  OBVIOUS
<1> DEFINE q == x \div F
<1>2. q < L
  <2>0. q \in Nat /\ F * q <= x /\ F * q \in Nat /\ L * F \in Nat
    BY <1>1
  <2> HIDE DEF q
  <2>1. SUFFICES ASSUME q - L \in Nat
                 PROVE  FALSE
    BY <2>0
  <2>2. F * (q - L) \in Nat
    BY <2>1
  <2>3. F * (q - L) = F * q - L * F
    BY <2>0
  <2>4. QED  BY <2>0, <2>2, <2>3
<1>3. QED  BY <1>1, <1>2

(* The slots of a list of distributors.                                    *)
LEMMA SlotsOfChain ==
  ASSUME NEW chain \in Seq(Addresses)
  PROVE  /\ Len(Slots(chain)) \in Nat /\ DOMAIN Slots(chain) = 1 .. Len(Slots(chain))
         /\ \A k \in DOMAIN Slots(chain) :
              \E i \in 1 .. Len(chain), j \in 0 .. FileParts - 1 : Slots(chain)[k] = <<chain[i], j>>
<1>1. Len(chain) \in Nat /\ FileParts \in Nat \ {0} /\ Len(chain) * FileParts \in Nat
  BY FileSystemAssumption
<1> DEFINE n == Len(chain) * FileParts
           slot(k) == <<chain[((k - 1) \div FileParts) + 1], (k - 1) % FileParts>>
<1>2. Slots(chain) = [k \in 1 .. n |-> slot(k)]
  BY DEF Slots
<1>3. ASSUME NEW k \in 1 .. n
      PROVE  \E i \in 1 .. Len(chain), j \in 0 .. FileParts - 1 : slot(k) = <<chain[i], j>>
  <2>1. k - 1 \in Nat /\ k - 1 < Len(chain) * FileParts
    BY <1>1
  <2>2. (k - 1) \div FileParts \in 0 .. Len(chain) - 1 /\ (k - 1) % FileParts \in 0 .. FileParts - 1
    BY <2>1, <1>1, DivideBounded
  <2>3. ((k - 1) \div FileParts) + 1 \in 1 .. Len(chain)
    BY <2>2, <1>1
  <2>4. QED  BY <2>2, <2>3
<1> HIDE DEF slot
<1>4. Len(Slots(chain)) = n /\ DOMAIN Slots(chain) = 1 .. n /\ n \in Nat
  BY <1>1, <1>2
<1>5. ASSUME NEW k \in DOMAIN Slots(chain)
      PROVE  \E i \in 1 .. Len(chain), j \in 0 .. FileParts - 1 : Slots(chain)[k] = <<chain[i], j>>
  <2>1. k \in 1 .. n
    BY <1>4
  <2>2. Slots(chain)[k] = slot(k)
    BY <2>1, <1>2
  <2>3. QED  BY <2>1, <2>2, <1>3
<1>6. QED  BY <1>4, <1>5

(* What a slot of a sane disk leads to.                                    *)
SlotOf(d, slot) == \E c, j \in Int :
  slot = <<c, j>> /\ IsDist(d, c) /\ c # error_place /\ j \in 0 .. FileParts - 1

(* What the link in a slot of a distributor may lead to.                   *)
LEMMA SlotLeads ==
  ASSUME NEW s, NEW dirs, NEW rank, Sane(s.disk, dirs, rank),
         NEW slot, SlotOf(s.disk, slot)
  PROVE  /\ In(s, slot) \in Addresses
         /\ In(s, slot) # error_place => MayLead(s.disk, dirs, rank, slot[1], slot[2], In(s, slot))
<1>1. PICK c \in Int, j \in Int :
        slot = <<c, j>> /\ IsDist(s.disk, c) /\ c # error_place /\ j \in 0 .. FileParts - 1
  BY DEF SlotOf
<1>2. slot[1] = c /\ slot[2] = j /\ j \in Indices /\ j >= 0 /\ c \in Addresses
  BY <1>1 DEF Indices, IsDist, Marked
<1>3. s.disk.blk[c] \in Blocks
  BY <1>2, SaneTypes
<1>4. s.disk.blk[c].kind = "dist" /\ c \in Marked(s.disk)
  BY <1>1 DEF IsDist
<1>5. In(s, slot) = Points(s.disk.blk[c], j) /\ HasLink(s.disk.blk[c], j)
  BY <1>2, <1>4 DEF In, Block, Points, HasLink
<1>6. In(s, slot) \in Addresses
  BY <1>2, <1>3, <1>5, KindsOfBlocks
<1>7. QED  BY <1>2, <1>4, <1>5, <1>6 DEF Sane, LinksLead

(* The slots behind a distributor.                                         *)
LEMMA SlotsBehind ==
  ASSUME NEW s, NEW dirs, NEW rank, Sane(s.disk, dirs, rank),
         NEW d, d = error_place \/ IsDist(s.disk, d)
  PROVE  LET slots == Slots(Chain(s, d))
         IN  /\ Len(slots) \in Nat /\ DOMAIN slots = 1 .. Len(slots)
             /\ \A k \in DOMAIN slots : /\ SlotOf(s.disk, slots[k])
                                        /\ slots[k][1] \in dirs <=> d \in dirs
<1> DEFINE chain == Chain(s, d)
<1>1. /\ chain \in Seq(Addresses)
      /\ \A k \in 1 .. Len(chain) : /\ chain[k] # error_place /\ IsDist(s.disk, chain[k])
                                    /\ chain[k] \in dirs <=> d \in dirs
  BY ChainOfDistributors
<1> HIDE DEF chain
<1>2. ASSUME NEW k \in DOMAIN Slots(chain)
      PROVE  SlotOf(s.disk, Slots(chain)[k]) /\ (Slots(chain)[k][1] \in dirs <=> d \in dirs)
  <2>1. PICK i \in 1 .. Len(chain), j \in 0 .. FileParts - 1 : Slots(chain)[k] = <<chain[i], j>>
    BY <1>1, SlotsOfChain
  <2>2. chain[i] # error_place /\ IsDist(s.disk, chain[i]) /\ (chain[i] \in dirs <=> d \in dirs)
    BY <1>1
  <2>3. chain[i] \in Int /\ j \in Int
    BY <2>2, Layout DEF IsDist, Marked, Addresses
  <2>4. Slots(chain)[k][1] = chain[i]
    BY <2>1
  <2>5. QED  BY <2>1, <2>2, <2>3, <2>4 DEF SlotOf
<1>3. QED  BY <1>1, <1>2, SlotsOfChain DEF chain

(* The entries of a directory are metadata; what blocks of a file hold is  *)
(* found in parts.                                                         *)
LEMMA EntryIsMetadata ==
  ASSUME NEW s, NEW dirs, NEW rank, Sane(s.disk, dirs, rank),
         NEW slot, SlotOf(s.disk, slot), slot[1] \in dirs, In(s, slot) # error_place
  PROVE  IsMeta(s.disk, In(s, slot))
<1>1. MayLead(s.disk, dirs, rank, slot[1], slot[2], In(s, slot))
  BY SlotLeads
<1>2. slot[2] \in 0 .. FileParts - 1
  BY DEF SlotOf
<1>3. slot[2] >= 0
  BY <1>2
<1>4. QED  BY <1>1, <1>3 DEF MayLead, IsMeta

(* The distributor of a file or directory, and its kind.                   *)
LEMMA DistOfMetadata ==
  ASSUME NEW s, NEW dirs, NEW rank, Sane(s.disk, dirs, rank), NEW a, IsMeta(s.disk, a)
  PROVE  /\ a \in Addresses /\ a # error_place /\ Block(s, a) \in Infos
         /\ Block(s, a).dist = error_place \/ IsDist(s.disk, Block(s, a).dist)
         /\ Block(s, a).dist \in dirs <=> Block(s, a).type = 1 /\ Block(s, a).dist # error_place
<1>1. a \in Addresses /\ a # error_place
  BY DEF IsMeta, Marked, Sane, PlaceIsNoEntry
<1>2. Block(s, a) \in Infos /\ Block(s, a) = s.disk.blk[a]
  BY <1>1, SaneTypes, KindsOfBlocks DEF IsMeta, Block
<1>3. -1 \in Indices /\ ~ (-1 >= 0) /\ HasLink(s.disk.blk[a], -1)
      /\ Points(s.disk.blk[a], -1) = Block(s, a).dist
  BY <1>2, FileSystemAssumption DEF IsMeta, HasLink, Points, Indices
<1>4. Block(s, a).dist # error_place => MayLead(s.disk, dirs, rank, a, -1, Block(s, a).dist)
  BY <1>3 DEF IsMeta, Sane, LinksLead
<1>5. error_place \notin dirs
  BY DEF Sane, Distribute
<1>6. QED  BY <1>1, <1>2, <1>3, <1>4, <1>5 DEF MayLead, IsMeta, IsDist

-----------------------------------------------------------------------------
(* find_file, a token at a time.                                           *)
LEMMA SearchFinds ==
  ASSUME NEW s, NEW dirs, NEW rank, Sane(s.disk, dirs, rank),
         NEW d, d = error_place \/ IsDist(s.disk, d), NEW name, Search(s, d, name) # 0
  PROVE  LET slots == Slots(Chain(s, d))
             i == Search(s, d, name)
         IN  /\ i \in DOMAIN slots /\ SlotOf(s.disk, slots[i]) /\ In(s, slots[i]) # error_place
             /\ slots[i][1] \in dirs <=> d \in dirs
<1> DEFINE slots == Slots(Chain(s, d))
           I == {i \in 1 .. Len(slots) : In(s, slots[i]) # error_place /\ Block(s, In(s, slots[i])).name = name}
<1>1. /\ Len(slots) \in Nat /\ DOMAIN slots = 1 .. Len(slots)
      /\ \A k \in DOMAIN slots : SlotOf(s.disk, slots[k]) /\ (slots[k][1] \in dirs <=> d \in dirs)
  BY SlotsBehind
<1>2. Search(s, d, name) = IF I # {} THEN Min(I) ELSE 0
  BY DEF Search, SelectInSeq
<1> HIDE DEF slots
<1>3. I \in SUBSET Nat
  BY <1>1
<1>4. Search(s, d, name) \in I
  <2> HIDE DEF I
  <2>1. QED  BY <1>2, <1>3, MinIsIn
<1>5. QED  BY <1>1, <1>4 DEF slots

Within(d, dirs, at) == /\ at = [addr |-> at.addr, dist |-> at.dist]
                       /\ at.addr = error_place \/ IsMeta(d, at.addr)
                       /\ at.dist = error_place \/ at.dist \in dirs

(* One token of a path is looked for in distributors, and leads to         *)
(* metadata.                                                               *)
LEMMA DescendsWithin ==
  ASSUME NEW s, NEW dirs, NEW rank, Sane(s.disk, dirs, rank),
         NEW at, Within(s.disk, dirs, at), NEW name
  PROVE  Within(s.disk, dirs, Descend(s, at, name))
<1> DEFINE i == Search(s, at.dist, name)
           slot == Slots(Chain(s, at.dist))[i]
<1>1. CASE at.addr = error_place \/ i = 0
  <2>1. Descend(s, at, name) = [at EXCEPT !.addr = error_place]
    BY <1>1 DEF Descend
  <2>2. Descend(s, at, name) = [addr |-> error_place, dist |-> at.dist]
    BY <2>1 DEF Within
  <2>3. QED  BY <2>2 DEF Within
<1>2. CASE ~ (at.addr = error_place \/ i = 0)
  <2>1. Descend(s, at, name) = Found(s, slot)
    BY <1>2 DEF Descend
  <2>2. at.dist = error_place \/ IsDist(s.disk, at.dist)
    BY DEF Within, Sane, Distribute, IsDist
  <2>3. SlotOf(s.disk, slot) /\ In(s, slot) # error_place /\ (slot[1] \in dirs <=> at.dist \in dirs)
    BY <1>2, <2>2, SearchFinds
  <2>4. at.dist # error_place
    <3>1. ASSUME at.dist = error_place
          PROVE  FALSE
      <4>1. Slots(Chain(s, at.dist))[i] = slot /\ i \in DOMAIN Slots(Chain(s, at.dist))
        BY <1>2, <2>2, SearchFinds
      <4>2. Len(Chain(s, at.dist)) = 0 /\ Chain(s, at.dist) \in Seq(Addresses)
        BY <2>2, <3>1, ChainOfDistributors
      <4> HIDE DEF i
      <4>3. QED  BY <4>1, <4>2, SlotsOfChain
    <3>2. QED  BY <3>1
  <2>5. slot[1] \in dirs
    BY <2>3, <2>4 DEF Within
  <2> HIDE DEF slot, i
  <2>6. IsMeta(s.disk, In(s, slot))
    BY <2>3, <2>5, EntryIsMetadata
  <2>7. Block(s, In(s, slot)).type = 1 => Block(s, In(s, slot)).dist \in dirs \cup {error_place}
    BY <2>6, DistOfMetadata
  <2>8. QED  BY <2>1, <2>5, <2>6, <2>7 DEF Found, Within
<1>3. QED  BY <1>1, <1>2

Rooted(d) == IsMeta(d, metadata_start) /\ d.blk[metadata_start].type = 1

(* find_file finds the metadata of something, or error_place.              *)
LEMMA FindsMetadata ==
  ASSUME NEW s, NEW dirs, NEW rank, Sane(s.disk, dirs, rank), Rooted(s.disk), NEW q \in Seq(Names)
  PROVE  find_file(s, q) = error_place \/ IsMeta(s.disk, find_file(s, q))
<1> DEFINE first == [addr |-> metadata_start, dist |-> Block(s, metadata_start).dist]
           Walk(at, n) == at = [i \in 0 .. n |-> IF i = 0 THEN first ELSE Descend(s, at[i - 1], q[i])]
           S == {n \in Nat : \E at : Walk(at, n)}
<1>1. 0 \in S
  <2> DEFINE f == [i \in 0 .. 0 |-> first]
  <2>1. Walk(f, 0)
    OBVIOUS
  <2> HIDE DEF f, Walk
  <2>2. QED  BY <2>1
<1>2. ASSUME NEW n \in S
      PROVE  n + 1 \in S
  <2> HIDE DEF first
  <2>1. PICK f : f = [i \in 0 .. n |-> IF i = 0 THEN first ELSE Descend(s, f[i - 1], q[i])]
    OBVIOUS
  <2> DEFINE g == [i \in 0 .. n + 1 |-> IF i = n + 1 THEN Descend(s, f[n], q[n + 1]) ELSE f[i]]
  <2>2. \A i \in 0 .. n : g[i] = f[i]
    OBVIOUS
  <2>3. ASSUME NEW i \in 0 .. n + 1
        PROVE  g[i] = IF i = 0 THEN first ELSE Descend(s, g[i - 1], q[i])
    <3>1. CASE i = n + 1
      BY <3>1, <2>2
    <3>2. CASE i # n + 1
      <4>1. i \in 0 .. n /\ (i # 0 => i - 1 \in 0 .. n)
        BY <3>2
      <4>2. f[i] = IF i = 0 THEN first ELSE Descend(s, f[i - 1], q[i])
        BY <2>1, <4>1
      <4>3. g[i] = f[i] /\ (i # 0 => g[i - 1] = f[i - 1])
        BY <4>1, <2>2
      <4> HIDE DEF g
      <4>4. QED  BY <4>2, <4>3
    <3>3. QED  BY <3>1, <3>2
  <2>4. g = [i \in 0 .. n + 1 |-> g[i]]
    OBVIOUS
  <2> HIDE DEF g
  <2>5. Walk(g, n + 1)
    BY <2>3, <2>4
  <2> HIDE DEF Walk
  <2>6. QED  BY <2>5
<1>3. S = Nat
  <2> HIDE DEF S
  <2>1. S \in SUBSET Nat
    BY DEF S
  <2>2. QED  BY <1>1, <1>2, <2>1, NumbersInduct
<1> DEFINE at == CHOOSE f : Walk(f, Len(q))
<1>4. Walk(at, Len(q)) /\ Len(q) \in Nat
  <2>1. \E f : Walk(f, Len(q))
    BY <1>3
  <2> HIDE DEF Walk
  <2>2. QED  BY <2>1
<1>5. find_file(s, q) = at[Len(q)].addr
  BY DEF find_file
<1> HIDE DEF at
<1>6. /\ at[0] = first
      /\ \A i \in 0 .. Len(q) - 1 : at[i + 1] = Descend(s, at[i], q[i + 1])
  BY <1>4
<1> DEFINE T == {n \in Nat : n <= Len(q) => Within(s.disk, dirs, at[n])}
<1>7. 0 \in T
  <2>1. Within(s.disk, dirs, first)
    <3>1. IsMeta(s.disk, metadata_start) /\ Block(s, metadata_start).type = 1
      BY DEF Rooted, Block
    <3>2. Block(s, metadata_start).dist \in dirs \cup {error_place}
      BY <3>1, DistOfMetadata
    <3>3. QED  BY <3>1, <3>2 DEF Within
  <2>2. QED  BY <2>1, <1>6
<1>8. ASSUME NEW n \in T
      PROVE  n + 1 \in T
  <2> SUFFICES ASSUME n + 1 <= Len(q)
               PROVE  Within(s.disk, dirs, at[n + 1])
    OBVIOUS
  <2>1. n \in 0 .. Len(q) - 1 /\ Within(s.disk, dirs, at[n])
    BY <1>4
  <2>2. QED  BY <2>1, <1>6, DescendsWithin
<1>9. T = Nat
  <2> HIDE DEF T
  <2>1. T \in SUBSET Nat
    BY DEF T
  <2>2. QED  BY <1>7, <1>8, <2>1, NumbersInduct
<1>10. Within(s.disk, dirs, at[Len(q)])
  <2>1. Len(q) \in T /\ Len(q) <= Len(q)
    BY ONLY <1>9, q \in Seq(Names)
  <2>2. QED  BY ONLY <2>1
<1>11. QED  BY <1>5, <1>10 DEF Within

-----------------------------------------------------------------------------
(* Entries, and what the links of a directory or file lead to.             *)
LEMMA EntriesLead ==
  ASSUME NEW d, NEW dirs, NEW rank, Sane(d, dirs, rank), NEW a, IsMeta(d, a)
  PROVE  /\ Entries(d, a) \subseteq Marked(d)
         /\ d.blk[a].type = 1 => \A e \in Entries(d, a) : IsMeta(d, e)
<1> DEFINE s == Before(d)
           slots == Slots(Chain(s, Block(s, a).dist))
<1>1. s.disk = d
  BY DEF Before
<1>2. Entries(d, a) = {In(s, slots[i]) : i \in DOMAIN slots} \ {error_place}
  BY DEF Entries
<1> HIDE DEF s
<1>3. /\ Block(s, a).dist = error_place \/ IsDist(s.disk, Block(s, a).dist)
      /\ Block(s, a).type = 1 => Block(s, a).dist \in dirs \cup {error_place}
  BY <1>1, DistOfMetadata
<1>4. \A k \in DOMAIN slots : SlotOf(s.disk, slots[k]) /\ (slots[k][1] \in dirs <=> Block(s, a).dist \in dirs)
  BY <1>1, <1>3, SlotsBehind
<1>5. Block(s, a).dist = error_place => DOMAIN slots = {}
  <2>1. ASSUME Block(s, a).dist = error_place, NEW k \in DOMAIN slots
        PROVE  FALSE
    <3>1. Len(Chain(s, Block(s, a).dist)) = 0 /\ Chain(s, Block(s, a).dist) \in Seq(Addresses)
      BY <1>1, <1>3, <2>1, ChainOfDistributors
    <3>2. PICK i \in 1 .. Len(Chain(s, Block(s, a).dist)) : TRUE
      BY <2>1, <3>1, SlotsOfChain
    <3>3. QED  BY <3>1, <3>2
  <2> HIDE DEF slots
  <2>2. QED  BY <2>1
<1> HIDE DEF slots
<1>6. ASSUME NEW e \in Entries(d, a)
      PROVE  e \in Marked(d) /\ (d.blk[a].type = 1 => IsMeta(d, e))
  <2>1. PICK k \in DOMAIN slots : e = In(s, slots[k]) /\ e # error_place
    BY <1>2
  <2>2. MayLead(d, dirs, rank, slots[k][1], slots[k][2], e)
    BY <2>1, <1>1, <1>4, SlotLeads
  <2>3. d.blk[a].type = 1 => IsMeta(d, e)
    <3>1. Block(s, a) = d.blk[a]
      BY <1>1 DEF Block
    <3>2. d.blk[a].type = 1 => slots[k][1] \in dirs
      BY <3>1, <1>3, <1>4, <1>5
    <3>3. QED  BY <3>2, <2>1, <1>1, <1>4, EntryIsMetadata
  <2>4. QED  BY <2>2, <2>3 DEF MayLead
<1>7. QED  BY <1>6

(* The members of the list that Chain makes.                               *)
LEMMA ChainMembers ==
  ASSUME NEW s, NEW dirs, NEW rank, Sane(s.disk, dirs, rank),
         NEW d, d = error_place \/ IsDist(s.disk, d)
  PROVE  \A c \in ToSet(Chain(s, d)) : IsDist(s.disk, c) /\ c # error_place
<1> DEFINE chain == Chain(s, d)
<1>1. /\ chain \in Seq(Addresses)
      /\ \A k \in 1 .. Len(chain) : /\ chain[k] # error_place /\ IsDist(s.disk, chain[k])
                                    /\ chain[k] \in dirs <=> d \in dirs
  BY ChainOfDistributors
<1> HIDE DEF chain
<1>2. QED  BY <1>1 DEF ToSet, chain

(* The distributors of a file or directory.                                *)
LEMMA DistributorsAre ==
  ASSUME NEW d, NEW dirs, NEW rank, Sane(d, dirs, rank), NEW a, IsMeta(d, a)
  PROVE  \A c \in Distributors(d, a) : IsDist(d, c) /\ c # error_place
<1>1. Before(d).disk = d
  BY DEF Before
<1>2. Block(Before(d), a).dist = error_place \/ IsDist(d, Block(Before(d), a).dist)
  BY <1>1, DistOfMetadata
<1>3. QED  BY <1>1, <1>2, ChainMembers DEF Distributors

(* An entry that is found by name is metadata.                             *)
LEMMA EntryNamedIs ==
  ASSUME NEW d, NEW dirs, NEW rank, Sane(d, dirs, rank), NEW a, a = error_place \/ IsMeta(d, a), NEW name
  PROVE  EntryNamed(d, a, name) = error_place \/ IsMeta(d, EntryNamed(d, a, name))
<1> DEFINE found == {e \in Entries(d, a) : Block(Before(d), e).name = name}
<1>1. CASE a = error_place \/ d.blk[a].type # 1
  BY <1>1 DEF EntryNamed, Block, Before
<1>2. CASE ~ (a = error_place \/ d.blk[a].type # 1)
  <2>1. EntryNamed(d, a, name) = IF found = {} THEN error_place ELSE CHOOSE e \in found : TRUE
    BY <1>2 DEF EntryNamed, Block, Before
  <2>2. \A e \in found : IsMeta(d, e)
    BY <1>2, EntriesLead
  <2> HIDE DEF found
  <2>3. QED  BY <2>1, <2>2
<1>3. QED  BY <1>1, <1>2

(* The address of a path is that of metadata, or error_place.              *)
LEMMA PathLeads ==
  ASSUME NEW d, NEW dirs, NEW rank, Sane(d, dirs, rank), Rooted(d), NEW q \in Paths
  PROVE  PathAddress(d, q) = error_place \/ IsMeta(d, PathAddress(d, q))
<1> DEFINE first == metadata_start
           Ok(a) == a = error_place \/ IsMeta(d, a)
<1>1. Len(q) \in Nat
  BY FileCallsAssumption DEF Paths
<1> DEFINE Walk(at, n) == at = [i \in 0 .. n |-> IF i = 0 THEN first ELSE EntryNamed(d, at[i - 1], q[i])]
           S == {n \in Nat : \E at : Walk(at, n)}
<1>2. 0 \in S
  <2> DEFINE f == [i \in 0 .. 0 |-> first]
  <2>1. Walk(f, 0)
    OBVIOUS
  <2> HIDE DEF f, Walk
  <2>2. QED  BY <2>1
<1>3. ASSUME NEW n \in S
      PROVE  n + 1 \in S
  <2> HIDE DEF first
  <2>1. PICK f : f = [i \in 0 .. n |-> IF i = 0 THEN first ELSE EntryNamed(d, f[i - 1], q[i])]
    OBVIOUS
  <2> DEFINE g == [i \in 0 .. n + 1 |-> IF i = n + 1 THEN EntryNamed(d, f[n], q[n + 1]) ELSE f[i]]
  <2>2. \A i \in 0 .. n : g[i] = f[i]
    OBVIOUS
  <2>3. ASSUME NEW i \in 0 .. n + 1
        PROVE  g[i] = IF i = 0 THEN first ELSE EntryNamed(d, g[i - 1], q[i])
    <3>1. CASE i = n + 1
      BY <3>1, <2>2
    <3>2. CASE i # n + 1
      <4>1. i \in 0 .. n /\ (i # 0 => i - 1 \in 0 .. n)
        BY <3>2
      <4>2. f[i] = IF i = 0 THEN first ELSE EntryNamed(d, f[i - 1], q[i])
        BY <2>1, <4>1
      <4>3. g[i] = f[i] /\ (i # 0 => g[i - 1] = f[i - 1])
        BY <4>1, <2>2
      <4> HIDE DEF g
      <4>4. QED  BY <4>2, <4>3
    <3>3. QED  BY <3>1, <3>2
  <2>4. g = [i \in 0 .. n + 1 |-> g[i]]
    OBVIOUS
  <2> HIDE DEF g
  <2>5. Walk(g, n + 1)
    BY <2>3, <2>4
  <2> HIDE DEF Walk
  <2>6. QED  BY <2>5
<1>4. S = Nat
  <2> HIDE DEF S
  <2>1. S \in SUBSET Nat
    BY DEF S
  <2>2. QED  BY <1>2, <1>3, <2>1, NumbersInduct
<1> DEFINE at == CHOOSE f : Walk(f, Len(q))
<1>5. Walk(at, Len(q)) /\ Len(q) \in Nat
  <2>1. Len(q) \in Nat
    BY <1>1
  <2>2. \E f : Walk(f, Len(q))
    BY <1>4, <2>1
  <2> HIDE DEF Walk
  <2>3. QED  BY <2>1, <2>2
<1>6. PathAddress(d, q) = at[Len(q)]
  BY DEF PathAddress
<1> HIDE DEF at
<1>7. /\ at[0] = first
      /\ \A i \in 0 .. Len(q) - 1 : at[i + 1] = EntryNamed(d, at[i], q[i + 1])
  <2> HIDE DEF first
  <2>1. Len(q) \in Nat /\ 0 \in 0 .. Len(q)
    BY <1>5
  <2>2. ASSUME NEW i \in 0 .. Len(q) - 1
        PROVE  at[i + 1] = EntryNamed(d, at[i], q[i + 1])
    <3>1. i + 1 \in 0 .. Len(q) /\ i + 1 # 0 /\ (i + 1) - 1 = i
      BY <2>1
    <3>2. QED  BY <3>1, <1>5
  <2>3. QED  BY <1>5, <2>1, <2>2
<1> DEFINE T == {n \in Nat : n <= Len(q) => Ok(at[n])}
<1>8. 0 \in T
  BY <1>7 DEF Rooted
<1>9. ASSUME NEW n \in T
      PROVE  n + 1 \in T
  <2> SUFFICES ASSUME n + 1 <= Len(q)
               PROVE  Ok(at[n + 1])
    OBVIOUS
  <2>1. n \in 0 .. Len(q) - 1 /\ Ok(at[n])
    <3>1. Len(q) \in Nat
      BY <1>5
    <3>2. n \in Nat /\ n \in T
      OBVIOUS
    <3>3. n \in 0 .. Len(q) - 1
      BY <3>1, <3>2
    <3>4. QED  BY ONLY <3>1, <3>2, <3>3
  <2>2. QED  BY <2>1, <1>7, EntryNamedIs
<1>10. T = Nat
  <2> HIDE DEF T
  <2>1. T \in SUBSET Nat
    BY DEF T
  <2>2. QED  BY <1>8, <1>9, <2>1, NumbersInduct
<1>11. Ok(at[Len(q)])
  <2>1. Len(q) \in Nat
    BY <1>5
  <2>2. Len(q) \in T /\ Len(q) <= Len(q)
    BY ONLY <1>10, <2>1
  <2>3. QED  BY ONLY <2>2
<1>12. QED  BY <1>6, <1>11

(* One level of the tree more.                                             *)
Below(d, S) == S \cup UNION {Entries(d, a) : a \in {b \in S : Block(Before(d), b).type = 1}}

(* What is in the tree is metadata.                                        *)
LEMMA TreeIsMetadata ==
  ASSUME NEW d, NEW dirs, NEW rank, Sane(d, dirs, rank), Rooted(d)
  PROVE  \A a \in InTree(d) : IsMeta(d, a)
<1> DEFINE first == {metadata_start}
           Ok(found) == \A a \in found : IsMeta(d, a)
<1> DEFINE Walk(at, n) == at = [i \in 0 .. n |-> IF i = 0 THEN first ELSE Below(d, at[i - 1])]
           S == {n \in Nat : \E at : Walk(at, n)}
<1>1. 0 \in S
  <2> DEFINE f == [i \in 0 .. 0 |-> first]
  <2>1. Walk(f, 0)
    OBVIOUS
  <2> HIDE DEF f, Walk
  <2>2. QED  BY <2>1
<1>2. ASSUME NEW n \in S
      PROVE  n + 1 \in S
  <2> HIDE DEF first
  <2>1. PICK f : f = [i \in 0 .. n |-> IF i = 0 THEN first ELSE Below(d, f[i - 1])]
    OBVIOUS
  <2> DEFINE g == [i \in 0 .. n + 1 |-> IF i = n + 1 THEN Below(d, f[n]) ELSE f[i]]
  <2>2. \A i \in 0 .. n : g[i] = f[i]
    OBVIOUS
  <2>3. ASSUME NEW i \in 0 .. n + 1
        PROVE  g[i] = IF i = 0 THEN first ELSE Below(d, g[i - 1])
    <3>1. CASE i = n + 1
      BY <3>1, <2>2
    <3>2. CASE i # n + 1
      <4>1. i \in 0 .. n /\ (i # 0 => i - 1 \in 0 .. n)
        BY <3>2
      <4>2. f[i] = IF i = 0 THEN first ELSE Below(d, f[i - 1])
        BY <2>1, <4>1
      <4>3. g[i] = f[i] /\ (i # 0 => g[i - 1] = f[i - 1])
        BY <4>1, <2>2
      <4> HIDE DEF g
      <4>4. QED  BY <4>2, <4>3
    <3>3. QED  BY <3>1, <3>2
  <2>4. g = [i \in 0 .. n + 1 |-> g[i]]
    OBVIOUS
  <2> HIDE DEF g
  <2>5. Walk(g, n + 1)
    BY <2>3, <2>4
  <2> HIDE DEF Walk
  <2>6. QED  BY <2>5
<1>3. S = Nat
  <2> HIDE DEF S
  <2>1. S \in SUBSET Nat
    BY DEF S
  <2>2. QED  BY <1>1, <1>2, <2>1, NumbersInduct
<1> DEFINE at == CHOOSE f : Walk(f, MaxDepth)
<1>4. Walk(at, MaxDepth) /\ MaxDepth \in Nat
  <2>0. MaxDepth \in Nat
    BY FileCallsAssumption, FileSystemAssumption
  <2>1. \E f : Walk(f, MaxDepth)
    BY <1>3, <2>0
  <2> HIDE DEF Walk
  <2>2. QED  BY <2>0, <2>1
<1>5. InTree(d) = at[MaxDepth]
  BY DEF InTree, Below
<1> HIDE DEF at
<1>6. /\ at[0] = first
      /\ \A i \in 0 .. MaxDepth - 1 : at[i + 1] = Below(d, at[i])
  <2> HIDE DEF first
  <2>1. MaxDepth \in Nat /\ 0 \in 0 .. MaxDepth
    BY <1>4
  <2>2. ASSUME NEW i \in 0 .. MaxDepth - 1
        PROVE  at[i + 1] = Below(d, at[i])
    <3>1. i + 1 \in 0 .. MaxDepth /\ i + 1 # 0 /\ (i + 1) - 1 = i
      BY <2>1
    <3>2. QED  BY <3>1, <1>4
  <2>3. QED  BY <1>4, <2>1, <2>2
<1> DEFINE T == {n \in Nat : n <= MaxDepth => Ok(at[n])}
<1>7. 0 \in T
  BY <1>6 DEF Rooted
<1>8. ASSUME NEW n \in T
      PROVE  n + 1 \in T
  <2> SUFFICES ASSUME n + 1 <= MaxDepth
               PROVE  Ok(at[n + 1])
    OBVIOUS
  <2>1. n \in 0 .. MaxDepth - 1 /\ Ok(at[n])
    <3>1. MaxDepth \in Nat
      BY <1>4
    <3>2. n \in Nat /\ n \in T
      OBVIOUS
    <3>3. n \in 0 .. MaxDepth - 1
      BY <3>1, <3>2
    <3>4. QED  BY ONLY <3>1, <3>2, <3>3
  <2>2. \A b : Block(Before(d), b) = d.blk[b]
    BY DEF Block, Before
  <2>3. QED  BY <2>1, <2>2, <1>6, EntriesLead DEF Below
<1>9. T = Nat
  <2> HIDE DEF T
  <2>1. T \in SUBSET Nat
    BY DEF T
  <2>2. QED  BY <1>7, <1>8, <2>1, NumbersInduct
<1>10. Ok(at[MaxDepth])
  <2>0. MaxDepth \in Nat
    BY <1>4
  <2>1. MaxDepth \in T /\ MaxDepth <= MaxDepth
    BY ONLY <1>9, <2>0
  <2>2. QED  BY ONLY <2>1
<1>11. QED  BY <1>5, <1>10

-----------------------------------------------------------------------------
(* So every block the tree leads to is marked, and nothing leads to a      *)
(* block twice.                                                            *)
LEMMA SaneIsMarked ==
  ASSUME NEW d, NEW dirs, NEW rank, Sane(d, dirs, rank), Rooted(d)
  PROVE  Linked(d) \subseteq Marked(d)
<1>1. \A a \in InTree(d) : Distributors(d, a) \subseteq Marked(d) /\ Entries(d, a) \subseteq Marked(d)
  BY TreeIsMetadata, EntriesLead, DistributorsAre DEF IsDist
<1>2. metadata_start \in Marked(d)
  BY DEF Rooted, IsMeta
<1>3. QED  BY <1>1, <1>2 DEF Linked, LinkedFrom

(* The links of the tree are links of marked blocks.                       *)
LEMMA SaneLinks ==
  ASSUME NEW d, NEW dirs, NEW rank, Sane(d, dirs, rank), Rooted(d), NEW l \in Links(d)
  PROVE  \E a \in Marked(d), i \in Indices :
           l = <<a, i>> /\ HasLink(d.blk[a], i) /\ LinkAt(d, l) = Points(d.blk[a], i)
<1>1. PICK a \in InTree(d) : l \in {<<a, -1>>} \cup Distributors(d, a) \X (-1 .. FileParts - 1)
  BY DEF Links
<1>2. IsMeta(d, a)
  BY TreeIsMetadata
<1>3. -1 \in Indices
  BY FileSystemAssumption DEF Indices
<1>4. CASE l = <<a, -1>>
  BY <1>2, <1>3, <1>4 DEF IsMeta, HasLink, LinkAt, Points, Block, Before
<1>5. CASE l \in Distributors(d, a) \X (-1 .. FileParts - 1)
  <2>1. PICK c \in Distributors(d, a), i \in Indices : l = <<c, i>>
    BY <1>5 DEF Indices
  <2>2. IsDist(d, c)
    BY <1>2, DistributorsAre
  <2>3. QED  BY <2>1, <2>2 DEF IsDist, HasLink, LinkAt, Points, Block, Before
<1>6. QED  BY <1>1, <1>4, <1>5

(* So no two of them lead to the same block.                               *)
LEMMA SaneHasOneLinkEach ==
  ASSUME NEW d, NEW dirs, NEW rank, Sane(d, dirs, rank), Rooted(d)
  PROVE  \A l, m \in Links(d) : LinkAt(d, l) # error_place =>
           LinkAt(d, l) # metadata_start /\ (LinkAt(d, l) = LinkAt(d, m) => l = m)
<1> SUFFICES ASSUME NEW l \in Links(d), NEW m \in Links(d), LinkAt(d, l) # error_place
             PROVE  LinkAt(d, l) # metadata_start /\ (LinkAt(d, l) = LinkAt(d, m) => l = m)
  OBVIOUS
<1>1. PICK a \in Marked(d), i \in Indices :
        l = <<a, i>> /\ HasLink(d.blk[a], i) /\ LinkAt(d, l) = Points(d.blk[a], i)
  BY SaneLinks
<1>2. PICK b \in Marked(d), j \in Indices :
        m = <<b, j>> /\ HasLink(d.blk[b], j) /\ LinkAt(d, m) = Points(d.blk[b], j)
  BY SaneLinks
<1>3. LinksLead(d, dirs, rank) /\ LinksDiffer(d)
  BY DEF Sane
<1>4. LinkAt(d, l) # metadata_start
  BY <1>1, <1>3 DEF LinksLead, MayLead
<1>5. LinkAt(d, l) = LinkAt(d, m) => a = b /\ i = j
  BY <1>1, <1>2, <1>3 DEF LinksDiffer
<1>6. QED  BY <1>1, <1>2, <1>4, <1>5

-----------------------------------------------------------------------------
(* The parts of files.  A trail leads from the metadata a to a distributor *)
(* m places behind its first one; part k of the file is in one of its      *)
(* slots.                                                                  *)
Trail(d, a, m, l) ==
  /\ l[0] = d.blk[a].dist
  /\ \A i \in 0 .. m : IsDist(d, l[i]) /\ l[i] # error_place
  /\ \A i \in 0 .. m - 1 : d.blk[l[i]].next = l[i + 1]
PathTo(d, a, m, c) == \E l : Trail(d, a, m, l) /\ l[m] = c
HasPart(d, c, j) == d.blk[c].part[j] # error_place
Has(d, a, k) == \E c : PathTo(d, a, k \div FileParts, c) /\ HasPart(d, c, k % FileParts)

(* A file has a part for each of its bytes.                                *)
Covers(d, a, size) == \A k \in Nat : k * BlockLen < size => Has(d, a, k)
IsFile(d, a) == IsMeta(d, a) /\ d.blk[a].type # 1
Whole(d) == \A a : IsFile(d, a) => Covers(d, a, d.blk[a].size)

(* The blocks marked on d are so on e, for what they were.  Their links    *)
(* stay, but for the entries of directories.                               *)
KeepsLinks(c, old, free) ==
  \A i \in Indices : HasLink(old, i) /\ Points(old, i) # error_place /\ ~ (free /\ i >= 0)
                     => Points(c, i) = Points(old, i)
Grows(d, dirs, e, more) ==
  \A a \in Marked(d) : /\ a \in Marked(e) /\ e.blk[a].kind = d.blk[a].kind
                       /\ d.blk[a].kind = "meta" => e.blk[a].type = d.blk[a].type
                       /\ a \in more <=> a \in dirs
                       /\ KeepsLinks(e.blk[a], d.blk[a], a \in dirs)

(* Division with remainder.                                                *)
LEMMA DividesNaturals ==
  ASSUME NEW F \in Nat \ {0}, NEW x \in Nat
  PROVE  x \div F \in Nat /\ x % F \in 0 .. F - 1 /\ x = F * (x \div F) + (x % F)
OBVIOUS

(* The steps of a trail are links at -1.                                   *)
LEMMA TrailLinks ==
  ASSUME NEW d, NEW a, IsMeta(d, a), NEW m \in Nat, NEW l, Trail(d, a, m, l)
  PROVE  /\ -1 \in Indices /\ ~ (-1 >= 0)
         /\ HasLink(d.blk[a], -1) /\ Points(d.blk[a], -1) = l[0] /\ l[0] # error_place
         /\ \A i \in 0 .. m - 1 : /\ HasLink(d.blk[l[i]], -1) /\ Points(d.blk[l[i]], -1) = l[i + 1]
                                  /\ IsDist(d, l[i]) /\ l[i + 1] # error_place
<1>1. -1 \in Indices /\ ~ (-1 >= 0)
  BY FileSystemAssumption DEF Indices
<1>2. 0 \in 0 .. m /\ \A i \in 0 .. m - 1 : i \in 0 .. m /\ i + 1 \in 0 .. m
  OBVIOUS
<1>3. HasLink(d.blk[a], -1) /\ Points(d.blk[a], -1) = l[0] /\ l[0] # error_place
  BY <1>1, <1>2 DEF Trail, IsMeta, HasLink, Points
<1>4. ASSUME NEW i \in 0 .. m - 1
      PROVE  /\ HasLink(d.blk[l[i]], -1) /\ Points(d.blk[l[i]], -1) = l[i + 1]
             /\ IsDist(d, l[i]) /\ l[i + 1] # error_place
  <2>1. IsDist(d, l[i]) /\ l[i + 1] # error_place /\ d.blk[l[i]].next = l[i + 1]
    BY <1>2 DEF Trail
  <2>2. QED  BY <1>1, <2>1 DEF IsDist, HasLink, Points
<1>5. QED  BY <1>1, <1>3, <1>4

(* The distributors of a file are not those of directories.                *)
LEMMA TrailOutside ==
  ASSUME NEW d, NEW dirs, NEW rank, Sane(d, dirs, rank), NEW a, IsFile(d, a),
         NEW m \in Nat, NEW l, Trail(d, a, m, l)
  PROVE  \A i \in 0 .. m : l[i] \notin dirs
<1> DEFINE S == {i \in Nat : i <= m => l[i] \notin dirs}
<1>0. LinksLead(d, dirs, rank) /\ IsMeta(d, a) /\ a \in Marked(d) /\ d.blk[a].kind = "meta" /\ d.blk[a].type # 1
  BY DEF Sane, IsFile, IsMeta
<1>1. 0 \in S
  <2>1. MayLead(d, dirs, rank, a, -1, l[0])
    BY <1>0, TrailLinks DEF LinksLead
  <2>2. ~ (-1 >= 0)
    OBVIOUS
  <2>3. QED  BY <1>0, <2>1, <2>2 DEF MayLead
<1>2. ASSUME NEW i \in S
      PROVE  i + 1 \in S
  <2>1. SUFFICES ASSUME i + 1 <= m
                 PROVE  l[i + 1] \notin dirs
    OBVIOUS
  <2>2. i \in 0 .. m - 1 /\ l[i] \notin dirs /\ ~ (-1 >= 0)
    BY <2>1
  <2>3. /\ HasLink(d.blk[l[i]], -1) /\ Points(d.blk[l[i]], -1) = l[i + 1] /\ -1 \in Indices
        /\ IsDist(d, l[i]) /\ l[i + 1] # error_place
    BY <1>0, <2>2, TrailLinks
  <2>4. MayLead(d, dirs, rank, l[i], -1, l[i + 1])
    BY <1>0, <2>3 DEF LinksLead, IsDist
  <2>5. QED  BY <2>2, <2>3, <2>4 DEF MayLead, IsDist
<1>3. S = Nat
  <2> HIDE DEF S
  <2>1. S \in SUBSET Nat
    BY DEF S
  <2>2. QED  BY <1>1, <1>2, <2>1, NumbersInduct
<1>4. QED  BY <1>3

(* What grows keeps the trails and the parts of files.                     *)
LEMMA TrailGrows ==
  ASSUME NEW d, NEW dirs, NEW rank, Sane(d, dirs, rank), NEW a, IsFile(d, a),
         NEW e, NEW more, Grows(d, dirs, e, more),
         NEW m \in Nat, NEW l, Trail(d, a, m, l)
  PROVE  Trail(e, a, m, l)
<1>1. IsMeta(d, a) /\ a \in Marked(d) /\ d.blk[a].kind = "meta" /\ IsMeta(e, a) /\ e.blk[a].kind = "meta"
  BY DEF IsFile, IsMeta, Grows
<1>2. \A i \in 0 .. m : IsDist(e, l[i]) /\ l[i] # error_place
  BY DEF Trail, Grows, IsDist
<1>3. l[0] = e.blk[a].dist
  <2>1. KeepsLinks(e.blk[a], d.blk[a], a \in dirs)
    BY <1>1 DEF Grows
  <2>2. Points(e.blk[a], -1) = l[0]
    BY <1>1, <2>1, TrailLinks DEF KeepsLinks
  <2>3. ~ (-1 >= 0)
    OBVIOUS
  <2>4. QED  BY <1>1, <2>2, <2>3 DEF Points
<1>4. ASSUME NEW i \in 0 .. m - 1
      PROVE  e.blk[l[i]].next = l[i + 1]
  <2>1. /\ HasLink(d.blk[l[i]], -1) /\ Points(d.blk[l[i]], -1) = l[i + 1] /\ -1 \in Indices
        /\ IsDist(d, l[i]) /\ l[i + 1] # error_place /\ ~ (-1 >= 0)
    BY <1>1, TrailLinks
  <2>2. KeepsLinks(e.blk[l[i]], d.blk[l[i]], l[i] \in dirs) /\ e.blk[l[i]].kind = "dist"
    BY <2>1 DEF Grows, IsDist
  <2>3. Points(e.blk[l[i]], -1) = l[i + 1]
    BY <2>1, <2>2 DEF KeepsLinks
  <2>4. QED  BY <2>1, <2>2, <2>3 DEF Points
<1>5. QED  BY <1>2, <1>3, <1>4 DEF Trail

(* A part of a file stays where it is.                                     *)
LEMMA PartGrows ==
  ASSUME NEW d, NEW dirs, NEW e, NEW more, Grows(d, dirs, e, more),
         NEW c, IsDist(d, c), c \notin dirs, NEW j \in 0 .. FileParts - 1, HasPart(d, c, j)
  PROVE  HasPart(e, c, j)
<1>1. j \in Indices /\ j >= 0
  BY DEF Indices
<1>2. HasLink(d.blk[c], j) /\ Points(d.blk[c], j) # error_place /\ Points(d.blk[c], j) = d.blk[c].part[j]
  BY <1>1 DEF HasLink, Points, HasPart, IsDist
<1>3. KeepsLinks(e.blk[c], d.blk[c], c \in dirs)
  BY DEF Grows, IsDist
<1>4. Points(e.blk[c], j) = Points(d.blk[c], j)
  BY <1>1, <1>2, <1>3 DEF KeepsLinks
<1>5. Points(e.blk[c], j) = e.blk[c].part[j]
  BY <1>1 DEF Points
<1>6. QED  BY <1>2, <1>4, <1>5 DEF HasPart

(* So does the distributor a trail ends at.                                *)
LEMMA PathGrows ==
  ASSUME NEW d, NEW dirs, NEW rank, Sane(d, dirs, rank), NEW a, IsFile(d, a),
         NEW e, NEW more, Grows(d, dirs, e, more), NEW m \in Nat, NEW c, PathTo(d, a, m, c)
  PROVE  PathTo(e, a, m, c) /\ IsDist(d, c) /\ c # error_place /\ c \notin dirs
<1>1. PICK l : Trail(d, a, m, l) /\ l[m] = c
  BY DEF PathTo
<1>2. Trail(e, a, m, l)
  BY <1>1, TrailGrows
<1>3. m \in 0 .. m
  OBVIOUS
<1>4. QED  BY <1>1, <1>2, <1>3, TrailOutside DEF PathTo, Trail

(* Together: a file that has part k goes on having it.                     *)
LEMMA HasGrows ==
  ASSUME NEW d, NEW dirs, NEW rank, Sane(d, dirs, rank), NEW a, IsFile(d, a),
         NEW e, NEW more, Grows(d, dirs, e, more), NEW k \in Nat, Has(d, a, k)
  PROVE  Has(e, a, k)
<1>1. k \div FileParts \in Nat /\ k % FileParts \in 0 .. FileParts - 1
  BY FileSystemAssumption, DividesNaturals
<1> DEFINE m == k \div FileParts
           j == k % FileParts
<1>2. PICK c : PathTo(d, a, m, c) /\ HasPart(d, c, j)
  BY DEF Has
<1> HIDE DEF m, j
<1>3. PathTo(e, a, m, c) /\ IsDist(d, c) /\ c \notin dirs
  BY <1>1, <1>2, PathGrows DEF m
<1>4. HasPart(e, c, j)
  BY <1>1, <1>2, <1>3, PartGrows DEF j
<1>5. QED  BY <1>3, <1>4 DEF Has, m, j

(* A disk that grows keeps every file whole whose size asks for no more    *)
(* parts.                                                                  *)
LEMMA WholeGrows ==
  ASSUME NEW d, NEW dirs, NEW rank, Sane(d, dirs, rank),
         NEW e, NEW more, Grows(d, dirs, e, more),
         \A a : IsFile(e, a) => e.blk[a].size = 0 \/ (IsFile(d, a) /\ Covers(d, a, e.blk[a].size))
  PROVE  Whole(e)
<1>1. ASSUME NEW a, IsFile(e, a)
      PROVE  Covers(e, a, e.blk[a].size)
  <2>1. CASE e.blk[a].size = 0
    <3>1. \A k \in Nat : ~ (k * BlockLen < 0)
      <4>1. BlockLen \in Nat
        BY FileSystemAssumption
      <4>2. \A k \in Nat : k * BlockLen \in Nat
        BY <4>1
      <4>3. QED  BY <4>2
    <3>2. QED  BY <2>1, <3>1 DEF Covers
  <2>2. CASE IsFile(d, a) /\ Covers(d, a, e.blk[a].size)
    BY <2>2, HasGrows DEF Covers
  <2>3. QED  BY <1>1, <2>1, <2>2
<1>2. QED  BY <1>1 DEF Whole

(* So does the removal of a block that nothing leads to.                   *)
LEMMA WholeFreed ==
  ASSUME NEW d, NEW dirs, NEW rank, Sane(d, dirs, rank), Whole(d),
         NEW b \in Marked(d), Unled(d, b), NEW e,
         Marked(e) = Marked(d) \ {b}, \A x \in Marked(d) \ {b} : e.blk[x] = d.blk[x]
  PROVE  Whole(e)
<1>1. ASSUME NEW a, IsFile(e, a), NEW k \in Nat, Has(d, a, k)
      PROVE  Has(e, a, k)
  <2>1. k \div FileParts \in Nat /\ k % FileParts \in 0 .. FileParts - 1
    BY FileSystemAssumption, DividesNaturals
  <2> DEFINE m == k \div FileParts
             j == k % FileParts
  <2>2. PICK c : PathTo(d, a, m, c) /\ HasPart(d, c, j)
    BY <1>1 DEF Has
  <2> HIDE DEF m, j
  <2>3. PICK l : Trail(d, a, m, l) /\ l[m] = c
    BY <2>2 DEF PathTo
  <2>4. IsMeta(d, a) /\ a # b /\ a \in Marked(d) /\ e.blk[a] = d.blk[a] /\ m \in Nat
    BY <1>1, <2>1 DEF IsFile, IsMeta, m
  <2>5. ASSUME NEW i \in 0 .. m
        PROVE  l[i] # b
    <3>1. CASE i = 0
      BY <2>3, <2>4, <3>1, TrailLinks DEF Unled
    <3>2. CASE i # 0
      <4>1. i - 1 \in 0 .. m - 1 /\ (i - 1) + 1 = i
        BY <2>4, <3>2
      <4>2. /\ HasLink(d.blk[l[i - 1]], -1) /\ Points(d.blk[l[i - 1]], -1) = l[(i - 1) + 1]
            /\ IsDist(d, l[i - 1]) /\ l[(i - 1) + 1] # error_place /\ -1 \in Indices
        BY <2>3, <2>4, <4>1, TrailLinks
      <4>3. QED  BY <4>1, <4>2 DEF Unled, IsDist
    <3>3. QED  BY <3>1, <3>2
  <2>6. \A i \in 0 .. m : /\ IsDist(d, l[i]) /\ l[i] # error_place
                          /\ IsDist(e, l[i]) /\ e.blk[l[i]] = d.blk[l[i]]
    BY <2>3, <2>5 DEF Trail, IsDist
  <2>7. \A i \in 0 .. m - 1 : i \in 0 .. m
    BY <2>4
  <2>8. Trail(e, a, m, l)
    BY <2>3, <2>4, <2>6, <2>7 DEF Trail
  <2>9. m \in 0 .. m
    BY <2>4
  <2>10. HasPart(e, c, j)
    BY <2>2, <2>3, <2>6, <2>9 DEF HasPart
  <2>11. QED  BY <2>3, <2>8, <2>10 DEF Has, PathTo, m, j
<1>2. ASSUME NEW a, IsFile(e, a)
      PROVE  IsFile(d, a) /\ e.blk[a] = d.blk[a]
  BY <1>2 DEF IsFile, IsMeta
<1>3. QED  BY <1>1, <1>2 DEF Whole, Covers

(* The first distributor.                                                  *)
LEMMA TrailBegins ==
  ASSUME NEW d, NEW a, NEW c, IsDist(d, c), c # error_place, d.blk[a].dist = c
  PROVE  PathTo(d, a, 0, c)
<1> DEFINE l == [i \in 0 .. 0 |-> c]
<1>1. l[0] = c /\ (\A i \in 0 .. 0 : l[i] = c) /\ 0 .. 0 - 1 = {}
  OBVIOUS
<1> HIDE DEF l
<1>2. QED  BY <1>1 DEF PathTo, Trail

(* One distributor more.                                                   *)
LEMMA TrailOn ==
  ASSUME NEW d, NEW a, NEW m \in Nat, NEW c, PathTo(d, a, m, c),
         NEW n, IsDist(d, n), n # error_place, d.blk[c].next = n
  PROVE  PathTo(d, a, m + 1, n)
<1>1. PICK l : Trail(d, a, m, l) /\ l[m] = c
  BY DEF PathTo
<1> DEFINE o == [i \in 0 .. m + 1 |-> IF i = m + 1 THEN n ELSE l[i]]
<1>2. o[m + 1] = n /\ \A i \in 0 .. m : o[i] = l[i]
  OBVIOUS
<1> HIDE DEF o
<1>3. 0 \in 0 .. m /\ m \in 0 .. m /\ \A i \in 0 .. m + 1 : i \in 0 .. m \/ i = m + 1
  OBVIOUS
<1>4. \A i \in 0 .. (m + 1) - 1 : i \in 0 .. m /\ (i = m \/ (i \in 0 .. m - 1 /\ i + 1 \in 0 .. m))
  OBVIOUS
<1>5. \A i \in 0 .. (m + 1) - 1 : d.blk[o[i]].next = o[i + 1]
  <2>1. ASSUME NEW i \in 0 .. (m + 1) - 1
        PROVE  d.blk[o[i]].next = o[i + 1]
    <3>1. CASE i = m
      BY <1>1, <1>2, <1>3, <3>1
    <3>2. CASE i \in 0 .. m - 1 /\ i + 1 \in 0 .. m
      BY <1>1, <1>2, <1>4, <3>2 DEF Trail
    <3>3. QED  BY <1>4, <3>1, <3>2
  <2>2. QED  BY <2>1
<1>6. \A i \in 0 .. m + 1 : IsDist(d, o[i]) /\ o[i] # error_place
  BY <1>1, <1>2, <1>3 DEF Trail
<1>7. o[0] = d.blk[a].dist
  BY <1>1, <1>2, <1>3 DEF Trail
<1>8. Trail(d, a, m + 1, o)
  BY <1>5, <1>6, <1>7 DEF Trail
<1>9. QED  BY <1>2, <1>8 DEF PathTo

Healthy == {d \in Disks(Blocks) : Rooted(d) /\ Whole(d) /\ \E dirs, rank : Sane(d, dirs, rank)}

(* A call has left a healthy disk, and one at every disk_wr.               *)
Good(s, dirs, rank) ==
  /\ s \in Calls(Blocks) /\ s.log \in Seq(Healthy)
  /\ Rooted(s.disk) /\ Sane(s.disk, dirs, rank) /\ Whole(s.disk)
Fine(s) == \E dirs, rank : Good(s, dirs, rank)

Faults == {"none", "hangs", "corrupts", "full"}

(* What a call has done, as a record.                                      *)
LEMMA CallTypes ==
  ASSUME NEW s \in Calls(Blocks)
  PROVE  /\ s = [disk |-> s.disk, log |-> s.log, fault |-> s.fault]
         /\ s.disk \in Disks(Blocks) /\ s.fault \in Faults
         /\ s.disk.blk \in [Addresses -> Blocks] /\ s.disk.map \in SUBSET MapBytes
BY DEF Calls, Disks, Faults

(* disk_wr fails in no way the code would see.                             *)
LEMMA StoreFault ==
  ASSUME NEW s \in Calls(Blocks), NEW a, NEW c
  PROVE  Store(s, a, c).fault = s.fault
<1>1. s = [disk |-> s.disk, log |-> s.log, fault |-> s.fault]
  BY CallTypes
<1> DEFINE d == [s.disk EXCEPT !.blk[a] = c]
<1>2. Store(s, a, c) = [s EXCEPT !.disk = d, !.log = Append(s.log, d)]
  BY DEF Store, Wrote
<1> HIDE DEF d
<1>3. QED  BY <1>1, <1>2

(* Growth upon growth.                                                     *)
LEMMA GrowsOn ==
  ASSUME NEW d, NEW dirs, NEW e, NEW more, Grows(d, dirs, e, more),
         NEW f, NEW most, Grows(e, more, f, most)
  PROVE  Grows(d, dirs, f, most)
<1>1. ASSUME NEW a \in Marked(d)
      PROVE  KeepsLinks(f.blk[a], d.blk[a], a \in dirs)
  <2>1. /\ a \in Marked(e) /\ e.blk[a].kind = d.blk[a].kind /\ (a \in more <=> a \in dirs)
        /\ KeepsLinks(e.blk[a], d.blk[a], a \in dirs) /\ KeepsLinks(f.blk[a], e.blk[a], a \in more)
    BY DEF Grows
  <2>2. QED  BY <2>1 DEF KeepsLinks, HasLink
<1>2. QED  BY <1>1 DEF Grows

(* Growth that changes neither the kind of a block nor its links.          *)
LEMMA GrowsSame ==
  ASSUME NEW d, NEW dirs, NEW e, Marked(d) \subseteq Marked(e),
         \A a \in Marked(d) : e.blk[a] = d.blk[a]
  PROVE  Grows(d, dirs, e, dirs)
BY DEF Grows, KeepsLinks

(* A disk_wr that leaves the disk sane keeps what the call has done good.  *)
LEMMA WroteHealthy ==
  ASSUME NEW s \in Calls(Blocks), s.log \in Seq(Healthy), NEW d \in Disks(Blocks), Rooted(d), Whole(d),
         NEW dirs, NEW rank, Sane(d, dirs, rank)
  PROVE  Good(Wrote(s, d), dirs, rank) /\ Wrote(s, d).disk = d /\ Wrote(s, d).fault = s.fault
<1>1. Wrote(s, d) \in Calls(Blocks) /\ Wrote(s, d).disk = d /\ Wrote(s, d).fault = s.fault
  BY WroteIsCall
<1>2. d \in Healthy
  BY DEF Healthy
<1>3. Wrote(s, d).log = Append(s.log, d)
  BY CallTypes DEF Wrote, Calls
<1>4. Append(s.log, d) \in Seq(Healthy)
  BY <1>2, AppendProperties
<1>5. QED  BY <1>1, <1>3, <1>4 DEF Good

(* A call that fails has written what it has.                              *)
LEMMA FailsGood ==
  ASSUME NEW s, NEW dirs, NEW rank, Good(s, dirs, rank), NEW how \in Faults \ {"none"}
  PROVE  /\ Good(Fails(s, how), dirs, rank) /\ Fails(s, how).disk = s.disk
         /\ Fails(s, how).fault # "none"
<1>1. s \in Calls(Blocks) /\ s = [disk |-> s.disk, log |-> s.log, fault |-> s.fault]
  BY CallTypes DEF Good
<1>2. Fails(s, how) = [disk |-> s.disk, log |-> s.log, fault |-> IF s.fault = "none" THEN how ELSE s.fault]
  BY <1>1 DEF Fails
<1>3. QED  BY <1>1, <1>2 DEF Good, Calls, Faults

(* Also when the failure is called by another name.                        *)
LEMMA FaultSetGood ==
  ASSUME NEW s, NEW dirs, NEW rank, Good(s, dirs, rank), NEW how \in Faults
  PROVE  /\ Good([s EXCEPT !.fault = how], dirs, rank) /\ [s EXCEPT !.fault = how].disk = s.disk
         /\ [s EXCEPT !.fault = how].fault = how
<1>1. s \in Calls(Blocks) /\ s = [disk |-> s.disk, log |-> s.log, fault |-> s.fault]
  BY CallTypes DEF Good
<1>2. [s EXCEPT !.fault = how] = [disk |-> s.disk, log |-> s.log, fault |-> how]
  BY <1>1
<1>3. QED  BY <1>1, <1>2 DEF Good, Calls, Faults

-----------------------------------------------------------------------------
(* disk_wr of a block with the links it had, or none, or one more.         *)
NewLink(c, old, j, b) ==
  \A i \in Indices : HasLink(c, i) =>
    Points(c, i) \in {Points(old, i), error_place} \/ (i = j /\ Points(c, i) = b)
NoNewLink(c, old) ==
  \A i \in Indices : HasLink(c, i) => Points(c, i) \in {Points(old, i), error_place}

(* At most one link more, to a block that nothing led to.                  *)
LEMMA StoreGood ==
  ASSUME NEW s, NEW dirs, NEW rank, Good(s, dirs, rank),
         NEW a \in Marked(s.disk), NEW c \in Blocks, c.kind = s.disk.blk[a].kind,
         c.kind = "meta" => c.type = s.disk.blk[a].type,
         c.kind = "meta" /\ c.type # 1 => Covers(s.disk, a, c.size),
         KeepsLinks(c, s.disk.blk[a], a \in dirs),
         NEW j \in Indices, NEW b, Unled(s.disk, b),
         HasLink(c, j) /\ b # error_place => MayLead(s.disk, dirs, rank, a, j, b),
         NewLink(c, s.disk.blk[a], j, b)
  PROVE  LET t == Store(s, a, c)
         IN  /\ Good(t, dirs, rank) /\ t.fault = s.fault
             /\ Marked(t.disk) = Marked(s.disk) /\ t.disk.blk = [s.disk.blk EXCEPT ![a] = c]
             /\ Grows(s.disk, dirs, t.disk, dirs)
<1> DEFINE e == [s.disk EXCEPT !.blk = [s.disk.blk EXCEPT ![a] = c]]
<1>1. s \in Calls(Blocks) /\ s.log \in Seq(Healthy) /\ Sane(s.disk, dirs, rank) /\ Rooted(s.disk) /\ Whole(s.disk)
  BY DEF Good
<1>2. a \in Addresses /\ s.disk.blk \in [Addresses -> Blocks]
  BY <1>1, CallTypes DEF Marked
<1>3. e \in Disks(Blocks) /\ e.map = s.disk.map /\ e.blk = [s.disk.blk EXCEPT ![a] = c]
  BY <1>1, <1>2 DEF Calls, Disks
<1>4. Store(s, a, c) = Wrote(s, e)
  BY DEF Store
<1> HIDE DEF e
<1>5. Sane(e, dirs, rank)
  BY <1>1, <1>3, LinkedSane DEF NewLink
<1>6. Marked(e) = Marked(s.disk)
  BY <1>3 DEF Marked
<1>7. \A x \in Marked(s.disk) : e.blk[x] = IF x = a THEN c ELSE s.disk.blk[x]
  BY <1>2, <1>3 DEF Marked
<1>8. Grows(s.disk, dirs, e, dirs)
  <2>1. \A x \in Marked(s.disk) : KeepsLinks(e.blk[x], s.disk.blk[x], x \in dirs)
    BY <1>7 DEF KeepsLinks
  <2>2. QED  BY <1>6, <1>7, <2>1 DEF Grows
<1>9. Rooted(e)
  BY <1>1, <1>6, <1>8 DEF Rooted, IsMeta, Grows
<1>10. Whole(e)
  <2>1. \A x : IsFile(e, x) => IsFile(s.disk, x) /\ Covers(s.disk, x, e.blk[x].size)
    BY <1>1, <1>6, <1>7 DEF IsFile, IsMeta, Whole
  <2>2. QED  BY <1>1, <1>8, <2>1, WholeGrows
<1>11. QED  BY <1>1, <1>3, <1>4, <1>5, <1>6, <1>8, <1>9, <1>10, WroteHealthy

(* With no link more.                                                      *)
LEMMA StoreKeepsGood ==
  ASSUME NEW s, NEW dirs, NEW rank, Good(s, dirs, rank),
         NEW a \in Marked(s.disk), NEW c \in Blocks, c.kind = s.disk.blk[a].kind,
         c.kind = "meta" => c.type = s.disk.blk[a].type,
         c.kind = "meta" /\ c.type # 1 => Covers(s.disk, a, c.size),
         KeepsLinks(c, s.disk.blk[a], a \in dirs),
         NoNewLink(c, s.disk.blk[a])
  PROVE  LET t == Store(s, a, c)
         IN  /\ Good(t, dirs, rank) /\ t.fault = s.fault
             /\ Marked(t.disk) = Marked(s.disk) /\ t.disk.blk = [s.disk.blk EXCEPT ![a] = c]
             /\ Grows(s.disk, dirs, t.disk, dirs)
<1>1. Unled(s.disk, error_place)
  BY DEF Unled
<1>2. -1 \in Indices
  BY FileSystemAssumption DEF Indices
<1>3. NewLink(c, s.disk.blk[a], -1, error_place)
  BY DEF NewLink, NoNewLink
<1>4. QED  BY <1>1, <1>2, <1>3, StoreGood

-----------------------------------------------------------------------------
(* Allocation: content that leads nowhere is stored in a block that was    *)
(* not marked, and that is marked then.                                    *)
LeadsNowhere(c) == /\ \A i \in Indices : HasLink(c, i) => Points(c, i) = error_place
                   /\ c.kind = "meta" => c.size = 0

(* The block is stored first and marked then: healthy in between.          *)
LEMMA AllocatedGood ==
  ASSUME NEW s, NEW dirs, NEW rank, s \in Calls(Blocks), s.log \in Seq(Healthy),
         Sane(s.disk, dirs, rank), Rooted(s.disk), Whole(s.disk),
         NEW a \in Addresses \ Marked(s.disk), NEW c \in Blocks, LeadsNowhere(c),
         c.kind = "meta" => a # error_place
  PROVE  LET t == Allocated(s, a, c).s
         IN  /\ Good(t, dirs, rank) /\ t.fault = s.fault
             /\ Marked(t.disk) = Marked(s.disk) \cup {a} /\ t.disk.blk = [s.disk.blk EXCEPT ![a] = c]
             /\ Unled(t.disk, a) /\ Grows(s.disk, dirs, t.disk, dirs)
<1> DEFINE e == [s.disk EXCEPT !.blk = [s.disk.blk EXCEPT ![a] = c]]
           f == [e EXCEPT !.map = e.map \cup {ByteOf(a)}]
<1>1. s.disk.blk \in [Addresses -> Blocks]
  BY CallTypes
<1>2. e \in Disks(Blocks) /\ e.map = s.disk.map /\ e.blk = [s.disk.blk EXCEPT ![a] = c]
  BY <1>1 DEF Calls, Disks
<1>3. Store(s, a, c) = Wrote(s, e)
  BY DEF Store
<1> HIDE DEF e
<1>4. \A x \in Addresses \ {a} : e.blk[x] = s.disk.blk[x]
  BY <1>1, <1>2
<1>5. Sane(e, dirs, rank)
  BY <1>2, <1>4, Scribbled
<1>6. Marked(e) = Marked(s.disk) /\ e.blk[a] = c
  BY <1>1, <1>2 DEF Marked
<1>7. Rooted(e)
  BY <1>4, <1>6 DEF Rooted, IsMeta, Marked
<1>8. Grows(s.disk, dirs, e, dirs)
  BY <1>4, <1>6, GrowsSame DEF Marked
<1>9. Whole(e)
  <2>1. \A x \in Marked(e) : x # a /\ x \in Addresses
    BY <1>6 DEF Marked
  <2>2. \A x : IsFile(e, x) => IsFile(s.disk, x) /\ Covers(s.disk, x, e.blk[x].size)
    BY <1>4, <1>6, <2>1 DEF IsFile, IsMeta, Whole
  <2>3. QED  BY <1>8, <2>2, WholeGrows
<1>10. Good(Wrote(s, e), dirs, rank) /\ Wrote(s, e).disk = e /\ Wrote(s, e).fault = s.fault
  BY <1>2, <1>5, <1>7, <1>9, WroteHealthy
<1>11. f \in Disks(Blocks) /\ f.map = e.map \cup {ByteOf(a)} /\ f.blk = e.blk
  BY <1>2, ByteIsInMap DEF Disks
<1>12. MarkUsed(Wrote(s, e), a) = Wrote(Wrote(s, e), f)
  BY <1>10 DEF MarkUsed
<1> HIDE DEF f
<1>13. Marked(f) = Marked(e) \cup {a}
  BY <1>11, OneByteEach DEF Marked
<1>14. MapsFit(f)
  BY <1>5, <1>11 DEF Sane, MapsFit, BlockBytes
<1>15. Sane(f, dirs, rank) /\ Unled(f, a)
  BY <1>5, <1>6, <1>11, <1>13, <1>14, MarkedSane DEF LeadsNowhere
<1>16. Rooted(f)
  BY <1>7, <1>11, <1>13 DEF Rooted, IsMeta
<1>17. Grows(e, dirs, f, dirs)
  BY <1>11, <1>13, GrowsSame
<1>18. Whole(f)
  <2>1. \A x : IsFile(f, x) => f.blk[x].size = 0 \/ (IsFile(e, x) /\ Covers(e, x, f.blk[x].size))
    BY <1>6, <1>11, <1>13, <1>9 DEF IsFile, IsMeta, Whole, LeadsNowhere
  <2>2. QED  BY <1>5, <1>17, <2>1, WholeGrows
<1>19. Wrote(s, e) \in Calls(Blocks) /\ Wrote(s, e).log \in Seq(Healthy)
  BY <1>10 DEF Good
<1>20. /\ Good(Wrote(Wrote(s, e), f), dirs, rank) /\ Wrote(Wrote(s, e), f).disk = f
       /\ Wrote(Wrote(s, e), f).fault = s.fault
  BY <1>10, <1>11, <1>15, <1>16, <1>19, <1>18, WroteHealthy
<1>21. Grows(s.disk, dirs, f, dirs)
  BY <1>8, <1>17, GrowsOn
<1>22. Allocated(s, a, c).s = Wrote(Wrote(s, e), f)
  BY <1>3, <1>12 DEF Allocated
<1>23. f.blk = [s.disk.blk EXCEPT ![a] = c] /\ Marked(f) = Marked(s.disk) \cup {a}
  BY <1>2, <1>6, <1>11, <1>13
<1>24. QED  BY <1>15, <1>20, <1>21, <1>22, <1>23

(* What is allocated leads nowhere.                                        *)
LEMMA FreshBlocks ==
  /\ Distributor \in Blocks /\ LeadsNowhere(Distributor) /\ Distributor.kind = "dist"
  /\ Distributor.next = error_place /\ \A i \in Indices : Points(Distributor, i) = error_place
  /\ Part \in Blocks /\ LeadsNowhere(Part) /\ Part.kind = "data"
  /\ \A name \in Names \cup {"root"}, type \in {0, 1}, perm \in {0, 1, 2} :
       LET c == Metadata(name, type, perm)
       IN  c \in Blocks /\ LeadsNowhere(c) /\ c.kind = "meta" /\ c.type = type
<1>1. error_place \in Addresses
  BY PlaceIsAddress
<1>2. /\ Distributor \in Dists /\ Distributor.kind = "dist" /\ Distributor.next = error_place
      /\ \A i \in Indices : Points(Distributor, i) = error_place
  BY <1>1, FileSystemAssumption DEF Distributor, Dists, Points, Indices
<1>3. Part \in Parts /\ Part.kind = "data"
  BY DEF Part, Parts
<1>4. \A name \in Names \cup {"root"}, type \in {0, 1}, perm \in {0, 1, 2} :
       LET c == Metadata(name, type, perm)
       IN  c \in Infos /\ c.kind = "meta" /\ c.type = type /\ Points(c, -1) = error_place
           /\ c.size = 0
  BY <1>1 DEF Metadata, Infos, Points
<1>5. QED  BY <1>2, <1>3, <1>4 DEF Blocks, LeadsNowhere, HasLink

(* A byte of the maps stands for no block: so the search for a block for   *)
(* metadata always ends.                                                   *)
LEMMA SomeByteIsFree ==
  ASSUME NEW s, MapsFit(s.disk)
  PROVE  FreeBytes(s, info_block_meta) # {}
<1>1. \A a \in Addresses : ByteOf(a) # files_start_address - 1
  BY Layout DEF Addresses, ByteOf
<1>2. files_start_address - 1 \notin s.disk.map
  BY <1>1 DEF MapsFit, BlockBytes
<1>3. files_start_address - 1 \in 0 .. BlockNum - 1
  BY Layout
<1>4. files_start_address - 1 \in FreeBytes(s, info_block_meta)
  BY <1>2, <1>3, Layout DEF FreeBytes
<1>5. QED  BY <1>4

(* What allocation gives: a block that nobody had, or no room.             *)
GivesTo(s, t, a, dirs, rank, c) ==
  /\ Good(t, dirs, rank) /\ Grows(s.disk, dirs, t.disk, dirs)
  /\ a \in Addresses /\ a \notin Marked(s.disk) \ {error_place}
  /\ \A x \in Marked(s.disk) : t.disk.blk[x] = s.disk.blk[x]
  /\ IF a = error_place THEN t.fault # "none"
     ELSE a \in Marked(t.disk) /\ t.disk.blk[a] = c /\ Unled(t.disk, a) /\ t.fault = s.fault

Gives(s, new, dirs, rank, c) == GivesTo(s, new.s, new.at, dirs, rank, c)

(* Nothing is given when the search runs over the end.                     *)
LEMMA OverrunGives ==
  ASSUME NEW s, NEW dirs, NEW rank, Good(s, dirs, rank), NEW c
  PROVE  Gives(s, Overrun(s), dirs, rank, c)
<1>1. Overrun(s).s = Fails(s, "corrupts") /\ Overrun(s).at = error_place
  BY DEF Overrun
<1>2. "corrupts" \in Faults \ {"none"}
  BY DEF Faults
<1>3. /\ Good(Fails(s, "corrupts"), dirs, rank) /\ Fails(s, "corrupts").disk = s.disk
      /\ Fails(s, "corrupts").fault # "none"
  BY <1>2, FailsGood
<1>4. GivesTo(s, Fails(s, "corrupts"), error_place, dirs, rank, c)
  BY <1>3, PlaceIsAddress, GrowsSame DEF GivesTo
<1>5. QED  BY <1>1, <1>4 DEF Gives

(* A block that was not marked is given, or the last one, which counts as  *)
(* no room.                                                                *)
LEMMA AllocatedGives ==
  ASSUME NEW s, NEW dirs, NEW rank, Good(s, dirs, rank),
         NEW a \in Addresses \ Marked(s.disk), NEW c \in Blocks, LeadsNowhere(c),
         c.kind = "meta" => a # error_place
  PROVE  /\ a # error_place => Gives(s, Allocated(s, a, c), dirs, rank, c)
         /\ a = error_place => Gives(s, [Allocated(s, a, c) EXCEPT !.s = Fails(@, "full")], dirs, rank, c)
<1> DEFINE t == Allocated(s, a, c).s
<1>1. Allocated(s, a, c) = [s |-> t, at |-> a]
  BY DEF Allocated
<1>2. s \in Calls(Blocks) /\ s.log \in Seq(Healthy) /\ Sane(s.disk, dirs, rank) /\ Rooted(s.disk) /\ Whole(s.disk)
  BY DEF Good
<1>3. /\ Good(t, dirs, rank) /\ t.fault = s.fault
      /\ Marked(t.disk) = Marked(s.disk) \cup {a} /\ t.disk.blk = [s.disk.blk EXCEPT ![a] = c]
      /\ Unled(t.disk, a) /\ Grows(s.disk, dirs, t.disk, dirs)
  BY <1>2, AllocatedGood
<1> HIDE DEF t
<1>4. s.disk.blk \in [Addresses -> Blocks]
  BY <1>2, CallTypes
<1>5. t.disk.blk[a] = c /\ \A x \in Marked(s.disk) : t.disk.blk[x] = s.disk.blk[x]
  BY <1>3, <1>4 DEF Marked
<1>6. ASSUME a # error_place
      PROVE  Gives(s, Allocated(s, a, c), dirs, rank, c)
  <2>1. GivesTo(s, t, a, dirs, rank, c)
    BY <1>3, <1>5, <1>6 DEF GivesTo
  <2>2. Allocated(s, a, c).s = t /\ Allocated(s, a, c).at = a
    BY <1>1
  <2>3. QED  BY <2>1, <2>2 DEF Gives
<1>7. ASSUME a = error_place
      PROVE  Gives(s, [Allocated(s, a, c) EXCEPT !.s = Fails(@, "full")], dirs, rank, c)
  <2> DEFINE new == [Allocated(s, a, c) EXCEPT !.s = Fails(@, "full")]
  <2>1. new.s = Fails(t, "full") /\ new.at = a
    BY <1>1
  <2> HIDE DEF new
  <2>2. "full" \in Faults \ {"none"}
    BY DEF Faults
  <2>3. Good(Fails(t, "full"), dirs, rank) /\ Fails(t, "full").disk = t.disk /\ Fails(t, "full").fault # "none"
    BY <1>3, <2>2, FailsGood
  <2>4. GivesTo(s, Fails(t, "full"), a, dirs, rank, c)
    BY <1>3, <1>5, <1>7, <2>3 DEF GivesTo
  <2>5. Gives(s, new, dirs, rank, c)
    BY <2>1, <2>4 DEF Gives
  <2>6. QED  BY <2>5 DEF new
<1>8. QED  BY <1>6, <1>7

(* create_file_distributor and create_file_part.                           *)
LEMMA FilesGive ==
  ASSUME NEW s, NEW dirs, NEW rank, Good(s, dirs, rank), NEW c \in Blocks, LeadsNowhere(c), c.kind # "meta"
  PROVE  Gives(s, FromFiles(s, c), dirs, rank, c)
<1> DEFINE a == find_empty_block(s, info_block_file)
<1>1. CASE FreeBytes(s, info_block_file) = {}
  BY <1>1, OverrunGives DEF FromFiles
<1>2. CASE FreeBytes(s, info_block_file) # {}
  <2>1. FromFiles(s, c) = RoomLeft(Allocated(s, a, c))
    BY <1>2 DEF FromFiles
  <2>2. a \in Addresses \ Marked(s.disk)
    BY <1>2, FilesBlockIsFree
  <2> HIDE DEF a
  <2>3. Allocated(s, a, c).at = a
    BY DEF Allocated
  <2>4. FromFiles(s, c) = IF a = error_place THEN [Allocated(s, a, c) EXCEPT !.s = Fails(@, "full")]
                          ELSE Allocated(s, a, c)
    BY <2>1, <2>3 DEF RoomLeft
  <2>5. QED  BY <2>2, <2>4, AllocatedGives
<1>3. QED  BY <1>1, <1>2

(* create_metadata.                                                        *)
LEMMA MetadataGiven ==
  ASSUME NEW s, NEW dirs, NEW rank, Good(s, dirs, rank),
         NEW name \in Names \cup {"root"}, NEW type \in {0, 1}, NEW perm \in {0, 1, 2}
  PROVE  Gives(s, create_metadata(s, name, type, perm), dirs, rank, Metadata(name, type, perm))
<1> DEFINE a == find_empty_block(s, info_block_meta)
           c == Metadata(name, type, perm)
           fits == a < files_start_address /\ Length(name) < NameSize
<1>1. CASE ~ fits
  <2>1. create_metadata(s, name, type, perm) = Overrun(s)
    BY <1>1 DEF create_metadata
  <2>2. QED  BY <2>1, OverrunGives
<1>2. CASE fits
  <2>1. create_metadata(s, name, type, perm) = Allocated(s, a, c)
    BY <1>2 DEF create_metadata
  <2>2. FreeBytes(s, info_block_meta) # {}
    BY SomeByteIsFree DEF Good, Sane
  <2>3. a < files_start_address
    BY <1>2
  <2>4. a \in metadata_start .. files_start_address - 1 /\ a \in Addresses \ Marked(s.disk)
    BY <2>2, <2>3, MetadataBlockIsFree
  <2> HIDE DEF a
  <2>5. a # error_place
    BY <2>4, Layout
  <2>6. c \in Blocks /\ LeadsNowhere(c)
    BY FreshBlocks
  <2> HIDE DEF c
  <2>7. Gives(s, Allocated(s, a, c), dirs, rank, c)
    BY <2>4, <2>5, <2>6, AllocatedGives
  <2>8. QED  BY <2>1, <2>7 DEF c
<1>3. QED  BY <1>1, <1>2

-----------------------------------------------------------------------------
(* The first distributor of a file or directory.                           *)
LEMMA FirstDistributorGood ==
  ASSUME NEW s, NEW dirs, NEW rank, Good(s, dirs, rank), NEW addr, IsMeta(s.disk, addr)
  PROVE  LET t == FirstDistributor(s, addr)
         IN  \E more : /\ Good(t, more, rank) /\ Grows(s.disk, dirs, t.disk, more)
                       /\ t.fault = "none" => Block(t, addr).dist # error_place
<1> DEFINE new == create_file_distributor(s)
           b == new.at
           c == [Block(new.s, addr) EXCEPT !.dist = b]
<1>1. Sane(s.disk, dirs, rank) /\ addr \in Marked(s.disk) /\ addr \in Addresses /\ addr # error_place
  BY DistOfMetadata DEF Good, IsMeta
<1>2. CASE Block(s, addr).dist # error_place
  <2>1. FirstDistributor(s, addr) = s
    BY <1>2 DEF FirstDistributor
  <2>2. Grows(s.disk, dirs, s.disk, dirs)
    BY GrowsSame
  <2>3. QED  BY <1>2, <2>1, <2>2
<1>3. CASE Block(s, addr).dist = error_place
  <2>1. FirstDistributor(s, addr) = Store(new.s, addr, c)
    BY <1>3 DEF FirstDistributor, LinkFirst
  <2>2. Gives(s, new, dirs, rank, Distributor)
    BY FreshBlocks, FilesGive DEF create_file_distributor
  <2>3. /\ Good(new.s, dirs, rank) /\ Sane(new.s.disk, dirs, rank)
        /\ Grows(s.disk, dirs, new.s.disk, dirs) /\ b \in Addresses
        /\ Block(new.s, addr) = Block(s, addr) /\ Block(s, addr) \in Infos
        /\ addr \in Marked(new.s.disk) /\ Whole(new.s.disk)
    BY <2>2, <1>1, DistOfMetadata DEF Gives, GivesTo, Good, Block, Grows
  <2>4. /\ c \in Infos /\ c.type = new.s.disk.blk[addr].type /\ c.dist = b
        /\ c.size = new.s.disk.blk[addr].size
        /\ new.s.disk.blk[addr].kind = "meta"
    BY <2>3 DEF Infos, Block
  <2>5. c \in Blocks /\ c.kind = "meta" /\ \A i \in Indices : HasLink(c, i) => i = -1 /\ Points(c, i) = b
    BY <2>4 DEF Infos, Blocks, HasLink, Points
  <2>6. c.type # 1 => Covers(new.s.disk, addr, c.size)
    BY <2>3, <2>4 DEF Whole, IsFile, IsMeta
  <2>7. \A free : KeepsLinks(c, new.s.disk.blk[addr], free)
    <3>1. new.s.disk.blk[addr].dist = error_place
      BY <1>3, <2>3 DEF Block
    <3>2. QED  BY <2>4, <3>1 DEF KeepsLinks, HasLink, Points
  <2> HIDE DEF new, c
  <2>8. CASE b = error_place
    <3>1. NoNewLink(c, new.s.disk.blk[addr])
      BY <2>5, <2>8 DEF NoNewLink
    <3>2. /\ Good(Store(new.s, addr, c), dirs, rank)
          /\ Grows(new.s.disk, dirs, Store(new.s, addr, c).disk, dirs)
      BY <2>3, <2>4, <2>5, <2>6, <2>7, <3>1, StoreKeepsGood
    <3>3. Store(new.s, addr, c).fault # "none"
      <4>1. new.s.fault # "none" /\ new.s \in Calls(Blocks)
        BY <2>2, <2>8 DEF Gives, GivesTo, Good
      <4>2. Store(new.s, addr, c).fault = new.s.fault
        BY <4>1, StoreFault
      <4>3. QED  BY <4>1, <4>2
    <3>4. Grows(s.disk, dirs, Store(new.s, addr, c).disk, dirs)
      BY <2>3, <3>2, GrowsOn
    <3>5. QED  BY <2>1, <3>2, <3>3, <3>4
  <2>9. CASE b # error_place
    <3> DEFINE more == IF Block(s, addr).type = 1 THEN dirs \cup {b} ELSE dirs
    <3>1. /\ b \in Marked(new.s.disk) /\ new.s.disk.blk[b] = Distributor /\ Unled(new.s.disk, b)
          /\ b \notin Marked(s.disk) /\ new.s.fault = s.fault
      BY <2>2, <2>9 DEF Gives, GivesTo
    <3>2. b \notin dirs
      BY <3>1, <1>1 DEF Sane, Distribute
    <3>3. Sane(new.s.disk, more, rank)
      BY <2>3, <2>9, <3>1, FreshBlocks, AdoptedSane
    <3>4. Good(new.s, more, rank) /\ Grows(s.disk, dirs, new.s.disk, more)
      <4>1. Grows(s.disk, dirs, new.s.disk, more)
        BY <2>3, <3>1 DEF Grows
      <4>2. Good(new.s, more, rank)
        BY <2>3, <3>3 DEF Good
      <4>3. QED  BY <4>1, <4>2
    <3>5. MayLead(new.s.disk, more, rank, addr, -1, b)
      <4>1. b # metadata_start
        BY <3>1 DEF Good, Rooted, IsMeta
      <4>2. new.s.disk.blk[b].kind = "dist"
        BY <3>1, FreshBlocks
      <4>3. Block(s, addr).type = new.s.disk.blk[addr].type
        BY <2>3 DEF Block
      <4>4. QED  BY <2>4, <3>1, <3>2, <4>1, <4>2, <4>3 DEF MayLead
    <3> HIDE DEF more
    <3>6. -1 \in Indices
      BY FileSystemAssumption DEF Indices
    <3>7. NewLink(c, new.s.disk.blk[addr], -1, b)
      BY <2>5 DEF NewLink
    <3>8. /\ Good(Store(new.s, addr, c), more, rank)
          /\ Grows(new.s.disk, more, Store(new.s, addr, c).disk, more)
          /\ Store(new.s, addr, c).disk.blk = [new.s.disk.blk EXCEPT ![addr] = c]
      BY ONLY <2>3, <2>4, <2>5, <2>6, <2>7, <3>1, <3>4, <3>5, <3>6, <3>7, StoreGood
    <3>9. Grows(s.disk, dirs, Store(new.s, addr, c).disk, more)
      BY <3>4, <3>8, GrowsOn
    <3>10. Block(Store(new.s, addr, c), addr).dist # error_place
      <4>1. new.s.disk.blk \in [Addresses -> Blocks]
        BY <2>3, SaneTypes
      <4>2. Block(Store(new.s, addr, c), addr) = c
        BY <3>8, <4>1, <1>1 DEF Block
      <4>3. QED  BY <4>2, <2>4, <2>9
    <3>11. QED  BY <2>1, <3>8, <3>9, <3>10
  <2>10. QED  BY <2>8, <2>9
<1>4. QED  BY <1>2, <1>3

(* The link in a slot.                                                     *)
LEMMA LinkedIn ==
  ASSUME NEW s, NEW dirs, NEW rank, Good(s, dirs, rank), NEW slot, SlotOf(s.disk, slot),
         NEW b \in Addresses
  PROVE  In(Link(s, slot, b), slot) = b /\ Link(s, slot, b).fault = s.fault
<1>1. PICK a, j \in Int :
        slot = <<a, j>> /\ IsDist(s.disk, a) /\ a # error_place /\ j \in 0 .. FileParts - 1
  BY DEF SlotOf
<1>2. slot[1] = a /\ slot[2] = j /\ a \in Addresses
  BY <1>1 DEF IsDist, Marked
<1>3. s.disk.blk \in [Addresses -> Blocks] /\ s \in Calls(Blocks)
  BY SaneTypes DEF Good
<1>4. s.disk.blk[a] \in Dists
  BY <1>1, <1>2, <1>3, KindsOfBlocks DEF IsDist
<1> DEFINE c == [s.disk.blk[a] EXCEPT !.part[j] = b]
<1>5. Link(s, slot, b) = Store(s, a, c)
  BY <1>2 DEF Link, Block
<1>6. c \in Dists /\ c.part[j] = b
  BY <1>1, <1>4 DEF Dists
<1> HIDE DEF c
<1>7. c \in Blocks
  BY <1>6 DEF Blocks
<1>8. Store(s, a, c).disk.blk = [s.disk.blk EXCEPT ![a] = c]
  BY <1>2, <1>3, <1>7, StoreKeepsMarks
<1>9. Store(s, a, c).disk.blk[a] = c
  BY <1>2, <1>3, <1>8
<1>10. Store(s, a, c).fault = s.fault
  BY <1>3, StoreFault
<1>11. QED  BY <1>2, <1>5, <1>6, <1>9, <1>10 DEF In, Block

(* A link is put into a slot.                                              *)
LEMMA LinkGood ==
  ASSUME NEW s, NEW dirs, NEW rank, Good(s, dirs, rank), NEW slot, SlotOf(s.disk, slot),
         NEW b \in Addresses, Unled(s.disk, b),
         b # error_place => MayLead(s.disk, dirs, rank, slot[1], slot[2], b),
         slot[1] \in dirs \/ In(s, slot) = error_place
  PROVE  LET t == Link(s, slot, b)
             c == [Block(s, slot[1]) EXCEPT !.part[slot[2]] = b]
         IN  /\ Good(t, dirs, rank) /\ Grows(s.disk, dirs, t.disk, dirs)
             /\ Marked(t.disk) = Marked(s.disk)
             /\ t.disk.blk = [s.disk.blk EXCEPT ![slot[1]] = c]
             /\ c.kind = "dist"
             /\ \A i \in Indices : Points(c, i) = IF i = slot[2] THEN b ELSE Points(s.disk.blk[slot[1]], i)
<1>1. PICK a, j \in Int :
        slot = <<a, j>> /\ IsDist(s.disk, a) /\ a # error_place /\ j \in 0 .. FileParts - 1
  BY DEF SlotOf
<1>2. slot[1] = a /\ slot[2] = j /\ j \in Indices /\ j >= 0 /\ a \in Addresses /\ a \in Marked(s.disk)
  BY <1>1 DEF Indices, IsDist, Marked
<1>3. s.disk.blk \in [Addresses -> Blocks] /\ s \in Calls(Blocks)
  BY SaneTypes DEF Good
<1>4. s.disk.blk[a] \in Dists /\ s.disk.blk[a].kind = "dist"
  BY <1>1, <1>2, <1>3, KindsOfBlocks DEF IsDist
<1> DEFINE old == s.disk.blk[a]
           c == [old EXCEPT !.part[j] = b]
<1>5. Link(s, slot, b) = Store(s, a, c)
  BY <1>2 DEF Link, Block
<1>6. /\ c \in Dists /\ c.kind = "dist" /\ c.next = old.next
      /\ \A i \in 0 .. FileParts - 1 : c.part[i] = IF i = j THEN b ELSE old.part[i]
  BY <1>1, <1>4 DEF Dists
<1>7. Block(s, slot[1]) = old
  BY <1>2 DEF Block
<1> HIDE DEF c
<1>8. \A i \in Indices : Points(c, i) = IF i = j THEN b ELSE Points(old, i)
  <2>1. ASSUME NEW i \in Indices
        PROVE  Points(c, i) = IF i = j THEN b ELSE Points(old, i)
    <3>1. i \in Int /\ (i >= 0 => i \in 0 .. FileParts - 1)
      BY FileSystemAssumption DEF Indices
    <3> HIDE DEF old
    <3>2. QED  BY <3>1, <1>1, <1>2, <1>4, <1>6 DEF Points, old
  <2>2. QED  BY <2>1
<1>9. NewLink(c, old, j, b)
  BY <1>8 DEF NewLink
<1>10. c \in Blocks /\ c.kind = old.kind /\ (c.kind = "meta" => c.type = old.type)
  BY <1>4, <1>6 DEF Blocks
<1>11. HasLink(c, j) /\ b # error_place => MayLead(s.disk, dirs, rank, a, j, b)
  BY <1>2
<1>12. KeepsLinks(c, old, a \in dirs)
  <2>1. Points(old, j) = error_place \/ a \in dirs
    BY <1>2 DEF In, Block, Points
  <2> HIDE DEF old
  <2>2. QED  BY <1>2, <1>8, <2>1 DEF KeepsLinks
<1>13. LET t == Store(s, a, c)
       IN  /\ Good(t, dirs, rank)
           /\ Marked(t.disk) = Marked(s.disk) /\ t.disk.blk = [s.disk.blk EXCEPT ![a] = c]
           /\ Grows(s.disk, dirs, t.disk, dirs)
  BY <1>2, <1>6, <1>9, <1>10, <1>11, <1>12, StoreGood
<1>14. [Block(s, slot[1]) EXCEPT !.part[slot[2]] = b] = c
  BY <1>2, <1>7 DEF c
<1>15. QED  BY <1>2, <1>5, <1>6, <1>8, <1>13, <1>14

(* A block that allocation gave becomes an entry of a directory, or a part *)
(* of a file.                                                              *)
LEMMA EnterGood ==
  ASSUME NEW s, NEW dirs, NEW rank, Good(s, dirs, rank), NEW slot, SlotOf(s.disk, slot),
         slot[1] \in dirs \/ In(s, slot) = error_place,
         NEW c, c.kind = IF slot[1] \in dirs THEN "meta" ELSE "data",
         NEW new, Gives(s, new, dirs, rank, c)
  PROVE  LET t == Enter(new, slot)
         IN  /\ Good(t, dirs, rank) /\ Grows(s.disk, dirs, t.disk, dirs)
             /\ t.fault = "none" => In(t, slot) # error_place
<1> DEFINE u == new.s
           b == new.at
<1>1. GivesTo(s, u, b, dirs, rank, c)
  BY DEF Gives
<1>2. Good(u, dirs, rank) /\ Grows(s.disk, dirs, u.disk, dirs) /\ b \in Addresses
  BY <1>1 DEF GivesTo
<1>3. Enter(new, slot) = IF u.fault # "none" THEN u ELSE Link(u, slot, b)
  BY DEF Enter
<1> HIDE DEF u, b
<1>4. CASE u.fault # "none"
  BY <1>2, <1>3, <1>4
<1>5. CASE u.fault = "none"
  <2>1. /\ b # error_place /\ b \notin Marked(s.disk) /\ b \in Marked(u.disk)
        /\ u.disk.blk[b] = c /\ Unled(u.disk, b)
    BY <1>1, <1>5 DEF GivesTo
  <2>2. PICK a, j \in Int :
          slot = <<a, j>> /\ IsDist(s.disk, a) /\ a # error_place /\ j \in 0 .. FileParts - 1
    BY DEF SlotOf
  <2>3. IsDist(u.disk, a)
    BY <1>2, <2>2 DEF IsDist, Grows
  <2>4. SlotOf(u.disk, slot)
    BY <2>2, <2>3 DEF SlotOf
  <2>5. b # metadata_start
    BY <2>1 DEF Good, Rooted, IsMeta
  <2>6. slot[1] = a /\ slot[2] = j /\ j >= 0
    BY <2>2
  <2>7. MayLead(u.disk, dirs, rank, slot[1], slot[2], b)
    BY <2>1, <2>5, <2>6 DEF MayLead
  <2>8. slot[1] \in dirs \/ In(u, slot) = error_place
    BY <1>1, <2>2, <2>6 DEF GivesTo, In, Block, IsDist
  <2>9. LET t == Link(u, slot, b)
        IN  Good(t, dirs, rank) /\ Grows(u.disk, dirs, t.disk, dirs) /\ In(t, slot) = b
    <3>1. Good(u, dirs, rank) /\ SlotOf(u.disk, slot) /\ b \in Addresses /\ Unled(u.disk, b)
          /\ MayLead(u.disk, dirs, rank, slot[1], slot[2], b)
          /\ (slot[1] \in dirs \/ In(u, slot) = error_place)
      BY <1>2, <2>1, <2>4, <2>7, <2>8
    <3>2. Good(Link(u, slot, b), dirs, rank)
      BY ONLY <3>1, LinkGood
    <3>3. Grows(u.disk, dirs, Link(u, slot, b).disk, dirs)
      BY ONLY <3>1, LinkGood
    <3>4. In(Link(u, slot, b), slot) = b
      BY ONLY <3>1, LinkedIn
    <3>5. QED  BY <3>2, <3>3, <3>4
  <2>10. Grows(s.disk, dirs, Link(u, slot, b).disk, dirs)
    BY <1>2, <2>9, GrowsOn
  <2>11. QED  BY <1>3, <1>5, <2>1, <2>9, <2>10
<1>6. QED  BY <1>4, <1>5

(* A further distributor ranks behind the last one, and is of its kind.    *)
LEMMA NextDistributorGood ==
  ASSUME NEW s, NEW dirs, NEW rank, Good(s, dirs, rank), NEW d, IsDist(s.disk, d), d # error_place,
         Block(s, d).next = error_place
  PROVE  LET t == NextDistributor(s, d)
         IN  \E more, order :
               /\ Good(t, more, order) /\ Grows(s.disk, dirs, t.disk, more)
               /\ t.fault = "none" =>
                    LET n == Block(t, d).next
                    IN  n # error_place /\ IsDist(t.disk, n) /\ (n \in more <=> d \in dirs)
<1> DEFINE new == create_file_distributor(s)
           u == new.s
           b == new.at
           old == u.disk.blk[d]
           c == [old EXCEPT !.next = b]
           t == Store(u, d, c)
<1>1. NextDistributor(s, d) = t
  BY DEF NextDistributor, LinkNext, Block
<1>2. GivesTo(s, u, b, dirs, rank, Distributor)
  BY FreshBlocks, FilesGive DEF create_file_distributor, Gives
<1> HIDE DEF u, b
<1>3. /\ Good(u, dirs, rank) /\ Sane(u.disk, dirs, rank) /\ Grows(s.disk, dirs, u.disk, dirs) /\ b \in Addresses
      /\ u \in Calls(Blocks) /\ u.disk.blk \in [Addresses -> Blocks] /\ rank \in [Addresses -> Nat]
  BY <1>2, SaneTypes DEF GivesTo, Good, Sane
<1>4. IsDist(u.disk, d) /\ d \in Marked(u.disk) /\ d \in Marked(s.disk) /\ d \in Addresses
  BY <1>3 DEF IsDist, Grows, Marked
<1>5. old \in Dists /\ old.kind = "dist"
  BY <1>3, <1>4, KindsOfBlocks DEF IsDist
<1>6. c \in Dists /\ c.kind = "dist" /\ c.next = b /\ c.part = old.part
  BY <1>3, <1>5 DEF Dists
<1> HIDE DEF c, t
<1>7. c \in Blocks /\ c.kind = u.disk.blk[d].kind /\ (c.kind = "meta" => c.type = u.disk.blk[d].type)
  BY <1>5, <1>6 DEF Blocks
<1>8. -1 \in Indices /\ ~ (-1 >= 0) /\ \A i \in Indices : i \in Int /\ (i = -1 \/ i >= 0)
  BY FileSystemAssumption DEF Indices
<1>9. \A i \in Indices : Points(c, i) = IF i = -1 THEN b ELSE Points(old, i)
  BY <1>5, <1>6, <1>8 DEF Points
<1>10. \A free : KeepsLinks(c, u.disk.blk[d], free)
  <2>1. Points(old, -1) = error_place
    BY <1>2, <1>4, <1>5, <1>8 DEF GivesTo, Block, Points
  <2>2. QED  BY <1>9, <2>1 DEF KeepsLinks
<1>11. t.fault = u.fault
  BY <1>3, StoreFault DEF t
<1>12. CASE b = error_place
  <2>1. NoNewLink(c, u.disk.blk[d])
    BY <1>9, <1>12 DEF NoNewLink
  <2>2. Good(t, dirs, rank) /\ Grows(u.disk, dirs, t.disk, dirs)
    BY <1>3, <1>4, <1>6, <1>7, <1>10, <2>1, StoreKeepsGood DEF t
  <2>3. Grows(s.disk, dirs, t.disk, dirs)
    BY <1>3, <2>2, GrowsOn
  <2>4. t.fault # "none"
    BY <1>2, <1>11, <1>12 DEF GivesTo
  <2>5. QED  BY <1>1, <2>2, <2>3, <2>4
<1>13. CASE b # error_place
  <2> DEFINE more == IF d \in dirs THEN dirs \cup {b} ELSE dirs
             order == [rank EXCEPT ![b] = rank[d] + 1]
  <2>1. /\ b \in Marked(u.disk) /\ u.disk.blk[b] = Distributor /\ Unled(u.disk, b)
        /\ b \notin Marked(s.disk) /\ u.fault = s.fault
    BY <1>2, <1>13 DEF GivesTo
  <2>2. b \notin dirs /\ b # d /\ b # metadata_start
    BY <2>1, <1>4 DEF Good, Sane, Distribute, Rooted, IsMeta
  <2>3. rank[d] + 1 \in Nat /\ order[b] = rank[d] + 1 /\ order[d] = rank[d] /\ rank[d] \in Nat
    BY <1>3, <1>4, <2>2
  <2>4. Sane(u.disk, more, rank)
    BY <1>3, <1>13, <2>1, FreshBlocks, AdoptedSane
  <2> HIDE DEF more
  <2>5. Sane(u.disk, more, order)
    BY <2>1, <2>3, <2>4, FreshBlocks, RankedSane
  <2>6. Good(u, more, order)
    BY <1>3, <2>5 DEF Good
  <2>7. Grows(s.disk, dirs, u.disk, more)
    BY <1>3, <2>1 DEF Grows, more
  <2>8. MayLead(u.disk, more, order, d, -1, b)
    <3>1. u.disk.blk[b].kind = "dist" /\ u.disk.blk[d].kind = "dist"
      BY <2>1, <1>5, FreshBlocks
    <3>2. b \in more <=> d \in more
      BY <2>2 DEF more
    <3>3. order[d] < order[b]
      BY <2>3
    <3> HIDE DEF order
    <3>4. QED  BY <3>1, <3>2, <3>3, <2>1, <2>2, <1>8 DEF MayLead
  <2> HIDE DEF order
  <2>9. NewLink(c, u.disk.blk[d], -1, b)
    BY <1>9 DEF NewLink
  <2>10. /\ Good(t, more, order) /\ Grows(u.disk, more, t.disk, more)
         /\ t.disk.blk = [u.disk.blk EXCEPT ![d] = c] /\ Marked(t.disk) = Marked(u.disk)
    BY <1>4, <1>6, <1>7, <1>8, <1>10, <2>1, <2>6, <2>8, <2>9, StoreGood DEF t
  <2>11. Grows(s.disk, dirs, t.disk, more)
    BY <2>7, <2>10, GrowsOn
  <2>12. Block(t, d).next = b /\ IsDist(t.disk, b)
    <3>1. t.disk.blk[d] = c /\ t.disk.blk[b] = Distributor
      BY <2>10, <2>1, <2>2, <1>3, <1>4
    <3>2. QED  BY <3>1, <1>6, <2>1, <2>10, FreshBlocks DEF Block, IsDist
  <2>13. b \in more <=> d \in dirs
    BY <2>2 DEF more
  <2>14. QED  BY <1>1, <1>13, <2>10, <2>11, <2>12, <2>13
<1>14. QED  BY <1>12, <1>13

(* A call that is good is so whatever it returns.                          *)
LEMMA GoodIsFine ==
  ASSUME NEW s, NEW dirs, NEW rank, Good(s, dirs, rank)
  PROVE  Fine(s) /\ Fine(Lost(s)) /\ \A how \in Faults \ {"none"} : Fine(Fails(s, how))
<1>1. "corrupts" \in Faults
  BY DEF Faults
<1>2. Good(Lost(s), dirs, rank)
  BY <1>1, FaultSetGood DEF Lost
<1>3. \A how \in Faults \ {"none"} : Good(Fails(s, how), dirs, rank)
  BY FailsGood
<1>4. QED  BY <1>2, <1>3 DEF Fine

(* create_file_dir_addr.                                                   *)
LEMMA CreatedIn ==
  ASSUME NEW s, NEW dirs, NEW rank, Good(s, dirs, rank), NEW slot, SlotOf(s.disk, slot), slot[1] \in dirs,
         NEW name \in Names, NEW type \in {0, 1}, NEW perm \in {0, 1, 2}
  PROVE  Good(CreateIn(s, slot, name, type, perm), dirs, rank)
<1> DEFINE new == create_metadata(s, name, type, perm)
           c == Metadata(name, type, perm)
<1>1. Gives(s, new, dirs, rank, c) /\ c.kind = "meta"
  BY MetadataGiven, FreshBlocks
<1> HIDE DEF new, c
<1>2. Good(Enter(new, slot), dirs, rank)
  BY <1>1, EnterGood
<1>3. QED  BY <1>2 DEF CreateIn, new

(* The last distributor leads to none.                                     *)
LEMMA LastLeadsNowhere ==
  ASSUME NEW s, NEW dirs, NEW rank, Good(s, dirs, rank), NEW d, IsDist(s.disk, d), d # error_place
  PROVE  Block(s, Chain(s, d)[Len(Chain(s, d))]).next = error_place
<1>1. Sane(s.disk, dirs, rank)
  BY DEF Good
<1>2. QED  BY <1>1, ChainOfDistributors

(* In the first slot that is empty, or behind a further distributor.       *)
LEMMA CreatedAmong ==
  ASSUME NEW s, NEW dirs, NEW rank, Good(s, dirs, rank), NEW d, IsDist(s.disk, d), d # error_place, d \in dirs,
         NEW name \in Names, NEW type \in {0, 1}, NEW perm \in {0, 1, 2}
  PROVE  Fine(CreateAmong(s, Chain(s, d), name, type, perm))
<1> DEFINE chain == Chain(s, d)
           slots == Slots(chain)
           I == {i \in 1 .. Len(slots) : In(s, slots[i]) = error_place}
           i == SelectInSeq(slots, LAMBDA slot : In(s, slot) = error_place)
           last == chain[Len(chain)]
           t == NextDistributor(s, last)
<1>1. Sane(s.disk, dirs, rank)
  BY DEF Good
<1>2. /\ Len(slots) \in Nat /\ DOMAIN slots = 1 .. Len(slots)
      /\ \A k \in DOMAIN slots : SlotOf(s.disk, slots[k]) /\ (slots[k][1] \in dirs <=> d \in dirs)
  BY <1>1, SlotsBehind
<1>3. IsDist(s.disk, last) /\ last # error_place /\ last \in dirs /\ Block(s, last).next = error_place
  <2>1. Block(s, last).next = error_place
    BY LastLeadsNowhere
  <2>2. /\ chain \in Seq(Addresses) /\ Len(chain) > 0
        /\ \A k \in 1 .. Len(chain) : /\ chain[k] # error_place /\ IsDist(s.disk, chain[k])
                                      /\ chain[k] \in dirs <=> d \in dirs
    BY <1>1, ChainOfDistributors
  <2>3. Len(chain) \in 1 .. Len(chain)
    <3> HIDE DEF chain
    <3>1. QED  BY <2>2
  <2>4. last = chain[Len(chain)]
    OBVIOUS
  <2> HIDE DEF chain, last
  <2>5. QED  BY <2>1, <2>2, <2>3, <2>4
<1>4. Last(chain) = last
  BY DEF Last
<1>5. i = IF I # {} THEN Min(I) ELSE 0
  BY DEF SelectInSeq
<1>6. CreateAmong(s, chain, name, type, perm) =
        IF s.fault # "none" THEN Lost(s)
        ELSE IF i # 0 THEN CreateIn(s, slots[i], name, type, perm)
        ELSE CreateBehind(t, last, name, type, perm)
  BY <1>4 DEF CreateAmong
<1>7. i # 0 => i \in DOMAIN slots
  <2> HIDE DEF i, slots
  <2>1. I \in SUBSET Nat
    BY <1>2
  <2>2. I # {} => Min(I) \in I
    <3> HIDE DEF I
    <3>1. QED  BY <2>1, MinIsIn
  <2>3. QED  BY <1>2, <1>5, <2>2
<1>8. PICK more, order :
        /\ Good(t, more, order) /\ Grows(s.disk, dirs, t.disk, more)
        /\ t.fault = "none" =>
             LET n == Block(t, last).next
             IN  n # error_place /\ IsDist(t.disk, n) /\ (n \in more <=> last \in dirs)
  <2> HIDE DEF last
  <2>1. QED  BY <1>3, NextDistributorGood
<1> HIDE DEF chain, slots, I, i, last, t
<1>9. Fine(Lost(s))
  BY GoodIsFine
<1>10. ASSUME i # 0
       PROVE  Fine(CreateIn(s, slots[i], name, type, perm))
  <2>1. SlotOf(s.disk, slots[i]) /\ slots[i][1] \in dirs
    BY <1>2, <1>7, <1>10
  <2>2. Good(CreateIn(s, slots[i], name, type, perm), dirs, rank)
    BY <2>1, CreatedIn
  <2>3. QED  BY <2>2 DEF Fine
<1>11. Fine(CreateBehind(t, last, name, type, perm))
  <2> DEFINE n == Block(t, last).next
             slot == <<n, 0>>
  <2>1. CASE t.fault # "none"
    BY <2>1, <1>8, GoodIsFine DEF CreateBehind
  <2>2. CASE t.fault = "none"
    <3>1. n # error_place /\ IsDist(t.disk, n) /\ n \in more
      BY <1>3, <1>8, <2>2
    <3>2. n \in Int /\ 0 \in Int /\ 0 \in 0 .. FileParts - 1
      BY <3>1, Layout, FileSystemAssumption DEF IsDist, Marked, Addresses
    <3> HIDE DEF n
    <3>3. SlotOf(t.disk, slot) /\ slot[1] = n
      BY <3>1, <3>2 DEF SlotOf
    <3> HIDE DEF slot
    <3>4. Good(CreateIn(t, slot, name, type, perm), more, order)
      BY <1>8, <3>1, <3>3, CreatedIn
    <3>5. CreateBehind(t, last, name, type, perm) = CreateIn(t, slot, name, type, perm)
      BY <2>2 DEF CreateBehind, slot, n
    <3>6. QED  BY <3>4, <3>5 DEF Fine
  <2>3. QED  BY <2>1, <2>2
<1>12. QED  BY <1>6, <1>9, <1>10, <1>11 DEF chain

(* In a directory, which may have no distributor yet.                      *)
LEMMA CreatesGood ==
  ASSUME NEW s, NEW dirs, NEW rank, Good(s, dirs, rank), NEW dir, dir = error_place \/ IsMeta(s.disk, dir),
         NEW name \in Names, NEW type \in {0, 1}, NEW perm \in {0, 1, 2}
  PROVE  Fine(create_file_dir_addr(s, dir, name, type, perm))
<1>0. "hangs" \in Faults \ {"none"} /\ "corrupts" \in Faults \ {"none"}
  BY DEF Faults
<1>1. CASE dir = error_place
  BY <1>0, <1>1, GoodIsFine DEF create_file_dir_addr
<1>2. CASE dir # error_place /\ Block(s, dir).type # 1
  BY <1>0, <1>2, GoodIsFine DEF create_file_dir_addr
<1>3. CASE dir # error_place /\ Block(s, dir).type = 1
  <2> DEFINE t == FirstDistributor(s, dir)
             d == Block(t, dir).dist
  <2>1. create_file_dir_addr(s, dir, name, type, perm) = CreateAmong(t, Chain(t, d), name, type, perm)
    BY <1>3 DEF create_file_dir_addr, CreateInside
  <2>2. IsMeta(s.disk, dir)
    BY <1>3
  <2>3. PICK more : /\ Good(t, more, rank) /\ Grows(s.disk, dirs, t.disk, more)
                    /\ t.fault = "none" => Block(t, dir).dist # error_place
    BY <2>2, FirstDistributorGood
  <2> HIDE DEF t
  <2>4. IsMeta(t.disk, dir) /\ Block(t, dir).type = 1
    BY <1>3, <2>2, <2>3 DEF IsMeta, Grows, Block
  <2>5. Sane(t.disk, more, rank)
    BY <2>3 DEF Good
  <2>6. (d = error_place \/ IsDist(t.disk, d)) /\ (d \in more <=> d # error_place)
    BY <2>4, <2>5, DistOfMetadata
  <2> HIDE DEF d
  <2>7. CASE t.fault = "none"
    <3>1. d # error_place /\ IsDist(t.disk, d) /\ d \in more
      BY <2>3, <2>6, <2>7 DEF d
    <3>2. Fine(CreateAmong(t, Chain(t, d), name, type, perm))
      BY <2>3, <3>1, CreatedAmong
    <3>3. QED  BY <2>1, <3>2
  <2>8. CASE t.fault # "none"
    <3>1. CreateAmong(t, Chain(t, d), name, type, perm) = Lost(t)
      BY <2>8 DEF CreateAmong
    <3>2. QED  BY <2>1, <2>3, <3>1, GoodIsFine
  <2>9. QED  BY <2>7, <2>8
<1>4. QED  BY <1>1, <1>2, <1>3

-----------------------------------------------------------------------------
(* delete_from_dir: afterwards nothing leads to the entry.                 *)
LEMMA UnlinksGood ==
  ASSUME NEW s, NEW dirs, NEW rank, Good(s, dirs, rank), s.fault = "none",
         NEW dir, dir = error_place \/ IsMeta(s.disk, dir),
         NEW addr, IsMeta(s.disk, addr)
  PROVE  LET t == delete_from_dir(s, dir, addr)
         IN  /\ Good(t, dirs, rank)
             /\ t.fault = "none" =>
                  IsMeta(t.disk, addr) /\ Unled(t.disk, addr) /\ addr # metadata_start
<1> DEFINE x == Block(s, dir).dist
           slots == Slots(Chain(s, x))
           I == {i \in 1 .. Len(slots) : In(s, slots[i]) = addr}
           i == SelectInSeq(slots, LAMBDA slot : In(s, slot) = addr)
<1>1. Sane(s.disk, dirs, rank) /\ "hangs" \in Faults \ {"none"}
  BY DEF Good, Faults
<1>2. delete_from_dir(s, dir, addr) =
        IF dir = error_place \/ i = 0 THEN Fails(s, "hangs") ELSE Link(s, slots[i], error_place)
  BY DEF delete_from_dir
<1>3. i = IF I # {} THEN Min(I) ELSE 0
  BY DEF SelectInSeq
<1>4. CASE dir = error_place \/ i = 0
  BY <1>1, <1>2, <1>4, FailsGood
<1>5. CASE ~ (dir = error_place \/ i = 0)
  <2>1. x = error_place \/ IsDist(s.disk, x)
    BY <1>1, <1>5, DistOfMetadata
  <2> HIDE DEF x
  <2>2. /\ Len(slots) \in Nat /\ DOMAIN slots = 1 .. Len(slots)
        /\ \A k \in DOMAIN slots : SlotOf(s.disk, slots[k]) /\ (slots[k][1] \in dirs <=> x \in dirs)
    BY <1>1, <2>1, SlotsBehind
  <2> HIDE DEF i, slots
  <2>3. i \in I
    <3>1. I \in SUBSET Nat
      BY <2>2
    <3>2. I # {} => Min(I) \in I
      <4> HIDE DEF I
      <4>1. QED  BY <3>1, MinIsIn
    <3> HIDE DEF I
    <3>3. QED  BY <1>3, <1>5, <3>2
  <2> DEFINE slot == slots[i]
             t == Link(s, slot, error_place)
  <2>4. SlotOf(s.disk, slot) /\ In(s, slot) = addr
    BY <2>2, <2>3
  <2> HIDE DEF slot
  <2>5. addr # error_place
    BY <1>1, DistOfMetadata
  <2>6. MayLead(s.disk, dirs, rank, slot[1], slot[2], addr)
    BY <1>1, <2>4, <2>5, SlotLeads
  <2>7. error_place \in Addresses /\ Unled(s.disk, error_place)
    BY PlaceIsAddress DEF Unled
  <2> DEFINE c == [Block(s, slot[1]) EXCEPT !.part[slot[2]] = error_place]
  <2>8. slot[1] \in dirs
    <3>1. slot[2] >= 0
      BY <2>4 DEF SlotOf
    <3>2. s.disk.blk[addr].kind = "meta"
      BY DEF IsMeta
    <3>3. QED  BY <2>6, <3>1, <3>2 DEF MayLead
  <2>9. /\ Good(t, dirs, rank) /\ Grows(s.disk, dirs, t.disk, dirs)
        /\ Marked(t.disk) = Marked(s.disk) /\ t.disk.blk = [s.disk.blk EXCEPT ![slot[1]] = c]
        /\ c.kind = "dist"
        /\ \A k \in Indices : Points(c, k) = IF k = slot[2] THEN error_place ELSE Points(s.disk.blk[slot[1]], k)
    <3> HIDE DEF c
    <3>1. QED  BY <2>4, <2>7, <2>8, LinkGood DEF c
  <2>10. PICK a, j \in Int :
           slot = <<a, j>> /\ IsDist(s.disk, a) /\ a # error_place /\ j \in 0 .. FileParts - 1
    BY <2>4 DEF SlotOf
  <2>11. slot[1] = a /\ slot[2] = j /\ j \in Indices /\ j >= 0 /\ a \in Addresses /\ a \in Marked(s.disk)
    BY <2>10 DEF Indices, IsDist, Marked
  <2> HIDE DEF c, t
  <2>12. s.disk.blk \in [Addresses -> Blocks]
    BY <1>1, SaneTypes
  <2>13. \A y \in Marked(s.disk) : t.disk.blk[y] = IF y = a THEN c ELSE s.disk.blk[y]
    BY <2>9, <2>11, <2>12 DEF Marked
  <2>14. Points(s.disk.blk[a], j) = addr /\ HasLink(s.disk.blk[a], j) /\ s.disk.blk[a].kind = "dist"
    BY <2>4, <2>10, <2>11 DEF In, Block, Points, HasLink, IsDist
  <2>15. Unled(t.disk, addr)
    <3>1. SUFFICES ASSUME NEW y \in Marked(s.disk), NEW k \in Indices, HasLink(t.disk.blk[y], k),
                          Points(t.disk.blk[y], k) = addr
                   PROVE  FALSE
      BY <2>9 DEF Unled
    <3>2. CASE y = a
      <4>1. Points(c, k) = addr /\ HasLink(c, k) /\ k # j
        BY <3>1, <3>2, <2>5, <2>9, <2>11, <2>13
      <4>2. Points(s.disk.blk[a], k) = addr /\ HasLink(s.disk.blk[a], k)
        BY <4>1, <2>9, <2>11, <2>14 DEF HasLink
      <4>3. QED  BY <4>1, <4>2, <2>5, <2>11, <2>14, <1>1 DEF Sane, LinksDiffer
    <3>3. CASE y # a
      <4>1. Points(s.disk.blk[y], k) = addr /\ HasLink(s.disk.blk[y], k)
        BY <3>1, <3>3, <2>13
      <4>2. LinksDiffer(s.disk)
        BY <1>1 DEF Sane
      <4>3. a \in Marked(s.disk) /\ j \in Indices /\ addr # error_place
        BY <2>5, <2>11, <2>14
      <4>4. QED  BY <3>3, <4>1, <4>2, <4>3, <2>14 DEF LinksDiffer
    <3>4. QED  BY <3>2, <3>3
  <2>16. IsMeta(t.disk, addr) /\ addr # metadata_start
    BY <2>6, <2>9 DEF MayLead, IsMeta, Grows
  <2>17. delete_from_dir(s, dir, addr) = t
    BY <1>2, <1>5 DEF t, slot
  <2>18. QED  BY <2>9, <2>15, <2>16, <2>17
<1>6. QED  BY <1>4, <1>5

(* update_info_space(a, 0) of a block that nothing leads to.               *)
LEMMA MarkFreeGood ==
  ASSUME NEW s, NEW dirs, NEW rank, Good(s, dirs, rank),
         NEW a \in Marked(s.disk), Unled(s.disk, a), a # metadata_start
  PROVE  LET t == MarkFree(s, a)
         IN  /\ Good(t, dirs \ {a}, rank)
             /\ Marked(t.disk) = Marked(s.disk) \ {a}
             /\ \A x \in Marked(s.disk) \ {a} : t.disk.blk[x] = s.disk.blk[x]
             /\ \A b \in Addresses : Unled(s.disk, b) => Unled(t.disk, b)
             /\ \A i \in Indices : HasLink(s.disk.blk[a], i) => Unled(t.disk, Points(s.disk.blk[a], i))
<1> DEFINE e == [s.disk EXCEPT !.map = s.disk.map \ {ByteOf(a)}, !.blk = [s.disk.blk EXCEPT ![a] = Blank]]
<1>1. /\ s \in Calls(Blocks) /\ s.log \in Seq(Healthy) /\ Sane(s.disk, dirs, rank) /\ Rooted(s.disk) /\ Whole(s.disk)
      /\ a \in Addresses /\ s.disk.blk \in [Addresses -> Blocks] /\ Blank \in Blocks
  BY CallTypes DEF Good, Marked, Blocks
<1>2. e \in Disks(Blocks) /\ e.map = s.disk.map \ {ByteOf(a)} /\ e.blk = [s.disk.blk EXCEPT ![a] = Blank]
  BY <1>1, CallTypes DEF Disks
<1>3. MarkFree(s, a) = Wrote(s, e)
  BY DEF MarkFree
<1> HIDE DEF e
<1>4. Marked(e) = Marked(s.disk) \ {a}
  BY <1>1, <1>2, OneByteEach DEF Marked
<1>5. \A x \in Addresses \ {a} : e.blk[x] = s.disk.blk[x]
  BY <1>1, <1>2
<1>6. MapsFit(e)
  BY <1>1, <1>2 DEF Sane, MapsFit
<1>7. /\ Sane(e, dirs \ {a}, rank)
      /\ \A b \in Addresses : Unled(s.disk, b) => Unled(e, b)
      /\ \A i \in Indices : HasLink(s.disk.blk[a], i) => Unled(e, Points(s.disk.blk[a], i))
  BY <1>1, <1>2, <1>4, <1>5, <1>6, FreedSane
<1>8. Rooted(e)
  BY <1>1, <1>4, <1>5 DEF Rooted, IsMeta, Marked
<1>9. Whole(e)
  BY <1>1, <1>4, <1>5, WholeFreed DEF Marked
<1>10. Good(Wrote(s, e), dirs \ {a}, rank) /\ Wrote(s, e).disk = e
  BY <1>1, <1>2, <1>7, <1>8, <1>9, WroteHealthy
<1>11. QED  BY <1>3, <1>4, <1>5, <1>7, <1>10 DEF Marked

(* delete_file: the file, its distributor, and what that led to.           *)
LEMMA DeletesGood ==
  ASSUME NEW s, NEW dirs, NEW rank, Good(s, dirs, rank),
         NEW addr, IsMeta(s.disk, addr), Unled(s.disk, addr), addr # metadata_start
  PROVE  Fine(delete_file(s, addr))
<1> DEFINE d == Block(s, addr).dist
           part(i) == Block(s, d).part[i]
           first == MarkFree(MarkFree(s, addr), d)
           u == MarkFree(s, addr)
<1>1. /\ Sane(s.disk, dirs, rank) /\ addr \in Marked(s.disk) /\ addr \in Addresses /\ addr # error_place
      /\ s.disk.blk[addr].kind = "meta" /\ s.disk.blk \in [Addresses -> Blocks]
  BY DistOfMetadata, SaneTypes DEF Good, IsMeta
<1>2. /\ Good(u, dirs \ {addr}, rank)
      /\ Marked(u.disk) = Marked(s.disk) \ {addr}
      /\ \A x \in Marked(s.disk) \ {addr} : u.disk.blk[x] = s.disk.blk[x]
      /\ \A b \in Addresses : Unled(s.disk, b) => Unled(u.disk, b)
      /\ \A i \in Indices : HasLink(s.disk.blk[addr], i) => Unled(u.disk, Points(s.disk.blk[addr], i))
  BY <1>1, MarkFreeGood
<1>3. CASE d = error_place
  <2>1. delete_file(s, addr) = u
    BY <1>3 DEF delete_file
  <2>2. QED  BY <2>1, <1>2 DEF Fine
<1>4. CASE d # error_place /\ Block(s, d).next # error_place
  <2>1. delete_file(s, addr) = Fails(s, "hangs")
    BY <1>4 DEF delete_file
  <2>2. "hangs" \in Faults \ {"none"}
    BY DEF Faults
  <2>3. QED  BY <2>1, <2>2, GoodIsFine
<1>5. CASE d # error_place /\ Block(s, d).next = error_place
  <2> HIDE DEF u
  <2>1. IsDist(s.disk, d) /\ d \in Marked(s.disk) /\ d \in Addresses /\ s.disk.blk[d].kind = "dist"
    BY <1>1, <1>5, DistOfMetadata DEF IsDist, Marked
  <2>2. -1 \in Indices /\ HasLink(s.disk.blk[addr], -1) /\ Points(s.disk.blk[addr], -1) = d
    BY <1>1, FileSystemAssumption DEF Indices, HasLink, Points, Block
  <2>3. d # addr /\ d # metadata_start /\ d \in Marked(u.disk) /\ Unled(u.disk, d) /\ u.disk.blk[d] = s.disk.blk[d]
    <3>1. MayLead(s.disk, dirs, rank, addr, -1, d)
      BY <1>1, <1>5, <2>2 DEF Sane, LinksLead
    <3>2. d # addr /\ d # metadata_start
      BY <3>1, <1>1, <2>1 DEF MayLead
    <3>3. QED  BY <3>2, <1>2, <2>1, <2>2
  <2> HIDE DEF d
  <2>4. /\ Good(first, (dirs \ {addr}) \ {d}, rank)
        /\ Marked(first.disk) = Marked(u.disk) \ {d}
        /\ \A i \in Indices : HasLink(u.disk.blk[d], i) => Unled(first.disk, Points(u.disk.blk[d], i))
    <3>1. Good(u, dirs \ {addr}, rank) /\ d \in Marked(u.disk) /\ Unled(u.disk, d) /\ d # metadata_start
      BY <1>2, <2>3
    <3>2. first = MarkFree(u, d)
      BY DEF u
    <3> HIDE DEF first
    <3>3. QED  BY <3>1, <3>2, MarkFreeGood
  <2> HIDE DEF first
  <2>5. \A i \in 0 .. FileParts - 1 : /\ i \in Indices /\ HasLink(s.disk.blk[d], i)
                                      /\ Points(s.disk.blk[d], i) = part(i) /\ part(i) \in Addresses
    <3>1. s.disk.blk[d] \in Dists
      BY <1>1, <2>1, KindsOfBlocks
    <3>2. ASSUME NEW i \in 0 .. FileParts - 1
          PROVE  /\ i \in Indices /\ HasLink(s.disk.blk[d], i)
                 /\ Points(s.disk.blk[d], i) = part(i) /\ part(i) \in Addresses
      <4>1. i \in Indices /\ i >= 0
        BY DEF Indices
      <4>2. Points(s.disk.blk[d], i) = part(i)
        BY <4>1 DEF Points, Block
      <4>3. HasLink(s.disk.blk[d], i)
        BY <2>1, <4>1 DEF HasLink
      <4>4. Points(s.disk.blk[d], i) \in Addresses
        BY <1>1, <2>1, <4>1, <4>3, KindsOfBlocks
      <4>5. QED  BY <4>1, <4>2, <4>3, <4>4
    <3>3. QED  BY <3>2
  <2> HIDE DEF part
  <2>6. ASSUME NEW i \in 0 .. FileParts - 1, part(i) # error_place
        PROVE  /\ part(i) \in Marked(first.disk) /\ Unled(first.disk, part(i)) /\ part(i) # metadata_start
               /\ \A j \in 0 .. FileParts - 1 : part(i) = part(j) => i = j
    <3>1. part(i) \in Marked(s.disk) /\ part(i) # metadata_start
      BY <1>1, <2>1, <2>5, <2>6 DEF Sane, LinksLead, MayLead
    <3>2. part(i) # addr
      BY <2>1, <2>5, <2>6 DEF Unled
    <3>3. part(i) # d
      BY <1>1, <1>5, <2>1, <2>2, <2>3, <2>5, <2>6 DEF Sane, LinksDiffer
    <3>4. \A j \in 0 .. FileParts - 1 : part(i) = part(j) => i = j
      BY <1>1, <2>1, <2>5, <2>6 DEF Sane, LinksDiffer
    <3>5. Unled(first.disk, part(i))
      BY <2>3, <2>4, <2>5
    <3>6. QED  BY <3>1, <3>2, <3>3, <3>4, <3>5, <1>2, <2>4
  <2>7. Fine(delete_file(s, addr))
    <3> DEFINE Free(f, i) == IF part(i - 1) = error_place THEN f ELSE MarkFree(f, part(i - 1))
               Ready(f, n) == /\ Fine(f)
                              /\ \A i \in n .. FileParts - 1 : part(i) # error_place =>
                                   part(i) \in Marked(f.disk) /\ Unled(f.disk, part(i))
    <3> DEFINE Walk(at, n) == at = [i \in 0 .. n |-> IF i = 0 THEN first ELSE Free(at[i - 1], i)]
               S == {n \in Nat : \E at : Walk(at, n)}
    <3>1. 0 \in S
      <4> DEFINE f == [i \in 0 .. 0 |-> first]
      <4>1. Walk(f, 0)
        OBVIOUS
      <4> HIDE DEF f, Walk
      <4>2. QED  BY <4>1
    <3>2. ASSUME NEW n \in S
          PROVE  n + 1 \in S
      <4> HIDE DEF first, Free
      <4>1. PICK f : f = [i \in 0 .. n |-> IF i = 0 THEN first ELSE Free(f[i - 1], i)]
        OBVIOUS
      <4> DEFINE g == [i \in 0 .. n + 1 |-> IF i = n + 1 THEN Free(f[n], n + 1) ELSE f[i]]
      <4>2. \A i \in 0 .. n : g[i] = f[i]
        OBVIOUS
      <4>3. ASSUME NEW i \in 0 .. n + 1
            PROVE  g[i] = IF i = 0 THEN first ELSE Free(g[i - 1], i)
        <5>1. CASE i = n + 1
          BY <5>1, <4>2
        <5>2. CASE i # n + 1
          <6>1. i \in 0 .. n /\ (i # 0 => i - 1 \in 0 .. n)
            BY <5>2
          <6>2. f[i] = IF i = 0 THEN first ELSE Free(f[i - 1], i)
            BY <4>1, <6>1
          <6>3. g[i] = f[i] /\ (i # 0 => g[i - 1] = f[i - 1])
            BY <6>1, <4>2
          <6> HIDE DEF g
          <6>4. QED  BY <6>2, <6>3
        <5>3. QED  BY <5>1, <5>2
      <4>4. g = [i \in 0 .. n + 1 |-> g[i]]
        OBVIOUS
      <4> HIDE DEF g
      <4>5. Walk(g, n + 1)
        BY <4>3, <4>4
      <4> HIDE DEF Walk
      <4>6. QED  BY <4>5
    <3>3. S = Nat
      <4> HIDE DEF S
      <4>1. S \in SUBSET Nat
        BY DEF S
      <4>2. QED  BY <3>1, <3>2, <4>1, NumbersInduct
    <3> DEFINE at == CHOOSE f : Walk(f, FileParts)
    <3>4. Walk(at, FileParts) /\ FileParts \in Nat
      <4>1. FileParts \in Nat
        BY FileCallsAssumption, FileSystemAssumption
      <4>2. \E f : Walk(f, FileParts)
        BY <3>3, <4>1
      <4> HIDE DEF Walk
      <4>3. QED  BY <4>1, <4>2
    <3>5. delete_file(s, addr) = at[FileParts]
      <4>1. \A f, i : Free(f, i) = IF part(i - 1) = error_place THEN f ELSE MarkFree(f, part(i - 1))
        OBVIOUS
      <4>2. QED  BY <1>5 DEF delete_file, part, first, d
    <3> HIDE DEF Free
    <3> HIDE DEF at
    <3>6. /\ at[0] = first
          /\ \A i \in 0 .. FileParts - 1 : at[i + 1] = Free(at[i], i + 1)
      <4> HIDE DEF first
      <4>1. FileParts \in Nat /\ 0 \in 0 .. FileParts
        BY <3>4
      <4>2. ASSUME NEW i \in 0 .. FileParts - 1
            PROVE  at[i + 1] = Free(at[i], i + 1)
        <5>1. i + 1 \in 0 .. FileParts /\ i + 1 # 0 /\ (i + 1) - 1 = i
          BY <4>1
        <5>2. QED  BY <5>1, <3>4
      <4>3. QED  BY <3>4, <4>1, <4>2
    <3> DEFINE T == {n \in Nat : n <= FileParts => Ready(at[n], n)}
    <3>7. 0 \in T
      <4>1. Ready(first, 0)
        BY <2>4, <2>6 DEF Fine
      <4>2. QED  BY <4>1, <3>6
    <3>8. ASSUME NEW n \in T
          PROVE  n + 1 \in T
      <4> SUFFICES ASSUME n + 1 <= FileParts
                   PROVE  Ready(at[n + 1], n + 1)
        OBVIOUS
      <4>1. n \in 0 .. FileParts - 1 /\ Ready(at[n], n)
        <5>1. FileParts \in Nat
          BY <3>4
        <5>2. n \in Nat /\ n \in T
          OBVIOUS
        <5>3. n \in 0 .. FileParts - 1
          BY <5>1, <5>2
        <5>4. QED  BY ONLY <5>1, <5>2, <5>3
      <4>2. at[n + 1] = Free(at[n], n + 1) /\ n \in 0 .. FileParts - 1 /\ (n + 1) - 1 = n
        BY <4>1, <3>6
      <4>3. CASE part(n) = error_place
        <5>1. at[n + 1] = at[n]
          BY <4>2, <4>3 DEF Free
        <5>2. \A i \in n + 1 .. FileParts - 1 : i \in n .. FileParts - 1
          BY <4>2
        <5>3. QED  BY <4>1, <5>1, <5>2
      <4>4. CASE part(n) # error_place
        <5>1. at[n + 1] = MarkFree(at[n], part(n))
          BY <4>2, <4>4 DEF Free
        <5> DEFINE f == at[n]
        <5>2. /\ Fine(f) /\ part(n) \in Marked(f.disk) /\ Unled(f.disk, part(n)) /\ part(n) # metadata_start
          BY <4>1, <4>2, <4>4, <2>6
        <5>3. PICK ds, r : Good(f, ds, r)
          BY <5>2 DEF Fine
        <5> HIDE DEF f
        <5>4. /\ Good(MarkFree(f, part(n)), ds \ {part(n)}, r)
              /\ Marked(MarkFree(f, part(n)).disk) = Marked(f.disk) \ {part(n)}
              /\ \A b \in Addresses : Unled(f.disk, b) => Unled(MarkFree(f, part(n)).disk, b)
          BY <5>2, <5>3, MarkFreeGood
        <5>5. ASSUME NEW i \in n + 1 .. FileParts - 1, part(i) # error_place
              PROVE  part(i) \in Marked(MarkFree(f, part(n)).disk) /\ Unled(MarkFree(f, part(n)).disk, part(i))
          <6>1. i \in n .. FileParts - 1 /\ i # n /\ i \in 0 .. FileParts - 1
            BY <4>2
          <6>2. part(i) \in Marked(f.disk) /\ Unled(f.disk, part(i))
            BY <4>1, <5>5, <6>1 DEF f
          <6>3. part(i) # part(n) /\ part(i) \in Addresses
            BY <4>2, <5>5, <6>1, <2>6, <2>5
          <6>4. QED  BY <5>4, <6>2, <6>3
        <5>6. QED  BY <5>1, <5>4, <5>5 DEF Fine, f
      <4>5. QED  BY <4>3, <4>4
    <3>9. T = Nat
      <4> HIDE DEF T
      <4>1. T \in SUBSET Nat
        BY DEF T
      <4>2. QED  BY <3>7, <3>8, <4>1, NumbersInduct
    <3>10. Ready(at[FileParts], FileParts)
      <4>1. FileParts \in Nat
        BY <3>4
      <4>2. FileParts \in T /\ FileParts <= FileParts
        BY ONLY <3>9, <4>1
      <4>3. QED  BY ONLY <4>2
    <3>11. QED  BY <3>5, <3>10
  <2>8. QED  BY <2>7
<1>6. QED  BY <1>3, <1>4, <1>5

(* A write to the file addr under way.  While nothing has failed it has    *)
(* reached the distributors in D, each with the number of those before it, *)
(* and the parts in K are there.                                           *)
Reached(d, addr, D) == \A m, c : <<m, c>> \in D => m \in Nat /\ PathTo(d, addr, m, c)
Held(d, addr, K) == \A k \in K : k \in Nat /\ Has(d, addr, k)
WritesWith(s, dirs, rank, addr, D, K) ==
  /\ Good(s, dirs, rank) /\ IsFile(s.disk, addr)
  /\ s.fault = "none" => Reached(s.disk, addr, D) /\ Held(s.disk, addr, K)
Writes(s, addr, D, K) == \E dirs, rank : WritesWith(s, dirs, rank, addr, D, K)

(* What grows does not lose the distributors reached.                      *)
LEMMA WritesOn ==
  ASSUME NEW s, NEW dirs, NEW rank, NEW addr, NEW D, NEW K, WritesWith(s, dirs, rank, addr, D, K),
         NEW t, NEW more, NEW order, Good(t, more, order), Grows(s.disk, dirs, t.disk, more),
         t.fault = "none" => s.fault = "none"
  PROVE  WritesWith(t, more, order, addr, D, K) /\ Writes(t, addr, D, K)
<1>1. Sane(s.disk, dirs, rank) /\ IsFile(s.disk, addr)
  BY DEF WritesWith, Good
<1>2. IsFile(t.disk, addr)
  BY <1>1 DEF Grows, IsFile, IsMeta
<1>3. t.fault = "none" => Reached(t.disk, addr, D)
  BY <1>1, PathGrows DEF WritesWith, Reached
<1>4. t.fault = "none" => Held(t.disk, addr, K)
  BY <1>1, HasGrows DEF WritesWith, Held
<1>5. QED  BY <1>2, <1>3, <1>4 DEF WritesWith, Writes

(* A distributor that a write has reached.                                 *)
LEMMA ReachedIs ==
  ASSUME NEW s, NEW dirs, NEW rank, NEW addr, NEW D, NEW K, WritesWith(s, dirs, rank, addr, D, K),
         s.fault = "none", NEW m, NEW c, <<m, c>> \in D
  PROVE  /\ m \in Nat /\ PathTo(s.disk, addr, m, c)
         /\ IsDist(s.disk, c) /\ c # error_place /\ c \notin dirs
<1>1. Sane(s.disk, dirs, rank) /\ IsFile(s.disk, addr) /\ m \in Nat /\ PathTo(s.disk, addr, m, c)
  BY DEF WritesWith, Good, Reached
<1>2. Grows(s.disk, dirs, s.disk, dirs)
  BY GrowsSame
<1>3. QED  BY <1>1, <1>2, PathGrows

(* One place further.                                                      *)
LEMMA StepsOn ==
  ASSUME NEW d, NEW addr, NEW e, NEW m \in Nat, NEW c, Reached(d, addr, {<<0, e>>, <<m, c>>}),
         NEW n, IsDist(d, n), n # error_place, d.blk[c].next = n
  PROVE  Reached(d, addr, {<<0, e>>, <<m + 1, n>>})
<1>1. PathTo(d, addr, 0, e) /\ PathTo(d, addr, m, c)
  BY DEF Reached
<1>2. PathTo(d, addr, m + 1, n) /\ m + 1 \in Nat
  BY <1>1, TrailOn
<1>3. QED  BY <1>1, <1>2 DEF Reached

(* To the distributor behind d.                                            *)
LEMMA OnwardWrites ==
  ASSUME NEW at, at = [s |-> at.s, dist |-> at.dist], NEW addr, NEW e, NEW m \in Nat, NEW K,
         Writes(at.s, addr, {<<0, e>>, <<m, at.dist>>}, K)
  PROVE  LET on == Onward(at)
         IN  on = [s |-> on.s, dist |-> on.dist] /\ Writes(on.s, addr, {<<0, e>>, <<m + 1, on.dist>>}, K)
<1> DEFINE s == at.s
           d == at.dist
           D == {<<0, e>>, <<m, d>>}
           n == Block(s, d).next
           t == NextDistributor(s, d)
<1>1. PICK dirs, rank : WritesWith(s, dirs, rank, addr, D, K)
  BY DEF Writes
<1>2. Good(s, dirs, rank) /\ IsFile(s.disk, addr)
  BY <1>1 DEF WritesWith
<1>3. s.fault = "none" => IsDist(s.disk, d) /\ d # error_place /\ d \notin dirs
  <2>1. <<m, d>> \in D
    OBVIOUS
  <2> HIDE DEF D
  <2>2. QED  BY <1>1, <2>1, ReachedIs
<1>4. CASE s.fault # "none"
  <2>1. Onward(at) = at
    BY <1>4 DEF Onward
  <2>2. Writes(s, addr, {<<0, e>>, <<m + 1, d>>}, K)
    BY <1>1, <1>4 DEF Writes, WritesWith
  <2>3. QED  BY <2>1, <2>2
<1>5. CASE s.fault = "none" /\ n # error_place
  <2>1. [at EXCEPT !.dist = Block(at.s, @).next] = [s |-> s, dist |-> n]
    OBVIOUS
  <2>2. Onward(at) = [s |-> s, dist |-> n]
    BY <1>5, <2>1 DEF Onward
  <2>3. -1 \in Indices /\ ~ (-1 >= 0)
    BY FileSystemAssumption DEF Indices
  <2>4. HasLink(s.disk.blk[d], -1) /\ Points(s.disk.blk[d], -1) = n /\ s.disk.blk[d].kind = "dist"
    BY <1>5, <1>3, <2>3 DEF IsDist, HasLink, Points, Block
  <2>5. MayLead(s.disk, dirs, rank, d, -1, n)
    <3> HIDE DEF n, d, s
    <3>1. QED  BY <1>2, <1>3, <1>5, <2>3, <2>4 DEF Good, Sane, LinksLead, IsDist
  <2>6. IsDist(s.disk, n)
    <3> HIDE DEF n, d, s
    <3>1. QED  BY <2>3, <2>4, <2>5 DEF MayLead, IsDist
  <2>7. Writes(s, addr, {<<0, e>>, <<m + 1, n>>}, K)
    <3>1. s.disk.blk[d].next = n
      BY DEF Block
    <3>2. s.fault = "none" /\ n # error_place
      BY <1>5
    <3> HIDE DEF n, d, s
    <3>3. Reached(s.disk, addr, {<<0, e>>, <<m + 1, n>>})
      BY <1>1, <2>6, <3>1, <3>2, StepsOn DEF WritesWith
    <3>4. QED  BY <1>1, <1>5, <3>3 DEF Writes, WritesWith
  <2>8. QED  BY <2>2, <2>7
<1>6. CASE s.fault = "none" /\ n = error_place
  <2>1. Onward(at) = Lengthened(t, d)
    BY <1>6 DEF Onward
  <2>2. PICK more, order :
          /\ Good(t, more, order) /\ Grows(s.disk, dirs, t.disk, more)
          /\ t.fault = "none" =>
               LET x == Block(t, d).next
               IN  x # error_place /\ IsDist(t.disk, x) /\ (x \in more <=> d \in dirs)
    <3>1. Good(s, dirs, rank) /\ IsDist(s.disk, d) /\ d # error_place /\ Block(s, d).next = error_place
      BY <1>2, <1>3, <1>6
    <3>2. QED  BY ONLY <3>1, NextDistributorGood
  <2> HIDE DEF t, D
  <2>3. WritesWith(t, more, order, addr, D, K)
    BY <1>1, <1>6, <2>2, WritesOn
  <2> USE DEF D
  <2>4. CASE t.fault # "none"
    <3>1. Onward(at) = [s |-> t, dist |-> d]
      BY <2>1, <2>4 DEF Lengthened
    <3>2. Writes(t, addr, {<<0, e>>, <<m + 1, d>>}, K)
      BY <2>3, <2>4 DEF Writes, WritesWith
    <3>3. QED  BY <3>1, <3>2
  <2>5. CASE t.fault = "none"
    <3> DEFINE x == Block(t, d).next
    <3>1. Onward(at) = [s |-> t, dist |-> x]
      BY <2>1, <2>5 DEF Lengthened
    <3>2. x # error_place /\ IsDist(t.disk, x) /\ t.disk.blk[d].next = x
      BY <2>2, <2>5 DEF Block
    <3> HIDE DEF x, d, s
    <3>3. Reached(t.disk, addr, {<<0, e>>, <<m + 1, x>>})
      BY <2>3, <2>5, <3>2, StepsOn DEF WritesWith
    <3>4. Writes(t, addr, {<<0, e>>, <<m + 1, x>>}, K)
      BY <2>3, <2>5, <3>3 DEF Writes, WritesWith
    <3>5. QED  BY <3>1, <3>4
  <2>6. QED  BY <2>4, <2>5
<1>7. QED  BY <1>4, <1>5, <1>6

(* To the distributor k places behind d.                                   *)
LEMMA ReachWrites ==
  ASSUME NEW s, NEW addr, NEW d, NEW K, Writes(s, addr, {<<0, d>>}, K), NEW k \in Nat
  PROVE  Writes(Reach(s, d, k).s, addr, {<<0, d>>, <<k, Reach(s, d, k).dist>>}, K)
<1> DEFINE first == [s |-> s, dist |-> d]
           On(at, m) == /\ at = [s |-> at.s, dist |-> at.dist]
                        /\ Writes(at.s, addr, {<<0, d>>, <<m, at.dist>>}, K)
<1> DEFINE Walk(at, n) == at = [i \in 0 .. n |-> IF i = 0 THEN first ELSE Onward(at[i - 1])]
           S == {n \in Nat : \E at : Walk(at, n)}
<1>1. 0 \in S
  <2> DEFINE f == [i \in 0 .. 0 |-> first]
  <2>1. Walk(f, 0)
    OBVIOUS
  <2> HIDE DEF f, Walk
  <2>2. QED  BY <2>1
<1>2. ASSUME NEW n \in S
      PROVE  n + 1 \in S
  <2> HIDE DEF first
  <2>1. PICK f : f = [i \in 0 .. n |-> IF i = 0 THEN first ELSE Onward(f[i - 1])]
    OBVIOUS
  <2> DEFINE g == [i \in 0 .. n + 1 |-> IF i = n + 1 THEN Onward(f[n]) ELSE f[i]]
  <2>2. \A i \in 0 .. n : g[i] = f[i]
    OBVIOUS
  <2>3. ASSUME NEW i \in 0 .. n + 1
        PROVE  g[i] = IF i = 0 THEN first ELSE Onward(g[i - 1])
    <3>1. CASE i = n + 1
      BY <3>1, <2>2
    <3>2. CASE i # n + 1
      <4>1. i \in 0 .. n /\ (i # 0 => i - 1 \in 0 .. n)
        BY <3>2
      <4>2. f[i] = IF i = 0 THEN first ELSE Onward(f[i - 1])
        BY <2>1, <4>1
      <4>3. g[i] = f[i] /\ (i # 0 => g[i - 1] = f[i - 1])
        BY <4>1, <2>2
      <4> HIDE DEF g
      <4>4. QED  BY <4>2, <4>3
    <3>3. QED  BY <3>1, <3>2
  <2>4. g = [i \in 0 .. n + 1 |-> g[i]]
    OBVIOUS
  <2> HIDE DEF g
  <2>5. Walk(g, n + 1)
    BY <2>3, <2>4
  <2> HIDE DEF Walk
  <2>6. QED  BY <2>5
<1>3. S = Nat
  <2> HIDE DEF S
  <2>1. S \in SUBSET Nat
    BY DEF S
  <2>2. QED  BY <1>1, <1>2, <2>1, NumbersInduct
<1> DEFINE at == CHOOSE f : Walk(f, k)
<1>4. Walk(at, k) /\ k \in Nat
  <2>0. k \in Nat
    OBVIOUS
  <2>1. \E f : Walk(f, k)
    BY <1>3, <2>0
  <2> HIDE DEF Walk
  <2>2. QED  BY <2>0, <2>1
<1>5. Reach(s, d, k) = at[k]
  BY DEF Reach
<1> HIDE DEF at
<1>6. /\ at[0] = first
      /\ \A i \in 0 .. k - 1 : at[i + 1] = Onward(at[i])
  <2> HIDE DEF first
  <2>1. k \in Nat /\ 0 \in 0 .. k
    BY <1>4
  <2>2. ASSUME NEW i \in 0 .. k - 1
        PROVE  at[i + 1] = Onward(at[i])
    <3>1. i + 1 \in 0 .. k /\ i + 1 # 0 /\ (i + 1) - 1 = i
      BY <2>1
    <3>2. QED  BY <3>1, <1>4
  <2>3. QED  BY <1>4, <2>1, <2>2
<1> DEFINE T == {n \in Nat : n <= k => On(at[n], n)}
<1>7. 0 \in T
  <2>1. On(first, 0)
    OBVIOUS
  <2>2. QED  BY <2>1, <1>6
<1>8. ASSUME NEW n \in T
      PROVE  n + 1 \in T
  <2> SUFFICES ASSUME n + 1 <= k
               PROVE  On(at[n + 1], n + 1)
    OBVIOUS
  <2>1. n \in 0 .. k - 1 /\ On(at[n], n)
    <3>1. k \in Nat
      BY <1>4
    <3>2. n \in Nat /\ n \in T
      OBVIOUS
    <3>3. n \in 0 .. k - 1
      BY <3>1, <3>2
    <3>4. QED  BY ONLY <3>1, <3>2, <3>3
  <2>2. at[n + 1] = Onward(at[n])
    BY <2>1, <1>6
  <2> DEFINE x == at[n]
  <2>3. On(x, n) /\ n \in Nat
    BY <2>1
  <2> HIDE DEF x
  <2>4. On(Onward(x), n + 1)
    BY <2>3, OnwardWrites
  <2>5. QED  BY <2>2, <2>4 DEF x
<1>9. T = Nat
  <2> HIDE DEF T
  <2>1. T \in SUBSET Nat
    BY DEF T
  <2>2. QED  BY <1>7, <1>8, <2>1, NumbersInduct
<1>10. On(at[k], k)
  <2>0. k \in Nat
    BY <1>4
  <2>1. k \in T /\ k <= k
    BY ONLY <1>9, <2>0
  <2>2. QED  BY ONLY <2>1
<1>11. QED  BY <1>5, <1>10

-----------------------------------------------------------------------------
(* The part at a slot of a distributor of a file, and bytes of it.         *)
LEMMA ReachPartWrites ==
  ASSUME NEW s, NEW addr, NEW D, NEW K, Writes(s, addr, D, K), NEW m, NEW d, <<m, d>> \in D,
         NEW i \in 0 .. FileParts - 1
  PROVE  LET t == ReachPart(s, <<d, i>>)
         IN  Writes(t, addr, D, K) /\ (t.fault = "none" => In(t, <<d, i>>) # error_place)
<1> DEFINE slot == <<d, i>>
           new == create_file_part(s)
           t == Enter(new, slot)
<1>1. PICK dirs, rank : WritesWith(s, dirs, rank, addr, D, K)
  BY DEF Writes
<1>2. CASE s.fault # "none" \/ In(s, slot) # error_place
  <2>1. ReachPart(s, slot) = s
    BY <1>2 DEF ReachPart
  <2>2. QED  BY <1>2, <2>1
<1>3. CASE ~ (s.fault # "none" \/ In(s, slot) # error_place)
  <2>1. ReachPart(s, slot) = t
    BY <1>3 DEF ReachPart
  <2>2. Good(s, dirs, rank) /\ IsDist(s.disk, d) /\ d # error_place /\ d \notin dirs
    BY <1>1, <1>3, ReachedIs DEF WritesWith
  <2>3. SlotOf(s.disk, slot) /\ slot[1] \notin dirs
    <3>1. d \in Int /\ i \in Int
      BY <2>2, Layout DEF IsDist, Marked, Addresses
    <3>2. QED  BY <2>2, <3>1 DEF SlotOf
  <2>4. Gives(s, new, dirs, rank, Part) /\ Part.kind = "data"
    BY <2>2, FreshBlocks, FilesGive DEF create_file_part
  <2>5. slot[1] \in dirs \/ In(s, slot) = error_place
    BY <1>3
  <2> HIDE DEF new, slot
  <2>6. Part.kind = IF slot[1] \in dirs THEN "meta" ELSE "data"
    BY <2>3, <2>4
  <2>7. /\ Good(t, dirs, rank) /\ Grows(s.disk, dirs, t.disk, dirs)
        /\ t.fault = "none" => In(t, slot) # error_place
    BY ONLY <2>2, <2>3, <2>4, <2>6, <2>5, EnterGood
  <2> HIDE DEF t
  <2>8. Writes(t, addr, D, K)
    BY <1>1, <1>3, <2>7, WritesOn
  <2>9. ReachPart(s, <<d, i>>) = t /\ slot = <<d, i>>
    BY <2>1 DEF slot
  <2>10. QED  BY <2>7, <2>8, <2>9
<1>4. QED  BY <1>2, <1>3

(* What a file leads to is a part, not metadata or a distributor.          *)
LEMMA PutAtWrites ==
  ASSUME NEW s, NEW addr, NEW D, NEW K, Writes(s, addr, D, K), NEW m, NEW d, <<m, d>> \in D,
         NEW i \in 0 .. FileParts - 1, NEW b \in Int, NEW x \in Seq(1 .. 255),
         s.fault = "none" => In(s, <<d, i>>) # error_place
  PROVE  Writes(PutAt(s, <<d, i>>, b, x), addr, D, K)
<1> DEFINE slot == <<d, i>>
           a == In(s, slot)
           old == s.disk.blk[a]
           y == [j \in DOMAIN old.byte |-> IF j - b + 1 \in DOMAIN x THEN x[j - b + 1] ELSE old.byte[j]]
           c == [old EXCEPT !.byte = y]
<1>1. CASE s.fault # "none"
  BY <1>1 DEF PutAt
<1>2. CASE s.fault = "none"
  <2>1. PICK dirs, rank : WritesWith(s, dirs, rank, addr, D, K)
    BY DEF Writes
  <2>2. Good(s, dirs, rank) /\ IsDist(s.disk, d) /\ d # error_place /\ d \notin dirs
    <3>1. Good(s, dirs, rank)
      BY <2>1 DEF WritesWith
    <3>2. <<m, d>> \in D
      OBVIOUS
    <3>3. IsDist(s.disk, d) /\ d # error_place /\ d \notin dirs
      BY ONLY <1>2, <2>1, <3>2, ReachedIs
    <3>4. QED  BY <3>1, <3>3
  <2>3. SlotOf(s.disk, slot) /\ slot[1] \notin dirs /\ slot[2] >= 0
    <3>1. d \in Int /\ i \in Int
      BY <2>2, Layout DEF IsDist, Marked, Addresses
    <3>2. QED  BY <2>2, <3>1 DEF SlotOf
  <2>4. MayLead(s.disk, dirs, rank, slot[1], slot[2], a)
    BY <1>2, <2>2, <2>3, SlotLeads DEF Good
  <2>5. PutAt(s, slot, b, x) = Store(s, a, c)
    BY <1>2 DEF PutAt, Put, Block
  <2> HIDE DEF slot
  <2>6. a \in Marked(s.disk) /\ old.kind = "data" /\ a \in Addresses
    BY <2>3, <2>4 DEF MayLead, Marked
  <2>7. old \in Parts
    <3>1. old \in Blocks
      BY <2>2, <2>6, SaneTypes DEF Good
    <3> HIDE DEF old
    <3>2. QED  BY <2>6, <3>1, KindsOfBlocks
  <2> HIDE DEF old, a
  <2>8. c \in Parts /\ c.kind = "data"
    <3>1. DOMAIN old.byte = 0 .. BlockLen - 1 /\ old = [kind |-> "data", byte |-> old.byte]
          /\ \A j \in 0 .. BlockLen - 1 : old.byte[j] \in 0 .. 255
      BY <2>7 DEF Parts
    <3>2. ASSUME NEW j \in 0 .. BlockLen - 1
          PROVE  (IF j - b + 1 \in DOMAIN x THEN x[j - b + 1] ELSE old.byte[j]) \in 0 .. 255
      <4>1. CASE j - b + 1 \in DOMAIN x
        <5>1. x[j - b + 1] \in 1 .. 255
          <6>1. j - b + 1 \in 1 .. Len(x)
            BY <4>1
          <6>2. QED  BY ONLY <6>1, ElementOfSeq, x \in Seq(1 .. 255)
        <5>2. QED  BY <4>1, <5>1
      <4>2. CASE j - b + 1 \notin DOMAIN x
        BY <4>2, <3>1
      <4>3. QED  BY <4>1, <4>2
    <3>3. y \in [0 .. BlockLen - 1 -> 0 .. 255]
      BY <3>1, <3>2
    <3> HIDE DEF y
    <3>4. c = [kind |-> "data", byte |-> y]
      BY <3>1
    <3>5. QED  BY <3>3, <3>4 DEF Parts
  <2> HIDE DEF c
  <2>9. c \in Blocks /\ c.kind = s.disk.blk[a].kind /\ (c.kind = "meta" => c.type = s.disk.blk[a].type)
    BY <2>6, <2>8 DEF Blocks, old
  <2>10. NoNewLink(c, s.disk.blk[a])
    BY <2>8 DEF NoNewLink, HasLink
  <2>11. \A free : KeepsLinks(c, s.disk.blk[a], free)
    BY <2>6 DEF KeepsLinks, HasLink, old
  <2>12. LET t == Store(s, a, c)
         IN  Good(t, dirs, rank) /\ Grows(s.disk, dirs, t.disk, dirs)
    BY <2>2, <2>6, <2>8, <2>9, <2>10, <2>11, StoreKeepsGood
  <2>13. Writes(Store(s, a, c), addr, D, K)
    BY <1>2, <2>1, <2>12, WritesOn
  <2>14. QED  BY <2>5, <2>13 DEF slot
<1>3. QED  BY <1>1, <1>2

(* The bytes of one block.                                                 *)
LEMMA WriteBlockWrites ==
  ASSUME NEW s, NEW addr, NEW d, NEW K, Writes(s, addr, {<<0, d>>}, K),
         NEW fp \in Nat, NEW x \in Seq(1 .. 255)
  PROVE  Writes(WriteBlock(s, d, fp, x), addr, {<<0, d>>}, K \cup (IF x = << >> THEN {} ELSE {fp \div BlockLen}))
<1> DEFINE part == fp \div BlockLen
           at == Reach(s, d, part \div FileParts)
           i == part % FileParts
           slot == <<at.dist, i>>
           b == fp % BlockLen
           u == ReachPart(at.s, slot)
<1>1. /\ part \in Nat /\ part \div FileParts \in Nat /\ i \in 0 .. FileParts - 1 /\ b \in Int
  <2>1. BlockLen \in Nat \ {0} /\ FileParts \in Nat \ {0}
    BY FileSystemAssumption
  <2>2. part \in Nat /\ b \in 0 .. BlockLen - 1
    BY <2>1, DividesNaturals
  <2> HIDE DEF part, b
  <2>3. part \div FileParts \in Nat /\ i \in 0 .. FileParts - 1
    BY <2>1, <2>2, DividesNaturals
  <2>4. QED  BY <2>2, <2>3
<1> DEFINE D == {<<0, d>>, <<part \div FileParts, at.dist>>}
           more == K \cup {part}
<1>2. CASE s.fault # "none" \/ x = << >>
  <2>1. WriteBlock(s, d, fp, x) = s
    BY <1>2 DEF WriteBlock
  <2>2. CASE s.fault # "none"
    BY <2>1, <2>2 DEF Writes, WritesWith
  <2>3. CASE x = << >>
    BY <2>1, <2>3
  <2>4. QED  BY <1>2, <2>2, <2>3
<1>3. CASE ~ (s.fault # "none" \/ x = << >>)
  <2>1. WriteBlock(s, d, fp, x) = PutAt(u, slot, b, x)
    BY <1>3 DEF WriteBlock, WriteAt
  <2>2. Writes(at.s, addr, D, K)
    <3> HIDE DEF part
    <3>1. QED  BY <1>1, ReachWrites
  <2>3. <<part \div FileParts, at.dist>> \in D
    OBVIOUS
  <2> HIDE DEF b, i, at, D
  <2>4. Writes(u, addr, D, K) /\ (u.fault = "none" => In(u, slot) # error_place)
    BY <1>1, <2>2, <2>3, ReachPartWrites
  <2> HIDE DEF u
  <2>5. Writes(u, addr, D, more)
    <3>1. PICK dirs, rank : WritesWith(u, dirs, rank, addr, D, K)
      BY <2>4 DEF Writes
    <3>2. ASSUME u.fault = "none"
          PROVE  Has(u.disk, addr, part)
      <4>1. PathTo(u.disk, addr, part \div FileParts, at.dist)
        BY <2>3, <3>1, <3>2, ReachedIs
      <4>2. In(u, slot) # error_place
        BY <2>4, <3>2
      <4>3. HasPart(u.disk, at.dist, i)
        BY <4>2 DEF In, Block, HasPart
      <4> HIDE DEF part
      <4>4. QED  BY <4>1, <4>3 DEF Has, i
    <3>3. u.fault = "none" => Held(u.disk, addr, more)
      <4> HIDE DEF part
      <4>1. QED  BY <1>1, <3>1, <3>2 DEF WritesWith, Held
    <3> HIDE DEF more
    <3>4. WritesWith(u, dirs, rank, addr, D, more)
      BY <3>1, <3>3 DEF WritesWith
    <3>5. QED  BY <3>4 DEF Writes
  <2> HIDE DEF more
  <2>6. Writes(PutAt(u, slot, b, x), addr, D, more)
    BY <1>1, <2>4, <2>5, <2>3, PutAtWrites
  <2>7. Writes(PutAt(u, slot, b, x), addr, {<<0, d>>}, more)
    BY <2>6 DEF Writes, WritesWith, Reached, D
  <2>8. QED  BY <1>3, <2>1, <2>7 DEF more
<1>4. QED  BY <1>2, <1>3

(* What the call asks for lies in at most two blocks.                      *)
Touches(fp, x) == (IF ThisBlock(fp, x) = << >> THEN {} ELSE {fp \div BlockLen})
                  \cup (IF Beyond(fp, x) = << >> THEN {} ELSE {(fp + Left(fp, x)) \div BlockLen})

(* The length of what lies behind the first of n.                          *)
LEMMA LengthBehind ==
  ASSUME NEW n \in Nat, NEW left \in 0 .. n
  PROVE  (IF left + 1 <= n THEN n - (left + 1) + 1 ELSE 0) = n - left
OBVIOUS

(* What a write puts into the first block, and what remains for the next.  *)
LEMMA LeftOf ==
  ASSUME NEW fp \in Nat, NEW x \in Seq(1 .. 255)
  PROVE  /\ Len(x) \in Nat /\ Left(fp, x) \in 0 .. Len(x)
         /\ Left(fp, x) = IF Len(x) <= BlockLen - (fp % BlockLen) THEN Len(x) ELSE BlockLen - (fp % BlockLen)
         /\ ThisBlock(fp, x) \in Seq(1 .. 255) /\ Len(ThisBlock(fp, x)) = Left(fp, x)
         /\ Beyond(fp, x) \in Seq(1 .. 255) /\ Len(Beyond(fp, x)) = Len(x) - Left(fp, x)
<1>1. Len(x) \in Nat /\ Left(fp, x) \in 0 .. Len(x)
  <2>1. BlockLen \in Nat \ {0} /\ Len(x) \in Nat
    BY FileSystemAssumption
  <2> DEFINE b == fp % BlockLen
  <2>2. b \in 0 .. BlockLen - 1
    BY <2>1, DividesNaturals
  <2>3. Left(fp, x) = IF Len(x) <= BlockLen - b THEN Len(x) ELSE BlockLen - b
    BY DEF Left
  <2> HIDE DEF b
  <2>4. QED  BY <2>1, <2>2, <2>3
<1> DEFINE left == Left(fp, x)
<1>2. /\ ThisBlock(fp, x) \in Seq(1 .. 255) /\ Len(ThisBlock(fp, x)) = left
      /\ Beyond(fp, x) \in Seq(1 .. 255) /\ Len(Beyond(fp, x)) = Len(x) - left
  <2>2. Len(x) \in Nat /\ left \in 0 .. Len(x) /\ DOMAIN x = 1 .. Len(x)
    BY <1>1
  <2>3. ThisBlock(fp, x) = SubSeq(x, 1, left) /\ Beyond(fp, x) = SubSeq(x, left + 1, Len(x))
    BY DEF ThisBlock, Beyond
  <2> HIDE DEF left
  <2>4. /\ SubSeq(x, 1, left) \in Seq(1 .. 255) /\ Len(SubSeq(x, 1, left)) = left
        /\ SubSeq(x, left + 1, Len(x)) \in Seq(1 .. 255) /\ Len(SubSeq(x, left + 1, Len(x))) = Len(x) - left
    <3>1. \A k \in 1 .. Len(x) : x[k] \in 1 .. 255
      BY ONLY x \in Seq(1 .. 255), ElementOfSeq
    <3>2. /\ \A k \in 1 .. left : k \in 1 .. Len(x)
          /\ \A k \in left + 1 .. Len(x) : k \in 1 .. Len(x)
          /\ left \in Int /\ left + 1 \in Int /\ Len(x) \in Int /\ 1 \in Int
      BY <2>2
    <3>3. \A k \in 1 .. left : x[k] \in 1 .. 255
      BY ONLY <3>1, <3>2
    <3>7. \A k \in left + 1 .. Len(x) : x[k] \in 1 .. 255
      BY ONLY <3>1, <3>2
    <3>4. SubSeq(x, 1, left) \in Seq(1 .. 255)
      BY ONLY <3>2, <3>3, SubSeqProperties
    <3>5. SubSeq(x, left + 1, Len(x)) \in Seq(1 .. 255)
      BY ONLY <3>2, <3>7, SubSeqProperties
    <3>8. Len(SubSeq(x, 1, left)) = left
      <4>1. Len(SubSeq(x, 1, left)) = IF 1 <= left THEN (left - 1) + 1 ELSE 0
        BY ONLY <3>2, <3>3, SubSeqProperties
      <4>2. QED  BY <4>1, <2>2
    <3>9. Len(SubSeq(x, left + 1, Len(x))) = Len(x) - left
      <4> DEFINE y == SubSeq(x, left + 1, Len(x))
                 n == IF left + 1 <= Len(x) THEN Len(x) - (left + 1) + 1 ELSE 0
      <4>1. Len(y) = n
        BY ONLY <3>2, <3>7, SubSeqProperties
      <4>2. n = Len(x) - left
        BY ONLY <2>2, LengthBehind
      <4> HIDE DEF y, n
      <4>3. Len(y) = Len(x) - left
        BY ONLY <4>1, <4>2
      <4>4. QED  BY <4>3 DEF y
    <3>6. QED  BY <3>4, <3>5, <3>8, <3>9
  <2>5. QED  BY <2>3, <2>4
<1>3. Left(fp, x) = IF Len(x) <= BlockLen - (fp % BlockLen) THEN Len(x) ELSE BlockLen - (fp % BlockLen)
  BY DEF Left
<1>4. Len(x) \in Nat
  OBVIOUS
<1>5. QED  BY <1>1, <1>2, <1>3, <1>4

(* Block after block: each part that is written to is there at the end.    *)
LEMMA WriteBlocksWrites ==
  ASSUME NEW s, NEW addr, NEW d, NEW K, Writes(s, addr, {<<0, d>>}, K),
         NEW fp \in Nat, NEW x \in Seq(1 .. 255)
  PROVE  Writes(WriteBlocks(s, d, fp, x), addr, {<<0, d>>}, K \cup Touches(fp, x))
<1> DEFINE left == Left(fp, x)
           first == IF ThisBlock(fp, x) = << >> THEN {} ELSE {fp \div BlockLen}
           second == IF Beyond(fp, x) = << >> THEN {} ELSE {(fp + left) \div BlockLen}
           t == WriteBlock(s, d, fp, ThisBlock(fp, x))
<1>1. ThisBlock(fp, x) \in Seq(1 .. 255) /\ Beyond(fp, x) \in Seq(1 .. 255) /\ fp + left \in Nat
  <2>1. ThisBlock(fp, x) \in Seq(1 .. 255) /\ Beyond(fp, x) \in Seq(1 .. 255)
    BY ONLY fp \in Nat, x \in Seq(1 .. 255), LeftOf
  <2>2. Len(x) \in Nat /\ left \in 0 .. Len(x)
    BY ONLY fp \in Nat, x \in Seq(1 .. 255), LeftOf
  <2> HIDE DEF left
  <2>3. QED  BY <2>1, <2>2
<1>2. Writes(t, addr, {<<0, d>>}, K \cup first)
  BY <1>1, WriteBlockWrites
<1>3. WriteBlocks(s, d, fp, x) = WriteBlock(t, d, fp + left, Beyond(fp, x))
  BY DEF WriteBlocks
<1> HIDE DEF t, left, first
<1>4. Writes(WriteBlocks(s, d, fp, x), addr, {<<0, d>>}, (K \cup first) \cup second)
  BY <1>1, <1>2, <1>3, WriteBlockWrites
<1>5. (K \cup first) \cup second = K \cup Touches(fp, x)
  BY DEF Touches, first, left
<1>6. QED  BY <1>4, <1>5

(* No byte between the old end of the file and the new one is in a block   *)
(* of its own.                                                             *)
LEMMA AtLeastOne ==
  ASSUME NEW F \in Nat \ {0}, NEW n \in Int
  PROVE  /\ n >= 1 => F * n >= F
         /\ n <= -1 => F * n <= - F
         /\ n >= 2 => F * n >= F + F
<1>1. ASSUME NEW m \in Int, NEW j \in Int, m - j \in Nat
      PROVE  F * m >= F * j
  <2>1. F * (m - j) \in Nat
    BY <1>1
  <2>2. F * (m - j) = F * m - F * j /\ F * m \in Int /\ F * j \in Int
    OBVIOUS
  <2>3. QED  BY <2>1, <2>2
<1>2. F * 1 = F /\ F * (-1) = - F /\ F * 2 = F + F
  OBVIOUS
<1>3. n >= 1 => F * n >= F
  <2>1. n >= 1 => n - 1 \in Nat
    OBVIOUS
  <2>2. n >= 1 => F * n >= F * 1
    BY <2>1, <1>1
  <2>3. QED  BY <2>2, <1>2
<1>4. n >= 2 => F * n >= F + F
  <2>1. n >= 2 => n - 2 \in Nat
    OBVIOUS
  <2>2. n >= 2 => F * n >= F * 2
    BY <2>1, <1>1
  <2>3. QED  BY <2>2, <1>2
<1>5. n <= -1 => F * n <= - F
  <2>1. n <= -1 => (-1) - n \in Nat /\ -1 \in Int
    OBVIOUS
  <2>2. n <= -1 => F * (-1) >= F * n
    BY <2>1, <1>1
  <2>3. F * n \in Int
    OBVIOUS
  <2>4. QED  BY <2>2, <2>3, <1>2
<1>6. QED  BY <1>3, <1>4, <1>5

(* The quotient and the remainder of F * n + r.                            *)
LEMMA DividesExactly ==
  ASSUME NEW F \in Nat \ {0}, NEW n \in Nat, NEW r \in 0 .. F - 1
  PROVE  (F * n + r) \div F = n /\ (F * n + r) % F = r
<1> DEFINE x == F * n + r
           q == x \div F
           m == x % F
<1>1. F * n \in Nat /\ x \in Nat
  OBVIOUS
<1>2. x = F * n + r
  OBVIOUS
<1> HIDE DEF x
<1>3. q \in Nat /\ m \in 0 .. F - 1 /\ x = F * q + m
  BY <1>1, DividesNaturals
<1> HIDE DEF q, m
<1>4. F * (n - q) = F * n - F * q /\ F * q \in Int /\ n - q \in Int
  BY <1>3
<1>5. F * (n - q) = m - r
  BY <1>1, <1>2, <1>3, <1>4
<1>6. n = q
  <2>1. n - q >= 1 => F * (n - q) >= F
    BY <1>4, AtLeastOne
  <2>2. n - q <= -1 => F * (n - q) <= - F
    BY <1>4, AtLeastOne
  <2>3. QED  BY <1>3, <1>4, <1>5, <2>1, <2>2
<1>7. QED  BY <1>1, <1>2, <1>3, <1>6 DEF q, m, x

(* The parts that the rest of a write touches.                             *)
LEMMA TouchesRest ==
  ASSUME NEW fp \in Nat, NEW x \in Seq(1 .. 255), ~ Spills(fp, x), NEW k \in Nat,
         fp <= k * BlockLen, k * BlockLen < fp + Len(x)
  PROVE  k \in Touches(fp, x)
<1> DEFINE p == fp \div BlockLen
           r == fp % BlockLen
           left == Left(fp, x)
<1>1. BlockLen \in Nat \ {0}
  BY FileSystemAssumption
<1>2. p \in Nat /\ r \in 0 .. BlockLen - 1 /\ fp = BlockLen * p + r
  BY <1>1, DividesNaturals
<1>3. /\ Len(x) \in Nat /\ left \in 0 .. Len(x)
      /\ left = IF Len(x) <= BlockLen - r THEN Len(x) ELSE BlockLen - r
      /\ Len(ThisBlock(fp, x)) = left /\ Len(Beyond(fp, x)) = Len(x) - left
  <2>1. Len(x) \in Nat /\ left \in 0 .. Len(x)
    BY ONLY fp \in Nat, x \in Seq(1 .. 255), LeftOf
  <2>2. left = IF Len(x) <= BlockLen - r THEN Len(x) ELSE BlockLen - r
    BY ONLY fp \in Nat, x \in Seq(1 .. 255), LeftOf, ZenonT(30)
  <2>3. Len(ThisBlock(fp, x)) = left
    BY ONLY fp \in Nat, x \in Seq(1 .. 255), LeftOf, ZenonT(30)
  <2>4. Len(Beyond(fp, x)) = Len(x) - left
    BY ONLY fp \in Nat, x \in Seq(1 .. 255), LeftOf, ZenonT(30)
  <2> HIDE DEF left, r
  <2>5. QED  BY <2>1, <2>2, <2>3, <2>4
<1>4. Len(IF r = 0 THEN x ELSE Beyond(fp, x)) <= BlockLen
  BY <1>1, <1>3 DEF Spills
<1>5. Len(<< >>) = 0
  OBVIOUS
<1> DEFINE this == ThisBlock(fp, x)
           that == Beyond(fp, x)
<1> HIDE DEF p, r, left, this, that
<1>6. CASE k = p
  <2>1. r = 0 /\ Len(x) > 0
    BY <1>1, <1>2, <1>3, <1>6
  <2>2. left > 0
    BY <1>1, <1>2, <1>3, <2>1
  <2>3. this # << >>
    BY <1>3, <1>5, <2>2 DEF this
  <2>4. QED  BY <1>6, <2>3 DEF Touches, this, p
<1>7. CASE k # p
  <2>1. k - p \in Int /\ k * BlockLen = BlockLen * p + BlockLen * (k - p)
    BY <1>1, <1>2
  <2>2. BlockLen * (k - p) \in Int /\ BlockLen * p \in Int
    BY <1>1, <1>2, <2>1
  <2>3. k - p >= 1
    <3>1. k - p <= -1 => BlockLen * (k - p) <= - BlockLen
      BY <1>1, <2>1, AtLeastOne
    <3>2. fp <= BlockLen * p + BlockLen * (k - p)
      BY <2>1
    <3> DEFINE y == BlockLen * p
               z == BlockLen * (k - p)
    <3>3. /\ BlockLen \in Nat /\ r \in 0 .. BlockLen - 1 /\ fp = y + r /\ fp <= y + z
          /\ y \in Int /\ z \in Int
      BY <1>1, <1>2, <2>2, <3>2
    <3>4. k - p <= -1 => z <= - BlockLen
      BY <3>1
    <3> HIDE DEF y, z
    <3>5. ~ (k - p <= -1)
      BY ONLY <3>3, <3>4
    <3>6. QED  BY <1>2, <1>7, <2>1, <3>5
  <2>4. BlockLen * (k - p) >= BlockLen
    BY <1>1, <2>1, <2>3, AtLeastOne
  <2>5. Len(x) > BlockLen - r /\ BlockLen * (k - p) \in Int /\ BlockLen * p \in Int
    <3> DEFINE y == BlockLen * p
               z == BlockLen * (k - p)
    <3>1. y + z < (y + r) + Len(x)
      BY <1>2, <2>1
    <3>2. y \in Int /\ z \in Int /\ z >= BlockLen
      BY <2>2, <2>4
    <3> HIDE DEF y, z
    <3>3. Len(x) > BlockLen - r
      BY ONLY <1>1, <1>2, <1>3, <3>1, <3>2
    <3>4. QED  BY <2>2, <3>3
  <2>6. left = BlockLen - r
    BY <1>1, <1>2, <1>3, <2>5
  <2>7. r # 0
    BY <1>1, <1>3, <1>4, <2>5
  <2>8. Len(that) > 0 /\ Len(that) <= BlockLen /\ Len(that) = Len(x) - left
    BY <1>2, <1>3, <1>4, <2>5, <2>6, <2>7 DEF that
  <2>9. BlockLen * (k - p) < BlockLen + BlockLen
    <3>1. BlockLen * p + BlockLen * (k - p) < fp + Len(x)
      BY <2>1
    <3>2. BlockLen * (k - p) < r + Len(x) /\ Len(x) <= left + BlockLen
      BY <1>1, <1>2, <1>3, <2>8, <2>2, <3>1
    <3>3. BlockLen \in Nat /\ Len(x) \in Nat /\ r \in 0 .. BlockLen - 1 /\ left = BlockLen - r
      BY <1>1, <1>2, <1>3, <2>6
    <3> DEFINE z == BlockLen * (k - p)
    <3>4. z \in Int /\ z < r + Len(x) /\ Len(x) <= left + BlockLen
      BY <2>2, <3>2
    <3> HIDE DEF z
    <3>5. z < BlockLen + BlockLen
      BY ONLY <3>3, <3>4
    <3>6. QED  BY <3>5 DEF z
  <2>10. ~ (k - p >= 2)
    BY <1>1, <2>1, <2>5, <2>9, AtLeastOne
  <2>11. k = p + 1
    BY <1>2, <2>1, <2>3, <2>10
  <2>12. fp + left = BlockLen * (p + 1) + 0
    <3>1. BlockLen * (p + 1) = BlockLen * p + BlockLen
      BY <1>1, <1>2
    <3>2. QED  BY <1>1, <1>2, <2>5, <2>6, <3>1
  <2>13. (fp + left) \div BlockLen = k
    <3>1. p + 1 \in Nat /\ 0 \in 0 .. BlockLen - 1
      BY <1>1, <1>2
    <3>2. (BlockLen * (p + 1) + 0) \div BlockLen = p + 1
      BY <1>1, <3>1, DividesExactly
    <3>3. QED  BY <2>11, <2>12, <3>2
  <2>14. that # << >>
    BY <1>5, <2>8
  <2>15. QED  BY <2>13, <2>14 DEF Touches, that, left
<1>8. QED  BY <1>6, <1>7

-----------------------------------------------------------------------------
(* write_to_file.                                                          *)
LEMMA ResizeGood ==
  ASSUME NEW s, NEW dirs, NEW rank, Good(s, dirs, rank), NEW addr, IsFile(s.disk, addr),
         NEW size \in Nat, Covers(s.disk, addr, size)
  PROVE  Good(Resize(s, addr, size), dirs, rank)
<1> DEFINE old == s.disk.blk[addr]
           c == [old EXCEPT !.size = size]
<1>1. CASE ~ (Block(s, addr).size < size)
  BY <1>1 DEF Resize
<1>2. CASE Block(s, addr).size < size
  <2>2. IsMeta(s.disk, addr) /\ addr \in Marked(s.disk) /\ old.kind = "meta"
    BY DEF IsFile, IsMeta
  <2>3. Resize(s, addr, size) = Store(s, addr, c)
    BY <1>2 DEF Resize, Block
  <2>4. old \in Infos
    BY <2>2, DistOfMetadata DEF Good, Block
  <2> HIDE DEF old
  <2>5. c \in Infos /\ c.kind = "meta" /\ c.type = old.type /\ c.dist = old.dist /\ c.size = size
    BY <2>4 DEF Infos
  <2> HIDE DEF c
  <2>6. NoNewLink(c, old) /\ \A free : KeepsLinks(c, old, free)
    BY <2>2, <2>5 DEF NoNewLink, KeepsLinks, HasLink, Points
  <2>7. c \in Blocks /\ c.kind = old.kind
    BY <2>2, <2>5 DEF Blocks
  <2>8. Good(Store(s, addr, c), dirs, rank)
    BY <2>2, <2>5, <2>6, <2>7, StoreKeepsGood DEF old
  <2>9. QED  BY <2>3, <2>8
<1>3. QED  BY <1>1, <1>2

(* A write that is refused.                                                *)
LEMMA RefusedIsFine ==
  ASSUME NEW s, Fine(s)
  PROVE  Fine(Refused(s).s) /\ Refused(s).fp \in Int /\ Fine(Refused(Lost(s)).s) /\ Refused(Lost(s)).fp \in Int
<1>1. Fine(Lost(s))
  BY GoodIsFine DEF Fine
<1>2. QED  BY <1>1 DEF Refused

(* A write returns a position, or -1 when there was no room.               *)
LEMMA ReturnsFine ==
  ASSUME NEW s, NEW dirs, NEW rank, Good(s, dirs, rank), NEW addr, IsFile(s.disk, addr),
         NEW fp \in Nat, s.fault = "none" => Covers(s.disk, addr, fp)
  PROVE  Fine(Returned(s, addr, fp).s) /\ Returned(s, addr, fp).fp \in Int
<1>2. CASE s.fault = "full"
  <2>1. Good([s EXCEPT !.fault = "none"], dirs, rank)
    BY FaultSetGood DEF Faults
  <2>2. Returned(s, addr, fp) = Refused([s EXCEPT !.fault = "none"])
    BY <1>2 DEF Returned
  <2>3. QED  BY <2>1, <2>2 DEF Refused, Fine
<1>3. CASE s.fault # "full" /\ s.fault # "none"
  <2>1. Returned(s, addr, fp) = Refused(s)
    BY <1>3 DEF Returned
  <2>2. QED  BY <2>1 DEF Refused, Fine
<1>4. CASE s.fault = "none"
  <2>1. Returned(s, addr, fp) = [s |-> Resize(s, addr, fp), fp |-> fp]
    BY <1>4 DEF Returned
  <2>2. Good(Resize(s, addr, fp), dirs, rank)
    BY <1>4, ResizeGood
  <2>3. Fine(Resize(s, addr, fp))
    BY <2>2 DEF Fine
  <2>4. QED  BY <2>1, <2>3
<1>5. QED  BY <1>2, <1>3, <1>4

(* In a file that has a distributor.                                       *)
LEMMA WritesInside ==
  ASSUME NEW s, NEW addr, Fine(s),
         s.fault = "none" => Writes(s, addr, {<<0, Block(s, addr).dist>>}, {}),
         NEW fp \in Nat, NEW x \in Seq(1 .. 255)
  PROVE  Fine(WriteInside(s, addr, fp, x).s) /\ WriteInside(s, addr, fp, x).fp \in Int
<1> DEFINE d == Block(s, addr).dist
           t == WriteBlocks(s, d, fp, x)
<1>1. CASE s.fault # "none"
  BY <1>1, RefusedIsFine DEF WriteInside
<1>2. CASE s.fault = "none" /\ (fp > Block(s, addr).size \/ Spills(fp, x))
  <2>1. WriteInside(s, addr, fp, x) \in {Refused(s), Refused(Lost(s))}
    BY <1>2 DEF WriteInside
  <2>2. QED  BY <2>1, RefusedIsFine
<1>3. CASE s.fault = "none" /\ ~ (fp > Block(s, addr).size \/ Spills(fp, x))
  <2>1. WriteInside(s, addr, fp, x) = Returned(t, addr, fp + Len(x))
    BY <1>3 DEF WriteInside
  <2> DEFINE size == Block(s, addr).size
             K == {k \in Nat : k * BlockLen < size}
             more == K \cup Touches(fp, x)
  <2>2. Writes(s, addr, {<<0, d>>}, K) /\ size \in Nat
    <3>1. PICK dirs, rank : WritesWith(s, dirs, rank, addr, {<<0, d>>}, {})
      BY <1>3 DEF Writes
    <3>2. IsFile(s.disk, addr) /\ Whole(s.disk) /\ Sane(s.disk, dirs, rank) /\ IsMeta(s.disk, addr)
      BY <3>1 DEF WritesWith, Good, IsFile
    <3>3. Covers(s.disk, addr, size)
      BY <3>2 DEF Whole, Block
    <3>4. size \in Nat
      BY <3>2, DistOfMetadata DEF Infos
    <3> HIDE DEF size, d
    <3>5. Held(s.disk, addr, K)
      BY <3>3 DEF Held, Covers
    <3> HIDE DEF K
    <3>6. WritesWith(s, dirs, rank, addr, {<<0, d>>}, K)
      BY <3>1, <3>5 DEF WritesWith
    <3>7. QED  BY <3>4, <3>6 DEF Writes
  <2>3. fp <= size /\ ~ Spills(fp, x) /\ fp \in Nat /\ Len(x) \in Nat /\ BlockLen \in Nat
    BY <1>3, <2>2, FileSystemAssumption
  <2> HIDE DEF d, size, K
  <2>4. Writes(t, addr, {<<0, d>>}, more)
    BY <2>2, WriteBlocksWrites DEF d
  <2> HIDE DEF t
  <2>5. \A k \in Nat : k * BlockLen < fp + Len(x) => k \in more
    <3>1. SUFFICES ASSUME NEW k \in Nat, k * BlockLen < fp + Len(x), k \notin K
                   PROVE  k \in Touches(fp, x)
      OBVIOUS
    <3>2. k * BlockLen \in Nat /\ ~ (k * BlockLen < size)
      BY <2>3, <3>1 DEF K
    <3>3. fp <= k * BlockLen
      BY <2>2, <2>3, <3>2
    <3>4. QED  BY <2>3, <3>1, <3>3, TouchesRest
  <2> HIDE DEF more
  <2>6. PICK dirs, rank : WritesWith(t, dirs, rank, addr, {<<0, d>>}, more)
    BY <2>4 DEF Writes
  <2>7. t.fault = "none" => Covers(t.disk, addr, fp + Len(x))
    BY <2>5, <2>6 DEF WritesWith, Held, Covers
  <2>8. fp + Len(x) \in Nat
    BY <2>3
  <2>9. QED  BY <2>1, <2>6, <2>7, <2>8, ReturnsFine DEF WritesWith
<1>4. QED  BY <1>1, <1>2, <1>3

(* A write to a file or directory is good at every disk_wr, wherever it    *)
(* fails.                                                                  *)
LEMMA WritesFine ==
  ASSUME NEW s, NEW dirs, NEW rank, Good(s, dirs, rank), NEW addr, IsMeta(s.disk, addr),
         NEW fp \in Nat, NEW x \in Seq(1 .. 255)
  PROVE  LET w == write_to_file(s, addr, fp, x)
         IN  Fine(w.s) /\ w.fp \in Int
<1> DEFINE t == FirstDistributor(s, addr)
<1>1. CASE Block(s, addr).type = 1
  <2>1. Fine(s)
    BY DEF Fine
  <2>2. QED  BY <1>1, <2>1, RefusedIsFine DEF write_to_file
<1>2. CASE Block(s, addr).type # 1
  <2>1. write_to_file(s, addr, fp, x) = WriteInside(t, addr, fp, x)
    BY <1>2 DEF write_to_file
  <2>2. PICK more : /\ Good(t, more, rank) /\ Grows(s.disk, dirs, t.disk, more)
                    /\ t.fault = "none" => Block(t, addr).dist # error_place
    BY FirstDistributorGood
  <2> HIDE DEF t
  <2>3. IsMeta(t.disk, addr) /\ Block(t, addr).type # 1 /\ IsFile(t.disk, addr)
    BY <1>2, <2>2 DEF Grows, IsMeta, IsFile, Block
  <2>4. ASSUME t.fault = "none"
        PROVE  Writes(t, addr, {<<0, Block(t, addr).dist>>}, {})
    <3> DEFINE d == Block(t, addr).dist
    <3>1. d # error_place
      BY <2>2, <2>4
    <3>2. IsDist(t.disk, d) /\ d \notin more
      BY <2>2, <2>3, <3>1, DistOfMetadata DEF Good
    <3>3. PathTo(t.disk, addr, 0, d)
      BY <3>1, <3>2, TrailBegins DEF Block
    <3> HIDE DEF d
    <3>4. WritesWith(t, more, rank, addr, {<<0, d>>}, {})
      BY <2>2, <2>3, <3>3 DEF WritesWith, Reached, Held
    <3>5. QED  BY <3>4 DEF Writes, d
  <2>5. Fine(t)
    BY <2>2 DEF Fine
  <2>6. QED  BY <2>1, <2>4, <2>5, WritesInside
<1>3. QED  BY <1>1, <1>2

(* The inductive invariant: between calls the disk is healthy, and the     *)
(* paths and descriptors are what the calls expect.                        *)
Handles == [addr : Addresses, fp : Nat, perm : {0, 1, 2}]

FilesInv ==
  /\ disk \in Healthy
  /\ path \in [Shells -> Seq(Names)]
  /\ file \in [Shells -> {None} \cup Handles]

(* A call that begins on a healthy disk.                                   *)
LEMMA BeforeGood ==
  ASSUME NEW d \in Healthy
  PROVE  \E dirs, rank : Good(Before(d), dirs, rank) /\ Before(d).fault = "none" /\ Before(d).disk = d
<1>1. /\ Before(d).disk = d /\ Before(d).log = << >> /\ Before(d).fault = "none"
      /\ Before(d) = [disk |-> d, log |-> << >>, fault |-> "none"]
  BY DEF Before
<1>2. << >> \in Seq(Disks(Blocks)) /\ << >> \in Seq(Healthy)
  BY EmptySeq
<1>3. d \in Disks(Blocks) /\ Rooted(d) /\ Whole(d)
  BY DEF Healthy
<1>4. Before(d) \in Calls(Blocks)
  BY <1>1, <1>2, <1>3 DEF Calls
<1>5. PICK dirs, rank : Sane(d, dirs, rank)
  BY DEF Healthy
<1>6. Good(Before(d), dirs, rank)
  BY <1>1, <1>2, <1>3, <1>4, <1>5 DEF Good
<1>7. QED  BY <1>1, <1>6

(* A call that has been fine leaves a healthy disk, and has written none   *)
(* but healthy ones.                                                       *)
LEMMA FineIsHealthy ==
  ASSUME NEW s, Fine(s)
  PROVE  s.disk \in Healthy /\ \A i \in DOMAIN s.log : s.log[i] \in Healthy
<1>1. PICK dirs, rank : Good(s, dirs, rank)
  BY DEF Fine
<1>2. s.disk \in Disks(Blocks) /\ s.log \in Seq(Healthy)
  BY <1>1, CallTypes DEF Good
<1>3. s.disk \in Healthy
  BY <1>1, <1>2 DEF Good, Healthy
<1>4. ASSUME NEW i \in DOMAIN s.log
      PROVE  s.log[i] \in Healthy
  <2>1. i \in 1 .. Len(s.log)
    BY <1>2
  <2>2. QED  BY ONLY <1>2, <2>1, ElementOfSeq
<1>5. QED  BY <1>3, <1>4

-----------------------------------------------------------------------------
(* The calls of shell p.                                                   *)
LEMMA HereIsPath ==
  ASSUME FilesInv, NEW p \in Shells, NEW name \in Names
  PROVE  /\ path[p] \in Seq(Names) /\ Here(p, name) \in Seq(Names)
         /\ <<Head(Here(p, name))>> \in Seq(Names)
<1>1. path[p] \in Seq(Names)
  BY DEF FilesInv
<1>2. Here(p, name) \in Seq(Names) /\ Len(Here(p, name)) = Len(path[p]) + 1 /\ Len(path[p]) \in Nat
  BY <1>1, AppendProperties DEF Here
<1>3. 1 \in 1 .. Len(Here(p, name)) /\ Head(Here(p, name)) = Here(p, name)[1]
  BY <1>2
<1>4. Head(Here(p, name)) \in Names
  BY <1>2, <1>3, ElementOfSeq
<1>5. QED  BY <1>1, <1>2, <1>4

(* A call finds the metadata of a path, or nothing.                        *)
LEMMA CallFinds ==
  ASSUME FilesInv, NEW q \in Seq(Names)
  PROVE  LET a == find_file(Before(disk), q)
         IN  a = error_place \/ IsMeta(disk, a)
<1>1. disk \in Healthy
  BY DEF FilesInv
<1>2. PICK dirs, rank : Good(Before(disk), dirs, rank) /\ Before(disk).disk = disk
  BY <1>1, BeforeGood
<1>3. QED  BY <1>2, FindsMetadata DEF Good

(* What open and mkdir create in the current directory.                    *)
LEMMA CreatesHere ==
  ASSUME FilesInv, NEW p \in Shells, NEW name \in Names, NEW type \in {0, 1}, NEW perm \in {0, 1, 2}
  PROVE  LET s == Before(disk)
         IN  Fine(s) /\ Fine(create_file_dir_addr(s, find_file(s, path[p]), name, type, perm))
<1> DEFINE s == Before(disk)
           dir == find_file(s, path[p])
<1>1. disk \in Healthy /\ path[p] \in Seq(Names)
  BY HereIsPath DEF FilesInv
<1>2. PICK dirs, rank : Good(s, dirs, rank) /\ s.disk = disk
  BY <1>1, BeforeGood
<1>3. dir = error_place \/ IsMeta(s.disk, dir)
  BY <1>1, <1>2, CallFinds
<1>4. Fine(s)
  BY <1>2 DEF Fine
<1> HIDE DEF s, dir
<1>5. Fine(create_file_dir_addr(s, dir, name, type, perm))
  BY <1>2, <1>3, CreatesGood
<1>6. QED  BY <1>4, <1>5 DEF s, dir

(* open.                                                                   *)
LEMMA OpensFine ==
  ASSUME FilesInv, NEW p \in Shells, NEW name \in Names, NEW flag \in {0, 1, 2}
  PROVE  Fine(Opened(p, name, flag))
BY CreatesHere DEF Opened

(* mkdir.                                                                  *)
LEMMA MakesFine ==
  ASSUME FilesInv, NEW p \in Shells, NEW name \in Names
  PROVE  Fine(MadeDirectory(p, name))
BY CreatesHere DEF MadeDirectory

(* unlink: once the entry is cut nothing leads to the file, so that it can *)
(* be freed.                                                               *)
LEMMA UnlinksFine ==
  ASSUME FilesInv, NEW p \in Shells, NEW name \in Names
  PROVE  Fine(Unlinked(p, name))
<1> DEFINE s == Before(disk)
           q == Here(p, name)
           dir == find_file(s, path[p])
           target == Target(s, q, find_file(s, q))
           cut == delete_from_dir(s, dir, target)
<1>1. disk \in Healthy /\ path[p] \in Seq(Names) /\ q \in Seq(Names) /\ <<Head(q)>> \in Seq(Names)
  BY HereIsPath DEF FilesInv
<1>2. PICK dirs, rank : Good(s, dirs, rank) /\ s.disk = disk /\ s.fault = "none"
  BY <1>1, BeforeGood
<1>3. dir = error_place \/ IsMeta(s.disk, dir)
  BY <1>1, <1>2, CallFinds
<1>4. target = error_place \/ IsMeta(s.disk, target)
  <2>1. /\ find_file(s, q) = error_place \/ IsMeta(disk, find_file(s, q))
        /\ find_file(s, <<Head(q)>>) = error_place \/ IsMeta(disk, find_file(s, <<Head(q)>>))
    BY <1>1, CallFinds
  <2>2. QED  BY <1>2, <2>1 DEF Target
<1>5. Unlinked(p, name) = UnlinkedAt(s, dir, target)
  BY DEF Unlinked
<1> HIDE DEF s, q, dir, target
<1>6. CASE target = error_place
  BY <1>2, <1>5, <1>6 DEF UnlinkedAt, Fine
<1>7. CASE target # error_place
  <2>1. Unlinked(p, name) = Freed(cut, target)
    BY <1>5, <1>7 DEF UnlinkedAt
  <2>2. IsMeta(s.disk, target)
    BY <1>4, <1>7
  <2>3. /\ Good(cut, dirs, rank)
        /\ cut.fault = "none" => IsMeta(cut.disk, target) /\ Unled(cut.disk, target) /\ target # metadata_start
    BY <1>2, <1>3, <2>2, UnlinksGood
  <2> HIDE DEF cut
  <2>4. CASE cut.fault # "none"
    BY <2>1, <2>3, <2>4 DEF Freed, Fine
  <2>5. CASE cut.fault = "none"
    <3>1. Fine(delete_file(cut, target))
      BY <2>3, <2>5, DeletesGood
    <3>2. QED  BY <2>1, <2>5, <3>1 DEF Freed
  <2>6. QED  BY <2>4, <2>5
<1>8. QED  BY <1>6, <1>7

(* write: what the descriptor leads to is metadata while it is in the      *)
(* tree.                                                                   *)
LEMMA StoresFine ==
  ASSUME FilesInv, NEW p \in Shells, CanReach(p), NEW x \in Texts
  PROVE  Fine(Stored(p, x).s) /\ Stored(p, x).fp \in Int
<1> DEFINE s == Before(disk)
           addr == file[p].addr
           fp == file[p].fp
<1>1. disk \in Healthy /\ fp \in Nat /\ x \in Seq(1 .. 255)
  BY FileCallsAssumption DEF FilesInv, CanReach, Handles
<1>2. PICK dirs, rank : Good(s, dirs, rank) /\ s.disk = disk
  BY <1>1, BeforeGood
<1>3. PICK q \in Paths : addr = PathAddress(disk, q) /\ addr # error_place
  BY DEF CanReach, Present
<1>4. IsMeta(s.disk, addr)
  BY <1>2, <1>3, PathLeads DEF Good
<1>5. Stored(p, x) = write_to_file(s, addr, fp, x)
  BY DEF Stored
<1> HIDE DEF s, addr, fp
<1>6. QED  BY <1>1, <1>2, <1>4, <1>5, WritesFine

(* Whatever call is under way when the machine stops.                      *)
LEMMA UnderWayIsFine ==
  ASSUME FilesInv, NEW p \in Shells, NEW s \in UnderWay(p)
  PROVE  Fine(s)
<1>1. CASE \E name \in Names : s = Unlinked(p, name)
  BY <1>1, UnlinksFine
<1>2. CASE \E name \in Names : s = MadeDirectory(p, name)
  BY <1>2, MakesFine
<1>3. CASE \E name \in Names, flag \in {0, 1, 2} : s = Opened(p, name, flag)
  BY <1>3, OpensFine
<1>4. CASE CanReach(p) /\ \E x \in Texts : s = Stored(p, x).s
  BY <1>4, StoresFine
<1>5. \A name \in Names : Flags[name] \subseteq {0, 1, 2}
  BY FileCallsAssumption
<1>6. \/ \E name \in Names : \/ s = Unlinked(p, name) \/ s = MadeDirectory(p, name)
                               \/ \E flag \in Flags[name] : s = Opened(p, name, flag)
      \/ CanReach(p) /\ \E x \in Texts : s = Stored(p, x).s
  <2>1. CASE s \in UNION {{Unlinked(p, name)} \cup {MadeDirectory(p, f) : f \in Folders \cap {name}}
                          \cup {Opened(p, name, flag) : flag \in Flags[name]} : name \in Names}
    BY <2>1
  <2>2. CASE s \in IF CanReach(p) /\ file[p].perm # 1 THEN {Stored(p, x).s : x \in Texts} ELSE {}
    BY <2>2
  <2>3. QED  BY <2>1, <2>2 DEF UnderWay
<1>7. QED  BY <1>1, <1>2, <1>3, <1>4, <1>5, <1>6

-----------------------------------------------------------------------------
(* A start of the machine: create_root finds a block, or there is none and *)
(* the kernel fails.                                                       *)
LEMMA BootIsHealthy ==
  ASSUME NEW d \in Healthy, Boot(d)
  PROVE  disk' \in Healthy
<1> DEFINE s == Before(d)
           new == create_metadata(s, "root", 1, 0)
<1>1. PICK dirs, rank : Good(s, dirs, rank)
  BY BeforeGood
<1>2. Gives(s, new, dirs, rank, Metadata("root", 1, 0))
  BY <1>1, MetadataGiven
<1>3. Fine(new.s)
  BY <1>2 DEF Gives, GivesTo, Fine
<1>4. Booted(d) = new.s.disk
  BY DEF Booted, create_root
<1> HIDE DEF new
<1>5. Booted(d) \in Healthy
  BY <1>3, <1>4, FineIsHealthy
<1>6. QED  BY <1>5 DEF Boot

(* The first start: on a disk of zeros the first block is the root.        *)
LEMMA FirstBootIsHealthy ==
  Booted([blk |-> [a \in Addresses |-> Blank], map |-> {}]) \in Healthy
<1> DEFINE d == [blk |-> [a \in Addresses |-> Blank], map |-> {}]
           s == Before(d)
           a == find_empty_block(s, info_block_meta)
           c == Metadata("root", 1, 0)
           e == [d EXCEPT !.blk = [d.blk EXCEPT ![metadata_start] = c]]
           f == [e EXCEPT !.map = e.map \cup {ByteOf(metadata_start)}]
           rank == [x \in Addresses |-> 0]
<1>1. a = metadata_start
  <2>1. FreeBytes(s, info_block_meta) = 0 .. BlockNum - 1
    BY Layout DEF FreeBytes, Before
  <2> HIDE DEF s, d
  <2>2. 0 \in FreeBytes(s, info_block_meta) /\ \A x \in FreeBytes(s, info_block_meta) : 0 <= x
    <3>1. BlockNum \in Int /\ 0 <= BlockNum - 1
      BY Layout
    <3>2. 0 \in 0 .. BlockNum - 1 /\ \A x \in 0 .. BlockNum - 1 : 0 <= x
      BY <3>1
    <3>3. QED  BY <2>1, <3>2
  <2>3. PICK g \in FreeBytes(s, info_block_meta) :
          /\ g = CHOOSE x \in FreeBytes(s, info_block_meta) : \A y \in FreeBytes(s, info_block_meta) : x <= y
          /\ \A y \in FreeBytes(s, info_block_meta) : g <= y
    BY <2>2
  <2>4. g = 0
    <3>1. g \in 0 .. BlockNum - 1 /\ g <= 0
      BY <2>1, <2>2, <2>3
    <3>2. QED  BY ONLY <3>1
  <2>5. a = AddressOf(info_block_meta, g)
    BY <2>3 DEF find_empty_block
  <2> HIDE DEF a
  <2>6. QED  BY <2>4, <2>5, Layout DEF AddressOf
<1>2. metadata_start \in Addresses /\ metadata_start < files_start_address
  BY PlaceIsAddress, Layout
<1>3. c \in Blocks /\ LeadsNowhere(c) /\ c.kind = "meta" /\ c.type = 1
  BY FreshBlocks
<1>4. /\ d \in Disks(Blocks) /\ d.map = {} /\ d.blk = [x \in Addresses |-> Blank]
      /\ d.blk \in [Addresses -> Blocks]
  BY DEF Disks, Blocks
<1>5. Booted(d) = Allocated(s, a, c).s.disk
  <2>1. Booted(d) = create_metadata(s, "root", 1, 0).s.disk
    BY DEF Booted, create_root
  <2>2. create_metadata(s, "root", 1, 0) = IF a < files_start_address /\ Length("root") < NameSize
                                           THEN Allocated(s, a, c) ELSE Overrun(s)
    BY DEF create_metadata
  <2>3. a < files_start_address /\ Length("root") < NameSize
    BY <1>1, <1>2, FileSystemAssumption
  <2> HIDE DEF a, s, c
  <2>4. QED  BY <2>1, <2>2, <2>3
<1>6. s.disk = d /\ s = [disk |-> d, log |-> << >>, fault |-> "none"] /\ s \in Calls(Blocks)
  <2>1. << >> \in Seq(Disks(Blocks))
    BY EmptySeq
  <2>2. s = [disk |-> d, log |-> << >>, fault |-> "none"]
    BY DEF Before
  <2> HIDE DEF s, d
  <2>3. QED  BY <1>4, <2>1, <2>2 DEF Calls
<1> HIDE DEF c, d, s
<1>7. /\ e \in Disks(Blocks) /\ e.map = {} /\ e.blk[metadata_start] = c
      /\ \A x \in Addresses \ {metadata_start} : e.blk[x] = d.blk[x]
  BY <1>2, <1>3, <1>4 DEF Disks
<1>8. Store(s, metadata_start, c) = Wrote(s, e)
  BY <1>6 DEF Store
<1> HIDE DEF e
<1>9. Wrote(s, e) \in Calls(Blocks) /\ Wrote(s, e).disk = e
  BY <1>6, <1>7, WroteIsCall
<1>10. f \in Disks(Blocks) /\ f.map = {ByteOf(metadata_start)} /\ f.blk = e.blk
  BY <1>2, <1>7, ByteIsInMap DEF Disks
<1>11. MarkUsed(Wrote(s, e), metadata_start) = Wrote(Wrote(s, e), f)
  BY <1>9 DEF MarkUsed
<1> HIDE DEF f
<1>12. Wrote(Wrote(s, e), f).disk = f
  BY <1>9, <1>10, WroteIsCall
<1>13. Booted(d) = f
  BY <1>1, <1>5, <1>8, <1>11, <1>12 DEF Allocated
<1>14. Marked(d) = {} /\ Marked(e) = {} /\ Marked(f) = {metadata_start}
  BY <1>2, <1>4, <1>7, <1>10, OneByteEach DEF Marked
<1>15. Sane(d, {}, rank)
  <2>1. rank \in [Addresses -> Nat]
    OBVIOUS
  <2> HIDE DEF rank
  <2>2. QED
    BY <1>4, <1>14, <2>1 DEF Sane, MapsFit, PlaceIsNoEntry, Distribute, LinksLead, LinksDiffer
<1> HIDE DEF rank
<1>16. Sane(e, {}, rank)
  BY <1>2, <1>4, <1>7, <1>14, <1>15, Scribbled
<1>17. MapsFit(f)
  BY <1>2, <1>10 DEF MapsFit, BlockBytes
<1>18. Sane(f, {}, rank)
  <2>1. metadata_start # error_place
    BY Layout
  <2>2. \A i \in Indices : HasLink(e.blk[metadata_start], i) => Points(e.blk[metadata_start], i) = error_place
    BY <1>3, <1>7 DEF LeadsNowhere
  <2>3. metadata_start \in Addresses \ Marked(e) /\ Marked(f) = Marked(e) \cup {metadata_start}
    BY <1>2, <1>14
  <2>4. QED  BY <1>10, <1>16, <1>17, <2>1, <2>2, <2>3, MarkedSane
<1>19. Rooted(f)
  BY <1>3, <1>7, <1>10, <1>14 DEF Rooted, IsMeta
<1>20. Whole(f)
  <2>1. \A x : ~ IsFile(f, x)
    BY <1>3, <1>7, <1>10, <1>14 DEF IsFile, IsMeta
  <2>2. QED  BY <2>1 DEF Whole
<1>21. f \in Healthy
  BY <1>10, <1>18, <1>19, <1>20 DEF Healthy
<1>22. QED  BY <1>13, <1>21 DEF d

-----------------------------------------------------------------------------
(* The invariant holds at the first start.                                 *)
LEMMA FilesInit == Init => FilesInv
<1> SUFFICES ASSUME Init
             PROVE  FilesInv
  OBVIOUS
<1>1. disk \in Healthy
  BY FirstBootIsHealthy DEF Init
<1>2. path \in [Shells -> Seq(Names)]
  BY EmptySeq DEF Init
<1>3. file \in [Shells -> {None} \cup Handles]
  BY DEF Init
<1>4. QED  BY <1>1, <1>2, <1>3 DEF FilesInv

(* A call leaves the disk healthy.                                         *)
LEMMA DoneIsHealthy ==
  ASSUME FilesInv, NEW s, Fine(s), Done(s)
  PROVE  disk' \in Healthy
BY FineIsHealthy DEF FilesInv, Done

(* uint16_t: a position wraps around to a position.                        *)
LEMMA WrapsAround ==
  ASSUME NEW M \in Nat \ {0}, NEW x \in Int
  PROVE  x % M \in Nat
OBVIOUS

(* The position in the file of shell p moves.                              *)
LEMMA MovesHandle ==
  ASSUME FilesInv, NEW p \in Shells, file[p] # None, NEW x \in Int,
         file' = [file EXCEPT ![p].fp = x % FpMod]
  PROVE  file' \in [Shells -> {None} \cup Handles]
<1> DEFINE h == file[p]
           y == x % FpMod
<1>1. h \in Handles /\ file \in [Shells -> {None} \cup Handles]
  BY DEF FilesInv
<1>2. y \in Nat
  BY FileCallsAssumption, WrapsAround
<1> HIDE DEF y
<1>3. [h EXCEPT !.fp = y] \in Handles
  BY <1>1, <1>2 DEF Handles
<1>4. file' = [file EXCEPT ![p] = [h EXCEPT !.fp = y]]
  BY DEF y
<1>5. QED  BY <1>1, <1>3, <1>4

(* When the kernel fails nothing follows, and nothing has changed.         *)
LEMMA FaultKeeps ==
  ASSUME FilesInv, Fault
  PROVE  FilesInv'
BY DEF Fault, FilesInv, memory

(* open keeps the invariant, also when it creates or fails.                *)
LEMMA OpenKeeps ==
  ASSUME FilesInv, NEW p \in Shells, NEW name \in Names, NEW flag \in Flags[name], Open(p, name, flag)
  PROVE  FilesInv'
<1> DEFINE s == Opened(p, name, flag)
           addr == find_file(s, Here(p, name))
           perm == EntryPerm(name, s, addr)
<1>1. flag \in {0, 1, 2}
  BY FileCallsAssumption
<1>2. Fine(s)
  BY <1>1, OpensFine
<1>3. Fault \/ OpenedAs(p, name, flag, s)
  BY DEF Open
<1> HIDE DEF s
<1>4. CASE UNCHANGED memory /\ Done(s)
  BY <1>2, <1>4, DoneIsHealthy DEF FilesInv, memory
<1>5. CASE UNCHANGED memory /\ Done(Fails(s, "corrupts"))
  <2>1. Fine(Fails(s, "corrupts"))
    BY <1>2, GoodIsFine DEF Fine, Faults
  <2>2. QED  BY <2>1, <1>5, DoneIsHealthy DEF FilesInv, memory
<1>6. CASE Done(s) /\ file' = [file EXCEPT ![p] = None] /\ path' = path
  <2>1. disk' \in Healthy
    BY <1>2, <1>6, DoneIsHealthy
  <2>2. QED  BY <1>6, <2>1 DEF FilesInv
<1>7. CASE Done(s) /\ perm \in {0, flag} /\ path' = path
           /\ file' = [file EXCEPT ![p] = [addr |-> addr, fp |-> 0, perm |-> perm]]
  <2>1. disk' \in Healthy
    BY <1>2, <1>7, DoneIsHealthy
  <2>2. addr \in Addresses
    <3>1. PICK dirs, rank : Good(s, dirs, rank)
      BY <1>2 DEF Fine
    <3>2. Here(p, name) \in Seq(Names)
      BY HereIsPath
    <3>3. addr = error_place \/ IsMeta(s.disk, addr)
      BY <3>1, <3>2, FindsMetadata DEF Good
    <3>4. QED  BY <3>3, PlaceIsAddress DEF IsMeta, Marked
  <2> HIDE DEF addr, perm
  <2>3. [addr |-> addr, fp |-> 0, perm |-> perm] \in Handles
    BY <1>1, <1>7, <2>2 DEF Handles
  <2>4. QED  BY <1>7, <2>1, <2>3 DEF FilesInv
<1>8. CASE Fault
  BY <1>8, FaultKeeps
<1>9. QED  BY <1>3, <1>4, <1>5, <1>6, <1>7, <1>8 DEF OpenedAs

(* So does every other call of a shell.                                    *)
LEMMA FilesStep ==
  ASSUME FilesInv, NEW p \in Shells, Step(p)
  PROVE  FilesInv'
<1>1. CASE CdUp(p)
  <2>1. path[p] \in Seq(Names) /\ path[p] # << >>
    BY <1>1 DEF FilesInv, CdUp
  <2>2. Front(path[p]) \in Seq(Names)
    <3> DEFINE q == path[p]
    <3>1. q \in Seq(Names) /\ q # << >>
      BY <2>1
    <3> HIDE DEF q
    <3>2. Front(q) = SubSeq(q, 1, Len(q) - 1) /\ Len(q) \in Nat
      BY <3>1 DEF Front
    <3>3. \A i \in 1 .. Len(q) - 1 : q[i] \in Names
      BY <3>1, <3>2, ElementOfSeq
    <3>4. SubSeq(q, 1, Len(q) - 1) \in Seq(Names)
      BY <3>2, <3>3, SubSeqProperties
    <3>5. QED  BY <3>2, <3>4 DEF q
  <2>3. QED  BY <1>1, <2>2 DEF FilesInv, CdUp
<1>2. CASE \E name \in Names : Cd(p, name)
  <2>1. PICK name \in Names : Cd(p, name)
    BY <1>2
  <2>2. CASE Fault
    BY <2>2, FaultKeeps
  <2>3. CASE ~ Fault
    <3>1. /\ path' = [path EXCEPT ![p] = Append(@, name)]
          /\ UNCHANGED <<disk, file, fds, oft, fault>>
      BY <2>1, <2>3 DEF Cd
    <3>2. Append(path[p], name) \in Seq(Names)
      BY HereIsPath DEF Here
    <3>3. QED  BY <3>1, <3>2 DEF FilesInv
  <2>4. QED  BY <2>2, <2>3
<1>3. CASE \E name \in Names : Mkdir(p, name) \/ Unlink(p, name)
  <2>1. PICK name \in Names : Mkdir(p, name) \/ Unlink(p, name)
    BY <1>3
  <2>2. CASE Fault
    BY <2>2, FaultKeeps
  <2>3. CASE ~ Fault
    <3>1. UNCHANGED memory /\ (Done(MadeDirectory(p, name)) \/ Done(Unlinked(p, name)))
      BY <2>1, <2>3 DEF Mkdir, Unlink
    <3>2. disk' \in Healthy
      BY <3>1, MakesFine, UnlinksFine, DoneIsHealthy
    <3>3. QED  BY <3>1, <3>2 DEF FilesInv, memory
  <2>4. QED  BY <2>2, <2>3
<1>4. CASE \E name \in Names : \E flag \in Flags[name] : Open(p, name, flag)
  BY <1>4, OpenKeeps
<1>5. CASE \E x \in Texts : Write(p, x)
  <2>1. PICK x \in Texts : Write(p, x)
    BY <1>5
  <2>2. CASE ~ CanReach(p)
    BY <2>1, <2>2 DEF Write, Fault, FilesInv, memory
  <2>3. CASE CanReach(p) /\ file[p].perm = 1
    BY <2>1, <2>3 DEF Write, FilesInv, memory
  <2>4. CASE CanReach(p) /\ file[p].perm # 1
    <3>1. /\ Done(Stored(p, x).s) /\ path' = path
          /\ file' = [file EXCEPT ![p].fp = Stored(p, x).fp % FpMod]
      BY <2>1, <2>4 DEF Write
    <3>2. Fine(Stored(p, x).s) /\ Stored(p, x).fp \in Int /\ file[p] # None
      BY <2>4, StoresFine DEF CanReach
    <3>3. disk' \in Healthy
      BY <3>1, <3>2, DoneIsHealthy
    <3>4. file' \in [Shells -> {None} \cup Handles]
      BY <3>1, <3>2, MovesHandle
    <3>5. QED  BY <3>1, <3>3, <3>4 DEF FilesInv
  <2>5. QED  BY <2>2, <2>3, <2>4
<1>6. CASE \E n \in Counts : Read(p, n)
  <2>1. PICK n \in Counts : Read(p, n)
    BY <1>6
  <2>2. CASE ~ CanReach(p)
    BY <2>1, <2>2 DEF Read, Fault, FilesInv, memory
  <2>3. CASE CanReach(p)
    <3> DEFINE read == ReadCount(Before(disk), file[p].addr, n)
    <3>1. /\ disk' = disk /\ path' = path /\ file[p] # None
          /\ file' = [file EXCEPT ![p].fp = (file[p].fp + read) % FpMod]
      BY <2>1, <2>3 DEF Read
    <3>2. read \in Nat
      <4>1. PICK dirs, rank : Good(Before(disk), dirs, rank) /\ Before(disk).disk = disk
        BY BeforeGood DEF FilesInv
      <4>2. PICK q \in Paths : file[p].addr = PathAddress(disk, q) /\ file[p].addr # error_place
        BY <2>3 DEF CanReach, Present
      <4>3. IsMeta(disk, file[p].addr)
        BY <4>1, <4>2, PathLeads DEF Good
      <4>4. Block(Before(disk), file[p].addr) \in Infos
        BY <4>1, <4>3, DistOfMetadata DEF Good
      <4>5. Block(Before(disk), file[p].addr).size \in Nat /\ n \in Nat
        BY <4>4, FileCallsAssumption DEF Infos
      <4>6. QED  BY <4>5 DEF ReadCount
    <3>3. file[p].fp \in Nat
      BY <3>1 DEF FilesInv, Handles
    <3> HIDE DEF read
    <3>4. file[p].fp + read \in Int
      BY <3>2, <3>3
    <3>5. file' \in [Shells -> {None} \cup Handles]
      BY <3>1, <3>4, MovesHandle
    <3>6. QED  BY <3>1, <3>5 DEF FilesInv
  <2>4. QED  BY <2>2, <2>3
<1>7. CASE \E offset \in Offsets : Lseek(p, offset)
  <2>1. PICK offset \in Offsets : Lseek(p, offset)
    BY <1>7
  <2>2. CASE file[p] = None
    BY <2>1, <2>2 DEF Lseek, Fault, FilesInv, memory
  <2>3. CASE file[p] # None
    <3>1. /\ disk' = disk /\ path' = path
          /\ file' = [file EXCEPT ![p].fp = (file[p].fp + offset) % FpMod]
      BY <2>1, <2>3 DEF Lseek
    <3>2. file[p].fp \in Nat /\ offset \in Int
      BY <2>3, FileCallsAssumption DEF FilesInv, Handles
    <3>3. file[p].fp + offset \in Int
      BY <3>2
    <3>4. file' \in [Shells -> {None} \cup Handles]
      BY <2>3, <3>1, <3>3, MovesHandle
    <3>5. QED  BY <3>1, <3>4 DEF FilesInv
  <2>4. QED  BY <2>2, <2>3
<1>8. QED  BY <1>1, <1>2, <1>3, <1>4, <1>5, <1>6, <1>7 DEF Step

(* And a stop of the machine at any disk_wr, with the start that follows.  *)
LEMMA FilesRestart ==
  ASSUME FilesInv, Restart
  PROVE  FilesInv'
<1> DEFINE Logs(p) == UNION {{s.log[i] : i \in DOMAIN s.log} : s \in UnderWay(p)}
<1>1. PICK d \in {disk} \cup UNION {Logs(p) : p \in Shells} : Boot(d)
  BY DEF Restart
<1>2. d \in Healthy
  <2>1. CASE d = disk
    BY <2>1 DEF FilesInv
  <2>2. CASE \E p \in Shells : d \in Logs(p)
    <3>1. PICK p \in Shells : d \in Logs(p)
      BY <2>2
    <3>2. PICK s \in UnderWay(p) : \E i \in DOMAIN s.log : d = s.log[i]
      BY <3>1
    <3>3. Fine(s)
      BY <3>2, UnderWayIsFine
    <3>4. QED  BY <3>2, <3>3, FineIsHealthy
  <2>3. QED  BY <1>1, <2>1, <2>2
<1>3. disk' \in Healthy
  BY <1>1, <1>2, BootIsHealthy
<1>4. path' \in [Shells -> Seq(Names)]
  BY <1>1, EmptySeq DEF Boot
<1>5. file' \in [Shells -> {None} \cup Handles]
  BY <1>1 DEF Boot
<1>6. QED  BY <1>3, <1>4, <1>5 DEF FilesInv

(* Between calls the disk is healthy: no block is linked that is not       *)
(* marked, or linked twice, or linked as what it is not.                   *)
THEOREM FilesAreHealthy == Spec => []FilesInv
<1>1. FilesInv /\ [Next]_vars => FilesInv'
  <2> SUFFICES ASSUME FilesInv, [Next]_vars
               PROVE  FilesInv'
    OBVIOUS
  <2>1. CASE \E p \in Shells : Step(p)
    BY <2>1, FilesStep
  <2>2. CASE Restart
    BY <2>2, FilesRestart
  <2>3. CASE UNCHANGED vars
    BY <2>3 DEF vars, memory, FilesInv
  <2>4. QED  BY <2>1, <2>2, <2>3 DEF Next
<1>2. QED  BY <1>1, FilesInit, PTL DEF Spec

(* What a healthy disk promises of its links.                              *)
LEMMA HealthyIsLinked ==
  ASSUME NEW d \in Healthy
  PROVE  /\ Linked(d) \subseteq Marked(d)
         /\ \A l, m \in Links(d) : LinkAt(d, l) # error_place =>
              LinkAt(d, l) # metadata_start /\ (LinkAt(d, l) = LinkAt(d, m) => l = m)
<1>1. PICK dirs, rank : Sane(d, dirs, rank)
  BY DEF Healthy
<1>2. Rooted(d)
  BY DEF Healthy
<1>3. Linked(d) \subseteq Marked(d)
  BY <1>1, <1>2, SaneIsMarked
<1>4. \A l, m \in Links(d) : LinkAt(d, l) # error_place =>
        LinkAt(d, l) # metadata_start /\ (LinkAt(d, l) = LinkAt(d, m) => l = m)
  BY ONLY <1>1, <1>2, SaneHasOneLinkEach
<1>5. QED  BY <1>3, <1>4

(* Every block the tree leads to is marked as used, for every layout of    *)
(* the disk, number of shells, depth of paths and length of runs, and with *)
(* a stop of the machine at any disk_wr (file.c: update_info_space comes   *)
(* before the link, and the link is cut before it).                        *)
THEOREM LinksAreMarked == Spec => []LinkedIsMarked
<1>1. FilesInv => LinkedIsMarked
  BY HealthyIsLinked DEF FilesInv, LinkedIsMarked
<1>2. QED  BY <1>1, FilesAreHealthy, PTL

(* No block belongs to two files, to two directories or twice to one,      *)
(* under the same circumstances.                                           *)
THEOREM LinkedOnce == Spec => []OneLinkEach
<1>1. ASSUME FilesInv
      PROVE  OneLinkEach
  <2>1. disk \in Healthy
    BY <1>1 DEF FilesInv
  <2>2. QED  BY ONLY <2>1, HealthyIsLinked DEF OneLinkEach
<1>2. QED  BY <1>1, FilesAreHealthy, PTL

-----------------------------------------------------------------------------
(* The distributor at the end of a trail is where Chain has it.            *)
LEMMA TrailInChain ==
  ASSUME NEW s, NEW dirs, NEW rank, Sane(s.disk, dirs, rank), NEW a, IsMeta(s.disk, a),
         NEW m \in Nat, NEW c, PathTo(s.disk, a, m, c)
  PROVE  LET chain == Chain(s, Block(s, a).dist)
         IN  chain \in Seq(Addresses) /\ m + 1 \in 1 .. Len(chain) /\ chain[m + 1] = c
<1> DEFINE dist == Block(s, a).dist
           chain == Chain(s, dist)
<1>1. PICK l : Trail(s.disk, a, m, l) /\ l[m] = c
  BY DEF PathTo
<1>2. l[0] = dist /\ IsDist(s.disk, dist) /\ dist # error_place
  <2>1. 0 \in 0 .. m
    OBVIOUS
  <2>2. QED  BY <1>1, <2>1 DEF Trail, Block
<1> HIDE DEF dist
<1>3. /\ chain \in Seq(Addresses) /\ Len(chain) > 0 /\ chain[1] = l[0]
      /\ Block(s, chain[Len(chain)]).next = error_place
      /\ \A k \in 1 .. Len(chain) - 1 : chain[k + 1] = Block(s, chain[k]).next
  <2>1. Sane(s.disk, dirs, rank) /\ (dist = error_place \/ IsDist(s.disk, dist))
    BY <1>2
  <2>2. chain \in Seq(Addresses)
    BY ONLY <2>1, ChainOfDistributors
  <2>3. dist # error_place => Len(chain) > 0 /\ Block(s, chain[Len(chain)]).next = error_place
    BY ONLY <2>1, ChainOfDistributors
  <2>4. dist # error_place => chain[1] = dist
    BY ONLY <2>1, ChainOfDistributors
  <2>5. Linkwise(s, chain)
    BY ONLY <2>1, ChainOfDistributors
  <2>6. QED  BY <1>2, <2>2, <2>3, <2>4, <2>5 DEF Linkwise
<1> HIDE DEF chain
<1> DEFINE S == {i \in Nat : i <= m => i + 1 <= Len(chain) /\ chain[i + 1] = l[i]}
<1>4. Len(chain) \in Nat
  BY <1>3
<1>5. 0 \in S
  BY <1>3, <1>4
<1>6. ASSUME NEW i \in S
      PROVE  i + 1 \in S
  <2>1. SUFFICES ASSUME i + 1 <= m
                 PROVE  (i + 1) + 1 <= Len(chain) /\ chain[(i + 1) + 1] = l[i + 1]
    OBVIOUS
  <2>2. i \in 0 .. m - 1 /\ i + 1 \in 0 .. m /\ i + 1 <= Len(chain) /\ chain[i + 1] = l[i]
    BY <2>1
  <2>3. Block(s, l[i]).next = l[i + 1] /\ l[i + 1] # error_place
    BY <1>1, <2>2 DEF Trail, Block
  <2>4. i + 1 # Len(chain)
    BY <1>3, <2>2, <2>3
  <2>5. i + 1 \in 1 .. Len(chain) - 1
    BY <1>4, <2>2, <2>4
  <2>6. chain[(i + 1) + 1] = Block(s, chain[i + 1]).next
    BY <1>3, <2>5
  <2>7. QED  BY <1>4, <2>2, <2>3, <2>5, <2>6
<1>7. S = Nat
  <2> HIDE DEF S
  <2>1. S \in SUBSET Nat
    BY DEF S
  <2>2. QED  BY <1>5, <1>6, <2>1, NumbersInduct
<1>8. m + 1 <= Len(chain) /\ chain[m + 1] = c
  BY <1>1, <1>7
<1>9. m + 1 \in 1 .. Len(chain)
  BY <1>4, <1>8
<1>10. QED  BY <1>3, <1>8, <1>9 DEF chain, dist

(* Slot k of a list of distributors.                                       *)
LEMMA SlotAt ==
  ASSUME NEW chain \in Seq(Addresses), NEW k \in Nat, (k \div FileParts) + 1 \in 1 .. Len(chain)
  PROVE  /\ k + 1 \in 1 .. Len(Slots(chain))
         /\ Slots(chain)[k + 1] = <<chain[(k \div FileParts) + 1], k % FileParts>>
<1> DEFINE F == FileParts
           L == Len(chain)
           q == k \div F
           r == k % F
<1>1. F \in Nat \ {0} /\ L \in Nat
  BY FileSystemAssumption
<1>2. q \in Nat /\ r \in 0 .. F - 1 /\ k = F * q + r
  BY <1>1, DividesNaturals
<1>3. q + 1 <= L
  OBVIOUS
<1> HIDE DEF F, L, q, r
<1>4. L * F = F * q + F * (L - q) /\ F * q \in Nat /\ F * (L - q) \in Int
  BY <1>1, <1>2
<1>5. F * (L - q) >= F
  BY <1>1, <1>2, <1>3, AtLeastOne
<1> DEFINE x == F * q
           y == F * (L - q)
           z == L * F
<1>6. z = x + y /\ x \in Nat /\ y \in Int /\ y >= F /\ k = x + r /\ r \in 0 .. F - 1 /\ F \in Nat
  BY <1>1, <1>2, <1>4, <1>5
<1> HIDE DEF x, y, z
<1>7. k + 1 \in 1 .. z
  BY ONLY <1>6
<1>8. Slots(chain) = [i \in 1 .. L * F |-> <<chain[((i - 1) \div F) + 1], (i - 1) % F>>]
  BY DEF Slots, L, F
<1>9. DOMAIN Slots(chain) = 1 .. z
  BY <1>8 DEF z
<1>10. Slots(chain)[k + 1] = <<chain[(((k + 1) - 1) \div F) + 1], ((k + 1) - 1) % F>>
  BY <1>7, <1>8 DEF z
<1>11. (k + 1) - 1 = k
  OBVIOUS
<1>12. Slots(chain)[k + 1] = <<chain[(k \div F) + 1], k % F>>
  BY ONLY <1>10, <1>11
<1>13. DOMAIN Slots(chain) = 1 .. Len(Slots(chain))
  BY SlotsOfChain
<1>14. QED  BY <1>7, <1>9, <1>12, <1>13 DEF F

(* Where a file has a part, Contents and read_from_file find it.           *)
LEMMA PartIsRead ==
  ASSUME NEW s, NEW dirs, NEW rank, Sane(s.disk, dirs, rank), NEW a, IsMeta(s.disk, a),
         NEW k \in Nat, Has(s.disk, a, k)
  PROVE  LET chain == Chain(s, Block(s, a).dist)
         IN  /\ k + 1 \in 1 .. Len(Slots(chain))
             /\ Slots(chain)[k + 1] = <<chain[(k \div FileParts) + 1], k % FileParts>>
             /\ In(s, Slots(chain)[k + 1]) # error_place
<1> DEFINE m == k \div FileParts
           j == k % FileParts
           chain == Chain(s, Block(s, a).dist)
<1>1. m \in Nat
  BY FileSystemAssumption, DividesNaturals
<1>2. PICK c : PathTo(s.disk, a, m, c) /\ HasPart(s.disk, c, j)
  BY DEF Has
<1> HIDE DEF m
<1>3. chain \in Seq(Addresses) /\ m + 1 \in 1 .. Len(chain) /\ chain[m + 1] = c
  BY <1>1, <1>2, TrailInChain
<1> HIDE DEF chain, j
<1>4. k + 1 \in 1 .. Len(Slots(chain)) /\ Slots(chain)[k + 1] = <<chain[m + 1], j>>
  BY <1>3, SlotAt DEF m, j
<1>5. In(s, <<c, j>>) # error_place
  BY <1>2 DEF In, HasPart, Block
<1>6. QED  BY <1>3, <1>4, <1>5 DEF chain, m, j

(* Byte fp + i of a file, as Contents has it and as read_from_file finds   *)
(* it.                                                                     *)
LEMMA ContentsAreRead ==
  ASSUME NEW d, NEW dirs, NEW rank, Sane(d, dirs, rank), NEW a, IsFile(d, a), Whole(d),
         NEW fp \in Nat, NEW i \in Nat, fp + i < d.blk[a].size
  PROVE  Contents(d, a)[(fp + i) + 1] = ByteRead(Before(d), Block(Before(d), a).dist, fp, i)
<1> DEFINE s == Before(d)
           x == fp + i
           k == x \div BlockLen
           chain == Chain(s, Block(s, a).dist)
           slots == Slots(chain)
           size == Block(s, a).size
           part(n) == ((n - 1) \div BlockLen) + 1
           At(n) == IF part(n) > Len(slots) \/ In(s, slots[part(n)]) = error_place THEN -1
                    ELSE Block(s, In(s, slots[part(n)])).byte[(n - 1) % BlockLen]
<1>1. s.disk = d /\ IsMeta(d, a) /\ size = d.blk[a].size
  BY DEF Before, Block, IsFile
<1>2. size \in Nat
  <2>1. Block(s, a) \in Infos
    BY <1>1, DistOfMetadata
  <2>2. QED  BY <2>1 DEF Infos
<1>3. x \in Nat /\ x < size /\ x + 1 \in 1 .. size /\ (x + 1) - 1 = x
  BY <1>1, <1>2
<1>4. Contents(d, a) = [n \in 1 .. size |-> At(n)]
  BY DEF Contents
<1>5. ByteRead(s, Block(s, a).dist, fp, i)
        = Block(s, In(s, <<chain[(k \div FileParts) + 1], k % FileParts>>)).byte[x % BlockLen]
  BY DEF ByteRead
<1>6. k \in Nat /\ k * BlockLen < size
  <2>1. BlockLen \in Nat \ {0}
    BY FileSystemAssumption
  <2> HIDE DEF x
  <2>2. k \in Nat /\ x % BlockLen \in 0 .. BlockLen - 1 /\ x = BlockLen * k + (x % BlockLen)
    BY <1>3, <2>1, DividesNaturals
  <2>3. BlockLen * k = k * BlockLen /\ k * BlockLen \in Nat
    BY <2>1, <2>2
  <2> DEFINE y == k * BlockLen
             r == x % BlockLen
  <2>4. x = y + r /\ r \in Nat /\ y \in Nat
    BY <2>2, <2>3
  <2> HIDE DEF y, r, k, size
  <2>5. y < size
    BY ONLY <1>2, <1>3, <2>4
  <2>6. QED  BY <2>2, <2>5 DEF y
<1>7. Has(d, a, k)
  <2>1. Covers(d, a, size)
    BY <1>1 DEF Whole
  <2> HIDE DEF k, size
  <2>2. QED  BY <1>6, <2>1 DEF Covers
<1> HIDE DEF s, k
<1>8. /\ k + 1 \in 1 .. Len(slots) /\ slots[k + 1] = <<chain[(k \div FileParts) + 1], k % FileParts>>
      /\ In(s, slots[k + 1]) # error_place
  BY <1>1, <1>6, <1>7, PartIsRead
<1> HIDE DEF x, size, slots
<1>9. part(x + 1) = k + 1
  BY <1>3 DEF k
<1>10. Len(slots) \in Nat
  <2>1. /\ Block(s, a).dist = error_place \/ IsDist(s.disk, Block(s, a).dist)
    BY <1>1, DistOfMetadata
  <2>2. chain \in Seq(Addresses)
    BY <1>1, <2>1, ChainOfDistributors
  <2>3. QED  BY <2>2, SlotsOfChain DEF slots
<1>11. ~ (k + 1 > Len(slots))
  BY <1>6, <1>8, <1>10
<1> HIDE DEF chain
<1>12. At(x + 1) = Block(s, In(s, slots[k + 1])).byte[x % BlockLen]
  BY <1>3, <1>8, <1>9, <1>11
<1> HIDE DEF At
<1>13. Contents(d, a)[x + 1] = At(x + 1)
  BY <1>3, <1>4
<1>14. QED  BY <1>5, <1>8, <1>12, <1>13 DEF s, x

-----------------------------------------------------------------------------
(* The tree is that of the disk.                                           *)
TreeOfDisk == tree = Tree(disk)

(* It is recomputed at each step.                                          *)
LEMMA TreeIsOfDisk == Spec => []TreeOfDisk
<1>1. Init => TreeOfDisk
  BY DEF Init, TreeOfDisk
<1>2. TreeOfDisk /\ [Next]_vars => TreeOfDisk'
  BY DEF TreeOfDisk, Next, vars
<1>3. QED  BY <1>1, <1>2, PTL DEF Spec

(* What is read of the file at a, if it has so many bytes.                 *)
LEMMA FileIsRead ==
  ASSUME NEW d \in Healthy, NEW a, IsMeta(d, a), NEW fp \in Nat, NEW n \in Nat,
         fp + n <= Len(Node(d, a).bytes)
  PROVE  read_from_file(Before(d), a, fp, n) = SubSeq(Node(d, a).bytes, fp + 1, fp + n)
<1> DEFINE s == Before(d)
           size == Block(s, a).size
           bytes == Node(d, a).bytes
           Got(i) == ByteRead(s, Block(s, a).dist, fp, i - 1)
<1>1. PICK dirs, rank : Sane(d, dirs, rank)
  BY DEF Healthy
<1>2. s.disk = d /\ Whole(d)
  BY DEF Healthy, Before
<1>3. a # error_place /\ Block(s, a) \in Infos /\ Block(s, a) = d.blk[a]
  BY <1>1, <1>2, DistOfMetadata DEF Block
<1>4. size \in Nat /\ Block(s, a).type \in {0, 1}
  BY <1>3 DEF Infos
<1>5. bytes = IF Block(s, a).type = 1 THEN << >> ELSE Contents(d, a)
  BY <1>3 DEF Node
<1>6. read_from_file(s, a, fp, n) = [i \in 1 .. IF size < n THEN size ELSE n |-> Got(i)]
  BY DEF read_from_file, ReadCount
<1> HIDE DEF s, size, Got
<1>7. CASE Block(s, a).type = 1
  <2>1. bytes = << >> /\ n = 0 /\ fp = 0
    BY <1>5, <1>7
  <2> HIDE DEF bytes
  <2>2. (IF size < n THEN size ELSE n) = 0
    BY <1>4, <2>1
  <2>3. read_from_file(s, a, fp, n) = [i \in 1 .. 0 |-> Got(i)]
    BY <1>6, <2>2
  <2>4. [i \in 1 .. 0 |-> Got(i)] = << >> /\ SubSeq(<< >>, 0 + 1, 0 + 0) = << >>
    OBVIOUS
  <2>5. QED  BY <2>1, <2>3, <2>4 DEF bytes, s
<1>8. CASE Block(s, a).type # 1
  <2>1. IsFile(d, a)
    BY <1>3, <1>8 DEF IsFile
  <2> DEFINE S == {bytes[i] : i \in 1 .. size}
  <2>2. bytes = Contents(d, a) /\ DOMAIN bytes = 1 .. size /\ bytes = [i \in 1 .. size |-> bytes[i]]
    BY <1>5, <1>8 DEF Contents, s, size
  <2> HIDE DEF bytes
  <2>3. bytes \in Seq(S) /\ Len(bytes) = size
    <3>1. bytes \in [1 .. size -> S]
      BY <2>2
    <3> HIDE DEF S
    <3>2. QED  BY <1>4, <3>1
  <2>4. fp + n <= size
    BY <2>3 DEF bytes
  <2>5. read_from_file(s, a, fp, n) = [i \in 1 .. n |-> Got(i)]
    <3>1. (IF size < n THEN size ELSE n) = n
      BY <1>4, <2>4
    <3>2. QED  BY <1>6, <3>1
  <2>6. ASSUME NEW i \in 1 .. n
        PROVE  Got(i) = bytes[fp + i]
    <3>1. i - 1 \in Nat /\ fp + (i - 1) < d.blk[a].size /\ (fp + (i - 1)) + 1 = fp + i
      BY <1>3, <1>4, <2>4 DEF size
    <3>2. Contents(d, a)[(fp + (i - 1)) + 1] = ByteRead(Before(d), Block(Before(d), a).dist, fp, i - 1)
      BY ONLY <1>1, <1>2, <2>1, <3>1, fp \in Nat, ContentsAreRead
    <3>3. QED  BY <2>2, <3>1, <3>2 DEF Got, s
  <2>7. SubSeq(bytes, fp + 1, fp + n) = [i \in 1 .. n |-> bytes[fp + i]]
    <3>1. SubSeq(bytes, fp + 1, fp + n) = [i \in 1 .. n |-> bytes[(fp + 1) + i - 1]]
      BY <2>3, <2>4
    <3>2. \A i \in 1 .. n : (fp + 1) + i - 1 = fp + i
      OBVIOUS
    <3>3. QED  BY <3>1, <3>2
  <2>8. QED  BY <2>5, <2>6, <2>7 DEF bytes, s
<1>9. QED  BY <1>7, <1>8

(* A read within a file stores at x what the file holds there: for every   *)
(* layout, number of shells, position and count, and whatever was written, *)
(* removed or interrupted before (file.c: read_from_file and write_to_file *)
(* agree on the distributor and the slot of each byte).                    *)
THEOREM ReadsWhatIsThere == Spec => []ReadsBack
<1>1. ASSUME FilesInv, TreeOfDisk
      PROVE  ReadsBack
  <2> SUFFICES ASSUME NEW p \in Shells, NEW n \in Counts, CanReach(p), NEW q \in Paths,
                      PathAddress(disk, q) = file[p].addr, file[p].fp + n <= Len(tree[q].bytes)
               PROVE  read_from_file(Before(disk), file[p].addr, file[p].fp, n)
                        = SubSeq(tree[q].bytes, file[p].fp + 1, file[p].fp + n)
    BY DEF ReadsBack
  <2> DEFINE a == file[p].addr
             fp == file[p].fp
  <2>1. disk \in Healthy /\ fp \in Nat /\ n \in Nat
    BY <1>1, FileCallsAssumption DEF FilesInv, CanReach, Handles
  <2>2. a # error_place
    BY DEF CanReach, Present
  <2>3. PICK dirs, rank : Sane(disk, dirs, rank) /\ Rooted(disk)
    BY <2>1 DEF Healthy
  <2>4. IsMeta(disk, a)
    BY <2>2, <2>3, PathLeads
  <2>5. tree[q] = Node(disk, a)
    BY <1>1 DEF TreeOfDisk, Tree
  <2> HIDE DEF a, fp
  <2>6. fp + n <= Len(Node(disk, a).bytes)
    BY <2>5 DEF fp
  <2>7. read_from_file(Before(disk), a, fp, n) = SubSeq(Node(disk, a).bytes, fp + 1, fp + n)
    BY ONLY <2>1, <2>4, <2>6, FileIsRead
  <2>8. QED  BY <2>5, <2>7 DEF a, fp
<1>2. QED  BY <1>1, FilesAreHealthy, TreeIsOfDisk, PTL
=============================================================================
