------------------------------ MODULE FileSystem ------------------------------
(***************************************************************************)
(* The file system of device/file.c as functions on s, a disk with what a  *)
(* call has done to it so far:                                             *)
(*   s.disk    the blocks, and the usage maps                              *)
(*   s.log     the disk after each disk_wr of the call, oldest first: what *)
(*             the disk is when the machine stops half way                 *)
(*   s.fault   "none"; "hangs" when a loop of the code has no end;         *)
(*             "corrupts" when blocks or memory are taken for what they    *)
(*             are not, after which nothing is promised; "full" while the  *)
(*             code knows that there is no room                            *)
(*                                                                         *)
(* A block is Blank or one of the three things the code reads it as: the   *)
(* metadata of a file or directory, a distributor, or a part of a file.    *)
(* The maps are the set of their non-zero bytes.  What a freed block still *)
(* holds is forgotten: it is seen again only beyond the end of a file or   *)
(* through a descriptor of a removed one, and both are left unspecified.   *)
(***************************************************************************)
EXTENDS Integers, SequencesExt

CONSTANTS
  BlockLen,     (* bytes of a block: 16                                     *)
  InfoBlocks,   (* info_block_file, the blocks of one usage map: 2048       *)
  FileParts,    (* file_parts, the links of a distributor: 7                *)
  Length(_),    (* how many characters a name has                           *)
  NameSize      (* file_name_size, of a name and its terminator: 8          *)

ASSUME FileSystemAssumption ==
  /\ BlockLen \in Nat /\ InfoBlocks \in Nat \ {0} /\ FileParts \in Nat \ {0}
  /\ BlockLen > 2 /\ Length("root") < NameSize

info_block_meta == 0
info_block_file == InfoBlocks
info_block_end == 2 * InfoBlocks
metadata_start == info_block_end
files_start_address == InfoBlocks * BlockLen
BlockNum == 2 * files_start_address
error_place == BlockNum - 1

Addresses == metadata_start .. BlockNum - 1

Blank == [kind |-> "blank"]
Metadata(name, type, perm) ==
  [kind |-> "meta", name |-> name, size |-> 0, dist |-> error_place, perm |-> perm, type |-> type]
Distributor == [kind |-> "dist", part |-> [i \in 0 .. FileParts - 1 |-> error_place],
                next |-> error_place]
Part == [kind |-> "data", byte |-> [i \in 0 .. BlockLen - 1 |-> 0]]

Before(disk) == [disk |-> disk, log |-> << >>, fault |-> "none"]
Fails(s, how) == [s EXCEPT !.fault = IF @ = "none" THEN how ELSE @]

(* One disk_wr.                                                            *)
Wrote(s, disk) == [s EXCEPT !.disk = disk, !.log = Append(@, disk)]

Block(s, a) == s.disk.blk[a]

(* store_metadata, store_file_distributor, disk_wr of a part.              *)
Store(s, a, content) == Wrote(s, [s.disk EXCEPT !.blk[a] = content])

-----------------------------------------------------------------------------
(* find_empty_block: the first byte that is zero from start_block on.  The *)
(* map of the files has no end the search would notice.                    *)
FreeBytes(s, start) == (start * BlockLen .. BlockNum - 1) \ s.disk.map

AddressOf(start, byte) == IF start = info_block_file THEN byte ELSE info_block_end + byte

find_empty_block(s, start) ==
  AddressOf(start, CHOOSE e \in FreeBytes(s, start) : \A f \in FreeBytes(s, start) : e <= f)

(* update_info_space: the byte of a map that stands for address a.         *)
ByteOf(a) == IF a < files_start_address THEN a - info_block_end ELSE a

MarkUsed(s, a) == Wrote(s, [s.disk EXCEPT !.map = @ \cup {ByteOf(a)}])
MarkFree(s, a) == Wrote(s, [s.disk EXCEPT !.map = @ \ {ByteOf(a)}, !.blk[a] = Blank])

(* Allocating functions return [s |-> ..., at |-> the block].              *)
Allocated(s, a, content) == [s |-> MarkUsed(Store(s, a, content), a), at |-> a]

(* No block is left, and the bytes behind the maps are taken for entries;  *)
(* or a name is copied beyond its place.                                   *)
Overrun(s) == [s |-> Fails(s, "corrupts"), at |-> error_place]

(* create_metadata that marks the blocks of directories only.              *)
create_metadata_Unmarked(s, name, type, perm) ==
  LET a == find_empty_block(s, info_block_meta)
      stored == Store(s, a, Metadata(name, type, perm))
  IN  IF a < files_start_address /\ Length(name) < NameSize
      THEN [s |-> IF type = 1 THEN MarkUsed(stored, a) ELSE stored, at |-> a]
      ELSE Overrun(s)

(* create_metadata.  Its bound admits files_start_address, the first block *)
(* of the files, when no block for metadata is left; whatever lies there   *)
(* is written over.                                                        *)
create_metadata(s, name, type, perm) ==
  LET a == find_empty_block(s, info_block_meta)
  IN  IF a < files_start_address /\ Length(name) < NameSize
      THEN Allocated(s, a, Metadata(name, type, perm))
      ELSE Overrun(s)

(* The last block has the address that stands for failure: it is marked,   *)
(* and the caller told that there is no room.                              *)
RoomLeft(new) == IF new.at = error_place THEN [new EXCEPT !.s = Fails(@, "full")] ELSE new

FromFiles(s, content) ==
  IF FreeBytes(s, info_block_file) = {} THEN Overrun(s)
  ELSE RoomLeft(Allocated(s, find_empty_block(s, info_block_file), content))

create_file_distributor(s) == FromFiles(s, Distributor)

(* create_file_part: the block is marked.  What it holds stays: bytes that *)
(* nothing is said of, here zeros.                                         *)
create_file_part(s) == FromFiles(s, Part)

-----------------------------------------------------------------------------
(* The distributors from d on, in the order of their links.                *)
Chain(s, d) ==
  LET link[i \in 0 .. BlockNum] ==
        IF i = 0 THEN d
        ELSE LET before == link[i - 1]
             IN  IF before = error_place THEN error_place ELSE Block(s, before).next
      length == CHOOSE n \in 0 .. BlockNum :
                  link[n] = error_place /\ \A i \in 0 .. n - 1 : link[i] # error_place
  IN  [i \in 1 .. length |-> link[i - 1]]

(* The slots of the distributors in chain, in the order they are searched. *)
Slots(chain) == [k \in 1 .. Len(chain) * FileParts |->
                   <<chain[((k - 1) \div FileParts) + 1], (k - 1) % FileParts>>]
In(s, slot) == Block(s, slot[1]).part[slot[2]]
Link(s, slot, a) == Store(s, slot[1], [Block(s, slot[1]) EXCEPT !.part[slot[2]] = a])

(* find_file: the entry called name in the distributors from d on.         *)
Search(s, d, name) ==
  SelectInSeq(Slots(Chain(s, d)), LAMBDA slot :
    In(s, slot) # error_place /\ Block(s, In(s, slot)).name = name)

(* One token of a path.  A plain file in the middle of a path is passed    *)
(* by: the search for the next token goes on where it was found.           *)
Found(s, slot) ==
  LET meta == Block(s, In(s, slot))
  IN  [addr |-> In(s, slot), dist |-> IF meta.type = 1 THEN meta.dist ELSE slot[1]]

Descend(s, at, name) ==
  LET i == Search(s, at.dist, name)
  IN  IF at.addr = error_place \/ i = 0 THEN [at EXCEPT !.addr = error_place]
      ELSE Found(s, Slots(Chain(s, at.dist))[i])

(* find_file, from the root.  Its argument type is not looked at.          *)
find_file(s, path) ==
  LET at[i \in 0 .. Len(path)] ==
        IF i = 0 THEN [addr |-> metadata_start, dist |-> Block(s, metadata_start).dist]
        ELSE Descend(s, at[i - 1], path[i])
  IN  at[Len(path)].addr

-----------------------------------------------------------------------------
(* The distributor of the file or directory addr, made if there is none.   *)
LinkFirst(new, addr) == Store(new.s, addr, [Block(new.s, addr) EXCEPT !.dist = new.at])

FirstDistributor(s, addr) ==
  IF Block(s, addr).dist # error_place THEN s ELSE LinkFirst(create_file_distributor(s), addr)

(* A further distributor behind the last one, d.                           *)
LinkNext(new, d) == Store(new.s, d, [Block(new.s, d) EXCEPT !.next = new.at])

NextDistributor(s, d) == LinkNext(create_file_distributor(s), d)

(* create_file_dir_addr: the metadata is made before the directory leads   *)
(* to it.                                                                  *)
Enter(new, slot) == IF new.s.fault # "none" THEN new.s ELSE Link(new.s, slot, new.at)

CreateIn(s, slot, name, type, perm) == Enter(create_metadata(s, name, type, perm), slot)

(* A directory that is told there is no room goes on with error_place.     *)
Lost(s) == [s EXCEPT !.fault = "corrupts"]

(* All slots are taken: s has one more distributor, behind d.              *)
CreateBehind(s, d, name, type, perm) ==
  IF s.fault # "none" THEN Lost(s) ELSE CreateIn(s, <<Block(s, d).next, 0>>, name, type, perm)

(* In a directory with the distributors chain.                             *)
CreateAmong(s, chain, name, type, perm) ==
  LET i == SelectInSeq(Slots(chain), LAMBDA slot : In(s, slot) = error_place)
  IN  IF s.fault # "none" THEN Lost(s)
      ELSE IF i # 0 THEN CreateIn(s, Slots(chain)[i], name, type, perm)
      ELSE CreateBehind(NextDistributor(s, Last(chain)), Last(chain), name, type, perm)

CreateInside(s, dir, name, type, perm) ==
  CreateAmong(s, Chain(s, Block(s, dir).dist), name, type, perm)

create_file_dir_addr(s, dir, name, type, perm) ==
  IF dir = error_place THEN Fails(s, "hangs")
  ELSE IF Block(s, dir).type # 1 THEN Fails(s, "corrupts")
  ELSE CreateInside(FirstDistributor(s, dir), dir, name, type, perm)

(* delete_from_dir that does not follow the links.                         *)
delete_from_dir_FirstOnly(s, dir, addr) ==
  LET slots == Slots(SelectSeq(Chain(s, Block(s, dir).dist), LAMBDA d : d = Block(s, dir).dist))
      i == SelectInSeq(slots, LAMBDA slot : In(s, slot) = addr)
  IN  IF dir = error_place \/ i = 0 THEN Fails(s, "hangs") ELSE Link(s, slots[i], error_place)

(* delete_from_dir: follows links until it finds the entry.                *)
delete_from_dir(s, dir, addr) ==
  LET slots == Slots(Chain(s, Block(s, dir).dist))
      i == SelectInSeq(slots, LAMBDA slot : In(s, slot) = addr)
  IN  IF dir = error_place \/ i = 0 THEN Fails(s, "hangs") ELSE Link(s, slots[i], error_place)

(* delete_file without the parts of the file.                              *)
delete_file_KeepsParts(s, addr) ==
  LET d == Block(s, addr).dist
  IN  IF d = error_place THEN MarkFree(s, addr)
      ELSE IF Block(s, d).next # error_place THEN Fails(s, "hangs")
      ELSE MarkFree(MarkFree(s, addr), d)

(* delete_file.  It reads the first distributor again and again, so that a *)
(* second one is never left; of a directory it frees the metadata of the   *)
(* entries, not what they lead to.                                         *)
delete_file(s, addr) ==
  LET d == Block(s, addr).dist
      part(i) == Block(s, d).part[i]
      freed[i \in 0 .. FileParts] ==
        IF i = 0 THEN MarkFree(MarkFree(s, addr), d)
        ELSE IF part(i - 1) = error_place THEN freed[i - 1]
        ELSE MarkFree(freed[i - 1], part(i - 1))
  IN  IF d = error_place THEN MarkFree(s, addr)
      ELSE IF Block(s, d).next # error_place THEN Fails(s, "hangs")
      ELSE freed[FileParts]

(* create_root: never looks whether there is one.                          *)
create_root(s) == create_metadata(s, "root", 1, 0).s

-----------------------------------------------------------------------------
(* write_to_file, one block of it: the distributor behind at.dist, made if *)
(* there is none.                                                          *)
Lengthened(s, d) == [s |-> s, dist |-> IF s.fault = "none" THEN Block(s, d).next ELSE d]

Onward(at) ==
  IF at.s.fault # "none" THEN at
  ELSE IF Block(at.s, at.dist).next # error_place THEN [at EXCEPT !.dist = Block(at.s, @).next]
  ELSE Lengthened(NextDistributor(at.s, at.dist), at.dist)

(* k distributors behind d.                                                *)
Reach(s, d, k) ==
  LET at[i \in 0 .. k] == IF i = 0 THEN [s |-> s, dist |-> d] ELSE Onward(at[i - 1])
  IN  at[k]

(* The part at a slot, made and linked if there is none.                   *)
ReachPart(s, slot) ==
  IF s.fault # "none" \/ In(s, slot) # error_place THEN s ELSE Enter(create_file_part(s), slot)

(* x at byte b of part a.                                                  *)
Put(s, a, b, x) ==
  Store(s, a, [Block(s, a) EXCEPT !.byte = [i \in DOMAIN @ |->
    IF i - b + 1 \in DOMAIN x THEN x[i - b + 1] ELSE @[i]]])

PutAt(s, slot, b, x) == IF s.fault # "none" THEN s ELSE Put(s, In(s, slot), b, x)

WriteAt(at, part, b, x) ==
  LET slot == <<at.dist, part % FileParts>>
  IN  PutAt(ReachPart(at.s, slot), slot, b, x)

(* The bytes x, all of one block, at position fp of the file from d on.    *)
WriteBlock(s, d, fp, x) ==
  LET part == fp \div BlockLen
  IN  IF s.fault # "none" \/ x = << >> THEN s
      ELSE WriteAt(Reach(s, d, part \div FileParts), part, fp % BlockLen, x)

(* x cut at the end of the block that position fp lies in.                 *)
Left(fp, x) == IF Len(x) <= BlockLen - (fp % BlockLen) THEN Len(x) ELSE BlockLen - (fp % BlockLen)
ThisBlock(fp, x) == SubSeq(x, 1, Left(fp, x))
Beyond(fp, x) == SubSeq(x, Left(fp, x) + 1, Len(x))

(* More than a block at the beginning of a block: disk_wr is given all     *)
(* that is left, and writes on into whatever follows.                      *)
Spills(fp, x) == Len(IF fp % BlockLen = 0 THEN x ELSE Beyond(fp, x)) > BlockLen

Resize(s, addr, size) ==
  IF Block(s, addr).size < size THEN Store(s, addr, [Block(s, addr) EXCEPT !.size = size]) ELSE s

(* Of x, what belongs to the block fp lies in, and then the rest.          *)
WriteBlocks(s, d, fp, x) ==
  WriteBlock(WriteBlock(s, d, fp, ThisBlock(fp, x)), d, fp + Left(fp, x), Beyond(fp, x))

Refused(s) == [s |-> s, fp |-> -1]

(* It returns the new fp; with no room left, -1 and nothing worse.         *)
Returned(s, addr, fp) ==
  IF s.fault = "full" THEN Refused([s EXCEPT !.fault = "none"])
  ELSE IF s.fault # "none" THEN Refused(s)
  ELSE [s |-> Resize(s, addr, fp), fp |-> fp]

(* In a file that has a distributor.                                       *)
WriteInside(s, addr, fp, x) ==
  IF s.fault # "none" THEN Refused(Lost(s))
  ELSE IF fp > Block(s, addr).size THEN Refused(s)
  ELSE IF Spills(fp, x) THEN Refused(Lost(s))
  ELSE Returned(WriteBlocks(s, Block(s, addr).dist, fp, x), addr, fp + Len(x))

(* write_to_file storing the new size before the bytes.                    *)
write_to_file_SizeFirst(s, addr, fp, x) ==
  IF Block(s, addr).type = 1 \/ fp > Block(s, addr).size THEN Refused(s)
  ELSE WriteInside(Resize(FirstDistributor(s, addr), addr, fp + Len(x)), addr, fp, x)

(* write_to_file: the size is stored last.                                 *)
write_to_file(s, addr, fp, x) ==
  IF Block(s, addr).type = 1 THEN Refused(s)
  ELSE WriteInside(FirstDistributor(s, addr), addr, fp, x)

(* read_from_file: as many bytes as were asked for, or as the file has,    *)
(* wherever it begins.                                                     *)
ReadCount(s, addr, n) == IF Block(s, addr).size < n THEN Block(s, addr).size ELSE n

(* Byte i of what is read: its part, and its place there.                  *)
ByteRead_FirstPart(s, d, fp, i) ==
  Block(s, In(s, <<Chain(s, d)[1], (fp + i) \div BlockLen % FileParts>>)).byte[(fp + i) % BlockLen]

ByteRead(s, d, fp, i) ==
  LET part == (fp + i) \div BlockLen
      slot == <<Chain(s, d)[(part \div FileParts) + 1], part % FileParts>>
  IN  Block(s, In(s, slot)).byte[(fp + i) % BlockLen]

(* What it stores at x when it stays within the file.                      *)
read_from_file(s, addr, fp, n) ==
  [i \in 1 .. ReadCount(s, addr, n) |-> ByteRead(s, Block(s, addr).dist, fp, i - 1)]
=============================================================================
