------------------------------- MODULE FileCalls -------------------------------
(***************************************************************************)
(* The commands of user/shell.c on files, with the system calls of         *)
(* kernel/kernel.c they make: open, read, write, lseek, unlink, mkdir, cd  *)
(* (pwd and ls only show what is there).  Several shells can be running: a *)
(* child that cannot exec its program goes on as one.  A system call is    *)
(* never interrupted, but the machine can stop at any disk_wr, and start   *)
(* again with the disk as it is.                                           *)
(*                                                                         *)
(* The shell remembers the descriptor of the last file it opened, and      *)
(* closes none.  So an entry of oft.file is never given up: for each name  *)
(* it keeps the permissions of the first file of that name that was        *)
(* opened, and the names are counted without a bound.                      *)
(***************************************************************************)
EXTENDS FileSystem, FiniteSets

CONSTANTS
  Shells,       (* the processes that are shells                            *)
  Names,        (* of files and directories                                 *)
  Folders,      (* the names mkdir is given                                 *)
  Flags,        (* for each name, the flags open is given with it: 0 to read*)
                (* and write, 1 to read, 2 to write                         *)
  Texts,        (* what is written                                          *)
  Counts,       (* how many bytes are read                                  *)
  Offsets,      (* what lseek is given                                      *)
  FdNo,         (* fdNo                                                     *)
  FileNo,       (* fileNo, the entries of oft.file: 10                      *)
  PathSize,     (* max_path_length, of a path and its terminator: 100       *)
  FpMod,        (* 2^16: write_to_file and read_from_file take a uint16_t   *)
  MaxDepth,     (* bound: directories are not nested deeper                 *)
  MaxCalls,     (* bound: how many calls are made after each start; its     *)
                (* length, how often the machine is started                 *)
  Absent, None

ASSUME FileCallsAssumption ==
  /\ Folders \subseteq Names /\ Flags \in [Names -> SUBSET {0, 1, 2}]
  /\ FdNo \in Nat /\ FileNo \in Nat /\ PathSize \in Nat /\ MaxDepth \in Nat 
  /\ FpMod \in Nat \ {0} /\ MaxCalls \in Seq(Nat)
  /\ Counts \subseteq Nat /\ Offsets \subseteq Int
  /\ \A x \in Texts : x \in Seq(1 .. 255)

VARIABLES
  disk,     (* the disk                                                     *)
  tree,     (* the tree of files that its links make, Tree(disk)            *)
  path,     (* pcb[].path of each shell                                     *)
  file,     (* the shell's file: the addr, fp and perm of its descriptor,   *)
            (* None for -1                                                  *)
  fds,      (* the descriptors each shell has left                          *)
  oft,      (* the permissions cached for a name in oft.file, or None       *)
  starts,   (* how often the machine has been started                       *)
  calls,    (* how many calls have been made since                          *)
  fault     (* "none", or how the kernel has failed: nothing follows        *)

memory == <<path, file, fds, oft>>
vars == <<disk, tree, memory, starts, calls, fault>>

(* The directory entries and the tree below the root, as the links of the  *)
(* disk d have them: the address of each path, or error_place.             *)
Paths == UNION {[1 .. n -> Names] : n \in 0 .. MaxDepth}

Entries(d, a) ==
  LET s == Before(d)
      slots == Slots(Chain(s, Block(s, a).dist))
  IN  {In(s, slots[i]) : i \in DOMAIN slots} \ {error_place}

EntryNamed(d, a, name) ==
  IF a = error_place \/ Block(Before(d), a).type # 1 THEN error_place
  ELSE LET found == {e \in Entries(d, a) : Block(Before(d), e).name = name}
       IN  IF found = {} THEN error_place ELSE CHOOSE e \in found : TRUE

PathAddress(d, q) ==
  LET at[i \in 0 .. Len(q)] ==
        IF i = 0 THEN metadata_start ELSE EntryNamed(d, at[i - 1], q[i])
  IN  at[Len(q)]

(* The bytes of a file, part after part; -1 where it has none.             *)
Contents(d, a) ==
  LET s == Before(d)
      slots == Slots(Chain(s, Block(s, a).dist))
      part(i) == ((i - 1) \div BlockLen) + 1
  IN  [i \in 1 .. Block(s, a).size |->
         IF part(i) > Len(slots) \/ In(s, slots[part(i)]) = error_place THEN -1
         ELSE Block(s, In(s, slots[part(i)])).byte[(i - 1) % BlockLen]]

Node(d, a) ==
  IF a = error_place THEN Absent
  ELSE LET meta == Block(Before(d), a)
       IN  [type |-> meta.type, perm |-> meta.perm,
            bytes |-> IF meta.type = 1 THEN << >> ELSE Contents(d, a)]

Tree(d) == [q \in Paths |-> Node(d, PathAddress(d, q))]

(* The metadata of everything below the root, and the blocks linked from   *)
(* one: its distributors, and their parts or entries.                      *)
InTree(d) ==
  LET upTo[i \in 0 .. MaxDepth] ==
        IF i = 0 THEN {metadata_start}
        ELSE upTo[i - 1] \cup UNION {Entries(d, a) : a \in
                                       {b \in upTo[i - 1] : Block(Before(d), b).type = 1}}
  IN  upTo[MaxDepth]

Distributors(d, a) == ToSet(Chain(Before(d), Block(Before(d), a).dist))
LinkedFrom(d, a) == Distributors(d, a) \cup Entries(d, a)

Linked(d) == {metadata_start} \cup UNION {LinkedFrom(d, a) : a \in InTree(d)}
Marked(d) == {a \in Addresses : ByteOf(a) \in d.map}

(* The places that hold a link: dist of metadata and next of a distributor *)
(* are the link at -1.                                                     *)
Links(d) ==
  UNION {{<<a, -1>>} \cup Distributors(d, a) \X (-1 .. FileParts - 1) : a \in InTree(d)}

LinkAt(d, l) ==
  LET b == Block(Before(d), l[1])
  IN  IF l[2] >= 0 THEN b.part[l[2]] ELSE IF b.kind = "meta" THEN b.dist ELSE b.next

Directory(q) == q \in Paths /\ tree[q] # Absent /\ tree[q].type = 1
Empty(q) == Entries(disk, PathAddress(disk, q)) = {}

(* The metadata of the files and directories in the tree.                  *)
Present == {PathAddress(disk, q) : q \in Paths} \ {error_place}

-----------------------------------------------------------------------------
(* initialise_pcb, initialise_oft and create_root on a disk.  There may be *)
(* no block left for the new root.                                         *)
Booted(d) == create_root(Before(d)).disk

Boot(d) ==
  /\ fault' = create_root(Before(d)).fault
  /\ disk' = IF fault' = "none" THEN Booted(d) ELSE d
  /\ path' = [p \in Shells |-> << >>] /\ file' = [p \in Shells |-> None]
  /\ fds' = [p \in Shells |-> FdNo - 2] /\ oft' = [f \in Names |-> None]

(* The first start, on a disk of zeros (newDisk.sh).                       *)
Init ==
  /\ disk = Booted([blk |-> [a \in Addresses |-> Blank], map |-> {}])
  /\ path = [p \in Shells |-> << >>] /\ file = [p \in Shells |-> None]
  /\ fds = [p \in Shells |-> FdNo - 2] /\ oft = [f \in Names |-> None]
  /\ starts = 1 /\ calls = 0 /\ fault = "none"
  /\ tree = Tree(disk)

-----------------------------------------------------------------------------
(* A system call has done s to the disk.                                   *)
Done(s) ==
  /\ fault' = s.fault
  /\ disk' = IF s.fault = "none" THEN s.disk ELSE disk

(* Blocks or memory that are not what they are taken for.                  *)
Fault == fault' = "corrupts" /\ UNCHANGED <<disk, memory>>

Here(p, name) == Append(path[p], name)

(* The copies of a path that the calls make have room for it: its names,   *)
(* each with a separator or the terminator.                                *)
Fits(q) == FoldLeft(LAMBDA n, name : n + Length(name) + 1, 0, q) <= PathSize

(* svc 0x12: finds or creates, whether or not there is a descriptor left.  *)
Opened(p, name, flag) ==
  LET s == Before(disk)
  IN  IF find_file(s, Here(p, name)) # error_place THEN s
      ELSE create_file_dir_addr(s, find_file(s, path[p]), name, 0, flag)

(* The permissions in the entry of oft.file that a descriptor for the file *)
(* gets: the search is by name.                                            *)
EntryPerm(name, s, addr) == IF oft[name] # None THEN oft[name] ELSE Block(s, addr).perm

(* A name that is not in oft.file yet gets the next entry, if there is one *)
(* or not.                                                                 *)
Enrolled(name) == oft[name] # None \/ Cardinality({f \in Names : oft[f] # None}) < FileNo

(* With permissions refused the new descriptor is closed as what it was    *)
(* before: the end of a pipe, and the pointer to it is null.               *)
OpenedAs(p, name, flag, s) ==
  LET addr == find_file(s, Here(p, name))
      perm == EntryPerm(name, s, addr)
  IN  /\ IF s.fault # "none" THEN Done(s) /\ UNCHANGED memory
         ELSE IF fds[p] = 0 THEN Done(s) /\ file' = [file EXCEPT ![p] = None]
                                 /\ UNCHANGED <<path, fds, oft>>
         ELSE IF ~ Enrolled(name) \/ perm \notin {0, flag} THEN Done(Fails(s, "corrupts")) /\ UNCHANGED memory
         ELSE /\ Done(s)
              /\ oft' = [oft EXCEPT ![name] = perm]
              /\ file' = [file EXCEPT ![p] = [addr |-> addr, fp |-> 0, perm |-> perm]]
              /\ fds' = [fds EXCEPT ![p] = @ - 1]
              /\ UNCHANGED path

Open(p, name, flag) ==
  IF Fits(Here(p, name)) THEN OpenedAs(p, name, flag, Opened(p, name, flag)) ELSE Fault

(* svc 0x14.                                                               *)
MadeDirectory(p, name) ==
  LET s == Before(disk)
  IN  IF find_file(s, Here(p, name)) # error_place THEN s
      ELSE create_file_dir_addr(s, find_file(s, path[p]), name, 1, 0)

(* (The bound on the depth is on what directories hold.)                   *)
Mkdir(p, name) ==
  /\ name \in Folders /\ Len(path[p]) < MaxDepth - 1
  /\ IF Fits(Here(p, name)) THEN Done(MadeDirectory(p, name)) /\ UNCHANGED memory ELSE Fault

(* svc 0x13, for ".." and for a name.                                      *)
CdUp(p) ==
  /\ path[p] # << >> /\ path' = [path EXCEPT ![p] = Front(@)]
  /\ UNCHANGED <<disk, file, fds, oft, fault>>

Cd(p, name) ==
  /\ Len(path[p]) < MaxDepth - 1
  /\ IF ~ Fits(Here(p, name)) THEN Fault
     ELSE /\ find_file(Before(disk), Here(p, name)) # error_place
          /\ path' = [path EXCEPT ![p] = Append(@, name)]
          /\ UNCHANGED <<disk, file, fds, oft, fault>>

(* svc 0x10 freeing the blocks before the entry is gone.                   *)
Unlinked_FreesFirst(p, name) ==
  LET s == Before(disk)
      addr == find_file(s, Here(p, name))
      freed == delete_file(s, addr)
      dir == find_file(s, path[p])
      maps == [i \in DOMAIN freed.log |-> [disk EXCEPT !.map = freed.log[i].map]]
  IN  IF addr = error_place THEN (IF path[p] = << >> THEN s ELSE Fails(s, "hangs"))
      ELSE IF freed.fault # "none" THEN freed
      ELSE [delete_from_dir(s, dir, addr) EXCEPT !.disk.map = freed.disk.map, !.log = maps]

(* svc 0x10, for the metadata at target.                                   *)
Freed(cut, target) == IF cut.fault # "none" THEN cut ELSE delete_file(cut, target)

UnlinkedAt(s, dir, target) ==
  IF target = error_place THEN s ELSE Freed(delete_from_dir(s, dir, target), target)

(* find_file cuts the path at its first separator: when the name is not    *)
(* found, the second search finds the first directory of the path instead, *)
(* which is then looked for in the current one.                            *)
Target(s, q, found) == IF found = error_place THEN find_file(s, <<Head(q)>>) ELSE found

Unlinked(p, name) ==
  LET s == Before(disk)
      q == Here(p, name)
  IN  UnlinkedAt(s, find_file(s, path[p]), Target(s, q, find_file(s, q)))

Unlink(p, name) ==
  IF Fits(Here(p, name)) THEN Done(Unlinked(p, name)) /\ UNCHANGED memory ELSE Fault

-----------------------------------------------------------------------------
(* svc 0x01 on a file: the new fp, also when it is -1.  The shell writes   *)
(* without a file too, through what lies in front of its descriptors; a    *)
(* file removed meanwhile is written to where it was.                      *)
Stored(p, x) == write_to_file(Before(disk), file[p].addr, file[p].fp, x)

CanReach(p) == file[p] # None /\ file[p].addr \in Present

Write(p, x) ==
  IF ~ CanReach(p) THEN Fault
  ELSE IF file[p].perm = 1 THEN UNCHANGED <<disk, memory, fault>>
  ELSE /\ Done(Stored(p, x).s)
       /\ file' = [file EXCEPT ![p].fp = Stored(p, x).fp % FpMod]
       /\ UNCHANGED <<path, fds, oft>>

(* svc 0x02 on a file.  (What it stores at x is checked by ReadsBack.)     *)
Read(p, n) ==
  /\ file[p] # None
  /\ IF ~ CanReach(p) THEN Fault
     ELSE /\ file[p].perm # 2
          /\ file' = [file EXCEPT ![p].fp = (@ + ReadCount(Before(disk), file[p].addr, n)) % FpMod]
          /\ UNCHANGED <<disk, path, fds, oft, fault>>

(* svc 0x16: no bound, and no look at the descriptor.                      *)
Lseek(p, offset) ==
  IF file[p] = None THEN Fault
  ELSE /\ file' = [file EXCEPT ![p].fp = (@ + offset) % FpMod]
       /\ UNCHANGED <<disk, path, fds, oft, fault>>

Step(p) ==
  \/ CdUp(p)
  \/ \E name \in Names : \/ Mkdir(p, name) \/ Unlink(p, name) \/ Cd(p, name)
                         \/ \E flag \in Flags[name] : Open(p, name, flag)
  \/ \E x \in Texts : Write(p, x)
  \/ \E n \in Counts : Read(p, n)
  \/ \E offset \in Offsets : Lseek(p, offset)

(* What shell p may be doing to the disk when the machine stops.           *)
UnderWay(p) ==
  (UNION {{Unlinked(p, name)} \cup {MadeDirectory(p, f) : f \in Folders \cap {name}}
          \cup {Opened(p, name, flag) : flag \in Flags[name]} :
          name \in {f \in Names : Fits(Here(p, f))}})
  \cup (IF CanReach(p) /\ file[p].perm # 1 THEN {Stored(p, x).s : x \in Texts}
        ELSE {})

(* The machine stops, between two calls or after any disk_wr of one, and   *)
(* starts again.                                                           *)
Restart == \E d \in {disk} \cup UNION {UNION {{s.log[i] : i \in DOMAIN s.log} : s \in UnderWay(p)} :
                                       p \in Shells} :
  /\ starts < Len(MaxCalls) /\ starts' = starts + 1 /\ calls' = 0
  /\ Boot(d)

Next ==
  /\ fault = "none"
  /\ \/ /\ calls < MaxCalls[starts] /\ calls' = calls + 1
        /\ \E p \in Shells : Step(p)
        /\ UNCHANGED starts
     \/ Restart
  /\ tree' = Tree(disk')

Spec == Init /\ [][Next]_vars

-----------------------------------------------------------------------------
(* Every block the tree leads to is marked as used, so that no allocation  *)
(* can give it to somebody else - also after the machine has stopped       *)
(* between any two writes of a call.                                       *)
LinkedIsMarked == Linked(disk) \subseteq Marked(disk)

(* No block belongs to two files, two directories or twice to one: there   *)
(* is one link to each (file.c: find_empty_block, update_info_space).      *)
OneLinkEach ==
  \A l, m \in Links(disk) : LinkAt(disk, l) # error_place =>
    LinkAt(disk, l) # metadata_start /\ (LinkAt(disk, l) = LinkAt(disk, m) => l = m)

(* Blocks are lost - marked, and part of nothing - only by a start of the  *)
(* machine and by the removal of a directory that is not empty.            *)
BlocksAreGivenBack ==
  [][starts' = starts /\ ~ (Marked(disk') \ Linked(disk') \subseteq (Marked(disk) \ Linked(disk)) \cup {error_place})
     => \E q \in Paths : Directory(q) /\ ~ Empty(q) /\ tree'[q] = Absent]_vars

(* The calls implement a tree of files: whatever the shells do, in one     *)
(* directory or several, across the blocks of a file, with restarts at any *)
(* disk_wr.                                                                *)
Files == INSTANCE FileStore
StoresFiles == Files!Spec

(* A read within a file stores at x what the file holds there, also when   *)
(* the write that put it there is long past and its blocks lie apart.      *)
ReadsBack == fault = "none" => \A p \in Shells, n \in Counts :
  CanReach(p) => \A q \in Paths :
    PathAddress(disk, q) = file[p].addr /\ file[p].fp + n <= Len(tree[q].bytes)
    => read_from_file(Before(disk), file[p].addr, file[p].fp, n)
         = SubSeq(tree[q].bytes, file[p].fp + 1, file[p].fp + n)

(* Room for a file in a directory, and for what is written to it.          *)
MetadataLeft(d) == FreeBytes(Before(d), info_block_meta) \cap 0 .. files_start_address - info_block_end - 1

Room == MetadataLeft(disk) # {} /\ Cardinality(FreeBytes(Before(disk), info_block_file)) > 4

(* Where shell p can make something called name.                           *)
CanMake(p, name) == Directory(path[p]) /\ Room /\ Length(name) < NameSize

(* The kernel fails in no other case than these: a shell in a directory    *)
(* that is gone or in a plain file, no room left, unlink of a name that is *)
(* not there from within a directory or of something with more than one    *)
(* distributor, a write of more than a block, permissions refused, a shell *)
(* without a file or with one that has been removed, a name or a path too  *)
(* long, more names opened than oft.file has entries, and a start with no  *)
(* metadata left for a root.                                               *)
FailsOnlyThen ==
  [][fault' = "none" \/
       /\ starts' # starts => MetadataLeft(disk') = {}
       /\ \A p \in Shells :
            /\ \A name \in {f \in Names : Fits(Here(p, f))} :
                 /\ CanMake(p, name) => ~ Mkdir(p, name)
                 /\ \A flag \in Flags[name] :
                      CanMake(p, name) /\ Enrolled(name) /\ oft[name] \in {None, flag}
                      /\ (tree[Here(p, name)] # Absent => tree[Here(p, name)].perm \in {0, flag})
                      => ~ Open(p, name, flag)
                 /\ Directory(path[p])
                    /\ (tree[Here(p, name)] = Absent => path[p] = << >>)
                    /\ (tree[Here(p, name)] # Absent =>
                          Len(Chain(Before(disk), Block(Before(disk), PathAddress(disk, Here(p, name))).dist)) <= 1)
                    => ~ Unlink(p, name)
            /\ CanReach(p) /\ Room =>
                 \A x \in Texts : Len(x) <= BlockLen => ~ Write(p, x)]_vars
=============================================================================
