------------------------------ MODULE MinixFS ------------------------------
(***************************************************************************)
(* The files of a Minix file system: inodes and zones with their bitmaps,  *)
(* direct and indirect zones, the file descriptors of open files, and what *)
(* of this is on the disk when the power fails or the partition is         *)
(* unmounted and mounted again.                                            *)
(*                                                                         *)
(* The kernel and the tool exe2minixfs share this code.  One call is one   *)
(* step, as in the tool, but the unmount is one step per write to the      *)
(* disk.  All files are in the root directory, in its first zone.          *)
(***************************************************************************)
EXTENDS Naturals, Sequences, FiniteSets, FiniteSetsExt, SequencesExt

CONSTANTS
    Names, Fds,
    ZONE_SIZE,        \* bytes of a zone, and zone numbers that one holds
    DIRECT,           \* zone numbers in the inode itself, the code's 7
    BYTE,             \* bits of a byte of a bitmap, the code's 8
    NumInodes,        \* s_num_inodes_, the size of the bitmap of inodes
    NumZones,         \* s_zones_, the blocks of the disk and the size of the other
    FirstZone,        \* s_1st_datazone_
    Buffers,          \* what a program writes in one call
    MaxSize,          \* bound on the size of a file
    MaxMounts, MaxCreates, MaxWrites,    \* bounds on the number of calls
    Crashes,          \* whether the power may fail
    NONE

ASSUME MinixAssumption ==
    /\ ZONE_SIZE \in Nat \ {0} /\ DIRECT \in Nat /\ MaxSize \in Nat
    /\ MaxMounts \in Nat /\ MaxCreates \in Nat /\ MaxWrites \in Nat
    /\ NumInodes \in Nat \ {0, 1} /\ NumZones \in Nat /\ FirstZone \in 1 .. NumZones - 1
    /\ BYTE \in Nat \ {0}
    /\ Buffers \subseteq Seq(Nat) /\ <<>> \notin Buffers
    /\ Crashes \in BOOLEAN

\* The sizes that mkfs.minix chooses.  In the image of the repository
\* (utils/images/SWEB-flat.vmdk.tar.gz) there are 21856 and 14960 inodes, and
\* 65535 and 44856 zones of which the first for data are 696 and 945.
ASSUME ImageAssumption == NumInodes % BYTE = 0 /\ FirstZone >= BYTE

Inodes == 2 .. NumInodes - 1     \* 1 is the root directory
Zones == FirstZone .. NumZones - 1    \* the first is the root directory's

\* The bit b of the bitmap is that of the zone b + FirstZone - 1, so the last
\* FirstZone - 1 bits are those of no zone.  mkfs.minix sets them.
ZoneBits == 0 .. NumZones - FirstZone

VARIABLES
    \* On the disk.
    zones_on_disk, inodes_on_disk, inode_bits, zone_bits,
    dir,              \* the entries of the root directory, 0 if there is none
    \* In memory.
    phase,            \* "off", "mounted" or "flushing"
    inode_bitmap_, zone_bitmap_, curr_inode_pos_, curr_zone_pos_,
    all_inodes_,      \* MinixFSInode of each inode that is loaded
    unwritten,        \* the inodes the destructor of the superblock has still to write
    writing,          \* the inode of which it has written a part; stays after a crash
    tables,           \* the linking zones of this inode that are not written yet
    file, offset_,    \* the inode of each descriptor, NONE if closed
    calls,            \* how many calls there were of those that are bounded
    leaks,            \* history: a crash or a lost file left bits set
    intact            \* history: no file was removed and the power never failed

diskVars == <<zones_on_disk, inodes_on_disk, inode_bits, zone_bits, dir>>
bitmapVars == <<inode_bitmap_, zone_bitmap_, curr_inode_pos_, curr_zone_pos_>>
fdVars == <<file, offset_>>
flushVars == <<unwritten, writing, tables>>
historyVars == <<leaks, intact>>
vars == <<diskVars, phase, bitmapVars, all_inodes_, flushVars, fdVars, calls, historyVars>>

Count(call, max) == calls[call] < max /\ calls' = [calls EXCEPT ![call] = @ + 1]

-----------------------------------------------------------------------------
(* MinixFSZone: the zones of an inode.  Numbers are filled in from the      *)
(* first on, so the zones are a sequence.                                   *)

\* The table of the zone numbers in s after the first n, as it is stored.
Table(s, n, length) == [k \in 1 .. length |-> IF n + k <= Len(s) THEN s[n + k] ELSE 0]

\* The numbers in a table that are set, which getNumZones counts.
Entries(table) == SelectSeq(table, LAMBDA z : z # 0)

\* A linking zone holds the numbers from here on.
LinkedFrom(k) == DIRECT + k * ZONE_SIZE

NoZones == [k \in 1 .. DIRECT + 2 |-> 0]

\* The header that writeInode writes first.  readBytes does not read, so that
\* the zone numbers on the disk are zero until flush writes them.
HeaderOnDisk(r) == [mode |-> "file", size |-> r.size, zones |-> NoZones]

\* MinixFSZone::flush: the numbers in the inode, then one linking zone after
\* the other, with the table it holds.
NumbersOf(r) == Table(r.zones, 0, DIRECT) \o <<r.indirect, r.double_indirect>>
LinkingZones(r) == Entries(<<r.indirect, r.double_indirect>> \o r.linking)
TableOf(r, z) ==
    IF z = r.indirect THEN Table(r.zones, LinkedFrom(0), ZONE_SIZE)
    ELSE IF z = r.double_indirect THEN Table(r.linking, 0, ZONE_SIZE)
    ELSE Table(r.zones, LinkedFrom(IndexFirstSubSeq(<<z>>, r.linking)), ZONE_SIZE)

\* The constructors of MinixFSInode and MinixFSZone, from the disk.
LoadInode(i) ==
    LET on_disk == inodes_on_disk[i]
        indirect == on_disk.zones[DIRECT + 1]
        double_indirect == on_disk.zones[DIRECT + 2]
        Linked(z) == IF z = 0 THEN <<>> ELSE Entries(zones_on_disk[z])
        linking == Linked(double_indirect)
    IN  [size |-> on_disk.size,
         zones |-> Entries(SubSeq(on_disk.zones, 1, DIRECT)) \o Linked(indirect)
                   \o FlattenSeq([k \in DOMAIN linking |-> Linked(linking[k])]),
         indirect |-> indirect, double_indirect |-> double_indirect, linking |-> linking]

-----------------------------------------------------------------------------
(* MinixStorageManager, and the growth of an inode *)

\* The next position after pos whose bit is not set, pos itself excepted.
NextFree(bits, pos, size) ==
    LET free == {k \in 1 .. size - 1 : (pos + k) % size \notin bits}
    IN  IF free = {} THEN NONE ELSE (pos + Min(free)) % size

\* MinixFSSuperblock::allocateZone.  It halts the kernel if the disk is full.
AllocateZone(g) ==
    LET pos == NextFree(g.bitmap, g.pos, NumZones)
    IN  IF pos = NONE THEN [g EXCEPT !.full = TRUE]
        ELSE [g EXCEPT !.bitmap = @ \cup {pos}, !.pos = pos, !.zone = pos + FirstZone - 1]

BitOf(zone) == zone - FirstZone + 1

WithIndirect(g) ==
    LET a == AllocateZone(g) IN [a EXCEPT !.inode.indirect = a.zone]

WithDoubleIndirect(g) ==
    LET a == AllocateZone(g) IN [a EXCEPT !.inode.double_indirect = a.zone]

WithLinking(g) ==
    LET a == AllocateZone(g) IN [a EXCEPT !.inode.linking = Append(@, a.zone)]

\* MinixFSZone::setZone of the index after the last, which may need up to two
\* linking zones first.
SetZone(g, zone) ==
    LET index == Len(g.inode.zones)
        single == index >= DIRECT /\ g.inode.indirect = 0
        double == index >= LinkedFrom(1) /\ g.inode.double_indirect = 0
        g1 == IF single THEN WithIndirect(g) ELSE g
        g2 == IF double THEN WithDoubleIndirect(g1) ELSE g1
        g3 == IF index >= LinkedFrom(Len(g.inode.linking) + 1) THEN WithLinking(g2) ELSE g2
    IN  [g3 EXCEPT !.inode.zones = Append(@, zone)]

AddZone(g) == LET a == AllocateZone(g) IN SetZone(a, a.zone)

\* MUTANT: a write that grows the file by less than a zone gets none.
ZonesForRest(end, size) == (end - size) \div ZONE_SIZE
NewZones(end, size) == (end - size) \div ZONE_SIZE + 1

\* The inode i when it is to have end bytes.
Grown(i, end) ==
    LET r == all_inodes_[i]
        g == [bitmap |-> zone_bitmap_, pos |-> curr_zone_pos_, inode |-> r, zone |-> 0,
              full |-> FALSE]
        n == IF end > r.size THEN NewZones(end, r.size) ELSE 0
    IN  FoldLeft(LAMBDA s, k : AddZone(s), g, [k \in 1 .. n |-> k])

OwnZones(r) ==
    (ToSet(r.zones) \cup ToSet(r.linking) \cup {r.indirect, r.double_indirect}) \ {0}

\* MinixFSZone::freeZones clears the bits of all zones of the inode.
\* MUTANT: those of the linking zones stay set.
FreeDataZones(r) == zone_bitmap_ \ {BitOf(z) : z \in ToSet(r.zones)}
FreeZones(r) == zone_bitmap_ \ {BitOf(z) : z \in OwnZones(r)}

-----------------------------------------------------------------------------
(* Reading and writing *)

\* The index after the last zone that readData and writeData ask getZone for,
\* which asserts that it exists.
ZonesUsed(o, n) == o \div ZONE_SIZE + ((o % ZONE_SIZE) + n) \div ZONE_SIZE + 1

ByteAt(r, p) == zones_on_disk[r.zones[p \div ZONE_SIZE + 1]][(p % ZONE_SIZE) + 1]

\* The device asserts that a zone that is read or written is on the disk.
OnTheDisk(r, from, to) == \A k \in from .. to : r.zones[k] \in Zones

\* MinixFSInode::readData: n bytes from o on, as far as there are any.
Available(r, o, n) == IF o + n <= r.size THEN n ELSE IF r.size <= o THEN 0 ELSE r.size - o
ReadData(r, o, n) == [k \in 1 .. Available(r, o, n) |-> ByteAt(r, o + k - 1)]

Written(r, o, buf, p) ==
    IF p \in o .. o + Len(buf) - 1 THEN buf[p - o + 1]
    ELSE IF p < r.size THEN ByteAt(r, p) ELSE 0

WriteData(i, o, buf) ==
    LET end == o + Len(buf)
        g == Grown(i, end)
        r == g.inode
        touched == o \div ZONE_SIZE + 1 .. ZonesUsed(o, Len(buf))
    IN  /\ g.full = FALSE
        /\ ZonesUsed(o, Len(buf)) <= Len(r.zones)
        /\ OnTheDisk(r, o \div ZONE_SIZE + 1, ZonesUsed(o, Len(buf)))
        /\ zones_on_disk' = [z \in Zones |->
              IF \E k \in touched : r.zones[k] = z
              THEN LET k == CHOOSE j \in touched : r.zones[j] = z
                   IN  [c \in 1 .. ZONE_SIZE |->
                           Written(all_inodes_[i], o, buf, (k - 1) * ZONE_SIZE + c - 1)]
              ELSE zones_on_disk[z]]
        /\ all_inodes_' = [all_inodes_ EXCEPT ![i] =
              [r EXCEPT !.size = IF end > r.size THEN end ELSE r.size]]
        /\ zone_bitmap_' = g.bitmap
        /\ curr_zone_pos_' = g.pos

\* MinixFSFile::write.
Write(fd, buf) ==
    /\ phase = "mounted" /\ file[fd] # NONE
    /\ offset_[fd] + Len(buf) <= MaxSize /\ Count("writes", MaxWrites)
    /\ WriteData(file[fd], offset_[fd], buf)
    /\ offset_' = [offset_ EXCEPT ![fd] = @ + Len(buf)]
    /\ UNCHANGED <<inodes_on_disk, inode_bits, zone_bits, dir, phase, inode_bitmap_,
                   curr_inode_pos_, flushVars, file, historyVars>>

\* MinixFSFile::read.
Read(fd, n) ==
    LET r == all_inodes_[file[fd]]
        bytes == ReadData(r, offset_[fd], n)
    IN  /\ phase = "mounted" /\ file[fd] # NONE
        /\ bytes # <<>> =>
              /\ ZonesUsed(offset_[fd], Len(bytes)) <= Len(r.zones)
              /\ OnTheDisk(r, offset_[fd] \div ZONE_SIZE + 1, ZonesUsed(offset_[fd], Len(bytes)))
        /\ offset_' = [offset_ EXCEPT ![fd] = @ + Len(bytes)]
        /\ UNCHANGED <<diskVars, phase, bitmapVars, all_inodes_, flushVars, file, calls, historyVars>>

-----------------------------------------------------------------------------
(* Files and descriptors *)

Unused(fd) == phase = "mounted" /\ file[fd] = NONE

\* MinixFSSuperblock::createFd.
CreateFd(fd, i) ==
    /\ file' = [file EXCEPT ![fd] = i]
    /\ offset_' = [offset_ EXCEPT ![fd] = 0]

Open(f, fd) ==
    /\ Unused(fd) /\ dir[f] # 0
    /\ CreateFd(fd, dir[f])
    /\ UNCHANGED <<diskVars, phase, bitmapVars, all_inodes_, flushVars, calls, historyVars>>

EmptyInode == [size |-> 0, zones |-> <<>>, indirect |-> 0, double_indirect |-> 0,
               linking |-> <<>>]

WriteNewInode(i) == [inodes_on_disk EXCEPT ![i] = HeaderOnDisk(EmptyInode)]

\* MinixFSSuperblock::createInode writes the inode and mkfile the entry of the
\* directory; the bitmap stays in memory.
Create(f, fd) ==
    LET i == NextFree(inode_bitmap_, curr_inode_pos_, NumInodes) IN
    /\ Unused(fd) /\ dir[f] = 0 /\ i # NONE /\ Count("creates", MaxCreates)
    /\ inode_bitmap_' = inode_bitmap_ \cup {i}
    /\ curr_inode_pos_' = i
    /\ all_inodes_' = [j \in DOMAIN all_inodes_ \cup {i} |->
                          IF j = i THEN EmptyInode ELSE all_inodes_[j]]
    /\ inodes_on_disk' = WriteNewInode(i)
    /\ dir' = [dir EXCEPT ![f] = i]
    /\ CreateFd(fd, i)
    /\ UNCHANGED <<zones_on_disk, inode_bits, zone_bits, phase, zone_bitmap_,
                   curr_zone_pos_, flushVars, historyVars>>

\* MinixFSSuperblock::removeFd.
Close(fd) ==
    /\ phase = "mounted" /\ file[fd] # NONE
    /\ file' = [file EXCEPT ![fd] = NONE]
    /\ offset_' = [offset_ EXCEPT ![fd] = 0]
    /\ UNCHANGED <<diskVars, phase, bitmapVars, all_inodes_, flushVars, calls, historyVars>>

IsOpen(i) == \E fd \in Fds : file[fd] = i
ZeroInode == [mode |-> "none", size |-> 0, zones |-> NoZones]

\* MinixFSInode::rm of a file that nobody has open, and delete_inode.
Rm(f) ==
    LET i == dir[f] IN
    /\ phase = "mounted" /\ i # 0 /\ ~IsOpen(i)
    /\ dir' = [dir EXCEPT ![f] = 0]
    /\ zone_bitmap_' = FreeZones(all_inodes_[i])
    /\ inode_bitmap_' = inode_bitmap_ \ {i}
    /\ inodes_on_disk' = [inodes_on_disk EXCEPT ![i] = ZeroInode]
    /\ all_inodes_' = [j \in DOMAIN all_inodes_ \ {i} |-> all_inodes_[j]]
    /\ intact' = FALSE
    /\ UNCHANGED <<zones_on_disk, inode_bits, zone_bits, phase, curr_inode_pos_,
                   curr_zone_pos_, flushVars, fdVars, calls, leaks>>

-----------------------------------------------------------------------------
(* Mounting and unmounting *)

\* MinixStorageManager::flush writes whole bytes as they are, and then one byte
\* that is always 0.
Flushed(bits, size) == {b \in bits : b < size - (size % BYTE)}

\* ~MinixFSSuperblock writes the bitmaps, closes all files and writes the
\* inodes one by one.
Unmount ==
    /\ phase = "mounted"
    /\ phase' = "flushing"
    /\ inode_bits' = Flushed(inode_bitmap_, NumInodes)
    /\ zone_bits' = Flushed(zone_bitmap_, NumZones)
    /\ file' = [fd \in Fds |-> NONE] /\ offset_' = [fd \in Fds |-> 0]
    /\ unwritten' = DOMAIN all_inodes_
    /\ UNCHANGED <<zones_on_disk, inodes_on_disk, dir, bitmapVars, all_inodes_, writing,
                   tables, calls, historyVars>>

\* MinixFSSuperblock::writeInode of the next inode: its header.
WriteInode(i) ==
    /\ phase = "flushing" /\ writing = NONE /\ i \in unwritten
    /\ inodes_on_disk' = [inodes_on_disk EXCEPT ![i] = HeaderOnDisk(all_inodes_[i])]
    /\ writing' = i
    /\ UNCHANGED <<zones_on_disk, inode_bits, zone_bits, dir, phase, bitmapVars, all_inodes_,
                   unwritten, tables, fdVars, calls, historyVars>>

\* The inode is finished with the last of its linking zones.
GoOn(rest) ==
    /\ tables' = rest
    /\ writing' = IF rest = <<>> THEN NONE ELSE writing

WriteNumbers ==
    /\ phase = "flushing" /\ writing \in unwritten
    /\ inodes_on_disk' = [inodes_on_disk EXCEPT ![writing].zones = NumbersOf(all_inodes_[writing])]
    /\ unwritten' = unwritten \ {writing}
    /\ GoOn(LinkingZones(all_inodes_[writing]))
    /\ UNCHANGED <<zones_on_disk, inode_bits, zone_bits, dir, phase, bitmapVars, all_inodes_,
                   fdVars, calls, historyVars>>

WriteTable ==
    /\ phase = "flushing" /\ tables # <<>>
    /\ Head(tables) \in Zones
    /\ zones_on_disk' = [zones_on_disk EXCEPT ![Head(tables)] =
                             TableOf(all_inodes_[writing], Head(tables))]
    /\ GoOn(Tail(tables))
    /\ UNCHANGED <<inodes_on_disk, inode_bits, zone_bits, dir, phase, bitmapVars, all_inodes_,
                   unwritten, fdVars, calls, historyVars>>

\* Nothing is left in memory.
Forget ==
    /\ phase' = "off"
    /\ all_inodes_' = [i \in {} |-> EmptyInode]
    /\ unwritten' = {} /\ tables' = <<>>
    /\ inode_bitmap_' = {} /\ zone_bitmap_' = {} /\ curr_inode_pos_' = 0 /\ curr_zone_pos_' = 0
    /\ file' = [fd \in Fds |-> NONE] /\ offset_' = [fd \in Fds |-> 0]
    /\ UNCHANGED <<diskVars, writing>>

Unmounted ==
    /\ phase = "flushing" /\ unwritten = {} /\ writing = NONE
    /\ Forget
    /\ UNCHANGED <<calls, historyVars>>

\* The power fails.
Crash ==
    /\ Crashes = TRUE /\ phase # "off"
    /\ Forget
    /\ leaks' = TRUE /\ intact' = FALSE
    /\ UNCHANGED calls

\* MinixFSSuperblock::getInode refuses an inode that is not set in the bitmap,
\* and one whose number is not below that of the inodes in use.
Loadable(i) == i < Cardinality(inode_bits) /\ i \in inode_bits

\* The constructor of MinixFSSuperblock; loadChildren erases the entries of the
\* directory whose inodes are refused.  (What is found of an inode that was only
\* written in part is left out.)
Mount ==
    LET found == {f \in Names : dir[f] # 0 /\ Loadable(dir[f])} IN
    /\ phase = "off" /\ writing = NONE /\ Count("mounts", MaxMounts)
    /\ phase' = "mounted"
    /\ inode_bitmap_' = inode_bits /\ zone_bitmap_' = zone_bits
    /\ curr_inode_pos_' = 0 /\ curr_zone_pos_' = 0
    /\ \A f \in found : inodes_on_disk[dir[f]].mode = "file"
    /\ all_inodes_' = [i \in {dir[f] : f \in found} |-> LoadInode(i)]
    /\ dir' = [f \in Names |-> IF f \in found THEN dir[f] ELSE 0]
    /\ leaks' = (leaks \/ \E f \in Names \ found : dir[f] # 0)
    /\ UNCHANGED <<zones_on_disk, inodes_on_disk, inode_bits, zone_bits, flushVars, fdVars,
                   intact>>

-----------------------------------------------------------------------------
(* The specification *)

\* A new file system.
Init ==
    /\ zones_on_disk = [z \in Zones |-> [c \in 1 .. ZONE_SIZE |-> 0]]
    /\ inodes_on_disk = [i \in Inodes |-> ZeroInode]
    /\ inode_bits = {0, 1} /\ zone_bits = {0, 1} \cup ((0 .. NumZones - 1) \ ZoneBits)
    /\ dir = [f \in Names |-> 0]
    /\ phase = "off" /\ all_inodes_ = [i \in {} |-> EmptyInode]
    /\ unwritten = {} /\ writing = NONE /\ tables = <<>>
    /\ inode_bitmap_ = {} /\ zone_bitmap_ = {} /\ curr_inode_pos_ = 0 /\ curr_zone_pos_ = 0
    /\ file = [fd \in Fds |-> NONE] /\ offset_ = [fd \in Fds |-> 0]
    /\ calls = [mounts |-> 0, creates |-> 0, writes |-> 0] 
    /\ leaks = FALSE /\ intact = TRUE

Next ==
    \/ \E f \in Names : Rm(f) \/ \E fd \in Fds : Open(f, fd) \/ Create(f, fd)
    \/ \E fd \in Fds :
          \/ Close(fd)
          \/ \E buf \in Buffers : Write(fd, buf) \/ Read(fd, Len(buf))
    \/ Mount \/ Unmount \/ Unmounted \/ Crash
    \/ WriteNumbers \/ WriteTable \/ \E i \in Inodes : WriteInode(i)

Spec == Init /\ [][Next]_vars

-----------------------------------------------------------------------------
(* Properties *)

\* Zones of different inodes are different, and set in the bitmap.  (Those that
\* are not on the disk are never read or written.)
Disjoint(inodes, bits) ==
    /\ \A i \in DOMAIN inodes :
          /\ {BitOf(z) : z \in OwnZones(inodes[i]) \cap Zones} \subseteq bits \ {0, 1}
          /\ Cardinality(OwnZones(inodes[i])) =
                Len(inodes[i].zones) + Len(LinkingZones(inodes[i]))
    /\ \A i, j \in DOMAIN inodes :
          i # j => (OwnZones(inodes[i]) \cap OwnZones(inodes[j])) \cap Zones = {}

\* Every zone in use belongs to one inode in one place, linking zones included,
\* and, unless there was a crash, every zone that is set in the bitmap is in
\* use: writeData, setZone and freeZones agree with allocZone and freeZone, and
\* the bits that flush clears at the end of a bitmap are of no zone.
ZonesOwned ==
    phase = "mounted" =>
        /\ Disjoint(all_inodes_, zone_bitmap_)
        /\ leaks \/ zone_bitmap_ \cap ZoneBits = {0, 1} \cup
              {BitOf(z) : z \in Zones \cap
                                  UNION {OwnZones(all_inodes_[i]) : i \in DOMAIN all_inodes_}}

\* The inodes of a mount at this moment, except for one that is being written.
OnDisk ==
    [i \in ({dir[f] : f \in Names} \cap inode_bits) \ {0, writing} |-> LoadInode(i)]


\* The assertion of getZone holds in every call of readData and writeData, also
\* at the boundaries of zones, and no write starts after the end of the file,
\* where writeData would write to zones of others.
ZonesSuffice ==
    \A fd \in Fds : file[fd] # NONE =>
        LET r == all_inodes_[file[fd]]
            o == offset_[fd]
        IN  /\ o <= r.size
            /\ o < r.size => ZonesUsed(o, r.size - o) <= Len(r.zones)
            /\ \A buf \in Buffers :
                  LET g == Grown(file[fd], o + Len(buf))
                  IN  g.full = FALSE => ZonesUsed(o, Len(buf)) <= Len(g.inode.zones)

\* The bytes of a file, from memory or, when nothing is mounted, as the next
\* mount will find them.  A file whose inode was only written in part is lost.
Bytes(r) == ReadData(r, 0, r.size)
Lost(i) == phase = "off" /\ (~Loadable(i) \/ i = writing)
Content(f) ==
    IF dir[f] = 0 \/ Lost(dir[f]) THEN NONE
    ELSE IF phase = "off" THEN Bytes(LoadInode(dir[f]))
    ELSE Bytes(all_inodes_[dir[f]])

ByteFiles == INSTANCE ByteFiles WITH
    content <- [f \in Names |-> Content(f)], mounted <- phase # "off"


\* After a proper unmount all files are found ("maybe filesystem was not
\* properly unmounted last time", MinixFSInode.cpp:415, blames a crash).
UnmountKeepsFiles ==
    phase = "off" /\ leaks = FALSE => \A f \in Names : dir[f] # 0 => Loadable(dir[f])
=============================================================================
