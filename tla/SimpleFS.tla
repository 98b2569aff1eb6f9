------------------------------- MODULE SimpleFS -------------------------------
(***************************************************************************)
(* The storage layer of the kernel: src/kernel/core/simplefs.c over the    *)
(* ATA driver src/kernel/drivers/ata_pio.c, as the desktop calls it.       *)
(*                                                                         *)
(* Every step is one sector transfer, because that is where the machine    *)
(* can lose power and where the driver can fail.  All calls come from the  *)
(* single desktop loop, so at most one is in progress (variable call).     *)
(*                                                                         *)
(* Abstractions: a sector holds a tagged record instead of 512 bytes; file *)
(* lengths are in sectors; the bytes of the i-th sector of a file are      *)
(* <<save, i>>.  FAT32 volumes are in Fat32.tla.  The channel has a slave  *)
(* (run.sh: the storage image) and a master (the disk the machine booted   *)
(* from); the driver works on one of them, which every mount chooses anew. *)
(***************************************************************************)
EXTENDS Fat32

CONSTANTS
  Names,         \* file names a caller passes
  ImageName,     \* the file run.sh puts on the image ("new.png")
  Volumes,       \* the FAT32 volumes a disk may hold, see Volume in Fat32
  MaxFiles,      \* SFS_MAX_FILES
  PerSector,     \* whole directory entries that fit one sector
  TableSectors,  \* table_sectors, set by sfs_format
  DiskSectors,   \* sectors of the disk
  MaxLen,        \* bound: longest file, in sectors
  ViewSectors,   \* sectors the buffer of the viewer holds
  MaxSaves,      \* bound: number of save calls
  MaxFaults,     \* bound: number of sector transfers or probes that go wrong
  MaxCrashes,    \* bound: number of power failures
  Machines       \* the machines: what is on the slave and on the master, and the
                 \*   FAT32 volume, where one is on either

ASSUME FsAssumption ==
  /\ MaxFiles \in Nat \ {0} /\ PerSector \in Nat \ {0}
  /\ TableSectors \in Nat \ {0} /\ MaxFiles <= PerSector * TableSectors
  /\ DiskSectors \in Nat /\ DiskSectors > 1 + TableSectors + MaxLen
  /\ MaxLen \in Nat \ {0} /\ ViewSectors \in Nat
  /\ MaxSaves \in Nat /\ MaxFaults \in Nat /\ MaxCrashes \in Nat
  /\ ImageName \in Names /\ "" \notin Names /\ "?" \notin Names
  /\ LET image == {"none", "blank", "sfs", "fat"}
     IN Machines \subseteq [slave : image, master : image, volume : Volumes]
  /\ \A v \in Volumes : IsVolume(v) /\ Len(v.sectors) <= DiskSectors

VARIABLES
  disk,       \* disk[lba]: what the sector holds, of the drive in use
  drive,      \* g_storage.is_slave: the drive in use (of no account before a mount)
  away,       \* the other drive: its disk, and its exposed
  attached,   \* the drives that are there
  present,    \* g_storage.present
  kind,       \* g_kind
  sb,         \* g_sb: its next_free_lba, or BadSB when the magic does not match
  table,      \* g_table
  fat,        \* g_fat and g_fat_files
  switched,   \* history: the drive has changed since g_table was loaded or formatted
  call,       \* the call in progress, NoCall between calls
  result,     \* what the last call returned, and the bytes it read
  saves,      \* number of save calls so far
  faults,     \* number of faults so far
  crashes,    \* number of power failures so far
  readFault,  \* history: some sector read or probe has failed
  acked,      \* history: acked[n] is the content of the last save of n that
              \*   returned 1, NoContent if there is none
  exposed     \* history: names the disk makes no promise about (see FileStore)

drives  == <<drive, away, attached>>
memory  == <<present, kind, sb, table, fat, switched>>
history == <<readFault, acked, exposed>>
vars == <<disk, drives, memory, call, result, saves, faults, crashes, history>>

-----------------------------------------------------------------------------
(* The disk format. *)

Slots    == 0 .. MaxFiles - 1
TableLba == 1
DataLba  == TableLba + TableSectors
Sectors  == 0 .. DiskSectors - 1

NoEntry    == [used |-> FALSE, name |-> "", start |-> 0, size |-> 0]
AlienEntry == [used |-> TRUE, name |-> "?", start |-> 0, size |-> 0]
EmptyTable == [i \in Slots |-> NoEntry]
BadSB      == 0                      \* no valid next_free_lba is 0

SuperSector(next)   == [kind |-> "super", next |-> next]
InTableSector(s)    == {i \in Slots : i \div PerSector = s}
TableSector(t, s)   == [kind |-> "table", ents |-> [i \in InTableSector(s) |-> t[i]]]
DataSector(n, v, i) == [kind |-> "data", name |-> n, save |-> v, index |-> i]

\* The entries the code finds in a sector it takes for table sector s: a zero
\* sector is a run of unused entries, anything else is read as it comes.
EntryIn(sector, i) ==
  IF sector.kind = "table" THEN sector.ents[i]
  ELSE IF sector.kind = "zero" THEN NoEntry ELSE AlienEntry

SuperIn(sector) == IF sector.kind = "super" THEN sector.next ELSE BadSB

\* The last sector sfs_load_table reads: the one in which idx reaches
\* SFS_MAX_FILES (64 entries, 11 to a sector: the sixth of eight).
LastLoaded == Min({MaxFiles \div PerSector, TableSectors - 1})

\* len rounded up, and never 0: an empty file still takes a sector.
SectorsFor(len) == IF len = 0 THEN 1 ELSE len

DiskOf(image, v) ==
  CASE image \in {"none", "blank"} -> [l \in Sectors |-> ZeroSector]
    [] image = "fat"   -> [l \in Sectors |-> IF l < Len(v.sectors) THEN v.sectors[l + 1]
                                             ELSE ZeroSector]
    [] image = "sfs"   ->
         LET t == [EmptyTable EXCEPT ![0] =
                     [used |-> TRUE, name |-> ImageName, start |-> DataLba, size |-> 1]]
         IN [l \in Sectors |->
               IF l = 0 THEN SuperSector(DataLba + 1)
               ELSE IF l < DataLba THEN TableSector(t, l - TableLba)
               ELSE IF l = DataLba THEN DataSector(ImageName, 0, 0) ELSE ZeroSector]

\* The bytes of save v of file n (save 0 is the file of the image).
ContentOf(n, v, len) == [i \in 1 .. len |-> DataSector(n, v, i - 1)]
Contents  == {ContentOf(n, v, len) : n \in Names, v \in 0 .. MaxSaves, len \in 0 .. MaxLen}
NoContent == <<ZeroSector>>
InDoubt   == <<[kind |-> "doubt"]>>

NoCall == [cmd |-> "none", pc |-> "idle", name |-> "", len |-> 0, save |-> 0,
           i |-> 0, slot |-> 0, start |-> 0, size |-> 0, left |-> 0, lost |-> FALSE, data |-> <<>>]
NoResult == [cmd |-> "none", name |-> "", ok |-> FALSE, size |-> 0, data |-> <<>>]

-----------------------------------------------------------------------------
(* Power on: the kernel's .bss is zero. *)

Drives == {"slave", "master"}

\* The drive ata_pio_init takes if every drive answers.
Preferred == IF "slave" \in attached THEN "slave" ELSE "master"

Init ==
  /\ \E m \in Machines :
       LET image == IF m.slave = "none" THEN m.master ELSE m.slave
           other == IF m.slave = "none" THEN m.slave ELSE m.master
       IN /\ attached = {d \in Drives : m[d] # "none"}
          /\ disk = DiskOf(image, m.volume)
          /\ away = [disk |-> DiskOf(other, m.volume), exposed |-> {}]
          /\ acked = [n \in Names |-> IF image = "sfs" /\ n = ImageName
                                      THEN ContentOf(n, 0, 1) ELSE NoContent]
  /\ drive = Preferred
  /\ present = FALSE /\ kind = "none" /\ sb = BadSB /\ table = EmptyTable /\ fat = NoFat
  /\ switched = FALSE
  /\ call = NoCall /\ result = NoResult
  /\ saves = 0 /\ faults = 0 /\ crashes = 0
  /\ readFault = FALSE /\ exposed = {}

\* Power fails at any moment; what was in memory is gone.
PowerFailure ==
  /\ crashes < MaxCrashes
  /\ crashes' = crashes + 1
  /\ present' = FALSE /\ kind' = "none" /\ sb' = BadSB /\ table' = EmptyTable /\ fat' = NoFat
  /\ switched' = FALSE
  /\ call' = NoCall /\ result' = NoResult
  /\ UNCHANGED <<disk, drives, saves, faults, history>>

-----------------------------------------------------------------------------
(* Sector transfers.  A read either returns the sector or fails.  A write  *)
(* is done, is refused (no DRQ: ata_pio_write28 returns 0), or is lost: a  *)
(* device error after the transfer is not looked at, and 1 is returned.    *)

Outcomes == {"ok", "refused", "lost"}

ReadOutcome(lba) ==
  IF lba \notin Sectors \/ ~present THEN {"refused"}
  ELSE IF faults < MaxFaults THEN {"ok", "refused"} ELSE {"ok"}

WriteOutcome(lba) ==
  IF lba \notin Sectors \/ ~present THEN {"refused"}
  ELSE IF faults < MaxFaults THEN Outcomes ELSE {"ok"}

\* A refusal of a sector that is on a present disk is a fault of the device.
Faulty(lba, o) == o # "ok" /\ lba \in Sectors /\ present
CountFault(lba, o) == faults' = IF Faulty(lba, o) THEN faults + 1 ELSE faults

Read(lba, o) ==
  /\ o \in ReadOutcome(lba)
  /\ CountFault(lba, o)
  /\ readFault' = (readFault \/ Faulty(lba, o))
  /\ UNCHANGED <<disk, drives, crashes>>

Write(lba, content, o) ==
  /\ o \in WriteOutcome(lba)
  /\ CountFault(lba, o)
  /\ disk' = IF o = "ok" THEN [disk EXCEPT ![lba] = content] ELSE disk
  /\ UNCHANGED <<drives, crashes, readFault>>

\* The call goes on at pc, counting sectors from i.
Goto(pc, i) == call' = [call EXCEPT !.pc = pc, !.i = i] /\ UNCHANGED result

\* simplefs_read_file gives its caller the size of the file besides its bytes.
ReturnFile(size, data) ==
  /\ call' = NoCall
  /\ result' = [cmd |-> call.cmd, name |-> call.name, ok |-> TRUE, size |-> size, data |-> data]

Return(ok) ==
  /\ call' = NoCall
  /\ result' = [NoResult EXCEPT !.cmd = call.cmd, !.name = call.name, !.ok = ok]
Fail == Return(FALSE)

-----------------------------------------------------------------------------
(* The directory as the disk holds it. *)

DiskEntry(d, i) == EntryIn(d[TableLba + (i \div PerSector)], i)
EntriesOf(d, n) == {i \in Slots : DiskEntry(d, i).used /\ DiskEntry(d, i).name = n}
Listed(d)       == {n \in Names : EntriesOf(d, n) # {}}
\* The one a reader of n uses.
EntryOf(d, n)   == DiskEntry(d, Min(EntriesOf(d, n)))

-----------------------------------------------------------------------------
(* Calls from the desktop: "mount" is simplefs_init alone (shell fs, opening *)
(* the explorer), "save" is simplefs_init and simplefs_write_file (Notepad), *)
(* "view" is simplefs_init and simplefs_read_file (shell view), "wall" also  *)
(* asks for the size in between and takes a buffer of that size, "open" is   *)
(* simplefs_read_file alone (a double click in the explorer's list).         *)

Call(cmd, n, len) ==
  /\ call.pc = "idle"
  /\ cmd = "save" => saves < MaxSaves
  /\ saves' = IF cmd = "save" THEN saves + 1 ELSE saves
  /\ call' = [NoCall EXCEPT !.cmd = cmd, !.name = n, !.len = len, !.save = saves',
                            !.pc = IF cmd = "open" THEN "ready" ELSE "probe"]
  /\ UNCHANGED <<disk, drives, memory, result, faults, crashes, history>>

CallMount   == Call("mount", "", 0)
CallSave(n) == \E len \in 0 .. MaxLen : Call("save", n, len)
CallView(n) == Call("view", n, 0)
CallWall    == Call("wall", ImageName, 0)
\* The explorer lists g_table, or the FAT root, as the last mount left them.
CallOpen(n) ==
  /\ \/ kind = "fat" /\ FatFind(fat, n) # {}
     \/ kind = "sfs" /\ \E i \in Slots : table[i].used /\ table[i].name = n
  /\ Call("open", n, 0)

-----------------------------------------------------------------------------
(* simplefs_init *)

\* IDENTIFY of drive d fails: it is not there, or it is a fault.
Unidentified(d) ==
  \/ d \notin attached /\ UNCHANGED <<faults, readFault>>
  \/ /\ d \in attached /\ faults < MaxFaults
     /\ faults' = faults + 1 /\ readFault' = TRUE

\* Seeded fault: what is known of the directory goes with the drive.
UseRemembering(d) ==
  /\ d \in attached /\ UNCHANGED <<faults, readFault>>
  /\ present' = TRUE /\ drive' = d
  /\ IF d = drive
     THEN UNCHANGED <<disk, away, exposed, switched>> /\ Goto("fat", 0)
     ELSE /\ disk' = away.disk /\ exposed' = away.exposed /\ switched' = TRUE
          /\ away' = [disk |-> disk, exposed |-> exposed]
          /\ Goto(IF sb = BadSB THEN "fat" ELSE "mounted", 0)

\* IDENTIFY of drive d succeeds, and it becomes the drive in use.
Use(d) ==
  /\ d \in attached /\ UNCHANGED <<faults, readFault>>
  /\ present' = TRUE /\ drive' = d
  /\ IF d = drive
     THEN UNCHANGED <<disk, away, exposed, switched>>
     ELSE /\ disk' = away.disk /\ exposed' = away.exposed /\ switched' = TRUE
          /\ away' = [disk |-> disk, exposed |-> exposed]
  /\ Goto("fat", 0)

\* ata_pio_init asks the slave first ...
ProbeSlave ==
  /\ call.pc = "probe"
  /\ \/ Use("slave")
     \/ /\ Unidentified("slave") /\ Goto("probeMaster", 0)
        /\ UNCHANGED <<disk, drive, away, exposed, present, switched>>
  /\ UNCHANGED <<attached, kind, sb, table, fat, saves, crashes, acked>>

\* ... and then the master, whatever is on it.
ProbeMaster ==
  /\ call.pc = "probeMaster"
  /\ \/ Use("master")
     \/ /\ Unidentified("master") /\ present' = FALSE /\ Fail
        /\ UNCHANGED <<disk, drive, away, exposed, switched>>
  /\ UNCHANGED <<attached, kind, sb, table, fat, saves, crashes, acked>>

\* fat_mount_and_scan_root returns 0: simplefs_init goes on to SFS.
NotFat == Goto("super", 0) /\ kind' = "sfs"
\* ... or 1: the root directory was listed, as far as it could be followed.
FatMounted == Goto("mounted", 0) /\ kind' = "fat"

\* The boot sector.
MountFat ==
  /\ call.pc = "fat"
  /\ \E o \in Outcomes :
       /\ Read(0, o)
       /\ IF o = "ok" /\ disk[0].kind = "fat"
          THEN /\ call' = [call EXCEPT !.pc = "root", !.start = disk[0].root, !.i = 0,
                                       !.left = RootClusters - 1]
               /\ fat' = Geometry(disk[0])
               /\ UNCHANGED <<kind, result>>
          ELSE NotFat /\ UNCHANGED fat
  /\ UNCHANGED <<present, sb, table, switched, saves, acked, exposed>>

\* One sector of the root directory.
ScanRoot ==
  /\ call.pc = "root"
  /\ LET lba == ClusterLba(fat, call.start) + call.i
     IN \E o \in Outcomes :
          /\ Read(lba, o)
          /\ IF o # "ok" THEN NotFat /\ UNCHANGED fat
             ELSE /\ fat' = [fat EXCEPT !.files = FilesAfter(@, disk[lba])]
                  /\ IF HasEnd(disk[lba]) THEN FatMounted
                     ELSE /\ IF call.i + 1 < fat.spc THEN Goto("root", call.i + 1)
                                                      ELSE Goto("rootNext", 0)
                          /\ UNCHANGED kind
  /\ UNCHANGED <<present, sb, table, switched, saves, acked, exposed>>

\* The FAT entry of a cluster of the root directory.
NextRoot ==
  /\ call.pc = "rootNext"
  /\ \E o \in Outcomes :
       /\ Read(EntryLba(fat, call.start), o)
       /\ LET next == NextIn(disk[EntryLba(fat, call.start)], call.start)
          IN CASE o # "ok" \/ (next # EndOfChain /\ next < 2) -> NotFat
               [] o = "ok" /\ (next = EndOfChain \/ (next >= 2 /\ call.left = 0)) -> FatMounted
               [] OTHER -> /\ call' = [call EXCEPT !.pc = "root", !.start = next, !.left = @ - 1]
                           /\ UNCHANGED <<kind, result>>
  /\ UNCHANGED <<present, sb, table, fat, switched, saves, acked, exposed>>

\* sfs_format up to its first write.
BeginFormat ==
  sb' = DataLba /\ table' = EmptyTable /\ switched' = FALSE /\ Goto("formatSuper", 0)

LoadSuper ==
  /\ call.pc = "super"
  /\ \E o \in Outcomes :
       /\ Read(0, o)
       /\ IF o # "ok"
          THEN Fail /\ UNCHANGED <<sb, table, switched>>
          ELSE IF SuperIn(disk[0]) = BadSB
               THEN BeginFormat
               ELSE /\ sb' = SuperIn(disk[0]) /\ switched' = FALSE
                    /\ Goto("table", 0) /\ UNCHANGED table
  /\ UNCHANGED <<present, kind, fat, saves, acked, exposed>>

LoadTable ==
  /\ call.pc = "table"
  /\ \E o \in Outcomes :
       /\ Read(TableLba + call.i, o)
       /\ IF o # "ok"
          THEN BeginFormat
          ELSE /\ table' = [j \in Slots |-> IF j \in InTableSector(call.i)
                                             THEN DiskEntry(disk, j) ELSE table[j]]
               /\ IF call.i = LastLoaded THEN Goto("mounted", 0)
                                         ELSE Goto("table", call.i + 1)
               /\ UNCHANGED <<sb, switched>>
  /\ UNCHANGED <<present, kind, fat, saves, acked, exposed>>

FormatSuper ==
  /\ call.pc = "formatSuper"
  /\ \E o \in Outcomes :
       /\ Write(0, SuperSector(sb), o)
       /\ IF o = "refused" THEN Fail ELSE Goto("formatTable", 0)
       /\ exposed' = IF o = "refused" THEN exposed ELSE exposed \cup Listed(disk)
  /\ UNCHANGED <<memory, saves, acked>>

FormatTable ==
  /\ call.pc = "formatTable"
  /\ \E o \in Outcomes :
       /\ Write(TableLba + call.i, TableSector(table, call.i), o)
       /\ IF o = "refused" THEN Fail
          ELSE IF call.i = TableSectors - 1 THEN Goto("mounted", 0)
                                            ELSE Goto("formatTable", call.i + 1)
       /\ exposed' = IF o = "ok" THEN exposed \ (Listed(disk) \ Listed(disk')) ELSE exposed
  /\ UNCHANGED <<memory, saves, acked>>

Mounted ==
  /\ call.pc = "mounted"
  /\ IF call.cmd = "mount" THEN Return(TRUE) ELSE Goto("ready", 0)
  /\ UNCHANGED <<disk, drives, memory, saves, faults, crashes, history>>

-----------------------------------------------------------------------------
(* simplefs_write_file *)

Find(n)   == {i \in Slots : table[i].used /\ table[i].name = n}
Unused    == {i \in Slots : ~table[i].used}
\* Seeded fault: a name is always given a fresh entry.
TargetFresh(n) == Unused
Target(n) == IF Find(n) # {} THEN Find(n) ELSE Unused

\* Seeded fault: an existing file is overwritten in place.
SaveBeginInPlace ==
  /\ call.pc = "ready" /\ call.cmd = "save"
  /\ IF kind = "fat" \/ Target(call.name) = {}
     THEN Fail
     ELSE /\ call' = [call EXCEPT !.pc = "data", !.slot = Min(Target(call.name)),
                        !.start = IF Find(call.name) # {}
                                  THEN table[Min(Find(call.name))].start ELSE sb]
          /\ UNCHANGED result
  /\ UNCHANGED <<disk, drives, memory, saves, faults, crashes, history>>

SaveBegin ==
  /\ call.pc = "ready" /\ call.cmd = "save"
  /\ IF kind = "fat" \/ Target(call.name) = {}
     THEN Fail
     ELSE /\ call' = [call EXCEPT !.pc = "data", !.slot = Min(Target(call.name)),
                                  !.start = sb]
          /\ UNCHANGED result
  /\ UNCHANGED <<disk, drives, memory, saves, faults, crashes, history>>

\* A write of this call was lost: nothing in the code will notice.
Doubtful(o) == IF o = "lost" THEN exposed \cup {call.name} ELSE exposed

\* The entry and next_free_lba change in memory right after the last data
\* sector, before anything else is written.
WriteData ==
  /\ call.pc = "data"
  /\ \E o \in Outcomes :
       /\ Write(call.start + call.i,
                IF call.len = 0 THEN ZeroSector
                ELSE DataSector(call.name, call.save, call.i), o)
       /\ exposed' = Doubtful(o)
       /\ IF o = "refused"
          THEN Fail /\ UNCHANGED <<sb, table>>
          ELSE IF call.i + 1 < SectorsFor(call.len)
          THEN /\ call' = [call EXCEPT !.i = @ + 1, !.lost = @ \/ o = "lost"]
               /\ UNCHANGED <<sb, table, result>>
          ELSE /\ call' = [call EXCEPT !.pc = "storeTable", !.i = 0,
                                       !.lost = @ \/ o = "lost"]
               /\ table' = [table EXCEPT ![call.slot] =
                              [used |-> TRUE, name |-> call.name,
                               start |-> call.start, size |-> call.len]]
               /\ sb' = call.start + SectorsFor(call.len)
               /\ UNCHANGED result
  /\ UNCHANGED <<present, kind, fat, switched, saves, acked>>

\* sfs_store_table writes every sector of the directory, in order.
StoreTable ==
  /\ call.pc = "storeTable"
  /\ \E o \in Outcomes :
       /\ Write(TableLba + call.i, TableSector(table, call.i), o)
       /\ exposed' = IF o = "ok" /\ call.slot \in InTableSector(call.i)
                     THEN exposed \cup {call.name} ELSE Doubtful(o)
       /\ IF o = "refused" THEN Fail
          ELSE /\ call' = [call EXCEPT
                             !.pc = IF call.i = TableSectors - 1 THEN "storeSuper" ELSE @,
                             !.i = IF @ = TableSectors - 1 THEN 0 ELSE @ + 1,
                             !.lost = @ \/ o = "lost"]
               /\ UNCHANGED result
  /\ UNCHANGED <<memory, saves, acked>>

\* Seeded fault: the superblock is stored as it was before the save.
StoreSuperStale ==
  /\ call.pc = "storeSuper"
  /\ Write(0, SuperSector(call.start), "ok")
  /\ Return(TRUE)
  /\ exposed' = exposed \ {call.name}
  /\ acked' = [acked EXCEPT ![call.name] = ContentOf(call.name, call.save, call.len)]
  /\ UNCHANGED <<memory, saves>>

\* The save returns 1; if none of its writes was lost, the name is safe again.
StoreSuper ==
  /\ call.pc = "storeSuper"
  /\ \E o \in Outcomes :
       /\ Write(0, SuperSector(sb), o)
       /\ Return(o # "refused")
       /\ IF o = "ok" /\ ~call.lost
          THEN /\ exposed' = exposed \ {call.name}
               /\ acked' = [acked EXCEPT ![call.name] =
                              ContentOf(call.name, call.save, call.len)]
          ELSE exposed' = Doubtful(o) /\ UNCHANGED acked
  /\ UNCHANGED <<memory, saves>>

-----------------------------------------------------------------------------
(* simplefs_read_file *)

\* Sectors the buffer of the caller holds.
Buffer(size) == IF call.cmd = "wall" THEN size ELSE ViewSectors

ReadFile(size, start, pc) ==
  LET n == Min({size, Buffer(size)})
  IN IF call.cmd = "wall" /\ size = 0 THEN Fail
     ELSE IF n = 0 THEN ReturnFile(size, <<>>)
     ELSE /\ call' = [call EXCEPT !.pc = pc, !.start = start, !.len = n, !.size = size,
                                  !.left = ChainClusters - 1]
          /\ UNCHANGED result

\* Bytes past the buffer are not read.
ReadBegin ==
  /\ call.pc = "ready" /\ call.cmd \in {"view", "wall", "open"}
  /\ CASE kind = "fat" /\ FatFind(fat, call.name) # {} ->
            LET f == fat.files[Min(FatFind(fat, call.name))]
            IN ReadFile(f.size, f.cluster, "readFat")
       [] kind = "sfs" /\ Find(call.name) # {} ->
            LET e == table[Min(Find(call.name))]
            IN ReadFile(e.size, e.start, "read")
       [] OTHER -> Fail
  /\ UNCHANGED <<disk, drives, memory, saves, faults, crashes, history>>

\* One sector of a file on a FAT32 volume.
ReadFat ==
  /\ call.pc = "readFat"
  /\ LET lba == ClusterLba(fat, call.start) + call.i
         data == Append(call.data, disk[lba])
     IN \E o \in Outcomes :
          /\ Read(lba, o)
          /\ IF o # "ok" THEN Fail
             ELSE IF Len(data) = call.len THEN ReturnFile(call.size, data)
             ELSE /\ call' = [call EXCEPT !.data = data,
                                !.i = IF @ + 1 < fat.spc THEN @ + 1 ELSE 0,
                                !.pc = IF call.i + 1 < fat.spc THEN @ ELSE "readNext"]
                  /\ UNCHANGED result
  /\ UNCHANGED <<memory, saves, acked, exposed>>

\* The FAT entry of a cluster of the file.  A chain that ends before the size
\* is reached counts as read: the caller is told the size all the same.
NextCluster ==
  /\ call.pc = "readNext"
  /\ \E o \in Outcomes :
       /\ Read(EntryLba(fat, call.start), o)
       /\ LET next == NextIn(disk[EntryLba(fat, call.start)], call.start)
          IN CASE o # "ok" \/ (next # EndOfChain /\ next < 2) -> Fail
               [] o = "ok" /\ (next = EndOfChain \/ (next >= 2 /\ call.left = 0)) ->
                    ReturnFile(call.size, call.data)
               [] OTHER -> /\ call' = [call EXCEPT !.pc = "readFat", !.start = next, !.left = @ - 1]
                           /\ UNCHANGED result
  /\ UNCHANGED <<memory, saves, acked, exposed>>

ReadData ==
  /\ call.pc = "read"
  /\ \E o \in Outcomes :
       /\ Read(call.start + call.i, o)
       /\ IF o # "ok" THEN Fail
          ELSE LET data == Append(call.data, disk[call.start + call.i])
               IN IF call.i + 1 = call.len
                  THEN ReturnFile(call.size, data)
                  ELSE /\ call' = [call EXCEPT !.i = @ + 1, !.data = data]
                       /\ UNCHANGED result
  /\ UNCHANGED <<memory, saves, acked, exposed>>

-----------------------------------------------------------------------------

Next ==
  \/ CallMount \/ CallWall
  \/ \E n \in Names : CallSave(n) \/ CallView(n) \/ CallOpen(n)
  \/ ProbeSlave \/ ProbeMaster \/ MountFat \/ ScanRoot \/ NextRoot \/ LoadSuper \/ LoadTable
  \/ FormatSuper \/ FormatTable \/ Mounted
  \/ SaveBegin \/ WriteData \/ StoreTable \/ StoreSuper
  \/ ReadBegin \/ ReadData \/ ReadFat \/ NextCluster
  \/ PowerFailure

Spec == Init /\ [][Next]_vars

-----------------------------------------------------------------------------
(* Properties. *)

Entry == [used : BOOLEAN, name : Names \cup {"", "?"}, start : Nat, size : Nat]

\* Each region of a disk holds only its own kind of sector: a file never reaches
\* the superblock or the directory.
Laid(d) ==
  /\ \A l \in Sectors :
       CASE l = 0 -> d[l].kind = "super" => d[l].next \in DataLba .. DiskSectors
         [] l \in TableLba .. DataLba - 1 ->
              d[l].kind = "table" => d[l].ents \in [InTableSector(l - TableLba) -> Entry]
         [] OTHER -> d[l].kind \in {"zero", "data"} \cup FatKinds
  /\ d[0].kind \in {"zero", "fat", "super"}

\* Types of the variables.
TypeOK ==
  /\ Laid(disk) /\ Laid(away.disk)
  /\ drive \in Drives /\ attached \subseteq Drives
  /\ table \in [Slots -> Entry]
  /\ present \in BOOLEAN /\ switched \in BOOLEAN /\ kind \in {"none", "sfs", "fat"}
  /\ sb \in {BadSB} \cup DataLba .. DiskSectors
  /\ exposed \subseteq Names /\ away.exposed \subseteq Names

\* What a reader of n finds on disk d.
OnDisk(d, n) ==
  IF SuperIn(d[0]) = BadSB \/ EntriesOf(d, n) = {} THEN NoContent
  ELSE LET e == EntryOf(d, n)
       IN [i \in 1 .. e.size |-> d[e.start + i - 1]]

\* The files of d no save is being made of lie in the data region, below its
\* next_free_lba.
Covers(d, doubt) ==
  SuperIn(d[0]) # BadSB =>
    \A n \in Names \ doubt :
      EntriesOf(d, n) # {} =>
        LET e == EntryOf(d, n)
        IN e.start >= DataLba /\ e.start + SectorsFor(e.size) <= SuperIn(d[0])

\* The regions of the disks hold (TypeOK), and on each the files no save is being
\* made of lie below next_free_lba, so that the next save appends behind them.
\* Memory runs ahead of the disk and the superblock is written last: this is what
\* a power failure between the directory and the superblock could break for the
\* other files.  (The entry a reader uses is meant: behind it a second one may
\* stay when a failed read made the code format the disk and the write that
\* should have erased it was lost; it may lie anywhere.)
FrontierCovers ==
  /\ TypeOK
  /\ Covers(disk, exposed) /\ Covers(away.disk, away.exposed)

\* A name never has two directory entries on the disk, whatever was interrupted
\* (unless a failed read made the code format the disk and one of the writes
\* that erase the directory was lost: the old entry then comes back).
OneEntryPerName ==
  ~readFault => \A n \in Names : Cardinality(EntriesOf(disk, n)) <= 1

\* A save that returned 1 stays on the disk, bit for bit, across any number of
\* power failures and refused or lost writes of other saves, until its name is
\* saved again -- as long as no READ ever failed (a failed read makes
\* simplefs_init format the disk).
AckedSavesSurvive ==
  ~readFault => \A n \in Names \ exposed :
                   acked[n] # NoContent => OnDisk(disk, n) = acked[n]

\* The beginning of a file the buffer of the caller has room for.
Cut(c) == IF call.cmd = "wall" THEN c ELSE SubSeq(c, 1, Min({Len(c), ViewSectors}))

\* A read after a mount gives the caller the file as it is on the disk of the
\* drive the mount took, cut to the caller's buffer, and its size; a double click
\* in the explorer, which does not mount, gives some complete save of that very
\* name, never a mixture (unless a mount that went on to the other drive failed
\* before it had that drive's directory: the explorer then shows the old list, and
\* the bytes come from the other disk).
SavesReadWhole ==
  (/\ call.pc = "read" /\ call'.pc = "idle" /\ result'.ok /\ call.name \notin exposed
   /\ call.cmd = "open" => ~switched)
  => \E c \in Contents :
       /\ result'.data = Cut(c)
       /\ result'.size = Len(c) /\ c[1].name = call.name
       /\ call.cmd # "open" => c = OnDisk(disk, call.name)

\* Of a FAT32 volume in order a read gives the file of that name, through
\* whatever clusters it is spread; of a damaged one it gives a beginning.
FatReadsWhole ==
  (call.pc \in {"readFat", "readNext"} /\ call'.pc = "idle" /\ result'.ok)
  => \A v \in Volumes : disk = DiskOf("fat", v) =>
       \E c \in v.files :
         /\ result'.size = Len(c) /\ c[1].name = call.name
         /\ IF v.intact THEN result'.data = Cut(c)
                        ELSE IsPrefix(result'.data, c)

\* What simplefs_read_file hands out, of either kind of disk.
ReadsAreWhole == [][SavesReadWhole /\ FatReadsWhole]_vars

\* The disk of drive d, whichever is in use.
DiskOn(d) == IF d = drive THEN disk ELSE away.disk

\* What drive d holds for a reader: names in doubt are Pending, the others hold
\* what is on its disk.
Holding(d, doubt) == [n \in Names |-> IF n \in doubt THEN InDoubt ELSE OnDisk(d, n)]
HeldBy(d) ==
  IF d = drive THEN Holding(disk, exposed) ELSE Holding(away.disk, away.exposed)

\* The abstract store on each drive.
SlaveStore == INSTANCE FileStore WITH
  Saves <- Contents, Absent <- NoContent, Pending <- InDoubt, content <- HeldBy("slave")
MasterStore == INSTANCE FileStore WITH
  Saves <- Contents, Absent <- NoContent, Pending <- InDoubt, content <- HeldBy("master")

\* Every step of the file system, faults, power failures and mounts that take
\* another drive included, is for each of the two drives a step of the abstract
\* store or leaves it alone: no step damages a bystander, and none carries
\* anything from one drive to the other.
ImplementsStore == SlaveStore!StoreSpec /\ MasterStore!StoreSpec

\* simplefs.c:44 calls the FAT32 support read-only, ata_pio.c:128 prefers the slave
\* "so the master can stay as the EFI boot disk", and Makefile:82 has a separate
\* storage disk to avoid "overwriting the EFI/FAT boot image": a FAT32 disk is not
\* written, in whichever drive.
FatDiskIsReadOnly ==
  [][\A d \in Drives : DiskOn(d)[0].kind = "fat" => DiskOn(d)' = DiskOn(d)]_vars
==============================================================================
