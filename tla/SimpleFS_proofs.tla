--------------------------- MODULE SimpleFS_proofs ---------------------------
(***************************************************************************)
(* The theorems about the storage layer, for any disks, directory, names   *)
(* and volumes, and any number of saves, faults and power failures.        *)
(*                                                                         *)
(* The driver has one drive in use, and a mount may give it another: FsInv *)
(* is about the disk in use, AwayInv about the other one, and a mount that *)
(* changes them round only needs to find both in order.                    *)
(*                                                                         *)
(* What the properties say of the disk holds between calls because of what *)
(* a call in progress may rely on: the directory in memory agrees with the *)
(* one on the disk but for names in doubt (Mirrors), the files nobody is   *)
(* saving lie below the sector the save starts at, and what the save has   *)
(* written so far is there unless a write was lost.  What a read hands out *)
(* is right because the directory in memory leads to whole saves between   *)
(* calls too (Listing), and because of what the read has gathered so far   *)
(* (Gathered, Followed).                                                   *)
(***************************************************************************)
EXTENDS SimpleFS, FiniteSetTheorems, SequenceTheorems, WellFoundedInduction, TLAPS

-----------------------------------------------------------------------------
(* The inductive invariant: the disk. *)

TableLbas == TableLba .. DataLba - 1

\* The kinds of sectors in each region of a disk.
Layout(d) ==
  /\ DOMAIN d = Sectors
  /\ d[0].kind \in {"zero", "fat", "super"}
  /\ d[0].kind = "super" => d[0].next \in DataLba .. DiskSectors
  /\ \A l \in TableLbas :
       d[l].kind = "table" => d[l].ents \in [InTableSector(l - TableLba) -> Entry]
  /\ \A l \in DataLba .. DiskSectors - 1 : d[l].kind \in {"zero", "data"} \cup FatKinds

Good(d) == SuperIn(d[0]) # BadSB

Named(d, i)  == DiskEntry(d, i).used /\ DiskEntry(d, i).name \in Names
OnlyFirst(d) == \A i \in Slots \ {0} : ~Named(d, i)

\* What a file of that name may hold.
SavesOf(n) == {ContentOf(n, v, len) : v \in 0 .. MaxSaves, len \in 0 .. MaxLen}

\* OnDisk and Covers, of a disk and of names in doubt that are given.
File(d, n) ==
  IF ~Good(d) \/ EntriesOf(d, n) = {} THEN NoContent
  ELSE [i \in 1 .. EntryOf(d, n).size |-> d[EntryOf(d, n).start + i - 1]]

Within(e, limit) == e.start >= DataLba /\ e.start + SectorsFor(e.size) <= limit

Below(d, doubt, limit) ==
  \A n \in Names \ doubt : EntriesOf(d, n) # {} => Within(EntryOf(d, n), limit)

\* Of a name that is not in doubt a disk with a superblock holds some save of it, and
\* one without a superblock holds nothing.
Sound(d, doubt) ==
  /\ Good(d) => /\ Below(d, doubt, SuperIn(d[0]))
                /\ \A n \in Names \ doubt : EntriesOf(d, n) # {} => File(d, n) \in SavesOf(n)
  /\ ~Good(d) => Listed(d) \subseteq doubt

\* What holds as long as no read has failed: then only a disk that was never used
\* is formatted.
Strict(d, doubt, acks) ==
  /\ \A n \in Names : \A i, j \in EntriesOf(d, n) : i = j
  /\ \A n \in Names \ doubt : acks[n] # NoContent => File(d, n) = acks[n]
  /\ ~Good(d) => OnlyFirst(d) /\ \A n \in Names : acks[n] = NoContent

DiskInv == Sound(disk, exposed) /\ (~readFault => Strict(disk, exposed, acked))

-----------------------------------------------------------------------------
(* The inductive invariant: the call in progress. *)

Fields == {"cmd", "pc", "name", "len", "save", "i", "slot", "start", "size", "left", "lost",
           "data"}
Reading  == {"idle", "probe", "probeMaster", "fat", "root", "rootNext", "super", "read",
             "readFat", "readNext"}
Saving   == {"data", "storeTable", "storeSuper"}
Mounting == {"fat", "root", "rootNext", "super", "table"}
Phases == Reading \cup Saving \cup {"table", "formatSuper", "formatTable", "mounted", "ready"}

Shaped(c) ==
  /\ DOMAIN c = Fields /\ c.pc \in Phases /\ c.lost \in BOOLEAN /\ c.save \in 0 .. MaxSaves
  /\ c.cmd = "save" => c.name \in Names /\ c.len \in 0 .. MaxLen

Types ==
  /\ Layout(disk) /\ table \in [Slots -> Entry]
  /\ present \in BOOLEAN /\ kind \in {"none", "sfs", "fat"}
  /\ sb \in {BadSB} \cup DataLba .. DiskSectors
  /\ exposed \subseteq Names /\ readFault \in BOOLEAN /\ DOMAIN acked = Names
  /\ saves \in 0 .. MaxSaves
  /\ Shaped(call) /\ (call.pc \in Mounting => present)

\* Before table sector s is loaded or stored, those below it have been.
Agree(d, t, s) == \A j \in Slots : j \div PerSector < s => t[j] = DiskEntry(d, j)

\* An entry in memory is the one on the disk, or unused where the name on the disk
\* is in doubt.
Mirrors(d, doubt, e, j) ==
  \/ e = DiskEntry(d, j)
  \/ ~e.used /\ (Named(d, j) => DiskEntry(d, j).name \in doubt)

Exact(d, t, j) == Named(d, j) => t[j] = DiskEntry(d, j)

Loading ==
  call.pc = "table" =>
    /\ sb = SuperIn(disk[0]) /\ sb # BadSB /\ call.i \in 0 .. LastLoaded
    /\ Agree(disk, table, call.i)

Formatting ==
  call.pc \in {"formatSuper", "formatTable"} =>
    /\ sb = DataLba /\ table = EmptyTable
    /\ ~readFault => OnlyFirst(disk) /\ \A n \in Names : acked[n] = NoContent
    /\ call.pc = "formatTable" =>
         call.i \in 0 .. TableSectors - 1 /\ Listed(disk) \subseteq exposed

Ready ==
  (call.pc = "mounted" \/ (call.pc = "ready" /\ call.cmd # "open")) /\ kind # "fat" =>
    /\ call.i = 0 /\ sb # BadSB /\ Below(disk, exposed, sb)
    /\ \A j \in Slots : Mirrors(disk, exposed, table[j], j)
    /\ ~readFault => \/ Good(disk) /\ \A j \in Slots : Exact(disk, table, j)
                     \/ table = EmptyTable /\ OnlyFirst(disk)

Unwritten(d, c, len) ==
  ~c.lost => \A k \in 0 .. len - 1 : d[c.start + k] = DataSector(c.name, c.save, k)

SaveInv ==
  call.pc \in Saving =>
    /\ call.cmd = "save" /\ call.slot \in Slots /\ call.start \in DataLba .. DiskSectors
    /\ Below(disk, exposed, call.start)
    /\ \A j \in Slots \ {call.slot} :
         /\ Mirrors(disk, exposed, table[j], j)
         /\ table[j].used /\ table[j].name = call.name => j > call.slot /\ readFault
         /\ ~readFault => Exact(disk, table, j)
    /\ ~readFault => Good(disk) \/ call.slot = 0
    /\ Named(disk, call.slot) => DiskEntry(disk, call.slot).name \in exposed \cup {call.name}

DataInv ==
  call.pc = "data" =>
    /\ call.i \in 0 .. SectorsFor(call.len) - 1 /\ sb = call.start
    /\ Unwritten(disk, call, Min({call.i, call.len}))

NewEntry == [used |-> TRUE, name |-> call.name, start |-> call.start, size |-> call.len]

StoreInv ==
  call.pc \in {"storeTable", "storeSuper"} =>
    /\ table[call.slot] = NewEntry /\ sb = call.start + SectorsFor(call.len)
    /\ Unwritten(disk, call, call.len)
    /\ call.pc = "storeTable" =>
         /\ call.i \in 0 .. TableSectors - 1
         /\ ~call.lost => /\ Agree(disk, table, call.i)
                          /\ call.slot \div PerSector < call.i => call.name \in exposed
    /\ call.pc = "storeSuper" /\ ~call.lost =>
         Agree(disk, table, TableSectors) /\ call.name \in exposed

CallInv == Loading /\ Formatting /\ Ready /\ SaveInv /\ DataInv /\ StoreInv

FsInv == Types /\ DiskInv /\ CallInv

\* The disk of the other drive is in order too, and the driver goes to it only after
\* a fault: until then it uses the drive it prefers.
AwayInv ==
  /\ Layout(away.disk) /\ Sound(away.disk, away.exposed) /\ away.exposed \subseteq Names
  /\ drive \in Drives /\ attached \subseteq Drives /\ switched \in BOOLEAN
  /\ ~readFault => drive = Preferred
  /\ call.pc = "probeMaster" => readFault \/ "slave" \notin attached

Storage == FsInv /\ AwayInv

-----------------------------------------------------------------------------
(* Numbers and entries. *)

\* A set of numbers that is not empty has a least member.
LEMMA Least ==
  ASSUME NEW S \in SUBSET Nat, S # {}
  PROVE  Min(S) \in S /\ \A x \in S : Min(S) <= x
<1> DEFINE R == OpToRel(<, Nat)
<1>1. IsWellFoundedOn(R, Nat)
  BY NatLessThanWellFounded
<1>2. \A x, y \in Nat : y < x => <<y, x>> \in R
  BY Zenon DEF OpToRel
<1> HIDE DEF R
<1>3. PICK m \in S : \A y \in S : <<y, m>> \notin R
  BY <1>1, WFMin
<1>4. \A x \in S : ~(x < m)
  BY <1>2, <1>3
<1>5. \A x \in S : m <= x
  <2>1. \A x \in S : x \in Nat /\ m \in Nat
    OBVIOUS
  <2> QED BY <1>4, <2>1
<1> QED BY <1>5 DEF Min

LEMMA Sizes ==
  /\ MaxFiles \in Nat /\ MaxFiles > 0 /\ PerSector \in Nat /\ PerSector > 0
  /\ TableSectors \in Nat /\ TableSectors > 0 /\ DiskSectors \in Nat
  /\ DataLba = 1 + TableSectors /\ DataLba \in Nat /\ DataLba + MaxLen < DiskSectors
  /\ MaxLen \in Nat /\ MaxLen > 0 /\ MaxSaves \in Nat
  /\ TableLba = 1 /\ Slots \subseteq Nat /\ BadSB = 0
  /\ 0 \in Sectors /\ TableLbas \subseteq Sectors
  /\ \A l \in TableLbas : l # 0 /\ ~(l >= DataLba)
<1>1. /\ MaxFiles \in Nat /\ MaxFiles # 0 /\ PerSector \in Nat /\ PerSector # 0
      /\ TableSectors \in Nat /\ TableSectors # 0 /\ DiskSectors \in Nat
      /\ DiskSectors > 1 + TableSectors + MaxLen
      /\ MaxLen \in Nat /\ MaxLen # 0 /\ MaxSaves \in Nat
  BY Zenon, FsAssumption
<1>2. /\ DataLba = 1 + TableSectors /\ DataLba \in Nat /\ DataLba + MaxLen < DiskSectors
      /\ TableLba = 1 /\ BadSB = 0
  BY <1>1 DEF DataLba, TableLba, BadSB
<1>3. Slots \subseteq Nat /\ 0 \in Sectors
  BY <1>1 DEF Slots, Sectors
<1>4. \A l \in TableLbas : l \in Sectors /\ l # 0 /\ ~(l >= DataLba)
  BY <1>1, <1>2 DEF TableLbas, Sectors
<1> QED BY <1>1, <1>2, <1>3, <1>4

LEMMA NamesAre ==
  /\ ImageName \in Names
  /\ ~NoEntry.used /\ AlienEntry.name \notin Names /\ NoEntry \in Entry /\ AlienEntry \in Entry
<1>1. ImageName \in Names /\ "?" \notin Names
  BY Zenon, FsAssumption
<1>2. AlienEntry.name = "?" /\ ~NoEntry.used
  BY DEF AlienEntry, NoEntry
<1>3. NoEntry \in Entry /\ AlienEntry \in Entry
  BY DEF Entry, NoEntry, AlienEntry
<1>4. AlienEntry.name \notin Names
  BY Zenon, <1>1, <1>2
<1> QED BY Zenon, <1>1, <1>2, <1>3, <1>4

\* The sector of the directory an entry is in: it is one of the directory's, and
\* sfs_load_table gets to it.
LEMMA SectorOf ==
  ASSUME NEW i \in Slots
  PROVE  /\ i \div PerSector \in 0 .. TableSectors - 1
         /\ i \div PerSector <= LastLoaded /\ LastLoaded \in 0 .. TableSectors - 1
         /\ TableLba + (i \div PerSector) \in TableLbas
<1>1. i \in Nat /\ i < MaxFiles /\ MaxFiles <= PerSector * TableSectors
  <2>1. MaxFiles <= PerSector * TableSectors
    BY Zenon, FsAssumption
  <2>2. i \in Nat /\ i < MaxFiles
    BY Sizes DEF Slots
  <2> QED BY <2>1, <2>2
<1>2. i \div PerSector \in Nat /\ MaxFiles \div PerSector \in Nat
  BY <1>1, Sizes
<1>3. i \div PerSector < TableSectors
  BY <1>1, Sizes
<1>4. i \div PerSector <= MaxFiles \div PerSector
  BY <1>1, Sizes
<1>5. LastLoaded \in {MaxFiles \div PerSector, TableSectors - 1}
  <2>1. {MaxFiles \div PerSector, TableSectors - 1} \in SUBSET Nat
    BY <1>2, Sizes
  <2> QED BY <2>1, Least DEF LastLoaded
<1>6. LastLoaded <= TableSectors - 1
  <2>1. {MaxFiles \div PerSector, TableSectors - 1} \in SUBSET Nat
    BY <1>2, Sizes
  <2> QED BY <2>1, Least DEF LastLoaded
<1> QED BY <1>2, <1>3, <1>4, <1>5, <1>6, Sizes DEF TableLbas

LEMMA EntryTyped ==
  ASSUME NEW d, Layout(d), NEW i \in Slots
  PROVE  DiskEntry(d, i) \in Entry
<1> DEFINE l == TableLba + (i \div PerSector)
<1>1. l \in TableLbas /\ i \in InTableSector(l - TableLba)
  BY SectorOf, Sizes DEF InTableSector
<1>2. d[l].kind = "table" => d[l].ents[i] \in Entry
  BY <1>1 DEF Layout
<1>3. NoEntry \in Entry /\ AlienEntry \in Entry
  BY DEF Entry, NoEntry, AlienEntry
<1> QED BY <1>2, <1>3 DEF DiskEntry, EntryIn

LEMMA FirstEntry ==
  ASSUME NEW d, NEW n, EntriesOf(d, n) # {}
  PROVE  /\ Min(EntriesOf(d, n)) \in EntriesOf(d, n)
         /\ Min(EntriesOf(d, n)) \in Slots
         /\ \A i \in EntriesOf(d, n) : Min(EntriesOf(d, n)) <= i
<1>1. EntriesOf(d, n) \in SUBSET Nat /\ EntriesOf(d, n) \subseteq Slots
  BY Sizes DEF EntriesOf
<1> QED BY <1>1, Least

LEMMA Spelled ==
  /\ \A d, n : OnDisk(d, n) = File(d, n)
  /\ \A d, doubt : Covers(d, doubt) <=> (Good(d) => Below(d, doubt, SuperIn(d[0])))
BY DEF OnDisk, File, Covers, Below, Within, Good

\* The entries of a name are those that were, when no entry of it came or went.
LEMMA SameEntries ==
  ASSUME NEW d, NEW e, NEW n,
         \A i \in Slots : i \in EntriesOf(d, n) \/ i \in EntriesOf(e, n)
                            => DiskEntry(e, i) = DiskEntry(d, i)
  PROVE  EntriesOf(e, n) = EntriesOf(d, n)
         /\ (EntriesOf(d, n) # {} => EntryOf(e, n) = EntryOf(d, n))
<1>1. \A i \in Slots : i \in EntriesOf(e, n) <=> i \in EntriesOf(d, n)
  BY DEF EntriesOf
<1>2. EntriesOf(e, n) = EntriesOf(d, n)
  <2>1. EntriesOf(e, n) \subseteq Slots /\ EntriesOf(d, n) \subseteq Slots
    BY DEF EntriesOf
  <2> QED BY <1>1, <2>1
<1>3. EntriesOf(d, n) # {} => EntryOf(e, n) = EntryOf(d, n)
  <2> SUFFICES ASSUME EntriesOf(d, n) # {} PROVE EntryOf(e, n) = EntryOf(d, n)
    OBVIOUS
  <2>1. Min(EntriesOf(d, n)) \in EntriesOf(d, n) /\ Min(EntriesOf(d, n)) \in Slots
    BY FirstEntry
  <2>2. DiskEntry(e, Min(EntriesOf(d, n))) = DiskEntry(d, Min(EntriesOf(d, n)))
    BY <2>1
  <2> QED BY <1>2, <2>2 DEF EntryOf
<1> QED BY <1>2, <1>3

\* ... and its file is, when in addition no sector of it was written.
LEMMA SameFile ==
  ASSUME NEW d, NEW e, NEW n, NEW limit \in Nat, Layout(d),
         EntriesOf(d, n) # {} => Within(EntryOf(d, n), limit),
         \A i \in Slots : i \in EntriesOf(d, n) \/ i \in EntriesOf(e, n)
                            => DiskEntry(e, i) = DiskEntry(d, i),
         \A l \in DataLba .. limit - 1 : e[l] = d[l],
         Good(e) <=> Good(d)
  PROVE  File(e, n) = File(d, n)
<1>1. EntriesOf(e, n) = EntriesOf(d, n)
      /\ (EntriesOf(d, n) # {} => EntryOf(e, n) = EntryOf(d, n))
  BY SameEntries
<1>2. CASE EntriesOf(d, n) = {} \/ ~Good(d)
  BY <1>1, <1>2 DEF File
<1>3. CASE EntriesOf(d, n) # {} /\ Good(d)
  <2> DEFINE f == EntryOf(d, n)
  <2>1. f.start \in Nat /\ f.size \in Nat
    <3>1. Min(EntriesOf(d, n)) \in Slots
      BY <1>3, FirstEntry
    <3>2. f \in Entry
      BY <3>1, EntryTyped DEF EntryOf
    <3> QED BY <3>2 DEF Entry
  <2>2. f.start >= DataLba /\ f.start + SectorsFor(f.size) <= limit
    BY <1>3 DEF Within
  <2>3. EntryOf(e, n) = f
    BY <1>1, <1>3
  <2> HIDE DEF f
  <2>4. ASSUME NEW i \in 1 .. f.size
        PROVE  e[f.start + i - 1] = d[f.start + i - 1]
    <3>1. SectorsFor(f.size) = f.size
      BY <2>1, <2>4 DEF SectorsFor
    <3>2. f.start + i - 1 \in DataLba .. limit - 1
      BY <2>1, <2>2, <2>4, <3>1, Sizes
    <3> QED BY <3>2
  <2>5. [i \in 1 .. f.size |-> e[f.start + i - 1]] = [i \in 1 .. f.size |-> d[f.start + i - 1]]
    BY <2>4
  <2> QED BY <1>1, <1>3, <2>3, <2>5 DEF File, f
<1> QED BY <1>2, <1>3

\* Writes outside the directory.
LEMMA SameDirectory ==
  ASSUME NEW d, NEW e, \A l \in TableLbas : e[l] = d[l]
  PROVE  /\ \A i \in Slots : DiskEntry(e, i) = DiskEntry(d, i) /\ (Named(e, i) <=> Named(d, i))
         /\ \A n : EntriesOf(e, n) = EntriesOf(d, n)
         /\ Listed(e) = Listed(d) /\ (OnlyFirst(e) <=> OnlyFirst(d))
<1>1. \A i \in Slots : DiskEntry(e, i) = DiskEntry(d, i)
  BY SectorOf DEF DiskEntry
<1> QED BY <1>1 DEF EntriesOf, Listed, Named, OnlyFirst

-----------------------------------------------------------------------------
(* The disk the machine is started with. *)

LEMMA NeverUsed ==
  ASSUME NEW d, DOMAIN d = Sectors, d[0].kind \in {"zero", "fat"},
         \A l \in Sectors : d[l].kind \in {"zero", "data"} \cup FatKinds,
         NEW a, \A n \in Names : a[n] = NoContent
  PROVE  Layout(d) /\ Sound(d, {}) /\ Strict(d, {}, a)
<1>1. ~Good(d)
  BY DEF Good, SuperIn
<1>2. ASSUME NEW i \in Slots PROVE ~Named(d, i)
  <2>1. TableLba + (i \div PerSector) \in Sectors
    BY SectorOf, Sizes
  <2>2. d[TableLba + (i \div PerSector)].kind # "table"
    BY <2>1 DEF FatKinds
  <2>3. DiskEntry(d, i) = NoEntry \/ DiskEntry(d, i) = AlienEntry
    BY <2>2 DEF DiskEntry, EntryIn
  <2> QED BY <2>3, NamesAre DEF Named
<1>3. \A n \in Names : EntriesOf(d, n) = {}
  BY <1>2 DEF EntriesOf, Named
<1>4. Layout(d)
  <2>1. \A l \in TableLbas \cup (DataLba .. DiskSectors - 1) : l \in Sectors
    BY Sizes DEF Sectors
  <2>2. \A l \in Sectors : d[l].kind # "table" /\ d[l].kind # "super"
    BY DEF FatKinds
  <2> QED BY <2>1, <2>2, Sizes DEF Layout
<1>5. Sound(d, {})
  BY <1>1, <1>3 DEF Sound, Listed
<1>6. Strict(d, {}, a)
  BY <1>1, <1>2, <1>3 DEF Strict, OnlyFirst
<1> QED BY <1>4, <1>5, <1>6

\* The image of run.sh: one file, behind the directory.
LEMMA ImageIs ==
  ASSUME NEW v, NEW a,
         a = [n \in Names |-> IF n = ImageName THEN ContentOf(n, 0, 1) ELSE NoContent]
  PROVE  LET d == DiskOf("sfs", v) IN Layout(d) /\ Sound(d, {}) /\ Strict(d, {}, a)
<1> DEFINE file == [used |-> TRUE, name |-> ImageName, start |-> DataLba, size |-> 1]
           t == [EmptyTable EXCEPT ![0] = file]
           d == [l \in Sectors |->
                   IF l = 0 THEN SuperSector(DataLba + 1)
                   ELSE IF l < DataLba THEN TableSector(t, l - TableLba)
                   ELSE IF l = DataLba THEN DataSector(ImageName, 0, 0) ELSE ZeroSector]
<1>0. DiskOf("sfs", v) = d
  BY DEF DiskOf
<1>1. 0 \in Slots /\ t[0] = file /\ \A i \in Slots \ {0} : t[i] = NoEntry
  <2>1. 0 \in Slots
    BY Sizes DEF Slots
  <2> QED BY <2>1 DEF EmptyTable
<1>2. /\ DOMAIN d = Sectors /\ d[0] = SuperSector(DataLba + 1)
      /\ \A l \in TableLbas : d[l] = TableSector(t, l - TableLba)
      /\ \A l \in DataLba .. DiskSectors - 1 :
           l \in Sectors /\ (d[l] = DataSector(ImageName, 0, 0) \/ d[l] = ZeroSector)
      /\ DataLba \in Sectors /\ d[DataLba] = DataSector(ImageName, 0, 0)
  BY Sizes DEF Sectors, TableLbas
<1>3. \A i \in Slots : t[i] \in Entry
  <2>1. file \in Entry
    <3>1. ImageName \in Names /\ DataLba \in Nat
      BY NamesAre, Sizes
    <3> QED BY <3>1 DEF Entry
  <2>2. NoEntry \in Entry
    BY DEF Entry, NoEntry
  <2> QED BY <1>1, <2>1, <2>2
<1> HIDE DEF d, t
<1>4. \A i \in Slots : DiskEntry(d, i) = t[i]
  <2> TAKE i \in Slots
  <2> DEFINE l == TableLba + (i \div PerSector)
  <2>1. l \in TableLbas /\ i \in InTableSector(l - TableLba)
    BY SectorOf, Sizes DEF InTableSector
  <2>2. d[l] = [kind |-> "table", ents |-> [j \in InTableSector(l - TableLba) |-> t[j]]]
    BY <1>2, <2>1 DEF TableSector
  <2>3. DiskEntry(d, i) = EntryIn(d[l], i)
    BY DEF DiskEntry
  <2> HIDE DEF l
  <2> QED BY <2>1, <2>2, <2>3 DEF EntryIn
<1>5. Good(d) /\ SuperIn(d[0]) = DataLba + 1
  BY <1>2, Sizes DEF Good, SuperIn, SuperSector
<1>6. /\ EntriesOf(d, ImageName) = {0}
      /\ \A n \in Names \ {ImageName} : EntriesOf(d, n) = {}
  <2>1. \A i \in Slots : DiskEntry(d, i).used <=> i = 0
    <3>1. \A i \in Slots \ {0} : ~DiskEntry(d, i).used
      BY <1>1, <1>4, NamesAre
    <3>2. DiskEntry(d, 0).used
      BY <1>1, <1>4
    <3> QED BY <1>1, <3>1, <3>2
  <2>2. DiskEntry(d, 0).name = ImageName
    BY <1>1, <1>4
  <2> QED BY <1>1, <2>1, <2>2 DEF EntriesOf
<1>7. EntryOf(d, ImageName) = file
  <2>1. Min(EntriesOf(d, ImageName)) = 0
    BY <1>6, FirstEntry
  <2> QED BY <1>1, <1>4, <2>1 DEF EntryOf
<1>8. File(d, ImageName) = ContentOf(ImageName, 0, 1)
  <2>1. File(d, ImageName) = [i \in 1 .. 1 |-> d[DataLba + i - 1]]
    BY <1>5, <1>6, <1>7 DEF File
  <2>2. \A i \in 1 .. 1 : d[DataLba + i - 1] = DataSector(ImageName, 0, i - 1)
    <3> TAKE i \in 1 .. 1
    <3>1. i = 1 /\ DataLba + i - 1 = DataLba /\ i - 1 = 0
      BY Sizes
    <3> QED BY <1>2, <3>1
  <2> QED BY <2>1, <2>2 DEF ContentOf
<1>9. \A n \in Names \ {ImageName} : File(d, n) = NoContent
  BY <1>6 DEF File
<1>10. Layout(d)
  <2>1. \A l \in TableLbas :
          d[l].kind = "table" => d[l].ents \in [InTableSector(l - TableLba) -> Entry]
    <3> TAKE l \in TableLbas
    <3> DEFINE here == InTableSector(l - TableLba)
    <3>1. d[l].ents = [j \in here |-> t[j]]
      <4>1. d[l] = TableSector(t, l - TableLba)
        BY <1>2
      <4> QED BY <4>1 DEF TableSector
    <3>2. here \subseteq Slots
      BY DEF InTableSector
    <3> HIDE DEF here
    <3>3. d[l].ents \in [here -> Entry]
      BY <1>3, <3>1, <3>2
    <3> QED BY <3>3 DEF here
  <2>2. \A l \in DataLba .. DiskSectors - 1 : d[l].kind \in {"zero", "data"}
    BY <1>2 DEF DataSector, ZeroSector
  <2>3. d[0].kind = "super" /\ d[0].next \in DataLba .. DiskSectors
    BY <1>2, Sizes DEF SuperSector
  <2> QED BY <1>2, <2>1, <2>2, <2>3 DEF Layout
<1>11. Sound(d, {})
  <2>1. Below(d, {}, DataLba + 1)
    BY <1>6, <1>7, Sizes DEF Below, Within, SectorsFor
  <2>2. ContentOf(ImageName, 0, 1) \in SavesOf(ImageName)
    <3>1. 0 \in 0 .. MaxSaves /\ 1 \in 0 .. MaxLen /\ ImageName \in Names
      BY NamesAre, Sizes
    <3> QED BY <3>1 DEF SavesOf
  <2> QED BY <1>5, <1>6, <1>8, <2>1, <2>2 DEF Sound
<1>12. Strict(d, {}, a)
  <2>1. \A n \in Names : \A i, j \in EntriesOf(d, n) : i = j
    BY <1>6
  <2>2. \A n \in Names : a[n] # NoContent => File(d, n) = a[n]
    BY <1>8, <1>9
  <2> QED BY <1>5, <2>1, <2>2 DEF Strict
<1> QED BY <1>0, <1>10, <1>11, <1>12

\* The phases in which nothing is relied on.
LEMMA Elsewhere ==
  ASSUME \/ call'.pc \in Reading
         \/ call'.pc = "ready" /\ call'.cmd = "open"
         \/ call'.pc \in {"ready", "mounted"} /\ kind' = "fat"
  PROVE  CallInv'
BY DEF CallInv, Loading, Formatting, Ready, SaveInv, DataInv, StoreInv, Reading, Saving

LEMMA DiskOfIs ==
  ASSUME NEW image \in {"none", "blank", "sfs", "fat"}, NEW v \in Volumes, NEW d, NEW a,
         d = DiskOf(image, v),
         a = [n \in Names |-> IF image = "sfs" /\ n = ImageName
                              THEN ContentOf(n, 0, 1) ELSE NoContent]
  PROVE  Layout(d) /\ Sound(d, {}) /\ Strict(d, {}, a)
<1>1. IsVolume(v)
  BY FsAssumption
<1>2. CASE image \in {"none", "blank"}
  <2>1. d = [l \in Sectors |-> ZeroSector]
    BY <1>2 DEF DiskOf
  <2>2. \A n \in Names : a[n] = NoContent
    BY <1>2
  <2> QED BY <2>1, <2>2, NeverUsed, Sizes DEF ZeroSector
<1>3. CASE image = "fat"
  <2>1. d = [l \in Sectors |-> IF l < Len(v.sectors) THEN v.sectors[l + 1] ELSE ZeroSector]
    BY <1>3 DEF DiskOf
  <2>2. \A n \in Names : a[n] = NoContent
    BY <1>3
  <2>3. \A l \in Sectors : d[l].kind \in {"zero", "data"} \cup FatKinds
    <3> TAKE l \in Sectors
    <3>1. CASE l < Len(v.sectors)
      <4>1. l + 1 \in 1 .. Len(v.sectors)
        BY <1>1, <3>1 DEF IsVolume, Sectors
      <4> QED BY <1>1, <2>1, <3>1, <4>1 DEF IsVolume
    <3>2. CASE ~(l < Len(v.sectors))
      BY <2>1, <3>2 DEF ZeroSector
    <3> QED BY <3>1, <3>2
  <2>4. d[0].kind \in {"zero", "fat"}
    BY <1>1, <2>1, Sizes DEF IsVolume, ZeroSector
  <2> QED BY <2>1, <2>2, <2>3, <2>4, NeverUsed
<1>4. CASE image = "sfs"
  <2>1. a = [n \in Names |-> IF n = ImageName THEN ContentOf(n, 0, 1) ELSE NoContent]
    BY <1>4
  <2> QED BY <1>4, <2>1, ImageIs
<1> QED BY <1>2, <1>3, <1>4

LEMMA InitSound == Init => Storage
<1> SUFFICES ASSUME Init PROVE Storage
  OBVIOUS
<1>1. PICK m \in Machines :
        LET image == IF m.slave = "none" THEN m.master ELSE m.slave
            other == IF m.slave = "none" THEN m.slave ELSE m.master
        IN /\ attached = {d \in Drives : m[d] # "none"}
           /\ disk = DiskOf(image, m.volume)
           /\ away = [disk |-> DiskOf(other, m.volume), exposed |-> {}]
           /\ acked = [n \in Names |-> IF image = "sfs" /\ n = ImageName
                                       THEN ContentOf(n, 0, 1) ELSE NoContent]
  BY DEF Init
<1>2. exposed = {} /\ readFault = FALSE /\ switched = FALSE /\ drive = Preferred
  BY DEF Init
<1>3. /\ m.slave \in {"none", "blank", "sfs", "fat"} /\ m.volume \in Volumes
      /\ m.master \in {"none", "blank", "sfs", "fat"}
  <2>1. m \in [slave : {"none", "blank", "sfs", "fat"},
              master : {"none", "blank", "sfs", "fat"}, volume : Volumes]
    BY FsAssumption
  <2> QED BY <2>1
<1>4. Layout(disk) /\ Sound(disk, {}) /\ Strict(disk, {}, acked)
  BY <1>1, <1>3, DiskOfIs
<1>a. AwayInv
  <2>1. Layout(away.disk) /\ Sound(away.disk, {}) /\ away.exposed = {}
    <3>1. PICK other \in {"none", "blank", "sfs", "fat"} :
            away = [disk |-> DiskOf(other, m.volume), exposed |-> {}]
      BY <1>1, <1>3
    <3> QED BY <1>3, <3>1, DiskOfIs
  <2>2. attached \subseteq Drives /\ drive \in Drives
    BY <1>1, <1>2 DEF Preferred, Drives
  <2>3. call.pc # "probeMaster"
    BY DEF Init, NoCall
  <2> QED BY <1>2, <2>1, <2>2, <2>3 DEF AwayInv
<1>5. DiskInv
  BY <1>2, <1>4 DEF DiskInv
<1>6. Types
  <2>1. EmptyTable \in [Slots -> Entry]
    BY DEF EmptyTable, Entry, NoEntry
  <2>2. /\ DOMAIN NoCall = Fields /\ NoCall.pc = "idle" /\ NoCall.cmd = "none"
        /\ NoCall.lost = FALSE /\ NoCall.save = 0
    BY DEF NoCall, Fields
  <2>3. /\ call = NoCall /\ table = EmptyTable /\ present = FALSE /\ kind = "none"
        /\ sb = BadSB /\ saves = 0
    BY DEF Init
  <2>4. DOMAIN acked = Names /\ 0 \in 0 .. MaxSaves
    BY <1>1, Sizes
  <2> QED BY <1>2, <1>4, <2>1, <2>2, <2>3, <2>4 DEF Types, Shaped, Phases, Reading, Mounting
<1>7. CallInv
  BY DEF Init, NoCall, CallInv, Loading, Formatting, Ready, SaveInv, DataInv, StoreInv, Saving
<1> QED BY <1>a, <1>5, <1>6, <1>7 DEF FsInv, Storage

-----------------------------------------------------------------------------
(* Steps that write nothing. *)

LEMMA NoCallIs == Shaped(NoCall) /\ NoCall.pc = "idle"
<1>1. /\ DOMAIN NoCall = Fields /\ NoCall.pc = "idle" /\ NoCall.cmd = "none"
      /\ NoCall.lost = FALSE /\ NoCall.save = 0
  BY DEF NoCall, Fields
<1>2. 0 \in 0 .. MaxSaves
  BY Sizes
<1>3. NoCall.pc \in Phases
  BY <1>1 DEF Phases, Reading
<1> HIDE DEF NoCall
<1> QED BY <1>1, <1>2, <1>3 DEF Shaped

\* A call that goes on keeps what it was called with.
LEMMA Shapes ==
  ASSUME NEW c, Shaped(c), NEW e, DOMAIN e = DOMAIN c, e.pc \in Phases, e.lost \in BOOLEAN,
         e.cmd = c.cmd, e.name = c.name, e.save = c.save, e.cmd = "save" => e.len = c.len
  PROVE  Shaped(e)
BY DEF Shaped

LEMMA DiskKept ==
  ASSUME DiskInv, UNCHANGED <<disk, acked, exposed>>, readFault => readFault'
  PROVE  DiskInv'
BY DEF DiskInv

\* What a step leaves alone, when all it does is to read or to move on.
Untouched == UNCHANGED <<disk, acked, exposed, saves>> /\ readFault' \in BOOLEAN
             /\ (readFault => readFault')

LEMMA TypesKept ==
  ASSUME Types, Untouched, UNCHANGED <<present, table, sb>>, kind' \in {"none", "sfs", "fat"},
         Shaped(call'), call'.pc \in Mounting => present
  PROVE  Types'
BY DEF Types, Untouched

LEMMA CallKeeps ==
  ASSUME FsInv, NEW cmd, NEW n, NEW len \in 0 .. MaxLen,
         cmd = "save" => n \in Names, Call(cmd, n, len)
  PROVE  FsInv'
<1>1. /\ call' = [NoCall EXCEPT !.cmd = cmd, !.name = n, !.len = len, !.save = saves',
                                !.pc = IF cmd = "open" THEN "ready" ELSE "probe"]
      /\ saves' = IF cmd = "save" THEN saves + 1 ELSE saves
      /\ cmd = "save" => saves < MaxSaves
      /\ UNCHANGED <<disk, memory, history>>
  BY DEF Call
<1>2. saves' \in 0 .. MaxSaves
  <2>1. saves \in 0 .. MaxSaves
    BY DEF FsInv, Types
  <2>2. MaxSaves \in Nat
    BY Sizes
  <2> QED BY <1>1, <2>1, <2>2
<1>3. /\ DOMAIN call' = Fields /\ call'.cmd = cmd /\ call'.name = n /\ call'.len = len
      /\ call'.save = saves' /\ call'.lost = FALSE
      /\ call'.pc = IF cmd = "open" THEN "ready" ELSE "probe"
  BY <1>1 DEF NoCall, Fields
<1>4. Types'
  <2>1. Shaped(call') /\ call'.pc \notin Mounting
    BY <1>2, <1>3 DEF Shaped, Phases, Reading, Mounting
  <2> QED BY <1>1, <1>2, <2>1 DEF FsInv, Types, memory, history
<1>5. DiskInv'
  BY <1>1, DiskKept DEF FsInv, history
<1>6. CallInv'
  BY <1>3, Elsewhere DEF Reading
<1> QED BY <1>4, <1>5, <1>6 DEF FsInv

LEMMA ReadIs ==
  ASSUME NEW lba, NEW o, Read(lba, o), Types
  PROVE  /\ disk' = disk /\ (readFault => readFault') /\ readFault' \in BOOLEAN
         /\ o # "ok" /\ lba \in Sectors /\ present => readFault'
<1>1. readFault \in BOOLEAN
  BY DEF Types
<1> QED BY <1>1 DEF Read, Faulty

\* A mount takes the drive it has, or changes the drives round; or no drive answers.
Stays == UNCHANGED <<disk, drive, away, exposed, switched>>

Swaps ==
  /\ drive' \in Drives /\ drive' # drive /\ switched' = TRUE
  /\ disk' = away.disk /\ exposed' = away.exposed
  /\ away'.disk = disk /\ away'.exposed = exposed

\* The driver takes the other drive.
Crosses ==
  /\ drive' # drive /\ switched' = TRUE
  /\ disk' = away.disk /\ exposed' = away.exposed
  /\ away' = [disk |-> disk, exposed |-> exposed]

\* It has a drive, goes on to the master, or has none.
Found(d) ==
  /\ d \in attached /\ drive' = d /\ present' = TRUE /\ readFault' = readFault
  /\ call' = [call EXCEPT !.pc = "fat", !.i = 0] /\ (Stays \/ Crosses)

GoesOn ==
  /\ Stays /\ present' = present /\ call' = [call EXCEPT !.pc = "probeMaster", !.i = 0]
  /\ \/ "slave" \notin attached /\ readFault' = readFault
     \/ readFault' = TRUE

NoneFound ==
  /\ Stays /\ present' = FALSE /\ call' = NoCall /\ ~result'.ok
  /\ readFault' \in {TRUE, readFault}

LEMMA ProbeIs ==
  ASSUME ProbeSlave \/ ProbeMaster
  PROVE  /\ UNCHANGED <<attached, kind, sb, table, fat, saves, acked>>
         /\ \/ call.pc = "probe" /\ (Found("slave") \/ GoesOn)
            \/ call.pc = "probeMaster" /\ (Found("master") \/ NoneFound)
<1>1. UNCHANGED <<attached, kind, sb, table, fat, saves, acked>>
  BY DEF ProbeSlave, ProbeMaster
<1>2. ASSUME NEW d, Use(d) PROVE Found(d)
  <2>1. /\ d \in attached /\ drive' = d /\ present' = TRUE /\ readFault' = readFault
        /\ call' = [call EXCEPT !.pc = "fat", !.i = 0]
    BY <1>2 DEF Use, Goto
  <2>2. CASE d = drive
    BY <1>2, <2>1, <2>2 DEF Use, Found, Stays
  <2>3. CASE d # drive
    BY <1>2, <2>1, <2>3 DEF Use, Found, Crosses
  <2> QED BY <2>2, <2>3
<1>3. ASSUME NEW d, Unidentified(d)
      PROVE  (d \notin attached /\ readFault' = readFault) \/ readFault' = TRUE
  BY <1>3 DEF Unidentified
<1>4. CASE ProbeSlave
  <2>1. CASE Use("slave")
    BY <1>1, <1>2, <1>4, <2>1 DEF ProbeSlave
  <2>2. CASE ~Use("slave")
    BY <1>1, <1>3, <1>4, <2>2 DEF ProbeSlave, GoesOn, Stays, Goto
  <2> QED BY <2>1, <2>2
<1>5. CASE ProbeMaster
  <2>1. CASE Use("master")
    BY <1>1, <1>2, <1>5, <2>1 DEF ProbeMaster
  <2>2. CASE ~Use("master")
    <3>1. ~result'.ok /\ call' = NoCall
      BY <1>5, <2>2 DEF ProbeMaster, Fail, Return, NoResult
    <3> QED BY <1>1, <1>3, <1>5, <2>2, <3>1 DEF ProbeMaster, NoneFound, Stays
  <2> QED BY <2>1, <2>2
<1> QED BY <1>4, <1>5

LEMMA ProbeKeeps ==
  Storage /\ (ProbeSlave \/ ProbeMaster)
    => Storage' /\ (Stays \/ Swaps) /\ (readFault => readFault')
<1> SUFFICES ASSUME Storage, ProbeSlave \/ ProbeMaster
             PROVE  Storage' /\ (Stays \/ Swaps) /\ (readFault => readFault')
  OBVIOUS
<1>1. Types /\ DiskInv /\ AwayInv /\ Shaped(call) /\ DOMAIN call = Fields
  BY DEF Storage, FsInv, Types, Shaped
<1>2. UNCHANGED <<attached, kind, sb, table, saves, acked>> /\ (Stays \/ Crosses)
  BY ProbeIs DEF Found, GoesOn, NoneFound
<1>3. (readFault => readFault') /\ readFault' \in BOOLEAN
  BY <1>1, ProbeIs DEF Types, Found, GoesOn, NoneFound
<1>4. drive' \in Drives /\ (~readFault' => drive' = Preferred)
  <2>1. CASE Stays
    BY <1>1, <1>3, <2>1 DEF AwayInv, Stays
  <2>2. CASE Crosses
    <3>1. ~Stays
      BY <2>2 DEF Stays, Crosses
    <3>2. CASE Found("slave")
      BY <1>1, <3>2 DEF Found, AwayInv, Preferred
    <3>3. CASE call.pc = "probeMaster" /\ Found("master")
      BY <1>1, <3>3 DEF Found, AwayInv, Preferred
    <3> QED BY <3>1, <3>2, <3>3, ProbeIs DEF GoesOn, NoneFound
  <2> QED BY <1>2, <2>1, <2>2
<1>5. Stays \/ Swaps
  BY <1>2, <1>4 DEF Swaps, Crosses
<1>6. /\ Shaped(call') /\ call'.pc \in Reading /\ (call'.pc \in Mounting => present')
      /\ call'.pc = "probeMaster" => readFault' \/ "slave" \notin attached
      /\ present' \in BOOLEAN
  <2>1. ASSUME NEW pc \in {"fat", "probeMaster"}, call' = [call EXCEPT !.pc = pc, !.i = 0]
        PROVE  Shaped(call') /\ call'.pc = pc
    <3>1. /\ DOMAIN call' = Fields /\ call'.pc = pc /\ call'.lost = call.lost
          /\ call'.cmd = call.cmd /\ call'.name = call.name /\ call'.save = call.save
          /\ call'.len = call.len
      BY <1>1, <2>1 DEF Fields
    <3> QED BY <1>1, <3>1 DEF Shaped, Phases, Reading
  <2>2. CASE present' = TRUE /\ call' = [call EXCEPT !.pc = "fat", !.i = 0]
    BY <2>1, <2>2 DEF Reading
  <2>3. CASE /\ UNCHANGED present /\ call' = [call EXCEPT !.pc = "probeMaster", !.i = 0]
             /\ readFault' = TRUE \/ "slave" \notin attached
    BY <1>1, <2>1, <2>3 DEF Reading, Mounting, Types
  <2>4. CASE present' = FALSE /\ call' = NoCall
    BY <2>4, NoCallIs DEF Reading, Mounting
  <2> QED BY <2>2, <2>3, <2>4, ProbeIs DEF Found, GoesOn, NoneFound
<1>7. Types'
  <2>1. Layout(disk') /\ exposed' \subseteq Names
    BY <1>1, <1>2 DEF Types, AwayInv, Stays, Crosses
  <2> QED BY <1>1, <1>2, <1>3, <1>6, <2>1 DEF Types
<1>8. DiskInv'
  <2>1. CASE Stays
    BY <1>1, <1>2, <1>3, <2>1, DiskKept DEF Stays
  <2>2. CASE Crosses
    <3>1. readFault'
      BY <1>1, <1>3, <1>4, <2>2 DEF AwayInv, Crosses
    <3> QED BY <1>1, <2>2, <3>1 DEF DiskInv, AwayInv, Crosses
  <2> QED BY <1>2, <2>1, <2>2
<1>9. AwayInv'
  <2>1. Preferred' = Preferred
    BY <1>2 DEF Preferred
  <2>2. Layout(away.disk)' /\ Sound(away.disk, away.exposed)' /\ away'.exposed \subseteq Names
        /\ switched' \in BOOLEAN
    <3>1. CASE Stays
      BY <1>1, <3>1 DEF AwayInv, Stays
    <3>2. CASE Crosses
      <4>1. away'.disk = disk /\ away'.exposed = exposed /\ switched' = TRUE
        BY <3>2 DEF Crosses
      <4> QED BY <1>1, <4>1 DEF Types, DiskInv
    <3> QED BY <1>2, <3>1, <3>2
  <2> QED BY <1>1, <1>2, <1>4, <1>6, <2>1, <2>2 DEF AwayInv
<1>10. CallInv'
  BY <1>6, Elsewhere
<1> QED BY <1>3, <1>5, <1>7, <1>8, <1>9, <1>10 DEF FsInv, Storage

\* The steps that look for a FAT32 volume.
LEMMA FatKeeps == FsInv /\ (MountFat \/ ScanRoot \/ NextRoot) => FsInv'
<1> SUFFICES ASSUME FsInv, MountFat \/ ScanRoot \/ NextRoot PROVE FsInv'
  OBVIOUS
<1>1. UNCHANGED <<present, sb, table, saves, acked, exposed>> /\ Types /\ DiskInv
      /\ Shaped(call) /\ call.pc \in Mounting
  BY DEF MountFat, ScanRoot, NextRoot, FsInv, Types, Mounting
<1>2. PICK lba, o : Read(lba, o)
  BY DEF MountFat, ScanRoot, NextRoot
<1>3. disk' = disk /\ (readFault => readFault') /\ readFault' \in BOOLEAN
  BY <1>1, <1>2, ReadIs
<1>4. /\ DOMAIN call' = DOMAIN call /\ call'.lost = call.lost /\ call'.cmd = call.cmd
      /\ call'.name = call.name /\ call'.save = call.save /\ call'.len = call.len
      /\ \/ call'.pc \in {"root", "rootNext"} /\ kind' = kind
         \/ call'.pc = "super" /\ kind' = "sfs"
         \/ call'.pc = "mounted" /\ kind' = "fat"
  <2>0. DOMAIN call = Fields
    BY <1>1 DEF Shaped
  <2>1. CASE MountFat
    BY <2>0, <2>1 DEF MountFat, NotFat, Goto, Fields
  <2>2. CASE ScanRoot
    BY <2>0, <2>2 DEF ScanRoot, NotFat, FatMounted, Goto, Fields
  <2>3. CASE NextRoot
    BY <2>0, <2>3 DEF NextRoot, NotFat, FatMounted, Goto, Fields
  <2> QED BY <2>1, <2>2, <2>3
<1>5. Shaped(call') /\ (call'.pc \in Mounting => present)
  BY <1>1, <1>4 DEF Shaped, Phases, Reading, Types
<1>6. Types'
  <2>1. kind' \in {"none", "sfs", "fat"}
    BY <1>1, <1>4 DEF Types
  <2> QED BY <1>1, <1>3, <1>5, <2>1 DEF Types
<1>7. DiskInv'
  BY <1>1, <1>3, DiskKept
<1>8. CallInv'
  BY <1>4, Elsewhere DEF Reading
<1> QED BY <1>6, <1>7, <1>8 DEF FsInv

\* The disk may be formatted when it was never used, or after a failed read.
LEMMA BeginFormatKeeps ==
  ASSUME FsInv, BeginFormat, Untouched, UNCHANGED <<present, kind>>,
         readFault' \/ ~Good(disk)
  PROVE  FsInv'
<1>1. /\ sb' = DataLba /\ table' = EmptyTable
      /\ call' = [call EXCEPT !.pc = "formatSuper", !.i = 0]
  BY DEF BeginFormat, Goto
<1>2. Types /\ DiskInv /\ Shaped(call) /\ DOMAIN call = Fields
  BY DEF FsInv, Types, Shaped
<1>3. /\ DOMAIN call' = Fields /\ call'.pc = "formatSuper" /\ call'.lost = call.lost
      /\ call'.cmd = call.cmd /\ call'.name = call.name /\ call'.save = call.save
      /\ call'.len = call.len
  BY <1>1, <1>2 DEF Fields
<1>4. Types'
  <2>1. Shaped(call') /\ call'.pc \notin Mounting
    BY <1>2, <1>3 DEF Shaped, Phases, Mounting
  <2>2. EmptyTable \in [Slots -> Entry]
    BY NamesAre DEF EmptyTable
  <2>3. DataLba \in DataLba .. DiskSectors
    BY Sizes
  <2> QED BY <1>1, <1>2, <2>1, <2>2, <2>3 DEF Types, Untouched
<1>5. DiskInv'
  BY <1>2, DiskKept DEF Untouched
<1>6. ~readFault' => OnlyFirst(disk') /\ \A n \in Names : acked'[n] = NoContent
  BY <1>2 DEF DiskInv, Strict, Untouched
<1>7. CallInv'
  BY <1>1, <1>3, <1>6 DEF CallInv, Loading, Formatting, Ready, SaveInv, DataInv, StoreInv, Saving
<1> QED BY <1>4, <1>5, <1>7 DEF FsInv

\* A call that returns, or fails.
LEMMA ReturnKeeps ==
  ASSUME FsInv, Untouched, UNCHANGED <<present, kind, sb, table>>, call' = NoCall
  PROVE  FsInv'
<1>1. Types'
  BY NoCallIs DEF FsInv, Types, Untouched, Mounting
<1>2. DiskInv'
  BY DiskKept DEF Untouched, FsInv
<1>3. CallInv'
  BY NoCallIs, Elsewhere DEF Reading
<1> QED BY <1>1, <1>2, <1>3 DEF FsInv

LEMMA LoadSuperKeeps == FsInv /\ LoadSuper => FsInv'
<1> SUFFICES ASSUME FsInv, LoadSuper PROVE FsInv'
  OBVIOUS
<1>0. call.pc = "super" /\ Types /\ DiskInv /\ Shaped(call) /\ DOMAIN call = Fields /\ present
  BY DEF LoadSuper, FsInv, Types, Shaped, Mounting
<1>1. PICK o \in Outcomes :
        /\ Read(0, o)
        /\ IF o # "ok" THEN Fail /\ UNCHANGED <<sb, table>>
           ELSE IF SuperIn(disk[0]) = BadSB THEN BeginFormat
           ELSE sb' = SuperIn(disk[0]) /\ Goto("table", 0) /\ UNCHANGED table
  BY DEF LoadSuper
<1>2. Untouched /\ UNCHANGED <<present, kind>>
  BY <1>0, <1>1, ReadIs DEF LoadSuper, Untouched
<1>3. CASE o # "ok"
  <2>1. call' = NoCall /\ UNCHANGED <<sb, table>>
    BY <1>1, <1>3 DEF Fail, Return
  <2> QED BY <1>2, <2>1, ReturnKeeps
<1>4. CASE o = "ok" /\ ~Good(disk)
  BY <1>1, <1>2, <1>4, BeginFormatKeeps DEF Good
<1>5. CASE o = "ok" /\ Good(disk)
  <2>1. /\ sb' = SuperIn(disk[0]) /\ sb' # BadSB /\ UNCHANGED table
        /\ call' = [call EXCEPT !.pc = "table", !.i = 0]
    BY <1>1, <1>5 DEF Good, Goto
  <2>2. /\ DOMAIN call' = Fields /\ call'.pc = "table" /\ call'.i = 0 /\ call'.lost = call.lost
        /\ call'.cmd = call.cmd /\ call'.name = call.name /\ call'.save = call.save
        /\ call'.len = call.len
    BY <1>0, <2>1 DEF Fields
  <2>3. Shaped(call')
    BY <1>0, <2>2 DEF Shaped, Phases
  <2>4. sb' \in DataLba .. DiskSectors
    BY <1>0, <2>1 DEF Types, Layout, SuperIn
  <2>5. Types'
    BY <1>0, <1>2, <2>1, <2>3, <2>4 DEF Types, Untouched
  <2>6. DiskInv'
    BY <1>0, <1>2, DiskKept DEF Untouched
  <2>7. Loading'
    <3>1. 0 \in 0 .. LastLoaded
      <4>1. 0 \in Slots
        BY Sizes DEF Slots
      <4> QED BY <4>1, SectorOf, Sizes
    <3>2. Agree(disk', table', 0)
      BY SectorOf, Sizes DEF Agree
    <3> QED BY <1>2, <2>1, <2>2, <3>1, <3>2 DEF Loading, Untouched
  <2>8. CallInv'
    BY <2>2, <2>7 DEF CallInv, Formatting, Ready, SaveInv, DataInv, StoreInv, Saving
  <2> QED BY <2>5, <2>6, <2>8 DEF FsInv
<1> QED BY <1>3, <1>4, <1>5

LEMMA LoadTableKeeps == FsInv /\ LoadTable => FsInv'
<1> SUFFICES ASSUME FsInv, LoadTable PROVE FsInv'
  OBVIOUS
<1>0. /\ call.pc = "table" /\ Types /\ DiskInv /\ Shaped(call) /\ DOMAIN call = Fields /\ present
      /\ sb = SuperIn(disk[0]) /\ sb # BadSB /\ call.i \in 0 .. LastLoaded
      /\ Agree(disk, table, call.i)
  BY DEF LoadTable, FsInv, Types, Shaped, Mounting, CallInv, Loading
<1>s. LastLoaded \in 0 .. TableSectors - 1
  <2>1. 0 \in Slots
    BY Sizes DEF Slots
  <2> QED BY <2>1, SectorOf
<1>1. PICK o \in Outcomes :
        /\ Read(TableLba + call.i, o)
        /\ IF o # "ok" THEN BeginFormat
           ELSE /\ table' = [j \in Slots |-> IF j \in InTableSector(call.i)
                                              THEN DiskEntry(disk, j) ELSE table[j]]
                /\ IF call.i = LastLoaded THEN Goto("mounted", 0) ELSE Goto("table", call.i + 1)
                /\ UNCHANGED sb
  BY DEF LoadTable
<1>2. Untouched /\ UNCHANGED <<present, kind>>
  BY <1>0, <1>1, ReadIs DEF LoadTable, Untouched
<1>3. CASE o # "ok"
  <2>1. TableLba + call.i \in Sectors
    BY <1>0, <1>s, Sizes DEF Sectors
  <2>2. readFault'
    BY <1>0, <1>1, <1>3, <2>1, ReadIs
  <2> QED BY <1>1, <1>2, <1>3, <2>2, BeginFormatKeeps
<1>4. CASE o = "ok"
  <2>1. /\ table' = [j \in Slots |-> IF j \in InTableSector(call.i)
                                      THEN DiskEntry(disk, j) ELSE table[j]]
        /\ sb' = sb
        /\ call' = IF call.i = LastLoaded THEN [call EXCEPT !.pc = "mounted", !.i = 0]
                   ELSE [call EXCEPT !.pc = "table", !.i = call.i + 1]
    BY <1>1, <1>4 DEF Goto
  <2>2. /\ DOMAIN call' = Fields /\ call'.lost = call.lost
        /\ call'.cmd = call.cmd /\ call'.name = call.name /\ call'.save = call.save
        /\ call'.len = call.len
        /\ call'.pc = IF call.i = LastLoaded THEN "mounted" ELSE "table"
        /\ call'.i = IF call.i = LastLoaded THEN 0 ELSE call.i + 1
    BY <1>0, <2>1 DEF Fields
  <2>3. Shaped(call')
    BY <1>0, <2>2 DEF Shaped, Phases
  <2>4. table' \in [Slots -> Entry]
    <3>1. \A j \in Slots : DiskEntry(disk, j) \in Entry /\ table[j] \in Entry
      BY <1>0, EntryTyped DEF Types
    <3> QED BY <2>1, <3>1
  <2>5. Types'
    BY <1>0, <1>2, <2>1, <2>3, <2>4 DEF Types, Untouched
  <2>6. DiskInv'
    BY <1>0, <1>2, DiskKept DEF Untouched
  <2>7. ASSUME NEW j \in Slots, j \div PerSector <= call.i
        PROVE  table'[j] = DiskEntry(disk, j)
    <3>1. CASE j \div PerSector = call.i
      BY <2>1, <3>1 DEF InTableSector
    <3>2. CASE j \div PerSector # call.i
      <4>1. j \div PerSector < call.i
        BY <1>0, <1>s, <2>7, <3>2, SectorOf
      <4>2. table[j] = DiskEntry(disk, j)
        BY <1>0, <4>1 DEF Agree
      <4> QED BY <2>1, <4>2
    <3> QED BY <3>1, <3>2
  <2>8. CallInv'
    <3>1. CASE call.i = LastLoaded
      <4>1. \A j \in Slots : table'[j] = DiskEntry(disk, j)
        BY <2>7, <3>1, SectorOf
      <4>2. Below(disk, exposed, sb)
        BY <1>0 DEF DiskInv, Sound, Good
      <4>3. Ready'
        BY <1>0, <1>2, <2>1, <2>2, <3>1, <4>1, <4>2 DEF Ready, Mirrors, Exact, Untouched, Good
      <4> QED BY <2>2, <3>1, <4>3
           DEF CallInv, Loading, Formatting, SaveInv, DataInv, StoreInv, Saving
    <3>2. CASE call.i # LastLoaded
      <4>1. call'.i \in 0 .. LastLoaded
        BY <1>0, <1>s, <2>2, <3>2
      <4>2. Agree(disk, table', call'.i)
        <5>1. \A j \in Slots : j \div PerSector < call.i + 1 => j \div PerSector <= call.i
          BY <1>0, <1>s, SectorOf
        <5> QED BY <2>2, <2>7, <3>2, <5>1 DEF Agree
      <4>3. Loading'
        BY <1>0, <1>2, <2>1, <4>1, <4>2 DEF Loading, Untouched
      <4> QED BY <2>2, <3>2, <4>3
           DEF CallInv, Formatting, Ready, SaveInv, DataInv, StoreInv, Saving
    <3> QED BY <3>1, <3>2
  <2> QED BY <2>5, <2>6, <2>8 DEF FsInv
<1> QED BY <1>3, <1>4

LEMMA MountedKeeps == FsInv /\ Mounted => FsInv'
<1> SUFFICES ASSUME FsInv, Mounted PROVE FsInv'
  OBVIOUS
<1>0. /\ call.pc = "mounted" /\ Types /\ DiskInv /\ CallInv /\ Shaped(call) /\ DOMAIN call = Fields
      /\ Untouched /\ UNCHANGED memory
  BY DEF Mounted, FsInv, Types, Shaped, Untouched, history
<1>1. CASE call.cmd = "mount"
  <2>1. call' = NoCall
    BY <1>1 DEF Mounted, Return
  <2> QED BY <1>0, <2>1, ReturnKeeps DEF memory
<1>2. CASE call.cmd # "mount"
  <2>1. call' = [call EXCEPT !.pc = "ready", !.i = 0]
    BY <1>2 DEF Mounted, Goto
  <2>2. /\ DOMAIN call' = Fields /\ call'.lost = call.lost /\ call'.pc = "ready" /\ call'.i = 0
        /\ call'.cmd = call.cmd /\ call'.name = call.name /\ call'.save = call.save
        /\ call'.len = call.len
    BY <1>0, <2>1 DEF Fields
  <2>3. Types'
    <3>1. Shaped(call') /\ call'.pc \notin Mounting
      BY <1>0, <2>2 DEF Shaped, Phases, Mounting
    <3> QED BY <1>0, <3>1 DEF Types, Untouched, memory
  <2>4. DiskInv'
    BY <1>0, DiskKept DEF Untouched
  <2>5. Ready'
    BY <1>0, <2>2 DEF CallInv, Ready, Mounted, memory, history
  <2>6. CallInv'
    BY <2>2, <2>5 DEF CallInv, Loading, Formatting, SaveInv, DataInv, StoreInv, Saving
  <2> QED BY <2>3, <2>4, <2>6 DEF FsInv
<1> QED BY <1>1, <1>2

\* The slot a save takes: the first that has its name, or else the first unused.
LEMMA SaveBeginKeeps == FsInv /\ SaveBegin => FsInv'
<1> SUFFICES ASSUME FsInv, SaveBegin PROVE FsInv'
  OBVIOUS
<1> DEFINE n == call.name
           slot == Min(Target(n))
<1>0. /\ call.pc = "ready" /\ call.cmd = "save" /\ Types /\ DiskInv /\ Ready
      /\ Shaped(call) /\ DOMAIN call = Fields /\ Untouched /\ UNCHANGED memory
      /\ n \in Names /\ call.len \in 0 .. MaxLen
  BY DEF SaveBegin, FsInv, CallInv, Types, Shaped, Untouched, history
<1>1. CASE kind = "fat" \/ Target(n) = {}
  <2>1. call' = NoCall
    BY <1>1 DEF SaveBegin, Fail, Return
  <2> QED BY <1>0, <2>1, ReturnKeeps DEF memory
<1>2. CASE ~(kind = "fat" \/ Target(n) = {})
  <2>1. call' = [call EXCEPT !.pc = "data", !.slot = slot, !.start = sb]
    BY <1>2 DEF SaveBegin
  <2>2. /\ call.i = 0 /\ sb # BadSB /\ Below(disk, exposed, sb)
        /\ \A j \in Slots : Mirrors(disk, exposed, table[j], j)
        /\ ~readFault => \/ Good(disk) /\ \A j \in Slots : Exact(disk, table, j)
                         \/ table = EmptyTable /\ OnlyFirst(disk)
    BY <1>0, <1>2 DEF Ready
  <2>3. slot \in Target(n) /\ slot \in Slots /\ \A j \in Target(n) : slot <= j
    <3>1. Target(n) \in SUBSET Nat /\ Target(n) \subseteq Slots
      BY Sizes DEF Target, Find, Unused
    <3> QED BY <1>2, <3>1, Least
  <2>c. /\ DOMAIN call' = Fields /\ call'.lost = call.lost /\ call'.pc = "data"
        /\ call'.cmd = call.cmd /\ call'.name = n /\ call'.save = call.save
        /\ call'.len = call.len /\ call'.slot = slot /\ call'.start = sb /\ call'.i = 0
    BY <1>0, <2>1, <2>2 DEF Fields
  <2>u. disk' = disk /\ exposed' = exposed /\ table' = table /\ readFault' = readFault /\ sb' = sb
    BY DEF SaveBegin, memory, history
  <2> HIDE DEF n, slot
  <2>4. Types'
    <3>1. Shaped(call') /\ call'.pc \notin Mounting
      BY <1>0, <2>c DEF Shaped, Phases, Saving, Mounting, n
    <3> QED BY <1>0, <3>1 DEF Types, Untouched, memory
  <2>5. DiskInv'
    BY <1>0, DiskKept DEF Untouched
  <2>6. ASSUME NEW j \in Slots, table[j].used
        PROVE  table[j] = DiskEntry(disk, j)
    BY <2>2, <2>6 DEF Mirrors
  <2>7. Named(disk, slot) => DiskEntry(disk, slot).name \in exposed \cup {n}
    <3>1. CASE Find(n) # {}
      <4>1. table[slot].used /\ table[slot].name = n
        BY <2>3, <3>1 DEF Target, Find
      <4> QED BY <2>3, <2>6, <4>1
    <3>2. CASE Find(n) = {}
      <4>1. ~table[slot].used
        BY <2>3, <3>2 DEF Target, Unused
      <4>2. Mirrors(disk, exposed, table[slot], slot)
        BY <2>2, <2>3
      <4> QED BY <4>1, <4>2 DEF Mirrors, Named
    <3> QED BY <3>1, <3>2
  <2>8. ASSUME NEW j \in Slots \ {slot}, table[j].used, table[j].name = n
        PROVE  j > slot /\ readFault
    <3>1. j \in Find(n)
      BY <2>8 DEF Find
    <3>2. slot \in Find(n) /\ slot <= j
      BY <2>3, <3>1 DEF Target
    <3>3. j > slot
      BY <2>3, <3>2, Sizes
    <3>4. j \in EntriesOf(disk, n) /\ slot \in EntriesOf(disk, n)
      BY <2>3, <2>6, <3>1, <3>2 DEF Find, EntriesOf
    <3>5. ~readFault => j = slot
      BY <1>0, <3>4 DEF DiskInv, Strict
    <3>6. readFault \in BOOLEAN
      BY <1>0 DEF Types
    <3> QED BY <3>3, <3>5, <3>6
  <2>e. table = EmptyTable => slot = 0
    <3> SUFFICES ASSUME table = EmptyTable PROVE slot = 0
      OBVIOUS
    <3>1. \A k \in Slots : ~table[k].used
      BY NamesAre DEF EmptyTable
    <3>2. Target(n) = Slots
      BY <3>1 DEF Target, Find, Unused
    <3>3. 0 \in Slots /\ slot <= 0 /\ slot \in Nat
      BY <2>3, <3>2, Sizes DEF Slots
    <3> QED BY <3>3
  <2>9. ASSUME NEW j \in Slots \ {slot}, ~readFault
        PROVE  Exact(disk, table, j)
    <3>1. CASE table = EmptyTable /\ OnlyFirst(disk)
      <4>1. j # 0
        BY <2>e, <3>1
      <4> QED BY <3>1, <4>1 DEF OnlyFirst, Exact
    <3> QED BY <2>2, <2>9, <3>1
  <2>10. sb \in DataLba .. DiskSectors
    BY <1>0, <2>2 DEF Types
  <2>11. SaveInv'
    <3>1. \A j \in Slots \ {slot} :
            /\ Mirrors(disk, exposed, table[j], j)
            /\ table[j].used /\ table[j].name = n => j > slot /\ readFault
            /\ ~readFault => Exact(disk, table, j)
      BY <2>2, <2>8, <2>9
    <3>2. ~readFault => Good(disk) \/ slot = 0
      BY <2>2, <2>e
    <3> QED BY <1>0, <2>2, <2>3, <2>c, <2>u, <2>7, <2>10, <3>1, <3>2 DEF SaveInv
  <2>12. DataInv'
    <3>1. 0 \in 0 .. SectorsFor(call.len) - 1
      BY <1>0, Sizes DEF SectorsFor
    <3>2. Min({0, call.len}) = 0
      <4>1. {0, call.len} \in SUBSET Nat
        BY <1>0, Sizes
      <4>2. Min({0, call.len}) \in Nat /\ Min({0, call.len}) <= 0
        BY <4>1, Least
      <4> QED BY <4>2
    <3> QED BY <2>c, <2>u, <3>1, <3>2 DEF DataInv, Unwritten
  <2>13. CallInv'
    BY <2>c, <2>11, <2>12 DEF CallInv, Loading, Formatting, Ready, StoreInv
  <2> QED BY <2>4, <2>5, <2>13 DEF FsInv
<1> QED BY <1>1, <1>2

\* Reading a file, from either kind of disk.
LEMMA ReadersKeep ==
  FsInv /\ (ReadBegin \/ ReadFat \/ NextCluster \/ ReadData) => FsInv'
<1> SUFFICES ASSUME FsInv, ReadBegin \/ ReadFat \/ NextCluster \/ ReadData PROVE FsInv'
  OBVIOUS
<1>0. Types /\ Shaped(call) /\ DOMAIN call = Fields
  BY DEF FsInv, Types, Shaped
<1>1. Untouched /\ UNCHANGED memory
  <2>1. CASE ReadBegin
    BY <1>0, <2>1 DEF ReadBegin, Untouched, history, Types
  <2>2. CASE ReadFat \/ NextCluster \/ ReadData
    <3>1. PICK lba, o : Read(lba, o)
      BY <2>2 DEF ReadFat, NextCluster, ReadData
    <3>2. UNCHANGED <<memory, saves, acked, exposed>>
      BY <2>2 DEF ReadFat, NextCluster, ReadData
    <3> QED BY <1>0, <3>1, <3>2, ReadIs DEF Untouched
  <2> QED BY <2>1, <2>2
<1>2. \/ call' = NoCall
      \/ /\ DOMAIN call' = DOMAIN call /\ call'.lost = call.lost /\ call'.cmd = call.cmd
         /\ call'.name = call.name /\ call'.save = call.save
         /\ call'.cmd = "save" => call'.len = call.len
         /\ call'.pc \in {"read", "readFat", "readNext"}
  <2>1. CASE ReadBegin
    <3>1. \/ call' = NoCall
          \/ \E m, start, size, pc :
               /\ call' = [call EXCEPT !.pc = pc, !.start = start, !.len = m, !.size = size,
                                       !.left = ChainClusters - 1]
               /\ pc \in {"read", "readFat"}
      <4>1. \/ Fail
            \/ \E size, start, pc : ReadFile(size, start, pc) /\ pc \in {"read", "readFat"}
        <5>1. CASE kind = "fat" /\ FatFind(fat, call.name) # {}
          <6> DEFINE f == fat.files[Min(FatFind(fat, call.name))]
          <6>1. ReadFile(f.size, f.cluster, "readFat")
            BY <2>1, <5>1 DEF ReadBegin
          <6> HIDE DEF f
          <6> QED BY Zenon, <6>1
        <5>2. CASE kind = "sfs" /\ Find(call.name) # {}
          <6> DEFINE e == table[Min(Find(call.name))]
          <6>1. ReadFile(e.size, e.start, "read")
            BY <2>1, <5>2 DEF ReadBegin
          <6> HIDE DEF e
          <6> QED BY Zenon, <6>1
        <5> QED BY <2>1, <5>1, <5>2 DEF ReadBegin
      <4>2. Fail => call' = NoCall
        BY DEF Fail, Return
      <4>3. CASE ~Fail
        <5>1. PICK size, start, pc :
                ReadFile(size, start, pc) /\ pc \in {"read", "readFat"}
          BY Zenon, <4>1, <4>3
        <5>2. \/ call' = NoCall
              \/ \E m : call' = [call EXCEPT !.pc = pc, !.start = start, !.len = m,
                                             !.size = size, !.left = ChainClusters - 1]
          BY <5>1 DEF ReadFile, Fail, Return, ReturnFile
        <5> QED BY Zenon, <5>1, <5>2
      <4> QED BY Zenon, <4>2, <4>3
    <3>2. call.cmd # "save"
      BY <2>1 DEF ReadBegin
    <3> QED BY <1>0, <3>1, <3>2 DEF Fields
  <2>2. CASE ReadFat
    <3>1. \/ call' = NoCall
          \/ \E data :
               call' = [call EXCEPT !.data = data,
                                    !.i = IF @ + 1 < fat.spc THEN @ + 1 ELSE 0,
                                    !.pc = IF call.i + 1 < fat.spc THEN @ ELSE "readNext"]
      BY <2>2 DEF ReadFat, Fail, Return, ReturnFile
    <3>2. call.pc = "readFat"
      BY <2>2 DEF ReadFat
    <3> QED BY <1>0, <3>1, <3>2 DEF Fields
  <2>3. CASE NextCluster
    <3>1. \/ call' = NoCall
          \/ \E next : call' = [call EXCEPT !.pc = "readFat", !.start = next, !.left = @ - 1]
      BY <2>3 DEF NextCluster, Fail, Return, ReturnFile
    <3> QED BY <1>0, <3>1 DEF Fields
  <2>4. CASE ReadData
    <3>1. \/ call' = NoCall
          \/ \E data : call' = [call EXCEPT !.i = @ + 1, !.data = data]
      BY <2>4 DEF ReadData, Fail, Return, ReturnFile
    <3>2. call.pc = "read"
      BY <2>4 DEF ReadData
    <3> QED BY <1>0, <3>1, <3>2 DEF Fields
  <2> QED BY <2>1, <2>2, <2>3, <2>4
<1>3. CASE call' = NoCall
  BY <1>1, <1>3, ReturnKeeps DEF memory
<1>4. CASE call' # NoCall
  <2>1. Shaped(call') /\ call'.pc \in Reading /\ call'.pc \notin Mounting
    BY <1>0, <1>2, <1>4 DEF Shaped, Phases, Reading, Mounting
  <2>2. Types'
    BY <1>0, <1>1, <2>1 DEF Types, Untouched, memory
  <2>3. DiskInv'
    BY <1>1, DiskKept DEF Untouched, FsInv
  <2> QED BY <2>1, <2>2, <2>3, Elsewhere DEF FsInv
<1> QED BY <1>3, <1>4

\* What is on the disk holds without what was in memory.
LEMMA PowerFailureKeeps == FsInv /\ PowerFailure => FsInv'
<1> SUFFICES ASSUME FsInv, PowerFailure PROVE FsInv'
  OBVIOUS
<1>1. /\ UNCHANGED <<disk, saves, readFault, acked, exposed>> /\ call' = NoCall
      /\ present' = FALSE /\ kind' = "none" /\ sb' = BadSB /\ table' = EmptyTable
  BY DEF PowerFailure, history
<1>2. EmptyTable \in [Slots -> Entry]
  BY NamesAre DEF EmptyTable
<1>3. Types'
  BY <1>1, <1>2, NoCallIs DEF FsInv, Types, Mounting
<1>4. DiskInv'
  BY <1>1, DiskKept DEF FsInv
<1>5. CallInv'
  BY <1>1, NoCallIs, Elsewhere DEF Reading
<1> QED BY <1>3, <1>4, <1>5 DEF FsInv

-----------------------------------------------------------------------------
(* Steps that write a sector. *)

\* What a step does to the names: it may put the one being saved in doubt, and
\* leaves the others alone; it completes a save; it puts all of them in doubt; it
\* erases some.
Spares ==
  /\ exposed \subseteq exposed' /\ exposed' \subseteq exposed \cup {call.name}
  /\ exposed' # exposed => call.name \in Names
  /\ \A n \in Names \ exposed' : File(disk', n) = File(disk, n)

Settles ==
  /\ call.name \in Names \cap exposed /\ exposed' = exposed \ {call.name}
  /\ File(disk', call.name) \in SavesOf(call.name)
  /\ \A n \in Names \ exposed : File(disk', n) = File(disk, n)

Doubts == Listed(disk') = Listed(disk) /\ exposed' = exposed \cup Listed(disk)

Forgets ==
  /\ Listed(disk') \subseteq Listed(disk) /\ Listed(disk) \subseteq exposed
  /\ exposed' = exposed \ (Listed(disk) \ Listed(disk'))

LEMMA WriteIs ==
  ASSUME NEW lba, NEW content, NEW o, Write(lba, content, o)
  PROVE  /\ UNCHANGED readFault /\ o \in Outcomes
         /\ o = "ok" => disk' = [disk EXCEPT ![lba] = content]
         /\ o # "ok" => disk' = disk
         /\ o # "refused" => lba \in Sectors
BY DEF Write, WriteOutcome, Outcomes

\* Every region is where it is whichever sector is written.
LEMMA Regions ==
  /\ \A l \in TableLbas : l \in Sectors /\ l # 0
  /\ \A l \in DataLba .. DiskSectors - 1 : l \in Sectors /\ l # 0 /\ l \notin TableLbas
BY Sizes DEF Sectors, TableLbas

LEMMA SuperWritten ==
  ASSUME NEW d, Layout(d), NEW next \in DataLba .. DiskSectors, NEW e,
         e = [d EXCEPT ![0] = SuperSector(next)]
  PROVE  /\ Layout(e) /\ Good(e) /\ SuperIn(e[0]) = next
         /\ \A l \in TableLbas \cup (DataLba .. DiskSectors - 1) : e[l] = d[l]
<1>1. DOMAIN d = Sectors
  BY DEF Layout
<1>2. e[0] = SuperSector(next) /\ DOMAIN e = Sectors
  BY <1>1, Sizes
<1>3. \A l \in TableLbas \cup (DataLba .. DiskSectors - 1) : e[l] = d[l]
  BY <1>1, Regions
<1>4. SuperIn(e[0]) = next
  BY <1>2 DEF SuperIn, SuperSector
<1>5. Good(e)
  BY <1>4, Sizes DEF Good
<1>6. Layout(e)
  BY <1>2, <1>3 DEF Layout, SuperSector
<1> QED BY <1>3, <1>4, <1>5, <1>6

LEMMA TableWritten ==
  ASSUME NEW d, Layout(d), NEW t \in [Slots -> Entry], NEW s \in 0 .. TableSectors - 1, NEW e,
         e = [d EXCEPT ![TableLba + s] = TableSector(t, s)]
  PROVE  /\ Layout(e) /\ e[0] = d[0] /\ \A l \in DataLba .. DiskSectors - 1 : e[l] = d[l]
         /\ \A j \in Slots : DiskEntry(e, j) = IF j \in InTableSector(s) THEN t[j]
                                               ELSE DiskEntry(d, j)
<1> DEFINE lba == TableLba + s
<1>1. DOMAIN d = Sectors
  BY DEF Layout
<1>2. lba \in TableLbas /\ lba - TableLba = s
  BY Sizes DEF TableLbas
<1> HIDE DEF lba
<1>3. e = [d EXCEPT ![lba] = TableSector(t, s)]
  BY DEF lba
<1>4. /\ DOMAIN e = Sectors /\ e[lba] = TableSector(t, s)
      /\ \A l \in Sectors \ {lba} : e[l] = d[l]
  BY <1>1, <1>2, <1>3, Regions
<1>5. e[0] = d[0] /\ \A l \in DataLba .. DiskSectors - 1 : e[l] = d[l]
  BY <1>2, <1>4, Regions, Sizes
<1>6. Layout(e)
  <2>1. ASSUME NEW l \in TableLbas, e[l].kind = "table"
        PROVE  e[l].ents \in [InTableSector(l - TableLba) -> Entry]
    <3>1. CASE l = lba
      <4>1. e[l].ents = [i \in InTableSector(s) |-> t[i]]
        BY <1>4, <3>1 DEF TableSector
      <4>2. InTableSector(s) \subseteq Slots
        BY DEF InTableSector
      <4>3. e[l].ents \in [InTableSector(s) -> Entry]
        BY <4>1, <4>2
      <4> QED BY <1>2, <3>1, <4>3
    <3>2. CASE l # lba
      BY <1>4, <2>1, <3>2, Regions DEF Layout
    <3> QED BY <3>1, <3>2
  <2> QED BY <1>4, <1>5, <2>1 DEF Layout
<1>7. ASSUME NEW j \in Slots
      PROVE  DiskEntry(e, j) = IF j \in InTableSector(s) THEN t[j] ELSE DiskEntry(d, j)
  <2>1. TableLba + (j \div PerSector) \in TableLbas
    BY SectorOf
  <2>2. CASE j \in InTableSector(s)
    <3>1. e[TableLba + (j \div PerSector)] = TableSector(t, s)
      BY <1>4, <2>2 DEF InTableSector, lba
    <3> QED BY <2>2, <3>1 DEF DiskEntry, EntryIn, TableSector
  <2>3. CASE j \notin InTableSector(s)
    <3>1. j \div PerSector # s /\ j \div PerSector \in Nat
      BY <2>3, SectorOf, Sizes DEF InTableSector
    <3>2. TableLba + (j \div PerSector) # lba
      BY <3>1, Sizes DEF lba
    <3>3. e[TableLba + (j \div PerSector)] = d[TableLba + (j \div PerSector)]
      BY <1>4, <2>1, <3>2, Regions
    <3> QED BY <2>3, <3>3 DEF DiskEntry
  <2> QED BY <2>2, <2>3
<1> QED BY <1>5, <1>6, <1>7

LEMMA DataWritten ==
  ASSUME NEW d, Layout(d), NEW lba \in Sectors, lba >= DataLba, NEW content,
         content.kind \in {"zero", "data"}, NEW e, e = [d EXCEPT ![lba] = content]
  PROVE  /\ Layout(e) /\ e[0] = d[0] /\ \A l \in TableLbas : e[l] = d[l]
         /\ e[lba] = content /\ \A l \in Sectors \ {lba} : e[l] = d[l]
<1>1. DOMAIN d = Sectors
  BY DEF Layout
<1>2. lba # 0 /\ lba \notin TableLbas
  BY Sizes DEF TableLbas
<1>3. DOMAIN e = Sectors /\ e[lba] = content /\ \A l \in Sectors \ {lba} : e[l] = d[l]
  BY <1>1
<1>4. e[0] = d[0] /\ \A l \in TableLbas : e[l] = d[l]
  BY <1>2, <1>3, Regions, Sizes
<1>5. Layout(e)
  BY <1>3, <1>4, Regions DEF Layout
<1> QED BY <1>3, <1>4, <1>5

\* A disk whose directory lists nothing but names in doubt promises nothing.
LEMMA NothingPromised ==
  ASSUME NEW d, NEW doubt, Listed(d) \subseteq doubt
  PROVE  /\ Sound(d, doubt) /\ \A limit : Below(d, doubt, limit)
         /\ \A n \in Names \ doubt : EntriesOf(d, n) = {} /\ File(d, n) = NoContent
<1>1. \A n \in Names \ doubt : EntriesOf(d, n) = {}
  BY DEF Listed
<1> QED BY <1>1 DEF Sound, Below, File

LEMMA FirstIsOnly ==
  ASSUME NEW d, OnlyFirst(d), NEW doubt, NEW a, \A n \in Names : a[n] = NoContent
  PROVE  Strict(d, doubt, a)
<1>1. \A n \in Names : \A i \in EntriesOf(d, n) : i = 0
  BY DEF EntriesOf, OnlyFirst, Named
<1> QED BY <1>1 DEF Strict

\* A step leaves the names alone that are not in doubt after it, when it changes
\* none of their entries and writes behind their files.
LEMMA Bystanders ==
  ASSUME NEW d, NEW e, NEW doubt, NEW after, NEW limit \in Nat,
         Layout(d), doubt \subseteq after, Sound(d, doubt), Below(d, doubt, limit),
         e[0] = d[0], \A l \in DataLba .. limit - 1 : e[l] = d[l],
         \A n \in Names \ after : \A i \in Slots :
           i \in EntriesOf(d, n) \/ i \in EntriesOf(e, n) => DiskEntry(e, i) = DiskEntry(d, i)
  PROVE  /\ Sound(e, after) /\ Below(e, after, limit)
         /\ \A n \in Names \ after : File(e, n) = File(d, n)
<1>1. Good(e) <=> Good(d)
  BY DEF Good
<1>2. ASSUME NEW n \in Names \ after
      PROVE  /\ n \in Names \ doubt /\ EntriesOf(e, n) = EntriesOf(d, n)
             /\ EntriesOf(d, n) # {} => EntryOf(e, n) = EntryOf(d, n)
             /\ File(e, n) = File(d, n)
  <2>1. n \in Names \ doubt
    OBVIOUS
  <2>2. \A i \in Slots : i \in EntriesOf(d, n) \/ i \in EntriesOf(e, n)
                           => DiskEntry(e, i) = DiskEntry(d, i)
    OBVIOUS
  <2>3. EntriesOf(e, n) = EntriesOf(d, n)
        /\ (EntriesOf(d, n) # {} => EntryOf(e, n) = EntryOf(d, n))
    BY <2>2, SameEntries
  <2>4. EntriesOf(d, n) # {} => Within(EntryOf(d, n), limit)
    BY <2>1 DEF Below
  <2>5. File(e, n) = File(d, n)
    BY <1>1, <2>2, <2>4, SameFile
  <2> QED BY <2>1, <2>3, <2>5
<1>3. Below(e, after, limit)
  BY <1>2 DEF Below
<1>4. Sound(e, after)
  <2>1. CASE Good(d)
    <3>1. Below(e, after, SuperIn(e[0]))
      BY <1>2, <2>1 DEF Below, Sound
    <3>2. \A n \in Names \ after : EntriesOf(e, n) # {} => File(e, n) \in SavesOf(n)
      BY <1>2, <2>1 DEF Sound
    <3> QED BY <1>1, <2>1, <3>1, <3>2 DEF Sound
  <2>2. CASE ~Good(d)
    <3>1. Listed(d) \subseteq doubt
      BY <2>2 DEF Sound
    <3>2. ASSUME NEW n \in Listed(e), n \notin after PROVE FALSE
      <4>1. n \in Names \ after /\ EntriesOf(e, n) # {}
        BY <3>2 DEF Listed
      <4>2. n \in Listed(d)
        BY <1>2, <4>1 DEF Listed
      <4> QED BY <3>1, <3>2, <4>2
    <3> QED BY <1>1, <2>2, <3>2 DEF Sound
  <2> QED BY <2>1, <2>2
<1> QED BY <1>2, <1>3, <1>4

\* The superblock says there is nothing behind it that is in the way.
LEMMA Reframed ==
  ASSUME NEW d, NEW doubt, Layout(d), Sound(d, doubt), NEW next \in DataLba .. DiskSectors,
         Below(d, doubt, next), NEW e, e = [d EXCEPT ![0] = SuperSector(next)]
  PROVE  /\ Layout(e) /\ Good(e) /\ Sound(e, doubt)
         /\ \A n : EntriesOf(e, n) = EntriesOf(d, n)
         /\ \A n : EntriesOf(d, n) # {} => EntryOf(e, n) = EntryOf(d, n)
         /\ \A i \in Slots : DiskEntry(e, i) = DiskEntry(d, i)
         /\ \A n \in Names \ doubt : File(e, n) = File(d, n)
         /\ \A l \in DataLba .. DiskSectors - 1 : e[l] = d[l]
<1>1. /\ Layout(e) /\ Good(e) /\ SuperIn(e[0]) = next
      /\ \A l \in TableLbas \cup (DataLba .. DiskSectors - 1) : e[l] = d[l]
  BY SuperWritten, ZenonT(30)
<1>2. \A i \in Slots : DiskEntry(e, i) = DiskEntry(d, i)
  BY <1>1, SameDirectory
<1>3. \A n : EntriesOf(e, n) = EntriesOf(d, n)
  BY <1>1, SameDirectory
<1>4. ASSUME NEW n, EntriesOf(d, n) # {} PROVE EntryOf(e, n) = EntryOf(d, n)
  <2>1. \A i \in Slots : i \in EntriesOf(d, n) \/ i \in EntriesOf(e, n)
                           => DiskEntry(e, i) = DiskEntry(d, i)
    BY <1>2
  <2> QED BY <1>4, <2>1, SameEntries
<1>5. ASSUME NEW n \in Names \ doubt PROVE File(e, n) = File(d, n)
  <2>1. CASE Good(d)
    <3>1. EntriesOf(d, n) # {} => Within(EntryOf(d, n), next)
      BY DEF Below
    <3>2. \A l \in DataLba .. next - 1 : e[l] = d[l]
      BY <1>1, Sizes
    <3>3. next \in Nat
      BY Sizes
    <3> QED BY <1>1, <1>2, <2>1, <3>1, <3>2, <3>3, SameFile
  <2>2. CASE ~Good(d)
    <3>1. EntriesOf(d, n) = {}
      BY <2>2 DEF Sound, Listed
    <3> QED BY <1>3, <3>1 DEF File
  <2> QED BY <2>1, <2>2
<1>6. Sound(e, doubt)
  <2>1. Below(e, doubt, next)
    BY <1>3, <1>4 DEF Below
  <2>2. ASSUME NEW n \in Names \ doubt, EntriesOf(e, n) # {} PROVE File(e, n) \in SavesOf(n)
    <3>1. EntriesOf(d, n) # {}
      BY <1>3, <2>2
    <3>2. Good(d)
      BY <3>1 DEF Sound, Listed
    <3> QED BY <1>5, <3>1, <3>2 DEF Sound
  <2> QED BY <1>1, <2>1, <2>2 DEF Sound
<1> QED BY <1>1, <1>2, <1>3, <1>4, <1>5, <1>6

LEMMA FormatSuperKeeps == FsInv /\ FormatSuper => FsInv' /\ (Spares \/ Doubts)
<1> SUFFICES ASSUME FsInv, FormatSuper PROVE FsInv' /\ (Spares \/ Doubts)
  OBVIOUS
<1>0. /\ call.pc = "formatSuper" /\ Types /\ DiskInv /\ Shaped(call) /\ DOMAIN call = Fields
      /\ sb = DataLba /\ table = EmptyTable
      /\ ~readFault => OnlyFirst(disk) /\ \A n \in Names : acked[n] = NoContent
  BY DEF FormatSuper, FsInv, Types, Shaped, CallInv, Formatting
<1>1. PICK o \in Outcomes :
        /\ Write(0, SuperSector(sb), o)
        /\ IF o = "refused" THEN Fail ELSE Goto("formatTable", 0)
        /\ exposed' = IF o = "refused" THEN exposed ELSE exposed \cup Listed(disk)
  BY DEF FormatSuper
<1>2. /\ UNCHANGED <<readFault, present, kind, sb, table, saves, acked>>
      /\ o = "ok" => disk' = [disk EXCEPT ![0] = SuperSector(DataLba)]
      /\ o # "ok" => disk' = disk
  BY <1>0, <1>1, WriteIs DEF FormatSuper, memory
<1>3. CASE o = "refused"
  <2>1. call' = NoCall /\ Untouched
    BY <1>0, <1>1, <1>2, <1>3 DEF Fail, Return, Untouched, Types
  <2> QED BY <1>2, <1>3, <2>1, ReturnKeeps DEF Spares, Untouched
<1>4. CASE o # "refused"
  <2>1. call' = [call EXCEPT !.pc = "formatTable", !.i = 0] /\ exposed' = exposed \cup Listed(disk)
    BY <1>1, <1>4 DEF Goto
  <2>2. /\ DOMAIN call' = Fields /\ call'.pc = "formatTable" /\ call'.i = 0
        /\ call'.lost = call.lost /\ call'.cmd = call.cmd /\ call'.name = call.name
        /\ call'.save = call.save /\ call'.len = call.len
    BY <1>0, <2>1 DEF Fields
  <2>3. Layout(disk') /\ Listed(disk') = Listed(disk) /\ (OnlyFirst(disk') <=> OnlyFirst(disk))
    <3>1. CASE o = "ok"
      <4>1. DataLba \in DataLba .. DiskSectors
        BY Sizes
      <4>2. Layout(disk') /\ \A l \in TableLbas : disk'[l] = disk[l]
        BY <1>0, <1>2, <3>1, <4>1, SuperWritten DEF Types
      <4> QED BY <4>2, SameDirectory
    <3>2. CASE o # "ok"
      BY <1>0, <1>2, <3>2 DEF Types
    <3> QED BY <3>1, <3>2
  <2>4. Listed(disk') \subseteq exposed'
    BY <2>1, <2>3
  <2>5. Types'
    <3>1. Shaped(call') /\ call'.pc \notin Mounting
      BY <1>0, <2>2 DEF Shaped, Phases, Mounting
    <3>2. exposed' \subseteq Names
      BY <1>0, <2>1 DEF Types, Listed
    <3> QED BY <1>0, <1>2, <2>3, <3>1, <3>2 DEF Types
  <2>6. ~readFault' => OnlyFirst(disk') /\ \A n \in Names : acked'[n] = NoContent
    BY <1>0, <1>2, <2>3
  <2>7. DiskInv'
    <3>1. Sound(disk', exposed')
      BY <2>4, NothingPromised
    <3>2. ~readFault' => Strict(disk', exposed', acked')
      BY <2>6, FirstIsOnly
    <3> QED BY <3>1, <3>2 DEF DiskInv
  <2>8. Formatting'
    <3>1. 0 \in 0 .. TableSectors - 1
      BY Sizes
    <3> QED BY <1>0, <1>2, <2>2, <2>4, <2>6, <3>1 DEF Formatting
  <2>9. CallInv'
    BY <2>2, <2>8 DEF CallInv, Loading, Ready, SaveInv, DataInv, StoreInv, Saving
  <2> QED BY <2>1, <2>3, <2>5, <2>7, <2>9 DEF FsInv, Doubts
<1> QED BY <1>3, <1>4

LEMMA FormatTableKeeps == FsInv /\ FormatTable => FsInv' /\ (Spares \/ Forgets)
<1> SUFFICES ASSUME FsInv, FormatTable PROVE FsInv' /\ (Spares \/ Forgets)
  OBVIOUS
<1>0. /\ call.pc = "formatTable" /\ Types /\ DiskInv /\ Shaped(call) /\ DOMAIN call = Fields
      /\ sb = DataLba /\ table = EmptyTable
      /\ ~readFault => OnlyFirst(disk) /\ \A n \in Names : acked[n] = NoContent
      /\ call.i \in 0 .. TableSectors - 1 /\ Listed(disk) \subseteq exposed
  BY DEF FormatTable, FsInv, Types, Shaped, CallInv, Formatting
<1>1. PICK o \in Outcomes :
        /\ Write(TableLba + call.i, TableSector(table, call.i), o)
        /\ IF o = "refused" THEN Fail
           ELSE IF call.i = TableSectors - 1 THEN Goto("mounted", 0)
                                             ELSE Goto("formatTable", call.i + 1)
        /\ exposed' = IF o = "ok" THEN exposed \ (Listed(disk) \ Listed(disk')) ELSE exposed
  BY DEF FormatTable
<1>2. /\ UNCHANGED <<readFault, present, kind, sb, table, saves, acked>>
      /\ o = "ok" => disk' = [disk EXCEPT ![TableLba + call.i] = TableSector(table, call.i)]
      /\ o # "ok" => disk' = disk
  BY <1>1, WriteIs DEF FormatTable, memory
<1>3. CASE o = "refused"
  <2>1. call' = NoCall /\ Untouched
    BY <1>0, <1>1, <1>2, <1>3 DEF Fail, Return, Untouched, Types
  <2> QED BY <1>2, <1>3, <2>1, ReturnKeeps DEF Spares, Untouched
<1>4. CASE o # "refused"
  <2>1. call' = IF call.i = TableSectors - 1 THEN [call EXCEPT !.pc = "mounted", !.i = 0]
                ELSE [call EXCEPT !.pc = "formatTable", !.i = call.i + 1]
    BY <1>1, <1>4 DEF Goto
  <2>2. /\ DOMAIN call' = Fields
        /\ call'.pc = IF call.i = TableSectors - 1 THEN "mounted" ELSE "formatTable"
        /\ call'.i = IF call.i = TableSectors - 1 THEN 0 ELSE call.i + 1
        /\ call'.lost = call.lost /\ call'.cmd = call.cmd /\ call'.name = call.name
        /\ call'.save = call.save /\ call'.len = call.len
    BY <1>0, <2>1 DEF Fields
  <2>3. /\ Layout(disk')
        /\ \A j \in Slots : DiskEntry(disk', j) \in {NoEntry, DiskEntry(disk, j)}
    <3>1. CASE o = "ok"
      <4>1. Layout(disk')
            /\ \A j \in Slots : DiskEntry(disk', j) = IF j \in InTableSector(call.i) THEN table[j]
                                                      ELSE DiskEntry(disk, j)
        BY <1>0, <1>2, <3>1, TableWritten DEF Types
      <4>2. \A j \in Slots : table[j] = NoEntry
        BY <1>0 DEF EmptyTable
      <4> QED BY <4>1, <4>2
    <3>2. CASE o # "ok"
      BY <1>0, <1>2, <3>2 DEF Types
    <3> QED BY <3>1, <3>2
  <2>4. \A j \in Slots : Named(disk', j) =>
          Named(disk, j) /\ DiskEntry(disk', j) = DiskEntry(disk, j)
    BY <2>3, NamesAre DEF Named
  <2>5. \A n \in Names : EntriesOf(disk', n) \subseteq EntriesOf(disk, n)
    BY <2>4 DEF EntriesOf, Named
  <2>6. Listed(disk') \subseteq exposed' /\ exposed' \subseteq Names
    <3>1. Listed(disk') \subseteq Listed(disk)
      BY <2>5 DEF Listed
    <3>2. exposed' = exposed \/ exposed' = exposed \ (Listed(disk) \ Listed(disk'))
      BY <1>1
    <3>3. exposed \subseteq Names
      BY <1>0 DEF Types
    <3> QED BY <1>0, <3>1, <3>2, <3>3
  <2>7. ~readFault' => OnlyFirst(disk') /\ \A n \in Names : acked'[n] = NoContent
    BY <1>0, <1>2, <2>4 DEF OnlyFirst
  <2>8. Types'
    <3>1. Shaped(call') /\ call'.pc \notin Mounting
      BY <1>0, <2>2 DEF Shaped, Phases, Mounting
    <3> QED BY <1>0, <1>2, <2>3, <2>6, <3>1 DEF Types
  <2>9. DiskInv'
    <3>1. Sound(disk', exposed')
      BY <2>6, NothingPromised
    <3>2. ~readFault' => Strict(disk', exposed', acked')
      BY <2>7, FirstIsOnly
    <3> QED BY <3>1, <3>2 DEF DiskInv
  <2>10. ASSUME call.i = TableSectors - 1 PROVE CallInv'
    <3>1. Below(disk', exposed', sb')
      BY <2>6, NothingPromised
    <3>2. \A j \in Slots : Mirrors(disk', exposed', table'[j], j)
      <4>1. \A j \in Slots : ~table'[j].used
        BY <1>0, <1>2, NamesAre DEF EmptyTable
      <4>2. ASSUME NEW j \in Slots, Named(disk', j) PROVE DiskEntry(disk', j).name \in exposed'
        <5>1. DiskEntry(disk', j).name \in Listed(disk')
          BY <4>2 DEF Named, Listed, EntriesOf
        <5> QED BY <2>6, <5>1
      <4> QED BY <4>1, <4>2 DEF Mirrors
    <3>3. sb' # BadSB
      BY <1>0, <1>2, Sizes
    <3>4. Ready'
      BY <1>0, <1>2, <2>2, <2>7, <2>10, <3>1, <3>2, <3>3 DEF Ready
    <3>5. CallInv'
      BY <2>2, <2>10, <3>4
         DEF CallInv, Loading, Formatting, SaveInv, DataInv, StoreInv, Saving
    <3> QED BY <3>5
  <2>11. ASSUME call.i # TableSectors - 1 PROVE CallInv'
    <3>1. call'.i \in 0 .. TableSectors - 1
      BY <1>0, <2>2, <2>11, Sizes
    <3>2. Formatting'
      BY <1>0, <1>2, <2>2, <2>6, <2>7, <2>11, <3>1 DEF Formatting
    <3>3. CallInv'
      BY <2>2, <2>11, <3>2 DEF CallInv, Loading, Ready, SaveInv, DataInv, StoreInv, Saving
    <3> QED BY <3>3
  <2>12. Spares \/ Forgets
    <3>1. CASE o = "ok"
      <4>1. Listed(disk') \subseteq Listed(disk)
        BY <2>5 DEF Listed
      <4> QED BY <1>0, <1>1, <3>1, <4>1 DEF Forgets
    <3>2. CASE o # "ok"
      BY <1>1, <1>2, <3>2 DEF Spares
    <3> QED BY <3>1, <3>2
  <2> QED BY <2>8, <2>9, <2>10, <2>11, <2>12 DEF FsInv
<1> QED BY <1>3, <1>4

\* What holds of the entries a save leaves alone.
LEMMA SavingIs ==
  ASSUME FsInv, call.pc \in Saving
  PROVE  /\ Types /\ DiskInv /\ Shaped(call) /\ DOMAIN call = Fields /\ call.cmd = "save"
         /\ call.name \in Names /\ call.len \in 0 .. MaxLen /\ call.slot \in Slots
         /\ call.start \in DataLba .. DiskSectors /\ call.start \in Nat
         /\ SectorsFor(call.len) \in Nat /\ SectorsFor(call.len) > 0
         /\ Below(disk, exposed, call.start) /\ SaveInv
<1>1. /\ Types /\ DiskInv /\ Shaped(call) /\ DOMAIN call = Fields /\ SaveInv
      /\ call.cmd = "save" /\ call.slot \in Slots /\ call.start \in DataLba .. DiskSectors
      /\ Below(disk, exposed, call.start)
  BY DEF FsInv, Types, Shaped, CallInv, SaveInv
<1>2. call.name \in Names /\ call.len \in 0 .. MaxLen
  BY <1>1 DEF Shaped
<1>3. call.start \in Nat /\ SectorsFor(call.len) \in Nat /\ SectorsFor(call.len) > 0
  BY <1>1, <1>2, Sizes DEF SectorsFor
<1> QED BY <1>1, <1>2, <1>3

\* Doubt about more names does not weaken what is said of the disk.
LEMMA MoreDoubt ==
  ASSUME NEW d, NEW doubt, NEW after, doubt \subseteq after
  PROVE  /\ Sound(d, doubt) => Sound(d, after)
         /\ \A a : Strict(d, doubt, a) => Strict(d, after, a)
         /\ \A e, j : Mirrors(d, doubt, e, j) => Mirrors(d, after, e, j)
         /\ \A limit : Below(d, doubt, limit) => Below(d, after, limit)
<1>1. Names \ after \subseteq Names \ doubt
  OBVIOUS
<1>2. Sound(d, doubt) => Sound(d, after)
  BY <1>1 DEF Sound, Below
<1>3. \A a : Strict(d, doubt, a) => Strict(d, after, a)
  BY <1>1 DEF Strict
<1>4. \A e, j : Mirrors(d, doubt, e, j) => Mirrors(d, after, e, j)
  BY DEF Mirrors
<1>5. \A limit : Below(d, doubt, limit) => Below(d, after, limit)
  BY <1>1 DEF Below
<1> QED BY <1>2, <1>3, <1>4, <1>5

\* One sector of the file; with the last, the directory in memory changes.
LEMMA WriteDataKeeps == FsInv /\ WriteData => FsInv' /\ Spares
<1> SUFFICES ASSUME FsInv, WriteData PROVE FsInv' /\ Spares
  OBVIOUS
<1> DEFINE count == SectorsFor(call.len)
           lba == call.start + call.i
           content == IF call.len = 0 THEN ZeroSector
                      ELSE DataSector(call.name, call.save, call.i)
<1>s. /\ call.pc = "data" /\ Types /\ DiskInv /\ Shaped(call) /\ DOMAIN call = Fields
      /\ call.cmd = "save" /\ call.name \in Names /\ call.len \in 0 .. MaxLen
      /\ call.slot \in Slots /\ call.start \in DataLba .. DiskSectors /\ call.start \in Nat
      /\ count \in Nat /\ count > 0 /\ Below(disk, exposed, call.start) /\ SaveInv
  BY SavingIs DEF WriteData, Saving
<1>0. /\ call.i \in 0 .. count - 1 /\ sb = call.start
      /\ Unwritten(disk, call, Min({call.i, call.len}))
  BY <1>s DEF FsInv, CallInv, DataInv
<1>1. PICK o \in Outcomes :
        /\ Write(lba, content, o)
        /\ exposed' = Doubtful(o)
        /\ IF o = "refused"
           THEN Fail /\ UNCHANGED <<sb, table>>
           ELSE IF call.i + 1 < count
           THEN /\ call' = [call EXCEPT !.i = @ + 1, !.lost = @ \/ o = "lost"]
                /\ UNCHANGED <<sb, table, result>>
           ELSE /\ call' = [call EXCEPT !.pc = "storeTable", !.i = 0, !.lost = @ \/ o = "lost"]
                /\ table' = [table EXCEPT ![call.slot] = NewEntry]
                /\ sb' = call.start + count
                /\ UNCHANGED result
  BY DEF WriteData, NewEntry
<1>2. /\ UNCHANGED <<readFault, present, kind, saves, acked>>
      /\ o = "ok" => disk' = [disk EXCEPT ![lba] = content]
      /\ o # "ok" => disk' = disk
      /\ o # "refused" => lba \in Sectors
      /\ exposed' = IF o = "lost" THEN exposed \cup {call.name} ELSE exposed
  BY <1>1, WriteIs DEF WriteData, Doubtful
<1>3. CASE o = "refused"
  <2>1. call' = NoCall /\ Untouched /\ UNCHANGED <<sb, table>>
    BY <1>s, <1>1, <1>2, <1>3 DEF Fail, Return, Untouched, Types
  <2> QED BY <1>2, <1>3, <2>1, ReturnKeeps DEF Spares, Untouched
<1>4. CASE o # "refused"
  <2>1. lba \in Sectors /\ lba >= DataLba /\ lba >= call.start
    BY <1>s, <1>0, <1>2, <1>4, Sizes
  <2>2. /\ Layout(disk') /\ disk'[0] = disk[0] /\ \A l \in TableLbas : disk'[l] = disk[l]
        /\ \A l \in Sectors \ {lba} : disk'[l] = disk[l]
        /\ o = "ok" => disk'[lba] = content
    <3>1. CASE o = "ok"
      <4>1. content.kind \in {"zero", "data"}
        BY DEF ZeroSector, DataSector
      <4> HIDE DEF lba, content
      <4>2. Layout(disk)
        BY <1>s DEF Types
      <4> QED BY <1>2, <2>1, <3>1, <4>1, <4>2, DataWritten
    <3>2. CASE o # "ok"
      BY <1>s, <1>2, <3>2 DEF Types
    <3> QED BY <3>1, <3>2
  <2>3. /\ exposed \subseteq exposed' /\ exposed' \subseteq Names
    BY <1>s, <1>2 DEF Types
  <2>4. /\ \A i \in Slots : DiskEntry(disk', i) = DiskEntry(disk, i)
        /\ \A i \in Slots : Named(disk', i) <=> Named(disk, i)
        /\ \A n : EntriesOf(disk', n) = EntriesOf(disk, n)
        /\ OnlyFirst(disk') <=> OnlyFirst(disk)
    BY <2>2, SameDirectory
  <2>5. /\ Sound(disk', exposed') /\ Below(disk', exposed', call.start)
        /\ \A n \in Names \ exposed' : File(disk', n) = File(disk, n)
    <3>1. \A l \in DataLba .. call.start - 1 : disk'[l] = disk[l]
      <4>1. \A l \in DataLba .. call.start - 1 : l \in Sectors /\ l # lba
        BY <1>s, <2>1, Sizes DEF Sectors
      <4> HIDE DEF lba
      <4> QED BY <2>2, <4>1
    <3> HIDE DEF lba
    <3> QED BY <1>s, <2>2, <2>3, <2>4, <3>1, Bystanders DEF DiskInv, Types
  <2>6. ~readFault => Strict(disk', exposed', acked)
    BY <1>s, <2>2, <2>3, <2>4, <2>5 DEF DiskInv, Strict, Good
  <2>7. DiskInv'
    BY <1>2, <2>5, <2>6 DEF DiskInv
  <2>8. /\ DOMAIN call' = Fields /\ call'.cmd = "save" /\ call'.name = call.name
        /\ call'.save = call.save /\ call'.len = call.len /\ call'.slot = call.slot
        /\ call'.start = call.start
        /\ call'.lost = (call.lost \/ o = "lost")
        /\ call'.pc = IF call.i + 1 < count THEN "data" ELSE "storeTable"
        /\ call'.i = IF call.i + 1 < count THEN call.i + 1 ELSE 0
    BY <1>s, <1>1, <1>4, ZenonT(30) DEF Fields
  <2>9. Shaped(call')
    <3>1. call.lost \in BOOLEAN
      BY <1>s DEF Shaped
    <3>2. call'.lost \in BOOLEAN
      BY Zenon, <3>1, <2>8
    <3>3. call'.pc \in Phases
      BY <2>8 DEF Phases, Saving
    <3> QED BY <1>s, <2>8, <3>2, <3>3 DEF Shaped
  <2>10. \A j \in Slots \ {call.slot} : table'[j] = table[j]
    BY <1>s, <1>1, <1>4 DEF Types
  <2>11. SaveInv'
    <3>1. ASSUME NEW j \in Slots \ {call.slot}
          PROVE  /\ Mirrors(disk', exposed', table'[j], j)
                 /\ table'[j].used /\ table'[j].name = call.name => j > call.slot /\ readFault
                 /\ ~readFault => Exact(disk', table', j)
      <4>1. /\ Mirrors(disk, exposed, table[j], j)
            /\ table[j].used /\ table[j].name = call.name => j > call.slot /\ readFault
            /\ ~readFault => Exact(disk, table, j)
        BY <1>s DEF SaveInv, Saving
      <4>2. Mirrors(disk', exposed', table'[j], j)
        BY <2>3, <2>4, <2>10, <4>1 DEF Mirrors
      <4>3. ~readFault => Exact(disk', table', j)
        BY <2>4, <2>10, <4>1 DEF Exact
      <4> QED BY <2>10, <4>1, <4>2, <4>3
    <3>2. Named(disk', call.slot) => DiskEntry(disk', call.slot).name \in exposed' \cup {call.name}
      BY <1>s, <2>3, <2>4 DEF SaveInv, Saving
    <3>3. ~readFault => Good(disk') \/ call.slot = 0
      BY <1>s, <2>2 DEF SaveInv, Saving, Good
    <3> QED BY <1>s, <1>2, <2>5, <2>8, <3>1, <3>2, <3>3 DEF SaveInv
  <2>12. ASSUME ~call'.lost, NEW k \in 0 .. call.len - 1, k <= call.i
         PROVE  disk'[call.start + k] = DataSector(call.name, call.save, k)
    <3>1. ~call.lost /\ o = "ok"
      BY <1>4, <2>8, <2>12 DEF Outcomes
    <3>2. CASE k = call.i
      <4>1. call.len # 0
        BY <1>s, <2>12
      <4>2. disk'[lba] = content
        BY Zenon, <2>2, <3>1
      <4> QED BY <3>2, <4>1, <4>2
    <3>3. CASE k # call.i
      <4>1. Min({call.i, call.len}) = call.i \/ Min({call.i, call.len}) = call.len
        <5>1. {call.i, call.len} \in SUBSET Nat
          BY <1>s, <1>0, Sizes
        <5> QED BY <5>1, Least
      <4>2. k \in 0 .. Min({call.i, call.len}) - 1
        BY <1>s, <1>0, <2>12, <3>3, <4>1, Sizes
      <4>3. disk[call.start + k] = DataSector(call.name, call.save, k)
        BY <1>0, <3>1, <4>2 DEF Unwritten
      <4>4. call.start + k \in Sectors /\ call.start + k # lba
        BY <1>s, <1>0, <2>1, <2>12, <3>3, Sizes DEF Sectors
      <4> HIDE DEF lba
      <4> QED BY <2>2, <4>3, <4>4
    <3> QED BY <3>2, <3>3
  <2>13. ASSUME call.i + 1 < count PROVE FsInv'
    <3>1. sb' = sb /\ table' = table
      BY <1>1, <1>4, <2>13
    <3>2. Types'
      BY <1>s, <1>2, <2>2, <2>3, <2>8, <2>9, <2>13, <3>1 DEF Types, Mounting
    <3>3. count = call.len /\ call.i + 1 \in Nat /\ call.i + 1 < call.len
      BY <1>s, <1>0, <2>13, Sizes DEF SectorsFor
    <3>4. Min({call.i + 1, call.len}) = call.i + 1
      <4>1. {call.i + 1, call.len} \in SUBSET Nat
        BY <1>s, <3>3, Sizes
      <4> QED BY <3>3, <4>1, Least
    <3>5. Unwritten(disk', call', call.i + 1)
      <4>1. \A k \in 0 .. (call.i + 1) - 1 : k \in 0 .. call.len - 1 /\ k <= call.i
        BY <1>s, <1>0, <3>3, Sizes
      <4> QED BY <2>8, <2>12, <4>1 DEF Unwritten
    <3>6. DataInv'
      <4>1. call.i + 1 \in 0 .. count - 1
        BY <1>s, <1>0, <2>13
      <4> QED BY <1>0, <2>8, <2>13, <3>1, <3>4, <3>5, <4>1 DEF DataInv
    <3>7. CallInv'
      BY <2>8, <2>11, <2>13, <3>6 DEF CallInv, Loading, Formatting, Ready, StoreInv
    <3> QED BY <2>7, <3>2, <3>7 DEF FsInv
  <2>14. ASSUME ~(call.i + 1 < count) PROVE FsInv'
    <3>1. table' = [table EXCEPT ![call.slot] = NewEntry] /\ sb' = call.start + count
      BY <1>1, <1>4, <2>14
    <3>2. NewEntry \in Entry /\ table' \in [Slots -> Entry] /\ table'[call.slot] = NewEntry
      <4>1. NewEntry \in Entry
        <5>1. call.name \in Names /\ call.start \in Nat /\ call.len \in Nat
          BY <1>s, Sizes
        <5> QED BY <5>1 DEF NewEntry, Entry
      <4> QED BY <1>s, <3>1, <4>1 DEF Types
    <3>3. sb' \in DataLba .. DiskSectors
      <4>1. count = call.i + 1
        BY <1>s, <1>0, <2>14
      <4>2. call.start + call.i \in Nat /\ call.start + call.i <= DiskSectors - 1
        BY <2>1, Sizes DEF Sectors
      <4>3. sb' = call.start + call.i + 1
        BY <1>s, <1>0, <3>1, <4>1
      <4> QED BY <1>s, <1>0, <4>2, <4>3, Sizes
    <3>4. Types'
      BY <1>s, <1>2, <2>2, <2>3, <2>8, <2>9, <2>14, <3>2, <3>3 DEF Types, Mounting
    <3>5. Unwritten(disk', call', call.len)
      <4>1. \A k \in 0 .. call.len - 1 : k <= call.i
        BY <1>s, <1>0, <2>14, Sizes DEF SectorsFor
      <4> QED BY <2>8, <2>12, <4>1 DEF Unwritten
    <3>6. Agree(disk', table', 0) /\ ~(call.slot \div PerSector < 0)
      <4>1. \A j \in Slots : ~(j \div PerSector < 0)
        <5> TAKE j \in Slots
        <5>1. j \div PerSector \in 0 .. TableSectors - 1
          BY SectorOf
        <5> QED BY <5>1, Sizes
      <4> QED BY <1>s, <4>1 DEF Agree
    <3>7. StoreInv'
      <4>1. 0 \in 0 .. TableSectors - 1
        BY Sizes
      <4>2. NewEntry' = NewEntry
        BY <2>8 DEF NewEntry
      <4>3. call'.pc = "storeTable" /\ call'.i = 0
        BY <2>8, <2>14
      <4> QED BY <2>8, <3>1, <3>2, <3>5, <3>6, <4>1, <4>2, <4>3 DEF StoreInv
    <3>8. CallInv'
      BY <2>8, <2>11, <2>14, <3>7 DEF CallInv, Loading, Formatting, Ready, DataInv
    <3> QED BY <2>7, <3>4, <3>8 DEF FsInv
  <2>15. Spares
    BY <1>s, <1>2, <2>5 DEF Spares
  <2> QED BY <2>13, <2>14, <2>15
<1> QED BY <1>3, <1>4

\* One sector of the directory, as it is in memory.  It changes no entry but the one
\* the save is made in and those of names in doubt.
LEMMA StoreTableKeeps == FsInv /\ StoreTable => FsInv' /\ Spares
<1> SUFFICES ASSUME FsInv, StoreTable PROVE FsInv' /\ Spares
  OBVIOUS
<1> DEFINE here == InTableSector(call.i)
<1>s. /\ call.pc = "storeTable" /\ Types /\ DiskInv /\ Shaped(call) /\ DOMAIN call = Fields
      /\ call.cmd = "save" /\ call.name \in Names /\ call.len \in 0 .. MaxLen
      /\ call.slot \in Slots /\ call.start \in DataLba .. DiskSectors /\ call.start \in Nat
      /\ Below(disk, exposed, call.start) /\ SaveInv
  BY SavingIs DEF StoreTable, Saving
<1>0. /\ table[call.slot] = NewEntry /\ sb = call.start + SectorsFor(call.len)
      /\ Unwritten(disk, call, call.len) /\ call.i \in 0 .. TableSectors - 1
      /\ ~call.lost => /\ Agree(disk, table, call.i)
                       /\ call.slot \div PerSector < call.i => call.name \in exposed
  BY <1>s DEF FsInv, CallInv, StoreInv
<1>1. PICK o \in Outcomes :
        /\ Write(TableLba + call.i, TableSector(table, call.i), o)
        /\ exposed' = IF o = "ok" /\ call.slot \in here
                      THEN exposed \cup {call.name} ELSE Doubtful(o)
        /\ IF o = "refused" THEN Fail
           ELSE /\ call' = [call EXCEPT
                              !.pc = IF call.i = TableSectors - 1 THEN "storeSuper" ELSE @,
                              !.i = IF @ = TableSectors - 1 THEN 0 ELSE @ + 1,
                              !.lost = @ \/ o = "lost"]
                /\ UNCHANGED result
  BY DEF StoreTable
<1>2. /\ UNCHANGED <<readFault, present, kind, sb, table, saves, acked>>
      /\ o = "ok" => disk' = [disk EXCEPT ![TableLba + call.i] = TableSector(table, call.i)]
      /\ o # "ok" => disk' = disk
      /\ exposed' = IF (o = "ok" /\ call.slot \in here) \/ o = "lost"
                    THEN exposed \cup {call.name} ELSE exposed
  BY <1>1, WriteIs DEF StoreTable, memory, Doubtful
<1> HIDE DEF here
<1>3. CASE o = "refused"
  <2>1. call' = NoCall /\ Untouched
    BY <1>s, <1>1, <1>2, <1>3 DEF Fail, Return, Untouched, Types
  <2> QED BY <1>2, <1>3, <2>1, ReturnKeeps DEF Spares, Untouched
<1>4. CASE o # "refused"
  <2>1. /\ DOMAIN call' = Fields /\ call'.cmd = "save" /\ call'.name = call.name
        /\ call'.save = call.save /\ call'.len = call.len /\ call'.slot = call.slot
        /\ call'.start = call.start
        /\ call'.lost = (call.lost \/ o = "lost")
        /\ call'.pc = IF call.i = TableSectors - 1 THEN "storeSuper" ELSE "storeTable"
        /\ call'.i = IF call.i = TableSectors - 1 THEN 0 ELSE call.i + 1
    BY <1>s, <1>1, <1>4 DEF Fields
  <2>2. /\ Layout(disk') /\ disk'[0] = disk[0]
        /\ \A l \in DataLba .. DiskSectors - 1 : disk'[l] = disk[l]
        /\ \A j \in Slots : DiskEntry(disk', j) = IF o = "ok" /\ j \in here THEN table[j]
                                                  ELSE DiskEntry(disk, j)
    <3>1. CASE o = "ok"
      <4>1. /\ Layout(disk') /\ disk'[0] = disk[0]
            /\ \A l \in DataLba .. DiskSectors - 1 : disk'[l] = disk[l]
            /\ \A j \in Slots : DiskEntry(disk', j) = IF j \in here THEN table[j]
                                                      ELSE DiskEntry(disk, j)
        BY <1>s, <1>0, <1>2, <3>1, TableWritten DEF Types, here
      <4> QED BY <3>1, <4>1
    <3>2. CASE o # "ok"
      BY <1>s, <1>2, <3>2 DEF Types
    <3> QED BY <3>1, <3>2
  <2>3. exposed \subseteq exposed' /\ exposed' \subseteq Names
        /\ (o = "ok" /\ call.slot \in here => call.name \in exposed')
    BY <1>s, <1>2 DEF Types
  <2>4. /\ \A j \in Slots \ {call.slot} :
             /\ Mirrors(disk, exposed, table[j], j)
             /\ table[j].used /\ table[j].name = call.name => j > call.slot /\ readFault
             /\ ~readFault => Exact(disk, table, j)
        /\ ~readFault => Good(disk) \/ call.slot = 0
        /\ Named(disk, call.slot) =>
             DiskEntry(disk, call.slot).name \in exposed \cup {call.name}
    BY <1>s DEF SaveInv, Saving
  <2>5. ASSUME NEW n \in Names \ exposed', NEW j \in Slots,
               j \in EntriesOf(disk, n) \/ j \in EntriesOf(disk', n)
        PROVE  DiskEntry(disk', j) = DiskEntry(disk, j)
    <3>1. CASE ~(o = "ok" /\ j \in here)
      BY <2>2, <3>1
    <3>2. CASE o = "ok" /\ j \in here /\ j = call.slot
      <4>1. call.name \in exposed' /\ n # call.name
        BY <2>3, <3>2
      <4>2. DiskEntry(disk', j).name = call.name
        BY <1>0, <2>2, <3>2 DEF NewEntry
      <4>3. j \in EntriesOf(disk, n)
        BY <2>5, <4>1, <4>2 DEF EntriesOf
      <4>4. n \in exposed \cup {call.name}
        BY <2>4, <3>2, <4>3 DEF EntriesOf, Named
      <4> QED BY <2>3, <4>1, <4>4
    <3>3. CASE o = "ok" /\ j \in here /\ j # call.slot
      <4>1. DiskEntry(disk', j) = table[j]
        BY <2>2, <3>3
      <4>2. CASE ~table[j].used /\ (Named(disk, j) => DiskEntry(disk, j).name \in exposed)
        <5>1. j \in EntriesOf(disk, n)
          BY <2>5, <4>1, <4>2 DEF EntriesOf
        <5>2. n \in exposed
          BY <4>2, <5>1 DEF EntriesOf, Named
        <5> QED BY <2>3, <5>2
      <4>3. Mirrors(disk, exposed, table[j], j)
        BY <2>4, <3>3
      <4> QED BY <4>1, <4>2, <4>3 DEF Mirrors
    <3> QED BY <3>1, <3>2, <3>3
  <2>6. /\ Sound(disk', exposed') /\ Below(disk', exposed', call.start)
        /\ \A n \in Names \ exposed' : File(disk', n) = File(disk, n)
    <3>1. \A l \in DataLba .. call.start - 1 : disk'[l] = disk[l]
      BY <1>s, <2>2, Sizes
    <3>2. \A n \in Names \ exposed' : \A j \in Slots :
            j \in EntriesOf(disk, n) \/ j \in EntriesOf(disk', n)
              => DiskEntry(disk', j) = DiskEntry(disk, j)
      BY Zenon, <2>5
    <3>3. Layout(disk) /\ Sound(disk, exposed)
      BY <1>s DEF DiskInv, Types
    <3> QED BY <1>s, <2>2, <2>3, <3>1, <3>2, <3>3, Bystanders
  <2>7. ASSUME ~readFault, NEW j \in Slots \ {call.slot}, Named(disk', j)
        PROVE  DiskEntry(disk', j) = DiskEntry(disk, j) /\ Named(disk, j)
               /\ DiskEntry(disk, j).name # call.name
    <3>1. DiskEntry(disk', j) = DiskEntry(disk, j)
      <4>1. CASE o = "ok" /\ j \in here
        <5>1. DiskEntry(disk', j) = table[j] /\ table[j].used
          BY <2>2, <2>7, <4>1 DEF Named
        <5> QED BY <2>4, <5>1 DEF Mirrors
      <4> QED BY <2>2, <4>1
    <3>2. Named(disk, j)
      BY <2>7, <3>1 DEF Named
    <3>3. table[j] = DiskEntry(disk, j)
      BY <2>4, <2>7, <3>2 DEF Exact
    <3>4. DiskEntry(disk, j).name # call.name
      BY <2>4, <2>7, <3>2, <3>3 DEF Named
    <3> QED BY <3>1, <3>2, <3>4
  <2>8. DiskEntry(disk', call.slot) \in {NewEntry, DiskEntry(disk, call.slot)}
    BY <1>s, <1>0, <2>2
  <2>9. ASSUME ~readFault PROVE Strict(disk', exposed', acked)
    <3>0. Strict(disk, exposed, acked)
      BY <1>s, <2>9 DEF DiskInv
    <3>1. ASSUME NEW n \in Names, NEW i \in EntriesOf(disk', n), NEW j \in EntriesOf(disk', n),
                 j # call.slot
          PROVE  i = j
      <4>1. /\ i \in Slots /\ DiskEntry(disk', i).used /\ DiskEntry(disk', i).name = n
            /\ j \in Slots /\ DiskEntry(disk', j).used /\ DiskEntry(disk', j).name = n
            /\ Named(disk', i) /\ Named(disk', j)
        BY DEF EntriesOf, Named
      <4>2. j \in EntriesOf(disk, n) /\ n # call.name
        BY <2>7, <2>9, <3>1, <4>1 DEF EntriesOf, Named
      <4>3. DiskEntry(disk', i) = DiskEntry(disk, i)
        <5>1. CASE i = call.slot
          BY <2>8, <4>1, <4>2, <5>1 DEF NewEntry
        <5>2. CASE i # call.slot
          BY <2>7, <2>9, <4>1, <5>2
        <5> QED BY <5>1, <5>2
      <4>4. i \in EntriesOf(disk, n)
        BY <4>1, <4>3 DEF EntriesOf
      <4> QED BY <3>0, <4>2, <4>4 DEF Strict
    <3>2. \A n \in Names : \A i, j \in EntriesOf(disk', n) : i = j
      <4> TAKE n \in Names
      <4> TAKE i, j \in EntriesOf(disk', n)
      <4>1. CASE j # call.slot
        BY <3>1, <4>1
      <4>2. CASE i # call.slot
        BY <3>1, <4>2
      <4> QED BY <4>1, <4>2
    <3>3. \A n \in Names \ exposed' : acked[n] # NoContent => File(disk', n) = acked[n]
      BY <2>3, <2>6, <3>0 DEF Strict
    <3>4. ASSUME ~Good(disk') PROVE OnlyFirst(disk') /\ \A n \in Names : acked[n] = NoContent
      <4>1. ~Good(disk) /\ call.slot = 0
        BY <2>2, <2>4, <2>9, <3>4 DEF Good
      <4>2. OnlyFirst(disk) /\ \A n \in Names : acked[n] = NoContent
        BY <3>0, <4>1 DEF Strict
      <4>3. \A j \in Slots \ {0} : ~Named(disk', j)
        BY <2>7, <2>9, <4>1, <4>2 DEF OnlyFirst
      <4> QED BY <4>2, <4>3 DEF OnlyFirst
    <3> QED BY <3>2, <3>3, <3>4 DEF Strict
  <2>10. DiskInv'
    BY <1>2, <2>6, <2>9 DEF DiskInv
  <2>11. Types'
    <3>1. call.lost \in BOOLEAN
      BY <1>s DEF Shaped
    <3>2. call'.lost \in BOOLEAN
      BY Zenon, <3>1, <2>1
    <3>3. call'.pc \in Phases /\ call'.pc \notin Mounting
      BY <2>1 DEF Phases, Saving, Mounting
    <3>4. Shaped(call')
      BY <1>s, <2>1, <3>2, <3>3 DEF Shaped
    <3> QED BY <1>s, <1>2, <2>2, <2>3, <3>3, <3>4 DEF Types
  <2>12. SaveInv'
    <3>1. ASSUME NEW j \in Slots \ {call.slot}
          PROVE  /\ Mirrors(disk', exposed', table[j], j)
                 /\ ~readFault => Exact(disk', table, j)
      <4>1. CASE o = "ok" /\ j \in here
        BY <2>2, <4>1 DEF Mirrors, Exact
      <4>2. CASE ~(o = "ok" /\ j \in here)
        <5>1. DiskEntry(disk', j) = DiskEntry(disk, j) /\ (Named(disk', j) <=> Named(disk, j))
          BY <2>2, <4>2 DEF Named
        <5> QED BY <2>3, <2>4, <5>1 DEF Mirrors, Exact
      <4> QED BY <4>1, <4>2
    <3>2. Named(disk', call.slot) => DiskEntry(disk', call.slot).name \in exposed' \cup {call.name}
      <4>1. CASE DiskEntry(disk', call.slot) = NewEntry
        BY <4>1 DEF NewEntry
      <4>2. CASE DiskEntry(disk', call.slot) = DiskEntry(disk, call.slot)
        BY <2>3, <2>4, <4>2 DEF Named
      <4> QED BY <2>8, <4>1, <4>2
    <3>3. ~readFault => Good(disk') \/ call.slot = 0
      BY <2>2, <2>4 DEF Good
    <3> QED BY <1>s, <1>2, <2>1, <2>4, <2>6, <3>1, <3>2, <3>3 DEF SaveInv
  <2>13. Unwritten(disk', call', call.len)
    <3>1. CASE call'.lost
      BY <3>1 DEF Unwritten
    <3>2. CASE ~call'.lost
      <4>1. ~call.lost
        BY <2>1, <3>2
      <4>2. ASSUME NEW k \in 0 .. call.len - 1 PROVE disk'[call.start + k] = disk[call.start + k]
        <5>1. call.len \in Nat /\ call.len # 0
          BY <1>s, <4>2, Sizes
        <5>2. call.start + call.len <= DiskSectors
          <6>1. sb = call.start + call.len
            BY <1>0, <5>1 DEF SectorsFor
          <6>2. sb \in {BadSB} \cup DataLba .. DiskSectors
            BY <1>s DEF Types
          <6> QED BY <1>s, <5>1, <6>1, <6>2, Sizes
        <5>3. call.start + k \in DataLba .. DiskSectors - 1
          BY <1>s, <4>2, <5>1, <5>2, Sizes
        <5> QED BY <2>2, <5>3
      <4> QED BY <1>0, <2>1, <4>1, <4>2 DEF Unwritten
    <3> QED BY <3>1, <3>2
  <2>14. ASSUME ~call'.lost
         PROVE  /\ Agree(disk', table, call.i + 1)
                /\ call.slot \div PerSector < call.i + 1 => call.name \in exposed'
    <3>1. ~call.lost /\ o = "ok"
      BY <1>4, <2>1, <2>14 DEF Outcomes
    <3>2. \A j \in Slots : j \div PerSector < call.i + 1 => j \in here \/ j \div PerSector < call.i
      <4> TAKE j \in Slots
      <4>1. j \div PerSector \in Nat
        BY SectorOf, Sizes
      <4> QED BY <1>0, <4>1, Sizes DEF InTableSector, here
    <3>3. Agree(disk', table, call.i + 1)
      BY <1>0, <2>2, <3>1, <3>2 DEF Agree
    <3> QED BY <1>s, <1>0, <2>3, <3>1, <3>2, <3>3
  <2>15. StoreInv'
    <3>1. NewEntry' = NewEntry
      BY <2>1 DEF NewEntry
    <3>2. CASE call.i = TableSectors - 1
      <4>1. call.i + 1 = TableSectors /\ call.slot \div PerSector < TableSectors
        <5>1. call.slot \div PerSector \in 0 .. TableSectors - 1
          BY <1>s, SectorOf
        <5> QED BY <3>2, <5>1, Sizes
      <4>2. call'.pc = "storeSuper"
        BY <2>1, <3>2
      <4> QED BY <1>0, <1>2, <2>1, <2>13, <2>14, <3>1, <4>1, <4>2 DEF StoreInv
    <3>3. CASE call.i # TableSectors - 1
      <4>1. call'.i = call.i + 1 /\ call'.i \in 0 .. TableSectors - 1 /\ call'.pc = "storeTable"
        BY <1>0, <2>1, <3>3, Sizes
      <4> QED BY <1>0, <1>2, <2>1, <2>13, <2>14, <3>1, <4>1 DEF StoreInv
    <3> QED BY <3>2, <3>3
  <2>16. CallInv'
    BY <2>1, <2>12, <2>15 DEF CallInv, Loading, Formatting, Ready, DataInv
  <2>17. Spares
    BY <1>s, <1>2, <2>6 DEF Spares
  <2> QED BY <2>10, <2>11, <2>16, <2>17 DEF FsInv
<1> QED BY <1>3, <1>4

\* The superblock, and the call returns.
LEMMA StoreSuperKeeps == FsInv /\ StoreSuper => FsInv' /\ (Spares \/ Settles)
<1> SUFFICES ASSUME FsInv, StoreSuper PROVE FsInv' /\ (Spares \/ Settles)
  OBVIOUS
<1>s. /\ call.pc = "storeSuper" /\ Types /\ DiskInv /\ Shaped(call) /\ call.cmd = "save"
      /\ call.name \in Names /\ call.len \in 0 .. MaxLen /\ call.slot \in Slots
      /\ call.start \in DataLba .. DiskSectors /\ call.start \in Nat
      /\ SectorsFor(call.len) \in Nat /\ Below(disk, exposed, call.start) /\ SaveInv
  BY SavingIs DEF StoreSuper, Saving
<1>0. /\ table[call.slot] = NewEntry /\ sb = call.start + SectorsFor(call.len)
      /\ Unwritten(disk, call, call.len)
      /\ ~call.lost => Agree(disk, table, TableSectors) /\ call.name \in exposed
  BY <1>s DEF FsInv, CallInv, StoreInv
<1>1. PICK o \in Outcomes :
        /\ Write(0, SuperSector(sb), o)
        /\ Return(o # "refused")
        /\ IF o = "ok" /\ ~call.lost
           THEN /\ exposed' = exposed \ {call.name}
                /\ acked' = [acked EXCEPT ![call.name] =
                               ContentOf(call.name, call.save, call.len)]
           ELSE exposed' = Doubtful(o) /\ UNCHANGED acked
  BY DEF StoreSuper
<1>2. /\ UNCHANGED <<readFault, present, kind, sb, table, saves>> /\ call' = NoCall
      /\ o = "ok" => disk' = [disk EXCEPT ![0] = SuperSector(sb)]
      /\ o # "ok" => disk' = disk
  BY <1>1, WriteIs DEF StoreSuper, memory, Return
<1>3. CallInv'
  BY <1>2, NoCallIs, Elsewhere DEF Reading
<1>4. Layout(disk') /\ exposed' \subseteq Names /\ DOMAIN acked' = Names => Types'
  BY <1>s, <1>2, NoCallIs DEF Types, Mounting
<1>5. CASE o # "ok"
  <2>1. disk' = disk /\ acked' = acked /\ exposed \subseteq exposed' /\ exposed' \subseteq Names
    BY <1>s, <1>1, <1>2, <1>5 DEF Doubtful, Types
  <2>2. Types'
    BY <1>s, <1>4, <2>1 DEF Types
  <2>3. DiskInv'
    BY <1>s, <1>2, <2>1, MoreDoubt DEF DiskInv
  <2>4. Spares
    BY <1>s, <1>1, <1>5, <2>1 DEF Spares, Doubtful
  <2> QED BY <1>3, <2>2, <2>3, <2>4 DEF FsInv
<1>6. CASE o = "ok"
  <2>1. sb \in DataLba .. DiskSectors
    <3>1. sb \in {BadSB} \cup DataLba .. DiskSectors
      BY <1>s DEF Types
    <3> QED BY <1>s, <1>0, <3>1, Sizes
  <2>2. Below(disk, exposed, sb)
    <3>1. ASSUME NEW n \in Names \ exposed, EntriesOf(disk, n) # {}
          PROVE  Within(EntryOf(disk, n), sb)
      <4>1. Within(EntryOf(disk, n), call.start)
        BY <1>s, <3>1 DEF Below
      <4>2. EntryOf(disk, n).start \in Nat /\ SectorsFor(EntryOf(disk, n).size) \in Nat
        <5>1. EntryOf(disk, n) \in Entry
          BY <1>s, <3>1, FirstEntry, EntryTyped DEF EntryOf, Types
        <5> QED BY <5>1 DEF Entry, SectorsFor
      <4> QED BY <1>s, <1>0, <4>1, <4>2 DEF Within
    <3> QED BY <3>1 DEF Below
  <2>3. /\ Layout(disk') /\ Good(disk') /\ Sound(disk', exposed)
        /\ \A n : EntriesOf(disk', n) = EntriesOf(disk, n)
        /\ \A n : EntriesOf(disk, n) # {} => EntryOf(disk', n) = EntryOf(disk, n)
        /\ \A i \in Slots : DiskEntry(disk', i) = DiskEntry(disk, i)
        /\ \A n \in Names \ exposed : File(disk', n) = File(disk, n)
        /\ \A l \in DataLba .. DiskSectors - 1 : disk'[l] = disk[l]
    BY <1>s, <1>2, <1>6, <2>1, <2>2, Reframed DEF DiskInv, Types
  <2>4. ~readFault => \A n \in Names : \A i, j \in EntriesOf(disk', n) : i = j
    BY <1>s, <2>3 DEF DiskInv, Strict
  <2>5. CASE call.lost
    <3>1. exposed' = exposed /\ acked' = acked
      BY <1>1, <1>6, <2>5 DEF Doubtful
    <3>2. ~readFault => Strict(disk', exposed, acked)
      BY <1>s, <2>3, <2>4 DEF DiskInv, Strict
    <3>3. Types'
      BY <1>s, <1>4, <2>3, <3>1 DEF Types
    <3>4. DiskInv'
      BY <1>2, <2>3, <3>1, <3>2 DEF DiskInv
    <3>5. Spares
      BY <2>3, <3>1 DEF Spares
    <3> QED BY <1>3, <3>3, <3>4, <3>5 DEF FsInv
  <2>6. CASE ~call.lost
    <3> DEFINE n == call.name
               new == ContentOf(n, call.save, call.len)
    <3>1. exposed' = exposed \ {n} /\ acked' = [acked EXCEPT ![n] = new]
      BY <1>1, <1>6, <2>6
    <3>2. \A j \in Slots : DiskEntry(disk', j) = table[j]
      <4>1. ASSUME NEW j \in Slots PROVE table[j] = DiskEntry(disk, j)
        <5>1. j \div PerSector < TableSectors
          BY SectorOf, Sizes
        <5> QED BY <1>0, <2>6, <5>1 DEF Agree
      <4> QED BY <2>3, <4>1
    <3>3. EntriesOf(disk', n) # {} /\ EntryOf(disk', n) = NewEntry
      <4>1. call.slot \in EntriesOf(disk', n)
        BY <1>s, <1>0, <3>2 DEF EntriesOf, NewEntry
      <4>2. \A j \in EntriesOf(disk', n) : j = call.slot \/ j > call.slot
        BY <1>s, <3>2 DEF SaveInv, Saving, EntriesOf
      <4>3. /\ Min(EntriesOf(disk', n)) \in EntriesOf(disk', n)
            /\ Min(EntriesOf(disk', n)) \in Slots /\ Min(EntriesOf(disk', n)) <= call.slot
        BY <4>1, FirstEntry
      <4>4. Min(EntriesOf(disk', n)) = call.slot
        <5>1. Min(EntriesOf(disk', n)) \in Nat /\ call.slot \in Nat
          BY <1>s, <4>3, Sizes
        <5> QED BY <4>2, <4>3, <5>1
      <4> QED BY <1>s, <1>0, <3>2, <4>1, <4>4 DEF EntryOf
    <3>4. Within(EntryOf(disk', n), sb) /\ SuperIn(disk'[0]) = sb
      <4>1. SuperIn(disk'[0]) = sb
        BY <1>s, <1>2, <1>6, <2>1, SuperWritten DEF Types
      <4> QED BY <1>s, <1>0, <3>3, <4>1, Sizes DEF Within, NewEntry
    <3>5. File(disk', n) = new
      <4>1. File(disk', n) = [i \in 1 .. call.len |-> disk'[call.start + i - 1]]
        BY <2>3, <3>3 DEF File, NewEntry
      <4>2. ASSUME NEW i \in 1 .. call.len
            PROVE  disk'[call.start + i - 1] = DataSector(n, call.save, i - 1)
        <5>1. i - 1 \in 0 .. call.len - 1 /\ call.start + (i - 1) = call.start + i - 1
          BY <1>s, <4>2, Sizes
        <5>2. disk[call.start + (i - 1)] = DataSector(n, call.save, i - 1)
          BY <1>0, <2>6, <5>1 DEF Unwritten
        <5>3. call.start + i - 1 \in DataLba .. DiskSectors - 1
          <6>1. call.len \in Nat /\ call.len # 0
            BY <1>s, <4>2, Sizes
          <6>2. sb = call.start + call.len
            BY <1>0, <6>1 DEF SectorsFor
          <6> QED BY <1>s, <2>1, <4>2, <6>1, <6>2, Sizes
        <5>4. disk'[call.start + i - 1] = disk[call.start + i - 1]
          BY <2>3, <5>3
        <5> QED BY <5>1, <5>2, <5>4
      <4> QED BY <4>1, <4>2 DEF ContentOf
    <3>6. new \in SavesOf(n)
      <4>1. call.save \in 0 .. MaxSaves
        BY <1>s DEF Shaped
      <4> QED BY <1>s, <4>1 DEF SavesOf
    <3> HIDE DEF new
    <3>7. Sound(disk', exposed')
      <4>1. Below(disk', exposed', sb)
        BY <2>3, <3>1, <3>3, <3>4 DEF Below, Sound
      <4>2. \A m \in Names \ exposed' : EntriesOf(disk', m) # {} => File(disk', m) \in SavesOf(m)
        BY <2>3, <3>1, <3>5, <3>6 DEF Sound
      <4> QED BY <2>3, <3>4, <4>1, <4>2 DEF Sound
    <3>8. ~readFault => Strict(disk', exposed', acked')
      <4>1. \A m \in Names \ exposed' : m = n \/ m \in Names \ exposed
        BY <3>1
      <4>2. acked'[n] = new /\ \A m \in Names \ {n} : acked'[m] = acked[m]
        BY <1>s, <3>1 DEF Types
      <4> QED BY <1>s, <2>3, <2>4, <3>5, <4>1, <4>2 DEF DiskInv, Strict
    <3>9. Types'
      BY <1>s, <1>4, <2>3, <3>1 DEF Types
    <3>10. DiskInv'
      BY <1>2, <3>7, <3>8 DEF DiskInv
    <3>11. Settles
      BY <1>s, <1>0, <2>3, <2>6, <3>1, <3>5, <3>6 DEF Settles
    <3> QED BY <1>3, <3>9, <3>10, <3>11 DEF FsInv
  <2> QED BY <2>5, <2>6
<1> QED BY <1>5, <1>6

-----------------------------------------------------------------------------
(* The theorems. *)

\* A step of the driver, the file system or its caller that asks for no drive.
Probing == ProbeSlave \/ ProbeMaster

LEMMA UseIs ==
  FsInv /\ [Next]_vars /\ ~Probing => FsInv' /\ (Spares \/ Settles \/ Doubts \/ Forgets)
<1> SUFFICES ASSUME FsInv, [Next]_vars, ~Probing
             PROVE  FsInv' /\ (Spares \/ Settles \/ Doubts \/ Forgets)
  OBVIOUS
<1>0. disk' = disk /\ exposed' = exposed => Spares
  BY DEF Spares
<1>1. ASSUME NEW cmd, NEW n, NEW len \in 0 .. MaxLen, cmd = "save" => n \in Names,
             Call(cmd, n, len)
      PROVE  FsInv' /\ Spares
  BY <1>0, <1>1, CallKeeps DEF Call, history
<1>2. 0 \in 0 .. MaxLen
  BY Sizes
<1>3. CASE CallMount
  BY <1>1, <1>2, <1>3 DEF CallMount
<1>4. CASE CallWall
  BY <1>1, <1>2, <1>4 DEF CallWall
<1>5. ASSUME NEW n \in Names, CallSave(n) PROVE FsInv' /\ Spares
  BY <1>1, <1>5 DEF CallSave
<1>6. ASSUME NEW n \in Names, CallView(n) PROVE FsInv' /\ Spares
  BY <1>1, <1>2, <1>6 DEF CallView
<1>7. ASSUME NEW n \in Names, CallOpen(n) PROVE FsInv' /\ Spares
  BY <1>1, <1>2, <1>7 DEF CallOpen
<1>9. CASE MountFat \/ ScanRoot \/ NextRoot
  BY <1>0, <1>9, FatKeeps DEF MountFat, ScanRoot, NextRoot, Read
<1>10. CASE LoadSuper
  BY <1>0, <1>10, LoadSuperKeeps DEF LoadSuper, Read
<1>11. CASE LoadTable
  BY <1>0, <1>11, LoadTableKeeps DEF LoadTable, Read
<1>12. CASE FormatSuper
  BY <1>12, FormatSuperKeeps
<1>13. CASE FormatTable
  BY <1>13, FormatTableKeeps
<1>14. CASE Mounted
  BY <1>0, <1>14, MountedKeeps DEF Mounted, history
<1>15. CASE SaveBegin
  BY <1>0, <1>15, SaveBeginKeeps DEF SaveBegin, history
<1>16. CASE WriteData
  BY <1>16, WriteDataKeeps
<1>17. CASE StoreTable
  BY <1>17, StoreTableKeeps
<1>18. CASE StoreSuper
  BY <1>18, StoreSuperKeeps
<1>19. CASE ReadBegin \/ ReadFat \/ NextCluster \/ ReadData
  <2>1. disk' = disk /\ exposed' = exposed
    BY <1>19 DEF ReadBegin, ReadFat, NextCluster, ReadData, Read, history
  <2> QED BY <1>0, <1>19, <2>1, ReadersKeep
<1>20. CASE PowerFailure
  BY <1>0, <1>20, PowerFailureKeeps DEF PowerFailure, history
<1>21. CASE UNCHANGED vars
  <2>1. UNCHANGED <<disk, present, kind, sb, table, call, saves, readFault, acked, exposed>>
    BY <1>21 DEF vars, memory, history
  <2>2. Types' /\ DiskInv'
    BY <2>1 DEF FsInv, Types, DiskInv
  <2>3. CallInv'
    <3>1. NewEntry' = NewEntry
      BY <2>1 DEF NewEntry
    <3>2. Loading' /\ Formatting' /\ Ready'
      BY <2>1 DEF FsInv, CallInv, Loading, Formatting, Ready
    <3>3. SaveInv' /\ DataInv' /\ StoreInv'
      BY <2>1, <3>1 DEF FsInv, CallInv, SaveInv, DataInv, StoreInv
    <3> QED BY <3>2, <3>3 DEF CallInv
  <2> QED BY <1>0, <2>1, <2>2, <2>3 DEF FsInv
<1> QED BY <1>3, <1>4, <1>5, <1>6, <1>7, <1>9, <1>10, <1>11, <1>12, <1>13, <1>14, <1>15,
           <1>16, <1>17, <1>18, <1>19, <1>20, <1>21 DEF Next, Probing

\* ... leaves the drives as they are.
LEMMA DrivesStay ==
  FsInv /\ [Next]_vars /\ ~Probing
    => /\ UNCHANGED drives /\ (readFault => readFault')
       /\ call'.pc # "probeMaster" \/ UNCHANGED call
       /\ switched' \in {FALSE, switched}
<1> SUFFICES ASSUME FsInv, [Next]_vars, ~Probing
             PROVE  /\ UNCHANGED drives /\ (readFault => readFault')
                    /\ call'.pc # "probeMaster" \/ UNCHANGED call
                    /\ switched' \in {FALSE, switched}
  OBVIOUS
<1> DEFINE Good2 == /\ UNCHANGED drives /\ (readFault => readFault')
                    /\ call'.pc # "probeMaster" \/ UNCHANGED call
                    /\ switched' \in {FALSE, switched}
<1>0. DOMAIN call = Fields /\ NoCall.pc = "idle"
  BY NoCallIs DEF FsInv, Types, Shaped
<1>1. ASSUME NEW cmd, NEW n, NEW len, Call(cmd, n, len) PROVE Good2
  BY <1>1 DEF Call, memory, history, NoCall
<1>2. CASE \/ CallMount \/ CallWall
           \/ \E n \in Names : CallSave(n) \/ CallView(n) \/ CallOpen(n)
  <2>1. \E cmd, n, len : Call(cmd, n, len)
    BY Zenon, <1>2 DEF CallMount, CallWall, CallSave, CallView, CallOpen
  <2> QED BY <1>1, <2>1
<1>3. CASE MountFat \/ ScanRoot \/ NextRoot \/ LoadSuper \/ LoadTable
  <2>1. PICK lba, o : Read(lba, o)
    BY <1>3 DEF MountFat, ScanRoot, NextRoot, LoadSuper, LoadTable
  <2>2. UNCHANGED drives /\ (readFault => readFault')
    BY <2>1 DEF Read
  <2>3. switched' \in {FALSE, switched}
    BY <1>3 DEF MountFat, ScanRoot, NextRoot, LoadSuper, LoadTable, BeginFormat
  <2>4. call'.pc # "probeMaster"
    <3>1. CASE MountFat \/ ScanRoot \/ NextRoot
      BY <1>0, <3>1 DEF MountFat, ScanRoot, NextRoot, NotFat, FatMounted, Goto, Fields
    <3>2. CASE LoadSuper \/ LoadTable
      BY <1>0, <3>2 DEF LoadSuper, LoadTable, BeginFormat, Goto, Fail, Return, Fields
    <3> QED BY <1>3, <3>1, <3>2
  <2> QED BY <2>2, <2>3, <2>4
<1>4. CASE FormatSuper \/ FormatTable \/ WriteData \/ StoreTable \/ StoreSuper
  <2>1. PICK lba, content, o : Write(lba, content, o)
    BY <1>4 DEF FormatSuper, FormatTable, WriteData, StoreTable, StoreSuper
  <2>2. UNCHANGED drives /\ readFault' = readFault
    BY <2>1 DEF Write
  <2>3. switched' = switched
    BY <1>4 DEF FormatSuper, FormatTable, WriteData, StoreTable, StoreSuper, memory
  <2>4. call'.pc # "probeMaster"
    <3>1. CASE FormatSuper \/ FormatTable \/ StoreSuper
      BY <1>0, <3>1 DEF FormatSuper, FormatTable, StoreSuper, Goto, Fail, Return, Fields
    <3>2. CASE WriteData
      BY <1>0, <3>2 DEF WriteData, Fail, Return, Fields
    <3>3. CASE StoreTable
      BY <1>0, <3>3 DEF StoreTable, Fail, Return, Fields
    <3> QED BY <1>4, <3>1, <3>2, <3>3
  <2> QED BY <2>2, <2>3, <2>4
<1>6. CASE Mounted \/ SaveBegin
  <2>1. call'.pc \in {"idle", "ready", "data"}
    BY <1>0, <1>6 DEF Mounted, SaveBegin, Goto, Fail, Return, Fields
  <2>2. UNCHANGED <<drives, memory, history>>
    BY <1>6 DEF Mounted, SaveBegin
  <2> QED BY <2>1, <2>2 DEF memory, history
<1>7. CASE ReadBegin
  <2>1. call'.pc \in {"idle", "read", "readFat"}
    BY <1>0, <1>7 DEF ReadBegin, ReadFile, ReturnFile, Fail, Return, Fields
  <2> QED BY <1>7, <2>1 DEF ReadBegin, memory, history
<1>8. CASE ReadData \/ ReadFat
  BY <1>0, <1>8 DEF ReadData, ReadFat, Read, ReturnFile, Fail, Return, Fields, memory
<1>9. CASE NextCluster
  <2>1. call'.pc \in {"idle", "readFat"}
    BY <1>0, <1>9 DEF NextCluster, ReturnFile, Fail, Return, Fields
  <2> QED BY <1>9, <2>1 DEF NextCluster, Read, memory
<1>10. CASE PowerFailure
  BY <1>0, <1>10 DEF PowerFailure, history
<1>11. CASE UNCHANGED vars
  BY <1>11 DEF vars, memory, history
<1> QED BY <1>2, <1>3, <1>4, <1>6, <1>7, <1>8, <1>9, <1>10, <1>11 DEF Next, Probing

LEMMA NextIs ==
  Storage /\ [Next]_vars
    => /\ Storage'
       /\ \/ Probing /\ (Stays \/ Swaps)
          \/ ~Probing /\ UNCHANGED drives /\ (Spares \/ Settles \/ Doubts \/ Forgets)
<1> SUFFICES ASSUME Storage, [Next]_vars
             PROVE  /\ Storage'
                    /\ \/ Probing /\ (Stays \/ Swaps)
                       \/ /\ ~Probing /\ UNCHANGED drives
                          /\ Spares \/ Settles \/ Doubts \/ Forgets
  OBVIOUS
<1>1. CASE Probing
  BY <1>1, ProbeKeeps DEF Probing
<1>2. CASE ~Probing
  <2>1. FsInv' /\ (Spares \/ Settles \/ Doubts \/ Forgets)
    BY <1>2, UseIs DEF Storage
  <2>2. /\ UNCHANGED drives /\ (readFault => readFault')
        /\ call'.pc # "probeMaster" \/ UNCHANGED call
        /\ switched' \in {FALSE, switched}
    BY <1>2, DrivesStay DEF Storage
  <2>3. AwayInv'
    <3>1. UNCHANGED <<drive, away, attached>> /\ Preferred' = Preferred
      BY <2>2 DEF drives, Preferred
    <3> QED BY <2>2, <3>1 DEF Storage, AwayInv
  <2> QED BY <1>2, <2>1, <2>2, <2>3 DEF Storage
<1> QED BY <1>1, <1>2

\* The disk in use and the call in progress agree in every reachable state, and the
\* other disk is in order, whichever drive ata_pio_init took (simplefs.c: a save
\* appends its data, then stores the directory, then the superblock).
THEOREM StorageInvariant == Spec => []Storage
<1>1. Storage /\ [Next]_vars => Storage'
  BY NextIs
<1> QED BY InitSound, <1>1, PTL DEF Spec

\* The regions of the disk hold their own kinds of sectors and the files no save is
\* being made of lie below next_free_lba, after any steps, faults and power
\* failures.
THEOREM FrontierHolds == Spec => []FrontierCovers
<1>1. ASSUME NEW d, Layout(d) PROVE Laid(d)
  <2>1. ASSUME NEW l \in Sectors
        PROVE  CASE l = 0 -> d[l].kind = "super" => d[l].next \in DataLba .. DiskSectors
                 [] l \in TableLba .. DataLba - 1 ->
                      d[l].kind = "table" => d[l].ents \in [InTableSector(l - TableLba) -> Entry]
                 [] OTHER -> d[l].kind \in {"zero", "data"} \cup FatKinds
    <3>1. CASE l = 0
      <4>1. l \notin TableLba .. DataLba - 1
        BY <3>1, Sizes
      <4> QED BY <1>1, <3>1, <4>1 DEF Layout
    <3>2. CASE l \in TableLba .. DataLba - 1
      <4>1. l # 0 /\ l \in TableLbas
        BY <3>2, Sizes DEF TableLbas
      <4> QED BY <1>1, <3>2, <4>1 DEF Layout
    <3>3. CASE l # 0 /\ l \notin TableLba .. DataLba - 1
      <4>1. l \in DataLba .. DiskSectors - 1
        BY <3>3, Sizes DEF Sectors
      <4>2. d[l].kind \in {"zero", "data"} \cup FatKinds
        BY <1>1, <4>1 DEF Layout
      <4> QED BY <3>3, <4>2
    <3> QED BY <3>1, <3>2, <3>3
  <2> QED BY <1>1, <2>1 DEF Laid, Layout
<1>2. Storage => FrontierCovers
  <2> SUFFICES ASSUME Storage PROVE FrontierCovers
    OBVIOUS
  <2>1. Types /\ DiskInv /\ AwayInv
    BY DEF Storage, FsInv
  <2>2. TypeOK
    BY <1>1, <2>1 DEF Types, AwayInv, TypeOK
  <2>3. Covers(disk, exposed) /\ Covers(away.disk, away.exposed)
    BY <2>1, Spelled DEF DiskInv, AwayInv, Sound
  <2> QED BY <2>2, <2>3 DEF FrontierCovers
<1> QED BY <1>2, StorageInvariant, PTL

\* Unless a read failed, a name has one directory entry (sfs_find and the first
\* unused slot agree about it, whatever was interrupted).
THEOREM OneEntry == Spec => []OneEntryPerName
<1>1. Storage => OneEntryPerName
  <2> SUFFICES ASSUME Storage, ~readFault, NEW n \in Names
               PROVE  Cardinality(EntriesOf(disk, n)) <= 1
    BY DEF OneEntryPerName
  <2>1. \A i, j \in EntriesOf(disk, n) : i = j
    BY DEF Storage, FsInv, DiskInv, Strict
  <2>2. CASE EntriesOf(disk, n) = {}
    BY <2>2, FS_EmptySet
  <2>3. CASE EntriesOf(disk, n) # {}
    <3>1. PICK i : EntriesOf(disk, n) = {i}
      BY <2>1, <2>3
    <3>2. Cardinality({i}) = 1
      BY FS_Singleton
    <3> QED BY <3>1, <3>2
  <2> QED BY <2>2, <2>3
<1> QED BY <1>1, StorageInvariant, PTL

\* A save that returned 1 stays on the disk until its name is saved again, unless a
\* read failed: no other save, no refused or lost write of one, and no power
\* failure takes it away.
THEOREM AckedSavesStay == Spec => []AckedSavesSurvive
<1>1. Storage => AckedSavesSurvive
  BY Spelled DEF Storage, FsInv, DiskInv, Strict, AckedSavesSurvive
<1> QED BY <1>1, StorageInvariant, PTL

-----------------------------------------------------------------------------
(* The refinement of the abstract store. *)

LEMMA SavesAre == \A n \in Names : SavesOf(n) \subseteq Contents
BY DEF SavesOf, Contents

LEMMA Told == NoContent \notin Contents /\ InDoubt \notin Contents /\ InDoubt # NoContent
<1>1. NoContent[1].kind = "zero" /\ InDoubt[1].kind = "doubt"
      /\ DOMAIN NoContent = 1 .. 1 /\ DOMAIN InDoubt = 1 .. 1
  BY DEF NoContent, InDoubt, ZeroSector
<1>2. ASSUME NEW c \in Contents, DOMAIN c = 1 .. 1 PROVE c[1].kind = "data"
  <2>1. PICK n \in Names, v \in 0 .. MaxSaves, len \in 0 .. MaxLen :
          c = [i \in 1 .. len |-> DataSector(n, v, i - 1)]
    BY DEF Contents, ContentOf
  <2>2. 1 \in 1 .. len
    <3>1. 1 \in 1 .. 1 /\ DOMAIN c = 1 .. len
      BY <2>1
    <3> QED BY <1>2, <3>1
  <2> QED BY <2>1, <2>2 DEF DataSector
<1> HIDE DEF NoContent, InDoubt
<1>3. NoContent \notin Contents /\ InDoubt \notin Contents
  BY <1>1, <1>2
<1> QED BY <1>1, <1>3

\* What a store holds, of disk d with the names of doubt in doubt.
Holds(held, d, doubt) ==
  /\ \A n \in Names : /\ held[n] = IF n \in doubt THEN InDoubt ELSE File(d, n)
                      /\ held[n] = InDoubt <=> n \in doubt
                      /\ held[n] = NoContent <=> n \notin doubt /\ n \notin Listed(d)
  /\ held \in [Names -> Contents \cup {NoContent, InDoubt}]

LEMMA HoldingIs ==
  ASSUME NEW d, NEW doubt, Sound(d, doubt)
  PROVE  Holds(Holding(d, doubt), d, doubt)
<1> DEFINE held == Holding(d, doubt)
<1>1. /\ \A n \in Names : held[n] = IF n \in doubt THEN InDoubt ELSE File(d, n)
      /\ held = [n \in Names |-> held[n]]
  BY Spelled DEF Holding
<1>2. ASSUME NEW n \in Names \ doubt
      PROVE  /\ n \in Listed(d) => File(d, n) \in Contents
             /\ n \notin Listed(d) => File(d, n) = NoContent
  <2>1. n \in Listed(d) <=> EntriesOf(d, n) # {}
    BY DEF Listed
  <2>2. n \in Listed(d) => Good(d)
    BY DEF Sound
  <2> QED BY <2>1, <2>2, SavesAre DEF Sound, File
<1> HIDE DEF held
<1>3. \A n \in Names : /\ held[n] = InDoubt <=> n \in doubt
                       /\ held[n] = NoContent <=> n \notin doubt /\ n \notin Listed(d)
                       /\ held[n] \in Contents \cup {NoContent, InDoubt}
  BY <1>1, <1>2, Told
<1> QED BY <1>1, <1>3 DEF held, Holds

\* A step of the abstract store, from one content to another.
Moves(c, e) ==
  \/ \E n \in Names : e = [c EXCEPT ![n] = InDoubt]
  \/ \E n \in Names, v \in Contents : c[n] = InDoubt /\ e = [c EXCEPT ![n] = v]
  \/ e = [n \in Names |-> IF c[n] = NoContent THEN NoContent ELSE InDoubt]
  \/ \E S \in SUBSET Names :
       (\A n \in S : c[n] = InDoubt) /\ e = [n \in Names |-> IF n \in S THEN NoContent ELSE c[n]]

\* What a step does to the drive in use is a step of the store, or none.
LEMMA StepsMap ==
  ASSUME Sound(disk, exposed), Sound(disk', exposed'), Spares \/ Settles \/ Doubts \/ Forgets
  PROVE  LET c == Holding(disk, exposed)
             e == Holding(disk', exposed')
         IN e = c \/ Moves(c, e)
<1> DEFINE c == Holding(disk, exposed)
           e == Holding(disk', exposed')
<1>0. Holds(c, disk, exposed) /\ Holds(e, disk', exposed')
  BY HoldingIs
<1> HIDE DEF c, e
<1>2. CASE Spares
  <2>1. CASE exposed' = exposed
    <3>1. \A n \in Names : e[n] = c[n]
      BY <1>0, <1>2, <2>1 DEF Holds, Spares
    <3> QED BY <1>0, <3>1 DEF Holds, c, e
  <2>2. CASE exposed' # exposed
    <3>1. call.name \in Names /\ exposed' = exposed \cup {call.name}
      BY <1>2, <2>2 DEF Spares
    <3>2. \A n \in Names : e[n] = IF n = call.name THEN InDoubt ELSE c[n]
      BY <1>0, <1>2, <3>1 DEF Holds, Spares
    <3>3. e = [c EXCEPT ![call.name] = InDoubt]
      BY <1>0, <3>2 DEF Holds
    <3> QED BY <3>1, <3>3 DEF Moves, c, e
  <2> QED BY <2>1, <2>2
<1>3. CASE Settles
  <2> DEFINE v == File(disk', call.name)
  <2>1. call.name \in Names /\ call.name \in exposed /\ call.name \notin exposed' /\ v \in Contents
    BY <1>3, SavesAre DEF Settles
  <2>2. \A n \in Names : e[n] = IF n = call.name THEN v ELSE c[n]
    BY <1>0, <1>3 DEF Holds, Settles
  <2> HIDE DEF v
  <2>3. c[call.name] = InDoubt /\ e = [c EXCEPT ![call.name] = v]
    BY <1>0, <2>1, <2>2 DEF Holds
  <2> QED BY <2>1, <2>3 DEF Moves, c, e
<1>4. CASE Doubts
  <2>1. \A n \in Names : e[n] = IF c[n] = NoContent THEN NoContent ELSE InDoubt
    BY <1>0, <1>4 DEF Holds, Doubts
  <2>2. e = [n \in Names |-> IF c[n] = NoContent THEN NoContent ELSE InDoubt]
    BY <1>0, <2>1 DEF Holds
  <2> QED BY <2>2 DEF Moves, c, e
<1>5. CASE Forgets
  <2> DEFINE S == Listed(disk) \ Listed(disk')
  <2>1. S \in SUBSET Names /\ \A n \in S : c[n] = InDoubt
    BY <1>0, <1>5 DEF Holds, Forgets, Listed
  <2>2. \A n \in Names : e[n] = IF n \in S THEN NoContent ELSE c[n]
    BY <1>0, <1>5 DEF Holds, Forgets
  <2> HIDE DEF S
  <2>3. e = [n \in Names |-> IF n \in S THEN NoContent ELSE c[n]]
    BY <1>0, <2>2 DEF Holds
  <2> QED BY <2>1, <2>3 DEF Moves, c, e
<1> QED BY <1>2, <1>3, <1>4, <1>5

\* The drive in use steps as its store does, the other one keeps what it holds; a
\* mount that changes the drives round changes neither.
LEMMA EachDrive ==
  ASSUME Storage, Storage', [Next]_vars, NEW d \in Drives
  PROVE  HeldBy(d)' = HeldBy(d) \/ Moves(HeldBy(d), HeldBy(d)')
<1>1. HeldBy(d) = IF d = drive THEN Holding(disk, exposed)
                  ELSE Holding(away.disk, away.exposed)
  BY DEF HeldBy
<1>2. HeldBy(d)' = IF d = drive' THEN Holding(disk', exposed')
                   ELSE Holding(away'.disk, away'.exposed)
  BY DEF HeldBy, Holding
<1>3. drive \in Drives /\ drive' \in Drives
  BY DEF Storage, AwayInv
<1>4. CASE Probing
  <2>1. Stays \/ Swaps
    BY <1>4, NextIs
  <2>2. CASE Stays
    BY <1>1, <1>2, <2>2 DEF Stays
  <2>3. CASE Swaps
    BY <1>1, <1>2, <1>3, <2>3 DEF Swaps, Drives
  <2> QED BY <2>1, <2>2, <2>3
<1>5. CASE ~Probing
  <2>1. UNCHANGED <<drive, away>> /\ (Spares \/ Settles \/ Doubts \/ Forgets)
    BY <1>5, NextIs DEF drives
  <2>2. Sound(disk, exposed) /\ Sound(disk', exposed')
    BY DEF Storage, FsInv, DiskInv
  <2>3. LET c == Holding(disk, exposed)
            e == Holding(disk', exposed')
        IN e = c \/ Moves(c, e)
    BY <2>1, <2>2, StepsMap
  <2>4. CASE d = drive
    BY <1>1, <1>2, <2>1, <2>3, <2>4
  <2>5. CASE d # drive
    BY <1>1, <1>2, <2>1, <2>5
  <2> QED BY <2>4, <2>5
<1> QED BY <1>4, <1>5

\* The file system implements the abstract store (FileStore) on each drive: no step,
\* no fault, no power failure and no change of drives damages a name that is not
\* being saved, except formatting, which first puts every name of that drive in
\* doubt.
THEOREM StoreImplemented == Spec => ImplementsStore
<1>1. ASSUME Storage, NEW d \in Drives
      PROVE  HeldBy(d) \in [Names -> Contents \cup {NoContent, InDoubt}]
  <2>1. Sound(disk, exposed) /\ Sound(away.disk, away.exposed)
    BY <1>1 DEF Storage, FsInv, DiskInv, AwayInv
  <2> QED BY <2>1, HoldingIs DEF HeldBy, Holds
<1>2. "slave" \in Drives /\ "master" \in Drives
  BY DEF Drives
<1>3. Storage => SlaveStore!StoreInit /\ MasterStore!StoreInit
  BY <1>1, <1>2 DEF SlaveStore!StoreInit, SlaveStore!StoreTypeOK, MasterStore!StoreInit,
    MasterStore!StoreTypeOK
<1>4. Storage /\ Storage' /\ [Next]_vars => [SlaveStore!StoreNext]_(HeldBy("slave"))
  BY <1>2, EachDrive DEF Moves, SlaveStore!StoreNext, SlaveStore!Doubt, SlaveStore!Settle,
    SlaveStore!DoubtAll, SlaveStore!Forget
<1>5. Storage /\ Storage' /\ [Next]_vars => [MasterStore!StoreNext]_(HeldBy("master"))
  BY <1>2, EachDrive DEF Moves, MasterStore!StoreNext, MasterStore!Doubt, MasterStore!Settle,
    MasterStore!DoubtAll, MasterStore!Forget
<1> QED BY InitSound, <1>3, <1>4, <1>5, StorageInvariant, PTL
        DEF Spec, ImplementsStore, SlaveStore!StoreSpec, MasterStore!StoreSpec

-----------------------------------------------------------------------------
(* The beginning of a file. *)

Beginning(c, n) == [k \in 1 .. n |-> c[k]]

LEMMA BeginningIs ==
  ASSUME NEW c, NEW n \in Nat, NEW S, \A k \in 1 .. n : c[k] \in S
  PROVE  Beginning(c, n) \in Seq(S) /\ Len(Beginning(c, n)) = n
BY DEF Beginning

LEMMA NoBeginning == ASSUME NEW c PROVE Beginning(c, 0) = <<>>
BY DEF Beginning

LEMMA Longer ==
  ASSUME NEW c, NEW i \in Nat
  PROVE  Append(Beginning(c, i), c[i + 1]) = Beginning(c, i + 1)
<1> DEFINE S == {c[k] : k \in 1 .. i + 1}
           b == Beginning(c, i)
           a == Append(b, c[i + 1])
<1>1. b \in Seq(S) /\ Len(b) = i /\ \A k \in 1 .. i : b[k] = c[k]
  BY BeginningIs DEF Beginning
<1>2. c[i + 1] \in S
  OBVIOUS
<1> HIDE DEF S, b
<1>3. a \in Seq(S) /\ Len(a) = i + 1 /\ \A k \in 1 .. i + 1 : a[k] = c[k]
  BY <1>1, <1>2, AppendProperties
<1>4. a = [k \in 1 .. i + 1 |-> a[k]]
  BY <1>3, LenProperties
<1> HIDE DEF a
<1>5. a = Beginning(c, i + 1)
  BY <1>3, <1>4 DEF Beginning
<1> QED BY <1>5 DEF a, b

LEMMA CutIs ==
  ASSUME NEW c, NEW n \in Nat PROVE SubSeq(c, 1, n) = Beginning(c, n)
<1> DEFINE S == {c[k] : k \in 1 .. n}
           a == SubSeq(c, 1, n)
<1>1. a \in Seq(S) /\ Len(a) = n /\ \A k \in 1 .. n : a[k] = c[k]
  BY SubSeqProperties
<1>2. a = [k \in 1 .. n |-> a[k]]
  BY <1>1, LenProperties
<1> HIDE DEF a
<1> QED BY <1>1, <1>2 DEF Beginning, a

-----------------------------------------------------------------------------
(* What a read of an SFS disk gives. *)

\* The entry of a directory a reader of n uses (Find, of a directory that is
\* given), and the sectors an entry tells of.
FindIn(t, n) == {i \in Slots : t[i].used /\ t[i].name = n}
First(t, n)  == t[Min(FindIn(t, n))]
Extent(d, e) == [k \in 1 .. e.size |-> d[e.start + k - 1]]

\* The directory in memory leads to whole saves, between calls too, as long as it is
\* of the drive in use: the explorer opens what it has listed without mounting again.
Whole(t, d, n) ==
  LET e == First(t, n)
  IN e.start >= DataLba /\ e.start + e.size <= DiskSectors /\ Extent(d, e) \in SavesOf(n)

Listing ==
  call.pc # "table" /\ ~switched =>
    \A n \in Names \ exposed : FindIn(table, n) # {} => Whole(table, disk, n)

\* A save appends behind the files of the directory in memory.
Appending ==
  call.pc = "data" =>
    /\ ~table[call.slot].used \/ table[call.slot].name = call.name
    /\ \A n \in Names \ exposed : FindIn(table, n) # {} =>
         First(table, n).start + First(table, n).size <= call.start

Gathering == {"read", "readFat", "readNext"}
Readers   == {"view", "wall", "open"}

Asked ==
  /\ call.cmd \in Readers => call.name \in Names
  /\ call.pc \in Gathering => call.cmd \in Readers
  /\ call.pc \notin Gathering => call.data = <<>>
  /\ call.pc \notin Saving => ~call.lost
  /\ call.pc \in {"mounted", "ready"} => call.i = 0
  /\ call.pc \in {"super", "table", "formatSuper", "formatTable"} => kind = "sfs"
  /\ call.pc \in Saving => kind # "fat" /\ (call.lost => call.name \in exposed)
  /\ call.pc \in Saving \cup {"table", "formatSuper", "formatTable"} => ~switched
  /\ call.pc \in {"mounted", "ready"} /\ call.cmd # "open" /\ kind # "fat" => ~switched

\* The sectors read so far are the first of a save.
Gathered ==
  call.pc = "read" /\ call.name \notin exposed /\ (call.cmd = "open" => ~switched) =>
    \E c \in SavesOf(call.name) :
      /\ c = [k \in 1 .. call.size |-> disk[call.start + k - 1]]
      /\ call.start \in Nat /\ call.size \in Nat \ {0}
      /\ call.len = Min({call.size, Buffer(call.size)})
      /\ call.i \in 0 .. call.len - 1 /\ call.data = Beginning(c, call.i)
      /\ call.cmd # "open" => c = File(disk, call.name)

ReadInv == Listing /\ Appending /\ Asked /\ Gathered

LEMMA FindIs == \A n : Find(n) = FindIn(table, n)
BY DEF Find, FindIn

LEMMA FirstIn ==
  ASSUME NEW t, NEW n, FindIn(t, n) # {}
  PROVE  /\ Min(FindIn(t, n)) \in FindIn(t, n) /\ Min(FindIn(t, n)) \in Slots
         /\ \A i \in FindIn(t, n) : Min(FindIn(t, n)) <= i
<1>1. FindIn(t, n) \in SUBSET Nat /\ FindIn(t, n) \subseteq Slots
  BY Sizes DEF FindIn
<1> QED BY <1>1, Least

LEMMA FirstTyped ==
  ASSUME NEW t \in [Slots -> Entry], NEW n, FindIn(t, n) # {}
  PROVE  /\ First(t, n).start \in Nat /\ First(t, n).size \in Nat
         /\ SectorsFor(First(t, n).size) \in Nat
         /\ First(t, n).size <= SectorsFor(First(t, n).size)
<1>1. First(t, n) \in Entry
  BY FirstIn DEF First
<1>2. First(t, n).start \in Nat /\ First(t, n).size \in Nat
  BY <1>1 DEF Entry
<1> QED BY <1>2 DEF SectorsFor

\* A directory that agrees with the disk has the entry of the disk.
LEMMA FoundOnDisk ==
  ASSUME NEW d, NEW t \in [Slots -> Entry], NEW doubt, Layout(d), Sound(d, doubt),
         \A j \in Slots : Mirrors(d, doubt, t[j], j),
         NEW n \in Names \ doubt, FindIn(t, n) # {}
  PROVE  /\ EntriesOf(d, n) # {} /\ First(t, n) = EntryOf(d, n) /\ Good(d)
         /\ Extent(d, First(t, n)) = File(d, n) /\ Whole(t, d, n)
<1>1. \A j \in Slots : j \in FindIn(t, n) <=> j \in EntriesOf(d, n)
  BY DEF Mirrors, FindIn, EntriesOf, Named
<1>2. FindIn(t, n) \subseteq Slots /\ EntriesOf(d, n) \subseteq Slots
  BY DEF FindIn, EntriesOf
<1>3. FindIn(t, n) = EntriesOf(d, n)
  BY <1>1, <1>2
<1>4. First(t, n) = EntryOf(d, n)
  <2> DEFINE j == Min(FindIn(t, n))
  <2>1. j \in Slots /\ j \in FindIn(t, n)
    BY FirstIn
  <2> HIDE DEF j
  <2>2. t[j] = DiskEntry(d, j)
    BY <2>1 DEF Mirrors, FindIn
  <2> QED BY <1>3, <2>2 DEF First, EntryOf, j
<1>5. Good(d)
  BY <1>3 DEF Sound, Listed
<1>6. Extent(d, First(t, n)) = File(d, n)
  BY <1>3, <1>4, <1>5 DEF Extent, File
<1>7. Within(EntryOf(d, n), SuperIn(d[0])) /\ File(d, n) \in SavesOf(n)
  BY <1>3, <1>5 DEF Sound, Below
<1>8. SuperIn(d[0]) \in DataLba .. DiskSectors
  BY <1>5 DEF Layout, Good, SuperIn, BadSB
<1>9. First(t, n).start + First(t, n).size <= DiskSectors
  BY <1>4, <1>7, <1>8, FirstTyped, Sizes DEF Within
<1> QED BY <1>3, <1>4, <1>5, <1>6, <1>7, <1>9 DEF Whole, Within

\* An empty directory lists nothing.
LEMMA NothingListed == \A n : FindIn(EmptyTable, n) = {}
BY NamesAre DEF FindIn, EmptyTable

\* The sectors of a file are those they were when none of them is written.
LEMMA SameExtent ==
  ASSUME NEW t \in [Slots -> Entry], NEW d, NEW e, NEW n, FindIn(t, n) # {}, Whole(t, d, n),
         \A l \in Sectors : l >= DataLba /\ l < First(t, n).start + First(t, n).size
                             => e[l] = d[l]
  PROVE  Whole(t, e, n)
<1> DEFINE f == First(t, n)
<1>1. f.start \in Nat /\ f.size \in Nat
  BY FirstTyped
<1>2. f.start >= DataLba /\ DataLba \in Nat /\ f.start + f.size <= DiskSectors
      /\ DiskSectors \in Nat
  BY Sizes DEF Whole
<1> HIDE DEF f
<1>3. \A k \in 1 .. f.size : e[f.start + k - 1] = d[f.start + k - 1]
  <2> TAKE k \in 1 .. f.size
  <2>1. /\ f.start + k - 1 \in Sectors /\ f.start + k - 1 >= DataLba
        /\ f.start + k - 1 < f.start + f.size
    BY <1>1, <1>2 DEF Sectors
  <2> QED BY <2>1 DEF f
<1>4. Extent(e, f) = Extent(d, f)
  BY <1>3 DEF Extent
<1> QED BY <1>4 DEF Whole, f

LEMMA ListingKept ==
  ASSUME Listing, call.pc # "table", UNCHANGED <<disk, table, switched>>,
         \A n \in Names : n \notin exposed' => n \notin exposed
  PROVE  Listing'
BY DEF Listing, FindIn, First, Whole, Extent

LEMMA NothingToList ==
  ASSUME table' = EmptyTable PROVE Listing'
<1>1. \A n : FindIn(table', n) = {}
  BY NothingListed
<1> QED BY <1>1 DEF Listing

\* A call that returns, or fails, and one that goes on mounting.
LEMMA Returned ==
  ASSUME Listing', call' = NoCall PROVE ReadInv'
<1>1. call'.pc = "idle" /\ call'.cmd = "none" /\ call'.data = <<>> /\ ~call'.lost
  BY DEF NoCall
<1> HIDE DEF NoCall
<1> QED BY <1>1 DEF ReadInv, Appending, Asked, Gathered, Gathering, Readers, Saving

LEMMA Passing ==
  ASSUME ReadInv, Listing', call.pc \notin Gathering, call'.pc \notin Gathering \cup Saving,
         call'.cmd = call.cmd, call'.name = call.name, call'.data = call.data,
         call'.lost = call.lost, call.pc \notin Saving,
         call'.pc \in {"mounted", "ready"} => call'.i = 0,
         call'.pc \in {"super", "table", "formatSuper", "formatTable"} => kind' = "sfs",
         call'.pc \in {"table", "formatSuper", "formatTable"} => ~switched',
         call'.pc \in {"mounted", "ready"} /\ call.cmd # "open" /\ kind' # "fat" => ~switched'
  PROVE  ReadInv'
BY DEF ReadInv, Appending, Asked, Gathered, Gathering, Saving

LEMMA CallAsks ==
  ASSUME FsInv, ReadInv, NEW cmd, NEW n, NEW len, cmd \in Readers => n \in Names, Call(cmd, n, len)
  PROVE  ReadInv'
<1>1. /\ call' = [NoCall EXCEPT !.cmd = cmd, !.name = n, !.len = len, !.save = saves',
                                !.pc = IF cmd = "open" THEN "ready" ELSE "probe"]
      /\ call.pc = "idle" /\ UNCHANGED <<disk, memory, history>>
  BY DEF Call
<1>2. /\ call'.cmd = cmd /\ call'.name = n /\ call'.data = <<>> /\ call'.i = 0
      /\ ~call'.lost
      /\ call'.pc = IF cmd = "open" THEN "ready" ELSE "probe"
  BY <1>1 DEF NoCall
<1>3. Listing'
  BY <1>1, ListingKept DEF ReadInv, memory, history
<1> QED BY <1>2, <1>3 DEF ReadInv, Appending, Asked, Gathered, Gathering, Saving

LEMMA BeginFormatReads ==
  ASSUME FsInv, ReadInv, BeginFormat, call.pc \in {"super", "table"}, kind' = kind
  PROVE  ReadInv'
<1>0. DOMAIN call = Fields
  BY DEF FsInv, Types, Shaped
<1>1. table' = EmptyTable /\ call' = [call EXCEPT !.pc = "formatSuper", !.i = 0]
  BY DEF BeginFormat, Goto
<1>2. /\ call'.pc = "formatSuper" /\ call'.cmd = call.cmd /\ call'.name = call.name
      /\ call'.data = call.data
  BY <1>0, <1>1 DEF Fields
<1>3. kind' = "sfs" /\ switched' = FALSE
  BY DEF ReadInv, Asked, BeginFormat
<1> QED BY <1>1, <1>2, <1>3, NothingToList, Passing DEF Gathering, Saving

\* Of another drive the directory in memory says nothing.
LEMMA NothingKnown ==
  ASSUME switched' = TRUE PROVE Listing'
BY DEF Listing

LEMMA ProbeReads ==
  ASSUME FsInv, ReadInv, Probing
  PROVE  ReadInv'
<1>0. DOMAIN call = Fields /\ call.pc \in {"probe", "probeMaster"} /\ table' = table
  BY ProbeIs DEF FsInv, Types, Shaped, Probing
<1>1. Listing'
  <2>1. Stays \/ Crosses
    BY ProbeIs DEF Probing, Found, GoesOn, NoneFound
  <2>2. CASE Stays
    BY <1>0, <2>2, ListingKept DEF ReadInv, Stays
  <2>3. CASE Crosses
    BY <2>3, NothingKnown DEF Crosses
  <2> QED BY <2>1, <2>2, <2>3
<1>2. \/ call' = NoCall
      \/ \E pc \in {"fat", "probeMaster"} : call' = [call EXCEPT !.pc = pc, !.i = 0]
  BY ProbeIs DEF Probing, Found, GoesOn, NoneFound
<1>3. CASE call' = NoCall
  BY <1>1, <1>3, Returned
<1>4. CASE call' # NoCall
  <2>1. /\ call'.pc \in {"fat", "probeMaster"} /\ call'.cmd = call.cmd
        /\ call'.name = call.name /\ call'.data = call.data /\ call'.lost = call.lost
    BY <1>0, <1>2, <1>4 DEF Fields
  <2> QED BY <1>0, <1>1, <2>1, Passing DEF Gathering, Saving
<1> QED BY <1>3, <1>4

LEMMA MountReads ==
  ASSUME FsInv, ReadInv, MountFat \/ ScanRoot \/ NextRoot \/ LoadSuper \/ Mounted
  PROVE  ReadInv'
<1>0. DOMAIN call = Fields
  BY DEF FsInv, Types, Shaped
<1>1. /\ disk' = disk /\ exposed' = exposed /\ call.pc \notin Gathering /\ call.pc # "table"
      /\ call.pc \notin Saving /\ (LoadSuper \/ UNCHANGED <<table, switched>>)
  BY DEF Saving, MountFat, ScanRoot, NextRoot, LoadSuper, Mounted, Read, Gathering,
         memory, history
<1>2. CASE LoadSuper /\ BeginFormat
  BY <1>2, BeginFormatReads DEF LoadSuper
<1>3. CASE LoadSuper /\ ~BeginFormat
  <2>1. kind' = "sfs"
    BY <1>3 DEF LoadSuper, ReadInv, Asked
  <2>2. \/ call' = NoCall /\ UNCHANGED <<table, switched>>
        \/ /\ call' = [call EXCEPT !.pc = "table", !.i = 0]
           /\ table' = table /\ switched' = FALSE
    BY <1>3 DEF LoadSuper, Fail, Return, Goto
  <2>3. CASE call' = NoCall /\ UNCHANGED <<table, switched>>
    BY <1>1, <2>3, ListingKept, Returned DEF ReadInv
  <2>4. CASE call' = [call EXCEPT !.pc = "table", !.i = 0] /\ switched' = FALSE
    <3>1. /\ call'.pc = "table" /\ call'.cmd = call.cmd /\ call'.name = call.name
          /\ call'.data = call.data /\ call'.lost = call.lost
      BY <1>0, <2>4 DEF Fields
    <3>2. Listing'
      BY <3>1 DEF Listing
    <3> QED BY <1>1, <2>1, <2>4, <3>1, <3>2, Passing DEF Gathering, Saving
  <2> QED BY <2>2, <2>3, <2>4
<1>4. CASE ~LoadSuper
  <2>1. UNCHANGED <<table, switched>>
    BY <1>1, <1>4
  <2>2. Listing'
    BY <1>1, <2>1, ListingKept DEF ReadInv
  <2>3. \/ call' = NoCall
        \/ /\ call'.cmd = call.cmd /\ call'.name = call.name /\ call'.data = call.data
           /\ call'.lost = call.lost
           /\ call'.pc \in {"fat", "root", "rootNext", "super", "mounted", "ready"}
           /\ call'.pc \in {"mounted", "ready"} =>
                /\ call'.i = 0
                /\ kind' = "fat" \/ (call.pc = "mounted" /\ kind' = kind)
           /\ call'.pc = "super" => kind' = "sfs"
    <3>1. CASE MountFat
      BY <1>0, <3>1 DEF MountFat, NotFat, Goto, Fields
    <3>2. CASE ScanRoot
      BY <1>0, <3>2 DEF ScanRoot, NotFat, FatMounted, Goto, Fields
    <3>3. CASE NextRoot
      BY <1>0, <3>3 DEF NextRoot, NotFat, FatMounted, Goto, Fields
    <3>4. CASE Mounted
      BY <1>0, <3>4 DEF Mounted, Goto, Return, Fields, memory
    <3> QED BY <1>4, <3>1, <3>2, <3>3, <3>4
  <2>4. CASE call' = NoCall
    BY <2>2, <2>4, Returned
  <2>5. CASE call' # NoCall
    <3>1. call'.pc \in {"mounted", "ready"} /\ call.cmd # "open" /\ kind' # "fat" => ~switched'
      BY <2>1, <2>3, <2>5 DEF ReadInv, Asked
    <3> QED BY <1>1, <2>2, <2>3, <2>5, <3>1, Passing DEF Gathering, Saving
  <2> QED BY <2>4, <2>5
<1> QED BY <1>2, <1>3, <1>4

LEMMA LoadTableReads == FsInv /\ FsInv' /\ ReadInv /\ LoadTable => ReadInv'
<1> SUFFICES ASSUME FsInv, FsInv', ReadInv, LoadTable PROVE ReadInv'
  OBVIOUS
<1>0. DOMAIN call = Fields /\ call.pc = "table" /\ kind' = "sfs" /\ ~switched
  BY DEF FsInv, Types, Shaped, LoadTable, ReadInv, Asked
<1>1. CASE BeginFormat
  BY <1>0, <1>1, BeginFormatReads DEF LoadTable
<1>2. CASE ~BeginFormat
  <2>1. call' = IF call.i = LastLoaded THEN [call EXCEPT !.pc = "mounted", !.i = 0]
                ELSE [call EXCEPT !.pc = "table", !.i = call.i + 1]
    BY <1>2 DEF LoadTable, Goto
  <2>2. /\ call'.cmd = call.cmd /\ call'.name = call.name /\ call'.data = call.data
        /\ call'.lost = call.lost
        /\ call'.pc \in {"mounted", "table"} /\ (call'.pc = "mounted" => call'.i = 0)
        /\ ~switched'
    BY <1>0, <1>2, <2>1 DEF LoadTable, Fields
  <2>3. Listing'
    <3>1. SUFFICES ASSUME call'.pc # "table" PROVE Listing'
      BY DEF Listing
    <3>2. Layout(disk') /\ Sound(disk', exposed') /\ table' \in [Slots -> Entry]
      BY DEF FsInv, Types, DiskInv
    <3>3. \A j \in Slots : Mirrors(disk', exposed', table'[j], j)
      BY <1>0, <2>2, <3>1 DEF FsInv, CallInv, Ready
    <3>4. \A n \in Names \ exposed' : FindIn(table', n) # {} => Whole(table', disk', n)
      BY <3>2, <3>3, FoundOnDisk
    <3> QED BY <3>4 DEF Listing
  <2> QED BY <1>0, <2>2, <2>3, Passing DEF Gathering, Saving
<1> QED BY <1>1, <1>2

LEMMA FormatReads ==
  ASSUME FsInv, ReadInv, FormatSuper \/ FormatTable PROVE ReadInv'
<1>0. DOMAIN call = Fields
  BY DEF FsInv, Types, Shaped
<1>1. table = EmptyTable /\ call.pc \in {"formatSuper", "formatTable"} /\ UNCHANGED memory
  BY DEF FsInv, CallInv, Formatting, FormatSuper, FormatTable
<1>2. Listing'
  BY <1>1, NothingToList DEF memory
<1>3. \/ call' = NoCall
      \/ /\ call'.cmd = call.cmd /\ call'.name = call.name /\ call'.data = call.data
         /\ call'.lost = call.lost
         /\ call'.pc \in {"formatTable", "mounted"} /\ (call'.pc = "mounted" => call'.i = 0)
  <2>1. CASE FormatSuper
    BY <1>0, <2>1 DEF FormatSuper, Goto, Fail, Return, Fields
  <2>2. CASE FormatTable
    BY <1>0, <2>2 DEF FormatTable, Goto, Fail, Return, Fields
  <2> QED BY <2>1, <2>2
<1>4. kind' = "sfs" /\ ~switched'
  BY <1>1 DEF ReadInv, Asked, memory
<1>5. CASE call' = NoCall
  BY <1>2, <1>5, Returned
<1>6. CASE call' # NoCall
  BY <1>1, <1>2, <1>3, <1>4, <1>6, Passing DEF Gathering, Saving
<1> QED BY <1>5, <1>6

LEMMA SaveBeginReads == FsInv /\ ReadInv /\ SaveBegin => ReadInv'
<1> SUFFICES ASSUME FsInv, ReadInv, SaveBegin PROVE ReadInv'
  OBVIOUS
<1> DEFINE slot == Min(Target(call.name))
<1>0. /\ call.pc = "ready" /\ call.cmd = "save" /\ DOMAIN call = Fields /\ call.data = <<>>
      /\ ~call.lost /\ UNCHANGED <<disk, memory, history>>
  BY DEF SaveBegin, FsInv, Types, Shaped, ReadInv, Asked, Gathering, Saving
<1>1. Listing'
  BY <1>0, ListingKept DEF ReadInv, memory, history
<1>2. CASE kind = "fat" \/ Target(call.name) = {}
  BY <1>1, <1>2, Returned DEF SaveBegin, Fail, Return
<1>3. CASE ~(kind = "fat" \/ Target(call.name) = {})
  <2>1. call' = [call EXCEPT !.pc = "data", !.slot = slot, !.start = sb]
    BY <1>3 DEF SaveBegin
  <2>2. /\ call'.pc = "data" /\ call'.slot = slot /\ call'.start = sb /\ call'.data = <<>>
        /\ call'.name = call.name /\ call'.cmd = "save" /\ ~call'.lost
    BY <1>0, <2>1 DEF Fields
  <2>3. slot \in Target(call.name)
    <3>1. Target(call.name) \in SUBSET Nat
      BY Sizes DEF Target, Find, Unused
    <3> QED BY <1>3, <3>1, Least
  <2>4. ~table[slot].used \/ table[slot].name = call.name
    BY <2>3 DEF Target, Find, Unused
  <2> HIDE DEF slot
  <2>5. /\ table \in [Slots -> Entry] /\ Layout(disk) /\ Sound(disk, exposed)
        /\ Below(disk, exposed, sb)
        /\ \A j \in Slots : Mirrors(disk, exposed, table[j], j)
    BY <1>0, <1>3 DEF FsInv, Types, DiskInv, CallInv, Ready
  <2>6. ASSUME NEW n \in Names \ exposed, FindIn(table, n) # {}
        PROVE  First(table, n).start + First(table, n).size <= sb
    <3>1. EntriesOf(disk, n) # {} /\ First(table, n) = EntryOf(disk, n)
      BY <2>5, <2>6, FoundOnDisk
    <3>2. Within(First(table, n), sb)
      BY <2>5, <3>1 DEF Below
    <3>3. sb \in Nat /\ table \in [Slots -> Entry]
      BY Sizes DEF FsInv, Types
    <3> QED BY <2>6, <3>2, <3>3, FirstTyped DEF Within
  <2>7. Appending'
    BY <1>0, <2>2, <2>4, <2>6 DEF Appending, memory, history
  <2>8. Asked' /\ Gathered'
    <3>1. kind' = kind /\ kind # "fat" /\ switched' = switched /\ ~switched
      BY <1>0, <1>3 DEF ReadInv, Asked, memory
    <3> QED BY <1>0, <2>2, <3>1 DEF Asked, Gathered, Gathering, Readers, Saving
  <2> QED BY <1>1, <2>7, <2>8 DEF ReadInv
<1> QED BY <1>2, <1>3

\* The entry a save puts in the directory leads to what it has written.
LEMMA NewEntryWhole ==
  ASSUME NEW t, NEW d, NEW c, c.name \in Names, c.len \in 0 .. MaxLen, c.slot \in Slots,
         c.save \in 0 .. MaxSaves, c.start \in Nat, c.start >= DataLba, ~c.lost,
         c.start + SectorsFor(c.len) <= DiskSectors,
         t[c.slot] = [used |-> TRUE, name |-> c.name, start |-> c.start, size |-> c.len],
         \A j \in Slots \ {c.slot} : t[j].used /\ t[j].name = c.name => j > c.slot,
         Unwritten(d, c, c.len)
  PROVE  Whole(t, d, c.name)
<1> DEFINE f == First(t, c.name)
<1>1. c.slot \in FindIn(t, c.name)
  BY DEF FindIn
<1>2. Min(FindIn(t, c.name)) = c.slot
  <2>1. /\ Min(FindIn(t, c.name)) \in FindIn(t, c.name)
        /\ Min(FindIn(t, c.name)) <= c.slot
        /\ Min(FindIn(t, c.name)) \in Nat /\ c.slot \in Nat
    BY <1>1, FirstIn, Sizes
  <2> QED BY <2>1 DEF FindIn
<1>3. f.start = c.start /\ f.size = c.len
  BY <1>2 DEF First
<1>4. c.start + c.len <= DiskSectors
  <2>1. c.len <= SectorsFor(c.len) /\ SectorsFor(c.len) \in Nat /\ c.len \in Nat
    BY Sizes DEF SectorsFor
  <2> QED BY <2>1, Sizes
<1> HIDE DEF f
<1>5. \A k \in 1 .. c.len : d[c.start + k - 1] = DataSector(c.name, c.save, k - 1)
  <2> TAKE k \in 1 .. c.len
  <2>1. k - 1 \in 0 .. c.len - 1 /\ c.start + (k - 1) = c.start + k - 1
    BY Sizes
  <2> QED BY <2>1 DEF Unwritten
<1>6. Extent(d, f) = ContentOf(c.name, c.save, c.len)
  BY <1>3, <1>5 DEF Extent, ContentOf
<1> QED BY <1>3, <1>4, <1>6 DEF Whole, SavesOf, f

LEMMA WriteDataReads == FsInv /\ FsInv' /\ ReadInv /\ WriteData => ReadInv'
<1> SUFFICES ASSUME FsInv, FsInv', ReadInv, WriteData PROVE ReadInv'
  OBVIOUS
<1> DEFINE lba == call.start + call.i
           content == IF call.len = 0 THEN ZeroSector
                      ELSE DataSector(call.name, call.save, call.i)
<1>s. /\ call.pc = "data" /\ DOMAIN call = Fields /\ call.cmd = "save" /\ call.data = <<>>
      /\ call.name \in Names /\ call.slot \in Slots
      /\ call.start \in Nat /\ call.start <= DiskSectors /\ SectorsFor(call.len) \in Nat
      /\ DOMAIN disk = Sectors /\ table \in [Slots -> Entry] /\ kind # "fat"
      /\ call.lost => call.name \in exposed
      /\ switched' = switched /\ ~switched
  BY SavingIs DEF WriteData, Saving, Types, Layout, ReadInv, Asked, Gathering
<1>0. call.i \in 0 .. SectorsFor(call.len) - 1
  BY <1>s DEF FsInv, CallInv, DataInv
<1>1. PICK o \in Outcomes :
        /\ Write(lba, content, o)
        /\ exposed' = Doubtful(o)
        /\ IF o = "refused"
           THEN Fail /\ UNCHANGED <<sb, table>>
           ELSE IF call.i + 1 < SectorsFor(call.len)
           THEN /\ call' = [call EXCEPT !.i = @ + 1, !.lost = @ \/ o = "lost"]
                /\ UNCHANGED <<sb, table, result>>
           ELSE /\ call' = [call EXCEPT !.pc = "storeTable", !.i = 0, !.lost = @ \/ o = "lost"]
                /\ table' = [table EXCEPT ![call.slot] = NewEntry]
                /\ sb' = call.start + SectorsFor(call.len)
                /\ UNCHANGED result
  BY DEF WriteData, NewEntry
<1>2. /\ kind' = kind
      /\ o = "ok" => disk' = [disk EXCEPT ![lba] = content]
      /\ o # "ok" => disk' = disk
      /\ exposed' = IF o = "lost" THEN exposed \cup {call.name} ELSE exposed
  BY <1>1, WriteIs DEF WriteData, Doubtful
<1>3. \A l \in Sectors : l < call.start => disk'[l] = disk[l]
  <2>1. lba >= call.start /\ lba \in Nat
    BY <1>s, <1>0
  <2>2. \A l \in Sectors : l < call.start => l # lba
    BY <1>s, <2>1, Sizes DEF Sectors
  <2> HIDE DEF lba, content
  <2> QED BY <1>s, <1>2, <2>2
<1>4. ASSUME NEW n \in Names \ exposed', FindIn(table, n) # {}
      PROVE  Whole(table, disk', n)
  <2>1. n \in Names \ exposed
    BY <1>2, <1>4
  <2>2. Whole(table, disk, n) /\ First(table, n).start + First(table, n).size <= call.start
    BY <1>s, <1>4, <2>1 DEF ReadInv, Listing, Appending
  <2>3. First(table, n).start \in Nat /\ First(table, n).size \in Nat
    BY <1>s, <1>4, FirstTyped
  <2>4. \A l \in Sectors : l >= DataLba /\ l < First(table, n).start + First(table, n).size
                            => disk'[l] = disk[l]
    BY <1>s, <1>3, <2>2, <2>3 DEF Sectors
  <2> QED BY <1>s, <1>4, <2>2, <2>4, SameExtent
<1>5. CASE table' = table
  <2>1. Listing'
    BY <1>4, <1>5 DEF Listing
  <2>2. CASE call' = NoCall
    BY <2>1, <2>2, Returned
  <2>3. CASE call' = [call EXCEPT !.i = @ + 1, !.lost = @ \/ o = "lost"]
    <3>1. /\ call'.pc = "data" /\ call'.cmd = "save" /\ call'.data = <<>>
          /\ call'.name = call.name /\ call'.slot = call.slot /\ call'.start = call.start
          /\ call'.lost = (call.lost \/ o = "lost")
      BY <1>s, <2>3 DEF Fields
    <3>2. Appending'
      BY <1>s, <1>2, <1>5, <3>1 DEF Appending, ReadInv
    <3>3. Asked' /\ Gathered'
      BY <1>s, <1>2, <3>1 DEF Asked, Gathered, Gathering, Readers, Saving
    <3> QED BY <2>1, <3>2, <3>3 DEF ReadInv
  <2>4. CASE call' = [call EXCEPT !.pc = "storeTable", !.i = 0, !.lost = @ \/ o = "lost"]
    <3>1. /\ call'.pc = "storeTable" /\ call'.cmd = "save" /\ call'.data = <<>>
          /\ call'.name = call.name /\ call'.lost = (call.lost \/ o = "lost")
      BY <1>s, <2>4 DEF Fields
    <3>2. Appending' /\ Asked' /\ Gathered'
      BY <1>s, <1>2, <3>1 DEF Appending, Asked, Gathered, Gathering, Readers, Saving
    <3> QED BY <2>1, <3>2 DEF ReadInv
  <2> QED BY <1>1, <2>2, <2>3, <2>4 DEF Fail, Return
<1>6. CASE table' # table
  <2>1. /\ call' = [call EXCEPT !.pc = "storeTable", !.i = 0, !.lost = @ \/ o = "lost"]
        /\ table' = [table EXCEPT ![call.slot] = NewEntry]
    BY <1>1, <1>6
  <2>2. /\ call'.pc = "storeTable" /\ call'.cmd = "save" /\ call'.data = <<>>
        /\ call'.name = call.name /\ call'.lost = (call.lost \/ o = "lost")
    BY <1>s, <2>1 DEF Fields
  <2>3. Appending' /\ Asked' /\ Gathered'
    BY <1>s, <1>2, <2>2 DEF Appending, Asked, Gathered, Gathering, Readers, Saving
  <2>4. ASSUME NEW n \in Names \ exposed', FindIn(table', n) # {}
        PROVE  Whole(table', disk', n)
    <3>1. CASE n = call.name
      <4>1. ~call'.lost
        BY <1>s, <1>2, <2>2, <2>4, <3>1
      <4>2. /\ Types' /\ SaveInv' /\ StoreInv'
        BY DEF FsInv, CallInv
      <4>3. /\ call'.cmd = "save" /\ call'.slot \in Slots /\ call'.start \in DataLba .. DiskSectors
            /\ \A j \in Slots \ {call'.slot} :
                 table'[j].used /\ table'[j].name = call'.name => j > call'.slot
            /\ table'[call'.slot] = NewEntry' /\ sb' = call'.start + SectorsFor(call'.len)
            /\ Unwritten(disk', call', call'.len)
        BY <2>2, <4>2 DEF SaveInv, StoreInv, Saving
      <4>4. /\ call'.name \in Names /\ call'.len \in 0 .. MaxLen /\ call'.save \in 0 .. MaxSaves
            /\ sb' \in {BadSB} \cup DataLba .. DiskSectors
        BY <4>2, <4>3 DEF Types, Shaped
      <4>5. /\ call'.start \in Nat /\ call'.start >= DataLba
            /\ call'.start + SectorsFor(call'.len) <= DiskSectors
        <5>1. SectorsFor(call'.len) \in Nat /\ SectorsFor(call'.len) > 0
          BY <4>4, Sizes DEF SectorsFor
        <5> QED BY <4>3, <4>4, <5>1, Sizes
      <4>6. Whole(table', disk', call'.name)
        BY <4>1, <4>3, <4>4, <4>5, NewEntryWhole DEF NewEntry
      <4> QED BY <2>2, <3>1, <4>6
    <3>2. CASE n # call.name
      <4>1. \A j \in Slots : j # call.slot => table'[j] = table[j]
        BY <1>s, <2>1
      <4>2. table'[call.slot] = NewEntry /\ NewEntry.name # n
        BY <1>s, <2>1, <3>2 DEF NewEntry
      <4>3. ~(table[call.slot].used /\ table[call.slot].name = n)
        BY <1>s, <3>2 DEF ReadInv, Appending
      <4>4. FindIn(table', n) = FindIn(table, n)
        BY <4>1, <4>2, <4>3 DEF FindIn
      <4>5. Min(FindIn(table, n)) \in Slots \ {call.slot}
        <5>1. Min(FindIn(table, n)) \in FindIn(table, n)
          BY <2>4, <4>4, FirstIn
        <5> QED BY <4>3, <5>1 DEF FindIn
      <4>6. First(table', n) = First(table, n)
        BY <4>1, <4>4, <4>5 DEF First
      <4>7. Whole(table, disk', n)
        BY <1>4, <2>4, <4>4
      <4> QED BY <4>6, <4>7 DEF Whole
    <3> QED BY <3>1, <3>2
  <2>5. Listing'
    BY <2>4 DEF Listing
  <2> QED BY <2>3, <2>5 DEF ReadInv
<1> QED BY <1>5, <1>6

LEMMA StoredIs ==
  ASSUME FsInv, call.pc \in {"storeTable", "storeSuper"}
  PROVE  /\ call.name \in Names /\ call.len \in 0 .. MaxLen /\ call.slot \in Slots
         /\ call.save \in 0 .. MaxSaves /\ call.start \in Nat /\ call.start >= DataLba
         /\ call.start + SectorsFor(call.len) <= DiskSectors
         /\ table[call.slot] = NewEntry
         /\ \A j \in Slots \ {call.slot} :
              table[j].used /\ table[j].name = call.name => j > call.slot
         /\ Unwritten(disk, call, call.len)
<1>1. /\ call.name \in Names /\ call.len \in 0 .. MaxLen /\ call.slot \in Slots
      /\ call.save \in 0 .. MaxSaves /\ call.start \in Nat /\ call.start >= DataLba
      /\ SaveInv /\ SectorsFor(call.len) \in Nat /\ sb \in {BadSB} \cup DataLba .. DiskSectors
      /\ SectorsFor(call.len) > 0
  BY SavingIs, Sizes DEF Saving, Shaped, Types
<1>2. /\ table[call.slot] = NewEntry /\ Unwritten(disk, call, call.len)
      /\ sb = call.start + SectorsFor(call.len)
  BY DEF FsInv, CallInv, StoreInv
<1>3. call.start + SectorsFor(call.len) <= DiskSectors
  BY <1>1, <1>2, Sizes
<1> QED BY <1>1, <1>2, <1>3 DEF SaveInv, Saving

\* What is written in front of the files leaves them alone.
LEMMA InFront ==
  ASSUME FsInv, Listing, call.pc # "table", ~switched, UNCHANGED table,
         \A l \in Sectors : l >= DataLba => disk'[l] = disk[l]
  PROVE  \A n \in Names \ exposed : FindIn(table', n) # {} => Whole(table', disk', n)
<1>1. table \in [Slots -> Entry]
  BY DEF FsInv, Types
<1>2. ASSUME NEW n \in Names \ exposed, FindIn(table, n) # {} PROVE Whole(table, disk', n)
  <2>1. Whole(table, disk, n)
    BY <1>2 DEF Listing
  <2> QED BY <1>1, <1>2, <2>1, SameExtent
<1> QED BY <1>2

LEMMA StoreTableReads == FsInv /\ ReadInv /\ StoreTable => ReadInv'
<1> SUFFICES ASSUME FsInv, ReadInv, StoreTable PROVE ReadInv'
  OBVIOUS
<1> DEFINE lba == TableLba + call.i
           content == TableSector(table, call.i)
<1>0. /\ call.pc = "storeTable" /\ DOMAIN call = Fields /\ call.cmd = "save" /\ call.data = <<>>
      /\ kind # "fat" /\ (call.lost => call.name \in exposed) /\ DOMAIN disk = Sectors
      /\ call.i \in 0 .. TableSectors - 1 /\ UNCHANGED memory /\ ~switched
  BY DEF StoreTable, FsInv, CallInv, SaveInv, StoreInv, Saving, Types, Shaped, Layout, ReadInv,
         Asked, Gathering
<1>1. PICK o \in Outcomes :
        /\ Write(lba, content, o)
        /\ exposed \subseteq exposed' /\ (o = "lost" => call.name \in exposed')
        /\ IF o = "refused" THEN Fail
           ELSE call' = [call EXCEPT !.pc = IF call.i = TableSectors - 1 THEN "storeSuper" ELSE @,
                                     !.i = IF @ = TableSectors - 1 THEN 0 ELSE @ + 1,
                                     !.lost = @ \/ o = "lost"]
  BY DEF StoreTable, Doubtful
<1>2. \A l \in Sectors : l >= DataLba => disk'[l] = disk[l]
  <2>1. lba \in Sectors /\ ~(lba >= DataLba)
    BY <1>0, Sizes DEF Sectors
  <2> HIDE DEF lba, content
  <2> QED BY <1>0, <1>1, <2>1, WriteIs
<1>3. Listing'
  <2>1. \A n \in Names \ exposed : FindIn(table', n) # {} => Whole(table', disk', n)
    BY <1>0, <1>2, InFront DEF ReadInv, memory
  <2> QED BY <1>1, <2>1 DEF Listing
<1>4. CASE o = "refused"
  BY <1>1, <1>3, <1>4, Returned DEF Fail, Return
<1>5. CASE o # "refused"
  <2>1. /\ call'.pc \in {"storeTable", "storeSuper"} /\ call'.cmd = "save" /\ call'.data = <<>>
        /\ call'.name = call.name /\ call'.lost = (call.lost \/ o = "lost")
    BY <1>0, <1>1, <1>5 DEF Fields
  <2>2. Appending' /\ Asked' /\ Gathered'
    BY <1>0, <1>1, <2>1 DEF Appending, Asked, Gathered, Gathering, Readers, Saving, memory
  <2> QED BY <1>3, <2>2 DEF ReadInv
<1> QED BY <1>4, <1>5

LEMMA StoreSuperReads == FsInv /\ ReadInv /\ StoreSuper => ReadInv'
<1> SUFFICES ASSUME FsInv, ReadInv, StoreSuper PROVE ReadInv'
  OBVIOUS
<1> DEFINE content == SuperSector(sb)
<1>0. /\ call.pc = "storeSuper" /\ table \in [Slots -> Entry] /\ DOMAIN disk = Sectors
      /\ UNCHANGED memory /\ ~switched
  BY DEF StoreSuper, FsInv, Types, Layout, ReadInv, Asked, Saving
<1>1. PICK o \in Outcomes :
        /\ Write(0, content, o) /\ Return(o # "refused")
        /\ IF o = "ok" /\ ~call.lost THEN exposed' = exposed \ {call.name}
           ELSE exposed \subseteq exposed'
  BY DEF StoreSuper, Doubtful
<1>2. \A l \in Sectors : l >= DataLba => disk'[l] = disk[l]
  <2>1. \A l \in Sectors : l >= DataLba => l # 0
    BY Sizes
  <2> HIDE DEF content
  <2> QED BY <1>0, <1>1, <2>1, Sizes, WriteIs
<1>3. \A n \in Names \ exposed : FindIn(table', n) # {} => Whole(table', disk', n)
  BY <1>0, <1>2, InFront DEF ReadInv, memory
<1>4. ~call.lost => Whole(table, disk', call.name)
  <2> SUFFICES ASSUME ~call.lost PROVE Whole(table, disk', call.name)
    OBVIOUS
  <2>1. /\ call.name \in Names /\ call.len \in 0 .. MaxLen /\ call.slot \in Slots
        /\ call.save \in 0 .. MaxSaves /\ call.start \in Nat /\ call.start >= DataLba
        /\ call.start + SectorsFor(call.len) <= DiskSectors
        /\ table[call.slot] = NewEntry
        /\ \A j \in Slots \ {call.slot} :
             table[j].used /\ table[j].name = call.name => j > call.slot
        /\ Unwritten(disk, call, call.len)
    BY <1>0, StoredIs
  <2>2. Whole(table, disk, call.name)
    BY <2>1, NewEntryWhole DEF NewEntry
  <2>3. FindIn(table, call.name) # {}
    BY <2>1 DEF FindIn, NewEntry
  <2> QED BY <1>0, <1>2, <2>2, <2>3, SameExtent
<1>5. Listing'
  BY <1>0, <1>1, <1>3, <1>4 DEF Listing, memory
<1> QED BY <1>1, <1>5, Returned DEF Return

LEMMA Least2 ==
  ASSUME NEW a \in Nat, NEW b \in Nat PROVE Min({a, b}) = IF a <= b THEN a ELSE b
<1>1. {a, b} \in SUBSET Nat
  OBVIOUS
<1> QED BY <1>1, Least

\* simplefs_read_file, once it has found the file.
LEMMA ReadFileIs ==
  ASSUME FsInv, ReadInv, call.pc = "ready", NEW size, NEW start,
         NEW pc \in {"read", "readFat"}, ReadFile(size, start, pc)
  PROVE  \/ call' = NoCall
         \/ /\ call'.pc = pc /\ call'.start = start /\ call'.size = size /\ size # 0
            /\ call'.len = Min({size, Buffer(size)}) /\ (size \in Nat => call'.len \in Nat \ {0})
            /\ call'.left = ChainClusters - 1 /\ call'.i = 0 /\ call'.data = <<>>
            /\ call'.cmd = call.cmd /\ call'.name = call.name /\ call'.lost = call.lost
<1> DEFINE n == Min({size, Buffer(size)})
<1>0. DOMAIN call = Fields /\ call.i = 0 /\ call.data = <<>> /\ ViewSectors \in Nat
  BY FsAssumption DEF FsInv, Types, Shaped, ReadInv, Asked, Gathering
<1>1. \/ call' = NoCall
      \/ /\ n # 0 /\ ~(call.cmd = "wall" /\ size = 0)
         /\ call' = [call EXCEPT !.pc = pc, !.start = start, !.len = n, !.size = size,
                                 !.left = ChainClusters - 1]
  BY DEF ReadFile, Fail, Return, ReturnFile
<1>2. CASE call' # NoCall
  <2>1. size \in Nat => n \in {size, ViewSectors}
    BY <1>0, Least2 DEF Buffer
  <2>2. size # 0
    <3> SUFFICES ASSUME size = 0 PROVE n = 0
      BY <1>1, <1>2
    <3>1. Buffer(size) \in Nat
      BY <1>0 DEF Buffer
    <3> QED BY <3>1, Least2
  <2> HIDE DEF n
  <2>3. /\ call'.pc = pc /\ call'.start = start /\ call'.size = size /\ call'.len = n
        /\ call'.left = ChainClusters - 1 /\ call'.i = call.i /\ call'.data = call.data
        /\ call'.cmd = call.cmd /\ call'.name = call.name /\ call'.lost = call.lost
    BY <1>0, <1>1, <1>2 DEF Fields
  <2>4. size \in Nat => n \in Nat \ {0}
    BY <1>0, <1>1, <1>2, <2>1
  <2> QED BY <1>0, <2>2, <2>3, <2>4 DEF n
<1> QED BY <1>2

LEMMA ReadBeginReads == FsInv /\ ReadInv /\ ReadBegin => ReadInv'
<1> SUFFICES ASSUME FsInv, ReadInv, ReadBegin PROVE ReadInv'
  OBVIOUS
<1> DEFINE n == call.name
           e == First(table, n)
<1>0. /\ call.pc = "ready" /\ call.cmd \in Readers /\ n \in Names /\ ~call.lost
      /\ UNCHANGED <<disk, memory, history>>
  BY DEF ReadBegin, ReadInv, Asked, Readers, Saving
<1>1. Listing'
  BY <1>0, ListingKept DEF ReadInv, memory, history
<1>2. CASE call' = NoCall
  BY <1>1, <1>2, Returned
<1>3. CASE kind = "fat" /\ FatFind(fat, n) # {} /\ call' # NoCall
  <2> DEFINE f == fat.files[Min(FatFind(fat, n))]
  <2>1. ReadFile(f.size, f.cluster, "readFat")
    BY <1>3 DEF ReadBegin
  <2> HIDE DEF f
  <2>2. /\ call'.pc = "readFat" /\ call'.cmd = call.cmd /\ call'.name = n
        /\ call'.lost = call.lost
    BY <1>0, <1>3, <2>1, ReadFileIs
  <2>3. Appending' /\ Asked' /\ Gathered'
    BY <1>0, <2>2 DEF Appending, Asked, Gathered, Gathering, Readers, Saving
  <2> QED BY <1>1, <2>3 DEF ReadInv
<1>4. CASE kind = "sfs" /\ Find(n) # {} /\ call' # NoCall
  <2>1. ReadFile(e.size, e.start, "read") /\ FindIn(table, n) # {}
    BY <1>4, FindIs DEF ReadBegin, First
  <2>2. e.size \in Nat /\ e.start \in Nat
    BY <2>1, FirstTyped DEF FsInv, Types
  <2> HIDE DEF e
  <2>3. /\ call'.pc = "read" /\ call'.start = e.start /\ call'.size = e.size /\ e.size # 0
        /\ call'.len = Min({e.size, Buffer(e.size)}) /\ call'.len \in Nat \ {0}
        /\ call'.i = 0 /\ call'.data = <<>> /\ call'.cmd = call.cmd /\ call'.name = n
        /\ call'.lost = call.lost
    BY <1>0, <1>4, <2>1, <2>2, ReadFileIs
  <2>4. Appending' /\ Asked'
    BY <1>0, <2>3 DEF Appending, Asked, Gathering, Readers, Saving
  <2>5. ASSUME n \notin exposed, call.cmd = "open" => ~switched
        PROVE  /\ Extent(disk, e) \in SavesOf(n)
               /\ call.cmd # "open" => Extent(disk, e) = File(disk, n)
    <3>0. ~switched
      BY <1>0, <1>4, <2>5 DEF ReadInv, Asked
    <3>1. Extent(disk, e) \in SavesOf(n)
      BY <1>0, <2>1, <2>5, <3>0 DEF ReadInv, Listing, Whole, e
    <3>2. ASSUME call.cmd # "open" PROVE Extent(disk, e) = File(disk, n)
      <4>1. /\ Layout(disk) /\ Sound(disk, exposed) /\ table \in [Slots -> Entry]
            /\ \A j \in Slots : Mirrors(disk, exposed, table[j], j)
        BY <1>0, <1>4, <3>2 DEF FsInv, Types, DiskInv, CallInv, Ready
      <4> QED BY <1>0, <2>1, <2>5, <4>1, FoundOnDisk DEF e
    <3> QED BY <3>1, <3>2
  <2>6. Gathered'
    <3> SUFFICES ASSUME n \notin exposed, call.cmd = "open" => ~switched
                 PROVE  \E c \in SavesOf(n) :
                          /\ c = [k \in 1 .. e.size |-> disk[e.start + k - 1]]
                          /\ 0 \in 0 .. call'.len - 1 /\ <<>> = Beginning(c, 0)
                          /\ call.cmd # "open" => c = File(disk, n)
      BY <1>0, <2>2, <2>3 DEF Gathered, Buffer, memory, history
    <3>1. 0 \in 0 .. call'.len - 1
      BY <2>3
    <3> QED BY <2>5, <3>1, NoBeginning DEF Extent
  <2> QED BY <1>1, <2>4, <2>6 DEF ReadInv
<1> QED BY <1>2, <1>3, <1>4 DEF ReadBegin, Fail, Return

LEMMA ReadFatReads == FsInv /\ ReadInv /\ (ReadFat \/ NextCluster) => ReadInv'
<1> SUFFICES ASSUME FsInv, ReadInv, ReadFat \/ NextCluster PROVE ReadInv'
  OBVIOUS
<1>0. /\ DOMAIN call = Fields /\ call.pc \in {"readFat", "readNext"} /\ UNCHANGED <<disk, memory>>
      /\ exposed' = exposed /\ call.cmd \in Readers /\ call.name \in Names /\ ~call.lost
  BY DEF FsInv, Types, Shaped, ReadFat, NextCluster, Read, ReadInv, Asked, Gathering, Saving
<1>1. Listing'
  BY <1>0, ListingKept DEF ReadInv, memory
<1>2. \/ call' = NoCall
      \/ /\ call'.pc \in {"readFat", "readNext"} /\ call'.cmd = call.cmd
         /\ call'.name = call.name /\ call'.lost = call.lost
  <2>1. CASE ReadFat
    <3>1. \/ call' = NoCall
          \/ \E data :
               call' = [call EXCEPT !.data = data,
                                    !.i = IF @ + 1 < fat.spc THEN @ + 1 ELSE 0,
                                    !.pc = IF call.i + 1 < fat.spc THEN @ ELSE "readNext"]
      BY <2>1 DEF ReadFat, Fail, Return, ReturnFile
    <3> QED BY <1>0, <3>1 DEF Fields
  <2>2. CASE NextCluster
    <3>1. \/ call' = NoCall
          \/ \E next : call' = [call EXCEPT !.pc = "readFat", !.start = next, !.left = @ - 1]
      BY <2>2 DEF NextCluster, Fail, Return, ReturnFile
    <3> QED BY <1>0, <3>1 DEF Fields
  <2> QED BY <2>1, <2>2
<1>3. CASE call' = NoCall
  BY <1>1, <1>3, Returned
<1>4. CASE call' # NoCall
  <2>1. Appending' /\ Asked' /\ Gathered'
    BY <1>0, <1>2, <1>4 DEF Appending, Asked, Gathered, Gathering, Saving
  <2> QED BY <1>1, <2>1 DEF ReadInv
<1> QED BY <1>3, <1>4

\* One sector more, and with the last the file as far as the buffer takes it.
LEMMA ReadDataReads == FsInv /\ ReadInv /\ ReadData => ReadInv' /\ SavesReadWhole
<1> SUFFICES ASSUME FsInv, ReadInv, ReadData PROVE ReadInv' /\ SavesReadWhole
  OBVIOUS
<1> DEFINE n == call.name
           data == Append(call.data, disk[call.start + call.i])
<1>0. /\ DOMAIN call = Fields /\ call.pc = "read" /\ UNCHANGED <<disk, memory>>
      /\ exposed' = exposed /\ call.cmd \in Readers /\ n \in Names /\ ~call.lost
  BY DEF FsInv, Types, Shaped, ReadData, Read, ReadInv, Asked, Gathering, Saving
<1>1. Listing'
  BY <1>0, ListingKept DEF ReadInv, memory
<1>2. \/ Fail
      \/ call.i + 1 = call.len /\ ReturnFile(call.size, data)
      \/ call.i + 1 # call.len /\ call' = [call EXCEPT !.i = @ + 1, !.data = data]
  BY DEF ReadData
<1> HIDE DEF data
<1>3. ASSUME n \notin exposed, call.cmd = "open" => ~switched
      PROVE  \E c \in SavesOf(n) :
               /\ c = [k \in 1 .. call.size |-> disk[call.start + k - 1]]
               /\ call.start \in Nat /\ call.size \in Nat \ {0}
               /\ call.len = Min({call.size, Buffer(call.size)})
               /\ call.i \in 0 .. call.len - 1 /\ call.len <= call.size /\ call.len \in Nat
               /\ data = Beginning(c, call.i + 1)
               /\ call.cmd # "open" => c = File(disk, n)
  <2>1. PICK c \in SavesOf(n) :
          /\ c = [k \in 1 .. call.size |-> disk[call.start + k - 1]]
          /\ call.start \in Nat /\ call.size \in Nat \ {0}
          /\ call.len = Min({call.size, Buffer(call.size)})
          /\ call.i \in 0 .. call.len - 1 /\ call.data = Beginning(c, call.i)
          /\ call.cmd # "open" => c = File(disk, n)
    BY <1>0, <1>3 DEF ReadInv, Gathered
  <2>2. call.len <= call.size /\ call.len \in Nat
    <3>1. Buffer(call.size) \in Nat
      BY <2>1, FsAssumption DEF Buffer
    <3> QED BY <2>1, <3>1, Least2
  <2>3. call.i \in Nat /\ call.i + 1 \in 1 .. call.size
    BY <2>1, <2>2
  <2>4. call.start + (call.i + 1) - 1 = call.start + call.i =>
          c[call.i + 1] = disk[call.start + call.i]
    BY <2>1, <2>3
  <2>5. call.start + (call.i + 1) - 1 = call.start + call.i
    BY <2>1, <2>3
  <2>6. data = Beginning(c, call.i + 1)
    BY <2>1, <2>3, <2>4, <2>5, Longer DEF data
  <2> QED BY <2>1, <2>2, <2>6
<1>4. CASE Fail
  <2>1. call' = NoCall /\ ~result'.ok
    BY <1>4 DEF Fail, Return, NoResult
  <2> QED BY <1>1, <2>1, Returned DEF SavesReadWhole
<1>5. CASE call.i + 1 = call.len /\ ReturnFile(call.size, data)
  <2>1. call' = NoCall /\ result'.size = call.size /\ result'.data = data
    BY <1>5 DEF ReturnFile
  <2>2. ASSUME n \notin exposed, call.cmd = "open" => ~switched
        PROVE  \E c \in Contents :
                 /\ result'.data = Cut(c)
                 /\ result'.size = Len(c) /\ c[1].name = n
                 /\ call.cmd # "open" => c = OnDisk(disk, n)
    <3>1. PICK c \in SavesOf(n) :
            /\ c = [k \in 1 .. call.size |-> disk[call.start + k - 1]]
            /\ call.start \in Nat /\ call.size \in Nat \ {0}
            /\ call.len = Min({call.size, Buffer(call.size)})
            /\ call.i \in 0 .. call.len - 1 /\ call.len <= call.size /\ call.len \in Nat
            /\ data = Beginning(c, call.i + 1)
            /\ call.cmd # "open" => c = File(disk, n)
      BY <1>3, <2>2
    <3>2. data = Beginning(c, call.len)
      BY <1>5, <3>1
    <3>3. c = Beginning(c, call.size) /\ Len(c) = call.size
      <4>1. c = Beginning(c, call.size)
        BY <3>1 DEF Beginning
      <4> QED BY <3>1, <4>1, BeginningIs
    <3>4. data = Cut(c)
      <4>1. CASE call.cmd = "wall"
        <5>1. call.len = call.size
          BY <3>1, <4>1, Least2 DEF Buffer
        <5> QED BY <3>2, <3>3, <4>1, <5>1 DEF Cut
      <4>2. CASE call.cmd # "wall"
        <5>1. call.len = Min({Len(c), ViewSectors})
          BY <3>1, <3>3, <4>2 DEF Buffer
        <5> QED BY <3>1, <3>2, <4>2, <5>1, CutIs DEF Cut
      <4> QED BY <4>1, <4>2
    <3>5. c[1].name = n
      <4>1. PICK v \in 0 .. MaxSaves, len \in 0 .. MaxLen : c = ContentOf(n, v, len)
        BY DEF SavesOf
      <4>2. DOMAIN c = 1 .. len /\ DOMAIN c = 1 .. call.size
        BY <3>1, <4>1 DEF ContentOf
      <4>3. 1 \in 1 .. call.size
        BY <3>1
      <4>4. c[1] = DataSector(n, v, 1 - 1)
        BY <4>1, <4>2, <4>3 DEF ContentOf
      <4> QED BY <4>4 DEF DataSector
    <3>6. c \in Contents /\ OnDisk(disk, n) = File(disk, n)
      BY <1>0, SavesAre, Spelled
    <3> QED BY <2>1, <3>1, <3>3, <3>4, <3>5, <3>6
  <2> QED BY <1>1, <2>1, <2>2, Returned DEF SavesReadWhole
<1>6. CASE call.i + 1 # call.len /\ call' = [call EXCEPT !.i = @ + 1, !.data = data]
  <2>1. /\ call'.pc = "read" /\ call'.i = call.i + 1 /\ call'.data = data
        /\ call'.cmd = call.cmd /\ call'.name = n /\ call'.lost = call.lost
        /\ call'.size = call.size /\ call'.len = call.len /\ call'.start = call.start
    BY <1>0, <1>6 DEF Fields
  <2>2. Appending' /\ Asked' /\ SavesReadWhole
    BY <1>0, <2>1 DEF Appending, Asked, Gathering, Saving, SavesReadWhole
  <2>3. Gathered'
    <3> SUFFICES ASSUME n \notin exposed, call.cmd = "open" => ~switched
                 PROVE  \E c \in SavesOf(n) :
                          /\ c = [k \in 1 .. call.size |-> disk[call.start + k - 1]]
                          /\ call.start \in Nat /\ call.size \in Nat \ {0}
                          /\ call.len = Min({call.size, Buffer(call.size)})
                          /\ call.i + 1 \in 0 .. call.len - 1
                          /\ data = Beginning(c, call.i + 1)
                          /\ call.cmd # "open" => c = File(disk, n)
      BY <1>0, <2>1 DEF Gathered, Buffer, memory
    <3>1. call.i \in 0 .. call.len - 1 /\ call.len \in Nat => call.i + 1 \in 0 .. call.len - 1
      BY <1>6
    <3> QED BY <1>3, <3>1
  <2> QED BY <1>1, <2>2, <2>3 DEF ReadInv
<1> QED BY <1>2, <1>4, <1>5, <1>6

LEMMA PowerFailureReads == ReadInv /\ PowerFailure => ReadInv'
<1> SUFFICES ASSUME ReadInv, PowerFailure PROVE ReadInv'
  OBVIOUS
<1>1. table' = EmptyTable /\ call' = NoCall
  BY DEF PowerFailure
<1> QED BY <1>1, NothingToList, Returned

\* The image run.sh makes has one file, and the machine starts with nothing listed.
LEMMA InitReads == Init => ReadInv
<1> SUFFICES ASSUME Init PROVE ReadInv
  OBVIOUS
<1>1. table = EmptyTable /\ call = NoCall
  BY DEF Init
<1>2. call.pc = "idle" /\ call.cmd = "none" /\ call.data = <<>> /\ ~call.lost
  BY <1>1 DEF NoCall
<1>3. Listing
  BY <1>1, NothingListed DEF Listing
<1> QED BY <1>2, <1>3 DEF ReadInv, Appending, Asked, Gathered, Gathering, Readers, Saving

LEMMA NextReads == FsInv /\ FsInv' /\ ReadInv /\ [Next]_vars => ReadInv' /\ SavesReadWhole
<1> SUFFICES ASSUME FsInv, FsInv', ReadInv, [Next]_vars PROVE ReadInv' /\ SavesReadWhole
  OBVIOUS
<1>0. call.pc # "read" => SavesReadWhole
  BY DEF SavesReadWhole
<1>1. ASSUME NEW cmd, NEW n, NEW len, cmd \in Readers => n \in Names, Call(cmd, n, len)
      PROVE  ReadInv' /\ SavesReadWhole
  <2>1. call.pc = "idle"
    BY <1>1 DEF Call
  <2> QED BY <1>0, <1>1, <2>1, CallAsks
<1>2. CASE CallMount
  BY <1>1, <1>2 DEF CallMount, Readers
<1>3. CASE CallWall
  BY <1>1, <1>3, NamesAre DEF CallWall
<1>4. ASSUME NEW n \in Names, CallSave(n) \/ CallView(n) \/ CallOpen(n)
      PROVE  ReadInv' /\ SavesReadWhole
  BY <1>1, <1>4 DEF CallSave, CallView, CallOpen
<1>0a. CASE Probing
  <2>1. call.pc # "read"
    BY <1>0a, ProbeIs DEF Probing
  <2> QED BY <1>0, <1>0a, <2>1, ProbeReads
<1>5. CASE MountFat \/ ScanRoot \/ NextRoot \/ LoadSuper \/ Mounted
  <2>1. call.pc # "read"
    BY <1>5 DEF MountFat, ScanRoot, NextRoot, LoadSuper, Mounted
  <2> QED BY <1>0, <1>5, <2>1, MountReads
<1>6. CASE LoadTable
  BY <1>0, <1>6, LoadTableReads DEF LoadTable
<1>7. CASE FormatSuper \/ FormatTable
  BY <1>0, <1>7, FormatReads DEF FormatSuper, FormatTable
<1>8. CASE SaveBegin
  BY <1>0, <1>8, SaveBeginReads DEF SaveBegin
<1>9. CASE WriteData
  BY <1>0, <1>9, WriteDataReads DEF WriteData
<1>10. CASE StoreTable
  BY <1>0, <1>10, StoreTableReads DEF StoreTable
<1>11. CASE StoreSuper
  BY <1>0, <1>11, StoreSuperReads DEF StoreSuper
<1>12. CASE ReadBegin
  BY <1>0, <1>12, ReadBeginReads DEF ReadBegin
<1>13. CASE ReadFat \/ NextCluster
  BY <1>0, <1>13, ReadFatReads DEF ReadFat, NextCluster
<1>14. CASE ReadData
  BY <1>14, ReadDataReads
<1>15. CASE PowerFailure
  <2>1. ~result'.ok
    BY <1>15 DEF PowerFailure, NoResult
  <2> QED BY <1>15, <2>1, PowerFailureReads DEF SavesReadWhole
<1>16. CASE UNCHANGED vars
  <2>1. UNCHANGED <<disk, kind, table, switched, call, exposed>>
    BY <1>16 DEF vars, memory, history
  <2>2. Listing' /\ Appending'
    BY <2>1 DEF ReadInv, Listing, Appending
  <2>3. Asked' /\ Gathered'
    BY <2>1 DEF ReadInv, Asked, Gathered, Buffer
  <2>4. SavesReadWhole
    BY <2>1 DEF SavesReadWhole
  <2> QED BY <2>2, <2>3, <2>4 DEF ReadInv
<1> QED BY <1>0a, <1>2, <1>3, <1>4, <1>5, <1>6, <1>7, <1>8, <1>9, <1>10, <1>11, <1>12, <1>13,
           <1>14, <1>15, <1>16 DEF Next, Probing

-----------------------------------------------------------------------------
(* The directory of a FAT32 volume, an entry after the other. *)

\* Induction: a set of numbers with 0 and with every successor has them all.
LEMMA Steps ==
  ASSUME NEW T \in SUBSET Nat, 0 \in T, \A n \in T : n + 1 \in T
  PROVE  T = Nat
<1> SUFFICES ASSUME Nat \ T # {} PROVE FALSE
  OBVIOUS
<1> DEFINE x == Min(Nat \ T)
<1>1. x \in Nat \ T /\ \A y \in Nat \ T : x <= y
  <2>1. Nat \ T \in SUBSET Nat
    OBVIOUS
  <2> QED BY <2>1, Least
<1> HIDE DEF x
<1>2. x # 0 /\ x - 1 \in Nat
  BY <1>1
<1>3. x - 1 \in T
  BY <1>1, <1>2
<1> QED BY <1>1, <1>2, <1>3

\* G[i] is the list after the first i entries of a sector.
Adding(files, ents, last, G) ==
  G = [i \in 0 .. last |->
         IF i = 0 THEN files
         ELSE IF ents[i].is = "file" /\ Len(G[i - 1]) < FatMaxFiles
         THEN Append(G[i - 1], ents[i]) ELSE G[i - 1]]

LEMMA AddingExists ==
  ASSUME NEW files, NEW ents, NEW last \in Nat
  PROVE  \E G : Adding(files, ents, last, G)
<1> DEFINE After(g, i) ==
             IF ents[i].is = "file" /\ Len(g) < FatMaxFiles THEN Append(g, ents[i]) ELSE g
           T == {n \in Nat : \E G : Adding(files, ents, n, G)}
<1>1. 0 \in T
  <2>1. Adding(files, ents, 0, [i \in 0 .. 0 |-> files])
    BY DEF Adding
  <2> QED BY <2>1
<1>2. ASSUME NEW n \in T PROVE n + 1 \in T
  <2>1. PICK G : Adding(files, ents, n, G)
    OBVIOUS
  <2> DEFINE H == [i \in 0 .. n + 1 |-> IF i = n + 1 THEN After(G[n], n + 1) ELSE G[i]]
  <2>2. \A i \in 0 .. n : H[i] = G[i]
    OBVIOUS
  <2>3. ASSUME NEW i \in 0 .. n + 1
        PROVE  H[i] = IF i = 0 THEN files ELSE After(H[i - 1], i)
    <3>1. CASE i = n + 1
      <4>1. i # 0 /\ i - 1 = n /\ n \in 0 .. n
        BY <3>1
      <4>2. H[i] = After(G[n], n + 1) /\ H[i - 1] = G[n]
        BY <2>2, <3>1, <4>1
      <4> QED BY <3>1, <4>1, <4>2
    <3>2. CASE i # n + 1
      <4>1. i \in 0 .. n /\ (i # 0 => i - 1 \in 0 .. n)
        BY <3>2
      <4>2. G[i] = IF i = 0 THEN files ELSE After(G[i - 1], i)
        BY <2>1, <4>1 DEF Adding
      <4>3. H[i] = G[i] /\ (i # 0 => H[i - 1] = G[i - 1])
        BY <2>2, <4>1
      <4> HIDE DEF H
      <4> QED BY <4>2, <4>3
    <3> QED BY <3>1, <3>2
  <2>4. H = [i \in 0 .. n + 1 |-> H[i]]
    OBVIOUS
  <2> HIDE DEF H
  <2>5. Adding(files, ents, n + 1, H)
    BY <2>3, <2>4 DEF Adding
  <2> QED BY <2>5
<1> HIDE DEF T
<1>3. T = Nat
  BY <1>1, <1>2, Steps DEF T
<1> QED BY <1>3 DEF T

\* The last entry of a sector that is looked at.
LastOf(sector) ==
  IF HasEnd(sector) THEN Min({i \in DOMAIN Entries(sector) : Entries(sector)[i] = DirEnd})
  ELSE Len(Entries(sector))

\* Only entries for files, in front of the end of the directory, are listed.
LEMMA FilesAfterIs ==
  ASSUME NEW S, NEW files \in Seq(S), NEW sector, NEW R, Entries(sector) \in Seq(R),
         LiveIn(Entries(sector)) \subseteq S
  PROVE  FilesAfter(files, sector) \in Seq(S)
<1> DEFINE ents == Entries(sector)
           last == LastOf(sector)
           ends == {i \in DOMAIN ents : ents[i] = DirEnd}
<1>1. ents \in Seq(R) /\ Len(ents) \in Nat /\ DOMAIN ents = 1 .. Len(ents)
  BY LenProperties
<1>2. /\ last \in 0 .. Len(ents) /\ last \in Nat
      /\ HasEnd(sector) => last \in ends /\ \A i \in ends : last <= i
      /\ ~HasEnd(sector) => ends = {}
  <2>1. HasEnd(sector) <=> ends # {}
    BY DEF HasEnd, ToSet
  <2>2. ends \in SUBSET Nat
    BY <1>1
  <2>3. CASE HasEnd(sector)
    <3>1. last = Min(ends)
      BY <2>3 DEF LastOf
    <3>2. last \in ends /\ \A i \in ends : last <= i
      BY <2>1, <2>2, <2>3, <3>1, Least
    <3> QED BY <1>1, <2>3, <3>2
  <2>4. CASE ~HasEnd(sector)
    BY <1>1, <2>1, <2>4 DEF LastOf
  <2> QED BY <2>3, <2>4
<1>3. ASSUME NEW i \in 1 .. last, ents[i].is = "file" PROVE ents[i] \in S
  <2>1. i \in DOMAIN ents
    BY <1>1, <1>2
  <2>2. ents[i] # DirEnd
    BY <1>3 DEF DirEnd
  <2>3. \A j \in 1 .. i : ents[j] # DirEnd
    <3> SUFFICES ASSUME NEW j \in 1 .. i, ents[j] = DirEnd PROVE FALSE
      OBVIOUS
    <3>1. j \in ends
      BY <1>1, <1>2
    <3>2. last <= j
      BY <1>2, <3>1
    <3>3. j = i
      BY <1>2, <3>2
    <3> QED BY <2>2, <3>3
  <2>4. ents[i] \in LiveIn(ents)
    BY <1>3, <2>1, <2>3 DEF LiveIn
  <2> QED BY <2>4
<1> DEFINE G == CHOOSE F : Adding(files, ents, last, F)
<1>4. Adding(files, ents, last, G)
  BY <1>2, AddingExists
<1>5. FilesAfter(files, sector) = G[last]
  BY DEF FilesAfter, LastOf, Adding
<1> HIDE DEF G, last, ents
<1> DEFINE T == {n \in Nat : n <= last => G[n] \in Seq(S)}
<1>6. 0 \in T
  BY <1>2, <1>4 DEF Adding
<1>7. ASSUME NEW n \in T PROVE n + 1 \in T
  <2> SUFFICES ASSUME n + 1 <= last PROVE G[n + 1] \in Seq(S)
    OBVIOUS
  <2>1. n + 1 \in 1 .. last /\ n + 1 # 0 /\ (n + 1) - 1 = n /\ n + 1 \in 0 .. last
    BY <1>2
  <2>2. G[n] \in Seq(S)
    BY <1>2
  <2>3. G[n + 1] = IF ents[n + 1].is = "file" /\ Len(G[n]) < FatMaxFiles
                   THEN Append(G[n], ents[n + 1]) ELSE G[n]
    BY <1>4, <2>1 DEF Adding
  <2> QED BY <1>3, <2>1, <2>2, <2>3, AppendProperties
<1> HIDE DEF T
<1>8. T = Nat
  BY <1>6, <1>7, Steps DEF T
<1>9. G[last] \in Seq(S)
  BY <1>2, <1>8 DEF T
<1> QED BY <1>5, <1>9

-----------------------------------------------------------------------------
(* What a read of a FAT32 volume gives. *)

FatFields == {"spc", "fatLba", "dataLba", "files"}

\* g_fat is what the boot sector of the volume says, and what g_fat_files lists
\* leads to files of the volume.
Scanned(v) ==
  /\ fat.spc = v.sectors[1].spc /\ fat.fatLba = v.sectors[1].reserved
  /\ fat.dataLba = v.sectors[1].reserved + v.sectors[1].fats
  /\ fat.files \in Seq({e \in Range(fat.files) : e.name = "?" \/ Leads(v, e)})

FatMirror ==
  /\ DOMAIN fat = FatFields
  /\ (kind = "fat" /\ call.pc # "fat") \/ call.pc \in {"root", "rootNext"} =>
       \A v \in Volumes : disk = DiskOf("fat", v) => Scanned(v)

\* The read is in cluster k of its file's chain, and has what lies before it.
Followed(v, c) ==
  LET k == ChainClusters - call.left
      m == (k - 1) * fat.spc + (IF call.pc = "readFat" THEN call.i ELSE fat.spc)
  IN /\ call.left \in Nat /\ k \in 1 .. Len(v.chain[c]) /\ call.start = v.chain[c][k]
     /\ IF call.pc = "readFat" THEN call.i \in 0 .. fat.spc - 1 ELSE call.i = 0
     /\ m < call.len /\ call.data = Beginning(c, m)
     /\ call.len = Min({call.size, Buffer(call.size)})
     /\ call.size = Len(c) /\ c[1].name = call.name

FatReading ==
  call.pc \in {"readFat", "readNext"} =>
    /\ kind = "fat"
    /\ \A v \in Volumes : disk = DiskOf("fat", v) => \E c \in v.files : Followed(v, c)

FatInv == FatMirror /\ FatReading

LEMMA VolumeIs ==
  ASSUME NEW v \in Volumes
  PROVE  /\ IsVolume(v) /\ Len(v.sectors) \in Nat \ {0}
         /\ DOMAIN v.sectors = 1 .. Len(v.sectors)
         /\ v.sectors[1].spc \in Nat \ {0} /\ v.sectors[1].reserved \in Nat
         /\ v.sectors[1].fats \in Nat
<1>1. IsVolume(v)
  BY FsAssumption
<1>2. v.sectors \in Seq(Range(v.sectors)) /\ v.sectors # <<>>
  BY <1>1 DEF IsVolume
<1>3. Len(v.sectors) \in Nat \ {0} /\ DOMAIN v.sectors = 1 .. Len(v.sectors)
  BY <1>2, EmptySeq, LenProperties
<1> QED BY <1>1, <1>3 DEF IsVolume

LEMMA VolumeAt ==
  ASSUME NEW v \in Volumes, disk = DiskOf("fat", v)
  PROVE  /\ \A l \in Sectors : disk[l] = SectorAt(v, l)
         /\ disk[0] = v.sectors[1]
<1>1. disk = [l \in Sectors |-> IF l < Len(v.sectors) THEN v.sectors[l + 1] ELSE ZeroSector]
  BY DEF DiskOf
<1>2. \A l \in Sectors : disk[l] = SectorAt(v, l)
  BY <1>1 DEF SectorAt
<1>3. 0 \in Sectors /\ 0 < Len(v.sectors)
  BY VolumeIs, Sizes
<1> QED BY <1>1, <1>2, <1>3

\* What a sector of a volume adds to the list leads to files of the volume.
LEMMA EntriesLead ==
  ASSUME NEW v \in Volumes, NEW l \in Sectors, NEW sector, sector = SectorAt(v, l)
  PROVE  /\ Entries(sector) \in Seq(Range(Entries(sector)))
         /\ \A e \in LiveIn(Entries(sector)) : e.name = "?" \/ Leads(v, e)
<1>1. \/ sector = ZeroSector
      \/ \E i \in DOMAIN v.sectors : sector = v.sectors[i]
  <2>1. CASE l < Len(v.sectors)
    <3>1. l + 1 \in DOMAIN v.sectors
      BY <2>1, VolumeIs DEF Sectors
    <3> QED BY <2>1, <3>1 DEF SectorAt
  <2>2. CASE ~(l < Len(v.sectors))
    BY <2>2 DEF SectorAt
  <2> QED BY <2>1, <2>2
<1>2. CASE sector.kind = "fatRoot"
  <2>1. PICK i \in DOMAIN v.sectors : sector = v.sectors[i]
    BY <1>1, <1>2 DEF ZeroSector
  <2>2. /\ sector.ents \in Seq(Range(sector.ents))
        /\ \A e \in LiveIn(sector.ents) : Leads(v, e)
    <3>1. \A j \in DOMAIN v.sectors :
            v.sectors[j].kind = "fatRoot" =>
              LET ents == v.sectors[j].ents
              IN ents \in Seq(Range(ents)) /\ \A e \in LiveIn(ents) : Leads(v, e)
      BY VolumeIs DEF IsVolume
    <3>2. v.sectors[i].kind = "fatRoot"
      BY <1>2, <2>1
    <3>3. LET ents == v.sectors[i].ents
          IN ents \in Seq(Range(ents)) /\ \A e \in LiveIn(ents) : Leads(v, e)
      BY <3>1, <3>2
    <3> QED BY <2>1, <3>3
  <2>3. Entries(sector) = sector.ents
    BY <1>2 DEF Entries, IsZero
  <2> QED BY <2>2, <2>3
<1>3. CASE sector.kind # "fatRoot"
  <2>1. Entries(sector) = <<DirEnd>> \/ Entries(sector) = <<DirFile("?", 0, 0)>>
    BY <1>3 DEF Entries
  <2>2. CASE Entries(sector) = <<DirEnd>>
    BY <2>2 DEF LiveIn, Range, DirEnd
  <2>3. CASE Entries(sector) = <<DirFile("?", 0, 0)>>
    BY <2>3 DEF LiveIn, Range, DirFile
  <2> QED BY <2>1, <2>2, <2>3
<1> QED BY <1>2, <1>3

\* One sector more of the root directory.
LEMMA ScanAdds ==
  ASSUME NEW v \in Volumes, NEW l \in Sectors, NEW files,
         files \in Seq({e \in Range(files) : e.name = "?" \/ Leads(v, e)}),
         NEW sector, sector = SectorAt(v, l), NEW more, more = FilesAfter(files, sector)
  PROVE  more \in Seq({e \in Range(more) : e.name = "?" \/ Leads(v, e)})
<1> DEFINE F == {e \in Range(files) : e.name = "?" \/ Leads(v, e)}
           S == F \cup LiveIn(Entries(sector))
           M == {e \in Range(more) : e.name = "?" \/ Leads(v, e)}
<1>1. /\ Entries(sector) \in Seq(Range(Entries(sector)))
      /\ \A e \in LiveIn(Entries(sector)) : e.name = "?" \/ Leads(v, e)
  BY EntriesLead
<1>2. files \in Seq(S)
  <2>1. F \subseteq S
    OBVIOUS
  <2> HIDE DEF F, S
  <2> QED BY <2>1 DEF F
<1>3. LiveIn(Entries(sector)) \subseteq S
  OBVIOUS
<1>4. \A e \in S : e.name = "?" \/ Leads(v, e)
  BY <1>1
<1> HIDE DEF S
<1>5. more \in Seq(S)
  BY <1>1, <1>2, <1>3, FilesAfterIs
<1>6. Len(more) \in Nat /\ DOMAIN more = 1 .. Len(more) /\ \A i \in 1 .. Len(more) : more[i] \in S
  BY <1>5, LenProperties, ElementOfSeq
<1>7. \A i \in 1 .. Len(more) : more[i] \in M
  BY <1>4, <1>6 DEF Range
<1>8. more = [i \in 1 .. Len(more) |-> more[i]]
  BY <1>5, LenProperties
<1> HIDE DEF M
<1>9. more \in Seq(M)
  BY <1>6, <1>7, <1>8
<1> QED BY <1>9 DEF M

LEMMA FatKept ==
  ASSUME FatMirror, UNCHANGED <<disk, fat>>, call'.pc \notin {"readFat", "readNext"},
         (kind' = "fat" /\ call'.pc # "fat") \/ call'.pc \in {"root", "rootNext"} =>
           (kind = "fat" /\ call.pc # "fat") \/ call.pc \in {"root", "rootNext"}
  PROVE  FatInv'
BY DEF FatMirror, FatInv, FatReading, Scanned

\* The boot sector.
LEMMA MountFatKeeps == FsInv /\ FatInv /\ MountFat => FatInv'
<1> SUFFICES ASSUME FsInv, FatInv, MountFat PROVE FatInv'
  OBVIOUS
<1>0. DOMAIN call = Fields /\ disk' = disk
  BY DEF FsInv, Types, Shaped, MountFat, Read
<1>1. CASE NotFat /\ fat' = fat
  <2>1. call'.pc = "super" /\ kind' = "sfs"
    BY <1>0, <1>1 DEF NotFat, Goto, Fields
  <2> QED BY <1>0, <1>1, <2>1, FatKept DEF FatInv
<1>2. CASE ~(NotFat /\ fat' = fat)
  <2>1. /\ fat' = Geometry(disk[0])
        /\ call' = [call EXCEPT !.pc = "root", !.start = disk[0].root, !.i = 0,
                                !.left = RootClusters - 1]
    BY <1>2 DEF MountFat
  <2>2. call'.pc = "root"
    BY <1>0, <2>1 DEF Fields
  <2>3. /\ DOMAIN fat' = FatFields /\ fat'.files = <<>> /\ fat'.spc = disk[0].spc
        /\ fat'.fatLba = disk[0].reserved /\ fat'.dataLba = disk[0].reserved + disk[0].fats
    BY <2>1 DEF Geometry, FatFields
  <2>4. ASSUME NEW v \in Volumes, disk' = DiskOf("fat", v) PROVE Scanned(v)'
    <3>1. disk[0] = v.sectors[1]
      BY <1>0, <2>4, VolumeAt
    <3> QED BY <2>3, <3>1 DEF Scanned
  <2> QED BY <2>2, <2>3, <2>4 DEF FatInv, FatMirror, FatReading
<1> QED BY <1>1, <1>2

\* A sector of the root directory.
LEMMA ScanRootKeeps == FsInv /\ FatInv /\ ScanRoot => FatInv'
<1> SUFFICES ASSUME FsInv, FatInv, ScanRoot PROVE FatInv'
  OBVIOUS
<1>0. DOMAIN call = Fields /\ disk' = disk /\ DOMAIN fat = FatFields
  BY DEF FsInv, Types, Shaped, ScanRoot, Read, FatInv, FatMirror
<1> DEFINE lba == ClusterLba(fat, call.start) + call.i
<1>1. CASE NotFat /\ fat' = fat
  <2>1. call'.pc = "super" /\ kind' = "sfs"
    BY <1>0, <1>1 DEF NotFat, Goto, Fields
  <2> QED BY <1>0, <1>1, <2>1, FatKept DEF FatInv
<1>2. CASE ~(NotFat /\ fat' = fat)
  <2>1. /\ lba \in Sectors /\ call.pc = "root"
        /\ fat' = [fat EXCEPT !.files = FilesAfter(@, disk[lba])]
        /\ FatMounted \/ Goto("root", call.i + 1) \/ Goto("rootNext", 0)
    BY <1>2 DEF ScanRoot, Read, ReadOutcome
  <2> HIDE DEF lba
  <2>2. call'.pc \in {"mounted", "root", "rootNext"}
    BY <1>0, <2>1 DEF FatMounted, Goto, Fields
  <2>3. /\ DOMAIN fat' = FatFields /\ fat'.files = FilesAfter(fat.files, disk[lba])
        /\ fat'.spc = fat.spc /\ fat'.fatLba = fat.fatLba /\ fat'.dataLba = fat.dataLba
    BY <1>0, <2>1 DEF FatFields
  <2>4. ASSUME NEW v \in Volumes, disk' = DiskOf("fat", v) PROVE Scanned(v)'
    <3>1. Scanned(v)
      BY <1>0, <2>1, <2>4 DEF FatInv, FatMirror
    <3>2. disk[lba] = SectorAt(v, lba)
      BY <1>0, <2>1, <2>4, VolumeAt
    <3> DEFINE files == fat.files
               more  == FilesAfter(files, disk[lba])
    <3>3. files \in Seq({e \in Range(files) : e.name = "?" \/ Leads(v, e)})
      BY <3>1 DEF Scanned
    <3> HIDE DEF files
    <3>4. more \in Seq({e \in Range(more) : e.name = "?" \/ Leads(v, e)})
      BY <2>1, <3>2, <3>3, ScanAdds
    <3>5. fat'.files = more
      BY <2>3 DEF files
    <3> HIDE DEF more
    <3> QED BY <2>3, <3>1, <3>4, <3>5 DEF Scanned
  <2> QED BY <2>2, <2>3, <2>4 DEF FatInv, FatMirror, FatReading
<1> QED BY <1>1, <1>2

LEMMA NextRootKeeps == FsInv /\ FatInv /\ NextRoot => FatInv'
<1> SUFFICES ASSUME FsInv, FatInv, NextRoot PROVE FatInv'
  OBVIOUS
<1>0. DOMAIN call = Fields /\ disk' = disk /\ fat' = fat /\ call.pc = "rootNext"
  BY DEF FsInv, Types, Shaped, NextRoot, Read
<1>1. \/ NotFat \/ FatMounted
      \/ \E next : call' = [call EXCEPT !.pc = "root", !.start = next, !.left = @ - 1]
  BY DEF NextRoot
<1>2. call'.pc \in {"super", "mounted", "root"}
  BY <1>0, <1>1 DEF NotFat, FatMounted, Goto, Fields
<1> QED BY <1>0, <1>2, FatKept DEF FatInv

\* The rest of the calls leave the volume and what is known of it alone.
\* With the drive its volume changes; fat is of the new one after the boot sector.
LEMMA ProbeFat == FsInv /\ FatInv /\ Probing => FatInv'
<1> SUFFICES ASSUME FsInv, FatInv, Probing PROVE FatInv'
  OBVIOUS
<1>0. DOMAIN call = Fields /\ UNCHANGED <<fat, kind>> /\ call.pc \in {"probe", "probeMaster"}
  BY ProbeIs DEF FsInv, Types, Shaped, Probing
<1>1. CASE \E d : Found(d)
  <2>1. call'.pc = "fat"
    BY <1>0, <1>1 DEF Found, Fields
  <2> QED BY <1>0, <2>1 DEF FatInv, FatMirror, FatReading
<1>2. CASE GoesOn \/ NoneFound
  <2>1. disk' = disk /\ call'.pc \in {"probeMaster", "idle"}
    BY <1>0, <1>2, NoCallIs DEF GoesOn, NoneFound, Stays, Fields
  <2> QED BY <1>0, <2>1, FatKept DEF FatInv
<1> QED BY <1>1, <1>2, ProbeIs DEF Probing

LEMMA OthersKeep ==
  ASSUME FsInv, ReadInv, FatInv,
         \/ \E cmd, n, len : Call(cmd, n, len)
         \/ LoadSuper \/ LoadTable \/ FormatSuper \/ FormatTable \/ Mounted
         \/ SaveBegin \/ WriteData \/ StoreTable \/ StoreSuper \/ ReadData
  PROVE  FatInv'
<1>0. DOMAIN call = Fields
  BY DEF FsInv, Types, Shaped
<1>1. fat' = fat /\ kind' = kind
  BY DEF Call, LoadSuper, LoadTable, FormatSuper, FormatTable, Mounted, SaveBegin,
         WriteData, StoreTable, StoreSuper, ReadData, memory
<1>2. kind = "fat" => disk' = disk
  <2>1. FormatSuper \/ FormatTable \/ WriteData \/ StoreTable \/ StoreSuper => kind # "fat"
    BY DEF ReadInv, Asked, Saving, FormatSuper, FormatTable, WriteData, StoreTable, StoreSuper
  <2>2. \/ FormatSuper \/ FormatTable \/ WriteData \/ StoreTable \/ StoreSuper
        \/ disk' = disk
    BY DEF Call, LoadSuper, LoadTable, Mounted, SaveBegin, ReadData, Read
  <2> QED BY <2>1, <2>2
<1>3. call'.pc \notin {"root", "rootNext", "readFat", "readNext"}
  <2>1. CASE \E cmd, n, len : Call(cmd, n, len)
    <3>1. PICK cmd, n, len : Call(cmd, n, len)
      BY <2>1
    <3> DEFINE pc == IF cmd = "open" THEN "ready" ELSE "probe"
    <3>2. call' = [NoCall EXCEPT !.cmd = cmd, !.name = n, !.len = len, !.save = saves', !.pc = pc]
      BY <3>1 DEF Call
    <3> HIDE DEF pc
    <3>3. call'.pc = pc
      BY <3>2 DEF NoCall
    <3> QED BY <3>3 DEF pc
  <2>2. CASE ~\E cmd, n, len : Call(cmd, n, len)
    <3>1. \/ call' = NoCall
          \/ \E pc, i : /\ call' = [call EXCEPT !.pc = pc, !.i = i]
                        /\ pc \in {"formatSuper", "table", "mounted", "formatTable", "ready"}
          \/ \E slot, start : call' = [call EXCEPT !.pc = "data", !.slot = slot, !.start = start]
          \/ \E pc, i, lost : /\ call' = [call EXCEPT !.pc = pc, !.i = i, !.lost = lost]
                               /\ pc \in {"storeTable", "storeSuper"}
          \/ \E i, lost : call' = [call EXCEPT !.i = i, !.lost = lost] /\ call.pc = "data"
          \/ \E i, data : call' = [call EXCEPT !.i = i, !.data = data] /\ call.pc = "read"
      <4>1. CASE LoadSuper \/ LoadTable \/ FormatSuper \/ FormatTable \/ Mounted
        BY <4>1 DEF LoadSuper, LoadTable, FormatSuper, FormatTable, Mounted,
             BeginFormat, Goto, Fail, Return
      <4>2. CASE SaveBegin
        BY <4>2 DEF SaveBegin, Fail, Return
      <4>3. CASE WriteData
        BY <4>3 DEF WriteData, Fail, Return
      <4>4. CASE StoreTable
        BY <4>4 DEF StoreTable, Fail, Return
      <4>5. CASE StoreSuper
        BY <4>5 DEF StoreSuper, Return
      <4>6. CASE ReadData
        BY <4>6 DEF ReadData, Fail, Return, ReturnFile
      <4> QED BY <2>2, <4>1, <4>2, <4>3, <4>4, <4>5, <4>6
    <3>2. ASSUME call' = NoCall PROVE call'.pc = "idle"
      BY <3>2 DEF NoCall
    <3>3. ASSUME NEW pc, NEW i, call' = [call EXCEPT !.pc = pc, !.i = i] PROVE call'.pc = pc
      BY <1>0, <3>3 DEF Fields
    <3>4. ASSUME NEW slot, NEW start,
                 call' = [call EXCEPT !.pc = "data", !.slot = slot, !.start = start]
          PROVE  call'.pc = "data"
      BY <1>0, <3>4 DEF Fields
    <3>5. ASSUME NEW pc, NEW i, NEW lost,
                 call' = [call EXCEPT !.pc = pc, !.i = i, !.lost = lost]
          PROVE  call'.pc = pc
      BY <1>0, <3>5 DEF Fields
    <3>6. ASSUME NEW i, NEW lost, call' = [call EXCEPT !.i = i, !.lost = lost]
          PROVE  call'.pc = call.pc
      BY <1>0, <3>6 DEF Fields
    <3>7. ASSUME NEW i, NEW data, call' = [call EXCEPT !.i = i, !.data = data]
          PROVE  call'.pc = call.pc
      BY <1>0, <3>7 DEF Fields
    <3> QED BY <3>1, <3>2, <3>3, <3>4, <3>5, <3>6, <3>7
  <2> QED BY <2>1, <2>2
<1>4. call.pc # "fat"
  BY DEF Call, LoadSuper, LoadTable, FormatSuper, FormatTable, Mounted, SaveBegin, WriteData,
         StoreTable, StoreSuper, ReadData
<1> QED BY <1>1, <1>2, <1>3, <1>4 DEF FatInv, FatMirror, FatReading, Scanned

LEMMA Times ==
  ASSUME NEW k \in Nat \ {0}, NEW s \in Nat
  PROVE  /\ (k - 1) * s \in Nat /\ k * s \in Nat /\ (k - 1) * s + s = k * s
         /\ ((k + 1) - 1) * s = k * s /\ (1 - 1) * s = 0
<1>1. k - 1 \in Nat
  OBVIOUS
<1>2. \A a \in Nat : a * s \in Nat /\ a * s + s = (a + 1) * s
  OBVIOUS
<1>3. (k - 1) + 1 = k /\ (k + 1) - 1 = k
  OBVIOUS
<1> QED BY <1>1, <1>2, <1>3

\* What is handed out: the part the buffer takes, or a beginning.
LEMMA CutOf ==
  ASSUME NEW c, Len(c) \in Nat, c = Beginning(c, Len(c)), ViewSectors \in Nat,
         NEW len, len = Min({Len(c), Buffer(Len(c))})
  PROVE  Beginning(c, len) = Cut(c)
<1>1. CASE call.cmd = "wall"
  <2>1. len = Len(c)
    BY <1>1, Least2 DEF Buffer
  <2> QED BY <1>1, <2>1 DEF Cut
<1>2. CASE call.cmd # "wall"
  <2>1. len = Min({Len(c), ViewSectors}) /\ len \in Nat
    BY <1>2, Least2 DEF Buffer
  <2> QED BY <1>2, <2>1, CutIs DEF Cut
<1> QED BY <1>1, <1>2

LEMMA PrefixIs ==
  ASSUME NEW c, Len(c) \in Nat, NEW n \in 0 .. Len(c)
  PROVE  IsPrefix(Beginning(c, n), c)
<1> DEFINE S == {c[k] : k \in 1 .. n}
           b == Beginning(c, n)
<1>1. n \in Nat /\ \A k \in 1 .. n : c[k] \in S
  OBVIOUS
<1> HIDE DEF S
<1>2. Len(b) = n
  BY <1>1, BeginningIs
<1>3. SubSeq(c, 1, n) = b /\ SubSeq(b, 1, n) = Beginning(b, n)
  BY <1>1, CutIs
<1>4. Beginning(b, n) = b
  BY DEF Beginning
<1> HIDE DEF b
<1>5. IsPrefix(b, c)
  BY <1>2, <1>3, <1>4 DEF IsPrefix
<1> QED BY <1>5 DEF b

LEMMA FilesAre ==
  ASSUME NEW v \in Volumes, NEW c \in v.files
  PROVE  /\ Chained(v, c) /\ Len(c) \in Nat \ {0} /\ c = Beginning(c, Len(c))
         /\ Len(v.chain[c]) \in Nat \ {0}
         /\ \A k \in 1 .. Len(v.chain[c]) :
              v.chain[c][k] \in Nat /\ v.chain[c][k] >= 2 /\ v.chain[c][k] # EndOfChain
<1>1. Chained(v, c)
  BY VolumeIs DEF IsVolume
<1>2. /\ c \in Seq(Range(c)) /\ c # <<>> /\ v.chain[c] \in Seq(Nat) /\ v.chain[c] # <<>>
      /\ \A k \in 1 .. Len(v.chain[c]) : v.chain[c][k] >= 2 /\ v.chain[c][k] # EndOfChain
  BY <1>1 DEF Chained
<1>3. /\ Len(c) \in Nat \ {0} /\ Len(v.chain[c]) \in Nat \ {0}
      /\ \A k \in 1 .. Len(v.chain[c]) : v.chain[c][k] \in Nat
  BY <1>2, EmptySeq, LenProperties, ElementOfSeq
<1>4. c = [k \in 1 .. Len(c) |-> c[k]]
  BY <1>2, LenProperties
<1>5. c = Beginning(c, Len(c))
  BY <1>4 DEF Beginning
<1> QED BY <1>1, <1>2, <1>3, <1>5

\* The first sector of a file: what the list says of it is so.
LEMMA ReadBeginKeeps == FsInv /\ ReadInv /\ FatInv /\ ReadBegin => FatInv'
<1> SUFFICES ASSUME FsInv, ReadInv, FatInv, ReadBegin PROVE FatInv'
  OBVIOUS
<1> DEFINE n == call.name
           f == fat.files[Min(FatFind(fat, n))]
<1>0. /\ DOMAIN call = Fields /\ call.pc = "ready" /\ UNCHANGED <<disk, fat, kind>>
      /\ n \in Names
  BY DEF FsInv, Types, Shaped, ReadBegin, memory, ReadInv, Asked, Readers
<1>1. CASE call'.pc \in {"idle", "read"}
  BY <1>0, <1>1, FatKept DEF FatInv
<1>2. CASE call'.pc \notin {"idle", "read"}
  <2>1. call' # NoCall
    <3> SUFFICES ASSUME call' = NoCall PROVE FALSE
      OBVIOUS
    <3> QED BY <1>2 DEF NoCall
  <2>2. kind = "fat" /\ FatFind(fat, n) # {} /\ ReadFile(f.size, f.cluster, "readFat")
    <3>1. ASSUME NEW size, NEW start PROVE ~ReadFile(size, start, "read")
      <4> SUFFICES ASSUME ReadFile(size, start, "read") PROVE FALSE
        OBVIOUS
      <4> QED BY <1>0, <1>2, <2>1, ReadFileIs
    <3>2. ~Fail
      BY <2>1 DEF Fail, Return
    <3>3. CASE kind = "fat" /\ FatFind(fat, n) # {}
      BY <3>3 DEF ReadBegin
    <3>4. CASE ~(kind = "fat" /\ FatFind(fat, n) # {})
      <4>1. CASE kind = "sfs" /\ Find(n) # {}
        BY <3>1, <3>4, <4>1 DEF ReadBegin
      <4>2. CASE ~(kind = "sfs" /\ Find(n) # {})
        BY <3>2, <3>4, <4>2 DEF ReadBegin
      <4> QED BY <4>1, <4>2
    <3> QED BY <3>3, <3>4
  <2> HIDE DEF f
  <2>3. /\ call'.pc = "readFat" /\ call'.start = f.cluster /\ call'.size = f.size /\ f.size # 0
        /\ call'.len = Min({f.size, Buffer(f.size)}) /\ (f.size \in Nat => call'.len \in Nat \ {0})
        /\ call'.left = ChainClusters - 1 /\ call'.i = 0 /\ call'.data = <<>>
        /\ call'.cmd = call.cmd /\ call'.name = n
    BY <1>0, <2>1, <2>2, ReadFileIs
  <2>4. FatMirror'
    BY <1>0, <2>2, <2>3 DEF FatInv, FatMirror, Scanned
  <2>5. ASSUME NEW v \in Volumes, disk' = DiskOf("fat", v)
        PROVE  \E c \in v.files : Followed(v, c)'
    <3>1. Scanned(v)
      BY <1>0, <2>2, <2>5 DEF FatInv, FatMirror
    <3>2. (f.name = "?" \/ Leads(v, f)) /\ f.name = n
      <4> DEFINE S == {e \in Range(fat.files) : e.name = "?" \/ Leads(v, e)}
                 m == Min(FatFind(fat, n))
      <4>1. fat.files \in Seq(S)
        BY <3>1 DEF Scanned
      <4> HIDE DEF S
      <4>2. DOMAIN fat.files = 1 .. Len(fat.files) /\ Len(fat.files) \in Nat
        BY <4>1, LenProperties
      <4>3. FatFind(fat, n) \in SUBSET Nat
        BY <4>2 DEF FatFind
      <4>4. m \in FatFind(fat, n)
        BY <2>2, <4>3, Least
      <4>5. m \in 1 .. Len(fat.files) /\ fat.files[m].name = n
        BY <4>2, <4>4 DEF FatFind
      <4>6. fat.files[m] \in S
        BY <4>1, <4>5, ElementOfSeq
      <4> QED BY <4>5, <4>6 DEF S, f
    <3>3. PICK c \in v.files : Len(c) = f.size /\ c[1].name = n /\ v.chain[c][1] = f.cluster
      BY <1>0, <2>3, <3>2, FsAssumption DEF Leads
    <3>4. /\ Len(c) \in Nat \ {0} /\ Len(v.chain[c]) \in Nat \ {0}
      BY FilesAre
    <3>5. /\ fat.spc \in Nat \ {0} /\ ChainClusters \in Nat \ {0}
      BY <3>1, VolumeIs, FatAssumption DEF Scanned
    <3>6. /\ ChainClusters - (ChainClusters - 1) = 1 /\ ChainClusters - 1 \in Nat
          /\ 1 \in 1 .. Len(v.chain[c]) /\ (1 - 1) * fat.spc + 0 = 0 /\ 0 \in 0 .. fat.spc - 1
      BY <3>4, <3>5, Times
    <3>7. 0 < call'.len /\ <<>> = Beginning(c, 0)
      BY <2>3, <3>3, <3>4, NoBeginning
    <3>8. Buffer(call.size)' = Buffer(f.size)
      BY <2>3 DEF Buffer
    <3>9. fat' = fat /\ call'.size = Len(c) /\ c[1].name = call'.name
      BY <1>0, <2>3, <3>3
    <3>10. Followed(v, c)'
      BY <2>3, <3>3, <3>6, <3>7, <3>8, <3>9 DEF Followed
    <3> QED BY <3>10
  <2> QED BY <1>0, <2>2, <2>3, <2>4, <2>5 DEF FatInv, FatReading
<1> QED BY <1>1, <1>2

\* Where the read is, in numbers.
LEMMA FollowedIs ==
  ASSUME FsInv, FatInv, call.pc \in {"readFat", "readNext"},
         NEW v \in Volumes, disk = DiskOf("fat", v)
  PROVE  /\ fat.spc \in Nat \ {0} /\ fat.fatLba = Geometry(v.sectors[1]).fatLba
         /\ fat.dataLba = Geometry(v.sectors[1]).dataLba
         /\ fat.spc = Geometry(v.sectors[1]).spc
         /\ \E c \in v.files :
              /\ Followed(v, c) /\ Len(c) \in Nat \ {0} /\ call.len \in Nat
              /\ call.len <= Len(c)
<1>1. Scanned(v) /\ DOMAIN fat = FatFields
  BY DEF FatInv, FatReading, FatMirror
<1>2. /\ fat.spc = v.sectors[1].spc /\ fat.fatLba = v.sectors[1].reserved
      /\ fat.dataLba = v.sectors[1].reserved + v.sectors[1].fats
  BY <1>1 DEF Scanned
<1>3. /\ fat.spc \in Nat \ {0} /\ fat.fatLba = Geometry(v.sectors[1]).fatLba
      /\ fat.dataLba = Geometry(v.sectors[1]).dataLba
      /\ fat.spc = Geometry(v.sectors[1]).spc
  BY <1>2, VolumeIs DEF Geometry
<1>4. PICK c \in v.files : Followed(v, c)
  BY DEF FatInv, FatReading
<1>5. Len(c) \in Nat \ {0} /\ ViewSectors \in Nat
  BY FilesAre, FsAssumption
<1>6. call.len = Min({Len(c), Buffer(Len(c))})
  BY <1>4 DEF Followed
<1>7. call.len \in Nat /\ call.len <= Len(c)
  <2>1. Buffer(Len(c)) \in Nat
    BY <1>5 DEF Buffer
  <2> QED BY <1>5, <1>6, <2>1, Least2
<1> QED BY <1>3, <1>4, <1>5, <1>7

\* One sector more of a file.
LEMMA ReadFatKeeps == FsInv /\ FatInv /\ ReadFat => FatInv' /\ FatReadsWhole
<1> SUFFICES ASSUME FsInv, FatInv, ReadFat PROVE FatInv' /\ FatReadsWhole
  OBVIOUS
<1> DEFINE lba  == ClusterLba(fat, call.start) + call.i
           data == Append(call.data, disk[lba])
<1>0. /\ DOMAIN call = Fields /\ call.pc = "readFat" /\ UNCHANGED <<disk, fat, kind>>
      /\ kind = "fat"
  BY DEF FsInv, Types, Shaped, ReadFat, Read, memory, FatInv, FatReading
<1>1. \/ Fail
      \/ lba \in Sectors /\ Len(data) = call.len /\ ReturnFile(call.size, data)
      \/ /\ lba \in Sectors /\ Len(data) # call.len
         /\ call' = [call EXCEPT !.data = data, !.i = IF @ + 1 < fat.spc THEN @ + 1 ELSE 0,
                                 !.pc = IF call.i + 1 < fat.spc THEN @ ELSE "readNext"]
  BY DEF ReadFat, Read, ReadOutcome
<1>2. ASSUME NEW v \in Volumes, disk = DiskOf("fat", v), lba \in Sectors
      PROVE  \E c \in v.files :
               LET k == ChainClusters - call.left
                   m == (k - 1) * fat.spc + call.i
               IN /\ Followed(v, c) /\ call.left \in Nat /\ k \in 1 .. Len(v.chain[c])
                  /\ m \in Nat /\ (k - 1) * fat.spc \in Nat /\ call.i \in 0 .. fat.spc - 1
                  /\ fat.spc \in Nat \ {0} /\ m < call.len
                  /\ call.len <= Len(c) /\ call.len \in Nat /\ Len(c) \in Nat
                  /\ data = Beginning(c, m + 1) /\ Len(data) = m + 1
  <2>1. PICK c \in v.files : /\ Followed(v, c) /\ Len(c) \in Nat \ {0} /\ call.len \in Nat
                             /\ call.len <= Len(c)
    BY <1>0, <1>2, FollowedIs
  <2> DEFINE k == ChainClusters - call.left
             m == (k - 1) * fat.spc + call.i
             geo == Geometry(v.sectors[1])
  <2>2. /\ fat.spc \in Nat \ {0} /\ fat.dataLba = geo.dataLba /\ fat.spc = geo.spc
    BY <1>0, <1>2, FollowedIs
  <2>3. /\ call.left \in Nat /\ k \in 1 .. Len(v.chain[c]) /\ call.start = v.chain[c][k]
        /\ call.i \in 0 .. fat.spc - 1 /\ m < call.len /\ call.data = Beginning(c, m)
    BY <1>0, <2>1 DEF Followed
  <2>4. /\ Chained(v, c) /\ Len(v.chain[c]) \in Nat \ {0}
        /\ call.start \in Nat /\ call.start >= 2
    BY <2>3, FilesAre
  <2>5. k \in Nat \ {0} /\ (k - 1) * fat.spc \in Nat /\ m \in Nat
    <3>1. k \in Nat \ {0}
      BY <2>3, <2>4
    <3> HIDE DEF k
    <3>2. (k - 1) * fat.spc \in Nat
      BY <2>2, <3>1, Times
    <3> QED BY <2>2, <2>3, <3>1, <3>2
  <2>6. disk[lba] = c[m + 1]
    <3>1. lba = fat.dataLba + (call.start - 2) * fat.spc + call.i
      BY <2>4 DEF ClusterLba
    <3>2. disk[lba] = SectorAt(v, lba)
      BY <1>2, VolumeAt
    <3>3. \A j \in 1 .. Len(v.chain[c]), i \in 0 .. geo.spc - 1 :
            (j - 1) * geo.spc + i < Len(c) =>
              SectorAt(v, geo.dataLba + (v.chain[c][j] - 2) * geo.spc + i)
                = c[(j - 1) * geo.spc + i + 1]
      BY <2>4 DEF Chained
    <3> HIDE DEF geo, k, lba
    <3>4. m < Len(c)
      BY <2>1, <2>3, <2>5
    <3>5. SectorAt(v, geo.dataLba + (v.chain[c][k] - 2) * geo.spc + call.i)
            = c[(k - 1) * geo.spc + call.i + 1]
      BY <2>2, <2>3, <3>3, <3>4
    <3> QED BY <2>2, <2>3, <3>1, <3>2, <3>5
  <2> HIDE DEF lba
  <2>7. data = Beginning(c, m + 1)
    <3> HIDE DEF m
    <3> QED BY <2>3, <2>5, <2>6, Longer
  <2>8. Len(data) = m + 1
    <3> HIDE DEF m
    <3> DEFINE S == {c[j] : j \in 1 .. m + 1}
    <3>1. \A j \in 1 .. m + 1 : c[j] \in S
      OBVIOUS
    <3> HIDE DEF S
    <3>2. m + 1 \in Nat
      BY <2>5
    <3>3. Len(Beginning(c, m + 1)) = m + 1
      BY <3>1, <3>2, BeginningIs
    <3> QED BY <2>7, <3>3
  <2> QED BY <2>1, <2>2, <2>3, <2>5, <2>7, <2>8
<1> HIDE DEF lba, data
<1>3. CASE Fail
  <2>1. call'.pc = "idle" /\ ~result'.ok
    BY <1>3 DEF Fail, Return, NoCall, NoResult
  <2> QED BY <1>0, <2>1, FatKept DEF FatInv, FatReadsWhole
<1>4. CASE lba \in Sectors /\ Len(data) = call.len /\ ReturnFile(call.size, data)
  <2>1. call'.pc = "idle" /\ result'.size = call.size /\ result'.data = data
    BY <1>4 DEF ReturnFile, NoCall
  <2>2. ASSUME NEW v \in Volumes, disk = DiskOf("fat", v)
        PROVE  \E c \in v.files :
                 /\ result'.size = Len(c) /\ c[1].name = call.name
                 /\ IF v.intact THEN result'.data = Cut(c) ELSE IsPrefix(result'.data, c)
    <3>1. PICK c \in v.files :
            /\ Followed(v, c) /\ call.len <= Len(c) /\ call.len \in Nat /\ Len(c) \in Nat
            /\ data = Beginning(c, call.len)
      BY <1>2, <1>4, <2>2
    <3>2. /\ call.len = Min({Len(c), Buffer(Len(c))}) /\ call.size = Len(c)
          /\ c[1].name = call.name
      BY <3>1 DEF Followed
    <3>3. data = Cut(c)
      BY <3>1, <3>2, CutOf, FilesAre, FsAssumption
    <3>4. IsPrefix(data, c)
      <4>1. call.len \in 0 .. Len(c)
        BY <3>1
      <4> QED BY <3>1, <4>1, PrefixIs
    <3> QED BY <2>1, <3>2, <3>3, <3>4
  <2> QED BY <1>0, <2>1, <2>2, FatKept DEF FatInv, FatReadsWhole
<1>5. CASE /\ lba \in Sectors /\ Len(data) # call.len
           /\ call' = [call EXCEPT !.data = data, !.i = IF @ + 1 < fat.spc THEN @ + 1 ELSE 0,
                                   !.pc = IF call.i + 1 < fat.spc THEN @ ELSE "readNext"]
  <2>1. /\ call'.data = data /\ call'.i = (IF call.i + 1 < fat.spc THEN call.i + 1 ELSE 0)
        /\ call'.pc = (IF call.i + 1 < fat.spc THEN "readFat" ELSE "readNext")
        /\ call'.start = call.start /\ call'.left = call.left /\ call'.len = call.len
        /\ call'.size = call.size /\ call'.name = call.name /\ call'.cmd = call.cmd
    BY <1>0, <1>5 DEF Fields
  <2>2. FatMirror' /\ FatReadsWhole
    BY <1>0, <2>1 DEF FatInv, FatMirror, Scanned, FatReadsWhole
  <2>3. ASSUME NEW v \in Volumes, disk' = DiskOf("fat", v)
        PROVE  \E c \in v.files : Followed(v, c)'
    <3> DEFINE k == ChainClusters - call.left
               m == (k - 1) * fat.spc + call.i
    <3>1. PICK c \in v.files :
            /\ Followed(v, c) /\ call.left \in Nat /\ k \in 1 .. Len(v.chain[c])
            /\ m \in Nat /\ (k - 1) * fat.spc \in Nat /\ call.i \in 0 .. fat.spc - 1
            /\ fat.spc \in Nat \ {0} /\ m < call.len
            /\ call.len <= Len(c) /\ call.len \in Nat /\ Len(c) \in Nat
            /\ data = Beginning(c, m + 1) /\ Len(data) = m + 1
      BY <1>0, <1>2, <1>5, <2>3
    <3>2. /\ call.start = v.chain[c][k] /\ call.len = Min({call.size, Buffer(call.size)})
          /\ call.size = Len(c) /\ c[1].name = call.name
      BY <3>1 DEF Followed
    <3>3. m + 1 < call.len
      BY <1>5, <3>1
    <3>4. Buffer(call.size)' = Buffer(call.size)
      BY <2>1 DEF Buffer
    <3> DEFINE q == (k - 1) * fat.spc
    <3>5. CASE call.i + 1 < fat.spc
      <4>1. call'.i = call.i + 1 /\ call'.pc = "readFat"
        BY <2>1, <3>5
      <4>2. call.i + 1 \in 0 .. fat.spc - 1 /\ q + (call.i + 1) = m + 1
        <5> HIDE DEF k
        <5>1. q \in Nat /\ m = q + call.i /\ call.i \in 0 .. fat.spc - 1 /\ fat.spc \in Nat
          BY <3>1
        <5> HIDE DEF q, m
        <5> QED BY <3>5, <5>1
      <4> HIDE DEF m
      <4>3. /\ call'.left \in Nat /\ k' \in 1 .. Len(v.chain[c]) /\ call'.start = v.chain[c][k']
            /\ call'.i \in 0 .. fat'.spc - 1 /\ q' + call'.i = m + 1 /\ k' = k
            /\ m + 1 < call'.len /\ call'.data = Beginning(c, m + 1)
            /\ call'.len = Min({call'.size, Buffer(call.size)'})
            /\ call'.size = Len(c) /\ c[1].name = call'.name
        BY <1>0, <2>1, <3>1, <3>2, <3>3, <3>4, <4>1, <4>2
      <4>4. Followed(v, c)'
        BY <4>1, <4>3 DEF Followed
      <4> QED BY <4>4
    <3>6. CASE ~(call.i + 1 < fat.spc)
      <4>1. call'.i = 0 /\ call'.pc = "readNext"
        BY <2>1, <3>6
      <4>2. q + fat.spc = m + 1
        <5> HIDE DEF k
        <5>1. q \in Nat /\ m = q + call.i /\ call.i \in 0 .. fat.spc - 1 /\ fat.spc \in Nat
          BY <3>1
        <5> HIDE DEF q, m
        <5> QED BY <3>6, <5>1
      <4> HIDE DEF m
      <4>3. /\ call'.left \in Nat /\ k' \in 1 .. Len(v.chain[c]) /\ call'.start = v.chain[c][k']
            /\ q' + fat'.spc = m + 1 /\ k' = k
            /\ m + 1 < call'.len /\ call'.data = Beginning(c, m + 1)
            /\ call'.len = Min({call'.size, Buffer(call.size)'})
            /\ call'.size = Len(c) /\ c[1].name = call'.name
        BY <1>0, <2>1, <3>1, <3>2, <3>3, <3>4, <4>1, <4>2
      <4>4. Followed(v, c)'
        BY <4>1, <4>3 DEF Followed
      <4> QED BY <4>4
    <3> QED BY <3>5, <3>6
  <2> QED BY <1>0, <2>2, <2>3 DEF FatInv, FatReading
<1> QED BY <1>1, <1>3, <1>4, <1>5

\* The FAT entry of a cluster of a file.
LEMMA NextClusterKeeps == FsInv /\ FatInv /\ NextCluster => FatInv' /\ FatReadsWhole
<1> SUFFICES ASSUME FsInv, FatInv, NextCluster PROVE FatInv' /\ FatReadsWhole
  OBVIOUS
<1> DEFINE lba  == EntryLba(fat, call.start)
           next == NextIn(disk[lba], call.start)
<1>0. /\ DOMAIN call = Fields /\ call.pc = "readNext" /\ UNCHANGED <<disk, fat, kind>>
      /\ kind = "fat"
  BY DEF FsInv, Types, Shaped, NextCluster, Read, memory, FatInv, FatReading
<1>1. \/ Fail
      \/ /\ lba \in Sectors /\ ReturnFile(call.size, call.data)
         /\ next = EndOfChain \/ (next >= 2 /\ call.left = 0)
      \/ /\ lba \in Sectors /\ ~(next # EndOfChain /\ next < 2)
         /\ ~(next = EndOfChain \/ (next >= 2 /\ call.left = 0))
         /\ call' = [call EXCEPT !.pc = "readFat", !.start = next, !.left = @ - 1]
  BY DEF NextCluster, Read, ReadOutcome
<1>2. ASSUME NEW v \in Volumes, disk = DiskOf("fat", v), lba \in Sectors
      PROVE  \E c \in v.files :
               LET k == ChainClusters - call.left
                   m == (k - 1) * fat.spc + fat.spc
               IN /\ Followed(v, c) /\ call.left \in Nat /\ k \in 1 .. Len(v.chain[c])
                  /\ m \in Nat /\ fat.spc \in Nat \ {0} /\ m < call.len
                  /\ call.len <= Len(c) /\ call.len \in Nat /\ Len(c) \in Nat
                  /\ call.data = Beginning(c, m) /\ ((k + 1) - 1) * fat.spc = m
                  /\ IF k < Len(v.chain[c])
                     THEN /\ next = v.chain[c][k + 1] /\ next \in Nat /\ next >= 2
                          /\ next # EndOfChain /\ (v.intact => call.left # 0)
                     ELSE ~v.intact /\ (next < 2 \/ next = EndOfChain)
  <2>1. PICK c \in v.files : /\ Followed(v, c) /\ Len(c) \in Nat \ {0} /\ call.len \in Nat
                             /\ call.len <= Len(c)
    BY <1>0, <1>2, FollowedIs
  <2> DEFINE k == ChainClusters - call.left
             m == (k - 1) * fat.spc + fat.spc
             geo == Geometry(v.sectors[1])
             chain == v.chain[c]
  <2>2. fat.spc \in Nat \ {0} /\ fat.fatLba = geo.fatLba /\ fat.spc = geo.spc
    BY <1>0, <1>2, FollowedIs
  <2>3. /\ call.left \in Nat /\ k \in 1 .. Len(chain) /\ call.start = chain[k]
        /\ m < call.len /\ call.data = Beginning(c, m)
    BY <1>0, <2>1 DEF Followed
  <2>4. Chained(v, c) /\ Len(chain) \in Nat \ {0} /\ ChainClusters \in Nat
    BY FilesAre, FatAssumption
  <2>5. /\ k \in Nat \ {0} /\ k * fat.spc = m /\ m \in Nat /\ ((k + 1) - 1) * fat.spc = m
    <3>1. k \in Nat \ {0}
      BY <2>3, <2>4
    <3> HIDE DEF k
    <3> QED BY <2>2, <3>1, Times
  <2>6. m < Len(c)
    BY <2>1, <2>3, <2>5
  <2>7. next = NextOf(v, chain[k])
    <3>1. lba = EntryLba(geo, chain[k])
      BY <2>2, <2>3 DEF EntryLba
    <3>2. disk[lba] = SectorAt(v, lba)
      BY <1>2, VolumeAt
    <3> QED BY <2>3, <3>1, <3>2 DEF NextOf
  <2> HIDE DEF next, lba
  <2>8. /\ \A j \in 1 .. Len(chain) - 1 : NextOf(v, chain[j]) = chain[j + 1]
        /\ \/ Len(c) <= Len(chain) * geo.spc /\ (v.intact => Len(chain) <= ChainClusters)
           \/ ~v.intact /\ (NextOf(v, chain[Len(chain)]) < 2
                             \/ NextOf(v, chain[Len(chain)]) = EndOfChain)
    BY <2>4 DEF Chained
  <2>9. CASE k < Len(chain)
    <3>1. k \in 1 .. Len(chain) - 1 /\ k + 1 \in 1 .. Len(chain)
      <4>1. \A a, b \in Nat \ {0} : a < b => a \in 1 .. b - 1 /\ a + 1 \in 1 .. b
        OBVIOUS
      <4> QED BY ONLY <2>4, <2>5, <2>9, <4>1, Zenon
    <3>2. next = chain[k + 1]
      BY <2>7, <2>8, <3>1
    <3>3. next \in Nat /\ next >= 2 /\ next # EndOfChain
      BY <3>1, <3>2, FilesAre
    <3>4. v.intact => call.left # 0
      BY <2>3, <2>4, <2>8, <2>9
    <3> QED BY <2>1, <2>2, <2>3, <2>5, <2>9, <3>2, <3>3, <3>4
  <2>10. CASE ~(k < Len(chain))
    <3>1. k = Len(chain)
      BY <2>3, <2>4, <2>10
    <3>2. ~(Len(c) <= Len(chain) * geo.spc)
      <4>1. Len(chain) * geo.spc = m
        BY <2>2, <2>5, <3>1
      <4> HIDE DEF m
      <4> QED BY <2>1, <2>5, <2>6, <4>1
    <3>3. ~v.intact /\ (next < 2 \/ next = EndOfChain)
      BY <2>7, <2>8, <3>1, <3>2
    <3> QED BY <2>1, <2>2, <2>3, <2>5, <2>10, <3>3
  <2> QED BY <2>9, <2>10
<1> HIDE DEF lba, next
<1>3. CASE Fail
  <2>1. call'.pc = "idle" /\ ~result'.ok
    BY <1>3 DEF Fail, Return, NoCall, NoResult
  <2> QED BY <1>0, <2>1, FatKept DEF FatInv, FatReadsWhole
<1>4. CASE /\ lba \in Sectors /\ ReturnFile(call.size, call.data)
           /\ next = EndOfChain \/ (next >= 2 /\ call.left = 0)
  <2>1. call'.pc = "idle" /\ result'.size = call.size /\ result'.data = call.data
    BY <1>4 DEF ReturnFile, NoCall
  <2>2. ASSUME NEW v \in Volumes, disk = DiskOf("fat", v)
        PROVE  \E c \in v.files :
                 /\ result'.size = Len(c) /\ c[1].name = call.name
                 /\ ~v.intact /\ IsPrefix(result'.data, c)
    <3> DEFINE k == ChainClusters - call.left
               m == (k - 1) * fat.spc + fat.spc
    <3>1. PICK c \in v.files :
            /\ Followed(v, c) /\ m \in Nat /\ m < call.len
            /\ call.len <= Len(c) /\ call.len \in Nat /\ Len(c) \in Nat
            /\ call.data = Beginning(c, m)
            /\ IF k < Len(v.chain[c])
               THEN next # EndOfChain /\ (v.intact => call.left # 0)
               ELSE ~v.intact
      BY <1>2, <1>4, <2>2
    <3>2. call.size = Len(c) /\ c[1].name = call.name
      BY <3>1 DEF Followed
    <3>3. ~v.intact
      <4> HIDE DEF k, m
      <4> QED BY <1>4, <3>1
    <3>4. IsPrefix(call.data, c)
      <4> HIDE DEF m
      <4>1. m \in 0 .. Len(c)
        BY <3>1
      <4> QED BY <3>1, <4>1, PrefixIs
    <3> QED BY <2>1, <3>2, <3>3, <3>4
  <2> QED BY <1>0, <2>1, <2>2, FatKept DEF FatInv, FatReadsWhole
<1>5. CASE /\ lba \in Sectors /\ ~(next # EndOfChain /\ next < 2)
           /\ ~(next = EndOfChain \/ (next >= 2 /\ call.left = 0))
           /\ call' = [call EXCEPT !.pc = "readFat", !.start = next, !.left = @ - 1]
  <2>1. /\ call'.data = call.data /\ call'.i = call.i /\ call'.pc = "readFat"
        /\ call'.start = next /\ call'.left = call.left - 1 /\ call'.len = call.len
        /\ call'.size = call.size /\ call'.name = call.name /\ call'.cmd = call.cmd
    BY <1>0, <1>5 DEF Fields
  <2>2. FatMirror' /\ FatReadsWhole
    BY <1>0, <2>1 DEF FatInv, FatMirror, Scanned, FatReadsWhole
  <2>3. ASSUME NEW v \in Volumes, disk' = DiskOf("fat", v)
        PROVE  \E c \in v.files : Followed(v, c)'
    <3> DEFINE k == ChainClusters - call.left
               m == (k - 1) * fat.spc + fat.spc
    <3>1. PICK c \in v.files :
            /\ Followed(v, c) /\ call.left \in Nat /\ k \in 1 .. Len(v.chain[c])
            /\ m \in Nat /\ fat.spc \in Nat \ {0} /\ m < call.len
            /\ call.data = Beginning(c, m) /\ ((k + 1) - 1) * fat.spc = m
            /\ IF k < Len(v.chain[c])
               THEN next = v.chain[c][k + 1] /\ next \in Nat /\ next >= 2 /\ next # EndOfChain
               ELSE next < 2 \/ next = EndOfChain
      BY <1>0, <1>2, <1>5, <2>3
    <3>2. /\ call.len = Min({call.size, Buffer(call.size)}) /\ call.i = 0
          /\ call.size = Len(c) /\ c[1].name = call.name
      BY <1>0, <3>1 DEF Followed
    <3>3. k < Len(v.chain[c]) /\ call.left # 0
      <4> HIDE DEF k, m
      <4> QED BY <1>5, <3>1
    <3>4. Buffer(call.size)' = Buffer(call.size)
      BY <2>1 DEF Buffer
    <3>5. Len(v.chain[c]) \in Nat /\ ChainClusters \in Nat
      BY FilesAre, FatAssumption
    <3>6. call'.left \in Nat /\ k' = k + 1 /\ k' \in 1 .. Len(v.chain[c])
      <4>1. call.left \in Nat /\ k \in 1 .. Len(v.chain[c])
        BY <3>1
      <4> QED BY <2>1, <3>3, <3>5, <4>1
    <3>7. (k' - 1) * fat'.spc + 0 = m
      <4>1. (k' - 1) * fat'.spc = m
        BY <1>0, <3>1, <3>6
      <4> HIDE DEF k, m
      <4> QED BY <3>1, <4>1
    <3> HIDE DEF m
    <3>8. /\ call'.start = v.chain[c][k'] /\ call'.i = 0 /\ 0 \in 0 .. fat'.spc - 1
          /\ m < call'.len /\ call'.data = Beginning(c, m)
          /\ call'.len = Min({call'.size, Buffer(call.size)'})
          /\ call'.size = Len(c) /\ c[1].name = call'.name
      <4>1. /\ call'.start = v.chain[c][k'] /\ call'.data = Beginning(c, m)
            /\ m < call'.len /\ fat'.spc \in Nat \ {0}
        <5> HIDE DEF k
        <5> QED BY <1>0, <2>1, <3>1, <3>3, <3>6
      <4> HIDE DEF k
      <4> QED BY <2>1, <3>2, <3>4, <4>1
    <3>9. Followed(v, c)'
      BY <2>1, <3>6, <3>7, <3>8 DEF Followed
    <3> QED BY <3>9
  <2> QED BY <1>0, <2>2, <2>3 DEF FatInv, FatReading
<1> QED BY <1>1, <1>3, <1>4, <1>5

LEMMA PowerFailureFat ==
  ASSUME PowerFailure PROVE FatInv'
<1>1. call'.pc = "idle" /\ kind' = "none"
  BY DEF PowerFailure, NoCall
<1>2. DOMAIN fat' = FatFields
  BY DEF PowerFailure, NoFat, FatFields
<1> QED BY <1>1, <1>2 DEF FatInv, FatMirror, FatReading

LEMMA InitFat == Init => FatInv
<1> SUFFICES ASSUME Init PROVE FatInv
  OBVIOUS
<1>1. call.pc = "idle" /\ kind = "none"
  BY DEF Init, NoCall
<1>2. DOMAIN fat = FatFields
  BY DEF Init, NoFat, FatFields
<1> QED BY <1>1, <1>2 DEF FatInv, FatMirror, FatReading

LEMMA NextFat == FsInv /\ ReadInv /\ FatInv /\ [Next]_vars => FatInv' /\ FatReadsWhole
<1> SUFFICES ASSUME FsInv, ReadInv, FatInv, [Next]_vars PROVE FatInv' /\ FatReadsWhole
  OBVIOUS
<1>0. call.pc \notin {"readFat", "readNext"} => FatReadsWhole
  BY DEF FatReadsWhole
<1>1. CASE CallMount \/ CallWall \/ \E n \in Names : CallSave(n) \/ CallView(n) \/ CallOpen(n)
  <2>1. \E cmd, n, len : Call(cmd, n, len)
    BY <1>1 DEF CallMount, CallWall, CallSave, CallView, CallOpen
  <2>2. call.pc = "idle"
    BY <2>1 DEF Call
  <2> QED BY <1>0, <2>1, <2>2, OthersKeep
<1>0a. CASE Probing
  <2>1. call.pc \notin {"readFat", "readNext"}
    BY <1>0a, ProbeIs DEF Probing
  <2> QED BY <1>0, <1>0a, <2>1, ProbeFat
<1>2. CASE \/ LoadSuper \/ LoadTable \/ FormatSuper \/ FormatTable \/ Mounted
           \/ SaveBegin \/ WriteData \/ StoreTable \/ StoreSuper \/ ReadData
  <2>1. call.pc \notin {"readFat", "readNext"}
    BY <1>2 DEF LoadSuper, LoadTable, FormatSuper, FormatTable, Mounted,
         SaveBegin, WriteData, StoreTable, StoreSuper, ReadData
  <2> QED BY <1>0, <1>2, <2>1, OthersKeep
<1>3. CASE MountFat \/ ScanRoot \/ NextRoot \/ ReadBegin
  <2>1. call.pc \notin {"readFat", "readNext"}
    BY <1>3 DEF MountFat, ScanRoot, NextRoot, ReadBegin
  <2> QED BY <1>0, <1>3, <2>1, MountFatKeeps, ScanRootKeeps, NextRootKeeps, ReadBeginKeeps
<1>4. CASE ReadFat \/ NextCluster
  BY <1>4, ReadFatKeeps, NextClusterKeeps
<1>5. CASE PowerFailure
  <2>1. ~result'.ok
    BY <1>5 DEF PowerFailure, NoResult
  <2> QED BY <1>5, <2>1, PowerFailureFat DEF FatReadsWhole
<1>6. CASE UNCHANGED vars
  <2>1. UNCHANGED <<disk, kind, fat, call>>
    BY <1>6 DEF vars, memory
  <2>2. FatMirror'
    BY <2>1 DEF FatInv, FatMirror, Scanned
  <2>3. FatReading'
    BY <2>1 DEF FatInv, FatReading, Followed, Buffer
  <2>4. FatReadsWhole
    BY <2>1 DEF FatReadsWhole
  <2> QED BY <2>2, <2>3, <2>4 DEF FatInv
<1> QED BY <1>0a, <1>1, <1>2, <1>3, <1>4, <1>5, <1>6 DEF Next, Probing

\* What simplefs_read_file hands out, after any steps, faults and power failures:
\* from an SFS disk a whole save of that name, cut to the caller's buffer (the one
\* on the disk of the drive in use, if the call mounted; not if the drive has changed
\* since the directory was loaded, if it did not), and from a FAT32 volume in order
\* the file its directory leads to, through whatever clusters.
THEOREM ReadsWhole == Spec => ReadsAreWhole
<1> DEFINE Inv == Storage /\ ReadInv /\ FatInv
<1>1. Init => Inv
  BY InitSound, InitReads, InitFat
<1>2. Inv /\ [Next]_vars => Inv' /\ SavesReadWhole /\ FatReadsWhole
  BY NextIs, NextReads, NextFat DEF Storage
<1> HIDE DEF Inv
<1>3. Inv /\ [Next]_vars => Inv'
  BY <1>2
<1>4. Inv /\ [Next]_vars => [SavesReadWhole /\ FatReadsWhole]_vars
  BY <1>2
<1> QED BY <1>1, <1>3, <1>4, PTL DEF Spec, ReadsAreWhole

==============================================================================
