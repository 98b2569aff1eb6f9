-------------------------------- MODULE Fat32 --------------------------------
(***************************************************************************)
(* What the storage layer reads of a FAT32 volume (simplefs.c): the boot   *)
(* sector, the file allocation table and the sectors of the root           *)
(* directory.  SimpleFS reads them, a sector a step.                       *)
(*                                                                         *)
(* Abstractions: the fields of a sector are a record; names are those      *)
(* fat_build_short_name makes; sizes are in sectors.                       *)
(***************************************************************************)
EXTENDS Naturals, FiniteSets, Sequences, FiniteSetsExt, SequencesExt

CONSTANTS
  FatMaxFiles,    \* FAT_MAX_FILES
  PerFatSector,   \* FAT entries in one sector (128)
  RootClusters,   \* budget_clusters of fat_mount_and_scan_root (256)
  ChainClusters   \* budget_clusters of simplefs_read_file (4096)

ASSUME FatAssumption ==
  /\ FatMaxFiles \in Nat /\ PerFatSector \in Nat \ {0}
  /\ RootClusters \in Nat \ {0} /\ ChainClusters \in Nat \ {0}

EndOfChain == 268435448      \* 0x0FFFFFF8, and all above it

ZeroSector == [kind |-> "zero"]
BootSector(spc, root, reserved, fats) ==
  [kind |-> "fat", spc |-> spc, root |-> root, reserved |-> reserved, fats |-> fats]
FatSector(s, next) ==
  [kind |-> "fatTable", next |-> [c \in s * PerFatSector .. (s + 1) * PerFatSector - 1 |->
                                    IF c \in DOMAIN next THEN next[c] ELSE 0]]
FatKinds == {"fat", "fatTable", "fatRoot"}

\* A directory entry: the end of the directory, one that is passed over
\* (deleted, long name, label, directory, empty name), or a file.
DirEnd  == [is |-> "end"]
DirSkip == [is |-> "skip"]
DirFile(n, cluster, size) == [is |-> "file", name |-> n, cluster |-> cluster, size |-> size]
RootSector(ents) == [kind |-> "fatRoot", ents |-> ents]

-----------------------------------------------------------------------------

\* g_fat and g_fat_files before the first mount.
NoFat == [spc |-> 0, fatLba |-> 0, dataLba |-> 0, files |-> <<>>]

\* What the boot sector tells.
Geometry(boot) == [spc |-> boot.spc, fatLba |-> boot.reserved,
                   dataLba |-> boot.reserved + boot.fats, files |-> <<>>]

\* Seeded fault: clusters are counted from 0.
ClusterLbaFromZero(fat, c) == fat.dataLba + c * fat.spc

\* fat_cluster_to_lba: clusters below 2 are taken for cluster 2.
ClusterLba(fat, c) == fat.dataLba + (IF c < 2 THEN 0 ELSE (c - 2) * fat.spc)

\* fat_get_fat_entry: where the entry is, and what it says.
EntryLba(fat, c) == fat.fatLba + (c \div PerFatSector)
NextIn(sector, c) == IF sector.kind = "fatTable" THEN sector.next[c] ELSE 0

\* Sectors of zeros, an empty SFS directory among them, read as an end; other
\* sectors an interrupted format left there, as a file nobody asks for.
IsZero(sector) ==
  \/ sector.kind = "zero"
  \/ sector.kind = "table" /\ \A i \in DOMAIN sector.ents : ~sector.ents[i].used

\* What a sector of the root directory adds to g_fat_files, up to the end.
Entries(sector) ==
  CASE sector.kind = "fatRoot" -> sector.ents
    [] IsZero(sector) -> <<DirEnd>>
    [] OTHER -> <<DirFile("?", 0, 0)>>
HasEnd(sector) == DirEnd \in ToSet(Entries(sector))

FilesAfter(files, sector) ==
  LET ents == Entries(sector)
      last == IF HasEnd(sector) THEN Min({i \in DOMAIN ents : ents[i] = DirEnd}) ELSE Len(ents)
      after[i \in 0 .. last] ==
        IF i = 0 THEN files
        ELSE IF ents[i].is = "file" /\ Len(after[i - 1]) < FatMaxFiles
        THEN Append(after[i - 1], ents[i])
        ELSE after[i - 1]
  IN after[last]

\* fat_find takes the first of these.
FatFind(fat, n) == {i \in DOMAIN fat.files : fat.files[i].name = n}

-----------------------------------------------------------------------------
(* The volumes a disk may hold (external): the sectors, the files on the      *)
(* volume, of each file its clusters as far as they can be followed, and      *)
(* whether they can be followed to the end of every file.                     *)

SectorAt(v, lba) == IF lba < Len(v.sectors) THEN v.sectors[lba + 1] ELSE ZeroSector

NextOf(v, cluster) ==
  NextIn(SectorAt(v, EntryLba(Geometry(v.sectors[1]), cluster)), cluster)

\* File c lies in the clusters of its chain, and the chain ends where the file
\* does, or too early.
Chained(v, c) ==
  LET fat   == Geometry(v.sectors[1])
      chain == v.chain[c]
  IN /\ c \in Seq(Range(c)) /\ c # <<>> /\ chain \in Seq(Nat) /\ chain # <<>>
     /\ \A k \in 1 .. Len(chain) : chain[k] >= 2 /\ chain[k] # EndOfChain
     /\ \A k \in 1 .. Len(chain) - 1 : NextOf(v, chain[k]) = chain[k + 1]
     /\ \A k \in 1 .. Len(chain), i \in 0 .. fat.spc - 1 :
          (k - 1) * fat.spc + i < Len(c) =>
            SectorAt(v, fat.dataLba + (chain[k] - 2) * fat.spc + i) = c[(k - 1) * fat.spc + i + 1]
     /\ \/ Len(c) <= Len(chain) * fat.spc /\ (v.intact => Len(chain) <= ChainClusters)
        \/ ~v.intact /\ (NextOf(v, chain[Len(chain)]) < 2
                          \/ NextOf(v, chain[Len(chain)]) = EndOfChain)

\* The entry of a file, if the file is not empty, leads to its chain.
Leads(v, e) ==
  e.size # 0 => \E c \in v.files :
                  Len(c) = e.size /\ c[1].name = e.name /\ v.chain[c][1] = e.cluster

\* The entries for files up to the end of the directory.
LiveIn(ents) ==
  {ents[i] : i \in {i \in DOMAIN ents :
                      ents[i].is = "file" /\ \A j \in 1 .. i : ents[j] # DirEnd}}

IsVolume(v) ==
  /\ v.sectors \in Seq(Range(v.sectors)) /\ v.sectors # <<>> /\ v.intact \in BOOLEAN
  /\ LET boot == v.sectors[1]
     IN /\ boot.kind = "fat" /\ boot.spc \in Nat \ {0} /\ boot.root \in Nat
        /\ boot.reserved \in Nat /\ boot.fats \in Nat
  /\ \A i \in DOMAIN v.sectors :
       /\ v.sectors[i].kind \in {"zero", "data"} \cup FatKinds
       /\ v.sectors[i].kind = "fatRoot" =>
            LET ents == v.sectors[i].ents
            IN ents \in Seq(Range(ents)) /\ \A e \in LiveIn(ents) : Leads(v, e)
  /\ \A c \in v.files : Chained(v, c)
=============================================================================
