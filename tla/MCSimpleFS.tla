----------------------------- MODULE MCSimpleFS -----------------------------
(***************************************************************************)
(* Instances of SimpleFS: three FAT32 volumes of eight sectors, and the    *)
(* disks of the slave and of the master.                                   *)
(***************************************************************************)
EXTENDS SimpleFS

FileOf(n, len) == ContentOf(n, 0, len)
Bytes(n, i) == DataSector(n, 0, i)

\* One sector to a cluster, five clusters (2 to 6), entries of the FAT in two
\* sectors.  The root directory is in clusters 2 and 4, the file in 5, 3, 6.
Scattered ==
  [sectors |-> <<
     BootSector(1, 2, 1, 2),
     FatSector(0, 2 :> 4 @@ 3 :> 6 @@ 4 :> EndOfChain),
     FatSector(1, 5 :> 3 @@ 6 :> EndOfChain),
     RootSector(<<DirSkip, DirFile("notes", 0, 0)>>), Bytes(ImageName, 1),
     RootSector(<<DirSkip, DirFile(ImageName, 5, 3), DirEnd, DirFile("notes", 2, 1)>>),
     Bytes(ImageName, 0), Bytes(ImageName, 2)>>,
   files |-> {FileOf(ImageName, 3)}, chain |-> FileOf(ImageName, 3) :> <<5, 3, 6>>,
   intact |-> TRUE]

\* Two sectors to a cluster, three clusters (2 to 4).  The file is in 4 and 3,
\* and does not fill the second.
Paired ==
  [sectors |-> <<
     BootSector(2, 2, 1, 1),
     FatSector(0, 2 :> EndOfChain @@ 3 :> EndOfChain @@ 4 :> 3),
     RootSector(<<DirSkip>>), RootSector(<<DirFile(ImageName, 4, 3), DirEnd>>),
     Bytes(ImageName, 2), ZeroSector, Bytes(ImageName, 0), Bytes(ImageName, 1)>>,
   files |-> {FileOf(ImageName, 3)}, chain |-> FileOf(ImageName, 3) :> <<4, 3>>,
   intact |-> TRUE]

\* Damaged: the root directory is a circle, the image ends after one cluster of
\* three, and behind the only cluster of "notes" is a free one.
Damaged ==
  [sectors |-> <<
     BootSector(1, 2, 1, 2),
     FatSector(0, 2 :> 4 @@ 4 :> 2),
     FatSector(1, 5 :> EndOfChain),
     RootSector(<<DirFile(ImageName, 5, 3)>>), Bytes("notes", 0),
     RootSector(<<DirFile("notes", 3, 2)>>), Bytes(ImageName, 0), ZeroSector>>,
   files |-> {FileOf(ImageName, 3), FileOf("notes", 2)},
   chain |-> FileOf(ImageName, 3) :> <<5>> @@ FileOf("notes", 2) :> <<3>>,
   intact |-> FALSE]

MCVolumes == {Scattered, Paired, Damaged}

Machine(slave, master, volume) == [slave |-> slave, master |-> master, volume |-> volume]

\* run.sh: a storage image beside the boot disk, which is a FAT32 volume; a new disk
\* alone; a machine without a slave.
MCMachines ==
  {Machine("sfs", "fat", Scattered), Machine("blank", "none", Scattered)}
    \cup {Machine("none", "fat", v) : v \in {Paired, Damaged}}
BootMachines == {Machine("sfs", "fat", Scattered)}
=============================================================================
