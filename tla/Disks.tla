------------------------------- MODULE Disks -------------------------------
(***************************************************************************)
(* fs2disks (src/ios/dutils_linux.go): the disks a filesystem sits on,     *)
(* found in the output of `lsblk -Jt` when a mountpath is added.  The      *)
(* output is a forest: every disk with, nested under it, the partitions    *)
(* and volumes it holds.  fs2disks looks for the filesystem's device in    *)
(* that forest and reports the disks at the top of the trees it is in.     *)
(*                                                                         *)
(* The machine's block devices are the environment: a graph of devices,    *)
(* an edge from each device to the devices it holds, fixed for one         *)
(* behaviour.  A path is the sequence of its parts between the slashes,    *)
(* "/dev/sda1" being <<"", "dev", "sda1">>.                                *)
(***************************************************************************)
EXTENDS Graphs, TLC

CONSTANTS
    Tables,       \* the block devices a machine may have
    Filesystems,  \* the filesystems a mountpath may be on
    NotANumber    \* a phy-sec that is no number

VARIABLES
    devices,      \* the machine's block devices, and the sector size of each
    file,         \* what the last call read from the block-device file
    fs,           \* the filesystem the last call was about
    disks         \* what it returned: the sector size of every disk found

dvars == <<devices, file, fs, disks>>

----------------------------------------------------------------------------
(* The block-device file                                                   *)

BlockDevice(name, physec, children) ==
    [Name |-> name, PhySec |-> physec, BlockDevices |-> children]

LsBlk(blockdevices) == [read |-> "json", BlockDevices |-> blockdevices]

\* `lsblk -Jt` prints a device with everything it holds, and so prints a
\* volume that lies on two disks under each of them.
RECURSIVE Tree(_, _)
Tree(table, name) ==
    BlockDevice(name, table.sec[name],
                SetToSeq({Tree(table, held) : held \in Successors(table.graph, name)}))

Lsblk(table) ==
    LsBlk(SetToSeq({Tree(table, disk) : disk \in Roots(table.graph)}))

\* The file as it may be found: written by lsblk, written by something that
\* knows no devices, absent, or not JSON.
Absent  == [read |-> "nothing", BlockDevices |-> <<>>]
Garbage == [read |-> "garbage", BlockDevices |-> <<>>]

Files(table) == {Lsblk(table), LsBlk(<<>>), Absent, Garbage}

----------------------------------------------------------------------------
(* fs2disks                                                                *)

devPrefixReg == <<"", "dev">>
devPrefixLVM == <<"", "dev", "mapper">>
Overlay      == <<"overlay">>

\* strings.HasPrefix and strings.TrimPrefix, for a prefix that ends in a slash.
HasPrefix(path, dir) == Len(path) > Len(dir) /\ IsPrefix(dir, path)

TrimPrefix(path, dir) ==
    IF HasPrefix(path, dir) THEN SubSeq(path, Len(dir) + 1, Len(path)) ELSE path

Trimmed(path) ==
    IF HasPrefix(path, devPrefixLVM) THEN TrimPrefix(path, devPrefixLVM)
    ELSE TrimPrefix(path, devPrefixReg)

\* A device name has no slash in it: it is a path of one part.
Named(bd, device) == <<bd.Name>> = device

\* The search that looks at the children and not below them.
childMatchesHere(devList, device) ==
    \E i \in DOMAIN devList : Named(devList[i], device)

RECURSIVE childMatches(_, _)
childMatches(devList, device) ==
    \E i \in DOMAIN devList :
        \/ Named(devList[i], device)
        \/ childMatches(devList[i].BlockDevices, device)

NoDisks == [name \in {} |-> 0]

\* jsoniter.Number.Int64 of a phy-sec, and what addDisk stores when it fails.
DefaultSector == 512

\* The error of Int64 logged and its zero kept.
addDiskKeepsZero(found, bd) ==
    (bd.Name :> IF bd.PhySec = NotANumber THEN 0 ELSE bd.PhySec) @@ found

addDisk(found, bd) ==
    (bd.Name :> IF bd.PhySec = NotANumber THEN DefaultSector ELSE bd.PhySec) @@ found

findDevDisks(devList, trimmedFS) ==
    LET Found(found, bd) ==
            IF Named(bd, trimmedFS) \/ childMatches(bd.BlockDevices, trimmedFS)
            THEN addDisk(found, bd) ELSE found
    IN  FoldLeft(Found, NoDisks, devList)

\* An absent file reads as no bytes, and no bytes are no JSON.
Unmarshals(bytes) == bytes.read = "json"

fs2disks(path, bytes) ==
    IF path = Overlay \/ ~Unmarshals(bytes) THEN NoDisks
    ELSE findDevDisks(bytes.BlockDevices, Trimmed(path))

----------------------------------------------------------------------------

DisksInit ==
    /\ devices \in Tables
    /\ file = Absent
    /\ fs = Overlay
    /\ disks = NoDisks

\* A mountpath is added: the file is read and the disks of its filesystem
\* are looked up.
AddMountpath(path, bytes) ==
    /\ file' = bytes
    /\ fs' = path
    /\ disks' = fs2disks(path, bytes)
    /\ UNCHANGED devices

DisksNext ==
    \E path \in Filesystems, bytes \in Files(devices) : AddMountpath(path, bytes)

DisksSpec == DisksInit /\ [][DisksNext]_dvars

----------------------------------------------------------------------------
(* What fs2disks is for, said without the forest.                          *)

\* The device a filesystem is on: the last part of /dev/<name> and of
\* /dev/mapper/<name>, and a bare name.
DeviceOf(path) ==
    {name \in devices.graph.node :
        path \in {<<name>>, <<"", "dev", name>>, <<"", "dev", "mapper", name>>}}

\* The disks under a device: the devices nothing holds from which a chain of
\* holders leads to it, and the device itself when nothing holds it.
DisksUnder(name) ==
    Roots(devices.graph) \cap ({name} \cup Ancestors(devices.graph, name))

SectorOf(disk) ==
    IF devices.sec[disk] = NotANumber THEN DefaultSector ELSE devices.sec[disk]

\* Every variable has its type, and a disk is reported with a sector size of
\* zero only if lsblk printed a zero for it: addDisk falls back to 512 when
\* the phy-sec is no number, where Int64 returns zero with its error.  (A
\* zero that lsblk prints is stored as it is; the callers divide by it.)
DisksTypeOK ==
    /\ devices \in Tables
    /\ file \in Files(devices)
    /\ fs \in Filesystems
    /\ DOMAIN disks \subseteq devices.graph.node
    /\ \A disk \in DOMAIN disks :
          /\ disks[disk] \in Nat
          /\ disks[disk] = 0 => devices.sec[disk] = 0

\* With the file as lsblk writes it, fs2disks reports exactly the disks the
\* filesystem's device lies on, each with its sector size, however deep in
\* the tree the device is and on however many disks (childMatches has to
\* descend, and the volume prefix has to be tried before "/dev/"); for a
\* union mount, and for a device the machine does not have, it reports none.
DisksAreTheOnesBelow ==
    file = Lsblk(devices) /\ fs # Overlay =>
        LET under == UNION {DisksUnder(name) : name \in DeviceOf(fs)}
        IN  disks = [disk \in under |-> SectorOf(disk)]

=============================================================================
