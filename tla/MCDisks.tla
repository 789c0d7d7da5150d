------------------------------ MODULE MCDisks ------------------------------
(***************************************************************************)
(* Disks for TLC: machines of up to four block devices.                    *)
(***************************************************************************)
EXTENDS Disks

\* Two disks, a partition and a volume.  A device holds only devices that
\* come after it in this order, which keeps the graphs free of cycles and
\* allows a partition on either disk, a volume on a partition, on a disk or
\* on both disks, and disks that hold nothing.
Order == <<"sda", "sdb", "sda1", "vg-data">>

Names == ToSet(Order)

Holds == {<<Order[p[1]], Order[p[2]]>> : p \in {q \in (1..4) \X (1..4) : q[1] < q[2]}}

\* What lsblk prints as phy-sec: a size, a zero, or something that is no
\* number.  addDisk treats every device by itself, so one device with an odd
\* phy-sec among devices with a size is enough.
Sectors == {0, 4096, NotANumber}

SectorsOf(nodes) ==
    {[n \in nodes |-> IF n = odd THEN s ELSE 4096] :
        odd \in nodes \cup {"none"}, s \in Sectors \ {4096}}

SomeTables ==
    UNION {[graph : {[node |-> ph[1], edge |-> ph[2]]}, sec : SectorsOf(ph[1])] :
              ph \in {q \in (SUBSET Names) \X (SUBSET Holds) : q[2] \subseteq q[1] \X q[1]}}

\* Every device by its path and by its volume path, the union mount, a
\* filesystem without a device, and a path two levels below /dev.
SomeFilesystems ==
    {<<"", "dev", name>> : name \in Names}
    \cup {<<"", "dev", "mapper", name>> : name \in Names}
    \cup {Overlay, <<"tmpfs">>, <<"sda1">>, <<"", "dev", "disk", "sda1">>}

=============================================================================
