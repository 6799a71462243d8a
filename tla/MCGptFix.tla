------------------------------ MODULE MCGptFix ------------------------------
(* Instances of GptFix for TLC: a disk of 64 units (32 KiB). *)
EXTENDS GptFix

Part(slot, from, to) == [slot |-> slot, from |-> from, to |-> to]
Layout(n, cut, parts) == [n |-> n, cut |-> cut, parts |-> parts]

(* one partition in the middle; two, out of order, that leave just enough  *)
(* room at both ends for either sector size                                *)
Roomy == Layout(8, 0, {Part(0, 24, 40)})
Tight == Layout(8, 0, {Part(1, 24, 32), Part(4, 40, 48)})

(* not aligned to 4096; too close to the start; too close to the end; more *)
(* entries than fit in front of the partition; an entry that does not fit  *)
Unaligned == Layout(4, 0, {Part(0, 28, 40)})
Early == Layout(4, 0, {Part(0, 16, 40)})
Late == Layout(4, 0, {Part(0, 24, 56)})
Many == Layout(40, 0, {Part(2, 24, 40)})
FarSlot == Layout(40, 0, {Part(36, 24, 40)})

(* the end of the disk is missing *)
Truncated == Layout(4, 16, {Part(0, 24, 40)})

Empty == Layout(4, 0, {})

SomeLayouts == {Roomy, Tight}
AllLayouts == {Roomy, Tight, Unaligned, Early, Late, Many, FarSlot, Truncated, Empty}
=============================================================================
