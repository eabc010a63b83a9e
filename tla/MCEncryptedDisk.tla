-------------------------- MODULE MCEncryptedDisk --------------------------
(* Memories around the roundings and the minimum of the swap (in quarters of *)
(* a GiB), and disks around the limits of 5% for them.                       *)
EXTENDS EncryptedDisk

MCMemories == {7, 15, 16, 17, 30}
MCDisks == {29, 59, 79, 80, 200}
=============================================================================
