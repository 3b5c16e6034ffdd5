----------------------------- MODULE MCBootRom -----------------------------
(***************************************************************************)
(* BootRom with four possible cards.                                       *)
(***************************************************************************)
EXTENDS BootRom

\* Partitions of one block and of three; with a Wrap of 8, one whose size is cut to zero
\* and one whose first LBA is cut to that of the GPT header.
Disks == {<<4, 4>>, <<5, 7>>, <<4, 11>>, <<9, 9>>}
=============================================================================
