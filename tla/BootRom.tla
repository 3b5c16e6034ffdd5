------------------------------- MODULE BootRom -------------------------------
(***************************************************************************)
(* The first-stage boot loader of the FPGA system.  All harts start in it. *)
(* Hart 0 initialises the SD card and copies the boot image to DRAM; the   *)
(* others wait at a barrier, a word of DRAM that lets them go one by one.  *)
(*                                                                         *)
(* SD commands and 512-byte blocks are one step each.  A block is its LBA, *)
(* or Garbage when it was corrupted on the way, which its CRC tells (SdCrc *)
(* is about the CRC itself).                                               *)
(***************************************************************************)
EXTENDS Integers, Sequences

CONSTANTS
  N,           \* number of harts
  Tries,       \* initial counter of sd_cmd0
  EntriesLba,  \* where the partition entries are, from the GPT header
  Wrap,        \* LBAs and sizes are 64 bits wide on the card, sd_copy takes them modulo Wrap
  Partitions,  \* possible <<first_lba, last_lba>> of the boot partition
  Prompt,      \* TRUE: every hart has paused before hart 0 is through with main
  Garbage

ASSUME BootAssumption ==
  /\ N \in Nat \ {0} /\ Tries \in Nat \ {0} /\ EntriesLba \in Nat /\ Prompt \in BOOLEAN
  /\ Wrap \in Nat /\ Wrap > 1
  /\ \A b \in Partitions : b \in Nat \X Nat /\ b[1] <= b[2]
  /\ Garbage \notin Nat

Harts       == 0 .. N - 1
NONSMP_HART == 0

VARIABLES
  pc,       \* where each hart is
  barrier,  \* the word at SMP_BARRIER_ADDR
  tries,    \* counter of sd_cmd0
  part,     \* the boot partition of this card
  job,      \* which of its three copies gpt_find_boot_partition is at
  left,     \* blocks left in sd_copy
  rc,       \* rc of sd_copy
  card,     \* state of the SD card and the next block it would send
  overlap,  \* history: a CMD18 was acknowledged while the card was still sending
  buf,      \* the block in lba1_buf, then the one in lba2_buf
  image,    \* the blocks written from DRAM_BASE on
  res       \* result of gpt_find_boot_partition

vars == <<pc, barrier, tries, part, job, left, rc, card, overlap, buf, image, res>>

\* Places of hart 0 in main.
Main == {"CMD0", "CMD8", "ACMD41", "CMD18", "BLOCK", "CMD12"}

\* The program counters and all data keep their types.
TypeOK ==
  /\ pc \in [Harts -> Main \cup {"PAUSE", "SPIN", "SWAP", "DRAM"}]
  /\ barrier \in 0 .. N /\ tries \in 0 .. Tries /\ part \in Partitions
  /\ job \in 1 .. 3 /\ left \in Nat \cup {-1} /\ rc \in {0, -1, -2} /\ res \in {0, -1, -2, 1}
  /\ card \in [state : {"OFF", "READY", "SENDING"}, lba : Nat] /\ overlap \in BOOLEAN
  /\ buf \in Nat \cup {Garbage} /\ image \in Seq(Nat \cup {Garbage})

\* The barrier word has any value after power-up.
Init ==
  /\ pc = [h \in Harts |-> "PAUSE"] /\ barrier \in 0 .. N
  /\ tries = Tries /\ part \in Partitions /\ job = 1 /\ left = 0 /\ rc = 0
  /\ card = [state |-> "OFF", lba |-> 0] /\ overlap = FALSE /\ buf = Garbage /\ image = <<>> /\ res = 1

Goto(h, l) == pc' = [pc EXCEPT ![h] = l]
main_vars  == <<tries, part, job, left, rc, card, overlap, buf, image, res>>
-----------------------------------------------------------------------------
(***************************************************************************)
(* smp_pause and smp_resume.                                               *)
(***************************************************************************)
\* Slip: only hart 0 clears the barrier.
Pause_OnlyFirst(h) ==
  /\ pc[h] = "PAUSE"
  /\ barrier' = IF h = NONSMP_HART THEN 0 ELSE barrier
  /\ Goto(h, IF h = NONSMP_HART THEN "CMD0" ELSE "SPIN")
  /\ UNCHANGED main_vars

Pause(h) ==
  /\ pc[h] = "PAUSE"
  /\ barrier' = 0
  /\ Goto(h, IF h = NONSMP_HART THEN "CMD0" ELSE "SPIN")
  /\ UNCHANGED main_vars

\* The load of the barrier and the swap are two accesses.
Spin(h) ==
  /\ pc[h] = "SPIN" /\ barrier = h
  /\ Goto(h, "SWAP") /\ UNCHANGED <<barrier, main_vars>>

\* Slip: the next hart is not let go.
Swap_Same(h) ==
  /\ pc[h] = "SWAP" /\ barrier' = h
  /\ Goto(h, "DRAM") /\ UNCHANGED main_vars

Swap(h) ==
  /\ pc[h] = "SWAP" /\ barrier' = h + 1
  /\ Goto(h, "DRAM") /\ UNCHANGED main_vars
-----------------------------------------------------------------------------
(***************************************************************************)
(* Hart 0 in main, which returns 0 whatever gpt_find_boot_partition gives. *)
(***************************************************************************)
Return(r) ==
  /\ Prompt => \A h \in Harts : pc[h] # "PAUSE"
  /\ res' = r /\ Goto(NONSMP_HART, "SPIN")

\* Slip: gives up only when the counter is below zero.
sd_cmd0_Below(ok) ==
  /\ pc[NONSMP_HART] = "CMD0"
  /\ tries' = tries - 1
  /\ \/ tries' < 0 /\ Return(-1)
     \/ tries' >= 0 /\ ok /\ Goto(NONSMP_HART, "CMD8") /\ UNCHANGED res
     \/ tries' >= 0 /\ ~ok /\ UNCHANGED <<pc, res>>
  /\ UNCHANGED <<barrier, part, job, left, rc, card, overlap, buf, image>>

\* The counter is tested after the answer: the last try never counts.
sd_cmd0(ok) ==
  /\ pc[NONSMP_HART] = "CMD0"
  /\ tries' = tries - 1
  /\ \/ tries' = 0 /\ Return(-1)
     \/ tries' > 0 /\ ok /\ Goto(NONSMP_HART, "CMD8") /\ UNCHANGED res
     \/ tries' > 0 /\ ~ok /\ UNCHANGED <<pc, res>>
  /\ UNCHANGED <<barrier, part, job, left, rc, card, overlap, buf, image>>

sd_cmd8(ok) ==
  /\ pc[NONSMP_HART] = "CMD8"
  /\ IF ok THEN Goto(NONSMP_HART, "ACMD41") /\ UNCHANGED res ELSE Return(-1)
  /\ UNCHANGED <<barrier, tries, part, job, left, rc, card, overlap, buf, image>>

\* Repeated as long as the card answers that it is idle.
sd_acmd41(answer) ==
  /\ pc[NONSMP_HART] = "ACMD41"
  /\ \/ answer = "idle" /\ UNCHANGED <<pc, card, res>>
     \/ /\ answer = "ready" /\ card' = [card EXCEPT !.state = "READY"]
        /\ Goto(NONSMP_HART, "CMD18") /\ UNCHANGED res
     \/ answer = "error" /\ Return(-1) /\ UNCHANGED card
  /\ UNCHANGED <<barrier, tries, part, job, left, rc, overlap, buf, image>>

Size == part[2] - part[1] + 1

\* Possible first blocks and numbers of blocks of the copies: the GPT header, the partition
\* entries, the image.  The last two come from the block read before, as sd_copy's 32-bit
\* parameters cut them; a block that is not the one asked for holds any values.
Uint32  == 0 .. Wrap - 1
Args(j) ==
  CASE j = 1 -> {<<1, 1>>}
    [] j = 2 -> IF buf = 1 THEN {<<EntriesLba % Wrap, 1>>} ELSE Uint32 \X {1}
    [] j = 3 -> IF buf = EntriesLba THEN {<<part[1] % Wrap, Size % Wrap>>} ELSE Uint32 \X Uint32

\* A bad answer, or none within 100 polls, ends sd_copy without CMD12; the card may have
\* taken the command all the same.  A card that is still sending may go on as before, one
\* of its bytes being taken for the answer.
sd_copy_start(ok) ==
  /\ pc[NONSMP_HART] = "CMD18"
  /\ \E a \in Args(job) :
       /\ \/ card' = [state |-> "SENDING", lba |-> a[1]]
          \/ (ok => card.state = "SENDING") /\ UNCHANGED card
       /\ IF ok THEN /\ left' = a[2] /\ rc' = 0 /\ overlap' = (overlap \/ card.state = "SENDING")
                     /\ Goto(NONSMP_HART, "BLOCK") /\ UNCHANGED res
                ELSE Return(-2) /\ UNCHANGED <<left, rc, overlap>>
  /\ UNCHANGED <<barrier, tries, part, job, buf, image>>

\* The block is stored before its CRC is known.  The image is taken to be clear of the
\* loader's own stack and of the barrier word, which the code does not check.
Store(b) ==
  /\ image' = IF job = 3 THEN Append(image, b) ELSE image
  /\ buf' = IF job = 3 THEN buf ELSE b

\* Slip: the CRC is not compared.
sd_copy_block_NoCrc(ok) ==
  /\ pc[NONSMP_HART] = "BLOCK"
  /\ Store(IF ok THEN card.lba ELSE Garbage)
  /\ card' = [card EXCEPT !.lba = @ + 1] /\ left' = left - 1
  /\ Goto(NONSMP_HART, IF left' > 0 THEN "BLOCK" ELSE "CMD12")
  /\ UNCHANGED <<barrier, tries, part, job, rc, overlap, res>>

\* A size of zero copies one block.
sd_copy_block(ok) ==
  /\ pc[NONSMP_HART] = "BLOCK"
  /\ Store(IF ok THEN card.lba ELSE Garbage)
  /\ card' = [card EXCEPT !.lba = @ + 1]
  /\ IF ok THEN /\ left' = left - 1 /\ UNCHANGED rc
                /\ Goto(NONSMP_HART, IF left' > 0 THEN "BLOCK" ELSE "CMD12")
           ELSE rc' = -2 /\ Goto(NONSMP_HART, "CMD12") /\ UNCHANGED left
  /\ UNCHANGED <<barrier, tries, part, job, overlap, res>>

\* The answer to CMD12 is not looked at: the card may go on sending.
sd_copy_stop ==
  /\ pc[NONSMP_HART] = "CMD12"
  /\ card' = [card EXCEPT !.state = "READY"] \/ UNCHANGED card
  /\ \/ rc # 0 /\ Return(-2) /\ UNCHANGED job
     \/ rc = 0 /\ job = 3 /\ Return(0) /\ UNCHANGED job
     \/ rc = 0 /\ job < 3 /\ job' = job + 1 /\ Goto(NONSMP_HART, "CMD18") /\ UNCHANGED res
  /\ UNCHANGED <<barrier, tries, part, left, rc, overlap, buf, image>>

Next ==
  \/ \E h \in Harts : Pause(h) \/ Spin(h) \/ Swap(h)
  \/ \E ok \in BOOLEAN : sd_cmd0(ok) \/ sd_cmd8(ok) \/ sd_copy_start(ok) \/ sd_copy_block(ok)
  \/ \E answer \in {"idle", "ready", "error"} : sd_acmd41(answer)
  \/ sd_copy_stop

Spec == Init /\ [][Next]_vars

\* Every hart runs, and the card does not stay idle for ever.
FairSpec ==
  /\ Spec
  /\ \A h \in Harts : WF_vars(Pause(h)) /\ WF_vars(Spin(h)) /\ WF_vars(Swap(h))
  /\ WF_vars(\E ok \in BOOLEAN :
               sd_cmd0(ok) \/ sd_cmd8(ok) \/ sd_copy_start(ok) \/ sd_copy_block(ok))
  /\ SF_vars(sd_acmd41("ready") \/ sd_acmd41("error")) /\ WF_vars(sd_copy_stop)
-----------------------------------------------------------------------------
(***************************************************************************)
(* Properties.                                                             *)
(***************************************************************************)
\* Single-threaded work: while hart 0 has not returned from main, no other hart gets
\* past the barrier, whatever the barrier word was at power-up.
NobodyEarly ==
  pc[NONSMP_HART] \in Main \cup {"PAUSE"} =>
    \A h \in Harts : pc[h] \notin {"SWAP", "DRAM"}

\* The blocks stored so far are the first ones of the partition.
Prefix == \A k \in 1 .. Len(image) : image[k] = part[1] + k - 1
Loaded == Len(image) = Size /\ Prefix

\* The LBAs and the size survive the conversion to uint32_t.
Fits == EntriesLba < Wrap /\ part[1] < Wrap /\ Size < Wrap

\* gpt_find_boot_partition reports success only if the whole partition, in order and
\* intact, is at DRAM_BASE, whichever commands failed and whichever blocks were corrupted.
\* Two things the code does not check are assumed: that the LBAs and the size fit 32 bits,
\* and that no card was still sending when it acknowledged the next CMD18.
SuccessMeansLoaded == res = 0 /\ Fits /\ ~overlap => Loaded

\* Multi-threaded work: every hart leaves the boot loader.
AllStart == \A h \in Harts : <>(pc[h] = "DRAM")
-----------------------------------------------------------------------------
(***************************************************************************)
(* The inductive invariant.                                                *)
(***************************************************************************)
at == pc[NONSMP_HART]

\* Until hart 0 returns, the barrier is zero as soon as one hart has paused.
BarrierInv ==
  /\ \A h \in Harts : h # NONSMP_HART => pc[h] \notin Main
  /\ at \in Main \cup {"PAUSE"} =>
       /\ \A h \in Harts : h # NONSMP_HART => pc[h] \in {"PAUSE", "SPIN"}
       /\ (\E h \in Harts : pc[h] # "PAUSE") => barrier = 0

\* Nothing is stored before the third copy.
CopyInv ==
  /\ at \in Main \cup {"PAUSE"} => res = 1
  /\ at \in {"PAUSE", "CMD0", "CMD8", "ACMD41", "CMD18"} \/ (at \in Main /\ job < 3)
       => image = <<>>
  /\ at = "BLOCK" => rc = 0 /\ left >= 0
  /\ at \in {"PAUSE", "CMD0", "CMD8", "ACMD41"} => job = 1

\* The block that the copy before job j should have left in its buffer.
Read(j) == (j = 2 => buf = 1) /\ (j = 3 => buf = EntriesLba)

\* Progress of the copies.
LoadInv ==
  Fits /\ ~overlap =>
    /\ at = "CMD18" => Read(job)
    /\ at = "BLOCK" => left > 0
    /\ at = "BLOCK" /\ job = 1 => left = 1 /\ card.lba = 1
    /\ at = "BLOCK" /\ job = 2 => left = 1 /\ card.lba = EntriesLba
    /\ at = "BLOCK" /\ job = 3 =>
         left + Len(image) = Size /\ card.lba = part[1] + Len(image) /\ Prefix
    /\ at = "CMD12" /\ rc = 0 /\ job < 3 => Read(job + 1)
    /\ at = "CMD12" /\ rc = 0 /\ job = 3 => Loaded
    /\ res = 0 => Loaded

\* sd_cmd0 has a try left whenever it sends CMD0.
TriesInv == at \in {"PAUSE", "CMD0"} => tries > 0

IndInv == TypeOK /\ BarrierInv /\ CopyInv /\ LoadInv /\ TriesInv
=============================================================================
