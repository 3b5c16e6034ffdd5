--------------------------- MODULE BootRom_proofs ---------------------------
(***************************************************************************)
(* Proofs about BootRom for any number of harts, any number of tries and   *)
(* any partition.  One lemma per action shows that it preserves IndInv.    *)
(***************************************************************************)
EXTENDS BootRom, TLAPS

\* Hart 0 exists, and every card has a partition of at least one block.
LEMMA HartZero == NONSMP_HART \in Harts
  BY BootAssumption DEF NONSMP_HART, Harts

LEMMA SizePositive == TypeOK => /\ part[1] \in Nat /\ part[2] \in Nat
                                /\ Size \in Nat /\ Size > 0
  BY BootAssumption DEF TypeOK, Size

\* Cutting to 32 bits leaves a number, and leaves alone the numbers that fit.
LEMMA Cut == \A n \in Nat : n % Wrap \in Uint32 /\ (n < Wrap => n % Wrap = n)
  BY BootAssumption DEF Uint32

LEMMA CutNat == Uint32 \subseteq Nat
  BY BootAssumption DEF Uint32

\* The arguments of the three copies.
LEMMA ArgsOf == ASSUME TypeOK, NEW a \in Args(job)
                PROVE  /\ a[1] \in Nat /\ a[2] \in Nat
                       /\ job = 1 => a[1] = 1 /\ a[2] = 1
                       /\ Fits /\ Read(job) =>
                            /\ job = 2 => a[1] = EntriesLba /\ a[2] = 1
                            /\ job = 3 => a[1] = part[1] /\ a[2] = Size
<1>1. job = 1 \/ job = 2 \/ job = 3
  BY DEF TypeOK
<1>2. CASE job = 1
  BY <1>2 DEF Args
<1>3. CASE job = 2
  BY <1>3, Cut, CutNat, BootAssumption DEF Args, Fits, Read
<1>4. CASE job = 3
  BY <1>4, Cut, CutNat, SizePositive, BootAssumption DEF Args, Fits, Read
<1> QED BY <1>1, <1>2, <1>3, <1>4

LEMMA InitInv == Init => IndInv
<1> SUFFICES ASSUME Init PROVE IndInv
  OBVIOUS
<1> USE BootAssumption, HartZero DEF Init, at
<1>1. TypeOK
  <2>1. card \in [state : {"OFF", "READY", "SENDING"}, lba : Nat] /\ overlap \in BOOLEAN
    OBVIOUS
  <2>2. buf \in Nat \cup {Garbage} /\ image \in Seq(Nat \cup {Garbage})
    OBVIOUS
  <2> QED BY <2>1, <2>2 DEF TypeOK, Main
<1>2. BarrierInv
  BY DEF BarrierInv, Main
<1>3. CopyInv /\ LoadInv
  BY DEF CopyInv, LoadInv, Main
<1>4. TriesInv
  BY DEF TriesInv
<1> QED BY <1>1, <1>2, <1>3, <1>4 DEF IndInv
-----------------------------------------------------------------------------
(***************************************************************************)
(* The barrier.                                                            *)
(***************************************************************************)
\* A step that leaves main's data alone and moves no hart into or inside main
\* except hart 0 from smp_pause to its first command.
LEMMA MainUntouched ==
  ASSUME IndInv, UNCHANGED main_vars,
         \/ at' = at
         \/ at = "PAUSE" /\ at' = "CMD0"
         \/ at \notin Main \cup {"PAUSE"} /\ at' \notin Main \cup {"PAUSE"}
  PROVE  CopyInv' /\ LoadInv' /\ TriesInv'
<1> USE DEF main_vars, IndInv, Main
<1>1. LoadInv'
  <2>1. (Loaded <=> Loaded') /\ (Prefix <=> Prefix') /\ (Fits <=> Fits') /\ Size' = Size
    BY DEF Loaded, Prefix, Size, Fits
  <2>2. at \notin {"PAUSE", "CMD0"} /\ at' # at => at' \notin {"CMD18", "BLOCK", "CMD12"}
    OBVIOUS
  <2> QED BY <2>1, <2>2 DEF LoadInv, Read
<1>2. TriesInv'
  BY DEF TriesInv
<1>3. CopyInv'
  BY DEF CopyInv
<1> QED BY <1>1, <1>2, <1>3

LEMMA PauseInv == ASSUME IndInv, NEW h \in Harts, Pause(h) PROVE IndInv'
<1> USE HartZero, BootAssumption DEF Pause, Goto, NONSMP_HART
<1>1. TypeOK'
  BY DEF IndInv, TypeOK, main_vars, Main
<1>2. BarrierInv'
  BY DEF IndInv, TypeOK, BarrierInv, Main, at
<1>3. CopyInv' /\ LoadInv' /\ TriesInv'
  BY MainUntouched DEF IndInv, TypeOK, at
<1> QED BY <1>1, <1>2, <1>3 DEF IndInv

\* Hart 0 is out of main when a hart sees its number: the others spin on zero.
LEMMA SpinInv == ASSUME IndInv, NEW h \in Harts, Spin(h) PROVE IndInv'
<1> USE HartZero, BootAssumption DEF Spin, Goto, NONSMP_HART
<1>1. TypeOK'
  BY DEF IndInv, TypeOK, main_vars, Main
<1>2. at \notin Main \cup {"PAUSE"}
  BY DEF IndInv, TypeOK, BarrierInv, Main, at, Harts
<1>3. BarrierInv'
  BY <1>2 DEF IndInv, TypeOK, BarrierInv, Main, at
<1>4. CopyInv' /\ LoadInv' /\ TriesInv'
  BY <1>2, MainUntouched DEF IndInv, TypeOK, at, Main
<1> QED BY <1>1, <1>3, <1>4 DEF IndInv

LEMMA SwapInv == ASSUME IndInv, NEW h \in Harts, Swap(h) PROVE IndInv'
<1> USE HartZero, BootAssumption DEF Swap, Goto, NONSMP_HART
<1>1. TypeOK'
  BY DEF IndInv, TypeOK, main_vars, Main, Harts
<1>2. at \notin Main \cup {"PAUSE"}
  BY DEF IndInv, TypeOK, BarrierInv, Main, at
<1>3. BarrierInv'
  BY <1>2 DEF IndInv, TypeOK, BarrierInv, Main, at
<1>4. CopyInv' /\ LoadInv' /\ TriesInv'
  BY <1>2, MainUntouched DEF IndInv, TypeOK, at, Main
<1> QED BY <1>1, <1>3, <1>4 DEF IndInv
-----------------------------------------------------------------------------
(***************************************************************************)
(* Hart 0 in main.                                                         *)
(***************************************************************************)
\* A step of hart 0 inside main keeps the other harts where they are.
LEMMA MainBarrier ==
  ASSUME IndInv, at \in Main, barrier' = barrier,
         NEW l \in Main \cup {"SPIN"}, pc' = [pc EXCEPT ![NONSMP_HART] = l]
  PROVE  BarrierInv' /\ at' = l /\ pc' \in [Harts -> Main \cup {"PAUSE", "SPIN", "SWAP", "DRAM"}]
<1> USE HartZero
<1>1. at' = l /\ \A h \in Harts : h # NONSMP_HART => pc'[h] = pc[h]
  BY DEF IndInv, TypeOK, at
<1>2. pc' \in [Harts -> Main \cup {"PAUSE", "SPIN", "SWAP", "DRAM"}]
  BY DEF IndInv, TypeOK
<1>3. barrier = 0 /\ \A h \in Harts : h # NONSMP_HART => pc[h] \in {"PAUSE", "SPIN"}
  BY DEF IndInv, TypeOK, BarrierInv, at, Main
<1>4. BarrierInv'
  BY <1>1, <1>3 DEF BarrierInv, Main, at
<1> QED BY <1>1, <1>2, <1>4

\* The loading part of the invariant where the image and the card's data do not change.
LEMMA Idling ==
  ASSUME IndInv, at \in {"CMD0", "CMD8", "ACMD41", "CMD18"}, UNCHANGED <<part, job, image>>,
         \/ at # "CMD18" /\ at' \in {"CMD0", "CMD8", "ACMD41", "CMD18"} /\ res' = res
         \/ at' = "SPIN" /\ res' < 0
  PROVE  CopyInv' /\ LoadInv'
<1>1. CopyInv'
  BY DEF IndInv, CopyInv, Main
<1>2. (at' = "CMD18" => job' = 1) /\ at' \notin {"BLOCK", "CMD12"} /\ res' # 0
  BY DEF IndInv, CopyInv, Main
<1>3. LoadInv'
  BY <1>2 DEF LoadInv, Read
<1> QED BY <1>1, <1>3

LEMMA Cmd0Inv == ASSUME IndInv, NEW ok \in BOOLEAN, sd_cmd0(ok) PROVE IndInv'
<1> USE DEF sd_cmd0
<1>1. at = "CMD0" /\ tries > 0
  BY DEF at, IndInv, TriesInv
<1>2. PICK l \in {"CMD0", "CMD8", "SPIN"} :
        /\ pc' = [pc EXCEPT ![NONSMP_HART] = l]
        /\ l = "SPIN" => res' = -1
        /\ l # "SPIN" => res' = res /\ tries' > 0
  <2>1. CASE Return(-1)
    BY <2>1 DEF Return, Goto
  <2>2. CASE tries' > 0 /\ Goto(NONSMP_HART, "CMD8") /\ UNCHANGED res
    BY <2>2 DEF Goto
  <2>3. CASE tries' > 0 /\ UNCHANGED <<pc, res>>
    <3>1. pc' = [pc EXCEPT ![NONSMP_HART] = "CMD0"]
      BY <1>1, <2>3, HartZero DEF at, IndInv, TypeOK
    <3> QED BY <2>3, <3>1
  <2> QED BY <2>1, <2>2, <2>3
<1>3. BarrierInv' /\ at' = l /\ pc' \in [Harts -> Main \cup {"PAUSE", "SPIN", "SWAP", "DRAM"}]
  BY <1>1, <1>2, MainBarrier DEF Main
<1>4. CopyInv' /\ LoadInv'
  BY <1>1, <1>2, <1>3, Idling
<1>5. TypeOK'
  BY <1>1, <1>2, <1>3, BootAssumption DEF IndInv, TypeOK
<1>6. TriesInv'
  BY <1>1, <1>2, <1>3 DEF IndInv, TriesInv, at
<1> QED BY <1>3, <1>4, <1>5, <1>6 DEF IndInv

LEMMA Cmd8Inv == ASSUME IndInv, NEW ok \in BOOLEAN, sd_cmd8(ok) PROVE IndInv'
<1> USE DEF sd_cmd8
<1>1. at = "CMD8"
  BY DEF at
<1>2. PICK l \in {"ACMD41", "SPIN"} :
        /\ pc' = [pc EXCEPT ![NONSMP_HART] = l]
        /\ l = "SPIN" => res' = -1
        /\ l # "SPIN" => res' = res
  BY DEF Return, Goto
<1>3. BarrierInv' /\ at' = l /\ pc' \in [Harts -> Main \cup {"PAUSE", "SPIN", "SWAP", "DRAM"}]
  BY <1>1, <1>2, MainBarrier DEF Main
<1>4. CopyInv' /\ LoadInv'
  BY <1>1, <1>2, <1>3, Idling
<1>5. TypeOK'
  BY <1>2, <1>3 DEF IndInv, TypeOK
<1>6. TriesInv'
  BY <1>1, <1>2, <1>3 DEF IndInv, TriesInv, at
<1> QED BY <1>3, <1>4, <1>5, <1>6 DEF IndInv

LEMMA Acmd41Inv ==
  ASSUME IndInv, NEW answer \in {"idle", "ready", "error"}, sd_acmd41(answer) PROVE IndInv'
<1> USE DEF sd_acmd41
<1>1. at = "ACMD41"
  BY DEF at
<1>2. PICK l \in {"ACMD41", "CMD18", "SPIN"} :
        /\ pc' = [pc EXCEPT ![NONSMP_HART] = l]
        /\ l = "SPIN" => res' = -1
        /\ l # "SPIN" => res' = res
        /\ card' = card \/ card' = [card EXCEPT !.state = "READY"]
  <2>1. CASE UNCHANGED <<pc, card, res>>
    <3>1. pc' = [pc EXCEPT ![NONSMP_HART] = "ACMD41"]
      BY <1>1, <2>1, HartZero DEF at, IndInv, TypeOK
    <3> QED BY <2>1, <3>1
  <2>2. CASE answer = "ready"
    BY <2>2 DEF Goto
  <2>3. CASE answer = "error"
    BY <2>3 DEF Return, Goto
  <2> QED BY <2>1, <2>2, <2>3
<1>3. BarrierInv' /\ at' = l /\ pc' \in [Harts -> Main \cup {"PAUSE", "SPIN", "SWAP", "DRAM"}]
  BY <1>1, <1>2, MainBarrier DEF Main
<1>4. CopyInv' /\ LoadInv'
  BY <1>1, <1>2, <1>3, Idling
<1>5. TypeOK'
  BY <1>2, <1>3 DEF IndInv, TypeOK
<1>6. TriesInv'
  BY <1>1, <1>2, <1>3 DEF IndInv, TypeOK, TriesInv, at
<1> QED BY <1>3, <1>4, <1>5, <1>6 DEF IndInv

\* Each copy starts at the block and with the count that the copy before it has read, the
\* third one with an empty image.
LEMMA CopyStartInv == ASSUME IndInv, NEW ok \in BOOLEAN, sd_copy_start(ok) PROVE IndInv'
<1>1. at = "CMD18" /\ image = <<>> /\ res = 1
  BY DEF sd_copy_start, at, IndInv, CopyInv, Main
<1>2. PICK a \in Args(job) :
        /\ \/ card' = [state |-> "SENDING", lba |-> a[1]]
           \/ (ok => card.state = "SENDING") /\ UNCHANGED card
        /\ IF ok THEN /\ left' = a[2] /\ rc' = 0 /\ overlap' = (overlap \/ card.state = "SENDING")
                      /\ Goto(NONSMP_HART, "BLOCK") /\ UNCHANGED res
                 ELSE Return(-2) /\ UNCHANGED <<left, rc, overlap>>
  BY DEF sd_copy_start
<1>3. UNCHANGED <<barrier, tries, part, job, buf, image>>
  BY DEF sd_copy_start
<1>4. a[1] \in Nat /\ a[2] \in Nat
  BY ArgsOf DEF IndInv
<1>5. card' \in [state : {"OFF", "READY", "SENDING"}, lba : Nat]
  BY <1>2, <1>4 DEF IndInv, TypeOK
<1>6. CASE ok
  <2>1. left' = a[2] /\ rc' = 0 /\ res' = res /\ pc' = [pc EXCEPT ![NONSMP_HART] = "BLOCK"]
    BY <1>2, <1>6 DEF Goto
  <2>2. BarrierInv' /\ at' = "BLOCK" /\ pc' \in [Harts -> Main \cup {"PAUSE", "SPIN", "SWAP", "DRAM"}]
    BY <1>1, <1>3, <2>1, MainBarrier DEF Main
  <2>3. overlap' \in BOOLEAN
    BY <1>2, <1>6
  <2>4. TypeOK'
    BY <1>3, <1>4, <1>5, <2>1, <2>2, <2>3 DEF IndInv, TypeOK
  <2>5. CopyInv'
    BY <1>1, <1>3, <1>4, <2>1, <2>2 DEF IndInv, CopyInv, Main
  <2>6. LoadInv'
    <3>1. SUFFICES ASSUME Fits', ~overlap'
                   PROVE  /\ left' > 0
                          /\ job = 1 => left' = 1 /\ card'.lba = 1
                          /\ job = 2 => left' = 1 /\ card'.lba = EntriesLba
                          /\ job = 3 => left' = Size /\ card'.lba = part[1]
      <4>1. Size' = Size /\ Len(image') = 0 /\ Prefix'
        BY <1>1, <1>3 DEF Size, Prefix
      <4> QED BY <1>1, <1>3, <2>1, <2>2, <4>1, SizePositive DEF IndInv, LoadInv
    <3>2. Fits /\ ~overlap /\ card.state # "SENDING"
      BY <1>2, <1>3, <1>6, <3>1 DEF Fits, Size
    <3>3. card'.lba = a[1]
      BY <1>2, <1>6, <3>2
    <3>4. Read(job)
      BY <1>1, <3>2 DEF IndInv, LoadInv
    <3>5. /\ job = 1 => a[1] = 1 /\ a[2] = 1
          /\ job = 2 => a[1] = EntriesLba /\ a[2] = 1
          /\ job = 3 => a[1] = part[1] /\ a[2] = Size
      BY <3>2, <3>4, ArgsOf DEF IndInv
    <3> QED BY <2>1, <3>3, <3>5, SizePositive DEF IndInv, TypeOK
  <2>7. TriesInv'
    BY <2>2 DEF TriesInv, at
  <2> QED BY <2>2, <2>4, <2>5, <2>6, <2>7 DEF IndInv
<1>7. CASE ~ok
  <2>1. /\ res' = -2 /\ pc' = [pc EXCEPT ![NONSMP_HART] = "SPIN"]
        /\ UNCHANGED <<left, rc, overlap>>
    BY <1>2, <1>7 DEF Return, Goto
  <2>2. BarrierInv' /\ at' = "SPIN" /\ pc' \in [Harts -> Main \cup {"PAUSE", "SPIN", "SWAP", "DRAM"}]
    BY <1>1, <1>3, <2>1, MainBarrier DEF Main
  <2>3. TypeOK'
    BY <1>3, <1>5, <2>1, <2>2 DEF IndInv, TypeOK
  <2>4. CopyInv' /\ LoadInv'
    BY <1>1, <1>3, <2>1, <2>2, Idling
  <2>5. TriesInv'
    BY <2>2 DEF TriesInv, at
  <2> QED BY <2>2, <2>3, <2>4, <2>5 DEF IndInv
<1> QED BY <1>6, <1>7

\* An intact block extends the prefix; a corrupted one leaves BLOCK with an error.
LEMMA CopyBlockInv == ASSUME IndInv, NEW ok \in BOOLEAN, sd_copy_block(ok) PROVE IndInv'
<1> DEFINE b == IF ok THEN card.lba ELSE Garbage
           l == IF ok /\ left - 1 > 0 THEN "BLOCK" ELSE "CMD12"
<1>1. /\ at = "BLOCK" /\ rc = 0 /\ left \in Nat /\ res = 1 /\ b \in Nat \cup {Garbage}
      /\ card \in [state : {"OFF", "READY", "SENDING"}, lba : Nat]
  BY DEF sd_copy_block, at, IndInv, CopyInv, TypeOK, Main
<1>2. pc' = [pc EXCEPT ![NONSMP_HART] = l]
  <2>1. CASE ok
    BY <2>1 DEF sd_copy_block, Goto
  <2>2. CASE ~ok
    BY <2>2 DEF sd_copy_block, Goto
  <2> QED BY <2>1, <2>2
<1>3. /\ UNCHANGED <<barrier, tries, part, job, overlap, res>>
      /\ card' = [card EXCEPT !.lba = @ + 1]
      /\ ok => left' = left - 1 /\ rc' = 0
      /\ ~ok => left' = left /\ rc' = -2
      /\ job = 3 => image' = Append(image, b) /\ buf' = buf
      /\ job # 3 => image' = image /\ buf' = b
  BY <1>1 DEF sd_copy_block, Store
<1>4. BarrierInv' /\ at' = l /\ pc' \in [Harts -> Main \cup {"PAUSE", "SPIN", "SWAP", "DRAM"}]
  BY <1>1, <1>2, <1>3, MainBarrier DEF Main
<1>5. TypeOK'
  <2>1. image' \in Seq(Nat \cup {Garbage})
    <3>1. image \in Seq(Nat \cup {Garbage}) /\ b \in Nat \cup {Garbage}
      BY <1>1 DEF IndInv, TypeOK
    <3> HIDE DEF b
    <3>2. Append(image, b) \in Seq(Nat \cup {Garbage})
      BY <3>1
    <3> QED BY <1>3, <3>1, <3>2
  <2>2. buf' \in Nat \cup {Garbage}
    BY <1>1, <1>3 DEF IndInv, TypeOK
  <2> HIDE DEF b
  <2>3. left' \in Nat \cup {-1} /\ rc' \in {0, -1, -2}
    BY <1>1, <1>3
  <2>4. card' \in [state : {"OFF", "READY", "SENDING"}, lba : Nat]
    BY <1>1, <1>3
  <2> QED BY <1>3, <1>4, <2>1, <2>2, <2>3, <2>4 DEF IndInv, TypeOK
<1>6. CopyInv'
  <2>1. l = "BLOCK" => rc' = 0 /\ left' >= 0
    BY <1>1, <1>3
  <2>2. job < 3 => image' = <<>>
    BY <1>1, <1>3 DEF IndInv, CopyInv, TypeOK, Main
  <2> QED BY <1>1, <1>3, <1>4, <2>1, <2>2 DEF CopyInv, Main
<1>7. LoadInv'
  <2> SUFFICES ASSUME Fits', ~overlap'
               PROVE  /\ l = "BLOCK" => left' > 0
                      /\ l = "BLOCK" /\ job = 1 => left' = 1 /\ card'.lba = 1
                      /\ l = "BLOCK" /\ job = 2 => left' = 1 /\ card'.lba = EntriesLba
                      /\ l = "BLOCK" /\ job = 3 =>
                           left' + Len(image') = Size' /\ card'.lba = part'[1] + Len(image') /\ Prefix'
                      /\ l = "CMD12" /\ rc' = 0 /\ job < 3 => Read(job + 1)'
                      /\ l = "CMD12" /\ rc' = 0 /\ job = 3 => Loaded'
    BY <1>1, <1>3, <1>4 DEF LoadInv
  <2>1. Fits /\ ~overlap
    BY <1>3 DEF Fits, Size
  <2>2. card'.lba = card.lba + 1 /\ (rc' = 0 => ok) /\ (l = "BLOCK" => ok /\ left' > 0)
    BY <1>1, <1>3
  <2>3. CASE job = 3
    <3>1. /\ left + Len(image) = Size /\ card.lba = part[1] + Len(image) /\ Prefix /\ left > 0
          /\ image \in Seq(Nat \cup {Garbage}) /\ Len(image) \in Nat
      BY <1>1, <2>1, <2>3 DEF IndInv, LoadInv, TypeOK
    <3>2. Len(image') = Len(image) + 1 /\ Size' = Size
      BY <1>1, <1>3, <2>3, <3>1 DEF Size, IndInv, TypeOK
    <3>3. ok => Prefix'
      <4> SUFFICES ASSUME ok, NEW k \in 1 .. Len(image')
                   PROVE  image'[k] = part[1] + k - 1
        BY <1>3 DEF Prefix
      <4>1. CASE k = Len(image) + 1
        BY <4>1, <1>1, <1>3, <2>3, <3>1, SizePositive DEF IndInv
      <4>2. CASE k \in 1 .. Len(image)
        <5>1. image'[k] = image[k]
          BY <4>2, <1>1, <1>3, <2>3, <3>1 DEF IndInv, TypeOK
        <5> QED BY <4>2, <3>1, <5>1 DEF Prefix
      <4> QED BY <3>1, <3>2, <4>1, <4>2
    <3>4. ok => left' + Len(image') = Size' /\ card'.lba = part'[1] + Len(image')
      BY <1>1, <1>3, <2>2, <3>1, <3>2, SizePositive DEF IndInv
    <3>5. l = "CMD12" /\ ok => Loaded'
      <4>1. l = "CMD12" /\ ok => left' = 0 /\ Len(image') \in Nat
        BY <1>1, <1>3, <3>1, <3>2
      <4> QED BY <3>2, <3>3, <3>4, <4>1, SizePositive DEF Loaded, IndInv
    <3> QED BY <2>2, <2>3, <3>3, <3>4, <3>5
  <2>4. CASE job < 3
    <3>1. left = 1 /\ (job = 1 => card.lba = 1) /\ (job = 2 => card.lba = EntriesLba)
      BY <1>1, <2>1, <2>4 DEF IndInv, LoadInv, TypeOK
    <3>2. l = "CMD12"
      BY <3>1
    <3>3. rc' = 0 => Read(job + 1)'
      <4>1. rc' = 0 => buf' = card.lba
        BY <1>3, <2>2, <2>4
      <4> QED BY <1>3, <2>4, <3>1, <4>1 DEF Read, IndInv, TypeOK
    <3> QED BY <2>4, <3>2, <3>3
  <2> QED BY <2>3, <2>4 DEF IndInv, TypeOK
<1>8. TriesInv'
  BY <1>4 DEF TriesInv, at
<1> QED BY <1>4, <1>5, <1>6, <1>7, <1>8 DEF IndInv

LEMMA CopyStopInv == ASSUME IndInv, sd_copy_stop PROVE IndInv'
<1> USE DEF sd_copy_stop
<1>1. at = "CMD12" /\ res = 1 /\ card \in [state : {"OFF", "READY", "SENDING"}, lba : Nat]
  BY DEF at, IndInv, CopyInv, TypeOK, Main
<1>2. PICK l \in {"CMD18", "SPIN"} :
        /\ pc' = [pc EXCEPT ![NONSMP_HART] = l]
        /\ l = "CMD18" => rc = 0 /\ job < 3 /\ job' = job + 1 /\ res' = res
        /\ l = "SPIN" => job' = job /\ (res' = -2 \/ (res' = 0 /\ job = 3 /\ rc = 0))
  BY DEF Return, Goto
<1>3. BarrierInv' /\ at' = l /\ pc' \in [Harts -> Main \cup {"PAUSE", "SPIN", "SWAP", "DRAM"}]
  BY <1>1, <1>2, MainBarrier DEF Main
<1>4. TypeOK'
  BY <1>1, <1>2, <1>3 DEF IndInv, TypeOK
<1>5. CopyInv' /\ LoadInv'
  <2>1. (Loaded <=> Loaded') /\ (Fits <=> Fits')
    BY DEF Loaded, Prefix, Size, Fits
  <2>2. CopyInv'
    BY <1>1, <1>2, <1>3 DEF IndInv, TypeOK, CopyInv, Main
  <2>3. CASE l = "CMD18"
    <3>1. Read(job + 1) => Read(job)'
      BY <1>2, <2>3 DEF Read
    <3> QED BY <1>1, <1>2, <1>3, <2>1, <2>2, <2>3, <3>1 DEF IndInv, LoadInv
  <2>4. CASE l = "SPIN"
    BY <1>1, <1>2, <1>3, <2>1, <2>2, <2>4 DEF IndInv, LoadInv
  <2> QED BY <2>3, <2>4
<1>6. TriesInv'
  BY <1>1, <1>2, <1>3 DEF TriesInv, at
<1> QED BY <1>3, <1>4, <1>5, <1>6 DEF IndInv
-----------------------------------------------------------------------------
(***************************************************************************)
(* The theorems.                                                           *)
(***************************************************************************)
LEMMA NextInv == IndInv /\ [Next]_vars => IndInv'
<1> SUFFICES ASSUME IndInv, [Next]_vars PROVE IndInv'
  OBVIOUS
<1>1. CASE \E h \in Harts : Pause(h) \/ Spin(h) \/ Swap(h)
  BY <1>1, PauseInv, SpinInv, SwapInv
<1>2. CASE \E ok \in BOOLEAN : sd_cmd0(ok) \/ sd_cmd8(ok) \/ sd_copy_start(ok) \/ sd_copy_block(ok)
  BY <1>2, Cmd0Inv, Cmd8Inv, CopyStartInv, CopyBlockInv
<1>3. CASE \E answer \in {"idle", "ready", "error"} : sd_acmd41(answer)
  BY <1>3, Acmd41Inv
<1>4. CASE sd_copy_stop
  BY <1>4, CopyStopInv
<1>5. CASE UNCHANGED vars
  BY <1>5 DEF vars, IndInv, TypeOK, BarrierInv, CopyInv, LoadInv, TriesInv,
              Loaded, Prefix, Size, Fits, Read, at
<1> QED BY <1>1, <1>2, <1>3, <1>4, <1>5 DEF Next

LEMMA IndInvHolds == Spec => []IndInv
BY InitInv, NextInv, PTL DEF Spec

\* The barrier word stays a hart number, sd_cmd0's counter never runs below zero and the
\* block count of sd_copy goes to -1 at most, for any number of harts and any partition,
\* also where the conversion to uint32_t cuts its size to zero.
THEOREM BootTypeCorrect == Spec => []TypeOK
<1>1. IndInv => TypeOK
  BY DEF IndInv
<1> QED BY <1>1, IndInvHolds, PTL

\* smp_pause and smp_resume: for any number of harts, arriving in any order and with any
\* value in the barrier word at power-up, no hart gets past the barrier while hart 0 is
\* still in main.
THEOREM NobodyEarlyHolds == Spec => []NobodyEarly
<1>1. IndInv => NobodyEarly
  BY HartZero DEF IndInv, BarrierInv, NobodyEarly, at, Main
<1> QED BY <1>1, IndInvHolds, PTL

\* gpt_find_boot_partition: for any partition whose LBAs and size fit 32 bits, whichever
\* commands fail and whichever blocks are corrupted, success is reported only with the whole
\* partition, in order and intact, at DRAM_BASE, unless a card that had not obeyed CMD12
\* acknowledged the next CMD18 while it was still sending.
THEOREM SuccessMeansLoadedHolds == Spec => []SuccessMeansLoaded
<1>1. IndInv => SuccessMeansLoaded
  BY DEF IndInv, LoadInv, SuccessMeansLoaded
<1> QED BY <1>1, IndInvHolds, PTL
=============================================================================
