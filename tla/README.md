# Culsans cache coherence in TLA+

Culsans joins two to four CVA6 cores, each with a write-back data cache, into a
cache-coherent system. The cores speak ACE; a coherence unit (CCU) serialises
their shareable transactions, snoops the other caches and talks AXI to the
last-level cache and memory. This directory holds a TLA+ model of the coherence
path and of the boot loader that starts the cores, the TLC runs that check it on
small instances, and TLAPS proofs.

Paths below are relative to the repository. `ace/` stands for
`modules/cva6/vendor/planv/ace/src/`, `cache/` for
`modules/cva6/core/cache_subsystem/`, `boot/` for
`modules/cva6/corev_apu/fpga/src/bootrom/`.

## Inventory

| Component | State it keeps | Operations | Talks to |
|---|---|---|---|
| CCU FSM, `ace/ccu_fsm.sv` | FSM state, request holder, priority bits, per-port AC/CR/CD registers, a two-word CD buffer, R and W beat counters | one transaction at a time: accept AR/AW, snoop, forward snoop data, write back, read or write memory | masters through `i_ace_mux`, snoop controllers (AC, CR, CD), memory (AXI) |
| CCU top, `ace/ace_ccu_top.sv`, `ace/ace_trs_dec.sv` | the FIFOs and arbiters of the AXI demuxes and muxes | split each core's traffic into shareable (CCU) and non-shareable (bypass), merge all of it towards memory | masters, CCU FSM, memory |
| Snoop controller, `cache/snoop_cache_ctrl.sv` | FSM state, saved request, hit/dirty/shared ways, response | take AC, look the line up, update or invalidate it, answer CR and CD | CCU, cache SRAM arbiter (`tag_cmp`), miss handler, cache controllers |
| Cache controllers, `cache/cache_ctrl.sv` (one per PTW, load and store port) | FSM state, the core's request, hit way | look up, serve a hit, upgrade a shared line, ask for a miss or a bypass | core, SRAM arbiter, miss handler, snoop controller (colliding read/clean/invalidate) |
| Miss handler, `cache/miss_handler.sv` | FSM state, one MSHR, victim, flush counter, AMO register | refill, evict, flush, CleanUnique, AMO, bypass arbitration | cache controllers, `axi_adapter`s, snoop controller |
| AXI adapter, `cache/axi_adapter.sv` | FSM state, beat counter, received line, outstanding AW count | turn a request into AXI/ACE bursts, RACK/WACK | miss handler, CCU |
| Data cache, `cache/std_nbdcache.sv`, `cache/tag_cmp.sv` | tag, data, valid/dirty/shared SRAMs | priority arbitration of the SRAMs, tag comparison one cycle later | all of the above |
| Cache subsystem, `cache/std_cache_subsystem.sv` | W-channel select FIFO | merge instruction, bypass and data traffic of a core | CCU, instruction cache |
| Instruction cache, `cache/cva6_icache*.sv` | tags and lines | refill, flush; not kept coherent by hardware | memory, non-coherent |
| LR/SC and AMO units, `modules/cva6/corev_apu/src/axi_riscv_atomics/` | reservation table, AMO state | exclusive monitors and atomics at memory | LLC, memory |
| Last-level cache, `modules/axi_llc/` | tags, lines, miss queue | AXI cache in front of DRAM | atomics, DRAM |
| FPGA boot loader, `boot/startup.S`, `boot/src/` | barrier word in DRAM, SD card state, copied blocks | hold all harts but one, initialise the SD card, copy the boot partition, let the harts go one by one | all harts, SD card, DRAM |
| SoC, `rtl/` | wiring, peripherals, boot | instantiate the above | everything |

What is hard here: every interface is a valid/ready handshake with arbitrary
delays, one transaction touches up to five state machines, the CCU answers some
requests before their write-back has reached memory, evictions by-pass the CCU,
and the snoop controller changes lines under the feet of the cache and miss
handlers. The hazards of `PROJECT.json` list the lines where this bites.

What makes each part correct:

- CCU: a transaction is acted on only after every other cache was snooped; dirty
  data found by a snoop reaches memory or the initiator; answers are complete;
  nothing is left in flight at the end; every request is served in the end.
- Data cache: a line is in one way at most; an unshared copy is the only one;
  every copy is the version written last; no write is lost in an eviction, a
  snoop, a flush or an AMO; a store writes the way that holds its line; a load
  takes the word it asked for.
- Muxes and W-select FIFO: writes keep their data and their order per line.
- Reservation table: an SC succeeds only if nobody wrote the line since the LR.
- The system as a whole: for each line it behaves like a single copy.
- Boot loader: nobody runs ahead of hart 0; success means a complete image; in the
  end every hart starts.

## Modules

| Module | Contents |
|---|---|
| `CcuFsm` | `ccu_fsm.sv` closed with masters, snoop controllers and memory; its properties, inductive invariant and fairness |
| `CcuFsm_proofs` | TLAPS proofs about `CcuFsm`: control, and on top of it the data of a transaction |
| `DCache` | one data cache: SRAMs and arbiter, snoop controller, three cache controllers, miss handler, AXI adapter |
| `DCacheSystem` | `DCache` closed with its core, the coherence unit, the other caches and memory; its properties |
| `MCDCache` | `DCacheSystem` with the state view used for model checking |
| `DCacheSystem_proofs`, `DCacheCoherence_proofs` | TLAPS proofs about `DCacheSystem`: control, lines and stores; on top of it coherence, versions and when `WayKept` holds |
| `CoherentLine` | what the system promises: a single copy of a line |
| `CcuTop` | all caches, the coherence unit and the write paths through `i_axi_mux`, for one line; refines `CoherentLine` |
| `CcuTop_proofs`, `CcuTopRefinement` | TLAPS proofs about `CcuTop`; the refinement of `CoherentLine` |
| `CacheSubsystem`, `MCCacheSubsystem` | the AXI port of one core: its adapters, the W-select FIFO, memory |
| `CacheSubsystem_proofs` | TLAPS proofs about `CacheSubsystem` |
| `BootRom`, `MCBootRom` | the boot loader: barrier, SD card, image |
| `BootRom_proofs` | TLAPS proofs about `BootRom` |
| `SdCrc` | the block checksum of the SD driver, with its proofs |

Operators named `X_Something` under a comment "Slip" are plausible mistakes in
the code of `X`. They are not used by the specifications; `PROJECT.json` pairs
each with the property that notices it when it takes the place of `X`.

### CcuFsm

One step is one clock edge. Each action is one state of the FSM and updates all
registers that change on that edge; combinational outputs are operators
(`ac_valid_o`, `r_valid_o`, ...). `Edge` holds what happens in every state: the
AC, CR and CD registers, the beat counters and the snoop controllers. Port
vectors are sets of ports. Data is its provenance (word `w` as held by port `p`,
or memory), which is what `CompleteAnswer` and `DirtyNotLost` need. Left out:
ids and addresses, registers that are written and never read (`data_received`,
`m2s_resp_holder`, `ac_valid`, `w_eot`), and `bypass_i` of the snoop controller,
which makes it answer like a miss.

The environment: a master issues any of the request kinds `axi_adapter` can
produce; a snoop controller takes AC, answers CR and, when it has data, two CD
beats, after any delay; memory answers after any delay. That at most one snooped
cache gives a line up as dirty (`OneOwner`) is an assumption on the caches in
this module; `DCacheSystem` checks it from the side of one cache.

### DCache and DCacheSystem

`DCache` is a synchronous composition: at every edge `SramStep`, `SnpStep`,
`CtrlStep`, `MhStep` and `AdStep` happen together for one record `in` of inputs.
The wires between the machines are operators with the names of the signals
(`updating_cache`, `miss_gnt`, `readshared_done`, ...). The arbiter of `tag_cmp`
is `MhReq`, `SnpReq`, `CtrlReq`, `CtrlGnt`: fixed priority miss handler, snoop,
PTW, load, store. A lookup is granted in one cycle and compared in the next;
because the SRAM has one port, its contents in the second cycle are what was
read in the first. A line's data is a version number; a store merges bytes into
what it finds, so it writes the successor of the version found, and a store into
a stale line or a wrong way shows up as a wrong version. Dirty bytes are one bit.

`DCacheSystem` adds the rest:

- the core, which may issue any request to the lines given to its ports, hold
  the tag back, kill a load, flush, and issue an AMO when no store is pending
  (`amo_buffer.sv`);
- the coherence unit as the cache sees it: one transaction at a time, in the
  order of `CcuFsm`. `turn` and `rlat` are the cycles of the real path: with the
  latency mode `rtl/src/culsans_top.sv` sets (all ports cut), the last R beat
  leaves the CCU in cycle t and reaches the adapter in t+2, plus up to `RDelay`
  cycles lost to other R traffic in the demux; the next AC is valid in t+3 at the
  earliest;
- the other caches, per line: nothing, shared or unique, dirty or not, and the
  version they hold. They write lines they own and evict at any time;
- memory, with a write-back of this cache landing at any time before its B.

Assumption: writes to a line reach memory in the order in which they were decided.
Writes of others do not overtake this cache's write-back (`WbInFlight`), and what a
CleanUnique of this cache finds dirty elsewhere is in memory when it is answered
(`ServeOwn`), whereas the CCU writes it back after its answer. `CcuTop` has the bus with
its real order, and shows that the code does not ensure this one.

Left out: uncached (bypass) accesses, `init_ni` (used only by `fence.t`),
`stall_i`, regions that are not shareable, byte enables.

`MCDCache!View` identifies states that differ only in registers that are
rewritten before they are read, in the contents of invalid lines, or in the
numbering of versions. No action or invariant tells such states apart.

### CcuTop and CoherentLine

`CcuTop` puts all cores together, transaction by transaction and for one line. A
snoop of one cache, a refill and a memory access are one step each; `CcuFsm` and
`DCache` have the steps inside. The order of these steps is the code's: the
CCU takes one request at a time and snoops the caches in any order; it answers a
CleanUnique first and then writes back what its snoop found dirty, busy until the B but
with the new owner free to store and evict (`Respond`, `Released`,
`CleanWriteBackDone`); a dirty victim
stays valid until the B of its write-back (`WriteBack`, `WriteBackDone`), and its
snoop in between is answered; a flush and an AMO hold back AC (`ac_ready`); a
snoop that takes the line of a waiting CleanUnique is remembered
(`colliding_clean`). Write-backs and non-shareable writes go past the CCU to
`i_axi_mux`. Its AW arbiter is modelled from `rr_arb_tree.sv`: requests are
locked when memory is not ready (`req_d`), the tree picks one (`Selected`), and
the next pointer is computed from the locked vector (`next_idx`). Memory
performs writes in the order taken; the AMO and LR/SC units behind the mux are
`MemWrite`, `MemAnswer` and `res_after` (the reservation table). Data is the number
of stores in it modulo `Versions`; dirty bytes are one bit, so a write-back
carries the whole line.

`CoherentLine` is the abstract specification: one value, loads that return it,
stores and AMOs that act on it. `SingleCopySpec` instantiates it with `val <-
Value`, the data of any copy, or else what the CCU carries, or else memory. Every
step of `CcuTop` must then be a load, a store, an AMO or a stutter.

`AwPrompt` restricts when memory takes the AW of a write-back: before the line is
snooped away from the core that writes it back, and, for the write-back that
follows an answered CleanUnique, before the new owner starts to write the line back. The
code enforces neither.

`OneOwner`, an assumption of `CcuFsm` about the caches, and `WbInFlight` of
`DCacheSystem` are thereby examined in a closed system.

### CacheSubsystem

One core's memory port. `Edge(ar, aw, w, b, r)` is a clock edge in which memory and
the arbiters complete the given handshakes; every adapter moves by `axi_fsm`, with
one operator per state of `axi_adapter.sv`. `fifo` is `i_fifo_w_channel`: pushed
with each AW, popped with each last W beat, its `full_o` unconnected, as in the
source (`FifoNext` drops a push when full). Memory is external: it takes AWs in
order, gives W beats to the oldest, and owes B and R. A CleanUnique is a line read
answered with one beat. Addresses, ids and data are left out; `w_index` is the
word offered on W.

### BootRom

`boot/startup.S` is run by all harts: `Pause` is `smp_pause`, `Spin` and `Swap` the
two accesses of `smp_resume`. Hart 0 runs `main` in between: one action per SD
command and per 512-byte block, each of which may fail, with the error paths of
`sd.c` and `gpt.c`. A block is its LBA or `Garbage`; a corrupted block is noticed
by its CRC, which is the subject of `SdCrc`. A CMD18 with a bad answer, or none within
100 polls, ends `sd_copy` without CMD12, whether the card took the command or not; the
answer to CMD12 is not looked at, so the card may go on sending, and a CMD18 that meets such
a card may be taken or ignored (`overlap` remembers that one was acknowledged).
LBAs and sizes, 64 bits wide on the card, are cut to the 32 bits of `sd_copy`'s parameters
(modulo `Wrap`); a block read from a wrong place holds any values. The loop is a
do-while: a size of zero reads one block. The barrier word has any value at
power-up. `Prompt` says that all harts have reached `smp_pause` before hart 0 leaves
`main`. The wait for a data token and the 100 polls of `sd_cmd` are part of the
command or block; SPI registers and printing are left out.

### SdCrc

A word is the set of its one bits. `crc16` is the shifts and exclusive ors of `sd.c`,
one operator per statement, with their casts; the reference `DivideByte` divides by
the polynomial bit by bit, as a card does. `NextByte` is the inner loop of `sd_copy`
next to the card's register, for bytes that may be damaged on the way. The module
has no run: all it says is proved.

## Runs

| Run | Instance | Shows |
|---|---|---|
| `ccu_safety` | 3 ports, all requests, masters lower `r_ready` except on a single-word read of word 0 | `TypeOK`, `QuiescentAtIdle`, `SnoopedBeforeResponse`, `BufferAccounting`, `DirtyBeforeMemory`, `CompleteAnswer`, `DirtyNotLost`, `RBeatHeld` |
| `ccu_live` | 2 ports, fairness | `TransactionEnds`, `ReadServed`, `WriteServed` |
| `dc_contention` | 2 lines, 1 way, loads, stores, AMOs, kills and late tags, all snoops, `RDelay` 1 | `TypeOK`, `Coherent`, `NoLostWrite`, `StoreSafe`, `Fresh`, `CriticalWordIsOwn` |
| `dc_ways` | 3 lines, 2 ways, stores to all, PTW reads of the contended one | `OneHot`, `Fresh` |
| `dc_flush` | 3 lines, 2 sets, 2 ways, flushes | `NoLostWrite`, `FlushEmpties` |
| `dc_late_beat` | as `dc_contention` with `RDelay` 2 | violates `Coherent` |
| `dc_stale_way` | 3 lines, 2 ways, loads of all lines | violates `StoreSafe` |
| `ct_two` | 2 cores, AMO, LR, SC, without `AwPrompt`, fairness | `ScAtomic`, `Served` |
| `ct_three` | 3 cores, one with non-shareable writes, AMO, `AwPrompt` | `TypeOK`, `OneOwner`, `CleanMatchesMemory`, refinement of `CoherentLine` (`SingleCopySpec`) |
| `ct_overtake` | 2 cores, loads, stores and evictions only, without `AwPrompt` | violates `CleanMatchesMemory` |
| `cs_port` | data-cache adapter (2 beats) and bypass adapter, fairness | `TypeOK`, `WForOldest`, `FifoHasRoom`, `NothingOwed`, `Answered` |
| `br_boot` | 3 harts, `Wrap` 8, partitions of 1, 3 and 8 blocks and one beyond LBA 8, `Prompt`, fairness | `TypeOK`, `NobodyEarly`, `SuccessMeansLoaded`, `AllStart` |

Bounds. Three ports give the CCU an initiator and two responders, the least for
which responders interleave; two are enough for liveness. For the cache, one way
makes every second line an eviction, two ways add the choice of the victim and
lines in two ways; two sets make a flush advance. One line is contended: the
others matter only as reasons to evict. Two versions suffice, since a copy that
misses one write is already wrong. With `Snoops` and the `*Lines` constants a run
is restricted to the traffic its question needs.

In `CcuTop` two cores are enough for a line to change owner and come back; three add
two waiting CleanUniques and several sharers. `MaxWTrans` 2 lets an AW be taken
while an older write is not performed, and makes the mux stall with a third. A lost
or stale value shows at the first load or store on it, so `Versions` 2 is
enough. Two adapters are what a core has, and two beats a cache line of this
configuration; the theorems cover the rest. The boot loader's 10000 tries are 3, which
has a first, a middle and the last one. Its `Wrap`, 2^32 in the code, is 8: a partition
of 8 blocks has its size cut to zero, one at LBA 9 its address to that of the GPT header.
The entries are at LBA 3, so that a card which goes on sending after the header delivers
another block than the one asked for.

Fairness (`ccu_live`): the clock runs; a snoop controller takes an AC offered
when it is idle and finishes its lookup, which the cache's arbiter gives it the
second highest priority for; memory and masters answer. All of this is local to
the component named; fairness among reads and writes is what is being checked,
and is not assumed.

`ct_two`: memory takes and performs writes and answers, caches and the CCU take their B; a
snoop controller takes an AC when it may, and the CCU takes each core's request again
and again (strong fairness: `i_ace_mux` is round robin). No order of the ports of
`i_axi_mux` is assumed. `cs_port`: memory takes AR, AW and W and gives B and R; the
`stream_arbiter`s are round robin, so a waiting AW is taken in the end. `br_boot`:
every hart runs, SD commands and blocks are answered, and a card does not report idle
to ACMD41 for ever; the last is not guaranteed by the code, which would wait.
Deadlock is not checked in `br_boot`, which ends by design: harts leave the boot
loader.

## What the runs found

1. `dc_late_beat`: the CCU does not wait for RACK. If instruction-cache beats
   delay both R beats of a refill in the demux of the core, the snoop of the next
   transaction reads the SRAM one cycle before the refill is saved and misses: two
   caches own the line. One cycle of delay is harmless, because the miss handler
   has priority on the SRAM (`dc_contention`).
2. `dc_stale_way`: a store that waits in `MAKE_UNIQUE` does not notice that the
   load port's misses evict its line and bring it back in another way. It then
   writes the old way, which holds another line.
3. `ct_overtake`: writes meet at `i_axi_mux` without regard to the line. Core 1 has the
   line dirty and evicts it; its AW is stalled at the mux. Core 0 takes the still valid
   line by a ReadShared and then asks for a CleanUnique. The snoop invalidates core 1's
   dirty copy; the CCU answers at once (`ace/ccu_fsm.sv:172-174`, `386-391`) and only then
   offers its write-back (`187-194`). Core 0 stores and evicts. When core 1's AW is
   granted, the arbiter computes its next choice from the requests it had locked, which is
   core 1's alone, and takes port 0 before the port of the CCU: the newer data reaches
   memory first, the CCU's older write-back last, and core 1 then reads the old data. Two
   cores and cacheable traffic are enough. It does not happen if write-backs are taken
   before the line is snooped and the CCU's before the new owner writes back
   (`AwPrompt`, `ct_three`).

The passing runs stay clear of these: `RDelay` is at most 1, where there are two
ways the load port does not load other lines, and what 3 breaks is checked with `AwPrompt`.

Further limits, met while modelling, on which the passing runs depend:

- The word of a single-word read is offered only while `stored_cd_data` equals the
  offset plus one (`ace/ccu_fsm.sv:402`). A master that stalls in the one cycle for
  word 0 would see `r_valid` withdrawn, against the assertion at
  `ace/ace_intf.sv:271`, and the CCU would hang. The adapters of this SoC never
  stall; `MasterStalls` leaves this request out and has all the others.
- A snoop taken in the cycle in which a flush starts is processed during the
  flush, although `tests/unit/README.rst:413` says flushes stall snoops.
  `dc_flush` has this overlap and shows that nothing is lost.
- `smp_pause` clears the barrier also for a hart that comes late, which overwrites
  the number that was to let it go. Loading takes far longer than a hart needs to
  get there; `Prompt` says so, and `AllStart` needs it.
- `main` drops the result of loading, so after an error all harts still jump to
  DRAM; `Return` does the same.
- LBAs and sizes above 32 bits are cut when `gpt.c` calls `sd_copy`: a partition of 2^32
  blocks is one block, reported as a success. `SuccessMeansLoaded` has the premise `Fits`.
- `sd_copy` does not look at the answer to CMD12 (`sd.c:205`). If the card goes on sending,
  a data byte may be taken for the answer to the next CMD18 and blocks of the old transfer
  for those asked for, with good CRCs. `SuccessMeansLoaded` has the premise `~overlap`.
- The size given to `gpt_find_boot_partition` is not used: an image above 64 MiB
  overwrites the loader's stack and the barrier word. In the model the image overlaps
  with nothing.
- `crc7` combines its operands with `&` where a CRC needs `^`, so the checksum of every
  command is zero. Cards in SPI mode do not check it; it is not modelled.

## Proofs

`CcuFsm_proofs` proves, for every number of ports and any selection of request
kinds:

- `TypeCorrect`: `Spec => []TypeOK`;
- `QuiescentAtIdleHolds`: the FSM is back in IDLE only with all snoop controllers
  idle and memory owing nothing;
- `SnoopedBeforeResponseHolds`: nothing is done for the initiator before all
  other ports were looked up, with an invalidating snoop for exclusive requests.

Neither safety property is inductive. `IndInv` (in `CcuFsm`) adds what
the FSM relies on in each state: the request and initiator that belong to the
state (`InvRequest`), what every snoop controller may be doing (`InvPort`), the
contents of the CR and CD registers (`InvRegs`), one dirty owner (`InvOwner`), the
progress of a write-back, word by word (`InvMem`), and which lookups are recorded
with which effect (`InvLookedUp`, `InvEffect`, `InvHistory`). The hard case is
leaving WRITE_BACK_MEM on B without a test of `cd_last`: `InvMem` counts the words
of the responder, in the buffer and at memory, and shows that B implies both were
taken. Each action has one lemma; `EdgeFacts` collects what every clock edge does.
The proofs use `PortsAssumption` and `KindsAssumption`, and the environment
assumption that a snooped cache reports dirty only if no other one did, which is a
conjunct of `SnoopStep`.

The second part of the module proves, on top of that and for every number of ports,
`BufferAccountingHolds`, `DirtyBeforeMemoryHolds`, `CompleteAnswerHolds`,
`DirtyNotLostHolds` and `RBeatHeldHolds`. `DataInv` (in `CcuFsm`) says, for each state of
the FSM, which kinds of request get there (`InvKind`), when a line found dirty is handed
over (`InvGiven`), that the buffered words are the first responder's, each in its place
(`InvBuffer`), and which beats have gone out on R and W together with the counters
`r_last`, `w_last` and `stored_cd_data` (`InvRBeats`, `InvWBeats`). A transaction that ends
has sent the beat the counter was waiting for, so its answer is complete
(`AnswerStep`); what a cache gave up dirty is then in `wbeats` or was marked dirty on R.
`RBeatHeldHolds` has the hypothesis that masters do not stall on a single-word read of
word 0, see "Further limits"; it is what the adapters do.

`CcuTop_proofs` proves, for one to seven cores (what the three levels of the modelled
arbiter tree serve), any `MaxWTrans`, any selection of atomics and of cores with
non-shareable writes, with and without `AwPrompt`: `TypeCorrect`, `OneOwnerHolds` and
`ScAtomicHolds`. Its `IndInv` (in `CcuTop`): a write is at the mux, on the bus or answered,
in one of these places only, and its port waits for it (`InvWrite`, `InvOrder`); what a
miss handler knows of its line, in particular that a CleanUnique has a shared copy or
was noted as collided (`InvCore`); what the CCU holds and which requests may hold it
(`InvCcu`); the copies the snoops left behind (`InvSnooped`); `OneOwner`. For
reservations `InvRes` says that they hold as soon as memory has the value of the line
(`Settled`), which is the case when an SC is performed because its snoop forced the
write-back of every dirty copy. `OneOwner` is thereby established for the system as
a whole; `CcuFsm` assumes it of the caches.

`CcuTopRefinement` proves `AwPrompt => (Spec => SingleCopySpec)` and `AwPrompt => (Spec =>
[]CleanMatchesMemory)`. `InvValue` says where the value of the line is: the write-backs
waiting at the mux, the last one on the bus and, when nothing is dirty or the dirty copy
has been written, memory. With it every step is mapped: a hit is a load or a store
of the single copy, `Respond` is the load or store that missed, an AMO or SC acts when
memory performs it, and all else leaves `Value` unchanged. `AwPrompt` is a hypothesis
because the statement is false without it: `ct_overtake` is the counterexample. The
write-back after a CleanUnique is the one that may wait at the mux although it is not the
value of the line: `InvLate` says that the new owner has then a dirty copy that it does not
write back yet.

`DCacheSystem_proofs` proves, for any number of lines, sets, ways and versions and
any `RDelay` (`DCacheAssumption`, `SystemAssumption`):

- `DataCacheTypeCorrect`, `CriticalWordHolds` and `FlushEmptiesHolds`;
- `OneHotHolds` and `StoreHitsHolds` under `[]WayKept`: a line is in one way only, and
  a store that writes the SRAM (`StoreHits`, the first half of `StoreSafe`) writes the way
  that holds its line.

The five state machines move at the same edge, so the invariants relate them pairwise.
`ControlInv`: the coherence unit and the snoop controller are at the same point of a
snoop, the MSHR belongs to a controller that waits with the same address, the adapter
works for the miss handler's state, an AMO or flush excludes the others, and the sets
a flush has passed are empty. `LineInv` is about one step of the SRAM against
everything that was decided on its earlier contents: a line being refilled is absent
and stays so (`InvAbsent`, `InvWaiting`), a snoop about to invalidate has found the only
copy (`InvFound`), and a CleanUnique overtaken by an invalidation knows it
(`InvCollided`). It is inductive if stores write their own way; `StoreInv` supplies that.
Its hard part is time: after the response to a CleanUnique has been sent, the store must
leave `MAKE_UNIQUE` before the next snoop can take the line without being noticed.
`InvTurn` counts the cycles of both paths (`turn`, `rlat`): the response is one beat,
delayed by at most one cycle, and the next snoop is at that time at most waiting for
the SRAM. Whatever `RDelay` does to refills, which have two beats, does not matter here.

`WayKept` is a hypothesis because the code does not ensure it: `dc_stale_way` is a
behaviour without it, in which another port's misses move the line of a store that
waits in `MAKE_UNIQUE`. The proofs show that this is the only way in which a store can
miss its line or a line can get into two ways.

`DCacheCoherence_proofs` goes on from there to what the cache promises the rest of the
system, for any number of lines, sets, ways and versions, any snoops and any traffic:

- `CoherentHolds`, `StoreSafeHolds`, `FreshHolds` and `NoLostWriteHolds`, each as
  `Spec /\ []WayKept => []P` for `RDelay <= 1`;
- `WayKeptHolds`: `Spec /\ []NotMoved => []WayKept`, where `NotMoved` says that no refill for
  another port puts the line of a store waiting in `MAKE_UNIQUE` into another way;
- `DataCacheCorrect`: these four and `OneHot` from `Spec /\ []NotMoved`, for `RDelay <= 1`.

`NotMoved` is not a condition on the constants: it is one step that the code should refuse
and does not. The last two theorems hold for eight ways and all traffic, and say that this
step is the only defect of the way a store remembers.

Neither hypothesis can be dropped: `dc_late_beat` is a behaviour with `RDelay = 2` in which
two caches own a line, `dc_stale_way` one in which a store without `WayKept` writes another
line. `RDelay <= 1` lets one cycle of other R traffic come before the last beat.

`CoherenceInv` (in `DCacheSystem`) is about who may have a copy. Its parts follow a
transaction: once the response to a refill or CleanUnique has been decided (`Granted`), the
others hold what the response says until it is used, and no snoop of this cache gets past
waiting for the SRAM in between (`InvArrival`, `InvGranted`); a snoop that has looked the
line up finds it unchanged when it acts (`InvSnooped`), and a line that is there while it
answers is one it may leave (`InvAnswer`); a store about to write has the only copy, and no
snoop that would share it is being answered (`InvOwner`). `Coherent` alone says nothing
about the cycles between the decision of the coherence unit and the write of the SRAM,
which are the ones where it could break.

`ValueInv` is about versions: the response carries the last version (`InvGrantData`), so
does the data taken for a snoop, which nobody can change meanwhile (`InvSnoopData`); the way
a refill overwrites holds nothing that memory has not (`InvVictimClean`); a write-back
carries what the cache holds, or a snoop has taken the line and the duty to write it
back with it (`InvWb`); the line of an AMO is gone before the AMO is sent (`InvAmoGone`).
The hard case is `InvWb`: the victim stays valid until B, so a snoop may take it dirty while
its data is on the way, which must then not reach memory after newer data. That no other
write to the line overtakes the write-back on the bus is an assumption about the
environment (`WbInFlight`), which `ct_overtake` shows to be one.

For `WayKept`: a store enters `MAKE_UNIQUE` with the only way of its line and without a
miss in its set. A refill of the line is then for another port, where `NotMoved` speaks, or
for the store's own earlier miss, which is in another set (`InvPorts`), or for its own
request, which ends its waiting in the same cycle. The premises are not vacuous: with the
constants of `dc_stale_way` they hold in some 90000 states, and the properties in all of them.

`CacheSubsystem_proofs` proves, for any finite set of adapters, any burst lengths and
any FIFO at least as deep as there are adapters: `SubsystemTypeCorrect`,
`WForOldestHolds`, `FifoHasRoomHolds` and `NothingOwedHolds`. The FIFO alone says
nothing about what the adapters will send, so `IndInv` (in `CacheSubsystem`)
ties three views of the same writes together: the FIFO holds exactly the adapters
that are sending data, once each (`InvFifo`); memory has the same writes in
the same order and misses as many beats as the adapter's counter says (`InvSlv`);
what memory owes follows from the adapter's state (`InvOwed`). `InvStates` shows on
the way that the states for "W before AW" are unreachable here: an adapter can send no
data before the FIFO knows its AW. That the FIFO has room is then a counting
argument: an adapter that offers an AW is not in the FIFO. Assumptions:
`MastersAssumption`, `BeatsAssumption`, `KindsAssumption`, `DepthAssumption`.

`BootRom_proofs` proves, for any number of harts, tries and partitions
(`BootAssumption`): `BootTypeCorrect`, `NobodyEarlyHolds` and
`SuccessMeansLoadedHolds`, the last for partitions whose LBAs and size fit and cards that were
not sending when they acknowledged a CMD18. `BarrierInv` says that the barrier is zero as soon as one hart
has paused and until hart 0 returns, so nobody else finds its number there; `CopyInv`
says that nothing is stored before the third copy; `LoadInv` follows all three: each
leaves the block in its buffer that the next one's arguments come from (`Read`), and in
the third blocks to go plus blocks stored are the partition, the stored ones its prefix; `TriesInv` keeps the counter of
`sd_cmd0` positive. There is one lemma per action; `MainUntouched`, `MainBarrier` and
`Idling` hold what several actions share. None of these uses `Prompt`.

`SdCrc` proves `Crc16IsRemainder` (for every register and byte, `crc16` is eight steps
of the division by 0x11021), `Crc16Detects` (results are equal with equal bytes
only if the registers were equal, and the other way round) and, from both,
`OneByteErrorDetectedHolds`: for a block of any length, `sd_copy` accepts an intact
block and refuses one with a damaged byte. Each statement of `crc16` and each step of
the division gets a lemma with its effect on every bit; two steps of the division make
the table `TwoBits`, two of those `FourBits`. No assumption is needed beyond the
appended checksum itself arriving intact. The induction over the bytes is that of the
state machine.

Only model-checked: `OneHot` and `Fresh` with the constants of `dc_ways` without the
hypothesis `NotMoved`, and liveness (`ccu_live`, `Served`, `Answered`, `AllStart`), which is
beyond the prover: it has neither fairness nor `ENABLED`.

## Plan

Every safety property of the passing runs is stated by a theorem, under the conditions
named there. What is left:

1. Bypass accesses of the cache controllers (`WAIT_TAG_BYPASSED`,
   `WAIT_REFILL_VALID`) and the bypass arbiter of the miss handler.
2. `CcuTop` with the data caches of `DCacheSystem` in place of its own.

## Not modelled

The instruction cache (not kept coherent; it appears as R traffic), the LLC and the
PULP AXI blocks beyond arbitration, the internals of the AMO and LR/SC units
(third-party, behind a plain AXI port), the write-through caches (not used by
this SoC), the CVA6 pipeline beyond the requests it makes, SPI, UART and other
peripherals (register accesses without a protocol of their own). The SDK under
`cva6-sdk/` (U-Boot, OpenSBI, Linux and Buildroot) is third-party software that is
only built here; it makes up nearly all C code of the repository and nothing of the
coherence system.
