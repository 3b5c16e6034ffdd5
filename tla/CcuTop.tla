------------------------------- MODULE CcuTop -------------------------------
(***************************************************************************)
(* The whole coherent system, transaction by transaction, for one cache    *)
(* line: the caches of all cores, the coherence unit that serialises their *)
(* shareable requests, and the write paths that meet in i_axi_mux of       *)
(* ace_ccu_top.sv on the way to memory.  Write-backs and non-shareable     *)
(* writes by-pass the coherence unit: each core has a port of its own at   *)
(* the mux, the coherence unit has one more, and the mux takes the AWs of  *)
(* its ports in the order of its round-robin arbiter.                      *)
(*                                                                         *)
(* CcuFsm and DCache give the steps inside a transaction; here a snoop and *)
(* a refill are one step each.  Data is the number of stores it contains,  *)
(* modulo Versions.                                                        *)
(***************************************************************************)
EXTENDS Naturals, Sequences

CONSTANTS
  NoSlvPorts,  \* number of cores
  Versions,    \* data is counted modulo Versions
  MaxWTrans,   \* writes the memory side holds after the mux
  Bypass,      \* cores that also write to non-shareable addresses
  AwPrompt,    \* TRUE: memory takes the AW of a write-back before the line is
               \* snooped in the evicting cache, and the AW of the coherence
               \* unit's write-back before the new owner writes the line back
  Atomics,     \* kinds of atomics the cores issue
  None

ASSUME CcuTopAssumption ==
  /\ NoSlvPorts \in 1..7 /\ Versions \in Nat \ {0, 1} /\ MaxWTrans \in Nat \ {0}
  /\ Bypass \subseteq Nat /\ AwPrompt \in BOOLEAN /\ None \notin Nat
  /\ Atomics \subseteq {"AMO", "LR", "SC"}

Cores == 0 .. NoSlvPorts - 1
CCU   == NoSlvPorts
Ports == Cores \cup {CCU}

Data     == 0 .. Versions - 1
Line     == [valid : BOOLEAN, shared : BOOLEAN, dirty : BOOLEAN, data : Data]
Requests == {"READ_SHARED", "READ_UNIQUE", "CLEAN_UNIQUE"} \cup Atomics
\* A write-back is one step of a refill, of a flush, or of an atomic.
WbAtomic == [r \in {"AMO", "LR", "SC"} |->
              IF r = "AMO" THEN "WB_AMO" ELSE IF r = "LR" THEN "WB_LR" ELSE "WB_SC"]
WbStates == {"WB_MISS", "WB_FLUSH"} \cup {WbAtomic[r] : r \in Atomics}

\* A write on its way to memory: a line written back, an AMO, a store conditional, or
\* one to another address.
Ops    == {"WB", "AMO", "SC", "OTHER"}
Writes == [op : Ops, data : Data]
-----------------------------------------------------------------------------
VARIABLES
  line,  \* the line in each cache
  mh,    \* what the miss handler of each core is doing for the line
  coll,  \* colliding_clean of each miss handler
  byp,   \* cores with a non-shareable write outstanding
  ccu,   \* the coherence unit
  awq,   \* AWs waiting at each port of the mux
  arb,   \* registers of the AW arbiter
  bus,   \* writes taken by the mux and not yet performed
  bq,    \* B responses on their way back
  mem,   \* the line in memory
  res,   \* cores with a reservation of the line in axi_res_tbl
  linked, \* cores whose LR no store has followed yet
  rd,    \* the value returned last, to any core
  stores \* number of stores and AMOs completed, modulo Versions

vars == <<line, mh, coll, byp, ccu, awq, arb, bus, bq, mem, res, linked, rd, stores>>

Invalid == [valid |-> FALSE, shared |-> FALSE, dirty |-> FALSE, data |-> 0]

Idle == [state |-> "IDLE", init |-> 0, todo |-> {}, data |-> None,
         dirty |-> FALSE, shared |-> FALSE]

\* Every register keeps its type; a port of the mux has at most the write of the
\* miss handler and one non-shareable write waiting.
TypeOK ==
  /\ line \in [Cores -> Line]
  /\ mh \in [Cores -> {"IDLE"} \cup Requests \cup WbStates]
  /\ coll \subseteq Cores /\ byp \subseteq Cores
  /\ ccu \in [state : {"IDLE", "SNOOP", "WRITE_BACK", "MEM", "RESP", "CLEAN_WB"}, init : Cores,
              todo : SUBSET Cores, data : Data \cup {None},
              dirty : BOOLEAN, shared : BOOLEAN]
  /\ awq \in [Ports -> Seq(Writes)] /\ \A p \in Ports : Len(awq[p]) <= 2
  /\ arb \in [rr : Ports, lock : BOOLEAN, req : SUBSET Ports]
  /\ bus \in Seq(Writes \X Ports) /\ Len(bus) <= MaxWTrans
  /\ bq \subseteq Ops \X Ports
  /\ mem \in Data /\ res \subseteq Cores /\ linked \subseteq Cores /\ rd \in Data /\ stores \in Data

Init ==
  /\ line = [c \in Cores |-> Invalid]
  /\ mh = [c \in Cores |-> "IDLE"] /\ coll = {} /\ byp = {}
  /\ ccu = Idle
  /\ awq = [p \in Ports |-> <<>>]
  /\ arb = [rr |-> 0, lock |-> FALSE, req |-> {}]
  /\ bus = <<>> /\ bq = {} /\ mem = 0 /\ res = {} /\ linked = {}
  /\ rd = 0 /\ stores = 0
-----------------------------------------------------------------------------
(***************************************************************************)
(* The AW channel of i_axi_mux.  In every cycle with a request the arbiter *)
(* either grants one or, if memory is not ready, locks the requests it has *)
(* seen: until the grant, later ones do not count.  AWs may arrive in the  *)
(* same cycle; every other step takes a cycle, in which memory may stall.  *)
(***************************************************************************)
Requesters == {p \in Ports : awq[p] # <<>>}

req_d == IF arb.lock THEN arb.req ELSE Requesters

\* The tree goes, at each level, to the half that bit of rr_q points to if there is
\* a request in it.
Bit(n, k) == (n \div 2^k) % 2
Before(i, j, rr) ==
  \E k \in 0..2 : /\ Bit(i, k) # Bit(j, k) /\ Bit(i, k) = Bit(rr, k)
                  /\ \A m \in k+1 .. 2 : Bit(i, m) = Bit(j, m)
Selected(p) == p \in req_d /\ \A q \in req_d \ {p} : Before(p, q, arb.rr)

\* FairArb: the next request above rr_q, else the lowest.
Least(S) == CHOOSE p \in S : \A q \in S : p <= q
next_idx ==
  LET upper == {p \in req_d : p > arb.rr}
  IN Least(IF upper # {} THEN upper ELSE req_d)

Cycle ==
  arb' = IF arb.lock \/ Requesters = {} THEN arb
         ELSE [arb EXCEPT !.lock = TRUE, !.req = Requesters]

AwGrant(p) ==
  /\ Selected(p) /\ awq[p] # <<>> /\ Len(bus) < MaxWTrans
  /\ awq' = [awq EXCEPT ![p] = Tail(@)]
  /\ bus' = Append(bus, <<Head(awq[p]), p>>)
  /\ arb' = [arb EXCEPT !.rr = next_idx, !.lock = FALSE, !.req = {}]
  /\ UNCHANGED <<line, mh, coll, byp, ccu, bq, mem, res, linked, rd, stores>>

Merge(d) == (d + 1) % Versions

Push(p, op, d) == awq' = [awq EXCEPT ![p] = Append(@, [op |-> op, data |-> d])]

\* A store, wherever it is done, ends the links of all cores.
CountStore == stores' = Merge(stores) /\ linked' = {}

\* axi_res_tbl: a store conditional needs the reservation of its core; a write that
\* is performed ends all reservations of the line.
\* Slip: only a store conditional ends reservations.
res_after_ScOnly(w) == IF w.op = "SC" THEN {} ELSE res
res_after(w) ==
  IF w.op = "OTHER" \/ (w.op = "SC" /\ ccu.init \notin res) THEN res ELSE {}

\* Memory performs the writes in the order in which it took them; an AMO is
\* performed on what memory holds and returns it to the initiator.
MemWrite ==
  /\ bus # <<>>
  /\ LET w      == bus[1][1]
         atomic == w.op = "AMO" \/ (w.op = "SC" /\ ccu.init \in res)
     IN /\ mem' = IF w.op = "WB" THEN w.data ELSE IF atomic THEN Merge(mem) ELSE mem
        /\ rd' = IF w.op = "AMO" THEN mem ELSE rd
        /\ IF atomic THEN CountStore ELSE UNCHANGED <<stores, linked>>
        /\ res' = res_after(w)
        /\ bq' = bq \cup {<<w.op, bus[1][2]>>}
  /\ bus' = Tail(bus)
  /\ Cycle /\ UNCHANGED <<line, mh, coll, byp, ccu, awq>>
-----------------------------------------------------------------------------
(***************************************************************************)
(* A core and its cache.                                                   *)
(***************************************************************************)
LoadHit(c) ==
  /\ line[c].valid /\ mh[c] # "WB_FLUSH"
  /\ rd' = line[c].data
  /\ Cycle /\ UNCHANGED <<line, mh, coll, byp, ccu, awq, bus, bq, mem, res, linked, stores>>
\* A store hits a line it may write.
StoreHit(c) ==
  /\ line[c].valid /\ ~line[c].shared /\ mh[c] = "IDLE"
  /\ line' = [line EXCEPT ![c].dirty = TRUE, ![c].data = Merge(@)]
  /\ CountStore
  /\ Cycle /\ UNCHANGED <<mh, coll, byp, ccu, awq, bus, bq, mem, res, rd>>

\* The miss handler asks the coherence unit for the line.
Miss(c, r) ==
  /\ mh[c] = "IDLE"
  /\ \/ ~line[c].valid /\ r \in {"READ_SHARED", "READ_UNIQUE"}
     \/ line[c].valid /\ line[c].shared /\ r = "CLEAN_UNIQUE"
  /\ mh' = [mh EXCEPT ![c] = r]
  /\ Cycle /\ UNCHANGED <<line, coll, byp, ccu, awq, bus, bq, mem, res, linked, rd, stores>>

\* A clean line is replaced, or cleared by a flush.
Drop(c) ==
  /\ line[c].valid /\ ~line[c].dirty /\ mh[c] = "IDLE"
  /\ line' = [line EXCEPT ![c] = Invalid]
  /\ Cycle /\ UNCHANGED <<mh, coll, byp, ccu, awq, bus, bq, mem, res, linked, rd, stores>>

WbWaiting(p) == \E i \in DOMAIN awq[p] : awq[p][i].op = "WB"

\* A dirty line is written back, to make room, by a flush, or before an AMO; it
\* stays in the cache until B.  If the copy is that of a CleanUnique whose write-back
\* is still at the mux, that AW got there some cycles ago.
WriteBack(c, s) ==
  /\ line[c].valid /\ line[c].dirty /\ mh[c] = "IDLE" /\ s \in WbStates
  /\ WbWaiting(CCU) => arb.lock /\ ~AwPrompt
  /\ mh' = [mh EXCEPT ![c] = s]
  /\ Push(c, "WB", line[c].data)
  /\ UNCHANGED <<line, coll, byp, ccu, arb, bus, bq, mem, res, linked, rd, stores>>

Resume(s) ==
  IF \E r \in Atomics : WbAtomic[r] = s THEN CHOOSE r \in Atomics : WbAtomic[r] = s ELSE "IDLE"

WriteBackDone(c) ==
  /\ <<"WB", c>> \in bq
  /\ bq' = bq \ {<<"WB", c>>}
  /\ line' = [line EXCEPT ![c] = Invalid]
  /\ mh' = [mh EXCEPT ![c] = Resume(@)]
  /\ Cycle /\ UNCHANGED <<coll, byp, ccu, awq, bus, mem, res, linked, rd, stores>>

\* An atomic of a core whose copy is clean, or that has none.
Atomic(c, r) ==
  /\ mh[c] = "IDLE" /\ ~line[c].dirty /\ r \in Atomics /\ c \notin byp
  /\ line' = [line EXCEPT ![c] = Invalid]
  /\ mh' = [mh EXCEPT ![c] = r]
  /\ Cycle /\ UNCHANGED <<coll, byp, ccu, awq, bus, bq, mem, res, linked, rd, stores>>

\* Slip: the bypass adapter starts a write before B of the last one.
BypassWrite_Pipelined(c) ==
  /\ c \in Bypass /\ mh[c] \notin Atomics
  /\ byp' = byp \cup {c}
  /\ Push(c, "OTHER", 0)
  /\ UNCHANGED <<line, mh, coll, ccu, arb, bus, bq, mem, res, linked, rd, stores>>

\* A non-shareable write through the bypass adapter, which has one at a time.
BypassWrite(c) ==
  /\ c \in Bypass \ byp /\ mh[c] \notin Atomics
  /\ byp' = byp \cup {c}
  /\ Push(c, "OTHER", 0)
  /\ UNCHANGED <<line, mh, coll, ccu, arb, bus, bq, mem, res, linked, rd, stores>>

BypassDone(c) ==
  /\ <<"OTHER", c>> \in bq
  /\ bq' = bq \ {<<"OTHER", c>>} /\ byp' = byp \ {c}
  /\ Cycle /\ UNCHANGED <<line, mh, coll, ccu, awq, bus, mem, res, linked, rd, stores>>
-----------------------------------------------------------------------------
(***************************************************************************)
(* The coherence unit.                                                     *)
(***************************************************************************)
Request == mh[ccu.init]

Accept(c) ==
  /\ ccu.state = "IDLE" /\ mh[c] \in Requests
  /\ mh[c] \in Atomics => c \notin byp
  /\ ccu' = [Idle EXCEPT !.state = "SNOOP", !.init = c, !.todo = Cores \ {c}]
  /\ Cycle /\ UNCHANGED <<line, mh, coll, byp, awq, bus, bq, mem, res, linked, rd, stores>>

\* The snoop controller does not take an AC during a flush, or while the line is
\* written back for an atomic.
ac_ready(o) == mh[o] \notin WbStates \ {"WB_MISS"}

\* A snoop takes the line for which core o is waiting with a CleanUnique.
\* Slip: only a CleanUnique collides with a CleanUnique.
colliding_clean_Same(o) ==
  line[o].valid /\ Request = "CLEAN_UNIQUE" /\ mh[o] = "CLEAN_UNIQUE"
colliding_clean(o) ==
  line[o].valid /\ Request # "READ_SHARED" /\ mh[o] = "CLEAN_UNIQUE"

\* What becomes of a valid copy l in a snooped cache: UPDATE_SHARED or INVALIDATE.
\* Slip: UPDATE_SHARED forgotten.
Snooped_Unmarked(l) == IF Request = "READ_SHARED" THEN l ELSE Invalid
\* Slip: UPDATE_SHARED clears the dirty bit, as if memory had been updated.
Snooped_Clean(l) ==
  IF Request = "READ_SHARED" THEN [l EXCEPT !.shared = TRUE, !.dirty = FALSE] ELSE Invalid
Snooped(l) == IF Request = "READ_SHARED" THEN [l EXCEPT !.shared = TRUE] ELSE Invalid

\* Core o is snooped: it gives the line to the initiator, or to memory.
Snoop(o) ==
  LET l     == line[o]
      read  == Request \in {"READ_SHARED", "READ_UNIQUE"}
      dirty == l.valid /\ l.dirty /\ Request # "READ_SHARED"
  IN /\ ccu.state = "SNOOP" /\ o \in ccu.todo /\ ac_ready(o)
     /\ AwPrompt => ~WbWaiting(o)
     /\ ccu' = [ccu EXCEPT !.todo = @ \ {o},
                           !.data = IF (l.valid /\ read) \/ dirty THEN l.data ELSE @,
                           !.dirty = @ \/ dirty,
                           !.shared = @ \/ l.valid]
     /\ line' = [line EXCEPT ![o] = IF l.valid THEN Snooped(l) ELSE l]
     /\ coll' = IF colliding_clean(o) THEN coll \cup {o} ELSE coll
     /\ Cycle /\ UNCHANGED <<mh, byp, awq, bus, bq, mem, res, linked, rd, stores>>

\* All have answered: dirty data of a copy invalidated for an atomic goes to memory
\* before it; a CleanUnique is answered first.
SnoopDone ==
  /\ ccu.state = "SNOOP" /\ ccu.todo = {}
  /\ IF ccu.dirty /\ Request \in Atomics
     THEN /\ ccu' = [ccu EXCEPT !.state = "WRITE_BACK"] /\ Push(CCU, "WB", ccu.data)
     ELSE /\ ccu' = [ccu EXCEPT !.state =
                       IF ccu.data # None \/ Request = "CLEAN_UNIQUE" THEN "RESP" ELSE "MEM"]
          /\ IF Request \in {"AMO", "SC"} THEN Push(CCU, Request, 0) ELSE UNCHANGED awq
  /\ Cycle /\ UNCHANGED <<line, mh, coll, byp, bus, bq, mem, res, linked, rd, stores>>

CcuWriteBackDone ==
  /\ ccu.state = "WRITE_BACK" /\ <<"WB", CCU>> \in bq
  /\ bq' = bq \ {<<"WB", CCU>>}
  /\ ccu' = [ccu EXCEPT !.state = "MEM", !.data = None, !.dirty = FALSE]
  /\ IF Request \in {"AMO", "SC"} THEN Push(CCU, Request, 0) ELSE UNCHANGED awq
  /\ Cycle /\ UNCHANGED <<line, mh, coll, byp, bus, mem, res, linked, rd, stores>>

\* The write-back of a CleanUnique, whose initiator went on long ago.
CleanWriteBackDone ==
  /\ ccu.state = "CLEAN_WB" /\ <<"WB", CCU>> \in bq
  /\ bq' = bq \ {<<"WB", CCU>>}
  /\ ccu' = Idle
  /\ Cycle /\ UNCHANGED <<line, mh, coll, byp, awq, bus, mem, res, linked, rd, stores>>

\* Memory answers: the write has been performed, or the line is read.  An LR gets
\* its reservation with the value it reads.
MemAnswer ==
  /\ ccu.state = "MEM"
  /\ IF Request \in {"AMO", "SC"}
     THEN <<Request, CCU>> \in bq /\ bq' = bq \ {<<Request, CCU>>}
     ELSE UNCHANGED bq
  /\ ccu' = [ccu EXCEPT !.state = "RESP",
                        !.data = IF Request \in {"AMO", "SC"} THEN None ELSE mem]
  /\ IF Request = "LR"
     THEN res' = res \cup {ccu.init} /\ linked' = linked \cup {ccu.init}
     ELSE UNCHANGED <<res, linked>>
  /\ Cycle /\ UNCHANGED <<line, mh, coll, byp, awq, bus, mem, rd, stores>>

\* The miss handler of core c is done, unless a snoop took the line of its CleanUnique
\* in the meantime: then a ReadUnique follows.
\* Slip: the CleanUnique is repeated, colliding_clean stays set.
MissDone_Again(c) ==
  /\ mh' = IF c \in coll THEN mh ELSE [mh EXCEPT ![c] = "IDLE"]
  /\ UNCHANGED coll
MissDone(c) ==
  /\ mh' = [mh EXCEPT ![c] = IF c \in coll THEN "READ_UNIQUE" ELSE "IDLE"]
  /\ coll' = coll \ {c}

\* The coherence unit has answered.  It still writes back what a CleanUnique found
\* dirty; from here on the copy of the initiator, if it kept it, is the newer one.
Released ==
  IF Request = "CLEAN_UNIQUE" /\ ccu.dirty
  THEN /\ Push(CCU, "WB", ccu.data)
       /\ ccu' = [ccu EXCEPT !.state = "CLEAN_WB",
                             !.data  = IF ccu.init \in coll THEN @ ELSE None,
                             !.dirty = ccu.init \in coll]
  ELSE ccu' = Idle /\ UNCHANGED awq

\* The initiator gets its answer.  A store that missed, or that was waiting for its
\* CleanUnique, is done with it.
Respond ==
  LET c == ccu.init
      Refill(s, d, v) == line' = [line EXCEPT ![c] =
                                    [valid |-> TRUE, shared |-> s, dirty |-> d, data |-> v]]
  IN /\ ccu.state = "RESP"
     /\ Released
     /\ \/ /\ Request = "READ_SHARED"
           /\ Refill(ccu.shared, FALSE, ccu.data)
           /\ rd' = ccu.data /\ UNCHANGED <<linked, stores>>
        \/ /\ Request = "READ_UNIQUE"
           /\ Refill(FALSE, TRUE, Merge(ccu.data))
           /\ CountStore /\ UNCHANGED rd
        \/ /\ Request = "CLEAN_UNIQUE" /\ c \notin coll
           /\ Refill(FALSE, TRUE, Merge(line[c].data))
           /\ CountStore /\ UNCHANGED rd
        \/ /\ Request = "CLEAN_UNIQUE" /\ c \in coll
           /\ UNCHANGED <<line, linked, rd, stores>>
        \/ /\ Request \in {"AMO", "SC"} /\ UNCHANGED <<line, linked, rd, stores>>
        \/ /\ Request = "LR" /\ rd' = ccu.data /\ UNCHANGED <<line, linked, stores>>
     /\ MissDone(c)
     /\ Cycle /\ UNCHANGED <<byp, bus, bq, mem, res>>

CoreStep(c) ==
  \/ LoadHit(c) \/ StoreHit(c) \/ Drop(c)
  \/ \E r \in Requests : Miss(c, r) \/ Atomic(c, r)
  \/ \E s \in WbStates : WriteBack(c, s)
  \/ WriteBackDone(c) \/ BypassWrite(c) \/ BypassDone(c)

CcuStep ==
  \/ \E c \in Cores : Accept(c) \/ Snoop(c)
  \/ SnoopDone \/ CcuWriteBackDone \/ CleanWriteBackDone \/ MemAnswer \/ Respond

Next ==
  \/ \E c \in Cores : CoreStep(c)
  \/ CcuStep
  \/ MemWrite \/ \E p \in Ports : AwGrant(p)

Spec == Init /\ [][Next]_vars

\* Memory takes and performs writes and answers, the caches take their B, a snoop
\* controller takes an AC when it can, and the coherence unit takes requests of every
\* core again and again (i_ace_mux is round robin).  Nothing is assumed about the
\* order in which i_axi_mux serves its ports.
Fairness ==
  /\ WF_vars(\E p \in Ports : AwGrant(p)) /\ WF_vars(MemWrite)
  /\ \A c \in Cores : WF_vars(WriteBackDone(c)) /\ WF_vars(BypassDone(c)) /\ SF_vars(Accept(c))
  /\ SF_vars(\E c \in Cores : Snoop(c))
  /\ WF_vars(SnoopDone \/ CcuWriteBackDone \/ CleanWriteBackDone \/ MemAnswer \/ Respond)

FairSpec == Spec /\ Fairness
-----------------------------------------------------------------------------
(***************************************************************************)
(* Properties.                                                             *)
(***************************************************************************)
Holders == {c \in Cores : line[c].valid}

\* At most one copy is dirty, and a copy not marked shared is the only one
\* (README of tb_std_cache_subsystem, check_cache_contents).
OneOwner ==
  \A c, d \in Holders : c # d =>
    /\ line[c].shared /\ line[c].data = line[d].data
    /\ ~(line[c].dirty /\ line[d].dirty)

\* A line that no cache holds dirty and that is not being written is the same in
\* memory and in the caches.
CleanMatchesMemory ==
  /\ \A c \in Holders : ~line[c].dirty
  /\ ccu.state = "IDLE" /\ bus = <<>> /\ \A p \in Ports : awq[p] = <<>>
  => \A c \in Holders : line[c].data = mem

\* A store conditional that succeeds follows an LR of its core with no store of any
\* core in between, although stores to cached lines do not reach the reservation
\* table: the copies they made are written back before the SC gets there.
ScAtomic ==
  bus # <<>> /\ bus[1][1].op = "SC" /\ ccu.init \in res => ccu.init \in linked

\* Every request, write-back and atomic of a core is completed, although flushes and
\* AMOs hold back the snoops of the others' requests and all writes meet in one mux.
Served == \A c \in Cores : mh[c] # "IDLE" ~> mh[c] = "IDLE"

\* The value of the line: that of a copy, or on its way through the coherence unit,
\* or memory.
Value ==
  IF Holders # {} THEN line[Least(Holders)].data
  ELSE IF ccu.data # None THEN ccu.data ELSE mem

\* The system implements a single copy of the line: loads, LRs and AMOs return, and
\* stores act on, the value stored last.
SingleCopy == INSTANCE CoherentLine WITH val <- Value
SingleCopySpec == SingleCopy!Spec
-----------------------------------------------------------------------------
(***************************************************************************)
(* The inductive invariant.                                                *)
(***************************************************************************)
\* A write of kind op of port p is at the mux, or has been taken by it.
Waiting(p, op) == \E i \in 1 .. Len(awq[p]) : awq[p][i].op = op
OnBus(p, op)   == \E i \in 1 .. Len(bus) : bus[i][1].op = op /\ bus[i][2] = p

\* Port p is waiting for the B of a write of kind op.
Expected(p, op) ==
  IF p = CCU THEN \/ op = "WB" /\ ccu.state \in {"WRITE_BACK", "CLEAN_WB"}
                  \/ op \in {"AMO", "SC"} /\ ccu.state = "MEM" /\ op = Request
  ELSE \/ op = "WB" /\ mh[p] \in WbStates
       \/ op = "OTHER" /\ p \in byp

\* A write is in one place at a time, and its port waits for it.
InvWrite(p, op) ==
  /\ Waiting(p, op) \/ OnBus(p, op) \/ <<op, p>> \in bq => Expected(p, op)
  /\ Waiting(p, op) => ~OnBus(p, op)
  /\ Waiting(p, op) \/ OnBus(p, op) => <<op, p>> \notin bq

InvOrder ==
  /\ \A p \in Ports : \A i, j \in 1 .. Len(awq[p]) : awq[p][i].op = awq[p][j].op => i = j
  /\ \A i, j \in 1 .. Len(bus) :
       bus[i][1].op = bus[j][1].op /\ bus[i][2] = bus[j][2] => i = j

\* What a miss handler knows about its line.
InvCore(c) ==
  /\ mh[c] \in {"READ_SHARED", "READ_UNIQUE"} \cup Atomics => ~line[c].valid
  /\ mh[c] = "CLEAN_UNIQUE" /\ c \notin coll => line[c].valid /\ line[c].shared
  /\ c \in coll => mh[c] = "CLEAN_UNIQUE" /\ ~line[c].valid
  /\ mh[c] \in WbStates /\ line[c].valid => line[c].dirty

\* The coherence unit holds the only up-to-date copy.
CcuOwns == ccu.dirty

\* The transaction in progress.
InvCcu ==
  /\ ccu.state = "IDLE" => ccu = Idle
  /\ ccu.state \notin {"IDLE", "CLEAN_WB"} => Request \in Requests /\ ccu.init \notin ccu.todo
  /\ ccu.state # "SNOOP" => ccu.todo = {}
  /\ CcuOwns => /\ Request # "READ_SHARED" /\ ccu.data # None
                /\ \A h \in Holders : ~line[h].dirty
  /\ ccu.state = "SNOOP" /\ ccu.data # None => Request \in {"READ_SHARED", "READ_UNIQUE"} \/ ccu.dirty
  /\ ccu.state = "WRITE_BACK" => ccu.dirty /\ Request \in Atomics
  /\ ccu.state = "MEM" => ccu.data = None /\ ~ccu.dirty /\ Request # "CLEAN_UNIQUE"
  /\ ccu.state = "RESP" =>
       (ccu.data # None <=> Request \in {"READ_SHARED", "READ_UNIQUE", "LR"} \/ ccu.dirty)
  /\ ccu.state = "RESP" /\ ccu.dirty => Request \in {"READ_UNIQUE", "CLEAN_UNIQUE"}
  /\ ccu.state = "CLEAN_WB" /\ ccu.data # None => ccu.dirty
  /\ ccu.state = "CLEAN_WB" /\ ccu.dirty => Request = "READ_UNIQUE"

\* What the snoops found, and left behind.
InvSnooped ==
  /\ ccu.data # None => \A h \in Holders : line[h].shared /\ line[h].data = ccu.data
  /\ ccu.state \notin {"IDLE", "CLEAN_WB"} =>
       \A o \in Holders \ (ccu.todo \cup {ccu.init}) :
         Request = "READ_SHARED" /\ ccu.shared /\ ccu.data # None

\* No copy is dirty and the coherence unit has none either.
Clean == ~CcuOwns /\ \A h \in Holders : ~line[h].dirty

\* Port p still has the copy it writes back: no snoop took it, and no CleanUnique was
\* answered with it.
Alive(p) == IF p = CCU THEN ccu.data # None ELSE line[p].valid

\* Memory has the value of the line: nothing is dirty, or what is has been written.
Settled == Clean \/ \E p \in Ports : Alive(p) /\ <<"WB", p>> \in bq

\* A reservation outlives a store in a cache only until memory has its value.
InvRes == Settled => res \subseteq linked

IndInv ==
  /\ TypeOK
  /\ \A p \in Ports : \A op \in Ops : InvWrite(p, op)
  /\ InvOrder
  /\ \A c \in Cores : InvCore(c)
  /\ InvCcu
  /\ InvSnooped
  /\ OneOwner
  /\ InvRes

\* With AwPrompt: where the value of the line is.  A write-back that waits at the mux
\* and, as long as there is the copy it comes from, the last one on the bus have it.
NoWbAfter(i) == \A j \in 1 .. Len(bus) : j > i => bus[j][1].op # "WB"

InvValueAt(p) ==
  /\ \A i \in 1 .. Len(awq[p]) : awq[p][i].op = "WB" =>
       IF Alive(p) THEN awq[p][i].data = Value ELSE p = CCU
  /\ \A i \in 1 .. Len(bus) : bus[i][1].op = "WB" /\ bus[i][2] = p /\ Alive(p) =>
       NoWbAfter(i) /\ bus[i][1].data = Value

\* A write-back that an answered CleanUnique left at the mux is older than a copy that
\* nobody writes back yet.
InvLate ==
  Waiting(CCU, "WB") /\ ~Alive(CCU) =>
    ~Clean /\ \A h \in Holders : mh[h] \notin WbStates

InvValue ==
  /\ InvLate
  /\ Settled => NoWbAfter(0) /\ mem = Value
  /\ \A p \in Ports : InvValueAt(p)
=============================================================================
