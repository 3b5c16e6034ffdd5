-------------------------- MODULE CcuTopRefinement --------------------------
(***************************************************************************)
(* AwPrompt: memory takes the AW of every write-back before the copy it    *)
(* comes from has a successor that could be written back too, that is,     *)
(* before a snoop gets to the evicting cache, and, for what a CleanUnique  *)
(* found dirty, before the new owner evicts.  Under this condition, which  *)
(* the code does not enforce (run ct_overtake), the whole system           *)
(* implements a single copy of the line, for one to seven cores.  The      *)
(* proof adds to IndInv where the value of the line is (InvValue).         *)
(***************************************************************************)
EXTENDS CcuTop_proofs

\* Where the value is, as far as IndInv tells.
ValueIs ==
  /\ \A h \in Cores : line[h].valid => Value = line[h].data
  /\ ccu.data # None => Value = ccu.data
  /\ (\A h \in Cores : ~line[h].valid) /\ ccu.data = None => Value = mem

\* Value is the data of any copy, else what the CCU carries, else memory.
LEMMA ValueFacts == IndInv => ValueIs
<1> SUFFICES ASSUME IndInv PROVE ValueIs
  OBVIOUS
<1>1. ASSUME NEW h \in Cores, line[h].valid PROVE Value = line[h].data
  <2>1. Holders \in SUBSET Ports /\ Holders # {} /\ h \in Holders
    BY <1>1, PortFacts DEF Holders
  <2>2. Least(Holders) \in Holders
    BY <2>1, LeastType
  <2>3. line[Least(Holders)].data = line[h].data
    <3> DEFINE l == Least(Holders)
    <3>1. l \in Cores /\ line[l].valid
      BY <2>2 DEF Holders
    <3> HIDE DEF l
    <3>2. line[l].data = line[h].data
      BY <1>1, <3>1, OwnerFacts
    <3> QED BY <3>2 DEF l
  <2> QED BY <2>1, <2>3 DEF Value
<1>2. ASSUME ccu.data # None PROVE Value = ccu.data
  <2>1. CASE Holders = {}
    BY <1>2, <2>1 DEF Value
  <2>2. CASE Holders # {}
    <3>1. PICK h \in Cores : line[h].valid
      BY <2>2 DEF Holders
    <3> QED BY <1>1, <1>2, <3>1, SnoopedFacts
  <2> QED BY <2>1, <2>2
<1>3. (\A h \in Cores : ~line[h].valid) /\ ccu.data = None => Value = mem
  BY DEF Value, Holders
<1> QED BY <1>1, <1>2, <1>3 DEF ValueIs

\* The same after a step.
LEMMA ValueFactsNext == IndInv' => ValueIs'
BY ValueFacts, PTL

\* Memory has the value of the line when there is no other place for it.
LEMMA MemoryHasValue ==
  ASSUME IndInv, InvValue, ccu.data = None, \A h \in Cores : line[h].valid => ~line[h].dirty
  PROVE  Settled /\ NoWbAfter(0) /\ mem = Value
<1>1. ~CcuOwns
  BY DEF IndInv, InvCcu
<1>2. Settled
  BY <1>1 DEF Settled, Clean, Holders
<1> QED BY <1>2 DEF InvValue

\* Value depends on the lines, the CCU's data and memory only.
LEMMA ValueSame ==
  ASSUME UNCHANGED <<line, mem>>, ccu'.data = ccu.data
  PROVE  Value' = Value
BY DEF Value, Holders, Least

\* The value after a copy has gone that was not dirty, or whose write-back is done.
LEMMA DropValue ==
  ASSUME IndInv, IndInv', InvValue, NEW c \in Cores, mem' = mem, ccu'.data = ccu.data,
         \A d \in Cores : d # c => line'[d] = line[d], ~line'[c].valid,
         line[c].valid /\ line[c].dirty => Settled
  PROVE  Value' = Value
<1>1. CASE \E d \in Cores : line'[d].valid
  <2>1. PICK d \in Cores : line'[d].valid
    BY <1>1
  <2>2. d # c /\ line'[d] = line[d]
    BY <2>1
  <2> QED BY <2>1, <2>2, ValueFacts, ValueFactsNext DEF ValueIs
<1>2. CASE ccu.data # None
  BY <1>2, ValueFacts, ValueFactsNext DEF ValueIs
<1>3. CASE ccu.data = None /\ ~\E d \in Cores : line'[d].valid
  <2>1. Value' = mem
    BY <1>3, ValueFactsNext DEF ValueIs
  <2>2. \A d \in Cores : line[d].valid => d = c
    BY <1>3
  <2>3. mem = Value
    <3>1. CASE line[c].valid /\ line[c].dirty
      BY <3>1 DEF InvValue
    <3>2. CASE ~(line[c].valid /\ line[c].dirty)
      BY <1>3, <2>2, <3>2, MemoryHasValue
    <3> QED BY <3>1, <3>2
  <2> QED BY <2>1, <2>3
<1> QED BY <1>1, <1>2, <1>3

\* The steps of the system that do not change the value of the line.
LEMMA ValueKept ==
  ASSUME IndInv, IndInv', InvValue,
         \/ \E c \in Cores :
              \/ LoadHit(c) \/ Drop(c) \/ WriteBackDone(c) \/ BypassWrite(c) \/ BypassDone(c)
              \/ \E r \in Requests : Miss(c, r) \/ Atomic(c, r)
              \/ \E s \in WbStates : WriteBack(c, s)
              \/ Accept(c) \/ Snoop(c)
         \/ SnoopDone \/ CcuWriteBackDone \/ CleanWriteBackDone \/ MemAnswer
         \/ \E p \in Ports : AwGrant(p)
         \/ Respond /\ (Request \in {"READ_SHARED"} \cup Atomics \/ ccu.init \in coll)
         \/ MemWrite /\ bus[1][1].op = "WB"
  PROVE  Value' = Value
<1>0. TypeOK /\ InvCcu
  BY DEF IndInv
<1>1. ASSUME NEW c \in Cores,
             \/ LoadHit(c) \/ BypassWrite(c) \/ BypassDone(c)
             \/ \E r \in Requests : Miss(c, r)
             \/ \E s \in WbStates : WriteBack(c, s)
      PROVE  Value' = Value
  <2>1. UNCHANGED <<line, ccu, mem>>
    BY <1>1 DEF LoadHit, BypassWrite, BypassDone, Miss, WriteBack
  <2> QED BY <2>1, ValueSame
<1>2. ASSUME NEW c \in Cores, Drop(c) \/ \E r \in Requests : Atomic(c, r) PROVE Value' = Value
  <2>1. UNCHANGED <<ccu, mem>> /\ ~line[c].dirty /\ line' = [line EXCEPT ![c] = Invalid]
    BY <1>2 DEF Drop, Atomic
  <2> QED BY <1>0, <2>1, DroppedLine, DropValue
<1>3. ASSUME NEW c \in Cores, WriteBackDone(c) PROVE Value' = Value
  <2>1. /\ UNCHANGED <<ccu, mem>> /\ <<"WB", c>> \in bq /\ line' = [line EXCEPT ![c] = Invalid]
    BY <1>3 DEF WriteBackDone
  <2>2. line[c].valid => Settled
    BY <2>1, PortFacts DEF Settled, Alive
  <2> QED BY <1>0, <2>1, <2>2, DroppedLine, DropValue
<1>4. ASSUME NEW c \in Cores, Accept(c) PROVE Value' = Value
  <2>1. UNCHANGED <<line, mem>> /\ ccu'.data = None /\ ccu.data = None
    BY <1>0, <1>4, IdleFacts DEF Accept, Idle, InvCcu
  <2> QED BY <2>1, ValueSame
<1>5. ASSUME NEW o \in Cores, Snoop(o) PROVE Value' = Value
  <2>0. mem' = mem /\ \A d \in Cores : d # o => line'[d] = line[d]
    BY <1>0, <1>5, SnoopedLine DEF Snoop
  <2>1. CASE ~line[o].valid
    <3>1. line'[o] = line[o] /\ ccu'.data = ccu.data
      BY <1>0, <1>5, <2>1, SnoopedLine, SnoopedCcu
    <3>2. line' = line
      BY <1>0, <1>5, <2>1, <3>1 DEF Snoop, TypeOK
    <3> QED BY <2>0, <3>1, <3>2, ValueSame
  <2>2. CASE line[o].valid /\ Request = "READ_SHARED"
    <3>1. line'[o].valid /\ line'[o].data = line[o].data
      BY <1>0, <1>5, <2>2, SnoopedLine
    <3> QED BY <2>2, <3>1, ValueFacts, ValueFactsNext DEF ValueIs
  <2>3. CASE line[o].valid /\ (Request = "READ_UNIQUE" \/ (Request # "READ_SHARED" /\ line[o].dirty))
    <3>1. ccu'.data = line[o].data /\ line[o].data # None
      BY <1>0, <1>5, <2>3, SnoopedCcu, LineFacts, DataType
    <3> QED BY <2>3, <3>1, ValueFacts, ValueFactsNext DEF ValueIs
  <2>4. CASE line[o].valid /\ Request \notin {"READ_SHARED", "READ_UNIQUE"} /\ ~line[o].dirty
    <3>1. ccu'.data = ccu.data /\ ~line'[o].valid
      BY <1>0, <1>5, <2>4, SnoopedLine, SnoopedCcu
    <3> QED BY <2>0, <2>4, <3>1, DropValue
  <2> QED BY <1>0, <2>1, <2>2, <2>3, <2>4, LineFacts
<1>6. CASE SnoopDone
  <2>1. UNCHANGED <<line, mem>> /\ ccu'.data = ccu.data
    BY <1>0, <1>6 DEF SnoopDone, TypeOK
  <2> QED BY <2>1, ValueSame
<1>7. CASE CcuWriteBackDone \/ CleanWriteBackDone
  <2>1. UNCHANGED <<line, mem>> /\ ccu'.data = None /\ <<"WB", CCU>> \in bq
    <3>1. CASE CcuWriteBackDone
      BY <1>0, <3>1 DEF CcuWriteBackDone, TypeOK
    <3>2. CASE CleanWriteBackDone
      BY <3>2 DEF CleanWriteBackDone, Idle
    <3> QED BY <1>7, <3>1, <3>2
  <2>0. CASE ccu.data = None
    BY <2>0, <2>1, ValueSame
  <2>a. ASSUME ccu.data # None PROVE mem = Value
    BY <2>a, <2>1, PortFacts DEF InvValue, Settled, Alive
  <2>3. CASE \E h \in Cores : line[h].valid
    BY <2>1, <2>3, ValueFacts, ValueFactsNext DEF ValueIs
  <2>4. CASE ccu.data # None /\ ~\E h \in Cores : line[h].valid
    BY <2>1, <2>a, <2>4, ValueFactsNext DEF ValueIs
  <2> QED BY <2>0, <2>3, <2>4
<1>8. CASE MemAnswer
  <2>1. UNCHANGED <<line, mem>> /\ Holders = {} /\ ccu.data = None /\ ccu'.data \in {None, mem}
    BY <1>0, <1>8, NoHolders DEF MemAnswer, TypeOK
  <2>2. \A h \in Cores : ~line[h].valid
    BY <2>1 DEF Holders
  <2> QED BY <2>1, <2>2, ValueFacts, ValueFactsNext DEF ValueIs
<1>9. CASE \E p \in Ports : AwGrant(p)
  <2>1. UNCHANGED <<line, ccu, mem>>
    BY <1>9 DEF AwGrant
  <2> QED BY <2>1, ValueSame
<1>10. CASE Respond /\ (Request \in {"READ_SHARED"} \cup Atomics \/ ccu.init \in coll)
  <2>0. /\ ccu.init \in Cores /\ InvCore(ccu.init) /\ ccu.state = "RESP" /\ mem' = mem
        /\ Request \in Requests /\ (~(Request = "CLEAN_UNIQUE" /\ ccu.dirty) => ccu' = Idle)
    BY <1>0, <1>10, CcuFacts, ReleasedFacts DEF IndInv, Respond, InvCcu
  <2>1. CASE Request = "READ_SHARED"
    <3>1. ccu.data # None
      BY <1>0, <2>0, <2>1 DEF InvCcu
    <3>2. line'[ccu.init].valid /\ line'[ccu.init].data = ccu.data
      BY <1>0, <1>10, <2>1, RespondLine
    <3> QED BY <2>0, <3>1, <3>2, ValueFacts, ValueFactsNext DEF ValueIs
  <2>2. CASE Request \in Atomics
    <3>1. line' = line
      BY <1>0, <1>10, <2>2, RespondLine
    <3>2. \A h \in Cores : ~line[h].valid
      BY <2>0, <2>2, RespondHolders, RequestCases DEF InvCore, Request
    <3>3. mem = Value
      <4>1. ~CcuOwns
        BY <1>0, <2>0, <2>2, RequestCases DEF CcuOwns, InvCcu
      <4>2. Settled
        BY <3>2, <4>1 DEF Settled, Clean, Holders
      <4> QED BY <4>2 DEF InvValue
    <3>4. ccu'.data = None
      BY <2>0, <2>2, RequestCases DEF Idle
    <3> QED BY <2>0, <3>1, <3>2, <3>3, <3>4, ValueFactsNext DEF ValueIs
  <2>3. CASE ccu.init \in coll
    <3>1. Request = "CLEAN_UNIQUE"
      BY <2>0, <2>3 DEF InvCore, Request
    <3>2. line' = line
      BY <1>0, <1>10, <2>3, <3>1, RespondLine
    <3>3. CASE ccu.dirty
      BY <1>10, <2>0, <2>3, <3>1, <3>2, <3>3, ReleasedFacts, ValueSame
    <3>4. CASE ~ccu.dirty
      <4>1. ccu.data = None /\ ccu'.data = None
        BY <1>0, <2>0, <3>1, <3>4 DEF InvCcu, Idle
      <4> QED BY <2>0, <3>2, <4>1, ValueSame
    <3> QED BY <3>3, <3>4
  <2> QED BY <1>10, <2>1, <2>2, <2>3
<1>11. CASE MemWrite /\ bus[1][1].op = "WB"
  <2>1. UNCHANGED <<line, ccu>>
    BY <1>11 DEF MemWrite
  <2>2. ~NoWbAfter(0)
    <3>1. Len(bus) \in Nat \ {0}
      BY <1>0, <1>11, MemQueue
    <3> QED BY <1>11, <3>1 DEF NoWbAfter
  <2>3. (\E h \in Cores : line[h].valid) \/ ccu.data # None
    BY <2>2, MemoryHasValue
  <2> QED BY <2>1, <2>3, ValueFacts, ValueFactsNext DEF ValueIs
<1> QED BY <1>1, <1>2, <1>3, <1>4, <1>5, <1>6, <1>7, <1>8, <1>9, <1>10, <1>11

\* A port that waits for a write-back, and still has the copy, is the only owner.
LEMMA WbOwner ==
  ASSUME IndInv, NEW p \in Ports, Expected(p, "WB"), Alive(p)
  PROVE  /\ ~Clean
         /\ \A q \in Ports : Expected(q, "WB") /\ Alive(q) => q = p
<1> USE PortFacts, PortCases
<1>1. ASSUME NEW q \in Ports, q # CCU, Expected(q, "WB"), Alive(q)
      PROVE  q \in Cores /\ line[q].valid /\ line[q].dirty
  BY <1>1 DEF Expected, Alive, IndInv, InvCore
<1>2. Expected(CCU, "WB") /\ Alive(CCU) => CcuOwns
  BY DEF Expected, Alive, IndInv, InvCcu, CcuOwns
<1>3. ~Clean
  BY <1>1, <1>2 DEF Clean, Holders
<1>4. ASSUME NEW q \in Ports, Expected(q, "WB"), Alive(q), q # p PROVE FALSE
  <2>1. CASE p = CCU
    BY <1>1, <1>2, <1>4, <2>1, SnoopedFacts
  <2>2. CASE q = CCU
    BY <1>1, <1>2, <1>4, <2>2, SnoopedFacts
  <2>3. CASE p # CCU /\ q # CCU
    BY <1>1, <1>4, <2>3, OwnerFacts
  <2> QED BY <2>1, <2>2, <2>3
<1> QED BY <1>3, <1>4

\* A port that waits for no write-back has none on the way.
LEMMA IdleAt ==
  ASSUME NEW p \in Ports
  PROVE  IndInv /\ ~Expected(p, "WB") => InvValueAt(p)
<1> SUFFICES ASSUME IndInv, ~Expected(p, "WB") PROVE InvValueAt(p)
  OBVIOUS
<1>1. ~Waiting(p, "WB") /\ ~OnBus(p, "WB")
  BY WriteFacts DEF InvWrite, Ops
<1> QED BY <1>1 DEF InvValueAt, Waiting, OnBus

\* The same after a step.
LEMMA IdleAtNext ==
  ASSUME NEW p \in Ports
  PROVE  IndInv' /\ ~Expected(p, "WB")' => InvValueAt(p)'
BY IdleAt, PTL

\* A step that leaves the write-back of p where it is keeps InvValueAt.
LEMMA AtKept ==
  ASSUME NEW p \in Ports, InvValueAt(p), bus' = bus, awq'[p] = awq[p],
         Alive(p)' => Alive(p) /\ Value' = Value, Waiting(p, "WB") => Alive(p)' \/ p = CCU
  PROVE  InvValueAt(p)'
<1>1. \A i : NoWbAfter(i)' <=> NoWbAfter(i)
  BY DEF NoWbAfter
<1>2. ASSUME NEW i \in 1 .. Len(awq'[p]), awq'[p][i].op = "WB"
      PROVE  IF Alive(p)' THEN awq'[p][i].data = Value' ELSE p = CCU
  <2>1. Waiting(p, "WB")
    BY <1>2 DEF Waiting
  <2>2. CASE Alive(p)'
    BY <1>2, <2>2 DEF InvValueAt
  <2>3. CASE ~Alive(p)'
    BY <2>1, <2>3
  <2> QED BY <2>2, <2>3
<1>3. \A i \in 1 .. Len(bus') : bus'[i][1].op = "WB" /\ bus'[i][2] = p /\ Alive(p)' =>
        NoWbAfter(i)' /\ bus'[i][1].data = Value'
  BY <1>1 DEF InvValueAt
<1> QED BY <1>2, <1>3 DEF InvValueAt

\* A write-back starts with the value of the line.
LEMMA AtPushed ==
  ASSUME TypeOK, NEW p \in Ports, InvValueAt(p), bus' = bus,
         NEW op \in Ops, NEW d \in Data, Push(p, op, d), op = "WB" => IF Alive(p)' THEN d = Value' ELSE p = CCU,
         ~Waiting(p, "WB") \/ (Alive(p)' <=> Alive(p)),
         Alive(p)' => Alive(p) /\ Value' = Value
  PROVE  InvValueAt(p)'
<1>1. \A i : NoWbAfter(i)' <=> NoWbAfter(i)
  BY DEF NoWbAfter
<1>2. ASSUME NEW i \in 1 .. Len(awq'[p]), awq'[p][i].op = "WB"
      PROVE  IF Alive(p)' THEN awq'[p][i].data = Value' ELSE p = CCU
  <2>1. Len(awq[p]) \in Nat /\ (i \in 1 .. Len(awq[p]) \/ i = Len(awq[p]) + 1)
    BY PushQueue
  <2>2. CASE i = Len(awq[p]) + 1
    BY <1>2, <2>2, PushQueue
  <2>3. CASE i \in 1 .. Len(awq[p])
    <3>1. awq'[p][i] = awq[p][i]
      BY <2>3, PushQueue
    <3>2. Waiting(p, "WB")
      BY <1>2, <2>3, <3>1 DEF Waiting
    <3> QED BY <1>2, <2>3, <3>1, <3>2 DEF InvValueAt
  <2> QED BY <2>1, <2>2, <2>3
<1>3. \A i \in 1 .. Len(bus') : bus'[i][1].op = "WB" /\ bus'[i][2] = p /\ Alive(p)' =>
        NoWbAfter(i)' /\ bus'[i][1].data = Value'
  BY <1>1 DEF InvValueAt
<1> QED BY <1>2, <1>3 DEF InvValueAt

\* A write-back that waits for its AW still has its line behind it, or is the CCU's for
\* a CleanUnique.
LEMMA WaitingAlive ==
  ASSUME NEW p \in Ports, InvValueAt(p), Waiting(p, "WB")
  PROVE  Alive(p) \/ p = CCU
BY DEF InvValueAt, Waiting

\* While a superseded write-back of the CCU waits, no port that still has its copy waits
\* for another one, and memory does not have the value.
LEMMA LateAlone ==
  ASSUME IndInv, InvValue, Waiting(CCU, "WB"), ~Alive(CCU)
  PROVE  ~Settled /\ \A p \in Ports : Expected(p, "WB") => ~Alive(p)
<1>1. InvLate
  BY DEF InvValue
<1>2. ASSUME NEW p \in Ports, Expected(p, "WB"), Alive(p) PROVE FALSE
  <2>1. CASE p = CCU
    BY <1>2, <2>1
  <2>2. CASE p # CCU
    BY <1>1, <1>2, <2>2, PortCases DEF InvLate, Expected, Alive, Holders
  <2> QED BY <2>1, <2>2
<1>3. \A p \in Ports : <<"WB", p>> \in bq => Expected(p, "WB")
  BY WriteFacts DEF InvWrite, Ops
<1> QED BY <1>1, <1>2, <1>3 DEF InvLate, Settled

\* The state of the memory while an atomic is on the bus: there is no copy.
LEMMA AtomicAlone ==
  ASSUME IndInv, MemWrite, bus[1][1].op \in {"AMO", "SC"}
  PROVE  /\ ccu.state = "MEM" /\ ccu.data = None /\ Settled
         /\ \A h \in Cores : ~line[h].valid
<1>1. bus[1][2] \in Ports /\ OnBus(bus[1][2], bus[1][1].op)
  BY MemQueue, MemOnBus, PortFacts DEF IndInv, InvOrder, BusOrder, Ops
<1>2. Expected(bus[1][2], bus[1][1].op)
  BY <1>1, WriteFacts DEF InvWrite, Ops
<1>3. ccu.state = "MEM"
  BY <1>2 DEF Expected
<1> QED BY <1>3, NoHolders DEF Settled, Clean, Holders

\* A granted write-back is the last one on the bus.
LEMMA AtGrant ==
  ASSUME IndInv, IndInv', InvValue, NEW q \in Ports, AwGrant(q), NEW p \in Ports
  PROVE  InvValueAt(p)'
<1> DEFINE w == awq[q][1]
<1>0. TypeOK /\ AwqOrder /\ InvValueAt(p) /\ InvValueAt(q)
  BY DEF IndInv, InvOrder, AwqOrder, InvValue
<1>1. Value' = Value /\ (Alive(p)' <=> Alive(p))
  BY ValueKept DEF AwGrant, Alive
<1>2. Len(awq[q]) \in Nat \ {0} /\ w.op \in Ops /\ Waiting(q, w.op)
  BY <1>0, GrantQueue, GrantWaiting
<1>3. ASSUME NEW i \in 1 .. Len(awq'[p]), awq'[p][i].op = "WB"
      PROVE  IF Alive(p)' THEN awq'[p][i].data = Value' ELSE p = CCU
  <2>1. \E j \in 1 .. Len(awq[p]) : awq'[p][i] = awq[p][j]
    <3>1. CASE p # q
      BY <1>0, <3>1, GrantQueue
    <3>2. CASE p = q
      <4>1. i + 1 \in 1 .. Len(awq[p]) /\ awq'[p][i] = awq[p][i + 1]
        BY <1>0, <3>2, GrantQueue
      <4> QED BY <4>1
    <3> QED BY <3>1, <3>2
  <2> QED BY <1>0, <1>1, <1>3, <2>1 DEF InvValueAt
<1>4. ASSUME w.op = "WB" PROVE Expected(q, "WB") /\ (Alive(q) \/ q = CCU)
  BY <1>0, <1>2, <1>4, WriteFacts, WaitingAlive DEF InvWrite
<1>5. ASSUME NEW i \in 1 .. Len(bus'), bus'[i][1].op = "WB", bus'[i][2] = p, Alive(p)'
      PROVE  NoWbAfter(i)' /\ bus'[i][1].data = Value'
  <2>1. Len(bus) \in Nat /\ Len(bus') = Len(bus) + 1
    BY <1>0, GrantQueue
  <2>2. bus'[Len(bus) + 1][1] = w /\ bus'[Len(bus) + 1][2] = q
    BY <1>0, GrantQueue
  <2>3. \A j \in 1 .. Len(bus) : bus'[j] = bus[j]
    BY <1>0, GrantQueue
  <2>4. CASE i = Len(bus) + 1
    <3>1. NoWbAfter(i)'
      BY <2>1, <2>4 DEF NoWbAfter
    <3>2. w.data = Value /\ w.op = "WB"
      BY <1>0, <1>1, <1>2, <1>5, <2>2, <2>4 DEF InvValueAt
    <3> QED BY <1>1, <2>2, <2>4, <3>1, <3>2
  <2>5. CASE i \in 1 .. Len(bus)
    <3>1. OnBus(p, "WB") /\ bus[i] = bus'[i]
      BY <1>5, <2>3, <2>5 DEF OnBus
    <3>2. w.op # "WB"
      <4> SUFFICES ASSUME w.op = "WB" PROVE FALSE
        OBVIOUS
      <4>1. Expected(p, "WB") /\ Alive(p)
        BY <1>1, <1>5, <3>1, WriteFacts DEF InvWrite, Ops
      <4>2. p = q
        BY <1>2, <1>4, <4>1, WbOwner, LateAlone
      <4> QED BY <1>2, <3>1, <4>2, WriteFacts DEF InvWrite
    <3>3. NoWbAfter(i) /\ bus[i][1].data = Value
      BY <1>0, <1>1, <1>5, <2>5, <3>1 DEF InvValueAt
    <3>4. NoWbAfter(i)'
      BY <2>1, <2>2, <2>3, <3>2, <3>3 DEF NoWbAfter
    <3> QED BY <1>1, <3>1, <3>3, <3>4
  <2> QED BY <2>1, <2>4, <2>5
<1> QED BY <1>3, <1>5 DEF InvValueAt

\* A write is performed: the rest of the bus moves up.
LEMMA NoWbMoves ==
  ASSUME TypeOK, MemWrite, NEW i \in Nat, NoWbAfter(i + 1)
  PROVE  NoWbAfter(i)'
<1> SUFFICES ASSUME NEW j \in 1 .. Len(bus'), j > i PROVE bus'[j][1].op # "WB"
  BY DEF NoWbAfter
<1>1. j + 1 \in 1 .. Len(bus) /\ bus'[j] = bus[j + 1] /\ j + 1 > i + 1
  BY MemQueue
<1> QED BY <1>1 DEF NoWbAfter

\* Fewer writes to look at.
LEMMA NoWbLess ==
  ASSUME NEW i \in Nat, NEW j \in Nat, i <= j, NoWbAfter(i)
  PROVE  NoWbAfter(j)
<1> SUFFICES ASSUME NEW k \in 1 .. Len(bus), k > j PROVE bus[k][1].op # "WB"
  BY DEF NoWbAfter
<1>1. k > i
  OBVIOUS
<1> QED BY <1>1 DEF NoWbAfter

\* Memory's writes: a write-back changes memory and not the value; an atomic finds the
\* value in memory and changes both.
LEMMA MemValue ==
  ASSUME IndInv, IndInv', InvValue, MemWrite
  PROVE  /\ bus[1][1].op \notin {"AMO", "SC"} => Value' = Value
         /\ bus[1][1].op \in {"AMO", "SC"} => Value = mem /\ Value' = mem'
<1>1. bus[1][1].op \in Ops /\ UNCHANGED <<line, ccu>>
  BY MemQueue DEF MemWrite, IndInv
<1>2. CASE bus[1][1].op = "WB"
  BY <1>2, ValueKept
<1>3. CASE bus[1][1].op = "OTHER"
  <2>1. mem' = mem
    BY <1>3 DEF MemWrite
  <2> QED BY <1>1, <1>3, <2>1, ValueSame
<1>4. CASE bus[1][1].op \in {"AMO", "SC"}
  BY <1>1, <1>4, AtomicAlone, ValueFacts, ValueFactsNext DEF ValueIs
<1> QED BY <1>1, <1>2, <1>3, <1>4 DEF Ops

\* The write-backs that stay on the bus keep their relation to the value.
LEMMA AtMemWrite ==
  ASSUME IndInv, IndInv', InvValue, MemWrite, NEW p \in Ports
  PROVE  InvValueAt(p)'
<1>0. TypeOK /\ InvValueAt(p)
  BY DEF IndInv, InvValue
<1>1. UNCHANGED <<line, ccu, mh, awq>>
  BY DEF MemWrite
<1>2. CASE ~Alive(p) \/ ~Expected(p, "WB")
  <2>1. ~Expected(p, "WB") => InvValueAt(p)'
    <3>1. Expected(p, "WB")' <=> Expected(p, "WB")
      BY <1>1 DEF Expected, Request
    <3> QED BY <3>1, IdleAtNext
  <2>2. ~Alive(p) => InvValueAt(p)'
    BY <1>0, <1>1 DEF InvValueAt, Alive
  <2> QED BY <1>2, <2>1, <2>2
<1>3. CASE Alive(p) /\ Expected(p, "WB")
  <2>1. bus[1][1].op \notin {"AMO", "SC"}
    BY <1>3, AtomicAlone, PortCases DEF Alive, Expected
  <2>2. Value' = Value /\ (Alive(p)' <=> Alive(p))
    BY <1>1, <2>1, MemValue DEF Alive
  <2>3. ASSUME NEW i \in 1 .. Len(bus'), bus'[i][1].op = "WB", bus'[i][2] = p
        PROVE  NoWbAfter(i)' /\ bus'[i][1].data = Value'
    <3>1. i + 1 \in 1 .. Len(bus) /\ bus'[i] = bus[i + 1]
      BY <1>0, MemQueue
    <3>2. NoWbAfter(i + 1) /\ bus[i + 1][1].data = Value
      BY <1>0, <1>3, <2>3, <3>1 DEF InvValueAt
    <3> QED BY <1>0, <2>2, <3>1, <3>2, NoWbMoves
  <2> QED BY <1>0, <1>1, <2>2, <2>3 DEF InvValueAt
<1> QED BY <1>2, <1>3

\* Every step keeps InvValueAt.  AwPrompt is used for snoops: the line of a write-back
\* that waits for its AW is not taken away.
LEMMA AtStep ==
  ASSUME AwPrompt, IndInv, IndInv', InvValue, Next, NEW p \in Ports
  PROVE  InvValueAt(p)'
<1> USE PortFacts
<1>0. TypeOK /\ InvCcu /\ InvValueAt(p) /\ ccu.init \in Cores
  BY CcuFacts DEF IndInv, InvValue
<1>a. Waiting(p, "WB") => Alive(p) \/ p = CCU
  BY <1>0, WaitingAlive
<1>b. p = CCU /\ ccu'.state \notin {"WRITE_BACK", "CLEAN_WB"} => InvValueAt(p)'
  BY IdleAtNext DEF Expected
<1>c. p \in Cores /\ mh'[p] \notin WbStates => InvValueAt(p)'
  BY IdleAtNext DEF Expected
<1>d. ASSUME UNCHANGED <<awq, bus>>, Value' = Value,
             IF p = CCU THEN ccu'.data = ccu.data ELSE line'[p].valid = line[p].valid
      PROVE  InvValueAt(p)'
  BY <1>0, <1>a, <1>d, AtKept DEF Alive
<1>1. ASSUME NEW c \in Cores,
             LoadHit(c) \/ BypassDone(c) \/ (\E r \in Requests : Miss(c, r)) \/ Accept(c)
      PROVE  InvValueAt(p)'
  <2>1. UNCHANGED <<awq, bus, line>> /\ ccu'.data = ccu.data
    <3>1. CASE Accept(c)
      BY <1>0, <3>1, IdleFacts DEF Accept, Idle, InvCcu
    <3>2. CASE ~Accept(c)
      BY <1>1, <3>2 DEF LoadHit, BypassDone, Miss
    <3> QED BY <3>1, <3>2
  <2>2. Value' = Value
    BY <1>1, ValueKept
  <2> QED BY <1>d, <2>1, <2>2
<1>2. ASSUME NEW c \in Cores, StoreHit(c) PROVE InvValueAt(p)'
  <2>1. UNCHANGED <<awq, bus, mh, ccu>> /\ mh[c] = "IDLE"
    BY <1>2 DEF StoreHit
  <2>2. CASE p = CCU
    <3>1. ccu.data = None
      BY <1>0, <1>2, StoreHitLine, SnoopedFacts
    <3>2. ~Alive(p)'
      BY <2>1, <2>2, <3>1 DEF Alive
    <3> QED BY <1>0, <2>1, <2>2, <3>2, AtKept
  <2>3. CASE p = c
    BY <1>c, <2>1, <2>3, AtomicStates
  <2>4. CASE p \in Cores /\ p # c
    <3>1. ~line'[p].valid /\ ~line[p].valid
      BY <1>2, <2>4, StoreUnsettled
    <3>2. ~Waiting(p, "WB") /\ ~Alive(p)'
      BY <1>a, <2>4, <3>1, PortFacts DEF Alive
    <3> QED BY <2>1, <3>2 DEF InvValueAt, Waiting
  <2> QED BY <2>2, <2>3, <2>4, PortCases
<1>3. ASSUME NEW c \in Cores, Drop(c) \/ WriteBackDone(c) \/ \E r \in Requests : Atomic(c, r)
      PROVE  InvValueAt(p)'
  <2>1. UNCHANGED <<awq, bus, ccu>> /\ line' = [line EXCEPT ![c] = Invalid]
    BY <1>3 DEF Drop, WriteBackDone, Atomic
  <2>2. Value' = Value
    BY <1>3, ValueKept
  <2>3. mh'[c] \notin WbStates
    <3>1. CASE WriteBackDone(c)
      BY <3>1, WbDoneMh, AtomicStates, RequestCases
    <3>2. CASE Drop(c)
      BY <3>2, AtomicStates DEF Drop
    <3>3. ASSUME NEW r \in Requests, Atomic(c, r) PROVE mh'[c] \notin WbStates
      <4>1. mh'[c] = r
        BY <1>0, <3>3 DEF Atomic, TypeOK
      <4> QED BY <4>1, AtomicStates
    <3> QED BY <1>3, <3>1, <3>2, <3>3
  <2>4. CASE p = c
    BY <1>c, <2>3, <2>4
  <2>5. CASE p # c
    <3>1. p = CCU \/ line'[p] = line[p]
      BY <1>0, <2>1, <2>5, DroppedLine, PortCases
    <3> QED BY <1>d, <2>1, <2>2, <3>1
  <2> QED BY <2>4, <2>5
<1>4. ASSUME NEW c \in Cores, NEW s \in WbStates, WriteBack(c, s) PROVE InvValueAt(p)'
  <2>1. UNCHANGED <<bus, line, ccu>> /\ line[c].valid /\ Push(c, "WB", line[c].data)
    BY <1>4 DEF WriteBack
  <2>2. Value' = Value /\ Value = line[c].data /\ line[c].data \in Data
    BY <1>0, <1>4, <2>1, ValueKept, ValueFacts, LineFacts DEF ValueIs
  <2>3. Alive(p)' <=> Alive(p)
    BY <2>1 DEF Alive
  <2>4. CASE p = c
    BY <1>0, <2>1, <2>2, <2>3, <2>4, AtPushed DEF Alive, Ops
  <2>5. CASE p # c
    <3>1. awq'[p] = awq[p]
      BY <1>0, <2>1, <2>2, <2>5, PushQueue DEF Ops
    <3> QED BY <1>0, <1>a, <2>1, <2>2, <2>3, <3>1, AtKept
  <2> QED BY <2>4, <2>5
<1>5. ASSUME NEW c \in Cores, BypassWrite(c) PROVE InvValueAt(p)'
  <2>1. UNCHANGED <<bus, line, ccu>> /\ Push(c, "OTHER", 0)
    BY <1>5 DEF BypassWrite
  <2>2. Value' = Value
    BY <1>5, ValueKept
  <2>3. Alive(p)' <=> Alive(p)
    BY <2>1 DEF Alive
  <2>4. CASE p = c
    BY <1>0, <2>1, <2>2, <2>3, <2>4, AtPushed, DataType DEF Ops
  <2>5. CASE p # c
    <3>1. awq'[p] = awq[p]
      BY <1>0, <2>1, <2>5, PushQueue, DataType DEF Ops
    <3> QED BY <1>0, <1>a, <2>1, <2>2, <2>3, <3>1, AtKept
  <2> QED BY <2>4, <2>5
<1>6. ASSUME NEW o \in Cores, Snoop(o) PROVE InvValueAt(p)'
  <2>1. UNCHANGED <<awq, bus>> /\ ccu'.state = "SNOOP" /\ ~WbWaiting(o)
    BY <1>0, <1>6, SnoopedCcu DEF Snoop
  <2>2. Value' = Value
    BY <1>6, ValueKept
  <2>3. CASE p = CCU
    BY <1>b, <2>1, <2>3
  <2>4. CASE p = o
    <3>1. ~Waiting(o, "WB")
      <4>1. awq[o] \in Seq(Writes)
        BY <1>0 DEF TypeOK
      <4>2. DOMAIN awq[o] = 1 .. Len(awq[o])
        BY <4>1
      <4> QED BY <2>1, <4>2 DEF Waiting, WbWaiting
    <3>2. line'[o].valid => line[o].valid
      BY <1>0, <1>6, SnoopedLine
    <3>3. Alive(p)' => Alive(p)
      BY <2>4, <3>2 DEF Alive
    <3> QED BY <1>0, <2>1, <2>2, <2>4, <3>1, <3>3, AtKept
  <2>5. CASE p \in Cores /\ p # o
    <3>1. line'[p] = line[p]
      BY <1>0, <1>6, <2>5, SnoopedLine
    <3> QED BY <1>d, <2>1, <2>2, <2>5, <3>1
  <2> QED BY <2>3, <2>4, <2>5, PortCases
<1>7. CASE SnoopDone
  <2>1. UNCHANGED <<bus, line>> /\ ccu.state = "SNOOP" /\ ccu'.data = ccu.data
    BY <1>0, <1>7 DEF SnoopDone, TypeOK
  <2>2. Value' = Value
    BY <1>7, ValueKept
  <2>3. Alive(p)' <=> Alive(p)
    BY <2>1 DEF Alive
  <2>4. CASE p # CCU
    <3>1. ccu.dirty => ccu.data \in Data
      BY <1>0, <2>1, CcuFacts DEF InvCcu, CcuOwns
    <3>2. \/ UNCHANGED awq
          \/ ccu.dirty /\ Push(CCU, "WB", ccu.data)
          \/ Push(CCU, "AMO", 0)
          \/ Push(CCU, "SC", 0)
      BY <1>7 DEF SnoopDone
    <3>3. awq'[p] = awq[p]
      BY <1>0, <2>4, <3>1, <3>2, PushQueue, DataType DEF Ops
    <3> QED BY <1>0, <1>a, <2>1, <2>2, <2>3, <3>3, AtKept
  <2>5. CASE p = CCU /\ ccu.dirty /\ Request \in Atomics
    <3>1. Push(CCU, "WB", ccu.data)
      BY <1>7, <2>5 DEF SnoopDone
    <3>2. ccu.data \in Data /\ Value = ccu.data
      BY <1>0, <2>1, <2>5, CcuFacts, ValueFacts DEF InvCcu, CcuOwns, ValueIs
    <3> QED BY <1>0, <2>1, <2>2, <2>3, <2>5, <3>1, <3>2, AtPushed DEF Alive, Ops
  <2>6. CASE p = CCU /\ ~(ccu.dirty /\ Request \in Atomics)
    <3>1. ccu'.state \notin {"WRITE_BACK", "CLEAN_WB"}
      BY <1>0, <1>7, <2>6 DEF SnoopDone, TypeOK
    <3> QED BY <1>b, <2>6, <3>1
  <2> QED BY <2>4, <2>5, <2>6
<1>8. CASE CcuWriteBackDone \/ CleanWriteBackDone
  <2>1. UNCHANGED <<bus, line>> /\ ccu'.state \notin {"WRITE_BACK", "CLEAN_WB"}
    <3>1. CASE CcuWriteBackDone
      BY <1>0, <3>1 DEF CcuWriteBackDone, TypeOK
    <3>2. CASE CleanWriteBackDone
      BY <3>2 DEF CleanWriteBackDone, Idle
    <3> QED BY <1>8, <3>1, <3>2
  <2>2. Value' = Value
    BY <1>8, ValueKept
  <2>3. CASE p # CCU
    <3>1. UNCHANGED awq \/ Push(CCU, "AMO", 0) \/ Push(CCU, "SC", 0)
      BY <1>8 DEF CcuWriteBackDone, CleanWriteBackDone
    <3>2. awq'[p] = awq[p]
      BY <1>0, <2>3, <3>1, PushQueue, DataType DEF Ops
    <3>3. Alive(p)' <=> Alive(p)
      BY <2>1, <2>3 DEF Alive
    <3> QED BY <1>0, <1>a, <2>1, <2>2, <3>2, <3>3, AtKept
  <2> QED BY <1>b, <2>1, <2>3
<1>9. CASE MemAnswer
  <2>1. UNCHANGED <<awq, bus, line>> /\ ccu'.state = "RESP"
    BY <1>0, <1>9 DEF MemAnswer, TypeOK
  <2>2. CASE p = CCU
    BY <1>b, <2>1, <2>2
  <2>3. CASE p # CCU
    BY <1>9, <1>d, <2>1, <2>3, ValueKept
  <2> QED BY <2>2, <2>3
<1>10. CASE Respond
  <2>1. bus' = bus /\ mh'[ccu.init] \in {"READ_UNIQUE", "IDLE"}
    BY <1>0, <1>10 DEF Respond, MissDone, TypeOK
  <2>2. Request \in Requests
    BY <1>0, <1>10 DEF Respond, InvCcu
  <2>a. ASSUME p \in Cores PROVE awq'[p] = awq[p]
    <3>1. CASE awq' = awq
      BY <3>1
    <3>2. CASE Push(CCU, "WB", ccu.data) /\ ccu.data \in Data
      BY <1>0, <2>a, <3>2, PushQueue DEF Ops
    <3> QED BY <1>10, <3>1, <3>2, ReleasedFacts
  <2>3. CASE p = CCU
    <3>1. CASE ccu'.state = "IDLE"
      BY <1>b, <2>3, <3>1
    <3>2. CASE ccu'.state # "IDLE"
      <4>1. /\ Push(CCU, "WB", ccu.data) /\ ccu.data \in Data /\ Request = "CLEAN_UNIQUE"
            /\ (ccu.init \in coll /\ ccu'.data = ccu.data) \/ ccu'.data = None
        BY <1>10, <3>2, ReleasedFacts
      <4>2. ~Waiting(CCU, "WB")
        BY <1>10, WriteFacts DEF InvWrite, Expected, Ops, Respond
      <4>3. Alive(CCU)' => Alive(CCU) /\ Value' = Value /\ ccu.data = Value'
        <5> SUFFICES ASSUME ccu'.data # None
                     PROVE  ccu.data # None /\ Value' = Value /\ ccu.data = Value'
          BY DEF Alive
        <5>1. ccu.init \in coll /\ ccu'.data = ccu.data
          BY <4>1
        <5> QED BY <1>10, <5>1, ValueKept, ValueFacts DEF ValueIs
      <4> QED BY <1>0, <2>1, <2>3, <4>1, <4>2, <4>3, AtPushed DEF Ops
    <3> QED BY <3>1, <3>2
  <2>4. CASE p = ccu.init
    BY <1>0, <1>c, <2>1, <2>4, AtomicStates, RequestCases
  <2>5. CASE p \in Cores /\ p # ccu.init
    <3>1. line'[p] = line[p]
      BY <1>0, <1>10, <2>5, RespondLine
    <3>2. CASE Request \in {"READ_SHARED"} \cup Atomics \/ ccu.init \in coll
      <4>1. Value' = Value
        BY <1>10, <3>2, ValueKept
      <4> QED BY <1>0, <1>a, <2>1, <2>a, <2>5, <3>1, <4>1, AtKept DEF Alive
    <3>3. CASE Request = "READ_UNIQUE" \/ (Request = "CLEAN_UNIQUE" /\ ccu.init \notin coll)
      <4>1. ~line'[p].valid /\ ~line[p].valid
        BY <1>0, <1>10, <2>5, <3>3, StoreUnsettled
      <4>2. ~Waiting(p, "WB") /\ ~Alive(p)'
        BY <1>a, <2>5, <4>1 DEF Alive
      <4> QED BY <1>0, <2>1, <2>a, <2>5, <4>2, AtKept
    <3> QED BY <2>2, <3>2, <3>3, RequestCases
  <2> QED BY <2>3, <2>4, <2>5, PortCases
<1>11. CASE MemWrite
  BY <1>11, AtMemWrite
<1>12. ASSUME NEW q \in Ports, AwGrant(q) PROVE InvValueAt(p)'
  BY <1>12, AtGrant
<1> QED BY <1>1, <1>2, <1>3, <1>4, <1>5, <1>6, <1>7, <1>8, <1>9, <1>10, <1>11, <1>12
        DEF Next, CoreStep, CcuStep

\* Memory has the value whenever the line is settled.
LEMMA SettledStep ==
  ASSUME IndInv, IndInv', InvValue, Next, Settled'
  PROVE  NoWbAfter(0)' /\ mem' = Value'
<1> USE PortFacts
<1>0. TypeOK
  BY DEF IndInv
<1>a. ASSUME UNCHANGED <<bus, mem>>, Value' = Value, ~MemWrite PROVE NoWbAfter(0)' /\ mem' = Value'
  <2>1. Settled
    BY <1>a, SettledBefore
  <2> QED BY <1>a, <2>1 DEF InvValue, NoWbAfter
<1>1. CASE MemWrite
  <2>0. UNCHANGED <<line, mh, ccu>> /\ bq' = bq \cup {<<bus[1][1].op, bus[1][2]>>}
    BY <1>1 DEF MemWrite
  <2>1. CASE bus[1][1].op = "WB"
    <3>1. 1 \in 1 .. Len(bus) /\ 1 > 0
      BY <1>0, <1>1, MemQueue
    <3>2. ~NoWbAfter(0)
      BY <2>1, <3>1 DEF NoWbAfter
    <3>3. ~Settled
      BY <3>2 DEF InvValue
    <3>4. ~Clean'
      BY <2>0, <3>3 DEF Settled, Clean, CcuOwns, Holders, Request
    <3>5. PICK p \in Ports : Alive(p) /\ <<"WB", p>> \in bq'
      BY <2>0, <3>4 DEF Settled, Alive
    <3>6. p = bus[1][2]
      BY <2>0, <3>3, <3>5 DEF Settled
    <3>7. NoWbAfter(1) /\ bus[1][1].data = Value
      BY <2>1, <3>1, <3>5, <3>6 DEF InvValue, InvValueAt
    <3>8. NoWbAfter(0)'
      BY <1>0, <1>1, <3>7, NoWbMoves
    <3>9. mem' = bus[1][1].data
      BY <1>1, <2>1 DEF MemWrite
    <3> QED BY <1>1, <2>1, <3>7, <3>8, <3>9, MemValue
  <2>2. CASE bus[1][1].op # "WB"
    <3>1. Settled
      BY <2>2, SettledBefore
    <3>2. NoWbAfter(0) /\ mem = Value
      BY <3>1 DEF InvValue
    <3>3. NoWbAfter(0)'
      BY <1>0, <1>1, <3>2, NoWbLess, NoWbMoves
    <3>4. CASE bus[1][1].op \in {"AMO", "SC"}
      BY <1>1, <3>3, <3>4, MemValue
    <3>5. CASE bus[1][1].op \notin {"AMO", "SC"}
      <4>1. mem' = mem
        BY <1>1, <2>2, <3>5 DEF MemWrite
      <4> QED BY <1>1, <3>2, <3>3, <3>5, <4>1, MemValue
    <3> QED BY <3>4, <3>5
  <2> QED BY <2>1, <2>2
<1>2. ASSUME NEW q \in Ports, AwGrant(q), ~MemWrite PROVE NoWbAfter(0)' /\ mem' = Value'
  <2>1. Settled
    BY <1>2, SettledBefore
  <2>2. NoWbAfter(0) /\ mem = Value
    BY <2>1 DEF InvValue
  <2>3. Waiting(q, awq[q][1].op) /\ awq[q][1].op \in Ops
    BY <1>0, <1>2, GrantQueue, GrantWaiting DEF IndInv, InvOrder, AwqOrder
  <2>4. awq[q][1].op # "WB"
    <3> SUFFICES ASSUME awq[q][1].op = "WB" PROVE FALSE
      OBVIOUS
    <3>0. Expected(q, "WB") /\ <<"WB", q>> \notin bq
      BY <2>3, WriteFacts DEF InvWrite
    <3>1. Expected(q, "WB") /\ Alive(q) /\ <<"WB", q>> \notin bq
      BY <2>1, <2>3, <3>0, WaitingAlive, LateAlone DEF InvValue
    <3>2. PICK p \in Ports : Alive(p) /\ <<"WB", p>> \in bq
      BY <2>1, <3>1, WbOwner DEF Settled
    <3>3. Expected(p, "WB")
      BY <3>2, WriteFacts DEF InvWrite, Ops
    <3> QED BY <3>1, <3>2, <3>3, WbOwner
  <2>5. NoWbAfter(0)'
    <3> SUFFICES ASSUME NEW j \in 1 .. Len(bus'), j > 0 PROVE bus'[j][1].op # "WB"
      BY DEF NoWbAfter
    <3>1. Len(bus) \in Nat /\ (j = Len(bus) + 1 \/ j \in 1 .. Len(bus))
      BY <1>0, <1>2, GrantQueue
    <3>2. CASE j = Len(bus) + 1
      BY <1>0, <1>2, <2>4, <3>2, GrantQueue
    <3>3. CASE j \in 1 .. Len(bus)
      <4>1. bus'[j] = bus[j]
        BY <1>0, <1>2, <3>3, GrantQueue
      <4> QED BY <2>2, <3>3, <4>1 DEF NoWbAfter
    <3> QED BY <3>1, <3>2, <3>3
  <2>6. mem' = mem /\ Value' = Value
    BY <1>2, ValueKept DEF AwGrant
  <2> QED BY <2>2, <2>5, <2>6
<1>3. ASSUME NEW c \in Cores, StoreHit(c) PROVE FALSE
  BY <1>3, StoreUnsettled
<1>4. ASSUME NEW c \in Cores, ~MemWrite,
             \/ LoadHit(c) \/ Drop(c) \/ WriteBackDone(c) \/ BypassWrite(c) \/ BypassDone(c)
             \/ \E r \in Requests : Miss(c, r) \/ Atomic(c, r)
             \/ \E s \in WbStates : WriteBack(c, s)
             \/ Accept(c) \/ Snoop(c)
      PROVE  NoWbAfter(0)' /\ mem' = Value'
  <2>1. UNCHANGED <<bus, mem>>
    BY <1>4 DEF LoadHit, Drop, WriteBackDone, BypassWrite, BypassDone, Miss, Atomic, WriteBack,
                Accept, Snoop
  <2>2. Value' = Value
    BY <1>4, ValueKept
  <2> QED BY <1>4, <1>a, <2>1, <2>2
<1>5. CASE ~MemWrite /\ (SnoopDone \/ CcuWriteBackDone \/ CleanWriteBackDone \/ MemAnswer)
  <2>1. UNCHANGED <<bus, mem>>
    BY <1>5 DEF SnoopDone, CcuWriteBackDone, CleanWriteBackDone, MemAnswer
  <2>2. Value' = Value
    BY <1>5, ValueKept
  <2> QED BY <1>5, <1>a, <2>1, <2>2
<1>6. CASE ~MemWrite /\ Respond
  <2>1. UNCHANGED <<bus, mem>> /\ ccu.init \in Cores /\ Request \in Requests
    BY <1>0, <1>6, CcuFacts DEF Respond, IndInv, InvCcu
  <2>2. Request \in {"READ_SHARED"} \cup Atomics \/ ccu.init \in coll
    BY <1>6, <2>1, StoreUnsettled, RequestCases
  <2>3. Value' = Value
    BY <1>6, <2>2, ValueKept
  <2> QED BY <1>6, <1>a, <2>1, <2>3
<1> QED BY <1>1, <1>2, <1>3, <1>4, <1>5, <1>6 DEF Next, CoreStep, CcuStep
-----------------------------------------------------------------------------
\* A step that leaves the CCU's write-back at the mux, and the dirty copies and their
\* miss handlers, keeps InvLate.
LEMMA LateKept ==
  ASSUME InvLate, Waiting(CCU, "WB")' => Waiting(CCU, "WB"), ccu' = ccu,
         \A h \in Cores : /\ line'[h].valid <=> line[h].valid
                          /\ line[h].valid /\ line[h].dirty => line'[h].dirty
                          /\ mh'[h] \in WbStates => mh[h] \in WbStates \/ ~line[h].valid
  PROVE  InvLate'
<1> SUFFICES ASSUME Waiting(CCU, "WB")', ~Alive(CCU)'
             PROVE  ~Clean' /\ \A h \in Holders' : mh'[h] \notin WbStates
  BY DEF InvLate
<1>1. ~Clean /\ \A h \in Holders : mh[h] \notin WbStates
  BY PortFacts DEF InvLate, Alive
<1>2. ~Clean'
  BY <1>1 DEF Clean, CcuOwns, Holders
<1>3. \A h \in Holders' : mh'[h] \notin WbStates
  BY <1>1 DEF Holders
<1> QED BY <1>2, <1>3

\* A superseded write-back of the CCU waits only while its successor is dirty and stays
\* in its cache.  AwPrompt is used for write-backs: the owner does not start one.
LEMMA LateStep ==
  ASSUME AwPrompt, IndInv, IndInv', InvValue, Next
  PROVE  InvLate'
<1> USE PortFacts
<1>0. TypeOK /\ InvCcu /\ InvLate /\ ccu.init \in Cores /\ AwqOrder
  BY CcuFacts DEF IndInv, InvValue, InvOrder, AwqOrder
<1>a. ASSUME ccu'.state # "CLEAN_WB" PROVE InvLate'
  <2> SUFFICES ASSUME Waiting(CCU, "WB")', ~Alive(CCU)' PROVE FALSE
    BY DEF InvLate
  <2>1. InvWrite(CCU, "WB")'
    BY DEF IndInv, Ops
  <2>2. ccu'.state = "WRITE_BACK"
    BY <1>a, <2>1 DEF InvWrite, Expected
  <2>3. ccu'.data # None
    BY <2>2 DEF IndInv, InvCcu, CcuOwns
  <2> QED BY <2>3 DEF Alive
<1>b. ASSUME UNCHANGED <<line, mh, ccu>>, Waiting(CCU, "WB")' => Waiting(CCU, "WB") PROVE InvLate'
  BY <1>0, <1>b, LateKept
<1>c. ASSUME UNCHANGED awq PROVE Waiting(CCU, "WB")' => Waiting(CCU, "WB")
  BY <1>c DEF Waiting
<1>1. ASSUME NEW c \in Cores, LoadHit(c) \/ BypassDone(c) PROVE InvLate'
  BY <1>1, <1>b, <1>c DEF LoadHit, BypassDone
<1>2. ASSUME NEW c \in Cores, BypassWrite(c) PROVE InvLate'
  <2>1. Waiting(CCU, "WB")' => Waiting(CCU, "WB")
    BY <1>0, <1>2, PushWaiting, DataType DEF BypassWrite, Ops
  <2> QED BY <1>2, <1>b, <2>1 DEF BypassWrite
<1>3. ASSUME NEW c \in Cores, StoreHit(c) PROVE InvLate'
  <2>1. UNCHANGED <<awq, mh, ccu>>
    BY <1>3 DEF StoreHit
  <2>2. \A h \in Cores : /\ line'[h].valid <=> line[h].valid
                         /\ line[h].valid /\ line[h].dirty => line'[h].dirty
    BY <1>0, <1>3, StoreHitLine
  <2> QED BY <1>0, <1>c, <2>1, <2>2, LateKept
<1>4. ASSUME NEW c \in Cores, NEW r \in Requests, Miss(c, r) PROVE InvLate'
  <2>1. UNCHANGED <<awq, line, ccu>> /\ mh' = [mh EXCEPT ![c] = r]
    BY <1>4 DEF Miss
  <2>2. \A h \in Cores : mh'[h] \in WbStates => mh[h] \in WbStates
    BY <1>0, <2>1, AtomicStates DEF TypeOK
  <2> QED BY <1>0, <1>c, <2>1, <2>2, LateKept
<1>5. ASSUME NEW c \in Cores, NEW s \in WbStates, WriteBack(c, s) PROVE InvLate'
  <2>1. ~WbWaiting(CCU) /\ Push(c, "WB", line[c].data) /\ line[c].data \in Data
    BY <1>0, <1>5, LineFacts DEF WriteBack
  <2>2. DOMAIN awq[CCU] = 1 .. Len(awq[CCU])
    BY <1>0 DEF TypeOK
  <2>a. ~Waiting(CCU, "WB")
    BY <2>1, <2>2 DEF WbWaiting, Waiting
  <2>3. ~Waiting(CCU, "WB")'
    BY <1>0, <2>1, <2>a, PushWaiting DEF Ops
  <2> QED BY <2>3 DEF InvLate
<1>6. ASSUME NEW c \in Cores, Drop(c) \/ WriteBackDone(c) \/ \E r \in Requests : Atomic(c, r)
      PROVE  InvLate'
  <2>1. UNCHANGED <<awq, ccu>> /\ line' = [line EXCEPT ![c] = Invalid]
    BY <1>6 DEF Drop, WriteBackDone, Atomic
  <2>2. (\A d \in Cores : d # c => line'[d] = line[d]) /\ ~line'[c].valid
    BY <1>0, <2>1, DroppedLine
  <2>3. \A d \in Cores : d # c => mh'[d] = mh[d]
    BY <1>6, MhKept DEF Drop
  <2>4. ~line[c].dirty \/ mh[c] \in WbStates
    BY <1>6, WbDoneMh DEF Drop, Atomic
  <2> SUFFICES ASSUME Waiting(CCU, "WB")', ~Alive(CCU)'
               PROVE  ~Clean' /\ \A h \in Holders' : mh'[h] \notin WbStates
    BY DEF InvLate
  <2>5. ~Clean /\ \A h \in Holders : mh[h] \notin WbStates
    BY <1>0, <1>c, <2>1 DEF InvLate, Alive
  <2>6. \A h \in Holders' : h \in Cores /\ h # c /\ h \in Holders
    BY <2>2 DEF Holders
  <2>7. CcuOwns \/ \E h \in Cores : line[h].valid /\ line[h].dirty
    BY <2>5 DEF Clean, Holders
  <2>8. \A h \in Cores : line[h].valid /\ line[h].dirty => h # c /\ line'[h] = line[h]
    BY <2>2, <2>4, <2>5 DEF Holders
  <2>9. ~Clean'
    BY <2>1, <2>7, <2>8 DEF Clean, CcuOwns, Holders
  <2> QED BY <2>3, <2>5, <2>6, <2>9
<1>7. ASSUME NEW c \in Cores, Accept(c) \/ Snoop(c) PROVE InvLate'
  <2>1. CASE Accept(c)
    BY <1>a, <2>1 DEF Accept, Idle
  <2>2. CASE Snoop(c)
    BY <1>0, <1>a, <2>2, SnoopedCcu
  <2> QED BY <1>7, <2>1, <2>2
<1>8. CASE SnoopDone \/ CcuWriteBackDone \/ MemAnswer
  BY <1>0, <1>8, <1>a DEF SnoopDone, CcuWriteBackDone, MemAnswer, TypeOK
<1>9. CASE CleanWriteBackDone
  BY <1>9, <1>a DEF CleanWriteBackDone, Idle
<1>10. CASE Respond
  <2>1. CASE ccu'.state = "IDLE"
    BY <1>a, <2>1
  <2>2. CASE ccu'.state # "IDLE" /\ ccu'.data # None
    BY <2>2 DEF InvLate, Alive
  <2>3. CASE ccu'.state # "IDLE" /\ ccu'.data = None
    <3>1. Request = "CLEAN_UNIQUE" /\ ccu.init \notin coll
      BY <1>10, <2>3, ReleasedFacts, DataType
    <3>2. line'[ccu.init].valid /\ line'[ccu.init].dirty
      BY <1>0, <1>10, <3>1, RespondLine
    <3>3. \A d \in Cores : d # ccu.init => ~line'[d].valid
      BY <1>0, <1>10, <3>1, StoreUnsettled
    <3>4. mh'[ccu.init] = "IDLE"
      BY <1>0, <1>10, <3>1 DEF Respond, MissDone, TypeOK
    <3> QED BY <1>0, <3>2, <3>3, <3>4, AtomicStates DEF InvLate, Clean, Holders
  <2> QED BY <2>1, <2>2, <2>3
<1>11. CASE MemWrite
  BY <1>11, <1>b, <1>c DEF MemWrite
<1>12. ASSUME NEW q \in Ports, AwGrant(q) PROVE InvLate'
  <2>1. Waiting(CCU, "WB")' => Waiting(CCU, "WB")
    BY <1>0, <1>12, GrantWaiting DEF Ops
  <2> QED BY <1>12, <1>b, <2>1 DEF AwGrant
<1> QED BY <1>1, <1>2, <1>3, <1>4, <1>5, <1>6, <1>7, <1>8, <1>9, <1>10, <1>11, <1>12
        DEF Next, CoreStep, CcuStep

\* Nothing is written back in the initial state.
LEMMA ValueInit == Init => InvValue
<1> SUFFICES ASSUME Init PROVE InvValue
  OBVIOUS
<1>1. /\ \A c \in Cores : line[c] = Invalid
      /\ \A p \in Ports : Len(awq[p]) = 0
      /\ ccu = Idle /\ Len(bus) = 0 /\ mem = 0
  BY DEF Init
<1>2. \A c \in Cores : line[c].valid = FALSE
  BY <1>1 DEF Invalid
<1>3. Value = mem
  BY <1>1, <1>2, InitInv, ValueFacts DEF ValueIs, Idle
<1>4. \A p \in Ports : InvValueAt(p)
  BY <1>1 DEF InvValueAt
<1>5. InvLate
  BY <1>1, PortFacts DEF InvLate, Waiting
<1> QED BY <1>1, <1>3, <1>4, <1>5 DEF InvValue, NoWbAfter

\* Every step preserves InvValue.
LEMMA ValueStep ==
  ASSUME AwPrompt
  PROVE  IndInv /\ InvValue /\ [Next]_vars => InvValue'
<1> SUFFICES ASSUME IndInv, InvValue, [Next]_vars PROVE InvValue'
  OBVIOUS
<1>1. IndInv'
  BY InvStep
<1>2. CASE Next
  <2>1. \A p \in Ports : InvValueAt(p)'
    BY <1>1, <1>2, AtStep
  <2>2. Settled' => NoWbAfter(0)' /\ mem' = Value'
    BY <1>1, <1>2, SettledStep
  <2>3. InvLate'
    BY <1>1, <1>2, LateStep
  <2> QED BY <2>1, <2>2, <2>3 DEF InvValue
<1>3. CASE UNCHANGED vars
  <2>1. Value' = Value
    BY <1>3, ValueSame DEF vars
  <2>2. Settled' => Settled
    BY <1>3 DEF vars, Settled, Clean, CcuOwns, Alive, Holders, Request
  <2>3. ASSUME NEW p \in Ports PROVE InvValueAt(p)'
    <3>1. InvValueAt(p) /\ (Alive(p)' <=> Alive(p))
      BY <1>3 DEF vars, InvValue, Alive
    <3> QED BY <1>3, <2>1, <3>1, AtKept, WaitingAlive DEF vars
  <2>4. InvLate'
    BY <1>3, LateKept DEF vars, InvValue, Waiting
  <2> QED BY <1>3, <2>1, <2>2, <2>3, <2>4 DEF vars, InvValue, NoWbAfter
<1> QED BY <1>2, <1>3

\* Where the value of the line is, whatever the number of cores.
THEOREM ValueInvariance == AwPrompt => (Spec => [](IndInv /\ InvValue))
<1> SUFFICES ASSUME AwPrompt PROVE Spec => [](IndInv /\ InvValue)
  OBVIOUS
<1>1. Init => IndInv /\ InvValue
  BY InitInv, ValueInit
<1>2. (IndInv /\ InvValue) /\ [Next]_vars => (IndInv /\ InvValue)'
  BY InvStep, ValueStep
<1> QED BY <1>1, <1>2, PTL DEF Spec

\* A settled line without a dirty copy has its value in memory.
LEMMA CleanIsMemory == IndInv /\ InvValue => CleanMatchesMemory
<1> SUFFICES ASSUME IndInv, InvValue, \A c \in Holders : ~line[c].dirty, ccu.state = "IDLE",
                    NEW c \in Holders
             PROVE  line[c].data = mem
  BY DEF CleanMatchesMemory
<1>1. ccu.data = None
  BY IdleFacts DEF IndInv, InvCcu
<1>2. mem = Value
  BY <1>1, MemoryHasValue DEF Holders
<1> QED BY <1>2, ValueFacts DEF ValueIs, Holders

\* If memory takes the AW of a write-back before its line is snooped away, and that of the
\* CCU before the new owner evicts, clean copies equal memory when nothing is being
\* written: no old write-back lands on newer data.
THEOREM CleanMatchesMemoryHolds == AwPrompt => (Spec => []CleanMatchesMemory)
<1> SUFFICES ASSUME AwPrompt PROVE Spec => []CleanMatchesMemory
  OBVIOUS
<1>1. Spec => [](IndInv /\ InvValue)
  BY ValueInvariance
<1> QED BY <1>1, CleanIsMemory, PTL
-----------------------------------------------------------------------------
\* Every step of the system is a load, a store or an atomic of the single copy, or leaves
\* it alone.
LEMMA RefineStep ==
  ASSUME IndInv, IndInv', InvValue, Next
  PROVE  \/ rd' = Value /\ Value' = Value /\ stores' = stores
         \/ Value' = Merge(Value) /\ stores' = Merge(stores) /\ rd' \in {rd, Value}
         \/ Value' = Value /\ rd' = rd /\ stores' = stores
<1>0. TypeOK /\ InvCcu /\ ccu.init \in Cores
  BY CcuFacts DEF IndInv
<1>1. ASSUME NEW c \in Cores, LoadHit(c) PROVE rd' = Value /\ Value' = Value /\ stores' = stores
  BY <1>1, ValueKept, ValueFacts DEF LoadHit, ValueIs
<1>2. ASSUME NEW c \in Cores, StoreHit(c)
      PROVE  Value' = Merge(Value) /\ stores' = Merge(stores) /\ rd' = rd
  BY <1>0, <1>2, StoreHitLine, ValueFacts, ValueFactsNext DEF StoreHit, CountStore, ValueIs
<1>3. ASSUME NEW c \in Cores,
             \/ Drop(c) \/ WriteBackDone(c) \/ BypassWrite(c) \/ BypassDone(c)
             \/ \E r \in Requests : Miss(c, r) \/ Atomic(c, r)
             \/ \E s \in WbStates : WriteBack(c, s)
             \/ Accept(c) \/ Snoop(c)
      PROVE  Value' = Value /\ rd' = rd /\ stores' = stores
  <2>1. UNCHANGED <<rd, stores>>
    BY <1>3 DEF Drop, WriteBackDone, BypassWrite, BypassDone, Miss, Atomic, WriteBack, Accept, Snoop
  <2> QED BY <1>3, <2>1, ValueKept
<1>4. CASE \/ SnoopDone \/ CcuWriteBackDone \/ CleanWriteBackDone \/ MemAnswer
           \/ \E p \in Ports : AwGrant(p)
  <2>1. UNCHANGED <<rd, stores>>
    BY <1>4 DEF SnoopDone, CcuWriteBackDone, CleanWriteBackDone, MemAnswer, AwGrant
  <2>2. Value' = Value
    BY <1>4, ValueKept
  <2> QED BY <2>1, <2>2
<1>5. CASE Respond
  <2>0. Request \in Requests /\ ccu.state = "RESP" /\ InvCore(ccu.init)
    BY <1>0, <1>5 DEF Respond, InvCcu, IndInv
  <2>1. CASE Request \in {"READ_SHARED", "LR"}
    <3>1. rd' = ccu.data /\ stores' = stores
      BY <1>5, <2>1 DEF Respond
    <3>2. Value = ccu.data
      BY <1>0, <2>0, <2>1, ValueFacts DEF InvCcu, ValueIs
    <3>3. Value' = Value
      BY <1>5, <2>0, <2>1, ValueKept, RequestCases
    <3> QED BY <3>1, <3>2, <3>3
  <2>2. CASE Request = "READ_UNIQUE"
    <3>1. stores' = Merge(stores) /\ rd' = rd
      BY <1>5, <2>2, RequestCases DEF Respond, CountStore
    <3>2. Value = ccu.data
      BY <1>0, <2>0, <2>2, ValueFacts DEF InvCcu, ValueIs
    <3> QED BY <1>0, <1>5, <2>2, <3>1, <3>2, RespondLine, ValueFactsNext DEF ValueIs
  <2>3. CASE Request = "CLEAN_UNIQUE" /\ ccu.init \notin coll
    <3>1. stores' = Merge(stores) /\ rd' = rd
      BY <1>5, <2>3, RequestCases DEF Respond, CountStore
    <3>2. Value = line[ccu.init].data
      BY <1>0, <2>0, <2>3, ValueFacts DEF InvCore, Request, ValueIs
    <3> QED BY <1>0, <1>5, <2>3, <3>1, <3>2, RespondLine, ValueFactsNext DEF ValueIs
  <2>4. CASE Request \in {"AMO", "SC"} \/ (Request = "CLEAN_UNIQUE" /\ ccu.init \in coll)
    <3>1. UNCHANGED <<rd, stores>>
      BY <1>5, <2>4, RequestCases DEF Respond
    <3>2. Value' = Value
      BY <1>5, <2>0, <2>4, ValueKept, RequestCases
    <3> QED BY <3>1, <3>2
  <2> QED BY <2>0, <2>1, <2>2, <2>3, <2>4, RequestCases
<1>6. CASE MemWrite
  <2>0. bus[1][1].op \in Ops
    BY <1>0, <1>6, MemQueue
  <2>1. CASE bus[1][1].op \in {"WB", "OTHER"}
    <3>1. UNCHANGED <<rd, stores>>
      BY <1>6, <2>1 DEF MemWrite
    <3> QED BY <1>6, <2>1, <3>1, MemValue
  <2>2. CASE bus[1][1].op = "AMO"
    <3>1. mem' = Merge(mem) /\ rd' = mem /\ stores' = Merge(stores)
      BY <1>6, <2>2 DEF MemWrite, CountStore
    <3> QED BY <1>6, <2>2, <3>1, MemValue
  <2>3. CASE bus[1][1].op = "SC"
    <3>1. \/ mem' = Merge(mem) /\ rd' = rd /\ stores' = Merge(stores)
          \/ mem' = mem /\ rd' = rd /\ stores' = stores
      BY <1>6, <2>3 DEF MemWrite, CountStore
    <3> QED BY <1>6, <2>3, <3>1, MemValue
  <2> QED BY <2>0, <2>1, <2>2, <2>3 DEF Ops
<1> QED BY <1>1, <1>2, <1>3, <1>4, <1>5, <1>6 DEF Next, CoreStep, CcuStep

\* Under the same condition caches, CCU and the write paths through i_axi_mux implement
\* a single copy of the line: every load returns the last value stored, no store is lost.
THEOREM Refinement == AwPrompt => (Spec => SingleCopySpec)
<1> SUFFICES ASSUME AwPrompt PROVE Spec => SingleCopySpec
  OBVIOUS
<1>1. Init => SingleCopy!Init
  <2> SUFFICES ASSUME Init PROVE Value = 0 /\ rd = 0 /\ stores = 0
    BY DEF SingleCopy!Init
  <2>1. \A c \in Cores : line[c].valid = FALSE
    BY DEF Init, Invalid
  <2>2. Value = mem
    BY <2>1, InitInv, ValueFacts DEF ValueIs, Init, Idle
  <2> QED BY <2>2 DEF Init
<1>2. (IndInv /\ InvValue) /\ IndInv' /\ [Next]_vars => [SingleCopy!Next]_<<Value, rd, stores>>
  <2> SUFFICES ASSUME IndInv, InvValue, IndInv', [Next]_vars
               PROVE  [SingleCopy!Next]_<<Value, rd, stores>>
    OBVIOUS
  <2>1. CASE Next
    BY <2>1, RefineStep
       DEF SingleCopy!Next, SingleCopy!Load, SingleCopy!Store, SingleCopy!Amo, SingleCopy!Write, Merge
  <2>2. CASE UNCHANGED vars
    BY <2>2, ValueSame DEF vars
  <2> QED BY <2>1, <2>2
<1>3. Spec => [](IndInv /\ InvValue)
  BY ValueInvariance
<1> QED BY <1>1, <1>2, <1>3, PTL DEF Spec, SingleCopySpec, SingleCopy!Spec
=============================================================================
