--------------------------- MODULE CcuTop_proofs ---------------------------
(***************************************************************************)
(* Proofs about the whole coherent system for one to seven cores, any      *)
(* order of the writes at i_axi_mux and any selection of atomics.  IndInv  *)
(* of CcuTop is preserved conjunct by conjunct: types, the writes in       *)
(* flight, the miss handlers, the owner of the line, the CCU, the snooped  *)
(* copies, the reservations.                                               *)
(***************************************************************************)
EXTENDS CcuTop, TLAPS

\* The ports are the cores and, behind them, the CCU; there are at most seven cores.
LEMMA PortFacts ==
  /\ NoSlvPorts \in Nat /\ NoSlvPorts \in 1 .. 7
  /\ Cores \subseteq Nat /\ CCU \in Nat /\ CCU \notin Cores /\ Ports \subseteq 0 .. 7
  /\ Cores \subseteq Ports /\ CCU \in Ports /\ 0 \in Cores
BY CcuTopAssumption DEF Cores, CCU, Ports

\* A port of i_axi_mux belongs to the CCU or to a core.
LEMMA PortCases == \A p \in Ports : p = CCU \/ p \in Cores
BY DEF Ports

\* A store turns data into data.
LEMMA MergeType == \A d \in Data : Merge(d) \in Data
BY CcuTopAssumption DEF Merge, Data

\* Data is the number of stores in it.
LEMMA DataType == Data \subseteq Nat /\ 0 \in Data /\ None \notin Data
BY CcuTopAssumption DEF Data

\* The arbiter finds a port whenever one requests.
LEMMA LeastType ==
  ASSUME NEW S \in SUBSET Ports, S # {}
  PROVE  Least(S) \in S
<1>1. \E p \in S : \A q \in S : p <= q
  <2> SUFFICES ASSUME \A p \in S : \E q \in S : q < p PROVE FALSE
    BY PortFacts
  <2>1. 0 \notin S
    BY PortFacts
  <2>2. 1 \notin S
    BY PortFacts, <2>1
  <2>3. 2 \notin S
    BY PortFacts, <2>1, <2>2
  <2>4. 3 \notin S
    BY PortFacts, <2>1, <2>2, <2>3
  <2>5. 4 \notin S
    BY PortFacts, <2>1, <2>2, <2>3, <2>4
  <2>6. 5 \notin S
    BY PortFacts, <2>1, <2>2, <2>3, <2>4, <2>5
  <2>7. 6 \notin S
    BY PortFacts, <2>1, <2>2, <2>3, <2>4, <2>5, <2>6
  <2>8. 7 \notin S
    BY PortFacts, <2>1, <2>2, <2>3, <2>4, <2>5, <2>6, <2>7
  <2> PICK p : p \in S
    OBVIOUS
  <2>9. p \in 0 .. 7
    BY PortFacts
  <2> QED BY <2>1, <2>2, <2>3, <2>4, <2>5, <2>6, <2>7, <2>8, <2>9
<1> QED BY <1>1 DEF Least

\* The states of the miss handler do not overlap.
LEMMA AtomicStates ==
  /\ Atomics \subseteq {"AMO", "LR", "SC"}
  /\ WbStates \cap Requests = {} /\ "IDLE" \notin WbStates \cup Requests
BY CcuTopAssumption DEF WbStates, WbAtomic, Requests

\* After a write-back the miss handler is idle or goes on with its atomic.
LEMMA ResumeType == \A s \in WbStates : Resume(s) \in {"IDLE"} \cup Atomics
BY DEF Resume

\* The initial state has the right types.
LEMMA InitType == Init => TypeOK
BY PortFacts, DataType, CcuTopAssumption DEF Init, TypeOK, Invalid, Idle, Line

\* A cycle of the AW arbiter keeps the type of its registers.
LEMMA CycleType ==
  ASSUME TypeOK, Cycle
  PROVE  arb' \in [rr : Ports, lock : BOOLEAN, req : SUBSET Ports]
BY DEF TypeOK, Cycle, Requesters

\* What waits at the mux or is on the bus is a write with its port.
LEMMA QueueTypes ==
  ASSUME TypeOK
  PROVE  /\ \A p \in Ports : /\ awq[p] \in Seq(Writes) /\ Len(awq[p]) \in Nat
                             /\ \A i \in 1 .. Len(awq[p]) :
                                  awq[p][i] \in Writes /\ awq[p][i].op \in Ops /\ awq[p][i].data \in Data
         /\ Len(bus) \in Nat
         /\ \A i \in 1 .. Len(bus) : /\ bus[i] \in Writes \X Ports
                                     /\ bus[i][1].op \in Ops /\ bus[i][1].data \in Data /\ bus[i][2] \in Ports
<1>1. \A p \in Ports : awq[p] \in Seq(Writes)
  BY DEF TypeOK
<1>2. \A w \in Writes : w.op \in Ops /\ w.data \in Data
  BY DEF Writes
<1>3. bus \in Seq(Writes \X Ports)
  BY DEF TypeOK
<1> QED BY <1>1, <1>2, <1>3

\* InvWrite, for one port and one kind of write.
LEMMA WriteFacts ==
  ASSUME IndInv, NEW p \in Ports, NEW op \in Ops
  PROVE  InvWrite(p, op)
BY DEF IndInv

\* A new write fits into the queue of its port.
LEMMA PushType ==
  ASSUME TypeOK, NEW p \in Ports, NEW op \in Ops, NEW d \in Data,
         Push(p, op, d), Len(awq[p]) <= 1
  PROVE  awq' \in [Ports -> Seq(Writes)] /\ \A q \in Ports : Len(awq'[q]) <= 2
<1> DEFINE w == [op |-> op, data |-> d]
<1>1. w \in Writes
  BY DEF Writes
<1> HIDE DEF w
<1>2. awq' = [awq EXCEPT ![p] = Append(awq[p], w)]
  BY DEF Push, w
<1> QED BY <1>1, <1>2 DEF TypeOK

\* A core that has no write of one kind waiting at the mux has at most one of the other.
LEMMA OneKind ==
  ASSUME IndInv, NEW c \in Cores, ~Waiting(c, "WB") \/ ~Waiting(c, "OTHER")
  PROVE  Len(awq[c]) <= 1
<1>1. ASSUME NEW i \in 1 .. Len(awq[c]) PROVE awq[c][i].op \in {"WB", "OTHER"}
  <2>1. awq[c][i].op \in Ops /\ Waiting(c, awq[c][i].op)
    BY QueueTypes, PortFacts DEF IndInv, Waiting
  <2>2. Expected(c, awq[c][i].op)
    BY <2>1, WriteFacts, PortFacts DEF InvWrite
  <2> QED BY <2>2, PortFacts DEF Expected
<1>2. Len(awq[c]) \in Nat
  BY PortFacts DEF IndInv, TypeOK
<1>3. \A i, j \in 1 .. Len(awq[c]) : i = j
  BY <1>1, PortFacts DEF IndInv, InvOrder, Waiting
<1> QED BY <1>2, <1>3

\* The coherence unit has at most one write, and only when it waits for it.
LEMMA CcuWaits ==
  ASSUME IndInv,
         \/ ccu.state \notin {"WRITE_BACK", "CLEAN_WB", "MEM"}
         \/ ccu.state = "WRITE_BACK" /\ ~Waiting(CCU, "WB")
  PROVE  Len(awq[CCU]) = 0
<1>1. ASSUME NEW i \in 1 .. Len(awq[CCU]) PROVE FALSE
  <2>1. awq[CCU][i].op \in Ops /\ Waiting(CCU, awq[CCU][i].op)
    BY QueueTypes, PortFacts DEF IndInv, Waiting
  <2>2. Expected(CCU, awq[CCU][i].op)
    BY <2>1, WriteFacts, PortFacts DEF InvWrite
  <2> QED BY <2>1, <2>2 DEF Expected
<1>2. Len(awq[CCU]) \in Nat
  BY PortFacts DEF IndInv, TypeOK
<1> QED BY <1>1, <1>2

\* What becomes of the coherence unit when it answers: it is free, or it writes back
\* what a CleanUnique found dirty.
LEMMA ReleasedFacts ==
  ASSUME IndInv, Respond
  PROVE  \/ /\ ccu' = Idle /\ ccu'.state = "IDLE" /\ awq' = awq
            /\ ~(Request = "CLEAN_UNIQUE" /\ ccu.dirty)
         \/ /\ Request = "CLEAN_UNIQUE" /\ ccu.dirty /\ ccu.data \in Data
            /\ Push(CCU, "WB", ccu.data)
            /\ ccu'.state = "CLEAN_WB" /\ ccu'.init = ccu.init /\ ccu'.todo = {}
            /\ ccu'.shared = ccu.shared
            /\ \/ ccu.init \in coll /\ ccu'.data = ccu.data /\ ccu'.dirty = TRUE
               \/ ccu.init \notin coll /\ ccu'.data = None /\ ccu'.dirty = FALSE
            /\ ccu' \in [state : {"CLEAN_WB"}, init : Cores, todo : SUBSET Cores,
                        data : Data \cup {None}, dirty : BOOLEAN, shared : BOOLEAN]
<1>0. TypeOK /\ ccu.state = "RESP" /\ Released /\ ccu.todo = {}
  BY DEF IndInv, InvCcu, Respond
<1>1. CASE Request = "CLEAN_UNIQUE" /\ ccu.dirty
  <2>1. ccu.data \in Data
    BY <1>0, <1>1 DEF IndInv, InvCcu, CcuOwns, TypeOK
  <2>2. /\ Push(CCU, "WB", ccu.data)
        /\ ccu' = [ccu EXCEPT !.state = "CLEAN_WB",
                              !.data  = IF ccu.init \in coll THEN @ ELSE None,
                              !.dirty = ccu.init \in coll]
    BY <1>0, <1>1 DEF Released
  <2>3. CASE ccu.init \in coll
    <3>1. ccu' = [ccu EXCEPT !.state = "CLEAN_WB", !.dirty = TRUE]
      BY <1>0, <2>2, <2>3 DEF TypeOK
    <3> QED BY <1>0, <1>1, <2>1, <2>2, <2>3, <3>1 DEF TypeOK
  <2>4. CASE ccu.init \notin coll
    <3>1. ccu' = [ccu EXCEPT !.state = "CLEAN_WB", !.data = None, !.dirty = FALSE]
      <4>1. (ccu.init \in coll) = FALSE /\ (IF ccu.init \in coll THEN ccu.data ELSE None) = None
        BY <2>4
      <4> QED BY ONLY <2>2, <4>1
    <3> QED BY <1>0, <1>1, <2>1, <2>2, <2>4, <3>1 DEF TypeOK
  <2> QED BY <2>3, <2>4
<1>2. CASE ~(Request = "CLEAN_UNIQUE" /\ ccu.dirty)
  BY <1>0, <1>2 DEF Released, Idle
<1> QED BY <1>1, <1>2

\* A response that is read carries data.
LEMMA CcuData ==
  ASSUME IndInv, ccu.state = "RESP", Request \in {"READ_SHARED", "READ_UNIQUE", "LR"}
  PROVE  ccu.data \in Data
BY DEF IndInv, InvCcu, TypeOK

\* Every step keeps the types; the other conjuncts bound the queues.
LEMMA TypeStep ==
  ASSUME IndInv, [Next]_vars
  PROVE  TypeOK'
<1> USE PortFacts, DataType
<1>0. TypeOK
  BY DEF IndInv
<1>1. CASE UNCHANGED vars
  BY <1>0, <1>1 DEF TypeOK, vars
<1>2. ASSUME NEW c \in Cores, LoadHit(c) PROVE TypeOK'
  BY <1>0, <1>2, CycleType DEF LoadHit, TypeOK, Line
<1>3. ASSUME NEW c \in Cores, StoreHit(c) PROVE TypeOK'
  <2>1. line' \in [Cores -> Line]
    <3>1. line[c] \in Line /\ Merge(line[c].data) \in Data
      BY <1>0, MergeType DEF TypeOK, Line
    <3>2. [line[c] EXCEPT !.dirty = TRUE, !.data = Merge(@)] \in Line
      BY <3>1 DEF Line
    <3> QED BY <1>0, <1>3, <3>2 DEF StoreHit, TypeOK
  <2> QED BY <1>0, <1>3, <2>1, CycleType, MergeType DEF StoreHit, CountStore, TypeOK
<1>4. ASSUME NEW c \in Cores, Drop(c) PROVE TypeOK'
  BY <1>0, <1>4, CycleType DEF Drop, TypeOK, Line, Invalid
<1>5. ASSUME NEW c \in Cores, NEW r \in Requests, Miss(c, r) PROVE TypeOK'
  BY <1>0, <1>5, CycleType DEF Miss, TypeOK
<1>6. ASSUME NEW c \in Cores, NEW r \in Requests, Atomic(c, r) PROVE TypeOK'
  BY <1>0, <1>6, CycleType DEF Atomic, TypeOK, Line, Invalid
<1>8. ASSUME NEW c \in Cores, WriteBackDone(c) PROVE TypeOK'
  <2>1. mh[c] \in WbStates
    BY <1>8 DEF WriteBackDone, IndInv, InvWrite, Expected, Ops
  <2>2. Resume(mh[c]) \in {"IDLE"} \cup Requests
    BY <2>1, ResumeType DEF Requests
  <2> QED BY <1>0, <1>8, <2>2, CycleType DEF WriteBackDone, TypeOK, Line, Invalid
<1>10. ASSUME NEW c \in Cores, BypassDone(c) PROVE TypeOK'
  BY <1>0, <1>10, CycleType DEF BypassDone, TypeOK
<1>11. ASSUME NEW c \in Cores, Accept(c) PROVE TypeOK'
  BY <1>0, <1>11, CycleType DEF Accept, TypeOK, Idle
<1>12. ASSUME NEW c \in Cores, Snoop(c) PROVE TypeOK'
  <2>1. line' \in [Cores -> Line]
    <3>1. line[c] \in Line /\ Invalid \in Line
      BY <1>0 DEF TypeOK, Line, Invalid
    <3>2. [line[c] EXCEPT !.shared = TRUE] \in Line
      BY <3>1 DEF Line
    <3>3. Snooped(line[c]) \in Line
      BY <3>1, <3>2 DEF Snooped
    <3> QED BY <1>0, <1>12, <3>1, <3>3 DEF Snoop, TypeOK
  <2>2. ccu' \in [state : {"IDLE", "SNOOP", "WRITE_BACK", "MEM", "RESP"}, init : Cores,
                  todo : SUBSET Cores, data : Data \cup {None},
                  dirty : BOOLEAN, shared : BOOLEAN]
    <3>1. line[c].data \in Data
      BY <1>0 DEF TypeOK, Line
    <3> QED BY <1>0, <1>12, <3>1 DEF Snoop, TypeOK
  <2>3. coll' \subseteq Cores /\ arb' \in [rr : Ports, lock : BOOLEAN, req : SUBSET Ports]
    BY <1>0, <1>12, CycleType DEF Snoop, TypeOK
  <2>4. UNCHANGED <<mh, byp, awq, bus, bq, mem, res, linked, rd, stores>>
    BY <1>12 DEF Snoop
  <2> QED BY <1>0, <2>1, <2>2, <2>3, <2>4 DEF TypeOK
<1>15. CASE MemAnswer
  BY <1>0, <1>15, CycleType DEF MemAnswer, TypeOK
<1>16. CASE Respond
  <2> DEFINE c == ccu.init
  <2>0. c \in Cores /\ line[c] \in Line /\ line[c].data \in Data
    BY <1>0 DEF TypeOK, Line
  <2>1. line' \in [Cores -> Line] /\ rd' \in Data
    <3>1. CASE Request = "READ_SHARED"
      <4>1. ccu.data \in Data
        BY <1>16, <3>1, CcuData DEF Respond
      <4>2. [valid |-> TRUE, shared |-> ccu.shared, dirty |-> FALSE, data |-> ccu.data] \in Line
        BY <1>0, <4>1 DEF TypeOK, Line
      <4>3. line' = [line EXCEPT ![c] =
                      [valid |-> TRUE, shared |-> ccu.shared, dirty |-> FALSE, data |-> ccu.data]]
        BY <1>16, <3>1, AtomicStates DEF Respond
      <4> QED BY <1>0, <1>16, <2>0, <3>1, <4>1, <4>2, <4>3, AtomicStates DEF Respond, TypeOK
    <3>2. CASE Request = "READ_UNIQUE"
      <4>1. Merge(ccu.data) \in Data
        BY <1>16, <3>2, CcuData, MergeType DEF Respond
      <4>2. [valid |-> TRUE, shared |-> FALSE, dirty |-> TRUE, data |-> Merge(ccu.data)] \in Line
        BY <4>1 DEF Line
      <4>3. /\ rd' = rd
            /\ line' = [line EXCEPT ![c] =
                      [valid |-> TRUE, shared |-> FALSE, dirty |-> TRUE, data |-> Merge(ccu.data)]]
        BY <1>16, <3>2, AtomicStates DEF Respond
      <4> QED BY <1>0, <2>0, <4>2, <4>3 DEF TypeOK
    <3>3. CASE Request = "CLEAN_UNIQUE" /\ c \notin coll
      <4>1. Merge(line[c].data) \in Data
        BY <2>0, MergeType
      <4>2. [valid |-> TRUE, shared |-> FALSE, dirty |-> TRUE, data |-> Merge(line[c].data)] \in Line
        BY <4>1 DEF Line
      <4>3. /\ rd' = rd
            /\ line' = [line EXCEPT ![c] =
                      [valid |-> TRUE, shared |-> FALSE, dirty |-> TRUE, data |-> Merge(line[c].data)]]
        BY <1>16, <3>3, AtomicStates DEF Respond
      <4> QED BY <1>0, <2>0, <4>2, <4>3 DEF TypeOK
    <3>4. CASE Request = "LR"
      <4>1. ccu.data \in Data
        BY <1>16, <3>4, CcuData DEF Respond
      <4> QED BY <1>0, <1>16, <3>4, <4>1 DEF Respond, TypeOK
    <3>5. CASE Request \in {"AMO", "SC"} \/ (Request = "CLEAN_UNIQUE" /\ c \in coll)
      BY <1>0, <1>16, <3>5 DEF Respond, TypeOK
    <3> QED BY <1>16, <3>1, <3>2, <3>3, <3>4, <3>5 DEF Respond
  <2>2. mh' \in [Cores -> {"IDLE"} \cup Requests \cup WbStates] /\ coll' \subseteq Cores
    BY <1>0, <1>16 DEF Respond, MissDone, TypeOK, Requests
  <2>3. linked' \subseteq Cores /\ stores' \in Data
    BY <1>0, <1>16, MergeType DEF Respond, CountStore, TypeOK
  <2>4. ccu' \in [state : {"IDLE", "SNOOP", "WRITE_BACK", "MEM", "RESP", "CLEAN_WB"}, init : Cores,
                  todo : SUBSET Cores, data : Data \cup {None},
                  dirty : BOOLEAN, shared : BOOLEAN]
    <3>1. Idle \in [state : {"IDLE"}, init : Cores, todo : SUBSET Cores,
                    data : Data \cup {None}, dirty : BOOLEAN, shared : BOOLEAN]
      BY DEF Idle
    <3>2. \/ ccu' = Idle
          \/ ccu' \in [state : {"CLEAN_WB"}, init : Cores, todo : SUBSET Cores,
                        data : Data \cup {None}, dirty : BOOLEAN, shared : BOOLEAN]
      BY <1>16, ReleasedFacts
    <3> QED BY <3>1, <3>2
  <2>5. arb' \in [rr : Ports, lock : BOOLEAN, req : SUBSET Ports]
    BY <1>0, <1>16, CycleType DEF Respond
  <2>6. UNCHANGED <<byp, bus, bq, mem, res>>
    BY <1>16 DEF Respond
  <2>7. awq' \in [Ports -> Seq(Writes)] /\ \A q \in Ports : Len(awq'[q]) <= 2
    <3>1. Len(awq[CCU]) <= 1
      BY <1>16, CcuWaits DEF Respond
    <3> QED BY <1>0, <1>16, <3>1, ReleasedFacts, PushType DEF TypeOK, Ops
  <2> QED BY <1>0, <2>1, <2>2, <2>3, <2>4, <2>5, <2>6, <2>7 DEF TypeOK
<1>17. CASE MemWrite
  <2>1. bus[1] \in Writes \X Ports /\ bus[1][1].op \in Ops /\ bus[1][1].data \in Data /\ bus[1][2] \in Ports
    <3>1. bus \in Seq(Writes \X Ports) /\ bus # <<>>
      BY <1>0, <1>17 DEF MemWrite, TypeOK
    <3>2. 1 \in 1 .. Len(bus)
      BY <3>1
    <3> QED BY <1>0, <3>2, QueueTypes
  <2>2. Tail(bus) \in Seq(Writes \X Ports) /\ Len(Tail(bus)) <= Len(bus)
    BY <1>0, <1>17 DEF MemWrite, TypeOK
  <2>3. bus' \in Seq(Writes \X Ports) /\ Len(bus') <= MaxWTrans /\ bq' \subseteq Ops \X Ports
    BY <1>0, <1>17, <2>1, <2>2, CcuTopAssumption DEF MemWrite, TypeOK
  <2>4. mem' \in Data /\ rd' \in Data /\ stores' \in Data /\ linked' \subseteq Cores /\ res' \subseteq Cores
    BY <1>0, <1>17, <2>1, MergeType DEF MemWrite, CountStore, res_after, TypeOK
  <2> QED BY <1>0, <1>17, <2>3, <2>4, CycleType DEF MemWrite, TypeOK
<1>7. ASSUME NEW c \in Cores, NEW s \in WbStates, WriteBack(c, s) PROVE TypeOK'
  <2>1. ~Waiting(c, "WB")
    BY <1>7, AtomicStates DEF WriteBack, IndInv, InvWrite, Expected, Ops
  <2>2. Len(awq[c]) <= 1
    BY <2>1, OneKind
  <2>3. line[c].data \in Data /\ Push(c, "WB", line[c].data)
    BY <1>0, <1>7 DEF WriteBack, TypeOK, Line
  <2>4. awq' \in [Ports -> Seq(Writes)] /\ \A q \in Ports : Len(awq'[q]) <= 2
    BY <1>0, <2>2, <2>3, PushType DEF Ops
  <2> QED BY <1>0, <1>7, <2>4 DEF WriteBack, TypeOK
<1>9. ASSUME NEW c \in Cores, BypassWrite(c) PROVE TypeOK'
  <2>1. ~Waiting(c, "OTHER")
    BY <1>9 DEF BypassWrite, IndInv, InvWrite, Expected, Ops
  <2>2. Len(awq[c]) <= 1
    BY <2>1, OneKind
  <2>3. awq' \in [Ports -> Seq(Writes)] /\ \A q \in Ports : Len(awq'[q]) <= 2
    BY <1>0, <1>9, <2>2, PushType DEF BypassWrite, Ops
  <2> QED BY <1>0, <1>9, <2>3 DEF BypassWrite, TypeOK
<1>13. CASE SnoopDone
  <2>1. Len(awq[CCU]) = 0
    BY <1>13, CcuWaits DEF SnoopDone
  <2>2. ccu.dirty => ccu.data \in Data
    BY <1>0, <1>13 DEF SnoopDone, IndInv, InvCcu, CcuOwns, TypeOK
  <2>3. awq' \in [Ports -> Seq(Writes)] /\ \A q \in Ports : Len(awq'[q]) <= 2
    <3>1. \/ UNCHANGED awq
          \/ ccu.dirty /\ Push(CCU, "WB", ccu.data)
          \/ Push(CCU, "AMO", 0)
          \/ Push(CCU, "SC", 0)
      BY <1>13 DEF SnoopDone
    <3>2. UNCHANGED awq => awq' \in [Ports -> Seq(Writes)] /\ \A q \in Ports : Len(awq'[q]) <= 2
      BY <1>0 DEF TypeOK
    <3>3. "WB" \in Ops /\ "AMO" \in Ops /\ "SC" \in Ops /\ Len(awq[CCU]) <= 1
      BY <2>1 DEF Ops
    <3> QED BY <1>0, <2>2, <3>1, <3>2, <3>3, PushType
  <2> QED BY <1>0, <1>13, <2>3, CycleType DEF SnoopDone, TypeOK
<1>14. CASE CcuWriteBackDone
  <2>1. Len(awq[CCU]) = 0
    BY <1>14, CcuWaits DEF CcuWriteBackDone, IndInv, InvWrite, Ops
  <2>2. awq' \in [Ports -> Seq(Writes)] /\ \A q \in Ports : Len(awq'[q]) <= 2
    <3>1. UNCHANGED awq \/ Push(CCU, "AMO", 0) \/ Push(CCU, "SC", 0)
      BY <1>14 DEF CcuWriteBackDone
    <3>2. UNCHANGED awq => awq' \in [Ports -> Seq(Writes)] /\ \A q \in Ports : Len(awq'[q]) <= 2
      BY <1>0 DEF TypeOK
    <3>3. "AMO" \in Ops /\ "SC" \in Ops /\ Len(awq[CCU]) <= 1
      BY <2>1 DEF Ops
    <3> QED BY <1>0, <3>1, <3>2, <3>3, PushType
  <2> QED BY <1>0, <1>14, <2>2, CycleType DEF CcuWriteBackDone, TypeOK
<1>19. CASE CleanWriteBackDone
  BY <1>0, <1>19, CycleType DEF CleanWriteBackDone, TypeOK, Idle
<1>18. ASSUME NEW p \in Ports, AwGrant(p) PROVE TypeOK'
  <2>1. next_idx \in Ports
    <3>1. req_d \in SUBSET Ports /\ req_d # {}
      BY <1>0, <1>18 DEF AwGrant, Selected, req_d, Requesters, TypeOK
    <3> QED BY <3>1, LeastType DEF next_idx
  <2>2. Head(awq[p]) \in Writes /\ Tail(awq[p]) \in Seq(Writes) /\ Len(Tail(awq[p])) <= Len(awq[p])
    BY <1>0, <1>18 DEF AwGrant, TypeOK
  <2>3. awq' \in [Ports -> Seq(Writes)] /\ \A q \in Ports : Len(awq'[q]) <= 2
    <3>1. awq \in [Ports -> Seq(Writes)] /\ \A q \in Ports : Len(awq[q]) <= 2
      BY <1>0 DEF TypeOK
    <3>2. awq' = [awq EXCEPT ![p] = Tail(awq[p])]
      BY <1>18 DEF AwGrant
    <3> QED BY <1>18, <2>2, <3>1, <3>2
  <2>4. bus' \in Seq(Writes \X Ports) /\ Len(bus') <= MaxWTrans
    <3>1. bus \in Seq(Writes \X Ports)
      BY <1>0 DEF TypeOK
    <3>2. bus' = Append(bus, <<Head(awq[p]), p>>) /\ Len(bus) < MaxWTrans
      BY <1>18 DEF AwGrant
    <3> QED BY <1>18, <2>2, <3>1, <3>2, CcuTopAssumption
  <2> QED BY <1>0, <1>18, <2>1, <2>3, <2>4 DEF AwGrant, TypeOK
<1> QED BY <1>1, <1>2, <1>3, <1>4, <1>5, <1>6, <1>7, <1>8, <1>9, <1>10, <1>11, <1>12,
           <1>13, <1>14, <1>15, <1>16, <1>17, <1>18, <1>19 DEF Next, CoreStep, CcuStep
-----------------------------------------------------------------------------
(***************************************************************************)
(* The writes on their way to memory.                                      *)
(***************************************************************************)
\* What a new write does to the queues.
LEMMA PushQueue ==
  ASSUME TypeOK, NEW p \in Ports, NEW op \in Ops, NEW d \in Data, Push(p, op, d)
  PROVE  /\ \A q \in Ports : q # p => awq'[q] = awq[q]
         /\ Len(awq[p]) \in Nat /\ Len(awq'[p]) = Len(awq[p]) + 1
         /\ \A i \in 1 .. Len(awq[p]) : awq'[p][i] = awq[p][i]
         /\ awq'[p][Len(awq[p]) + 1].op = op /\ awq'[p][Len(awq[p]) + 1].data = d
<1> DEFINE w == [op |-> op, data |-> d]
<1>1. w \in Writes
  BY DEF Writes
<1>2. awq' = [awq EXCEPT ![p] = Append(awq[p], w)]
  BY DEF Push
<1>6. w.op = op /\ w.data = d
  OBVIOUS
<1> HIDE DEF w
<1>3. awq[p] \in Seq(Writes) /\ awq'[p] = Append(awq[p], w)
  BY <1>2 DEF TypeOK
<1>4. Len(awq[p]) \in Nat /\ Len(awq'[p]) = Len(awq[p]) + 1
  BY <1>1, <1>3
<1>5. /\ \A i \in 1 .. Len(awq[p]) : awq'[p][i] = awq[p][i]
      /\ awq'[p][Len(awq[p]) + 1] = w
  BY <1>1, <1>3
<1>7. \A q \in Ports : q # p => awq'[q] = awq[q]
  BY <1>2 DEF TypeOK
<1> QED BY <1>4, <1>5, <1>6, <1>7

\* A new write waits, and nothing else changes.
LEMMA PushWaiting ==
  ASSUME TypeOK, NEW p \in Ports, NEW op \in Ops, NEW d \in Data, Push(p, op, d),
         NEW q \in Ports, NEW o \in Ops
  PROVE  Waiting(q, o)' <=> Waiting(q, o) \/ (q = p /\ o = op)
<1>1. CASE q # p
  BY <1>1, PushQueue DEF Waiting
<1>2. CASE q = p
  <2>1. Len(awq[p]) \in Nat /\ Len(awq'[p]) = Len(awq[p]) + 1
    BY PushQueue
  <2>2. 1 .. Len(awq'[p]) = (1 .. Len(awq[p])) \cup {Len(awq[p]) + 1}
    BY <2>1
  <2>3. awq'[p][Len(awq[p]) + 1].op = op
    BY PushQueue
  <2>4. \A i \in 1 .. Len(awq[p]) : awq'[p][i].op = awq[p][i].op
    BY PushQueue
  <2>5. Waiting(p, o)' <=> \E i \in 1 .. Len(awq'[p]) : awq'[p][i].op = o
    BY DEF Waiting
  <2> HIDE DEF Waiting
  <2>6. Waiting(p, o)' <=> (\E i \in 1 .. Len(awq[p]) : awq[p][i].op = o) \/ o = op
    BY <2>2, <2>3, <2>4, <2>5
  <2> QED BY <1>2, <2>6 DEF Waiting
<1> QED BY <1>1, <1>2

\* Each port has at most one write of each kind waiting at the mux, and at most one on
\* the bus.
AwqOrder ==
  \A p \in Ports : \A i, j \in 1 .. Len(awq[p]) : awq[p][i].op = awq[p][j].op => i = j
BusOrder ==
  \A i, j \in 1 .. Len(bus) : bus[i][1].op = bus[j][1].op /\ bus[i][2] = bus[j][2] => i = j

\* A new write of a kind that does not wait yet keeps the queues free of doubles.
LEMMA PushOrder ==
  ASSUME TypeOK, NEW p \in Ports, NEW op \in Ops, NEW d \in Data, Push(p, op, d),
         ~Waiting(p, op), AwqOrder
  PROVE  AwqOrder'
<1> SUFFICES ASSUME NEW q \in Ports, NEW i \in 1 .. Len(awq'[q]), NEW j \in 1 .. Len(awq'[q]),
                    awq'[q][i].op = awq'[q][j].op
             PROVE  i = j
  BY DEF AwqOrder
<1>1. CASE q # p
  <2>1. awq'[q] = awq[q]
    BY <1>1, PushQueue
  <2> QED BY <2>1 DEF AwqOrder
<1>2. CASE q = p
  <2>1. Len(awq[p]) \in Nat /\ Len(awq'[p]) = Len(awq[p]) + 1
    BY PushQueue
  <2>2. /\ i \in 1 .. Len(awq[p]) \/ i = Len(awq[p]) + 1
        /\ j \in 1 .. Len(awq[p]) \/ j = Len(awq[p]) + 1
    BY <1>2, <2>1
  <2>3. awq'[p][Len(awq[p]) + 1].op = op
    BY PushQueue
  <2>4. \A k \in 1 .. Len(awq[p]) : awq'[p][k].op = awq[p][k].op /\ awq[p][k].op # op
    BY PushQueue DEF Waiting
  <2> QED BY <1>2, <2>2, <2>3, <2>4 DEF AwqOrder
<1> QED BY <1>1, <1>2

\* What a granted AW does to the queue and to the bus.
LEMMA GrantQueue ==
  ASSUME TypeOK, NEW p \in Ports, AwGrant(p)
  PROVE  /\ \A q \in Ports : q # p => awq'[q] = awq[q]
         /\ Len(awq[p]) \in Nat \ {0} /\ Len(awq'[p]) = Len(awq[p]) - 1
         /\ \A i \in 1 .. Len(awq'[p]) : awq'[p][i] = awq[p][i + 1]
         /\ Len(bus) \in Nat /\ Len(bus') = Len(bus) + 1
         /\ \A i \in 1 .. Len(bus) : bus'[i] = bus[i]
         /\ bus'[Len(bus) + 1] = <<awq[p][1], p>>
         /\ awq[p][1] \in Writes /\ awq[p][1].op \in Ops
<1>1. awq[p] \in Seq(Writes) /\ awq[p] # <<>> /\ awq'[p] = Tail(awq[p])
  BY DEF AwGrant, TypeOK
<1>2. bus \in Seq(Writes \X Ports) /\ bus' = Append(bus, <<Head(awq[p]), p>>)
  BY DEF AwGrant, TypeOK
<1>3. Head(awq[p]) = awq[p][1] /\ Head(awq[p]) \in Writes /\ awq[p][1].op \in Ops
  <2>1. Head(awq[p]) = awq[p][1] /\ awq[p][1] \in Writes
    BY <1>1
  <2>2. \A w \in Writes : w.op \in Ops
    BY DEF Writes
  <2> QED BY <2>1, <2>2
<1>4. /\ Len(awq[p]) \in Nat \ {0} /\ Len(awq'[p]) = Len(awq[p]) - 1
      /\ \A i \in 1 .. Len(awq'[p]) : awq'[p][i] = awq[p][i + 1]
  BY <1>1
<1>5. /\ Len(bus) \in Nat /\ Len(bus') = Len(bus) + 1
      /\ \A i \in 1 .. Len(bus) : bus'[i] = bus[i]
      /\ bus'[Len(bus) + 1] = <<awq[p][1], p>>
  BY <1>2, <1>3
<1>6. \A q \in Ports : q # p => awq'[q] = awq[q]
  BY DEF AwGrant, TypeOK
<1> QED BY <1>3, <1>4, <1>5, <1>6

\* The granted write leaves the queue and is on the bus.
LEMMA GrantWaiting ==
  ASSUME TypeOK, AwqOrder, NEW p \in Ports, AwGrant(p), NEW q \in Ports, NEW o \in Ops
  PROVE  /\ Waiting(p, awq[p][1].op)
         /\ Waiting(q, o)' <=> Waiting(q, o) /\ ~(q = p /\ o = awq[p][1].op)
         /\ OnBus(q, o)' <=> OnBus(q, o) \/ (q = p /\ o = awq[p][1].op)
<1> DEFINE n == Len(awq[p])
<1>1. n \in Nat \ {0} /\ Len(awq'[p]) = n - 1
  BY GrantQueue
<1>2. Waiting(p, awq[p][1].op)
  BY <1>1 DEF Waiting
<1>3. Waiting(q, o)' <=> Waiting(q, o) /\ ~(q = p /\ o = awq[p][1].op)
  <2>1. CASE q # p
    BY <2>1, GrantQueue DEF Waiting
  <2>2. CASE q = p
    <3>1. Waiting(p, o)' <=> \E i \in 1 .. n - 1 : awq'[p][i].op = o
      BY <1>1 DEF Waiting
    <3>2. \A i \in 1 .. n - 1 : awq'[p][i].op = awq[p][i + 1].op
      BY <1>1, GrantQueue
    <3>3. \A i \in 1 .. n - 1 : awq[p][i + 1].op # awq[p][1].op
      BY <1>1 DEF AwqOrder
    <3>4. ASSUME Waiting(p, o)' PROVE Waiting(p, o) /\ o # awq[p][1].op
      <4>1. PICK i \in 1 .. n - 1 : awq'[p][i].op = o
        BY <3>1, <3>4
      <4>2. i + 1 \in 1 .. n /\ awq[p][i + 1].op = o
        BY <1>1, <3>2, <4>1
      <4> QED BY <3>3, <4>2 DEF Waiting
    <3>5. ASSUME Waiting(p, o), o # awq[p][1].op PROVE Waiting(p, o)'
      <4>1. PICK i \in 1 .. n : awq[p][i].op = o
        BY <3>5 DEF Waiting
      <4>2. i - 1 \in 1 .. n - 1 /\ i = (i - 1) + 1
        BY <1>1, <3>5, <4>1
      <4>3. awq'[p][i - 1].op = o
        BY <3>2, <4>1, <4>2
      <4> QED BY <3>1, <4>2, <4>3
    <3> QED BY <2>2, <3>4, <3>5
  <2> QED BY <2>1, <2>2
<1>4. OnBus(q, o)' <=> OnBus(q, o) \/ (q = p /\ o = awq[p][1].op)
  <2>1. Len(bus) \in Nat /\ 1 .. Len(bus') = (1 .. Len(bus)) \cup {Len(bus) + 1}
    BY GrantQueue
  <2>2. /\ \A i \in 1 .. Len(bus) : bus'[i] = bus[i]
        /\ bus'[Len(bus) + 1][1] = awq[p][1] /\ bus'[Len(bus) + 1][2] = p
    BY GrantQueue
  <2> QED BY <2>1, <2>2 DEF OnBus
<1> QED BY <1>2, <1>3, <1>4

\* A granted write that is not on the bus yet is there once.
LEMMA GrantOrder ==
  ASSUME TypeOK, AwqOrder, BusOrder, NEW p \in Ports, AwGrant(p), ~OnBus(p, awq[p][1].op)
  PROVE  AwqOrder' /\ BusOrder'
<1>1. AwqOrder'
  <2> SUFFICES ASSUME NEW q \in Ports, NEW i \in 1 .. Len(awq'[q]), NEW j \in 1 .. Len(awq'[q]),
                      awq'[q][i].op = awq'[q][j].op
               PROVE  i = j
    BY DEF AwqOrder
  <2>1. CASE q # p
    <3>1. awq'[q] = awq[q]
      BY <2>1, GrantQueue
    <3> QED BY <3>1 DEF AwqOrder
  <2>2. CASE q = p
    <3>1. Len(awq[p]) \in Nat \ {0} /\ Len(awq'[p]) = Len(awq[p]) - 1
      BY GrantQueue
    <3>2. i + 1 \in 1 .. Len(awq[p]) /\ j + 1 \in 1 .. Len(awq[p])
      BY <2>2, <3>1
    <3>3. awq[p][i + 1].op = awq[p][j + 1].op
      BY <2>2, GrantQueue
    <3>4. i + 1 = j + 1
      BY <3>2, <3>3 DEF AwqOrder
    <3> QED BY <2>2, <3>1, <3>4
  <2> QED BY <2>1, <2>2
<1>2. BusOrder'
  <2> SUFFICES ASSUME NEW i \in 1 .. Len(bus'), NEW j \in 1 .. Len(bus'),
                      bus'[i][1].op = bus'[j][1].op, bus'[i][2] = bus'[j][2]
               PROVE  i = j
    BY DEF BusOrder
  <2>1. Len(bus) \in Nat /\ Len(bus') = Len(bus) + 1
    BY GrantQueue
  <2>2. /\ i \in 1 .. Len(bus) \/ i = Len(bus) + 1
        /\ j \in 1 .. Len(bus) \/ j = Len(bus) + 1
    BY <2>1
  <2>3. bus'[Len(bus) + 1][1] = awq[p][1] /\ bus'[Len(bus) + 1][2] = p
    BY GrantQueue
  <2>4. \A k \in 1 .. Len(bus) :
          bus'[k] = bus[k] /\ ~(bus[k][1].op = awq[p][1].op /\ bus[k][2] = p)
    BY GrantQueue DEF OnBus
  <2> QED BY <2>2, <2>3, <2>4 DEF BusOrder
<1> QED BY <1>1, <1>2

\* Memory performs the oldest write on the bus.
LEMMA MemQueue ==
  ASSUME TypeOK, MemWrite
  PROVE  /\ Len(bus) \in Nat \ {0} /\ Len(bus') = Len(bus) - 1
         /\ \A i \in 1 .. Len(bus') : bus'[i] = bus[i + 1]
         /\ bus[1][1].op \in Ops /\ bus[1][1].data \in Data /\ bus[1][2] \in Ports
<1>1. bus \in Seq(Writes \X Ports) /\ bus # <<>> /\ bus' = Tail(bus)
  BY DEF MemWrite, TypeOK
<1>2. /\ Len(bus) \in Nat \ {0} /\ Len(bus') = Len(bus) - 1
      /\ \A i \in 1 .. Len(bus') : bus'[i] = bus[i + 1]
  BY <1>1
<1>3. 1 \in 1 .. Len(bus)
  BY <1>2
<1> QED BY <1>2, <1>3, QueueTypes

\* That write is on the bus before and not after.
LEMMA MemOnBus ==
  ASSUME TypeOK, BusOrder, MemWrite, NEW q \in Ports, NEW o \in Ops
  PROVE  /\ OnBus(bus[1][2], bus[1][1].op)
         /\ OnBus(q, o)' <=> OnBus(q, o) /\ ~(q = bus[1][2] /\ o = bus[1][1].op)
<1> DEFINE n == Len(bus)
<1>1. n \in Nat \ {0} /\ Len(bus') = n - 1
  BY MemQueue
<1>2. OnBus(bus[1][2], bus[1][1].op)
  BY <1>1 DEF OnBus
<1>3. \A i \in 1 .. n - 1 : bus'[i] = bus[i + 1]
  BY <1>1, MemQueue
<1>4. OnBus(q, o)' <=> \E i \in 1 .. n - 1 : bus'[i][1].op = o /\ bus'[i][2] = q
  BY <1>1 DEF OnBus
<1>5. ASSUME OnBus(q, o)' PROVE OnBus(q, o) /\ ~(q = bus[1][2] /\ o = bus[1][1].op)
  <2>1. PICK i \in 1 .. n - 1 : bus'[i][1].op = o /\ bus'[i][2] = q
    BY <1>4, <1>5
  <2>2. i + 1 \in 1 .. n /\ i + 1 # 1 /\ 1 \in 1 .. n
    BY <1>1
  <2>3. bus[i + 1][1].op = o /\ bus[i + 1][2] = q
    BY <1>3, <2>1
  <2> QED BY <2>2, <2>3 DEF OnBus, BusOrder
<1>6. ASSUME OnBus(q, o), ~(q = bus[1][2] /\ o = bus[1][1].op) PROVE OnBus(q, o)'
  <2>1. PICK i \in 1 .. n : bus[i][1].op = o /\ bus[i][2] = q
    BY <1>6 DEF OnBus
  <2>2. i # 1
    BY <1>6, <2>1
  <2>3. i - 1 \in 1 .. n - 1 /\ i = (i - 1) + 1
    BY <1>1, <2>2
  <2>4. bus'[i - 1] = bus[i]
    BY <1>3, <2>3
  <2> QED BY <1>4, <2>1, <2>3, <2>4
<1> QED BY <1>2, <1>5, <1>6

\* The others keep their order.
LEMMA MemOrder ==
  ASSUME TypeOK, BusOrder, MemWrite
  PROVE  BusOrder'
<1> SUFFICES ASSUME NEW i \in 1 .. Len(bus'), NEW j \in 1 .. Len(bus'),
                    bus'[i][1].op = bus'[j][1].op, bus'[i][2] = bus'[j][2]
             PROVE  i = j
  BY DEF BusOrder
<1>1. Len(bus) \in Nat \ {0} /\ Len(bus') = Len(bus) - 1
  BY MemQueue
<1>2. i + 1 \in 1 .. Len(bus) /\ j + 1 \in 1 .. Len(bus)
  BY <1>1
<1>3. bus'[i] = bus[i + 1] /\ bus'[j] = bus[j + 1]
  BY MemQueue
<1>4. i + 1 = j + 1
  BY <1>2, <1>3 DEF BusOrder
<1> QED BY <1>1, <1>4

\* A miss handler that is not waiting for the coherence unit changes state: the
\* transaction in progress is not about it.
LEMMA RequestKept ==
  ASSUME IndInv, NEW c \in Cores, mh[c] \notin Requests, ccu.state \notin {"IDLE", "CLEAN_WB"} \/ CcuOwns,
         ccu' = ccu, \A d \in Cores : d # c => mh'[d] = mh[d]
  PROVE  c # ccu.init /\ Request' = Request
<1>1. Request \in Requests
  BY DEF IndInv, InvCcu, CcuOwns, Idle, Requests
<1>2. c # ccu.init
  BY <1>1 DEF Request
<1> QED BY <1>2 DEF Request, IndInv, TypeOK

\* A write keeps its place while its port still waits for it or takes its B.
LEMMA WriteKept ==
  ASSUME IndInv, NEW p \in Ports, NEW op \in Ops,
         awq' = awq, bus' = bus, <<op, p>> \in bq' => <<op, p>> \in bq,
         \/ Expected(p, op) => Expected(p, op)'
         \/ <<op, p>> \in bq /\ <<op, p>> \notin bq'
  PROVE  InvWrite(p, op)'
<1>1. InvWrite(p, op)
  BY WriteFacts
<1>2. (Waiting(p, op)' <=> Waiting(p, op)) /\ (OnBus(p, op)' <=> OnBus(p, op))
  BY DEF Waiting, OnBus
<1> QED BY <1>1, <1>2 DEF InvWrite

\* A new write is in one place only.
LEMMA WritePushed ==
  ASSUME IndInv, NEW q \in Ports, NEW o \in Ops, NEW d \in Data, Push(q, o, d),
         NEW p \in Ports, NEW op \in Ops,
         bus' = bus, <<op, p>> \in bq' => <<op, p>> \in bq,
         ~Expected(q, o), Expected(q, o)',
         \/ Expected(p, op) => Expected(p, op)'
         \/ <<op, p>> \in bq /\ <<op, p>> \notin bq'
  PROVE  InvWrite(p, op)'
<1>1. InvWrite(p, op) /\ InvWrite(q, o)
  BY WriteFacts
<1>2. Waiting(p, op)' <=> Waiting(p, op) \/ (p = q /\ op = o)
  BY PushWaiting DEF IndInv
<1>3. OnBus(p, op)' <=> OnBus(p, op)
  BY DEF OnBus
<1> QED BY <1>1, <1>2, <1>3 DEF InvWrite

\* Every step keeps InvWrite: a write of a port is in at most one of queue, bus and B,
\* and exactly while the port expects it.
LEMMA WriteStep ==
  ASSUME IndInv, Next, NEW p \in Ports, NEW op \in Ops
  PROVE  InvWrite(p, op)'
<1> USE PortFacts, PortCases
<1>0. TypeOK /\ InvCcu /\ ccu.init \in Cores /\ mh \in [Cores -> {"IDLE"} \cup Requests \cup WbStates]
  BY DEF IndInv, TypeOK
<1>1. ASSUME NEW c \in Cores, LoadHit(c) \/ StoreHit(c) \/ Drop(c) PROVE InvWrite(p, op)'
  <2>1. UNCHANGED <<awq, bus, bq, mh, ccu, byp>>
    BY <1>1 DEF LoadHit, StoreHit, Drop
  <2> QED BY <2>1, WriteKept DEF Expected, Request
<1>2. ASSUME NEW c \in Cores, NEW r \in Requests, Miss(c, r) \/ Atomic(c, r) PROVE InvWrite(p, op)'
  <2>1. UNCHANGED <<awq, bus, bq, ccu, byp>> /\ mh[c] = "IDLE" /\ \A d \in Cores : d # c => mh'[d] = mh[d]
    BY <1>0, <1>2 DEF Miss, Atomic
  <2>2. ccu.state \notin {"IDLE", "CLEAN_WB"} => Request' = Request
    BY <2>1, RequestKept, AtomicStates
  <2>3. Expected(p, op) => Expected(p, op)'
    BY <1>0, <2>1, <2>2, AtomicStates DEF Expected
  <2> QED BY <2>1, <2>3, WriteKept
<1>3. ASSUME NEW c \in Cores, NEW s \in WbStates, WriteBack(c, s) PROVE InvWrite(p, op)'
  <2>1. UNCHANGED <<bus, bq, ccu, byp>> /\ mh[c] = "IDLE" /\ mh' = [mh EXCEPT ![c] = s]
    BY <1>3 DEF WriteBack
  <2>2. mh'[c] = s
    BY <1>0, <2>1
  <2>3. ccu.state \notin {"IDLE", "CLEAN_WB"} => Request' = Request
    BY <2>1, <2>2, RequestKept, AtomicStates
  <2>4. Expected(p, op) => Expected(p, op)'
    BY <1>0, <2>1, <2>3, AtomicStates DEF Expected
  <2>5. ~Expected(c, "WB") /\ Expected(c, "WB")'
    BY <2>1, <2>2, AtomicStates DEF Expected
  <2>6. line[c].data \in Data /\ Push(c, "WB", line[c].data)
    BY <1>0, <1>3 DEF WriteBack, TypeOK, Line
  <2> QED BY <2>1, <2>4, <2>5, <2>6, WritePushed DEF Ops
<1>4. ASSUME NEW c \in Cores, WriteBackDone(c) PROVE InvWrite(p, op)'
  <2>1. UNCHANGED <<awq, bus, ccu, byp>> /\ <<"WB", c>> \in bq /\ bq' = bq \ {<<"WB", c>>}
    BY <1>4 DEF WriteBackDone
  <2>2. \A d \in Cores : d # c => mh'[d] = mh[d]
    BY <1>0, <1>4 DEF WriteBackDone
  <2>3. mh[c] \in WbStates
    BY <2>1, WriteFacts DEF InvWrite, Expected, Ops
  <2>4. ccu.state \notin {"IDLE", "CLEAN_WB"} => Request' = Request
    BY <2>1, <2>2, <2>3, RequestKept, AtomicStates
  <2>5. ~(p = c /\ op = "WB") => (Expected(p, op) => Expected(p, op)')
    BY <1>0, <2>1, <2>2, <2>4 DEF Expected
  <2> QED BY <2>1, <2>5, WriteKept
<1>5. ASSUME NEW c \in Cores, BypassWrite(c) PROVE InvWrite(p, op)'
  <2>1. UNCHANGED <<bus, bq, ccu, mh>> /\ c \notin byp /\ byp' = byp \cup {c}
    BY <1>5 DEF BypassWrite
  <2>2. Expected(p, op) => Expected(p, op)'
    BY <2>1 DEF Expected, Request
  <2>3. ~Expected(c, "OTHER") /\ Expected(c, "OTHER")'
    BY <2>1 DEF Expected
  <2>4. Push(c, "OTHER", 0) /\ 0 \in Data
    BY <1>5, DataType DEF BypassWrite
  <2> QED BY <2>1, <2>2, <2>3, <2>4, WritePushed DEF Ops
<1>6. ASSUME NEW c \in Cores, BypassDone(c) PROVE InvWrite(p, op)'
  <2>1. /\ UNCHANGED <<awq, bus, ccu, mh>> /\ byp' = byp \ {c}
        /\ <<"OTHER", c>> \in bq /\ bq' = bq \ {<<"OTHER", c>>}
    BY <1>6 DEF BypassDone
  <2>2. ~(p = c /\ op = "OTHER") => (Expected(p, op) => Expected(p, op)')
    BY <2>1 DEF Expected, Request
  <2> QED BY <2>1, <2>2, WriteKept
<1>7. ASSUME NEW c \in Cores, Accept(c) PROVE InvWrite(p, op)'
  <2>1. UNCHANGED <<awq, bus, bq, mh, byp>> /\ ccu.state = "IDLE"
    BY <1>7 DEF Accept
  <2>2. Expected(p, op) => Expected(p, op)'
    BY <2>1 DEF Expected
  <2> QED BY <2>1, <2>2, WriteKept
<1>8. ASSUME NEW c \in Cores, Snoop(c) PROVE InvWrite(p, op)'
  <2>1. UNCHANGED <<awq, bus, bq, mh, byp>> /\ ccu.state = "SNOOP"
    BY <1>8 DEF Snoop
  <2>2. Expected(p, op) => Expected(p, op)'
    BY <2>1 DEF Expected
  <2> QED BY <2>1, <2>2, WriteKept
<1>9. CASE SnoopDone
  <2>1. UNCHANGED <<bus, bq, mh, byp>> /\ ccu.state = "SNOOP" /\ ccu'.init = ccu.init
    BY <1>0, <1>9 DEF SnoopDone, TypeOK
  <2>2. ~Expected(CCU, "WB") /\ ~Expected(CCU, "AMO") /\ ~Expected(CCU, "SC") /\ Request' = Request
    BY <2>1 DEF Expected, Request
  <2>3. Expected(p, op) => Expected(p, op)'
    BY <2>1 DEF Expected
  <2>4. CASE ccu.dirty /\ Request \in Atomics
    <3>1. Push(CCU, "WB", ccu.data) /\ Expected(CCU, "WB")'
      BY <1>0, <1>9, <2>4 DEF SnoopDone, Expected, TypeOK
    <3>2. ccu.data \in Data
      BY <1>0, <2>1, <2>4 DEF InvCcu, CcuOwns, TypeOK
    <3> QED BY <2>1, <2>2, <2>3, <3>1, <3>2, WritePushed DEF Ops
  <2>5. CASE ~(ccu.dirty /\ Request \in Atomics) /\ Request \in {"AMO", "SC"}
    <3>0. ccu.data = None
      BY <1>0, <2>1, <2>5 DEF InvCcu, Requests
    <3>1. Push(CCU, Request, 0) /\ ccu'.state = "MEM"
      BY <1>0, <1>9, <2>5, <3>0 DEF SnoopDone, TypeOK
    <3>2. Expected(CCU, Request)'
      BY <2>2, <2>5, <3>1 DEF Expected
    <3>3. CASE Request = "AMO"
      BY <2>1, <2>2, <2>3, <3>1, <3>2, <3>3, DataType, WritePushed DEF Ops
    <3>4. CASE Request = "SC"
      BY <2>1, <2>2, <2>3, <3>1, <3>2, <3>4, DataType, WritePushed DEF Ops
    <3> QED BY <2>5, <3>3, <3>4
  <2>6. CASE ~(ccu.dirty /\ Request \in Atomics) /\ Request \notin {"AMO", "SC"}
    BY <1>9, <2>1, <2>3, <2>6, WriteKept DEF SnoopDone
  <2> QED BY <2>4, <2>5, <2>6
<1>10. CASE CcuWriteBackDone
  <2>1. /\ UNCHANGED <<bus, mh, byp>> /\ ccu.state = "WRITE_BACK" /\ ccu'.init = ccu.init
        /\ <<"WB", CCU>> \in bq /\ bq' = bq \ {<<"WB", CCU>>}
    BY <1>0, <1>10 DEF CcuWriteBackDone, TypeOK
  <2>2. ~Expected(CCU, "AMO") /\ ~Expected(CCU, "SC") /\ Request' = Request
    BY <2>1 DEF Expected, Request
  <2>3. ~(p = CCU /\ op = "WB") => (Expected(p, op) => Expected(p, op)')
    BY <2>1 DEF Expected
  <2>4. CASE Request \in {"AMO", "SC"}
    <3>1. Push(CCU, Request, 0) /\ ccu'.state = "MEM"
      BY <1>0, <1>10, <2>4 DEF CcuWriteBackDone, TypeOK
    <3>2. Expected(CCU, Request)'
      BY <2>2, <2>4, <3>1 DEF Expected
    <3>3. CASE Request = "AMO"
      BY <2>1, <2>2, <2>3, <3>1, <3>2, <3>3, DataType, WritePushed DEF Ops
    <3>4. CASE Request = "SC"
      BY <2>1, <2>2, <2>3, <3>1, <3>2, <3>4, DataType, WritePushed DEF Ops
    <3> QED BY <2>4, <3>3, <3>4
  <2>5. CASE Request \notin {"AMO", "SC"}
    BY <1>10, <2>1, <2>3, <2>5, WriteKept DEF CcuWriteBackDone
  <2> QED BY <2>4, <2>5
<1>15. CASE CleanWriteBackDone
  <2>1. /\ UNCHANGED <<awq, bus, mh, byp>> /\ ccu.state = "CLEAN_WB"
        /\ <<"WB", CCU>> \in bq /\ bq' = bq \ {<<"WB", CCU>>}
    BY <1>15 DEF CleanWriteBackDone
  <2>2. ~(p = CCU /\ op = "WB") => (Expected(p, op) => Expected(p, op)')
    BY <2>1 DEF Expected
  <2> QED BY <2>1, <2>2, WriteKept
<1>11. CASE MemAnswer
  <2>1. UNCHANGED <<awq, bus, mh, byp>> /\ ccu.state = "MEM"
    BY <1>11 DEF MemAnswer
  <2>2. /\ Request \in {"AMO", "SC"} => <<Request, CCU>> \in bq /\ bq' = bq \ {<<Request, CCU>>}
        /\ Request \notin {"AMO", "SC"} => bq' = bq
    BY <1>11 DEF MemAnswer
  <2>3. ~(p = CCU /\ op = Request /\ op \in {"AMO", "SC"}) => (Expected(p, op) => Expected(p, op)')
    BY <2>1 DEF Expected
  <2> QED BY <2>1, <2>2, <2>3, WriteKept
<1>12. CASE Respond
  <2>1. UNCHANGED <<bus, bq, byp>> /\ ccu.state = "RESP" /\ \A d \in Cores : d # ccu.init => mh'[d] = mh[d]
    BY <1>0, <1>12 DEF Respond, MissDone
  <2>2. Request \notin WbStates
    BY <1>0, <2>1, AtomicStates DEF InvCcu
  <2>3. Expected(p, op) => Expected(p, op)'
    BY <1>0, <2>1, <2>2 DEF Expected, Request
  <2>4. CASE ccu' = Idle /\ awq' = awq
    BY <2>1, <2>3, <2>4, WriteKept
  <2>5. CASE ccu.data \in Data /\ Push(CCU, "WB", ccu.data) /\ ccu'.state = "CLEAN_WB"
    <3>1. ~Expected(CCU, "WB") /\ Expected(CCU, "WB")'
      BY <2>1, <2>5 DEF Expected
    <3> QED BY <2>1, <2>3, <2>5, <3>1, WritePushed DEF Ops
  <2> QED BY <1>12, <2>4, <2>5, ReleasedFacts
<1>13. CASE MemWrite
  <2>1. UNCHANGED <<awq, mh, byp, ccu>> /\ bq' = bq \cup {<<bus[1][1].op, bus[1][2]>>}
    BY <1>13 DEF MemWrite
  <2>2. Expected(p, op)' <=> Expected(p, op)
    BY <2>1 DEF Expected, Request
  <2>3. Waiting(p, op)' <=> Waiting(p, op)
    BY <2>1 DEF Waiting
  <2>4. /\ OnBus(bus[1][2], bus[1][1].op)
        /\ OnBus(p, op)' <=> OnBus(p, op) /\ ~(p = bus[1][2] /\ op = bus[1][1].op)
    BY <1>13, MemOnBus DEF IndInv, InvOrder, BusOrder
  <2> QED BY <2>1, <2>2, <2>3, <2>4, WriteFacts DEF InvWrite
<1>14. ASSUME NEW q \in Ports, AwGrant(q) PROVE InvWrite(p, op)'
  <2>1. UNCHANGED <<bq, mh, byp, ccu>>
    BY <1>14 DEF AwGrant
  <2>2. Expected(p, op)' <=> Expected(p, op)
    BY <2>1 DEF Expected, Request
  <2>3. /\ Waiting(q, awq[q][1].op)
        /\ Waiting(p, op)' <=> Waiting(p, op) /\ ~(p = q /\ op = awq[q][1].op)
        /\ OnBus(p, op)' <=> OnBus(p, op) \/ (p = q /\ op = awq[q][1].op)
    BY <1>14, GrantWaiting DEF IndInv, InvOrder, AwqOrder
  <2> QED BY <2>1, <2>2, <2>3, WriteFacts DEF InvWrite
<1> QED BY <1>1, <1>2, <1>3, <1>4, <1>5, <1>6, <1>7, <1>8, <1>9, <1>10, <1>11, <1>12,
           <1>13, <1>14, <1>15 DEF Next, CoreStep, CcuStep

\* Every step keeps the queues and the bus free of doubles.
LEMMA OrderStep ==
  ASSUME IndInv, Next
  PROVE  InvOrder'
<1> USE PortFacts
<1>0. TypeOK /\ AwqOrder /\ BusOrder
  BY DEF IndInv, InvOrder, AwqOrder, BusOrder
<1> SUFFICES AwqOrder' /\ BusOrder'
  BY DEF InvOrder, AwqOrder, BusOrder
<1>1. ASSUME UNCHANGED <<awq, bus>> PROVE AwqOrder' /\ BusOrder'
  BY <1>0, <1>1 DEF AwqOrder, BusOrder
<1>2. ASSUME NEW q \in Ports, NEW o \in Ops, NEW d \in Data, Push(q, o, d), ~Expected(q, o), bus' = bus
      PROVE  AwqOrder' /\ BusOrder'
  <2>1. ~Waiting(q, o)
    BY <1>2, WriteFacts DEF InvWrite
  <2>2. AwqOrder'
    BY <1>0, <1>2, <2>1, PushOrder
  <2> QED BY <1>0, <1>2, <2>2 DEF BusOrder
<1>3. ASSUME NEW c \in Cores, NEW s \in WbStates, WriteBack(c, s) PROVE AwqOrder' /\ BusOrder'
  <2>1. ~Expected(c, "WB") /\ bus' = bus
    BY <1>3, AtomicStates DEF WriteBack, Expected
  <2>2. line[c].data \in Data /\ Push(c, "WB", line[c].data)
    BY <1>0, <1>3 DEF WriteBack, TypeOK, Line
  <2> QED BY <1>2, <2>1, <2>2 DEF Ops
<1>4. ASSUME NEW c \in Cores, BypassWrite(c) PROVE AwqOrder' /\ BusOrder'
  <2>1. ~Expected(c, "OTHER") /\ bus' = bus /\ Push(c, "OTHER", 0)
    BY <1>4 DEF BypassWrite, Expected
  <2> QED BY <1>2, <2>1, DataType DEF Ops
<1>5. CASE SnoopDone
  <2>1. ~Expected(CCU, "WB") /\ ~Expected(CCU, "AMO") /\ ~Expected(CCU, "SC") /\ bus' = bus
    BY <1>5 DEF SnoopDone, Expected
  <2>2. ccu.dirty => ccu.data \in Data
    BY <1>0, <1>5 DEF SnoopDone, IndInv, InvCcu, CcuOwns, TypeOK
  <2>3. \/ UNCHANGED awq
        \/ ccu.dirty /\ Push(CCU, "WB", ccu.data)
        \/ Push(CCU, "AMO", 0)
        \/ Push(CCU, "SC", 0)
    BY <1>5 DEF SnoopDone
  <2> QED BY <1>1, <1>2, <2>1, <2>2, <2>3, DataType DEF Ops
<1>6. CASE CcuWriteBackDone
  <2>1. ~Expected(CCU, "AMO") /\ ~Expected(CCU, "SC") /\ bus' = bus
    BY <1>6 DEF CcuWriteBackDone, Expected
  <2>2. UNCHANGED awq \/ Push(CCU, "AMO", 0) \/ Push(CCU, "SC", 0)
    BY <1>6 DEF CcuWriteBackDone
  <2> QED BY <1>1, <1>2, <2>1, <2>2, DataType DEF Ops
<1>7. CASE MemWrite
  <2>1. BusOrder'
    BY <1>0, <1>7, MemOrder
  <2> QED BY <1>0, <1>7, <2>1 DEF MemWrite, AwqOrder
<1>8. ASSUME NEW p \in Ports, AwGrant(p) PROVE AwqOrder' /\ BusOrder'
  <2>1. awq[p][1].op \in Ops
    BY <1>0, <1>8, GrantQueue
  <2>2. Waiting(p, awq[p][1].op)
    BY <1>0, <1>8, <2>1, GrantWaiting
  <2>3. ~OnBus(p, awq[p][1].op)
    BY <2>1, <2>2, WriteFacts DEF InvWrite
  <2> QED BY <1>0, <1>8, <2>3, GrantOrder
<1>9. ASSUME NEW c \in Cores,
             \/ LoadHit(c) \/ StoreHit(c) \/ Drop(c) \/ WriteBackDone(c) \/ BypassDone(c)
             \/ Accept(c) \/ Snoop(c) \/ \E r \in Requests : Miss(c, r) \/ Atomic(c, r)
      PROVE  AwqOrder' /\ BusOrder'
  <2>1. UNCHANGED <<awq, bus>>
    BY <1>9 DEF LoadHit, StoreHit, Drop, WriteBackDone, BypassDone, Accept, Snoop, Miss, Atomic
  <2> QED BY <1>1, <2>1
<1>10. CASE MemAnswer \/ CleanWriteBackDone
  <2>1. UNCHANGED <<awq, bus>>
    BY <1>10 DEF MemAnswer, CleanWriteBackDone
  <2> QED BY <1>1, <2>1
<1>11. CASE Respond
  <2>1. ~Expected(CCU, "WB") /\ bus' = bus
    BY <1>11 DEF Respond, Expected
  <2> QED BY <1>1, <1>2, <1>11, <2>1, ReleasedFacts DEF Ops
<1> QED BY <1>3, <1>4, <1>5, <1>6, <1>7, <1>8, <1>9, <1>10, <1>11 DEF Next, CoreStep, CcuStep
-----------------------------------------------------------------------------
(***************************************************************************)
(* The copies in the caches: what each action does to them.                *)
(***************************************************************************)
\* The types of a line and of its miss handler.
LEMMA LineFacts ==
  ASSUME TypeOK, NEW c \in Cores
  PROVE  /\ line[c].valid \in BOOLEAN /\ line[c].shared \in BOOLEAN /\ line[c].dirty \in BOOLEAN
         /\ line[c].data \in Data
         /\ mh[c] \in {"IDLE"} \cup Requests \cup WbStates
BY DEF TypeOK, Line

\* The types of the CCU's registers.
LEMMA CcuFacts ==
  ASSUME TypeOK
  PROVE  /\ ccu.init \in Cores /\ ccu.todo \subseteq Cores /\ ccu.data \in Data \cup {None}
         /\ ccu.dirty \in BOOLEAN /\ ccu.shared \in BOOLEAN
         /\ ccu.state \in {"IDLE", "SNOOP", "WRITE_BACK", "MEM", "RESP", "CLEAN_WB"}
BY DEF TypeOK

\* The kinds of request.
LEMMA RequestCases ==
  /\ Requests \subseteq {"READ_SHARED", "READ_UNIQUE", "CLEAN_UNIQUE", "AMO", "LR", "SC"}
  /\ "CLEAN_UNIQUE" \notin Atomics /\ "READ_SHARED" \notin Atomics /\ "READ_UNIQUE" \notin Atomics
  /\ Atomics \subseteq Requests /\ {"READ_SHARED", "READ_UNIQUE", "CLEAN_UNIQUE"} \subseteq Requests
  /\ \A r \in Requests : r = "CLEAN_UNIQUE" \/ r \in {"READ_SHARED", "READ_UNIQUE"} \cup Atomics
BY CcuTopAssumption DEF Requests

\* A store hit changes the data of an unshared line.
LEMMA StoreHitLine ==
  ASSUME TypeOK, NEW c \in Cores, StoreHit(c)
  PROVE  /\ \A d \in Cores : d # c => line'[d] = line[d]
         /\ line[c].valid /\ ~line[c].shared
         /\ line'[c].valid /\ ~line'[c].shared /\ line'[c].dirty
         /\ line'[c].data = Merge(line[c].data)
<1>1. line[c] \in Line
  BY DEF TypeOK
<1>2. line' = [line EXCEPT ![c] = [line[c] EXCEPT !.dirty = TRUE, !.data = Merge(line[c].data)]]
  BY <1>1 DEF StoreHit, TypeOK, Line
<1>3. line'[c] = [line[c] EXCEPT !.dirty = TRUE, !.data = Merge(line[c].data)]
  BY <1>2 DEF TypeOK
<1>4. /\ line'[c].valid = line[c].valid /\ line'[c].shared = line[c].shared
      /\ line'[c].dirty /\ line'[c].data = Merge(line[c].data)
  BY <1>1, <1>3 DEF Line
<1> QED BY <1>2, <1>4 DEF StoreHit, TypeOK

\* A dropped line is gone.
LEMMA DroppedLine ==
  ASSUME TypeOK, NEW c \in Cores, line' = [line EXCEPT ![c] = Invalid]
  PROVE  /\ \A d \in Cores : d # c => line'[d] = line[d]
         /\ ~line'[c].valid /\ ~line'[c].dirty
BY DEF TypeOK, Invalid

\* A snooped copy is marked shared by a ReadShared and gone after any other request;
\* nothing else about it changes.
LEMMA SnoopedLine ==
  ASSUME TypeOK, NEW o \in Cores, Snoop(o)
  PROVE  /\ \A d \in Cores : d # o => line'[d] = line[d]
         /\ ~line[o].valid => line'[o] = line[o]
         /\ line[o].valid /\ Request # "READ_SHARED" => ~line'[o].valid
         /\ line[o].valid /\ Request = "READ_SHARED" =>
              /\ line'[o].valid /\ line'[o].shared
              /\ line'[o].dirty = line[o].dirty /\ line'[o].data = line[o].data
<1>1. line[o] \in Line
  BY DEF TypeOK
<1>2. line' = [line EXCEPT ![o] = IF line[o].valid THEN Snooped(line[o]) ELSE line[o]]
  BY DEF Snoop
<1>3. line'[o] = IF line[o].valid THEN Snooped(line[o]) ELSE line[o]
  BY <1>2 DEF TypeOK
<1>4. CASE ~line[o].valid
  BY <1>2, <1>3, <1>4 DEF TypeOK
<1>5. CASE line[o].valid /\ Request # "READ_SHARED"
  BY <1>2, <1>3, <1>5 DEF TypeOK, Snooped, Invalid
<1>6. CASE line[o].valid /\ Request = "READ_SHARED"
  <2>1. line'[o] = [line[o] EXCEPT !.shared = TRUE]
    BY <1>3, <1>6 DEF Snooped
  <2>2. /\ line'[o].valid = line[o].valid /\ line'[o].shared
        /\ line'[o].dirty = line[o].dirty /\ line'[o].data = line[o].data
    BY <1>1, <2>1 DEF Line
  <2> QED BY <1>2, <1>6, <2>2 DEF TypeOK
<1> QED BY <1>4, <1>5, <1>6

\* What a snoop adds to the CCU's registers.
LEMMA SnoopedCcu ==
  ASSUME TypeOK, NEW o \in Cores, Snoop(o)
  PROVE  /\ ccu.state = "SNOOP" /\ ccu'.state = "SNOOP" /\ o \in ccu.todo
         /\ ccu'.init = ccu.init /\ Request' = Request /\ ccu'.todo = ccu.todo \ {o}
         /\ ccu'.dirty <=> ccu.dirty \/ (line[o].valid /\ line[o].dirty /\ Request # "READ_SHARED")
         /\ ccu'.shared <=> ccu.shared \/ line[o].valid
         /\ IF \/ line[o].valid /\ Request \in {"READ_SHARED", "READ_UNIQUE"}
               \/ line[o].valid /\ line[o].dirty /\ Request # "READ_SHARED"
            THEN ccu'.data = line[o].data ELSE ccu'.data = ccu.data
BY LineFacts, CcuFacts DEF Snoop, TypeOK, Request

\* What the answer to the initiator does to its copy.
LEMMA RespondLine ==
  ASSUME TypeOK, Respond
  PROVE  /\ \A d \in Cores : d # ccu.init => line'[d] = line[d]
         /\ Request = "READ_SHARED" =>
              /\ line'[ccu.init].valid /\ line'[ccu.init].shared = ccu.shared
              /\ ~line'[ccu.init].dirty /\ line'[ccu.init].data = ccu.data
         /\ Request = "READ_UNIQUE" =>
              /\ line'[ccu.init].valid /\ ~line'[ccu.init].shared
              /\ line'[ccu.init].dirty /\ line'[ccu.init].data = Merge(ccu.data)
         /\ Request = "CLEAN_UNIQUE" /\ ccu.init \notin coll =>
              /\ line'[ccu.init].valid /\ ~line'[ccu.init].shared
              /\ line'[ccu.init].dirty /\ line'[ccu.init].data = Merge(line[ccu.init].data)
         /\ Request \in Atomics \/ (Request = "CLEAN_UNIQUE" /\ ccu.init \in coll) => line' = line
<1> USE CcuFacts
<1>1. CASE Request = "READ_SHARED"
  BY <1>1, RequestCases DEF Respond, TypeOK
<1>2. CASE Request = "READ_UNIQUE"
  BY <1>2, RequestCases DEF Respond, TypeOK
<1>3. CASE Request = "CLEAN_UNIQUE" /\ ccu.init \notin coll
  BY <1>3, RequestCases DEF Respond, TypeOK
<1>4. CASE Request \in {"AMO", "SC", "LR"} \/ (Request = "CLEAN_UNIQUE" /\ ccu.init \in coll)
  BY <1>4 DEF Respond
<1> QED BY <1>1, <1>2, <1>3, <1>4 DEF Respond

\* The state of the miss handlers and of the transaction after each action.
LEMMA MhKept ==
  ASSUME IndInv, NEW c \in Cores,
         \/ \E r \in Requests : Miss(c, r) \/ Atomic(c, r)
         \/ \E s \in WbStates : WriteBack(c, s)
         \/ WriteBackDone(c)
  PROVE  /\ \A d \in Cores : d # c => mh'[d] = mh[d]
         /\ mh[c] \notin Requests /\ c \notin coll
         /\ UNCHANGED <<coll, ccu>>
         /\ ccu.state \notin {"IDLE", "CLEAN_WB"} \/ CcuOwns => c # ccu.init /\ Request' = Request
<1>1. \A d \in Cores : d # c => mh'[d] = mh[d]
  BY DEF Miss, Atomic, WriteBack, WriteBackDone, IndInv, TypeOK
<1>2. mh[c] \notin Requests
  <2>1. CASE WriteBackDone(c)
    BY <2>1, WriteFacts, PortFacts, AtomicStates DEF WriteBackDone, InvWrite, Expected, Ops
  <2> QED BY <2>1, AtomicStates DEF Miss, Atomic, WriteBack
<1>3. UNCHANGED <<coll, ccu>>
  BY DEF Miss, Atomic, WriteBack, WriteBackDone
<1>4. c \notin coll
  BY <1>2 DEF IndInv, InvCore, Requests
<1> QED BY <1>1, <1>2, <1>3, <1>4, RequestKept

\* The B of a write-back ends the write-back state of the miss handler.
LEMMA WbDoneMh ==
  ASSUME IndInv, NEW c \in Cores, WriteBackDone(c)
  PROVE  mh[c] \in WbStates /\ mh'[c] \in {"IDLE"} \cup Atomics
<1>1. mh[c] \in WbStates
  BY WriteFacts, PortFacts DEF WriteBackDone, InvWrite, Expected, Ops
<1>2. mh'[c] = Resume(mh[c])
  BY DEF WriteBackDone, IndInv, TypeOK
<1> QED BY <1>1, <1>2, ResumeType

\* Every step keeps the relation of a miss handler to its line.
LEMMA CoreInvStep ==
  ASSUME IndInv, Next, NEW c \in Cores
  PROVE  InvCore(c)'
<1> USE RequestCases, AtomicStates
<1>0. TypeOK /\ InvCore(c) /\ mh[c] \in {"IDLE"} \cup Requests \cup WbStates
  BY LineFacts DEF IndInv
<1>1. ASSUME UNCHANGED <<line, mh, coll>> PROVE InvCore(c)'
  BY <1>0, <1>1 DEF InvCore
<1>2. ASSUME NEW d \in Cores, LoadHit(d) \/ BypassWrite(d) \/ BypassDone(d) \/ Accept(d)
      PROVE  InvCore(c)'
  BY <1>1, <1>2 DEF LoadHit, BypassWrite, BypassDone, Accept
<1>3. CASE \/ SnoopDone \/ CcuWriteBackDone \/ CleanWriteBackDone \/ MemAnswer
           \/ MemWrite \/ \E p \in Ports : AwGrant(p)
  BY <1>1, <1>3 DEF SnoopDone, CcuWriteBackDone, CleanWriteBackDone, MemAnswer, MemWrite, AwGrant
<1>4. ASSUME NEW d \in Cores, StoreHit(d) PROVE InvCore(c)'
  <2>1. UNCHANGED <<mh, coll>> /\ mh[d] = "IDLE"
    BY <1>4 DEF StoreHit
  <2> QED BY <1>0, <1>4, <2>1, StoreHitLine DEF InvCore
<1>5. ASSUME NEW d \in Cores, NEW r \in Requests, Miss(d, r) PROVE InvCore(c)'
  <2>1. /\ line' = line /\ mh'[d] = r
        /\ \/ ~line[d].valid /\ r \in {"READ_SHARED", "READ_UNIQUE"}
           \/ line[d].valid /\ line[d].shared /\ r = "CLEAN_UNIQUE"
    BY <1>0, <1>5 DEF Miss, TypeOK
  <2>2. (c # d => mh'[c] = mh[c]) /\ d \notin coll /\ coll' = coll
    BY <1>5, MhKept
  <2> QED BY <1>0, <2>1, <2>2 DEF InvCore
<1>6. ASSUME NEW d \in Cores, Drop(d) PROVE InvCore(c)'
  <2>1. UNCHANGED <<mh, coll>> /\ mh[d] = "IDLE"
    BY <1>6 DEF Drop
  <2>2. (c # d => line'[c] = line[c]) /\ ~line'[d].valid
    BY <1>0, <1>6, DroppedLine DEF Drop
  <2> QED BY <1>0, <2>1, <2>2 DEF InvCore
<1>7. ASSUME NEW d \in Cores, NEW s \in WbStates, WriteBack(d, s) PROVE InvCore(c)'
  <2>1. line' = line /\ mh'[d] = s /\ line[d].dirty
    BY <1>0, <1>7 DEF WriteBack, TypeOK
  <2>2. (c # d => mh'[c] = mh[c]) /\ d \notin coll /\ coll' = coll
    BY <1>7, MhKept
  <2> QED BY <1>0, <2>1, <2>2 DEF InvCore
<1>8. ASSUME NEW d \in Cores, WriteBackDone(d) \/ \E r \in Requests : Atomic(d, r) PROVE InvCore(c)'
  <2>1. mh'[d] \in {"IDLE"} \cup Atomics
    BY <1>0, <1>8, WbDoneMh DEF Atomic, TypeOK
  <2>2. (c # d => mh'[c] = mh[c]) /\ d \notin coll /\ coll' = coll
    BY <1>8, MhKept
  <2>3. (c # d => line'[c] = line[c]) /\ ~line'[d].valid
    BY <1>0, <1>8, DroppedLine DEF WriteBackDone, Atomic
  <2> QED BY <1>0, <2>1, <2>2, <2>3 DEF InvCore
<1>9. ASSUME NEW o \in Cores, Snoop(o) PROVE InvCore(c)'
  <2>1. mh' = mh /\ coll' = IF colliding_clean(o) THEN coll \cup {o} ELSE coll
    BY <1>9 DEF Snoop
  <2> QED BY <1>0, <1>9, <2>1, SnoopedLine DEF InvCore, colliding_clean
<1>10. CASE Respond
  <2> DEFINE i == ccu.init
  <2>1. i \in Cores /\ Request = mh[i] /\ InvCore(i)
    BY <1>0, CcuFacts DEF Request, IndInv
  <2>2. /\ mh'[i] = IF i \in coll THEN "READ_UNIQUE" ELSE "IDLE"
        /\ coll' = coll \ {i}
        /\ \A d \in Cores : d # i => mh'[d] = mh[d]
    BY <1>0, <1>10, <2>1 DEF Respond, MissDone, TypeOK
  <2>3. \A d \in Cores : d # i => line'[d] = line[d]
    BY <1>0, <1>10, RespondLine
  <2>4. i \in coll => ~line'[i].valid
    BY <1>0, <1>10, <2>1, RespondLine DEF InvCore
  <2> QED BY <1>0, <2>1, <2>2, <2>3, <2>4 DEF InvCore
<1> QED BY <1>2, <1>3, <1>4, <1>5, <1>6, <1>7, <1>8, <1>9, <1>10 DEF Next, CoreStep, CcuStep

\* A transaction that waits for memory has found no copy.
LEMMA NoHolders ==
  ASSUME IndInv, ccu.state = "MEM"
  PROVE  Holders = {} /\ ccu.data = None /\ ccu.todo = {} /\ ~CcuOwns
<1>1. ccu.data = None /\ ccu.todo = {} /\ Request # "CLEAN_UNIQUE" /\ Request \in Requests /\ ~CcuOwns
  BY DEF IndInv, InvCcu, CcuOwns
<1>2. ccu.init \in Cores /\ InvCore(ccu.init)
  BY CcuFacts DEF IndInv
<1>3. ~line[ccu.init].valid
  BY <1>1, <1>2, RequestCases DEF InvCore, Request
<1>4. Holders \subseteq {ccu.init}
  BY <1>1 DEF IndInv, InvSnooped
<1> QED BY <1>1, <1>3, <1>4 DEF Holders

\* OneOwner, for two copies: both shared, equal, and not both dirty.
LEMMA OwnerFacts ==
  ASSUME IndInv, NEW c \in Cores, NEW d \in Cores, line[c].valid, line[d].valid, c # d
  PROVE  /\ line[c].shared /\ line[d].shared /\ line[c].data = line[d].data
         /\ ~(line[c].dirty /\ line[d].dirty)
BY DEF IndInv, OneOwner, Holders

\* InvSnooped, for one copy.
LEMMA SnoopedFacts ==
  ASSUME IndInv, NEW h \in Cores, line[h].valid
  PROVE  /\ ccu.data # None => line[h].shared /\ line[h].data = ccu.data
         /\ ccu.state \notin {"IDLE", "CLEAN_WB"} /\ h \notin ccu.todo /\ h # ccu.init =>
              Request = "READ_SHARED" /\ ccu.shared /\ ccu.data # None
         /\ CcuOwns => ~line[h].dirty
BY DEF IndInv, InvSnooped, InvCcu, Holders

\* Before the answer, only a ReadShared leaves copies in the caches of the others.
LEMMA RespondHolders ==
  ASSUME IndInv, ccu.state = "RESP", NEW h \in Cores, line[h].valid, h # ccu.init
  PROVE  /\ Request = "READ_SHARED" /\ ccu.shared /\ ccu.data # None
         /\ line[h].shared /\ line[h].data = ccu.data
<1>1. ccu.todo = {}
  BY DEF IndInv, InvCcu
<1> QED BY <1>1, SnoopedFacts

\* Every step keeps OneOwner: a line becomes unshared or dirty only after the CCU has
\* snooped all other copies away.
LEMMA OwnerStep ==
  ASSUME IndInv, Next
  PROVE  OneOwner'
<1>0. TypeOK
  BY DEF IndInv
<1> SUFFICES ASSUME NEW c \in Cores, NEW d \in Cores, line'[c].valid, line'[d].valid, c # d
             PROVE  /\ line'[c].shared /\ line'[c].data = line'[d].data
                    /\ ~(line'[c].dirty /\ line'[d].dirty)
  BY DEF OneOwner, Holders
<1> DEFINE Goal == /\ line'[c].shared /\ line'[c].data = line'[d].data
                   /\ ~(line'[c].dirty /\ line'[d].dirty)
<1>1. ASSUME line' = line PROVE Goal
  BY <1>1, OwnerFacts
<1>2. CASE \/ SnoopDone \/ CcuWriteBackDone \/ CleanWriteBackDone \/ MemAnswer
           \/ MemWrite \/ \E p \in Ports : AwGrant(p)
  BY <1>1, <1>2 DEF SnoopDone, CcuWriteBackDone, CleanWriteBackDone, MemAnswer, MemWrite, AwGrant
<1>3. ASSUME NEW e \in Cores,
             \/ LoadHit(e) \/ BypassWrite(e) \/ BypassDone(e) \/ Accept(e)
             \/ \E r \in Requests : Miss(e, r)
             \/ \E s \in WbStates : WriteBack(e, s)
      PROVE  Goal
  BY <1>1, <1>3 DEF LoadHit, BypassWrite, BypassDone, Accept, Miss, WriteBack
<1>4. ASSUME NEW e \in Cores, StoreHit(e) PROVE Goal
  <2>1. line[c].valid /\ line[d].valid /\ ~line[e].shared /\ line[e].valid
    BY <1>0, <1>4, StoreHitLine
  <2>2. c # e /\ d # e
    BY <2>1, OwnerFacts
  <2>3. line'[c] = line[c] /\ line'[d] = line[d]
    BY <1>0, <1>4, <2>2, StoreHitLine
  <2> QED BY <2>1, <2>3, OwnerFacts
<1>5. ASSUME NEW e \in Cores, Drop(e) \/ WriteBackDone(e) \/ \E r \in Requests : Atomic(e, r) PROVE Goal
  <2>1. line' = [line EXCEPT ![e] = Invalid]
    BY <1>5 DEF Drop, WriteBackDone, Atomic
  <2>2. line'[c] = line[c] /\ line'[d] = line[d]
    BY <1>0, <2>1, DroppedLine
  <2> QED BY <2>2, OwnerFacts
<1>6. ASSUME NEW o \in Cores, Snoop(o) PROVE Goal
  <2>1. /\ line[c].valid /\ line[d].valid
        /\ line'[c].data = line[c].data /\ line'[d].data = line[d].data
        /\ line'[c].dirty = line[c].dirty /\ line'[d].dirty = line[d].dirty
        /\ line[c].shared => line'[c].shared
    BY <1>0, <1>6, SnoopedLine
  <2> QED BY <2>1, OwnerFacts
<1>7. CASE Respond
  <2> DEFINE i == ccu.init
  <2>0. i \in Cores /\ ccu.state = "RESP" /\ Request \in Requests
    BY <1>0, <1>7, CcuFacts DEF Respond, IndInv, InvCcu
  <2>1. CASE c # i /\ d # i
    <3>1. line'[c] = line[c] /\ line'[d] = line[d]
      BY <1>0, <1>7, <2>1, RespondLine
    <3> QED BY <3>1, OwnerFacts
  <2>2. CASE c = i
    <3>1. line'[d] = line[d]
      BY <1>0, <1>7, <2>2, RespondLine
    <3>2. Request = "READ_SHARED" /\ ccu.shared /\ line[d].data = ccu.data
      BY <2>0, <2>2, <3>1, RespondHolders
    <3> QED BY <1>0, <1>7, <2>2, <3>1, <3>2, RespondLine
  <2>3. CASE d = i
    <3>1. line'[c] = line[c]
      BY <1>0, <1>7, <2>3, RespondLine
    <3>2. Request = "READ_SHARED" /\ line[c].shared /\ line[c].data = ccu.data
      BY <2>0, <2>3, <3>1, RespondHolders
    <3> QED BY <1>0, <1>7, <2>3, <3>1, <3>2, RespondLine
  <2> QED BY <2>1, <2>2, <2>3
<1> QED BY <1>2, <1>3, <1>4, <1>5, <1>6, <1>7 DEF Next, CoreStep, CcuStep

\* The coherence unit is idle: it holds nothing.
LEMMA IdleFacts ==
  ASSUME ccu = Idle
  PROVE  /\ ccu.state = "IDLE" /\ ccu.todo = {} /\ ccu.data = None /\ ~ccu.dirty /\ ~ccu.shared
         /\ ~CcuOwns
BY DEF Idle, CcuOwns

\* A step that leaves the CCU and the owners alone keeps InvCcu.
LEMMA CcuInvKept ==
  ASSUME IndInv, ccu' = ccu,
         ccu.state \notin {"IDLE", "CLEAN_WB"} \/ CcuOwns => Request' = Request,
         CcuOwns => \A h \in Cores : line'[h].valid /\ line'[h].dirty => line[h].valid /\ line[h].dirty
  PROVE  InvCcu'
<1>1. CASE ccu.state = "IDLE"
  <2>1. ccu = Idle
    BY <1>1 DEF IndInv, InvCcu
  <2>2. ~ccu.dirty /\ ccu.todo = {}
    BY <2>1, IdleFacts
  <2> QED BY <1>1, <2>1, <2>2 DEF InvCcu, CcuOwns, Idle
<1>2. CASE ccu.state # "IDLE"
  <2>1. CcuOwns' <=> CcuOwns
    BY <1>2 DEF CcuOwns
  <2>2. CcuOwns' => ccu'.data # None /\ \A h \in Holders' : ~line'[h].dirty
    BY <2>1 DEF IndInv, InvCcu, Holders
  <2>3. CASE ccu.state = "CLEAN_WB" /\ ~CcuOwns
    BY <2>1, <2>3 DEF IndInv, InvCcu, CcuOwns
  <2>4. CASE ccu.state # "CLEAN_WB" \/ CcuOwns
    BY <1>2, <2>1, <2>2, <2>4 DEF IndInv, InvCcu, CcuOwns
  <2> QED BY <2>3, <2>4
<1> QED BY <1>1, <1>2

\* Every step keeps the relation of the CCU to its initiator.
LEMMA CcuInvStep ==
  ASSUME IndInv, Next
  PROVE  InvCcu'
<1> USE RequestCases
<1>0. TypeOK /\ InvCcu
  BY DEF IndInv
<1>1. ASSUME UNCHANGED <<line, mh, ccu>> PROVE InvCcu'
  BY <1>1, CcuInvKept DEF Request
<1>2. CASE MemWrite \/ \E p \in Ports : AwGrant(p)
  BY <1>1, <1>2 DEF MemWrite, AwGrant
<1>3. ASSUME NEW c \in Cores, LoadHit(c) \/ BypassWrite(c) \/ BypassDone(c) PROVE InvCcu'
  BY <1>1, <1>3 DEF LoadHit, BypassWrite, BypassDone
<1>4. ASSUME NEW c \in Cores, StoreHit(c) PROVE InvCcu'
  <2>1. UNCHANGED <<mh, ccu>>
    BY <1>4 DEF StoreHit
  <2>2. ccu.data = None
    BY <1>0, <1>4, StoreHitLine, SnoopedFacts
  <2>3. ~CcuOwns
    BY <1>0, <2>2 DEF InvCcu
  <2> QED BY <2>1, <2>3, CcuInvKept DEF Request
<1>5. ASSUME NEW c \in Cores,
             \/ \E r \in Requests : Miss(c, r)
             \/ \E s \in WbStates : WriteBack(c, s)
      PROVE  InvCcu'
  <2>1. line' = line
    BY <1>5 DEF Miss, WriteBack
  <2> QED BY <1>5, <2>1, MhKept, CcuInvKept
<1>6. ASSUME NEW c \in Cores, WriteBackDone(c) \/ \E r \in Requests : Atomic(c, r) PROVE InvCcu'
  <2>1. \A d \in Cores : line'[d].valid => line'[d] = line[d]
    BY <1>0, <1>6, DroppedLine DEF WriteBackDone, Atomic
  <2> QED BY <1>6, <2>1, MhKept, CcuInvKept
<1>7. ASSUME NEW c \in Cores, Drop(c) PROVE InvCcu'
  <2>1. \A d \in Cores : line'[d].valid => line'[d] = line[d]
    BY <1>0, <1>7, DroppedLine DEF Drop
  <2> QED BY <1>7, <2>1, CcuInvKept DEF Drop, Request
<1>8. ASSUME NEW c \in Cores, Accept(c) PROVE InvCcu'
  <2>1. /\ ccu'.state = "SNOOP" /\ ccu'.init = c /\ ccu'.todo = Cores \ {c} /\ ccu'.data = None
        /\ ~ccu'.dirty
    BY <1>8 DEF Accept, Idle
  <2>2. Request' \in Requests
    BY <1>8, <2>1 DEF Accept, Request
  <2> QED BY <2>1, <2>2 DEF InvCcu, CcuOwns
<1>9. ASSUME NEW o \in Cores, Snoop(o) PROVE InvCcu'
  <2>1. /\ ccu.state = "SNOOP" /\ ccu'.state = "SNOOP" /\ ccu'.init = ccu.init
        /\ Request' = Request /\ ccu'.todo = ccu.todo \ {o}
        /\ ccu'.dirty <=> ccu.dirty \/ (line[o].valid /\ line[o].dirty /\ Request # "READ_SHARED")
    BY <1>0, <1>9, SnoopedCcu
  <2>2. /\ ccu.data # None => ccu'.data # None
        /\ line[o].valid /\ line[o].dirty /\ Request # "READ_SHARED" => ccu'.data # None
        /\ ccu'.data # None => ccu.data # None \/ Request \in {"READ_SHARED", "READ_UNIQUE"} \/ ccu'.dirty
    BY <1>0, <1>9, <2>1, SnoopedCcu, LineFacts, DataType
  <2>3. ccu'.dirty => ccu'.data # None
    BY <1>0, <2>1, <2>2 DEF InvCcu, CcuOwns
  <2>4. ASSUME ccu'.dirty, NEW h \in Cores, line'[h].valid PROVE ~line'[h].dirty
    <3>1. Request # "READ_SHARED"
      BY <1>0, <2>1, <2>4 DEF InvCcu, CcuOwns
    <3>2. h # o /\ line'[h] = line[h]
      <4>1. ~line'[o].valid
        BY <1>0, <1>9, <3>1, SnoopedLine
      <4> QED BY <1>0, <1>9, <2>4, <4>1, SnoopedLine
    <3>3. CASE ccu.dirty
      BY <2>1, <2>4, <3>2, <3>3, SnoopedFacts DEF CcuOwns
    <3>4. CASE line[o].valid /\ line[o].dirty
      BY <2>4, <3>2, <3>4, OwnerFacts
    <3> QED BY <2>1, <2>4, <3>3, <3>4
  <2> QED BY <1>0, <2>1, <2>2, <2>3, <2>4 DEF InvCcu, CcuOwns, Holders
<1>10. CASE SnoopDone
  <2>1. /\ ccu.state = "SNOOP" /\ ccu.todo = {} /\ UNCHANGED <<line, mh>>
        /\ ccu'.init = ccu.init /\ ccu'.todo = ccu.todo /\ ccu'.data = ccu.data
        /\ ccu'.dirty = ccu.dirty /\ Request' = Request /\ Holders' = Holders
        /\ ccu'.state = IF ccu.dirty /\ Request \in Atomics THEN "WRITE_BACK"
                        ELSE IF ccu.data # None \/ Request = "CLEAN_UNIQUE" THEN "RESP" ELSE "MEM"
    BY <1>0, <1>10 DEF SnoopDone, TypeOK, Request, Holders
  <2>2. CcuOwns' => CcuOwns
    BY <2>1 DEF CcuOwns
  <2> QED BY <1>0, <2>1, <2>2 DEF InvCcu, CcuOwns
<1>11. CASE CcuWriteBackDone
  <2>1. /\ ccu.state = "WRITE_BACK" /\ ccu'.init = ccu.init /\ ccu'.todo = ccu.todo
        /\ ccu'.data = None /\ ~ccu'.dirty /\ Request' = Request /\ ccu'.state = "MEM"
    BY <1>0, <1>11 DEF CcuWriteBackDone, TypeOK, Request
  <2> QED BY <1>0, <2>1 DEF InvCcu, CcuOwns
<1>12. CASE MemAnswer
  <2>1. /\ ccu.state = "MEM" /\ ccu'.init = ccu.init /\ ccu'.todo = ccu.todo
        /\ ccu'.dirty = ccu.dirty /\ Request' = Request /\ ccu'.state = "RESP"
        /\ ccu'.data = IF Request \in {"AMO", "SC"} THEN None ELSE mem
    BY <1>0, <1>12 DEF MemAnswer, TypeOK, Request
  <2>2. mem # None
    BY <1>0, DataType DEF TypeOK
  <2>3. ~CcuOwns'
    BY <2>1, <1>0 DEF InvCcu, CcuOwns
  <2> QED BY <1>0, <2>1, <2>2, <2>3 DEF InvCcu
<1>13. ASSUME ccu' = Idle PROVE InvCcu'
  BY <1>13 DEF InvCcu, CcuOwns, Idle
<1>14. CASE CleanWriteBackDone
  BY <1>13, <1>14 DEF CleanWriteBackDone
<1>15. CASE Respond
  <2>1. ccu.init \in Cores /\ ccu.state = "RESP"
    BY <1>0, <1>15, CcuFacts DEF Respond
  <2>2. CASE ccu'.state = "CLEAN_WB" /\ ccu.init \in coll
    <3>1. /\ ccu'.init = ccu.init /\ ccu'.todo = {} /\ ccu'.data = ccu.data /\ ccu'.data # None
          /\ ccu'.dirty /\ ccu.dirty /\ Request = "CLEAN_UNIQUE"
      BY <1>15, <2>2, ReleasedFacts, DataType
    <3>2. line' = line /\ mh'[ccu.init] = "READ_UNIQUE"
      BY <1>0, <1>15, <2>1, <2>2, <3>1, RespondLine DEF Respond, MissDone, TypeOK
    <3>3. Request' = "READ_UNIQUE"
      BY <3>1, <3>2 DEF Request
    <3>4. \A h \in Holders' : ~line'[h].dirty
      BY <3>1, <3>2, SnoopedFacts DEF Holders, CcuOwns
    <3> QED BY <2>2, <3>1, <3>3, <3>4 DEF InvCcu, CcuOwns
  <2>3. CASE ccu'.state = "CLEAN_WB" /\ ccu.init \notin coll
    <3>1. ccu'.todo = {} /\ ccu'.data = None /\ ~ccu'.dirty
      BY <1>15, <2>3, ReleasedFacts
    <3> QED BY <2>3, <3>1 DEF InvCcu, CcuOwns
  <2> QED BY <1>13, <1>15, <2>2, <2>3, ReleasedFacts
<1> QED BY <1>2, <1>3, <1>4, <1>5, <1>6, <1>7, <1>8, <1>9, <1>10, <1>11, <1>12, <1>14, <1>15
        DEF Next, CoreStep, CcuStep

\* A step that leaves the CCU alone and adds no copy keeps InvSnooped.
LEMMA SnoopedInvKept ==
  ASSUME IndInv, ccu' = ccu,
         ccu.state \notin {"IDLE", "CLEAN_WB"} \/ CcuOwns => Request' = Request,
         \A h \in Cores : line'[h].valid => line[h].valid,
         ccu.data # None => \A h \in Cores : line'[h].valid => line'[h] = line[h]
  PROVE  InvSnooped'
<1>1. ASSUME NEW h \in Cores, line'[h].valid, ccu'.data # None
      PROVE  line'[h].shared /\ line'[h].data = ccu'.data
  BY <1>1, SnoopedFacts
<1>2. ASSUME NEW h \in Cores, line'[h].valid, ccu'.state \notin {"IDLE", "CLEAN_WB"},
             h \notin ccu'.todo, h # ccu'.init
      PROVE  Request' = "READ_SHARED" /\ ccu'.shared /\ ccu'.data # None
  BY <1>2, SnoopedFacts
<1> QED BY <1>1, <1>2 DEF InvSnooped, Holders

\* Every step keeps what the CCU knows of the caches it has snooped.
LEMMA SnoopedStep ==
  ASSUME IndInv, Next
  PROVE  InvSnooped'
<1>0. TypeOK /\ InvCcu
  BY DEF IndInv
<1>1. ASSUME UNCHANGED <<line, mh, ccu>> PROVE InvSnooped'
  BY <1>1, SnoopedInvKept DEF Request
<1>2. CASE MemWrite \/ \E p \in Ports : AwGrant(p)
  BY <1>1, <1>2 DEF MemWrite, AwGrant
<1>3. ASSUME NEW c \in Cores, LoadHit(c) \/ BypassWrite(c) \/ BypassDone(c) PROVE InvSnooped'
  BY <1>1, <1>3 DEF LoadHit, BypassWrite, BypassDone
<1>4. ASSUME NEW c \in Cores, StoreHit(c) PROVE InvSnooped'
  <2>1. UNCHANGED <<mh, ccu>>
    BY <1>4 DEF StoreHit
  <2>2. ccu.data = None
    BY <1>0, <1>4, StoreHitLine, SnoopedFacts
  <2>3. \A h \in Cores : line'[h].valid => line[h].valid
    BY <1>0, <1>4, StoreHitLine
  <2> QED BY <2>1, <2>2, <2>3, SnoopedInvKept DEF Request
<1>5. ASSUME NEW c \in Cores,
             \/ \E r \in Requests : Miss(c, r)
             \/ \E s \in WbStates : WriteBack(c, s)
      PROVE  InvSnooped'
  <2>1. line' = line
    BY <1>5 DEF Miss, WriteBack
  <2> QED BY <1>5, <2>1, MhKept, SnoopedInvKept
<1>6. ASSUME NEW c \in Cores, WriteBackDone(c) \/ \E r \in Requests : Atomic(c, r) PROVE InvSnooped'
  <2>1. \A d \in Cores : line'[d].valid => line'[d] = line[d]
    BY <1>0, <1>6, DroppedLine DEF WriteBackDone, Atomic
  <2> QED BY <1>6, <2>1, MhKept, SnoopedInvKept
<1>7. ASSUME NEW c \in Cores, Drop(c) PROVE InvSnooped'
  <2>1. \A d \in Cores : line'[d].valid => line'[d] = line[d]
    BY <1>0, <1>7, DroppedLine DEF Drop
  <2> QED BY <1>7, <2>1, SnoopedInvKept DEF Drop, Request
<1>8. ASSUME NEW c \in Cores, Accept(c) PROVE InvSnooped'
  <2>1. ccu'.init = c /\ ccu'.todo = Cores \ {c} /\ ccu'.data = None
    BY <1>8 DEF Accept, Idle
  <2> QED BY <2>1 DEF InvSnooped, Holders
<1>9. ASSUME NEW o \in Cores, Snoop(o) PROVE InvSnooped'
  <2>1. /\ ccu.state = "SNOOP" /\ ccu'.state = "SNOOP" /\ ccu'.init = ccu.init
        /\ Request' = Request /\ ccu'.todo = ccu.todo \ {o}
        /\ ccu'.shared <=> ccu.shared \/ line[o].valid
    BY <1>0, <1>9, SnoopedCcu
  <2>2. /\ ccu.data # None => ccu'.data # None
        /\ line[o].valid /\ Request = "READ_SHARED" => ccu'.data = line[o].data /\ ccu'.data # None
        /\ ccu'.data # ccu.data => line[o].valid /\ ccu'.data = line[o].data
    BY <1>0, <1>9, SnoopedCcu, LineFacts, DataType
  <2>3. ASSUME NEW h \in Cores, line'[h].valid, ccu'.data # None
        PROVE  line'[h].shared /\ line'[h].data = ccu'.data
    <3>0. /\ h # o => line'[h] = line[h]
          /\ line[h].valid /\ line'[h].data = line[h].data
          /\ line[h].shared \/ h = o => line'[h].shared
      BY <1>0, <1>9, <2>3, SnoopedLine
    <3>1. CASE ccu'.data = ccu.data
      BY <2>3, <3>0, <3>1, SnoopedFacts
    <3>2. CASE ccu'.data # ccu.data
      BY <2>2, <3>0, <3>2, OwnerFacts
    <3> QED BY <3>1, <3>2
  <2>4. ASSUME NEW h \in Cores, line'[h].valid, h \notin ccu'.todo, h # ccu'.init
        PROVE  Request' = "READ_SHARED" /\ ccu'.shared /\ ccu'.data # None
    <3>1. line[h].valid
      BY <1>0, <1>9, <2>4, SnoopedLine
    <3>2. CASE h = o
      BY <1>0, <1>9, <2>1, <2>2, <2>4, <3>1, <3>2, SnoopedLine
    <3>3. CASE h # o
      BY <2>1, <2>2, <2>4, <3>1, <3>3, SnoopedFacts
    <3> QED BY <3>2, <3>3
  <2> QED BY <2>3, <2>4 DEF InvSnooped, Holders
<1>10. CASE SnoopDone
  <2>1. /\ ccu.state = "SNOOP" /\ line' = line
        /\ ccu'.init = ccu.init /\ ccu'.todo = ccu.todo /\ ccu'.data = ccu.data
        /\ ccu'.shared = ccu.shared /\ Request' = Request
    BY <1>0, <1>10 DEF SnoopDone, TypeOK, Request
  <2> QED BY <2>1 DEF IndInv, InvSnooped, Holders
<1>11. CASE CcuWriteBackDone
  <2>1. /\ ccu.state = "WRITE_BACK" /\ line' = line
        /\ ccu'.init = ccu.init /\ ccu'.todo = ccu.todo /\ ccu'.data = None
    BY <1>0, <1>11 DEF CcuWriteBackDone, TypeOK
  <2>2. Request # "READ_SHARED"
    BY <1>0, <2>1, RequestCases DEF InvCcu
  <2> QED BY <2>1, <2>2 DEF IndInv, InvSnooped, Holders
<1>12. CASE MemAnswer
  <2>1. line' = line /\ Holders = {}
    BY <1>12, NoHolders DEF MemAnswer
  <2> QED BY <2>1 DEF InvSnooped, Holders
<1>13. CASE CleanWriteBackDone
  BY <1>13 DEF CleanWriteBackDone, InvSnooped, Idle
<1>14. CASE Respond
  <2>1. CASE ccu' = Idle
    BY <2>1 DEF InvSnooped, Idle
  <2>2. CASE ccu'.state = "CLEAN_WB" /\ ccu.init \notin coll
    BY <1>14, <2>2, ReleasedFacts DEF InvSnooped
  <2>3. CASE ccu'.state = "CLEAN_WB" /\ ccu.init \in coll
    <3>1. ccu'.data = ccu.data /\ Request = "CLEAN_UNIQUE"
      BY <1>14, <2>3, ReleasedFacts
    <3>2. line' = line
      BY <1>0, <1>14, <2>3, <3>1, RespondLine
    <3> QED BY <2>3, <3>1, <3>2, SnoopedFacts DEF InvSnooped, Holders
  <2> QED BY <1>14, <2>1, <2>2, <2>3, ReleasedFacts
<1> QED BY <1>2, <1>3, <1>4, <1>5, <1>6, <1>7, <1>8, <1>9, <1>10, <1>11, <1>12, <1>13, <1>14
        DEF Next, CoreStep, CcuStep

\* A line that is clean after a step which removes no dirty copy was clean before.
LEMMA CleanKept ==
  ASSUME CcuOwns => CcuOwns', Clean',
         \A h \in Cores : line[h].valid /\ line[h].dirty => line'[h].valid /\ line'[h].dirty
  PROVE  Clean
BY DEF Clean, Holders

\* Nobody gets the B of a write-back it does not wait for, and the coherence unit has
\* no copy of a line that a core may write.
LEMMA NoWbResponse ==
  ASSUME IndInv, NEW c \in Cores
  PROVE  /\ mh[c] \notin WbStates => <<"WB", c>> \notin bq
         /\ ccu.state \notin {"WRITE_BACK", "CLEAN_WB"} => <<"WB", CCU>> \notin bq
         /\ line[c].valid /\ ~line[c].shared => ~Alive(CCU)
<1>1. InvWrite(c, "WB") /\ InvWrite(CCU, "WB")
  BY WriteFacts, PortFacts DEF Ops
<1>2. mh[c] \notin WbStates => <<"WB", c>> \notin bq
  BY <1>1, PortFacts DEF InvWrite, Expected
<1>3. ccu.state \notin {"WRITE_BACK", "CLEAN_WB"} => <<"WB", CCU>> \notin bq
  BY <1>1 DEF InvWrite, Expected
<1> QED BY <1>2, <1>3, SnoopedFacts DEF Alive

\* After a store in a cache, memory does not have the value of the line.
LEMMA StoreUnsettled ==
  ASSUME IndInv, NEW c \in Cores,
         \/ StoreHit(c)
         \/ /\ Respond /\ c = ccu.init
            /\ Request = "READ_UNIQUE" \/ (Request = "CLEAN_UNIQUE" /\ c \notin coll)
  PROVE  /\ ~Settled' /\ linked' = {} /\ bq' = bq /\ res' = res
         /\ \A d \in Cores : d # c => ~line'[d].valid /\ line'[d] = line[d]
<1> USE PortFacts
<1>0. TypeOK
  BY DEF IndInv
<1>1. /\ <<"WB", c>> \notin bq /\ ~(Alive(CCU)' /\ <<"WB", CCU>> \in bq)
      /\ \A d \in Cores : d # c => ~line'[d].valid /\ line'[d] = line[d]
      /\ line'[c].valid /\ line'[c].dirty
      /\ linked' = {} /\ bq' = bq /\ res' = res
  <2>1. CASE StoreHit(c)
    <3>1. <<"WB", c>> \notin bq /\ ~Alive(CCU)'
      BY <1>0, <2>1, StoreHitLine, NoWbResponse, AtomicStates DEF StoreHit, Alive
    <3>2. \A d \in Cores : d # c => ~line'[d].valid /\ line'[d] = line[d]
      BY <1>0, <2>1, StoreHitLine, OwnerFacts
    <3> QED BY <1>0, <2>1, <3>1, <3>2, StoreHitLine DEF StoreHit, CountStore
  <2>2. CASE /\ Respond /\ c = ccu.init
             /\ Request = "READ_UNIQUE" \/ (Request = "CLEAN_UNIQUE" /\ c \notin coll)
    <3>1. ccu.state = "RESP" /\ mh[c] \notin WbStates
      BY <2>2, AtomicStates, RequestCases DEF Respond, Request
    <3>2. <<"WB", c>> \notin bq /\ <<"WB", CCU>> \notin bq
      BY <3>1, NoWbResponse
    <3>3. \A d \in Cores : d # c => ~line'[d].valid /\ line'[d] = line[d]
      BY <1>0, <2>2, <3>1, RespondLine, RespondHolders
    <3>4. linked' = {} /\ bq' = bq /\ res' = res
      BY <2>2, RequestCases DEF Respond, CountStore
    <3> QED BY <1>0, <2>2, <3>2, <3>3, <3>4, RespondLine
  <2> QED BY <2>1, <2>2
<1>2. ~Clean'
  BY <1>1 DEF Clean, Holders
<1>3. \A p \in Ports : ~(Alive(p)' /\ <<"WB", p>> \in bq')
  BY <1>1, PortCases DEF Alive
<1> QED BY <1>1, <1>2, <1>3 DEF Settled

\* The same for a settled line.
LEMMA SettledKept ==
  ASSUME Clean' => Settled, Settled', bq' \subseteq bq,
         Alive(CCU)' => Alive(CCU) \/ <<"WB", CCU>> \notin bq,
         \A c \in Cores : line'[c].valid => line[c].valid
  PROVE  Settled
BY PortCases, PortFacts DEF Settled, Alive

\* Memory gets the value of the line only by a write-back.
LEMMA SettledBefore ==
  ASSUME IndInv, Next, Settled', ~(MemWrite /\ bus[1][1].op = "WB")
  PROVE  Settled
<1> USE RequestCases, PortFacts
<1>0. TypeOK /\ InvCcu
  BY DEF IndInv
<1>1. ASSUME UNCHANGED <<line, mh, ccu>>, bq' \subseteq bq PROVE Settled
  <2>1. Clean' => Clean
    BY <1>1 DEF Clean, CcuOwns, Holders, Request
  <2> QED BY <1>1, <2>1, SettledKept DEF Settled, Alive
<1>2. CASE \E p \in Ports : AwGrant(p)
  BY <1>1, <1>2 DEF AwGrant
<1>3. ASSUME NEW c \in Cores, LoadHit(c) \/ BypassWrite(c) \/ BypassDone(c) PROVE Settled
  BY <1>1, <1>3 DEF LoadHit, BypassWrite, BypassDone
<1>4. CASE MemWrite
  <2>1. UNCHANGED <<line, mh, ccu>> /\ bq' = bq \cup {<<bus[1][1].op, bus[1][2]>>}
    BY <1>4 DEF MemWrite
  <2>2. (Clean' => Clean) /\ \A p \in Ports : Alive(p)' => Alive(p)
    BY <2>1 DEF Clean, CcuOwns, Holders, Request, Alive
  <2>3. \A p \in Ports : <<"WB", p>> \in bq' => <<"WB", p>> \in bq
    BY <1>4, <2>1
  <2> QED BY <2>2, <2>3 DEF Settled
<1>5. ASSUME NEW c \in Cores, StoreHit(c) PROVE Settled
  BY <1>5, StoreUnsettled
<1>6. ASSUME NEW c \in Cores,
             \/ \E r \in Requests : Miss(c, r)
             \/ \E s \in WbStates : WriteBack(c, s)
      PROVE  Settled
  <2>1. UNCHANGED <<line, bq>>
    BY <1>6 DEF Miss, WriteBack
  <2>2. Clean' => Clean
    BY <1>6, <2>1, MhKept, CleanKept DEF CcuOwns
  <2> QED BY <1>6, <2>1, <2>2, MhKept, SettledKept DEF Settled, Alive
<1>7. ASSUME NEW c \in Cores, WriteBackDone(c) PROVE Settled
  <2>1. bq' \subseteq bq /\ <<"WB", c>> \in bq
    BY <1>7 DEF WriteBackDone
  <2>2. (\A d \in Cores : d # c => line'[d] = line[d]) /\ ~line'[c].valid
    BY <1>0, <1>7, DroppedLine DEF WriteBackDone
  <2>3. CASE line[c].valid
    BY <2>1, <2>3 DEF Settled, Alive
  <2>4. CASE ~line[c].valid
    <3>1. Clean' => Clean
      BY <1>7, <2>2, <2>4, MhKept, CleanKept DEF CcuOwns
    <3> QED BY <1>7, <2>1, <2>2, <3>1, MhKept, SettledKept DEF Settled, Alive
  <2> QED BY <2>3, <2>4
<1>8. ASSUME NEW c \in Cores, Drop(c) \/ \E r \in Requests : Atomic(c, r) PROVE Settled
  <2>1. UNCHANGED <<bq, ccu>> /\ ~line[c].dirty
    BY <1>8 DEF Drop, Atomic
  <2>2. (\A d \in Cores : d # c => line'[d] = line[d]) /\ ~line'[c].valid
    BY <1>0, <1>8, DroppedLine DEF Drop, Atomic
  <2>3. Clean' => Clean
    BY <2>1, <2>2, CleanKept DEF CcuOwns
  <2> QED BY <2>1, <2>2, <2>3, SettledKept DEF Settled, Alive
<1>9. ASSUME NEW c \in Cores, Accept(c) PROVE Settled
  <2>1. UNCHANGED <<line, bq>> /\ ccu.state = "IDLE"
    BY <1>9 DEF Accept
  <2>2. ~CcuOwns
    BY <1>0, <2>1, IdleFacts DEF InvCcu
  <2>3. Clean' => Clean
    BY <2>1, <2>2 DEF Clean, Holders
  <2>4. <<"WB", CCU>> \notin bq
    BY <1>9, <2>1, NoWbResponse
  <2> QED BY <2>1, <2>3, <2>4, SettledKept DEF Settled
<1>10. ASSUME NEW o \in Cores, Snoop(o) PROVE Settled
  <2>1. bq' = bq
    BY <1>10 DEF Snoop
  <2>2. \A d \in Cores : line'[d].valid => line[d].valid
    BY <1>0, <1>10, SnoopedLine
  <2>3. ASSUME Clean' PROVE Clean
    <3>1. ~ccu'.dirty
      BY <1>0, <1>10, <2>3, SnoopedCcu DEF Clean, CcuOwns
    <3>2. ~ccu.dirty /\ ~(line[o].valid /\ line[o].dirty /\ Request # "READ_SHARED")
      BY <1>0, <1>10, <3>1, SnoopedCcu
    <3>3. ASSUME NEW h \in Cores, line[h].valid, line[h].dirty PROVE FALSE
      <4>1. line'[h].valid /\ line'[h].dirty
        BY <1>0, <1>10, <3>2, <3>3, SnoopedLine
      <4> QED BY <2>3, <4>1 DEF Clean, Holders
    <3> QED BY <3>2, <3>3 DEF Clean, CcuOwns, Holders
  <2>4. <<"WB", CCU>> \notin bq
    BY <1>10, NoWbResponse DEF Snoop
  <2> QED BY <2>1, <2>2, <2>3, <2>4, SettledKept DEF Settled
<1>11. CASE SnoopDone
  <2>1. UNCHANGED <<line, bq>>
    BY <1>11 DEF SnoopDone
  <2>2. /\ ccu'.dirty = ccu.dirty /\ Request' = Request
        /\ ccu'.data = ccu.data
    BY <1>0, <1>11 DEF SnoopDone, TypeOK, Request
  <2>3. Clean' => Clean
    BY <2>1, <2>2 DEF Clean, CcuOwns, Holders
  <2> QED BY <2>1, <2>2, <2>3, SettledKept DEF Settled, Alive
<1>12. CASE CcuWriteBackDone
  BY <1>0, <1>12 DEF CcuWriteBackDone, Settled, Alive, InvCcu, CcuOwns
<1>15. CASE CleanWriteBackDone
  <2>1. line' = line /\ <<"WB", CCU>> \in bq /\ bq' = bq \ {<<"WB", CCU>>}
    BY <1>15 DEF CleanWriteBackDone
  <2>2. CASE ccu.data # None
    BY <2>1, <2>2 DEF Settled, Alive
  <2>3. CASE ccu.data = None
    <3>1. ~CcuOwns
      BY <1>0, <2>3 DEF InvCcu
    <3>2. Clean' => Clean
      BY <2>1, <3>1 DEF Clean, Holders
    <3>3. ~Alive(CCU)'
      BY <1>15 DEF CleanWriteBackDone, Idle, Alive
    <3> QED BY <2>1, <3>2, <3>3, SettledKept DEF Settled
  <2> QED BY <2>2, <2>3
<1>13. CASE MemAnswer
  BY <1>13, NoHolders DEF MemAnswer, Settled, Clean
<1>14. CASE Respond
  <2> DEFINE i == ccu.init
  <2>0. i \in Cores /\ ccu.state = "RESP" /\ Request \in Requests /\ Request = mh[i] /\ bq' = bq
    BY <1>0, <1>14, CcuFacts DEF Respond, InvCcu, Request
  <2>1. CASE Request = "READ_UNIQUE" \/ (Request = "CLEAN_UNIQUE" /\ i \notin coll)
    BY <1>14, <2>0, <2>1, StoreUnsettled
  <2>2. CASE Request \in {"READ_SHARED"} \cup Atomics \/ (Request = "CLEAN_UNIQUE" /\ i \in coll)
    <3>1. <<"WB", i>> \notin bq /\ <<"WB", CCU>> \notin bq
      BY <2>0, NoWbResponse, AtomicStates
    <3>2. CcuOwns => CcuOwns'
      <4>1. CcuOwns => Request = "CLEAN_UNIQUE" /\ i \in coll
        BY <1>0, <2>0, <2>2 DEF InvCcu, CcuOwns
      <4> QED BY <1>14, <4>1, ReleasedFacts DEF CcuOwns
    <3>3. \A d \in Cores : d # i => line'[d] = line[d]
      BY <1>0, <1>14, RespondLine
    <3>4. ~line[i].valid
      <4>1. InvCore(i)
        BY <2>0 DEF IndInv
      <4> QED BY <2>0, <2>2, <4>1 DEF InvCore
    <3>5. Clean' => Clean
      BY <3>2, <3>3, <3>4, CleanKept
    <3>6. \A p \in Ports : Alive(p)' /\ <<"WB", p>> \in bq' => Alive(p)
      BY <2>0, <3>1, <3>3, PortCases DEF Alive
    <3> QED BY <2>0, <3>5, <3>6 DEF Settled
  <2> QED BY <2>0, <2>1, <2>2
<1> QED BY <1>2, <1>3, <1>4, <1>5, <1>6, <1>7, <1>8, <1>9, <1>10, <1>11, <1>12, <1>13, <1>14, <1>15
        DEF Next, CoreStep, CcuStep

\* Every step keeps the reservations valid: while the line is settled, no core
\* has stored to it since the LR of a core that holds one.
LEMMA ResStep ==
  ASSUME IndInv, Next
  PROVE  InvRes'
<1> SUFFICES ASSUME Settled' PROVE res' \subseteq linked'
  BY DEF InvRes
<1>1. CASE MemWrite
  <2>1. CASE res' = {}
    BY <2>1
  <2>2. CASE res' # {}
    <3>1. UNCHANGED <<res, linked>> /\ bus[1][1].op # "WB"
      BY <1>1, <2>2 DEF MemWrite, res_after
    <3>2. Settled
      BY <3>1, SettledBefore
    <3> QED BY <3>1, <3>2 DEF IndInv, InvRes
  <2> QED BY <2>1, <2>2
<1>2. CASE ~MemWrite
  <2>1. res \subseteq linked
    BY <1>2, SettledBefore DEF IndInv, InvRes
  <2>2. CASE MemAnswer
    BY <2>1, <2>2 DEF MemAnswer
  <2>3. CASE Respond
    <3>1. ccu.init \in Cores
      BY CcuFacts DEF IndInv
    <3>2. ~(Request = "READ_UNIQUE" \/ (Request = "CLEAN_UNIQUE" /\ ccu.init \notin coll))
      BY <2>3, <3>1, StoreUnsettled
    <3>3. UNCHANGED <<res, linked>>
      BY <2>3, <3>2 DEF Respond
    <3> QED BY <2>1, <3>3
  <2>4. ASSUME NEW c \in Cores, StoreHit(c) PROVE FALSE
    BY <2>4, StoreUnsettled
  <2>5. ASSUME NEW c \in Cores,
               \/ LoadHit(c) \/ Drop(c) \/ WriteBackDone(c) \/ BypassWrite(c) \/ BypassDone(c)
               \/ \E r \in Requests : Miss(c, r) \/ Atomic(c, r)
               \/ \E s \in WbStates : WriteBack(c, s)
               \/ Accept(c) \/ Snoop(c)
        PROVE  UNCHANGED <<res, linked>>
    BY <2>5 DEF LoadHit, Drop, WriteBackDone, BypassWrite, BypassDone, Miss, Atomic, WriteBack,
                Accept, Snoop
  <2>6. CASE SnoopDone \/ CcuWriteBackDone \/ CleanWriteBackDone \/ \E p \in Ports : AwGrant(p)
    BY <2>1, <2>6 DEF SnoopDone, CcuWriteBackDone, CleanWriteBackDone, AwGrant
  <2> QED BY <1>2, <2>1, <2>2, <2>3, <2>4, <2>5, <2>6 DEF Next, CoreStep, CcuStep
<1> QED BY <1>1, <1>2
-----------------------------------------------------------------------------
\* The initial state satisfies the invariant.
LEMMA InitInv == Init => IndInv
<1> SUFFICES ASSUME Init PROVE IndInv
  OBVIOUS
<1> USE PortFacts
<1>1. TypeOK
  BY InitType
<1>2. /\ \A c \in Cores : line[c] = Invalid /\ mh[c] = "IDLE"
      /\ \A p \in Ports : awq[p] = <<>>
      /\ coll = {} /\ ccu = Idle /\ bus = <<>> /\ bq = {} /\ res = {}
  BY DEF Init
<1>3. Holders = {}
  <2>1. \A c \in Cores : line[c].valid = FALSE
    BY <1>2 DEF Invalid
  <2> QED BY <2>1 DEF Holders
<1>4. ASSUME NEW p \in Ports, NEW op \in Ops PROVE InvWrite(p, op)
  <2>1. Len(awq[p]) = 0 /\ Len(bus) = 0
    BY <1>2
  <2> QED BY <1>2, <2>1 DEF InvWrite, Waiting, OnBus
<1>5. InvOrder
  <2>1. \A p \in Ports : Len(awq[p]) = 0
    BY <1>2
  <2>2. Len(bus) = 0
    BY <1>2
  <2> QED BY <2>1, <2>2 DEF InvOrder
<1>6. ASSUME NEW c \in Cores PROVE InvCore(c)
  BY <1>2, AtomicStates, RequestCases DEF InvCore, Invalid
<1>7. InvCcu /\ InvSnooped /\ OneOwner /\ InvRes
  BY <1>2, <1>3 DEF InvCcu, InvSnooped, OneOwner, InvRes, Idle, CcuOwns
<1> QED BY <1>1, <1>4, <1>5, <1>6, <1>7 DEF IndInv

\* Every step preserves it.
LEMMA InvStep == IndInv /\ [Next]_vars => IndInv'
<1> SUFFICES ASSUME IndInv, [Next]_vars PROVE IndInv'
  OBVIOUS
<1>1. CASE Next
  <2>1. TypeOK'
    BY TypeStep
  <2>2. \A p \in Ports : \A op \in Ops : InvWrite(p, op)'
    BY <1>1, WriteStep
  <2>3. \A c \in Cores : InvCore(c)'
    BY <1>1, CoreInvStep
  <2>4. InvOrder' /\ InvCcu' /\ InvSnooped' /\ OneOwner' /\ InvRes'
    BY <1>1, OrderStep, CcuInvStep, SnoopedStep, OwnerStep, ResStep
  <2> QED BY <2>1, <2>2, <2>3, <2>4 DEF IndInv
<1>2. CASE UNCHANGED vars
  <2>1. TypeOK' /\ InvOrder' /\ \A c \in Cores : InvCore(c)'
    BY <1>2 DEF vars, IndInv, TypeOK, InvOrder, InvCore
  <2>2. ASSUME NEW p \in Ports, NEW op \in Ops PROVE InvWrite(p, op)'
    <3>1. Expected(p, op) => Expected(p, op)'
      BY <1>2 DEF vars, Expected, Request
    <3> QED BY <1>2, <3>1, WriteKept DEF vars
  <2>3. InvCcu' /\ InvSnooped' /\ OneOwner'
    BY <1>2 DEF vars, IndInv, InvCcu, CcuOwns, InvSnooped, OneOwner, Holders, Request
  <2>4. InvRes'
    <3>1. Settled' => Settled
      BY <1>2 DEF vars, Settled, Clean, CcuOwns, Alive, Holders, Request
    <3> QED BY <1>2, <3>1 DEF vars, IndInv, InvRes
  <2> QED BY <2>1, <2>2, <2>3, <2>4 DEF IndInv
<1> QED BY <1>1, <1>2

\* The invariant, whatever the number of cores and the order of the writes.
THEOREM Invariance == Spec => []IndInv
<1>1. Init => IndInv
  BY InitInv
<1>2. IndInv /\ [Next]_vars => IndInv'
  BY InvStep
<1> QED BY <1>1, <1>2, PTL DEF Spec

\* Every register and queue keeps its type, for one to seven cores: no queue of
\* i_axi_mux grows past the writes a core can have outstanding.
THEOREM TypeCorrect == Spec => []TypeOK
<1>1. IndInv => TypeOK
  BY DEF IndInv
<1> QED BY <1>1, Invariance, PTL

\* No two caches own the line at the same time (the EVAL_FLAGS bookkeeping of the snoop
\* controllers and ccu_fsm together): copies are shared and equal, at most one is dirty.
THEOREM OneOwnerHolds == Spec => []OneOwner
<1>1. IndInv => OneOwner
  BY DEF IndInv
<1> QED BY <1>1, Invariance, PTL

\* When memory performs an SC, the line is in no cache and nothing is written back, so
\* the reservations count.
LEMMA ScClean == IndInv => ScAtomic
<1> SUFFICES ASSUME IndInv, bus # <<>>, bus[1][1].op = "SC", ccu.init \in res
             PROVE  ccu.init \in linked
  BY DEF ScAtomic
<1>1. 1 \in 1 .. Len(bus) /\ bus[1][2] \in Ports
  <2>1. bus \in Seq(Writes \X Ports)
    BY DEF IndInv, TypeOK
  <2>2. 1 \in 1 .. Len(bus)
    BY <2>1
  <2> QED BY <2>2, QueueTypes DEF IndInv
<1>2. OnBus(bus[1][2], "SC")
  BY <1>1 DEF OnBus
<1>3. Expected(bus[1][2], "SC")
  BY <1>1, <1>2, WriteFacts DEF InvWrite, Ops
<1>4. ccu.state = "MEM"
  BY <1>3 DEF Expected
<1>5. Clean
  BY <1>4, NoHolders DEF Clean
<1> QED BY <1>5 DEF IndInv, InvRes, Settled

\* An SC that finds its reservation in axi_riscv_lrsc's table is performed only if no
\* core stored to the line since the LR.
THEOREM ScAtomicHolds == Spec => []ScAtomic
BY ScClean, Invariance, PTL
=============================================================================
