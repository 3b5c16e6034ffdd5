------------------------ MODULE CacheSubsystem_proofs ------------------------
(***************************************************************************)
(* Proofs about CacheSubsystem, for any number of adapters and any burst   *)
(* lengths: W beats reach the write they belong to, and the W-select FIFO  *)
(* never overflows although its full flag is not connected.                *)
(***************************************************************************)
EXTENDS CacheSubsystem, FiniteSetTheorems, TLAPS

\* A sequence that contains each adapter at most once, and m not at all, is shorter
\* than the FIFO is deep.
LEMMA DistinctBound ==
  ASSUME NEW f \in Seq(Masters), NEW m \in Masters,
         \A i, j \in 1 .. Len(f) : f[i] = f[j] => i = j,
         \A i \in 1 .. Len(f) : f[i] # m
  PROVE  Len(f) < DEPTH
<1> DEFINE S == 1 .. Len(f)
           T == Masters \ {m}
<1>1. f \in [S -> T]
  OBVIOUS
<1>2. f \in Injection(S, T)
  BY <1>1 DEF Injection, IsInjective
<1>3. IsFiniteSet(T) /\ Cardinality(T) = Cardinality(Masters) - 1
  BY FS_RemoveElement, MastersAssumption
<1>4. Cardinality(S) <= Cardinality(T)
  <2> HIDE DEF S, T
  <2> QED  BY <1>2, <1>3, FS_Injection
<1>5. Cardinality(S) = Len(f)
  <2> DEFINE n == Len(f)
  <2>1. n \in Nat  OBVIOUS
  <2> HIDE DEF n
  <2>2. Cardinality(1 .. n) = IF 1 > n THEN 0 ELSE n - 1 + 1
    BY <2>1, FS_Interval
  <2>3. Cardinality(1 .. n) = n
    BY <2>1, <2>2
  <2> QED  BY <2>3 DEF n
<1>6. Cardinality(Masters) \in Nat
  BY FS_CardinalityType, MastersAssumption
<1> QED  BY <1>3, <1>4, <1>5, <1>6, DepthAssumption

\* An adapter that offers an AW is idle and not in the FIFO, which has room.
LEMMA RoomForAw ==
  ASSUME IndInv, NEW m \in Masters, aw_valid(m)
  PROVE  /\ state(m) = "IDLE" /\ req[m] \in {"WRITE", "AMO"}
         /\ \A i \in 1 .. Len(fifo) : fifo[i] # m
         /\ Len(fifo) < DEPTH
<1>1. state(m) = "IDLE" /\ req[m] \in {"WRITE", "AMO"}
  BY DEF IndInv, InvStates, aw_valid, Writing
<1>2. \A i \in 1 .. Len(fifo) : fifo[i] # m
  BY <1>1 DEF IndInv, InvFifo
<1>3. fifo \in Seq(Masters)
  BY DEF IndInv, TypeOK
<1> QED  BY <1>1, <1>2, <1>3, DistinctBound DEF IndInv, InvFifo

\* The invariant gives the properties.
LEMMA IndInvImplies ==
  ASSUME IndInv
  PROVE  WForOldest /\ FifoHasRoom /\ NothingOwed
<1>1. WForOldest
  <2> SUFFICES ASSUME OutValid PROVE WForOldest!2
    BY DEF WForOldest
  <2> DEFINE h == Head(fifo)
  <2>1. fifo \in Seq(Masters) /\ slv \in Seq([m : Masters, left : Nat]) /\ fifo # <<>>
    BY DEF IndInv, TypeOK, OutValid
  <2>2. h = fifo[1] /\ 1 \in 1 .. Len(fifo) /\ h \in Masters
    BY <2>1
  <2>3. state(h) = "WAIT_LAST_W_READY" /\ slv[1] = [m |-> h, left |-> cnt(h) + 1] /\ Len(slv) = Len(fifo)
    BY <2>2 DEF IndInv, InvFifo, InvSlv
  <2>4. slv # <<>> /\ Head(slv) = slv[1]
    BY <2>1, <2>2, <2>3
  <2>5. cnt(h) \in Nat /\ Beats[h] \in Nat
    BY <2>2, BeatsAssumption DEF IndInv, TypeOK, cnt
  <2> HIDE DEF h
  <2>6. Head(slv).m = h /\ Head(slv).left = cnt(h) + 1
    BY <2>3, <2>4
  <2>7. w_index(h) = Beats[h] - Head(slv).left
    BY <2>3, <2>5, <2>6 DEF w_index, Burst
  <2>8. w_last(h) <=> Head(slv).left = 1
    BY <2>3, <2>5, <2>6 DEF w_last
  <2> QED  BY <2>4, <2>6, <2>7, <2>8 DEF h
<1>2. FifoHasRoom
  BY RoomForAw DEF FifoHasRoom
<1>3. NothingOwed
  BY DEF IndInv, InvOwed, NothingOwed
<1> QED  BY <1>1, <1>2, <1>3

LEMMA InitIndInv == Init => IndInv
<1> SUFFICES ASSUME Init PROVE IndInv
  OBVIOUS
<1>1. TypeOK
  BY DEF Init, TypeOK, AdStates
<1>2. InvStates /\ InvOwed
  BY DEF Init, InvStates, InvOwed, state, cnt
<1>3. InvFifo /\ InvSlv
  BY DEF Init, InvFifo, InvSlv
<1> QED  BY <1>1, <1>2, <1>3 DEF IndInv

LEMMA RequestIndInv ==
  ASSUME IndInv, NEW m \in Masters, NEW k \in Requests, Request(m, k)
  PROVE  IndInv'
<1>1. TypeOK'
  BY DEF IndInv, TypeOK, Request
<1>2. InvStates' /\ InvOwed'
  BY DEF IndInv, TypeOK, InvStates, InvOwed, Request, state, cnt
<1>3. InvFifo' /\ InvSlv'
  BY DEF IndInv, InvFifo, InvSlv, Request, state, cnt
<1> QED  BY <1>1, <1>2, <1>3 DEF IndInv

\* What a clock edge does to an adapter: the data phase starts with the AW, and the
\* adapter at the head of the FIFO sends one beat.
AdapterStep(m, ar, aw, w, b, r) ==
  LET mine == OutValid /\ w /\ Head(fifo) = m IN
  \/ state(m) = "IDLE" /\ aw = m /\ ad'[m] = At("WAIT_LAST_W_READY", Burst(m)) /\ req'[m] = req[m]
  \/ state(m) = "IDLE" /\ ar = m /\ ad'[m] = At("WAIT_R_VALID", Burst(m)) /\ req'[m] = req[m]
  \/ /\ state(m) = "IDLE" /\ aw # m /\ ar # m
     /\ ad'[m].state = "IDLE" /\ ad'[m].cnt \in Nat /\ req'[m] = req[m]
     /\ ad'[m] = At("IDLE", ad'[m].cnt)
  \/ /\ state(m) = "WAIT_LAST_W_READY" /\ req'[m] = req[m]
     /\ \/ ~mine /\ ad'[m] = ad[m]
        \/ mine /\ cnt(m) = 0 /\ ad'[m] = At("WAIT_B_VALID", 0)
        \/ mine /\ cnt(m) > 0 /\ ad'[m] = At("WAIT_LAST_W_READY", cnt(m) - 1)
  \/ /\ state(m) = "WAIT_B_VALID"
     /\ \/ b # m /\ ad'[m] = ad[m] /\ req'[m] = req[m]
        \/ b = m /\ req[m] = "AMO" /\ r # m /\ ad'[m] = At("WAIT_AMO_R_VALID", 0) /\ req'[m] = req[m]
        \/ b = m /\ (req[m] # "AMO" \/ r = m) /\ ad'[m] = At("IDLE", 0) /\ req'[m] = "NONE"
  \/ /\ state(m) = "WAIT_AMO_R_VALID"
     /\ \/ r # m /\ ad'[m] = ad[m] /\ req'[m] = req[m]
        \/ r = m /\ ad'[m] = At("IDLE", 0) /\ req'[m] = "NONE"
  \/ /\ state(m) = "WAIT_R_VALID" /\ req'[m] = req[m]
     /\ \/ r # m /\ ad'[m] = ad[m]
        \/ r = m /\ rleft[m] = 1 /\ ad'[m] = At("COMPLETE_READ", Decrement(m))
        \/ r = m /\ rleft[m] # 1 /\ cnt(m) > 0 /\ ad'[m] = At("WAIT_R_VALID", cnt(m) - 1)
  \/ state(m) = "COMPLETE_READ" /\ ad'[m] = At("IDLE", cnt(m)) /\ req'[m] = "NONE"

LEMMA EdgeAdapter ==
  ASSUME IndInv, NEW ar \in OrNone, NEW aw \in OrNone, NEW b \in OrNone, NEW r \in OrNone,
         NEW w \in BOOLEAN, Edge(ar, aw, w, b, r), NEW m \in Masters
  PROVE  AdapterStep(m, ar, aw, w, b, r)
<1> DEFINE mine == OutValid /\ w /\ Head(fifo) = m
<1>1. /\ ad'[m] = axi_fsm(m, ar = m, aw = m, mine, b = m, r = m)
      /\ req'[m] = IF valid_o(m, b = m, r = m) THEN "NONE" ELSE req[m]
  BY DEF Edge
<1>2. cnt(m) \in Nat /\ Beats[m] \in Nat \ {0} /\ ad[m] = At(state(m), cnt(m))
  BY BeatsAssumption DEF IndInv, TypeOK, cnt, state, At
<1>3. mine => state(m) = "WAIT_LAST_W_READY"
  BY DEF IndInv, TypeOK, InvFifo, OutValid
<1>4. (aw = m => Writing(m)) /\ (ar = m => ar_valid(m) /\ state(m) = "IDLE" /\ ~Writing(m))
  BY RoomForAw, MastersAssumption DEF Edge, ar_valid, Writing
<1>5. CASE state(m) = "IDLE"
  <2>1. ad'[m] = IdleNext(m, ar = m, aw = m, FALSE) /\ req'[m] = req[m]
    BY <1>1, <1>3, <1>5 DEF axi_fsm, valid_o
  <2>2. CASE aw = m
    <3>1. ad'[m] = At("WAIT_LAST_W_READY", Burst(m))
      BY <2>1, <2>2, <1>2, <1>4 DEF IdleNext, IdleSingle, IdleBurst, Burst, At
    <3> QED  BY <3>1, <2>1, <2>2, <1>5 DEF AdapterStep
  <2>4. CASE ar = m
    BY <2>1, <2>4, <1>2, <1>4, <1>5 DEF IdleNext, AdapterStep
  <2>5. CASE aw # m /\ ar # m
    <3>1. ad'[m].state = "IDLE" /\ ad'[m].cnt \in Nat /\ ad'[m] = At("IDLE", ad'[m].cnt)
      BY <2>1, <2>5, <1>2 DEF IdleNext, IdleSingle, IdleBurst, Burst, At
    <3> QED  BY <3>1, <2>1, <2>5, <1>5 DEF AdapterStep
  <2> QED  BY <2>2, <2>4, <2>5
<1>6. CASE state(m) = "WAIT_LAST_W_READY"
  <2>1. ad'[m] = WaitLastWReady(m, mine) /\ req'[m] = req[m]
    BY <1>1, <1>6 DEF axi_fsm, valid_o
  <2> QED  BY <2>1, <1>2, <1>6 DEF WaitLastWReady, Sent, AdapterStep
<1>7. CASE state(m) = "WAIT_B_VALID"
  <2>1. /\ ad'[m] = WaitBValid(m, b = m, r = m)
        /\ req'[m] = IF b = m /\ (req[m] # "AMO" \/ r = m) THEN "NONE" ELSE req[m]
    BY <1>1, <1>7 DEF axi_fsm, valid_o
  <2> QED  BY <2>1, <1>7 DEF WaitBValid, AdapterStep
<1>8. CASE state(m) = "WAIT_AMO_R_VALID"
  BY <1>1, <1>8 DEF axi_fsm, valid_o, WaitAmoRValid, AdapterStep
<1>9. CASE state(m) = "WAIT_R_VALID"
  <2>1. ad'[m] = WaitRValid(m, r = m) /\ req'[m] = req[m]
    BY <1>1, <1>9 DEF axi_fsm, valid_o
  <2>2. cnt(m) = 0 => rleft[m] = 1
    BY <1>2, <1>9 DEF IndInv, InvOwed
  <2>3. rleft[m] # 1 => cnt(m) > 0 /\ Decrement(m) = cnt(m) - 1
    BY <2>2, <1>2 DEF Decrement
  <2> QED  BY <2>1, <2>3, <1>2, <1>9 DEF WaitRValid, AdapterStep
<1>10. CASE state(m) = "COMPLETE_READ"
  BY <1>1, <1>10 DEF axi_fsm, valid_o, AdapterStep
<1> QED  BY <1>5, <1>6, <1>7, <1>8, <1>9, <1>10 DEF IndInv, InvStates

\* The FIFO and memory move on together: both drop their head with its last beat and
\* append the AW that was taken.
LEMMA EdgeQueues ==
  ASSUME IndInv, NEW ar \in OrNone, NEW aw \in OrNone, NEW b \in OrNone, NEW r \in OrNone,
         NEW w \in BOOLEAN, Edge(ar, aw, w, b, r)
  PROVE  LET sends == OutValid /\ w
             d     == IF sends /\ cnt(Head(fifo)) = 0 THEN 1 ELSE 0
             n     == Len(fifo) - d
         IN /\ fifo' \in Seq(Masters) /\ slv' \in Seq([m : Masters, left : Nat])
            /\ n \in Nat
            /\ Len(fifo') = IF aw = None THEN n ELSE n + 1
            /\ Len(slv') = Len(fifo')
            /\ \A i \in 1 .. n : fifo'[i] = fifo[i + d]
            /\ \A i \in 1 .. n : slv'[i] = IF sends /\ d = 0 /\ i = 1
                                          THEN [slv[1] EXCEPT !.left = @ - 1]
                                          ELSE slv[i + d]
            /\ aw # None => /\ fifo'[n + 1] = aw
                            /\ slv'[n + 1] = [m |-> aw, left |-> Beats[aw]]
<1> DEFINE sends == OutValid /\ w
           d     == IF sends /\ cnt(Head(fifo)) = 0 THEN 1 ELSE 0
           n     == Len(fifo) - d
           f     == IF pop_i(w) THEN Tail(fifo) ELSE fifo
           s     == SlvAfterW(w)
<1>1. /\ fifo \in Seq(Masters) /\ slv \in Seq([m : Masters, left : Nat])
      /\ Len(slv) = Len(fifo)
      /\ \A i \in 1 .. Len(fifo) : slv[i] = [m |-> fifo[i], left |-> cnt(fifo[i]) + 1]
  BY DEF IndInv, TypeOK, InvSlv
<1>2. sends => /\ fifo # <<>> /\ slv # <<>> /\ Head(fifo) = fifo[1] /\ Head(fifo) \in Masters
               /\ Head(slv) = slv[1] /\ slv[1] = [m |-> Head(fifo), left |-> cnt(Head(fifo)) + 1]
               /\ state(Head(fifo)) = "WAIT_LAST_W_READY" /\ cnt(Head(fifo)) \in Nat
  <2> SUFFICES ASSUME sends PROVE <1>2!2
    OBVIOUS
  <2>1. fifo # <<>> /\ Head(fifo) = fifo[1] /\ Head(fifo) \in Masters /\ 1 \in 1 .. Len(fifo)
    BY <1>1 DEF OutValid
  <2>2. slv # <<>> /\ Head(slv) = slv[1]
    BY <1>1, <2>1
  <2>3. state(Head(fifo)) = "WAIT_LAST_W_READY"
    BY <2>1 DEF IndInv, InvFifo
  <2>4. cnt(Head(fifo)) \in Nat
    BY <2>1 DEF IndInv, TypeOK, cnt
  <2> QED  BY <1>1, <2>1, <2>2, <2>3, <2>4
<1>3. pop_i(w) <=> d = 1
  BY <1>2 DEF pop_i, w_last
<1>4. /\ f \in Seq(Masters) /\ n \in Nat /\ Len(f) = n
      /\ \A i \in 1 .. n : f[i] = fifo[i + d]
  <2>1. CASE d = 1
    <3>1. f = Tail(fifo) /\ fifo # <<>>
      BY <1>2, <1>3, <2>1
    <3> HIDE DEF d, f
    <3>2. Len(fifo) \in Nat \ {0}
      BY <1>1, <3>1
    <3>3. /\ Tail(fifo) \in Seq(Masters) /\ Len(Tail(fifo)) = Len(fifo) - 1
          /\ \A i \in 1 .. Len(fifo) - 1 : Tail(fifo)[i] = fifo[i + 1]
      BY <1>1, <3>1, <3>2
    <3> QED  BY <2>1, <3>1, <3>2, <3>3
  <2>2. CASE d = 0
    <3>1. f = fifo
      BY <1>3, <2>2
    <3>2. Len(fifo) \in Nat
      BY <1>1
    <3> HIDE DEF d, f
    <3>3. n = Len(fifo)
      BY <2>2, <3>2
    <3>4. \A i \in 1 .. Len(fifo) : fifo[i] = fifo[i + d]
      BY <2>2, <3>2
    <3> QED  BY <1>1, <3>1, <3>2, <3>3, <3>4
  <2> QED  BY <2>1, <2>2
<1>5. /\ s \in Seq([m : Masters, left : Nat]) /\ Len(s) = n
      /\ \A i \in 1 .. n : s[i] = IF sends /\ d = 0 /\ i = 1
                                 THEN [slv[1] EXCEPT !.left = @ - 1] ELSE slv[i + d]
  <2>1. CASE d = 1
    <3>1. s = Tail(slv)
      BY <1>2, <2>1 DEF SlvAfterW
    <3>2. slv # <<>>
      BY <1>2, <2>1
    <3> HIDE DEF d, s
    <3>3. Len(slv) \in Nat \ {0}
      BY <1>1, <3>2
    <3>4. /\ Tail(slv) \in Seq([m : Masters, left : Nat]) /\ Len(Tail(slv)) = Len(slv) - 1
          /\ \A i \in 1 .. Len(slv) - 1 : Tail(slv)[i] = slv[i + 1]
      BY <1>1, <3>2, <3>3
    <3> QED  BY <1>1, <2>1, <3>1, <3>3, <3>4
  <2>2. CASE d = 0 /\ sends
    <3>1. s = [slv EXCEPT ![1].left = @ - 1]
      BY <1>2, <2>2 DEF SlvAfterW
    <3>2. slv[1].left - 1 \in Nat /\ 1 \in 1 .. Len(slv)
      BY <1>1, <1>2, <2>2
    <3>3. slv[1] \in [m : Masters, left : Nat]
      BY <1>2, <2>2
    <3>4. [slv[1] EXCEPT !.left = @ - 1] \in [m : Masters, left : Nat]
      BY <3>2, <3>3
    <3> HIDE DEF s
    <3>5. /\ s \in Seq([m : Masters, left : Nat]) /\ Len(s) = Len(slv)
          /\ s[1] = [slv[1] EXCEPT !.left = @ - 1]
          /\ \A i \in 1 .. Len(slv) : i # 1 => s[i] = slv[i]
      BY <1>1, <3>1, <3>2, <3>4
    <3>6. n = Len(slv) /\ \A i \in 1 .. n : slv[i + d] = slv[i]
      <4>1. Len(slv) \in Nat
        BY <1>1
      <4> QED  BY <1>1, <2>2, <4>1
    <3> HIDE DEF d, n, sends
    <3> QED  BY <2>2, <3>5, <3>6
  <2>3. CASE ~sends
    <3>1. s = slv /\ d = 0
      BY <2>3 DEF SlvAfterW
    <3>2. Len(slv) \in Nat /\ Len(slv) = Len(fifo)
      BY <1>1
    <3> HIDE DEF d, s, sends
    <3> QED  BY <1>1, <2>3, <3>1, <3>2
  <2> QED  BY <2>1, <2>2, <2>3
<1>6. CASE aw = None
  <2>1. fifo' = f /\ slv' = s
    BY <1>6 DEF Edge, FifoNext, SlvNext, push_i
  <2> HIDE DEF f, s, d, sends
  <2> QED  BY <2>1, <1>4, <1>5, <1>6 DEF d, sends
<1>7. CASE aw # None
  <2>1. aw \in Masters /\ Beats[aw] \in Nat
    BY <1>7, BeatsAssumption DEF OrNone
  <2>2. Len(fifo) < DEPTH
    BY <1>7, <2>1, RoomForAw DEF Edge
  <2>3. fifo' = Append(f, aw) /\ slv' = Append(s, [m |-> aw, left |-> Beats[aw]])
    BY <1>7, <2>2 DEF Edge, FifoNext, SlvNext, push_i
  <2> HIDE DEF f, s, d, sends
  <2>4. /\ fifo' \in Seq(Masters) /\ Len(fifo') = n + 1 /\ fifo'[n + 1] = aw
        /\ \A i \in 1 .. n : fifo'[i] = f[i]
    BY <2>1, <2>3, <1>4
  <2>5. /\ slv' \in Seq([m : Masters, left : Nat]) /\ Len(slv') = n + 1
        /\ slv'[n + 1] = [m |-> aw, left |-> Beats[aw]]
        /\ \A i \in 1 .. n : slv'[i] = s[i]
    BY <2>1, <2>3, <1>4, <1>5
  <2> QED  BY <2>4, <2>5, <1>4, <1>5, <1>7 DEF d, sends
<1> QED  BY <1>6, <1>7

LEMMA EdgeTypeOK ==
  ASSUME IndInv, NEW ar \in OrNone, NEW aw \in OrNone, NEW b \in OrNone, NEW r \in OrNone,
         NEW w \in BOOLEAN, Edge(ar, aw, w, b, r)
  PROVE  TypeOK' /\ InvStates'
<1>1. \A m \in Masters : AdapterStep(m, ar, aw, w, b, r)
  BY EdgeAdapter
<1>2. \A m \in Masters : /\ cnt(m) \in Nat /\ Beats[m] \in Nat \ {0}
                         /\ ad[m] \in [state : AdStates, cnt : Nat]
  BY BeatsAssumption DEF IndInv, TypeOK, cnt
<1>3. ASSUME NEW m \in Masters PROVE ad'[m] \in [state : AdStates, cnt : Nat]
  <2>1. AdapterStep(m, ar, aw, w, b, r)
    BY <1>1
  <2>2. /\ cnt(m) \in Nat /\ Burst(m) \in Nat /\ Decrement(m) \in Nat
        /\ ad[m] \in [state : AdStates, cnt : Nat]
    BY <1>2 DEF Burst, Decrement, cnt_max
  <2>3. \A t \in AdStates, k \in Nat : At(t, k) \in [state : AdStates, cnt : Nat]
    BY DEF At
  <2>4. {"IDLE", "WAIT_B_VALID", "WAIT_LAST_W_READY", "WAIT_R_VALID", "COMPLETE_READ",
         "WAIT_AMO_R_VALID"} \subseteq AdStates
    BY DEF AdStates
  <2>5. \/ ad'[m] = ad[m]
        \/ \E t \in AdStates, k \in Nat : ad'[m] = At(t, k)
    <3>1. CASE state(m) = "IDLE"
      BY <2>1, <2>2, <2>4, <3>1 DEF AdapterStep
    <3>2. CASE state(m) = "WAIT_LAST_W_READY"
      BY <2>1, <2>2, <2>4, <3>2 DEF AdapterStep
    <3>3. CASE state(m) = "WAIT_B_VALID"
      BY <2>1, <2>2, <2>4, <3>3 DEF AdapterStep
    <3>4. CASE state(m) \in {"WAIT_R_VALID", "COMPLETE_READ", "WAIT_AMO_R_VALID"}
      BY <2>1, <2>2, <2>4, <3>4 DEF AdapterStep
    <3> QED  BY <3>1, <3>2, <3>3, <3>4 DEF IndInv, InvStates
  <2> QED  BY <2>2, <2>3, <2>5
<1>4. ad' \in [Masters -> [state : AdStates, cnt : Nat]]
  BY <1>3 DEF Edge
<1>5. req' \in [Masters -> {"NONE"} \cup Requests]
  BY DEF IndInv, TypeOK, Edge
<1>6. bdue' \subseteq Masters
  BY DEF IndInv, TypeOK, Edge
<1>7. rleft' \in [Masters -> Nat]
  BY BeatsAssumption, MastersAssumption DEF IndInv, TypeOK, Edge, OrNone
<1>8. InvStates'
  <2> SUFFICES ASSUME NEW m \in Masters PROVE InvStates!(m)'
    BY DEF InvStates
  <2>1. AdapterStep(m, ar, aw, w, b, r)
    BY <1>1
  <2>2. aw = m => req[m] \in {"WRITE", "AMO"}
    BY RoomForAw, MastersAssumption DEF Edge
  <2>3. ar = m => req[m] \in {"READ", "CLEAN"}
    BY MastersAssumption DEF Edge, ar_valid
  <2>4. InvStates!(m)
    BY DEF IndInv, InvStates
  <2> QED  BY <2>1, <2>2, <2>3, <2>4 DEF AdapterStep, At, state
<1>9. fifo' \in Seq(Masters) /\ slv' \in Seq([m : Masters, left : Nat])
  BY EdgeQueues
<1> QED  BY <1>4, <1>5, <1>6, <1>7, <1>8, <1>9 DEF TypeOK

LEMMA EdgeFifoSlv ==
  ASSUME IndInv, NEW ar \in OrNone, NEW aw \in OrNone, NEW b \in OrNone, NEW r \in OrNone,
         NEW w \in BOOLEAN, Edge(ar, aw, w, b, r)
  PROVE  InvFifo' /\ InvSlv'
<1> DEFINE sends == OutValid /\ w
           h     == Head(fifo)
           d     == IF sends /\ cnt(h) = 0 THEN 1 ELSE 0
           n     == Len(fifo) - d
<1>1. /\ n \in Nat /\ Len(fifo') = (IF aw = None THEN n ELSE n + 1) /\ Len(slv') = Len(fifo')
      /\ \A i \in 1 .. n : fifo'[i] = fifo[i + d]
      /\ \A i \in 1 .. n : slv'[i] = IF sends /\ d = 0 /\ i = 1
                                   THEN [slv[1] EXCEPT !.left = @ - 1] ELSE slv[i + d]
      /\ aw # None => /\ fifo'[n + 1] = aw
                      /\ slv'[n + 1] = [m |-> aw, left |-> Beats[aw]]
  BY EdgeQueues
<1>2. d \in {0, 1} /\ Len(fifo) \in Nat /\ n + d = Len(fifo)
  BY DEF IndInv, TypeOK
<1>3. /\ \A i, j \in 1 .. Len(fifo) : fifo[i] = fifo[j] => i = j
      /\ \A i \in 1 .. Len(fifo) :
           /\ fifo[i] \in Masters /\ state(fifo[i]) = "WAIT_LAST_W_READY" /\ cnt(fifo[i]) \in Nat
           /\ slv[i] = [m |-> fifo[i], left |-> cnt(fifo[i]) + 1]
  BY DEF IndInv, TypeOK, InvFifo, InvSlv, cnt
<1>4. sends => h = fifo[1]
  BY DEF IndInv, TypeOK, OutValid
<1>5. \A i \in 1 .. Len(fifo) : /\ sends /\ fifo[i] = h => i = 1
                                /\ d = 1 => sends
                                /\ sends => 1 \in 1 .. Len(fifo)
  BY <1>2, <1>3, <1>4
<1>6. /\ sends /\ cnt(h) = 0 => d = 1
      /\ ~(sends /\ cnt(h) = 0) => d = 0
  OBVIOUS
<1> HIDE DEF d, n, sends, h
\* An adapter that stays in the FIFO stays in the data phase.
<1>7. ASSUME NEW i \in 1 .. n
      PROVE  /\ ad'[fifo'[i]].state = "WAIT_LAST_W_READY"
             /\ slv'[i] = [m |-> fifo'[i], left |-> ad'[fifo'[i]].cnt + 1]
  <2>1. i + d \in 1 .. Len(fifo) /\ fifo'[i] = fifo[i + d] /\ i \in Nat \ {0}
    BY <1>1, <1>2
  <2>2. PICK x \in Masters : x = fifo[i + d]
    BY <2>1, <1>3
  <2>3. /\ state(x) = "WAIT_LAST_W_READY" /\ cnt(x) \in Nat
        /\ slv[i + d] = [m |-> x, left |-> cnt(x) + 1]
    BY <1>3, <2>1, <2>2
  <2>4. AdapterStep(x, ar, aw, w, b, r)
    BY EdgeAdapter
  <2>5. \/ ~(sends /\ h = x) /\ ad'[x] = ad[x]
        \/ (sends /\ h = x) /\ cnt(x) = 0
        \/ (sends /\ h = x) /\ cnt(x) > 0 /\ ad'[x] = At("WAIT_LAST_W_READY", cnt(x) - 1)
    BY <2>3, <2>4 DEF AdapterStep, sends, h
  <2>6. CASE sends /\ h = x
    <3>1. i + d = 1
      BY <2>1, <2>2, <2>6, <1>5
    <3>2. i = 1 /\ d = 0
      BY <3>1, <2>1, <1>2
    <3>3. cnt(x) # 0
      BY <3>2, <2>6, <1>6
    <3>4. ad'[x] = At("WAIT_LAST_W_READY", cnt(x) - 1)
      BY <3>3, <2>5, <2>6
    <3>5. slv'[i] = [slv[1] EXCEPT !.left = @ - 1]
      BY <3>2, <2>6, <1>1
    <3>6. slv[1] = [m |-> x, left |-> cnt(x) + 1]
      BY <3>2, <2>3
    <3>7. slv'[i] = [m |-> x, left |-> cnt(x)]
      BY <3>5, <3>6, <2>3
    <3>8. ad'[x].state = "WAIT_LAST_W_READY" /\ ad'[x].cnt + 1 = cnt(x)
      BY <3>4, <2>3 DEF At
    <3> QED  BY <3>7, <3>8, <2>1, <2>2
  <2>7. CASE ~(sends /\ h = x)
    <3>1. ad'[x] = ad[x]
      BY <2>5, <2>7
    <3>2. ~(sends /\ d = 0 /\ i = 1)
      BY <2>2, <2>7, <1>4
    <3>3. slv'[i] = slv[i + d]
      BY <3>2, <1>1
    <3>4. ad'[x].state = "WAIT_LAST_W_READY" /\ ad'[x].cnt = cnt(x)
      BY <3>1, <2>3 DEF state, cnt
    <3> QED  BY <3>3, <3>4, <2>1, <2>2, <2>3
  <2> QED  BY <2>6, <2>7
<1>8. ASSUME aw # None
      PROVE  /\ aw \in Masters /\ \A i \in 1 .. Len(fifo) : fifo[i] # aw
             /\ ad'[aw].state = "WAIT_LAST_W_READY" /\ ad'[aw].cnt + 1 = Beats[aw]
  <2>1. aw \in Masters /\ aw_valid(aw) /\ Beats[aw] \in Nat
    BY <1>8, BeatsAssumption DEF Edge, OrNone
  <2>2. state(aw) = "IDLE" /\ req[aw] \in {"WRITE", "AMO"} /\ \A i \in 1 .. Len(fifo) : fifo[i] # aw
    BY <2>1, RoomForAw
  <2>3. ar # aw
    BY <2>1, <2>2, MastersAssumption DEF Edge, ar_valid
  <2>4. AdapterStep(aw, ar, aw, w, b, r)
    BY <2>1, EdgeAdapter
  <2>5. ad'[aw] = At("WAIT_LAST_W_READY", Burst(aw))
    BY <2>2, <2>3, <2>4 DEF AdapterStep
  <2> QED  BY <2>1, <2>2, <2>5 DEF At, Burst
<1>9. ASSUME NEW i \in 1 .. Len(fifo')
      PROVE  /\ ad'[fifo'[i]].state = "WAIT_LAST_W_READY"
             /\ slv'[i] = [m |-> fifo'[i], left |-> ad'[fifo'[i]].cnt + 1]
  <2>1. CASE i \in 1 .. n
    BY <2>1, <1>7
  <2>2. CASE i \notin 1 .. n
    <3>1. aw # None /\ i = n + 1
      BY <2>2, <1>1
    <3>2. fifo'[i] = aw /\ slv'[i] = [m |-> aw, left |-> Beats[aw]]
      BY <3>1, <1>1
    <3> QED  BY <3>1, <3>2, <1>8
  <2> QED  BY <2>1, <2>2
<1>10. ASSUME NEW i \in 1 .. Len(fifo'), NEW j \in 1 .. Len(fifo'), fifo'[i] = fifo'[j]
       PROVE  i = j
  <2>1. CASE i \in 1 .. n /\ j \in 1 .. n
    <3>1. i + d \in 1 .. Len(fifo) /\ j + d \in 1 .. Len(fifo)
      BY <2>1, <1>1, <1>2
    <3>2. fifo[i + d] = fifo[j + d]
      BY <2>1, <1>1, <1>10
    <3>3. i + d = j + d
      BY <3>1, <3>2, <1>3
    <3> QED  BY <3>3, <2>1, <1>2
  <2>2. ASSUME NEW k \in 1 .. n PROVE aw # None => fifo'[k] # aw
    <3>1. k + d \in 1 .. Len(fifo)
      BY <1>1, <1>2
    <3> QED  BY <3>1, <1>1, <1>8
  <2>3. \A k \in 1 .. Len(fifo') : k \notin 1 .. n => aw # None /\ k = n + 1 /\ fifo'[k] = aw
    BY <1>1
  <2> QED  BY <2>1, <2>2, <2>3, <1>10
<1>11. InvFifo'
  BY <1>9, <1>10 DEF InvFifo, state
<1>12. InvSlv'
  BY <1>1, <1>9 DEF InvSlv, cnt
<1> QED  BY <1>11, <1>12

LEMMA EdgeOwed ==
  ASSUME IndInv, NEW ar \in OrNone, NEW aw \in OrNone, NEW b \in OrNone, NEW r \in OrNone,
         NEW w \in BOOLEAN, Edge(ar, aw, w, b, r)
  PROVE  InvOwed'
<1> SUFFICES ASSUME NEW m \in Masters PROVE InvOwed!(m)'
  BY DEF InvOwed
<1> DEFINE mine == OutValid /\ w /\ Head(fifo) = m
<1>1. AdapterStep(m, ar, aw, w, b, r)
  BY EdgeAdapter
<1>2. InvOwed!(m) /\ InvStates!(m) /\ cnt(m) \in Nat /\ Beats[m] \in Nat \ {0}
  BY BeatsAssumption DEF IndInv, TypeOK, InvOwed, InvStates, cnt
\* Memory has the last beat of m exactly when m sends it.
<1>3. Complete(m, w) <=> mine /\ cnt(m) = 0
  <2>1. OutValid => slv # <<>> /\ Head(slv).m = Head(fifo) /\ Head(slv).left = cnt(Head(fifo)) + 1
                   /\ cnt(Head(fifo)) \in Nat
    <3> SUFFICES ASSUME OutValid PROVE <2>1!2
      OBVIOUS
    <3>1. fifo \in Seq(Masters) /\ fifo # <<>> /\ slv \in Seq([m : Masters, left : Nat])
      BY DEF IndInv, TypeOK, OutValid
    <3>2. 1 \in 1 .. Len(fifo) /\ Head(fifo) = fifo[1] /\ Head(fifo) \in Masters
      BY <3>1
    <3>3. Len(slv) = Len(fifo) /\ slv[1] = [m |-> Head(fifo), left |-> cnt(Head(fifo)) + 1]
      BY <3>2 DEF IndInv, InvSlv
    <3>4. slv # <<>> /\ Head(slv) = slv[1]
      BY <3>1, <3>2, <3>3
    <3>5. cnt(Head(fifo)) \in Nat
      BY <3>2 DEF IndInv, TypeOK, cnt
    <3> QED  BY <3>3, <3>4, <3>5
  <2> QED  BY <2>1 DEF Complete
<1>4. mine => state(m) = "WAIT_LAST_W_READY"
  BY DEF IndInv, TypeOK, InvFifo, OutValid
<1>5. /\ m \in bdue' <=> (m \in bdue /\ m # b) \/ (mine /\ cnt(m) = 0)
      /\ rleft'[m] = IF ar = m THEN (IF req[m] = "CLEAN" THEN 1 ELSE Beats[m])
                     ELSE IF mine /\ cnt(m) = 0 /\ req[m] = "AMO" THEN 1
                     ELSE IF r = m THEN rleft[m] - 1 ELSE rleft[m]
  BY <1>3 DEF Edge
<1>6. /\ ar = m => state(m) = "IDLE"
      /\ r = m => \/ state(m) \in {"WAIT_R_VALID", "WAIT_AMO_R_VALID"}
                  \/ state(m) = "WAIT_B_VALID" /\ req[m] = "AMO" /\ b = m
      /\ aw = m => state(m) = "IDLE" /\ ar # m
  <2>1. m # None
    BY MastersAssumption
  <2>2. ar = m => state(m) = "IDLE" /\ req[m] \in {"READ", "CLEAN"}
    BY <2>1 DEF Edge, ar_valid
  <2>3. r = m => \/ state(m) \in {"WAIT_R_VALID", "WAIT_AMO_R_VALID"}
                 \/ state(m) = "WAIT_B_VALID" /\ req[m] = "AMO" /\ b = m
    BY <2>1 DEF Edge, r_ready
  <2>4. aw = m => aw_valid(m)
    BY <2>1 DEF Edge
  <2>5. aw = m => state(m) = "IDLE" /\ req[m] \in {"WRITE", "AMO"}
    BY <2>4, RoomForAw
  <2> QED  BY <2>2, <2>3, <2>5
<1> HIDE DEF mine
<1>7. CASE state(m) = "IDLE"
  BY <1>1, <1>2, <1>4, <1>5, <1>6, <1>7 DEF AdapterStep, At, state, cnt, Burst
<1>8. CASE state(m) = "WAIT_LAST_W_READY"
  BY <1>1, <1>2, <1>5, <1>6, <1>8 DEF AdapterStep, At, state, cnt, mine
<1>9. CASE state(m) = "WAIT_B_VALID"
  BY <1>1, <1>2, <1>4, <1>5, <1>6, <1>9 DEF AdapterStep, At, state, cnt
<1>10. CASE state(m) \in {"WAIT_R_VALID", "COMPLETE_READ", "WAIT_AMO_R_VALID"}
  BY <1>1, <1>2, <1>4, <1>5, <1>6, <1>10 DEF AdapterStep, At, state, cnt
<1> QED  BY <1>2, <1>7, <1>8, <1>9, <1>10

LEMMA NextIndInv == IndInv /\ [Next]_vars => IndInv'
<1> SUFFICES ASSUME IndInv, [Next]_vars PROVE IndInv'
  OBVIOUS
<1>1. CASE \E m \in Masters, k \in Requests : Request(m, k)
  BY <1>1, RequestIndInv
<1>2. CASE \E ar, aw, b, r \in OrNone, w \in BOOLEAN : Edge(ar, aw, w, b, r)
  BY <1>2, EdgeTypeOK, EdgeFifoSlv, EdgeOwed DEF IndInv
<1>3. CASE UNCHANGED vars
  <2>1. TypeOK' /\ InvStates'
    BY <1>3 DEF vars, IndInv, TypeOK, InvStates, state
  <2>2. InvFifo' /\ InvSlv'
    BY <1>3 DEF vars, IndInv, InvFifo, InvSlv, state, cnt
  <2>3. InvOwed'
    BY <1>3 DEF vars, IndInv, InvOwed, state, cnt
  <2> QED  BY <2>1, <2>2, <2>3 DEF IndInv
<1> QED  BY <1>1, <1>2, <1>3 DEF Next

LEMMA IndInvHolds == Spec => []IndInv
BY InitIndInv, NextIndInv, PTL DEF Spec

\* For any number of adapters: all registers, the FIFO and what memory owes keep their
\* types; memory is never asked for more beats than it owes.
THEOREM SubsystemTypeCorrect == Spec => []TypeOK
<1>1. IndInv => TypeOK
  BY DEF IndInv
<1> QED  BY <1>1, IndInvHolds, PTL

\* For any number of adapters and any burst lengths: every W beat the core offers
\* belongs to the oldest write that memory has taken and carries the right last flag.
THEOREM WForOldestHolds == Spec => []WForOldest
<1>1. IndInv => WForOldest
  BY IndInvImplies
<1> QED  BY <1>1, IndInvHolds, PTL

\* The W-select FIFO has room for every AW that is offered, as long as it is as deep as
\* there are adapters: leaving full_o open is safe.
THEOREM FifoHasRoomHolds == Spec => []FifoHasRoom
<1>1. IndInv => FifoHasRoom
  BY IndInvImplies
<1> QED  BY <1>1, IndInvHolds, PTL

\* No answer to an earlier request can reach an adapter after it has become idle.
THEOREM NothingOwedHolds == Spec => []NothingOwed
<1>1. IndInv => NothingOwed
  BY IndInvImplies
<1> QED  BY <1>1, IndInvHolds, PTL
=============================================================================
