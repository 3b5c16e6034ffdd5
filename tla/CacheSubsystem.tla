--------------------------- MODULE CacheSubsystem ---------------------------
(***************************************************************************)
(* The memory port of one core, std_cache_subsystem.sv.  The axi_adapters  *)
(* of the data cache (write-backs, refills) and of the bypass path (single *)
(* accesses, atomics) share the AXI channels of the core.  AXI has no id   *)
(* on W, so a FIFO remembers whose AW was taken and steers the W mux.  Its *)
(* full flag is not connected: that it never overflows rests on how the    *)
(* adapters behave.                                                        *)
(*                                                                         *)
(* Edge is one clock edge of all adapters and of the FIFO.                 *)
(***************************************************************************)
EXTENDS Naturals, Sequences, FiniteSets

CONSTANTS
  Masters,  \* the axi_adapters
  Beats,    \* beats of a transfer of each; 1 is a SINGLE_REQ
  Kinds,    \* requests of each
  DEPTH,    \* depth of i_fifo_w_channel
  None

\* A CleanUnique is a read of a line that is answered with a single beat.
Requests == {"READ", "CLEAN", "WRITE", "AMO"}

ASSUME MastersAssumption == IsFiniteSet(Masters) /\ None \notin Masters
ASSUME BeatsAssumption   == Beats \in [Masters -> Nat \ {0}]
ASSUME KindsAssumption   == Kinds \in [Masters -> SUBSET Requests]
ASSUME DepthAssumption   == DEPTH \in Nat /\ Cardinality(Masters) <= DEPTH

VARIABLES
  req,   \* the request at each adapter, held until valid_o
  ad,    \* state_q and cnt_q of each adapter
  fifo,  \* i_fifo_w_channel
  slv,   \* memory side: writes taken whose data is not complete
  bdue,  \* memory side: masters owed a B
  rleft  \* memory side: R beats owed to each master

vars == <<req, ad, fifo, slv, bdue, rleft>>

AdStates == {"IDLE", "WAIT_B_VALID", "WAIT_AW_READY", "WAIT_LAST_W_READY",
             "WAIT_LAST_W_READY_AW_READY", "WAIT_AW_READY_BURST", "WAIT_R_VALID",
             "COMPLETE_READ", "WAIT_AMO_R_VALID"}

\* The registers, the FIFO and what memory owes keep their types.
TypeOK ==
  /\ req \in [Masters -> {"NONE"} \cup Requests]
  /\ ad \in [Masters -> [state : AdStates, cnt : Nat]]
  /\ fifo \in Seq(Masters)
  /\ slv \in Seq([m : Masters, left : Nat])
  /\ bdue \subseteq Masters /\ rleft \in [Masters -> Nat]

Init ==
  /\ req = [m \in Masters |-> "NONE"]
  /\ ad = [m \in Masters |-> [state |-> "IDLE", cnt |-> 0]]
  /\ fifo = <<>> /\ slv = <<>> /\ bdue = {}
  /\ rleft = [m \in Masters |-> 0]
-----------------------------------------------------------------------------
(***************************************************************************)
(* Outputs of an adapter.                                                  *)
(***************************************************************************)
state(m) == ad[m].state
cnt(m)   == ad[m].cnt
Burst(m) == Beats[m] - 1
\* Largest value of the counter, which has at least one bit (line and bus widths are
\* powers of two), and the counter decremented.
cnt_max(m) == IF Beats[m] = 1 THEN 1 ELSE Burst(m)
Decrement(m) == IF cnt(m) = 0 THEN cnt_max(m) ELSE cnt(m) - 1
Writing(m) == state(m) = "IDLE" /\ req[m] \in {"WRITE", "AMO"}

ar_valid(m) == state(m) = "IDLE" /\ req[m] \in {"READ", "CLEAN"}
aw_valid(m) ==
  \/ Writing(m)
  \/ state(m) \in {"WAIT_AW_READY", "WAIT_LAST_W_READY_AW_READY", "WAIT_AW_READY_BURST"}
w_valid(m) ==
  \/ Writing(m)
  \/ state(m) \in {"WAIT_LAST_W_READY", "WAIT_LAST_W_READY_AW_READY"}

\* Index and last flag of the beat offered on W.
w_index(m) == IF state(m) = "IDLE" THEN 0 ELSE Burst(m) - cnt(m)
w_last(m)  == IF state(m) = "IDLE" THEN Beats[m] = 1 ELSE cnt(m) = 0
-----------------------------------------------------------------------------
(***************************************************************************)
(* The FSM of an adapter; aw, w, ar, b and r are the handshakes of its     *)
(* channels in this cycle.                                                 *)
(***************************************************************************)
At(s, n) == [state |-> s, cnt |-> n]

\* Slip: an AW that is taken without its W is offered again.
IdleSingle_ForgetAw(aw, w) ==
  At(IF w THEN IF aw THEN "WAIT_B_VALID" ELSE "WAIT_AW_READY" ELSE "IDLE", 0)
IdleSingle(aw, w) ==
  At(IF aw THEN IF w THEN "WAIT_B_VALID" ELSE "WAIT_LAST_W_READY"
           ELSE IF w THEN "WAIT_AW_READY" ELSE "IDLE", 0)

IdleBurst(m, aw, w) ==
  At(IF aw THEN "WAIT_LAST_W_READY"
     ELSE IF w THEN "WAIT_LAST_W_READY_AW_READY" ELSE "IDLE",
     IF w THEN Burst(m) - 1 ELSE Burst(m))

IdleNext(m, ar, aw, w) ==
  IF Writing(m) THEN IF Beats[m] = 1 THEN IdleSingle(aw, w) ELSE IdleBurst(m, aw, w)
  ELSE IF ar_valid(m) THEN At(IF ar THEN "WAIT_R_VALID" ELSE "IDLE", Burst(m))
  ELSE At("IDLE", 0)

\* One more beat is sent; after the last one the adapter goes on to state last.
\* Slip: the last beat is not recognised.
Sent_NoLast(m, s, last) == At(s, cnt(m) - 1)
Sent(m, s, last) == IF cnt(m) = 0 THEN At(last, 0) ELSE At(s, cnt(m) - 1)

WaitLastWReadyAwReady(m, aw, w) ==
  IF aw THEN IF w THEN Sent(m, "WAIT_LAST_W_READY", "WAIT_B_VALID")
                  ELSE At("WAIT_LAST_W_READY", cnt(m))
  ELSE IF w THEN Sent(m, "WAIT_LAST_W_READY_AW_READY", "WAIT_AW_READY_BURST") ELSE ad[m]

WaitLastWReady(m, w) ==
  IF w THEN Sent(m, "WAIT_LAST_W_READY", "WAIT_B_VALID") ELSE ad[m]

WaitAwReady(m, aw) == IF aw THEN At("WAIT_B_VALID", 0) ELSE ad[m]

WaitBValid(m, b, r) ==
  IF ~b THEN ad[m]
  ELSE IF req[m] = "AMO" /\ ~r THEN At("WAIT_AMO_R_VALID", 0) ELSE At("IDLE", 0)

WaitAmoRValid(m, r) == IF r THEN At("IDLE", 0) ELSE ad[m]

\* Slip: complete one beat early.
WaitRValid_Early(m, r) ==
  IF r THEN At(IF rleft[m] <= 2 THEN "COMPLETE_READ" ELSE "WAIT_R_VALID", Decrement(m)) ELSE ad[m]
\* Memory marks the last beat; the counter is decremented with it, too.
WaitRValid(m, r) ==
  IF r THEN At(IF rleft[m] = 1 THEN "COMPLETE_READ" ELSE "WAIT_R_VALID", Decrement(m)) ELSE ad[m]

axi_fsm(m, ar, aw, w, b, r) ==
  IF state(m) = "IDLE" THEN IdleNext(m, ar, aw, w)
  ELSE IF state(m) = "WAIT_LAST_W_READY_AW_READY" THEN WaitLastWReadyAwReady(m, aw, w)
  ELSE IF state(m) = "WAIT_LAST_W_READY" THEN WaitLastWReady(m, w)
  ELSE IF state(m) \in {"WAIT_AW_READY", "WAIT_AW_READY_BURST"} THEN WaitAwReady(m, aw)
  ELSE IF state(m) = "WAIT_B_VALID" THEN WaitBValid(m, b, r)
  ELSE IF state(m) = "WAIT_AMO_R_VALID" THEN WaitAmoRValid(m, r)
  ELSE IF state(m) = "WAIT_R_VALID" THEN WaitRValid(m, r)
  ELSE At("IDLE", cnt(m))  \* COMPLETE_READ

\* Request answered.
valid_o(m, b, r) ==
  \/ state(m) = "WAIT_B_VALID" /\ b /\ (req[m] # "AMO" \/ r)
  \/ state(m) = "WAIT_AMO_R_VALID" /\ r
  \/ state(m) = "COMPLETE_READ"

\* An atomic that returns data takes R only with B or after it.
\* Slip: it takes R at any time.
r_ready_BeforeB(m, b) ==
  \/ state(m) \in {"WAIT_R_VALID", "WAIT_AMO_R_VALID"}
  \/ state(m) = "WAIT_B_VALID" /\ req[m] = "AMO"
r_ready(m, b) ==
  \/ state(m) \in {"WAIT_R_VALID", "WAIT_AMO_R_VALID"}
  \/ state(m) = "WAIT_B_VALID" /\ req[m] = "AMO" /\ b
-----------------------------------------------------------------------------
(***************************************************************************)
(* The W channel of the core: the FIFO selects the adapter.                *)
(***************************************************************************)
OutValid == fifo # <<>> /\ w_valid(Head(fifo))

\* Slip: pop with every beat.
pop_i_EveryBeat(w) == OutValid /\ w
pop_i(w) == OutValid /\ w /\ w_last(Head(fifo))

push_i(aw) == aw # None

FifoNext(aw, w) ==
  LET f == IF pop_i(w) THEN Tail(fifo) ELSE fifo
  IN IF push_i(aw) /\ Len(fifo) < DEPTH THEN Append(f, aw) ELSE f

\* Memory takes AWs, gives every W beat to the oldest write, and owes a B, and the
\* old value of an atomic, once it has all beats.
SlvAfterW(w) ==
  IF ~(OutValid /\ w) \/ slv = <<>> THEN slv
  ELSE IF Head(slv).left > 1 THEN [slv EXCEPT ![1].left = @ - 1]
  ELSE Tail(slv)

SlvNext(aw, w) ==
  IF aw = None THEN SlvAfterW(w)
  ELSE Append(SlvAfterW(w), [m |-> aw, left |-> Beats[aw]])

Complete(m, w) == OutValid /\ w /\ slv # <<>> /\ Head(slv).m = m /\ Head(slv).left <= 1

Edge(ar, aw, w, b, r) ==
  /\ ar # None => ar_valid(ar)
  /\ aw # None => aw_valid(aw)
  /\ b # None => b \in bdue /\ state(b) = "WAIT_B_VALID"
  /\ r # None => rleft[r] > 0 /\ r_ready(r, b = r)
  /\ ad' = [m \in Masters |->
              axi_fsm(m, ar = m, aw = m, OutValid /\ w /\ Head(fifo) = m, b = m, r = m)]
  /\ req' = [m \in Masters |-> IF valid_o(m, b = m, r = m) THEN "NONE" ELSE req[m]]
  /\ fifo' = FifoNext(aw, w)
  /\ slv' = SlvNext(aw, w)
  /\ bdue' = (bdue \ {b}) \cup {m \in Masters : Complete(m, w)}
  /\ rleft' = [m \in Masters |->
                 IF ar = m THEN (IF req[m] = "CLEAN" THEN 1 ELSE Beats[m])
                 ELSE IF Complete(m, w) /\ req[m] = "AMO" THEN 1
                 ELSE IF r = m THEN rleft[m] - 1 ELSE rleft[m]]

\* The miss handler or the bypass arbiter has a request for an idle adapter.
Request(m, k) ==
  /\ state(m) = "IDLE" /\ req[m] = "NONE" /\ k \in Kinds[m]
  /\ req' = [req EXCEPT ![m] = k]
  /\ UNCHANGED <<ad, fifo, slv, bdue, rleft>>

OrNone == Masters \cup {None}

Next ==
  \/ \E m \in Masters, k \in Requests : Request(m, k)
  \/ \E ar, aw, b, r \in OrNone, w \in BOOLEAN : Edge(ar, aw, w, b, r)

Spec == Init /\ [][Next]_vars

\* The clock runs; memory takes AR, AW (stream_arbiter is round robin) and W, and
\* gives B and R.  Nothing is assumed about the adapters or the FIFO.
Fairness ==
  /\ WF_vars(\E ar, aw, b, r \in OrNone, w \in BOOLEAN : Edge(ar, aw, w, b, r))
  /\ WF_vars(\E ar, aw, b, r \in OrNone : Edge(ar, aw, TRUE, b, r))
  /\ \A m \in Masters :
       /\ WF_vars(\E aw, b, r \in OrNone, w \in BOOLEAN : Edge(m, aw, w, b, r))
       /\ WF_vars(\E ar, b, r \in OrNone, w \in BOOLEAN : Edge(ar, m, w, b, r))
       /\ WF_vars(\E ar, aw, r \in OrNone, w \in BOOLEAN : Edge(ar, aw, w, m, r))
       /\ WF_vars(\E ar, aw, b \in OrNone, w \in BOOLEAN : Edge(ar, aw, w, b, m))

FairSpec == Spec /\ Fairness
-----------------------------------------------------------------------------
(***************************************************************************)
(* Properties.                                                             *)
(***************************************************************************)
\* A beat offered to memory belongs to the oldest write memory has taken, is the next
\* one of it, and is marked as last if and only if it is.
WForOldest ==
  OutValid => /\ slv # <<>> /\ Head(slv).m = Head(fifo)
              /\ w_index(Head(fifo)) = Beats[Head(fifo)] - Head(slv).left
              /\ w_last(Head(fifo)) <=> Head(slv).left = 1

\* The unconnected full_o never matters: there is room for every AW that is offered.
FifoHasRoom == (\E m \in Masters : aw_valid(m)) => Len(fifo) < DEPTH

\* An adapter is idle, and may get a new request, only when memory owes it nothing.
NothingOwed ==
  \A m \in Masters : state(m) = "IDLE" => m \notin bdue /\ rleft[m] = 0

\* Every request is answered: the adapters do not block each other on the shared W
\* channel, and no answer is missed.
Answered == \A m \in Masters : req[m] # "NONE" ~> req[m] = "NONE"
-----------------------------------------------------------------------------
(***************************************************************************)
(* The inductive invariant.                                                *)
(***************************************************************************)
\* The states that wait for AW after W are never entered: no adapter can send data
\* before the FIFO knows its AW.
InvStates ==
  \A m \in Masters :
    /\ state(m) \in {"IDLE", "WAIT_LAST_W_READY", "WAIT_B_VALID", "WAIT_R_VALID",
                    "COMPLETE_READ", "WAIT_AMO_R_VALID"}
    /\ state(m) \in {"WAIT_LAST_W_READY", "WAIT_B_VALID"} => req[m] \in {"WRITE", "AMO"}
    /\ state(m) \in {"WAIT_R_VALID", "COMPLETE_READ"} => req[m] \in {"READ", "CLEAN"}
    /\ state(m) = "WAIT_AMO_R_VALID" => req[m] = "AMO"

\* The FIFO holds, once each, the adapters that are sending data.
InvFifo ==
  /\ \A i, j \in 1 .. Len(fifo) : fifo[i] = fifo[j] => i = j
  /\ \A i \in 1 .. Len(fifo) : state(fifo[i]) = "WAIT_LAST_W_READY"

\* Memory has the same writes in the same order, and misses the beats still to come.
InvSlv ==
  /\ Len(slv) = Len(fifo)
  /\ \A i \in 1 .. Len(fifo) : slv[i] = [m |-> fifo[i], left |-> cnt(fifo[i]) + 1]

InvOwed ==
  \A m \in Masters :
    /\ m \in bdue => state(m) = "WAIT_B_VALID"
    /\ rleft[m] = IF state(m) = "WAIT_R_VALID" THEN IF req[m] = "CLEAN" THEN 1 ELSE cnt(m) + 1
                  ELSE IF state(m) \in {"WAIT_B_VALID", "WAIT_AMO_R_VALID"} /\ req[m] = "AMO"
                  THEN 1 ELSE 0

IndInv == TypeOK /\ InvStates /\ InvFifo /\ InvSlv /\ InvOwed
=============================================================================
