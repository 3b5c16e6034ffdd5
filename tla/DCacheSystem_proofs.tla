------------------------ MODULE DCacheSystem_proofs ------------------------
(***************************************************************************)
(* Proofs about one data cache and its environment, for any number of      *)
(* lines, sets and ways, any traffic of the core and any delay of R beats: *)
(* every register keeps its type, a controller that waits for the critical *)
(* word gets its own, a flush empties the cache, and, as long as stores    *)
(* write the way that holds their line, a line is in one way at most.      *)
(***************************************************************************)
EXTENDS DCacheSystem, FiniteSetTheorems, WellFoundedInduction, TLAPS
-----------------------------------------------------------------------------
(***************************************************************************)
(* The operators of the model.                                             *)
(***************************************************************************)
\* The set of a line is a set of the cache.
LEMMA IndexType == \A a \in Addr : Index(a) \in Sets
BY DCacheAssumption DEF Addr, Index, Sets

\* A store makes another version of the data.
LEMMA MergeType == \A d \in Val : Merge(d) \in Val
BY DCacheAssumption DEF Val, Merge

\* FirstOf finds the least element of a set of numbers.
LEMMA FirstOfIn ==
  ASSUME NEW S, S \subseteq Nat, S # {}
  PROVE  FirstOf(S) \in S
<1>1. PICK x \in S : \A y \in S : ~(<<y, x>> \in OpToRel(<, Nat))
  BY NatLessThanWellFounded, WFMin, Zenon
<1>2. \A y \in S : x <= y
  <2> SUFFICES ASSUME NEW y \in S PROVE x <= y
    OBVIOUS
  <2>1. ~(y < x)
    BY <1>1, Zenon DEF OpToRel
  <2> QED BY <2>1
<1> QED BY <1>2 DEF FirstOf

\* HitWay is 0 or a way that holds the line.
LEMMA HitWayType ==
  ASSUME NEW a
  PROVE  /\ HitWays(a) \subseteq Ways
         /\ HitWays(a) = {} => HitWay(a) = 0
         /\ HitWays(a) # {} => HitWay(a) \in HitWays(a)
         /\ HitWay(a) \in Ways \cup {0}
         /\ HitWay(a) = 0 => HitWays(a) = {}
<1>1. HitWays(a) \subseteq Ways /\ Ways \subseteq Nat /\ 0 \notin Ways
  BY DCacheAssumption DEF HitWays, Ways
<1>2. HitWays(a) # {} => FirstOf(HitWays(a)) \in HitWays(a)
  BY <1>1, FirstOfIn
<1> QED BY <1>1, <1>2 DEF HitWay
-----------------------------------------------------------------------------
(***************************************************************************)
(* The inputs of an edge.                                                  *)
(***************************************************************************)
\* What the core presents at each port.
LEMMA CoreInFacts ==
  ASSUME NEW i \in CtrlPorts, NEW c \in CoreIn(i)
  PROVE  /\ c.req \in Addr \cup {None}
         /\ c.tag_valid \in BOOLEAN /\ c.kill \in BOOLEAN
<1>1. LinesOf(i) \subseteq Addr
  <2>1. i = 0 \/ i = 1 \/ i = 2
    BY DEF CtrlPorts
  <2> QED BY <2>1, SystemAssumption DEF LinesOf
<1> QED BY <1>1 DEF CoreIn, If

\* The inputs, port by port for the core.
LEMMA InputFacts ==
  ASSUME NEW in \in Inputs
  PROVE  /\ in.flush = core.flush /\ in.amo = core.amo /\ in.ac = ccu.ac
         /\ in.amo_gnt \in BOOLEAN /\ in.amo_valid \in BOOLEAN
         /\ in.amo_valid => ccu.state = "AMO"
         /\ in.amo_gnt => mh.state = "AMO_REQ"
         /\ in.cr_ready \in BOOLEAN /\ in.cd_ready \in BOOLEAN
         /\ in.ar_ready \in BOOLEAN /\ in.aw_ready \in BOOLEAN
         /\ in.r \in Beats /\ in.r_shared = ccu.resp.shared
         /\ in.r_dirty = ccu.resp.dirty /\ in.r_data = ccu.resp.data
         /\ in.b \in BOOLEAN /\ (in.b => ad.state = "WAIT_B")
         /\ in.victim \in Ways /\ in.word \in 0..1
         /\ \A i \in CtrlPorts : /\ in.core[i].req \in Addr \cup {None}
                                 /\ in.core[i].tag_valid \in BOOLEAN
                                 /\ in.core[i].kill \in BOOLEAN
<1>1. 1 \in Ways
  BY DCacheAssumption DEF Ways
<1>2. ASSUME NEW i \in CtrlPorts PROVE in.core[i] \in CoreIn(i)
  <2>1. i = 0 \/ i = 1 \/ i = 2
    BY DEF CtrlPorts
  <2>2. PICK c \in CoreIn(0) \X CoreIn(1) \X CoreIn(2) :
          in.core = [j \in CtrlPorts |-> c[j + 1]]
    BY DEF Inputs, CoreInputs
  <2>3. c[1] \in CoreIn(0) /\ c[2] \in CoreIn(1) /\ c[3] \in CoreIn(2)
    OBVIOUS
  <2> QED BY <2>1, <2>2, <2>3
<1>3. \A i \in CtrlPorts : /\ in.core[i].req \in Addr \cup {None}
                         /\ in.core[i].tag_valid \in BOOLEAN
                         /\ in.core[i].kill \in BOOLEAN
  BY <1>2, CoreInFacts
<1>4. /\ in.flush = core.flush /\ in.amo = core.amo /\ in.ac = ccu.ac
      /\ in.r \in Beats /\ in.r_shared = ccu.resp.shared
      /\ in.r_dirty = ccu.resp.dirty /\ in.r_data = ccu.resp.data
      /\ in.victim \in Ways /\ in.word \in 0..1
  BY <1>1 DEF Inputs, If
<1>5. /\ in.amo_gnt \in BOOLEAN /\ in.amo_valid \in BOOLEAN
      /\ in.cr_ready \in BOOLEAN /\ in.cd_ready \in BOOLEAN
      /\ in.ar_ready \in BOOLEAN /\ in.aw_ready \in BOOLEAN /\ in.b \in BOOLEAN
  BY DEF Inputs, If
<1>6. /\ in.amo_valid => ccu.state = "AMO"
      /\ in.amo_gnt => mh.state = "AMO_REQ"
      /\ in.b => ad.state = "WAIT_B"
  BY DEF Inputs, If
<1> QED BY <1>3, <1>4, <1>5, <1>6
-----------------------------------------------------------------------------
(***************************************************************************)
(* Types: one lemma per state machine.                                     *)
(***************************************************************************)

\* The lines that can be written.
LEMMA LineTypes ==
  /\ \A l \in Lines : /\ Invalid(l) \in Lines /\ ~Invalid(l).valid
                     /\ Invalid(l).tag = l.tag
  /\ \A l \in Lines : /\ [l EXCEPT !.shared = TRUE] \in Lines
                     /\ [l EXCEPT !.shared = TRUE].valid = l.valid
                     /\ [l EXCEPT !.shared = TRUE].tag = l.tag
  /\ \A l \in Lines : Stored(l) \in Lines /\ Stored(l).tag = l.tag
  /\ TypeOK => Refilled \in Lines /\ Refilled.tag = mh.addr
<1>1. \A l \in Lines : /\ Invalid(l) \in Lines /\ ~Invalid(l).valid
                     /\ Invalid(l).tag = l.tag
  BY DEF Lines, Invalid
<1>2. \A l \in Lines : /\ [l EXCEPT !.shared = TRUE] \in Lines
                     /\ [l EXCEPT !.shared = TRUE].valid = l.valid
                     /\ [l EXCEPT !.shared = TRUE].tag = l.tag
  BY DEF Lines
<1>3. \A l \in Lines : Stored(l) \in Lines /\ Stored(l).tag = l.tag
  BY MergeType DEF Lines, Stored
<1>4. ASSUME TypeOK PROVE Refilled \in Lines /\ Refilled.tag = mh.addr
  <2>1. mh.addr \in Addr /\ ad.data \in Val /\ ad.shared \in BOOLEAN /\ ad.dirty \in BOOLEAN
    BY <1>4 DEF TypeOK, CacheTypeOK
  <2>2. Merge(ad.data) \in Val
    BY <2>1, MergeType
  <2> QED BY <2>1, <2>2 DEF Refilled, Lines
<1> QED BY <1>1, <1>2, <1>3, <1>4

\* Writing one line changes that line.
Put(a, b, l) == [sram EXCEPT ![a][b] = l]

\* What writing one line changes.
LEMMA PutAt ==
  ASSUME sram \in [Sets -> [Ways -> Lines]], NEW a, NEW b, NEW l
  PROVE  Put(a, b, l) =
           [s \in Sets |-> [w \in Ways |-> IF s = a /\ w = b THEN l ELSE sram[s][w]]]
<1>1. ASSUME NEW s \in Sets
      PROVE  Put(a, b, l)[s] = [w \in Ways |-> IF s = a /\ w = b THEN l ELSE sram[s][w]]
  <2>0. sram[s] \in [Ways -> Lines]
    OBVIOUS
  <2>1. CASE s = a
    BY <2>0, <2>1 DEF Put
  <2>2. CASE s # a
    BY <2>0, <2>2 DEF Put
  <2> QED BY <2>1, <2>2
<1>2. DOMAIN Put(a, b, l) = Sets /\ Put(a, b, l) = [s \in Sets |-> Put(a, b, l)[s]]
  BY DEF Put
<1> QED BY <1>1, <1>2

\* Who invalidates the line in way w of set s.
Lost(in, s, w) ==
  \/ mh.state \in WbStates /\ valid_miss_fsm(in) /\ s = mh.cnt /\ w = mh.way
  \/ /\ mh.state = "AMO_WB" /\ s = Index(in.amo) /\ w = HitWay(in.amo)
     /\ \E v \in HitWays(in.amo) : ~sram[Index(in.amo)][v].dirty
  \/ mh.state = "FLUSHING" /\ DirtyWays(mh.cnt) = {} /\ s = mh.cnt
  \/ mh.state = "INIT"
  \/ snp.state = "INVALIDATE" /\ SnpGnt(in) /\ s = Index(snp.addr) /\ w = snp.way

\* What can happen to the line in way w of set s.
LineStep(in, s, w) ==
  \/ sram'[s][w] = sram[s][w]
  \/ sram'[s][w] = Invalid(sram[s][w]) /\ Lost(in, s, w)
  \/ sram'[s][w] = [sram[s][w] EXCEPT !.shared = TRUE]
  \/ /\ sram'[s][w] = Refilled
     /\ RefillWrites(in) /\ s = Index(mh.addr) /\ w = mh.way
  \/ /\ sram'[s][w] = Stored(sram[s][w])
     /\ StoreWrites(in) /\ s = Index(cc[STORE].addr) /\ w = cc[STORE].way

\* One line is written at a time, or a set is cleared.
LEMMA SramLines ==
  ASSUME TypeOK, NEW in, SramStep(in)
  PROVE  /\ sram' = [s \in Sets |-> [w \in Ways |-> sram'[s][w]]]
         /\ \A s \in Sets : \A w \in Ways : LineStep(in, s, w)
<1>0. sram \in [Sets -> [Ways -> Lines]]
  BY DEF TypeOK, CacheTypeOK
<1>1. CASE MhWrites(in)
  <2>0. sram' = MhWritten(in)
    BY <1>1 DEF SramStep
  <2>1. CASE mh.state = "SAVE_CACHELINE"
    <3>1. sram' = Put(Index(mh.addr), mh.way, Refilled)
      BY <2>0, <2>1 DEF MhWritten, Put, WbStates
    <3>2. RefillWrites(in)
      BY <1>1, <2>1 DEF MhWrites, RefillWrites, WbStates
    <3> HIDE DEF Refilled
    <3>3. sram' = [s \in Sets |-> [w \in Ways |-> IF s = Index(mh.addr) /\ w = mh.way
                                              THEN Refilled ELSE sram[s][w]]]
      BY <3>1, <1>0, PutAt
    <3> QED BY <3>2, <3>3 DEF LineStep
  <2>2. CASE mh.state \in WbStates
    <3>1. sram' = Put(mh.cnt, mh.way, Invalid(sram[mh.cnt][mh.way]))
      BY <2>0, <2>2 DEF MhWritten, WbStates, Put
    <3>2. sram' = [s \in Sets |-> [w \in Ways |-> IF s = mh.cnt /\ w = mh.way
                                  THEN Invalid(sram[mh.cnt][mh.way]) ELSE sram[s][w]]]
      BY <3>1, <1>0, PutAt
    <3>3. valid_miss_fsm(in)
      BY <1>1, <2>2 DEF MhWrites, WbStates
    <3> QED BY <2>2, <3>2, <3>3 DEF LineStep, Lost
  <2>3. CASE mh.state = "AMO_WB"
    <3> DEFINE a == Index(in.amo)
               b == HitWay(in.amo)
    <3>1. sram' = Put(a, b, Invalid(sram[a][b]))
      BY <2>0, <2>3 DEF MhWritten, WbStates, Put
    <3>2. sram' = [s \in Sets |-> [w \in Ways |-> IF s = a /\ w = b
                                  THEN Invalid(sram[a][b]) ELSE sram[s][w]]]
      <4> HIDE DEF a, b
      <4> QED BY <3>1, <1>0, PutAt
    <3>3. \E v \in HitWays(in.amo) : ~sram[Index(in.amo)][v].dirty
      BY <1>1, <2>3 DEF MhWrites, WbStates
    <3> QED BY <2>3, <3>2, <3>3 DEF LineStep, Lost
  <2>4. CASE mh.state \notin WbStates \cup {"SAVE_CACHELINE", "AMO_WB"}
    <3>1. sram' = [sram EXCEPT ![mh.cnt] = [w \in Ways |-> Invalid(sram[mh.cnt][w])]]
      BY <2>0, <2>4 DEF MhWritten
    <3>2. sram' = [s \in Sets |-> IF s = mh.cnt THEN [w \in Ways |-> Invalid(sram[s][w])]
                                 ELSE sram[s]]
      BY <3>1, <1>0
    <3>3. \A s \in Sets : sram[s] = [w \in Ways |-> sram[s][w]]
      BY <1>0
    <3>4. ASSUME NEW s \in Sets
          PROVE  sram'[s] = [w \in Ways |-> sram'[s][w]] /\ \A w \in Ways : LineStep(in, s, w)
      <4>1. (mh.state = "FLUSHING" /\ DirtyWays(mh.cnt) = {}) \/ mh.state = "INIT"
        BY <1>1, <2>4 DEF MhWrites
      <4> QED BY <3>2, <3>3, <4>1 DEF LineStep, Lost
    <3> QED BY <3>2, <3>4
  <2> QED BY <2>1, <2>2, <2>3, <2>4
<1>2. CASE sram' = sram
  BY <1>0, <1>2 DEF LineStep
<1>3. CASE ~MhWrites(in) /\ ~MhReads /\ snp.state = "UPDATE_SHARED"
  <2> DEFINE a == Index(snp.addr)
             b == snp.way
             l == [sram[a][b] EXCEPT !.shared = TRUE]
  <2>1. sram' = Put(a, b, l)
    BY <1>0, <1>3 DEF SramStep, Put
  <2>2. sram' = [s \in Sets |-> [w \in Ways |-> IF s = a /\ w = b THEN l ELSE sram[s][w]]]
    <3> HIDE DEF a, b, l
    <3> QED BY <2>1, <1>0, PutAt
  <2> QED BY <2>2 DEF LineStep
<1>4. CASE ~MhWrites(in) /\ ~MhReads /\ snp.state = "INVALIDATE"
  <2> DEFINE a == Index(snp.addr)
             b == snp.way
  <2>1. sram' = Put(a, b, Invalid(sram[a][b]))
    BY <1>0, <1>4 DEF SramStep, Put
  <2>2. sram' = [s \in Sets |-> [w \in Ways |-> IF s = a /\ w = b
                                THEN Invalid(sram[a][b]) ELSE sram[s][w]]]
    <3> HIDE DEF a, b
    <3> QED BY <2>1, <1>0, PutAt
  <2>3. SnpGnt(in)
    BY <1>4 DEF SnpGnt, MhReq
  <2> QED BY <1>4, <2>2, <2>3 DEF LineStep, Lost
<1>5. CASE /\ ~MhWrites(in) /\ ~MhReads /\ snp.state \notin {"UPDATE_SHARED", "INVALIDATE"}
           /\ StoreWrites(in)
  <2> DEFINE a == Index(cc[STORE].addr)
             b == cc[STORE].way
  <2>1. sram' = Put(a, b, Stored(sram[a][b]))
    BY <1>0, <1>5 DEF SramStep, Put
  <2>2. sram' = [s \in Sets |-> [w \in Ways |-> IF s = a /\ w = b
                                THEN Stored(sram[a][b]) ELSE sram[s][w]]]
    <3> HIDE DEF a, b
    <3> QED BY <2>1, <1>0, PutAt
  <2> QED BY <1>5, <2>2 DEF LineStep
<1> QED BY <1>1, <1>2, <1>3, <1>4, <1>5 DEF SramStep

\* Whatever is written, the SRAM holds lines.
LEMMA SramType ==
  ASSUME TypeOK, NEW in, SramStep(in)
  PROVE  sram' \in [Sets -> [Ways -> Lines]]
<1>1. ASSUME NEW s \in Sets, NEW w \in Ways PROVE sram'[s][w] \in Lines
  <2>1. sram[s][w] \in Lines
    BY DEF TypeOK, CacheTypeOK
  <2>2. LineStep(in, s, w)
    BY SramLines
  <2> QED BY <2>1, <2>2, LineTypes DEF LineStep
<1> QED BY <1>1, SramLines

\* How the snoop controller moves.
SnpMoves(in) ==
  /\ snp.state = "IDLE" => snp'.state = IF ac_ready(in) THEN "WAIT_GNT" ELSE "IDLE"
  /\ snp.state \notin {"IDLE", "SEND_CR_RESP", "SEND_CD_RESP"} =>
       snp'.state \notin {"IDLE", "SEND_CD_RESP"}
  /\ snp.state = "SEND_CR_RESP" =>
       snp'.state = IF ~in.cr_ready THEN "SEND_CR_RESP"
                    ELSE IF snp.cr.data THEN "SEND_CD_RESP" ELSE "IDLE"
  /\ snp.state = "SEND_CD_RESP" =>
       snp'.state = IF in.cd_ready /\ snp.word = 1 THEN "IDLE" ELSE "SEND_CD_RESP"
  /\ snp'.state # "IDLE" => snp'.snoop \in SnoopTypes
  /\ snp'.state = "INVALIDATE" =>
       /\ snp'.addr = snp.addr
       /\ \/ snp.state = "INVALIDATE" /\ ~SnpGnt(in) /\ snp'.way = snp.way
          \/ /\ snp.state = "EVAL_FLAGS" /\ HitWays(snp.addr) # {}
             /\ snp'.way = HitWay(snp.addr)
  /\ snp.state = "INVALIDATE" /\ ~SnpGnt(in) =>
       snp'.state = "INVALIDATE" /\ snp'.addr = snp.addr
  /\ snp.state \in {"IDLE", "WAIT_GNT"} /\ ~SnpGnt(in) => snp'.state \in {"IDLE", "WAIT_GNT"}
  /\ snp'.state \in {"EVAL_FLAGS", "UPDATE_SHARED", "INVALIDATE"} => SnpReq(in)

SnpType == [state : SnpStates, addr : Addr, snoop : SnoopTypes \cup {None},
            way : Ways \cup {0}, data : Val, cr : CrResps, word : 0..1]

\* The snoop controller moves as its steps say.
LEMMA SnpFacts ==
  ASSUME TypeOK, InvSnoop, NEW in \in Inputs, SnpStep(in)
  PROVE  snp' \in SnpType /\ SnpMoves(in)
<1>0. snp \in SnpType
  BY DEF TypeOK, CacheTypeOK, SnpType
<1>1. NoCr \in CrResps
  BY DEF NoCr, CrResps
<1>2. in.cr_ready \in BOOLEAN /\ in.cd_ready \in BOOLEAN /\ in.ac = ccu.ac
  BY InputFacts
<1>3. ccu.ac \in [addr : Addr, snoop : SnoopTypes] \cup {None}
  BY DEF TypeOK
<1>a. snp.state # "IDLE" => snp.snoop \in SnoopTypes
  BY DEF InvSnoop
<1>4. CASE SnpIdle(in)
  <2>0. snp.state = "IDLE"
    BY <1>4 DEF SnpIdle
  <2>z. PICK z \in 0..1 : z = 0
    OBVIOUS
  <2>1. CASE ac_ready(in)
    <3>1. ccu.ac \in [addr : Addr, snoop : SnoopTypes]
      BY <1>2, <1>3, <2>1 DEF ac_ready
    <3>2. snp' = [snp EXCEPT !.state = "WAIT_GNT", !.addr = ccu.ac.addr,
                             !.snoop = ccu.ac.snoop, !.cr = NoCr, !.word = z]
      BY <1>2, <1>4, <2>z, <2>1 DEF SnpIdle
    <3>3. snp' \in SnpType /\ snp'.state = "WAIT_GNT" /\ snp'.snoop \in SnoopTypes
      <4>1. ccu.ac.addr \in Addr /\ ccu.ac.snoop \in SnoopTypes
        BY <3>1
      <4> HIDE DEF ac_ready
      <4> QED BY <1>0, <1>1, <3>2, <4>1 DEF SnpType, SnpStates
    <3> QED BY <2>0, <2>1, <3>3 DEF SnpMoves
  <2>2. CASE ~ac_ready(in)
    <3>1. snp' = [snp EXCEPT !.snoop = None, !.cr = NoCr, !.word = z]
      BY <1>4, <2>z, <2>2 DEF SnpIdle
    <3>2. snp' \in SnpType /\ snp'.state = "IDLE"
      BY <1>0, <1>1, <2>0, <3>1 DEF SnpType, SnpStates
    <3> QED BY <2>0, <2>2, <3>2 DEF SnpMoves
  <2> QED BY <2>1, <2>2
<1>5. CASE SnpWaitGnt(in)
  <2>1. snp' \in SnpType
    BY <1>0, <1>5 DEF SnpWaitGnt, SnpStates, SnpType
  <2> HIDE DEF SnpReq
  <2> QED BY <1>0, <1>a, <1>5, <2>1 DEF SnpWaitGnt, SnpType, SnpMoves
<1>6. CASE SnpEvalFlags
  <2> DEFINE w    == HitWay(snp.addr)
             line == sram[Index(snp.addr)][w]
  <2>1. w \in Ways \cup {0} /\ (w # 0 => w \in Ways /\ HitWays(snp.addr) # {})
    BY HitWayType
  <2>2. snp.snoop \in SnoopTypes /\ snp.state = "EVAL_FLAGS"
    BY <1>0, <1>a, <1>6 DEF SnpEvalFlags
  <2>3. w # 0 => line \in Lines
    BY <1>0, <2>1, IndexType DEF TypeOK, CacheTypeOK
  <2>b. w # 0 => line.data \in Val /\ line.dirty \in BOOLEAN /\ line.shared \in BOOLEAN
    BY <2>3 DEF Lines
  <2> DEFINE c == IF w = 0 THEN NoCr
                  ELSE CASE snp.snoop = "CLEAN_INVALID" ->
                              [data |-> line.dirty, dirty |-> line.dirty, shared |-> FALSE]
                         [] snp.snoop = "READ_ONCE" ->
                              [data |-> TRUE, dirty |-> FALSE, shared |-> line.shared]
                         [] snp.snoop = "READ_SHARED" ->
                              [data |-> TRUE, dirty |-> FALSE, shared |-> TRUE]
                         [] snp.snoop = "READ_UNIQUE" ->
                              [data |-> TRUE, dirty |-> line.dirty, shared |-> FALSE]
             to == IF w = 0 \/ snp.snoop = "READ_ONCE" THEN "SEND_CR_RESP"
                   ELSE IF snp.snoop = "READ_SHARED" THEN "UPDATE_SHARED" ELSE "INVALIDATE"
             d  == IF w = 0 THEN snp.data ELSE line.data
  <2>4. snp' = [snp EXCEPT !.way = w, !.cr = c, !.data = d, !.state = to]
    BY <1>6, Zenon DEF SnpEvalFlags
  <2>5. c \in CrResps
    <3> HIDE DEF w, line
    <3>1. CASE w = 0
      BY <1>1, <3>1
    <3>2. CASE w # 0 /\ snp.snoop = "CLEAN_INVALID"
      <4>1. c = [data |-> line.dirty, dirty |-> line.dirty, shared |-> FALSE]
        BY <3>2
      <4> HIDE DEF c
      <4> QED BY <2>b, <3>2, <4>1 DEF CrResps
    <3>3. CASE w # 0 /\ snp.snoop = "READ_ONCE"
      <4>1. c = [data |-> TRUE, dirty |-> FALSE, shared |-> line.shared]
        BY <3>3
      <4> HIDE DEF c
      <4> QED BY <2>b, <3>3, <4>1 DEF CrResps
    <3>4. CASE w # 0 /\ snp.snoop = "READ_SHARED"
      <4>1. c = [data |-> TRUE, dirty |-> FALSE, shared |-> TRUE]
        BY <3>4
      <4> HIDE DEF c
      <4> QED BY <4>1 DEF CrResps
    <3>5. CASE w # 0 /\ snp.snoop = "READ_UNIQUE"
      <4>1. c = [data |-> TRUE, dirty |-> line.dirty, shared |-> FALSE]
        BY <3>5
      <4> HIDE DEF c
      <4> QED BY <2>b, <3>5, <4>1 DEF CrResps
    <3> QED BY <2>2, <3>1, <3>2, <3>3, <3>4, <3>5 DEF SnoopTypes
  <2>6. to \in {"SEND_CR_RESP", "UPDATE_SHARED", "INVALIDATE"} /\ (to = "INVALIDATE" => w # 0)
    OBVIOUS
  <2>7. d \in Val
    BY <1>0, <2>b DEF SnpType
  <2> HIDE DEF c, to, d, w
  <2>8. snp' \in SnpType
    BY <1>0, <2>1, <2>4, <2>5, <2>6, <2>7 DEF SnpStates, SnpType
  <2>9. snp'.state = to /\ snp'.way = w /\ snp'.addr = snp.addr /\ snp'.snoop = snp.snoop
    BY <1>0, <2>4 DEF SnpType
  <2>10. SnpReq(in)
    BY <2>2 DEF SnpReq
  <2> QED BY <2>1, <2>2, <2>6, <2>8, <2>9, <2>10 DEF SnpMoves, w
<1>7. CASE SnpUpdate(in)
  <2>1. snp' \in SnpType
    BY <1>0, <1>7 DEF SnpUpdate, SnpStates, SnpType
  <2>2. SnpReq(in)
    BY <1>7 DEF SnpUpdate, SnpReq
  <2> QED BY <1>0, <1>a, <1>7, <2>1, <2>2 DEF SnpUpdate, SnpType, SnpMoves
<1>8. CASE SnpSendCr(in)
  <2>1. snp' \in SnpType
    BY <1>0, <1>8 DEF SnpSendCr, SnpStates, SnpType
  <2> QED BY <1>0, <1>2, <1>a, <1>8, <2>1 DEF SnpSendCr, SnpType, SnpMoves
<1>9. CASE SnpSendCd(in)
  <2>0. 1 - snp.word \in 0..1
    BY <1>0 DEF SnpType
  <2>1. snp' \in SnpType
    BY <1>0, <1>9, <2>0 DEF SnpSendCd, SnpStates, SnpType
  <2> QED BY <1>0, <1>2, <1>a, <1>9, <2>1 DEF SnpSendCd, SnpType, SnpMoves
<1> QED BY <1>4, <1>5, <1>6, <1>7, <1>8, <1>9 DEF SnpStep

\* How a cache controller with registers cc[i] may move to registers n.
CtrlType == [state : CtrlStates, addr : Addr, way : Ways \cup {0},
             colliding_read : BOOLEAN, colliding_clean : BOOLEAN]

CtrlMoves(i, in, n) ==
  /\ cc[i].state = "IDLE" /\ ~(NewReq(i, in) /\ CtrlGnt(i, in)) => n.state = "IDLE"
  /\ cc[i].state = "MAKE_UNIQUE" =>
       /\ n.addr = cc[i].addr
       /\ n.state = "MAKE_UNIQUE" \/ miss_gnt(i, in)
  /\ cc[i].state = "WAIT_REFILL_GNT" =>
       /\ n.addr = cc[i].addr
       /\ n.state = IF mshr_addr_matches(i) /\ ~active_serving(i) THEN "WAIT_MSHR"
                    ELSE IF ~miss_gnt(i, in) THEN "WAIT_REFILL_GNT"
                    ELSE IF i = STORE THEN "IDLE" ELSE "WAIT_CRITICAL_WORD"
  /\ n.state = "WAIT_REFILL_GNT" =>
       /\ n.addr = cc[i].addr
       /\ \/ cc[i].state = "WAIT_REFILL_GNT"
          \/ ~mshr_addr_matches(i) /\ HitWays(cc[i].addr) = {}
  /\ n.state = "WAIT_CRITICAL_WORD" =>
       /\ n.addr = cc[i].addr
       /\ \/ cc[i].state = "WAIT_CRITICAL_WORD" /\ ~critical_word_valid(in)
          \/ cc[i].state = "WAIT_REFILL_GNT" /\ miss_gnt(i, in) /\ i # STORE
  /\ n.state \in {"MAKE_UNIQUE", "STORE_REQ"} =>
       i = STORE \/ cc[i].state \in {"MAKE_UNIQUE", "STORE_REQ"}

\* A new request, or none.
LEMMA AcceptFacts ==
  ASSUME TypeOK, NEW in \in Inputs, NEW i \in CtrlPorts
  PROVE  /\ Accept(i, in) \in CtrlType
         /\ Accept(i, in).state \in {"IDLE", "WAIT_TAG"}
         /\ ~(NewReq(i, in) /\ CtrlGnt(i, in)) => Accept(i, in).state = "IDLE"
<1>0. cc[i] \in CtrlType
  BY DEF TypeOK, CacheTypeOK, CtrlType
<1>1. CASE NewReq(i, in) /\ CtrlGnt(i, in)
  <2>1. in.core[i].req \in Addr
    BY <1>1, InputFacts DEF NewReq
  <2>2. Accept(i, in) = [cc[i] EXCEPT !.state = "WAIT_TAG", !.addr = in.core[i].req]
    BY <1>1 DEF Accept
  <2> QED BY <1>0, <1>1, <2>1, <2>2 DEF CtrlType, CtrlStates
<1>2. CASE ~(NewReq(i, in) /\ CtrlGnt(i, in))
  <2>1. Accept(i, in) = [cc[i] EXCEPT !.state = "IDLE"]
    BY <1>2 DEF Accept
  <2> QED BY <1>0, <1>2, <2>1 DEF CtrlType, CtrlStates
<1> QED BY <1>1, <1>2

\* The tag comparison.
LEMMA CompareFacts ==
  ASSUME TypeOK, NEW in \in Inputs, NEW i \in CtrlPorts
  PROVE  LET n == Compare(i, in) IN
         /\ n \in CtrlType
         /\ n.state \in {"IDLE", "WAIT_TAG", "WAIT_MSHR", "WAIT_REFILL_GNT", "MAKE_UNIQUE",
                         "STORE_REQ"}
         /\ n.state \in {"MAKE_UNIQUE", "STORE_REQ"} => i = STORE
         /\ n.state = "WAIT_REFILL_GNT" => /\ n.addr = cc[i].addr
                                           /\ ~mshr_addr_matches(i)
                                           /\ HitWays(cc[i].addr) = {}
<1>0. cc[i] \in CtrlType
  BY DEF TypeOK, CacheTypeOK, CtrlType
<1> DEFINE w == HitWay(cc[i].addr)
           n == Compare(i, in)
           m == mshr_addr_matches(i) \/ (i = STORE /\ mshr_index_matches(i))
<1>1. w \in Ways \cup {0} /\ (w = 0 => HitWays(cc[i].addr) = {})
  BY HitWayType
<1>2. CASE m
  <2>1. n = [cc[i] EXCEPT !.state = "WAIT_MSHR"]
    BY <1>2 DEF Compare
  <2> QED BY <1>0, <2>1 DEF CtrlType, CtrlStates
<1>3. CASE ~m /\ w = 0
  <2>1. n = [cc[i] EXCEPT !.state = "WAIT_REFILL_GNT"]
    BY <1>3 DEF Compare
  <2> QED BY <1>0, <1>1, <1>3, <2>1 DEF CtrlType, CtrlStates
<1>4. CASE ~m /\ w # 0 /\ i = STORE
  <2>1. PICK st \in {"MAKE_UNIQUE", "STORE_REQ"} :
          n = [cc[i] EXCEPT !.state = st, !.way = w]
    BY <1>4 DEF Compare
  <2> HIDE DEF w
  <2> QED BY <1>0, <1>1, <1>4, <2>1 DEF CtrlType, CtrlStates
<1>5. CASE ~m /\ w # 0 /\ i # STORE
  <2>1. n = Accept(i, in)
    BY <1>5 DEF Compare
  <2> QED BY <2>1, AcceptFacts
<1> QED BY <1>2, <1>3, <1>4, <1>5

\* Every state of a cache controller.
Killed(c) == [c EXCEPT !.state = "IDLE"]

\* A cache controller moves as CtrlMoves says, whatever its state.
LEMMA CtrlFacts ==
  ASSUME TypeOK, NEW in \in Inputs, NEW i \in CtrlPorts
  PROVE  CtrlNext(i, in) \in CtrlType /\ CtrlMoves(i, in, CtrlNext(i, in))
<1>0. cc[i] \in CtrlType
  BY DEF TypeOK, CacheTypeOK, CtrlType
<1>k. in.core[i].kill \in BOOLEAN /\ in.core[i].tag_valid \in BOOLEAN
  BY InputFacts
<1> DEFINE n == CtrlNext(i, in)
           s == cc[i].state
           kill == in.core[i].kill /\ Killable(i)
\* A kill leads to IDLE from the states that may be killed.
<1>1. ASSUME NEW c \in CtrlType, n = (IF kill THEN Killed(c) ELSE c),
             CtrlMoves(i, in, c)
      PROVE  n \in CtrlType /\ CtrlMoves(i, in, n)
  <2>1. CASE kill
    <3>1. n = [c EXCEPT !.state = "IDLE"]
      BY <1>1, <2>1 DEF Killed
    <3>2. n \in CtrlType /\ n.state = "IDLE"
      BY <3>1 DEF CtrlType, CtrlStates
    <3>3. s \notin {"MAKE_UNIQUE", "WAIT_REFILL_GNT"}
      BY <2>1 DEF Killable
    <3> HIDE DEF n
    <3> QED BY <3>2, <3>3 DEF CtrlMoves
  <2>2. CASE ~kill
    BY <1>1, <2>2
  <2> QED BY <2>1, <2>2
<1>2. CASE s = "IDLE"
  <2> DEFINE c == [Accept(i, in) EXCEPT !.colliding_read = FALSE]
  <2>1. n = IF kill THEN Killed(c) ELSE c
    BY <1>2 DEF CtrlNext, Killed
  <2>2. c \in CtrlType /\ c.state = Accept(i, in).state
    BY AcceptFacts DEF CtrlType
  <2>3. CtrlMoves(i, in, c)
    <3> HIDE DEF c
    <3> QED BY <1>2, <2>2, AcceptFacts DEF CtrlMoves
  <2> HIDE DEF c, kill
  <2> QED BY <1>1, <2>1, <2>2, <2>3
<1>3. CASE s \in {"WAIT_TAG", "WAIT_TAG_SAVED"}
  <2> DEFINE c == WaitTag(i, in)
  <2>1. n = IF kill THEN Killed(c) ELSE c
    BY <1>3 DEF CtrlNext, Killed
  <2>2. c \in CtrlType /\ CtrlMoves(i, in, c)
    <3>1. CASE TagKnown(i, in)
      <4>1. c = [Compare(i, in) EXCEPT !.colliding_read = FALSE]
        BY <3>1 DEF WaitTag
      <4>2. /\ c \in CtrlType /\ c.state = Compare(i, in).state
            /\ c.addr = Compare(i, in).addr
        BY <4>1, CompareFacts DEF CtrlType
      <4> HIDE DEF c
      <4> QED BY <1>3, <4>2, CompareFacts DEF CtrlMoves
    <3>2. CASE ~TagKnown(i, in)
      <4>1. PICK st \in CtrlStates :
               /\ st = s \/ st = "WAIT_GNT"
               /\ c = [cc[i] EXCEPT !.state = st, !.colliding_read = FALSE]
        BY <1>0, <3>2 DEF WaitTag, CtrlType, CtrlStates
      <4>2. c \in CtrlType /\ c.state = st
        BY <1>0, <4>1 DEF CtrlType
      <4> HIDE DEF c
      <4> QED BY <1>3, <4>1, <4>2 DEF CtrlMoves
    <3> QED BY <3>1, <3>2
  <2> HIDE DEF c, kill
  <2> QED BY <1>1, <2>1, <2>2
<1>4. CASE s \in {"WAIT_GNT", "WAIT_GNT_SAVED"}
  <2> DEFINE c == WaitGnt(i, in)
  <2>1. n = IF kill THEN Killed(c) ELSE c
    BY <1>4 DEF CtrlNext, Killed
  <2>2. c \in CtrlType /\ CtrlMoves(i, in, c)
    <3>1. PICK st \in {"WAIT_TAG_SAVED", "WAIT_TAG", "WAIT_GNT_SAVED", "WAIT_GNT"} :
            c = [cc[i] EXCEPT !.state = st]
      BY DEF WaitGnt
    <3>2. c \in CtrlType /\ c.state = st
      BY <1>0, <3>1 DEF CtrlType, CtrlStates
    <3> HIDE DEF c
    <3> QED BY <1>4, <3>1, <3>2 DEF CtrlMoves
  <2> HIDE DEF c, kill
  <2> QED BY <1>1, <2>1, <2>2
<1>5. CASE s = "MAKE_UNIQUE"
  <2> DEFINE c == MakeUnique(i, in)
  <2>1. n = IF kill THEN Killed(c) ELSE c
    BY <1>5 DEF CtrlNext, Killed
  <2>2. c \in CtrlType /\ CtrlMoves(i, in, c)
    <3>1. PICK st \in CtrlStates, r \in BOOLEAN, l \in BOOLEAN :
            /\ c = [cc[i] EXCEPT !.colliding_read = r, !.colliding_clean = l, !.state = st]
            /\ st = IF ~miss_gnt(i, in) THEN s
                    ELSE IF miss_write_done(in) THEN "IDLE" ELSE "STORE_REQ"
      <4>1. /\ (cc[i].colliding_read \/ readshared_done(cc[i].addr, in)) \in BOOLEAN
            /\ (cc[i].colliding_clean /\ ~(miss_gnt(i, in) /\ miss_write_done(in))) \in BOOLEAN
        BY <1>0 DEF CtrlType
      <4>2. (IF ~miss_gnt(i, in) THEN s
             ELSE IF miss_write_done(in) THEN "IDLE" ELSE "STORE_REQ") \in CtrlStates
        BY <1>5 DEF CtrlStates
      <4> QED BY <4>1, <4>2, Zenon DEF MakeUnique
    <3>2. c \in CtrlType /\ c.state = st /\ c.addr = cc[i].addr
      BY <1>0, <3>1 DEF CtrlType
    <3> HIDE DEF c
    <3> QED BY <1>5, <3>1, <3>2 DEF CtrlMoves
  <2> HIDE DEF c, kill
  <2> QED BY <1>1, <2>1, <2>2
<1>6. CASE s = "STORE_REQ"
  <2> DEFINE c == StoreReq(i, in)
  <2>1. n = IF kill THEN Killed(c) ELSE c
    BY <1>6 DEF CtrlNext, Killed
  <2>2. c \in CtrlType /\ CtrlMoves(i, in, c)
    <3> DEFINE d == [cc[i] EXCEPT
                       !.colliding_clean = @ \/ invalidate(cc[i].addr),
                       !.colliding_read = @ \/ readshared_done(cc[i].addr, in)]
               Leave(to) == [d EXCEPT !.state = to, !.colliding_clean = FALSE,
                                      !.colliding_read = FALSE]
    <3>1. \/ c = d
          \/ \E to \in {"WAIT_MSHR", "WAIT_TAG_SAVED", "MAKE_UNIQUE", "IDLE"} : c = Leave(to)
      BY DEF StoreReq
    <3>2. d \in CtrlType /\ d.state = "STORE_REQ"
      BY <1>0, <1>6 DEF CtrlType, CtrlStates
    <3> HIDE DEF d
    <3>3. /\ c \in CtrlType
          /\ c.state \in {"STORE_REQ", "WAIT_MSHR", "WAIT_TAG_SAVED", "MAKE_UNIQUE", "IDLE"}
      BY <3>1, <3>2 DEF CtrlType, CtrlStates
    <3> HIDE DEF c
    <3> QED BY <1>6, <3>3 DEF CtrlMoves
  <2> HIDE DEF c, kill
  <2> QED BY <1>1, <2>1, <2>2
<1>7. CASE s = "WAIT_MSHR"
  <2> DEFINE c == WaitMshr(i, in)
  <2>1. n = IF kill THEN Killed(c) ELSE c
    BY <1>7 DEF CtrlNext, Killed
  <2>2. c \in CtrlType /\ CtrlMoves(i, in, c)
    <3>1. c \in CtrlType /\ c.state \in {"WAIT_MSHR", "WAIT_TAG_SAVED"}
      BY <1>0, <1>7 DEF WaitMshr, CtrlType, CtrlStates
    <3> HIDE DEF c
    <3> QED BY <1>7, <3>1 DEF CtrlMoves
  <2> HIDE DEF c, kill
  <2> QED BY <1>1, <2>1, <2>2
<1>8. CASE s = "WAIT_REFILL_GNT"
  <2> DEFINE c == WaitRefillGnt(i, in)
             st == IF mshr_addr_matches(i) /\ ~active_serving(i) THEN "WAIT_MSHR"
                   ELSE IF ~miss_gnt(i, in) THEN "WAIT_REFILL_GNT"
                   ELSE IF i = STORE THEN "IDLE" ELSE "WAIT_CRITICAL_WORD"
  <2>1. n = IF kill THEN Killed(c) ELSE c
    BY <1>8 DEF CtrlNext, Killed
  <2>2. c \in CtrlType /\ CtrlMoves(i, in, c)
    <3>1. c = [cc[i] EXCEPT !.state = st]
      BY <1>8 DEF WaitRefillGnt
    <3>2. st \in CtrlStates
      BY DEF CtrlStates
    <3>3. c \in CtrlType /\ c.addr = cc[i].addr /\ c.state = st
      <4> HIDE DEF c, st
      <4> QED BY <1>0, <3>1, <3>2 DEF CtrlType
    <3> HIDE DEF c
    <3> QED BY <1>8, <3>3 DEF CtrlMoves
  <2> HIDE DEF c, kill
  <2> QED BY <1>1, <2>1, <2>2
<1>9. CASE s = "WAIT_CRITICAL_WORD"
  <2> DEFINE c == IF critical_word_valid(in) THEN Accept(i, in) ELSE cc[i]
  <2>1. n = IF kill THEN Killed(c) ELSE c
    BY <1>9 DEF CtrlNext, Killed
  <2>2. c \in CtrlType /\ CtrlMoves(i, in, c)
    BY <1>0, <1>9, AcceptFacts DEF CtrlMoves
  <2> HIDE DEF c, kill
  <2> QED BY <1>1, <2>1, <2>2
<1> QED BY <1>0, <1>2, <1>3, <1>4, <1>5, <1>6, <1>7, <1>8, <1>9 DEF CtrlType, CtrlStates

\* How the store port moves: where a lookup and a write of the SRAM come from.
StoreMoves(in, n) ==
  LET c == cc[STORE] IN
  /\ n.state \in {"WAIT_TAG", "WAIT_TAG_SAVED"} => CtrlGnt(STORE, in)
  /\ n.state \in {"MAKE_UNIQUE", "STORE_REQ"} =>
       \/ n.way \in HitWays(c.addr)
       \/ c.state \in {"MAKE_UNIQUE", "STORE_REQ"} /\ n.way = c.way
  /\ n.state = "STORE_REQ" =>
       /\ n.addr = c.addr
       /\ \/ /\ c.state \in {"WAIT_TAG", "WAIT_TAG_SAVED"} /\ ~mshr_index_matches(STORE)
             /\ n.way \in HitWays(c.addr) /\ ~sram[Index(c.addr)][n.way].shared
          \/ /\ c.state = "MAKE_UNIQUE" /\ miss_gnt(STORE, in) /\ ~miss_write_done(in)
             /\ n.way = c.way
          \/ /\ c.state = "STORE_REQ" /\ ~mshr_index_matches(STORE) /\ n.way = c.way
             /\ ~n.colliding_clean => ~c.colliding_clean /\ ~invalidate(c.addr)
             /\ ~n.colliding_read => ~c.colliding_read /\ ~readshared_done(c.addr, in)

\* A store is not killed, its tag is known, and it does not start while an AMO is pending.
LEMMA StoreInputs ==
  ASSUME NEW in \in Inputs
  PROVE  ~in.core[STORE].kill /\ (core.amo # None => in.core[STORE].req = None)
<1>1. PICK c \in CoreIn(0) \X CoreIn(1) \X CoreIn(2) :
        in.core = [j \in CtrlPorts |-> c[j + 1]]
  BY DEF Inputs, CoreInputs
<1>2. in.core[STORE] \in CoreIn(STORE)
  BY <1>1 DEF CtrlPorts, STORE
<1> QED BY <1>2 DEF CoreIn, If

\* The store port moves as StoreMoves says, whatever its state.
LEMMA StoreFacts ==
  ASSUME TypeOK, NEW in \in Inputs
  PROVE  StoreMoves(in, CtrlNext(STORE, in))
<1> SUFFICES ASSUME NEW n, n = CtrlNext(STORE, in) PROVE StoreMoves(in, n)
  OBVIOUS
<1> DEFINE c == cc[STORE]
<1>0. c \in CtrlType /\ STORE \in CtrlPorts
  BY DEF TypeOK, CacheTypeOK, CtrlType, STORE, CtrlPorts
<1>k. ~in.core[STORE].kill
  BY StoreInputs
<1>a. /\ Accept(STORE, in).state \in {"IDLE", "WAIT_TAG"}
      /\ Accept(STORE, in).state = "WAIT_TAG" => CtrlGnt(STORE, in)
      /\ Accept(STORE, in) \in CtrlType
  BY <1>0, AcceptFacts
<1>1. CASE c.state = "IDLE"
  <2>1. n = [Accept(STORE, in) EXCEPT !.colliding_read = FALSE]
    BY <1>k, <1>1 DEF CtrlNext
  <2>2. n.state = Accept(STORE, in).state
    BY <1>a, <2>1 DEF CtrlType
  <2> QED BY <1>a, <2>2 DEF StoreMoves
<1>2. CASE c.state \in {"WAIT_TAG", "WAIT_TAG_SAVED"}
  <2>0. TagKnown(STORE, in)
    BY <1>k DEF TagKnown
  <2>1. n = [Compare(STORE, in) EXCEPT !.colliding_read = FALSE]
    BY <1>k, <1>2, <2>0 DEF CtrlNext, WaitTag
  <2>2. Compare(STORE, in) \in CtrlType
    BY <1>0, CompareFacts
  <2>3. /\ n.state = Compare(STORE, in).state /\ n.way = Compare(STORE, in).way
        /\ n.addr = Compare(STORE, in).addr
    BY <2>1, <2>2 DEF CtrlType
  <2> DEFINE w == HitWay(c.addr)
             m == mshr_addr_matches(STORE) \/ mshr_index_matches(STORE)
  <2>4. CASE m
    <3>1. Compare(STORE, in) = [c EXCEPT !.state = "WAIT_MSHR"]
      BY <2>4 DEF Compare
    <3> QED BY <1>0, <2>3, <3>1 DEF StoreMoves, CtrlType
  <2>5. CASE ~m /\ w = 0
    <3>1. Compare(STORE, in) = [c EXCEPT !.state = "WAIT_REFILL_GNT"]
      BY <2>5 DEF Compare
    <3> QED BY <1>0, <2>3, <3>1 DEF StoreMoves, CtrlType
  <2>6. CASE ~m /\ w # 0
    <3>1. PICK st \in {"MAKE_UNIQUE", "STORE_REQ"} :
            /\ Compare(STORE, in) = [c EXCEPT !.state = st, !.way = w]
            /\ st = "STORE_REQ" => ~sram[Index(c.addr)][w].shared
      BY <2>6 DEF Compare
    <3>2. w \in HitWays(c.addr)
      BY <2>6, HitWayType
    <3> HIDE DEF w
    <3>3. n.state = st /\ n.way = w /\ n.addr = c.addr
      BY <1>0, <2>3, <3>1 DEF CtrlType
    <3> QED BY <1>2, <2>6, <3>1, <3>2, <3>3 DEF StoreMoves
  <2> QED BY <2>4, <2>5, <2>6
<1>3. CASE c.state \in {"WAIT_GNT", "WAIT_GNT_SAVED"}
  <2>1. n = WaitGnt(STORE, in)
    BY <1>k, <1>3 DEF CtrlNext
  <2>2. PICK st \in CtrlStates :
          /\ n = [c EXCEPT !.state = st]
          /\ st \in {"WAIT_TAG_SAVED", "WAIT_TAG"} => CtrlGnt(STORE, in)
          /\ st \notin {"STORE_REQ", "MAKE_UNIQUE"}
    BY <2>1 DEF WaitGnt, CtrlStates
  <2>3. n.state = st
    BY <1>0, <2>2 DEF CtrlType
  <2> QED BY <2>2, <2>3 DEF StoreMoves
<1>4. CASE c.state = "MAKE_UNIQUE"
  <2>1. n = MakeUnique(STORE, in)
    BY <1>k, <1>4 DEF CtrlNext
  <2>2. /\ n.addr = c.addr /\ n.way = c.way
        /\ n.state = IF ~miss_gnt(STORE, in) THEN c.state
                     ELSE IF miss_write_done(in) THEN "IDLE" ELSE "STORE_REQ"
    BY <1>0, <2>1, Zenon DEF MakeUnique, CtrlType
  <2> QED BY <1>4, <2>2 DEF StoreMoves
<1>5. CASE c.state = "STORE_REQ"
  <2>1. n = StoreReq(STORE, in)
    BY <1>k, <1>5 DEF CtrlNext
  <2> DEFINE d == [c EXCEPT
                     !.colliding_clean = @ \/ invalidate(c.addr),
                     !.colliding_read = @ \/ readshared_done(c.addr, in)]
             Leave(to) == [d EXCEPT !.state = to, !.colliding_clean = FALSE,
                                    !.colliding_read = FALSE]
  <2>2. \/ n = d /\ ~mshr_index_matches(STORE)
        \/ n = Leave("WAIT_TAG_SAVED") /\ CtrlGnt(STORE, in)
        \/ \E to \in {"WAIT_MSHR", "MAKE_UNIQUE", "IDLE"} : n = Leave(to)
    BY <2>1 DEF StoreReq
  <2>3. /\ d \in CtrlType /\ d.state = "STORE_REQ" /\ d.way = c.way /\ d.addr = c.addr
        /\ d.colliding_clean = (c.colliding_clean \/ invalidate(c.addr))
        /\ d.colliding_read = (c.colliding_read \/ readshared_done(c.addr, in))
    BY <1>0, <1>5 DEF CtrlType, CtrlStates
  <2> HIDE DEF d
  <2>4. CASE n = d /\ ~mshr_index_matches(STORE)
    <3>1. /\ ~d.colliding_clean => ~c.colliding_clean /\ ~invalidate(c.addr)
          /\ ~d.colliding_read => ~c.colliding_read /\ ~readshared_done(c.addr, in)
      BY <2>3, Zenon
    <3> QED BY <1>5, <2>3, <2>4, <3>1 DEF StoreMoves
  <2>5. CASE n = Leave("WAIT_TAG_SAVED") /\ CtrlGnt(STORE, in)
    BY <2>3, <2>5 DEF StoreMoves, CtrlType
  <2>6. CASE \E to \in {"WAIT_MSHR", "MAKE_UNIQUE", "IDLE"} : n = Leave(to)
    <3>1. PICK to \in {"WAIT_MSHR", "MAKE_UNIQUE", "IDLE"} : n = Leave(to)
      BY <2>6
    <3>2. n.state = to /\ n.way = c.way
      BY <2>3, <3>1 DEF CtrlType
    <3> QED BY <1>5, <3>2 DEF StoreMoves
  <2> QED BY <2>2, <2>4, <2>5, <2>6
<1>6. CASE c.state = "WAIT_MSHR"
  <2>1. n = WaitMshr(STORE, in)
    BY <1>k, <1>6 DEF CtrlNext
  <2>2. \/ n = [c EXCEPT !.state = "WAIT_TAG_SAVED"] /\ CtrlGnt(STORE, in)
        \/ n = [c EXCEPT !.state = "WAIT_MSHR"]
    BY <1>6, <2>1 DEF WaitMshr
  <2>3. (n.state = "WAIT_TAG_SAVED" /\ CtrlGnt(STORE, in)) \/ n.state = "WAIT_MSHR"
    BY <1>0, <2>2 DEF CtrlType
  <2> QED BY <2>3 DEF StoreMoves
<1>7. CASE c.state = "WAIT_REFILL_GNT"
  <2>1. n = WaitRefillGnt(STORE, in)
    BY <1>k, <1>7 DEF CtrlNext
  <2>2. \E to \in {"WAIT_MSHR", "WAIT_REFILL_GNT", "IDLE"} : n = [c EXCEPT !.state = to]
    BY <1>7, <2>1 DEF WaitRefillGnt
  <2>3. n.state \in {"WAIT_MSHR", "WAIT_REFILL_GNT", "IDLE"}
    BY <1>0, <2>2 DEF CtrlType
  <2> QED BY <2>3 DEF StoreMoves
<1>8. CASE c.state = "WAIT_CRITICAL_WORD"
  <2>1. n = IF critical_word_valid(in) THEN Accept(STORE, in) ELSE c
    BY <1>k, <1>8 DEF CtrlNext
  <2> QED BY <1>a, <1>8, <2>1 DEF StoreMoves
<1> QED BY <1>0, <1>1, <1>2, <1>3, <1>4, <1>5, <1>6, <1>7, <1>8 DEF CtrlType, CtrlStates

\* How the miss handler moves: the MSHR, then state by state.
MhType == [state : MissStates, valid : BOOLEAN, id : CtrlPorts, addr : Addr,
           make_unique : BOOLEAN, way : Ways \cup {0}, evict : Addr, evict_data : Val,
           cnt : Sets, colliding_clean : BOOLEAN, serve_amo : BOOLEAN]

\* A controller's request is taken.
MhTakes(i) ==
  /\ i \in MissReqs
  /\ mh'.state = IF cc[i].state = "MAKE_UNIQUE" THEN "REQ_BEFORE_CLEAN" ELSE "MISS"
  /\ mh'.valid /\ mh'.id = i /\ mh'.addr = cc[i].addr
  /\ mh'.make_unique = (cc[i].state = "MAKE_UNIQUE")
  /\ ~mh'.serve_amo /\ ~mh'.colliding_clean

MhKeeps ==
  /\ mh'.id = mh.id /\ mh'.addr = mh.addr /\ mh'.make_unique = mh.make_unique
  /\ mh.state \notin {"SAVE_CACHELINE", "SEND_CLEAN"} => mh'.valid = mh.valid
  /\ mh.state \notin {"IDLE", "SAVE_CACHELINE"} \cup ReqStates => mh'.colliding_clean = Watch
  /\ mh.state \notin {"IDLE", "FLUSHING", "AMO_REQ"} => mh'.serve_amo = mh.serve_amo
  /\ mh.state \in {"FLUSH_REQ_STATUS", "WB_CACHELINE_FLUSH"} => mh'.cnt = mh.cnt

MhServes(in) ==
  /\ mh.state = "MISS" => mh'.state = "MISS_REPL"
  /\ mh.state = "MISS_REPL" =>
       /\ mh'.state \in {"WB_CACHELINE_MISS", ReqState}
       /\ mh'.state = "WB_CACHELINE_MISS" => mh'.cnt = Index(mh.addr)
  /\ mh.state = "WB_CACHELINE_MISS" =>
       /\ mh'.state = IF valid_miss_fsm(in) THEN ReqState ELSE "WB_CACHELINE_MISS"
       /\ mh'.cnt = mh.cnt
  /\ mh.state \in ReqStates =>
       /\ mh'.state = IF gnt_miss_fsm(in) THEN "SAVE_CACHELINE" ELSE mh.state
       /\ mh'.colliding_clean => Watch
       /\ mh.state = "REQ_CACHELINE_UNIQUE" /\ gnt_miss_fsm(in) => ~mh'.colliding_clean
  /\ mh.state = "SAVE_CACHELINE" =>
       IF valid_miss_fsm(in)
       THEN /\ mh'.state = IF mh.colliding_clean THEN "MISS" ELSE "IDLE"
            /\ mh'.valid = mh.colliding_clean /\ ~mh'.colliding_clean
       ELSE /\ mh'.state = "SAVE_CACHELINE" /\ mh'.valid = mh.valid
            /\ mh'.colliding_clean = Watch
  /\ mh.state = "REQ_BEFORE_CLEAN" => mh'.state = "CHECK_BEFORE_CLEAN"
  /\ mh.state = "CHECK_BEFORE_CLEAN" =>
       mh'.state = IF HitWays(mh.addr) # {} THEN "SEND_CLEAN" ELSE "MISS"
  /\ mh.state = "SEND_CLEAN" =>
       IF valid_miss_fsm(in)
       THEN /\ mh'.state = IF mh.colliding_clean THEN "MISS" ELSE "IDLE"
            /\ mh'.valid = (mh.valid /\ mh.colliding_clean)
       ELSE mh'.state = "SEND_CLEAN" /\ mh'.valid = mh.valid

MhOthers(in) ==
  /\ mh.state = "INIT" =>
       mh'.cnt = NextSet /\ mh'.state = IF mh.cnt = NumSets - 1 THEN "IDLE" ELSE "INIT"
  /\ mh.state = "IDLE" =>
       /\ mh'.state = IF busy THEN "IDLE" ELSE IF in.flush THEN "FLUSH_REQ_STATUS"
                      ELSE IF in.amo # None THEN "AMO_WB_REQ" ELSE "IDLE"
       /\ mh'.serve_amo => mh.serve_amo \/ (~busy /\ in.amo # None)
       /\ ~busy /\ in.flush => mh'.cnt = 0
       /\ ~mh'.colliding_clean
  /\ mh.state = "FLUSH_REQ_STATUS" => mh'.state = "FLUSHING"
  /\ mh.state = "FLUSHING" =>
       IF DirtyWays(mh.cnt) # {}
       THEN /\ mh'.state = "WB_CACHELINE_FLUSH" /\ mh'.cnt = mh.cnt
            /\ mh'.serve_amo = mh.serve_amo
       ELSE /\ mh'.cnt = NextSet
            /\ mh'.serve_amo = (mh.serve_amo /\ mh.cnt # NumSets - 1)
            /\ mh'.state = IF mh.cnt # NumSets - 1 THEN "FLUSH_REQ_STATUS"
                           ELSE IF mh.serve_amo THEN "AMO_REQ" ELSE "IDLE"
  /\ mh.state = "WB_CACHELINE_FLUSH" =>
       mh'.state = IF valid_miss_fsm(in) THEN "FLUSH_REQ_STATUS" ELSE "WB_CACHELINE_FLUSH"
  /\ mh.state = "AMO_WB_REQ" => mh'.state = "AMO_WB"
  /\ mh.state = "AMO_WB" => mh'.state \in {"WB_CACHELINE_AMO", "AMO_REQ"}
  /\ mh.state = "WB_CACHELINE_AMO" =>
       mh'.state = IF valid_miss_fsm(in) THEN "AMO_REQ" ELSE "WB_CACHELINE_AMO"
  /\ mh.state \in {"AMO_REQ", "AMO_WAIT_RESP"} =>
       /\ mh'.state = IF in.amo_valid THEN "IDLE"
                      ELSE IF in.amo_gnt THEN "AMO_WAIT_RESP" ELSE mh.state
       /\ mh'.serve_amo = (mh.serve_amo /\ mh.state # "AMO_REQ")

MhMoves(in) ==
  IF mh.state = "IDLE" /\ MissReqs # {} THEN \E i \in CtrlPorts : MhTakes(i)
  ELSE MhKeeps /\ MhServes(in) /\ MhOthers(in)

\* The miss handler moves as MhMoves says, whatever its state.
LEMMA MhFacts ==
  ASSUME TypeOK, InvAmo, NEW in \in Inputs, MhStep(in)
  PROVE  mh' \in MhType /\ MhMoves(in)
<1>0. mh \in MhType /\ sram \in [Sets -> [Ways -> Lines]]
  BY DEF TypeOK, CacheTypeOK, MhType
<1>1. Watch \in BOOLEAN
  BY <1>0 DEF Watch, MhType
<1>2. /\ in.victim \in Ways /\ in.flush = core.flush /\ in.amo = core.amo
      /\ in.amo_valid \in BOOLEAN /\ in.amo_gnt \in BOOLEAN
  BY InputFacts
<1>3. NextSet \in Sets /\ 0 \in Sets
  BY <1>0, DCacheAssumption DEF NextSet, Sets, MhType
<1>4. core \in [flush : BOOLEAN, amo : Addr \cup {None}]
  BY DEF TypeOK
<1>5. ReqState \in ReqStates
  BY DEF ReqState, ReqStates
<1> HIDE DEF Watch, ReqState
\* Steps that only change the state.
<1>6. ASSUME NEW to \in MissStates, MhGoto(to)
      PROVE  /\ mh' \in MhType /\ mh'.state = to
             /\ mh'.valid = mh.valid /\ mh'.serve_amo = mh.serve_amo /\ mh'.cnt = mh.cnt
             /\ mh'.id = mh.id /\ mh'.addr = mh.addr /\ mh'.make_unique = mh.make_unique
             /\ mh'.colliding_clean = Watch
  BY <1>0, <1>1, <1>6 DEF MhGoto, MhType
<1>7. CASE MhInit
  <2>1. PICK st \in MissStates :
          /\ st = IF mh.cnt = NumSets - 1 THEN "IDLE" ELSE "INIT"
          /\ mh' = [mh EXCEPT !.cnt = NextSet, !.colliding_clean = Watch, !.state = st]
    BY <1>7 DEF MhInit, MissStates
  <2>2. mh' \in MhType
    BY <1>0, <1>1, <1>3, <2>1 DEF MhType
  <2>3. MhKeeps
    BY <1>0, <1>7, <2>1 DEF MhInit, MhType, MhKeeps
  <2>4. mh.state = "INIT" /\ mh'.state = st /\ mh'.cnt = NextSet
    BY <1>0, <1>7, <2>1 DEF MhInit, MhType
  <2> QED BY <2>1, <2>2, <2>3, <2>4 DEF MhMoves, MhServes, MhOthers, ReqStates
<1>8. CASE MhIdle(in) /\ MissReqs # {}
  <2> DEFINE i == FirstOf(MissReqs)
  <2>1. i \in MissReqs
    BY <1>8, FirstOfIn DEF MissReqs, CtrlPorts
  <2> HIDE DEF i
  <2>2. i \in CtrlPorts /\ cc[i].addr \in Addr
    BY <2>1 DEF MissReqs, TypeOK, CacheTypeOK
  <2>3. PICK u \in BOOLEAN, st \in MissStates :
          /\ u = (cc[i].state = "MAKE_UNIQUE")
          /\ st = IF cc[i].state = "MAKE_UNIQUE" THEN "REQ_BEFORE_CLEAN" ELSE "MISS"
    BY DEF MissStates
  <2>4. mh' = [mh EXCEPT !.state = st, !.valid = TRUE, !.id = i, !.addr = cc[i].addr,
                         !.make_unique = u, !.serve_amo = FALSE, !.colliding_clean = FALSE]
    BY <1>8, <2>3 DEF MhIdle, i
  <2>5. mh' \in MhType
    BY <1>0, <2>2, <2>4 DEF MhType
  <2>6. MhTakes(i)
    BY <1>0, <2>1, <2>3, <2>4 DEF MhTakes, MhType
  <2> QED BY <1>8, <2>2, <2>5, <2>6 DEF MhMoves, MhIdle
<1>9. CASE MhIdle(in) /\ MissReqs = {}
  <2>1. PICK st \in MissStates, n \in Sets, v \in BOOLEAN :
          /\ st = IF busy THEN "IDLE" ELSE IF in.flush THEN "FLUSH_REQ_STATUS"
                  ELSE IF in.amo # None THEN "AMO_WB_REQ" ELSE "IDLE"
          /\ n = IF ~busy /\ (in.flush \/ in.amo # None) THEN 0 ELSE mh.cnt
          /\ v = (mh.serve_amo \/ (~busy /\ in.amo # None))
    <3>a. (IF ~busy /\ (in.flush \/ in.amo # None) THEN 0 ELSE mh.cnt) \in Sets
      BY <1>0, <1>3 DEF MhType
    <3>b. (mh.serve_amo \/ (~busy /\ in.amo # None)) \in BOOLEAN
      BY <1>0 DEF MhType
    <3>c. (IF busy THEN "IDLE" ELSE IF in.flush THEN "FLUSH_REQ_STATUS"
           ELSE IF in.amo # None THEN "AMO_WB_REQ" ELSE "IDLE") \in MissStates
      BY DEF MissStates
    <3> QED BY <3>a, <3>b, <3>c, Zenon
  <2>2. mh.state = "IDLE" /\ mh' = [mh EXCEPT !.state = st, !.cnt = n, !.serve_amo = v,
                                              !.colliding_clean = FALSE]
    <3> HIDE DEF busy
    <3> QED BY <1>9, <2>1 DEF MhIdle
  <2>3. mh' \in MhType
    BY <1>0, <2>1, <2>2 DEF MhType
  <2>4. MhKeeps
    BY <1>0, <2>2 DEF MhType, MhKeeps
  <2>5. mh'.state = st /\ mh'.cnt = n /\ mh'.serve_amo = v /\ ~mh'.colliding_clean
    BY <1>0, <2>2 DEF MhType
  <2>6. MhServes(in)
    BY <2>2 DEF MhServes, ReqStates
  <2>7. MhOthers(in)
    <3> HIDE DEF busy
    <3> QED BY <2>1, <2>2, <2>5 DEF MhOthers
  <2> QED BY <1>9, <2>3, <2>4, <2>6, <2>7 DEF MhMoves
<1>10. CASE MhMiss
  BY <1>6, <1>10 DEF MhMiss, MissStates, MhMoves, MhKeeps, MhServes, MhOthers, ReqStates
<1>11. CASE MhMissRepl(in)
  <2> DEFINE row    == sram[Index(mh.addr)]
             free   == {w \in Ways : ~row[w].valid}
             victim == IF free = {} THEN in.victim ELSE FirstOf(free)
             wb     == free = {} /\ row[victim].dirty
  <2>1. victim \in Ways
    <3>1. free # {} => FirstOf(free) \in free
      <4> HIDE DEF row
      <4> QED BY FirstOfIn DEF Ways
    <3> QED BY <1>2, <3>1
  <2>2. row[victim].tag \in Addr /\ row[victim].data \in Val
    <3> HIDE DEF victim
    <3>1. row \in [Ways -> Lines]
      BY <1>0, IndexType DEF MhType
    <3>2. row[victim] \in Lines
      BY <2>1, <3>1
    <3> QED BY <3>2 DEF Lines
  <2>3. Index(mh.addr) \in Sets
    BY <1>0, IndexType DEF MhType
  <2>4. PICK e \in Addr, d \in Val, n \in Sets, st \in MissStates :
          /\ st \in {"WB_CACHELINE_MISS", ReqState}
          /\ e = IF wb THEN row[victim].tag ELSE mh.evict
          /\ d = IF wb THEN row[victim].data ELSE mh.evict_data
          /\ n = IF wb THEN Index(mh.addr) ELSE mh.cnt
          /\ st = IF wb THEN "WB_CACHELINE_MISS" ELSE ReqState
    <3> HIDE DEF wb, row, victim
    <3>1. /\ (IF wb THEN row[victim].tag ELSE mh.evict) \in Addr
          /\ (IF wb THEN row[victim].data ELSE mh.evict_data) \in Val
          /\ (IF wb THEN Index(mh.addr) ELSE mh.cnt) \in Sets
      BY <1>0, <2>2, <2>3 DEF MhType
    <3>2. /\ (IF wb THEN "WB_CACHELINE_MISS" ELSE ReqState) \in MissStates
          /\ (IF wb THEN "WB_CACHELINE_MISS" ELSE ReqState) \in {"WB_CACHELINE_MISS", ReqState}
      BY <1>5 DEF MissStates, WbStates
    <3> QED BY <3>1, <3>2, Zenon
  <2>5. mh.state = "MISS_REPL" /\ mh' = [mh EXCEPT !.way = victim, !.colliding_clean = Watch,
                       !.evict = e, !.evict_data = d, !.cnt = n, !.state = st]
    BY <1>11, <2>4 DEF MhMissRepl
  <2> HIDE DEF victim, wb, row
  <2>6. mh' \in MhType
    BY <1>0, <1>1, <2>1, <2>4, <2>5 DEF MhType
  <2>7. MhKeeps
    BY <1>0, <2>5 DEF MhType, MhKeeps
  <2>8. mh'.state = st /\ mh'.cnt = n
    BY <1>0, <2>5 DEF MhType
  <2>9. ReqState # "WB_CACHELINE_MISS"
    BY DEF ReqState
  <2>10. st = "WB_CACHELINE_MISS" => n = Index(mh.addr)
    BY <2>4, <2>9
  <2> QED BY <2>4, <2>5, <2>6, <2>7, <2>8, <2>10 DEF MhMoves, MhServes, MhOthers, ReqStates
<1>12. CASE MhReqCacheline(in)
  <2>1. CASE ~gnt_miss_fsm(in)
    <3>1. mh.state \in ReqStates /\ mh' = [mh EXCEPT !.colliding_clean = Watch]
      BY <1>12, <2>1 DEF MhReqCacheline
    <3>2. mh' \in MhType /\ MhKeeps /\ mh'.state = mh.state /\ mh'.colliding_clean = Watch
      BY <1>0, <1>1, <3>1 DEF MhType, MhKeeps, ReqStates
    <3> QED BY <2>1, <3>1, <3>2 DEF MhMoves, MhServes, MhOthers, ReqStates
  <2>2. CASE gnt_miss_fsm(in)
    <3>1. PICK l \in BOOLEAN : l = (Watch /\ mh.state # "REQ_CACHELINE_UNIQUE")
      OBVIOUS
    <3>2. mh.state \in ReqStates
          /\ mh' = [mh EXCEPT !.state = "SAVE_CACHELINE", !.colliding_clean = l]
      BY <1>12, <2>2, <3>1 DEF MhReqCacheline
    <3>3. /\ mh' \in MhType /\ MhKeeps /\ mh'.state = "SAVE_CACHELINE"
          /\ mh'.colliding_clean = l
      BY <1>0, <1>1, <3>2 DEF MhType, MhKeeps, ReqStates, MissStates
    <3> QED BY <2>2, <3>1, <3>2, <3>3 DEF MhMoves, MhServes, MhOthers, ReqStates
  <2> QED BY <2>1, <2>2
<1>13. CASE MhSaveCacheline(in)
  <2>1. CASE ~valid_miss_fsm(in)
    <3>1. mh.state = "SAVE_CACHELINE" /\ mh' = [mh EXCEPT !.colliding_clean = Watch]
      BY <1>13, <2>1 DEF MhSaveCacheline
    <3>2. /\ mh' \in MhType /\ MhKeeps /\ mh'.state = mh.state /\ mh'.colliding_clean = Watch
          /\ mh'.valid = mh.valid
      BY <1>0, <1>1, <3>1 DEF MhType, MhKeeps, ReqStates
    <3> QED BY <2>1, <3>1, <3>2 DEF MhMoves, MhServes, MhOthers, ReqStates
  <2>2. CASE valid_miss_fsm(in)
    <3>1. PICK st \in MissStates : st = IF mh.colliding_clean THEN "MISS" ELSE "IDLE"
      BY DEF MissStates
    <3>2. mh.state = "SAVE_CACHELINE" /\ mh' = [mh EXCEPT !.colliding_clean = FALSE,
                                !.state = st, !.valid = mh.colliding_clean]
      BY <1>13, <2>2, <3>1 DEF MhSaveCacheline
    <3>3. /\ mh' \in MhType /\ MhKeeps /\ mh'.state = st /\ ~mh'.colliding_clean
          /\ mh'.valid = mh.colliding_clean
      BY <1>0, <1>1, <3>2 DEF MhType, MhKeeps, ReqStates
    <3> QED BY <2>2, <3>1, <3>2, <3>3 DEF MhMoves, MhServes, MhOthers, ReqStates
  <2> QED BY <2>1, <2>2
<1>14. CASE MhWriteBack(in)
  <2>1. PICK st \in MissStates :
          st = IF ~valid_miss_fsm(in) THEN mh.state
               ELSE IF mh.state = "WB_CACHELINE_MISS" THEN ReqState
               ELSE IF mh.state = "WB_CACHELINE_AMO" THEN "AMO_REQ" ELSE "FLUSH_REQ_STATUS"
    BY <1>0, <1>5 DEF MissStates, MhType
  <2>2. mh.state \in WbStates /\ MhGoto(st)
    BY <1>14, <2>1 DEF MhWriteBack
  <2>3. /\ mh' \in MhType /\ mh'.state = st
        /\ mh'.valid = mh.valid /\ mh'.serve_amo = mh.serve_amo /\ mh'.cnt = mh.cnt
        /\ mh'.id = mh.id /\ mh'.addr = mh.addr /\ mh'.make_unique = mh.make_unique
        /\ mh'.colliding_clean = Watch
    BY <1>6, <2>2
  <2> QED BY <2>1, <2>2, <2>3 DEF WbStates, ReqStates, MhMoves, MhKeeps, MhServes, MhOthers
<1>15. CASE MhFlushReqStatus
  BY <1>6, <1>15 DEF MhFlushReqStatus, MissStates, MhMoves, MhKeeps, MhServes, MhOthers, ReqStates
<1>16. CASE MhFlushing /\ DirtyWays(mh.cnt) # {}
  <2> DEFINE w == FirstOf(DirtyWays(mh.cnt))
  <2>1. w \in Ways
    <3>1. DirtyWays(mh.cnt) \subseteq Ways /\ Ways \subseteq Nat
      BY DEF DirtyWays, Ways
    <3> QED BY <1>16, <3>1, FirstOfIn
  <2> HIDE DEF w
  <2>2. sram[mh.cnt][w].tag \in Addr /\ sram[mh.cnt][w].data \in Val
    <3>1. sram[mh.cnt][w] \in Lines
      BY <1>0, <2>1 DEF MhType
    <3> QED BY <3>1 DEF Lines
  <2>3. mh.state = "FLUSHING"
        /\ mh' = [mh EXCEPT !.state = "WB_CACHELINE_FLUSH", !.way = w,
                            !.evict = sram[mh.cnt][w].tag, !.evict_data = sram[mh.cnt][w].data,
                            !.colliding_clean = Watch]
    BY <1>16 DEF MhFlushing, w
  <2>4. mh' \in MhType
    BY <1>0, <1>1, <2>1, <2>2, <2>3 DEF MhType, MissStates, WbStates
  <2>5. /\ MhKeeps /\ mh'.state = "WB_CACHELINE_FLUSH" /\ mh'.cnt = mh.cnt
        /\ mh'.serve_amo = mh.serve_amo
    BY <1>0, <2>3 DEF MhType, MhKeeps
  <2> QED BY <1>16, <2>3, <2>4, <2>5 DEF MhMoves, MhServes, MhOthers, ReqStates
<1>17. CASE MhFlushing /\ DirtyWays(mh.cnt) = {}
  <2>1. PICK v \in BOOLEAN, st \in MissStates :
          /\ v = (mh.serve_amo /\ mh.cnt # NumSets - 1)
          /\ st = IF mh.cnt # NumSets - 1 THEN "FLUSH_REQ_STATUS"
                  ELSE IF mh.serve_amo THEN "AMO_REQ" ELSE "IDLE"
    BY DEF MissStates
  <2>2. mh.state = "FLUSHING"
        /\ mh' = [mh EXCEPT !.cnt = NextSet, !.colliding_clean = Watch, !.serve_amo = v,
                            !.state = st]
    BY <1>17, <2>1 DEF MhFlushing
  <2>3. mh' \in MhType
    BY <1>0, <1>1, <1>3, <2>1, <2>2 DEF MhType
  <2>4. MhKeeps /\ mh'.state = st /\ mh'.cnt = NextSet /\ mh'.serve_amo = v
    BY <1>0, <2>2 DEF MhType, MhKeeps
  <2> QED BY <1>17, <2>1, <2>2, <2>3, <2>4 DEF MhMoves, MhServes, MhOthers, ReqStates
<1>18. CASE MhReqBeforeClean
  BY <1>6, <1>18 DEF MhReqBeforeClean, MissStates, MhMoves, MhKeeps, MhServes, MhOthers, ReqStates
<1>19. CASE MhCheckBeforeClean
  <2>1. PICK st \in MissStates : st = IF HitWays(mh.addr) # {} THEN "SEND_CLEAN" ELSE "MISS"
    BY DEF MissStates
  <2>2. mh.state = "CHECK_BEFORE_CLEAN" /\ MhGoto(st)
    BY <1>19, <2>1 DEF MhCheckBeforeClean
  <2> QED BY <1>6, <2>1, <2>2 DEF MhMoves, MhKeeps, MhServes, MhOthers, ReqStates
<1>20. CASE MhSendClean(in)
  <2>1. PICK v \in BOOLEAN, st \in MissStates :
          /\ v = (mh.valid /\ (valid_miss_fsm(in) => mh.colliding_clean))
          /\ st = IF ~valid_miss_fsm(in) THEN "SEND_CLEAN"
                  ELSE IF mh.colliding_clean THEN "MISS" ELSE "IDLE"
    BY DEF MissStates
  <2>2. mh.state = "SEND_CLEAN"
        /\ mh' = [mh EXCEPT !.colliding_clean = Watch, !.valid = v, !.state = st]
    BY <1>20, <2>1 DEF MhSendClean
  <2>3. mh' \in MhType
    BY <1>0, <1>1, <2>1, <2>2 DEF MhType
  <2>4. MhKeeps /\ mh'.state = st /\ mh'.valid = v
    BY <1>0, <2>2 DEF MhType, MhKeeps
  <2>5. mh.valid \in BOOLEAN
    BY <1>0 DEF MhType
  <2> QED BY <2>1, <2>2, <2>3, <2>4, <2>5 DEF MhMoves, MhServes, MhOthers, ReqStates
<1>21. CASE MhAmoWbReq
  BY <1>6, <1>21 DEF MhAmoWbReq, MissStates, MhMoves, MhKeeps, MhServes, MhOthers, ReqStates
<1>22. CASE MhAmoWb(in)
  <2> DEFINE w  == HitWay(in.amo)
             wb == w # 0 /\ sram[Index(in.amo)][w].dirty
  <2>0. mh.state = "AMO_WB" /\ in.amo \in Addr
    BY <1>2, <1>4, <1>22 DEF MhAmoWb, InvAmo, AmoStates
  <2>1. CASE wb
    <3>1. w \in Ways
      BY <2>1, HitWayType
    <3>2. Index(in.amo) \in Sets /\ sram[Index(in.amo)][w].data \in Val
      <4> HIDE DEF w
      <4>1. Index(in.amo) \in Sets
        BY <2>0, IndexType
      <4>2. sram[Index(in.amo)][w] \in Lines
        BY <1>0, <3>1, <4>1
      <4> QED BY <4>1, <4>2 DEF Lines
    <3>3. mh' = [mh EXCEPT !.state = "WB_CACHELINE_AMO", !.way = w, !.evict = in.amo,
                           !.evict_data = sram[Index(in.amo)][w].data,
                           !.cnt = Index(in.amo), !.colliding_clean = Watch]
      BY <1>22, <2>1 DEF MhAmoWb
    <3> HIDE DEF w
    <3>4. mh' \in MhType
      BY <1>0, <1>1, <2>0, <3>1, <3>2, <3>3 DEF MhType, MissStates, WbStates
    <3>5. MhKeeps /\ mh'.state = "WB_CACHELINE_AMO"
      BY <1>0, <2>0, <3>3 DEF MhType, MhKeeps
    <3> QED BY <2>0, <3>4, <3>5 DEF MhMoves, MhServes, MhOthers, ReqStates
  <2>2. CASE ~wb
    <3>1. mh' = [mh EXCEPT !.state = "AMO_REQ", !.colliding_clean = Watch]
      BY <1>22, <2>2 DEF MhAmoWb
    <3>2. mh' \in MhType /\ MhKeeps /\ mh'.state = "AMO_REQ"
      BY <1>0, <1>1, <2>0, <3>1 DEF MhType, MhKeeps, MissStates
    <3> QED BY <2>0, <3>2 DEF MhMoves, MhServes, MhOthers, ReqStates
  <2> QED BY <2>1, <2>2
<1>23. CASE MhAmoReq(in)
  <2>1. PICK v \in BOOLEAN, st \in MissStates :
          /\ v = (mh.serve_amo /\ mh.state # "AMO_REQ")
          /\ st = IF in.amo_valid THEN "IDLE"
                  ELSE IF in.amo_gnt THEN "AMO_WAIT_RESP" ELSE mh.state
    <3>1. (IF in.amo_valid THEN "IDLE" ELSE IF in.amo_gnt THEN "AMO_WAIT_RESP" ELSE mh.state)
            \in MissStates
      BY <1>0 DEF MissStates, MhType
    <3> QED BY <3>1, Zenon
  <2>2. mh.state \in {"AMO_REQ", "AMO_WAIT_RESP"}
        /\ mh' = [mh EXCEPT !.serve_amo = v, !.colliding_clean = Watch, !.state = st]
    BY <1>23, <2>1 DEF MhAmoReq
  <2>3. mh' \in MhType
    BY <1>0, <1>1, <2>1, <2>2 DEF MhType
  <2>4. MhKeeps /\ mh'.state = st /\ mh'.serve_amo = v
    BY <1>0, <2>1, <2>2 DEF MhType, MhKeeps
  <2> QED BY <2>1, <2>2, <2>3, <2>4 DEF MhMoves, MhServes, MhOthers, ReqStates
<1> QED BY <1>7, <1>8, <1>9, <1>10, <1>11, <1>12, <1>13, <1>14, <1>15, <1>16, <1>17,
           <1>18, <1>19, <1>20, <1>21, <1>22, <1>23 DEF MhStep

\* How the adapter moves.
AdType == [state : AdStates, first : BOOLEAN, word : 0..1,
           shared : BOOLEAN, dirty : BOOLEAN, data : Val]

AdMoves(in) ==
  /\ ad.state = "IDLE" =>
       IF AdReads /\ in.ar_ready THEN ad'.state = "WAIT_R" /\ ~ad'.first
       ELSE IF AdWrites /\ in.aw_ready THEN ad'.state = "WAIT_B" ELSE ad' = ad
  /\ ad.state = "WAIT_R" =>
       IF in.r = "last" THEN ad'.state = "COMPLETE_READ"
       ELSE /\ ad'.state = "WAIT_R" /\ ad'.word = ad.word
            /\ ad'.first = (ad.first \/ in.r = "first")
  /\ ad.state = "COMPLETE_READ" => ad'.state = "IDLE"
  /\ ad.state = "WAIT_B" => ad'.state = IF in.b THEN "IDLE" ELSE "WAIT_B"

\* The AXI adapter moves as AdMoves says.
LEMMA AdFacts ==
  ASSUME TypeOK, NEW in \in Inputs, AdStep(in)
  PROVE  ad' \in AdType /\ AdMoves(in)
<1>0. ad \in AdType
  BY DEF TypeOK, CacheTypeOK, AdType
<1>1. /\ in.r_shared \in BOOLEAN /\ in.r_dirty \in BOOLEAN /\ in.r_data \in Val
      /\ in.word \in 0..1 /\ in.b \in BOOLEAN
  BY InputFacts DEF TypeOK, Resp
<1>2. CASE ad.state = "IDLE"
  <2>1. CASE AdReads /\ in.ar_ready
    <3>1. ad' = [ad EXCEPT !.state = "WAIT_R", !.first = FALSE, !.word = in.word]
      BY <1>2, <2>1 DEF AdStep
    <3> QED BY <1>0, <1>1, <1>2, <2>1, <3>1 DEF AdType, AdStates, AdMoves
  <2>2. CASE ~(AdReads /\ in.ar_ready) /\ AdWrites /\ in.aw_ready
    <3>1. ad' = [ad EXCEPT !.state = "WAIT_B"]
      BY <1>2, <2>2 DEF AdStep
    <3> QED BY <1>0, <1>2, <2>2, <3>1 DEF AdType, AdStates, AdMoves
  <2>3. CASE ~(AdReads /\ in.ar_ready) /\ ~(AdWrites /\ in.aw_ready)
    <3>1. ad' = ad
      BY <1>2, <2>3 DEF AdStep
    <3> QED BY <1>0, <1>2, <2>3, <3>1 DEF AdMoves
  <2> QED BY <2>1, <2>2, <2>3
<1>3. CASE ad.state = "WAIT_R"
  <2>1. CASE in.r = "last"
    <3>1. ad' = [ad EXCEPT !.state = "COMPLETE_READ", !.shared = in.r_shared,
                           !.dirty = in.r_dirty, !.data = in.r_data]
      BY <1>3, <2>1 DEF AdStep
    <3> QED BY <1>0, <1>1, <1>3, <2>1, <3>1 DEF AdType, AdStates, AdMoves
  <2>2. CASE in.r # "last"
    <3>1. PICK f \in BOOLEAN : f = (ad.first \/ in.r = "first")
      OBVIOUS
    <3>2. ad' = [ad EXCEPT !.first = f]
      BY <1>3, <2>2, <3>1 DEF AdStep
    <3> QED BY <1>0, <1>3, <2>2, <3>1, <3>2 DEF AdType, AdStates, AdMoves
  <2> QED BY <2>1, <2>2
<1>4. CASE ad.state = "COMPLETE_READ"
  BY <1>0, <1>4 DEF AdStep, AdType, AdStates, AdMoves
<1>5. CASE ad.state = "WAIT_B"
  BY <1>0, <1>1, <1>5 DEF AdStep, AdType, AdStates, AdMoves
<1> QED BY <1>0, <1>2, <1>3, <1>4, <1>5 DEF AdType, AdStates

\* How the core's requests change: a flush ends with its acknowledgement, an AMO with
\* its response.
CoreMoves(in) ==
  /\ core.flush => core'.amo = core.amo /\ (core'.flush \/ FlushAck)
  /\ ~core.flush /\ core.amo # None =>
       ~core'.flush /\ (core'.amo = core.amo \/ (core'.amo = None /\ in.amo_valid))
  /\ ~core.flush /\ core.amo = None => ~core'.flush \/ core'.amo = None
  /\ core.amo = None /\ core'.amo # None =>
       cc[STORE].state = "IDLE" /\ in.core[STORE].req = None

\* The core moves as CoreMoves says.
LEMMA CoreFacts ==
  ASSUME TypeOK, NEW in \in Inputs, CoreStep(in)
  PROVE  core' \in [flush : BOOLEAN, amo : Addr \cup {None}] /\ CoreMoves(in)
<1>0. core \in [flush : BOOLEAN, amo : Addr \cup {None}]
  BY DEF TypeOK
<1>1. in.flush = core.flush /\ in.amo = core.amo
  BY InputFacts
<1>2. CASE core.flush
  <2>1. core' = core \/ (FlushAck /\ core' = [core EXCEPT !.flush = FALSE])
    BY <1>1, <1>2 DEF CoreStep, If
  <2> QED BY <1>0, <1>2, <2>1 DEF CoreMoves
<1>3. CASE ~core.flush /\ core.amo # None
  <2>1. core' = core \/ (in.amo_valid /\ core' = [core EXCEPT !.amo = None])
    BY <1>1, <1>3 DEF CoreStep, If
  <2> QED BY <1>0, <1>3, <2>1 DEF CoreMoves
<1>4. CASE ~core.flush /\ core.amo = None
  <2>1. \/ core' = core \/ core' = [core EXCEPT !.flush = TRUE]
        \/ /\ cc[STORE].state = "IDLE" /\ in.core[STORE].req = None
           /\ \E a \in Addr : core' = [core EXCEPT !.amo = a]
    BY <1>1, <1>4 DEF CoreStep, If
  <2> QED BY <1>0, <1>4, <2>1 DEF CoreMoves
<1> QED BY <1>2, <1>3, <1>4

\* How the coherence unit moves.  Lat is the next value of rlat.
CcuType == [state : {"IDLE", "OWN", "AMO", "AC", "CR", "CD"},
            ac : [addr : Addr, snoop : SnoopTypes] \cup {None},
            resp : Resp, turn : 0..1, rlat : 0 .. RDelay + 1 \cup {None}]

Lat == IF ccu.rlat \in {None, 0} THEN None ELSE ccu.rlat - 1

CcuMoves(in) ==
  \/ /\ ~Answered(in) /\ ~in.amo_valid /\ ccu'.rlat = Lat
     /\ ccu'.state = IF ac_ready(in) THEN "CR" ELSE IF CrTaken(in) THEN "CD" ELSE ccu.state
     /\ ccu'.ac = IF ac_ready(in) THEN None ELSE ccu.ac
  \/ Answered(in) /\ ccu'.state = "IDLE" /\ ccu'.ac = ccu.ac /\ ccu'.rlat = Lat
  \/ Free /\ ccu'.state = "AC" /\ ccu'.rlat = Lat
  \/ /\ Free /\ ad.state = "WAIT_R" /\ ccu.rlat = None
     /\ ccu'.state = "OWN" /\ ccu'.ac = ccu.ac /\ ccu'.rlat = None
  \/ /\ ccu.state = "OWN" /\ ccu'.state = "IDLE" /\ ccu'.ac = ccu.ac
     /\ ccu'.rlat \in 1 .. RDelay + 1 /\ ccu'.turn = 1
     /\ mh.state = "SEND_CLEAN" => ccu'.rlat <= 2
  \/ /\ Free /\ mh.state = "AMO_WAIT_RESP" /\ core.amo # None
     /\ ccu'.state = "AMO" /\ ccu'.ac = ccu.ac /\ ccu'.rlat = Lat
  \/ in.amo_valid /\ ccu'.state = "IDLE" /\ ccu'.ac = ccu.ac /\ ccu'.rlat = Lat

\* A cycle of the coherence unit.
LEMMA TickFacts ==
  ASSUME TypeOK
  PROVE  /\ Tick \in CcuType /\ Tick.rlat = Lat
         /\ Tick.state = ccu.state /\ Tick.ac = ccu.ac
<1>0. ccu \in CcuType
  BY DEF TypeOK, CcuType
<1>1. Lat \in 0 .. RDelay + 1 \cup {None}
  BY <1>0, DCacheAssumption, SystemAssumption DEF CcuType, Lat
<1>2. (IF ccu.rlat = 0 THEN NoResp ELSE ccu.resp) \in Resp
  <2>1. NoResp \in Resp
    BY DCacheAssumption DEF NoResp, Resp, Val
  <2> QED BY <1>0, <2>1 DEF CcuType
<1>3. PICK r \in Resp, z \in 0..1 :
        z = 0 /\ r = IF ccu.rlat = 0 THEN NoResp ELSE ccu.resp
  BY <1>2
<1>4. Tick = [ccu EXCEPT !.turn = z, !.rlat = Lat, !.resp = r]
  BY <1>3 DEF Tick, Lat
<1> HIDE DEF Lat
<1> QED BY <1>0, <1>1, <1>4 DEF CcuType

\* The versions the environment keeps.
LEMMA WrittenType ==
  ASSUME TypeOK, NEW in, NEW W, Written(in, W)
  PROVE  latest' \in [Addr -> Val]
<1>1. ASSUME NEW a \in Addr
      PROVE  (IF a \in OwnStores(in) \cup W THEN Merge(latest[a]) ELSE latest[a]) \in Val
  <2>1. latest[a] \in Val
    BY DEF TypeOK
  <2>2. Merge(latest[a]) \in Val
    BY <2>1, MergeType
  <2> QED BY <2>1, <2>2
<1> QED BY <1>1 DEF Written

EnvType ==
  /\ ccu' \in CcuType /\ rest' \in [Addr -> Held]
  /\ memv' \in [Addr -> Val] /\ latest' \in [Addr -> Val] /\ wb_done' \in BOOLEAN

\* The coherence unit moves as CcuMoves says.
LEMMA EnvFacts ==
  ASSUME TypeOK, NEW in \in Inputs, EnvStep(in)
  PROVE  EnvType /\ CcuMoves(in)
<1>0. /\ rest \in [Addr -> Held] /\ memv \in [Addr -> Val] /\ wb_done \in BOOLEAN
      /\ ccu \in CcuType /\ snp.addr \in Addr /\ snp.data \in Val /\ snp.cr \in CrResps
      /\ mh.addr \in Addr /\ mh.evict \in Addr /\ mh.evict_data \in Val
      /\ core.amo \in Addr \cup {None}
  BY DEF TypeOK, CacheTypeOK, CcuType
<1>1. /\ \A a \in Addr : rest[a].data \in Val /\ rest[a].dirty \in BOOLEAN
      /\ \A a \in Addr : rest[a].held \in {"none", "shared", "unique"}
  BY <1>0 DEF Held
<1>2. Nowhere \in Held
  BY DCacheAssumption DEF Nowhere, Held, Val
<1>3. Tick \in CcuType /\ Tick.rlat = Lat /\ Tick.state = ccu.state /\ Tick.ac = ccu.ac
  BY TickFacts
<1>4. PICK z \in 0..1 : z = 1
  OBVIOUS
<1>w. ASSUME NEW W, Written(in, W) PROVE latest' \in [Addr -> Val]
  BY <1>w, WrittenType
<1> HIDE DEF Lat, Tick
<1>5. ASSUME CcuWait(in) PROVE ccu' \in CcuType /\ CcuMoves(in)
  <2>0. PICK st \in {"IDLE", "OWN", "AMO", "AC", "CR", "CD"},
             q \in [addr : Addr, snoop : SnoopTypes] \cup {None} :
          /\ st = IF ac_ready(in) THEN "CR" ELSE IF CrTaken(in) THEN "CD" ELSE ccu.state
          /\ q = IF ac_ready(in) THEN None ELSE ccu.ac
    BY <1>0 DEF CcuType
  <2>1. ccu' = [Tick EXCEPT !.state = st, !.ac = q]
    BY <1>3, <1>5, <2>0 DEF CcuWait
  <2>2. ccu' \in CcuType /\ ccu'.state = st /\ ccu'.ac = q /\ ccu'.rlat = Lat
    BY <1>3, <2>1 DEF CcuType
  <2>3. ~Answered(in) /\ ~in.amo_valid
    BY <1>5 DEF CcuWait
  <2> QED BY <2>0, <2>2, <2>3 DEF CcuMoves
<1>6. ASSUME NEW st \in {"IDLE", "AMO"}, ccu' = [Tick EXCEPT !.state = st, !.turn = z]
      PROVE  ccu' \in CcuType /\ ccu'.state = st /\ ccu'.ac = ccu.ac /\ ccu'.rlat = Lat
  BY <1>3, <1>6 DEF CcuType
<1>7. CASE Quiet(in)
  BY <1>0, <1>5, <1>w, <1>7 DEF Quiet, EnvType
<1>8. CASE RestWrite(in)
  <2>1. PICK a \in Addr :
          /\ CcuWait(in) /\ Written(in, {a}) /\ UNCHANGED <<memv, wb_done>>
          /\ rest' = [rest EXCEPT ![a] = [@ EXCEPT !.dirty = TRUE, !.data = Merge(rest[a].data)]]
    BY <1>8 DEF RestWrite
  <2>2. Merge(rest[a].data) \in Val
    BY <1>1, MergeType
  <2>3. [rest[a] EXCEPT !.dirty = TRUE, !.data = Merge(rest[a].data)] \in Held
    BY <1>0, <2>2 DEF Held
  <2>4. rest' \in [Addr -> Held]
    BY <1>0, <2>1, <2>3
  <2> QED BY <1>0, <1>5, <1>w, <2>1, <2>4 DEF EnvType
<1>9. CASE RestEvict(in)
  <2>1. PICK a \in Addr, h \in {"none", "shared"} :
          /\ CcuWait(in) /\ Written(in, {}) /\ UNCHANGED wb_done
          /\ rest' = [rest EXCEPT ![a] = IF h = "none" THEN Nowhere ELSE [@ EXCEPT !.dirty = FALSE]]
          /\ memv' = IF rest[a].dirty THEN [memv EXCEPT ![a] = rest[a].data] ELSE memv
    BY <1>9 DEF RestEvict
  <2>2. [rest[a] EXCEPT !.dirty = FALSE] \in Held
    BY <1>0 DEF Held
  <2>3. rest' \in [Addr -> Held]
    BY <1>0, <1>2, <2>1, <2>2
  <2>4. memv' \in [Addr -> Val]
    BY <1>0, <1>1, <2>1
  <2> QED BY <1>0, <1>5, <1>w, <2>1, <2>3, <2>4 DEF EnvType
<1>10. CASE WbLands(in)
  <2>1. memv' \in [Addr -> Val] /\ wb_done' = TRUE /\ UNCHANGED rest
    BY <1>0, <1>10 DEF WbLands
  <2> QED BY <1>0, <1>5, <1>w, <1>10, <2>1 DEF EnvType, WbLands
<1>11. CASE SendSnoop(in)
  <2>1. PICK a \in Contended, s \in Snoops :
          ccu' = [Tick EXCEPT !.state = "AC", !.ac = [addr |-> a, snoop |-> s]]
    BY <1>11 DEF SendSnoop
  <2>2. [addr |-> a, snoop |-> s] \in [addr : Addr, snoop : SnoopTypes]
    BY SystemAssumption
  <2>3. ccu' \in CcuType /\ ccu'.state = "AC" /\ ccu'.rlat = Lat
    BY <1>3, <2>1, <2>2 DEF CcuType
  <2>4. /\ Free /\ Written(in, {}) /\ rest' = rest /\ memv' = memv /\ wb_done' = wb_done
    BY <1>11 DEF SendSnoop
  <2> QED BY <1>0, <1>w, <2>3, <2>4 DEF EnvType, CcuMoves
<1>12. CASE SnoopDone(in)
  <2> DEFINE a     == snp.addr
             r     == rest[a]
             data  == IF snp.cr.data THEN snp.data ELSE IF r.held # "none" THEN r.data ELSE memv[a]
             clean == IF snp.cr.dirty THEN snp.data ELSE IF r.dirty THEN r.data ELSE memv[a]
  <2>1. data \in Val /\ clean \in Val /\ Merge(clean) \in Val
    <3>1. data \in Val /\ clean \in Val
      BY <1>0, <1>1
    <3> HIDE DEF clean
    <3> QED BY <3>1, MergeType
  <2>2. /\ Answered(in) /\ ccu' = [Tick EXCEPT !.state = "IDLE", !.turn = z]
        /\ wb_done' = wb_done
    BY <1>4, <1>12 DEF SnoopDone
  <2>3. \E W : Written(in, W)
    BY <1>12 DEF SnoopDone
  <2>4. memv' = memv \/ memv' = [memv EXCEPT ![a] = clean]
        \/ memv' = [memv EXCEPT ![a] = Merge(clean)]
    BY <1>12 DEF SnoopDone
  <2>5. memv' \in [Addr -> Val]
    <3> HIDE DEF clean
    <3> QED BY <1>0, <2>1, <2>4
  <2>6. PICK l : l \in Held /\ (rest' = rest \/ rest' = [rest EXCEPT ![a] = l])
    <3>1. CASE snp.snoop = "READ_ONCE"
      BY <1>2, <1>12, <3>1 DEF SnoopDone
    <3>2. CASE snp.snoop = "READ_SHARED"
      <4> DEFINE h == IF snp.cr.data \/ r.held # "none" THEN "shared" ELSE "unique"
      <4>1. rest' = [rest EXCEPT ![a] = [held |-> h, dirty |-> r.dirty, data |-> data]]
        BY <1>12, <3>2 DEF SnoopDone
      <4>2. h \in {"none", "shared", "unique"}
        OBVIOUS
      <4> HIDE DEF h, data
      <4>3. [held |-> h, dirty |-> r.dirty, data |-> data] \in Held
        BY <1>0, <1>1, <2>1, <4>2 DEF Held
      <4> QED BY <4>1, <4>3
    <3>3. CASE snp.snoop = "READ_UNIQUE"
      <4>1. rest' = [rest EXCEPT ![a] = [held |-> "unique", dirty |-> r.dirty \/ snp.cr.dirty,
                                         data |-> data]]
        BY <1>12, <3>3 DEF SnoopDone
      <4> HIDE DEF data
      <4>2. (r.dirty \/ snp.cr.dirty) \in BOOLEAN
        OBVIOUS
      <4>3. [held |-> "unique", dirty |-> r.dirty \/ snp.cr.dirty, data |-> data] \in Held
        BY <2>1, <4>2 DEF Held
      <4> QED BY <4>1, <4>3
    <3>4. CASE snp.snoop = "CLEAN_INVALID"
      <4>1. \/ rest' = [rest EXCEPT ![a] = [@ EXCEPT !.held = "unique", !.dirty = FALSE]]
            \/ rest' = [rest EXCEPT ![a] = Nowhere]
        BY <1>12, <3>4 DEF SnoopDone
      <4>2. [rest[a] EXCEPT !.held = "unique", !.dirty = FALSE] \in Held
        BY <1>0 DEF Held
      <4> QED BY <1>2, <4>1, <4>2
    <3> QED BY <1>12, <3>1, <3>2, <3>3, <3>4 DEF SnoopDone
  <2>7. rest' \in [Addr -> Held]
    BY <1>0, <2>6
  <2> QED BY <1>0, <1>6, <1>w, <2>2, <2>3, <2>5, <2>7 DEF EnvType, CcuMoves
<1>13. CASE ServeOwn(in)
  <2> DEFINE a    == mh.addr
             r    == rest[a]
             data == IF r.held # "none" THEN r.data ELSE memv[a]
  <2>1. data \in Val /\ r.dirty \in BOOLEAN
    BY <1>0, <1>1
  <2>2. /\ Free /\ ad.state = "WAIT_R" /\ ccu.rlat = None /\ Written(in, {})
        /\ wb_done' = wb_done
    BY <1>13 DEF ServeOwn
  <2>3. PICK s \in BOOLEAN, d \in BOOLEAN :
          ccu' = [Tick EXCEPT !.state = "OWN",
                              !.resp = [shared |-> s, dirty |-> d, data |-> data]]
    BY <1>13, <2>1 DEF ServeOwn
  <2>4. [shared |-> s, dirty |-> d, data |-> data] \in Resp
    <3> HIDE DEF data
    <3> QED BY <2>1 DEF Resp
  <2>5. ccu' \in CcuType /\ ccu'.state = "OWN" /\ ccu'.ac = ccu.ac /\ ccu'.rlat = Lat
    <3> HIDE DEF data
    <3> QED BY <1>3, <2>3, <2>4 DEF CcuType
  <2>6. Lat = None
    BY <2>2 DEF Lat
  <2>7. memv' = memv \/ memv' = [memv EXCEPT ![a] = r.data]
    BY <1>13 DEF ServeOwn
  <2>8. memv' \in [Addr -> Val]
    BY <1>0, <1>1, <2>7
  <2>9. \/ rest' = [rest EXCEPT ![a] = Nowhere]
        \/ rest' = [rest EXCEPT ![a].held = IF @ = "none" THEN @ ELSE "shared"]
    BY <1>13 DEF ServeOwn
  <2>10. rest' \in [Addr -> Held]
    <3>1. PICK h \in {"none", "shared", "unique"} :
            h = IF rest[a].held = "none" THEN rest[a].held ELSE "shared"
      OBVIOUS
    <3>2. [rest[a] EXCEPT !.held = h] \in Held
      BY <1>0 DEF Held
    <3>3. rest' = [rest EXCEPT ![a] = Nowhere]
          \/ rest' = [rest EXCEPT ![a] = [rest[a] EXCEPT !.held = h]]
      BY <1>0, <2>9, <3>1
    <3> QED BY <1>0, <1>2, <3>2, <3>3
  <2> QED BY <1>0, <1>w, <2>2, <2>5, <2>6, <2>8, <2>10 DEF EnvType, CcuMoves
<1>14. CASE LastBeat(in)
  <2>1. PICK d \in 0 .. RDelay :
          /\ mh.state = "SEND_CLEAN" => d <= 1
          /\ ccu' = [Tick EXCEPT !.state = "IDLE", !.turn = z, !.rlat = 1 + d]
    BY <1>4, <1>14 DEF LastBeat
  <2>2. 1 + d \in 1 .. RDelay + 1
    BY SystemAssumption
  <2>3. PICK l \in 1 .. RDelay + 1 : l = 1 + d
    BY <2>2
  <2>4. ccu' = [Tick EXCEPT !.state = "IDLE", !.turn = z, !.rlat = l]
    BY <2>1, <2>3
  <2>5. l \in 0 .. RDelay + 1 \cup {None}
    BY SystemAssumption
  <2>6. /\ ccu' \in CcuType /\ ccu'.state = "IDLE" /\ ccu'.ac = ccu.ac /\ ccu'.rlat = l
        /\ ccu'.turn = z
    BY <1>3, <2>4, <2>5 DEF CcuType
  <2>7. mh.state = "SEND_CLEAN" => l <= 2
    BY <2>1, <2>3, SystemAssumption
  <2>8. /\ ccu.state = "OWN" /\ Written(in, {}) /\ rest' = rest /\ memv' = memv
        /\ wb_done' = wb_done
    BY <1>14 DEF LastBeat
  <2> QED BY <1>0, <1>4, <1>w, <2>6, <2>7, <2>8 DEF EnvType, CcuMoves
<1>15. CASE ServeAmo(in)
  <2>1. /\ Free /\ mh.state = "AMO_WAIT_RESP" /\ core.amo # None
        /\ ccu' = [Tick EXCEPT !.state = "AMO"] /\ wb_done' = wb_done
        /\ rest' = [rest EXCEPT ![core.amo] = Nowhere]
        /\ memv' = [memv EXCEPT ![core.amo] = Merge(IF rest[core.amo].dirty
                                                    THEN rest[core.amo].data ELSE @)]
        /\ Written(in, {core.amo})
    BY <1>15 DEF ServeAmo
  <2>2. core.amo \in Addr
    BY <1>0, <2>1
  <2>3. ccu' \in CcuType /\ ccu'.state = "AMO" /\ ccu'.ac = ccu.ac /\ ccu'.rlat = Lat
    BY <1>3, <2>1 DEF CcuType
  <2> DEFINE v == IF rest[core.amo].dirty THEN rest[core.amo].data ELSE memv[core.amo]
  <2>4. v \in Val
    BY <1>0, <1>1, <2>2
  <2>5. memv' = [memv EXCEPT ![core.amo] = Merge(v)]
    BY <2>1
  <2> HIDE DEF v
  <2>6. Merge(v) \in Val
    BY <2>4, MergeType
  <2>7. memv' \in [Addr -> Val] /\ rest' \in [Addr -> Held]
    BY <1>0, <1>2, <2>1, <2>5, <2>6
  <2> QED BY <1>0, <1>w, <2>1, <2>3, <2>7 DEF EnvType, CcuMoves
<1>16. CASE AmoDone(in)
  <2>1. /\ in.amo_valid /\ ccu' = [Tick EXCEPT !.state = "IDLE", !.turn = z]
        /\ Written(in, {}) /\ rest' = rest /\ memv' = memv /\ wb_done' = wb_done
    BY <1>4, <1>16 DEF AmoDone
  <2> QED BY <1>0, <1>6, <1>w, <2>1 DEF EnvType, CcuMoves
<1>17. CASE WbConfirmed(in)
  BY <1>0, <1>5, <1>w, <1>17 DEF WbConfirmed, EnvType
<1> QED BY <1>7, <1>8, <1>9, <1>10, <1>11, <1>12, <1>13, <1>14, <1>15, <1>16, <1>17
        DEF EnvStep
-----------------------------------------------------------------------------
(***************************************************************************)
(* One clock edge preserves ControlInv.                                    *)
(***************************************************************************)
\* An edge is a move of every state machine.
Edge(in) ==
  /\ in \in Inputs
  /\ SnpMoves(in) /\ MhMoves(in) /\ AdMoves(in) /\ CoreMoves(in) /\ CcuMoves(in)
  /\ \A i \in CtrlPorts : CtrlMoves(i, in, cc'[i])
  /\ StoreMoves(in, cc'[STORE])

\* An edge moves every state machine as above.
LEMMA EdgeFacts ==
  ASSUME TypeOK, InvSnoop, InvAmo, NEW in \in Inputs,
         CacheStep(in), CoreStep(in), EnvStep(in)
  PROVE  TypeOK' /\ Edge(in)
<1>1. sram' \in [Sets -> [Ways -> Lines]]
  BY SramType DEF CacheStep
<1>2. snp' \in SnpType /\ SnpMoves(in)
  BY SnpFacts DEF CacheStep
<1>3. cc' = [i \in CtrlPorts |-> CtrlNext(i, in)]
  BY DEF CacheStep, CtrlStep
<1>4. cc' \in [CtrlPorts -> CtrlType] /\ \A i \in CtrlPorts : CtrlMoves(i, in, cc'[i])
  BY <1>3, CtrlFacts
<1>a. StoreMoves(in, cc'[STORE])
  BY <1>3, StoreFacts DEF STORE, CtrlPorts
<1>5. mh' \in MhType /\ MhMoves(in)
  BY MhFacts DEF CacheStep
<1>6. ad' \in AdType /\ AdMoves(in)
  BY AdFacts DEF CacheStep
<1>7. core' \in [flush : BOOLEAN, amo : Addr \cup {None}] /\ CoreMoves(in)
  BY CoreFacts
<1>8. EnvType /\ CcuMoves(in)
  BY EnvFacts
<1>9. CacheTypeOK'
  BY <1>1, <1>2, <1>4, <1>5, <1>6 DEF CacheTypeOK, SnpType, CtrlType, MhType, AdType
<1>10. TypeOK'
  BY <1>7, <1>8, <1>9 DEF TypeOK, EnvType, CcuType
<1> QED BY <1>2, <1>4, <1>a, <1>5, <1>6, <1>7, <1>8, <1>10 DEF Edge

\* The coherence unit and the snoop controller stay together.
LEMMA SnoopStepInv ==
  ASSUME TypeOK, InvSnoop, InvAmo, NEW in, Edge(in)
  PROVE  InvSnoop'
<1>1. /\ in.ac = ccu.ac /\ in.amo_valid \in BOOLEAN
      /\ in.amo_valid => ccu.state = "AMO"
      /\ in.cr_ready \in BOOLEAN /\ in.cd_ready \in BOOLEAN
  BY InputFacts DEF Edge
<1>2. ac_ready(in) => snp.state = "IDLE" /\ ccu.state = "AC" /\ ccu.ac # None
  BY <1>1 DEF ac_ready, InvSnoop
<1>3. SnpMoves(in) /\ CcuMoves(in)
  BY DEF Edge
<1>4. snp.cr.data \in BOOLEAN
  BY DEF TypeOK, CacheTypeOK, CrResps
<1>5. snp.state \in SnpStates /\ ccu.state \in {"IDLE", "OWN", "AMO", "AC", "CR", "CD"}
  BY DEF TypeOK, CacheTypeOK
<1>6. snp'.state # "IDLE" => snp'.snoop \in SnoopTypes
  BY <1>3 DEF SnpMoves
<1>7. CASE /\ ~Answered(in) /\ ~in.amo_valid
           /\ ccu'.state = IF ac_ready(in) THEN "CR" ELSE IF CrTaken(in) THEN "CD" ELSE ccu.state
           /\ ccu'.ac = IF ac_ready(in) THEN None ELSE ccu.ac
  <2>1. CASE ac_ready(in)
    BY <1>2, <1>3, <1>6, <1>7, <2>1 DEF InvSnoop, SnpMoves
  <2>2. CASE ~ac_ready(in) /\ CrTaken(in)
    BY <1>1, <1>3, <1>4, <1>6, <1>7, <2>2 DEF InvSnoop, SnpMoves, CrTaken, Answered
  <2>3. CASE ~ac_ready(in) /\ ~CrTaken(in)
    <3>1. ccu'.state = ccu.state /\ ccu'.ac = ccu.ac
      BY <1>7, <2>3
    <3>2. snp'.state = "IDLE" <=> snp.state = "IDLE"
      BY <1>1, <1>3, <1>5, <1>7, <2>3 DEF SnpMoves, CrTaken, Answered, CdTaken
    <3>3. snp'.state = "SEND_CD_RESP" <=> snp.state = "SEND_CD_RESP"
      BY <1>1, <1>3, <1>5, <1>7, <2>3 DEF SnpMoves, CrTaken, Answered, CdTaken
    <3> QED BY <1>6, <3>1, <3>2, <3>3 DEF InvSnoop
  <2> QED BY <2>1, <2>2, <2>3
<1>8. CASE Answered(in) /\ ccu'.state = "IDLE" /\ ccu'.ac = ccu.ac
  <2>1. snp.state \in {"SEND_CR_RESP", "SEND_CD_RESP"} /\ snp'.state = "IDLE"
    BY <1>1, <1>3, <1>4, <1>8 DEF SnpMoves, CrTaken, Answered, CdTaken
  <2> QED BY <1>6, <1>8, <2>1 DEF InvSnoop
<1>9. CASE ~ac_ready(in) /\ ccu'.state = "AC" /\ Free
  <2>1. snp.state = "IDLE" /\ snp'.state = "IDLE"
    BY <1>3, <1>9 DEF InvSnoop, Free, SnpMoves
  <2> QED BY <1>6, <1>9, <2>1 DEF InvSnoop
<1>10. CASE /\ ccu.state \in {"IDLE", "OWN", "AMO"} /\ ccu'.ac = ccu.ac
            /\ ccu'.state \in {"IDLE", "OWN", "AMO"}
  <2>1. snp.state = "IDLE" /\ snp'.state = "IDLE"
    BY <1>2, <1>3, <1>10 DEF InvSnoop, SnpMoves
  <2> QED BY <1>6, <1>10, <2>1 DEF InvSnoop
<1>11. Free => ccu.state = "IDLE" /\ ~ac_ready(in)
  BY <1>2 DEF Free
<1> QED BY <1>1, <1>3, <1>7, <1>8, <1>9, <1>10, <1>11 DEF CcuMoves

\* AMOs and flushes.
LEMMA AmoStepInv ==
  ASSUME TypeOK, InvSnoop, InvAmo, NEW in, Edge(in)
  PROVE  InvAmo'
<1>1. /\ in.amo = core.amo /\ in.flush = core.flush
      /\ in.amo_valid \in BOOLEAN /\ in.amo_gnt \in BOOLEAN
      /\ in.amo_valid => ccu.state = "AMO" /\ mh.state = "AMO_WAIT_RESP"
      /\ in.amo_gnt => mh.state = "AMO_REQ"
  BY InputFacts DEF Edge, InvAmo
<1>2. CoreMoves(in) /\ MhMoves(in) /\ CcuMoves(in)
  BY DEF Edge
<1>3. mh.state \in MissStates /\ mh.serve_amo \in BOOLEAN /\ core.flush \in BOOLEAN
  BY DEF TypeOK, CacheTypeOK
<1>4. CASE mh.state = "IDLE" /\ MissReqs # {}
  <2>1. mh'.state \in {"REQ_BEFORE_CLEAN", "MISS"} /\ ~mh'.serve_amo
    BY <1>2, <1>4 DEF MhMoves, MhTakes
  <2>2. ccu'.state # "AMO"
    BY <1>1, <1>2, <1>4 DEF CcuMoves, InvAmo
  <2>3. core'.flush => core'.amo = None
    BY <1>2, <1>3 DEF CoreMoves, InvAmo
  <2> QED BY <2>1, <2>2, <2>3 DEF InvAmo, AmoStates
<1>5. CASE ~(mh.state = "IDLE" /\ MissReqs # {})
  <2>0. MhKeeps /\ MhServes(in) /\ MhOthers(in)
    BY <1>2, <1>5 DEF MhMoves
  <2>1. core'.flush => core'.amo = None
    BY <1>2, <1>3 DEF CoreMoves, InvAmo
  <2>2. mh'.state \in AmoStates =>
          \/ mh.state \in AmoStates /\ ~in.amo_valid
          \/ mh.state = "IDLE" /\ ~core.flush /\ core.amo # None
    BY <1>1, <1>3, <2>0 DEF MhServes, MhOthers, AmoStates, MissStates, WbStates, ReqStates,
                            ReqState, InvAmo
  <2>3. mh'.state \in AmoStates => core'.amo # None
    BY <1>1, <1>2, <1>3, <2>2 DEF CoreMoves, InvAmo
  <2>4. mh'.serve_amo => mh'.state \in AmoStates \ {"AMO_WAIT_RESP"}
    <3>1. CASE mh.state = "IDLE"
      BY <1>1, <2>0, <3>1 DEF MhOthers, InvAmo, AmoStates
    <3>2. CASE mh.state # "IDLE"
      BY <1>1, <1>3, <2>0, <3>2 DEF MhKeeps, MhServes, MhOthers, AmoStates, InvAmo, ReqStates
    <3> QED BY <3>1, <3>2
  <2>5. ccu'.state = "AMO" => mh'.state = "AMO_WAIT_RESP"
    <3>1. ccu'.state = "AMO" => mh.state = "AMO_WAIT_RESP" /\ ~in.amo_valid
      BY <1>1, <1>2 DEF CcuMoves, InvAmo, Free
    <3> QED BY <1>1, <2>0, <3>1 DEF MhOthers
  <2> QED BY <2>1, <2>3, <2>4, <2>5 DEF InvAmo
<1> QED BY <1>4, <1>5

\* While it serves a controller the miss handler grants only on its way out, or when the
\* refill has been requested.
LEMMA GrantFacts ==
  ASSUME TypeOK, InvMshr, NEW in \in Inputs, NEW i \in CtrlPorts, miss_gnt(i, in)
  PROVE  /\ i = mh.id /\ mh.valid
         /\ \/ mh.state \in ReqStates /\ gnt_miss_fsm(in) /\ ~mh.make_unique
            \/ /\ mh.state \in {"SAVE_CACHELINE", "SEND_CLEAN"} /\ valid_miss_fsm(in)
               /\ mh.make_unique /\ ~mh.colliding_clean
BY DEF miss_gnt, miss_write_done, InvMshr, Serving, Refilling, Cleaning

\* The controller served keeps waiting until the request is granted.
LEMMA MshrStepInv ==
  ASSUME TypeOK, InvAmo, InvMshr, NEW in, Edge(in)
  PROVE  InvMshr'
<1>1. in \in Inputs /\ MhMoves(in) /\ \A i \in CtrlPorts : CtrlMoves(i, in, cc'[i])
  BY DEF Edge
<1>2. /\ mh.state \in MissStates /\ mh.id \in CtrlPorts /\ mh.valid \in BOOLEAN
      /\ mh.make_unique \in BOOLEAN /\ mh.colliding_clean \in BOOLEAN /\ STORE \in CtrlPorts
  BY DEF TypeOK, CacheTypeOK, STORE, CtrlPorts
<1>3. \A i \in CtrlPorts : cc'[i].state \in {"MAKE_UNIQUE", "STORE_REQ"} => i = STORE
  BY <1>1 DEF CtrlMoves, InvMshr
<1>4. CASE mh.state = "IDLE" /\ MissReqs # {}
  <2>1. PICK i \in CtrlPorts : MhTakes(i)
    BY <1>1, <1>4 DEF MhMoves
  <2>2. ~mh.valid /\ ~miss_gnt(i, in) /\ ~mshr_addr_matches(i)
    BY <1>1, <1>4, GrantFacts DEF InvMshr, Serving, Refilling, Cleaning, ReqStates,
                                  mshr_addr_matches
  <2>3. CASE cc[i].state = "MAKE_UNIQUE"
    <3>1. i = STORE /\ cc'[i].state = "MAKE_UNIQUE" /\ cc'[i].addr = cc[i].addr
      BY <1>1, <2>2, <2>3 DEF CtrlMoves, InvMshr
    <3> QED BY <1>3, <2>1, <2>3, <3>1 DEF MhTakes, InvMshr, Serving, Cleaning, Refilling
  <2>4. CASE cc[i].state = "WAIT_REFILL_GNT"
    <3>1. cc'[i].state = "WAIT_REFILL_GNT" /\ cc'[i].addr = cc[i].addr
      BY <1>1, <2>2, <2>4 DEF CtrlMoves
    <3> QED BY <1>3, <2>1, <2>4, <3>1 DEF MhTakes, InvMshr, Serving, Cleaning, Refilling
  <2> QED BY <2>1, <2>3, <2>4 DEF MhTakes, MissReqs
<1>5. CASE ~(mh.state = "IDLE" /\ MissReqs # {})
  <2>0. MhKeeps /\ MhServes(in) /\ MhOthers(in)
    BY <1>1, <1>5 DEF MhMoves
  <2>1. mh'.valid <=> mh'.state \in Serving
    BY <1>2, <2>0 DEF MhKeeps, MhServes, MhOthers, InvMshr, InvAmo, Serving, Refilling, Cleaning,
                      MissStates, WbStates, ReqStates, ReqState
  <2>2. mh'.state \in Cleaning => mh'.make_unique
    BY <1>2, <2>0 DEF MhKeeps, MhServes, MhOthers, InvMshr, Cleaning,
                      MissStates, WbStates, ReqStates, ReqState
  <2>3. mh'.valid => mh.valid
    BY <1>2, <2>0 DEF MhKeeps, MhServes, InvMshr, Serving, Refilling, Cleaning
  <2>4. ASSUME mh'.valid, mh'.make_unique
        PROVE  mh'.id = STORE /\ cc'[STORE].state = "MAKE_UNIQUE" /\ cc'[STORE].addr = mh'.addr
    <3>1. mh.valid /\ mh.make_unique /\ mh'.id = mh.id /\ mh'.addr = mh.addr
      BY <2>0, <2>3, <2>4 DEF MhKeeps
    <3>2. ~miss_gnt(STORE, in)
      BY <1>1, <1>2, <2>0, <2>4, <3>1, GrantFacts DEF MhServes
    <3> QED BY <1>1, <1>2, <3>1, <3>2 DEF CtrlMoves, InvMshr
  <2>5. ASSUME mh'.valid, ~mh'.make_unique
        PROVE  /\ ~mh'.colliding_clean
               /\ mh'.state # "SAVE_CACHELINE" =>
                    cc'[mh'.id].state = "WAIT_REFILL_GNT" /\ cc'[mh'.id].addr = mh'.addr
    <3>1. mh.valid /\ ~mh.make_unique /\ mh'.id = mh.id /\ mh'.addr = mh.addr
      BY <2>0, <2>3, <2>5 DEF MhKeeps
    <3>2. ~mh.colliding_clean /\ ~Watch
      BY <3>1 DEF InvMshr, Watch
    <3>3. ~mh'.colliding_clean
      BY <1>2, <2>0, <3>2 DEF MhKeeps, MhServes, MhOthers, ReqStates
    <3>4. ASSUME mh'.state # "SAVE_CACHELINE"
          PROVE  cc'[mh'.id].state = "WAIT_REFILL_GNT" /\ cc'[mh'.id].addr = mh'.addr
      <4>1. mh.state # "SAVE_CACHELINE"
        BY <2>0, <2>5, <3>2, <3>4 DEF MhServes
      <4>2. ~miss_gnt(mh.id, in)
        BY <1>1, <1>2, <2>0, <3>1, <3>4, GrantFacts DEF MhServes
      <4>3. ~(mshr_addr_matches(mh.id) /\ ~active_serving(mh.id))
        BY DEF mshr_addr_matches, active_serving
      <4> QED BY <1>1, <1>2, <3>1, <4>1, <4>2, <4>3 DEF CtrlMoves, InvMshr
    <3> QED BY <3>3, <3>4
  <2> QED BY <1>3, <2>1, <2>2, <2>4, <2>5 DEF InvMshr
<1> QED BY <1>4, <1>5

\* The last beat arrives when its time has come.
LEMMA BeatFacts ==
  ASSUME TypeOK, InvAdapter, NEW in \in Inputs
  PROVE  /\ in.r = "last" => ccu.rlat = 0
         /\ ccu.rlat = 1 /\ ~ad.first /\ mh.state # "SEND_CLEAN" => in.r = "first"
<1>1. in.r \in Beats /\ 0 # 1 /\ None # 1
  BY InputFacts, DCacheAssumption
<1> QED BY <1>1 DEF Beats, InvAdapter

\* The miss handler stays where the adapter works for it.
LEMMA AdapterStepInv ==
  ASSUME TypeOK, InvMshr, InvAdapter, NEW in, Edge(in)
  PROVE  InvAdapter'
<1>1. in \in Inputs /\ MhMoves(in) /\ AdMoves(in) /\ CcuMoves(in)
  BY DEF Edge
<1>2. /\ mh.state \in MissStates /\ ad.state \in AdStates /\ ad.first \in BOOLEAN
      /\ ccu.rlat \in 0 .. RDelay + 1 \cup {None}
      /\ in.b \in BOOLEAN /\ in.ar_ready \in BOOLEAN /\ in.aw_ready \in BOOLEAN
  BY <1>1, InputFacts DEF TypeOK, CacheTypeOK
<1>3. RDelay \in Nat /\ None \notin Nat
  BY DCacheAssumption, SystemAssumption
<1>4. mh.state # "IDLE" => MhKeeps /\ MhServes(in) /\ MhOthers(in)
  BY <1>1 DEF MhMoves
<1>5. /\ in.r = "last" => ccu.rlat = 0
      /\ ccu.rlat = 1 /\ ~ad.first /\ mh.state # "SEND_CLEAN" => in.r = "first"
  BY <1>1, BeatFacts
<1>6. ad'.state = "WAIT_R" =>
        \/ ad.state = "IDLE" /\ AdReads /\ in.ar_ready
        \/ ad.state = "WAIT_R"
  BY <1>1, <1>2 DEF AdMoves, AdStates
<1>7. ad'.state \in {"WAIT_R", "COMPLETE_READ"} => mh'.state \in {"SAVE_CACHELINE", "SEND_CLEAN"}
  <2>1. CASE ad.state = "IDLE"
    <3>1. ad'.state \in {"WAIT_R", "COMPLETE_READ"} => AdReads /\ in.ar_ready
      BY <1>1, <2>1 DEF AdMoves
    <3>2. ~valid_miss_fsm(in)
      BY <2>1 DEF valid_miss_fsm
    <3>3. AdReads /\ in.ar_ready => mh.state \in ReqStates \cup {"SEND_CLEAN"} /\ mh.state # "IDLE"
      BY DEF AdReads, ReqStates
    <3> QED BY <1>4, <2>1, <3>1, <3>2, <3>3 DEF MhServes, gnt_miss_fsm
  <2>2. CASE ad.state = "WAIT_R"
    <3>1. ~valid_miss_fsm(in) /\ mh.state \in {"SAVE_CACHELINE", "SEND_CLEAN"}
      BY <2>2 DEF valid_miss_fsm, InvAdapter
    <3> QED BY <1>4, <3>1 DEF MhServes
  <2>3. CASE ad.state \in {"COMPLETE_READ", "WAIT_B"}
    BY <1>1, <1>2, <2>3 DEF AdMoves
  <2> QED BY <1>2, <2>1, <2>2, <2>3 DEF AdStates
<1>8. ad'.state = "WAIT_B" => mh'.state \in WbStates
  <2>1. ASSUME ad'.state = "WAIT_B"
        PROVE  mh.state \in WbStates /\ ~valid_miss_fsm(in)
    BY <1>1, <1>2, <2>1 DEF AdMoves, AdStates, AdWrites, InvAdapter, valid_miss_fsm
  <2>2. mh.state \in WbStates /\ ~valid_miss_fsm(in) => mh'.state \in WbStates
    BY <1>4 DEF MhServes, MhOthers, WbStates
  <2> QED BY <2>1, <2>2
<1>9. ad.state = "WAIT_R" /\ ccu.rlat # 0 =>
        /\ ad'.state = "WAIT_R" /\ ad'.first = (ad.first \/ in.r = "first")
        /\ mh'.state = mh.state
  <2>1. ad.state = "WAIT_R" => ~valid_miss_fsm(in) /\ mh.state \in {"SAVE_CACHELINE", "SEND_CLEAN"}
    BY DEF valid_miss_fsm, InvAdapter
  <2> QED BY <1>1, <1>4, <1>5, <2>1 DEF AdMoves, MhServes
<1>10. ccu'.state = "OWN" =>
         ad.state = "WAIT_R" /\ ccu.rlat = None /\ ccu'.rlat = None
  <2>1. ac_ready(in) \/ ~ac_ready(in)
    OBVIOUS
  <2> QED BY <1>1, <1>3, <2>1 DEF CcuMoves, InvAdapter, Lat
<1>11. ccu'.rlat # None =>
         \/ ccu.rlat \notin {None, 0} /\ ccu'.rlat = ccu.rlat - 1
         \/ ccu.state = "OWN" /\ ccu.rlat = None /\ ccu'.rlat \in 1 .. RDelay + 1
  BY <1>1, <1>3 DEF CcuMoves, InvAdapter, Lat
<1>12. ccu'.rlat # None => ad.state = "WAIT_R" /\ ccu.rlat # 0
  BY <1>3, <1>11 DEF InvAdapter
<1>13. ccu'.state = "OWN" \/ ccu'.rlat # None => ad'.state = "WAIT_R"
  BY <1>3, <1>9, <1>10, <1>12
<1>14. ccu'.rlat = 0 => ad'.first \/ mh'.state = "SEND_CLEAN"
  <2>1. ccu'.rlat = 0 => ccu.rlat = 1
    BY <1>2, <1>3, <1>11
  <2>2. ASSUME ccu'.rlat = 0, mh.state # "SEND_CLEAN" PROVE ad'.first
    <3>1. ad.state = "WAIT_R" /\ ccu.rlat # 0
      BY <1>3, <1>12, <2>2
    <3>2. ad.first \/ in.r = "first"
      BY <1>2, <1>5, <2>1, <2>2
    <3>3. ad'.first = (ad.first \/ in.r = "first")
      BY <1>9, <3>1
    <3> QED BY <3>2, <3>3, Zenon
  <2>3. ccu'.rlat = 0 => mh'.state = mh.state
    BY <1>3, <1>9, <1>12
  <2> QED BY <2>2, <2>3
<1> QED BY <1>7, <1>8, <1>10, <1>13, <1>14 DEF InvAdapter

\* The critical word of a controller that waits for it is still to come, and is its own.
LEMMA CriticalStepInv ==
  ASSUME TypeOK, InvMshr, InvAdapter, CriticalWordIsOwn, NEW in, Edge(in)
  PROVE  CriticalWordIsOwn'
<1>1. /\ in \in Inputs /\ MhMoves(in) /\ AdMoves(in)
      /\ \A i \in CtrlPorts : CtrlMoves(i, in, cc'[i])
  BY DEF Edge
<1>2. /\ mh.state \in MissStates /\ ad.state \in AdStates /\ ad.first \in BOOLEAN
      /\ ad.word \in 0..1 /\ mh.id \in CtrlPorts
      /\ mh.valid \in BOOLEAN /\ mh.make_unique \in BOOLEAN
  BY DEF TypeOK, CacheTypeOK
<1>3. SUFFICES ASSUME NEW i \in CtrlPorts, cc'[i].state = "WAIT_CRITICAL_WORD"
               PROVE  /\ mh'.valid /\ mh'.id = i /\ mh'.addr = cc'[i].addr
                      /\ ad'.state = "WAIT_R" /\ ~(ad'.word = 0 /\ ad'.first)
  BY DEF CriticalWordIsOwn
<1>4. mh.state # "IDLE" => MhKeeps /\ MhServes(in)
  BY <1>1 DEF MhMoves
<1>5. CASE cc[i].state = "WAIT_CRITICAL_WORD" /\ ~critical_word_valid(in)
  <2>1. /\ mh.valid /\ mh.id = i /\ mh.addr = cc[i].addr
        /\ ad.state = "WAIT_R" /\ ~(ad.word = 0 /\ ad.first)
    BY <1>5 DEF CriticalWordIsOwn
  <2>2. mh.state = "SAVE_CACHELINE"
    <3>1. mh.state = "SEND_CLEAN" => cc[mh.id].state = "MAKE_UNIQUE"
      BY <2>1 DEF InvMshr, Cleaning
    <3> QED BY <1>5, <2>1, <3>1 DEF InvAdapter
  <2>3. in.r # "last"
    <3>1. in.r = "last" => ad.first
      BY <1>1, <2>2, BeatFacts DEF InvAdapter
    <3> QED BY <1>2, <1>5, <2>1, <3>1 DEF critical_word_valid
  <2>4. ~(ad.word = 0 /\ in.r = "first")
    BY <1>5, <2>1 DEF critical_word_valid
  <2>5. ad'.state = "WAIT_R" /\ ad'.word = ad.word /\ ad'.first = (ad.first \/ in.r = "first")
    BY <1>1, <2>1, <2>3 DEF AdMoves
  <2>6. ~valid_miss_fsm(in)
    BY <2>1 DEF valid_miss_fsm
  <2>7. mh'.valid = mh.valid /\ mh'.id = mh.id /\ mh'.addr = mh.addr
    BY <1>4, <2>2, <2>6 DEF MhKeeps, MhServes
  <2>8. cc'[i].addr = cc[i].addr
    BY <1>1, <1>3 DEF CtrlMoves
  <2>9. ~(ad'.word = 0 /\ ad'.first)
    BY <2>1, <2>4, <2>5
  <2> QED BY <2>1, <2>5, <2>7, <2>8, <2>9
<1>6. CASE cc[i].state = "WAIT_REFILL_GNT" /\ miss_gnt(i, in) /\ i # STORE
  <2>1. i = mh.id /\ mh.valid /\ mh.state \in ReqStates /\ gnt_miss_fsm(in) /\ ~mh.make_unique
    BY <1>1, <1>6, GrantFacts DEF InvMshr
  <2>2. mh.addr = cc[i].addr
    BY <2>1 DEF InvMshr, ReqStates
  <2>3. ad'.state = "WAIT_R" /\ ~ad'.first
    BY <1>1, <2>1 DEF AdMoves, gnt_miss_fsm, AdReads
  <2>4. mh'.valid = mh.valid /\ mh'.id = mh.id /\ mh'.addr = mh.addr
    BY <1>4, <2>1 DEF MhKeeps, ReqStates
  <2>5. cc'[i].addr = cc[i].addr
    BY <1>1, <1>3 DEF CtrlMoves
  <2> QED BY <2>1, <2>2, <2>3, <2>4, <2>5
<1> QED BY <1>1, <1>3, <1>5, <1>6 DEF CtrlMoves

\* Only a refill brings a line in; a store keeps the tag of the way it writes.
LEMMA LineFates ==
  ASSUME TypeOK, NEW in, SramStep(in), NEW s \in Sets, NEW w \in Ways
  PROVE  \/ sram'[s][w].tag = sram[s][w].tag /\ (sram'[s][w].valid => sram[s][w].valid)
         \/ RefillWrites(in) /\ s = Index(mh.addr) /\ w = mh.way /\ sram'[s][w].tag = mh.addr
         \/ /\ StoreWrites(in) /\ s = Index(cc[STORE].addr) /\ w = cc[STORE].way
            /\ sram'[s][w].tag = sram[s][w].tag
<1>1. LineStep(in, s, w)
  BY SramLines
<1>2. sram[s][w] \in Lines
  BY DEF TypeOK, CacheTypeOK
<1> QED BY <1>1, <1>2, LineTypes DEF LineStep

\* Neither a refill nor a store is under way during a flush or the initialisation.
LEMMA NothingArrives ==
  ASSUME TypeOK, InvFlush, NEW in, SramStep(in), flushing \/ mh.state = "INIT",
         NEW s \in Sets, Empty(s)
  PROVE  Empty(s)'
<1>1. ~RefillWrites(in) /\ ~StoreWrites(in)
  BY DEF RefillWrites, StoreWrites, updating_cache, InvFlush, flushing, STORE, CtrlPorts
<1>2. \A w \in Ways : sram'[s][w].valid => sram[s][w].valid
  BY <1>1, LineFates
<1> QED BY <1>2 DEF Empty

\* Initialisation, and the last visit of a flush to a set, clear it.
LEMMA SetCleared ==
  ASSUME TypeOK, NEW in, SramStep(in),
         mh.state = "INIT" \/ (mh.state = "FLUSHING" /\ DirtyWays(mh.cnt) = {})
  PROVE  \A w \in Ways : ~sram'[mh.cnt][w].valid
<1>0. sram \in [Sets -> [Ways -> Lines]] /\ mh.cnt \in Sets
  BY DEF TypeOK, CacheTypeOK
<1>1. MhWrites(in)
  BY DEF MhWrites
<1>2. sram' = [sram EXCEPT ![mh.cnt] = [w \in Ways |-> Invalid(sram[mh.cnt][w])]]
  BY <1>1 DEF SramStep, MhWritten, WbStates
<1>3. sram'[mh.cnt] = [w \in Ways |-> Invalid(sram[mh.cnt][w])]
  BY <1>0, <1>2
<1> QED BY <1>0, <1>3, LineTypes

\* The controllers stay idle during a flush, and set after set is emptied.
LEMMA FlushStepInv ==
  ASSUME TypeOK, InvMshr, InvFlush, NEW in, Edge(in), SramStep(in), TypeOK'
  PROVE  InvFlush'
<1>1. /\ in \in Inputs /\ MhMoves(in) /\ CoreMoves(in)
      /\ \A i \in CtrlPorts : CtrlMoves(i, in, cc'[i])
  BY DEF Edge
<1>2. in.flush = core.flush
  BY <1>1, InputFacts
<1>3. mh.state \in MissStates /\ core.flush \in BOOLEAN /\ mh.cnt \in Sets
  BY DEF TypeOK, CacheTypeOK
<1>4. flushing' \/ mh'.state = "INIT" =>
        \/ mh.state = "INIT" /\ mh'.state = "INIT"
        \/ flushing /\ core.flush /\ ~FlushAck /\ mh'.state # "INIT"
        \/ /\ mh.state = "IDLE" /\ ~busy /\ in.flush /\ mh'.cnt = 0
           /\ mh'.state = "FLUSH_REQ_STATUS"
  <2>1. CASE mh.state = "IDLE" /\ MissReqs # {}
    BY <1>1, <2>1 DEF MhMoves, MhTakes, flushing
  <2>2. CASE ~(mh.state = "IDLE" /\ MissReqs # {})
    <3>1. MhKeeps /\ MhServes(in) /\ MhOthers(in)
      BY <1>1, <2>2 DEF MhMoves
    <3> QED BY <1>3, <3>1 DEF MhServes, MhOthers, flushing, FlushAck, InvFlush, MissStates,
                              WbStates, ReqStates, ReqState
  <2> QED BY <2>1, <2>2
<1>5. flushing' => core'.flush
  <2>1. mh.state = "IDLE" => ~FlushAck
    BY DEF FlushAck
  <2>2. flushing' => mh'.state # "INIT"
    BY DEF flushing
  <2> QED BY <1>1, <1>2, <1>4, <2>1, <2>2 DEF CoreMoves
<1>6. ASSUME flushing' \/ mh'.state = "INIT", NEW i \in CtrlPorts
      PROVE  cc'[i].state = "IDLE"
  <2>1. cc[i].state = "IDLE"
    BY <1>4, <1>6 DEF InvFlush, busy
  <2>2. mh.state = "INIT" => ~CtrlGnt(i, in)
    BY DEF CtrlGnt, MhReq, MhWrites
  <2>3. core.flush => ~NewReq(i, in)
    BY <1>2 DEF NewReq
  <2> QED BY <1>1, <1>2, <1>4, <1>6, <2>1, <2>2, <2>3 DEF CtrlMoves
<1>7. ASSUME flushing' \/ mh'.state = "INIT", NEW s \in Sets, s < mh'.cnt
      PROVE  Empty(s)'
  <2>1. mh'.cnt # 0 /\ s \in Nat
    BY <1>7 DEF Sets
  <2>2. flushing \/ mh.state = "INIT"
    BY <1>4, <1>7, <2>1
  <2>3. MhKeeps /\ MhOthers(in)
    BY <1>1, <2>2 DEF MhMoves, flushing
  <2>4. CASE mh'.cnt = mh.cnt
    BY <1>7, <2>2, <2>4, NothingArrives DEF InvFlush
  <2>5. CASE mh'.cnt # mh.cnt
    <3>1. /\ mh'.cnt = NextSet
          /\ mh.state = "INIT" \/ (mh.state = "FLUSHING" /\ DirtyWays(mh.cnt) = {})
      BY <2>2, <2>3, <2>5 DEF MhKeeps, MhOthers, flushing
    <3>2. mh'.cnt = mh.cnt + 1
      <4>1. mh.cnt \in Nat /\ mh.cnt < NumSets /\ NumSets \in Nat \ {0}
        BY <1>3, DCacheAssumption DEF Sets
      <4>2. mh.cnt + 1 < NumSets => (mh.cnt + 1) % NumSets = mh.cnt + 1
        BY <4>1
      <4>3. mh.cnt + 1 = NumSets => (mh.cnt + 1) % NumSets = 0
        BY <4>1
      <4> QED BY <2>1, <3>1, <4>1, <4>2, <4>3 DEF NextSet
    <3>3. s < mh.cnt \/ s = mh.cnt
      BY <1>3, <1>7, <2>1, <3>2 DEF Sets
    <3>4. CASE s < mh.cnt
      BY <2>2, <3>4, NothingArrives DEF InvFlush
    <3>5. CASE s = mh.cnt
      BY <3>1, <3>5, SetCleared DEF Empty
    <3> QED BY <3>3, <3>4, <3>5
  <2> QED BY <2>4, <2>5
<1> QED BY <1>5, <1>6, <1>7 DEF InvFlush
-----------------------------------------------------------------------------
(***************************************************************************)
(* The theorems of the control.                                            *)
(***************************************************************************)
\* The invariant holds after reset.
LEMMA InitControl == Init => ControlInv
<1> SUFFICES ASSUME Init PROVE ControlInv
  OBVIOUS
<1> USE DEF Init, CacheInit
<1>1. 0 \in Addr /\ 0 \in Val /\ 0 \in Sets /\ 0 \in CtrlPorts /\ 0 \in 0..1
  BY DCacheAssumption DEF Addr, Val, Sets, CtrlPorts
<1>2. NoCr \in CrResps /\ NoResp \in Resp /\ Nowhere \in Held
  BY <1>1 DEF NoCr, CrResps, NoResp, Resp, Nowhere, Held
<1>3. sram \in [Sets -> [Ways -> Lines]]
  BY DEF PowerUp
<1>4. snp \in SnpType
  BY <1>1, <1>2 DEF SnpType, SnpStates
<1>5. cc \in [CtrlPorts -> CtrlType]
  BY <1>1 DEF CtrlType, CtrlStates
<1>6. mh \in MhType
  BY <1>1 DEF MhType, MissStates
<1>7. ad \in AdType
  BY <1>1 DEF AdType, AdStates
<1>8. ccu \in CcuType
  BY <1>1, <1>2 DEF CcuType
<1>9. TypeOK
  BY <1>1, <1>2, <1>3, <1>4, <1>5, <1>6, <1>7, <1>8
     DEF TypeOK, CacheTypeOK, SnpType, CtrlType, MhType, AdType, CcuType
<1>10. InvSnoop /\ InvAmo
  BY DEF InvSnoop, InvAmo, AmoStates
<1>11. InvMshr
  BY DEF InvMshr, Serving, Refilling, Cleaning, ReqStates
<1>12. InvAdapter
  BY DCacheAssumption DEF InvAdapter
<1>13. CriticalWordIsOwn
  BY DEF CriticalWordIsOwn
<1>14. InvFlush
  BY DEF InvFlush, flushing, Sets
<1> QED BY <1>9, <1>10, <1>11, <1>12, <1>13, <1>14 DEF ControlInv

\* A clock edge preserves it.
LEMMA NextControl == ControlInv /\ [Next]_vars => ControlInv'
<1> SUFFICES ASSUME ControlInv, [Next]_vars PROVE ControlInv'
  OBVIOUS
<1>1. CASE Next
  <2>1. PICK in \in Inputs : CacheStep(in) /\ CoreStep(in) /\ EnvStep(in)
    BY <1>1 DEF Next
  <2>2. TypeOK' /\ Edge(in) /\ SramStep(in)
    BY <2>1, EdgeFacts DEF ControlInv, CacheStep
  <2>3. InvSnoop' /\ InvAmo' /\ InvMshr' /\ InvAdapter' /\ CriticalWordIsOwn' /\ InvFlush'
    BY <2>2, SnoopStepInv, AmoStepInv, MshrStepInv, AdapterStepInv, CriticalStepInv, FlushStepInv
       DEF ControlInv
  <2> QED BY <2>2, <2>3 DEF ControlInv
<1>2. CASE UNCHANGED vars
  BY <1>2 DEF vars, cacheVars, envVars, ControlInv, TypeOK, CacheTypeOK, InvSnoop, InvAmo, InvMshr,
     InvAdapter, CriticalWordIsOwn, InvFlush, flushing, Empty
<1> QED BY <1>1, <1>2

\* The state machines of the cache and its environment stay in step: the inductive
\* invariant of the control.
THEOREM ControlHolds == Spec => []ControlInv
BY InitControl, NextControl, PTL DEF Spec

\* Every register of the cache keeps its type, whatever the core, the coherence unit and
\* the other caches do.
THEOREM DataCacheTypeCorrect == Spec => []TypeOK
<1>1. ControlInv => TypeOK
  BY DEF ControlInv
<1> QED BY <1>1, ControlHolds, PTL

\* A controller in WAIT_CRITICAL_WORD gets the word of its own line: the miss handler
\* cannot have gone on to another request, and the word cannot have passed unseen.
THEOREM CriticalWordHolds == Spec => []CriticalWordIsOwn
<1>1. ControlInv => CriticalWordIsOwn
  BY DEF ControlInv
<1> QED BY <1>1, ControlHolds, PTL

\* flush_ack_o is given only when the last set has been emptied and no set has been
\* filled again in the meantime.
THEOREM FlushEmptiesHolds == Spec => FlushEmpties
<1>1. ASSUME ControlInv, [Next]_vars, ~UNCHANGED vars, core.flush, ~core'.flush
      PROVE  \A a \in Addr : HitWays(a)' = {}
  <2>1. PICK in \in Inputs : CacheStep(in) /\ CoreStep(in) /\ EnvStep(in)
    BY <1>1 DEF Next
  <2>2. Edge(in) /\ SramStep(in) /\ CoreMoves(in)
    BY <1>1, <2>1, EdgeFacts DEF ControlInv, CacheStep, Edge
  <2>3. FlushAck
    BY <1>1, <2>2 DEF CoreMoves
  <2>4. ASSUME NEW s \in Sets PROVE Empty(s)'
    <3>1. s < mh.cnt \/ s = mh.cnt
      BY <2>3, DCacheAssumption DEF FlushAck, Sets
    <3>2. CASE s < mh.cnt
      <4>1. flushing /\ TypeOK /\ InvFlush
        BY <1>1, <2>3 DEF FlushAck, flushing, ControlInv
      <4>2. Empty(s)
        BY <3>2, <4>1 DEF InvFlush
      <4> QED BY <2>2, <4>1, <4>2, NothingArrives
    <3>3. CASE s = mh.cnt
      BY <1>1, <2>2, <2>3, <3>3, SetCleared DEF Empty, FlushAck, ControlInv
    <3> QED BY <3>1, <3>2, <3>3
  <2> QED BY <2>4, IndexType DEF HitWays, Empty
<1>2. ControlInv /\ [Next]_vars =>
        [core.flush /\ ~core'.flush => \A a \in Addr : HitWays(a)' = {}]_vars
  BY <1>1
<1> QED BY <1>2, ControlHolds, PTL DEF Spec, FlushEmpties
-----------------------------------------------------------------------------
(***************************************************************************)
(* Lines.  As long as a store writes the way that holds its line, only a   *)
(* refill adds a way to those that hold a line.                            *)
(***************************************************************************)
\* The ways that hold a line after an edge.
LEMMA HitsStep ==
  ASSUME TypeOK, StoreHits, NEW in, SramStep(in), NEW a \in Addr
  PROVE  /\ \A w \in HitWays(a)' : w \in HitWays(a) \/ (RefillWrites(in) /\ mh.addr = a /\ w = mh.way)
         /\ ~(RefillWrites(in) /\ mh.addr = a) /\ HitWays(a) = {} => HitWays(a)' = {}
<1>0. Index(a) \in Sets
  BY IndexType
<1>1. ASSUME NEW w \in HitWays(a)'
      PROVE  w \in HitWays(a) \/ (RefillWrites(in) /\ mh.addr = a /\ w = mh.way)
  <2>1. w \in Ways /\ sram'[Index(a)][w].valid /\ sram'[Index(a)][w].tag = a
    BY <1>1 DEF HitWays, Index
  <2>2. StoreWrites(in) => sram[Index(cc[STORE].addr)][cc[STORE].way].valid
    BY DEF StoreWrites, StoreHits, HitWays
  <2>3. \/ sram'[Index(a)][w].tag = sram[Index(a)][w].tag
           /\ (sram'[Index(a)][w].valid => sram[Index(a)][w].valid)
        \/ RefillWrites(in) /\ w = mh.way /\ sram'[Index(a)][w].tag = mh.addr
        \/ /\ StoreWrites(in) /\ Index(a) = Index(cc[STORE].addr) /\ w = cc[STORE].way
           /\ sram'[Index(a)][w].tag = sram[Index(a)][w].tag
    BY <1>0, <2>1, LineFates
  <2> QED BY <2>1, <2>2, <2>3 DEF HitWays
<1> QED BY <1>1

\* A snoop that finds the only copy removes it.
LEMMA SnoopRemoves ==
  ASSUME TypeOK, InvFound, NEW in, SramStep(in), NEW x \in Addr, invalidate(x), SnpGnt(in)
  PROVE  HitWays(x)' = {}
<1>0. /\ sram \in [Sets -> [Ways -> Lines]] /\ snp.state = "INVALIDATE" /\ snp.addr = x
      /\ Index(x) \in Sets
  BY IndexType DEF TypeOK, CacheTypeOK, invalidate
<1> DEFINE a == Index(x)
           b == snp.way
<1>1. sram' = Put(a, b, Invalid(sram[a][b]))
  BY <1>0 DEF SramStep, Put, SnpGnt, MhReq
<1>2. \A w \in Ways : sram'[a][w] = IF w = b THEN Invalid(sram[a][b]) ELSE sram[a][w]
  <2>1. a \in Sets
    BY <1>0
  <2> HIDE DEF a, b
  <2> QED BY <1>0, <1>1, <2>1, PutAt
<1>3. ASSUME NEW w \in Ways, sram'[a][w].valid, sram'[a][w].tag = x PROVE FALSE
  <2>1. CASE w = b
    BY <1>0, <1>2, <1>3, <2>1, LineTypes
  <2>2. CASE w # b
    BY <1>0, <1>2, <1>3, <2>2 DEF InvFound, HitWays
  <2> QED BY <2>1, <2>2
<1> QED BY <1>3 DEF HitWays, Index

\* The edge of an invalidation, or none: what a snoop can be about to remove.
LEMMA NextInvalidate ==
  ASSUME TypeOK, NEW in, SnpMoves(in), NEW a \in Addr, HitWays(a) = {},
         invalidate(a) => SnpGnt(in)
  PROVE  ~invalidate(a)'
<1>1. SUFFICES ASSUME snp'.state = "INVALIDATE", snp'.addr = a PROVE FALSE
  BY DEF invalidate
<1> QED BY <1>1 DEF SnpMoves, invalidate

\* The miss handler leaves the SRAM alone in these states.
LEMMA PortFree ==
  ASSUME NEW in, mh.state \in {"IDLE", "CHECK_BEFORE_CLEAN", "SEND_CLEAN"}
  PROVE  SnpGnt(in) /\ ~RefillWrites(in)
BY DEF SnpGnt, MhReq, MhReads, MhWrites, WbStates, RefillWrites

\* No line gets a second way.
LEMMA RowsStepInv ==
  ASSUME TypeOK, InvFlush, StoreHits, InvRows, InvAbsent, NEW in, Edge(in), SramStep(in)
  PROVE  InvRows'
<1>0. SUFFICES ASSUME mh'.state # "INIT", NEW s \in Sets, NEW v \in Ways, NEW w \in Ways,
                      sram'[s][v].valid, sram'[s][w].valid, sram'[s][v].tag = sram'[s][w].tag
               PROVE  v = w
  BY DEF InvRows, Running
<1>1. CASE mh.state = "INIT"
  <2>1. MhMoves(in) /\ mh.cnt = NumSets - 1
    BY <1>0, <1>1 DEF Edge, MhMoves, MhOthers
  <2>2. s < mh.cnt \/ s = mh.cnt
    BY <2>1, DCacheAssumption DEF Sets
  <2>3. CASE s < mh.cnt
    <3>1. Empty(s)'
      BY <1>1, <2>3, NothingArrives DEF InvFlush
    <3> QED BY <1>0, <3>1 DEF Empty
  <2>4. CASE s = mh.cnt
    BY <1>0, <1>1, <2>4, SetCleared
  <2> QED BY <2>2, <2>3, <2>4
<1>2. CASE mh.state # "INIT"
  <2>1. StoreWrites(in) => sram[Index(cc[STORE].addr)][cc[STORE].way].valid
    BY DEF StoreWrites, StoreHits, HitWays
  <2>2. RefillWrites(in) => HitWays(mh.addr) = {}
    BY DEF RefillWrites, InvAbsent, Refilling
  <2> DEFINE Kept(x) == sram[s][x].valid /\ sram'[s][x].tag = sram[s][x].tag
             New(x)  == /\ RefillWrites(in) /\ s = Index(mh.addr) /\ x = mh.way
                        /\ sram'[s][x].tag = mh.addr
  <2>3. ASSUME NEW x \in Ways, sram'[s][x].valid PROVE Kept(x) \/ New(x)
    BY <2>1, <2>3, LineFates
  <2>4. ASSUME NEW x \in Ways, Kept(x), NEW y, New(y), sram'[s][x].tag = sram'[s][y].tag
        PROVE  FALSE
    BY <2>2, <2>4 DEF HitWays
  <2>5. CASE Kept(v) /\ Kept(w)
    BY <1>0, <1>2, <2>5 DEF InvRows, Running
  <2>6. CASE New(v) /\ New(w)
    BY <2>6
  <2> HIDE DEF Kept, New
  <2> QED BY <1>0, <2>3, <2>4, <2>5, <2>6
<1> QED BY <1>1, <1>2

\* A line that is being refilled stays out of the cache until it comes.
LEMMA AbsentStepInv ==
  ASSUME TypeOK, InvMshr, StoreHits, InvAbsent, InvWaiting, InvCollided,
         NEW in, Edge(in), SramStep(in), TypeOK'
  PROVE  InvAbsent'
<1>0. SUFFICES ASSUME mh'.state \in Refilling
               PROVE  /\ HitWays(mh.addr)' = {}
                      /\ ~invalidate(mh.addr)'
                      /\ mh'.colliding_clean => mh'.state \notin {"REQ_CACHELINE", "SAVE_CACHELINE"}
  BY DEF InvAbsent
<1>1. /\ in \in Inputs /\ MhMoves(in) /\ SnpMoves(in)
      /\ mh.state \in MissStates /\ mh'.addr \in Addr /\ mh.addr \in Addr
      /\ mh.colliding_clean \in BOOLEAN
  BY DEF Edge, TypeOK, CacheTypeOK
<1>2. PICK a \in Addr : a = mh'.addr
  BY <1>1
<1>3. CASE mh.state = "IDLE"
  <2>1. MissReqs # {}
    BY <1>0, <1>1, <1>3 DEF MhMoves, MhOthers, Refilling, ReqStates
  <2>2. PICK i \in CtrlPorts : MhTakes(i)
    BY <1>1, <1>3, <2>1 DEF MhMoves
  <2>3. cc[i].state = "WAIT_REFILL_GNT" /\ cc[i].addr = a /\ ~mh'.colliding_clean
    BY <1>0, <1>2, <2>2 DEF MhTakes, MissReqs, Refilling, ReqStates
  <2>4. ~mh.valid
    BY <1>3 DEF InvMshr, Serving, Refilling, Cleaning, ReqStates
  <2>5. HitWays(a) = {}
    BY <2>3, <2>4 DEF InvWaiting, mshr_addr_matches
  <2>6. SnpGnt(in) /\ ~RefillWrites(in)
    BY <1>3, PortFree
  <2>7. HitWays(a)' = {} /\ ~invalidate(a)'
    BY <1>1, <2>5, <2>6, HitsStep, NextInvalidate
  <2> QED BY <1>2, <2>3, <2>7 DEF HitWays, invalidate
<1>4. CASE mh.state # "IDLE"
  <2>0. MhKeeps /\ MhServes(in) /\ MhOthers(in)
    BY <1>1, <1>4 DEF MhMoves
  <2>1. mh.addr = a
    BY <1>2, <2>0 DEF MhKeeps
  <2>2. CASE mh.state \in Cleaning
    <3>1. /\ mh.state \in {"CHECK_BEFORE_CLEAN", "SEND_CLEAN"} /\ mh'.state = "MISS"
          /\ mh.state = "CHECK_BEFORE_CLEAN" => HitWays(mh.addr) = {}
          /\ mh.state = "SEND_CLEAN" => mh.colliding_clean
      BY <1>0, <2>0, <2>2 DEF MhServes, Cleaning, Refilling, ReqStates
    <3>2. HitWays(a) = {}
      BY <2>1, <2>2, <3>1 DEF InvCollided
    <3>3. SnpGnt(in) /\ ~RefillWrites(in)
      BY <3>1, PortFree
    <3>4. HitWays(a)' = {} /\ ~invalidate(a)'
      BY <1>1, <3>2, <3>3, HitsStep, NextInvalidate
    <3> QED BY <1>2, <3>1, <3>4 DEF HitWays, invalidate
  <2>3. CASE mh.state \in Refilling
    <3>1. /\ HitWays(a) = {} /\ ~invalidate(a)
          /\ mh.colliding_clean => mh.state \notin {"REQ_CACHELINE", "SAVE_CACHELINE"}
      BY <2>1, <2>3 DEF InvAbsent
    <3>2. Watch = mh.colliding_clean
      BY <1>1, <2>1, <3>1 DEF Watch
    <3>3. ~RefillWrites(in)
      BY <1>0, <2>0, <3>1 DEF RefillWrites, MhServes, Refilling, ReqStates
    <3>4. HitWays(a)' = {} /\ ~invalidate(a)'
      BY <1>1, <3>1, <3>3, HitsStep, NextInvalidate
    <3>5. mh'.colliding_clean => mh'.state \notin {"REQ_CACHELINE", "SAVE_CACHELINE"}
      BY <1>1, <2>0, <2>3, <3>1, <3>2 DEF MhKeeps, MhServes, Refilling, ReqStates, ReqState
    <3> QED BY <1>2, <3>4, <3>5 DEF HitWays, invalidate
  <2>4. mh.state \in Cleaning \cup Refilling
    BY <1>0, <1>1, <1>4, <2>0 DEF MhOthers, MissStates, Cleaning, Refilling, ReqStates, WbStates
  <2> QED BY <2>2, <2>3, <2>4
<1> QED BY <1>3, <1>4

\* The line a controller waits for comes only for that controller, or for another one of
\* which it then hears.
LEMMA WaitingStepInv ==
  ASSUME TypeOK, InvMshr, StoreHits, InvWaiting, NEW in, Edge(in), SramStep(in), TypeOK'
  PROVE  InvWaiting'
<1>0. SUFFICES ASSUME NEW i \in CtrlPorts, cc'[i].state = "WAIT_REFILL_GNT"
               PROVE  /\ HitWays(cc[i].addr)' = {}
                      /\ mh'.state = "SAVE_CACHELINE" /\ mh'.id = i => mh'.addr # cc'[i].addr
  BY DEF InvWaiting
<1>1. /\ in \in Inputs /\ MhMoves(in) /\ CtrlMoves(i, in, cc'[i])
      /\ mh.state \in MissStates /\ cc[i].addr \in Addr
  BY DEF Edge, TypeOK, CacheTypeOK
<1>2. PICK a \in Addr : a = cc[i].addr
  BY <1>1
<1>3. cc'[i].addr = a
  BY <1>0, <1>1, <1>2 DEF CtrlMoves
<1>4. mh.state = "SAVE_CACHELINE" => mh.valid
  BY DEF InvMshr, Serving, Refilling
<1>5. \/ /\ cc[i].state = "WAIT_REFILL_GNT" /\ ~miss_gnt(i, in)
         /\ ~(mshr_addr_matches(i) /\ ~active_serving(i))
      \/ ~mshr_addr_matches(i) /\ HitWays(a) = {}
  BY <1>0, <1>1, <1>2 DEF CtrlMoves
<1>6. HitWays(a) = {}
  BY <1>2, <1>5 DEF InvWaiting
<1>7. mh.state = "SAVE_CACHELINE" => mh.addr # a
  BY <1>2, <1>4, <1>5 DEF mshr_addr_matches, active_serving, InvWaiting
<1>8. HitWays(a)' = {}
  BY <1>6, <1>7, HitsStep DEF RefillWrites
<1>9. ASSUME mh'.state = "SAVE_CACHELINE", mh'.id = i PROVE mh'.addr # a
  <2>1. mh.state # "IDLE"
    BY <1>1, <1>9 DEF MhMoves, MhTakes, MhOthers
  <2>2. MhKeeps /\ MhServes(in) /\ MhOthers(in)
    BY <1>1, <2>1 DEF MhMoves
  <2>3. mh'.id = mh.id /\ mh'.addr = mh.addr
    BY <2>2 DEF MhKeeps
  <2>4. mh.state \in {"SAVE_CACHELINE"} \cup ReqStates
    BY <1>1, <1>9, <2>2 DEF MhServes, MhOthers, MissStates, ReqStates, WbStates, ReqState
  <2>5. CASE mh.state \in ReqStates
    <3>1. gnt_miss_fsm(in) /\ mh.valid /\ mh.id = i
      BY <1>9, <2>2, <2>3, <2>5 DEF MhServes, InvMshr, Serving, Refilling, ReqStates
    <3>2. CASE mh.make_unique
      <4>1. i = STORE /\ cc[i].state = "MAKE_UNIQUE"
        BY <3>1, <3>2 DEF InvMshr
      <4>2. ~miss_gnt(i, in)
        BY <2>5, <3>2 DEF miss_gnt, miss_write_done, ReqStates
      <4> QED BY <1>0, <1>1, <4>1, <4>2 DEF CtrlMoves
    <3>3. CASE ~mh.make_unique
      <4>1. miss_gnt(i, in) /\ cc[i].state = "WAIT_REFILL_GNT"
        BY <2>5, <3>1, <3>3 DEF miss_gnt, InvMshr, ReqStates
      <4>2. active_serving(i)
        BY <3>1 DEF active_serving
      <4> QED BY <1>0, <1>1, <4>1, <4>2 DEF CtrlMoves
    <3> QED BY <3>2, <3>3
  <2>6. CASE mh.state = "SAVE_CACHELINE"
    BY <1>7, <2>3, <2>6
  <2> QED BY <2>4, <2>5, <2>6
<1>10. cc'[i].addr = a /\ HitWays(a)' = {} => HitWays(cc[i].addr)' = {}
  BY DEF HitWays
<1> QED BY <1>3, <1>8, <1>9, <1>10

\* A snoop that found a line found it in the only way that holds it.
LEMMA FoundStepInv ==
  ASSUME TypeOK, InvSnoop, StoreHits, InvRows, InvAbsent, InvFound,
         NEW in, Edge(in), SramStep(in), TypeOK'
  PROVE  InvFound'
<1>1. /\ in \in Inputs /\ SnpMoves(in) /\ MhMoves(in) /\ snp'.addr \in Addr
      /\ mh.state \in MissStates
  BY DEF Edge, TypeOK, CacheTypeOK
<1>2. ASSUME snp'.state = "INVALIDATE" PROVE HitWays(snp.addr)' \subseteq {snp'.way}
  <2>1. PICK a \in Addr : a = snp'.addr
    BY <1>1
  <2>2. snp.addr = a
    BY <1>1, <1>2, <2>1 DEF SnpMoves
  <2>3. ~(RefillWrites(in) /\ mh.addr = a)
    <3>1. RefillWrites(in) => HitWays(mh.addr) = {} /\ ~invalidate(mh.addr)
      BY DEF RefillWrites, InvAbsent, Refilling
    <3> QED BY <1>1, <1>2, <2>2, <3>1 DEF SnpMoves, invalidate
  <2>4. HitWays(a) \subseteq {snp'.way}
    <3>1. CASE snp.state = "INVALIDATE" /\ snp'.way = snp.way
      BY <2>2, <3>1 DEF InvFound
    <3>2. CASE snp.state = "EVAL_FLAGS" /\ HitWays(snp.addr) # {} /\ snp'.way = HitWay(snp.addr)
      <4>1. snp'.way \in HitWays(a) /\ Index(a) \in Sets
        BY <2>2, <3>2, HitWayType, IndexType
      <4>2. Running
        BY <3>2 DEF Running, InvFound
      <4>3. ASSUME NEW w \in HitWays(a) PROVE w = snp'.way
        BY <4>1, <4>2 DEF InvRows, HitWays
      <4> QED BY <4>3
    <3> QED BY <1>1, <1>2, <3>1, <3>2 DEF SnpMoves
  <2>5. HitWays(a)' \subseteq HitWays(a)
    BY <2>3, HitsStep
  <2>6. \A x \in HitWays(a)' : x = snp'.way
    BY <2>4, <2>5
  <2>7. HitWays(snp.addr)' = HitWays(a)'
    BY <2>1 DEF HitWays
  <2> QED BY <2>6, <2>7
<1>3. ASSUME mh'.state = "INIT" PROVE snp'.state \in {"IDLE", "WAIT_GNT"}
  <2>1. mh.state = "INIT"
    <3>1. CASE mh.state = "IDLE" /\ MissReqs # {}
      BY <1>1, <1>3, <3>1 DEF MhMoves, MhTakes
    <3>2. CASE ~(mh.state = "IDLE" /\ MissReqs # {})
      <4>1. MhServes(in) /\ MhOthers(in)
        BY <1>1, <3>2 DEF MhMoves
      <4> QED BY <1>1, <1>3, <4>1 DEF MhServes, MhOthers, MissStates, WbStates, ReqStates, ReqState
    <3> QED BY <3>1, <3>2
  <2>2. ~SnpGnt(in)
    BY <2>1 DEF SnpGnt, MhReq, MhWrites
  <2> QED BY <1>1, <2>1, <2>2 DEF SnpMoves, InvFound
<1> QED BY <1>2, <1>3 DEF InvFound

\* An invalidation that overtakes a CleanUnique takes the line away before the miss handler
\* acts on it.
LEMMA CollidedStepInv ==
  ASSUME TypeOK, InvMshr, StoreHits, InvFound, InvCollided,
         NEW in, Edge(in), SramStep(in), TypeOK'
  PROVE  InvCollided'
<1>0. SUFFICES ASSUME mh'.state \in Cleaning, mh'.colliding_clean
               PROVE  /\ mh'.state # "REQ_BEFORE_CLEAN"
                      /\ \/ HitWays(mh.addr)' = {}
                         \/ mh'.state = "CHECK_BEFORE_CLEAN" /\ invalidate(mh.addr)'
  BY DEF InvCollided
<1>1. /\ in \in Inputs /\ SnpMoves(in) /\ MhMoves(in) /\ mh.addr \in Addr
      /\ mh.state \in MissStates /\ mh.colliding_clean \in BOOLEAN
  BY DEF Edge, TypeOK, CacheTypeOK
<1>2. ~(mh.state = "IDLE" /\ MissReqs # {})
  BY <1>0, <1>1 DEF MhMoves, MhTakes
<1>3. MhKeeps /\ MhServes(in) /\ MhOthers(in)
  BY <1>1, <1>2 DEF MhMoves
<1>4. PICK a \in Addr : a = mh.addr /\ a = mh'.addr
  BY <1>1, <1>3 DEF MhKeeps
<1>5. /\ mh.state \in Cleaning
      /\ mh.state = "REQ_BEFORE_CLEAN" => mh'.state = "CHECK_BEFORE_CLEAN"
      /\ mh.state = "CHECK_BEFORE_CLEAN" => mh'.state = "SEND_CLEAN" /\ HitWays(a) # {}
      /\ mh.state = "SEND_CLEAN" => mh'.state = "SEND_CLEAN"
  BY <1>0, <1>1, <1>3, <1>4 DEF MhServes, MhOthers, Cleaning, MissStates, WbStates, ReqStates, ReqState
<1>6. mh.colliding_clean \/ invalidate(a)
  <2>1. mh'.colliding_clean = Watch
    BY <1>3, <1>5 DEF MhKeeps, Cleaning, ReqStates
  <2> QED BY <1>0, <1>1, <1>4, <2>1 DEF Watch
<1>7. CASE mh.state = "REQ_BEFORE_CLEAN"
  <2>1. invalidate(a)
    BY <1>5, <1>6, <1>7 DEF InvCollided
  <2>2. ~SnpGnt(in)
    BY <1>7 DEF SnpGnt, MhReq, MhReads
  <2>3. snp'.state = "INVALIDATE" /\ snp'.addr = a
    BY <1>1, <2>1, <2>2 DEF SnpMoves, invalidate
  <2> QED BY <1>4, <1>5, <1>7, <2>3 DEF invalidate
<1>8. CASE mh.state \in {"CHECK_BEFORE_CLEAN", "SEND_CLEAN"}
  <2>1. SnpGnt(in) /\ ~RefillWrites(in)
    BY <1>8, PortFree
  <2>2. HitWays(a) = {} \/ invalidate(a)
    BY <1>4, <1>5, <1>6, <1>8 DEF InvCollided
  <2>3. HitWays(a)' = {}
    <3>1. CASE HitWays(a) = {}
      BY <2>1, <3>1, HitsStep
    <3>2. CASE invalidate(a)
      BY <2>1, <3>2, SnoopRemoves
    <3> QED BY <2>2, <3>1, <3>2
  <2>4. HitWays(mh.addr)' = {}
    BY <1>4, <2>3 DEF HitWays
  <2> QED BY <1>5, <1>8, <2>4
<1> QED BY <1>5, <1>7, <1>8 DEF Cleaning

\* Before the SRAM is initialised nothing is claimed of it.
LEMMA InitLines == Init => LineInv
BY DEF Init, CacheInit, LineInv, InvRows, Running, InvAbsent, Refilling, ReqStates, InvWaiting,
       InvFound, InvCollided, Cleaning

\* An edge keeps the lines apart when the store, if any, writes its own line.
LEMMA NextLines == ControlInv /\ StoreHits /\ LineInv /\ [Next]_vars => LineInv'
<1> SUFFICES ASSUME ControlInv, StoreHits, LineInv, [Next]_vars PROVE LineInv'
  OBVIOUS
<1>1. CASE Next
  <2>1. PICK in \in Inputs : CacheStep(in) /\ CoreStep(in) /\ EnvStep(in)
    BY <1>1 DEF Next
  <2>2. TypeOK' /\ Edge(in) /\ SramStep(in)
    BY <2>1, EdgeFacts DEF ControlInv, CacheStep
  <2>3. /\ TypeOK /\ InvSnoop /\ InvMshr /\ InvFlush
        /\ InvRows /\ InvAbsent /\ InvWaiting /\ InvFound /\ InvCollided
    BY DEF ControlInv, LineInv
  <2>4. InvRows' /\ InvAbsent' /\ InvWaiting'
    BY <2>2, <2>3, RowsStepInv, AbsentStepInv, WaitingStepInv
  <2>5. InvFound' /\ InvCollided'
    BY <2>2, <2>3, FoundStepInv, CollidedStepInv
  <2> QED BY <2>4, <2>5 DEF LineInv
<1>2. CASE UNCHANGED vars
  BY <1>2 DEF vars, cacheVars, envVars, LineInv, InvRows, Running, InvAbsent, InvWaiting, InvFound,
     InvCollided, HitWays, invalidate, mshr_addr_matches, active_serving
<1> QED BY <1>1, <1>2

\* InvRows is OneHot in another form.
LEMMA RowsOneHot == TypeOK /\ InvRows => OneHot
<1> SUFFICES ASSUME TypeOK, InvRows, Running, NEW a \in Addr
             PROVE  Cardinality(HitWays(a)) <= 1
  BY DEF OneHot
<1>1. \A v, w \in HitWays(a) : v = w
  BY IndexType DEF HitWays, InvRows
<1>2. CASE HitWays(a) = {}
  BY <1>2, FS_EmptySet
<1>3. CASE HitWays(a) # {}
  <2>1. PICK w \in HitWays(a) : TRUE
    BY <1>3
  <2>2. HitWays(a) = {w}
    BY <1>1, <2>1
  <2>3. Cardinality({w}) = 1
    BY FS_Singleton
  <2> QED BY <2>2, <2>3
<1> QED BY <1>2, <1>3
-----------------------------------------------------------------------------
(***************************************************************************)
(* Stores.  As long as a store in MAKE_UNIQUE remembers the way its line   *)
(* is in, it writes the way that holds its line.                           *)
(***************************************************************************)
\* Before the SRAM is initialised the store port is idle.
LEMMA InitStores == Init => StoreInv
BY DCacheAssumption DEF Init, CacheInit, StoreInv, InvTurn, InvVictim, InvLookup, InvPresent,
   InvStore, Cleaning, STORE, CtrlPorts

\* A way keeps its line when neither the miss handler nor a snoop writes it.
LEMMA WaySurvives ==
  ASSUME TypeOK, InvVictim, NEW in, SramStep(in), NEW a \in Addr, NEW w \in HitWays(a),
         MhWrites(in) => /\ mh.state \in {"SAVE_CACHELINE", "WB_CACHELINE_MISS"}
                         /\ Index(mh.addr) # Index(a),
         ~(snp.state = "INVALIDATE" /\ Index(snp.addr) = Index(a) /\ snp.way = w)
  PROVE  w \in HitWays(a)'
<1>0. /\ sram \in [Sets -> [Ways -> Lines]] /\ Index(a) \in Sets /\ w \in Ways
      /\ sram[Index(a)][w] \in Lines /\ sram[Index(a)][w].valid /\ sram[Index(a)][w].tag = a
  BY IndexType DEF TypeOK, CacheTypeOK, HitWays
<1> DEFINE s == Index(a)
<1>1. \/ sram'[s][w] = sram[s][w]
      \/ sram'[s][w] = [sram[s][w] EXCEPT !.shared = TRUE]
      \/ sram'[s][w] = Stored(sram[s][w])
  <2>1. CASE MhWrites(in)
    <3>1. sram' = MhWritten(in)
      BY <2>1 DEF SramStep
    <3>2. CASE mh.state = "SAVE_CACHELINE"
      <4>1. sram' = Put(Index(mh.addr), mh.way, Refilled)
        BY <3>1, <3>2 DEF MhWritten, Put, WbStates
      <4> HIDE DEF Refilled
      <4> QED BY <1>0, <2>1, <4>1, PutAt
    <3>3. CASE mh.state = "WB_CACHELINE_MISS"
      <4>1. sram' = Put(mh.cnt, mh.way, Invalid(sram[mh.cnt][mh.way]))
        BY <3>1, <3>3 DEF MhWritten, WbStates, Put
      <4> QED BY <1>0, <2>1, <3>3, <4>1, PutAt DEF InvVictim
    <3> QED BY <2>1, <3>2, <3>3
  <2>2. CASE sram' = sram
    BY <2>2
  <2>3. CASE ~MhWrites(in) /\ ~MhReads /\ snp.state = "UPDATE_SHARED"
    <3> DEFINE l == [sram[Index(snp.addr)][snp.way] EXCEPT !.shared = TRUE]
    <3>1. sram' = Put(Index(snp.addr), snp.way, l)
      BY <1>0, <2>3 DEF SramStep, Put
    <3>2. sram'[s][w] = IF s = Index(snp.addr) /\ w = snp.way THEN l ELSE sram[s][w]
      <4> HIDE DEF l
      <4> QED BY <1>0, <3>1, PutAt
    <3> QED BY <3>2
  <2>4. CASE ~MhWrites(in) /\ ~MhReads /\ snp.state = "INVALIDATE"
    <3> DEFINE l == Invalid(sram[Index(snp.addr)][snp.way])
    <3>1. sram' = Put(Index(snp.addr), snp.way, l)
      BY <1>0, <2>4 DEF SramStep, Put
    <3>2. sram'[s][w] = IF s = Index(snp.addr) /\ w = snp.way THEN l ELSE sram[s][w]
      <4> HIDE DEF l
      <4> QED BY <1>0, <3>1, PutAt
    <3> QED BY <2>4, <3>2
  <2>5. CASE /\ ~MhWrites(in) /\ ~MhReads /\ snp.state \notin {"UPDATE_SHARED", "INVALIDATE"}
             /\ StoreWrites(in)
    <3> DEFINE b == Index(cc[STORE].addr)
               v == cc[STORE].way
               l == Stored(sram[b][v])
    <3>1. sram' = Put(b, v, l)
      BY <1>0, <2>5 DEF SramStep, Put
    <3>2. sram'[s][w] = IF s = b /\ w = v THEN l ELSE sram[s][w]
      <4> HIDE DEF l, b, v
      <4> QED BY <1>0, <3>1, PutAt
    <3> QED BY <3>2
  <2> QED BY <2>1, <2>2, <2>3, <2>4, <2>5 DEF SramStep
<1>2. sram'[s][w].valid /\ sram'[s][w].tag = a
  <2>1. \A l \in Lines : Stored(l).valid /\ Stored(l).tag = l.tag
    BY LineTypes DEF Stored, Lines
  <2>2. PICK l \in Lines : l = sram[s][w]
    BY <1>0
  <2>3. [l EXCEPT !.shared = TRUE].valid = l.valid /\ [l EXCEPT !.shared = TRUE].tag = l.tag
    BY DEF Lines
  <2>4. \/ sram'[s][w] = l \/ sram'[s][w] = [l EXCEPT !.shared = TRUE]
        \/ sram'[s][w] = Stored(l)
    BY <1>1, <2>2, Zenon
  <2>5. l.valid /\ l.tag = a
    BY <1>0, <2>2
  <2> HIDE DEF s
  <2> QED BY <2>1, <2>3, <2>4, <2>5
<1> QED BY <1>0, <1>2 DEF HitWays, Index

\* The port of the SRAM while a store is under way: the miss handler writes other sets.
LEMMA OtherSets ==
  ASSUME TypeOK, InvAmo, InvMshr, InvFlush, InvLookup, NEW in, MhWrites(in),
         cc[STORE].state # "IDLE", ~mshr_index_matches(STORE)
  PROVE  /\ mh.state \in {"SAVE_CACHELINE", "WB_CACHELINE_MISS"}
         /\ Index(mh.addr) # Index(cc[STORE].addr)
<1>0. STORE \in CtrlPorts
  BY DEF STORE, CtrlPorts
<1>1. mh.state \notin {"INIT", "FLUSHING", "WB_CACHELINE_FLUSH"}
  BY <1>0 DEF InvFlush, flushing
<1>2. mh.state \notin AmoStates
  BY DEF InvAmo, InvLookup
<1>3. mh.state \in {"SAVE_CACHELINE", "WB_CACHELINE_MISS"}
  BY <1>1, <1>2 DEF MhWrites, WbStates, AmoStates
<1>4. mh.valid
  BY <1>3 DEF InvMshr, Serving, Refilling
<1> QED BY <1>3, <1>4 DEF mshr_index_matches

\* The turnaround of the coherence unit.
LEMMA TurnStepInv ==
  ASSUME TypeOK, InvSnoop, InvAmo, InvMshr, InvAdapter, InvTurn, NEW in, Edge(in)
  PROVE  InvTurn'
<1>1. /\ in \in Inputs /\ MhMoves(in) /\ AdMoves(in) /\ CcuMoves(in) /\ SnpMoves(in)
      /\ mh.state \in MissStates /\ ad.state \in AdStates
      /\ ccu.rlat \in 0 .. RDelay + 1 \cup {None}
  BY DEF Edge, TypeOK, CacheTypeOK
<1>2. RDelay \in Nat /\ None \notin Nat
  BY DCacheAssumption, SystemAssumption
<1>3. SUFFICES ASSUME mh'.state = "SEND_CLEAN"
               PROVE  /\ ccu'.rlat # None => /\ ccu'.rlat <= 2 /\ ccu'.state \in {"IDLE", "AC"}
                                             /\ ccu'.rlat # 0 => ccu'.state = "IDLE"
                                             /\ ccu'.rlat = 2 => ccu'.turn = 1
                      /\ ad'.state = "COMPLETE_READ" => snp'.state \in {"IDLE", "WAIT_GNT"}
  BY DEF InvTurn
<1>4. /\ in.ac = ccu.ac /\ (in.amo_valid => ccu.state = "AMO")
      /\ in.r = "last" => ccu.rlat = 0
  BY <1>1, InputFacts, BeatFacts
<1>5. mh.state \in {"CHECK_BEFORE_CLEAN", "SEND_CLEAN"}
  <2>1. ~(mh.state = "IDLE" /\ MissReqs # {})
    BY <1>1, <1>3 DEF MhMoves, MhTakes
  <2>2. MhServes(in) /\ MhOthers(in)
    BY <1>1, <2>1 DEF MhMoves
  <2> QED BY <1>1, <1>3, <2>2 DEF MhServes, MhOthers, MissStates, WbStates, ReqStates, ReqState
<1>6. ccu'.rlat # None =>
        \/ ccu.rlat \notin {None, 0} /\ ccu'.rlat = ccu.rlat - 1
        \/ /\ ccu.state = "OWN" /\ ccu'.state = "IDLE" /\ ccu'.turn = 1
           /\ ccu'.rlat \in 1 .. RDelay + 1
           /\ mh.state = "SEND_CLEAN" => ccu'.rlat <= 2
  BY <1>1, <1>2 DEF CcuMoves, InvAdapter, Lat
<1>7. ad'.state = "COMPLETE_READ" => ad.state = "WAIT_R" /\ in.r = "last"
  BY <1>1 DEF AdMoves, AdStates
<1>8. CASE mh.state = "CHECK_BEFORE_CLEAN"
  <2>1. ad.state # "WAIT_R" /\ ccu.rlat = None /\ ccu.state # "OWN"
    BY <1>8 DEF InvAdapter
  <2> QED BY <1>6, <1>7, <2>1
<1>9. CASE mh.state = "SEND_CLEAN"
  <2>1. ccu.rlat # None => /\ ccu.rlat <= 2 /\ ccu.state \in {"IDLE", "AC"}
                           /\ ccu.rlat # 0 => ccu.state = "IDLE"
                           /\ ccu.rlat = 2 => ccu.turn = 1
    BY <1>9 DEF InvTurn
  <2>2. ad'.state = "COMPLETE_READ" => snp'.state \in {"IDLE", "WAIT_GNT"}
    <3>1. ad'.state = "COMPLETE_READ" => ccu.state \in {"IDLE", "AC"}
      BY <1>2, <1>4, <1>7, <2>1
    <3> QED BY <1>1, <3>1 DEF SnpMoves, InvSnoop
  <2>3. ASSUME ccu.rlat \notin {None, 0}, ccu'.rlat = ccu.rlat - 1
        PROVE  /\ ccu'.rlat <= 2 /\ ccu'.rlat # 2 /\ ccu'.state \in {"IDLE", "AC"}
               /\ ccu'.rlat # 0 => ccu'.state = "IDLE"
    <3>1. ccu.rlat \in 1 .. 2 /\ ccu.state = "IDLE" /\ (ccu.rlat = 2 => ccu.turn = 1)
      BY <1>1, <1>2, <2>1, <2>3
    <3>2. ~ac_ready(in) /\ snp.state = "IDLE" /\ ~in.amo_valid
      BY <1>4, <3>1 DEF InvSnoop, ac_ready
    <3>3. ~Answered(in) /\ ~CrTaken(in)
      BY <3>2 DEF Answered, CrTaken, CdTaken
    <3>4. ccu'.state \in {"IDLE", "AC"} /\ (ccu'.state = "AC" => Free)
      BY <1>1, <1>9, <2>3, <3>1, <3>2, <3>3 DEF CcuMoves
    <3>5. ccu.rlat = 2 => ~Free
      BY <3>1 DEF Free
    <3> QED BY <2>3, <3>1, <3>4, <3>5
  <2> QED BY <1>2, <1>6, <1>9, <2>2, <2>3
<1> QED BY <1>5, <1>8, <1>9

\* The set of the victim, the store port while an AMO is pending, and its lookup.
LEMMA LookupStepInv ==
  ASSUME TypeOK, InvVictim, InvLookup, NEW in, Edge(in)
  PROVE  InvVictim' /\ InvLookup'
<1>1. /\ in \in Inputs /\ MhMoves(in) /\ CoreMoves(in) /\ SnpMoves(in)
      /\ CtrlMoves(STORE, in, cc'[STORE]) /\ StoreMoves(in, cc'[STORE])
      /\ mh.state \in MissStates
  BY DEF Edge, TypeOK, CacheTypeOK, STORE, CtrlPorts
<1>2. InvVictim'
  <2>1. SUFFICES ASSUME mh'.state = "WB_CACHELINE_MISS" PROVE mh'.cnt = Index(mh'.addr)
    BY DEF InvVictim, Index
  <2>2. ~(mh.state = "IDLE" /\ MissReqs # {})
    BY <1>1, <2>1 DEF MhMoves, MhTakes
  <2>3. MhKeeps /\ MhServes(in) /\ MhOthers(in)
    BY <1>1, <2>2 DEF MhMoves
  <2>4. mh.state \in {"MISS_REPL", "WB_CACHELINE_MISS"}
    BY <1>1, <2>1, <2>3 DEF MhServes, MhOthers, MissStates, WbStates, ReqStates, ReqState
  <2> QED BY <2>1, <2>3, <2>4 DEF MhKeeps, MhServes, InvVictim
<1>3. core'.amo # None => cc'[STORE].state = "IDLE"
  <2>1. core'.amo # None => cc[STORE].state = "IDLE" /\ in.core[STORE].req = None
    BY <1>1, StoreInputs DEF CoreMoves, InvLookup
  <2>2. in.core[STORE].req = None => ~NewReq(STORE, in)
    BY DEF NewReq
  <2> QED BY <1>1, <2>1, <2>2 DEF CtrlMoves
<1>4. cc'[STORE].state \in {"WAIT_TAG", "WAIT_TAG_SAVED"} =>
        snp'.state \notin {"EVAL_FLAGS", "UPDATE_SHARED", "INVALIDATE"}
  BY <1>1 DEF StoreMoves, SnpMoves, CtrlGnt
<1>5. cc'[STORE].state \in {"MAKE_UNIQUE", "STORE_REQ"} => cc'[STORE].way \in Ways
  BY <1>1, HitWayType DEF StoreMoves, InvLookup
<1> QED BY <1>2, <1>3, <1>4, <1>5 DEF InvLookup

\* While a CleanUnique is prepared and sent.
LEMMA PresentStepInv ==
  ASSUME TypeOK, InvMshr, InvVictim, InvPresent, NEW in, Edge(in), SramStep(in), TypeOK'
  PROVE  InvPresent'
<1>1. /\ in \in Inputs /\ MhMoves(in) /\ SnpMoves(in) /\ mh.state \in MissStates
      /\ snp'.addr \in Addr /\ mh.addr \in Addr
  BY DEF Edge, TypeOK, CacheTypeOK
<1>2. mh'.state \in Cleaning =>
        /\ mh.state \in {"IDLE"} \cup Cleaning
        /\ mh'.state = "SEND_CLEAN" => mh.state \in {"CHECK_BEFORE_CLEAN", "SEND_CLEAN"}
  <2>1. CASE mh.state = "IDLE" /\ MissReqs # {}
    BY <1>1, <2>1 DEF MhMoves, MhTakes
  <2>2. CASE ~(mh.state = "IDLE" /\ MissReqs # {})
    <3>1. MhServes(in) /\ MhOthers(in)
      BY <1>1, <2>2 DEF MhMoves
    <3> QED BY <1>1, <3>1 DEF MhServes, MhOthers, MissStates, WbStates, ReqStates, ReqState, Cleaning
  <2> QED BY <2>1, <2>2
<1>3. mh.state \in {"IDLE"} \cup Cleaning => ~MhWrites(in)
  BY DEF MhWrites, Cleaning, WbStates
<1>4. ASSUME mh'.state \in Cleaning, snp'.state = "INVALIDATE"
      PROVE  snp'.way \in HitWays(snp.addr)'
  <2>1. PICK a \in Addr : a = snp'.addr
    BY <1>1
  <2>2. snp.addr = a
    BY <1>1, <1>4, <2>1 DEF SnpMoves
  <2>3. snp'.way \in HitWays(a) /\ sram' = sram
    <3>1. CASE snp.state = "INVALIDATE" /\ ~SnpGnt(in) /\ snp'.way = snp.way
      <4>1. mh.state = "REQ_BEFORE_CLEAN"
        BY <1>2, <1>4, <3>1, PortFree DEF Cleaning
      <4>2. MhReads /\ mh.state \in Cleaning
        BY <4>1 DEF MhReads, Cleaning
      <4> QED BY <1>3, <2>2, <3>1, <4>2 DEF InvPresent, SramStep
    <3>2. CASE snp.state = "EVAL_FLAGS" /\ HitWays(snp.addr) # {} /\ snp'.way = HitWay(snp.addr)
      <4>1. ~StoreWrites(in)
        BY <3>2 DEF StoreWrites, CtrlGnt, SnpReq
      <4>2. ~MhWrites(in)
        BY <1>2, <1>3, <1>4
      <4> QED BY <2>2, <3>2, <4>1, <4>2, HitWayType DEF SramStep
    <3> QED BY <1>1, <1>4, <3>1, <3>2 DEF SnpMoves
  <2>4. HitWays(a)' = HitWays(a)
    BY <2>3 DEF HitWays
  <2>5. HitWays(snp.addr)' = HitWays(a)'
    BY <2>1 DEF HitWays
  <2> QED BY <2>3, <2>4, <2>5
<1>5. ASSUME mh'.state = "SEND_CLEAN", ~mh'.colliding_clean
      PROVE  HitWays(mh.addr)' # {}
  <2>1. mh.state \in {"CHECK_BEFORE_CLEAN", "SEND_CLEAN"} /\ mh.state \in Cleaning
    BY <1>2, <1>5 DEF Cleaning
  <2>2. MhKeeps /\ MhServes(in)
    BY <1>1, <2>1 DEF MhMoves
  <2>3. PICK a \in Addr : a = mh.addr /\ a = mh'.addr
    BY <1>1, <2>2 DEF MhKeeps
  <2>4. mh'.colliding_clean = Watch
    BY <2>1, <2>2 DEF MhKeeps, ReqStates
  <2>5. ~mh.colliding_clean /\ ~invalidate(a)
    BY <1>5, <2>1, <2>3, <2>4 DEF Watch, InvMshr, Serving
  <2>6. HitWays(a) # {}
    BY <1>5, <2>1, <2>2, <2>3, <2>5 DEF MhServes, InvPresent
  <2>7. PICK w \in HitWays(a) : TRUE
    BY <2>6
  <2>8. ~(snp.state = "INVALIDATE" /\ Index(snp.addr) = Index(a) /\ snp.way = w)
    BY <2>1, <2>5, <2>7 DEF InvPresent, HitWays, invalidate
  <2>9. w \in HitWays(a)'
    BY <1>3, <2>1, <2>7, <2>8, WaySurvives
  <2>10. HitWays(mh.addr)' = HitWays(a)'
    BY <2>3 DEF HitWays
  <2> QED BY <2>9, <2>10
<1> QED BY <1>4, <1>5 DEF InvPresent

\* The store port: from the lookup, from MAKE_UNIQUE, or still waiting for the SRAM.
LEMMA StoreStepInv ==
  ASSUME ControlInv, StoreInv, WayKept, NEW in, Edge(in), SramStep(in), TypeOK'
  PROVE  InvStore'
<1> DEFINE c == cc[STORE]
           n == cc'[STORE]
<1>0. /\ TypeOK /\ InvSnoop /\ InvAmo /\ InvMshr /\ InvAdapter /\ InvFlush
      /\ InvTurn /\ InvVictim /\ InvLookup /\ InvPresent /\ InvStore
  BY DEF ControlInv, StoreInv
<1>1. /\ in \in Inputs /\ SnpMoves(in) /\ StoreMoves(in, n) /\ c.addr \in Addr
      /\ STORE \in CtrlPorts
  BY <1>0 DEF Edge, TypeOK, CacheTypeOK, STORE, CtrlPorts
<1>2. PICK a \in Addr : a = c.addr
  BY <1>1
<1>3. SUFFICES ASSUME n.state = "STORE_REQ", ~n.colliding_clean
               PROVE  /\ n.addr = a /\ n.way \in HitWays(a)'
                      /\ /\ snp'.state = "INVALIDATE" /\ snp'.way = n.way
                         /\ Index(snp'.addr) = Index(a)
                         => snp'.addr = a
  BY DEF InvStore, HitWays, Index
<1>4. n.addr = a
  BY <1>1, <1>2, <1>3 DEF StoreMoves
\* What is left to show when the way holds the line and no snoop takes it away.
<1>5. ASSUME n.way \in HitWays(a),
             MhWrites(in) => /\ mh.state \in {"SAVE_CACHELINE", "WB_CACHELINE_MISS"}
                             /\ Index(mh.addr) # Index(a),
             ~(snp.state = "INVALIDATE" /\ Index(snp.addr) = Index(a) /\ snp.way = n.way)
      PROVE  n.way \in HitWays(a)'
  <2>1. PICK w \in HitWays(a) : w = n.way
    BY <1>5
  <2> HIDE DEF n
  <2>2. w \in HitWays(a)'
    BY <1>0, <1>5, <2>1, WaySurvives
  <2> QED BY <2>1, <2>2
<1>6. CASE /\ c.state \in {"WAIT_TAG", "WAIT_TAG_SAVED"} /\ ~mshr_index_matches(STORE)
           /\ n.way \in HitWays(c.addr)
  <2>1. snp.state \notin {"EVAL_FLAGS", "UPDATE_SHARED", "INVALIDATE"}
    BY <1>0, <1>6 DEF InvLookup
  <2>2. MhWrites(in) => /\ mh.state \in {"SAVE_CACHELINE", "WB_CACHELINE_MISS"}
                        /\ Index(mh.addr) # Index(a)
    BY <1>0, <1>2, <1>6, OtherSets
  <2>3. snp'.state # "INVALIDATE"
    BY <1>1, <2>1 DEF SnpMoves
  <2> HIDE DEF c, n
  <2> QED BY <1>2, <1>4, <1>5, <1>6, <2>1, <2>2, <2>3 DEF c
<1>7. CASE /\ c.state = "MAKE_UNIQUE" /\ miss_gnt(STORE, in) /\ ~miss_write_done(in)
           /\ n.way = c.way
  <2>1. /\ mh.id = STORE /\ mh.valid
        /\ mh.state = "SEND_CLEAN" /\ valid_miss_fsm(in) /\ ~mh.colliding_clean
    <3>1. /\ STORE = mh.id /\ mh.valid
          /\ \/ mh.state \in ReqStates /\ gnt_miss_fsm(in) /\ ~mh.make_unique
             \/ /\ mh.state \in {"SAVE_CACHELINE", "SEND_CLEAN"} /\ valid_miss_fsm(in)
                /\ mh.make_unique /\ ~mh.colliding_clean
      BY <1>0, <1>1, <1>7, GrantFacts
    <3>2. ~(mh.state \in ReqStates /\ ~mh.make_unique)
      BY <1>0, <1>7, <3>1 DEF InvMshr, ReqStates
    <3>3. mh.state # "SAVE_CACHELINE"
      BY <1>7, <3>1, <3>2 DEF miss_write_done
    <3> QED BY <3>1, <3>2, <3>3
  <2>2. ad.state = "COMPLETE_READ"
    BY <1>0, <2>1 DEF valid_miss_fsm, InvAdapter, WbStates
  <2>3. snp.state \in {"IDLE", "WAIT_GNT"}
    BY <1>0, <2>1, <2>2 DEF InvTurn
  <2>4. mh.addr = a
    BY <1>0, <1>2, <2>1 DEF InvMshr, Cleaning
  <2>5. n.way \in HitWays(a)
    BY <1>0, <1>2, <1>7, <2>1, <2>4 DEF InvPresent, WayKept
  <2>6. ~MhWrites(in)
    BY <2>1 DEF MhWrites, WbStates
  <2>7. snp'.state # "INVALIDATE"
    BY <1>1, <2>3 DEF SnpMoves
  <2> HIDE DEF c, n
  <2> QED BY <1>4, <1>5, <2>3, <2>5, <2>6, <2>7
<1>8. CASE /\ c.state = "STORE_REQ" /\ ~mshr_index_matches(STORE) /\ n.way = c.way
           /\ ~c.colliding_clean /\ ~invalidate(c.addr)
  <2>1. /\ n.way \in HitWays(a)
        /\ snp.state = "INVALIDATE" /\ snp.way = n.way /\ Index(snp.addr) = Index(a)
           => snp.addr = a
    BY <1>0, <1>2, <1>8 DEF InvStore
  <2>2. ~(snp.state = "INVALIDATE" /\ Index(snp.addr) = Index(a) /\ snp.way = n.way)
    BY <1>2, <1>8, <2>1 DEF invalidate
  <2>3. MhWrites(in) => /\ mh.state \in {"SAVE_CACHELINE", "WB_CACHELINE_MISS"}
                        /\ Index(mh.addr) # Index(a)
    BY <1>0, <1>2, <1>8, OtherSets
  <2>4. n.way \in HitWays(a)'
    BY <1>5, <2>1, <2>2, <2>3
  <2>5. ASSUME snp'.state = "INVALIDATE", snp'.way = n.way, Index(snp'.addr) = Index(a)
        PROVE  snp'.addr = a
    <3>1. snp'.addr = snp.addr
      BY <1>1, <2>5 DEF SnpMoves
    <3>2. CASE snp.state = "INVALIDATE" /\ snp'.way = snp.way
      BY <2>1, <2>5, <3>1, <3>2
    <3>3. CASE snp.state = "EVAL_FLAGS" /\ HitWays(snp.addr) # {} /\ snp'.way = HitWay(snp.addr)
      <4>1. n.way \in HitWays(snp.addr)
        BY <2>5, <3>3, HitWayType
      <4> QED BY <2>1, <2>5, <3>1, <4>1 DEF HitWays
    <3> QED BY <1>1, <2>5, <3>2, <3>3 DEF SnpMoves
  <2> QED BY <1>4, <2>4, <2>5
<1>9. \/ /\ c.state \in {"WAIT_TAG", "WAIT_TAG_SAVED"} /\ ~mshr_index_matches(STORE)
         /\ n.way \in HitWays(c.addr)
      \/ /\ c.state = "MAKE_UNIQUE" /\ miss_gnt(STORE, in) /\ ~miss_write_done(in)
         /\ n.way = c.way
      \/ /\ c.state = "STORE_REQ" /\ ~mshr_index_matches(STORE) /\ n.way = c.way
         /\ ~c.colliding_clean /\ ~invalidate(c.addr)
  BY <1>1, <1>3 DEF StoreMoves
<1> QED BY <1>6, <1>7, <1>8, <1>9

\* A store about to write the SRAM is covered by InvStore.
LEMMA StoreInvHits == StoreInv => StoreHits
BY DEF StoreInv, InvStore, StoreHits, updating_cache

\* An edge keeps lines and stores together.
LEMMA NextStores == ControlInv /\ StoreInv /\ WayKept /\ [Next]_vars => StoreInv'
<1> SUFFICES ASSUME ControlInv, StoreInv, WayKept, [Next]_vars PROVE StoreInv'
  OBVIOUS
<1>1. CASE Next
  <2>1. PICK in \in Inputs : CacheStep(in) /\ CoreStep(in) /\ EnvStep(in)
    BY <1>1 DEF Next
  <2>2. TypeOK' /\ Edge(in) /\ SramStep(in)
    BY <2>1, EdgeFacts DEF ControlInv, CacheStep
  <2>3. /\ TypeOK /\ InvSnoop /\ InvAmo /\ InvMshr /\ InvAdapter
        /\ InvTurn /\ InvVictim /\ InvLookup /\ InvPresent
    BY DEF ControlInv, StoreInv
  <2>4. InvTurn' /\ InvVictim' /\ InvLookup' /\ InvPresent'
    BY <2>2, <2>3, TurnStepInv, LookupStepInv, PresentStepInv
  <2>5. InvStore'
    BY <2>2, StoreStepInv
  <2> QED BY <2>4, <2>5 DEF StoreInv
<1>2. CASE UNCHANGED vars
  BY <1>2 DEF vars, cacheVars, envVars, StoreInv, InvTurn, InvVictim, InvLookup, InvPresent,
     InvStore, HitWays, Index, mshr_index_matches
<1> QED BY <1>1, <1>2

\* ControlInv, StoreInv and LineInv hold together while stores keep their way.
LEMMA StoresHold == Spec /\ []WayKept => [](ControlInv /\ StoreInv /\ LineInv)
<1>1. Init => StoreInv /\ LineInv
  BY InitStores, InitLines
<1>2. ControlInv /\ StoreInv /\ LineInv /\ WayKept /\ [Next]_vars => StoreInv' /\ LineInv'
  BY NextStores, NextLines, StoreInvHits
<1> QED BY <1>1, <1>2, ControlHolds, PTL DEF Spec

\* A store that writes the SRAM writes the way that holds its line: no snoop, refill,
\* write-back, AMO or flush can come between the lookup and the write unseen.  The one
\* exception is what WayKept excludes, a line that was evicted and came back in another
\* way while the store waited for exclusive access.
THEOREM StoreHitsHolds == Spec /\ []WayKept => []StoreHits
<1>1. ControlInv /\ StoreInv /\ LineInv => StoreHits
  BY StoreInvHits
<1> QED BY <1>1, StoresHold, PTL

\* tag_cmp's assertion on the hit vector: under the same condition no refill,
\* CleanUnique, snoop, flush, AMO or store puts a line in a second way.
THEOREM OneHotHolds == Spec /\ []WayKept => []OneHot
<1>1. ControlInv /\ StoreInv /\ LineInv => OneHot
  BY RowsOneHot DEF ControlInv, LineInv
<1> QED BY <1>1, StoresHold, PTL
=============================================================================
