----------------------- MODULE DCacheCoherence_proofs -----------------------
(***************************************************************************)
(* Proofs about the data of the cache of DCacheSystem: copies are coherent *)
(* (CoherenceInv) and no version is lost (ValueInv), when a store keeps    *)
(* its way and the last beat of a refill is delayed by at most one cycle.  *)
(***************************************************************************)
EXTENDS DCacheSystem_proofs

(***************************************************************************)
(* What an edge does to lines, to the rest of the system and to the        *)
(* registers that carry data.                                              *)
(***************************************************************************)
\* The line in way w of set s stays, is invalidated, is refilled or is written.
Kept(s, w) ==
  /\ sram'[s][w].valid = sram[s][w].valid /\ sram'[s][w].tag = sram[s][w].tag
  /\ sram'[s][w].dirty = sram[s][w].dirty /\ sram'[s][w].data = sram[s][w].data
  /\ sram[s][w].shared => sram'[s][w].shared
Brought(in, s, w) ==
  /\ RefillWrites(in) /\ s = Index(mh.addr) /\ w = mh.way
  /\ sram'[s][w].valid /\ sram'[s][w].tag = mh.addr
  /\ sram'[s][w].shared = (mh.id # STORE /\ ad.shared)
  /\ sram'[s][w].dirty = (mh.id = STORE \/ ad.dirty)
  /\ sram'[s][w].data = IF mh.id = STORE THEN Merge(ad.data) ELSE ad.data
Wrote(in, s, w) ==
  /\ StoreWrites(in) /\ s = Index(cc[STORE].addr) /\ w = cc[STORE].way
  /\ sram'[s][w].valid /\ sram'[s][w].tag = sram[s][w].tag
  /\ ~sram'[s][w].shared /\ sram'[s][w].dirty /\ sram'[s][w].data = Merge(sram[s][w].data)

\* An edge does one of these to each line.
LEMMA LineFate ==
  ASSUME TypeOK, NEW in, SramStep(in), NEW s \in Sets, NEW w \in Ways
  PROVE  \/ Kept(s, w) \/ Brought(in, s, w) \/ Wrote(in, s, w)
         \/ ~sram'[s][w].valid /\ Lost(in, s, w)
<1>1. sram[s][w] \in Lines
  BY DEF TypeOK, CacheTypeOK
<1>2. LineStep(in, s, w)
  BY SramLines
<1>3. CASE sram'[s][w] = sram[s][w]
  BY <1>3 DEF Kept
<1>4. CASE sram'[s][w] = Invalid(sram[s][w]) /\ Lost(in, s, w)
  BY <1>1, <1>4, LineTypes
<1>5. CASE sram'[s][w] = [sram[s][w] EXCEPT !.shared = TRUE]
  BY <1>1, <1>5 DEF Kept, Lines
<1>6. CASE /\ sram'[s][w] = Refilled
           /\ RefillWrites(in) /\ s = Index(mh.addr) /\ w = mh.way
  BY <1>6 DEF Brought, Refilled
<1>7. CASE /\ sram'[s][w] = Stored(sram[s][w])
           /\ StoreWrites(in) /\ s = Index(cc[STORE].addr) /\ w = cc[STORE].way
  BY <1>1, <1>7 DEF Wrote, Stored, Lines
<1> QED BY <1>2, <1>3, <1>4, <1>5, <1>6, <1>7 DEF LineStep

\* A store writes only when the snoop controller and the miss handler do not.
LEMMA StorePort ==
  ASSUME NEW in, StoreWrites(in)
  PROVE  /\ updating_cache(STORE) /\ ~SnpReq(in) /\ ~MhReq(in) /\ ~RefillWrites(in)
         /\ snp.state \notin {"EVAL_FLAGS", "UPDATE_SHARED", "INVALIDATE"}
  BY DEF StoreWrites, CtrlGnt, SnpReq, MhReq, MhWrites, RefillWrites

\* The line that is written back, and the clean line of an AMO, are invalidated.
LEMMA LineGone ==
  ASSUME TypeOK, NEW in, SramStep(in)
  PROVE  /\ mh.state \in WbStates /\ valid_miss_fsm(in) /\ mh.way \in Ways =>
              ~sram'[mh.cnt][mh.way].valid
         /\ mh.state = "AMO_WB" /\ MhWrites(in) /\ in.amo \in Addr /\ HitWay(in.amo) \in Ways =>
              ~sram'[Index(in.amo)][HitWay(in.amo)].valid
<1>0. sram \in [Sets -> [Ways -> Lines]] /\ mh.cnt \in Sets
  BY DEF TypeOK, CacheTypeOK
<1>1. ASSUME mh.state \in WbStates, valid_miss_fsm(in), mh.way \in Ways
      PROVE  ~sram'[mh.cnt][mh.way].valid
  <2>1. sram' = Put(mh.cnt, mh.way, Invalid(sram[mh.cnt][mh.way]))
    BY <1>1 DEF SramStep, MhWrites, MhWritten, WbStates, Put
  <2>2. sram'[mh.cnt][mh.way] = Invalid(sram[mh.cnt][mh.way])
    BY <1>0, <1>1, <2>1, PutAt
  <2>3. sram[mh.cnt][mh.way] \in Lines
    BY <1>0, <1>1
  <2> QED BY <2>2, <2>3, LineTypes
<1>2. ASSUME mh.state = "AMO_WB", MhWrites(in), in.amo \in Addr, HitWay(in.amo) \in Ways
      PROVE  ~sram'[Index(in.amo)][HitWay(in.amo)].valid
  <2> DEFINE a == Index(in.amo)
             b == HitWay(in.amo)
  <2>1. sram' = Put(a, b, Invalid(sram[a][b]))
    BY <1>2 DEF SramStep, MhWritten, WbStates, Put
  <2>2. a \in Sets /\ b \in Ways
    BY <1>2, IndexType
  <2> SUFFICES ~sram'[a][b].valid
    OBVIOUS
  <2> HIDE DEF a, b
  <2>3. sram'[a][b] = Invalid(sram[a][b])
    BY <1>0, <2>1, <2>2, PutAt
  <2>4. sram[a][b] \in Lines
    BY <1>0, <2>2
  <2> QED BY <2>3, <2>4, LineTypes
<1> QED BY <1>1, <1>2

\* A ReadShared leaves the line it found shared.
LEMMA LineShared ==
  ASSUME TypeOK, NEW in, SramStep(in), snp.state = "UPDATE_SHARED", SnpGnt(in), snp.way \in Ways
  PROVE  sram'[Index(snp.addr)][snp.way].shared
<1>0. sram \in [Sets -> [Ways -> Lines]] /\ snp.addr \in Addr
  BY DEF TypeOK, CacheTypeOK
<1> DEFINE a == Index(snp.addr)
           b == snp.way
           l == [sram[a][b] EXCEPT !.shared = TRUE]
<1>1. sram' = Put(a, b, l)
  BY <1>0 DEF SramStep, Put, SnpGnt, MhReq
<1>2. a \in Sets /\ b \in Ways
  BY <1>0, IndexType
<1>3. sram[a][b] \in Lines
  BY <1>0, <1>2
<1>4. l.shared
  BY <1>3 DEF Lines
<1>5. sram'[a][b] = l
  <2> HIDE DEF a, b, l
  <2> QED BY <1>0, <1>1, <1>2, PutAt
<1> QED BY <1>4, <1>5

\* What the snoop controller carries.
SnpSame == /\ snp'.addr = snp.addr /\ snp'.snoop = snp.snoop /\ snp'.way = snp.way
           /\ snp'.data = snp.data /\ snp'.cr = snp.cr
SnpLooks ==
  LET l == sram[Index(snp.addr)][HitWay(snp.addr)] IN
  /\ snp.state = "EVAL_FLAGS" /\ snp'.addr = snp.addr /\ snp'.snoop = snp.snoop
  /\ \/ HitWays(snp.addr) = {} /\ snp'.state = "SEND_CR_RESP" /\ snp'.cr = NoCr
     \/ /\ snp.snoop = "READ_ONCE" /\ snp'.state = "SEND_CR_RESP" /\ ~snp'.cr.dirty
     \/ /\ HitWays(snp.addr) # {} /\ snp'.way = HitWay(snp.addr) /\ snp'.data = l.data
        /\ \/ /\ snp.snoop = "READ_SHARED" /\ snp'.state = "UPDATE_SHARED"
              /\ snp'.cr.data /\ ~snp'.cr.dirty
           \/ /\ snp.snoop \in {"READ_UNIQUE", "CLEAN_INVALID"} /\ snp'.state = "INVALIDATE"
              /\ snp'.cr.dirty = l.dirty /\ (snp'.cr.dirty => snp'.cr.data)
SnpCarries(in) ==
  \/ snp'.state = "IDLE"
  \/ snp.state = "IDLE" /\ snp'.state = "WAIT_GNT" /\ snp'.cr = NoCr
  \/ snp.state = "WAIT_GNT" /\ snp'.state = "EVAL_FLAGS" /\ SnpSame
  \/ snp'.state = snp.state /\ SnpSame
  \/ /\ snp.state \in {"UPDATE_SHARED", "INVALIDATE"} /\ SnpGnt(in)
     /\ snp'.state = "SEND_CR_RESP" /\ SnpSame
  \/ snp.state = "SEND_CR_RESP" /\ snp'.state = "SEND_CD_RESP" /\ SnpSame
  \/ SnpLooks

\* The snoop controller carries its response from the lookup to the answer.
LEMMA SnpCarriesFacts ==
  ASSUME TypeOK, InvSnoop, NEW in \in Inputs, SnpStep(in)
  PROVE  SnpCarries(in)
<1>0. snp \in SnpType
  BY DEF TypeOK, CacheTypeOK, SnpType
<1>4. CASE SnpIdle(in)
  <2>z. PICK z \in 0..1 : z = 0
    OBVIOUS
  <2>1. CASE ac_ready(in)
    <3>2. snp' = [snp EXCEPT !.state = "WAIT_GNT", !.addr = in.ac.addr,
                             !.snoop = in.ac.snoop, !.cr = NoCr, !.word = z]
      BY <1>4, <2>z, <2>1 DEF SnpIdle
    <3>3. snp'.state = "WAIT_GNT" /\ snp'.cr = NoCr
      <4> HIDE DEF ac_ready
      <4> QED BY <1>0, <3>2 DEF SnpType
    <3> QED BY <1>4, <3>3 DEF SnpCarries, SnpIdle
  <2>2. CASE ~ac_ready(in)
    <3>1. snp' = [snp EXCEPT !.snoop = None, !.cr = NoCr, !.word = z]
      BY <1>4, <2>z, <2>2 DEF SnpIdle
    <3>2. snp'.state = "IDLE"
      BY <1>0, <1>4, <3>1 DEF SnpType, SnpIdle
    <3> QED BY <3>2 DEF SnpCarries
  <2> QED BY <2>1, <2>2
<1>5. CASE SnpWaitGnt(in)
  <2> HIDE DEF SnpReq
  <2> QED BY <1>0, <1>5 DEF SnpWaitGnt, SnpType, SnpCarries, SnpSame
<1>6. CASE SnpEvalFlags
  <2> DEFINE w    == HitWay(snp.addr)
             line == sram[Index(snp.addr)][w]
  <2>1. w \in Ways \cup {0} /\ (w = 0 <=> HitWays(snp.addr) = {}) /\ 0 \notin Ways
    BY HitWayType DEF Ways
  <2>2. snp.snoop \in SnoopTypes /\ snp.state = "EVAL_FLAGS"
    BY <1>0, <1>6 DEF SnpEvalFlags, InvSnoop
  <2>3. w # 0 => line \in Lines
    BY <1>0, <2>1, IndexType DEF TypeOK, CacheTypeOK, SnpType
  <2>b. w # 0 => line.data \in Val /\ line.dirty \in BOOLEAN /\ line.shared \in BOOLEAN
    BY <2>3 DEF Lines
  <2> DEFINE c == IF w = 0 THEN NoCr
                  ELSE CASE snp.snoop = "CLEAN_INVALID" ->
                              [data |-> line.dirty, dirty |-> line.dirty, shared |-> FALSE]
                         [] snp.snoop = "READ_ONCE" ->
                              [data |-> TRUE, dirty |-> FALSE, shared |-> line.shared]
                         [] snp.snoop = "READ_SHARED" ->
                              [data |-> TRUE, dirty |-> FALSE, shared |-> TRUE]
                         [] snp.snoop = "READ_UNIQUE" ->
                              [data |-> TRUE, dirty |-> line.dirty, shared |-> FALSE]
             to == IF w = 0 \/ snp.snoop = "READ_ONCE" THEN "SEND_CR_RESP"
                   ELSE IF snp.snoop = "READ_SHARED" THEN "UPDATE_SHARED" ELSE "INVALIDATE"
             d  == IF w = 0 THEN snp.data ELSE line.data
  <2>4. snp' = [snp EXCEPT !.way = w, !.cr = c, !.data = d, !.state = to]
    BY <1>6, Zenon DEF SnpEvalFlags
  <2>5. /\ w = 0 => c = NoCr
        /\ w # 0 /\ snp.snoop = "CLEAN_INVALID" =>
             c = [data |-> line.dirty, dirty |-> line.dirty, shared |-> FALSE]
        /\ w # 0 /\ snp.snoop = "READ_ONCE" =>
             c = [data |-> TRUE, dirty |-> FALSE, shared |-> line.shared]
        /\ w # 0 /\ snp.snoop = "READ_SHARED" =>
             c = [data |-> TRUE, dirty |-> FALSE, shared |-> TRUE]
        /\ w # 0 /\ snp.snoop = "READ_UNIQUE" =>
             c = [data |-> TRUE, dirty |-> line.dirty, shared |-> FALSE]
    <3> HIDE DEF w, line
    <3> QED OBVIOUS
  <2>6. /\ w = 0 => c = NoCr
        /\ w # 0 /\ snp.snoop \in {"CLEAN_INVALID", "READ_UNIQUE"} =>
             c.dirty = line.dirty /\ (c.dirty => c.data)
        /\ w # 0 /\ snp.snoop = "READ_ONCE" => ~c.dirty
        /\ w # 0 /\ snp.snoop = "READ_SHARED" => c.data /\ ~c.dirty
    <3> HIDE DEF w, line, c
    <3> QED BY <2>5
  <2>7. \/ to = "SEND_CR_RESP" /\ (w = 0 \/ snp.snoop = "READ_ONCE")
        \/ w # 0 /\ to = "UPDATE_SHARED" /\ snp.snoop = "READ_SHARED"
        \/ w # 0 /\ to = "INVALIDATE" /\ snp.snoop \in {"READ_UNIQUE", "CLEAN_INVALID"}
    BY <2>2 DEF SnoopTypes
  <2>8. w # 0 => d = line.data
    OBVIOUS
  <2> SUFFICES SnpLooks
    BY DEF SnpCarries
  <2> HIDE DEF c, to, d
  <2>9. /\ snp'.state = to /\ snp'.way = w /\ snp'.addr = snp.addr /\ snp'.snoop = snp.snoop
        /\ snp'.cr = c /\ snp'.data = d
    <3> HIDE DEF w
    <3> QED BY <1>0, <2>4 DEF SnpType
  <2> QED BY <2>1, <2>2, <2>6, <2>7, <2>8, <2>9 DEF SnpLooks
<1>7. CASE SnpUpdate(in)
  BY <1>0, <1>7 DEF SnpUpdate, SnpType, SnpCarries, SnpSame
<1>8. CASE SnpSendCr(in)
  BY <1>0, <1>8 DEF SnpSendCr, SnpType, SnpCarries, SnpSame
<1>9. CASE SnpSendCd(in)
  BY <1>0, <1>9 DEF SnpSendCd, SnpType, SnpCarries, SnpSame
<1> QED BY <1>4, <1>5, <1>6, <1>7, <1>8, <1>9 DEF SnpStep

\* What the miss handler carries: the victim of a refill and the line it writes back.
MhVictims(in) ==
  /\ mh.state = "MISS_REPL" =>
       LET l == sram[Index(mh.addr)][mh'.way] IN
       /\ mh'.way \in Ways
       /\ IF mh'.state = "WB_CACHELINE_MISS"
          THEN l.valid /\ l.dirty /\ mh'.evict = l.tag /\ mh'.evict_data = l.data
          ELSE ~(l.valid /\ l.dirty)
  /\ mh.state \in ReqStates \cup WbStates \cup {"SAVE_CACHELINE"} =>
       /\ mh'.way = mh.way /\ mh'.evict = mh.evict /\ mh'.evict_data = mh.evict_data
       /\ mh.state \in WbStates => mh'.cnt = mh.cnt
  /\ mh.state = "FLUSHING" /\ DirtyWays(mh.cnt) # {} =>
       /\ mh'.way \in DirtyWays(mh.cnt)
       /\ mh'.evict = sram[mh.cnt][mh'.way].tag /\ mh'.evict_data = sram[mh.cnt][mh'.way].data
  /\ mh.state = "AMO_WB" =>
       LET w == HitWay(in.amo)
           l == sram[Index(in.amo)][w]
       IN IF mh'.state = "WB_CACHELINE_AMO"
          THEN /\ w # 0 /\ l.dirty /\ mh'.way = w /\ mh'.evict = in.amo
               /\ mh'.evict_data = l.data /\ mh'.cnt = Index(in.amo)
          ELSE w = 0 \/ ~l.dirty

\* The miss handler chooses victims and write-backs as MhVictims says.
LEMMA MhVictimsFacts ==
  ASSUME TypeOK, InvAmo, NEW in \in Inputs, MhStep(in)
  PROVE  MhVictims(in)
<1>0. mh \in MhType /\ sram \in [Sets -> [Ways -> Lines]] /\ in.victim \in Ways
  BY InputFacts DEF TypeOK, CacheTypeOK, MhType
<1>1. CASE mh.state = "MISS_REPL"
  <2> DEFINE row    == sram[Index(mh.addr)]
             free   == {w \in Ways : ~row[w].valid}
             victim == IF free = {} THEN in.victim ELSE FirstOf(free)
             wb     == free = {} /\ row[victim].dirty
             e      == IF wb THEN row[victim].tag ELSE mh.evict
             d      == IF wb THEN row[victim].data ELSE mh.evict_data
             n      == IF wb THEN Index(mh.addr) ELSE mh.cnt
             st     == IF wb THEN "WB_CACHELINE_MISS" ELSE ReqState
             c      == Watch
  <2>1. victim \in Ways /\ (free = {} => row[victim].valid) /\ (free # {} => ~row[victim].valid)
    <3>1. free # {} => FirstOf(free) \in free
      <4> HIDE DEF row
      <4> QED BY FirstOfIn DEF Ways
    <3>2. free = {} => \A w \in Ways : row[w].valid
      OBVIOUS
    <3> QED BY <1>0, <3>1, <3>2
  <2>2. MhMissRepl(in)
    BY <1>1 DEF MhStep, MhInit, MhIdle, MhMiss, MhReqCacheline, ReqStates, MhSaveCacheline,
       MhWriteBack, WbStates, MhFlushReqStatus, MhFlushing, MhReqBeforeClean,
       MhCheckBeforeClean, MhSendClean, MhAmoWbReq, MhAmoWb, MhAmoReq
  <2>3. mh' = [mh EXCEPT !.way = victim, !.colliding_clean = c,
                         !.evict = e, !.evict_data = d, !.cnt = n, !.state = st]
    BY <2>2, Zenon DEF MhMissRepl
  <2>4. wb => row[victim].dirty
    OBVIOUS
  <2>5. ~wb /\ row[victim].valid => ~row[victim].dirty
    BY <2>1
  <2>6. /\ wb => e = row[victim].tag /\ d = row[victim].data /\ st = "WB_CACHELINE_MISS"
        /\ ~wb => st # "WB_CACHELINE_MISS"
    <3> HIDE DEF wb, row
    <3> QED BY DEF ReqState
  <2>7. wb => row[victim].valid
    BY <2>1
  <2> HIDE DEF victim, e, d, n, st, c, free
  <2>8. mh'.way = victim /\ mh'.evict = e /\ mh'.evict_data = d /\ mh'.state = st
    BY <1>0, <2>3 DEF MhType
  <2> HIDE DEF wb
  <2> QED BY <1>1, <2>1, <2>4, <2>5, <2>6, <2>7, <2>8 DEF MhVictims, ReqStates, WbStates
<1>2. CASE mh.state \in ReqStates \cup WbStates \cup {"SAVE_CACHELINE"}
  <2>1. MhReqCacheline(in) \/ MhSaveCacheline(in) \/ MhWriteBack(in)
    BY <1>2 DEF MhStep, MhInit, MhIdle, MhMiss, MhMissRepl, ReqStates,
       WbStates, MhFlushReqStatus, MhFlushing, MhReqBeforeClean,
       MhCheckBeforeClean, MhSendClean, MhAmoWbReq, MhAmoWb, MhAmoReq
  <2>2. \/ \E st, c : mh' = [mh EXCEPT !.state = st, !.colliding_clean = c]
        \/ \E c : mh' = [mh EXCEPT !.colliding_clean = c]
        \/ \E st, c, v : mh' = [mh EXCEPT !.colliding_clean = c, !.state = st, !.valid = v]
    BY <2>1, Zenon DEF MhReqCacheline, MhSaveCacheline, MhWriteBack, MhGoto
  <2>3. /\ mh'.way = mh.way /\ mh'.evict = mh.evict /\ mh'.evict_data = mh.evict_data
        /\ mh'.cnt = mh.cnt
    BY <1>0, <2>2 DEF MhType
  <2> QED BY <1>2, <2>3 DEF MhVictims, ReqStates, WbStates
<1>3. CASE mh.state = "FLUSHING" /\ DirtyWays(mh.cnt) # {}
  <2> DEFINE w == FirstOf(DirtyWays(mh.cnt))
             c == Watch
  <2>1. w \in DirtyWays(mh.cnt)
    <3>1. DirtyWays(mh.cnt) \subseteq Ways /\ Ways \subseteq Nat
      BY DEF DirtyWays, Ways
    <3> QED BY <1>3, <3>1, FirstOfIn
  <2>2. MhFlushing
    BY <1>3 DEF MhStep, MhInit, MhIdle, MhMiss, MhMissRepl, MhReqCacheline, ReqStates,
       MhSaveCacheline, MhWriteBack, WbStates, MhFlushReqStatus, MhReqBeforeClean,
       MhCheckBeforeClean, MhSendClean, MhAmoWbReq, MhAmoWb, MhAmoReq
  <2>3. mh' = [mh EXCEPT !.state = "WB_CACHELINE_FLUSH", !.way = w,
                         !.evict = sram[mh.cnt][w].tag, !.evict_data = sram[mh.cnt][w].data,
                         !.colliding_clean = c]
    BY <1>3, <2>2 DEF MhFlushing
  <2> HIDE DEF w, c
  <2>4. /\ mh'.way = w /\ mh'.evict = sram[mh.cnt][w].tag
        /\ mh'.evict_data = sram[mh.cnt][w].data
    BY <1>0, <2>3 DEF MhType
  <2> QED BY <1>3, <2>1, <2>4 DEF MhVictims, ReqStates, WbStates
<1>4. CASE mh.state = "AMO_WB"
  <2> DEFINE w  == HitWay(in.amo)
             wb == w # 0 /\ sram[Index(in.amo)][w].dirty
             c  == Watch
  <2>1. MhAmoWb(in)
    BY <1>4 DEF MhStep, MhInit, MhIdle, MhMiss, MhMissRepl, MhReqCacheline, ReqStates,
       MhSaveCacheline, MhWriteBack, WbStates, MhFlushReqStatus, MhFlushing, MhReqBeforeClean,
       MhCheckBeforeClean, MhSendClean, MhAmoWbReq, MhAmoReq
  <2>2. CASE wb
    <3>1. mh' = [mh EXCEPT !.state = "WB_CACHELINE_AMO", !.way = w, !.evict = in.amo,
                           !.evict_data = sram[Index(in.amo)][w].data,
                           !.cnt = Index(in.amo), !.colliding_clean = c]
      BY <2>1, <2>2 DEF MhAmoWb
    <3>2. w # 0 /\ sram[Index(in.amo)][w].dirty
      BY <2>2
    <3> HIDE DEF w, c
    <3>3. /\ mh'.state = "WB_CACHELINE_AMO" /\ mh'.way = w /\ mh'.evict = in.amo
          /\ mh'.evict_data = sram[Index(in.amo)][w].data /\ mh'.cnt = Index(in.amo)
      BY <1>0, <3>1 DEF MhType
    <3> QED BY <1>4, <3>2, <3>3 DEF MhVictims, ReqStates, WbStates, w
  <2>3. CASE ~wb
    <3>1. mh' = [mh EXCEPT !.state = "AMO_REQ", !.colliding_clean = c]
      BY <2>1, <2>3 DEF MhAmoWb
    <3>2. mh'.state = "AMO_REQ"
      BY <1>0, <3>1 DEF MhType
    <3> QED BY <1>4, <2>3, <3>2 DEF MhVictims, ReqStates, WbStates
  <2> QED BY <2>2, <2>3
<1>5. CASE /\ mh.state \notin {"MISS_REPL", "AMO_WB", "SAVE_CACHELINE"} \cup ReqStates \cup WbStates
           /\ ~(mh.state = "FLUSHING" /\ DirtyWays(mh.cnt) # {})
  BY <1>5 DEF MhVictims
<1> QED BY <1>1, <1>2, <1>3, <1>4, <1>5

\* What the adapter takes from the last beat.
AdCarries(in) ==
  ad.state = "WAIT_R" /\ in.r = "last" =>
    ad'.shared = ccu.resp.shared /\ ad'.dirty = ccu.resp.dirty /\ ad'.data = ccu.resp.data

\* The adapter carries the response as AdCarries says.
LEMMA AdCarriesFacts ==
  ASSUME TypeOK, NEW in \in Inputs, AdStep(in)
  PROVE  AdCarries(in)
<1>0. ad \in AdType
  BY DEF TypeOK, CacheTypeOK, AdType
<1>1. /\ in.r_shared = ccu.resp.shared /\ in.r_dirty = ccu.resp.dirty
      /\ in.r_data = ccu.resp.data
  BY InputFacts
<1> SUFFICES ASSUME ad.state = "WAIT_R", in.r = "last" PROVE AdCarries(in)
  BY DEF AdCarries
<1>2. ad' = [ad EXCEPT !.state = "COMPLETE_READ", !.shared = in.r_shared,
                       !.dirty = in.r_dirty, !.data = in.r_data]
  BY DEF AdStep
<1> QED BY <1>0, <1>1, <1>2 DEF AdCarries, AdType

\* What an edge does to line a outside the cache.
Versioned(in, a, others) ==
  latest'[a] = IF a \in OwnStores(in) \/ others THEN Merge(latest[a]) ELSE latest[a]

SnoopFate(in, a) ==
  LET r     == rest[a]
      q     == rest'[a]
      data  == IF snp.cr.data THEN snp.data ELSE IF r.held # "none" THEN r.data ELSE memv[a]
      clean == IF snp.cr.dirty THEN snp.data ELSE IF r.dirty THEN r.data ELSE memv[a]
  IN /\ Answered(in) /\ a = snp.addr
     /\ \/ /\ snp.snoop = "READ_SHARED" /\ memv'[a] = memv[a] /\ Versioned(in, a, FALSE)
           /\ q.held = IF snp.cr.data \/ r.held # "none" THEN "shared" ELSE "unique"
           /\ q.dirty = r.dirty /\ q.data = data
        \/ /\ snp.snoop = "READ_UNIQUE" /\ memv'[a] = memv[a] /\ Versioned(in, a, FALSE)
           /\ q.held = "unique" /\ q.dirty = (r.dirty \/ snp.cr.dirty) /\ q.data = data
        \/ /\ snp.snoop = "CLEAN_INVALID" /\ ~WbInFlight(a) /\ ~q.dirty
           /\ q.held = "none" \/ (r.held # "none" /\ q.held = "unique" /\ q.data = r.data)
           /\ memv'[a] = clean /\ Versioned(in, a, FALSE)
        \/ /\ snp.snoop = "CLEAN_INVALID" /\ ~WbInFlight(a) /\ q.held = "none" /\ ~q.dirty
           /\ memv'[a] = Merge(clean) /\ Versioned(in, a, TRUE)

OwnFate(in, a) ==
  LET r == rest[a]
      q == rest'[a]
  IN /\ Free /\ ad.state = "WAIT_R" /\ ccu.rlat = None /\ a = mh.addr /\ ccu'.state = "OWN"
     /\ ccu'.resp.data = IF r.held # "none" THEN r.data ELSE memv[a]
     /\ Versioned(in, a, FALSE)
     /\ \/ /\ mh.state = "SEND_CLEAN" /\ ~ccu'.resp.dirty /\ q.held = "none" /\ ~q.dirty
           /\ memv'[a] = IF r.dirty THEN r.data ELSE memv[a]
        \/ /\ mh.state # "SEND_CLEAN" /\ mh.id = STORE /\ ccu'.resp.dirty = r.dirty
           /\ q.held = "none" /\ ~q.dirty /\ memv'[a] = memv[a]
        \/ /\ mh.state # "SEND_CLEAN" /\ mh.id # STORE /\ memv'[a] = memv[a]
           /\ ccu'.resp.shared = (r.held # "none") /\ ~ccu'.resp.dirty
           /\ q.held = IF r.held = "none" THEN "none" ELSE "shared"
           /\ q.dirty = r.dirty /\ q.data = r.data

EnvFate(in, a) ==
  LET r == rest[a]
      q == rest'[a]
  IN \/ q = r /\ memv'[a] = memv[a] /\ Versioned(in, a, FALSE)
     \/ /\ r.held = "unique" /\ q.held = "unique" /\ q.dirty /\ q.data = Merge(r.data)
        /\ memv'[a] = memv[a] /\ Versioned(in, a, TRUE)
     \/ /\ r.held # "none" /\ (r.dirty => ~WbInFlight(a)) /\ ~q.dirty
        /\ q.held = "none" \/ (q.held = "shared" /\ r.held = "shared" /\ q.data = r.data)
        /\ memv'[a] = IF r.dirty THEN r.data ELSE memv[a]
        /\ Versioned(in, a, FALSE)
     \/ /\ ad.state = "WAIT_B" /\ ~wb_done /\ wb_done' /\ a = mh.evict /\ q = r
        /\ memv'[a] = mh.evict_data /\ Versioned(in, a, FALSE)
     \/ SnoopFate(in, a)
     \/ OwnFate(in, a)
     \/ /\ Free /\ mh.state = "AMO_WAIT_RESP" /\ a = core.amo /\ q.held = "none" /\ ~q.dirty
        /\ memv'[a] = Merge(IF r.dirty THEN r.data ELSE memv[a]) /\ Versioned(in, a, TRUE)

\* The version of one line after an edge.
LEMMA WrittenAt ==
  ASSUME NEW in, NEW W, Written(in, W), NEW a \in Addr
  PROVE  Versioned(in, a, a \in W)
  BY DEF Written, Versioned

\* The response to a request of this cache.
LEMMA OwnServed ==
  ASSUME TypeOK, NEW in, ServeOwn(in)
  PROVE  /\ OwnFate(in, mh.addr) /\ Written(in, {})
         /\ \A a \in Addr : a # mh.addr => rest'[a] = rest[a] /\ memv'[a] = memv[a]
<1> DEFINE b == mh.addr
           r == rest[b]
           v == IF r.held # "none" THEN r.data ELSE memv[b]
<1>0. /\ rest \in [Addr -> Held] /\ memv \in [Addr -> Val] /\ b \in Addr
      /\ Tick \in CcuType
  BY TickFacts DEF TypeOK, CacheTypeOK
<1>1. Nowhere.held = "none" /\ Nowhere.dirty = FALSE
  BY DEF Nowhere
<1>2. Free /\ ad.state = "WAIT_R" /\ ccu.rlat = None /\ Written(in, {})
  BY DEF ServeOwn
<1>3. Versioned(in, b, FALSE)
  BY <1>0, <1>2, WrittenAt DEF Versioned
<1>a. ASSUME NEW s, NEW d, ccu' = [Tick EXCEPT !.state = "OWN",
                                       !.resp = [shared |-> s, dirty |-> d, data |-> v]]
      PROVE  /\ ccu'.state = "OWN" /\ ccu'.resp.shared = s /\ ccu'.resp.dirty = d
             /\ ccu'.resp.data = v
  <2> HIDE DEF v, Tick
  <2> DEFINE q == [shared |-> s, dirty |-> d, data |-> v]
  <2>1. q.shared = s /\ q.dirty = d /\ q.data = v
    OBVIOUS
  <2>2. ccu' = [Tick EXCEPT !.state = "OWN", !.resp = q]
    BY <1>a
  <2> HIDE DEF q
  <2>3. ccu'.state = "OWN" /\ ccu'.resp = q
    BY <1>0, <2>2 DEF CcuType
  <2> QED BY <2>1, <2>3
<1> HIDE DEF Tick
<1>4. CASE mh.state = "SEND_CLEAN"
  <2>1. /\ ccu' = [Tick EXCEPT !.state = "OWN",
                              !.resp = [shared |-> FALSE, dirty |-> FALSE, data |-> v]]
        /\ rest' = [rest EXCEPT ![b] = Nowhere]
        /\ memv' = IF r.dirty THEN [memv EXCEPT ![b] = r.data] ELSE memv
    BY <1>4 DEF ServeOwn
  <2>2. ccu'.state = "OWN" /\ ccu'.resp.dirty = FALSE /\ ccu'.resp.data = v
    BY <1>a, <2>1
  <2>3. \A a \in Addr : /\ rest'[a] = IF a = b THEN Nowhere ELSE rest[a]
                       /\ memv'[a] = IF a = b /\ r.dirty THEN r.data ELSE memv[a]
    BY <1>0, <2>1
  <2> QED BY <1>0, <1>1, <1>2, <1>3, <1>4, <2>2, <2>3 DEF OwnFate
<1>5. CASE mh.state # "SEND_CLEAN" /\ mh.id = STORE
  <2>1. /\ ccu' = [Tick EXCEPT !.state = "OWN",
                              !.resp = [shared |-> FALSE, dirty |-> r.dirty, data |-> v]]
        /\ rest' = [rest EXCEPT ![b] = Nowhere] /\ memv' = memv
    BY <1>5 DEF ServeOwn
  <2>2. ccu'.state = "OWN" /\ ccu'.resp.dirty = r.dirty /\ ccu'.resp.data = v
    BY <1>a, <2>1
  <2>3. \A a \in Addr : rest'[a] = IF a = b THEN Nowhere ELSE rest[a]
    BY <1>0, <2>1
  <2> QED BY <1>0, <1>1, <1>2, <1>3, <1>5, <2>1, <2>2, <2>3 DEF OwnFate
<1>6. CASE mh.state # "SEND_CLEAN" /\ mh.id # STORE
  <2> DEFINE h == IF r.held = "none" THEN r.held ELSE "shared"
             s == r.held # "none"
             l == [rest[b] EXCEPT !.held = h]
  <2>1. /\ ccu' = [Tick EXCEPT !.state = "OWN",
                              !.resp = [shared |-> s, dirty |-> FALSE, data |-> v]]
        /\ rest' = [rest EXCEPT ![b].held = IF @ = "none" THEN @ ELSE "shared"] /\ memv' = memv
    BY <1>6 DEF ServeOwn
  <2>2. rest' = [rest EXCEPT ![b] = l]
    BY <1>0, <2>1
  <2>3. /\ ccu'.state = "OWN" /\ ccu'.resp.shared = s /\ ccu'.resp.dirty = FALSE
        /\ ccu'.resp.data = v
    BY <1>a, <2>1
  <2>4. l.held = h /\ l.dirty = r.dirty /\ l.data = r.data
    <3>1. rest[b] \in Held
      BY <1>0
    <3> HIDE DEF h
    <3> QED BY <3>1 DEF Held
  <2> HIDE DEF l
  <2>5. \A a \in Addr : rest'[a] = IF a = b THEN l ELSE rest[a]
    BY <1>0, <2>2
  <2> QED BY <1>0, <1>2, <1>3, <1>6, <2>1, <2>3, <2>4, <2>5 DEF OwnFate
<1> QED BY <1>4, <1>5, <1>6

\* The answer to a snoop.
LEMMA SnoopServed ==
  ASSUME TypeOK, NEW in, SnoopDone(in), NEW a \in Addr
  PROVE  \/ SnoopFate(in, a)
         \/ /\ a = snp.addr => snp.snoop = "READ_ONCE"
            /\ rest'[a] = rest[a] /\ memv'[a] = memv[a] /\ Versioned(in, a, FALSE)
<1>5. rest \in [Addr -> Held] /\ memv \in [Addr -> Val] /\ snp.addr \in Addr
  BY DEF TypeOK, CacheTypeOK
<1>6. Nowhere.held = "none" /\ Nowhere.dirty = FALSE
  BY DEF Nowhere
<1> DEFINE b     == snp.addr
           r     == rest[b]
           data  == IF snp.cr.data THEN snp.data ELSE IF r.held # "none" THEN r.data ELSE memv[b]
           clean == IF snp.cr.dirty THEN snp.data ELSE IF r.dirty THEN r.data ELSE memv[b]
<1>0. Answered(in)
  BY DEF SnoopDone
<1>1. CASE snp.snoop = "READ_ONCE"
  <2>1. rest' = rest /\ memv' = memv /\ Written(in, {})
    BY <1>1 DEF SnoopDone
  <2> QED BY <1>1, <2>1, WrittenAt DEF Versioned
<1>2. CASE snp.snoop = "READ_SHARED"
  <2> DEFINE h == IF snp.cr.data \/ r.held # "none" THEN "shared" ELSE "unique"
             l == [held |-> h, dirty |-> r.dirty, data |-> data]
  <2>1. rest' = [rest EXCEPT ![b] = l] /\ memv' = memv /\ Written(in, {})
    BY <1>2 DEF SnoopDone
  <2>2. Versioned(in, a, FALSE)
    BY <2>1, WrittenAt DEF Versioned
  <2>3. l.held = h /\ l.dirty = r.dirty /\ l.data = data
    <3> HIDE DEF h, data
    <3> QED OBVIOUS
  <2>4. rest'[a] = IF a = b THEN l ELSE rest[a]
    <3> HIDE DEF l
    <3> QED BY <1>5, <2>1
  <2> HIDE DEF l
  <2>5. CASE a = b
    <3>1. SnoopFate(in, a)
      BY <1>0, <1>2, <2>1, <2>2, <2>3, <2>4, <2>5 DEF SnoopFate
    <3> QED BY <3>1
  <2>6. CASE a # b
    BY <2>1, <2>2, <2>4, <2>6
  <2> QED BY <2>5, <2>6
<1>3. CASE snp.snoop = "READ_UNIQUE"
  <2> DEFINE d == r.dirty \/ snp.cr.dirty
             l == [held |-> "unique", dirty |-> d, data |-> data]
  <2>1. rest' = [rest EXCEPT ![b] = l] /\ memv' = memv /\ Written(in, {})
    BY <1>3 DEF SnoopDone
  <2>2. Versioned(in, a, FALSE)
    BY <2>1, WrittenAt DEF Versioned
  <2>3. l.held = "unique" /\ l.dirty = d /\ l.data = data
    <3> HIDE DEF d, data
    <3> QED OBVIOUS
  <2>4. rest'[a] = IF a = b THEN l ELSE rest[a]
    <3> HIDE DEF l
    <3> QED BY <1>5, <2>1
  <2> HIDE DEF l
  <2>5. CASE a = b
    <3>1. SnoopFate(in, a)
      BY <1>0, <1>3, <2>1, <2>2, <2>3, <2>4, <2>5 DEF SnoopFate
    <3> QED BY <3>1
  <2>6. CASE a # b
    BY <2>1, <2>2, <2>4, <2>6
  <2> QED BY <2>5, <2>6
<1>4. CASE snp.snoop = "CLEAN_INVALID"
  <2> DEFINE u == [rest[b] EXCEPT !.held = "unique", !.dirty = FALSE]
  <2>1. u.held = "unique" /\ u.dirty = FALSE /\ u.data = r.data
    <3>1. rest[b] \in Held
      BY <1>5
    <3> QED BY <3>1 DEF Held
  <2>2. /\ ~WbInFlight(b)
        /\ \/ r.held # "none" /\ rest' = [rest EXCEPT ![b] = u]
              /\ memv' = [memv EXCEPT ![b] = clean] /\ Written(in, {})
           \/ /\ rest' = [rest EXCEPT ![b] = Nowhere]
              /\ \/ memv' = [memv EXCEPT ![b] = clean] /\ Written(in, {})
                 \/ memv' = [memv EXCEPT ![b] = Merge(clean)] /\ Written(in, {b})
    BY <1>4 DEF SnoopDone
  <2> HIDE DEF u
  <2>3. CASE r.held # "none" /\ rest' = [rest EXCEPT ![b] = u]
              /\ memv' = [memv EXCEPT ![b] = clean] /\ Written(in, {})
    <3>1. Versioned(in, a, FALSE)
      BY <2>3, WrittenAt DEF Versioned
    <3>2. /\ rest'[a] = IF a = b THEN u ELSE rest[a]
          /\ memv'[a] = IF a = b THEN clean ELSE memv[a]
      <4> HIDE DEF clean
      <4> QED BY <1>5, <2>3
    <3>3. CASE a = b
      <4>1. SnoopFate(in, a)
        BY <1>0, <1>4, <2>1, <2>2, <2>3, <3>1, <3>2, <3>3 DEF SnoopFate
      <4> QED BY <4>1
    <3>4. CASE a # b
      BY <3>1, <3>2, <3>4
    <3> QED BY <3>3, <3>4
  <2>4. CASE /\ rest' = [rest EXCEPT ![b] = Nowhere]
             /\ memv' = [memv EXCEPT ![b] = clean] /\ Written(in, {})
    <3>1. Versioned(in, a, FALSE)
      BY <2>4, WrittenAt DEF Versioned
    <3>2. /\ rest'[a] = IF a = b THEN Nowhere ELSE rest[a]
          /\ memv'[a] = IF a = b THEN clean ELSE memv[a]
      <4> HIDE DEF clean
      <4> QED BY <1>5, <2>4
    <3>3. CASE a = b
      <4>1. SnoopFate(in, a)
        BY <1>6, <1>0, <1>4, <2>2, <2>4, <3>1, <3>2, <3>3 DEF SnoopFate
      <4> QED BY <4>1
    <3>4. CASE a # b
      BY <3>1, <3>2, <3>4
    <3> QED BY <3>3, <3>4
  <2>5. CASE /\ rest' = [rest EXCEPT ![b] = Nowhere]
             /\ memv' = [memv EXCEPT ![b] = Merge(clean)] /\ Written(in, {b})
    <3>1. Versioned(in, a, a = b)
      BY <2>5, WrittenAt DEF Versioned
    <3>2. /\ rest'[a] = IF a = b THEN Nowhere ELSE rest[a]
          /\ memv'[a] = IF a = b THEN Merge(clean) ELSE memv[a]
      <4> HIDE DEF clean
      <4> QED BY <1>5, <2>5
    <3>3. CASE a = b
      <4>1. SnoopFate(in, a)
        BY <1>6, <1>0, <1>4, <2>2, <2>5, <3>1, <3>2, <3>3 DEF SnoopFate, Versioned
      <4> QED BY <4>1
    <3>4. CASE a # b
      BY <3>1, <3>2, <3>4 DEF Versioned
    <3> QED BY <3>3, <3>4
  <2> QED BY <2>2, <2>3, <2>4, <2>5
<1> QED BY <1>1, <1>2, <1>3, <1>4 DEF SnoopDone

\* Every step of the environment does one of these to each line.
LEMMA EnvFates ==
  ASSUME TypeOK, NEW in \in Inputs, EnvStep(in), NEW a \in Addr
  PROVE  EnvFate(in, a)
<1>0. /\ rest \in [Addr -> Held] /\ memv \in [Addr -> Val] /\ snp.addr \in Addr
      /\ mh.addr \in Addr /\ mh.evict \in Addr /\ core.amo \in Addr \cup {None}
  BY DEF TypeOK, CacheTypeOK
<1>1. Nowhere.held = "none" /\ Nowhere.dirty = FALSE
  BY DEF Nowhere
<1>s. ASSUME rest' = rest, memv' = memv, Written(in, {}) PROVE EnvFate(in, a)
  BY <1>s, WrittenAt DEF EnvFate, Versioned
<1>7. CASE Quiet(in) \/ SendSnoop(in) \/ LastBeat(in) \/ AmoDone(in) \/ WbConfirmed(in)
  <2>1. rest' = rest /\ memv' = memv /\ Written(in, {})
    BY <1>7 DEF Quiet, SendSnoop, LastBeat, AmoDone, WbConfirmed
  <2> QED BY <1>s, <2>1
<1>8. CASE RestWrite(in)
  <2>1. PICK b \in Addr :
          /\ rest[b].held = "unique" /\ Written(in, {b}) /\ memv' = memv
          /\ rest' = [rest EXCEPT ![b] = [@ EXCEPT !.dirty = TRUE, !.data = Merge(rest[b].data)]]
    BY <1>8 DEF RestWrite
  <2> DEFINE l == [rest[b] EXCEPT !.dirty = TRUE, !.data = Merge(rest[b].data)]
  <2>2. l.held = "unique" /\ l.dirty = TRUE /\ l.data = Merge(rest[b].data)
    <3>1. rest[b] \in Held
      BY <1>0
    <3> QED BY <2>1, <3>1 DEF Held
  <2>3. rest' = [rest EXCEPT ![b] = l]
    BY <1>0, <2>1
  <2> HIDE DEF l
  <2>4. rest'[a] = IF a = b THEN l ELSE rest[a]
    BY <1>0, <2>3
  <2>5. Versioned(in, a, a \in {b})
    BY <2>1, WrittenAt
  <2>6. CASE a = b
    BY <2>1, <2>2, <2>4, <2>5, <2>6 DEF EnvFate, Versioned
  <2>7. CASE a # b
    BY <2>1, <2>4, <2>5, <2>7 DEF EnvFate, Versioned
  <2> QED BY <2>6, <2>7
<1>9. CASE RestEvict(in)
  <2>1. PICK b \in Addr, h \in {"none", "shared"} :
          /\ rest[b].held # "none" /\ (h = "shared" => rest[b].held = "shared")
          /\ rest[b].dirty => ~WbInFlight(b)
          /\ Written(in, {})
          /\ rest' = [rest EXCEPT ![b] = IF h = "none" THEN Nowhere ELSE [@ EXCEPT !.dirty = FALSE]]
          /\ memv' = IF rest[b].dirty THEN [memv EXCEPT ![b] = rest[b].data] ELSE memv
    BY <1>9 DEF RestEvict
  <2> DEFINE c == [rest[b] EXCEPT !.dirty = FALSE]
             l == IF h = "none" THEN Nowhere ELSE c
  <2>2. c.held = rest[b].held /\ c.dirty = FALSE /\ c.data = rest[b].data
    <3>1. rest[b] \in Held
      BY <1>0
    <3> QED BY <3>1 DEF Held
  <2>3. rest' = [rest EXCEPT ![b] = l]
    BY <1>0, <2>1
  <2> HIDE DEF c
  <2>4. /\ l.dirty = FALSE
        /\ l.held = "none" \/ (l.held = "shared" /\ rest[b].held = "shared" /\ l.data = rest[b].data)
    BY <1>1, <2>1, <2>2
  <2> HIDE DEF l
  <2>5. rest'[a] = IF a = b THEN l ELSE rest[a]
    BY <1>0, <2>3
  <2>6. memv'[a] = IF a = b /\ rest[b].dirty THEN rest[b].data ELSE memv[a]
    BY <1>0, <2>1
  <2>7. Versioned(in, a, FALSE)
    BY <2>1, WrittenAt DEF Versioned
  <2>8. CASE a = b
    BY <2>1, <2>4, <2>5, <2>6, <2>7, <2>8 DEF EnvFate
  <2>9. CASE a # b
    BY <2>5, <2>6, <2>7, <2>9 DEF EnvFate
  <2> QED BY <2>8, <2>9
<1>10. CASE WbLands(in)
  <2>1. /\ ad.state = "WAIT_B" /\ ~wb_done /\ wb_done' /\ rest' = rest /\ Written(in, {})
        /\ memv' = [memv EXCEPT ![mh.evict] = mh.evict_data]
    BY <1>10 DEF WbLands
  <2>2. memv'[a] = IF a = mh.evict THEN mh.evict_data ELSE memv[a]
    BY <1>0, <2>1
  <2>3. Versioned(in, a, FALSE)
    BY <2>1, WrittenAt DEF Versioned
  <2> QED BY <2>1, <2>2, <2>3 DEF EnvFate
<1>12. CASE SnoopDone(in)
  BY <1>12, SnoopServed DEF EnvFate
<1>13. CASE ServeOwn(in)
  <2>1. Versioned(in, a, FALSE)
    BY <1>13, OwnServed, WrittenAt DEF Versioned
  <2> QED BY <1>13, <2>1, OwnServed DEF EnvFate
<1>15. CASE ServeAmo(in)
  <2>1. /\ Free /\ mh.state = "AMO_WAIT_RESP" /\ core.amo # None
        /\ rest' = [rest EXCEPT ![core.amo] = Nowhere]
        /\ memv' = [memv EXCEPT ![core.amo] = Merge(IF rest[core.amo].dirty
                                                    THEN rest[core.amo].data ELSE @)]
        /\ Written(in, {core.amo})
    BY <1>15 DEF ServeAmo
  <2> DEFINE b == core.amo
             v == IF rest[b].dirty THEN rest[b].data ELSE memv[b]
  <2>2. b \in Addr
    BY <1>0, <2>1
  <2>3. memv' = [memv EXCEPT ![b] = Merge(v)]
    BY <1>0, <2>1, <2>2
  <2>4. /\ rest'[a] = IF a = b THEN Nowhere ELSE rest[a]
        /\ memv'[a] = IF a = b THEN Merge(v) ELSE memv[a]
    <3> HIDE DEF v
    <3> QED BY <1>0, <2>1, <2>2, <2>3
  <2>5. Versioned(in, a, a = b)
    BY <2>1, WrittenAt DEF Versioned
  <2>6. CASE a = b
    BY <1>1, <2>1, <2>4, <2>5, <2>6 DEF EnvFate, Versioned
  <2>7. CASE a # b
    BY <2>4, <2>5, <2>7 DEF EnvFate, Versioned
  <2> QED BY <2>6, <2>7
<1> QED BY <1>7, <1>8, <1>9, <1>10, <1>12, <1>13, <1>15 DEF EnvStep

\* The response to the cache's own request, and the write-back, on their way.
RespMoves(in) ==
  \/ OwnFate(in, mh.addr)
  \/ /\ ccu'.resp = IF ccu.rlat = 0 THEN NoResp ELSE ccu.resp
     /\ ccu'.state = "OWN" => ccu.state = "OWN"
     /\ ccu'.rlat # None => ccu.state = "OWN" \/ ccu.rlat \notin {None, 0}

WbMoves(in) ==
  /\ in.b => wb_done /\ ~wb_done'
  /\ ~in.b => \/ wb_done' = wb_done
              \/ /\ ad.state = "WAIT_B" /\ ~wb_done /\ wb_done' /\ rest' = rest
                 /\ memv'[mh.evict] = mh.evict_data

\* The response moves as RespMoves says.
LEMMA RespFacts ==
  ASSUME TypeOK, InvAdapter, NEW in \in Inputs, EnvStep(in)
  PROVE  RespMoves(in)
<1>0. /\ Tick \in CcuType /\ Tick.rlat = Lat /\ Tick.state = ccu.state
      /\ Lat # None => ccu.rlat \notin {None, 0}
  BY TickFacts DEF Lat
<1>1. Tick.resp = IF ccu.rlat = 0 THEN NoResp ELSE ccu.resp
  <2> DEFINE l == IF ccu.rlat \in {None, 0} THEN None ELSE ccu.rlat - 1
             q == IF ccu.rlat = 0 THEN NoResp ELSE ccu.resp
  <2>z. PICK z \in 0..1 : z = 0
    OBVIOUS
  <2>1. Tick = [ccu EXCEPT !.turn = z, !.rlat = l, !.resp = q]
    BY <2>z DEF Tick
  <2>2. ccu \in CcuType
    BY DEF TypeOK, CcuType
  <2> HIDE DEF l, q
  <2>3. Tick.resp = q
    BY <2>1, <2>2 DEF CcuType
  <2> QED BY <2>3 DEF q
<1> HIDE DEF Tick, Lat
<1>2. CASE ServeOwn(in)
  BY <1>2, OwnServed DEF RespMoves
<1>3. CASE CcuWait(in)
  <2> DEFINE st == IF ac_ready(in) THEN "CR" ELSE IF CrTaken(in) THEN "CD" ELSE Tick.state
             c  == IF ac_ready(in) THEN None ELSE Tick.ac
  <2>1. ccu' = [Tick EXCEPT !.state = st, !.ac = c]
    BY <1>3 DEF CcuWait
  <2>2. st = "OWN" => ccu.state = "OWN"
    BY <1>0
  <2> HIDE DEF st, c
  <2>3. ccu'.resp = Tick.resp /\ ccu'.state = st /\ ccu'.rlat = Tick.rlat
    BY <1>0, <2>1 DEF CcuType
  <2> QED BY <1>0, <1>1, <2>2, <2>3 DEF RespMoves
<1>4. CASE SendSnoop(in)
  <2>1. PICK c : ccu' = [Tick EXCEPT !.state = "AC", !.ac = c]
    BY <1>4 DEF SendSnoop
  <2>2. ccu'.resp = Tick.resp /\ ccu'.state = "AC" /\ ccu'.rlat = Tick.rlat
    BY <1>0, <2>1 DEF CcuType
  <2> QED BY <1>0, <1>1, <2>2 DEF RespMoves
<1>5. CASE SnoopDone(in) \/ AmoDone(in)
  <2>z. PICK z \in 0..1 : z = 1
    OBVIOUS
  <2>1. ccu' = [Tick EXCEPT !.state = "IDLE", !.turn = z]
    BY <1>5, <2>z DEF SnoopDone, AmoDone
  <2>2. ccu'.resp = Tick.resp /\ ccu'.state = "IDLE" /\ ccu'.rlat = Tick.rlat
    BY <1>0, <2>1 DEF CcuType
  <2> QED BY <1>0, <1>1, <2>2 DEF RespMoves
<1>6. CASE ServeAmo(in)
  <2>1. ccu' = [Tick EXCEPT !.state = "AMO"]
    BY <1>6 DEF ServeAmo
  <2>2. ccu'.resp = Tick.resp /\ ccu'.state = "AMO" /\ ccu'.rlat = Tick.rlat
    BY <1>0, <2>1 DEF CcuType
  <2> QED BY <1>0, <1>1, <2>2 DEF RespMoves
<1>7. CASE LastBeat(in)
  <2>z. PICK z \in 0..1 : z = 1
    OBVIOUS
  <2>1. PICK l : ccu' = [Tick EXCEPT !.state = "IDLE", !.turn = z, !.rlat = l]
    BY <1>7, <2>z DEF LastBeat
  <2>2. ccu'.resp = Tick.resp /\ ccu'.state = "IDLE"
    BY <1>0, <2>1 DEF CcuType
  <2>3. ccu.state = "OWN"
    BY <1>7 DEF LastBeat
  <2> QED BY <1>1, <2>2, <2>3 DEF RespMoves
<1> QED BY <1>2, <1>3, <1>4, <1>5, <1>6, <1>7
        DEF EnvStep, Quiet, RestWrite, RestEvict, WbLands, WbConfirmed

\* The write-back moves as WbMoves says.
LEMMA WbFacts ==
  ASSUME TypeOK, NEW in \in Inputs, EnvStep(in)
  PROVE  WbMoves(in)
<1>0. memv \in [Addr -> Val] /\ mh.evict \in Addr /\ wb_done \in BOOLEAN
  BY DEF TypeOK, CacheTypeOK
<1>1. in.b \in If(ad.state = "WAIT_B" /\ wb_done, BOOLEAN, FALSE)
  BY DEF Inputs
<1>2. in.b => wb_done
  BY <1>0, <1>1 DEF If
<1>3. CASE in.b
  <2>1. wb_done' = FALSE
    BY <1>3 DEF EnvStep, WbConfirmed
  <2> QED BY <1>2, <1>3, <2>1 DEF WbMoves
<1>4. CASE ~in.b
  <2>1. CASE WbLands(in)
    <3>1. /\ ad.state = "WAIT_B" /\ ~wb_done /\ wb_done' = TRUE /\ rest' = rest
          /\ memv' = [memv EXCEPT ![mh.evict] = mh.evict_data]
      BY <2>1 DEF WbLands
    <3>2. memv'[mh.evict] = mh.evict_data
      BY <1>0, <3>1
    <3> QED BY <1>4, <3>1, <3>2 DEF WbMoves
  <2>2. CASE ~WbLands(in)
    <3>1. wb_done' = wb_done
      BY <1>4, <2>2 DEF EnvStep, WbConfirmed, Quiet, RestWrite, RestEvict, SendSnoop, SnoopDone,
         ServeOwn, LastBeat, ServeAmo, AmoDone
    <3> QED BY <1>4, <3>1 DEF WbMoves
  <2> QED BY <2>1, <2>2
<1> QED BY <1>3, <1>4

\* An edge, with what happens to the data.
\* An answer has an effect on the line, unless it is one to a ReadOnce.
LEMMA AnswerServed ==
  ASSUME TypeOK, InvSnoop, NEW in \in Inputs, EnvStep(in), Answered(in)
  PROVE  snp.snoop = "READ_ONCE" \/ SnoopFate(in, snp.addr)
<1>1. ccu.state \in {"CR", "CD"}
  BY DEF Answered, CrTaken, CdTaken, InvSnoop
<1>2. ~Free /\ ccu.state # "OWN" /\ ~in.amo_valid
  BY <1>1, InputFacts DEF Free
<1>3. SnoopDone(in)
  BY <1>2 DEF EnvStep, Quiet, RestWrite, RestEvict, WbLands, WbConfirmed, CcuWait, SendSnoop,
     ServeOwn, LastBeat, ServeAmo, AmoDone
<1>4. snp.addr \in Addr
  BY DEF TypeOK, CacheTypeOK
<1> QED BY <1>3, <1>4, SnoopServed

DataEdge(in) ==
  /\ Edge(in) /\ SramStep(in) /\ TypeOK'
  /\ Answered(in) => snp.snoop = "READ_ONCE" \/ SnoopFate(in, snp.addr)
  /\ SnpCarries(in) /\ MhVictims(in) /\ AdCarries(in) /\ RespMoves(in) /\ WbMoves(in)
  /\ \A a \in Addr : EnvFate(in, a)

\* An edge is all of the above.
LEMMA DataEdgeFacts ==
  ASSUME ControlInv, NEW in \in Inputs, CacheStep(in), CoreStep(in), EnvStep(in)
  PROVE  DataEdge(in)
<1>1. TypeOK' /\ Edge(in)
  BY EdgeFacts DEF ControlInv
<1>2. SnpCarries(in) /\ MhVictims(in) /\ AdCarries(in)
  BY SnpCarriesFacts, MhVictimsFacts, AdCarriesFacts DEF ControlInv, CacheStep
<1>3. RespMoves(in) /\ WbMoves(in) /\ \A a \in Addr : EnvFate(in, a)
  BY RespFacts, WbFacts, EnvFates DEF ControlInv
<1>4. Answered(in) => snp.snoop = "READ_ONCE" \/ SnoopFate(in, snp.addr)
  BY AnswerServed DEF ControlInv
<1> QED BY <1>1, <1>2, <1>3, <1>4 DEF DataEdge, CacheStep
-----------------------------------------------------------------------------
(***************************************************************************)
(* CoherenceInv.                                                           *)
(***************************************************************************)
\* A refill is written when its response is in the adapter: no snoop is under way then.
LEMMA RefillFacts ==
  ASSUME InvAdapter, InvArrival, NEW in, RefillWrites(in)
  PROVE  /\ ad.state = "COMPLETE_READ" /\ mh.state = "SAVE_CACHELINE" /\ Granted
         /\ snp.state \in {"IDLE", "WAIT_GNT"}
  BY DEF RefillWrites, valid_miss_fsm, InvAdapter, WbStates, InvArrival, Granted

\* A snoop that is answered was being answered.
LEMMA AnsweredFacts ==
  ASSUME NEW in, Answered(in)
  PROVE  Answering
  BY DEF Answered, CrTaken, CdTaken, Answering

\* Another cache gets a line only through a snoop.
LEMMA HeldStep ==
  ASSUME TypeOK, NEW in, NEW a \in Addr, EnvFate(in, a)
  PROVE  \/ rest'[a].held = rest[a].held \/ rest'[a].held = "none"
         \/ rest[a].held # "none" /\ rest'[a].held = "shared"
         \/ /\ Answered(in) /\ Answering /\ a = snp.addr /\ snp.snoop # "READ_ONCE"
            /\ snp.snoop = "READ_SHARED" /\ snp.cr.data => rest'[a].held = "shared"
<1>1. CASE SnoopFate(in, a)
  BY <1>1, AnsweredFacts DEF SnoopFate
<1>2. CASE OwnFate(in, a)
  BY <1>2 DEF OwnFate
<1> QED BY <1>1, <1>2 DEF EnvFate

\* While the adapter waits for a response the miss handler keeps its request.
LEMMA MhWaits ==
  ASSUME TypeOK, InvAdapter, NEW in, Edge(in), ad.state = "WAIT_R"
  PROVE  /\ mh'.state = mh.state /\ mh'.addr = mh.addr /\ mh'.id = mh.id
         /\ mh.state \in {"SAVE_CACHELINE", "SEND_CLEAN"}
<1>1. mh.state \in {"SAVE_CACHELINE", "SEND_CLEAN"} /\ MhMoves(in) /\ ~valid_miss_fsm(in)
  BY DEF InvAdapter, Edge, valid_miss_fsm
<1> QED BY <1>1 DEF MhMoves, MhKeeps, MhServes

\* A response is decided, or stays as it was decided.
LEMMA GrantStep ==
  ASSUME TypeOK, InvAdapter, NEW in, DataEdge(in), Granted'
  PROVE  /\ ad.state = "WAIT_R"
         /\ mh'.state = mh.state /\ mh'.addr = mh.addr /\ mh'.id = mh.id
         /\ mh.state \in {"SAVE_CACHELINE", "SEND_CLEAN"}
         /\ \/ OwnFate(in, mh.addr) /\ Grant' = ccu'.resp
            \/ /\ Arriving /\ Grant = ccu.resp /\ Grant'.shared = ccu.resp.shared
               /\ Grant'.dirty = ccu.resp.dirty /\ Grant'.data = ccu.resp.data
<1>1. /\ in \in Inputs /\ AdMoves(in) /\ AdCarries(in) /\ RespMoves(in) /\ ad.state \in AdStates
      /\ Edge(in) /\ TypeOK'
  BY DEF DataEdge, Edge, TypeOK, CacheTypeOK
<1>2. in.r = "last" <=> ccu.rlat = 0
  <2>1. in.r \in Beats
    BY <1>1, InputFacts
  <2> QED BY <2>1 DEF Beats
<1>3. ad'.state = "COMPLETE_READ" => ad.state = "WAIT_R" /\ in.r = "last"
  BY <1>1 DEF AdMoves, AdStates
<1>4. None # 0
  BY DCacheAssumption
<1>5. CASE OwnFate(in, mh.addr)
  <2>1. ad.state = "WAIT_R" /\ ccu.rlat = None
    BY <1>5 DEF OwnFate
  <2>2. ad'.state # "COMPLETE_READ"
    BY <1>2, <1>3, <1>4, <2>1
  <2> QED BY <1>1, <1>5, <2>1, <2>2, MhWaits DEF Grant
<1>6. CASE ~OwnFate(in, mh.addr)
  <2>1. /\ ccu'.resp = IF ccu.rlat = 0 THEN NoResp ELSE ccu.resp
        /\ ccu'.state = "OWN" => ccu.state = "OWN"
        /\ ccu'.rlat # None => ccu.state = "OWN" \/ ccu.rlat \notin {None, 0}
    BY <1>1, <1>6 DEF RespMoves
  <2>2. Arriving
    BY <1>2, <1>3, <1>4, <2>1 DEF Arriving, Granted
  <2>3. ad.state = "WAIT_R"
    BY <2>2 DEF Arriving, InvAdapter
  <2>4. CASE ad'.state = "COMPLETE_READ"
    BY <1>1, <1>3, <2>2, <2>3, <2>4, MhWaits DEF Grant, AdCarries
  <2>5. CASE ad'.state # "COMPLETE_READ"
    <3>1. ccu.rlat # 0
      BY <1>1, <1>2, <2>3, <2>5 DEF AdMoves
    <3> QED BY <1>1, <2>1, <2>2, <2>3, <2>5, <3>1, MhWaits DEF Grant
  <2> QED BY <2>4, <2>5
<1> QED BY <1>5, <1>6

\* A response is used before a snoop that follows it acts.
LEMMA ArrivalStepInv ==
  ASSUME RDelay <= 1, TypeOK, InvSnoop, InvAmo, InvAdapter, InvArrival, NEW in, DataEdge(in)
  PROVE  InvArrival'
<1>1. /\ in \in Inputs /\ AdMoves(in) /\ CcuMoves(in) /\ SnpMoves(in) /\ ad.state \in AdStates
      /\ ccu.rlat \in 0 .. RDelay + 1 \cup {None}
  BY DEF DataEdge, Edge, TypeOK, CacheTypeOK
<1>2. RDelay \in Nat /\ None \notin Nat
  BY DCacheAssumption, SystemAssumption
<1>4. /\ in.ac = ccu.ac /\ (in.amo_valid => ccu.state = "AMO")
      /\ in.r = "last" => ccu.rlat = 0
  BY <1>1, InputFacts, BeatFacts
<1>6. ccu'.rlat # None =>
        \/ ccu.rlat \notin {None, 0} /\ ccu'.rlat = ccu.rlat - 1
        \/ /\ ccu'.state = "IDLE" /\ ccu'.turn = 1 /\ ccu'.rlat \in 1 .. RDelay + 1
  BY <1>1, <1>2 DEF CcuMoves, InvAdapter, Lat
<1>7. ad'.state = "COMPLETE_READ" => ad.state = "WAIT_R" /\ in.r = "last"
  BY <1>1 DEF AdMoves, AdStates
<1>8. ccu.rlat # None => /\ ccu.rlat <= 2 /\ ccu.state \in {"IDLE", "AC"}
                         /\ ccu.rlat # 0 => ccu.state = "IDLE"
                         /\ ccu.rlat = 2 => ccu.turn = 1
  BY DEF InvArrival
<1>9. ad'.state = "COMPLETE_READ" => snp'.state \in {"IDLE", "WAIT_GNT"}
  <2>1. ad'.state = "COMPLETE_READ" => ccu.state \in {"IDLE", "AC"}
    BY <1>2, <1>4, <1>7, <1>8
  <2> QED BY <1>1, <2>1 DEF SnpMoves, InvSnoop
<1>10. ASSUME ccu.rlat \notin {None, 0}, ccu'.rlat = ccu.rlat - 1
       PROVE  /\ ccu'.rlat <= 2 /\ ccu'.rlat # 2 /\ ccu'.state \in {"IDLE", "AC"}
              /\ ccu'.rlat # 0 => ccu'.state = "IDLE"
  <2>1. ccu.rlat \in 1 .. 2 /\ ccu.state = "IDLE" /\ (ccu.rlat = 2 => ccu.turn = 1)
    BY <1>1, <1>2, <1>8, <1>10
  <2>2. ~ac_ready(in) /\ snp.state = "IDLE" /\ ~in.amo_valid
    BY <1>4, <2>1 DEF InvSnoop, ac_ready
  <2>3. ~Answered(in) /\ ~CrTaken(in)
    BY <2>2 DEF Answered, CrTaken, CdTaken
  <2>4. mh.state # "AMO_WAIT_RESP"
    BY <1>10 DEF InvAdapter
  <2>5. ccu'.state \in {"IDLE", "AC"} /\ (ccu'.state = "AC" => Free)
    BY <1>1, <1>10, <2>1, <2>2, <2>3, <2>4 DEF CcuMoves
  <2>6. ccu.rlat = 2 => ~Free
    BY <2>1 DEF Free
  <2> QED BY <1>10, <2>1, <2>5, <2>6
<1>11. ccu'.rlat # None =>
         /\ ccu'.rlat <= 2 /\ ccu'.state \in {"IDLE", "AC"}
         /\ ccu'.rlat # 0 => ccu'.state = "IDLE"
         /\ ccu'.rlat = 2 => ccu'.turn = 1
  BY <1>2, <1>6, <1>10
<1> QED BY <1>9, <1>11 DEF InvArrival

\* Where a copy comes from: it was there, it is refilled, or a store wrote it.
LEMMA HitFate ==
  ASSUME TypeOK, StoreHits, NEW in, SramStep(in), NEW a \in Addr, NEW w \in HitWays(a)'
  PROVE  /\ w \in Ways /\ Index(a) \in Sets
         /\ \/ w \in HitWays(a) /\ Kept(Index(a), w)
            \/ Brought(in, Index(a), w) /\ mh.addr = a
            \/ w \in HitWays(a) /\ Wrote(in, Index(a), w) /\ cc[STORE].addr = a
<1>1. /\ w \in Ways /\ Index(a) \in Sets /\ sram'[Index(a)][w].valid /\ sram'[Index(a)][w].tag = a
  BY IndexType DEF HitWays, Index
<1>2. CASE Kept(Index(a), w)
  BY <1>1, <1>2 DEF Kept, HitWays
<1>3. CASE Brought(in, Index(a), w)
  BY <1>1, <1>3 DEF Brought
<1>4. CASE Wrote(in, Index(a), w)
  <2>1. cc[STORE].way \in HitWays(cc[STORE].addr)
    BY <1>4 DEF Wrote, StoreWrites, StoreHits
  <2> QED BY <1>1, <1>4, <2>1 DEF Wrote, HitWays
<1> QED BY <1>1, <1>2, <1>3, <1>4, LineFate

\* The other caches keep no more than the response says.
LEMMA GrantedStepInv ==
  ASSUME TypeOK, InvSnoop, InvAdapter, InvArrival, InvGranted, NEW in, DataEdge(in)
  PROVE  InvGranted'
<1>0. mh.addr \in Addr /\ None # 0 /\ rest \in [Addr -> Held]
  BY DCacheAssumption DEF TypeOK, CacheTypeOK
<1>1. SUFFICES ASSUME Granted'
               PROVE  \/ rest'[mh'.addr].held = "none"
                      \/ mh'.id # STORE /\ Grant'.shared /\ rest'[mh'.addr].held = "shared"
  BY DEF InvGranted
<1>2. mh'.addr = mh.addr /\ mh'.id = mh.id /\ mh.state \in {"SAVE_CACHELINE", "SEND_CLEAN"}
  BY <1>1, GrantStep
<1>3. CASE OwnFate(in, mh.addr) /\ Grant' = ccu'.resp
  BY <1>2, <1>3 DEF OwnFate
<1>4. CASE Arriving /\ Grant = ccu.resp /\ Grant'.shared = ccu.resp.shared
  <2>1. \/ rest[mh.addr].held = "none"
        \/ mh.id # STORE /\ ccu.resp.shared /\ rest[mh.addr].held = "shared"
    BY <1>4 DEF InvGranted, Granted
  <2>2. ccu.state \in {"OWN", "IDLE", "AC"}
    BY <1>4 DEF Arriving, InvArrival
  <2>3. ~Answering
    BY <2>2 DEF InvSnoop, Answering
  <2>4. EnvFate(in, mh.addr)
    BY <1>0 DEF DataEdge
  <2> QED BY <1>0, <1>2, <1>4, <2>1, <2>3, <2>4, HeldStep
<1> QED BY <1>1, <1>3, <1>4, GrantStep

\* The cache leaves the initial state with no line.
LEMMA InitEmpties ==
  ASSUME TypeOK, InvFlush, NEW in, Edge(in), SramStep(in), mh.state = "INIT", mh'.state # "INIT"
  PROVE  \A s \in Sets : \A w \in Ways : ~sram'[s][w].valid
<1>1. SUFFICES ASSUME NEW s \in Sets, NEW w \in Ways PROVE ~sram'[s][w].valid
  OBVIOUS
<1>2. MhMoves(in) /\ mh.cnt = NumSets - 1
  BY DEF Edge, MhMoves, MhOthers
<1>3. s < mh.cnt \/ s = mh.cnt
  BY <1>2, DCacheAssumption DEF Sets
<1>4. CASE s < mh.cnt
  <2>1. Empty(s)'
    BY <1>4, NothingArrives DEF InvFlush
  <2> QED BY <2>1 DEF Empty
<1>5. CASE s = mh.cnt
  BY <1>5, SetCleared
<1> QED BY <1>3, <1>4, <1>5

\* Copies are coherent: a refill brings what was granted, a store writes what it owns,
\* and a snoop is answered after the copy has followed it.
LEMMA CoherentStepInv ==
  ASSUME TypeOK, InvSnoop, InvAdapter, InvFlush, StoreHits, InvFound, InvArrival,
         InvGranted, InvAnswer, InvOwner, Coherent, NEW in, DataEdge(in)
  PROVE  Coherent'
<1>0. /\ in \in Inputs /\ SramStep(in) /\ rest \in [Addr -> Held] /\ TypeOK'
      /\ MhMoves(in) /\ mh.state \in MissStates
  BY DEF TypeOK, CacheTypeOK, DataEdge, Edge
<1>1. SUFFICES ASSUME Running', NEW a \in Addr, NEW w \in HitWays(a)'
               PROVE  IF sram'[Index(a)][w].shared THEN rest'[a].held # "unique"
                      ELSE rest'[a].held = "none"
  BY DEF Coherent, HitWays, Index
<1>2. EnvFate(in, a) /\ rest[a].held \in {"none", "shared", "unique"}
  <2>1. rest[a] \in Held
    BY <1>0
  <2> QED BY <2>1 DEF DataEdge, Held
<1>3. CASE Running
  <2>1. CASE w \in HitWays(a) /\ Kept(Index(a), w)
    <3>1. IF sram[Index(a)][w].shared THEN rest[a].held # "unique" ELSE rest[a].held = "none"
      BY <1>3, <2>1 DEF Coherent
    <3>2. Answering /\ a = snp.addr =>
            /\ snp.snoop \in {"READ_ONCE", "READ_SHARED"}
            /\ snp.snoop = "READ_SHARED" => sram[Index(a)][w].shared /\ snp.cr.data
      BY <2>1 DEF InvAnswer
    <3>3. \/ rest'[a].held = rest[a].held \/ rest'[a].held = "none"
          \/ rest[a].held # "none" /\ rest'[a].held = "shared"
          \/ sram[Index(a)][w].shared /\ rest'[a].held = "shared"
      <4>1. \/ rest'[a].held = rest[a].held \/ rest'[a].held = "none"
            \/ rest[a].held # "none" /\ rest'[a].held = "shared"
            \/ /\ Answering /\ a = snp.addr /\ snp.snoop # "READ_ONCE"
               /\ snp.snoop = "READ_SHARED" /\ snp.cr.data => rest'[a].held = "shared"
        BY <1>2, HeldStep
      <4> QED BY <3>2, <4>1
    <3>4. CASE sram[Index(a)][w].shared
      BY <2>1, <3>1, <3>3, <3>4 DEF Kept
    <3>5. CASE ~sram[Index(a)][w].shared
      BY <3>1, <3>3, <3>5
    <3> QED BY <3>4, <3>5
  <2>2. CASE Brought(in, Index(a), w) /\ mh.addr = a
    <3>1. /\ ad.state = "COMPLETE_READ" /\ Granted /\ snp.state \in {"IDLE", "WAIT_GNT"}
          /\ sram'[Index(a)][w].shared = (mh.id # STORE /\ ad.shared)
      BY <2>2, RefillFacts DEF Brought
    <3>2. rest[a].held = "none" \/ (mh.id # STORE /\ ad.shared /\ rest[a].held = "shared")
      BY <2>2, <3>1 DEF InvGranted, Grant
    <3>3. ~Answering
      BY <3>1 DEF Answering
    <3>4. \/ rest'[a].held = "none"
          \/ mh.id # STORE /\ ad.shared /\ rest'[a].held = "shared"
      BY <1>0, <1>2, <3>2, <3>3, HeldStep
    <3> QED BY <3>1, <3>4
  <2>3. CASE w \in HitWays(a) /\ Wrote(in, Index(a), w) /\ cc[STORE].addr = a
    <3>1. updating_cache(STORE) /\ ~sram'[Index(a)][w].shared
      BY <2>3 DEF Wrote, StoreWrites
    <3>2. rest[a].held = "none" /\ (Answering /\ snp.addr = a => snp.snoop = "READ_ONCE")
      BY <2>3, <3>1 DEF InvOwner
    <3> QED BY <1>0, <1>2, <3>1, <3>2, HeldStep
  <2> QED BY <1>0, <2>1, <2>2, <2>3, HitFate
<1>4. CASE ~Running
  <2>1. ~sram'[Index(a)][w].valid
    BY <1>0, <1>1, <1>4, InitEmpties, IndexType DEF Running, HitWays, DataEdge
  <2> QED BY <1>1, <2>1 DEF HitWays, Index
<1> QED BY <1>3, <1>4

\* While the snoop controller works on the SRAM, lines are kept or lost.
LEMMA Undisturbed ==
  ASSUME TypeOK, InvAdapter, InvArrival, NEW in, SramStep(in),
         snp.state \in {"EVAL_FLAGS", "UPDATE_SHARED", "INVALIDATE"},
         NEW s \in Sets, NEW w \in Ways
  PROVE  Kept(s, w) \/ (~sram'[s][w].valid /\ Lost(in, s, w))
<1>1. ~RefillWrites(in)
  BY RefillFacts
<1>2. ~StoreWrites(in)
  BY StorePort
<1> QED BY <1>1, <1>2, LineFate DEF Brought, Wrote

\* The snoop controller keeps knowing the way it found.
LEMMA SnoopedStepInv ==
  ASSUME TypeOK, InvAdapter, InvRows, InvFound, InvArrival, InvSnooped, NEW in, DataEdge(in)
  PROVE  InvSnooped'
<1>0. /\ SramStep(in) /\ SnpCarries(in) /\ TypeOK' /\ snp.addr \in Addr
      /\ snp'.state \in SnpStates /\ Index(snp.addr) \in Sets
      /\ NoCr.data = FALSE /\ NoCr.dirty = FALSE
  BY IndexType DEF DataEdge, TypeOK, CacheTypeOK, NoCr
<1>1. snp'.state # "IDLE" /\ snp'.cr.dirty =>
        snp'.cr.data /\ snp'.snoop \in {"READ_UNIQUE", "CLEAN_INVALID"}
  BY <1>0 DEF SnpCarries, SnpSame, SnpLooks, InvSnooped
<1>2. snp'.state \in {"WAIT_GNT", "EVAL_FLAGS"} => ~snp'.cr.dirty /\ ~snp'.cr.data
  BY <1>0 DEF SnpCarries, SnpSame, SnpLooks, InvSnooped
<1>3. ASSUME snp'.state \in {"UPDATE_SHARED", "INVALIDATE"}
      PROVE  /\ snp'.way \in Ways /\ HitWays(snp.addr)' \subseteq {snp'.way}
             /\ sram'[Index(snp.addr)][snp'.way].valid => sram'[Index(snp.addr)][snp'.way].tag = snp.addr
             /\ snp'.addr = snp.addr
             /\ snp'.state = "UPDATE_SHARED" => snp'.snoop = "READ_SHARED" /\ snp'.cr.data
             /\ snp'.state = "INVALIDATE" =>
                  /\ snp'.snoop \in {"READ_UNIQUE", "CLEAN_INVALID"}
                  /\ \A w \in HitWays(snp.addr)' : sram'[Index(snp.addr)][w].dirty => snp'.cr.dirty
  <2>1. snp.state \in {"EVAL_FLAGS", "UPDATE_SHARED", "INVALIDATE"} /\ snp'.addr = snp.addr
    BY <1>0, <1>3 DEF SnpCarries, SnpSame, SnpLooks
  <2>2. PICK a \in Addr : a = snp.addr
    BY <1>0
  <2>3. \A w \in Ways : \/ Kept(Index(a), w)
                        \/ ~sram'[Index(a)][w].valid
    BY <1>0, <2>1, <2>2, Undisturbed
  <2>4. /\ snp'.way \in Ways /\ HitWays(a) \subseteq {snp'.way}
        /\ sram[Index(a)][snp'.way].valid => sram[Index(a)][snp'.way].tag = a
        /\ snp'.state = "UPDATE_SHARED" => snp'.snoop = "READ_SHARED" /\ snp'.cr.data
        /\ snp'.state = "INVALIDATE" =>
             /\ snp'.snoop \in {"READ_UNIQUE", "CLEAN_INVALID"}
             /\ \A w \in HitWays(a) : sram[Index(a)][w].dirty => snp'.cr.dirty
    <3>1. CASE snp'.state = snp.state /\ SnpSame
      BY <1>3, <2>2, <3>1 DEF SnpSame, InvSnooped
    <3>2. CASE snp.state = "EVAL_FLAGS" /\ HitWays(a) # {} /\ snp'.way = HitWay(a) /\ SnpLooks
      <4>1. Running
        BY <3>2 DEF InvFound, Running
      <4>2. snp'.way \in HitWays(a) /\ HitWays(a) \subseteq Ways
        BY <3>2, HitWayType
      <4>3. \A w \in HitWays(a) : w = snp'.way
        BY <1>0, <2>2, <4>1, <4>2 DEF InvRows, HitWays
      <4>4. sram[Index(a)][snp'.way].valid => sram[Index(a)][snp'.way].tag = a
        BY <4>2 DEF HitWays
      <4>5. /\ snp'.state = "UPDATE_SHARED" => snp'.snoop = "READ_SHARED" /\ snp'.cr.data
            /\ snp'.state = "INVALIDATE" =>
                 /\ snp'.snoop \in {"READ_UNIQUE", "CLEAN_INVALID"}
                 /\ sram[Index(a)][snp'.way].dirty = snp'.cr.dirty
        BY <1>3, <2>2, <3>2 DEF SnpLooks
      <4> QED BY <4>2, <4>3, <4>4, <4>5
    <3>3. \/ snp'.state = snp.state /\ SnpSame
          \/ snp.state = "EVAL_FLAGS" /\ HitWays(a) # {} /\ snp'.way = HitWay(a) /\ SnpLooks
      BY <1>0, <1>3, <2>1, <2>2 DEF SnpCarries, SnpLooks
    <3> QED BY <3>1, <3>2, <3>3
  <2>5. HitWays(a)' \subseteq HitWays(a)
    BY <2>3 DEF HitWays, Index, Kept
  <2>6. \A w \in HitWays(a)' : sram'[Index(a)][w].dirty = sram[Index(a)][w].dirty
    BY <2>3 DEF HitWays, Index, Kept
  <2>7. sram'[Index(a)][snp'.way].valid => sram'[Index(a)][snp'.way].tag = a
    BY <2>3, <2>4 DEF Kept
  <2>8. HitWays(a)' = HitWays(snp.addr)'
    BY <2>1, <2>2 DEF HitWays, Index
  <2> QED BY <2>1, <2>2, <2>4, <2>5, <2>6, <2>7, <2>8
<1> QED BY <1>1, <1>2, <1>3 DEF InvSnooped, HitWays, Index

\* A line that stays in the cache when a snoop is answered is one the snoop leaves.
LEMMA AnswerStepInv ==
  ASSUME TypeOK, InvAdapter, InvFound, InvArrival, InvSnooped, InvAnswer, InvOwner, StoreHits,
         NEW in, DataEdge(in)
  PROVE  InvAnswer'
<1>0. /\ SramStep(in) /\ SnpCarries(in) /\ snp.addr \in Addr /\ Index(snp.addr) \in Sets
      /\ snp.state \in SnpStates
  BY IndexType DEF DataEdge, TypeOK, CacheTypeOK
<1>1. SUFFICES ASSUME Answering', NEW a \in Addr, a = snp'.addr, NEW w \in HitWays(a)'
               PROVE  /\ snp'.snoop \in {"READ_ONCE", "READ_SHARED"}
                      /\ snp'.snoop = "READ_SHARED" => sram'[Index(a)][w].shared /\ snp'.cr.data
  <2>1. snp'.addr \in Addr
    BY DEF DataEdge, TypeOK, CacheTypeOK
  <2> QED BY <2>1 DEF InvAnswer, HitWays, Index
<1>2. snp'.addr = snp.addr /\ snp.state \notin {"IDLE", "WAIT_GNT"} /\ snp'.snoop = snp.snoop
  BY <1>0, <1>1 DEF SnpCarries, SnpSame, SnpLooks, Answering
<1>3. ~RefillWrites(in)
  BY <1>2, RefillFacts
<1>4. \/ w \in HitWays(a) /\ Kept(Index(a), w)
      \/ w \in HitWays(a) /\ Wrote(in, Index(a), w) /\ cc[STORE].addr = a
  BY <1>0, <1>1, <1>3, HitFate DEF Brought
<1>5. CASE Answering /\ SnpSame
  <2>1. CASE Kept(Index(a), w)
    BY <1>1, <1>2, <1>4, <1>5, <2>1 DEF InvAnswer, Kept, SnpSame
  <2>2. CASE Wrote(in, Index(a), w) /\ cc[STORE].addr = a
    BY <1>1, <1>2, <1>5, <2>2 DEF Wrote, StoreWrites, InvOwner
  <2> QED BY <1>4, <2>1, <2>2
<1>6. CASE snp.state = "UPDATE_SHARED" /\ SnpGnt(in) /\ SnpSame
  <2>1. snp.way \in Ways /\ w = snp.way /\ snp.cr.data /\ snp.snoop = "READ_SHARED"
    BY <1>1, <1>2, <1>4, <1>6 DEF InvSnooped
  <2>2. sram'[Index(a)][w].shared
    BY <1>0, <1>1, <1>2, <1>6, <2>1, LineShared
  <2> QED BY <1>2, <1>6, <2>1, <2>2 DEF SnpSame
<1>7. CASE snp.state = "INVALIDATE" /\ SnpGnt(in)
  <2>1. invalidate(a)
    BY <1>1, <1>2, <1>7 DEF invalidate
  <2> QED BY <1>0, <1>1, <1>7, <2>1, SnoopRemoves
<1>8. CASE SnpLooks
  BY <1>1, <1>2, <1>4, <1>8 DEF SnpLooks, Answering
<1> QED BY <1>0, <1>1, <1>2, <1>5, <1>6, <1>7, <1>8 DEF SnpCarries, Answering

\* No other cache has, or will get, the line a store is about to write.
LEMMA OwnerStepInv ==
  ASSUME ControlInv, StoreInv, LineInv, WayKept, CoherenceInv, NEW in, DataEdge(in), StoreHits'
  PROVE  InvOwner'
<1>0. /\ TypeOK /\ in \in Inputs /\ SramStep(in) /\ SnpCarries(in) /\ StoreMoves(in, cc'[STORE])
      /\ SnpMoves(in) /\ MhMoves(in) /\ cc[STORE].addr \in Addr /\ rest \in [Addr -> Held]
      /\ StoreHits
  BY StoreInvHits DEF ControlInv, DataEdge, Edge, TypeOK, CacheTypeOK, CtrlPorts, STORE
<1>1. SUFFICES ASSUME updating_cache(STORE)', NEW a \in Addr, a = cc[STORE].addr
               PROVE  /\ rest'[a].held = "none" /\ cc'[STORE].addr = a
                      /\ Answering' /\ snp'.addr = a => snp'.snoop = "READ_ONCE"
  BY <1>0 DEF InvOwner
<1>2. cc'[STORE].state = "STORE_REQ" /\ ~cc'[STORE].colliding_clean /\ ~cc'[STORE].colliding_read
  BY <1>1 DEF updating_cache
<1>3. cc'[STORE].addr = a /\ cc'[STORE].way \in HitWays(a)'
  <2>1. cc'[STORE].addr = a
    BY <1>0, <1>1, <1>2 DEF StoreMoves
  <2> QED BY <1>1, <2>1 DEF StoreHits, HitWays, Index
<1>4. EnvFate(in, a)
  BY DEF DataEdge
<1>5. \* it is enough that no other cache has the line now, and how a snoop can stand
      ASSUME rest[a].held = "none",
             Answering /\ snp.addr = a => snp.snoop = "READ_ONCE",
             snp.state = "UPDATE_SHARED" /\ snp.addr = a => ~SnpGnt(in),
             snp.state = "INVALIDATE" => snp.addr # a,
             snp.state = "EVAL_FLAGS" /\ snp.addr = a => HitWays(a) # {}
      PROVE  /\ rest'[a].held = "none"
             /\ Answering' /\ snp'.addr = a => snp'.snoop = "READ_ONCE"
  <2>1. rest'[a].held = "none"
    BY <1>0, <1>4, <1>5, HeldStep
  <2>2. Answering' /\ snp'.addr = a => snp'.snoop = "READ_ONCE"
    BY <1>0, <1>5 DEF SnpCarries, SnpSame, SnpLooks, Answering
  <2> QED BY <2>1, <2>2
<1>6. CASE /\ cc[STORE].state \in {"WAIT_TAG", "WAIT_TAG_SAVED"}
           /\ cc'[STORE].way \in HitWays(a) /\ ~sram[Index(a)][cc'[STORE].way].shared
  <2>1. snp.state \notin {"EVAL_FLAGS", "UPDATE_SHARED", "INVALIDATE"}
    BY <1>6 DEF StoreInv, InvLookup
  <2>2. Running
    BY <1>6 DEF ControlInv, InvFlush, Running, CtrlPorts, STORE
  <2>3. rest[a].held = "none"
    BY <1>6, <2>2 DEF CoherenceInv, Coherent
  <2>4. Answering /\ snp.addr = a => snp.snoop = "READ_ONCE"
    BY <1>6 DEF CoherenceInv, InvAnswer
  <2> QED BY <1>3, <1>5, <2>1, <2>3, <2>4
<1>7. CASE cc[STORE].state = "MAKE_UNIQUE" /\ miss_gnt(STORE, in) /\ ~miss_write_done(in)
  <2>1. mh.state = "SEND_CLEAN" /\ ad.state = "COMPLETE_READ" /\ mh.make_unique /\ mh.valid
    BY <1>0, <1>7, GrantFacts DEF ControlInv, CtrlPorts, STORE, miss_gnt, miss_write_done, InvMshr,
       valid_miss_fsm, InvAdapter, WbStates, ReqStates, Cleaning
  <2>2. mh.id = STORE /\ mh.addr = a
    BY <1>1, <2>1 DEF ControlInv, InvMshr
  <2>3. rest[a].held = "none" /\ snp.state \in {"IDLE", "WAIT_GNT"}
    BY <2>1, <2>2 DEF CoherenceInv, InvGranted, Granted, InvArrival
  <2> QED BY <1>3, <1>5, <2>3 DEF Answering
<1>8. CASE /\ cc[STORE].state = "STORE_REQ" /\ ~mshr_index_matches(STORE)
           /\ ~cc[STORE].colliding_clean /\ ~invalidate(a)
           /\ ~cc[STORE].colliding_read /\ ~readshared_done(a, in)
  <2>1. updating_cache(STORE) /\ cc[STORE].way \in HitWays(a)
    BY <1>0, <1>1, <1>8 DEF updating_cache, StoreHits
  <2>2. rest[a].held = "none" /\ (Answering /\ snp.addr = a => snp.snoop = "READ_ONCE")
    BY <1>1, <2>1 DEF CoherenceInv, InvOwner
  <2> QED BY <1>3, <1>5, <1>8, <2>1, <2>2 DEF invalidate, readshared_done
<1> QED BY <1>0, <1>1, <1>2, <1>6, <1>7, <1>8 DEF StoreMoves

\* Nothing is granted, snooped or stored at reset.
LEMMA InitCoherence == Init => CoherenceInv
BY DCacheAssumption DEF Init, CacheInit, CoherenceInv, InvArrival, InvGranted, Granted, Arriving,
   InvSnooped, NoCr, InvAnswer, Answering, InvOwner, updating_cache, CtrlPorts, STORE, Coherent,
   Running

\* An edge keeps this cache coherent with the others.
LEMMA NextCoherence ==
  ASSUME RDelay <= 1
  PROVE  /\ ControlInv /\ StoreInv /\ LineInv /\ WayKept /\ CoherenceInv /\ StoreInv'
         /\ [Next]_vars
         => CoherenceInv'
<1> SUFFICES ASSUME ControlInv, StoreInv, LineInv, WayKept, CoherenceInv, StoreInv', [Next]_vars
             PROVE  CoherenceInv'
  OBVIOUS
<1>1. CASE Next
  <2>1. PICK in \in Inputs : CacheStep(in) /\ CoreStep(in) /\ EnvStep(in)
    BY <1>1 DEF Next
  <2>2. DataEdge(in)
    BY <2>1, DataEdgeFacts
  <2>3. /\ TypeOK /\ InvSnoop /\ InvAmo /\ InvAdapter /\ InvFlush /\ InvRows /\ InvFound
        /\ InvArrival /\ InvGranted /\ InvSnooped /\ InvAnswer /\ InvOwner /\ Coherent
    BY DEF ControlInv, LineInv, CoherenceInv
  <2>4. StoreHits /\ StoreHits'
    BY StoreInvHits DEF StoreInv, InvStore, StoreHits, updating_cache
  <2>5. InvArrival' /\ InvGranted' /\ InvSnooped'
    BY <2>2, <2>3, ArrivalStepInv, GrantedStepInv, SnoopedStepInv
  <2>6. InvAnswer' /\ InvOwner'
    BY <2>2, <2>3, <2>4, AnswerStepInv, OwnerStepInv
  <2>7. Coherent'
    BY <2>2, <2>3, <2>4, CoherentStepInv
  <2> QED BY <2>5, <2>6, <2>7 DEF CoherenceInv
<1>2. CASE UNCHANGED vars
  BY <1>2 DEF vars, cacheVars, envVars, CoherenceInv, InvArrival, InvGranted, Granted, Arriving,
     Grant, InvSnooped, InvAnswer, Answering, InvOwner, updating_cache, mshr_index_matches,
     Coherent, Running, HitWays, Index
<1> QED BY <1>1, <1>2

\* CoherenceInv is invariant on top of the control, line and store invariants.
LEMMA CoherenceHolds ==
  ASSUME RDelay <= 1
  PROVE  Spec /\ []WayKept => [](ControlInv /\ StoreInv /\ LineInv /\ CoherenceInv)
<1>1. /\ ControlInv /\ StoreInv /\ LineInv /\ WayKept /\ CoherenceInv /\ StoreInv'
      /\ [Next]_vars
      => CoherenceInv'
  BY NextCoherence
<1> QED BY <1>1, InitCoherence, StoresHold, PTL DEF Spec

\* The ACE rule for this cache: a copy that is not marked shared is the only one, and no
\* other cache owns a line that is valid here, whatever snoops, refills, CleanUniques,
\* stores, flushes and AMOs are interleaved.  It needs the response of the coherence unit to
\* arrive before the next snoop acts (RDelay <= 1, see DcLateBeat) and WayKept.
THEOREM CoherentHolds == ASSUME RDelay <= 1 PROVE Spec /\ []WayKept => []Coherent
<1>1. CoherenceInv => Coherent
  BY DEF CoherenceInv
<1> QED BY <1>1, CoherenceHolds, PTL

\* A store that writes the SRAM writes the way of its line while no other cache has a
\* copy: neither a snoop nor a late response can come between.
THEOREM StoreSafeHolds == ASSUME RDelay <= 1 PROVE Spec /\ []WayKept => []StoreSafe
<1>1. StoreInv /\ CoherenceInv => StoreSafe
  BY StoreInvHits DEF CoherenceInv, InvOwner, StoreHits, StoreSafe
<1> QED BY <1>1, CoherenceHolds, PTL
-----------------------------------------------------------------------------
(***************************************************************************)
(* ValueInv.                                                               *)
(***************************************************************************)
\* A store and a refill that are granted the SRAM write it.
LEMMA LineWritten ==
  ASSUME TypeOK, NEW in, SramStep(in)
  PROVE  /\ StoreWrites(in) /\ cc[STORE].way \in Ways =>
              Wrote(in, Index(cc[STORE].addr), cc[STORE].way)
         /\ RefillWrites(in) /\ mh.way \in Ways => Brought(in, Index(mh.addr), mh.way)
<1>0. /\ sram \in [Sets -> [Ways -> Lines]] /\ cc[STORE].addr \in Addr /\ mh.addr \in Addr
      /\ Index(cc[STORE].addr) \in Sets /\ Index(mh.addr) \in Sets
  BY IndexType DEF TypeOK, CacheTypeOK, CtrlPorts, STORE
<1>1. ASSUME StoreWrites(in), cc[STORE].way \in Ways
      PROVE  Wrote(in, Index(cc[STORE].addr), cc[STORE].way)
  <2> DEFINE s == Index(cc[STORE].addr)
             w == cc[STORE].way
  <2>1. sram' = Put(s, w, Stored(sram[s][w]))
    BY <1>1, StorePort DEF SramStep, MhReq, Put
  <2>2. s \in Sets /\ w \in Ways
    BY <1>0, <1>1
  <2>3. sram[s][w] \in Lines
    BY <1>0, <2>2
  <2>4. sram'[s][w] = Stored(sram[s][w])
    <3> HIDE DEF s, w
    <3> QED BY <1>0, <2>1, <2>2, PutAt
  <2>5. /\ sram'[s][w].valid /\ sram'[s][w].tag = sram[s][w].tag
        /\ ~sram'[s][w].shared /\ sram'[s][w].dirty /\ sram'[s][w].data = Merge(sram[s][w].data)
    <3> HIDE DEF s, w
    <3> QED BY <2>3, <2>4 DEF Stored, Lines
  <2> QED BY <1>1, <2>5 DEF Wrote
<1>2. ASSUME RefillWrites(in), mh.way \in Ways
      PROVE  Brought(in, Index(mh.addr), mh.way)
  <2> DEFINE s == Index(mh.addr)
             w == mh.way
  <2>1. sram' = Put(s, w, Refilled)
    <3>1. mh.state = "SAVE_CACHELINE" /\ MhWrites(in)
      BY <1>2 DEF RefillWrites, MhWrites
    <3>2. MhWritten(in) = Put(s, w, Refilled)
      BY <3>1 DEF MhWritten, WbStates, Put
    <3> QED BY <3>1, <3>2 DEF SramStep
  <2>2. sram'[s][w] = Refilled
    <3>1. s \in Sets /\ w \in Ways
      BY <1>0, <1>2
    <3> HIDE DEF s, w
    <3> QED BY <1>0, <2>1, <3>1, PutAt
  <2> QED BY <1>2, <2>2 DEF Brought, Refilled
<1> QED BY <1>1, <1>2

\* The core's stores.
LEMMA OwnStoresAre ==
  ASSUME NEW in, NEW a, a \in OwnStores(in)
  PROVE  \/ StoreWrites(in) /\ a = cc[STORE].addr
         \/ RefillWrites(in) /\ mh.id = STORE /\ a = mh.addr
BY DEF OwnStores

\* While the cache is initialised nobody has a line and memory is up to date.
LEMMA InitQuiet ==
  ASSUME TypeOK, InvAdapter, InvFlush, InvFound, InvRest, mh.state = "INIT",
         NEW in, DataEdge(in), NEW a \in Addr
  PROVE  rest'[a].held = "none" /\ ~rest'[a].dirty /\ memv'[a] = latest'[a]
<1>1. /\ EnvFate(in, a) /\ rest[a].held = "none" /\ ~rest[a].dirty /\ memv[a] = latest[a]
  BY DEF DataEdge, InvRest, Running
<1>2. /\ ad.state \notin {"WAIT_R", "WAIT_B"} /\ snp.state \in {"IDLE", "WAIT_GNT"}
      /\ cc[STORE].state = "IDLE"
  BY DEF InvAdapter, WbStates, InvFlush, InvFound, CtrlPorts, STORE
<1>3. a \notin OwnStores(in) /\ ~Answered(in)
  BY <1>2 DEF OwnStores, StoreWrites, updating_cache, RefillWrites, Answered, CrTaken, CdTaken
<1>4. rest'[a] = rest[a] /\ memv'[a] = memv[a] /\ Versioned(in, a, FALSE)
  BY <1>1, <1>2, <1>3 DEF EnvFate, SnoopFate, OwnFate
<1> QED BY <1>1, <1>3, <1>4 DEF Versioned

\* Lines stay in the sets of their addresses.
LEMMA PlacedStepInv ==
  ASSUME TypeOK, InvFlush, StoreHits, InvPlaced, NEW in, DataEdge(in)
  PROVE  InvPlaced'
<1>1. SUFFICES ASSUME Running', NEW s \in Sets, NEW w \in Ways, sram'[s][w].valid
               PROVE  Index(sram'[s][w].tag) = s
  BY DEF InvPlaced, Index
<1>2. Edge(in) /\ SramStep(in)
  BY DEF DataEdge
<1>3. Running
  BY <1>1, <1>2, InitEmpties DEF Running
<1>4. CASE Kept(s, w)
  BY <1>1, <1>3, <1>4 DEF Kept, InvPlaced
<1>5. CASE Brought(in, s, w)
  BY <1>5 DEF Brought
<1>6. CASE Wrote(in, s, w)
  <2>1. sram[s][w].valid
    BY <1>6, StorePort DEF Wrote, StoreHits, HitWays
  <2> QED BY <1>3, <1>6, <2>1 DEF Wrote, InvPlaced
<1> QED BY <1>1, <1>2, <1>4, <1>5, <1>6, LineFate

\* A cache that gives a line up owes memory nothing.
LEMMA RestStepInv ==
  ASSUME TypeOK, InvAdapter, InvFlush, InvFound, InvRest, NEW in, DataEdge(in)
  PROVE  InvRest'
<1>1. ASSUME NEW a \in Addr, rest'[a].held = "none" PROVE ~rest'[a].dirty
  <2>1. EnvFate(in, a) /\ (rest[a].held = "none" => ~rest[a].dirty)
    BY DEF DataEdge, InvRest
  <2> QED BY <1>1, <2>1 DEF EnvFate, SnoopFate, OwnFate
<1>2. ~Running' => mh.state = "INIT"
  BY DEF DataEdge, Edge, TypeOK, CacheTypeOK, MhMoves, MhTakes, MhServes, MhOthers, MhKeeps,
     Running, MissStates, ReqState, ReqStates, WbStates
<1> QED BY <1>1, <1>2, InitQuiet DEF InvRest

\* A store does not write the set the miss handler works on.
LEMMA StoreElsewhere ==
  ASSUME InvAmo, InvFlush, InvLookup, NEW in, StoreWrites(in)
  PROVE  /\ mh.valid => Index(cc[STORE].addr) # Index(mh.addr) /\ cc[STORE].addr # mh.addr
         /\ mh.state \notin AmoStates /\ ~flushing
<1>1. cc[STORE].state = "STORE_REQ" /\ ~mshr_index_matches(STORE)
  BY DEF StoreWrites, updating_cache
<1>2. mh.valid => Index(cc[STORE].addr) # Index(mh.addr)
  BY <1>1 DEF mshr_index_matches
<1>3. mh.state \notin AmoStates
  BY <1>1 DEF InvAmo, InvLookup
<1>4. ~flushing
  BY <1>1 DEF InvFlush, CtrlPorts, STORE
<1> QED BY <1>2, <1>3, <1>4

\* The line of an AMO is written back or invalidated before the AMO is sent, and does not
\* come back.
LEMMA AmoGoneStepInv ==
  ASSUME TypeOK, InvAmo, InvMshr, InvAdapter, StoreHits, InvRows, InvWb, InvAmoGone,
         NEW in, DataEdge(in), InvAmo'
  PROVE  InvAmoGone'
<1>0. /\ in \in Inputs /\ SramStep(in) /\ MhMoves(in) /\ CoreMoves(in) /\ MhVictims(in)
      /\ mh.state \in MissStates /\ in.amo = core.amo /\ core.amo \in Addr \cup {None}
      /\ (in.amo_valid => ccu.state = "AMO") /\ mh'.state \in MissStates
      /\ (MhServes(in) /\ MhOthers(in)) \/ mh.state = "IDLE"
  BY InputFacts DEF TypeOK, CacheTypeOK, DataEdge, Edge, MhMoves
<1>1. SUFFICES ASSUME mh'.state \in {"WB_CACHELINE_AMO", "AMO_REQ", "AMO_WAIT_RESP"}
               PROVE  /\ mh'.state # "WB_CACHELINE_AMO" => HitWays(core.amo)' = {}
                      /\ mh'.state = "WB_CACHELINE_AMO" =>
                           mh'.evict = core'.amo /\ HitWays(core.amo)' \subseteq {mh'.way}
  BY DEF InvAmoGone, HitWays, Index
<1>2. mh.state \in {"AMO_WB", "WB_CACHELINE_AMO", "AMO_REQ", "AMO_WAIT_RESP"}
  <2>1. ~mh.serve_amo \/ mh.state \in AmoStates
    BY DEF InvAmo
  <2> QED BY <1>0, <1>1, <2>1 DEF MhMoves, MhTakes, MhServes, MhOthers, MissStates, ReqState,
       ReqStates, WbStates, AmoStates
<1>3. core.amo \in Addr /\ core'.amo = core.amo
  <2>1. core.amo # None /\ ~core.flush
    BY <1>2 DEF InvAmo, AmoStates
  <2>2. ~in.amo_valid
    BY <1>0, <1>1, <1>2 DEF InvAmo, MhOthers
  <2> QED BY <1>0, <2>1, <2>2 DEF CoreMoves
<1>4. PICK a \in Addr : a = core.amo
  BY <1>3
<1>5. HitWays(core.amo)' = HitWays(a)'
  BY <1>3, <1>4 DEF HitWays, Index
<1>6. /\ ~RefillWrites(in) /\ Running /\ Index(a) \in Sets
      /\ HitWays(a)' \subseteq HitWays(a)
  <2>1. ~RefillWrites(in) /\ Running
    BY <1>2 DEF RefillWrites, Running
  <2> QED BY <1>0, <2>1, HitsStep, IndexType
<1>7. CASE mh.state \in {"AMO_REQ", "AMO_WAIT_RESP"}
  <2>1. HitWays(a) = {} /\ mh'.state # "WB_CACHELINE_AMO"
    BY <1>0, <1>4, <1>7 DEF InvAmoGone, MhOthers
  <2> QED BY <1>5, <1>6, <2>1
<1>8. CASE mh.state = "WB_CACHELINE_AMO"
  <2>1. mh'.way = mh.way /\ mh'.evict = mh.evict /\ mh.evict = a /\ HitWays(a) \subseteq {mh.way}
    BY <1>0, <1>4, <1>8 DEF MhVictims, InvAmoGone, WbStates
  <2>2. CASE mh'.state = "WB_CACHELINE_AMO"
    BY <1>3, <1>4, <1>5, <1>6, <2>1, <2>2
  <2>3. CASE mh'.state # "WB_CACHELINE_AMO"
    <3>1. valid_miss_fsm(in) /\ mh.way \in Ways /\ mh.cnt = Index(a)
      BY <1>0, <1>8, <2>1, <2>3 DEF MhOthers, InvWb, WbStates
    <3>2. ~sram'[Index(a)][mh.way].valid
      BY <1>0, <1>8, <3>1, LineGone DEF WbStates
    <3>3. HitWays(a)' = {}
      BY <1>6, <2>1, <3>2 DEF HitWays, Index
    <3> QED BY <1>5, <2>3, <3>3
  <2> QED BY <2>2, <2>3
<1>9. CASE mh.state = "AMO_WB"
  <2>1. HitWays(a) # {} =>
          /\ HitWay(a) \in HitWays(a) /\ HitWay(a) \in Ways
          /\ HitWays(a) = {HitWay(a)}
    BY <1>6, HitWayType DEF InvRows, HitWays
  <2>2. HitWays(a) = {} => HitWay(a) = 0
    BY HitWayType
  <2>3. CASE mh'.state = "WB_CACHELINE_AMO"
    <3>1. mh'.way = HitWay(a) /\ mh'.evict = a /\ HitWay(a) # 0
      BY <1>0, <1>4, <1>9, <2>3 DEF MhVictims
    <3> QED BY <1>3, <1>4, <1>5, <1>6, <2>1, <2>2, <2>3, <3>1
  <2>4. CASE mh'.state # "WB_CACHELINE_AMO" /\ HitWays(a) # {}
    <3>1. HitWay(a) = 0 \/ ~sram[Index(a)][HitWay(a)].dirty
      BY <1>0, <1>4, <1>9, <2>4 DEF MhVictims
    <3>2. 0 \notin Ways
      BY DCacheAssumption DEF Ways
    <3>3. MhWrites(in)
      BY <1>0, <1>4, <1>9, <2>1, <2>4, <3>1, <3>2 DEF MhWrites
    <3>4. ~sram'[Index(a)][HitWay(a)].valid
      BY <1>0, <1>4, <1>9, <2>1, <2>4, <3>3, LineGone
    <3>5. HitWays(a)' = {}
      BY <1>6, <2>1, <2>4, <3>4 DEF HitWays, Index
    <3> QED BY <1>5, <2>4, <3>5
  <2>5. CASE mh'.state # "WB_CACHELINE_AMO" /\ HitWays(a) = {}
    BY <1>5, <1>6, <2>5
  <2> QED BY <2>3, <2>4, <2>5
<1> QED BY <1>2, <1>7, <1>8, <1>9

\* The way a refill replaces stays free of dirty data: no store writes the set.
LEMMA VictimStepInv ==
  ASSUME TypeOK, InvAmo, InvMshr, InvAdapter, InvFlush, InvVictim, InvLookup, InvWb, InvVictimClean,
         NEW in, DataEdge(in)
  PROVE  InvVictimClean'
<1>0. /\ SramStep(in) /\ MhMoves(in) /\ MhVictims(in) /\ mh.addr \in Addr /\ mh'.addr \in Addr
      /\ mh.state \in MissStates /\ Index(mh.addr) \in Sets
  BY IndexType DEF TypeOK, CacheTypeOK, DataEdge, Edge
<1>1. SUFFICES ASSUME mh'.state \in ReqStates \cup {"SAVE_CACHELINE"}
               PROVE  /\ mh'.way \in Ways
                      /\ ~(sram'[Index(mh'.addr)][mh'.way].valid /\ sram'[Index(mh'.addr)][mh'.way].dirty)
  BY DEF InvVictimClean, Index
<1>2. /\ mh.state \in {"MISS_REPL", "WB_CACHELINE_MISS", "SAVE_CACHELINE"} \cup ReqStates
      /\ mh'.addr = mh.addr /\ mh.valid /\ ~RefillWrites(in)
      /\ mh.state = "WB_CACHELINE_MISS" => valid_miss_fsm(in)
  <2>1. ~(mh.state = "IDLE" /\ MissReqs # {})
    BY <1>0, <1>1 DEF MhMoves, MhTakes, ReqStates
  <2>2. MhKeeps /\ MhServes(in) /\ MhOthers(in)
    BY <1>0, <2>1 DEF MhMoves
  <2>3. mh.state \in {"MISS_REPL", "WB_CACHELINE_MISS", "SAVE_CACHELINE"} \cup ReqStates
    BY <1>0, <1>1, <2>2 DEF MhServes, MhOthers, MissStates, ReqState, ReqStates, WbStates
  <2>4. mh.valid
    BY <2>3 DEF InvMshr, Serving, Refilling
  <2>5. mh.state = "SAVE_CACHELINE" => ~valid_miss_fsm(in)
    BY <1>1, <2>2 DEF MhServes, ReqStates
  <2>6. mh.state = "WB_CACHELINE_MISS" => valid_miss_fsm(in)
    BY <1>1, <2>2 DEF MhServes, ReqStates
  <2> QED BY <2>2, <2>3, <2>4, <2>5, <2>6 DEF MhKeeps, RefillWrites
<1>3. CASE mh.state = "WB_CACHELINE_MISS"
  <2>1. mh'.way = mh.way /\ mh.way \in Ways /\ mh.cnt = Index(mh.addr)
    BY <1>0, <1>3 DEF MhVictims, WbStates, InvWb, InvVictim
  <2> QED BY <1>0, <1>2, <1>3, <2>1, LineGone DEF WbStates
<1>4. CASE mh.state # "WB_CACHELINE_MISS"
  <2>1. /\ mh'.way \in Ways
        /\ ~(sram[Index(mh.addr)][mh'.way].valid /\ sram[Index(mh.addr)][mh'.way].dirty)
    <3>1. CASE mh.state = "MISS_REPL"
      BY <1>0, <1>1, <3>1 DEF MhVictims, ReqStates
    <3>2. CASE mh.state \in ReqStates \cup {"SAVE_CACHELINE"}
      BY <1>0, <3>2 DEF MhVictims, InvVictimClean
    <3> QED BY <1>2, <1>4, <3>1, <3>2
  <2>2. ~Wrote(in, Index(mh.addr), mh'.way)
    BY <1>2, StoreElsewhere DEF Wrote
  <2>3. \/ Kept(Index(mh.addr), mh'.way) \/ ~sram'[Index(mh.addr)][mh'.way].valid
    BY <1>0, <1>2, <2>1, <2>2, LineFate DEF Brought
  <2> QED BY <1>2, <2>1, <2>3 DEF Kept
<1> QED BY <1>3, <1>4

\* Who writes a line.
LEMMA LatestStep ==
  ASSUME NEW in, NEW a \in Addr, EnvFate(in, a)
  PROVE  /\ a \in OwnStores(in) => latest'[a] = Merge(latest[a])
         /\ \/ latest'[a] = latest[a]
            \/ a \in OwnStores(in)
            \/ rest[a].held = "unique"
            \/ Answered(in) /\ a = snp.addr /\ snp.snoop = "CLEAN_INVALID"
            \/ Free /\ mh.state = "AMO_WAIT_RESP" /\ a = core.amo
<1>1. Versioned(in, a, FALSE) => /\ a \in OwnStores(in) => latest'[a] = Merge(latest[a])
                                 /\ a \notin OwnStores(in) => latest'[a] = latest[a]
  BY DEF Versioned
<1>2. Versioned(in, a, TRUE) => latest'[a] = Merge(latest[a])
  BY DEF Versioned
<1>3. \/ Versioned(in, a, FALSE)
      \/ /\ Versioned(in, a, TRUE)
         /\ \/ rest[a].held = "unique"
            \/ Answered(in) /\ a = snp.addr /\ snp.snoop = "CLEAN_INVALID"
            \/ Free /\ mh.state = "AMO_WAIT_RESP" /\ a = core.amo
  BY DEF EnvFate, SnoopFate, OwnFate
<1> QED BY <1>1, <1>2, <1>3

\* Memory is up to date when no cache owes it the line and none is on its way.
LEMMA MemoryCurrent ==
  ASSUME NoLostWrite, InvGrantData, Running, NEW a \in Addr, HitWays(a) = {}, ~rest[a].dirty,
         ~Granted, ccu.state \in {"CR", "CD"} /\ snp.addr = a => ~snp.cr.dirty
  PROVE  memv[a] = latest[a]
BY DEF NoLostWrite, InvGrantData, Granted

\* No response is under way while a snoop is answered.
LEMMA AnsweringFacts ==
  ASSUME TypeOK, InvSnoop, InvAdapter, InvFound, InvArrival, Answering
  PROVE  ~Granted /\ Running /\ ccu.state \in {"CR", "CD"} /\ \A in : ~RefillWrites(in)
<1>1. ccu.state \in {"CR", "CD"} /\ ad.state # "COMPLETE_READ"
  BY DEF InvSnoop, InvArrival, Answering
<1>2. ~Arriving
  BY <1>1 DEF Arriving, InvArrival
<1>3. \A in : ~RefillWrites(in)
  BY <1>1 DEF RefillWrites, valid_miss_fsm, InvAdapter, WbStates
<1> QED BY <1>1, <1>2, <1>3 DEF Granted, Running, InvFound, Answering

\* The data of a response stays the last version until it is used.
LEMMA GrantDataStepInv ==
  ASSUME TypeOK, InvSnoop, InvAmo, InvMshr, InvAdapter, InvFlush, InvLookup, InvAbsent, InvArrival,
         InvGranted, InvGrantData, InvRest, Fresh, NoLostWrite, NEW in, DataEdge(in)
  PROVE  InvGrantData'
<1>0. /\ in \in Inputs /\ mh.addr \in Addr /\ RespMoves(in) /\ CcuMoves(in) /\ None \notin Nat
      /\ ccu.rlat \in 0 .. RDelay + 1 \cup {None} /\ RDelay \in Nat
      /\ ccu.resp \in Resp /\ ccu'.resp \in Resp
  BY DCacheAssumption, SystemAssumption DEF TypeOK, CacheTypeOK, DataEdge, Edge
<1>1. ASSUME Granted'
      PROVE  /\ mh'.state # "SEND_CLEAN" => Grant'.data = latest'[mh'.addr]
             /\ mh'.state = "SEND_CLEAN" => ~Grant'.dirty
  <2>1. /\ ad.state = "WAIT_R" /\ mh'.state = mh.state /\ mh'.addr = mh.addr
        /\ mh.state \in {"SAVE_CACHELINE", "SEND_CLEAN"}
    BY <1>1, GrantStep
  <2>2. mh.addr \notin OwnStores(in)
    <3>1. mh.valid /\ ~valid_miss_fsm(in)
      BY <2>1 DEF InvMshr, Serving, Refilling, Cleaning, valid_miss_fsm
    <3> QED BY <3>1, OwnStoresAre, StoreElsewhere DEF RefillWrites
  <2>3. CASE OwnFate(in, mh.addr) /\ Grant' = ccu'.resp
    <3>1. mh.state # "SEND_CLEAN" => ccu'.resp.data = latest[mh.addr]
      <4>1. CASE rest[mh.addr].held # "none"
        BY <1>0, <2>1, <2>3, <4>1 DEF OwnFate, Fresh, Running
      <4>2. CASE rest[mh.addr].held = "none" /\ mh.state = "SAVE_CACHELINE"
        <5>1. /\ ~Granted /\ ccu.state = "IDLE" /\ ~rest[mh.addr].dirty
              /\ ccu'.resp.data = memv[mh.addr]
          BY <1>0, <2>1, <2>3, <4>2 DEF OwnFate, Granted, Arriving, Free, InvRest
        <5>2. HitWays(mh.addr) = {} /\ Running
          BY <4>2 DEF InvAbsent, Refilling, Running
        <5> QED BY <1>0, <5>1, <5>2, MemoryCurrent
      <4> QED BY <2>1, <4>1, <4>2
    <3>2. latest'[mh.addr] = latest[mh.addr] /\ (mh.state = "SEND_CLEAN" => ~ccu'.resp.dirty)
      BY <2>2, <2>3 DEF OwnFate, Versioned
    <3> QED BY <2>1, <2>3, <3>1, <3>2
  <2>4. CASE /\ Arriving /\ Grant = ccu.resp
             /\ Grant'.dirty = ccu.resp.dirty /\ Grant'.data = ccu.resp.data
    <3>1. /\ mh.state # "SEND_CLEAN" => ccu.resp.data = latest[mh.addr]
          /\ mh.state = "SEND_CLEAN" => ~ccu.resp.dirty
          /\ rest[mh.addr].held # "unique"
      BY <2>4 DEF InvGrantData, InvGranted, Granted
    <3>2. ccu.state \in {"OWN", "IDLE", "AC"}
      BY <2>4 DEF Arriving, InvArrival
    <3>3. ~Answered(in)
      BY <3>2, AnsweredFacts DEF InvSnoop, Answering
    <3>4. latest'[mh.addr] = latest[mh.addr]
      BY <1>0, <2>1, <2>2, <3>1, <3>3, LatestStep DEF DataEdge
    <3> QED BY <2>1, <2>4, <3>1, <3>4
  <2> QED BY <1>1, <2>3, <2>4, GrantStep
<1>2. ASSUME ~Arriving' PROVE ~ccu'.resp.dirty
  <2>1. ~OwnFate(in, mh.addr)
    BY <1>2 DEF OwnFate, Arriving
  <2>2. CASE ccu.rlat = 0
    BY <1>0, <2>1, <2>2 DEF RespMoves, NoResp
  <2>3. CASE ccu.rlat # 0
    <3>1. ~Arriving
      <4>1. ccu.state = "OWN" => ccu'.state = "OWN" \/ ccu'.rlat # None
        <5>1. ccu.state = "OWN" => ~ac_ready(in) /\ snp.state = "IDLE" /\ ~in.amo_valid /\ ~Free
          BY <1>0, InputFacts DEF InvSnoop, ac_ready, Free
        <5>2. ccu.state = "OWN" => ~Answered(in) /\ ~CrTaken(in)
          BY <5>1 DEF Answered, CrTaken, CdTaken
        <5> QED BY <1>0, <5>1, <5>2 DEF CcuMoves
      <4>2. ccu.rlat # None => ccu'.rlat # None
        BY <1>0, <2>3 DEF CcuMoves, Lat
      <4> QED BY <1>2, <4>1, <4>2 DEF Arriving
    <3> QED BY <1>0, <2>1, <2>3, <3>1 DEF RespMoves, InvGrantData
  <2> QED BY <2>2, <2>3
<1> QED BY <1>1, <1>2 DEF InvGrantData

\* The data the snoop controller read stays the last version until it is sent: the
\* store port is kept off the SRAM, and no other core has the line alone.
LEMMA SnoopDataStepInv ==
  ASSUME TypeOK, InvSnoop, InvAdapter, InvFound, InvArrival, InvOwner, Coherent, Fresh,
         InvSnoopData, NEW in, DataEdge(in)
  PROVE  InvSnoopData'
<1>0. SnpCarries(in) /\ SnpMoves(in) /\ snp.addr \in Addr /\ TypeOK' /\ NoCr.data = FALSE
  BY DEF DataEdge, Edge, TypeOK, CacheTypeOK, NoCr
<1>1. SUFFICES ASSUME snp'.state \in {"UPDATE_SHARED", "INVALIDATE"} \/ Answering',
                      snp'.cr.data, snp'.snoop # "READ_ONCE", NEW a \in Addr, a = snp'.addr
               PROVE  snp'.data = latest'[a] /\ rest'[a].held # "unique"
  <2>1. snp'.addr \in Addr
    BY <1>0 DEF TypeOK, CacheTypeOK
  <2> QED BY <2>1 DEF InvSnoopData
<1>2. /\ snp.addr = a /\ snp'.snoop = snp.snoop
      /\ snp.state \in {"EVAL_FLAGS", "UPDATE_SHARED", "INVALIDATE"} \/ Answering
  BY <1>0, <1>1 DEF SnpCarries, SnpSame, SnpLooks, Answering
<1>3. snp'.data = latest[a] /\ rest[a].held # "unique"
  <2>1. CASE SnpSame /\ snp.state \notin {"IDLE", "WAIT_GNT", "EVAL_FLAGS"}
    <3>1. snp.state \in {"UPDATE_SHARED", "INVALIDATE"} \/ Answering
      BY <1>2, <2>1
    <3>2. snp.cr.data /\ snp.snoop # "READ_ONCE" /\ snp'.data = snp.data
      BY <1>1, <1>2, <2>1 DEF SnpSame
    <3> QED BY <1>2, <3>1, <3>2 DEF InvSnoopData
  <2>2. CASE SnpLooks
    <3>1. HitWays(a) # {} /\ snp'.data = sram[Index(a)][HitWay(a)].data
      BY <1>0, <1>1, <1>2, <2>2 DEF SnpLooks
    <3>2. HitWay(a) \in HitWays(a) /\ Running
      BY <2>2, <3>1, HitWayType DEF SnpLooks, InvFound, Running
    <3> QED BY <3>1, <3>2 DEF Fresh, Coherent
  <2> QED BY <1>0, <1>1, <1>2, <2>1, <2>2 DEF SnpCarries, Answering
<1>4. a \notin OwnStores(in)
  <2>1. ~RefillWrites(in)
    BY <1>2, RefillFacts DEF Answering
  <2>2. ~(StoreWrites(in) /\ cc[STORE].addr = a)
    BY <1>1, <1>2, StorePort DEF InvOwner
  <2> QED BY <2>1, <2>2, OwnStoresAre
<1>5. ~Answered(in) /\ ~Free
  <2>1. snp.state # "IDLE" /\ snp'.state # "IDLE"
    BY <1>1, <1>2 DEF Answering
  <2>2. ~Answered(in)
    BY <1>0, <2>1 DEF Answered, CrTaken, CdTaken, SnpMoves
  <2> QED BY <2>1, <2>2 DEF InvSnoop, Free
<1>6. EnvFate(in, a)
  BY DEF DataEdge
<1>7. latest'[a] = latest[a]
  BY <1>3, <1>4, <1>5, <1>6, LatestStep
<1>8. rest'[a].held # "unique"
  BY <1>3, <1>5, <1>6, HeldStep
<1> QED BY <1>3, <1>7, <1>8

\* A dirty line that a snoop invalidates goes into the answer.
LEMMA SnoopTakes ==
  ASSUME TypeOK, InvSnooped, NEW in, DataEdge(in), snp.state = "INVALIDATE", SnpGnt(in),
         NEW w \in Ways, w = snp.way,
         sram[Index(snp.addr)][w].valid, sram[Index(snp.addr)][w].dirty
  PROVE  /\ sram[Index(snp.addr)][w].tag = snp.addr
         /\ snp'.state # "IDLE" /\ snp'.addr = snp.addr /\ snp'.cr.dirty
<1>1. SnpCarries(in) /\ SnpMoves(in)
  BY DEF DataEdge, Edge
<1>2. sram[Index(snp.addr)][w].tag = snp.addr
  BY DEF InvSnooped
<1>3. w \in HitWays(snp.addr)
  BY <1>2 DEF HitWays
<1>4. snp.cr.dirty
  BY <1>3 DEF InvSnooped
<1>5. snp'.state # "IDLE" /\ SnpSame
  BY <1>1 DEF SnpCarries, SnpMoves, SnpLooks
<1> QED BY <1>2, <1>4, <1>5 DEF SnpSame

\* A dirty line stays as it is unless the miss handler or a store writes it, or a snoop
\* takes it.
LEMMA DirtyStays ==
  ASSUME TypeOK, InvSnooped, NEW in, DataEdge(in), NEW s \in Sets, NEW w \in Ways,
         sram[s][w].valid, sram[s][w].dirty, ~Brought(in, s, w), ~Wrote(in, s, w),
         Lost(in, s, w) => /\ snp.state = "INVALIDATE" /\ SnpGnt(in)
                           /\ s = Index(snp.addr) /\ w = snp.way
  PROVE  \/ Kept(s, w)
         \/ /\ ~sram'[s][w].valid /\ snp'.state # "IDLE"
            /\ snp'.addr = sram[s][w].tag /\ snp'.cr.dirty
<1>1. Kept(s, w) \/ (~sram'[s][w].valid /\ Lost(in, s, w))
  BY LineFate DEF DataEdge
<1>2. Lost(in, s, w) => snp'.state # "IDLE" /\ snp'.addr = sram[s][w].tag /\ snp'.cr.dirty
  BY SnoopTakes
<1> QED BY <1>1, <1>2

\* How the miss handler comes to write a line back.
LEMMA WbEnters ==
  ASSUME TypeOK, NEW in, DataEdge(in), mh'.state \in WbStates
  PROVE  \/ mh.state = mh'.state /\ ~valid_miss_fsm(in)
         \/ mh.state = "MISS_REPL" /\ mh'.state = "WB_CACHELINE_MISS" /\ mh'.cnt = Index(mh.addr)
         \/ mh.state = "FLUSHING" /\ DirtyWays(mh.cnt) # {} /\ mh'.cnt = mh.cnt
         \/ mh.state = "AMO_WB" /\ mh'.state = "WB_CACHELINE_AMO"
<1>1. MhMoves(in) /\ mh.state \in MissStates
  BY DEF TypeOK, CacheTypeOK, DataEdge, Edge
<1>2. ~(mh.state = "IDLE" /\ MissReqs # {})
  BY <1>1 DEF MhMoves, MhTakes, WbStates
<1>3. MhServes(in) /\ MhOthers(in)
  BY <1>1, <1>2 DEF MhMoves
<1> QED BY <1>1, <1>3 DEF MhServes, MhOthers, MissStates, ReqState, ReqStates, WbStates

\* A line about to be written back is the dirty line the miss handler chose.
LEMMA WbChosen ==
  ASSUME TypeOK, InvAmo, InvMshr, InvFlush, InvLookup, InvRows, InvPlaced, NEW in, DataEdge(in),
         mh'.state \in WbStates, mh.state # mh'.state \/ valid_miss_fsm(in)
  PROVE  LET l == sram[mh'.cnt][mh'.way] IN
         /\ mh'.way \in Ways /\ mh'.cnt = Index(mh'.evict) /\ mh.state \notin WbStates
         /\ l.valid /\ l.dirty /\ l.tag = mh'.evict /\ l.data = mh'.evict_data
         /\ ~Brought(in, mh'.cnt, mh'.way) /\ ~Wrote(in, mh'.cnt, mh'.way)
         /\ Lost(in, mh'.cnt, mh'.way) => /\ snp.state = "INVALIDATE" /\ SnpGnt(in)
                                          /\ mh'.cnt = Index(snp.addr) /\ mh'.way = snp.way
<1>0. /\ MhVictims(in) /\ in \in Inputs /\ in.amo = core.amo /\ core.amo \in Addr \cup {None}
      /\ mh.addr \in Addr /\ mh.cnt \in Sets /\ Index(mh.addr) \in Sets
  BY InputFacts, IndexType DEF TypeOK, CacheTypeOK, DataEdge, Edge
<1>1. CASE mh.state = "MISS_REPL" /\ mh'.state = "WB_CACHELINE_MISS" /\ mh'.cnt = Index(mh.addr)
  <2>1. LET l == sram[Index(mh.addr)][mh'.way] IN
        mh'.way \in Ways /\ l.valid /\ l.dirty /\ mh'.evict = l.tag /\ mh'.evict_data = l.data
    BY <1>0, <1>1 DEF MhVictims
  <2>2. Index(mh'.evict) = Index(mh.addr)
    BY <1>0, <1>1, <2>1 DEF InvPlaced, Running
  <2>3. ~Wrote(in, mh'.cnt, mh'.way)
    <3>1. mh.valid
      BY <1>1 DEF InvMshr, Serving, Refilling
    <3> QED BY <1>1, <3>1, StoreElsewhere DEF Wrote
  <2> QED BY <1>1, <2>1, <2>2, <2>3 DEF Lost, WbStates, Brought, RefillWrites
<1>2. CASE mh.state = "FLUSHING" /\ DirtyWays(mh.cnt) # {} /\ mh'.cnt = mh.cnt
  <2>1. /\ mh'.way \in Ways /\ sram[mh.cnt][mh'.way].valid /\ sram[mh.cnt][mh'.way].dirty
        /\ mh'.evict = sram[mh.cnt][mh'.way].tag /\ mh'.evict_data = sram[mh.cnt][mh'.way].data
    BY <1>0, <1>2 DEF MhVictims, DirtyWays
  <2>2. Index(mh'.evict) = mh.cnt
    BY <1>0, <1>2, <2>1 DEF InvPlaced, Running
  <2>3. ~Wrote(in, mh'.cnt, mh'.way)
    BY <1>2, StoreElsewhere DEF Wrote, flushing
  <2> QED BY <1>2, <2>1, <2>2, <2>3 DEF Lost, WbStates, Brought, RefillWrites
<1>3. CASE mh.state = "AMO_WB" /\ mh'.state = "WB_CACHELINE_AMO"
  <2>1. core.amo \in Addr
    BY <1>0, <1>3 DEF InvAmo, AmoStates
  <2>2. PICK a \in Addr : a = core.amo
    BY <2>1
  <2>3. /\ HitWay(a) # 0 /\ sram[Index(a)][HitWay(a)].dirty /\ mh'.way = HitWay(a)
        /\ mh'.evict = a /\ mh'.evict_data = sram[Index(a)][HitWay(a)].data
        /\ mh'.cnt = Index(a)
    BY <1>0, <1>3, <2>2 DEF MhVictims
  <2>4. HitWay(a) \in HitWays(a)
    BY <2>3, HitWayType
  <2>5. HitWay(a) \in Ways /\ sram[Index(a)][HitWay(a)].valid /\ sram[Index(a)][HitWay(a)].tag = a
    BY <2>4 DEF HitWays
  <2>6. Index(a) \in Sets /\ Running
    BY <1>3, IndexType DEF Running
  <2>7. \A v \in HitWays(a) : v = HitWay(a)
    BY <2>4, <2>6 DEF InvRows, HitWays
  <2>8. ~Wrote(in, mh'.cnt, mh'.way)
    BY <1>3, StoreElsewhere DEF Wrote, AmoStates
  <2> QED BY <1>0, <1>3, <2>2, <2>3, <2>5, <2>7, <2>8 DEF Lost, WbStates, Brought, RefillWrites
<1> QED BY <1>1, <1>2, <1>3, WbEnters

\* A write-back that has not landed is the data of the line, or a snoop has taken the line
\* and its data; one that has landed brought memory up to date.
LEMMA WbStepInv ==
  ASSUME ControlInv, StoreInv, LineInv, CoherenceInv, ValueInv, NEW in, DataEdge(in)
  PROVE  InvWb'
<1>0. /\ TypeOK /\ InvSnoop /\ InvAmo /\ InvMshr /\ InvAdapter /\ InvFlush /\ InvLookup
      /\ InvVictim /\ InvRows /\ InvSnooped /\ InvAnswer /\ Coherent /\ InvPlaced /\ InvWb
      /\ InvRest /\ Fresh /\ InvSnoopData
  BY DEF ControlInv, StoreInv, LineInv, CoherenceInv, ValueInv
<1>1. /\ in \in Inputs /\ WbMoves(in) /\ AdMoves(in) /\ MhMoves(in) /\ MhVictims(in)
      /\ SnpCarries(in) /\ SnpMoves(in) /\ SramStep(in)
      /\ mh.state \in MissStates /\ mh'.cnt \in Sets /\ mh'.evict \in Addr
      /\ wb_done \in BOOLEAN /\ wb_done' \in BOOLEAN /\ in.b \in BOOLEAN
      /\ (in.b => ad.state = "WAIT_B")
  BY <1>0, InputFacts DEF TypeOK, CacheTypeOK, DataEdge, Edge
<1>2. wb_done' => mh'.state \in WbStates /\ ad'.state = "WAIT_B"
  <2>1. wb_done' => ad.state = "WAIT_B" /\ ~in.b /\ mh.state \in WbStates
    BY <1>0, <1>1 DEF WbMoves, InvWb, InvAdapter
  <2>2. wb_done' => ~valid_miss_fsm(in)
    BY <2>1 DEF valid_miss_fsm
  <2> QED BY <1>1, <2>1, <2>2 DEF AdMoves, MhMoves, MhServes, MhOthers, WbStates
<1> DEFINE l == sram'[mh'.cnt][mh'.way]
<1>3. SUFFICES ASSUME mh'.state \in WbStates
               PROVE  /\ mh'.way \in Ways /\ mh'.cnt = Index(mh'.evict)
                      /\ l.valid => l.tag = mh'.evict /\ l.dirty /\ l.data = mh'.evict_data
                      /\ wb_done' /\ l.valid => memv'[mh'.evict] = latest'[mh'.evict]
                      /\ ~wb_done' /\ ~l.valid =>
                           \/ rest'[mh'.evict].dirty
                           \/ snp'.state # "IDLE" /\ snp'.addr = mh'.evict /\ snp'.cr.dirty
  BY <1>2 DEF InvWb, Index
<1>4. CASE mh.state # mh'.state \/ valid_miss_fsm(in)
  <2>1. /\ mh'.way \in Ways /\ mh'.cnt = Index(mh'.evict) /\ mh.state \notin WbStates
        /\ sram[mh'.cnt][mh'.way].valid /\ sram[mh'.cnt][mh'.way].dirty
        /\ sram[mh'.cnt][mh'.way].tag = mh'.evict /\ sram[mh'.cnt][mh'.way].data = mh'.evict_data
        /\ ~Brought(in, mh'.cnt, mh'.way) /\ ~Wrote(in, mh'.cnt, mh'.way)
        /\ Lost(in, mh'.cnt, mh'.way) => /\ snp.state = "INVALIDATE" /\ SnpGnt(in)
                                         /\ mh'.cnt = Index(snp.addr) /\ mh'.way = snp.way
    BY <1>0, <1>3, <1>4, WbChosen
  <2>2. ~wb_done'
    BY <1>0, <1>1, <2>1 DEF WbMoves, InvWb, InvAdapter
  <2>3. PICK s \in Sets, w \in Ways : s = mh'.cnt /\ w = mh'.way
    BY <1>1, <2>1
  <2>4. \/ Kept(s, w)
        \/ ~sram'[s][w].valid /\ snp'.state # "IDLE" /\ snp'.addr = mh'.evict /\ snp'.cr.dirty
    BY <1>0, <2>1, <2>3, DirtyStays
  <2> QED BY <2>1, <2>2, <2>3, <2>4 DEF Kept
<1>5. CASE mh.state = mh'.state /\ ~valid_miss_fsm(in)
  <2>1. /\ mh'.way = mh.way /\ mh'.evict = mh.evict /\ mh'.evict_data = mh.evict_data
        /\ mh'.cnt = mh.cnt /\ mh.state \in WbStates /\ ~in.b
    BY <1>1, <1>3, <1>5 DEF MhVictims, valid_miss_fsm
  <2>2. PICK s \in Sets, w \in Ways, e \in Addr : s = mh.cnt /\ w = mh.way /\ e = mh.evict
    BY <1>0, <1>1, <2>1 DEF InvWb
  <2>3. /\ s = Index(e)
        /\ sram[s][w].valid => /\ sram[s][w].tag = e /\ sram[s][w].dirty
                               /\ sram[s][w].data = mh.evict_data
        /\ wb_done /\ sram[s][w].valid => memv[e] = latest[e]
        /\ ~wb_done /\ ~sram[s][w].valid =>
             rest[e].dirty \/ (snp.state # "IDLE" /\ snp.addr = e /\ snp.cr.dirty)
    BY <1>0, <2>1, <2>2 DEF InvWb
  <2>4. /\ ~(StoreWrites(in) /\ Index(cc[STORE].addr) = s) /\ ~RefillWrites(in)
        /\ Running /\ ad.state # "WAIT_R" /\ ~(Free /\ mh.state = "AMO_WAIT_RESP")
    <3>1. mh.state = "WB_CACHELINE_MISS" => mh.cnt = Index(mh.addr) /\ mh.valid
      BY <1>0 DEF InvVictim, InvMshr, Serving, Refilling
    <3>2. mh.state # "WB_CACHELINE_MISS" => flushing \/ mh.state \in AmoStates
      BY <2>1 DEF WbStates, flushing, AmoStates
    <3> QED BY <1>0, <2>1, <2>2, <3>1, <3>2, StoreElsewhere DEF RefillWrites, Running, WbStates,
         InvAdapter
  <2>5. e \notin OwnStores(in) /\ EnvFate(in, e)
    BY <2>3, <2>4, OwnStoresAre DEF DataEdge
  <2>6. ~Brought(in, s, w) /\ ~Wrote(in, s, w)
    BY <2>4 DEF Brought, Wrote
  <2>7. Lost(in, s, w) => snp.state = "INVALIDATE" /\ SnpGnt(in) /\ s = Index(snp.addr) /\ w = snp.way
    BY <1>5, <2>1 DEF Lost, WbStates
  <2>8. wb_done' => wb_done \/ memv'[e] = mh.evict_data
    BY <1>1, <2>1, <2>2 DEF WbMoves
  <2>9. CASE sram[s][w].valid
    <3>1. w \in HitWays(e)
      BY <2>3, <2>9 DEF HitWays
    <3>2. \/ Kept(s, w)
          \/ ~sram'[s][w].valid /\ snp'.state # "IDLE" /\ snp'.addr = e /\ snp'.cr.dirty
      BY <1>0, <2>3, <2>6, <2>7, <2>9, DirtyStays
    <3>3. sram[s][w].data = latest[e] /\ rest[e].held # "unique"
      BY <1>0, <2>3, <2>4, <3>1 DEF Fresh, Coherent
    <3>4. ~(Answered(in) /\ e = snp.addr /\ snp.snoop \notin {"READ_ONCE", "READ_SHARED"})
      BY <1>0, <3>1, AnsweredFacts DEF InvAnswer
    <3>5. latest'[e] = latest[e]
      BY <2>4, <2>5, <3>3, <3>4, LatestStep
    <3>6. rest[e].dirty => rest[e].data = latest[e]
      BY <1>0, <2>4 DEF InvRest, Fresh
    <3>7. memv[e] = latest[e] => memv'[e] = latest[e]
      BY <2>2, <2>3, <2>4, <2>5, <2>9, <3>3, <3>4, <3>6 DEF EnvFate, SnoopFate, OwnFate
    <3>8. wb_done' => memv'[e] = latest'[e]
      BY <2>3, <2>8, <2>9, <3>3, <3>5, <3>7
    <3> QED BY <2>1, <2>2, <2>3, <2>9, <3>2, <3>8 DEF Kept
  <2>10. CASE ~sram[s][w].valid
    <3>1. ~sram'[s][w].valid
      BY <1>0, <1>1, <2>6, <2>10, LineFate DEF Kept
    <3>2. ASSUME ~wb_done'
          PROVE  rest'[e].dirty \/ (snp'.state # "IDLE" /\ snp'.addr = e /\ snp'.cr.dirty)
      <4>1. ~wb_done
        BY <1>1, <2>1, <3>2 DEF WbMoves
      <4>2. WbInFlight(e)
        BY <2>1, <2>2, <4>1 DEF WbInFlight
      <4>3. CASE rest[e].dirty
        BY <2>4, <2>5, <4>2, <4>3 DEF EnvFate, SnoopFate, OwnFate
      <4>4. CASE snp.state # "IDLE" /\ snp.addr = e /\ snp.cr.dirty
        <5>1. /\ snp.cr.data /\ snp.snoop \in {"READ_UNIQUE", "CLEAN_INVALID"}
              /\ snp.state \notin {"WAIT_GNT", "EVAL_FLAGS"}
          BY <1>0, <4>4 DEF InvSnooped
        <5>2. CASE snp'.state # "IDLE"
          BY <1>1, <4>4, <5>1, <5>2 DEF SnpCarries, SnpSame, SnpLooks
        <5>3. CASE snp'.state = "IDLE"
          <6>1. Answered(in)
            BY <1>1, <4>4, <5>1, <5>3 DEF SnpMoves, Answered, CdTaken
          <6>2. SnoopFate(in, e)
            BY <4>4, <5>1, <6>1 DEF DataEdge
          <6> QED BY <4>2, <4>4, <5>1, <6>2 DEF SnoopFate
        <5> QED BY <5>2, <5>3
      <4> QED BY <2>3, <2>10, <4>1, <4>3, <4>4
    <3> QED BY <2>1, <2>2, <2>3, <3>1, <3>2
  <2> QED BY <2>9, <2>10
<1> QED BY <1>4, <1>5

\* What the initiator of a snoop is given, and what memory gets, is the last version.
LEMMA SnoopCurrent ==
  ASSUME ControlInv, LineInv, CoherenceInv, ValueInv, Answering, snp.snoop # "READ_ONCE",
         NEW a \in Addr, a = snp.addr
  PROVE  /\ snp.snoop # "CLEAN_INVALID" =>
              (IF snp.cr.data THEN snp.data
               ELSE IF rest[a].held # "none" THEN rest[a].data ELSE memv[a]) = latest[a]
         /\ snp.snoop = "CLEAN_INVALID" =>
              (IF snp.cr.dirty THEN snp.data
               ELSE IF rest[a].dirty THEN rest[a].data ELSE memv[a]) = latest[a]
         /\ \A in : a \notin OwnStores(in)
<1>0. /\ TypeOK /\ InvSnoop /\ InvAdapter /\ InvFound /\ InvArrival /\ InvSnooped /\ InvAnswer
      /\ InvOwner /\ InvGrantData /\ InvSnoopData /\ InvRest /\ Fresh /\ NoLostWrite
  BY DEF ControlInv, LineInv, CoherenceInv, ValueInv
<1>1. ~Granted /\ Running /\ ccu.state \in {"CR", "CD"} /\ \A in : ~RefillWrites(in)
  BY <1>0, AnsweringFacts
<1>2. /\ snp.cr.data => snp.data = latest[a]
      /\ snp.cr.dirty => snp.cr.data /\ snp.snoop \in {"READ_UNIQUE", "CLEAN_INVALID"}
      /\ snp.snoop \in SnoopTypes
  BY <1>0 DEF InvSnoopData, InvSnooped, InvSnoop, Answering
<1>3. /\ rest[a].held # "none" => rest[a].data = latest[a]
      /\ rest[a].held = "none" => ~rest[a].dirty
  BY <1>0, <1>1 DEF Fresh, InvRest
<1>4. HitWays(a) # {} => snp.snoop = "READ_SHARED" /\ snp.cr.data
  BY <1>0 DEF InvAnswer
<1>5. HitWays(a) = {} /\ ~rest[a].dirty /\ ~snp.cr.dirty => memv[a] = latest[a]
  BY <1>0, <1>1, MemoryCurrent
<1>6. \A in : a \notin OwnStores(in)
  BY <1>0, <1>1, OwnStoresAre DEF InvOwner, StoreWrites
<1> QED BY <1>2, <1>3, <1>4, <1>5, <1>6 DEF SnoopTypes

\* Every copy follows the writes to its line.
LEMMA FreshStepInv ==
  ASSUME ControlInv, StoreInv, LineInv, CoherenceInv, ValueInv, NEW in, DataEdge(in)
  PROVE  Fresh'
<1>0. /\ TypeOK /\ InvSnoop /\ InvAmo /\ InvMshr /\ InvAdapter /\ InvFlush /\ InvLookup
      /\ InvRows /\ InvAbsent /\ InvFound /\ InvArrival /\ InvGranted /\ InvAnswer /\ InvOwner
      /\ Coherent /\ InvGrantData /\ InvAmoGone /\ InvRest /\ Fresh /\ StoreHits
  BY StoreInvHits DEF ControlInv, StoreInv, LineInv, CoherenceInv, ValueInv
<1>1. in \in Inputs /\ Edge(in) /\ SramStep(in)
  BY DEF DataEdge, Edge
<1>2. SUFFICES ASSUME Running', NEW a \in Addr
               PROVE  /\ \A w \in HitWays(a)' : sram'[Index(a)][w].data = latest'[a]
                      /\ rest'[a].held # "none" => rest'[a].data = latest'[a]
  BY DEF Fresh, HitWays, Index
<1>3. EnvFate(in, a)
  BY DEF DataEdge
<1>4. CASE ~Running
  <2>1. rest'[a].held = "none"
    BY <1>0, <1>4, InitQuiet DEF Running
  <2>2. ASSUME NEW w \in HitWays(a)' PROVE FALSE
    <3>1. w \in Ways /\ Index(a) \in Sets /\ sram'[Index(a)][w].valid
      BY <2>2, IndexType DEF HitWays, Index
    <3> QED BY <1>0, <1>1, <1>2, <1>4, <3>1, InitEmpties DEF Running
  <2> QED BY <2>1, <2>2
<1>5. CASE Running
  <2>1. ASSUME NEW w \in HitWays(a)' PROVE sram'[Index(a)][w].data = latest'[a]
    <3>1. CASE w \in HitWays(a) /\ Kept(Index(a), w)
      <4>1. sram[Index(a)][w].data = latest[a] /\ rest[a].held # "unique"
        BY <1>0, <1>5, <3>1 DEF Fresh, Coherent
      <4>2. ~(Answered(in) /\ a = snp.addr /\ snp.snoop = "CLEAN_INVALID")
        BY <1>0, <3>1, AnsweredFacts DEF InvAnswer
      <4>3. ~(mh.state = "AMO_WAIT_RESP" /\ a = core.amo)
        BY <1>0, <3>1 DEF InvAmoGone
      <4>4. CASE a \notin OwnStores(in)
        <5>1. latest'[a] = latest[a]
          BY <1>3, <4>1, <4>2, <4>3, <4>4, LatestStep
        <5> QED BY <3>1, <4>1, <5>1 DEF Kept
      <4>5. CASE a \in OwnStores(in)
        <5>1. StoreWrites(in) /\ a = cc[STORE].addr
          <6>1. ~(RefillWrites(in) /\ a = mh.addr)
            BY <1>0, <3>1 DEF InvAbsent, Refilling, RefillWrites
          <6> QED BY <4>5, <6>1, OwnStoresAre
        <5>2. cc[STORE].way \in HitWays(a)
          BY <1>0, <5>1 DEF StoreHits, StoreWrites
        <5>3. w = cc[STORE].way /\ w \in Ways
          BY <1>0, <1>5, <3>1, <5>2, IndexType DEF InvRows, HitWays
        <5>4. Wrote(in, Index(a), w)
          BY <1>0, <1>1, <5>1, <5>3, LineWritten
        <5> QED BY <1>3, <4>1, <4>5, <5>4, LatestStep DEF Wrote
      <4> QED BY <4>4, <4>5
    <3>2. CASE Brought(in, Index(a), w) /\ mh.addr = a
      <4>1. /\ RefillWrites(in) /\ mh.state = "SAVE_CACHELINE" /\ ad.state = "COMPLETE_READ"
            /\ Granted /\ snp.state \in {"IDLE", "WAIT_GNT"}
        BY <1>0, <3>2, RefillFacts DEF Brought
      <4>2. ad.data = latest[a] /\ rest[a].held # "unique"
        BY <1>0, <3>2, <4>1 DEF InvGrantData, Grant, InvGranted
      <4>3. ~Answered(in)
        BY <4>1, AnsweredFacts DEF Answering
      <4>4. CASE mh.id = STORE
        <5>1. a \in OwnStores(in)
          BY <3>2, <4>1, <4>4, StorePort DEF OwnStores
        <5> QED BY <1>3, <3>2, <4>2, <4>4, <5>1, LatestStep DEF Brought
      <4>5. CASE mh.id # STORE
        <5>1. a \notin OwnStores(in)
          BY <4>1, <4>5, OwnStoresAre, StorePort
        <5>2. latest'[a] = latest[a]
          BY <1>3, <4>1, <4>2, <4>3, <5>1, LatestStep
        <5> QED BY <3>2, <4>2, <4>5, <5>2 DEF Brought
      <4> QED BY <4>4, <4>5
    <3>3. CASE w \in HitWays(a) /\ Wrote(in, Index(a), w) /\ cc[STORE].addr = a
      <4>1. sram[Index(a)][w].data = latest[a] /\ a \in OwnStores(in)
        BY <1>0, <1>5, <3>3 DEF Fresh, Wrote, OwnStores
      <4> QED BY <1>3, <3>3, <4>1, LatestStep DEF Wrote
    <3> QED BY <1>0, <1>1, <2>1, <3>1, <3>2, <3>3, HitFate
  <2>2. ASSUME rest'[a].held # "none" PROVE rest'[a].data = latest'[a]
    <3>1. rest[a].held # "none" => rest[a].data = latest[a] /\ a \notin OwnStores(in)
      <4>1. rest[a].held # "none" => ~(StoreWrites(in) /\ a = cc[STORE].addr)
        BY <1>0 DEF InvOwner, StoreWrites
      <4>2. rest[a].held # "none" => ~(RefillWrites(in) /\ mh.id = STORE /\ a = mh.addr)
        BY <1>0, RefillFacts DEF InvGranted
      <4> QED BY <1>0, <1>5, <4>1, <4>2, OwnStoresAre DEF Fresh
    <3>2. CASE SnoopFate(in, a)
      <4>1. Answering /\ a = snp.addr /\ snp.snoop # "READ_ONCE"
        BY <3>2, AnsweredFacts DEF SnoopFate
      <4>2. /\ snp.snoop # "CLEAN_INVALID" =>
                 (IF snp.cr.data THEN snp.data
                  ELSE IF rest[a].held # "none" THEN rest[a].data ELSE memv[a]) = latest[a]
            /\ a \notin OwnStores(in)
        BY <4>1, SnoopCurrent
      <4> QED BY <2>2, <3>1, <3>2, <4>2 DEF SnoopFate, Versioned
    <3>3. CASE OwnFate(in, a)
      BY <2>2, <3>1, <3>3 DEF OwnFate, Versioned
    <3> QED BY <1>3, <2>2, <3>1, <3>2, <3>3 DEF EnvFate, Versioned
  <2> QED BY <2>1, <2>2
<1> QED BY <1>4, <1>5

\* A dirty line that leaves the cache is in the answer to a snoop, or in memory.
LEMMA DirtyStep ==
  ASSUME ControlInv, StoreInv, LineInv, CoherenceInv, ValueInv, Running, NEW in, DataEdge(in),
         NEW a \in Addr, NEW w \in HitWays(a), sram[Index(a)][w].dirty
  PROVE  \/ memv[a] = latest[a]
         \/ \E v \in HitWays(a)' : sram'[Index(a)][v].dirty
         \/ snp'.state # "IDLE" /\ snp'.addr = a /\ snp'.cr.dirty
<1>0. /\ TypeOK /\ InvAdapter /\ InvAmo /\ InvRows /\ InvArrival /\ InvSnooped /\ InvVictimClean
      /\ InvWb
  BY DEF ControlInv, LineInv, CoherenceInv, ValueInv
<1>1. /\ in \in Inputs /\ SramStep(in) /\ WbMoves(in) /\ in.amo = core.amo
      /\ core.amo \in Addr \cup {None} /\ w \in Ways /\ Index(a) \in Sets
      /\ sram[Index(a)][w].valid /\ sram[Index(a)][w].tag = a
  BY <1>0, InputFacts, IndexType DEF DataEdge, Edge, TypeOK, CacheTypeOK, HitWays
<1>2. CASE Kept(Index(a), w)
  <2>1. w \in HitWays(a)' /\ sram'[Index(a)][w].dirty
    BY <1>1, <1>2 DEF Kept, HitWays, Index
  <2> QED BY <2>1
<1>3. CASE Wrote(in, Index(a), w)
  <2>1. w \in HitWays(a)' /\ sram'[Index(a)][w].dirty
    BY <1>1, <1>3 DEF Wrote, HitWays, Index
  <2> QED BY <2>1
<1>4. ~Brought(in, Index(a), w)
  BY <1>0, <1>1, RefillFacts DEF Brought, InvVictimClean
<1>5. CASE Lost(in, Index(a), w)
  <2>1. CASE mh.state \in WbStates /\ valid_miss_fsm(in) /\ Index(a) = mh.cnt /\ w = mh.way
    <3>1. in.b
      BY <1>0, <2>1 DEF valid_miss_fsm, InvAdapter, WbStates
    <3> QED BY <1>0, <1>1, <2>1, <3>1 DEF WbMoves, InvWb
  <2>2. ~(/\ mh.state = "AMO_WB" /\ Index(a) = Index(in.amo) /\ w = HitWay(in.amo)
          /\ \E v \in HitWays(in.amo) : ~sram[Index(in.amo)][v].dirty)
    <3> SUFFICES ASSUME mh.state = "AMO_WB", Index(a) = Index(in.amo), w = HitWay(in.amo),
                        NEW v \in HitWays(in.amo), ~sram[Index(in.amo)][v].dirty
                 PROVE  FALSE
      OBVIOUS
    <3>1. w \in HitWays(in.amo)
      BY HitWayType
    <3>2. v = w
      BY <1>0, <1>1, <3>1 DEF InvRows, HitWays
    <3> QED BY <3>2
  <2>3. ~(mh.state = "FLUSHING" /\ DirtyWays(mh.cnt) = {} /\ Index(a) = mh.cnt)
    BY <1>1 DEF DirtyWays
  <2>4. CASE /\ snp.state = "INVALIDATE" /\ SnpGnt(in)
             /\ Index(a) = Index(snp.addr) /\ w = snp.way
    BY <1>0, <1>1, <2>4, SnoopTakes
  <2> QED BY <1>5, <2>1, <2>2, <2>3, <2>4 DEF Lost, Running
<1> QED BY <1>0, <1>1, <1>2, <1>3, <1>4, <1>5, LineFate

\* The last write of a line is never dropped.
LEMMA LostWriteStepInv ==
  ASSUME ControlInv, StoreInv, LineInv, CoherenceInv, ValueInv, NEW in, DataEdge(in),
         ControlInv'
  PROVE  NoLostWrite'
<1>0. /\ TypeOK /\ InvSnoop /\ InvAmo /\ InvMshr /\ InvAdapter /\ InvFlush /\ InvLookup
      /\ InvFound /\ InvArrival /\ InvSnooped /\ InvGrantData /\ InvVictimClean /\ InvWb
      /\ InvAmoGone /\ InvRest /\ Fresh /\ NoLostWrite /\ StoreHits /\ InvSnoop' /\ InvMshr'
  BY StoreInvHits DEF ControlInv, StoreInv, LineInv, CoherenceInv, ValueInv
<1>1. /\ in \in Inputs /\ Edge(in) /\ SramStep(in) /\ SnpCarries(in) /\ SnpMoves(in)
      /\ AdMoves(in) /\ AdCarries(in) /\ RespMoves(in) /\ WbMoves(in) /\ in.r \in Beats
      /\ None \notin Nat
  BY InputFacts, DCacheAssumption DEF DataEdge, Edge
<1> DEFINE D2(a) == rest'[a].dirty
           D3(a) == \E w \in HitWays(a)' : sram'[Index(a)][w].dirty
           D4(a) == snp'.state # "IDLE" /\ snp'.addr = a /\ snp'.cr.dirty
           D5(a) == /\ mh'.state \in Serving /\ mh'.addr = a
                    /\ ccu'.resp.dirty \/ (ad'.state = "COMPLETE_READ" /\ ad'.dirty)
<1>2. SUFFICES ASSUME Running', NEW a \in Addr
               PROVE  memv'[a] = latest'[a] \/ D2(a) \/ D3(a) \/ D4(a) \/ D5(a)
  <2>1. snp'.state # "IDLE" => ccu'.state \in {"CR", "CD"}
    BY <1>0 DEF InvSnoop
  <2>2. mh'.state \in Serving => mh'.valid
    BY <1>0 DEF InvMshr
  <2> QED BY <2>1, <2>2 DEF NoLostWrite, HitWays, Index
<1>3. EnvFate(in, a)
  BY DEF DataEdge
<1>4. CASE ~Running
  BY <1>0, <1>4, InitQuiet DEF Running
<1>5. CASE Running /\ a \in OwnStores(in)
  <2>1. CASE StoreWrites(in) /\ a = cc[STORE].addr
    <3>1. cc[STORE].way \in HitWays(a)
      BY <1>0, <2>1 DEF StoreHits, StoreWrites
    <3>2. cc[STORE].way \in Ways /\ sram[Index(a)][cc[STORE].way].tag = a
      BY <3>1 DEF HitWays
    <3>3. Wrote(in, Index(a), cc[STORE].way)
      BY <1>0, <1>1, <2>1, <3>2, LineWritten
    <3>4. cc[STORE].way \in HitWays(a)' /\ sram'[Index(a)][cc[STORE].way].dirty
      BY <3>2, <3>3 DEF Wrote, HitWays, Index
    <3> QED BY <3>4
  <2>2. CASE RefillWrites(in) /\ mh.id = STORE /\ a = mh.addr
    <3>1. mh.way \in Ways
      BY <1>0, <2>2 DEF InvVictimClean, RefillWrites
    <3>2. Brought(in, Index(a), mh.way)
      BY <1>0, <1>1, <2>2, <3>1, LineWritten
    <3>3. mh.way \in HitWays(a)' /\ sram'[Index(a)][mh.way].dirty
      BY <2>2, <3>1, <3>2 DEF Brought, HitWays, Index
    <3> QED BY <3>3
  <2> QED BY <1>5, <2>1, <2>2, OwnStoresAre
<1>6. CASE Running /\ a \notin OwnStores(in)
  <2>0. /\ rest[a].held # "none" => rest[a].data = latest[a]
        /\ rest[a].dirty => rest[a].held # "none"
    BY <1>0, <1>6 DEF Fresh, InvRest
  <2>1. CASE SnoopFate(in, a)
    <3>1. Answering /\ a = snp.addr /\ snp.snoop # "READ_ONCE"
      BY <2>1, AnsweredFacts DEF SnoopFate
    <3>2. snp.snoop = "CLEAN_INVALID" =>
            (IF snp.cr.dirty THEN snp.data
             ELSE IF rest[a].dirty THEN rest[a].data ELSE memv[a]) = latest[a]
      BY <3>1, SnoopCurrent
    <3>3. CASE snp.snoop = "CLEAN_INVALID"
      BY <1>6, <2>1, <3>2, <3>3 DEF SnoopFate, Versioned
    <3>4. CASE snp.snoop # "CLEAN_INVALID"
      <4>1. /\ latest'[a] = latest[a] /\ memv'[a] = memv[a]
            /\ rest[a].dirty => rest'[a].dirty
            /\ snp.cr.dirty => rest'[a].dirty
        BY <1>0, <1>6, <2>1, <3>1, <3>4 DEF SnoopFate, Versioned, InvSnooped, Answering
      <4>2. ~Granted
        BY <1>0, <3>1, AnsweringFacts
      <4>3. \/ memv[a] = latest[a] \/ rest[a].dirty \/ snp.cr.dirty
            \/ \E w \in HitWays(a) : sram[Index(a)][w].dirty
        BY <1>0, <1>6, <4>2 DEF NoLostWrite, InvGrantData, Granted
      <4> QED BY <1>6, <4>1, <4>3, DirtyStep
    <3> QED BY <3>3, <3>4
  <2>2. CASE Free /\ mh.state = "AMO_WAIT_RESP" /\ a = core.amo
    <3>1. HitWays(a) = {} /\ ~mh.valid /\ ccu.state = "IDLE"
      BY <1>0, <2>2 DEF InvAmoGone, InvMshr, Serving, Refilling, Cleaning, ReqStates, Free
    <3>2. ~Granted
      BY <1>0, <2>2 DEF Granted, Arriving, InvAdapter
    <3>3. ~rest[a].dirty => memv[a] = latest[a]
      BY <1>0, <1>6, <3>1, <3>2, MemoryCurrent
    <3>4. ~OwnFate(in, a) /\ ad.state # "WAIT_B"
      BY <1>0, <2>2 DEF OwnFate, InvAdapter, WbStates
    <3> QED BY <1>3, <1>6, <2>0, <2>1, <3>3, <3>4 DEF EnvFate, Versioned
  <2>3. CASE OwnFate(in, a)
    <3>1. /\ ad.state = "WAIT_R" /\ ccu.state = "IDLE" /\ ~Granted /\ a = mh.addr
          /\ latest'[a] = latest[a]
      BY <1>6, <2>3 DEF OwnFate, Free, Granted, Arriving, Versioned
    <3>2. mh'.state = mh.state /\ mh'.addr = a /\ mh.state \in {"SAVE_CACHELINE", "SEND_CLEAN"}
      BY <1>0, <1>1, <3>1, MhWaits
    <3>3. mh'.state \in Serving
      BY <3>2 DEF Serving, Refilling, Cleaning
    <3>4. \/ memv[a] = latest[a] \/ rest[a].dirty
          \/ \E w \in HitWays(a) : sram[Index(a)][w].dirty
      BY <1>0, <1>6, <3>1 DEF NoLostWrite, InvGrantData, Granted
    <3>5. rest[a].dirty => memv'[a] = latest[a] \/ rest'[a].dirty \/ ccu'.resp.dirty
      BY <2>0, <2>3 DEF OwnFate
    <3>6. memv'[a] = memv[a] \/ memv'[a] = latest[a]
      BY <2>0, <2>3 DEF OwnFate
    <3> QED BY <1>6, <3>1, <3>2, <3>3, <3>4, <3>5, <3>6, DirtyStep
  <2>4. CASE rest[a].held = "unique" /\ rest'[a].dirty
    BY <2>4
  <2>5. CASE /\ ~SnoopFate(in, a) /\ ~OwnFate(in, a)
             /\ ~(Free /\ mh.state = "AMO_WAIT_RESP" /\ a = core.amo)
             /\ ~(rest[a].held = "unique" /\ rest'[a].dirty)
    <3>1. latest'[a] = latest[a]
      BY <1>3, <1>6, <2>5 DEF EnvFate, Versioned
    <3>2. rest[a].dirty => rest'[a].dirty \/ memv'[a] = latest[a]
      BY <1>3, <2>0, <2>5 DEF EnvFate
    <3>3. \/ memv'[a] = memv[a] \/ memv'[a] = latest[a]
          \/ /\ ad.state = "WAIT_B" /\ ~wb_done /\ a = mh.evict /\ rest'[a] = rest[a]
             /\ memv'[a] = mh.evict_data
      BY <1>3, <2>0, <2>5 DEF EnvFate
    <3>4. ASSUME snp.state # "IDLE", snp.addr = a, snp.cr.dirty
          PROVE  D4(a)
      <4>1. /\ snp.cr.data /\ snp.snoop \in {"READ_UNIQUE", "CLEAN_INVALID"}
            /\ snp.state \notin {"WAIT_GNT", "EVAL_FLAGS"}
        BY <1>0, <3>4 DEF InvSnooped
      <4>2. ~Answered(in)
        BY <2>5, <3>4, <4>1 DEF DataEdge
      <4>3. snp'.state # "IDLE"
        BY <1>1, <3>4, <4>1, <4>2 DEF SnpMoves, Answered, CdTaken
      <4> QED BY <1>1, <3>4, <4>1, <4>3 DEF SnpCarries, SnpSame, SnpLooks
    <3>5. ASSUME mh.valid, mh.addr = a, ccu.resp.dirty
          PROVE  D5(a)
      <4>1. Arriving
        BY <1>0, <3>5 DEF InvGrantData
      <4>2. ad.state = "WAIT_R"
        BY <1>0, <4>1 DEF Arriving, InvAdapter
      <4>3. mh'.state = mh.state /\ mh'.addr = a /\ mh'.state \in Serving
        BY <1>0, <1>1, <3>5, <4>2, MhWaits DEF Serving, Refilling, Cleaning
      <4>4. CASE ccu.rlat = 0
        <5>1. in.r = "last"
          BY <1>1, <4>4 DEF Beats
        <5> QED BY <1>1, <3>5, <4>2, <4>3, <5>1 DEF AdMoves, AdCarries
      <4>5. CASE ccu.rlat # 0
        BY <1>1, <2>5, <3>5, <4>3, <4>5 DEF RespMoves
      <4> QED BY <4>4, <4>5
    <3>6. ASSUME mh.valid, mh.addr = a, ad.state = "COMPLETE_READ", ad.dirty
          PROVE  D3(a)
      <4>1. mh.state = "SAVE_CACHELINE" /\ RefillWrites(in)
        <5>1. Granted /\ Grant.dirty
          BY <3>6 DEF Granted, Grant
        <5> QED BY <1>0, <3>6, <5>1 DEF InvGrantData, InvAdapter, RefillWrites, valid_miss_fsm
      <4>2. mh.way \in Ways
        BY <1>0, <4>1 DEF InvVictimClean
      <4>3. Brought(in, Index(a), mh.way)
        BY <1>0, <1>1, <3>6, <4>1, <4>2, LineWritten
      <4>4. mh.way \in HitWays(a)' /\ sram'[Index(a)][mh.way].dirty
        BY <3>6, <4>2, <4>3 DEF Brought, HitWays, Index
      <4> QED BY <4>4
    <3>7. ASSUME ad.state = "WAIT_B", ~wb_done, a = mh.evict, rest'[a] = rest[a],
                 memv'[a] = mh.evict_data
          PROVE  memv'[a] = latest[a] \/ D2(a) \/ D4(a)
      <4>1. mh.state \in WbStates /\ mh.cnt = Index(a) /\ mh.way \in Ways
        BY <1>0, <3>7 DEF InvAdapter, InvWb
      <4>2. CASE sram[mh.cnt][mh.way].valid
        <5>1. sram[mh.cnt][mh.way].tag = a /\ sram[mh.cnt][mh.way].data = mh.evict_data
          BY <1>0, <3>7, <4>1, <4>2 DEF InvWb
        <5>2. mh.way \in HitWays(a)
          BY <4>1, <4>2, <5>1 DEF HitWays
        <5> QED BY <1>0, <1>6, <3>7, <4>1, <5>1, <5>2 DEF Fresh
      <4>3. CASE ~sram[mh.cnt][mh.way].valid
        BY <1>0, <3>4, <3>7, <4>1, <4>3 DEF InvWb
      <4> QED BY <4>2, <4>3
    <3>8. memv[a] = latest[a] => memv'[a] = latest'[a] \/ D2(a) \/ D4(a)
      BY <3>1, <3>3, <3>7
    <3>9. \/ memv[a] = latest[a] \/ rest[a].dirty
          \/ \E w \in HitWays(a) : sram[Index(a)][w].dirty
          \/ snp.state # "IDLE" /\ snp.addr = a /\ snp.cr.dirty
          \/ /\ mh.valid /\ mh.addr = a
             /\ ccu.resp.dirty \/ (ad.state = "COMPLETE_READ" /\ ad.dirty)
      BY <1>0, <1>6 DEF NoLostWrite, InvSnoop
    <3>10. (\E w \in HitWays(a) : sram[Index(a)][w].dirty) => memv[a] = latest[a] \/ D3(a) \/ D4(a)
      BY <1>6, DirtyStep
    <3> QED BY <3>1, <3>2, <3>4, <3>5, <3>6, <3>8, <3>9, <3>10
  <2> QED BY <2>1, <2>2, <2>3, <2>4, <2>5
<1> QED BY <1>4, <1>5, <1>6

\* At reset nothing has been written anywhere.
LEMMA InitValues == Init => ValueInv
<1> SUFFICES ASSUME Init PROVE ValueInv
  OBVIOUS
<1>1. /\ mh.state = "INIT" /\ ad.state = "IDLE" /\ snp.state = "IDLE" /\ ~wb_done
      /\ ccu.state = "IDLE" /\ ccu.rlat = None /\ ccu.resp = NoResp
      /\ rest = [a \in Addr |-> Nowhere] /\ memv = [a \in Addr |-> 0]
      /\ latest = [a \in Addr |-> 0]
  BY DEF Init, CacheInit
<1>2. InvPlaced /\ InvSnoopData /\ InvVictimClean /\ InvWb /\ InvAmoGone /\ Fresh /\ NoLostWrite
  BY <1>1 DEF InvPlaced, InvSnoopData, InvVictimClean, InvWb, InvAmoGone, Fresh, NoLostWrite,
     Running, Answering, WbStates, ReqStates
<1>3. InvGrantData
  BY <1>1 DEF InvGrantData, Granted, Arriving, NoResp
<1>4. InvRest
  BY <1>1 DEF InvRest, Nowhere
<1> QED BY <1>2, <1>3, <1>4 DEF ValueInv

\* An edge keeps every copy current and loses no write.
LEMMA NextValues ==
  /\ ControlInv /\ StoreInv /\ LineInv /\ CoherenceInv /\ ValueInv /\ ControlInv'
  /\ [Next]_vars
  => ValueInv'
<1> SUFFICES ASSUME ControlInv, StoreInv, LineInv, CoherenceInv, ValueInv, ControlInv', [Next]_vars
             PROVE  ValueInv'
  OBVIOUS
<1>1. CASE Next
  <2>1. PICK in \in Inputs : CacheStep(in) /\ CoreStep(in) /\ EnvStep(in)
    BY <1>1 DEF Next
  <2>2. DataEdge(in)
    BY <2>1, DataEdgeFacts
  <2>3. /\ TypeOK /\ InvSnoop /\ InvAmo /\ InvMshr /\ InvAdapter /\ InvFlush /\ InvAmo'
        /\ InvRows /\ InvAbsent /\ InvFound /\ InvVictim /\ InvLookup
    BY DEF ControlInv, LineInv, StoreInv
  <2>4. /\ InvArrival /\ InvGranted /\ InvOwner /\ Coherent
        /\ InvPlaced /\ InvGrantData /\ InvSnoopData /\ InvVictimClean /\ InvWb /\ InvAmoGone
        /\ InvRest /\ Fresh /\ NoLostWrite
    BY DEF CoherenceInv, ValueInv
  <2>5. StoreHits
    BY StoreInvHits
  <2>6. InvPlaced'
    BY <2>2, <2>3, <2>4, <2>5, PlacedStepInv
  <2>7. InvGrantData'
    BY <2>2, <2>3, <2>4, GrantDataStepInv
  <2>8. InvSnoopData'
    BY <2>2, <2>3, <2>4, SnoopDataStepInv
  <2>9. InvVictimClean'
    BY <2>2, <2>3, <2>4, VictimStepInv
  <2>10. InvWb' /\ Fresh' /\ NoLostWrite'
    BY <2>2, WbStepInv, FreshStepInv, LostWriteStepInv
  <2>11. InvAmoGone'
    BY <2>2, <2>3, <2>4, <2>5, AmoGoneStepInv
  <2>12. InvRest'
    BY <2>2, <2>3, <2>4, RestStepInv
  <2> QED BY <2>6, <2>7, <2>8, <2>9, <2>10, <2>11, <2>12 DEF ValueInv
<1>2. CASE UNCHANGED vars
  <2>1. /\ sram' = sram /\ cc' = cc /\ mh' = mh /\ ad' = ad /\ snp' = snp /\ core' = core
        /\ ccu' = ccu /\ rest' = rest /\ memv' = memv /\ latest' = latest /\ wb_done' = wb_done
    BY <1>2 DEF vars, cacheVars, envVars
  <2>2. InvPlaced' /\ InvGrantData' /\ InvSnoopData' /\ InvVictimClean' /\ InvRest'
    BY <2>1 DEF ValueInv, InvPlaced, InvGrantData, InvSnoopData, InvVictimClean, InvRest,
       Running, Granted, Arriving, Grant, Answering
  <2>3. InvWb' /\ InvAmoGone'
    BY <2>1 DEF ValueInv, InvWb, InvAmoGone, HitWays
  <2>4. Fresh' /\ NoLostWrite'
    BY <2>1 DEF ValueInv, Fresh, NoLostWrite, Running, HitWays
  <2> QED BY <2>2, <2>3, <2>4 DEF ValueInv
<1> QED BY <1>1, <1>2

\* ValueInv is invariant on top of CoherenceInv.
LEMMA ValuesHold ==
  ASSUME RDelay <= 1
  PROVE  Spec /\ []WayKept => []ValueInv
<1>1. /\ ControlInv /\ StoreInv /\ LineInv /\ CoherenceInv /\ ValueInv /\ ControlInv'
      /\ [Next]_vars
      => ValueInv'
  BY NextValues
<1> QED BY <1>1, InitValues, CoherenceHolds, PTL DEF Spec

\* Every copy of a line, in this cache and in the others, is the version written last:
\* no refill, snoop, write-back, flush or AMO brings an old version back.
THEOREM FreshHolds == ASSUME RDelay <= 1 PROVE Spec /\ []WayKept => []Fresh
<1>1. ValueInv => Fresh
  BY DEF ValueInv
<1> QED BY <1>1, ValuesHold, PTL

\* The last write to a line is in memory, or some cache owes it to memory, or it is on the
\* way as the response to a snoop or to a refill: no write is lost.
THEOREM NoLostWriteHolds == ASSUME RDelay <= 1 PROVE Spec /\ []WayKept => []NoLostWrite
<1>1. ValueInv => NoLostWrite
  BY DEF ValueInv
<1> QED BY <1>1, ValuesHold, PTL
-----------------------------------------------------------------------------
(***************************************************************************)
(* WayKept.                                                                *)
(***************************************************************************)
\* How a store comes to wait for exclusive access, and how it waits.
UniqueMoves(in, n) ==
  LET c == cc[STORE] IN
  n.state = "MAKE_UNIQUE" =>
    /\ n.addr = c.addr
    /\ \/ c.state = "MAKE_UNIQUE" /\ ~miss_gnt(STORE, in) /\ n.way = c.way
       \/ /\ c.state \in {"WAIT_TAG", "WAIT_TAG_SAVED"} /\ ~mshr_index_matches(STORE)
          /\ n.way \in HitWays(c.addr)
       \/ /\ c.state = "STORE_REQ" /\ ~mshr_index_matches(STORE) /\ ~c.colliding_clean
          /\ n.way = c.way

\* The store port moves as UniqueMoves says, whatever its state.
LEMMA UniqueFacts ==
  ASSUME TypeOK, NEW in \in Inputs
  PROVE  UniqueMoves(in, CtrlNext(STORE, in))
<1> DEFINE c == cc[STORE]
<1> SUFFICES ASSUME NEW n, n = CtrlNext(STORE, in), n.state = "MAKE_UNIQUE"
             PROVE  /\ n.addr = c.addr
                    /\ \/ c.state = "MAKE_UNIQUE" /\ ~miss_gnt(STORE, in) /\ n.way = c.way
                       \/ /\ c.state \in {"WAIT_TAG", "WAIT_TAG_SAVED"}
                          /\ ~mshr_index_matches(STORE) /\ n.way \in HitWays(c.addr)
                       \/ /\ c.state = "STORE_REQ" /\ ~mshr_index_matches(STORE)
                          /\ ~c.colliding_clean /\ n.way = c.way
  BY DEF UniqueMoves
<1>0. c \in CtrlType /\ STORE \in CtrlPorts
  BY DEF TypeOK, CacheTypeOK, CtrlType, STORE, CtrlPorts
<1>k. ~in.core[STORE].kill
  BY StoreInputs
<1>a. Accept(STORE, in).state \in {"IDLE", "WAIT_TAG"} /\ Accept(STORE, in) \in CtrlType
  BY <1>0, AcceptFacts
<1>1. CASE c.state = "IDLE"
  <2>1. n = [Accept(STORE, in) EXCEPT !.colliding_read = FALSE]
    BY <1>k, <1>1 DEF CtrlNext
  <2>2. n.state = Accept(STORE, in).state
    BY <1>a, <2>1 DEF CtrlType
  <2> QED BY <1>a, <2>2
<1>2. CASE c.state \in {"WAIT_TAG", "WAIT_TAG_SAVED"}
  <2>0. TagKnown(STORE, in)
    BY <1>k DEF TagKnown
  <2>1. n = [Compare(STORE, in) EXCEPT !.colliding_read = FALSE]
    BY <1>k, <1>2, <2>0 DEF CtrlNext, WaitTag
  <2>2. Compare(STORE, in) \in CtrlType
    BY <1>0, CompareFacts
  <2>3. /\ n.state = Compare(STORE, in).state /\ n.way = Compare(STORE, in).way
        /\ n.addr = Compare(STORE, in).addr
    BY <2>1, <2>2 DEF CtrlType
  <2> DEFINE w == HitWay(c.addr)
             m == mshr_addr_matches(STORE) \/ mshr_index_matches(STORE)
  <2>4. CASE m
    <3>1. Compare(STORE, in) = [c EXCEPT !.state = "WAIT_MSHR"]
      BY <2>4 DEF Compare
    <3> QED BY <1>0, <2>3, <3>1 DEF CtrlType
  <2>5. CASE ~m /\ w = 0
    <3>1. Compare(STORE, in) = [c EXCEPT !.state = "WAIT_REFILL_GNT"]
      BY <2>5 DEF Compare
    <3> QED BY <1>0, <2>3, <3>1 DEF CtrlType
  <2>6. CASE ~m /\ w # 0
    <3>1. PICK st \in {"MAKE_UNIQUE", "STORE_REQ"} :
            Compare(STORE, in) = [c EXCEPT !.state = st, !.way = w]
      BY <2>6 DEF Compare
    <3>2. w \in HitWays(c.addr)
      BY <2>6, HitWayType
    <3> HIDE DEF w
    <3>3. n.way = w /\ n.addr = c.addr
      BY <1>0, <2>3, <3>1 DEF CtrlType
    <3> QED BY <1>2, <2>6, <3>2, <3>3
  <2> QED BY <2>4, <2>5, <2>6
<1>3. CASE c.state \in {"WAIT_GNT", "WAIT_GNT_SAVED"}
  <2>1. n = WaitGnt(STORE, in)
    BY <1>k, <1>3 DEF CtrlNext
  <2>2. PICK st \in CtrlStates : n = [c EXCEPT !.state = st] /\ st # "MAKE_UNIQUE"
    BY <2>1 DEF WaitGnt, CtrlStates
  <2> QED BY <1>0, <2>2 DEF CtrlType
<1>4. CASE c.state = "MAKE_UNIQUE"
  <2>1. n = MakeUnique(STORE, in)
    BY <1>k, <1>4 DEF CtrlNext
  <2>2. /\ n.addr = c.addr /\ n.way = c.way
        /\ n.state = IF ~miss_gnt(STORE, in) THEN c.state
                     ELSE IF miss_write_done(in) THEN "IDLE" ELSE "STORE_REQ"
    BY <1>0, <2>1, Zenon DEF MakeUnique, CtrlType
  <2> QED BY <1>4, <2>2
<1>5. CASE c.state = "STORE_REQ"
  <2>1. n = StoreReq(STORE, in)
    BY <1>k, <1>5 DEF CtrlNext
  <2> DEFINE d == [c EXCEPT
                     !.colliding_clean = @ \/ invalidate(c.addr),
                     !.colliding_read = @ \/ readshared_done(c.addr, in)]
             Leave(to) == [d EXCEPT !.state = to, !.colliding_clean = FALSE,
                                    !.colliding_read = FALSE]
  <2>2. \/ n = d
        \/ \E to \in {"WAIT_MSHR", "WAIT_TAG_SAVED", "IDLE"} : n = Leave(to)
        \/ n = Leave("MAKE_UNIQUE") /\ ~mshr_index_matches(STORE) /\ ~c.colliding_clean
    BY <2>1 DEF StoreReq
  <2>3. d \in CtrlType /\ d.state = "STORE_REQ" /\ d.way = c.way /\ d.addr = c.addr
    BY <1>0, <1>5 DEF CtrlType, CtrlStates
  <2> HIDE DEF d
  <2>4. n = Leave("MAKE_UNIQUE") /\ ~mshr_index_matches(STORE) /\ ~c.colliding_clean
    BY <2>2, <2>3 DEF CtrlType
  <2>5. n.way = c.way /\ n.addr = c.addr
    BY <2>3, <2>4 DEF CtrlType
  <2> QED BY <1>5, <2>4, <2>5
<1>6. CASE c.state = "WAIT_MSHR"
  <2>1. n = WaitMshr(STORE, in)
    BY <1>k, <1>6 DEF CtrlNext
  <2>2. n = [c EXCEPT !.state = "WAIT_TAG_SAVED"] \/ n = [c EXCEPT !.state = "WAIT_MSHR"]
    BY <1>6, <2>1 DEF WaitMshr
  <2> QED BY <1>0, <2>2 DEF CtrlType
<1>7. CASE c.state = "WAIT_REFILL_GNT"
  <2>1. n = WaitRefillGnt(STORE, in)
    BY <1>k, <1>7 DEF CtrlNext
  <2>2. \E to \in {"WAIT_MSHR", "WAIT_REFILL_GNT", "IDLE"} : n = [c EXCEPT !.state = to]
    BY <1>7, <2>1 DEF WaitRefillGnt
  <2> QED BY <1>0, <2>2 DEF CtrlType
<1>8. CASE c.state = "WAIT_CRITICAL_WORD"
  <2>1. n = IF critical_word_valid(in) THEN Accept(STORE, in) ELSE c
    BY <1>k, <1>8 DEF CtrlNext
  <2> QED BY <1>a, <1>8, <2>1
<1> QED BY <1>0, <1>1, <1>2, <1>3, <1>4, <1>5, <1>6, <1>7, <1>8 DEF CtrlType, CtrlStates

\* The refill of an earlier store is for another set.
LEMMA PortsStepInv ==
  ASSUME TypeOK, InvMshr, InvPorts, NEW in, Edge(in), UniqueMoves(in, cc'[STORE])
  PROVE  InvPorts'
<1>1. /\ in \in Inputs /\ MhMoves(in) /\ mh.state \in MissStates /\ STORE \in CtrlPorts
      /\ CtrlMoves(STORE, in, cc'[STORE]) /\ mh.id \in CtrlPorts
  BY DEF Edge, TypeOK, CacheTypeOK, STORE, CtrlPorts
<1>3. CASE mh.state = "IDLE" /\ MissReqs # {}
  <2>1. PICK i \in CtrlPorts : MhTakes(i)
    BY <1>1, <1>3 DEF MhMoves
  <2>2. /\ mh'.id = i /\ cc[i].state \in {"MAKE_UNIQUE", "WAIT_REFILL_GNT"}
        /\ mh'.make_unique = (cc[i].state = "MAKE_UNIQUE")
    BY <2>1 DEF MhTakes, MissReqs
  <2>4. ~mh'.make_unique /\ i = STORE => cc'[STORE].state # "MAKE_UNIQUE"
    BY <1>1, <2>2 DEF CtrlMoves
  <2> QED BY <2>2, <2>4 DEF InvPorts
<1>4. CASE ~(mh.state = "IDLE" /\ MissReqs # {})
  <2>1. MhKeeps /\ MhServes(in)
    BY <1>1, <1>4 DEF MhMoves
  <2>2. mh'.valid => mh.valid
    BY <1>1, <2>1 DEF MhKeeps, MhServes, InvMshr, Serving, Refilling, Cleaning
  <2>3. mh'.id = mh.id /\ mh'.addr = mh.addr /\ mh'.make_unique = mh.make_unique
    BY <2>1 DEF MhKeeps
  <2>4. cc'[STORE].state = "MAKE_UNIQUE" /\ mh.valid /\ mh.id = STORE /\ ~mh.make_unique =>
          Index(mh.addr) # Index(cc'[STORE].addr)
    BY DEF UniqueMoves, InvPorts, mshr_index_matches
  <2> QED BY <2>2, <2>3, <2>4 DEF InvPorts, Index
<1> QED BY <1>3, <1>4

\* A store that waits for exclusive access keeps the way of its line: the lookup found
\* the only one, and while it waits nobody brings its line back in another.
LEMMA WayKeptStepInv ==
  ASSUME NotMoved, ControlInv, StoreInv, LineInv, InvPorts, WayKept,
         NEW in, Edge(in), SramStep(in), UniqueMoves(in, cc'[STORE]), TypeOK'
  PROVE  WayKept'
<1> DEFINE c == cc[STORE]
           n == cc'[STORE]
<1>0. /\ TypeOK /\ InvMshr /\ InvFlush /\ InvLookup /\ InvStore /\ InvRows /\ InvAbsent /\ StoreHits
      /\ c.addr \in Addr /\ STORE \in CtrlPorts /\ mh.id \in CtrlPorts
      /\ mh.make_unique \in BOOLEAN
  BY StoreInvHits DEF ControlInv, StoreInv, LineInv, TypeOK, CacheTypeOK, STORE, CtrlPorts
<1>1. PICK a \in Addr : a = c.addr
  BY <1>0
<1>2. SUFFICES ASSUME n.state = "MAKE_UNIQUE" PROVE n.addr = a /\ HitWays(a)' \subseteq {n.way}
  BY DEF WayKept, HitWays, Index
<1>3. n.addr = a
  BY <1>1, <1>2 DEF UniqueMoves
<1>4. c.state # "IDLE"
  BY <1>2 DEF UniqueMoves
<1>5. Running
  BY <1>0, <1>4 DEF InvFlush, Running
\* The lookup finds every way that holds the line.
<1>6. ASSUME NEW w \in HitWays(a) PROVE HitWays(a) \subseteq {w}
  <2>1. ASSUME NEW v \in HitWays(a) PROVE v = w
    BY <1>0, <1>5, IndexType DEF HitWays, InvRows
  <2> QED BY <2>1
<1>7. HitWays(a) \subseteq {n.way}
  <2>1. CASE c.state = "MAKE_UNIQUE" /\ n.way = c.way
    BY <1>1, <2>1 DEF WayKept
  <2>2. CASE n.way \in HitWays(a)
    BY <1>6, <2>2
  <2>3. CASE /\ c.state = "STORE_REQ" /\ ~mshr_index_matches(STORE) /\ ~c.colliding_clean
             /\ n.way = c.way
    BY <1>0, <1>1, <1>6, <2>3 DEF InvStore
  <2> QED BY <1>1, <1>2, <2>1, <2>2, <2>3 DEF UniqueMoves
<1>8. ASSUME RefillWrites(in), mh.addr = a PROVE mh.way = n.way
  <2>2. mh.state = "SAVE_CACHELINE" /\ valid_miss_fsm(in) /\ mh.valid
    BY <1>0, <1>8 DEF RefillWrites, InvMshr, Serving, Refilling
  <2>3. mshr_index_matches(STORE)
    BY <1>1, <1>8, <2>2 DEF mshr_index_matches
  <2>4. c.state = "MAKE_UNIQUE" /\ ~miss_gnt(STORE, in) /\ n.way = c.way
    BY <1>2, <2>3 DEF UniqueMoves
  <2>5. CASE mh.id # STORE
    BY <1>1, <1>8, <2>2, <2>4, <2>5 DEF NotMoved
  <2>6. CASE mh.id = STORE
    <3>1. mh.make_unique
      BY <1>1, <1>8, <2>2, <2>4, <2>6 DEF InvPorts
    <3>2. ~mh.colliding_clean
      BY <1>0, <2>2 DEF InvAbsent, Refilling
    <3> QED BY <2>2, <2>4, <2>6, <3>1, <3>2 DEF miss_gnt, miss_write_done
  <2> QED BY <2>5, <2>6
<1>9. \A w \in HitWays(a)' : w \in HitWays(a) \/ w = n.way
  BY <1>0, <1>8, HitsStep
<1> QED BY <1>3, <1>7, <1>9

\* No port and no miss at reset.
LEMMA InitPorts == Init => InvPorts /\ WayKept
BY DEF Init, CacheInit, InvPorts, WayKept, STORE, CtrlPorts

\* An edge keeps the way of a store that waits for exclusive access.
LEMMA NextWayKept ==
  /\ ControlInv /\ StoreInv /\ LineInv /\ InvPorts /\ WayKept /\ NotMoved
  /\ [Next]_vars
  => InvPorts' /\ WayKept'
<1> SUFFICES ASSUME ControlInv, StoreInv, LineInv, InvPorts, WayKept, NotMoved, [Next]_vars
             PROVE  InvPorts' /\ WayKept'
  OBVIOUS
<1>1. CASE Next
  <2>1. PICK in \in Inputs : CacheStep(in) /\ CoreStep(in) /\ EnvStep(in)
    BY <1>1 DEF Next
  <2>2. TypeOK' /\ Edge(in) /\ SramStep(in) /\ cc' = [i \in CtrlPorts |-> CtrlNext(i, in)]
    BY <2>1, EdgeFacts DEF ControlInv, CacheStep, CtrlStep
  <2>3. TypeOK /\ InvMshr /\ STORE \in CtrlPorts
    BY DEF ControlInv, STORE, CtrlPorts
  <2>4. UniqueMoves(in, cc'[STORE])
    BY <2>2, <2>3, UniqueFacts
  <2>5. InvPorts'
    BY <2>2, <2>3, <2>4, PortsStepInv
  <2>6. WayKept'
    BY <2>2, <2>4, WayKeptStepInv
  <2> QED BY <2>5, <2>6
<1>2. CASE UNCHANGED vars
  BY <1>2 DEF vars, cacheVars, envVars, InvPorts, WayKept, HitWays, Index
<1> QED BY <1>1, <1>2

\* A store that waits for exclusive access remembers the way its line is in: the lookup, an
\* earlier store's refill, a CleanUnique that has to fetch the line again, snoops, flushes
\* and evictions cannot falsify it.  The one step that can is the refill of the line for
\* another port into another way (DcStaleWay).
THEOREM WayKeptHolds == Spec /\ []NotMoved => []WayKept
<1>1. Init => StoreInv /\ LineInv /\ InvPorts /\ WayKept
  BY InitStores, InitLines, InitPorts
<1>2. ControlInv /\ StoreInv /\ LineInv /\ WayKept /\ [Next]_vars => StoreInv' /\ LineInv'
  BY NextStores, NextLines, StoreInvHits
<1>3. /\ ControlInv /\ StoreInv /\ LineInv /\ InvPorts /\ WayKept /\ NotMoved /\ [Next]_vars
      => InvPorts' /\ WayKept'
  BY NextWayKept
<1> QED BY <1>1, <1>2, <1>3, ControlHolds, PTL DEF Spec

\* The data cache is correct for every number of lines, sets, ways and versions, every
\* traffic of the three ports, every set of snoops and every schedule of the other caches, in
\* every run in which no refill moves the line of a waiting store to another way and no
\* response is delayed past the next snoop.
THEOREM DataCacheCorrect ==
  ASSUME RDelay <= 1
  PROVE  Spec /\ []NotMoved => [](OneHot /\ Coherent /\ Fresh /\ NoLostWrite /\ StoreSafe)
BY WayKeptHolds, OneHotHolds, CoherentHolds, FreshHolds, NoLostWriteHolds, StoreSafeHolds, PTL
=============================================================================
