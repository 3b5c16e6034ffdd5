---------------------------- MODULE DCacheSystem ----------------------------
(***************************************************************************)
(* One data cache (DCache) against the rest of the system: its core, the   *)
(* coherence unit, the other caches and memory.  The coherence unit keeps  *)
(* the contract of CcuFsm: one transaction at a time, every snoop answered *)
(* before the initiator is, data from another cache before memory.  The    *)
(* other caches are summarised per line by what they hold.                 *)
(***************************************************************************)
EXTENDS DCache

CONSTANTS
  PtwLines,    \* lines each port of the core uses
  LoadLines,
  StoreLines,
  Flushes,     \* TRUE: the core may flush the cache
  Amos,        \* TRUE: the core may issue AMOs
  Kills,       \* TRUE: loads may be killed and tags may come late
  Contended,   \* lines that other cores use too
  Snoops,      \* snoops their requests cause
  RDelay       \* cycles by which other R traffic may delay the last beat of a refill

ASSUME SystemAssumption ==
  /\ \A L \in {PtwLines, LoadLines, StoreLines, Contended} : L \subseteq Addr
  /\ Snoops \subseteq SnoopTypes /\ RDelay \in Nat
  /\ Flushes \in BOOLEAN /\ Amos \in BOOLEAN /\ Kills \in BOOLEAN

VARIABLES
  core,   \* [flush, amo]: requests the core holds until they are acknowledged
  ccu,    \* the coherence unit as this cache sees it
  rest,   \* what the other caches hold of each line
  memv,   \* version in memory
  latest, \* version written last, by any core
  wb_done \* the write-back in flight has reached memory

envVars == <<core, ccu, rest, memv, latest, wb_done>>
vars    == <<cacheVars, envVars>>

Held    == [held : {"none", "shared", "unique"}, dirty : BOOLEAN, data : Val]
Nowhere == [held |-> "none", dirty |-> FALSE, data |-> 0]
Resp    == [shared : BOOLEAN, dirty : BOOLEAN, data : Val]
NoResp  == [shared |-> FALSE, dirty |-> FALSE, data |-> 0]

\* Every register keeps its type.
TypeOK ==
  /\ CacheTypeOK
  /\ core \in [flush : BOOLEAN, amo : Addr \cup {None}]
  /\ ccu \in [state : {"IDLE", "OWN", "AMO", "AC", "CR", "CD"},
              ac : [addr : Addr, snoop : SnoopTypes] \cup {None},
              resp : Resp, turn : 0..1, rlat : 0 .. RDelay + 1 \cup {None}]
  /\ rest \in [Addr -> Held]
  /\ memv \in [Addr -> Val]
  /\ latest \in [Addr -> Val]
  /\ wb_done \in BOOLEAN

Init ==
  /\ CacheInit
  /\ core = [flush |-> FALSE, amo |-> None]
  /\ ccu = [state |-> "IDLE", ac |-> None, resp |-> NoResp, turn |-> 0, rlat |-> None]
  /\ rest = [a \in Addr |-> Nowhere]
  /\ memv = [a \in Addr |-> 0]
  /\ latest = [a \in Addr |-> 0]
  /\ wb_done = FALSE
-----------------------------------------------------------------------------
(***************************************************************************)
(* The inputs of an edge.  An input is chosen only in the states that read *)
(* it.  The core holds back stores while an AMO is pending (amo_buffer).   *)
(***************************************************************************)
If(p, S, d) == IF p THEN S ELSE {d}

LinesOf(i) == <<PtwLines, LoadLines, StoreLines>>[i + 1]

ReadsReq(i) ==
  cc[i].state \in {"IDLE", "WAIT_TAG", "WAIT_TAG_SAVED", "WAIT_CRITICAL_WORD"}

CoreIn(i) ==
  LET s    == cc[i].state
      late == Kills /\ i # STORE
  IN [req : If(ReadsReq(i) /\ ~core.flush /\ (i = STORE => core.amo = None),
               LinesOf(i) \cup {None}, None),
      tag_valid : If(late /\ s \in {"WAIT_TAG", "WAIT_GNT"}, BOOLEAN, TRUE),
      kill : If(late /\ s # "IDLE" /\ Killable(i), BOOLEAN, FALSE)]

Beats ==
  IF ccu.rlat = 0 THEN {"last"}
  ELSE IF ad.state # "WAIT_R" \/ ad.first \/ mh.state = "SEND_CLEAN" THEN {"none"}
  ELSE IF ccu.rlat = 1 THEN {"first"}
  ELSE IF ccu.state = "OWN" \/ ccu.rlat # None THEN {"none", "first"}
  ELSE {"none"}

CoreInputs ==
  {[i \in CtrlPorts |-> c[i + 1]] : c \in CoreIn(0) \X CoreIn(1) \X CoreIn(2)}

Inputs ==
  [core : CoreInputs, flush : {core.flush}, amo : {core.amo}, ac : {ccu.ac},
   amo_gnt   : If(mh.state = "AMO_REQ", BOOLEAN, FALSE),
   amo_valid : If(ccu.state = "AMO", BOOLEAN, FALSE),
   cr_ready  : If(snp.state = "SEND_CR_RESP", BOOLEAN, FALSE),
   cd_ready  : If(snp.state = "SEND_CD_RESP", BOOLEAN, FALSE),
   ar_ready  : If(ad.state = "IDLE" /\ AdReads, BOOLEAN, FALSE),
   aw_ready  : If(ad.state = "IDLE" /\ AdWrites, BOOLEAN, FALSE),
   r : Beats, r_shared : {ccu.resp.shared}, r_dirty : {ccu.resp.dirty},
   r_data : {ccu.resp.data},
   b      : If(ad.state = "WAIT_B" /\ wb_done, BOOLEAN, FALSE),
   victim : If(mh.state = "MISS_REPL", Ways, 1),
   word   : If(ad.state = "IDLE" /\ mh.state \in ReqStates /\ mh.id # STORE, 0..1, 0)]
-----------------------------------------------------------------------------
(***************************************************************************)
(* The core: flush_i is held until flush_ack_o, an AMO until its response. *)
(***************************************************************************)
FlushAck == mh.state = "FLUSHING" /\ DirtyWays(mh.cnt) = {} /\ mh.cnt = NumSets - 1

CoreStep(in) ==
  core' \in IF in.flush THEN If(FlushAck, {[core EXCEPT !.flush = FALSE]}, core)
            ELSE IF in.amo # None THEN If(in.amo_valid, {[core EXCEPT !.amo = None]}, core)
            ELSE {core} \cup If(Flushes, {[core EXCEPT !.flush = TRUE]}, core)
                        \cup If(Amos /\ cc[STORE].state = "IDLE" /\ in.core[STORE].req = None,
                                {[core EXCEPT !.amo = a] : a \in Addr}, core)
-----------------------------------------------------------------------------
(***************************************************************************)
(* The coherence unit.  turn counts the cycles from the last R beat, or    *)
(* the last snoop beat, of a transaction to the next decision, rlat those  *)
(* until the last R beat reaches the axi_adapter.                          *)
(***************************************************************************)
OwnStores(in) ==
  IF StoreWrites(in) THEN {cc[STORE].addr}
  ELSE IF RefillWrites(in) /\ mh.id = STORE THEN {mh.addr} ELSE {}

\* Versions written at this edge: the core's stores and the writes W of others.
Written(in, W) ==
  latest' = [a \in Addr |-> IF a \in OwnStores(in) \cup W THEN Merge(latest[a]) ELSE latest[a]]

Tick == [ccu EXCEPT !.turn = 0,
                    !.rlat = IF @ \in {None, 0} THEN None ELSE @ - 1,
                    !.resp = IF ccu.rlat = 0 THEN NoResp ELSE @]

Free == ccu.state = "IDLE" /\ ccu.turn = 0

\* The write-back of line a has left the cache and not reached memory.  Writes of
\* others to the line do not overtake it on the way to memory.
WbInFlight(a) == mh.state \in WbStates /\ mh.evict = a /\ ~wb_done

CrTaken(in) == snp.state = "SEND_CR_RESP" /\ in.cr_ready
CdTaken(in) == snp.state = "SEND_CD_RESP" /\ in.cd_ready /\ snp.word = 1
Answered(in) == (CrTaken(in) /\ ~snp.cr.data) \/ CdTaken(in)

\* Nothing but handshakes.
CcuWait(in) ==
  /\ ~Answered(in) /\ ~in.amo_valid
  /\ ccu' = [Tick EXCEPT
               !.state = IF ac_ready(in) THEN "CR" ELSE IF CrTaken(in) THEN "CD" ELSE @,
               !.ac = IF ac_ready(in) THEN None ELSE @]

\* Another core's transaction reaches this cache as a snoop.
SendSnoop(in) ==
  /\ Free
  /\ \E a \in Contended, s \in Snoops :
       ccu' = [Tick EXCEPT !.state = "AC", !.ac = [addr |-> a, snoop |-> s]]
  /\ UNCHANGED <<rest, memv, wb_done>>
  /\ Written(in, {})

\* The snoop is answered: the initiator gets the line from this cache, another one
\* or memory.  CleanInvalid is the snoop of a CleanUnique (the initiator, which had
\* a copy, now owns it), of an LR, and of a write or an AMO that goes to memory.
SnoopDone(in) ==
  LET a     == snp.addr
      r     == rest[a]
      data  == IF snp.cr.data THEN snp.data ELSE IF r.held # "none" THEN r.data ELSE memv[a]
      clean == IF snp.cr.dirty THEN snp.data ELSE IF r.dirty THEN r.data ELSE memv[a]
      Give(h, d) == rest' = [rest EXCEPT ![a] = [held |-> h, dirty |-> d, data |-> data]]
  IN /\ Answered(in)
     /\ ccu' = [Tick EXCEPT !.state = "IDLE", !.turn = 1]
     /\ UNCHANGED wb_done
     /\ \/ /\ snp.snoop = "READ_ONCE"
           /\ UNCHANGED <<rest, memv>> /\ Written(in, {})
        \/ /\ snp.snoop = "READ_SHARED"
           /\ Give(IF snp.cr.data \/ r.held # "none" THEN "shared" ELSE "unique", r.dirty)
           /\ UNCHANGED memv /\ Written(in, {})
        \/ /\ snp.snoop = "READ_UNIQUE"
           /\ Give("unique", r.dirty \/ snp.cr.dirty)
           /\ UNCHANGED memv /\ Written(in, {})
        \/ /\ snp.snoop = "CLEAN_INVALID" /\ r.held # "none" /\ ~WbInFlight(a)
           /\ rest' = [rest EXCEPT ![a] = [@ EXCEPT !.held = "unique", !.dirty = FALSE]]
           /\ memv' = [memv EXCEPT ![a] = clean] /\ Written(in, {})
        \/ /\ snp.snoop = "CLEAN_INVALID" /\ ~WbInFlight(a)
           /\ rest' = [rest EXCEPT ![a] = Nowhere]
           /\ \/ memv' = [memv EXCEPT ![a] = clean] /\ Written(in, {})
              \/ memv' = [memv EXCEPT ![a] = Merge(clean)] /\ Written(in, {a})

\* This cache's own request is decided: the others are snooped and answer.  Dirty data
\* found by a CleanUnique is in memory at once; in the code its write-back follows the
\* answer, and which write to the line memory takes last is the subject of CcuTop.
ServeOwn(in) ==
  LET a    == mh.addr
      r    == rest[a]
      data == IF r.held # "none" THEN r.data ELSE memv[a]
      Answer(s, d) == ccu' = [Tick EXCEPT !.state = "OWN",
                                !.resp = [shared |-> s, dirty |-> d, data |-> data]]
  IN /\ Free /\ ad.state = "WAIT_R" /\ ccu.rlat = None
     /\ Written(in, {}) /\ UNCHANGED wb_done
     /\ \/ /\ mh.state = "SEND_CLEAN" /\ Answer(FALSE, FALSE)
           /\ rest' = [rest EXCEPT ![a] = Nowhere]
           /\ memv' = IF r.dirty THEN [memv EXCEPT ![a] = r.data] ELSE memv
        \/ /\ mh.state # "SEND_CLEAN" /\ mh.id = STORE /\ Answer(FALSE, r.dirty)
           /\ rest' = [rest EXCEPT ![a] = Nowhere] /\ UNCHANGED memv
        \/ /\ mh.state # "SEND_CLEAN" /\ mh.id # STORE /\ Answer(r.held # "none", FALSE)
           /\ rest' = [rest EXCEPT ![a].held = IF @ = "none" THEN @ ELSE "shared"]
           /\ UNCHANGED memv

\* The last R beat leaves the coherence unit, which is ready for the next request
\* whether or not the beat has arrived (it does not wait for RACK).
LastBeat(in) ==
  /\ ccu.state = "OWN"
  /\ \E d \in 0 .. RDelay :
       /\ mh.state = "SEND_CLEAN" => d <= 1
       /\ ccu' = [Tick EXCEPT !.state = "IDLE", !.turn = 1, !.rlat = 1 + d]
  /\ UNCHANGED <<rest, memv, wb_done>> /\ Written(in, {})

\* The core's AMO is executed at memory after the other caches gave up the line.
ServeAmo(in) ==
  /\ Free /\ mh.state = "AMO_WAIT_RESP" /\ core.amo # None
  /\ ccu' = [Tick EXCEPT !.state = "AMO"]
  /\ LET a == core.amo
         r == rest[a]
     IN /\ rest' = [rest EXCEPT ![a] = Nowhere]
        /\ memv' = [memv EXCEPT ![a] = Merge(IF r.dirty THEN r.data ELSE @)]
        /\ Written(in, {a})
  /\ UNCHANGED wb_done

AmoDone(in) ==
  /\ in.amo_valid
  /\ ccu' = [Tick EXCEPT !.state = "IDLE", !.turn = 1]
  /\ UNCHANGED <<rest, memv, wb_done>> /\ Written(in, {})
-----------------------------------------------------------------------------
(***************************************************************************)
(* The other caches and memory, in cycles in which no transaction is       *)
(* decided: a store of another core, an eviction, the write-back landing.  *)
(***************************************************************************)
Quiet(in) ==
  CcuWait(in) /\ Written(in, {}) /\ UNCHANGED <<rest, memv, wb_done>>

RestWrite(in) ==
  \E a \in Addr :
    /\ rest[a].held = "unique" /\ CcuWait(in)
    /\ rest' = [rest EXCEPT ![a] = [@ EXCEPT !.dirty = TRUE, !.data = Merge(rest[a].data)]]
    /\ Written(in, {a}) /\ UNCHANGED <<memv, wb_done>>

RestEvict(in) ==
  \E a \in Addr, h \in {"none", "shared"} :
    /\ rest[a].held # "none" /\ (h = "shared" => rest[a].held = "shared")
    /\ rest[a].dirty => ~WbInFlight(a)
    /\ CcuWait(in)
    /\ rest' = [rest EXCEPT ![a] = IF h = "none" THEN Nowhere ELSE [@ EXCEPT !.dirty = FALSE]]
    /\ memv' = IF rest[a].dirty THEN [memv EXCEPT ![a] = rest[a].data] ELSE memv
    /\ Written(in, {}) /\ UNCHANGED wb_done

WbLands(in) ==
  /\ ad.state = "WAIT_B" /\ ~wb_done /\ CcuWait(in)
  /\ memv' = [memv EXCEPT ![mh.evict] = mh.evict_data] /\ wb_done' = TRUE
  /\ Written(in, {}) /\ UNCHANGED rest

WbConfirmed(in) ==
  /\ in.b /\ CcuWait(in) /\ wb_done' = FALSE
  /\ Written(in, {}) /\ UNCHANGED <<rest, memv>>

EnvStep(in) ==
  \/ ~in.b /\ \/ Quiet(in) \/ RestWrite(in) \/ RestEvict(in) \/ WbLands(in)
              \/ SendSnoop(in) \/ SnoopDone(in)
              \/ ServeOwn(in) \/ LastBeat(in) \/ ServeAmo(in) \/ AmoDone(in)
  \/ WbConfirmed(in)

Next == \E in \in Inputs : CacheStep(in) /\ CoreStep(in) /\ EnvStep(in)

Spec == Init /\ [][Next]_vars
-----------------------------------------------------------------------------
(***************************************************************************)
(* Properties.                                                             *)
(***************************************************************************)
Running == mh.state # "INIT"

\* A line is in at most one way (the assertion on the hit vector in tag_cmp).
OneHot == Running => \A a \in Addr : Cardinality(HitWays(a)) <= 1

\* A copy not marked shared is the only one, and no other cache owns a line that
\* is valid here.
Coherent ==
  Running => \A a \in Addr : \A w \in HitWays(a) :
    IF sram[Index(a)][w].shared THEN rest[a].held # "unique" ELSE rest[a].held = "none"

\* Every copy, here and elsewhere, is the version written last.
Fresh ==
  Running => \A a \in Addr :
    /\ \A w \in HitWays(a) : sram[Index(a)][w].data = latest[a]
    /\ rest[a].held # "none" => rest[a].data = latest[a]

\* A store about to write the SRAM writes the way that holds its line.
StoreHits == updating_cache(STORE) => cc[STORE].way \in HitWays(cc[STORE].addr)

\* A store about to write the SRAM writes the way that holds its line, which no
\* other cache has a copy of (cache_ctrl: the store is non-atomic).
StoreSafe ==
  updating_cache(STORE) =>
    LET a == cc[STORE].addr IN cc[STORE].way \in HitWays(a) /\ rest[a].held = "none"

\* A controller that waits for the critical word is the one the miss handler
\* serves, for the line it asked for, and the word has not passed yet.
CriticalWordIsOwn ==
  \A i \in CtrlPorts : cc[i].state = "WAIT_CRITICAL_WORD" =>
    /\ mh.valid /\ mh.id = i /\ mh.addr = cc[i].addr
    /\ ad.state = "WAIT_R" /\ ~(ad.word = 0 /\ ad.first)

\* A flush is acknowledged only when the cache is empty.
FlushEmpties == [][core.flush /\ ~core'.flush => \A a \in Addr : HitWays(a)' = {}]_vars

\* The last write is in memory, or some cache owes it to memory, or it is on the
\* way in a snoop response or a refill.
NoLostWrite ==
  Running => \A a \in Addr :
    \/ memv[a] = latest[a] \/ rest[a].dirty
    \/ \E w \in HitWays(a) : sram[Index(a)][w].dirty
    \/ ccu.state \in {"CR", "CD"} /\ snp.addr = a /\ snp.cr.dirty
    \/ mh.valid /\ mh.addr = a /\ (ccu.resp.dirty \/ (ad.state = "COMPLETE_READ" /\ ad.dirty))
-----------------------------------------------------------------------------
(***************************************************************************)
(* The inductive invariant.  Serving are the states in which the miss      *)
(* handler works for a controller, Refilling those of them in which it     *)
(* will bring the line in.                                                 *)
(***************************************************************************)
Refilling == {"MISS", "MISS_REPL", "WB_CACHELINE_MISS", "SAVE_CACHELINE"} \cup ReqStates
Cleaning  == {"REQ_BEFORE_CLEAN", "CHECK_BEFORE_CLEAN", "SEND_CLEAN"}
Serving   == Refilling \cup Cleaning
AmoStates == {"AMO_WB_REQ", "AMO_WB", "WB_CACHELINE_AMO", "AMO_REQ", "AMO_WAIT_RESP"}

Empty(s) == \A w \in Ways : ~sram[s][w].valid

\* The coherence unit and the snoop controller are at the same point of a snoop.
InvSnoop ==
  /\ ccu.ac # None => ccu.state = "AC"
  /\ snp.state = "IDLE" <=> ccu.state \notin {"CR", "CD"}
  /\ snp.state = "SEND_CD_RESP" <=> ccu.state = "CD"
  /\ snp.state # "IDLE" => snp.snoop \in SnoopTypes

\* An AMO is pending while the miss handler works on it, and excludes a flush.
InvAmo ==
  /\ mh.state \in AmoStates => core.amo # None
  /\ core.flush => core.amo = None
  /\ mh.serve_amo => mh.state \in AmoStates \ {"AMO_WAIT_RESP"}
  /\ ccu.state = "AMO" => mh.state = "AMO_WAIT_RESP"

\* The MSHR is valid while the miss handler serves a controller, which waits for it
\* with the same address until the request is granted.
InvMshr ==
  /\ mh.valid <=> mh.state \in Serving
  /\ mh.state \in Cleaning => mh.make_unique
  /\ mh.valid /\ mh.make_unique =>
       mh.id = STORE /\ cc[STORE].state = "MAKE_UNIQUE" /\ cc[STORE].addr = mh.addr
  /\ mh.valid /\ ~mh.make_unique =>
       /\ ~mh.colliding_clean
       /\ mh.state # "SAVE_CACHELINE" =>
            cc[mh.id].state = "WAIT_REFILL_GNT" /\ cc[mh.id].addr = mh.addr
  /\ \A i \in CtrlPorts : cc[i].state \in {"MAKE_UNIQUE", "STORE_REQ"} => i = STORE

\* The adapter works for the state the miss handler is in, and the last beat of a
\* refill comes after the first.
InvAdapter ==
  /\ ad.state \in {"WAIT_R", "COMPLETE_READ"} => mh.state \in {"SAVE_CACHELINE", "SEND_CLEAN"}
  /\ ad.state = "WAIT_B" => mh.state \in WbStates
  /\ ccu.state = "OWN" \/ ccu.rlat # None => ad.state = "WAIT_R"
  /\ ccu.state = "OWN" => ccu.rlat = None
  /\ ccu.rlat = 0 => ad.first \/ mh.state = "SEND_CLEAN"

\* During a flush the controllers are idle and the sets done are empty; so it is
\* while the cache is initialised.
InvFlush ==
  /\ flushing => core.flush
  /\ flushing \/ mh.state = "INIT" =>
       /\ \A i \in CtrlPorts : cc[i].state = "IDLE"
       /\ \A s \in Sets : s < mh.cnt => Empty(s)

ControlInv ==
  TypeOK /\ InvSnoop /\ InvAmo /\ InvMshr /\ InvAdapter /\ CriticalWordIsOwn /\ InvFlush

(***************************************************************************)
(* The part about lines, which needs StoreHits.                            *)
(***************************************************************************)
\* No two ways of a set have the same line.
InvRows ==
  Running => \A s \in Sets : \A v, w \in Ways :
    sram[s][v].valid /\ sram[s][w].valid /\ sram[s][v].tag = sram[s][w].tag => v = w

\* A line that is being refilled is not in the cache.  No snoop invalidates it.
InvAbsent ==
  mh.state \in Refilling =>
    /\ HitWays(mh.addr) = {}
    /\ ~invalidate(mh.addr)
    /\ mh.colliding_clean => mh.state \notin {"REQ_CACHELINE", "SAVE_CACHELINE"}

\* A controller that waits for a refill missed, and its line has not come since,
\* unless it is on its way for another controller.
InvWaiting ==
  \A i \in CtrlPorts : cc[i].state = "WAIT_REFILL_GNT" =>
    /\ ~(mshr_addr_matches(i) /\ ~active_serving(i)) => HitWays(cc[i].addr) = {}
    /\ mh.state = "SAVE_CACHELINE" /\ mh.id = i => mh.addr # cc[i].addr

\* A snoop about to invalidate has found the only copy; none looks at the SRAM before
\* it is initialised.
InvFound ==
  /\ snp.state = "INVALIDATE" => HitWays(snp.addr) \subseteq {snp.way}
  /\ mh.state = "INIT" => snp.state \in {"IDLE", "WAIT_GNT"}

\* A CleanUnique that was overtaken by an invalidation has lost its line, or will at
\* the next edge.
InvCollided ==
  mh.state \in Cleaning /\ mh.colliding_clean =>
    /\ mh.state # "REQ_BEFORE_CLEAN"
    /\ \/ HitWays(mh.addr) = {}
       \/ mh.state = "CHECK_BEFORE_CLEAN" /\ invalidate(mh.addr)

LineInv == InvRows /\ InvAbsent /\ InvWaiting /\ InvFound /\ InvCollided

(***************************************************************************)
(* The part about stores, which needs WayKept.                             *)
(***************************************************************************)
\* A store that waits for exclusive access remembers the way its line is in, if it
\* still is in the cache.
WayKept ==
  cc[STORE].state = "MAKE_UNIQUE" => HitWays(cc[STORE].addr) \subseteq {cc[STORE].way}

\* The coherence unit cannot snoop this cache so soon after the response to a
\* CleanUnique that the snoop acts before the response is used.
InvTurn ==
  mh.state = "SEND_CLEAN" =>
    /\ ccu.rlat # None => /\ ccu.rlat <= 2 /\ ccu.state \in {"IDLE", "AC"}
                          /\ ccu.rlat # 0 => ccu.state = "IDLE"
                          /\ ccu.rlat = 2 => ccu.turn = 1
    /\ ad.state = "COMPLETE_READ" => snp.state \in {"IDLE", "WAIT_GNT"}

\* The victim of a miss is in the set of the line that missed.
InvVictim == mh.state = "WB_CACHELINE_MISS" => mh.cnt = Index(mh.addr)

\* A store and an AMO are never pending together, a store that has hit knows the way,
\* and the tag lookup of a store keeps the snoop controller from the SRAM.
InvLookup ==
  /\ cc[STORE].state \in {"MAKE_UNIQUE", "STORE_REQ"} => cc[STORE].way \in Ways
  /\ core.amo # None => cc[STORE].state = "IDLE"
  /\ cc[STORE].state \in {"WAIT_TAG", "WAIT_TAG_SAVED"} =>
       snp.state \notin {"EVAL_FLAGS", "UPDATE_SHARED", "INVALIDATE"}

\* While a CleanUnique is prepared a snoop about to invalidate holds its line; while it
\* is sent the line is in the cache, or the loss has been noticed.
InvPresent ==
  /\ mh.state \in Cleaning /\ snp.state = "INVALIDATE" => snp.way \in HitWays(snp.addr)
  /\ mh.state = "SEND_CLEAN" /\ ~mh.colliding_clean => HitWays(mh.addr) # {}

\* A store about to write has its line, or has noticed its loss, or will look it up again.
InvStore ==
  LET c == cc[STORE] IN
  c.state = "STORE_REQ" /\ ~c.colliding_clean /\ ~mshr_index_matches(STORE) =>
    /\ c.way \in HitWays(c.addr)
    /\ /\ snp.state = "INVALIDATE" /\ snp.way = c.way
       /\ Index(snp.addr) = Index(c.addr)
       => snp.addr = c.addr

StoreInv == InvTurn /\ InvVictim /\ InvLookup /\ InvPresent /\ InvStore

(***************************************************************************)
(* The part about the other caches, which needs RDelay <= 1: a snoop that  *)
(* follows a response acts after the response is used.                     *)
(***************************************************************************)
Answering == snp.state \in {"SEND_CR_RESP", "SEND_CD_RESP"}
Arriving  == ccu.state = "OWN" \/ ccu.rlat # None
Granted   == Arriving \/ ad.state = "COMPLETE_READ"

\* The response to the cache's request: on its way, or in the adapter.
Grant ==
  IF ad.state = "COMPLETE_READ"
  THEN [shared |-> ad.shared, dirty |-> ad.dirty, data |-> ad.data] ELSE ccu.resp

\* The coherence unit cannot snoop this cache so soon after a response that the snoop
\* acts before the response is used.
InvArrival ==
  /\ ccu.rlat # None => /\ ccu.rlat <= 2 /\ ccu.state \in {"IDLE", "AC"}
                        /\ ccu.rlat # 0 => ccu.state = "IDLE"
                        /\ ccu.rlat = 2 => ccu.turn = 1
  /\ ad.state = "COMPLETE_READ" => snp.state \in {"IDLE", "WAIT_GNT"}

\* While a response is on its way the other caches keep no more than it says.
InvGranted ==
  Granted =>
    \/ rest[mh.addr].held = "none"
    \/ mh.id # STORE /\ Grant.shared /\ rest[mh.addr].held = "shared"

\* What the snoop controller found, and still holds of the line when it answers.
InvSnooped ==
  /\ snp.state # "IDLE" /\ snp.cr.dirty =>
       snp.cr.data /\ snp.snoop \in {"READ_UNIQUE", "CLEAN_INVALID"}
  /\ snp.state \in {"WAIT_GNT", "EVAL_FLAGS"} => ~snp.cr.dirty /\ ~snp.cr.data
  /\ snp.state \in {"UPDATE_SHARED", "INVALIDATE"} =>
       /\ snp.way \in Ways /\ HitWays(snp.addr) \subseteq {snp.way}
       /\ sram[Index(snp.addr)][snp.way].valid => sram[Index(snp.addr)][snp.way].tag = snp.addr
  /\ snp.state = "UPDATE_SHARED" => snp.snoop = "READ_SHARED" /\ snp.cr.data
  /\ snp.state = "INVALIDATE" =>
       /\ snp.snoop \in {"READ_UNIQUE", "CLEAN_INVALID"}
       /\ \A w \in HitWays(snp.addr) : sram[Index(snp.addr)][w].dirty => snp.cr.dirty

\* A line that is in the cache while its snoop is answered is one the snoop leaves there.
InvAnswer ==
  Answering =>
    \A w \in HitWays(snp.addr) :
      /\ snp.snoop \in {"READ_ONCE", "READ_SHARED"}
      /\ snp.snoop = "READ_SHARED" => sram[Index(snp.addr)][w].shared /\ snp.cr.data

\* No other cache has the line a store is about to write, or will get it from a snoop
\* that is being answered.
InvOwner ==
  updating_cache(STORE) =>
    /\ rest[cc[STORE].addr].held = "none"
    /\ Answering /\ snp.addr = cc[STORE].addr => snp.snoop = "READ_ONCE"

CoherenceInv == InvArrival /\ InvGranted /\ InvSnooped /\ InvAnswer /\ InvOwner /\ Coherent

(***************************************************************************)
(* The part about versions.                                                *)
(***************************************************************************)
\* A line is in the set of its address.
InvPlaced ==
  Running => \A s \in Sets : \A w \in Ways : sram[s][w].valid => Index(sram[s][w].tag) = s

\* A response carries the last version, and only a refill carries dirty data.
InvGrantData ==
  /\ Granted /\ mh.state # "SEND_CLEAN" => Grant.data = latest[mh.addr]
  /\ Granted /\ mh.state = "SEND_CLEAN" => ~Grant.dirty
  /\ ~Arriving => ~ccu.resp.dirty

\* The data of a snoop response is the last version, which no other core can change.
InvSnoopData ==
  /\ snp.state \in {"UPDATE_SHARED", "INVALIDATE"} \/ Answering
  /\ snp.cr.data /\ snp.snoop # "READ_ONCE"
  => snp.data = latest[snp.addr] /\ rest[snp.addr].held # "unique"

\* The way a refill replaces holds nothing that memory has not.
InvVictimClean ==
  mh.state \in ReqStates \cup {"SAVE_CACHELINE"} =>
    /\ mh.way \in Ways
    /\ ~(sram[Index(mh.addr)][mh.way].valid /\ sram[Index(mh.addr)][mh.way].dirty)

\* A write-back carries what the cache holds, or a snoop took the line and the
\* duty to write it back.
InvWb ==
  /\ wb_done => mh.state \in WbStates /\ ad.state = "WAIT_B"
  /\ mh.state \in WbStates =>
       LET l == sram[mh.cnt][mh.way] IN
       /\ mh.way \in Ways /\ mh.cnt = Index(mh.evict)
       /\ l.valid => l.tag = mh.evict /\ l.dirty /\ l.data = mh.evict_data
       /\ wb_done /\ l.valid => memv[mh.evict] = latest[mh.evict]
       /\ ~wb_done /\ ~l.valid =>
            \/ rest[mh.evict].dirty
            \/ snp.state # "IDLE" /\ snp.addr = mh.evict /\ snp.cr.dirty

\* The line of an AMO has left the cache before the AMO is sent.
InvAmoGone ==
  /\ mh.state \in {"AMO_REQ", "AMO_WAIT_RESP"} => HitWays(core.amo) = {}
  /\ mh.state = "WB_CACHELINE_AMO" =>
       mh.evict = core.amo /\ HitWays(core.amo) \subseteq {mh.way}

\* A cache without a line owes memory nothing; nothing is written before the cache
\* is initialised.
InvRest ==
  /\ \A a \in Addr : rest[a].held = "none" => ~rest[a].dirty
  /\ ~Running => \A a \in Addr : rest[a].held = "none" /\ memv[a] = latest[a]

ValueInv ==
  /\ InvPlaced /\ InvGrantData /\ InvSnoopData /\ InvVictimClean /\ InvWb /\ InvAmoGone
  /\ InvRest /\ Fresh /\ NoLostWrite

(***************************************************************************)
(* When WayKept holds.                                                     *)
(***************************************************************************)
\* While a store waits for exclusive access to its line, no other port's refill puts the
\* line in another way.  The code does not ensure this: MAKE_UNIQUE ignores the MSHR.
NotMoved ==
  /\ cc[STORE].state = "MAKE_UNIQUE" /\ mh.state = "SAVE_CACHELINE"
  /\ mh.id # STORE /\ mh.addr = cc[STORE].addr
  => mh.way = cc[STORE].way

\* A store waits for exclusive access to a line of another set than the refill of the
\* store before it.
InvPorts ==
  cc[STORE].state = "MAKE_UNIQUE" /\ mh.valid /\ mh.id = STORE /\ ~mh.make_unique =>
    Index(mh.addr) # Index(cc[STORE].addr)
=============================================================================
