------------------------------- MODULE DCache -------------------------------
(***************************************************************************)
(* The write-back data cache of one core (std_nbdcache.sv): the snoop      *)
(* controller, the three cache controllers (PTW, load, store), the miss    *)
(* handler with its AXI adapter, and the single-ported SRAMs they share    *)
(* through the priority arbiter of tag_cmp.sv.                             *)
(*                                                                         *)
(* One step is one clock edge: all the state machines step together.  The  *)
(* module defines their wires and next states as functions of the inputs   *)
(* of the edge; it is closed with an environment by the module that        *)
(* extends it.                                                             *)
(*                                                                         *)
(* Line addresses are numbers, the set of a line is its address modulo the *)
(* number of sets, and the tag is the address itself.  The data of a line  *)
(* is a version number, the dirty bytes are one bit.                       *)
(***************************************************************************)
EXTENDS Naturals, FiniteSets

CONSTANTS
  NumAddr,   \* line addresses 0 .. NumAddr - 1
  NumSets,   \* DCACHE_NUM_WORDS
  NumWays,   \* DCACHE_SET_ASSOC
  Versions,  \* data versions are counted modulo Versions
  None

ASSUME DCacheAssumption ==
  /\ NumAddr \in Nat \ {0} /\ NumSets \in Nat \ {0}
  /\ NumWays \in Nat \ {0} /\ Versions \in Nat \ {0, 1}
  /\ None \notin Nat

Addr     == 0 .. NumAddr - 1
Sets     == 0 .. NumSets - 1
Ways     == 1 .. NumWays
Val      == 0 .. Versions - 1
Index(a) == a % NumSets

\* The controllers in the order of their SRAM priority; only the store port writes.
CtrlPorts == 0 .. 2
PTW       == 0
LOAD      == 1
STORE     == 2

Lines == [valid : BOOLEAN, shared : BOOLEAN, dirty : BOOLEAN, tag : Addr, data : Val]

SnoopTypes == {"READ_ONCE", "READ_SHARED", "READ_UNIQUE", "CLEAN_INVALID"}
CrResps    == [data : BOOLEAN, dirty : BOOLEAN, shared : BOOLEAN]
NoCr       == [data |-> FALSE, dirty |-> FALSE, shared |-> FALSE]

SnpStates  == {"IDLE", "WAIT_GNT", "EVAL_FLAGS", "UPDATE_SHARED", "INVALIDATE",
               "SEND_CR_RESP", "SEND_CD_RESP"}
CtrlStates == {"IDLE", "WAIT_TAG", "WAIT_TAG_SAVED", "WAIT_GNT", "WAIT_GNT_SAVED",
               "MAKE_UNIQUE", "STORE_REQ", "WAIT_MSHR", "WAIT_REFILL_GNT",
               "WAIT_CRITICAL_WORD"}
WbStates   == {"WB_CACHELINE_MISS", "WB_CACHELINE_FLUSH", "WB_CACHELINE_AMO"}
ReqStates  == {"REQ_CACHELINE", "REQ_CACHELINE_UNIQUE"}
MissStates == WbStates \cup ReqStates \cup
              {"INIT", "IDLE", "MISS", "MISS_REPL", "SAVE_CACHELINE",
               "REQ_BEFORE_CLEAN", "CHECK_BEFORE_CLEAN", "SEND_CLEAN",
               "FLUSH_REQ_STATUS", "FLUSHING",
               "AMO_WB_REQ", "AMO_WB", "AMO_REQ", "AMO_WAIT_RESP"}
AdStates   == {"IDLE", "WAIT_R", "COMPLETE_READ", "WAIT_B"}
-----------------------------------------------------------------------------
VARIABLES
  sram,  \* the lines: [Sets -> [Ways -> Lines]]
  snp,   \* registers of snoop_cache_ctrl
  cc,    \* registers of the three cache_ctrls
  mh,    \* registers of miss_handler
  ad     \* registers of its axi_adapter

cacheVars == <<sram, snp, cc, mh, ad>>

CacheTypeOK ==
  /\ sram \in [Sets -> [Ways -> Lines]]
  /\ snp \in [state : SnpStates, addr : Addr, snoop : SnoopTypes \cup {None},
              way : Ways \cup {0}, data : Val, cr : CrResps, word : 0..1]
  /\ cc \in [CtrlPorts -> [state : CtrlStates, addr : Addr, way : Ways \cup {0},
                           colliding_read : BOOLEAN, colliding_clean : BOOLEAN]]
  /\ mh \in [state : MissStates, valid : BOOLEAN, id : CtrlPorts, addr : Addr,
             make_unique : BOOLEAN, way : Ways \cup {0}, evict : Addr, evict_data : Val,
             cnt : Sets, colliding_clean : BOOLEAN, serve_amo : BOOLEAN]
  /\ ad \in [state : AdStates, first : BOOLEAN, word : 0..1,
             shared : BOOLEAN, dirty : BOOLEAN, data : Val]

\* After reset the status bits are whatever the SRAM powers up with.
PowerUp == {l \in Lines : ~l.shared /\ l.dirty = l.valid /\ l.data = 0}

CacheInit ==
  /\ sram \in [Sets -> [Ways -> PowerUp]]
  /\ snp = [state |-> "IDLE", addr |-> 0, snoop |-> None, way |-> 0, data |-> 0,
            cr |-> NoCr, word |-> 0]
  /\ cc = [i \in CtrlPorts |-> [state |-> "IDLE", addr |-> 0, way |-> 0,
                                colliding_read |-> FALSE, colliding_clean |-> FALSE]]
  /\ mh = [state |-> "INIT", valid |-> FALSE, id |-> 0, addr |-> 0, make_unique |-> FALSE,
           way |-> 0, evict |-> 0, evict_data |-> 0, cnt |-> 0, colliding_clean |-> FALSE,
           serve_amo |-> FALSE]
  /\ ad = [state |-> "IDLE", first |-> FALSE, word |-> 0, shared |-> FALSE,
           dirty |-> FALSE, data |-> 0]
-----------------------------------------------------------------------------
(***************************************************************************)
(* The inputs of an edge, in a record in:                                  *)
(*   core   for each controller: the address requested (or None), whether  *)
(*          the tag is valid, whether the request is killed                *)
(*   amo    the address of the pending AMO or None, flush: a flush is      *)
(*          pending; amo_gnt, amo_valid: answers of the bypass adapter     *)
(*   ac     the snoop request or None; cr_ready, cd_ready                  *)
(*   ar_ready; aw_ready: AW and all W beats are taken                      *)
(*   r      the R beat ("none", "first", "last") with r_shared, r_dirty    *)
(*          and r_data of the last one; b: B is valid                      *)
(*   victim the way lfsr_8bit proposes; word: the word of the line that    *)
(*          missed                                                         *)
(***************************************************************************)
HitWays(a) == {w \in Ways : sram[Index(a)][w].valid /\ sram[Index(a)][w].tag = a}
FirstOf(S) == CHOOSE w \in S : \A v \in S : w <= v
HitWay(a)  == IF HitWays(a) = {} THEN 0 ELSE FirstOf(HitWays(a))

\* Slip: only the first way is looked at.
DirtyWays_First(s) == {w \in {1} : sram[s][w].valid /\ sram[s][w].dirty}

DirtyWays(s) == {w \in Ways : sram[s][w].valid /\ sram[s][w].dirty}

\* Answers of the axi_adapter to the miss handler.
valid_miss_fsm(in) ==
  ad.state = "COMPLETE_READ" \/ (ad.state = "WAIT_B" /\ in.b)
gnt_miss_fsm(in) ==
  ad.state = "IDLE" /\ mh.state \in ReqStates /\ in.ar_ready
critical_word_valid(in) ==
  ad.state = "WAIT_R" /\ in.r = IF ad.word = 0 THEN "first" ELSE "last"

\* Outputs of the miss handler.
flushing == mh.state \in {"FLUSH_REQ_STATUS", "FLUSHING", "WB_CACHELINE_FLUSH"}
miss_write_done(in) ==
  mh.state = "SAVE_CACHELINE" /\ valid_miss_fsm(in) /\ ~mh.colliding_clean /\ mh.make_unique
miss_gnt(i, in) ==
  /\ i = mh.id
  /\ \/ mh.state \in ReqStates /\ gnt_miss_fsm(in) /\ ~mh.make_unique
     \/ miss_write_done(in)
     \/ mh.state = "SEND_CLEAN" /\ valid_miss_fsm(in) /\ ~mh.colliding_clean

\* MSHR lookups of a controller that presents its address.
mshr_addr_matches(i)  == mh.valid /\ mh.addr = cc[i].addr
mshr_index_matches(i) == mh.valid /\ Index(mh.addr) = Index(cc[i].addr)
active_serving(i)     == mh.valid /\ mh.id = i

\* A store is about to write the SRAM: the snoop controller holds its lookup.
updating_cache(i) ==
  /\ cc[i].state = "STORE_REQ"
  /\ ~mshr_index_matches(i) /\ ~cc[i].colliding_clean /\ ~cc[i].colliding_read

\* The snoop controller takes the AC unless a flush, or an AMO to the line, is on.
ac_ready(in) ==
  /\ snp.state = "IDLE" /\ in.ac # None /\ ~flushing
  /\ ~(mh.serve_amo /\ in.amo = in.ac.addr)
-----------------------------------------------------------------------------
(***************************************************************************)
(* SRAM requests and the priority arbiter: miss handler, snoop controller, *)
(* PTW, load, store.                                                       *)
(***************************************************************************)
MhReads  == mh.state \in {"MISS", "REQ_BEFORE_CLEAN", "FLUSH_REQ_STATUS", "AMO_WB_REQ"}
\* Slip: a clean copy of the AMO's line stays in the cache.
MhWrites_NoAmo(in) ==
  \/ mh.state \in {"SAVE_CACHELINE"} \cup WbStates /\ valid_miss_fsm(in)
  \/ mh.state = "FLUSHING" /\ DirtyWays(mh.cnt) = {}
  \/ mh.state = "INIT"

MhWrites(in) ==
  \/ mh.state \in {"SAVE_CACHELINE"} \cup WbStates /\ valid_miss_fsm(in)
  \/ mh.state = "FLUSHING" /\ DirtyWays(mh.cnt) = {}
  \/ mh.state = "AMO_WB" /\ \E w \in HitWays(in.amo) : ~sram[Index(in.amo)][w].dirty
  \/ mh.state = "INIT"
MhReq(in) == MhReads \/ MhWrites(in)

SnpReq(in) ==
  \/ snp.state \in {"EVAL_FLAGS", "UPDATE_SHARED", "INVALIDATE"}
  \/ /\ snp.state = "WAIT_GNT" \/ ac_ready(in)
     /\ \A i \in CtrlPorts : ~updating_cache(i)
SnpGnt(in) == ~MhReq(in)

\* The tag of the request in WAIT_TAG is known and the request not killed.
TagKnown(i, in) ==
  /\ ~in.core[i].kill
  /\ in.core[i].tag_valid \/ cc[i].state = "WAIT_TAG_SAVED" \/ i = STORE

\* A new request of the core at port i that the flush does not hold back.
NewReq(i, in) == in.core[i].req # None /\ ~in.flush

CtrlReq(i, in) ==
  CASE cc[i].state = "IDLE" -> NewReq(i, in)
    [] cc[i].state \in {"WAIT_TAG", "WAIT_TAG_SAVED"} ->
         TagKnown(i, in) => NewReq(i, in)
    [] cc[i].state \in {"WAIT_GNT", "WAIT_GNT_SAVED"} -> TRUE
    [] cc[i].state = "STORE_REQ" ->
         ~mshr_index_matches(i) /\ (cc[i].colliding_clean \/ ~cc[i].colliding_read)
    [] cc[i].state = "WAIT_MSHR" -> ~mshr_index_matches(i)
    [] cc[i].state = "WAIT_CRITICAL_WORD" -> critical_word_valid(in) /\ NewReq(i, in)
    [] OTHER -> FALSE

CtrlGnt(i, in) ==
  ~MhReq(in) /\ ~SnpReq(in) /\ \A j \in CtrlPorts : j < i => ~CtrlReq(j, in)

\* Slips: the pulses below come one cycle late.
invalidate_Late(a) ==
  snp.state = "SEND_CR_RESP" /\ snp.addr = a /\ snp.snoop \in {"READ_UNIQUE", "CLEAN_INVALID"}
readshared_done_Late(a, in) ==
  snp.state = "SEND_CR_RESP" /\ snp.addr = a /\ snp.snoop = "READ_SHARED"

\* Events the other state machines watch.
invalidate(a)          == snp.state = "INVALIDATE" /\ snp.addr = a
readshared_done(a, in) == snp.state = "UPDATE_SHARED" /\ SnpGnt(in) /\ snp.addr = a
StoreWrites(in)        == updating_cache(STORE) /\ CtrlGnt(STORE, in)
RefillWrites(in)       == mh.state = "SAVE_CACHELINE" /\ valid_miss_fsm(in)
-----------------------------------------------------------------------------
(***************************************************************************)
(* The single write port of the SRAMs.                                     *)
(***************************************************************************)
Invalid(l) == [l EXCEPT !.valid = FALSE, !.shared = FALSE, !.dirty = FALSE]

\* A store merges some bytes into the line: the next version of what it found.
Merge(d) == (d + 1) % Versions

Stored(l) ==
  [l EXCEPT !.valid = TRUE, !.shared = FALSE, !.dirty = TRUE, !.data = Merge(l.data)]

\* Slip: the byte written by a store that missed is not marked dirty.
Refilled_Clean ==
  [valid |-> TRUE, tag |-> mh.addr, shared |-> mh.id # STORE /\ ad.shared,
   dirty |-> ad.dirty, data |-> IF mh.id = STORE THEN Merge(ad.data) ELSE ad.data]

Refilled ==
  [valid |-> TRUE, tag |-> mh.addr,
   shared |-> mh.id # STORE /\ ad.shared,
   dirty  |-> mh.id = STORE \/ ad.dirty,
   data   |-> IF mh.id = STORE THEN Merge(ad.data) ELSE ad.data]

\* Slip: a flush writes lines back and keeps the clean ones.
MhWritten_KeepClean(in) ==
  CASE mh.state = "SAVE_CACHELINE" -> [sram EXCEPT ![Index(mh.addr)][mh.way] = Refilled]
    [] mh.state \in WbStates -> [sram EXCEPT ![mh.cnt][mh.way].dirty = FALSE]
    [] mh.state = "INIT" -> [sram EXCEPT ![mh.cnt] = [w \in Ways |-> Invalid(@[w])]]
    [] OTHER -> sram

MhWritten(in) ==
  CASE mh.state = "SAVE_CACHELINE" -> [sram EXCEPT ![Index(mh.addr)][mh.way] = Refilled]
    [] mh.state \in WbStates -> [sram EXCEPT ![mh.cnt][mh.way] = Invalid(@)]
    [] mh.state = "AMO_WB" ->
         [sram EXCEPT ![Index(in.amo)][HitWay(in.amo)] = Invalid(@)]
    [] OTHER -> [sram EXCEPT ![mh.cnt] = [w \in Ways |-> Invalid(@[w])]]

SramStep(in) ==
  sram' = IF MhWrites(in) THEN MhWritten(in)
          ELSE IF MhReads THEN sram
          ELSE IF snp.state = "UPDATE_SHARED"
               THEN [sram EXCEPT ![Index(snp.addr)][snp.way].shared = TRUE]
          ELSE IF snp.state = "INVALIDATE"
               THEN [sram EXCEPT ![Index(snp.addr)][snp.way] = Invalid(@)]
          ELSE IF StoreWrites(in)
               THEN [sram EXCEPT ![Index(cc[STORE].addr)][cc[STORE].way] = Stored(@)]
          ELSE sram
-----------------------------------------------------------------------------
(***************************************************************************)
(* The snoop controller.                                                   *)
(***************************************************************************)
SnpIdle(in) ==
  /\ snp.state = "IDLE"
  /\ snp' = IF ac_ready(in)
            THEN [snp EXCEPT !.state = "WAIT_GNT", !.addr = in.ac.addr,
                             !.snoop = in.ac.snoop, !.cr = NoCr, !.word = 0]
            ELSE [snp EXCEPT !.snoop = None, !.cr = NoCr, !.word = 0]

SnpWaitGnt(in) ==
  /\ snp.state = "WAIT_GNT"
  /\ snp' = IF SnpReq(in) /\ SnpGnt(in) THEN [snp EXCEPT !.state = "EVAL_FLAGS"] ELSE snp

\* The lookup of the previous cycle decides the response and the update.
SnpEvalFlags ==
  LET w    == HitWay(snp.addr)
      line == sram[Index(snp.addr)][w]
      cr   == IF w = 0 THEN NoCr
              ELSE CASE snp.snoop = "CLEAN_INVALID" ->
                          [data |-> line.dirty, dirty |-> line.dirty, shared |-> FALSE]
                     [] snp.snoop = "READ_ONCE" ->
                          [data |-> TRUE, dirty |-> FALSE, shared |-> line.shared]
                     [] snp.snoop = "READ_SHARED" ->
                          [data |-> TRUE, dirty |-> FALSE, shared |-> TRUE]
                     [] snp.snoop = "READ_UNIQUE" ->
                          [data |-> TRUE, dirty |-> line.dirty, shared |-> FALSE]
  IN /\ snp.state = "EVAL_FLAGS"
     /\ snp' = [snp EXCEPT
                  !.way = w, !.cr = cr,
                  !.data = IF w = 0 THEN @ ELSE line.data,
                  !.state = IF w = 0 \/ snp.snoop = "READ_ONCE" THEN "SEND_CR_RESP"
                            ELSE IF snp.snoop = "READ_SHARED" THEN "UPDATE_SHARED"
                            ELSE "INVALIDATE"]

SnpUpdate(in) ==
  /\ snp.state \in {"UPDATE_SHARED", "INVALIDATE"}
  /\ snp' = IF SnpGnt(in) THEN [snp EXCEPT !.state = "SEND_CR_RESP"] ELSE snp

SnpSendCr(in) ==
  /\ snp.state = "SEND_CR_RESP"
  /\ snp' = IF ~in.cr_ready THEN snp
            ELSE [snp EXCEPT !.state = IF snp.cr.data THEN "SEND_CD_RESP" ELSE "IDLE"]

\* Slip: the word counter is not reset after the last beat.
SnpSendCd_NoWrap(in) ==
  /\ snp.state = "SEND_CD_RESP"
  /\ snp' = IF ~in.cd_ready THEN snp
            ELSE [snp EXCEPT !.state = IF snp.word = 1 THEN "IDLE" ELSE @, !.word = @ + 1]

SnpSendCd(in) ==
  /\ snp.state = "SEND_CD_RESP"
  /\ snp' = IF ~in.cd_ready THEN snp
            ELSE [snp EXCEPT !.state = IF snp.word = 1 THEN "IDLE" ELSE @,
                             !.word = 1 - @]

SnpStep(in) ==
  \/ SnpIdle(in) \/ SnpWaitGnt(in) \/ SnpEvalFlags \/ SnpUpdate(in)
  \/ SnpSendCr(in) \/ SnpSendCd(in)
-----------------------------------------------------------------------------
(***************************************************************************)
(* A cache controller.  Accept starts the core's next request when the     *)
(* SRAM is granted for it in this cycle.                                   *)
(***************************************************************************)
Accept(i, in) ==
  IF NewReq(i, in) /\ CtrlGnt(i, in)
  THEN [cc[i] EXCEPT !.state = "WAIT_TAG", !.addr = in.core[i].req]
  ELSE [cc[i] EXCEPT !.state = "IDLE"]

\* The tag comparison of a request whose tag is known.
Compare(i, in) ==
  LET w      == HitWay(cc[i].addr)
      shared == sram[Index(cc[i].addr)][w].shared
  IN IF mshr_addr_matches(i) \/ (i = STORE /\ mshr_index_matches(i))
     THEN [cc[i] EXCEPT !.state = "WAIT_MSHR"]
     ELSE IF w = 0 THEN [cc[i] EXCEPT !.state = "WAIT_REFILL_GNT"]
     ELSE IF i = STORE
     THEN [cc[i] EXCEPT !.state = IF shared THEN "MAKE_UNIQUE" ELSE "STORE_REQ", !.way = w]
     ELSE Accept(i, in)

WaitTag(i, in) ==
  LET c == IF TagKnown(i, in) THEN Compare(i, in)
           ELSE [cc[i] EXCEPT !.state = IF CtrlGnt(i, in) THEN @ ELSE "WAIT_GNT"]
  IN [c EXCEPT !.colliding_read = FALSE]

WaitGnt(i, in) ==
  LET saved == cc[i].state = "WAIT_GNT_SAVED" \/ in.core[i].tag_valid
  IN [cc[i] EXCEPT !.state =
        IF CtrlGnt(i, in) THEN IF saved THEN "WAIT_TAG_SAVED" ELSE "WAIT_TAG"
        ELSE IF saved THEN "WAIT_GNT_SAVED" ELSE "WAIT_GNT"]

MakeUnique(i, in) ==
  [cc[i] EXCEPT
     !.colliding_read = @ \/ readshared_done(cc[i].addr, in),
     !.colliding_clean = @ /\ ~(miss_gnt(i, in) /\ miss_write_done(in)),
     !.state = IF ~miss_gnt(i, in) THEN @
               ELSE IF miss_write_done(in) THEN "IDLE" ELSE "STORE_REQ"]

StoreReq(i, in) ==
  LET c == [cc[i] EXCEPT
              !.colliding_clean = @ \/ invalidate(cc[i].addr),
              !.colliding_read = @ \/ readshared_done(cc[i].addr, in)]
      Leave(to) == [c EXCEPT !.state = to, !.colliding_clean = FALSE,
                             !.colliding_read = FALSE]
  IN CASE mshr_index_matches(i) -> Leave("WAIT_MSHR")
       [] ~mshr_index_matches(i) /\ cc[i].colliding_clean ->
            IF CtrlGnt(i, in) THEN Leave("WAIT_TAG_SAVED") ELSE c
       [] ~mshr_index_matches(i) /\ ~cc[i].colliding_clean /\ cc[i].colliding_read ->
            Leave("MAKE_UNIQUE")
       [] OTHER -> IF CtrlGnt(i, in) THEN Leave("IDLE") ELSE c

WaitMshr(i, in) ==
  [cc[i] EXCEPT !.state = IF ~mshr_index_matches(i) /\ CtrlGnt(i, in)
                          THEN "WAIT_TAG_SAVED" ELSE @]

WaitRefillGnt(i, in) ==
  [cc[i] EXCEPT !.state =
     IF mshr_addr_matches(i) /\ ~active_serving(i) THEN "WAIT_MSHR"
     ELSE IF ~miss_gnt(i, in) THEN @
     ELSE IF i = STORE THEN "IDLE" ELSE "WAIT_CRITICAL_WORD"]

\* Slip: a kill always drops the request.
Killable_Always(i) == TRUE

\* A kill drops the request unless the miss handler is working on it.
Killable(i) == cc[i].state \notin {"MAKE_UNIQUE", "WAIT_REFILL_GNT", "WAIT_CRITICAL_WORD"}

CtrlNext(i, in) ==
  LET s == cc[i].state
      c == CASE s = "IDLE" -> [Accept(i, in) EXCEPT !.colliding_read = FALSE]
             [] s \in {"WAIT_TAG", "WAIT_TAG_SAVED"} -> WaitTag(i, in)
             [] s \in {"WAIT_GNT", "WAIT_GNT_SAVED"} -> WaitGnt(i, in)
             [] s = "MAKE_UNIQUE" -> MakeUnique(i, in)
             [] s = "STORE_REQ" -> StoreReq(i, in)
             [] s = "WAIT_MSHR" -> WaitMshr(i, in)
             [] s = "WAIT_REFILL_GNT" -> WaitRefillGnt(i, in)
             [] s = "WAIT_CRITICAL_WORD" ->
                  IF critical_word_valid(in) THEN Accept(i, in) ELSE cc[i]
  IN IF in.core[i].kill /\ Killable(i) THEN [c EXCEPT !.state = "IDLE"] ELSE c

CtrlStep(in) == cc' = [i \in CtrlPorts |-> CtrlNext(i, in)]
-----------------------------------------------------------------------------
(***************************************************************************)
(* The miss handler.  Watch is the collision detection that runs in every  *)
(* state: a snoop invalidates the line of a pending CleanUnique.           *)
(***************************************************************************)
busy == snp.state # "IDLE" \/ \E i \in CtrlPorts : cc[i].state # "IDLE"

MissReqs == {i \in CtrlPorts : cc[i].state \in {"MAKE_UNIQUE", "WAIT_REFILL_GNT"}}

\* Slip: invalidations of a line with a pending CleanUnique go unnoticed.
Watch_Blind == mh.colliding_clean

Watch == mh.colliding_clean \/ (mh.valid /\ mh.make_unique /\ invalidate(mh.addr))

MhGoto(to) == mh' = [mh EXCEPT !.state = to, !.colliding_clean = Watch]

NextSet == (mh.cnt + 1) % NumSets

MhInit ==
  /\ mh.state = "INIT"
  /\ mh' = [mh EXCEPT !.cnt = NextSet, !.colliding_clean = Watch,
                      !.state = IF mh.cnt = NumSets - 1 THEN "IDLE" ELSE @]

\* Requests of the controllers come first, then a flush, then an AMO; both of
\* these only when no controller is busy.
MhIdle(in) ==
  LET i == FirstOf(MissReqs)
  IN /\ mh.state = "IDLE"
     /\ mh' = IF MissReqs # {}
              THEN [mh EXCEPT
                      !.state = IF cc[i].state = "MAKE_UNIQUE" THEN "REQ_BEFORE_CLEAN" ELSE "MISS",
                      !.valid = TRUE, !.id = i, !.addr = cc[i].addr,
                      !.make_unique = cc[i].state = "MAKE_UNIQUE",
                      !.serve_amo = FALSE, !.colliding_clean = FALSE]
              ELSE [mh EXCEPT
                      !.state = IF busy THEN @ ELSE IF in.flush THEN "FLUSH_REQ_STATUS"
                                ELSE IF in.amo # None THEN "AMO_WB_REQ" ELSE @,
                      !.cnt = IF ~busy /\ (in.flush \/ in.amo # None) THEN 0 ELSE @,
                      !.serve_amo = @ \/ (~busy /\ in.amo # None),
                      !.colliding_clean = FALSE]

MhMiss == mh.state = "MISS" /\ MhGoto("MISS_REPL")

ReqState == IF mh.colliding_clean THEN "REQ_CACHELINE_UNIQUE" ELSE "REQ_CACHELINE"

\* Choose the way to refill; a dirty victim is written back first.
MhMissRepl(in) ==
  LET row    == sram[Index(mh.addr)]
      free   == {w \in Ways : ~row[w].valid}
      victim == IF free = {} THEN in.victim ELSE FirstOf(free)
      wb     == free = {} /\ row[victim].dirty
  IN /\ mh.state = "MISS_REPL"
     /\ mh' = [mh EXCEPT
                 !.way = victim, !.colliding_clean = Watch,
                 !.evict = IF wb THEN row[victim].tag ELSE @,
                 !.evict_data = IF wb THEN row[victim].data ELSE @,
                 !.cnt = IF wb THEN Index(mh.addr) ELSE @,
                 !.state = IF wb THEN "WB_CACHELINE_MISS" ELSE ReqState]

MhReqCacheline(in) ==
  /\ mh.state \in ReqStates
  /\ mh' = IF ~gnt_miss_fsm(in) THEN [mh EXCEPT !.colliding_clean = Watch]
           ELSE [mh EXCEPT !.state = "SAVE_CACHELINE",
                           !.colliding_clean = Watch /\ mh.state # "REQ_CACHELINE_UNIQUE"]

MhSaveCacheline(in) ==
  /\ mh.state = "SAVE_CACHELINE"
  /\ mh' = IF ~valid_miss_fsm(in) THEN [mh EXCEPT !.colliding_clean = Watch]
           ELSE [mh EXCEPT !.colliding_clean = FALSE,
                           !.state = IF mh.colliding_clean THEN "MISS" ELSE "IDLE",
                           !.valid = mh.colliding_clean]

\* The victim stays valid in the cache until memory has confirmed its data.
MhWriteBack(in) ==
  /\ mh.state \in WbStates
  /\ MhGoto(IF ~valid_miss_fsm(in) THEN mh.state
            ELSE IF mh.state = "WB_CACHELINE_MISS" THEN ReqState
            ELSE IF mh.state = "WB_CACHELINE_AMO" THEN "AMO_REQ" ELSE "FLUSH_REQ_STATUS")

MhFlushReqStatus == mh.state = "FLUSH_REQ_STATUS" /\ MhGoto("FLUSHING")

\* Write back the dirty ways of the set one by one, then clear it and go on.
MhFlushing ==
  LET dirty == DirtyWays(mh.cnt)
      w     == FirstOf(dirty)
      last  == mh.cnt = NumSets - 1
  IN /\ mh.state = "FLUSHING"
     /\ mh' = IF dirty # {}
              THEN [mh EXCEPT !.state = "WB_CACHELINE_FLUSH", !.way = w,
                              !.evict = sram[mh.cnt][w].tag,
                              !.evict_data = sram[mh.cnt][w].data,
                              !.colliding_clean = Watch]
              ELSE [mh EXCEPT !.cnt = NextSet, !.colliding_clean = Watch,
                              !.serve_amo = @ /\ ~last,
                              !.state = IF ~last THEN "FLUSH_REQ_STATUS"
                                        ELSE IF mh.serve_amo THEN "AMO_REQ" ELSE "IDLE"]

MhReqBeforeClean == mh.state = "REQ_BEFORE_CLEAN" /\ MhGoto("CHECK_BEFORE_CLEAN")

\* Slip: the line is fetched again although it is still there.
MhCheckBeforeClean_Refill == mh.state = "CHECK_BEFORE_CLEAN" /\ MhGoto("MISS")

MhCheckBeforeClean ==
  /\ mh.state = "CHECK_BEFORE_CLEAN"
  /\ MhGoto(IF HitWays(mh.addr) # {} THEN "SEND_CLEAN" ELSE "MISS")

MhSendClean(in) ==
  /\ mh.state = "SEND_CLEAN"
  /\ mh' = [mh EXCEPT !.colliding_clean = Watch,
                      !.valid = @ /\ (valid_miss_fsm(in) => mh.colliding_clean),
                      !.state = IF ~valid_miss_fsm(in) THEN @
                                ELSE IF mh.colliding_clean THEN "MISS" ELSE "IDLE"]

MhAmoWbReq == mh.state = "AMO_WB_REQ" /\ MhGoto("AMO_WB")

MhAmoWb(in) ==
  LET w  == HitWay(in.amo)
      wb == w # 0 /\ sram[Index(in.amo)][w].dirty
  IN /\ mh.state = "AMO_WB"
     /\ mh' = IF wb
              THEN [mh EXCEPT !.state = "WB_CACHELINE_AMO", !.way = w, !.evict = in.amo,
                              !.evict_data = sram[Index(in.amo)][w].data,
                              !.cnt = Index(in.amo), !.colliding_clean = Watch]
              ELSE [mh EXCEPT !.state = "AMO_REQ", !.colliding_clean = Watch]

MhAmoReq(in) ==
  /\ mh.state \in {"AMO_REQ", "AMO_WAIT_RESP"}
  /\ mh' = [mh EXCEPT
              !.serve_amo = @ /\ mh.state # "AMO_REQ", !.colliding_clean = Watch,
              !.state = IF in.amo_valid THEN "IDLE"
                        ELSE IF in.amo_gnt THEN "AMO_WAIT_RESP" ELSE @]

MhStep(in) ==
  \/ MhInit \/ MhIdle(in)
  \/ MhMiss \/ MhMissRepl(in) \/ MhReqCacheline(in) \/ MhSaveCacheline(in)
  \/ MhWriteBack(in) \/ MhFlushReqStatus \/ MhFlushing
  \/ MhReqBeforeClean \/ MhCheckBeforeClean \/ MhSendClean(in)
  \/ MhAmoWbReq \/ MhAmoWb(in) \/ MhAmoReq(in)
-----------------------------------------------------------------------------
(***************************************************************************)
(* The AXI adapter of the miss handler: one burst at a time, reads over AR *)
(* and R, write-backs over AW, W and B.                                    *)
(***************************************************************************)
AdReads  == mh.state \in ReqStates \cup {"SEND_CLEAN"}
AdWrites == mh.state \in WbStates

\* The word of the line that missed, 0 or 1, is not part of a line address.
AdStep(in) ==
  ad' = CASE ad.state = "IDLE" ->
               IF AdReads /\ in.ar_ready
               THEN [ad EXCEPT !.state = "WAIT_R", !.first = FALSE, !.word = in.word]
               ELSE IF AdWrites /\ in.aw_ready THEN [ad EXCEPT !.state = "WAIT_B"] ELSE ad
          [] ad.state = "WAIT_R" ->
               IF in.r = "last"
               THEN [ad EXCEPT !.state = "COMPLETE_READ", !.shared = in.r_shared,
                               !.dirty = in.r_dirty, !.data = in.r_data]
               ELSE [ad EXCEPT !.first = @ \/ in.r = "first"]
          [] ad.state = "COMPLETE_READ" -> [ad EXCEPT !.state = "IDLE"]
          [] ad.state = "WAIT_B" -> IF in.b THEN [ad EXCEPT !.state = "IDLE"] ELSE ad

CacheStep(in) ==
  SramStep(in) /\ SnpStep(in) /\ CtrlStep(in) /\ MhStep(in) /\ AdStep(in)
=============================================================================
