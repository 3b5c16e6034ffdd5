------------------------------- MODULE CcuFsm -------------------------------
(***************************************************************************)
(* The cache-coherence unit of Culsans (ccu_fsm.sv): one finite state      *)
(* machine that serialises every shareable transaction of the cores,       *)
(* snoops the data caches of all cores but the initiating one, answers     *)
(* the initiator from snoop data or from memory, and writes dirty lines    *)
(* back to memory when a snooped cache gives one up.                       *)
(*                                                                         *)
(* One step of the model is one clock edge.  Each action is one state of   *)
(* the FSM with every register that changes on that edge; the handshakes   *)
(* of the edge are the operators of the section "Wires".  Bit vectors      *)
(* indexed by port are sets of ports, single bits are 0 or 1.              *)
(*                                                                         *)
(* The unit is closed with the components at its interfaces: the stream of *)
(* requests at the output of i_ace_mux, one snoop controller per port      *)
(* (snoop_cache_ctrl.sv) and the memory behind i_axi_mux.  Their delays    *)
(* are arbitrary.  Data is abstracted to its provenance: word w of the     *)
(* line as held by port p.                                                 *)
(***************************************************************************)
EXTENDS Naturals, Sequences

CONSTANTS
  NoMstPorts,   \* number of cores (ports); NB_CORES is 2 to 4
  ReadKinds,    \* the kinds of AR request the masters issue
  WriteKinds,   \* the kinds of AW request the masters issue
  MasterStalls, \* the kinds of request whose master may lower r_ready; axi_adapter
                \* never does
  None,         \* no request, no source of data
  Mem           \* memory as the source of data

Ports == 0 .. NoMstPorts - 1

AllReadKinds ==
  {"ReadOnceLo", "ReadOnceHi", "ReadShared", "ReadUnique", "CleanUnique",
   "LoadReserved"}

AllWriteKinds == {"WriteUnique", "AtomicLoad"}

ASSUME PortsAssumption == NoMstPorts \in Nat \ {0}
ASSUME KindsAssumption ==
  /\ ReadKinds \subseteq AllReadKinds
  /\ WriteKinds \subseteq AllWriteKinds
  /\ MasterStalls \subseteq AllReadKinds \cup AllWriteKinds
  /\ None \notin [id : Ports, kind : AllReadKinds \cup AllWriteKinds]
  /\ None \notin Ports /\ Mem \notin Ports \cup {None}

(***************************************************************************)
(* Requests as the miss handler's axi_adapters issue them.  ReadOnceLo/Hi  *)
(* are the uncached single-word reads with address bit 3 clear/set;        *)
(* LoadReserved is the ReadOnce with ar.lock that an LR issues; AtomicLoad *)
(* is a WriteUnique whose atop[5] asks for the old value.                  *)
(***************************************************************************)
ArReq == [id : Ports, kind : ReadKinds]
AwReq == [id : Ports, kind : WriteKinds]

Lock(req)   == req.kind = "LoadReserved"
Atop5(req)  == req.kind = "AtomicLoad"
Single(req) == req.kind \in {"ReadOnceLo", "ReadOnceHi", "LoadReserved", "AtomicLoad"}
Offset(req) == IF req.kind = "ReadOnceHi" THEN 1 ELSE 0

SnoopOf(req) ==
  CASE req.kind = "ReadShared"  -> "READ_SHARED"
    [] req.kind = "ReadUnique"  -> "READ_UNIQUE"
    [] req.kind = "CleanUnique" -> "CLEAN_UNIQUE"
    [] OTHER                    -> "READ_ONCE"

AcSnoops == {"READ_ONCE", "READ_SHARED", "READ_UNIQUE", "CLEAN_UNIQUE", "CLEAN_INVALID"}

\* What one snoop controller may answer (EVAL_FLAGS): a miss, or a hit on a
\* clean or dirty, unique or shared line.  A type it does not know gets an
\* error without data, so response_error never masks data_available.
CrResp(snoop) ==
  {r \in [data : 0..1, shared : 0..1, dirty : 0..1] :
     CASE snoop = "CLEAN_INVALID" -> r.data = r.dirty /\ r.shared = 0
       [] snoop = "READ_SHARED"   -> r.shared = r.data /\ r.dirty = 0
       [] snoop = "READ_UNIQUE"   -> r.dirty <= r.data /\ r.shared = 0
       [] snoop = "READ_ONCE"     -> r.shared <= r.data /\ r.dirty = 0
       [] OTHER                   -> r.data = 0 /\ r.shared = 0 /\ r.dirty = 0}
-----------------------------------------------------------------------------
VARIABLES
  \* registers of ccu_fsm
  state_q,         \* FSM state
  initiator_q,     \* one-hot: the port whose request is served
  prio,            \* [waiting_w, waiting_r]
  holder,          \* ccu_req_holder, the AR or AW being served
  ac_ready,        \* ports that took the AC (initiator included)
  cr_valid,        \* ports whose CR is in (initiator included)
  data_available, shared, dirty, \* CR bits received, per port
  first_responder, \* port whose CD data is used; None: snoop_resp_found = 0
  cd_last,         \* ports whose last CD beat is in
  cd_data,         \* buffered words of the line
  stored_cd_data,  \* buffered words not yet forwarded (2 bits)
  r_last, r_eot,   \* R beat counter, end of transfer
  w_last,          \* write-back beat counter
  \* the interfaces
  ar, aw,          \* request presented at the CCU's slave port, or None
  snp,             \* per port: state of the snoop controller
  ac_snoop_q,      \* per port: snoop type it saved
  cr_resp,         \* per port: response it will give
  mem,             \* [wr, rd]: phase of the memory's write, R beats it owes
  \* history of the current transaction
  looked_up,       \* ports that finished their tag lookup / invalidation
  rbeats,          \* R beats handed to the initiator
  wbeats,          \* write-back beats handed to memory
  bsent            \* 1: B was handed to the initiator

fsmVars  == <<state_q, initiator_q, prio, holder>>
snpRegs  == <<ac_ready, cr_valid, data_available, shared, dirty, first_responder>>
dataRegs == <<cd_last, cd_data, stored_cd_data, r_last, r_eot, w_last>>
envVars  == <<ar, aw, snp, ac_snoop_q, cr_resp, mem>>
histVars == <<looked_up, rbeats, wbeats, bsent>>
vars     == <<fsmVars, snpRegs, dataRegs, envVars, histVars>>

SendStates == {"SEND_READ", "SEND_INVALID_R", "SEND_INVALID_W"}
WaitStates == {"WAIT_RESP_R", "WAIT_INVALID_R", "WAIT_INVALID_W"}
WbStates   == {"WRITE_BACK_MEM_R", "WRITE_BACK_MEM_W"}
DataStates == WbStates \cup {"READ_SNP_DATA"}
States ==
  SendStates \cup WaitStates \cup DataStates \cup
  {"IDLE", "DECODE_R", "DECODE_W", "SEND_AXI_REQ_R", "READ_MEM",
   "SEND_AXI_REQ_W", "WRITE_MEM",
   "SEND_AXI_REQ_WRITE_BACK_R", "SEND_AXI_REQ_WRITE_BACK_W"}

Bit       == 0..1
Word      == [src : Ports \cup {None}, word : Bit]
NoWord    == [src |-> None, word |-> 0]
Beat      == [src : Ports \cup {None, Mem}, word : Bit, last : Bit, shared : Bit, dirty : Bit]
NoResp    == [data |-> 0, shared |-> 0, dirty |-> 0]
SnpStates == {"IDLE", "LOOKUP", "SEND_CR_RESP", "SEND_CD_0", "SEND_CD_1"}

TypeOK ==
  /\ state_q \in States
  /\ initiator_q \in SUBSET Ports
  /\ prio \in [waiting_w : Bit, waiting_r : Bit]
  /\ holder \in [id : Ports, kind : ReadKinds \cup WriteKinds] \cup {None}
  /\ ac_ready \in SUBSET Ports
  /\ cr_valid \in SUBSET Ports
  /\ data_available \in SUBSET Ports
  /\ shared \in SUBSET Ports
  /\ dirty \in SUBSET Ports
  /\ first_responder \in Ports \cup {None}
  /\ cd_last \in SUBSET Ports
  /\ cd_data \in [Bit -> Word]
  /\ stored_cd_data \in 0..3
  /\ r_last \in Bit
  /\ r_eot \in Bit
  /\ w_last \in Bit
  /\ ar \in ArReq \cup {None}
  /\ aw \in AwReq \cup {None}
  /\ snp \in [Ports -> SnpStates]
  /\ ac_snoop_q \in [Ports -> AcSnoops \cup {None}]
  /\ cr_resp \in [Ports -> [data : Bit, shared : Bit, dirty : Bit]]
  /\ mem \in [wr : {"none", "data", "resp"}, rd : 0..2]
  /\ looked_up \in SUBSET (Ports \X AcSnoops)
  /\ rbeats \in Seq(Beat)
  /\ wbeats \in Seq(Word \X Bit)
  /\ bsent \in Bit

Init ==
  /\ state_q = "IDLE"
  /\ initiator_q = {}
  /\ prio = [waiting_w |-> 0, waiting_r |-> 0]
  /\ holder = None
  /\ ac_ready = {} /\ cr_valid = {}
  /\ data_available = {} /\ shared = {} /\ dirty = {}
  /\ first_responder = None
  /\ cd_last = {} /\ cd_data = [w \in Bit |-> NoWord] /\ stored_cd_data = 0
  /\ r_last = 0 /\ r_eot = 0 /\ w_last = 0
  /\ ar = None /\ aw = None
  /\ snp = [p \in Ports |-> "IDLE"]
  /\ ac_snoop_q = [p \in Ports |-> None]
  /\ cr_resp = [p \in Ports |-> NoResp]
  /\ mem = [wr |-> "none", rd |-> 0]
  /\ looked_up = {} /\ rbeats = <<>> /\ wbeats = <<>> /\ bsent = 0
-----------------------------------------------------------------------------
(***************************************************************************)
(* Wires: the combinational outputs of the FSM in the current state.       *)
(***************************************************************************)
ac_valid_o == IF state_q \in SendStates THEN Ports \ ac_ready ELSE {}
ac_snoop_o == IF state_q = "SEND_READ" THEN SnoopOf(holder) ELSE "CLEAN_INVALID"
cr_ready_o == IF state_q \in WaitStates THEN Ports \ cr_valid ELSE {}
cd_ready_o == IF state_q \in DataStates THEN data_available \ cd_last ELSE {}

\* CD beats on the wires, and the handshakes of this cycle.
cd_valid_i == {p \in Ports : snp[p] \in {"SEND_CD_0", "SEND_CD_1"}}
crFire     == {p \in cr_ready_o : snp[p] = "SEND_CR_RESP"}
cdFire     == cd_ready_o \cap cd_valid_i
CdLast(p)  == IF snp[p] = "SEND_CD_1" THEN 1 ELSE 0
Any(S)     == IF S = {} THEN 0 ELSE 1

\* Slip: a line is offered only while exactly one word is buffered.
r_valid_o_ExactlyOne ==
  \/ state_q = "WAIT_INVALID_R" /\ cr_valid = Ports /\ ~Lock(holder)
  \/ /\ state_q = "READ_SNP_DATA" /\ r_eot = 0
     /\ stored_cd_data = IF Single(holder) THEN Offset(holder) + 1 ELSE 1

\* The R channel towards the initiator when the CCU itself drives it.
r_valid_o ==
  \/ state_q = "WAIT_INVALID_R" /\ cr_valid = Ports /\ ~Lock(holder)
  \/ /\ state_q = "READ_SNP_DATA" /\ r_eot = 0
     /\ IF Single(holder) THEN stored_cd_data = Offset(holder) + 1
                          ELSE stored_cd_data # 0

\* Slip: only the first responder's passDirty is forwarded.
r_o_FirstDirty ==
  IF state_q = "WAIT_INVALID_R"
  THEN [src |-> None, word |-> 0, last |-> 1, shared |-> 0, dirty |-> 0]
  ELSE LET w == IF Single(holder) THEN Offset(holder) ELSE r_last
       IN [src |-> cd_data[w].src, word |-> cd_data[w].word,
           last |-> IF Single(holder) THEN 1 ELSE r_last,
           shared |-> Any(shared), dirty |-> IF first_responder \in dirty THEN 1 ELSE 0]

r_o ==
  IF state_q = "WAIT_INVALID_R"
  THEN [src |-> None, word |-> 0, last |-> 1, shared |-> 0, dirty |-> 0]
  ELSE LET w == IF Single(holder) THEN Offset(holder) ELSE r_last
       IN [src |-> cd_data[w].src, word |-> cd_data[w].word,
           last |-> IF Single(holder) THEN 1 ELSE r_last,
           shared |-> Any(shared), dirty |-> Any(dirty)]

\* The write-back beat on the memory's W channel.
w_valid_o == state_q \in WbStates /\ stored_cd_data # 0
             /\ (state_q = "WRITE_BACK_MEM_W" => r_eot = 0)
w_o == <<cd_data[w_last], w_last>>

RReady == IF holder # None /\ holder.kind \in MasterStalls THEN {0, 1} ELSE {1}

\* Slip: the initiator is not exempted from its own snoop.
HoldAc_NoInitiator(acFire) ==
  ac_ready' = IF state_q \in SendStates THEN ac_ready \cup acFire ELSE {}

\* "Hold snoop AC_ready".
HoldAc(acFire) ==
  ac_ready' = IF state_q \in {"DECODE_R", "DECODE_W"} THEN initiator_q
              ELSE IF state_q \in SendStates THEN ac_ready \cup acFire
              ELSE {}
-----------------------------------------------------------------------------
(***************************************************************************)
(* The interfaces.                                                         *)
(***************************************************************************)
\* i_ace_mux offers requests and keeps one until the FSM takes it in DECODE.
\* The FSM looks at them in IDLE only, so they need to arrive only then.
Offer(req, reqs) == IF req = None THEN reqs \cup {None} ELSE {req}

Requests ==
  /\ ar' \in IF state_q = "DECODE_R" THEN {None}
             ELSE IF state_q' = "IDLE" THEN Offer(ar, ArReq) ELSE {ar}
  /\ aw' \in IF state_q = "DECODE_W" THEN {None}
             ELSE IF state_q' = "IDLE" THEN Offer(aw, AwReq) ELSE {aw}

\* The snoop controllers: an idle one may take the AC (it refuses while the
\* cache is flushing or an AMO to the line is pending), a busy one finishes
\* its lookup after any delay, CR and CD wait for the CCU.  The caches are
\* coherent: at most one of them gives the line up as dirty.
SnoopStep(acFire, done, resp) ==
  /\ \A p \in done : resp[p] \in CrResp(ac_snoop_q[p])
  /\ LET owners == dirty \cup {p \in Ports : cr_resp[p].dirty = 1}
                         \cup {p \in done : resp[p].dirty = 1}
     IN \A p, q \in owners : p = q
  /\ snp' = [p \in Ports |->
               IF p \in acFire THEN "LOOKUP"
               ELSE IF p \in done THEN "SEND_CR_RESP"
               ELSE IF p \in crFire /\ cr_resp[p].data = 1 THEN "SEND_CD_0"
               ELSE IF p \in cdFire /\ snp[p] = "SEND_CD_0" THEN "SEND_CD_1"
               ELSE IF p \in crFire \cup cdFire THEN "IDLE"
               ELSE snp[p]]
  /\ ac_snoop_q' = [p \in Ports |->
                      IF p \in acFire THEN ac_snoop_o
                      ELSE IF p \in done THEN None ELSE ac_snoop_q[p]]
  /\ cr_resp' = [p \in Ports |->
                   IF p \in done THEN resp[p]
                   ELSE IF p \in crFire THEN NoResp ELSE cr_resp[p]]
  /\ HoldAc(acFire)
  /\ looked_up' = IF state_q = "IDLE" THEN {}
                  ELSE looked_up \cup {<<p, ac_snoop_q[p]>> : p \in done}

SnoopControllers ==
  \E acFire \in SUBSET {p \in ac_valid_o : snp[p] = "IDLE"},
     done \in SUBSET {p \in Ports : snp[p] = "LOOKUP"} :
    \E resp \in [done -> [data : Bit, shared : Bit, dirty : Bit]] :
      SnoopStep(acFire, done, resp)
-----------------------------------------------------------------------------
(***************************************************************************)
(* The registers next to the FSM state.                                    *)
(***************************************************************************)
\* "Hold snoop CR".
HoldCr ==
  IF state_q = "IDLE"
  THEN /\ cr_valid' = {} /\ data_available' = {} /\ shared' = {} /\ dirty' = {}
       /\ first_responder' = None
  ELSE IF state_q \in SendStates
  THEN /\ cr_valid' = initiator_q
       /\ UNCHANGED <<data_available, shared, dirty, first_responder>>
  ELSE LET withData == {p \in crFire : cr_resp[p].data = 1} IN
       /\ cr_valid' = cr_valid \cup crFire
       /\ data_available' = (data_available \ crFire) \cup withData
       /\ shared' = (shared \ crFire) \cup {p \in crFire : cr_resp[p].shared = 1}
       /\ dirty' = (dirty \ crFire) \cup {p \in crFire : cr_resp[p].dirty = 1}
       /\ IF first_responder = None /\ withData # {}
          THEN \E p \in withData :
                 /\ \A q \in withData : p <= q
                 /\ first_responder' = p
          ELSE UNCHANGED first_responder

\* Slip: a word that arrives while another leaves is not counted.
HoldCd_PopWins(pop) ==
  IF state_q = "IDLE"
  THEN cd_last' = {} /\ cd_data' = [w \in Bit |-> NoWord] /\ stored_cd_data' = 0
  ELSE IF state_q \in DataStates
  THEN LET push == IF first_responder \in cdFire THEN 1 ELSE 0 IN
       /\ cd_last' = cd_last \cup {p \in data_available \cap cd_valid_i : CdLast(p) = 1}
       /\ cd_data' = [w \in Bit |->
                        IF push = 1 /\ w = CdLast(first_responder)
                        THEN [src |-> first_responder, word |-> w] ELSE cd_data[w]]
       /\ stored_cd_data' = (stored_cd_data + IF pop = 1 THEN 3 ELSE push) % 4
  ELSE UNCHANGED <<cd_last, cd_data, stored_cd_data>>

\* "Hold snoop CD"; pop is 1 when a buffered word leaves in this cycle.
HoldCd(pop) ==
  IF state_q = "IDLE"
  THEN cd_last' = {} /\ cd_data' = [w \in Bit |-> NoWord] /\ stored_cd_data' = 0
  ELSE IF state_q \in DataStates
  THEN LET push == IF first_responder \in cdFire THEN 1 ELSE 0 IN
       /\ cd_last' = cd_last \cup {p \in data_available \cap cd_valid_i : CdLast(p) = 1}
       /\ cd_data' = [w \in Bit |->
                        IF push = 1 /\ w = CdLast(first_responder)
                        THEN [src |-> first_responder, word |-> w] ELSE cd_data[w]]
       /\ stored_cd_data' = (stored_cd_data + push + 4 - pop) % 4
  ELSE UNCHANGED <<cd_last, cd_data, stored_cd_data>>

\* r_last and r_eot count every R handshake, w_last every W handshake.
CountR(fire, beat) ==
  IF state_q = "IDLE" THEN r_last' = 0 /\ r_eot' = 0
  ELSE IF fire = 1 THEN r_last' = 1 - r_last /\ r_eot' = IF beat.last = 1 THEN 1 ELSE r_eot
  ELSE UNCHANGED <<r_last, r_eot>>

\* Slip: w_last as a counter that does not wrap.
CountW_NoWrap(fire) == w_last' = IF state_q = "IDLE" THEN 0 ELSE w_last + fire

CountW(fire) ==
  w_last' = IF state_q = "IDLE" THEN 0 ELSE IF fire = 1 THEN 1 - w_last ELSE w_last

\* Everything that happens on a clock edge besides the FSM's own transition:
\* rFire hands beat to the initiator, wFire is a handshake on the memory's W
\* channel; each of them takes a word out of the CD buffer while one is used.
Edge(rFire, beat, wFire) ==
  /\ HoldCr
  /\ HoldCd(rFire + wFire)
  /\ CountR(rFire, beat)
  /\ CountW(wFire)
  /\ rbeats' = IF state_q = "IDLE" THEN <<>>
               ELSE IF rFire = 1 THEN Append(rbeats, beat) ELSE rbeats
  /\ SnoopControllers
  /\ Requests

QuietEdge == Edge(0, r_o, 0)
-----------------------------------------------------------------------------
(***************************************************************************)
(* The states of the FSM.                                                  *)
(***************************************************************************)
Goto(st) == state_q' = st /\ UNCHANGED <<initiator_q, prio, holder>>

\* Slip: reads always win.
TakeAr_NoPrio == ar # None

TakeAr == ar # None /\ (aw = None \/ prio.waiting_r = 1 \/ prio.waiting_w = 0)
TakeAw == ~TakeAr /\ aw # None /\ (ar = None \/ prio.waiting_w = 1)

ClearHistory == wbeats' = <<>> /\ bsent' = 0

IdleTakeAr ==
  /\ state_q = "IDLE" /\ TakeAr
  /\ state_q' = "DECODE_R"
  /\ initiator_q' = {ar.id}
  /\ prio' = [waiting_w |-> IF aw = None THEN 0 ELSE 1, waiting_r |-> 0]
  /\ holder' = ar
  /\ QuietEdge /\ ClearHistory /\ UNCHANGED mem

\* Slip: the wrong priority bit remembers the waiting read.
IdleTakeAw_SwappedPrio ==
  /\ state_q = "IDLE" /\ TakeAw
  /\ state_q' = "DECODE_W"
  /\ initiator_q' = {aw.id}
  /\ prio' = [waiting_w |-> IF ar = None THEN 0 ELSE 1, waiting_r |-> 0]
  /\ holder' = aw
  /\ QuietEdge /\ ClearHistory /\ UNCHANGED mem

IdleTakeAw ==
  /\ state_q = "IDLE" /\ TakeAw
  /\ state_q' = "DECODE_W"
  /\ initiator_q' = {aw.id}
  /\ prio' = [waiting_w |-> 0, waiting_r |-> IF ar = None THEN 0 ELSE 1]
  /\ holder' = aw
  /\ QuietEdge /\ ClearHistory /\ UNCHANGED mem

IdleWait ==
  /\ state_q = "IDLE" /\ ~TakeAr /\ ~TakeAw
  /\ state_q' = "IDLE"
  /\ initiator_q' = {}
  /\ prio' = [waiting_w |-> 0, waiting_r |-> 0]
  /\ UNCHANGED holder
  /\ QuietEdge /\ ClearHistory /\ UNCHANGED mem

\* Slip: an LR snoops like a plain ReadOnce.
DecodeR_NoLock ==
  /\ state_q = "DECODE_R"
  /\ Goto(IF SnoopOf(holder) = "CLEAN_UNIQUE" THEN "SEND_INVALID_R" ELSE "SEND_READ")
  /\ QuietEdge /\ UNCHANGED <<mem, wbeats, bsent>>

DecodeR ==
  /\ state_q = "DECODE_R"
  /\ Goto(IF SnoopOf(holder) = "CLEAN_UNIQUE" \/ Lock(holder)
          THEN "SEND_INVALID_R" ELSE "SEND_READ")
  /\ QuietEdge /\ UNCHANGED <<mem, wbeats, bsent>>

\* Hold AC up at every port that has not taken it; go on when all have.
Send(from, to) ==
  /\ state_q = from
  /\ Goto(IF ac_ready = Ports THEN to ELSE from)
  /\ QuietEdge /\ UNCHANGED <<mem, wbeats, bsent>>

SendInvalidR == Send("SEND_INVALID_R", "WAIT_INVALID_R")
SendRead     == Send("SEND_READ", "WAIT_RESP_R")
SendInvalidW == Send("SEND_INVALID_W", "WAIT_INVALID_W")

\* Slip: an LR reads memory before the dirty copy is written back.
WaitInvalidR_ReadFirst ==
  \E rr \in RReady :
    /\ state_q = "WAIT_INVALID_R"
    /\ Goto(IF cr_valid # Ports \/ (rr = 0 /\ ~Lock(holder)) THEN "WAIT_INVALID_R"
            ELSE IF Lock(holder) THEN "SEND_AXI_REQ_R"
            ELSE IF data_available # {} THEN "SEND_AXI_REQ_WRITE_BACK_R" ELSE "IDLE")
    /\ Edge(IF r_valid_o THEN rr ELSE 0, r_o, 0)
    /\ UNCHANGED <<mem, wbeats, bsent>>

\* A CleanUnique is answered as soon as every CR is in, before the write-back.
WaitInvalidR ==
  \E rr \in RReady :
    /\ state_q = "WAIT_INVALID_R"
    /\ Goto(IF cr_valid # Ports \/ (rr = 0 /\ ~Lock(holder)) THEN "WAIT_INVALID_R"
            ELSE IF data_available # {} THEN "SEND_AXI_REQ_WRITE_BACK_R"
            ELSE IF Lock(holder) THEN "SEND_AXI_REQ_R" ELSE "IDLE")
    /\ Edge(IF r_valid_o THEN rr ELSE 0, r_o, 0)
    /\ UNCHANGED <<mem, wbeats, bsent>>

WaitResp(from, hit, miss) ==
  /\ state_q = from
  /\ Goto(IF cr_valid # Ports THEN from ELSE IF data_available # {} THEN hit ELSE miss)
  /\ QuietEdge /\ UNCHANGED <<mem, wbeats, bsent>>

WaitRespR    == WaitResp("WAIT_RESP_R", "READ_SNP_DATA", "SEND_AXI_REQ_R")
WaitInvalidW == WaitResp("WAIT_INVALID_W", "SEND_AXI_REQ_WRITE_BACK_W", "SEND_AXI_REQ_W")

\* Slip: leaving on r_last without the initiator's r_ready.
ReadSnpData_NoRReady ==
  \E rr \in RReady :
    /\ state_q = "READ_SNP_DATA"
    /\ Goto(IF cd_last = data_available /\ (r_eot = 1 \/ r_last = 1)
            THEN "IDLE" ELSE "READ_SNP_DATA")
    /\ Edge(IF r_valid_o THEN rr ELSE 0, r_o, 0)
    /\ UNCHANGED <<mem, wbeats, bsent>>

\* Forward the snooped words to the initiator; drain every port that has data.
ReadSnpData ==
  \E rr \in RReady :
    /\ state_q = "READ_SNP_DATA"
    /\ Goto(IF cd_last = data_available /\ (r_eot = 1 \/ (rr = 1 /\ r_last = 1))
            THEN "IDLE" ELSE "READ_SNP_DATA")
    /\ Edge(IF r_valid_o THEN rr ELSE 0, r_o, 0)
    /\ UNCHANGED <<mem, wbeats, bsent>>

\* Address phases towards memory.
SendAxiAw(from, to, readback) ==
  /\ state_q = from
  /\ \/ Goto(from) /\ UNCHANGED mem
     \/ Goto(to) /\ mem' = [wr |-> "data", rd |-> readback]
  /\ QuietEdge /\ UNCHANGED <<wbeats, bsent>>

SendAxiReqWriteBackR == SendAxiAw("SEND_AXI_REQ_WRITE_BACK_R", "WRITE_BACK_MEM_R", 0)
SendAxiReqWriteBackW == SendAxiAw("SEND_AXI_REQ_WRITE_BACK_W", "WRITE_BACK_MEM_W", 0)
SendAxiReqW ==
  SendAxiAw("SEND_AXI_REQ_W", "WRITE_MEM", IF Atop5(holder) THEN 1 ELSE 0)

SendAxiReqR ==
  /\ state_q = "SEND_AXI_REQ_R"
  /\ \/ Goto("SEND_AXI_REQ_R") /\ UNCHANGED mem
     \/ Goto("READ_MEM") /\ mem' = [mem EXCEPT !.rd = IF Single(holder) THEN 1 ELSE 2]
  /\ QuietEdge /\ UNCHANGED <<wbeats, bsent>>

\* Slip: leaving on the last W beat, before memory's B.
WriteBackMem_NoB(from, to) ==
  \E wFire, bFire \in Bit :
    /\ state_q = from
    /\ wFire = 1 => w_valid_o /\ mem.wr = "data"
    /\ bFire = 1 => mem.wr = "resp"
    /\ Goto(IF wFire = 1 /\ w_last = 1 THEN to ELSE from)
    /\ mem' = [mem EXCEPT !.wr = IF bFire = 1 THEN "none"
                                 ELSE IF wFire = 1 /\ w_last = 1 THEN "resp" ELSE mem.wr]
    /\ wbeats' = IF wFire = 1 THEN Append(wbeats, w_o) ELSE wbeats
    /\ Edge(0, r_o, wFire)
    /\ UNCHANGED bsent

\* Forward the snooped line to memory; leave when memory confirms with B.
WriteBackMem(from, to) ==
  \E wFire, bFire \in Bit :
    /\ state_q = from
    /\ wFire = 1 => w_valid_o /\ mem.wr = "data"
    /\ bFire = 1 => mem.wr = "resp"
    /\ Goto(IF bFire = 1 THEN to ELSE from)
    /\ mem' = [mem EXCEPT !.wr = IF bFire = 1 THEN "none"
                                 ELSE IF wFire = 1 /\ w_last = 1 THEN "resp" ELSE mem.wr]
    /\ wbeats' = IF wFire = 1 THEN Append(wbeats, w_o) ELSE wbeats
    /\ Edge(0, r_o, wFire)
    /\ UNCHANGED bsent

WriteBackMemR ==
  WriteBackMem("WRITE_BACK_MEM_R", IF Lock(holder) THEN "SEND_AXI_REQ_R" ELSE "IDLE")
WriteBackMemW == WriteBackMem("WRITE_BACK_MEM_W", "SEND_AXI_REQ_W")

\* Memory's R beats pass through to the initiator.
ReadMem ==
  \E rFire \in Bit :
    LET last == IF mem.rd = 1 THEN 1 ELSE 0
        beat == [src |-> Mem, last |-> last, shared |-> 0, dirty |-> 0,
                 word |-> IF Single(holder) THEN Offset(holder) ELSE last]
    IN /\ state_q = "READ_MEM"
       /\ rFire = 1 => mem.rd # 0
       /\ Goto(IF rFire = 1 /\ last = 1 THEN "IDLE" ELSE "READ_MEM")
       /\ mem' = [mem EXCEPT !.rd = mem.rd - rFire]
       /\ Edge(rFire, beat, 0)
       /\ UNCHANGED <<wbeats, bsent>>

DecodeW ==
  /\ state_q = "DECODE_W"
  /\ Goto("SEND_INVALID_W")
  /\ QuietEdge /\ UNCHANGED <<mem, wbeats, bsent>>

\* The initiator's W beat and memory's B pass through; an atomic goes on to R.
WriteMem ==
  \E wFire, bFire \in Bit :
    /\ state_q = "WRITE_MEM"
    /\ wFire = 1 => mem.wr = "data"
    /\ bFire = 1 => mem.wr = "resp"
    /\ Goto(IF bFire = 0 THEN "WRITE_MEM"
            ELSE IF Atop5(holder) THEN "READ_MEM" ELSE "IDLE")
    /\ mem' = [mem EXCEPT !.wr = IF bFire = 1 THEN "none"
                                 ELSE IF wFire = 1 THEN "resp" ELSE mem.wr]
    /\ bsent' = IF bFire = 1 THEN 1 ELSE bsent
    /\ Edge(0, r_o, wFire)
    /\ UNCHANGED wbeats

Next ==
  \/ IdleTakeAr \/ IdleTakeAw \/ IdleWait
  \/ DecodeR \/ SendInvalidR \/ WaitInvalidR
  \/ SendAxiReqWriteBackR \/ WriteBackMemR
  \/ SendRead \/ WaitRespR \/ ReadSnpData \/ SendAxiReqR \/ ReadMem
  \/ DecodeW \/ SendInvalidW \/ WaitInvalidW
  \/ SendAxiReqWriteBackW \/ WriteBackMemW \/ SendAxiReqW \/ WriteMem

Spec == Init /\ [][Next]_vars
-----------------------------------------------------------------------------
(***************************************************************************)
(* Safety.                                                                 *)
(***************************************************************************)
Others == Ports \ initiator_q
Exclusive(req) == req.kind \in {"ReadUnique", "CleanUnique", "LoadReserved"} \cup AllWriteKinds
Line(p) == <<[src |-> p, word |-> 0], [src |-> p, word |-> 1]>>

\* Memory has nothing to do for the CCU; something was done for the initiator.
MemIdle == mem = [wr |-> "none", rd |-> 0]
Acted   == rbeats # <<>> \/ wbeats # <<>> \/ bsent = 1 \/ ~MemIdle

\* When the FSM is back in IDLE nothing of the last transaction is in flight:
\* every snoop controller is idle and memory owes no B and no R.  A CR, CD or
\* R left over here would be taken as part of the next transaction.
QuiescentAtIdle ==
  state_q = "IDLE" =>
    /\ \A p \in Ports : snp[p] = "IDLE"
    /\ MemIdle

\* The initiator gets a response, and memory is touched on its behalf, only
\* after every other core finished its snoop, and the initiator is never
\* snooped; a request for exclusive access (ReadUnique, CleanUnique, LR,
\* WriteUnique, AMO) has by then invalidated the line in all other cores.
SnoopedBeforeResponse ==
  Acted =>
    /\ {x[1] : x \in looked_up} = Others
    /\ Exclusive(holder) =>
         \A x \in looked_up : x[2] \in {"CLEAN_INVALID", "READ_UNIQUE"}

\* The two-bit count of buffered words is exactly what arrived from the first
\* responder minus what was forwarded: it neither wraps nor loses a word.
BufferAccounting ==
  state_q \in DataStates =>
    LET got  == IF snp[first_responder] = "SEND_CD_0" THEN 0
                ELSE IF snp[first_responder] = "SEND_CD_1" THEN 1 ELSE 2
        sent == IF state_q = "READ_SNP_DATA" THEN Len(rbeats) ELSE Len(wbeats)
    IN /\ first_responder \in data_available
       /\ stored_cd_data + sent = got

\* Dirty data that a snooped cache gave up is complete in memory before the
\* FSM accesses memory for the initiator (LR, WriteUnique, AMO).
DirtyBeforeMemory ==
  state_q \in {"SEND_AXI_REQ_R", "READ_MEM", "SEND_AXI_REQ_W", "WRITE_MEM"} =>
    \A p \in dirty : wbeats = <<<<Line(p)[1], 0>>, <<Line(p)[2], 1>>>>

\* What the initiator must have got when its transaction ends.
Answered ==
  LET from == rbeats'[1].src IN
  CASE holder.kind = "CleanUnique" ->
         Len(rbeats') = 1 /\ from = None /\ rbeats'[1].last = 1
    [] holder.kind = "WriteUnique" -> rbeats' = <<>> /\ bsent' = 1
    [] holder.kind = "AtomicLoad"  ->
         Len(rbeats') = 1 /\ from = Mem /\ rbeats'[1].last = 1 /\ bsent' = 1
    [] OTHER ->
         /\ from = IF data_available = {} \/ Lock(holder) THEN Mem ELSE first_responder
         /\ from \in data_available \cup {Mem}
         /\ Len(rbeats') = IF Single(holder) THEN 1 ELSE 2
         /\ \A i \in 1 .. Len(rbeats') :
              /\ rbeats'[i].src = from
              /\ rbeats'[i].word = IF Single(holder) THEN Offset(holder) ELSE i - 1
              /\ rbeats'[i].last = IF i = Len(rbeats') THEN 1 ELSE 0
              /\ from # Mem => rbeats'[i].shared = Any(shared)

\* A transaction ends only when the initiator has its complete answer: the
\* right number of R beats, in order, from one responder that has the line or
\* else from memory, RLAST on the last one only, isShared if any responder
\* shares the line, B for writes, both B and R for AMOs.
CompleteAnswer == [][state_q # "IDLE" /\ state_q' = "IDLE" => Answered]_vars

\* No dirty line is lost: when a transaction in which a cache gave up a dirty
\* line ends, the line is in memory in full or its new owner was told that it
\* is dirty.
DirtyNotLost ==
  [][state_q # "IDLE" /\ state_q' = "IDLE" =>
       \A p \in dirty :
         \/ wbeats' = <<<<Line(p)[1], 0>>, <<Line(p)[2], 1>>>>
         \/ rbeats' # <<>> /\ \A i \in 1 .. Len(rbeats') : rbeats'[i].dirty = 1]_vars

\* An R beat the CCU offers is not withdrawn or changed before the initiator
\* takes it (ace_intf.sv: r_valid && !r_ready |=> r_valid and $stable(r)).
RBeatHeld ==
  [][r_valid_o /\ rbeats' = rbeats => r_valid_o' /\ r_o' = r_o]_vars
-----------------------------------------------------------------------------
(***************************************************************************)
(* The inductive invariant behind QuiescentAtIdle and                      *)
(* SnoopedBeforeResponse: how the registers of the FSM, the snoop          *)
(* controllers and memory are related in every state of the FSM.           *)
(***************************************************************************)
ReadStates   == {"DECODE_R", "SEND_INVALID_R", "WAIT_INVALID_R", "SEND_READ",
                 "WAIT_RESP_R", "READ_SNP_DATA", "SEND_AXI_REQ_R",
                 "SEND_AXI_REQ_WRITE_BACK_R", "WRITE_BACK_MEM_R"}
InvalStates  == {"SEND_INVALID_R", "WAIT_INVALID_R", "SEND_INVALID_W", "WAIT_INVALID_W",
                 "SEND_AXI_REQ_WRITE_BACK_R", "SEND_AXI_REQ_WRITE_BACK_W"} \cup WbStates
DecodeStates == {"DECODE_R", "DECODE_W"}
AwWbStates   == {"SEND_AXI_REQ_WRITE_BACK_R", "SEND_AXI_REQ_WRITE_BACK_W"}
MemStates    == {"SEND_AXI_REQ_R", "SEND_AXI_REQ_W", "READ_MEM", "WRITE_MEM"}

\* The request being served.
InvRequest ==
  state_q # "IDLE" =>
    /\ holder # None
    /\ initiator_q = {holder.id}
    /\ state_q \in ReadStates => holder.kind \in ReadKinds
    /\ state_q = "DECODE_W" => holder.kind \in WriteKinds
    /\ state_q = "SEND_READ" => ~Lock(holder) /\ holder.kind # "CleanUnique"
    /\ state_q \in InvalStates => Exclusive(holder) /\ holder.kind # "ReadUnique"

\* What port p's snoop controller may be doing.
InvPort(p) ==
  /\ snp[p] # "SEND_CR_RESP" => cr_resp[p] = NoResp
  /\ state_q \in {"IDLE"} \cup DecodeStates \cup MemStates => snp[p] = "IDLE"
  /\ p \in initiator_q /\ state_q # "IDLE" => snp[p] = "IDLE"
  /\ state_q \in SendStates =>
       IF p \in ac_ready \ initiator_q THEN snp[p] \in {"LOOKUP", "SEND_CR_RESP"}
                                       ELSE snp[p] = "IDLE"
  /\ state_q \in WaitStates =>
       snp[p] \in IF p \notin cr_valid THEN {"LOOKUP", "SEND_CR_RESP"}
                  ELSE IF p \in data_available THEN {"SEND_CD_0"} ELSE {"IDLE"}
  /\ state_q \in AwWbStates =>
       snp[p] = IF p \in data_available THEN "SEND_CD_0" ELSE "IDLE"
  /\ state_q \in DataStates =>
       snp[p] \in IF p \in data_available \ cd_last THEN {"SEND_CD_0", "SEND_CD_1"}
                                                    ELSE {"IDLE"}

\* The registers that collect AC, CR and CD.
InvRegs ==
  /\ state_q \in DecodeStates \cup SendStates =>
       data_available = {} /\ dirty = {} /\ first_responder = None
  /\ state_q \in SendStates => initiator_q \subseteq ac_ready
  /\ state_q \in WaitStates => initiator_q \subseteq cr_valid /\ data_available \subseteq cr_valid
  /\ state_q \in DecodeStates \cup SendStates \cup WaitStates \cup AwWbStates =>
       cd_last = {} /\ stored_cd_data = 0 /\ w_last = 0
  /\ state_q \in DecodeStates \cup SendStates \cup WaitStates => data_available \cap initiator_q = {}
  /\ state_q # "IDLE" => IF data_available = {} THEN first_responder = None
                                                ELSE first_responder \in data_available
  /\ state_q \in AwWbStates \cup WbStates => data_available # {}

\* At most one cache gives the line up as dirty, and in the invalidating
\* branches only that copy is transferred.
OneOwner ==
  \A p, q \in dirty \cup {r \in Ports : cr_resp[r].dirty = 1} : p = q

InvOwner ==
  /\ OneOwner
  /\ state_q \in InvalStates =>
       /\ data_available = dirty
       /\ \A p \in Ports : /\ cr_resp[p].data = cr_resp[p].dirty
                           /\ snp[p] = "LOOKUP" => ac_snoop_q[p] = "CLEAN_INVALID"

\* Memory, and the write-back in progress: words received from the first
\* responder are buffered or already sent, B follows the second one.
InvMem ==
  /\ state_q \notin WbStates \cup {"READ_MEM", "WRITE_MEM"} => MemIdle
  /\ state_q = "READ_MEM" => mem.wr = "none"
  /\ state_q = "WRITE_MEM" => mem.rd = IF Atop5(holder) THEN 1 ELSE 0
  /\ state_q \in WbStates =>
       LET got  == IF snp[first_responder] = "SEND_CD_0" THEN 0
                   ELSE IF snp[first_responder] = "SEND_CD_1" THEN 1 ELSE 2
           sent == IF mem.wr = "resp" THEN 2 ELSE w_last
       IN /\ mem.rd = 0 /\ mem.wr # "none"
          /\ mem.wr = "resp" => w_last = 0
          /\ stored_cd_data + sent = got

\* Which ports have finished their lookup.
InvLookedUp(p) ==
  state_q \notin DecodeStates /\ (state_q = "IDLE" => Acted) =>
    ((\E s \in AcSnoops : <<p, s>> \in looked_up) <=>
        /\ p \notin initiator_q
        /\ snp[p] # "LOOKUP"
        /\ state_q \in SendStates => p \in ac_ready)

\* A request for exclusive access sends invalidating snoops only.
InvEffect ==
  /\ \A p \in Ports : snp[p] = "LOOKUP" => ac_snoop_q[p] \in AcSnoops
  /\ (state_q = "IDLE" => Acted) /\ Exclusive(holder) =>
       /\ \A x \in looked_up : x[2] \in {"CLEAN_INVALID", "READ_UNIQUE"}
       /\ \A p \in Ports :
            snp[p] = "LOOKUP" => ac_snoop_q[p] \in {"CLEAN_INVALID", "READ_UNIQUE"}

\* Nothing was done for the initiator before the snoop is over.
InvHistory ==
  /\ state_q \in DecodeStates => looked_up = {}
  /\ state_q \in DecodeStates \cup SendStates \cup WaitStates => ~Acted

IndInv ==
  /\ TypeOK
  /\ InvRequest
  /\ \A p \in Ports : InvPort(p)
  /\ InvRegs
  /\ InvOwner
  /\ InvMem
  /\ \A p \in Ports : InvLookedUp(p)
  /\ InvEffect
  /\ InvHistory
-----------------------------------------------------------------------------
(***************************************************************************)
(* The invariant about the data, on top of IndInv: which words and beats   *)
(* are where.  It is behind BufferAccounting, DirtyBeforeMemory,           *)
(* CompleteAnswer, DirtyNotLost and RBeatHeld.                             *)
(***************************************************************************)
WriteStates == {"DECODE_W", "SEND_INVALID_W", "WAIT_INVALID_W",
                "SEND_AXI_REQ_WRITE_BACK_W", "WRITE_BACK_MEM_W", "SEND_AXI_REQ_W", "WRITE_MEM"}
CleanStates == {"SEND_AXI_REQ_WRITE_BACK_R", "WRITE_BACK_MEM_R"}

\* Words received from the first responder, beats the initiator is due, the
\* i-th of them, and what memory has of p's line after n write-back beats.
Got       == IF snp[first_responder] = "SEND_CD_0" THEN 0
             ELSE IF snp[first_responder] = "SEND_CD_1" THEN 1 ELSE 2
BeatsDue  == IF Single(holder) THEN 1 ELSE 2
SnpBeat(i) == [src |-> first_responder, word |-> IF Single(holder) THEN Offset(holder) ELSE i - 1,
               last |-> IF i = BeatsDue THEN 1 ELSE 0,
               shared |-> Any(shared), dirty |-> Any(dirty)]
MemBeat(i) == [src |-> Mem, word |-> IF Single(holder) THEN Offset(holder) ELSE i - 1,
               last |-> IF i = BeatsDue THEN 1 ELSE 0, shared |-> 0, dirty |-> 0]
CleanBeat == [src |-> None, word |-> 0, last |-> 1, shared |-> 0, dirty |-> 0]
WbBeat(i) == <<[src |-> first_responder, word |-> i - 1], i - 1>>

\* The kind of request each branch of the FSM serves.
InvKind ==
  /\ state_q \in {"SEND_READ", "WAIT_RESP_R", "READ_SNP_DATA"} =>
       ~Lock(holder) /\ holder.kind # "CleanUnique"
  /\ state_q \in WriteStates => holder.kind \in WriteKinds
  /\ state_q = "SEND_AXI_REQ_R" => holder.kind # "CleanUnique"
  /\ state_q = "READ_MEM" =>
       holder.kind \in (ReadKinds \ {"CleanUnique"}) \cup {"AtomicLoad"}

\* A dirty line is handed over with its data; memory is read for the initiator
\* only if no cache has the line or the line was written back.
InvGiven ==
  /\ \A p \in Ports : cr_resp[p].dirty = 1 => cr_resp[p].data = 1
  /\ state_q # "IDLE" => dirty \subseteq data_available
  /\ state_q \in {"SEND_AXI_REQ_R", "READ_MEM"} =>
       data_available = {} \/ Lock(holder) \/ Atop5(holder)

\* The buffered words are the first responder's, in their place.
InvBuffer ==
  state_q \in DataStates =>
    /\ first_responder \in data_available
    /\ \A w \in Bit : w < Got => cd_data[w] = [src |-> first_responder, word |-> w]

\* The beats handed to the initiator so far, and the counters next to them.
InvRBeats ==
  /\ state_q \in DecodeStates \cup SendStates \cup WaitStates => r_last = 0 /\ r_eot = 0
  /\ state_q \in WriteStates \cup {"SEND_AXI_REQ_R"} => rbeats = <<>>
  /\ state_q \in CleanStates => rbeats = IF Lock(holder) THEN <<>> ELSE <<CleanBeat>>
  /\ state_q = "READ_SNP_DATA" =>
       /\ stored_cd_data + Len(rbeats) = Got
       /\ Len(rbeats) <= BeatsDue
       /\ r_last = IF Len(rbeats) = 1 THEN 1 ELSE 0
       /\ r_eot = IF Len(rbeats) = BeatsDue THEN 1 ELSE 0
       /\ \A i \in 1 .. Len(rbeats) : rbeats[i] = SnpBeat(i)
  /\ state_q = "READ_MEM" =>
       /\ mem.rd + Len(rbeats) = BeatsDue /\ mem.rd # 0
       /\ \A i \in 1 .. Len(rbeats) : rbeats[i] = MemBeat(i)
       /\ Atop5(holder) => bsent = 1

\* The beats written back so far; the line is complete in memory once the FSM
\* turns to the initiator's own access.
InvWBeats ==
  /\ state_q \in AwWbStates => wbeats = <<>>
  /\ state_q \in WbStates =>
       /\ Len(wbeats) = IF mem.wr = "resp" THEN 2 ELSE w_last
       /\ \A i \in 1 .. Len(wbeats) : wbeats[i] = WbBeat(i)
  /\ state_q \in MemStates =>
       \A p \in dirty : wbeats = <<<<Line(p)[1], 0>>, <<Line(p)[2], 1>>>>

DataInv == InvKind /\ InvGiven /\ InvBuffer /\ InvRBeats /\ InvWBeats
-----------------------------------------------------------------------------
(***************************************************************************)
(* Liveness: the clock runs, a snoop controller eventually takes the AC    *)
(* and finishes its lookup, memory and masters eventually answer.          *)
(***************************************************************************)
TakesAc(p)   == Next /\ snp[p] = "IDLE" /\ snp'[p] = "LOOKUP"
LooksUp(p)   == Next /\ snp[p] = "LOOKUP" /\ snp'[p] = "SEND_CR_RESP"
MemoryMoves  == Next /\ mem' # mem
MasterTakesR == Next /\ rbeats' # rbeats /\ rbeats' # <<>>

Fairness ==
  /\ WF_vars(Next)
  /\ WF_vars(MemoryMoves)
  /\ WF_vars(MasterTakesR)
  /\ \A p \in Ports : WF_vars(TakesAc(p)) /\ WF_vars(LooksUp(p))

FairSpec == Spec /\ Fairness

\* Every transaction the FSM starts ends.
TransactionEnds == (state_q # "IDLE") ~> (state_q = "IDLE")

\* A waiting read is served even while writes keep arriving, and vice versa:
\* the waiting_r / waiting_w priority bits prevent starvation.
ReadServed  == (ar # None) ~> (state_q = "DECODE_R")
WriteServed == (aw # None) ~> (state_q = "DECODE_W")
=============================================================================
