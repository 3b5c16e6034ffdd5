--------------------------- MODULE CcuFsm_proofs ---------------------------
(***************************************************************************)
(* Proofs about ccu_fsm.sv for any number of ports.                        *)
(***************************************************************************)
EXTENDS CcuFsm, TLAPS

\* The R beat on the wires is a beat.
LEMMA RBeatType == TypeOK => r_o \in Beat
  BY DEF TypeOK, r_o, Beat, Word, Bit, Any, Single, Offset

\* The write-back beat on the wires is a word with its last flag.
LEMMA WBeatType == TypeOK => w_o \in Word \X Bit
  BY DEF TypeOK, w_o

\* The types of what Edge updates.
EdgeTyped ==
  /\ cr_valid' \in SUBSET Ports
  /\ data_available' \in SUBSET Ports
  /\ shared' \in SUBSET Ports
  /\ dirty' \in SUBSET Ports
  /\ first_responder' \in Ports \cup {None}
  /\ cd_last' \in SUBSET Ports
  /\ cd_data' \in [Bit -> Word]
  /\ stored_cd_data' \in 0..3
  /\ r_last' \in Bit /\ r_eot' \in Bit /\ w_last' \in Bit
  /\ rbeats' \in Seq(Beat)
  /\ ar' \in ArReq \cup {None} /\ aw' \in AwReq \cup {None}
  /\ snp' \in [Ports -> SnpStates]
  /\ ac_snoop_q' \in [Ports -> AcSnoops \cup {None}]
  /\ cr_resp' \in [Ports -> [data : Bit, shared : Bit, dirty : Bit]]
  /\ ac_ready' \in SUBSET Ports

\* One clock edge keeps the type of every register Edge updates.
LEMMA EdgeType ==
  ASSUME TypeOK, NEW rFire \in Bit, NEW beat \in Beat, NEW wFire \in Bit,
         Edge(rFire, beat, wFire)
  PROVE  EdgeTyped
<1> USE DEF Bit
<1>1. crFire \in SUBSET Ports /\ cdFire \in SUBSET Ports
  BY DEF crFire, cdFire, cr_ready_o, cd_ready_o, TypeOK
<1>2. /\ cr_valid' \in SUBSET Ports
      /\ data_available' \in SUBSET Ports
      /\ shared' \in SUBSET Ports
      /\ dirty' \in SUBSET Ports
      /\ first_responder' \in Ports \cup {None}
  BY <1>1 DEF Edge, HoldCr, TypeOK
<1>3. /\ cd_last' \in SUBSET Ports
      /\ cd_data' \in [Bit -> Word]
      /\ stored_cd_data' \in 0..3
  BY <1>1 DEF Edge, HoldCd, TypeOK, Word, NoWord, CdLast
<1>4. r_last' \in Bit /\ r_eot' \in Bit /\ w_last' \in Bit
  BY DEF Edge, CountR, CountW, TypeOK
<1>5. rbeats' \in Seq(Beat)
  BY DEF Edge, TypeOK
<1>6. ar' \in ArReq \cup {None} /\ aw' \in AwReq \cup {None}
  BY DEF Edge, Requests, Offer, TypeOK
<1>7. PICK acFire \in SUBSET {p \in ac_valid_o : snp[p] = "IDLE"},
           done \in SUBSET {p \in Ports : snp[p] = "LOOKUP"} :
        \E resp \in [done -> [data : Bit, shared : Bit, dirty : Bit]] :
          SnoopStep(acFire, done, resp)
  BY DEF Edge, SnoopControllers
<1>8. PICK resp \in [done -> [data : Bit, shared : Bit, dirty : Bit]] :
        SnoopStep(acFire, done, resp)
  BY <1>7
<1>9. /\ snp' \in [Ports -> SnpStates]
      /\ cr_resp' \in [Ports -> [data : Bit, shared : Bit, dirty : Bit]]
  BY <1>1, <1>8 DEF SnoopStep, TypeOK, SnpStates, NoResp
<1>10. ac_snoop_q' \in [Ports -> AcSnoops \cup {None}]
  BY <1>1, <1>8 DEF SnoopStep, TypeOK, ac_snoop_o, SnoopOf, AcSnoops
<1>11. ac_ready' \in SUBSET Ports
  BY <1>1, <1>8 DEF SnoopStep, HoldAc, TypeOK, ac_valid_o
<1>12. QED
  BY <1>2, <1>3, <1>4, <1>5, <1>6, <1>9, <1>10, <1>11 DEF EdgeTyped

\* What one clock edge does to the snoop controller of port p, without the
\* existential choices of SnoopControllers.
PortStep(p) ==
  /\ snp[p] = "IDLE" =>
       \/ snp'[p] = "IDLE" /\ (state_q \in SendStates => (p \in ac_ready' <=> p \in ac_ready))
       \/ snp'[p] = "LOOKUP" /\ p \in ac_valid_o /\ p \in ac_ready' /\ ac_snoop_q'[p] = ac_snoop_o
  /\ snp[p] # "IDLE" /\ state_q \in SendStates => (p \in ac_ready' <=> p \in ac_ready)
  /\ state_q \in {"DECODE_R", "DECODE_W"} => (p \in ac_ready' <=> p \in initiator_q)
  /\ snp[p] = "LOOKUP" =>
       \/ snp'[p] = "LOOKUP" /\ ac_snoop_q'[p] = ac_snoop_q[p] /\ cr_resp'[p] = cr_resp[p]
       \/ snp'[p] = "SEND_CR_RESP" /\ cr_resp'[p] \in CrResp(ac_snoop_q[p])
  /\ snp[p] = "SEND_CR_RESP" =>
       IF p \in cr_ready_o
       THEN /\ snp'[p] = IF cr_resp[p].data = 1 THEN "SEND_CD_0" ELSE "IDLE"
            /\ cr_resp'[p] = NoResp
       ELSE snp'[p] = snp[p] /\ cr_resp'[p] = cr_resp[p]
  /\ snp[p] \in {"SEND_CD_0", "SEND_CD_1"} =>
       IF p \in cd_ready_o
       THEN snp'[p] = IF snp[p] = "SEND_CD_0" THEN "SEND_CD_1" ELSE "IDLE"
       ELSE snp'[p] = snp[p]
  /\ snp[p] \notin {"LOOKUP", "SEND_CR_RESP"} => cr_resp'[p] = cr_resp[p]
  /\ state_q # "IDLE" =>
       \A s : <<p, s>> \in looked_up' <=>
                \/ <<p, s>> \in looked_up
                \/ snp[p] = "LOOKUP" /\ snp'[p] = "SEND_CR_RESP" /\ s = ac_snoop_q[p]

\* Every clock edge is such a step at every port.
LEMMA PortSteps ==
  ASSUME TypeOK, SnoopControllers
  PROVE  \A p \in Ports : PortStep(p)
<1>1. PICK acFire \in SUBSET {p \in ac_valid_o : snp[p] = "IDLE"},
           done \in SUBSET {p \in Ports : snp[p] = "LOOKUP"} :
        \E resp \in [done -> [data : Bit, shared : Bit, dirty : Bit]] :
          SnoopStep(acFire, done, resp)
  BY DEF SnoopControllers
<1>2. PICK resp \in [done -> [data : Bit, shared : Bit, dirty : Bit]] :
        SnoopStep(acFire, done, resp)
  BY <1>1
<1> SUFFICES ASSUME NEW p \in Ports PROVE PortStep(p)
  OBVIOUS
<1>3. /\ p \in crFire <=> p \in cr_ready_o /\ snp[p] = "SEND_CR_RESP"
      /\ p \in cdFire <=> p \in cd_ready_o /\ snp[p] \in {"SEND_CD_0", "SEND_CD_1"}
  BY DEF crFire, cdFire, cd_valid_i
<1>4. /\ p \in acFire => snp[p] = "IDLE" /\ p \in ac_valid_o
      /\ p \in done => snp[p] = "LOOKUP"
  OBVIOUS
<1>5. snp'[p] = IF p \in acFire THEN "LOOKUP"
               ELSE IF p \in done THEN "SEND_CR_RESP"
               ELSE IF p \in crFire /\ cr_resp[p].data = 1 THEN "SEND_CD_0"
               ELSE IF p \in cdFire /\ snp[p] = "SEND_CD_0" THEN "SEND_CD_1"
               ELSE IF p \in crFire \cup cdFire THEN "IDLE"
               ELSE snp[p]
  BY <1>2 DEF SnoopStep
<1>6. /\ ac_snoop_q'[p] = IF p \in acFire THEN ac_snoop_o
                          ELSE IF p \in done THEN None ELSE ac_snoop_q[p]
      /\ cr_resp'[p] = IF p \in done THEN resp[p]
                       ELSE IF p \in crFire THEN NoResp ELSE cr_resp[p]
      /\ p \in done => resp[p] \in CrResp(ac_snoop_q[p])
  BY <1>2 DEF SnoopStep
<1>7. /\ state_q \in SendStates => (p \in ac_ready' <=> p \in ac_ready \/ p \in acFire)
      /\ p \in ac_valid_o => state_q \in SendStates
      /\ state_q \in {"DECODE_R", "DECODE_W"} => (p \in ac_ready' <=> p \in initiator_q)
  BY <1>2 DEF SnoopStep, HoldAc, SendStates, ac_valid_o
<1>8. state_q # "IDLE" =>
        \A s : <<p, s>> \in looked_up' <=>
                 <<p, s>> \in looked_up \/ (p \in done /\ s = ac_snoop_q[p])
  BY <1>2 DEF SnoopStep
<1>9. snp[p] \in SnpStates
  BY DEF TypeOK
<1>10. QED
  BY <1>3, <1>4, <1>5, <1>6, <1>7, <1>8, <1>9 DEF PortStep, SnpStates

\* The caches stay coherent: still at most one gives the line up as dirty.
LEMMA OwnerStep ==
  ASSUME TypeOK, SnoopControllers, HoldCr
  PROVE  OneOwner'
<1>1. PICK acFire \in SUBSET {p \in ac_valid_o : snp[p] = "IDLE"},
           done \in SUBSET {p \in Ports : snp[p] = "LOOKUP"} :
        \E resp \in [done -> [data : Bit, shared : Bit, dirty : Bit]] :
          SnoopStep(acFire, done, resp)
  BY DEF SnoopControllers
<1>2. PICK resp \in [done -> [data : Bit, shared : Bit, dirty : Bit]] :
        SnoopStep(acFire, done, resp)
  BY <1>1
<1> DEFINE owners == dirty \cup {p \in Ports : cr_resp[p].dirty = 1}
                           \cup {p \in done : resp[p].dirty = 1}
<1>3. \A p, q \in owners : p = q
  BY <1>2 DEF SnoopStep
<1>4. dirty' \subseteq owners
  BY DEF HoldCr, TypeOK, crFire, cr_ready_o
<1>5. ASSUME NEW p \in Ports, cr_resp'[p].dirty = 1 PROVE p \in owners
  BY <1>2, <1>5 DEF SnoopStep, NoResp
<1>6. QED
  BY <1>3, <1>4, <1>5 DEF OneOwner

\* The record of finished lookups grows by lookups in progress only.
LookUps ==
  /\ looked_up' \in SUBSET (Ports \X AcSnoops)
  /\ looked_up' \subseteq
       looked_up \cup {<<p, ac_snoop_q[p]>> : p \in {q \in Ports : snp[q] = "LOOKUP"}}
  /\ state_q = "IDLE" => looked_up' = {}

\* Lookups are recorded with the snoop type the port had saved.
LEMMA LookedUpType ==
  ASSUME IndInv, SnoopControllers
  PROVE  LookUps
<1>1. PICK acFire \in SUBSET {p \in ac_valid_o : snp[p] = "IDLE"},
           done \in SUBSET {p \in Ports : snp[p] = "LOOKUP"} :
        \E resp \in [done -> [data : Bit, shared : Bit, dirty : Bit]] :
          SnoopStep(acFire, done, resp)
  BY DEF SnoopControllers
<1>2. looked_up' = IF state_q = "IDLE" THEN {}
                   ELSE looked_up \cup {<<p, ac_snoop_q[p]>> : p \in done}
  BY <1>1 DEF SnoopStep
<1>3. \A p \in done : p \in Ports /\ ac_snoop_q[p] \in AcSnoops
  BY DEF IndInv, InvEffect
<1>4. QED
  BY <1>2, <1>3 DEF IndInv, TypeOK, LookUps

\* All of the above for one clock edge.
LEMMA EdgeFacts ==
  ASSUME IndInv, NEW rFire \in Bit, NEW beat \in Beat, NEW wFire \in Bit,
         Edge(rFire, beat, wFire)
  PROVE  /\ EdgeTyped
         /\ LookUps
         /\ \A p \in Ports : PortStep(p)
         /\ OneOwner'
         /\ HoldCr
         /\ HoldCd(rFire + wFire)
         /\ CountW(wFire)
         /\ rbeats' = IF state_q = "IDLE" THEN <<>>
                      ELSE IF rFire = 1 THEN Append(rbeats, beat) ELSE rbeats
  BY EdgeType, PortSteps, OwnerStep, LookedUpType DEF Edge, IndInv

\* The same for an edge without an R or W handshake.
LEMMA QuietEdgeFacts ==
  ASSUME IndInv, QuietEdge
  PROVE  /\ EdgeTyped
         /\ LookUps
         /\ \A p \in Ports : PortStep(p)
         /\ OneOwner'
         /\ HoldCr
         /\ HoldCd(0)
         /\ CountW(0)
         /\ rbeats' = IF state_q = "IDLE" THEN <<>> ELSE rbeats
<1>1. r_o \in Beat
  BY RBeatType DEF IndInv
<1>2. 0 \in Bit /\ 0 + 0 = 0
  BY DEF Bit
<1>3. QED
  BY <1>1, <1>2, EdgeFacts DEF QuietEdge
-----------------------------------------------------------------------------
(***************************************************************************)
(* One lemma per state of the FSM, or per group of states that behave      *)
(* alike.                                                                  *)
(***************************************************************************)
USE DEF States, SendStates, WaitStates, WbStates, DataStates, DecodeStates,
        ReadStates, InvalStates, AwWbStates, MemStates

\* DECODE_R clears ac_ready to the initiator and picks the snoop; the ports
\* are still idle.
LEMMA DecodeRStep == ASSUME IndInv, DecodeR PROVE IndInv'
<1>1. /\ state_q = "DECODE_R" /\ state_q' \in {"SEND_INVALID_R", "SEND_READ"}
      /\ UNCHANGED <<initiator_q, prio, holder, mem, wbeats, bsent>>
      /\ state_q' = "SEND_INVALID_R" <=> SnoopOf(holder) = "CLEAN_UNIQUE" \/ Lock(holder)
  BY DEF DecodeR, Goto
<1>2. /\ EdgeTyped
      /\ LookUps
      /\ \A p \in Ports : PortStep(p)
      /\ OneOwner'
      /\ HoldCr /\ HoldCd(0) /\ CountW(0)
      /\ rbeats' = rbeats
  BY <1>1, QuietEdgeFacts DEF DecodeR
<1>3. \A p \in Ports : snp[p] = "IDLE" /\ snp'[p] = "IDLE" /\ cr_resp'[p] = NoResp
  BY <1>1, <1>2 DEF IndInv, InvPort, PortStep, ac_valid_o
<1>4. looked_up' = {}
  BY <1>1, <1>2, <1>3 DEF IndInv, InvHistory, LookUps
<1>5. TypeOK'
  BY <1>1, <1>2 DEF IndInv, TypeOK, EdgeTyped, LookUps
<1>6. InvRequest'
  BY <1>1 DEF IndInv, InvRequest, Exclusive, SnoopOf, Lock, TypeOK
<1>7. \A p \in Ports : InvPort(p)'
  BY <1>1, <1>2, <1>3 DEF IndInv, InvPort, InvRequest, PortStep
<1>8. InvRegs'
  BY <1>1, <1>2 DEF IndInv, InvRegs, HoldCr, HoldCd, CountW, PortStep, crFire, cr_ready_o, EdgeTyped, TypeOK
<1>9. InvOwner'
  BY <1>1, <1>2, <1>3, <1>8 DEF InvOwner, InvRegs, NoResp
<1>10. InvMem'
  BY <1>1 DEF IndInv, InvMem, MemIdle
<1>11. \A p \in Ports : InvLookedUp(p)'
  BY <1>1, <1>2, <1>4 DEF InvLookedUp, PortStep
<1>12. InvEffect' /\ InvHistory'
  BY <1>1, <1>2, <1>3, <1>4 DEF IndInv, InvEffect, InvHistory, Acted, MemIdle
<1>13. QED
  BY <1>5, <1>6, <1>7, <1>8, <1>9, <1>10, <1>11, <1>12 DEF IndInv

\* DECODE_W does the same for the write branch.
LEMMA DecodeWStep == ASSUME IndInv, DecodeW PROVE IndInv'
<1>1. /\ state_q = "DECODE_W" /\ state_q' = "SEND_INVALID_W"
      /\ UNCHANGED <<initiator_q, prio, holder, mem, wbeats, bsent>>
  BY DEF DecodeW, Goto
<1>2. /\ EdgeTyped
      /\ LookUps
      /\ \A p \in Ports : PortStep(p)
      /\ OneOwner'
      /\ HoldCr /\ HoldCd(0) /\ CountW(0)
      /\ rbeats' = rbeats
  BY <1>1, QuietEdgeFacts DEF DecodeW
<1>3. \A p \in Ports : snp[p] = "IDLE" /\ snp'[p] = "IDLE" /\ cr_resp'[p] = NoResp
  BY <1>1, <1>2 DEF IndInv, InvPort, PortStep, ac_valid_o
<1>4. looked_up' = {}
  BY <1>1, <1>2, <1>3 DEF IndInv, InvHistory, LookUps
<1>5. TypeOK'
  BY <1>1, <1>2 DEF IndInv, TypeOK, EdgeTyped, LookUps
<1>6. InvRequest'
  BY <1>1, KindsAssumption DEF IndInv, InvRequest, Exclusive, AllWriteKinds
<1>7. \A p \in Ports : InvPort(p)'
  BY <1>1, <1>2, <1>3 DEF IndInv, InvPort, InvRequest, PortStep
<1>8. InvRegs'
  BY <1>1, <1>2 DEF IndInv, InvRegs, HoldCr, HoldCd, CountW, PortStep, crFire, cr_ready_o, EdgeTyped, TypeOK
<1>9. InvOwner'
  BY <1>1, <1>2, <1>3, <1>8 DEF InvOwner, InvRegs, NoResp
<1>10. InvMem'
  BY <1>1 DEF IndInv, InvMem, MemIdle
<1>11. \A p \in Ports : InvLookedUp(p)'
  BY <1>1, <1>2, <1>4 DEF InvLookedUp, PortStep
<1>12. InvEffect' /\ InvHistory'
  BY <1>1, <1>2, <1>3, <1>4 DEF IndInv, InvEffect, InvHistory, Acted, MemIdle
<1>13. QED
  BY <1>5, <1>6, <1>7, <1>8, <1>9, <1>10, <1>11, <1>12 DEF IndInv

\* IDLE clears every register and the history; the ports stay idle.
LEMMA IdleStep ==
  ASSUME IndInv, IdleTakeAr \/ IdleTakeAw \/ IdleWait
  PROVE  IndInv'
<1>1. /\ state_q = "IDLE" /\ UNCHANGED mem
      /\ wbeats' = <<>> /\ bsent' = 0
      /\ prio' \in [waiting_w : Bit, waiting_r : Bit]
  BY DEF IdleTakeAr, IdleTakeAw, IdleWait, ClearHistory, Bit
<1>2. \/ /\ state_q' = "DECODE_R" /\ ar # None /\ holder' = ar /\ initiator_q' = {ar.id}
      \/ /\ state_q' = "DECODE_W" /\ aw # None /\ holder' = aw /\ initiator_q' = {aw.id}
      \/ /\ state_q' = "IDLE" /\ holder' = holder /\ initiator_q' = {}
  BY DEF IdleTakeAr, IdleTakeAw, IdleWait, TakeAr, TakeAw
<1>3. /\ EdgeTyped
      /\ LookUps
      /\ \A p \in Ports : PortStep(p)
      /\ OneOwner'
      /\ HoldCr /\ HoldCd(0) /\ CountW(0)
      /\ rbeats' = <<>>
  BY <1>1, QuietEdgeFacts DEF IdleTakeAr, IdleTakeAw, IdleWait
<1>4. \A p \in Ports : snp[p] = "IDLE" /\ snp'[p] = "IDLE" /\ cr_resp'[p] = NoResp
  BY <1>1, <1>3 DEF IndInv, InvPort, PortStep, ac_valid_o
<1>5. looked_up' = {}
  BY <1>1, <1>3 DEF LookUps
<1>6. MemIdle' /\ ~Acted'
  BY <1>1, <1>3 DEF IndInv, InvMem, MemIdle, Acted
<1>7. /\ ar # None => ar \in [id : Ports, kind : ReadKinds]
      /\ aw # None => aw \in [id : Ports, kind : WriteKinds]
  BY DEF IndInv, TypeOK, ArReq, AwReq
<1>8. /\ initiator_q' \in SUBSET Ports
      /\ holder' \in [id : Ports, kind : ReadKinds \cup WriteKinds] \cup {None}
  BY <1>2, <1>7 DEF IndInv, TypeOK
<1>9. TypeOK'
  <2>1. state_q' \in States
    BY <1>2
  <2>2. mem' \in [wr : {"none", "data", "resp"}, rd : 0..2]
    BY <1>1 DEF IndInv, TypeOK
  <2>3. wbeats' \in Seq(Word \X Bit) /\ bsent' \in Bit
    BY <1>1 DEF Bit
  <2>4. QED
    BY <1>1, <1>3, <1>8, <2>1, <2>2, <2>3 DEF TypeOK, EdgeTyped, LookUps
<1>10. InvRequest'
  BY <1>2, <1>7 DEF InvRequest
<1>11. \A p \in Ports : InvPort(p)'
  BY <1>2, <1>4 DEF InvPort
<1>12. InvRegs'
  BY <1>1, <1>2, <1>3 DEF InvRegs, HoldCr, HoldCd, CountW
<1>13. InvOwner'
  BY <1>2, <1>3 DEF InvOwner
<1>14. InvMem'
  BY <1>2, <1>6 DEF InvMem
<1>15. \A p \in Ports : InvLookedUp(p)'
  BY <1>2, <1>6 DEF InvLookedUp
<1>16. InvEffect' /\ InvHistory'
  BY <1>2, <1>4, <1>5, <1>6 DEF InvEffect, InvHistory
<1>17. QED
  BY <1>9, <1>10, <1>11, <1>12, <1>13, <1>14, <1>15, <1>16 DEF IndInv

\* An invalidating snoop: the port's answer has data exactly if it is dirty.
LEMMA InvalidatingPort ==
  ASSUME NEW p \in Ports, PortStep(p), snp[p] \in SnpStates,
         cr_resp[p].data = cr_resp[p].dirty,
         snp[p] = "LOOKUP" => ac_snoop_q[p] = "CLEAN_INVALID",
         p \in ac_valid_o => ac_snoop_o = "CLEAN_INVALID"
  PROVE  /\ cr_resp'[p].data = cr_resp'[p].dirty
         /\ snp'[p] = "LOOKUP" => ac_snoop_q'[p] = "CLEAN_INVALID"
<1>1. \A r \in CrResp("CLEAN_INVALID") : r.data = r.dirty
  BY DEF CrResp
<1>2. NoResp.data = NoResp.dirty
  BY DEF NoResp
<1>3. cr_resp'[p] = cr_resp[p] \/ cr_resp'[p] = NoResp \/ cr_resp'[p] \in CrResp("CLEAN_INVALID")
  BY DEF PortStep, SnpStates
<1>4. snp'[p] = "LOOKUP" => ac_snoop_q'[p] = "CLEAN_INVALID"
  BY DEF PortStep, SnpStates
<1>5. QED
  BY <1>1, <1>2, <1>3, <1>4

\* The SEND states: ports take the AC one by one; the last step sets cr_valid
\* to the initiator, so every other port still owes its CR.
LEMMA SendStep ==
  ASSUME IndInv, SendInvalidR \/ SendRead \/ SendInvalidW
  PROVE  IndInv'
<1>1. /\ state_q \in SendStates
      /\ UNCHANGED <<initiator_q, prio, holder, mem, wbeats, bsent>>
      /\ \/ state_q' = state_q
         \/ /\ ac_ready = Ports
            /\ \/ state_q = "SEND_READ" /\ state_q' = "WAIT_RESP_R"
               \/ state_q = "SEND_INVALID_R" /\ state_q' = "WAIT_INVALID_R"
               \/ state_q = "SEND_INVALID_W" /\ state_q' = "WAIT_INVALID_W"
  BY DEF SendInvalidR, SendRead, SendInvalidW, Send, Goto
<1>2. /\ EdgeTyped
      /\ LookUps
      /\ \A p \in Ports : PortStep(p)
      /\ OneOwner'
      /\ HoldCr /\ HoldCd(0) /\ CountW(0)
      /\ rbeats' = rbeats
  BY <1>1, QuietEdgeFacts DEF SendInvalidR, SendRead, SendInvalidW, Send
<1>3. /\ cr_valid' = initiator_q
      /\ UNCHANGED <<data_available, dirty, first_responder, cd_last, stored_cd_data, w_last>>
  BY <1>1, <1>2 DEF HoldCr, HoldCd, CountW
<1>4. TypeOK'
  BY <1>1, <1>2 DEF IndInv, TypeOK, EdgeTyped, LookUps
<1>5. InvRequest'
  BY <1>1 DEF IndInv, InvRequest
<1>6. \A p \in Ports : InvPort(p)'
  BY <1>1, <1>2, <1>3 DEF IndInv, InvPort, InvRegs, PortStep, ac_valid_o, cr_ready_o, cd_ready_o
<1>7. InvRegs'
  <2>1. initiator_q \subseteq ac_ready'
    BY <1>1, <1>2 DEF IndInv, InvRegs, PortStep, TypeOK
  <2>2. QED
    BY <1>1, <1>3, <2>1 DEF IndInv, InvRegs
<1>8. InvOwner'
  <2>1. state_q' \in InvalStates => state_q \in InvalStates
    BY <1>1
  <2>2. ASSUME state_q \in InvalStates, NEW p \in Ports
        PROVE  /\ cr_resp'[p].data = cr_resp'[p].dirty
               /\ snp'[p] = "LOOKUP" => ac_snoop_q'[p] = "CLEAN_INVALID"
    <3>1. /\ snp[p] \in SnpStates
          /\ cr_resp[p].data = cr_resp[p].dirty
          /\ snp[p] = "LOOKUP" => ac_snoop_q[p] = "CLEAN_INVALID"
      BY <2>2 DEF IndInv, InvOwner, TypeOK
    <3>2. p \in ac_valid_o => ac_snoop_o = "CLEAN_INVALID"
      BY <1>1, <2>2 DEF ac_snoop_o, ac_valid_o
    <3>3. PortStep(p)
      BY <1>2
    <3>4. QED
      BY <3>1, <3>2, <3>3, InvalidatingPort
  <2>3. QED
    BY <1>2, <1>3, <2>1, <2>2 DEF IndInv, InvOwner
<1>9. InvMem'
  BY <1>1 DEF IndInv, InvMem, MemIdle
<1>10. \A p \in Ports : InvLookedUp(p)'
  <2> SUFFICES ASSUME NEW p \in Ports PROVE InvLookedUp(p)'
    OBVIOUS
  <2> DEFINE done  == snp[p] = "LOOKUP" /\ snp'[p] = "SEND_CR_RESP"
             found == \E s \in AcSnoops : <<p, s>> \in looked_up
  <2>1. snp[p] = "LOOKUP" => ac_snoop_q[p] \in AcSnoops
    BY DEF IndInv, InvEffect
  <2>2. (\E s \in AcSnoops : <<p, s>> \in looked_up') <=> found \/ done
    BY <1>1, <1>2, <2>1 DEF PortStep
  <2>3. found <=> p \notin initiator_q /\ snp[p] # "LOOKUP" /\ p \in ac_ready
    BY <1>1 DEF IndInv, InvLookedUp
  <2>4. IF p \in ac_ready \ initiator_q THEN snp[p] \in {"LOOKUP", "SEND_CR_RESP"}
                                        ELSE snp[p] = "IDLE"
    BY <1>1 DEF IndInv, InvPort
  <2>5. found \/ done <=>
          /\ p \notin initiator_q
          /\ snp'[p] # "LOOKUP"
          /\ state_q' \in SendStates => p \in ac_ready'
    BY <1>1, <1>2, <2>3, <2>4 DEF PortStep, ac_valid_o, cr_ready_o, IndInv, InvRegs
  <2>6. QED
    BY <1>1, <2>2, <2>5 DEF InvLookedUp
<1>11. InvEffect'
  <2>1. ac_snoop_o \in AcSnoops
    BY DEF ac_snoop_o, SnoopOf, AcSnoops
  <2>2. Exclusive(holder) => ac_snoop_o \in {"CLEAN_INVALID", "READ_UNIQUE"}
    <3>1. state_q = "SEND_READ" /\ Exclusive(holder) => holder.kind = "ReadUnique"
      BY <1>1, KindsAssumption
         DEF IndInv, InvRequest, Exclusive, Lock, AllReadKinds, AllWriteKinds
    <3>2. QED
      BY <3>1 DEF ac_snoop_o, SnoopOf
  <2>3. ASSUME NEW p \in Ports, snp'[p] = "LOOKUP"
        PROVE  ac_snoop_q'[p] = ac_snoop_o \/ (snp[p] = "LOOKUP" /\ ac_snoop_q'[p] = ac_snoop_q[p])
    BY <1>2, <2>3 DEF PortStep, IndInv, TypeOK, SnpStates
  <2>4. ASSUME Exclusive(holder), NEW x \in looked_up'
        PROVE  x[2] \in {"CLEAN_INVALID", "READ_UNIQUE"}
    BY <1>1, <1>2, <2>4 DEF IndInv, InvEffect, LookUps
  <2>5. QED
    BY <1>1, <2>1, <2>2, <2>3, <2>4 DEF IndInv, InvEffect
<1>12. InvHistory'
  BY <1>1, <1>2 DEF IndInv, InvHistory, Acted, MemIdle
<1>13. QED
  BY <1>4, <1>5, <1>6, <1>7, <1>8, <1>9, <1>10, <1>11, <1>12 DEF IndInv

\* The CRs of one cycle, as seen by each port.
LEMMA CrStep ==
  ASSUME TypeOK, HoldCr, state_q \in WaitStates
  PROVE  \A p \in Ports :
           LET in == p \notin cr_valid /\ snp[p] = "SEND_CR_RESP" IN
           /\ p \in cr_valid' <=> p \in cr_valid \/ in
           /\ p \in data_available' <=>
                IF in THEN cr_resp[p].data = 1 ELSE p \in data_available
           /\ p \in dirty' <=> IF in THEN cr_resp[p].dirty = 1 ELSE p \in dirty
  BY DEF HoldCr, crFire, cr_ready_o

\* The WAIT states: each CR moves its port to CD or back to idle; the first
\* one with data becomes the first responder.
LEMMA WaitStep ==
  ASSUME IndInv, WaitInvalidR \/ WaitRespR \/ WaitInvalidW
  PROVE  IndInv'
<1>1. /\ state_q \in WaitStates
      /\ UNCHANGED <<initiator_q, prio, holder, mem, wbeats, bsent>>
  BY DEF WaitInvalidR, WaitRespR, WaitInvalidW, WaitResp, Goto
<1>2. \/ state_q' = state_q /\ state_q' \in WaitStates /\ rbeats' = rbeats
      \/ /\ cr_valid = Ports /\ data_available # {}
         /\ \/ state_q = "WAIT_INVALID_R" /\ state_q' = "SEND_AXI_REQ_WRITE_BACK_R"
            \/ state_q = "WAIT_INVALID_W" /\ state_q' = "SEND_AXI_REQ_WRITE_BACK_W"
            \/ state_q = "WAIT_RESP_R" /\ state_q' = "READ_SNP_DATA"
      \/ /\ cr_valid = Ports /\ data_available = {}
         /\ state_q' \in {"IDLE", "SEND_AXI_REQ_R", "SEND_AXI_REQ_W"}
         /\ state_q' = "SEND_AXI_REQ_R" => state_q # "WAIT_INVALID_W"
  <2>1. CASE WaitInvalidR
    <3>1. PICK rr \in RReady :
            /\ state_q = "WAIT_INVALID_R"
            /\ Goto(IF cr_valid # Ports \/ (rr = 0 /\ ~Lock(holder)) THEN "WAIT_INVALID_R"
                    ELSE IF data_available # {} THEN "SEND_AXI_REQ_WRITE_BACK_R"
                    ELSE IF Lock(holder) THEN "SEND_AXI_REQ_R" ELSE "IDLE")
            /\ Edge(IF r_valid_o THEN rr ELSE 0, r_o, 0)
      BY <2>1 DEF WaitInvalidR
    <3>2. state_q' = "WAIT_INVALID_R" => rbeats' = rbeats
      BY <3>1 DEF Goto, Edge, RReady, r_valid_o
    <3>3. QED
      BY <3>1, <3>2 DEF Goto
  <2>2. CASE WaitRespR \/ WaitInvalidW
    BY <2>2, QuietEdgeFacts DEF WaitRespR, WaitInvalidW, WaitResp, Goto
  <2>3. QED
    BY <2>1, <2>2
<1>3. PICK fire \in Bit : Edge(fire, r_o, 0)
  BY DEF WaitInvalidR, WaitRespR, WaitInvalidW, WaitResp, QuietEdge, RReady, Bit
<1>4. /\ EdgeTyped
      /\ LookUps
      /\ \A p \in Ports : PortStep(p)
      /\ OneOwner'
      /\ HoldCr /\ HoldCd(fire) /\ CountW(0)
  <2>1. r_o \in Beat /\ 0 \in Bit /\ fire + 0 = fire
    BY RBeatType DEF IndInv, Bit
  <2>2. QED
    BY <1>3, <2>1, EdgeFacts
<1>5. UNCHANGED <<cd_last, stored_cd_data, w_last>>
  BY <1>1, <1>4 DEF HoldCd, CountW
<1>6. \A p \in Ports :
        LET in == p \notin cr_valid /\ snp[p] = "SEND_CR_RESP" IN
        /\ p \in cr_valid' <=> p \in cr_valid \/ in
        /\ p \in data_available' <=>
             IF in THEN cr_resp[p].data = 1 ELSE p \in data_available
        /\ p \in dirty' <=> IF in THEN cr_resp[p].dirty = 1 ELSE p \in dirty
  BY <1>1, <1>4, CrStep DEF IndInv
<1>7. cr_valid = Ports => data_available' = data_available /\ dirty' = dirty
  BY <1>6, <1>4 DEF IndInv, TypeOK, EdgeTyped
<1>8. TypeOK'
  <2>1. state_q' \in States
    BY <1>1, <1>2
  <2>2. QED
    BY <1>1, <1>4, <2>1 DEF IndInv, TypeOK, EdgeTyped, LookUps
<1>9. InvRequest'
  BY <1>1, <1>2 DEF IndInv, InvRequest
<1>10. \A p \in Ports : InvPort(p)'
  <2> SUFFICES ASSUME NEW p \in Ports PROVE InvPort(p)'
    OBVIOUS
  <2>1. snp'[p] # "SEND_CR_RESP" => cr_resp'[p] = NoResp
    BY <1>1, <1>4 DEF IndInv, InvPort, PortStep, cr_ready_o, TypeOK, SnpStates
  <2>2. p \in initiator_q => snp'[p] = "IDLE"
    BY <1>1, <1>4 DEF IndInv, InvPort, PortStep, ac_valid_o
  <2>3. snp'[p] \in IF p \notin cr_valid' THEN {"LOOKUP", "SEND_CR_RESP"}
                    ELSE IF p \in data_available' THEN {"SEND_CD_0"} ELSE {"IDLE"}
    BY <1>1, <1>4, <1>6 DEF IndInv, InvPort, PortStep, ac_valid_o, cr_ready_o, cd_ready_o, InvRegs
  <2>4. cr_valid = Ports => p \in cr_valid'
    BY <1>6
  <2>5. QED
    BY <1>1, <1>2, <1>5, <1>7, <2>1, <2>2, <2>3, <2>4 DEF InvPort, IndInv, InvRegs
<1>11. InvRegs'
  <2>1. IF data_available' = {} THEN first_responder' = None
                                ELSE first_responder' \in data_available'
    <3> DEFINE withData == {p \in crFire : cr_resp[p].data = 1}
    <3>1. /\ data_available' = (data_available \ crFire) \cup withData
          /\ IF first_responder = None /\ withData # {}
             THEN first_responder' \in withData ELSE UNCHANGED first_responder
      BY <1>1, <1>4 DEF HoldCr
    <3>2. data_available \cap crFire = {}
      BY <1>1 DEF IndInv, InvRegs, crFire, cr_ready_o
    <3>3. None \notin Ports /\ data_available \in SUBSET Ports
      BY KindsAssumption DEF IndInv, TypeOK
    <3>4. IF data_available = {} THEN first_responder = None
                                 ELSE first_responder \in data_available
      BY <1>1 DEF IndInv, InvRegs
    <3>5. QED
      BY <3>1, <3>2, <3>3, <3>4
  <2>2. /\ initiator_q \subseteq cr_valid' /\ data_available' \subseteq cr_valid'
        /\ data_available' \cap initiator_q = {}
    BY <1>1, <1>4, <1>6 DEF IndInv, InvRegs, InvPort, TypeOK, EdgeTyped
  <2>3. QED
    BY <1>1, <1>2, <1>5, <1>7, <2>1, <2>2 DEF IndInv, InvRegs
<1>12. InvOwner'
  <2>1. state_q' \in InvalStates => state_q \in InvalStates
    BY <1>1, <1>2
  <2>2. ASSUME state_q \in InvalStates, NEW p \in Ports
        PROVE  /\ cr_resp'[p].data = cr_resp'[p].dirty
               /\ snp'[p] = "LOOKUP" => ac_snoop_q'[p] = "CLEAN_INVALID"
    <3>1. /\ snp[p] \in SnpStates
          /\ cr_resp[p].data = cr_resp[p].dirty
          /\ snp[p] = "LOOKUP" => ac_snoop_q[p] = "CLEAN_INVALID"
      BY <2>2 DEF IndInv, InvOwner, TypeOK
    <3>2. p \in ac_valid_o => ac_snoop_o = "CLEAN_INVALID"
      BY <1>1, <2>2 DEF ac_snoop_o, ac_valid_o
    <3>3. PortStep(p)
      BY <1>4
    <3>4. QED
      BY <3>1, <3>2, <3>3, InvalidatingPort
  <2>3. ASSUME state_q \in InvalStates PROVE data_available' = dirty'
    <3>1. \A p \in Ports : cr_resp[p].data = cr_resp[p].dirty
      BY <2>3 DEF IndInv, InvOwner
    <3>2. data_available = dirty
      BY <2>3 DEF IndInv, InvOwner
    <3>3. \A p \in Ports : p \in data_available' <=> p \in dirty'
      BY <1>6, <3>1, <3>2
    <3>4. data_available' \subseteq Ports /\ dirty' \subseteq Ports
      BY <1>4 DEF EdgeTyped
    <3>5. QED
      BY <3>3, <3>4
  <2>4. QED
    BY <1>4, <2>1, <2>2, <2>3 DEF InvOwner
<1>13. InvMem'
  BY <1>1, <1>2 DEF IndInv, InvMem, MemIdle
<1>14. \A p \in Ports : InvLookedUp(p)'
  BY <1>1, <1>2, <1>4, <1>10 DEF IndInv, InvLookedUp, InvPort, PortStep, InvEffect, ac_valid_o
<1>15. InvEffect'
  <2>1. ASSUME NEW p \in Ports, snp'[p] = "LOOKUP"
        PROVE  snp[p] = "LOOKUP" /\ ac_snoop_q'[p] = ac_snoop_q[p]
    BY <1>1, <1>4, <2>1 DEF PortStep, IndInv, TypeOK, SnpStates, ac_valid_o
  <2>2. ASSUME Exclusive(holder), NEW x \in looked_up'
        PROVE  x[2] \in {"CLEAN_INVALID", "READ_UNIQUE"}
    BY <1>1, <1>4, <2>2 DEF IndInv, InvEffect, LookUps
  <2>3. QED
    BY <1>1, <2>1, <2>2 DEF IndInv, InvEffect
<1>16. InvHistory'
  BY <1>1, <1>2 DEF IndInv, InvHistory, Acted, MemIdle
<1>17. QED
  BY <1>8, <1>9, <1>10, <1>11, <1>12, <1>13, <1>14, <1>15, <1>16 DEF IndInv

\* Once every CR is in, no port looks anything up any more: the record of
\* lookups and the CR registers are final.
LEMMA AfterCr ==
  ASSUME IndInv,
         state_q \in AwWbStates \cup DataStates \cup MemStates,
         \A p \in Ports : PortStep(p), LookUps, HoldCr, EdgeTyped
  PROVE  /\ \A p \in Ports : snp'[p] \notin {"LOOKUP", "SEND_CR_RESP"} /\ cr_resp'[p] = NoResp
         /\ \A p \in Ports : snp[p] = "IDLE" => snp'[p] = "IDLE"
         /\ looked_up' = looked_up
         /\ UNCHANGED <<data_available, dirty, first_responder>>
<1>1. \A p \in Ports : snp[p] \in {"IDLE", "SEND_CD_0", "SEND_CD_1"} /\ cr_resp[p] = NoResp
  BY DEF IndInv, InvPort
<1>2. /\ \A p \in Ports : snp'[p] \notin {"LOOKUP", "SEND_CR_RESP"} /\ cr_resp'[p] = NoResp
      /\ \A p \in Ports : snp[p] = "IDLE" => snp'[p] = "IDLE"
  BY <1>1 DEF PortStep, ac_valid_o
<1>3. crFire = {}
  BY DEF crFire, cr_ready_o
<1>4. UNCHANGED <<data_available, dirty, first_responder>>
  BY <1>3 DEF HoldCr
<1>5. looked_up' \subseteq looked_up
  BY <1>1 DEF LookUps
<1>6. looked_up \subseteq looked_up'
  <2>1. ASSUME NEW p \in Ports, NEW s \in AcSnoops, <<p, s>> \in looked_up
        PROVE  <<p, s>> \in looked_up'
    BY <2>1 DEF PortStep
  <2>2. QED
    BY <2>1 DEF IndInv, TypeOK
<1>7. QED
  BY <1>2, <1>4, <1>5, <1>6

\* The conjuncts about the snoop phase carry over to any later state.
LEMMA SnoopPhaseKept ==
  ASSUME IndInv,
         state_q \in AwWbStates \cup DataStates \cup MemStates,
         state_q' \in {"IDLE"} \cup AwWbStates \cup DataStates \cup MemStates,
         UNCHANGED <<initiator_q, holder>>,
         \A p \in Ports : snp'[p] \notin {"LOOKUP", "SEND_CR_RESP"},
         looked_up' = looked_up
  PROVE  (\A p \in Ports : InvLookedUp(p)') /\ InvEffect' /\ InvHistory'
<1>1. \A p \in Ports : snp[p] # "LOOKUP"
  BY DEF IndInv, InvPort
<1>2. \A p \in Ports : InvLookedUp(p)'
  BY <1>1 DEF IndInv, InvLookedUp
<1>3. InvEffect' /\ InvHistory'
  BY DEF IndInv, InvEffect, InvHistory
<1>4. QED
  BY <1>2, <1>3

\* Address phases towards memory.
LEMMA SendAxiStep ==
  ASSUME IndInv,
         SendAxiReqWriteBackR \/ SendAxiReqWriteBackW \/ SendAxiReqW \/ SendAxiReqR
  PROVE  IndInv'
<1>1. /\ UNCHANGED <<initiator_q, prio, holder, wbeats, bsent>>
      /\ QuietEdge
  BY DEF SendAxiReqWriteBackR, SendAxiReqWriteBackW, SendAxiReqW, SendAxiReqR, SendAxiAw, Goto
<1>2. /\ state_q \in AwWbStates \cup {"SEND_AXI_REQ_R", "SEND_AXI_REQ_W"}
      /\ \/ state_q' = state_q /\ mem' = mem
         \/ /\ state_q = "SEND_AXI_REQ_WRITE_BACK_R" /\ state_q' = "WRITE_BACK_MEM_R"
            /\ mem' = [wr |-> "data", rd |-> 0]
         \/ /\ state_q = "SEND_AXI_REQ_WRITE_BACK_W" /\ state_q' = "WRITE_BACK_MEM_W"
            /\ mem' = [wr |-> "data", rd |-> 0]
         \/ /\ state_q = "SEND_AXI_REQ_W" /\ state_q' = "WRITE_MEM"
            /\ mem' = [wr |-> "data", rd |-> IF Atop5(holder) THEN 1 ELSE 0]
         \/ /\ state_q = "SEND_AXI_REQ_R" /\ state_q' = "READ_MEM"
            /\ mem' = [mem EXCEPT !.rd = IF Single(holder) THEN 1 ELSE 2]
  BY DEF SendAxiReqWriteBackR, SendAxiReqWriteBackW, SendAxiReqW, SendAxiReqR, SendAxiAw, Goto
<1>3. /\ EdgeTyped /\ LookUps /\ OneOwner'
      /\ \A p \in Ports : PortStep(p)
      /\ HoldCr /\ HoldCd(0) /\ CountW(0)
      /\ rbeats' = rbeats
  BY <1>1, <1>2, QuietEdgeFacts
<1>4. /\ \A p \in Ports : snp'[p] \notin {"LOOKUP", "SEND_CR_RESP"} /\ cr_resp'[p] = NoResp
      /\ \A p \in Ports : snp[p] = "IDLE" => snp'[p] = "IDLE"
      /\ looked_up' = looked_up
      /\ UNCHANGED <<data_available, dirty, first_responder>>
  BY <1>2, <1>3, AfterCr
<1>5. UNCHANGED <<cd_last, stored_cd_data, w_last>>
  BY <1>2, <1>3 DEF HoldCd, CountW
<1>6. \A p \in Ports : snp'[p] = snp[p]
  BY <1>2, <1>3, <1>4 DEF IndInv, InvPort, PortStep, cd_ready_o
<1>7. TypeOK'
  <2>1. state_q' \in States
    BY <1>2
  <2>2. mem' \in [wr : {"none", "data", "resp"}, rd : 0..2]
    BY <1>2 DEF IndInv, TypeOK
  <2>3. QED
    BY <1>1, <1>3, <2>1, <2>2 DEF IndInv, TypeOK, EdgeTyped, LookUps
<1>8. InvRequest'
  BY <1>1, <1>2 DEF IndInv, InvRequest
<1>9. \A p \in Ports : InvPort(p)'
  BY <1>1, <1>2, <1>4, <1>5, <1>6 DEF IndInv, InvPort, InvRegs
<1>10. InvRegs'
  BY <1>1, <1>2, <1>4, <1>5 DEF IndInv, InvRegs
<1>11. InvOwner'
  BY <1>2, <1>3, <1>4 DEF IndInv, InvOwner, NoResp
<1>12. InvMem'
  <2>1. CASE state_q \in AwWbStates
    <3>1. first_responder \in Ports /\ snp'[first_responder] = "SEND_CD_0"
      BY <2>1, <1>6 DEF IndInv, InvRegs, InvPort, TypeOK
    <3>2. w_last' = 0 /\ stored_cd_data' = 0
      BY <2>1, <1>5 DEF IndInv, InvRegs
    <3>3. QED
      BY <1>2, <1>4, <2>1, <3>1, <3>2 DEF IndInv, InvMem, MemIdle
  <2>2. CASE state_q \in {"SEND_AXI_REQ_R", "SEND_AXI_REQ_W"}
    BY <1>1, <1>2, <2>2 DEF IndInv, InvMem, MemIdle, Atop5
  <2>3. QED
    BY <1>2, <2>1, <2>2
<1>13. (\A p \in Ports : InvLookedUp(p)') /\ InvEffect' /\ InvHistory'
  <2>1. /\ state_q \in AwWbStates \cup DataStates \cup MemStates
        /\ state_q' \in {"IDLE"} \cup AwWbStates \cup DataStates \cup MemStates
    BY <1>2
  <2>2. QED
    BY <1>1, <1>4, <2>1, SnoopPhaseKept
<1>14. QED
  BY <1>7, <1>8, <1>9, <1>10, <1>11, <1>12, <1>13 DEF IndInv

\* The phases in which memory's R, or the initiator's W and memory's B, pass
\* through: all ports are idle.
LEMMA PassThroughStep == ASSUME IndInv, ReadMem \/ WriteMem PROVE IndInv'
<1>1. PICK rFire \in Bit, wFire \in Bit, beat \in Beat : Edge(rFire, beat, wFire)
  <2>1. CASE ReadMem
    <3>1. PICK rFire \in Bit :
            Edge(rFire,
                 [src |-> Mem, last |-> IF mem.rd = 1 THEN 1 ELSE 0, shared |-> 0, dirty |-> 0,
                  word |-> IF Single(holder) THEN Offset(holder)
                           ELSE IF mem.rd = 1 THEN 1 ELSE 0], 0)
      BY <2>1 DEF ReadMem
    <3>2. [src |-> Mem, last |-> IF mem.rd = 1 THEN 1 ELSE 0, shared |-> 0, dirty |-> 0,
           word |-> IF Single(holder) THEN Offset(holder)
                    ELSE IF mem.rd = 1 THEN 1 ELSE 0] \in Beat
      BY DEF Beat, Bit, Offset
    <3>3. QED
      BY <3>1, <3>2 DEF Bit
  <2>2. CASE WriteMem
    <3>1. r_o \in Beat
      BY RBeatType DEF IndInv
    <3>2. QED
      BY <2>2, <3>1 DEF WriteMem, Bit
  <2>3. QED
    BY <2>1, <2>2
<1>2. /\ state_q \in {"READ_MEM", "WRITE_MEM"}
      /\ UNCHANGED <<initiator_q, prio, holder, wbeats>>
      /\ bsent' \in Bit
      /\ mem' \in [wr : {"none", "data", "resp"}, rd : 0..2]
  <2>1. mem \in [wr : {"none", "data", "resp"}, rd : 0..2] /\ bsent \in Bit
    BY DEF IndInv, TypeOK
  <2>2. CASE ReadMem
    BY <2>1, <2>2 DEF ReadMem, Goto, Bit
  <2>3. CASE WriteMem
    BY <2>1, <2>3 DEF WriteMem, Goto, Bit
  <2>4. QED
    BY <2>2, <2>3
<1>3. \/ state_q' = state_q /\ mem'.wr = mem.wr /\ state_q = "READ_MEM"
      \/ state_q' = state_q /\ mem'.rd = mem.rd /\ state_q = "WRITE_MEM"
      \/ state_q = "WRITE_MEM" /\ state_q' = "READ_MEM" /\ mem'.wr = "none"
      \/ state_q' = "IDLE" /\ mem'.wr = "none" /\ mem'.rd = 0
  <2>1. mem \in [wr : {"none", "data", "resp"}, rd : 0..2]
    BY DEF IndInv, TypeOK
  <2>2. CASE ReadMem
    BY <2>1, <2>2 DEF ReadMem, Goto, Bit, IndInv, InvMem
  <2>3. CASE WriteMem
    BY <2>1, <2>3 DEF WriteMem, Goto, Bit, IndInv, InvMem, Atop5
  <2>4. QED
    BY <2>2, <2>3
<1>4. /\ EdgeTyped /\ LookUps /\ OneOwner' /\ HoldCr
      /\ \A p \in Ports : PortStep(p)
  BY <1>1, EdgeFacts
<1>5. /\ \A p \in Ports : snp'[p] \notin {"LOOKUP", "SEND_CR_RESP"} /\ cr_resp'[p] = NoResp
      /\ \A p \in Ports : snp[p] = "IDLE" => snp'[p] = "IDLE"
      /\ looked_up' = looked_up
      /\ UNCHANGED <<data_available, dirty, first_responder>>
  BY <1>2, <1>4, AfterCr
<1>6. \A p \in Ports : snp'[p] = "IDLE"
  BY <1>2, <1>5 DEF IndInv, InvPort
<1>7. TypeOK'
  <2>1. state_q' \in States
    BY <1>2, <1>3
  <2>2. QED
    BY <1>2, <1>4, <2>1 DEF IndInv, TypeOK, EdgeTyped, LookUps
<1>8. InvRequest'
  BY <1>2, <1>3 DEF IndInv, InvRequest
<1>9. \A p \in Ports : InvPort(p)'
  BY <1>2, <1>3, <1>5, <1>6 DEF InvPort
<1>10. InvRegs'
  BY <1>2, <1>3, <1>5 DEF IndInv, InvRegs
<1>11. InvOwner'
  BY <1>2, <1>3, <1>4 DEF InvOwner
<1>12. InvMem'
  BY <1>2, <1>3 DEF IndInv, InvMem, MemIdle
<1>13. (\A p \in Ports : InvLookedUp(p)') /\ InvEffect' /\ InvHistory'
  <2>1. state_q' \in {"IDLE"} \cup AwWbStates \cup DataStates \cup MemStates
    BY <1>2, <1>3
  <2>2. QED
    BY <1>2, <1>5, <2>1, SnoopPhaseKept
<1>14. QED
  BY <1>7, <1>8, <1>9, <1>10, <1>11, <1>12, <1>13 DEF IndInv

\* The CD beats of one cycle, as seen by each port with data.
LEMMA CdStep ==
  ASSUME IndInv, state_q \in DataStates, NEW pop, HoldCd(pop),
         \A p \in Ports : PortStep(p)
  PROVE  \A p \in Ports :
           /\ p \in cd_last' <=>
                p \in cd_last \/ (p \in data_available /\ snp[p] = "SEND_CD_1")
           /\ snp[p] = "SEND_CD_0" => snp'[p] = "SEND_CD_1"
           /\ snp[p] = "SEND_CD_1" => snp'[p] = "IDLE"
           /\ snp[p] = "IDLE" => snp'[p] = "IDLE"
<1>1. cd_last' = cd_last \cup {p \in data_available \cap cd_valid_i : CdLast(p) = 1}
  BY DEF HoldCd
<1>2. \A p \in Ports : p \in cd_last' <=>
        p \in cd_last \/ (p \in data_available /\ snp[p] = "SEND_CD_1")
  BY <1>1 DEF CdLast, cd_valid_i
<1>3. \A p \in Ports : snp[p] \in {"SEND_CD_0", "SEND_CD_1"} => p \in cd_ready_o
  BY DEF IndInv, InvPort, cd_ready_o
<1>4. QED
  BY <1>2, <1>3 DEF PortStep, ac_valid_o

\* Snoop data goes to the initiator: the FSM leaves only when every port with
\* data has sent its last beat.
LEMMA ReadSnpDataStep == ASSUME IndInv, ReadSnpData PROVE IndInv'
<1>1. PICK rr \in RReady :
        /\ state_q = "READ_SNP_DATA"
        /\ Goto(IF cd_last = data_available /\ (r_eot = 1 \/ (rr = 1 /\ r_last = 1))
                THEN "IDLE" ELSE "READ_SNP_DATA")
        /\ Edge(IF r_valid_o THEN rr ELSE 0, r_o, 0)
        /\ UNCHANGED <<mem, wbeats, bsent>>
  BY DEF ReadSnpData
<1>2. /\ state_q = "READ_SNP_DATA"
      /\ \/ state_q' = "READ_SNP_DATA"
         \/ state_q' = "IDLE" /\ cd_last = data_available
      /\ UNCHANGED <<initiator_q, prio, holder, mem, wbeats, bsent>>
  BY <1>1 DEF Goto
<1>3. PICK fire \in Bit : Edge(fire, r_o, 0)
  BY <1>1 DEF RReady, Bit
<1>4. /\ EdgeTyped /\ LookUps /\ OneOwner' /\ HoldCr /\ HoldCd(fire)
      /\ \A p \in Ports : PortStep(p)
  <2>1. r_o \in Beat /\ 0 \in Bit /\ fire + 0 = fire
    BY RBeatType DEF IndInv, Bit
  <2>2. QED
    BY <1>3, <2>1, EdgeFacts
<1>5. /\ \A p \in Ports : snp'[p] \notin {"LOOKUP", "SEND_CR_RESP"} /\ cr_resp'[p] = NoResp
      /\ looked_up' = looked_up
      /\ UNCHANGED <<data_available, dirty, first_responder>>
  BY <1>2, <1>4, AfterCr
<1>6. \A p \in Ports :
        /\ p \in cd_last' <=>
             p \in cd_last \/ (p \in data_available /\ snp[p] = "SEND_CD_1")
        /\ snp[p] = "SEND_CD_0" => snp'[p] = "SEND_CD_1"
        /\ snp[p] = "SEND_CD_1" => snp'[p] = "IDLE"
        /\ snp[p] = "IDLE" => snp'[p] = "IDLE"
  BY <1>2, <1>4, CdStep
<1>7. TypeOK'
  <2>1. state_q' \in States
    BY <1>2
  <2>2. QED
    BY <1>2, <1>4, <2>1 DEF IndInv, TypeOK, EdgeTyped, LookUps
<1>8. InvRequest'
  BY <1>2 DEF IndInv, InvRequest
<1>9. \A p \in Ports : InvPort(p)'
  BY <1>2, <1>5, <1>6 DEF IndInv, InvPort
<1>10. InvRegs'
  BY <1>2, <1>5 DEF IndInv, InvRegs
<1>11. InvOwner'
  BY <1>2, <1>4 DEF InvOwner
<1>12. InvMem'
  BY <1>2 DEF IndInv, InvMem, MemIdle
<1>13. (\A p \in Ports : InvLookedUp(p)') /\ InvEffect' /\ InvHistory'
  BY <1>2, <1>5, SnoopPhaseKept
<1>14. QED
  BY <1>7, <1>8, <1>9, <1>10, <1>11, <1>12, <1>13 DEF IndInv

\* Snoop data goes to memory: B comes after both words were forwarded, so the
\* only responder has sent both and is idle again.
LEMMA WriteBackStep == ASSUME IndInv, WriteBackMemR \/ WriteBackMemW PROVE IndInv'
<1>1. PICK from \in WbStates, to \in {"IDLE", "SEND_AXI_REQ_R", "SEND_AXI_REQ_W"} :
        WriteBackMem(from, to) /\ (from = "WRITE_BACK_MEM_W" => to = "SEND_AXI_REQ_W")
                               /\ (from = "WRITE_BACK_MEM_R" => to # "SEND_AXI_REQ_W")
  BY DEF WriteBackMemR, WriteBackMemW
<1>2. PICK wFire \in Bit, bFire \in Bit :
        /\ state_q = from
        /\ wFire = 1 => w_valid_o /\ mem.wr = "data"
        /\ bFire = 1 => mem.wr = "resp"
        /\ Goto(IF bFire = 1 THEN to ELSE from)
        /\ mem' = [mem EXCEPT !.wr = IF bFire = 1 THEN "none"
                                     ELSE IF wFire = 1 /\ w_last = 1 THEN "resp" ELSE mem.wr]
        /\ wbeats' = IF wFire = 1 THEN Append(wbeats, w_o) ELSE wbeats
        /\ Edge(0, r_o, wFire)
        /\ UNCHANGED bsent
  BY <1>1 DEF WriteBackMem
<1>3. /\ state_q \in WbStates
      /\ UNCHANGED <<initiator_q, prio, holder, bsent>>
      /\ bFire = 0 => state_q' = state_q
      /\ bFire = 1 => state_q' \in {"IDLE", "SEND_AXI_REQ_R", "SEND_AXI_REQ_W"}
      /\ state_q' = "SEND_AXI_REQ_R" => state_q = "WRITE_BACK_MEM_R"
  BY <1>1, <1>2 DEF Goto, Bit
<1>4. /\ EdgeTyped /\ LookUps /\ OneOwner' /\ HoldCr /\ HoldCd(wFire) /\ CountW(wFire)
      /\ \A p \in Ports : PortStep(p)
  <2>1. r_o \in Beat /\ 0 \in Bit /\ 0 + wFire = wFire
    BY RBeatType DEF IndInv, Bit
  <2>2. QED
    BY <1>2, <2>1, EdgeFacts
<1>5. /\ \A p \in Ports : snp'[p] \notin {"LOOKUP", "SEND_CR_RESP"} /\ cr_resp'[p] = NoResp
      /\ looked_up' = looked_up
      /\ UNCHANGED <<data_available, dirty, first_responder>>
  BY <1>3, <1>4, AfterCr
<1>6. \A p \in Ports :
        /\ p \in cd_last' <=>
             p \in cd_last \/ (p \in data_available /\ snp[p] = "SEND_CD_1")
        /\ snp[p] = "SEND_CD_0" => snp'[p] = "SEND_CD_1"
        /\ snp[p] = "SEND_CD_1" => snp'[p] = "IDLE"
        /\ snp[p] = "IDLE" => snp'[p] = "IDLE"
  BY <1>3, <1>4, CdStep
<1>7. mem \in [wr : {"none", "data", "resp"}, rd : 0..2]
  BY DEF IndInv, TypeOK
<1>8. TypeOK'
  <2>1. state_q' \in States
    BY <1>3 DEF Bit
  <2>2. mem' \in [wr : {"none", "data", "resp"}, rd : 0..2]
    BY <1>2, <1>7
  <2>3. wbeats' \in Seq(Word \X Bit)
    <3>1. wbeats \in Seq(Word \X Bit) /\ w_o \in Word \X Bit
      BY WBeatType DEF IndInv, TypeOK
    <3>2. QED
      BY <1>2, <3>1
  <2>4. QED
    BY <1>3, <1>4, <2>1, <2>2, <2>3 DEF IndInv, TypeOK, EdgeTyped, LookUps
<1>9. InvRequest'
  BY <1>3 DEF IndInv, InvRequest, Bit
<1>10. /\ first_responder \in Ports
       /\ \A p \in Ports : p # first_responder => snp[p] = "IDLE"
       /\ snp[first_responder] \in {"SEND_CD_0", "SEND_CD_1", "IDLE"}
       /\ first_responder \in data_available
  <2>1. first_responder \in data_available /\ first_responder \in Ports
    BY <1>3 DEF IndInv, InvRegs, TypeOK
  <2>2. \A p \in data_available : p = first_responder
    BY <1>3, <2>1 DEF IndInv, InvOwner, OneOwner
  <2>3. QED
    BY <1>3, <2>1, <2>2 DEF IndInv, InvPort
<1>11. bFire = 1 => \A p \in Ports : snp'[p] = "IDLE"
  <2>1. bFire = 1 => snp[first_responder] = "IDLE"
    BY <1>2, <1>3, <1>10 DEF IndInv, InvMem, TypeOK
  <2>2. QED
    BY <1>6, <1>10, <2>1
<1>12. \A p \in Ports : InvPort(p)'
  BY <1>3, <1>5, <1>6, <1>11 DEF IndInv, InvPort, Bit
<1>13. InvRegs'
  BY <1>3, <1>5 DEF IndInv, InvRegs, Bit
<1>14. InvOwner'
  BY <1>3, <1>4, <1>5 DEF IndInv, InvOwner, NoResp, Bit
<1>15. InvMem'
  <2>1. CASE bFire = 1
    BY <1>2, <1>3, <1>7, <2>1 DEF IndInv, InvMem, MemIdle
  <2>2. CASE bFire = 0
    <3> DEFINE push == IF snp[first_responder] \in {"SEND_CD_0", "SEND_CD_1"} THEN 1 ELSE 0
    <3>1. first_responder \in cdFire <=> snp[first_responder] \in {"SEND_CD_0", "SEND_CD_1"}
      BY <1>3, <1>10 DEF cdFire, cd_valid_i, cd_ready_o, IndInv, InvPort
    <3>2. stored_cd_data' = (stored_cd_data + push + 4 - wFire) % 4
      BY <1>3, <1>4, <3>1 DEF HoldCd
    <3>3. w_last' = IF wFire = 1 THEN 1 - w_last ELSE w_last
      BY <1>3, <1>4 DEF CountW
    <3>4. wFire = 1 => stored_cd_data # 0 /\ mem.wr = "data"
      BY <1>2 DEF w_valid_o
    <3>5. /\ mem'.rd = mem.rd
          /\ mem'.wr = IF wFire = 1 /\ w_last = 1 THEN "resp" ELSE mem.wr
      BY <1>2, <1>7, <2>2
    <3>6. stored_cd_data \in 0..3 /\ w_last \in 0..1 /\ wFire \in 0..1
      BY DEF IndInv, TypeOK, Bit
    <3> DEFINE got(s)  == IF s[first_responder] = "SEND_CD_0" THEN 0
                          ELSE IF s[first_responder] = "SEND_CD_1" THEN 1 ELSE 2
    <3>7. /\ mem.rd = 0 /\ mem.wr # "none"
          /\ mem.wr = "resp" => w_last = 0
          /\ stored_cd_data + (IF mem.wr = "resp" THEN 2 ELSE w_last) = got(snp)
      BY <1>3 DEF IndInv, InvMem
    <3>8. got(snp') = got(snp) + push
      BY <1>6, <1>10
    <3>9. stored_cd_data' = stored_cd_data + push - wFire
      BY <3>2, <3>4, <3>6, <3>7
    <3>10. /\ mem'.wr = "resp" => w_last' = 0
           /\ stored_cd_data' + (IF mem'.wr = "resp" THEN 2 ELSE w_last') = got(snp')
      BY <3>3, <3>4, <3>5, <3>6, <3>7, <3>8, <3>9
    <3>11. first_responder' = first_responder
      BY <1>5
    <3>12. QED
      BY <1>3, <2>2, <3>5, <3>7, <3>10, <3>11 DEF InvMem
  <2>3. QED
    BY <2>1, <2>2 DEF Bit
<1>16. (\A p \in Ports : InvLookedUp(p)') /\ InvEffect' /\ InvHistory'
  <2>1. state_q' \in {"IDLE"} \cup AwWbStates \cup DataStates \cup MemStates
    BY <1>3 DEF Bit
  <2>2. QED
    BY <1>3, <1>5, <2>1, SnoopPhaseKept
<1>17. QED
  BY <1>8, <1>9, <1>12, <1>13, <1>14, <1>15, <1>16 DEF IndInv
-----------------------------------------------------------------------------
\* The initial state satisfies the invariant.
LEMMA InitInv == Init => IndInv
<1> SUFFICES ASSUME Init PROVE IndInv
  OBVIOUS
<1>1. TypeOK
  BY DEF Init, TypeOK, Bit, Word, NoWord, SnpStates, NoResp
<1>2. MemIdle /\ ~Acted
  BY DEF Init, MemIdle, Acted
<1>3. InvRequest /\ (\A p \in Ports : InvPort(p)) /\ InvRegs /\ InvOwner /\ InvMem
  BY <1>2 DEF Init, InvRequest, InvPort, InvRegs, InvOwner, OneOwner, InvMem, NoResp
<1>4. (\A p \in Ports : InvLookedUp(p)) /\ InvEffect /\ InvHistory
  BY <1>2 DEF Init, InvLookedUp, InvEffect, InvHistory
<1>5. QED
  BY <1>1, <1>3, <1>4 DEF IndInv

\* Every clock edge preserves the invariant.
LEMMA NextInv == IndInv /\ [Next]_vars => IndInv'
<1> SUFFICES ASSUME IndInv, [Next]_vars PROVE IndInv'
  OBVIOUS
<1>1. CASE IdleTakeAr \/ IdleTakeAw \/ IdleWait
  BY <1>1, IdleStep
<1>2. CASE DecodeR
  BY <1>2, DecodeRStep
<1>3. CASE DecodeW
  BY <1>3, DecodeWStep
<1>4. CASE SendInvalidR \/ SendRead \/ SendInvalidW
  BY <1>4, SendStep
<1>5. CASE WaitInvalidR \/ WaitRespR \/ WaitInvalidW
  BY <1>5, WaitStep
<1>6. CASE SendAxiReqWriteBackR \/ SendAxiReqWriteBackW \/ SendAxiReqW \/ SendAxiReqR
  BY <1>6, SendAxiStep
<1>7. CASE ReadMem \/ WriteMem
  BY <1>7, PassThroughStep
<1>8. CASE ReadSnpData
  BY <1>8, ReadSnpDataStep
<1>9. CASE WriteBackMemR \/ WriteBackMemW
  BY <1>9, WriteBackStep
<1>10. CASE UNCHANGED vars
  <2> USE <1>10 DEF vars, fsmVars, snpRegs, dataRegs, envVars, histVars
  <2>1. TypeOK'
    BY DEF IndInv, TypeOK
  <2>2. InvRequest' /\ InvRegs'
    BY DEF IndInv, InvRequest, InvRegs
  <2>3. \A p \in Ports : InvPort(p)'
    BY DEF IndInv, InvPort
  <2>4. InvOwner'
    BY DEF IndInv, InvOwner, OneOwner
  <2>5. InvMem'
    BY DEF IndInv, InvMem, MemIdle
  <2>6. (\A p \in Ports : InvLookedUp(p)') /\ InvEffect' /\ InvHistory'
    <3>1. Acted' <=> Acted
      BY DEF Acted, MemIdle
    <3>2. QED
      BY <3>1 DEF IndInv, InvLookedUp, InvEffect, InvHistory
  <2>7. QED
    BY <2>1, <2>2, <2>3, <2>4, <2>5, <2>6 DEF IndInv
<1>11. QED
  BY <1>1, <1>2, <1>3, <1>4, <1>5, <1>6, <1>7, <1>8, <1>9, <1>10 DEF Next

\* IndInv holds in every reachable state of the CCU, for any number of ports.
THEOREM Invariance == Spec => []IndInv
  BY InitInv, NextInv, PTL DEF Spec

\* Every register, interface and history variable keeps its type.
THEOREM TypeCorrect == Spec => []TypeOK
<1>1. IndInv => TypeOK
  BY DEF IndInv
<1>2. QED
  BY <1>1, Invariance, PTL

\* Whenever the FSM is idle, no snoop, read or write is left in flight.
THEOREM QuiescentAtIdleHolds == Spec => []QuiescentAtIdle
<1>1. IndInv => QuiescentAtIdle
  BY DEF IndInv, QuiescentAtIdle, InvPort, InvMem
<1>2. QED
  BY <1>1, Invariance, PTL

\* No response and no memory access before all other cores were snooped, and
\* invalidated if the request is for exclusive access.
THEOREM SnoopedBeforeResponseHolds == Spec => []SnoopedBeforeResponse
<1>1. IndInv => SnoopedBeforeResponse
  <2> SUFFICES ASSUME IndInv, Acted
               PROVE  /\ {x[1] : x \in looked_up} = Others
                      /\ Exclusive(holder) =>
                           \A x \in looked_up : x[2] \in {"CLEAN_INVALID", "READ_UNIQUE"}
    BY DEF SnoopedBeforeResponse
  <2>1. state_q \in {"IDLE"} \cup AwWbStates \cup DataStates \cup MemStates
    BY DEF IndInv, InvHistory, TypeOK
  <2>2. \A p \in Ports : (\E s \in AcSnoops : <<p, s>> \in looked_up) <=> p \notin initiator_q
    BY <2>1 DEF IndInv, InvLookedUp, InvPort
  <2>3. {x[1] : x \in looked_up} = Others
    <3>1. looked_up \in SUBSET (Ports \X AcSnoops)
      BY DEF IndInv, TypeOK
    <3>2. ASSUME NEW p \in Others PROVE p \in {x[1] : x \in looked_up}
      <4>1. PICK s \in AcSnoops : <<p, s>> \in looked_up
        BY <2>2 DEF Others
      <4>2. p = <<p, s>>[1]
        OBVIOUS
      <4>3. QED
        BY <4>1, <4>2
    <3>3. ASSUME NEW x \in looked_up PROVE x[1] \in Others
      <4>1. x[1] \in Ports /\ x[2] \in AcSnoops /\ x = <<x[1], x[2]>>
        BY <3>1
      <4>2. QED
        BY <2>2, <4>1 DEF Others
    <3>4. QED
      BY <3>2, <3>3
  <2>4. QED
    BY <2>3 DEF IndInv, InvEffect
<1>2. QED
  BY <1>1, Invariance, PTL
-----------------------------------------------------------------------------
(***************************************************************************)
(* The data that ccu_fsm.sv moves: the words in the CD buffer, the R beats *)
(* of the initiator and the W beats of the write-back.  DataInv is proved  *)
(* on top of IndInv.                                                       *)
(***************************************************************************)

USE DEF States, SendStates, WaitStates, WbStates, DataStates, DecodeStates,
        ReadStates, InvalStates, AwWbStates, MemStates, WriteStates, CleanStates

\* Appending a beat keeps the earlier ones.
LEMMA AppendFacts ==
  ASSUME NEW S, NEW s \in Seq(S), NEW e \in S
  PROVE  /\ Append(s, e) \in Seq(S)
         /\ Len(Append(s, e)) = Len(s) + 1
         /\ \A i \in 1 .. Len(s) : Append(s, e)[i] = s[i]
         /\ Append(s, e)[Len(s) + 1] = e
  OBVIOUS

\* Counting beats: at most two are due.
LEMMA BeatCount ==
  ASSUME NEW n \in Nat, NEW due \in {1, 2}, n <= due
  PROVE  /\ n # due => n < due /\ n \in {0, 1}
         /\ due = 2 /\ n + 1 = due => n = 1
  OBVIOUS

\* Read and write kinds are different.
LEMMA KindFacts ==
  /\ ReadKinds \cap WriteKinds = {}
  /\ "AtomicLoad" \notin ReadKinds /\ "WriteUnique" \notin ReadKinds
  /\ ReadKinds \subseteq AllReadKinds /\ WriteKinds \subseteq {"WriteUnique", "AtomicLoad"}
  BY KindsAssumption DEF AllReadKinds, AllWriteKinds

\* Every answer of a snoop controller that says dirty comes with data, and the
\* CR registers keep it that way.
LEMMA GivenStep ==
  ASSUME IndInv, DataInv, \A p \in Ports : PortStep(p), HoldCr, EdgeTyped
  PROVE  /\ \A p \in Ports : cr_resp'[p].dirty = 1 => cr_resp'[p].data = 1
         /\ state_q # "IDLE" => dirty' \subseteq data_available'
         /\ state_q = "IDLE" => dirty' = {}
<1>1. \A s : \A r \in CrResp(s) : r.dirty = 1 => r.data = 1
  BY DEF CrResp
<1>2. ASSUME NEW p \in Ports PROVE cr_resp'[p].dirty = 1 => cr_resp'[p].data = 1
  <2>1. cr_resp[p].dirty = 1 => cr_resp[p].data = 1
    BY DEF DataInv, InvGiven
  <2>2. snp[p] \in SnpStates
    BY DEF IndInv, TypeOK
  <2>3. \/ cr_resp'[p] = cr_resp[p]
        \/ cr_resp'[p] = NoResp
        \/ cr_resp'[p] \in CrResp(ac_snoop_q[p])
    BY <2>2 DEF PortStep, SnpStates
  <2>4. QED
    BY <1>1, <2>1, <2>3 DEF NoResp
<1>3. state_q # "IDLE" => dirty' \subseteq data_available'
  <2>1. state_q # "IDLE" => dirty \subseteq data_available
    BY DEF DataInv, InvGiven
  <2>2. \A p \in crFire : p \in Ports /\ (cr_resp[p].dirty = 1 => cr_resp[p].data = 1)
    BY DEF DataInv, InvGiven, crFire, cr_ready_o, IndInv, TypeOK
  <2>3. QED
    BY <2>1, <2>2 DEF HoldCr
<1>4. state_q = "IDLE" => dirty' = {}
  BY DEF HoldCr
<1>5. QED
  BY <1>2, <1>3, <1>4

\* IDLE clears the counters and the history.
LEMMA IdleData ==
  ASSUME IndInv, DataInv, IdleTakeAr \/ IdleTakeAw \/ IdleWait
  PROVE  DataInv'
<1>1. /\ state_q = "IDLE" /\ QuietEdge
      /\ \/ /\ state_q' = "DECODE_R"
         \/ /\ state_q' = "DECODE_W" /\ aw # None /\ holder' = aw
         \/ /\ state_q' = "IDLE"
  BY DEF IdleTakeAr, IdleTakeAw, IdleWait, TakeAw
<1>2. /\ EdgeTyped /\ HoldCr /\ (\A p \in Ports : PortStep(p))
      /\ rbeats' = <<>>
  BY <1>1, QuietEdgeFacts
<1>3. r_last' = 0 /\ r_eot' = 0
  BY <1>1 DEF QuietEdge, Edge, CountR
<1>4. InvKind'
  BY <1>1 DEF InvKind, IndInv, TypeOK, AwReq
<1>5. InvGiven'
  <2>1. /\ \A p \in Ports : cr_resp'[p].dirty = 1 => cr_resp'[p].data = 1
        /\ dirty' = {}
    BY <1>1, <1>2, GivenStep
  <2>2. QED
    BY <1>1, <2>1 DEF InvGiven
<1>6. InvBuffer' /\ InvRBeats' /\ InvWBeats'
  BY <1>1, <1>2, <1>3 DEF InvBuffer, InvRBeats, InvWBeats
<1>7. QED
  BY <1>4, <1>5, <1>6 DEF DataInv

\* DECODE and SEND only address the snoops; nothing is transferred.
LEMMA AddressData ==
  ASSUME IndInv, DataInv,
         DecodeR \/ DecodeW \/ SendInvalidR \/ SendRead \/ SendInvalidW
  PROVE  DataInv'
<1>1. /\ state_q \in DecodeStates \cup SendStates
      /\ state_q' \in SendStates \cup WaitStates
      /\ state_q' \in {"SEND_READ", "WAIT_RESP_R"} =>
           \/ state_q = "SEND_READ"
           \/ SnoopOf(holder) # "CLEAN_UNIQUE" /\ ~Lock(holder)
      /\ state_q' \in WriteStates => state_q \in WriteStates
      /\ UNCHANGED <<holder, wbeats, bsent>>
      /\ QuietEdge
  BY DEF DecodeR, DecodeW, SendInvalidR, SendRead, SendInvalidW, Send, Goto
<1>2. /\ EdgeTyped /\ HoldCr /\ (\A p \in Ports : PortStep(p))
      /\ rbeats' = rbeats
  BY <1>1, QuietEdgeFacts
<1>3. rbeats = <<>>
  BY <1>1 DEF IndInv, InvHistory, Acted
<1>4. r_last' = 0 /\ r_eot' = 0
  <2>1. r_last = 0 /\ r_eot = 0
    BY <1>1 DEF DataInv, InvRBeats
  <2>2. QED
    BY <1>1, <2>1 DEF QuietEdge, Edge, CountR
<1>5. InvKind'
  BY <1>1 DEF DataInv, InvKind, SnoopOf, Lock
<1>6. InvGiven'
  <2>1. /\ \A p \in Ports : cr_resp'[p].dirty = 1 => cr_resp'[p].data = 1
        /\ dirty' \subseteq data_available'
    BY <1>1, <1>2, GivenStep
  <2>2. QED
    BY <1>1, <2>1 DEF InvGiven
<1>7. InvBuffer' /\ InvRBeats' /\ InvWBeats'
  BY <1>1, <1>2, <1>3, <1>4 DEF InvBuffer, InvRBeats, InvWBeats
<1>8. QED
  BY <1>5, <1>6, <1>7 DEF DataInv

\* WAIT collects the CRs; a CleanUnique gets its only beat when they are in.
LEMMA WaitData ==
  ASSUME IndInv, IndInv', DataInv, WaitInvalidR \/ WaitRespR \/ WaitInvalidW
  PROVE  DataInv'
<1>1. PICK rr \in RReady, fire \in Bit :
        /\ state_q \in WaitStates
        /\ UNCHANGED <<holder, mem, wbeats, bsent>>
        /\ Edge(fire, r_o, 0)
        /\ \/ /\ state_q = "WAIT_INVALID_R"
              /\ fire = IF r_valid_o THEN rr ELSE 0
              /\ state_q' = IF cr_valid # Ports \/ (rr = 0 /\ ~Lock(holder)) THEN "WAIT_INVALID_R"
                            ELSE IF data_available # {} THEN "SEND_AXI_REQ_WRITE_BACK_R"
                            ELSE IF Lock(holder) THEN "SEND_AXI_REQ_R" ELSE "IDLE"
           \/ /\ state_q = "WAIT_RESP_R" /\ fire = 0
              /\ state_q' = IF cr_valid # Ports THEN "WAIT_RESP_R"
                            ELSE IF data_available # {} THEN "READ_SNP_DATA" ELSE "SEND_AXI_REQ_R"
           \/ /\ state_q = "WAIT_INVALID_W" /\ fire = 0
              /\ state_q' = IF cr_valid # Ports THEN "WAIT_INVALID_W"
                            ELSE IF data_available # {} THEN "SEND_AXI_REQ_WRITE_BACK_W"
                            ELSE "SEND_AXI_REQ_W"
  <2>1. RReady \subseteq Bit /\ 1 \in RReady
    BY DEF RReady, Bit
  <2>2. CASE WaitInvalidR
    BY <2>1, <2>2 DEF WaitInvalidR, Goto, Bit
  <2>3. CASE WaitRespR
    BY <2>1, <2>3 DEF WaitRespR, WaitResp, Goto, QuietEdge, Bit
  <2>4. CASE WaitInvalidW
    BY <2>1, <2>4 DEF WaitInvalidW, WaitResp, Goto, QuietEdge, Bit
  <2>5. QED
    BY <2>2, <2>3, <2>4
<1>2. /\ EdgeTyped /\ HoldCr /\ HoldCd(fire) /\ (\A p \in Ports : PortStep(p))
      /\ rbeats' = IF fire = 1 THEN Append(rbeats, r_o) ELSE rbeats
  <2>1. r_o \in Beat /\ 0 \in Bit /\ fire + 0 = fire
    BY RBeatType DEF IndInv, Bit
  <2>2. QED
    BY <1>1, <2>1, EdgeFacts
<1>3. rbeats = <<>> /\ wbeats = <<>>
  BY <1>1 DEF IndInv, InvHistory, Acted
<1>4. r_last = 0 /\ r_eot = 0 /\ stored_cd_data = 0
  BY <1>1 DEF DataInv, InvRBeats, IndInv, InvRegs
<1>5. fire = 1 => state_q = "WAIT_INVALID_R" /\ ~Lock(holder) /\ state_q' # "WAIT_INVALID_R"
  BY <1>1 DEF r_valid_o
<1>6. fire = 0 => r_last' = 0 /\ r_eot' = 0
  BY <1>1, <1>4 DEF Edge, CountR
<1>7. state_q = "WAIT_INVALID_R" /\ fire = 1 => rbeats' = <<CleanBeat>>
  BY <1>2, <1>3 DEF r_o, CleanBeat
<1>8. cr_valid = Ports => data_available' = data_available
  BY <1>1, <1>2 DEF HoldCr, crFire, cr_ready_o
<1>9. InvKind'
  BY <1>1, KindFacts DEF DataInv, InvKind, IndInv, InvRequest, Lock
<1>10. dirty' \subseteq data_available'
  BY <1>1, <1>2, GivenStep
<1>11. InvGiven'
  <2>1. \A p \in Ports : cr_resp'[p].dirty = 1 => cr_resp'[p].data = 1
    BY <1>1, <1>2, GivenStep
  <2>2. QED
    BY <1>1, <1>8, <1>10, <2>1 DEF InvGiven
<1>12. state_q' = "READ_SNP_DATA" => first_responder' \in data_available' /\ Got' = 0
  <2> SUFFICES ASSUME state_q' = "READ_SNP_DATA"
               PROVE  first_responder' \in data_available' /\ Got' = 0
    OBVIOUS
  <2>1. cr_valid = Ports /\ data_available' = data_available /\ data_available # {}
    BY <1>1, <1>8
  <2>2. first_responder' \in data_available'
    BY <2>1 DEF IndInv, InvRegs
  <2>3. first_responder' \in Ports
    BY <1>2, <2>2 DEF EdgeTyped
  <2>4. snp[first_responder'] = "SEND_CD_0"
    BY <1>1, <2>1, <2>2, <2>3 DEF IndInv, InvPort
  <2>5. snp'[first_responder'] = "SEND_CD_0"
    BY <1>1, <1>2, <2>3, <2>4 DEF PortStep, cd_ready_o
  <2>6. QED
    BY <2>2, <2>5 DEF Got
<1>13. InvBuffer'
  BY <1>1, <1>12 DEF InvBuffer, Bit
<1>14. InvRBeats'
  <2>1. CASE state_q = "WAIT_INVALID_R"
    BY <1>1, <1>2, <1>3, <1>5, <1>6, <1>7, <2>1 DEF InvRBeats, r_valid_o, Bit, RReady
  <2>2. CASE state_q = "WAIT_RESP_R"
    <3>1. fire = 0 /\ rbeats' = <<>> /\ r_last' = 0 /\ r_eot' = 0
      BY <1>1, <1>2, <1>3, <1>6, <2>2
    <3>2. stored_cd_data' = 0
      BY <1>2, <1>4, <2>2 DEF HoldCd
    <3>3. BeatsDue' \in {1, 2}
      BY DEF BeatsDue
    <3>4. QED
      BY <1>1, <1>12, <2>2, <3>1, <3>2, <3>3 DEF InvRBeats
  <2>3. CASE state_q = "WAIT_INVALID_W"
    BY <1>1, <1>2, <1>3, <1>6, <2>3 DEF InvRBeats
  <2>4. QED
    BY <1>1, <2>1, <2>2, <2>3
<1>15. InvWBeats'
  BY <1>1, <1>3, <1>8, <1>10 DEF InvWBeats
<1>16. QED
  BY <1>9, <1>11, <1>13, <1>14, <1>15 DEF DataInv

\* After the last CR, the CR registers and the answers waiting stay as they are.
LEMMA GivenKept ==
  ASSUME IndInv, state_q \in AwWbStates \cup DataStates \cup MemStates,
         \A p \in Ports : PortStep(p), LookUps, HoldCr, EdgeTyped
  PROVE  /\ UNCHANGED <<data_available, shared, dirty, first_responder>>
         /\ \A p \in Ports : cr_resp'[p] = NoResp
<1>1. crFire = {}
  BY DEF crFire, cr_ready_o
<1>2. shared' = shared
  BY <1>1 DEF HoldCr
<1>3. QED
  BY <1>2, AfterCr

\* The address phases move no data.
LEMMA SendAxiData ==
  ASSUME IndInv, DataInv,
         SendAxiReqWriteBackR \/ SendAxiReqWriteBackW \/ SendAxiReqW \/ SendAxiReqR
  PROVE  DataInv'
<1>1. /\ UNCHANGED <<holder, wbeats, bsent>>
      /\ QuietEdge
  BY DEF SendAxiReqWriteBackR, SendAxiReqWriteBackW, SendAxiReqW, SendAxiReqR, SendAxiAw, Goto
<1>2. /\ state_q \in AwWbStates \cup {"SEND_AXI_REQ_R", "SEND_AXI_REQ_W"}
      /\ \/ state_q' = state_q
         \/ state_q = "SEND_AXI_REQ_WRITE_BACK_R" /\ state_q' = "WRITE_BACK_MEM_R"
            /\ mem' = [wr |-> "data", rd |-> 0]
         \/ state_q = "SEND_AXI_REQ_WRITE_BACK_W" /\ state_q' = "WRITE_BACK_MEM_W"
            /\ mem' = [wr |-> "data", rd |-> 0]
         \/ state_q = "SEND_AXI_REQ_W" /\ state_q' = "WRITE_MEM"
         \/ state_q = "SEND_AXI_REQ_R" /\ state_q' = "READ_MEM"
            /\ mem' = [mem EXCEPT !.rd = BeatsDue]
  BY DEF SendAxiReqWriteBackR, SendAxiReqWriteBackW, SendAxiReqW, SendAxiReqR, SendAxiAw, Goto,
         BeatsDue
<1>3. /\ EdgeTyped /\ LookUps /\ HoldCr /\ CountW(0)
      /\ \A p \in Ports : PortStep(p)
      /\ rbeats' = rbeats
  BY <1>1, <1>2, QuietEdgeFacts
<1>4. /\ UNCHANGED <<data_available, shared, dirty, first_responder>>
      /\ \A p \in Ports : cr_resp'[p] = NoResp
  BY <1>2, <1>3, GivenKept
<1>5. InvKind'
  BY <1>1, <1>2 DEF DataInv, InvKind, IndInv, InvRequest
<1>6. InvGiven'
  BY <1>1, <1>2, <1>4 DEF DataInv, InvGiven, NoResp, Lock, Atop5
<1>7. InvBuffer'
  <2> SUFFICES ASSUME state_q' \in DataStates
               PROVE  first_responder' \in data_available' /\ Got' = 0
    BY DEF InvBuffer, Bit
  <2>1. first_responder \in data_available /\ first_responder \in Ports
    BY <1>2 DEF IndInv, InvRegs, TypeOK
  <2>2. snp[first_responder] = "SEND_CD_0"
    BY <1>2, <2>1 DEF IndInv, InvPort
  <2>3. snp'[first_responder] = "SEND_CD_0"
    BY <1>2, <1>3, <2>1, <2>2 DEF PortStep, cd_ready_o
  <2>4. QED
    BY <1>4, <2>1, <2>3 DEF Got
<1>8. InvRBeats'
  <2>1. CASE state_q' = "READ_MEM"
    <3>1. rbeats' = <<>> /\ holder.kind \in ReadKinds
      BY <1>2, <1>3, <2>1 DEF DataInv, InvRBeats, IndInv, InvRequest
    <3>2. mem'.rd = BeatsDue /\ BeatsDue' = BeatsDue /\ BeatsDue \in {1, 2}
      BY <1>1, <1>2, <2>1 DEF BeatsDue, IndInv, TypeOK
    <3>3. ~Atop5(holder')
      BY <1>1, <3>1, KindFacts DEF Atop5
    <3>4. QED
      BY <2>1, <3>1, <3>2, <3>3 DEF InvRBeats
  <2>2. CASE state_q' # "READ_MEM"
    BY <1>1, <1>2, <1>3, <2>2 DEF DataInv, InvRBeats, CleanBeat, Lock
  <2>3. QED
    BY <2>1, <2>2
<1>9. InvWBeats'
  <2>1. CASE state_q \in AwWbStates
    <3>1. w_last' = 0
      BY <1>3, <2>1 DEF CountW, IndInv, InvRegs
    <3>2. wbeats' = <<>>
      BY <1>1, <2>1 DEF DataInv, InvWBeats
    <3>3. QED
      BY <1>2, <2>1, <3>1, <3>2 DEF InvWBeats
  <2>2. CASE state_q \in {"SEND_AXI_REQ_R", "SEND_AXI_REQ_W"}
    BY <1>1, <1>2, <1>4, <2>2 DEF DataInv, InvWBeats
  <2>3. QED
    BY <1>2, <2>1, <2>2
<1>10. QED
  BY <1>5, <1>6, <1>7, <1>8, <1>9 DEF DataInv

\* Memory's beats reach the initiator in order; an atomic's B comes before R.
LEMMA ReadMemData == ASSUME IndInv, DataInv, ReadMem PROVE DataInv'
<1> DEFINE last == IF mem.rd = 1 THEN 1 ELSE 0
           beat == [src |-> Mem, last |-> last, shared |-> 0, dirty |-> 0,
                    word |-> IF Single(holder) THEN Offset(holder) ELSE last]
<1>1. PICK rFire \in Bit :
        /\ state_q = "READ_MEM"
        /\ rFire = 1 => mem.rd # 0
        /\ Goto(IF rFire = 1 /\ last = 1 THEN "IDLE" ELSE "READ_MEM")
        /\ mem' = [mem EXCEPT !.rd = mem.rd - rFire]
        /\ Edge(rFire, beat, 0)
        /\ UNCHANGED <<wbeats, bsent>>
  BY DEF ReadMem
<1>2. /\ UNCHANGED <<holder, wbeats, bsent>>
      /\ state_q' = IF rFire = 1 /\ last = 1 THEN "IDLE" ELSE "READ_MEM"
  BY <1>1 DEF Goto
<1>3. beat \in Beat /\ 0 \in Bit
  BY DEF Beat, Bit, Offset
<1>4. /\ EdgeTyped /\ LookUps /\ HoldCr
      /\ \A p \in Ports : PortStep(p)
      /\ rbeats' = IF rFire = 1 THEN Append(rbeats, beat) ELSE rbeats
  <2> HIDE DEF beat
  <2>1. QED
    BY <1>1, <1>3, EdgeFacts
<1>5. /\ UNCHANGED <<data_available, shared, dirty, first_responder>>
      /\ \A p \in Ports : cr_resp'[p] = NoResp
  BY <1>1, <1>4, GivenKept
<1>6. InvKind'
  BY <1>1, <1>2 DEF DataInv, InvKind
<1>7. InvGiven'
  BY <1>1, <1>2, <1>5 DEF DataInv, InvGiven, NoResp, Lock, Atop5
<1>8. InvBuffer'
  BY <1>2 DEF InvBuffer
<1>9. InvRBeats'
  <2> SUFFICES ASSUME state_q' = "READ_MEM"
               PROVE  /\ mem'.rd + Len(rbeats') = BeatsDue' /\ mem'.rd # 0
                      /\ \A i \in 1 .. Len(rbeats') : rbeats'[i] = MemBeat(i)'
                      /\ Atop5(holder') => bsent' = 1
    BY <1>2 DEF InvRBeats
  <2>1. /\ mem.rd + Len(rbeats) = BeatsDue /\ mem.rd # 0
        /\ \A i \in 1 .. Len(rbeats) : rbeats[i] = MemBeat(i)
        /\ Atop5(holder) => bsent = 1
    BY <1>1 DEF DataInv, InvRBeats
  <2>2. BeatsDue' = BeatsDue /\ BeatsDue \in {1, 2} /\ (Single(holder) => BeatsDue = 1)
    BY <1>2 DEF BeatsDue
  <2>3. \A i : MemBeat(i)' = MemBeat(i)
    BY <1>2, <2>2 DEF MemBeat
  <2>4. mem.rd \in 0..2 /\ mem'.rd = mem.rd - rFire /\ rbeats \in Seq(Beat)
    BY <1>1 DEF IndInv, TypeOK
  <2>5. CASE rFire = 0
    BY <1>2, <1>4, <2>1, <2>2, <2>3, <2>4, <2>5
  <2>6. CASE rFire = 1
    <3>1. mem.rd = 2 /\ Len(rbeats) = 0 /\ BeatsDue = 2 /\ ~Single(holder)
      BY <1>2, <2>1, <2>2, <2>4, <2>6
    <3>2. Len(rbeats') = 1 /\ rbeats'[1] = beat
      BY <1>3, <1>4, <2>4, <2>6, <3>1, AppendFacts
    <3>3. beat = MemBeat(1)
      BY <3>1 DEF MemBeat
    <3>4. \A i \in 1 .. Len(rbeats') : rbeats'[i] = MemBeat(i)'
      BY <2>3, <3>2, <3>3
    <3>5. QED
      BY <1>2, <2>1, <2>2, <2>4, <2>6, <3>1, <3>2, <3>4
  <2>7. QED
    BY <2>5, <2>6 DEF Bit
<1>10. InvWBeats'
  BY <1>1, <1>2, <1>5 DEF DataInv, InvWBeats
<1>11. QED
  BY <1>6, <1>7, <1>8, <1>9, <1>10 DEF DataInv

\* The initiator's write passes through; B goes to the initiator before an atomic's R.
LEMMA WriteMemData == ASSUME IndInv, DataInv, WriteMem PROVE DataInv'
<1>1. PICK wFire \in Bit, bFire \in Bit :
        /\ state_q = "WRITE_MEM"
        /\ Goto(IF bFire = 0 THEN "WRITE_MEM"
                ELSE IF Atop5(holder) THEN "READ_MEM" ELSE "IDLE")
        /\ mem' = [mem EXCEPT !.wr = IF bFire = 1 THEN "none"
                                     ELSE IF wFire = 1 THEN "resp" ELSE mem.wr]
        /\ bsent' = IF bFire = 1 THEN 1 ELSE bsent
        /\ Edge(0, r_o, wFire)
        /\ UNCHANGED wbeats
  BY DEF WriteMem
<1>2. /\ UNCHANGED <<holder, wbeats>>
      /\ state_q' = IF bFire = 0 THEN "WRITE_MEM"
                    ELSE IF Atop5(holder) THEN "READ_MEM" ELSE "IDLE"
  BY <1>1 DEF Goto
<1>3. /\ EdgeTyped /\ LookUps /\ HoldCr
      /\ \A p \in Ports : PortStep(p)
      /\ rbeats' = rbeats
  <2>1. r_o \in Beat /\ 0 \in Bit
    BY RBeatType DEF IndInv, Bit
  <2>2. QED
    BY <1>1, <2>1, EdgeFacts
<1>4. /\ UNCHANGED <<data_available, shared, dirty, first_responder>>
      /\ \A p \in Ports : cr_resp'[p] = NoResp
  BY <1>1, <1>3, GivenKept
<1>5. InvKind'
  BY <1>1, <1>2 DEF DataInv, InvKind, Atop5
<1>6. InvGiven'
  BY <1>1, <1>2, <1>4 DEF DataInv, InvGiven, NoResp, Atop5
<1>7. InvBuffer'
  BY <1>2 DEF InvBuffer
<1>8. InvRBeats'
  <2>1. rbeats' = <<>>
    BY <1>1, <1>3 DEF DataInv, InvRBeats
  <2>2. CASE state_q' = "READ_MEM"
    <3>1. Atop5(holder) /\ bsent' = 1
      BY <1>1, <1>2, <2>2 DEF Bit
    <3>2. mem'.rd = 1
      BY <1>1, <3>1 DEF IndInv, InvMem, TypeOK
    <3>3. BeatsDue' = 1
      BY <1>2, <3>1 DEF BeatsDue, Atop5, Single
    <3>4. QED
      BY <2>1, <2>2, <3>1, <3>2, <3>3 DEF InvRBeats
  <2>3. CASE state_q' # "READ_MEM"
    BY <1>2, <2>1, <2>3 DEF InvRBeats
  <2>4. QED
    BY <2>2, <2>3
<1>9. InvWBeats'
  BY <1>1, <1>2, <1>4 DEF DataInv, InvWBeats
<1>10. QED
  BY <1>5, <1>6, <1>7, <1>8, <1>9 DEF DataInv

\* 1 if a word of the first responder is taken in this cycle.
Push == IF Got = 2 THEN 0 ELSE 1

\* One cycle of the CD buffer: the next word of the first responder, if it has
\* one, goes to its place.
LEMMA BufferStep ==
  ASSUME IndInv, DataInv, state_q \in DataStates, NEW pop, HoldCd(pop),
         \A p \in Ports : PortStep(p), UNCHANGED first_responder
  PROVE  /\ Got \in 0..2
         /\ Got' = Got + Push
         /\ stored_cd_data' = (stored_cd_data + Push + 4 - pop) % 4
         /\ \A w \in Bit : w < Got => cd_data'[w] = cd_data[w]
         /\ \A w \in Bit : w < Got' => cd_data'[w] = [src |-> first_responder, word |-> w]
<1> DEFINE fr == first_responder
<1>1. fr \in data_available /\ fr \in Ports
  BY DEF DataInv, InvBuffer, IndInv, TypeOK
<1>2. snp[fr] \in {"SEND_CD_0", "SEND_CD_1", "IDLE"}
  BY <1>1 DEF IndInv, InvPort
<1>3. /\ snp[fr] = "SEND_CD_0" => snp'[fr] = "SEND_CD_1"
      /\ snp[fr] = "SEND_CD_1" => snp'[fr] = "IDLE"
      /\ snp[fr] = "IDLE" => snp'[fr] = "IDLE"
  BY <1>1, CdStep
<1>4. Got \in 0..2 /\ Got' = Got + Push
  BY <1>2, <1>3 DEF Got, Push
<1>5. fr \in cdFire <=> Push = 1
  BY <1>1, <1>2 DEF cdFire, cd_valid_i, cd_ready_o, IndInv, InvPort, Got, Push
<1>6. stored_cd_data' = (stored_cd_data + Push + 4 - pop) % 4
  BY <1>5 DEF HoldCd, Push
<1>7. CdLast(fr) = IF Got = 1 THEN 1 ELSE 0
  BY <1>2 DEF CdLast, Got
<1>8. \A w \in Bit : cd_data'[w] = IF Push = 1 /\ w = CdLast(fr)
                                   THEN [src |-> fr, word |-> w] ELSE cd_data[w]
  BY <1>5 DEF HoldCd
<1>9. \A w \in Bit : w < Got => cd_data[w] = [src |-> fr, word |-> w]
  BY DEF DataInv, InvBuffer
<1>10. \A w \in Bit : w < Got => w # CdLast(fr) \/ Push = 0
  BY <1>4, <1>7 DEF Bit, Push
<1>11. ASSUME NEW w \in Bit, w < Got' PROVE cd_data'[w] = [src |-> fr, word |-> w]
  <2>1. w < Got \/ (Push = 1 /\ w = CdLast(fr))
    BY <1>4, <1>7, <1>11 DEF Bit, Push
  <2>2. QED
    BY <1>8, <1>9, <2>1
<1>12. ASSUME NEW w \in Bit, w < Got PROVE cd_data'[w] = cd_data[w]
  <2>1. w # CdLast(fr) \/ Push # 1
    BY <1>10, <1>12
  <2>2. QED
    BY <1>8, <2>1
<1>13. QED
  BY <1>4, <1>6, <1>11, <1>12

\* The count of buffered words moves by the word that comes and the word that
\* goes; its two bits never wrap.
LEMMA CountStep ==
  ASSUME NEW stored \in 0..3, NEW sent \in Nat, NEW got \in 0..2, NEW pop \in 0..1,
         NEW push \in 0..1, got + push <= 2, stored + sent = got, pop = 1 => stored # 0
  PROVE  ((stored + push + 4 - pop) % 4) + (sent + pop) = got + push
<1>1. stored + push - pop \in 0..3
  OBVIOUS
<1>2. \A k \in 0..3 : (k + 4) % 4 = k
  OBVIOUS
<1>3. stored + push + 4 - pop = (stored + push - pop) + 4
  OBVIOUS
<1>4. QED
  BY <1>1, <1>2, <1>3

\* What the FSM offers in READ_SNP_DATA is the next beat the initiator is due.
LEMMA OfferedBeat ==
  ASSUME IndInv, DataInv, state_q = "READ_SNP_DATA", r_valid_o
  PROVE  /\ r_o = SnpBeat(Len(rbeats) + 1)
         /\ Len(rbeats) < BeatsDue
         /\ stored_cd_data # 0
         /\ r_last = Len(rbeats)
         /\ (IF Single(holder) THEN Offset(holder) ELSE r_last) < Got
<1>1. /\ stored_cd_data + Len(rbeats) = Got
      /\ Len(rbeats) <= BeatsDue
      /\ r_last = IF Len(rbeats) = 1 THEN 1 ELSE 0
      /\ r_eot = IF Len(rbeats) = BeatsDue THEN 1 ELSE 0
  BY DEF DataInv, InvRBeats
<1>2. /\ r_eot = 0
      /\ IF Single(holder) THEN stored_cd_data = Offset(holder) + 1 ELSE stored_cd_data # 0
  BY DEF r_valid_o
<1>3. /\ Len(rbeats) \in Nat /\ stored_cd_data \in 0..3 /\ BeatsDue \in {1, 2}
      /\ Offset(holder) \in Bit /\ r_last \in Bit
      /\ BeatsDue = IF Single(holder) THEN 1 ELSE 2
  BY DEF IndInv, TypeOK, BeatsDue, Offset, Bit
<1>4. Len(rbeats) < BeatsDue /\ stored_cd_data # 0 /\ r_last = Len(rbeats)
  <2>1. Len(rbeats) # BeatsDue
    BY <1>1, <1>2
  <2>2. Len(rbeats) < BeatsDue /\ Len(rbeats) \in {0, 1}
    <3>1. Len(rbeats) \in Nat /\ BeatsDue \in {1, 2} /\ Len(rbeats) <= BeatsDue
      BY <1>1, <1>3
    <3>2. QED
      BY <2>1, <3>1, BeatCount
  <2>3. r_last = Len(rbeats) /\ stored_cd_data # 0
    BY <1>1, <1>2, <1>3, <2>2 DEF Bit
  <2>4. QED
    BY <2>2, <2>3
<1> DEFINE w == IF Single(holder) THEN Offset(holder) ELSE r_last
<1>5. w < Got /\ w \in Bit
  BY <1>1, <1>2, <1>3, <1>4 DEF Bit
<1>6. cd_data[w] = [src |-> first_responder, word |-> w]
  BY <1>5 DEF DataInv, InvBuffer
<1>7. cd_data[w].src = first_responder /\ cd_data[w].word = w
  BY <1>6
<1>8. r_o = [src |-> first_responder, word |-> w, last |-> IF Single(holder) THEN 1 ELSE r_last,
             shared |-> Any(shared), dirty |-> Any(dirty)]
  BY <1>7 DEF r_o
<1>9. /\ w = IF Single(holder) THEN Offset(holder) ELSE (Len(rbeats) + 1) - 1
      /\ (IF Single(holder) THEN 1 ELSE r_last) = IF Len(rbeats) + 1 = BeatsDue THEN 1 ELSE 0
  BY <1>3, <1>4
<1>10. QED
  BY <1>4, <1>5, <1>8, <1>9 DEF SnpBeat

\* READ_SNP_DATA hands the first responder's words to the initiator in order.
LEMMA ReadSnpDataData == ASSUME IndInv, DataInv, ReadSnpData PROVE DataInv'
<1>1. PICK rr \in RReady :
        /\ state_q = "READ_SNP_DATA"
        /\ Goto(IF cd_last = data_available /\ (r_eot = 1 \/ (rr = 1 /\ r_last = 1))
                THEN "IDLE" ELSE "READ_SNP_DATA")
        /\ Edge(IF r_valid_o THEN rr ELSE 0, r_o, 0)
        /\ UNCHANGED <<mem, wbeats, bsent>>
  BY DEF ReadSnpData
<1>2. /\ state_q = "READ_SNP_DATA" /\ state_q' \in {"IDLE", "READ_SNP_DATA"}
      /\ UNCHANGED <<holder, wbeats, bsent>>
  BY <1>1 DEF Goto
<1>3. PICK fire \in Bit : Edge(fire, r_o, 0) /\ (fire = 1 => r_valid_o)
  BY <1>1 DEF RReady, Bit
<1>4. /\ EdgeTyped /\ LookUps /\ HoldCr /\ HoldCd(fire)
      /\ \A p \in Ports : PortStep(p)
      /\ rbeats' = IF fire = 1 THEN Append(rbeats, r_o) ELSE rbeats
  <2>1. r_o \in Beat /\ 0 \in Bit /\ fire + 0 = fire
    BY RBeatType DEF IndInv, Bit
  <2>2. QED
    BY <1>2, <1>3, <2>1, EdgeFacts
<1>5. /\ UNCHANGED <<data_available, shared, dirty, first_responder>>
      /\ \A p \in Ports : cr_resp'[p] = NoResp
  BY <1>2, <1>4, GivenKept
<1>6. /\ Got \in 0..2
      /\ Got' = Got + Push
      /\ stored_cd_data' = (stored_cd_data + Push + 4 - fire) % 4
      /\ \A w \in Bit : w < Got' => cd_data'[w] = [src |-> first_responder, word |-> w]
  BY <1>2, <1>4, <1>5, BufferStep
<1>7. InvKind'
  BY <1>2 DEF DataInv, InvKind
<1>8. InvGiven'
  BY <1>2, <1>5 DEF DataInv, InvGiven, NoResp
<1>9. InvBuffer'
  BY <1>2, <1>5, <1>6 DEF DataInv, InvBuffer
<1>10. InvRBeats'
  <2> DEFINE n == Len(rbeats)
  <2>1. /\ stored_cd_data + n = Got
        /\ n <= BeatsDue
        /\ r_last = IF n = 1 THEN 1 ELSE 0
        /\ r_eot = IF n = BeatsDue THEN 1 ELSE 0
        /\ \A i \in 1 .. n : rbeats[i] = SnpBeat(i)
    BY <1>2 DEF DataInv, InvRBeats
  <2>2. /\ BeatsDue' = BeatsDue /\ BeatsDue \in {1, 2}
        /\ n \in Nat /\ stored_cd_data \in 0..3 /\ rbeats \in Seq(Beat) /\ r_o \in Beat
    BY <1>2, RBeatType DEF BeatsDue, IndInv, TypeOK
  <2>3. \A i : SnpBeat(i)' = SnpBeat(i)
    BY <1>2, <1>5, <2>2 DEF SnpBeat
  <2>4. fire = 1 => /\ r_o = SnpBeat(n + 1) /\ n < BeatsDue
                    /\ stored_cd_data # 0 /\ r_last = n
    BY <1>2, <1>3, OfferedBeat
  <2>5. Push \in 0..1 /\ Got + Push <= 2
    BY <1>6 DEF Push
  <2>6. Len(rbeats') = n + fire
    BY <1>3, <1>4, <2>2, AppendFacts DEF Bit
  <2>7. stored_cd_data' + Len(rbeats') = Got'
    BY <1>3, <1>6, <2>1, <2>2, <2>4, <2>5, <2>6, CountStep DEF Bit
  <2>8. \A i \in 1 .. Len(rbeats') : rbeats'[i] = SnpBeat(i)'
    <3>1. CASE fire = 0
      BY <1>4, <2>1, <2>3, <3>1
    <3>2. CASE fire = 1
      <4>1. ASSUME NEW i \in 1 .. n + 1 PROVE rbeats'[i] = SnpBeat(i)
        <5>1. i \in 1 .. n \/ i = n + 1
          BY <2>2
        <5>2. QED
          BY <1>4, <2>1, <2>2, <2>4, <3>2, <5>1, AppendFacts
      <4>2. QED
        BY <2>3, <2>6, <3>2, <4>1
    <3>3. QED
      BY <3>1, <3>2 DEF Bit
  <2>9. /\ r_last' = IF Len(rbeats') = 1 THEN 1 ELSE 0
        /\ r_eot' = IF Len(rbeats') = BeatsDue THEN 1 ELSE 0
        /\ Len(rbeats') <= BeatsDue
    <3>1. CASE fire = 0
      <4>1. r_last' = r_last /\ r_eot' = r_eot
        BY <1>2, <1>3, <3>1 DEF Edge, CountR
      <4>2. Len(rbeats') = n
        BY <2>2, <2>6, <3>1
      <4>3. QED
        BY <2>1, <4>1, <4>2
    <3>2. CASE fire = 1
      <4>1. r_last' = 1 - r_last /\ r_eot' = IF r_o.last = 1 THEN 1 ELSE r_eot
        BY <1>2, <1>3, <3>2 DEF Edge, CountR
      <4>2. r_o.last = IF n + 1 = BeatsDue THEN 1 ELSE 0
        BY <2>4, <3>2 DEF SnpBeat
      <4>3. r_eot # 1 /\ r_eot = 0
        BY <2>1, <2>2, <2>4, <3>2
      <4>4. Len(rbeats') = n + 1 /\ n \in {0, 1} /\ r_last = n
        BY <2>2, <2>4, <2>6, <3>2
      <4>5. r_last' = IF Len(rbeats') = 1 THEN 1 ELSE 0
        BY <4>1, <4>4
      <4>6. r_eot' = IF Len(rbeats') = BeatsDue THEN 1 ELSE 0
        BY <4>1, <4>2, <4>3, <4>4
      <4>7. QED
        BY <2>2, <2>4, <3>2, <4>4, <4>5, <4>6
    <3>3. QED
      BY <3>1, <3>2 DEF Bit
  <2>10. QED
    BY <1>2, <2>2, <2>7, <2>8, <2>9 DEF InvRBeats
<1>11. InvWBeats'
  BY <1>2 DEF InvWBeats
<1>12. QED
  BY <1>7, <1>8, <1>9, <1>10, <1>11 DEF DataInv

\* What the FSM writes back is the next word of the first responder's line.
LEMMA WrittenBeat ==
  ASSUME IndInv, DataInv, state_q \in WbStates, w_valid_o, mem.wr = "data"
  PROVE  w_o = WbBeat(Len(wbeats) + 1) /\ Len(wbeats) = w_last
<1>1. Len(wbeats) = w_last /\ stored_cd_data + w_last = Got
  BY DEF DataInv, InvWBeats, IndInv, InvMem, Got
<1>2. stored_cd_data # 0 /\ stored_cd_data \in 0..3 /\ w_last \in Bit
  BY DEF w_valid_o, IndInv, TypeOK
<1>3. w_last < Got
  BY <1>1, <1>2 DEF Bit
<1>4. cd_data[w_last] = [src |-> first_responder, word |-> w_last]
  BY <1>2, <1>3 DEF DataInv, InvBuffer
<1>5. (Len(wbeats) + 1) - 1 = w_last
  BY <1>1, <1>2 DEF Bit
<1>6. QED
  BY <1>1, <1>4, <1>5 DEF w_o, WbBeat

\* WRITE_BACK_MEM hands the first responder's words to memory in order and is
\* left with the whole line of the only dirty copy in memory.
LEMMA WriteBackData == ASSUME IndInv, DataInv, WriteBackMemR \/ WriteBackMemW PROVE DataInv'
<1>1. PICK from \in WbStates, to \in {"IDLE", "SEND_AXI_REQ_R", "SEND_AXI_REQ_W"} :
        /\ WriteBackMem(from, to)
        /\ from = "WRITE_BACK_MEM_W" => to = "SEND_AXI_REQ_W"
        /\ from = "WRITE_BACK_MEM_R" =>
             to # "SEND_AXI_REQ_W" /\ (to = "SEND_AXI_REQ_R" => Lock(holder))
  BY DEF WriteBackMemR, WriteBackMemW
<1>2. PICK wFire \in Bit, bFire \in Bit :
        /\ state_q = from
        /\ wFire = 1 => w_valid_o /\ mem.wr = "data"
        /\ bFire = 1 => mem.wr = "resp"
        /\ Goto(IF bFire = 1 THEN to ELSE from)
        /\ mem' = [mem EXCEPT !.wr = IF bFire = 1 THEN "none"
                                     ELSE IF wFire = 1 /\ w_last = 1 THEN "resp" ELSE mem.wr]
        /\ wbeats' = IF wFire = 1 THEN Append(wbeats, w_o) ELSE wbeats
        /\ Edge(0, r_o, wFire)
        /\ UNCHANGED bsent
  BY <1>1 DEF WriteBackMem
<1>3. /\ state_q \in WbStates /\ UNCHANGED <<holder, bsent>>
      /\ bFire = 0 => state_q' = state_q
      /\ bFire = 1 => /\ state_q' \in {"IDLE", "SEND_AXI_REQ_R", "SEND_AXI_REQ_W"}
                      /\ mem.wr = "resp" /\ wFire = 0
      /\ state_q' = "SEND_AXI_REQ_R" => state_q = "WRITE_BACK_MEM_R" /\ Lock(holder)
      /\ state_q' = "SEND_AXI_REQ_W" => state_q = "WRITE_BACK_MEM_W"
  BY <1>1, <1>2 DEF Goto, Bit
<1>4. /\ EdgeTyped /\ LookUps /\ HoldCr /\ HoldCd(wFire) /\ CountW(wFire)
      /\ \A p \in Ports : PortStep(p)
      /\ rbeats' = rbeats
  <2>1. r_o \in Beat /\ 0 \in Bit /\ 0 + wFire = wFire
    BY RBeatType DEF IndInv, Bit
  <2>2. QED
    BY <1>2, <1>3, <2>1, EdgeFacts
<1>5. /\ UNCHANGED <<data_available, shared, dirty, first_responder>>
      /\ \A p \in Ports : cr_resp'[p] = NoResp
  BY <1>3, <1>4, GivenKept
<1>6. \A w \in Bit : w < Got' => cd_data'[w] = [src |-> first_responder, word |-> w]
  BY <1>3, <1>4, <1>5, BufferStep
<1>7. InvKind'
  BY <1>3 DEF DataInv, InvKind, Lock, Bit
<1>8. InvGiven'
  BY <1>3, <1>5 DEF DataInv, InvGiven, NoResp, Lock, Bit
<1>9. InvBuffer'
  BY <1>3, <1>5, <1>6 DEF DataInv, InvBuffer, Bit
<1>10. InvRBeats'
  BY <1>3, <1>4 DEF DataInv, InvRBeats, CleanBeat, Lock, Bit
<1>11. InvWBeats'
  <2> DEFINE n == Len(wbeats)
  <2>1. /\ n = IF mem.wr = "resp" THEN 2 ELSE w_last
        /\ \A i \in 1 .. n : wbeats[i] = WbBeat(i)
    BY <1>3 DEF DataInv, InvWBeats
  <2>2. wbeats \in Seq(Word \X Bit) /\ w_o \in Word \X Bit /\ n \in Nat
    BY WBeatType DEF IndInv, TypeOK
  <2>3. \A i : WbBeat(i)' = WbBeat(i)
    BY <1>5 DEF WbBeat
  <2>4. CASE bFire = 1
    <3>1. wbeats' = wbeats /\ n = 2 /\ wbeats[1] = WbBeat(1) /\ wbeats[2] = WbBeat(2)
      BY <1>2, <1>3, <2>1, <2>4
    <3>2. wbeats = <<WbBeat(1), WbBeat(2)>>
      BY <2>2, <3>1
    <3>3. \A p \in dirty : p = first_responder
      BY <1>3 DEF IndInv, InvOwner, OneOwner, InvRegs
    <3>4. /\ WbBeat(1) = <<Line(first_responder)[1], 0>>
          /\ WbBeat(2) = <<Line(first_responder)[2], 1>>
      BY DEF WbBeat, Line
    <3>5. \A p \in dirty : wbeats = <<<<Line(p)[1], 0>>, <<Line(p)[2], 1>>>>
      BY <3>2, <3>3, <3>4
    <3>6. dirty' = dirty /\ wbeats' = wbeats /\ state_q' \notin AwWbStates \cup WbStates
      BY <1>3, <1>5, <2>4, <3>1
    <3>7. QED
      BY <3>5, <3>6 DEF InvWBeats
  <2>5. CASE bFire = 0
    <3>1. state_q' = state_q /\ state_q' \in WbStates
      BY <1>3, <2>5
    <3>2. mem \in [wr : {"none", "data", "resp"}, rd : 0..2] /\ w_last \in Bit
      BY DEF IndInv, TypeOK
    <3>3. mem'.wr = IF wFire = 1 /\ w_last = 1 THEN "resp" ELSE mem.wr
      BY <1>2, <2>5, <3>2
    <3>4. w_last' = IF wFire = 1 THEN 1 - w_last ELSE w_last
      BY <1>3, <1>4 DEF CountW
    <3>5. CASE wFire = 0
      <4>1. wbeats' = wbeats /\ w_last' = w_last /\ mem'.wr = mem.wr
        BY <1>2, <3>3, <3>4, <3>5
      <4>2. QED
        BY <2>1, <2>3, <3>1, <4>1 DEF InvWBeats
    <3>6. CASE wFire = 1
      <4>1. w_o = WbBeat(n + 1) /\ n = w_last /\ mem.wr = "data"
        BY <1>2, <1>3, <3>6, WrittenBeat
      <4>2. wbeats' = Append(wbeats, w_o) /\ Len(wbeats') = n + 1
        BY <1>2, <2>2, <3>6, AppendFacts
      <4>3. ASSUME NEW i \in 1 .. n + 1 PROVE wbeats'[i] = WbBeat(i)
        <5>1. i \in 1 .. n \/ i = n + 1
          BY <2>2
        <5>2. QED
          BY <2>1, <2>2, <4>1, <4>2, <5>1, AppendFacts
      <4>4. Len(wbeats') = IF mem'.wr = "resp" THEN 2 ELSE w_last'
        BY <3>2, <3>3, <3>4, <3>6, <4>1, <4>2 DEF Bit
      <4>5. \A i \in 1 .. Len(wbeats') : wbeats'[i] = WbBeat(i)'
        BY <2>3, <4>2, <4>3
      <4>6. QED
        BY <3>1, <4>4, <4>5 DEF InvWBeats
    <3>7. QED
      BY <3>5, <3>6 DEF Bit
  <2>6. QED
    BY <2>4, <2>5 DEF Bit
<1>12. QED
  BY <1>7, <1>8, <1>9, <1>10, <1>11 DEF DataInv
-----------------------------------------------------------------------------
\* The initial state satisfies the invariant.
LEMMA InitData == Init => DataInv
  BY DEF Init, DataInv, InvKind, InvGiven, InvBuffer, InvRBeats, InvWBeats, NoResp

\* Every clock edge preserves it.
LEMMA NextData == IndInv /\ DataInv /\ [Next]_vars => DataInv'
<1> SUFFICES ASSUME IndInv, DataInv, [Next]_vars PROVE DataInv'
  OBVIOUS
<1>1. IndInv'
  BY NextInv
<1>2. CASE IdleTakeAr \/ IdleTakeAw \/ IdleWait
  BY <1>2, IdleData
<1>3. CASE DecodeR \/ DecodeW \/ SendInvalidR \/ SendRead \/ SendInvalidW
  BY <1>3, AddressData
<1>4. CASE WaitInvalidR \/ WaitRespR \/ WaitInvalidW
  BY <1>1, <1>4, WaitData
<1>5. CASE SendAxiReqWriteBackR \/ SendAxiReqWriteBackW \/ SendAxiReqW \/ SendAxiReqR
  BY <1>5, SendAxiData
<1>6. CASE ReadMem \/ WriteMem
  BY <1>6, ReadMemData, WriteMemData
<1>7. CASE ReadSnpData
  BY <1>7, ReadSnpDataData
<1>8. CASE WriteBackMemR \/ WriteBackMemW
  BY <1>8, WriteBackData
<1>9. CASE UNCHANGED vars
  <2> USE <1>9 DEF vars, fsmVars, snpRegs, dataRegs, envVars, histVars
  <2>1. InvKind' /\ InvGiven'
    BY DEF DataInv, InvKind, InvGiven, Lock, Atop5
  <2>2. Got' = Got /\ BeatsDue' = BeatsDue
    BY DEF Got, BeatsDue
  <2>3. \A i : SnpBeat(i)' = SnpBeat(i) /\ MemBeat(i)' = MemBeat(i) /\ WbBeat(i)' = WbBeat(i)
    BY <2>2 DEF SnpBeat, MemBeat, WbBeat
  <2>4. InvBuffer'
    BY <2>2 DEF DataInv, InvBuffer
  <2>5. InvRBeats'
    BY <2>2, <2>3 DEF DataInv, InvRBeats, CleanBeat, Lock, Atop5
  <2>6. InvWBeats'
    BY <2>3 DEF DataInv, InvWBeats
  <2>7. QED
    BY <2>1, <2>4, <2>5, <2>6 DEF DataInv
<1>10. QED
  BY <1>2, <1>3, <1>4, <1>5, <1>6, <1>7, <1>8, <1>9 DEF Next

\* The words in the CD buffer and the beats on R and W are where they belong,
\* in every reachable state.
THEOREM DataInvariance == Spec => [](IndInv /\ DataInv)
  BY InitInv, NextInv, InitData, NextData, PTL DEF Spec

\* The two-bit count of buffered words is what arrived minus what was forwarded.
THEOREM BufferAccountingHolds == Spec => []BufferAccounting
<1>1. IndInv /\ DataInv => BufferAccounting
  <2> SUFFICES ASSUME IndInv, DataInv, state_q \in DataStates
               PROVE  /\ first_responder \in data_available
                      /\ stored_cd_data + (IF state_q = "READ_SNP_DATA"
                                           THEN Len(rbeats) ELSE Len(wbeats)) = Got
    BY DEF BufferAccounting, Got
  <2>1. first_responder \in data_available
    BY DEF DataInv, InvBuffer
  <2>2. CASE state_q = "READ_SNP_DATA"
    BY <2>1, <2>2 DEF DataInv, InvRBeats
  <2>3. CASE state_q \in WbStates
    <3>1. Len(wbeats) = IF mem.wr = "resp" THEN 2 ELSE w_last
      BY <2>3 DEF DataInv, InvWBeats
    <3>2. stored_cd_data + (IF mem.wr = "resp" THEN 2 ELSE w_last) = Got
      BY <2>3 DEF IndInv, InvMem, Got
    <3>3. QED
      BY <2>1, <2>3, <3>1, <3>2
  <2>4. QED
    BY <2>2, <2>3
<1>2. QED
  BY <1>1, DataInvariance, PTL

\* A dirty line given up to a snoop is complete in memory before the FSM
\* accesses memory for the initiator.
THEOREM DirtyBeforeMemoryHolds == Spec => []DirtyBeforeMemory
<1>1. DataInv => DirtyBeforeMemory
  BY DEF DataInv, InvWBeats, DirtyBeforeMemory
<1>2. QED
  BY <1>1, DataInvariance, PTL
-----------------------------------------------------------------------------
(***************************************************************************)
(* The end of a transaction.                                               *)
(***************************************************************************)
\* The step that ends a transaction is one of five.
LEMMA LastStep ==
  ASSUME IndInv, Next, state_q # "IDLE", state_q' = "IDLE"
  PROVE  WaitInvalidR \/ ReadSnpData \/ WriteBackMemR \/ ReadMem \/ WriteMem
  BY DEF Next, IdleTakeAr, IdleTakeAw, IdleWait, DecodeR, DecodeW, SendInvalidR, SendRead,
         SendInvalidW, Send, WaitRespR, WaitInvalidW, WaitResp, SendAxiReqWriteBackR,
         SendAxiReqWriteBackW, SendAxiReqW, SendAxiReqR, SendAxiAw, WriteBackMemW, WriteBackMem,
         Goto

\* A CleanUnique that found no dirty copy ends with its one beat.
LEMMA EndClean ==
  ASSUME IndInv, DataInv, WaitInvalidR, state_q' = "IDLE"
  PROVE  /\ holder.kind = "CleanUnique" /\ dirty = {}
         /\ rbeats' = <<CleanBeat>>
<1>1. PICK rr \in RReady :
        /\ state_q = "WAIT_INVALID_R"
        /\ Goto(IF cr_valid # Ports \/ (rr = 0 /\ ~Lock(holder)) THEN "WAIT_INVALID_R"
                ELSE IF data_available # {} THEN "SEND_AXI_REQ_WRITE_BACK_R"
                ELSE IF Lock(holder) THEN "SEND_AXI_REQ_R" ELSE "IDLE")
        /\ Edge(IF r_valid_o THEN rr ELSE 0, r_o, 0)
  BY DEF WaitInvalidR
<1>2. rr = 1 /\ cr_valid = Ports /\ ~Lock(holder) /\ data_available = {}
  BY <1>1 DEF Goto, RReady
<1>3. rbeats' = Append(rbeats, r_o) /\ rbeats = <<>>
  BY <1>1, <1>2 DEF Edge, r_valid_o, IndInv, InvHistory, Acted
<1>4. dirty = {}
  BY <1>1, <1>2 DEF DataInv, InvGiven
<1>5. holder.kind = "CleanUnique"
  BY <1>1, <1>2, KindFacts DEF IndInv, InvRequest, Exclusive, Lock, AllWriteKinds
<1>6. QED
  BY <1>1, <1>3, <1>4, <1>5 DEF r_o, CleanBeat

\* A CleanUnique that found one ends with the line written back.
LEMMA EndWriteBack ==
  ASSUME IndInv, DataInv, WriteBackMemR, state_q' = "IDLE"
  PROVE  /\ holder.kind = "CleanUnique" /\ rbeats' = <<CleanBeat>>
         /\ \A p \in dirty : wbeats' = <<<<Line(p)[1], 0>>, <<Line(p)[2], 1>>>>
<1> DEFINE to == IF Lock(holder) THEN "SEND_AXI_REQ_R" ELSE "IDLE"
<1>1. PICK wFire \in Bit, bFire \in Bit :
        /\ state_q = "WRITE_BACK_MEM_R"
        /\ wFire = 1 => w_valid_o /\ mem.wr = "data"
        /\ bFire = 1 => mem.wr = "resp"
        /\ Goto(IF bFire = 1 THEN to ELSE "WRITE_BACK_MEM_R")
        /\ wbeats' = IF wFire = 1 THEN Append(wbeats, w_o) ELSE wbeats
        /\ Edge(0, r_o, wFire)
  BY DEF WriteBackMemR, WriteBackMem
<1>2. bFire = 1 /\ ~Lock(holder) /\ mem.wr = "resp" /\ wbeats' = wbeats
  BY <1>1 DEF Goto, Bit
<1>3. rbeats' = rbeats /\ rbeats = <<CleanBeat>>
  BY <1>1, <1>2 DEF Edge, DataInv, InvRBeats
<1>4. holder.kind = "CleanUnique"
  BY <1>1, <1>2, KindFacts DEF IndInv, InvRequest, Exclusive, Lock, AllWriteKinds
<1>5. wbeats = <<WbBeat(1), WbBeat(2)>>
  <2>1. wbeats \in Seq(Word \X Bit)
    BY DEF IndInv, TypeOK
  <2>2. Len(wbeats) = 2 /\ \A i \in 1 .. Len(wbeats) : wbeats[i] = WbBeat(i)
    BY <1>1, <1>2 DEF DataInv, InvWBeats
  <2>3. wbeats[1] = WbBeat(1) /\ wbeats[2] = WbBeat(2)
    BY <2>2
  <2>4. QED
    BY <2>1, <2>2, <2>3
<1>6. \A p \in dirty : p = first_responder
  BY <1>1 DEF IndInv, InvOwner, OneOwner, InvRegs
<1>7. /\ WbBeat(1) = <<Line(first_responder)[1], 0>>
      /\ WbBeat(2) = <<Line(first_responder)[2], 1>>
  BY DEF WbBeat, Line
<1>8. QED
  BY <1>2, <1>3, <1>4, <1>5, <1>6, <1>7

\* READ_SNP_DATA ends when every beat of the snooped line was handed over.
LEMMA EndSnp ==
  ASSUME IndInv, DataInv, ReadSnpData, state_q' = "IDLE"
  PROVE  /\ state_q = "READ_SNP_DATA"
         /\ rbeats' \in Seq(Beat) /\ Len(rbeats') = BeatsDue
         /\ \A i \in 1 .. BeatsDue : rbeats'[i] = SnpBeat(i)
<1>1. PICK rr \in RReady :
        /\ state_q = "READ_SNP_DATA"
        /\ Goto(IF cd_last = data_available /\ (r_eot = 1 \/ (rr = 1 /\ r_last = 1))
                THEN "IDLE" ELSE "READ_SNP_DATA")
        /\ Edge(IF r_valid_o THEN rr ELSE 0, r_o, 0)
  BY DEF ReadSnpData
<1>2. cd_last = data_available /\ (r_eot = 1 \/ (rr = 1 /\ r_last = 1))
  BY <1>1 DEF Goto
<1> DEFINE n == Len(rbeats)
<1>3. /\ stored_cd_data + n = Got
      /\ n <= BeatsDue
      /\ r_last = IF n = 1 THEN 1 ELSE 0
      /\ r_eot = IF n = BeatsDue THEN 1 ELSE 0
      /\ \A i \in 1 .. n : rbeats[i] = SnpBeat(i)
  BY <1>1 DEF DataInv, InvRBeats
<1>4. /\ n \in Nat /\ stored_cd_data \in 0..3 /\ rbeats \in Seq(Beat) /\ r_o \in Beat
      /\ BeatsDue \in {1, 2} /\ (Single(holder) => BeatsDue = 1)
  BY RBeatType DEF BeatsDue, IndInv, TypeOK
<1>5. CASE r_eot = 1
  <2>1. ~r_valid_o
    BY <1>1, <1>5 DEF r_valid_o
  <2>2. rbeats' = rbeats
    BY <1>1, <2>1 DEF Edge
  <2>3. n = BeatsDue
    BY <1>3, <1>5
  <2>4. QED
    BY <1>1, <1>3, <1>4, <2>2, <2>3
<1>6. CASE r_eot # 1
  <2>1. n = 1 /\ BeatsDue = 2 /\ ~Single(holder) /\ r_eot = 0 /\ rr = 1
    BY <1>2, <1>3, <1>4, <1>6
  <2>2. Got = 2
    <3>1. first_responder \in cd_last /\ first_responder \in Ports
      BY <1>1, <1>2 DEF DataInv, InvBuffer, IndInv, TypeOK
    <3>2. snp[first_responder] = "IDLE"
      BY <1>1, <3>1 DEF IndInv, InvPort
    <3>3. QED
      BY <3>2 DEF Got
  <2>3. r_valid_o
    BY <1>1, <1>3, <1>4, <2>1, <2>2 DEF r_valid_o
  <2>4. rbeats' = Append(rbeats, r_o) /\ r_o = SnpBeat(2)
    BY <1>1, <2>1, <2>3, OfferedBeat DEF Edge
  <2>5. /\ rbeats' \in Seq(Beat) /\ Len(rbeats') = 2
        /\ rbeats'[1] = rbeats[1] /\ rbeats'[2] = r_o
    <3>1. /\ Append(rbeats, r_o) \in Seq(Beat)
          /\ Len(Append(rbeats, r_o)) = n + 1
          /\ \A i \in 1 .. n : Append(rbeats, r_o)[i] = rbeats[i]
          /\ Append(rbeats, r_o)[n + 1] = r_o
      BY <1>4, AppendFacts
    <3>2. QED
      BY <2>1, <2>4, <3>1
  <2>6. QED
    BY <1>1, <1>3, <2>1, <2>4, <2>5
<1>7. QED
  BY <1>5, <1>6

\* READ_MEM ends with memory's last beat.
LEMMA EndMem ==
  ASSUME IndInv, DataInv, ReadMem, state_q' = "IDLE"
  PROVE  /\ state_q = "READ_MEM" /\ bsent' = bsent /\ wbeats' = wbeats
         /\ rbeats' \in Seq(Beat) /\ Len(rbeats') = BeatsDue
         /\ \A i \in 1 .. BeatsDue : rbeats'[i] = MemBeat(i)
<1> DEFINE last == IF mem.rd = 1 THEN 1 ELSE 0
           beat == [src |-> Mem, last |-> last, shared |-> 0, dirty |-> 0,
                    word |-> IF Single(holder) THEN Offset(holder) ELSE last]
<1>1. PICK rFire \in Bit :
        /\ state_q = "READ_MEM"
        /\ Goto(IF rFire = 1 /\ last = 1 THEN "IDLE" ELSE "READ_MEM")
        /\ Edge(rFire, beat, 0)
        /\ UNCHANGED <<wbeats, bsent>>
  BY DEF ReadMem
<1>2. rFire = 1 /\ mem.rd = 1
  BY <1>1 DEF Goto
<1> DEFINE n == Len(rbeats)
<1>3. /\ mem.rd + n = BeatsDue
      /\ \A i \in 1 .. n : rbeats[i] = MemBeat(i)
  BY <1>1 DEF DataInv, InvRBeats
<1>4. /\ n \in Nat /\ rbeats \in Seq(Beat) /\ BeatsDue = IF Single(holder) THEN 1 ELSE 2
  BY DEF BeatsDue, IndInv, TypeOK
<1>5. beat \in Beat
  BY DEF Beat, Bit, Offset
<1>6. rbeats' = Append(rbeats, beat)
  BY <1>1, <1>2 DEF Edge
<1>7. n + 1 = BeatsDue
  BY <1>2, <1>3, <1>4
<1>8. beat = MemBeat(n + 1)
  <2>1. ~Single(holder) => n = 1
    <3>1. ASSUME NEW k \in Nat, k + 1 = 2 PROVE k = 1
      BY <3>1
    <3>2. QED
      BY <1>4, <1>7, <3>1
  <2>2. last = 1
    BY <1>2
  <2>3. CASE Single(holder)
    BY <1>7, <2>2, <2>3 DEF MemBeat
  <2>4. CASE ~Single(holder)
    <3>1. (n + 1) - 1 = 1
      BY <2>1, <2>4
    <3>2. QED
      BY <1>7, <2>2, <2>4, <3>1 DEF MemBeat
  <2>5. QED
    BY <2>3, <2>4
<1> HIDE DEF beat
<1>9. /\ rbeats' \in Seq(Beat) /\ Len(rbeats') = n + 1
      /\ \A i \in 1 .. n : rbeats'[i] = rbeats[i]
      /\ rbeats'[n + 1] = beat
  BY <1>4, <1>5, <1>6, AppendFacts
<1>10. ASSUME NEW i \in 1 .. n + 1 PROVE rbeats'[i] = MemBeat(i)
  <2>1. i \in 1 .. n \/ i = n + 1
    BY <1>4
  <2>2. QED
    BY <1>3, <1>8, <1>9, <2>1
<1>11. QED
  BY <1>1, <1>7, <1>9, <1>10

\* WRITE_MEM ends a plain write with B.
LEMMA EndWrite ==
  ASSUME IndInv, DataInv, WriteMem, state_q' = "IDLE"
  PROVE  /\ state_q = "WRITE_MEM" /\ holder.kind = "WriteUnique"
         /\ rbeats' = <<>> /\ bsent' = 1 /\ wbeats' = wbeats
<1>1. PICK wFire \in Bit, bFire \in Bit :
        /\ state_q = "WRITE_MEM"
        /\ Goto(IF bFire = 0 THEN "WRITE_MEM"
                ELSE IF Atop5(holder) THEN "READ_MEM" ELSE "IDLE")
        /\ bsent' = IF bFire = 1 THEN 1 ELSE bsent
        /\ Edge(0, r_o, wFire)
        /\ UNCHANGED wbeats
  BY DEF WriteMem
<1>2. bFire = 1 /\ ~Atop5(holder)
  BY <1>1 DEF Goto, Bit
<1>3. holder.kind = "WriteUnique"
  BY <1>1, <1>2, KindFacts DEF DataInv, InvKind, Atop5
<1>4. rbeats' = <<>>
  BY <1>1 DEF Edge, DataInv, InvRBeats
<1>5. QED
  BY <1>1, <1>2, <1>3, <1>4

\* Snooped data goes to plain reads only, and memory serves what no cache has.
LEMMA AnswerKinds ==
  ASSUME IndInv, DataInv, state_q \in {"READ_SNP_DATA", "READ_MEM"}
  PROVE  /\ holder.kind \notin {"CleanUnique", "WriteUnique"}
         /\ state_q = "READ_SNP_DATA" =>
              /\ holder.kind # "AtomicLoad" /\ ~Lock(holder)
              /\ first_responder \in data_available /\ data_available # {}
              /\ first_responder # Mem
         /\ state_q = "READ_MEM" =>
              /\ holder.kind = "AtomicLoad" => bsent = 1
              /\ holder.kind # "AtomicLoad" => data_available = {} \/ Lock(holder)
<1>1. state_q = "READ_SNP_DATA" => holder.kind \in ReadKinds \ {"CleanUnique"} /\ ~Lock(holder)
  BY DEF IndInv, InvRequest, DataInv, InvKind
<1>2. state_q = "READ_MEM" => holder.kind \in (ReadKinds \ {"CleanUnique"}) \cup {"AtomicLoad"}
  BY DEF DataInv, InvKind
<1>3. state_q = "READ_SNP_DATA" => first_responder \in data_available /\ first_responder \in Ports
  BY DEF DataInv, InvBuffer, IndInv, TypeOK
<1>4. Mem \notin Ports
  BY KindsAssumption
<1>5. state_q = "READ_MEM" => /\ holder.kind = "AtomicLoad" => bsent = 1
                              /\ holder.kind # "AtomicLoad" => data_available = {} \/ Lock(holder)
  BY DEF DataInv, InvRBeats, InvGiven, Atop5
<1>6. QED
  BY <1>1, <1>2, <1>3, <1>4, <1>5, KindFacts

\* The step that ends a transaction completes its answer.
LEMMA AnswerStep ==
  ASSUME IndInv, DataInv, Next, state_q # "IDLE", state_q' = "IDLE"
  PROVE  Answered
<1>1. CASE WaitInvalidR \/ WriteBackMemR
  <2>1. holder.kind = "CleanUnique" /\ rbeats' = <<CleanBeat>>
    BY <1>1, EndClean, EndWriteBack
  <2>2. Len(rbeats') = 1 /\ rbeats'[1].src = None /\ rbeats'[1].last = 1
    BY <2>1 DEF CleanBeat
  <2>3. QED
    BY <2>1, <2>2 DEF Answered
<1>2. CASE WriteMem
  BY <1>2, EndWrite DEF Answered
<1>3. CASE ReadSnpData
  <2>1. /\ state_q = "READ_SNP_DATA" /\ Len(rbeats') = BeatsDue
        /\ \A i \in 1 .. BeatsDue : rbeats'[i] = SnpBeat(i)
    BY <1>3, EndSnp
  <2>2. /\ holder.kind \notin {"CleanUnique", "WriteUnique", "AtomicLoad"} /\ ~Lock(holder)
        /\ first_responder \in data_available /\ data_available # {}
    BY <2>1, AnswerKinds
  <2>3. BeatsDue = (IF Single(holder) THEN 1 ELSE 2) /\ 1 \in 1 .. BeatsDue
    BY DEF BeatsDue
  <2>4. \A i \in 1 .. BeatsDue :
          /\ rbeats'[i].src = first_responder
          /\ rbeats'[i].word = IF Single(holder) THEN Offset(holder) ELSE i - 1
          /\ rbeats'[i].last = IF i = BeatsDue THEN 1 ELSE 0
          /\ rbeats'[i].shared = Any(shared)
    BY <2>1 DEF SnpBeat
  <2>5. rbeats'[1].src = first_responder
    BY <2>3, <2>4
  <2>6. QED
    BY <2>1, <2>2, <2>3, <2>4, <2>5 DEF Answered
<1>4. CASE ReadMem
  <2>1. /\ state_q = "READ_MEM" /\ Len(rbeats') = BeatsDue /\ bsent' = bsent
        /\ \A i \in 1 .. BeatsDue : rbeats'[i] = MemBeat(i)
    BY <1>4, EndMem
  <2>2. /\ holder.kind \notin {"CleanUnique", "WriteUnique"}
        /\ holder.kind = "AtomicLoad" => bsent = 1
        /\ holder.kind # "AtomicLoad" => data_available = {} \/ Lock(holder)
    BY <2>1, AnswerKinds
  <2>3. BeatsDue = (IF Single(holder) THEN 1 ELSE 2) /\ 1 \in 1 .. BeatsDue
    BY DEF BeatsDue
  <2>4. \A i \in 1 .. BeatsDue :
          /\ rbeats'[i].src = Mem
          /\ rbeats'[i].word = IF Single(holder) THEN Offset(holder) ELSE i - 1
          /\ rbeats'[i].last = IF i = BeatsDue THEN 1 ELSE 0
    BY <2>1 DEF MemBeat
  <2>5. rbeats'[1].src = Mem
    BY <2>3, <2>4
  <2>6. CASE holder.kind = "AtomicLoad"
    <3>1. BeatsDue = 1 /\ rbeats'[1].last = 1
      BY <2>3, <2>4, <2>6 DEF Single
    <3>2. QED
      BY <2>1, <2>2, <2>5, <2>6, <3>1 DEF Answered
  <2>7. CASE holder.kind # "AtomicLoad"
    BY <2>1, <2>2, <2>3, <2>4, <2>5, <2>7 DEF Answered
  <2>8. QED
    BY <2>6, <2>7
<1>5. QED
  BY <1>1, <1>2, <1>3, <1>4, LastStep

\* No transaction ends before the initiator has its complete answer: the right
\* beats, in order, from one source, and B for writes and atomics.
THEOREM CompleteAnswerHolds == Spec => CompleteAnswer
<1>1. IndInv /\ DataInv /\ [Next]_vars => [state_q # "IDLE" /\ state_q' = "IDLE" => Answered]_vars
  BY AnswerStep
<1>2. QED
  BY <1>1, DataInvariance, PTL DEF Spec, CompleteAnswer

\* The step that ends a transaction leaves no dirty line behind.
LEMMA DirtyStep ==
  ASSUME IndInv, DataInv, Next, state_q # "IDLE", state_q' = "IDLE", NEW p \in dirty
  PROVE  \/ wbeats' = <<<<Line(p)[1], 0>>, <<Line(p)[2], 1>>>>
         \/ rbeats' # <<>> /\ \A i \in 1 .. Len(rbeats') : rbeats'[i].dirty = 1
<1>1. CASE WaitInvalidR \/ WriteBackMemR
  BY <1>1, EndClean, EndWriteBack
<1>2. CASE ReadMem \/ WriteMem
  <2>1. state_q \in MemStates /\ wbeats' = wbeats
    BY <1>2, EndMem, EndWrite
  <2>2. QED
    BY <2>1 DEF DataInv, InvWBeats
<1>3. CASE ReadSnpData
  <2>1. /\ Len(rbeats') = BeatsDue
        /\ \A i \in 1 .. BeatsDue : rbeats'[i] = SnpBeat(i)
    BY <1>3, EndSnp
  <2>2. Any(dirty) = 1 /\ BeatsDue \in {1, 2}
    BY DEF Any, BeatsDue
  <2>3. \A i \in 1 .. Len(rbeats') : rbeats'[i].dirty = 1
    BY <2>1, <2>2 DEF SnpBeat
  <2>4. rbeats' # <<>>
    BY <2>1, <2>2
  <2>5. QED
    BY <2>3, <2>4
<1>4. QED
  BY <1>1, <1>2, <1>3, LastStep

\* A dirty line that a cache gave up is in memory in full when the transaction
\* ends, or every beat told its new owner that it is dirty.
THEOREM DirtyNotLostHolds == Spec => DirtyNotLost
<1>1. IndInv /\ DataInv /\ [Next]_vars =>
        [state_q # "IDLE" /\ state_q' = "IDLE" =>
           \A p \in dirty :
             \/ wbeats' = <<<<Line(p)[1], 0>>, <<Line(p)[2], 1>>>>
             \/ rbeats' # <<>> /\ \A i \in 1 .. Len(rbeats') : rbeats'[i].dirty = 1]_vars
  BY DirtyStep
<1>2. QED
  BY <1>1, DataInvariance, PTL DEF Spec, DirtyNotLost

\* An offered beat that is not taken stays on the wires: only a request whose
\* initiator may stall is not taken, and for those the condition is stable.
LEMMA HeldStep ==
  ASSUME "ReadOnceLo" \notin MasterStalls,
         IndInv, DataInv, Next, r_valid_o, rbeats' = rbeats
  PROVE  r_valid_o' /\ r_o' = r_o
<1>0. rbeats \in Seq(Beat) /\ r_o \in Beat
  BY RBeatType DEF IndInv, TypeOK
<1>1. Append(rbeats, r_o) # rbeats
  <2>1. Len(Append(rbeats, r_o)) = Len(rbeats) + 1 /\ Len(rbeats) \in Nat
    BY <1>0, AppendFacts
  <2>2. \A k \in Nat : k + 1 # k
    OBVIOUS
  <2>3. QED
    BY <2>1, <2>2
<1>2. CASE state_q = "WAIT_INVALID_R"
  <2>1. cr_valid = Ports /\ ~Lock(holder)
    BY <1>2 DEF r_valid_o
  <2>2. WaitInvalidR
    BY <1>2 DEF Next, IdleTakeAr, IdleTakeAw, IdleWait, DecodeR, DecodeW, SendInvalidR, SendRead,
         SendInvalidW, Send, WaitRespR, WaitInvalidW, WaitResp, SendAxiReqWriteBackR,
         SendAxiReqWriteBackW, SendAxiReqW, SendAxiReqR, SendAxiAw, WriteBackMemR, WriteBackMemW,
         WriteBackMem, ReadSnpData, ReadMem, WriteMem
  <2>3. PICK rr \in RReady :
          /\ Goto(IF cr_valid # Ports \/ (rr = 0 /\ ~Lock(holder)) THEN "WAIT_INVALID_R"
                  ELSE IF data_available # {} THEN "SEND_AXI_REQ_WRITE_BACK_R"
                  ELSE IF Lock(holder) THEN "SEND_AXI_REQ_R" ELSE "IDLE")
          /\ Edge(IF r_valid_o THEN rr ELSE 0, r_o, 0)
    BY <2>2 DEF WaitInvalidR
  <2>4. rr = 0
    BY <1>1, <1>2, <2>3 DEF Edge, RReady
  <2>5. state_q' = "WAIT_INVALID_R" /\ holder' = holder
    BY <2>1, <2>3, <2>4 DEF Goto
  <2>6. cr_valid' = Ports
    BY <1>2, <2>1, <2>3 DEF Edge, HoldCr, crFire, cr_ready_o
  <2>7. QED
    BY <1>2, <2>1, <2>5, <2>6 DEF r_valid_o, r_o, Lock
<1>3. CASE state_q = "READ_SNP_DATA"
  <2>1. ReadSnpData
    BY <1>3 DEF Next, IdleTakeAr, IdleTakeAw, IdleWait, DecodeR, DecodeW, SendInvalidR, SendRead,
         SendInvalidW, Send, WaitRespR, WaitInvalidW, WaitResp, SendAxiReqWriteBackR,
         SendAxiReqWriteBackW, SendAxiReqW, SendAxiReqR, SendAxiAw, WriteBackMemR, WriteBackMemW,
         WriteBackMem, WaitInvalidR, ReadMem, WriteMem
  <2>2. PICK rr \in RReady :
          /\ Goto(IF cd_last = data_available /\ (r_eot = 1 \/ (rr = 1 /\ r_last = 1))
                  THEN "IDLE" ELSE "READ_SNP_DATA")
          /\ Edge(IF r_valid_o THEN rr ELSE 0, r_o, 0)
    BY <2>1 DEF ReadSnpData
  <2>3. rr = 0
    BY <1>1, <1>3, <2>2 DEF Edge, RReady
  <2>4. holder.kind # "ReadOnceLo"
    BY <2>2, <2>3 DEF RReady
  <2>5. r_eot = 0
    BY <1>3 DEF r_valid_o
  <2>6. state_q' = "READ_SNP_DATA" /\ holder' = holder
    BY <2>2, <2>3, <2>5 DEF Goto
  <2>7. Edge(0, r_o, 0) /\ 0 \in Bit /\ 0 + 0 = 0
    BY <2>2, <2>3 DEF Bit
  <2>8. /\ EdgeTyped /\ LookUps /\ HoldCr /\ HoldCd(0)
        /\ \A p \in Ports : PortStep(p)
    BY <1>0, <2>7, EdgeFacts
  <2>9. UNCHANGED <<data_available, shared, dirty, first_responder>>
    BY <1>3, <2>8, GivenKept
  <2>10. /\ Got \in 0..2
         /\ stored_cd_data' = (stored_cd_data + Push + 4 - 0) % 4
         /\ \A w \in Bit : w < Got => cd_data'[w] = cd_data[w]
    BY <1>3, <2>8, <2>9, BufferStep
  <2>11. UNCHANGED <<r_last, r_eot>>
    BY <1>3, <2>7 DEF Edge, CountR
  <2>12. /\ stored_cd_data # 0 /\ Len(rbeats) < BeatsDue
         /\ (IF Single(holder) THEN Offset(holder) ELSE r_last) < Got
    BY <1>3, OfferedBeat
  <2>13. stored_cd_data + Len(rbeats) = Got /\ stored_cd_data \in 0..3 /\ Len(rbeats) \in Nat
    BY <1>0, <1>3 DEF DataInv, InvRBeats, IndInv, TypeOK
  <2>14. Push \in 0..1 /\ Got + Push <= 2 /\ (Got = 2 => Push = 0)
    BY <2>10 DEF Push
  <2>15. stored_cd_data' = stored_cd_data + Push
    <3>1. stored_cd_data + Push \in 0..3 /\ stored_cd_data + Push + 4 - 0 = (stored_cd_data + Push) + 4
      BY <2>10, <2>13, <2>14
    <3>2. \A k \in 0..3 : (k + 4) % 4 = k
      OBVIOUS
    <3>3. QED
      BY <2>10, <3>1, <3>2
  <2>16. r_valid_o'
    <3>1. CASE Single(holder)
      <4>1. stored_cd_data = Offset(holder) + 1
        BY <1>3, <3>1 DEF r_valid_o
      <4>2. holder.kind = "ReadOnceHi"
        BY <1>3, <2>4, <3>1, AnswerKinds DEF Single, Lock
      <4>3. stored_cd_data = 2
        BY <4>1, <4>2 DEF Offset
      <4>4. Len(rbeats) = 0 /\ Got = 2
        BY <2>10, <2>13, <4>3
      <4>5. stored_cd_data' = 2
        BY <2>14, <2>15, <4>3, <4>4
      <4>6. QED
        BY <2>5, <2>6, <2>11, <3>1, <4>2, <4>5 DEF r_valid_o, Single, Offset
    <3>2. CASE ~Single(holder)
      <4>1. stored_cd_data' # 0
        BY <2>12, <2>13, <2>14, <2>15
      <4>2. QED
        BY <2>5, <2>6, <2>11, <3>2, <4>1 DEF r_valid_o, Single
    <3>3. QED
      BY <3>1, <3>2
  <2>17. r_o' = r_o
    <3> DEFINE w == IF Single(holder) THEN Offset(holder) ELSE r_last
    <3>1. w \in Bit /\ w < Got
      BY <2>12 DEF Offset, Bit, IndInv, TypeOK
    <3>2. cd_data'[w] = cd_data[w]
      BY <2>10, <3>1
    <3>3. (Single(holder))' = Single(holder) /\ (Offset(holder))' = Offset(holder)
      BY <2>6
    <3>4. (Any(shared))' = Any(shared) /\ (Any(dirty))' = Any(dirty)
      BY <2>9
    <3>5. QED
      BY <1>3, <2>6, <2>11, <3>2, <3>3, <3>4 DEF r_o
  <2>18. QED
    BY <2>16, <2>17
<1>4. QED
  BY <1>2, <1>3 DEF r_valid_o

\* The CCU holds an R beat it offers until the initiator takes it, provided the
\* uncached read of the lower word is always taken at once: axi_adapter, the only
\* master of this SoC, never lowers r_ready.
THEOREM RBeatHeldHolds == "ReadOnceLo" \notin MasterStalls => (Spec => RBeatHeld)
<1> SUFFICES ASSUME "ReadOnceLo" \notin MasterStalls PROVE Spec => RBeatHeld
  OBVIOUS
<1>1. IndInv /\ DataInv /\ [Next]_vars =>
        [r_valid_o /\ rbeats' = rbeats => r_valid_o' /\ r_o' = r_o]_vars
  BY HeldStep
<1>2. QED
  BY <1>1, DataInvariance, PTL DEF Spec, RBeatHeld
=============================================================================
