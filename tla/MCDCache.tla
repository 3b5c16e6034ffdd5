------------------------------ MODULE MCDCache ------------------------------
(***************************************************************************)
(* DCacheSystem for TLC.  View identifies states that differ only in       *)
(* registers which are written before they are read again, in the contents *)
(* of invalid lines, or by a shift of all versions of a line.              *)
(***************************************************************************)
EXTENDS DCacheSystem

\* The age of version d of line a.
Age(d, a) == (d + Versions - latest[a]) % Versions

LineView(l) == IF l.valid THEN [l EXCEPT !.data = Age(@, l.tag)] ELSE None

SnpView ==
  IF snp.state = "IDLE" THEN None
  ELSE [snp EXCEPT !.way  = IF snp.state \in {"UPDATE_SHARED", "INVALIDATE"} THEN @ ELSE 0,
                   !.data = IF snp.cr.data THEN Age(@, snp.addr) ELSE 0]

CtrlView(c) ==
  IF c.state = "IDLE" THEN <<c.colliding_read, c.colliding_clean>>
  ELSE [c EXCEPT !.way = IF c.state \in {"MAKE_UNIQUE", "STORE_REQ"} THEN @ ELSE 0]

\* The registers of the adapter and of the CCU hold a line on its way to mh.addr.
MhView ==
  [mh EXCEPT
     !.id   = IF mh.valid THEN @ ELSE 0,
     !.addr = IF mh.valid THEN @ ELSE 0,
     !.make_unique = mh.valid /\ @,
     !.way  = IF mh.state \in WbStates \cup ReqStates \cup {"SAVE_CACHELINE"} THEN @ ELSE 0,
     !.cnt  = IF mh.state \in WbStates \cup {"INIT", "FLUSH_REQ_STATUS", "FLUSHING"} THEN @ ELSE 0,
     !.evict = IF mh.state \in WbStates THEN @ ELSE 0,
     !.evict_data = IF mh.state \in WbStates THEN Age(@, mh.evict) ELSE 0]

AdView ==
  CASE ad.state = "WAIT_R" -> <<ad.state, ad.first, ad.word>>
    [] ad.state = "COMPLETE_READ" /\ mh.state # "SEND_CLEAN" ->
         <<ad.state, ad.shared, ad.dirty, Age(ad.data, mh.addr)>>
    [] OTHER -> ad.state

CcuView ==
  [ccu EXCEPT !.resp = IF (ccu.state = "OWN" \/ ccu.rlat # None) /\ mh.state # "SEND_CLEAN"
                       THEN [@ EXCEPT !.data = Age(@, mh.addr)] ELSE None]

RestView(a) == IF rest[a].held = "none" THEN None ELSE [rest[a] EXCEPT !.data = Age(@, a)]

View ==
  <<[s \in Sets |-> [w \in Ways |-> LineView(sram[s][w])]],
    SnpView, [i \in CtrlPorts |-> CtrlView(cc[i])], MhView, AdView, CcuView, core,
    [a \in Addr |-> <<RestView(a), Age(memv[a], a)>>], wb_done>>
=============================================================================
