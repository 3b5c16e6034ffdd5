-------------------------- MODULE MCCacheSubsystem --------------------------
(***************************************************************************)
(* CacheSubsystem with the two adapters of a core.                         *)
(***************************************************************************)
EXTENDS CacheSubsystem

CONSTANTS data, bypass

MCBeats == [m \in Masters |-> IF m = data THEN 2 ELSE 1]
MCKinds == [m \in Masters |-> IF m = data THEN {"READ", "CLEAN", "WRITE"}
                                         ELSE {"READ", "WRITE", "AMO"}]
=============================================================================
