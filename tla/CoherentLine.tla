---------------------------- MODULE CoherentLine ----------------------------
(***************************************************************************)
(* What the coherent system promises for one cache line: it behaves like a *)
(* single copy in memory.  A load returns the value stored last, a store   *)
(* and an atomic operation act on that value, and nothing else changes it. *)
(* A value is the number of stores in it, modulo Versions: a store merges  *)
(* bytes into the line, so it makes the successor of the value it found.   *)
(***************************************************************************)
EXTENDS Naturals

CONSTANT Versions

VARIABLES
  val,   \* the value of the line
  rd,    \* the value returned last, to any core
  stores \* the number of stores and atomics the cores have completed

Init == val = 0 /\ rd = 0 /\ stores = 0

Write == val' = (val + 1) % Versions /\ stores' = (stores + 1) % Versions

Load  == rd' = val /\ UNCHANGED <<val, stores>>
Store == Write /\ UNCHANGED rd
Amo   == Write /\ rd' = val

Next == Load \/ Store \/ Amo

Spec == Init /\ [][Next]_<<val, rd, stores>>
=============================================================================
