--------------------------- MODULE MCPersistence ---------------------------
(***************************************************************************)
(* The instances of module Persistence.                                     *)
(***************************************************************************)
EXTENDS MCFabric, Persistence, TLC

SaverSymmetry == Permutations(Savers)

\* A pool, and a region that may be declared again, so that what is restored
\* differs from what was last in memory.
MCOperators == [epoch : Epochs, worker : {Null}, boot : {Null}]

\* Healthy evidence on the first generation of the provider.
MCRestartEvidence ==
  {EvidenceOf(r, rg, p, 1, e, Null, Null, 1, "HEALTHY", RegionBytes) :
     r \in Regions, rg \in Generations, p \in Providers, e \in Epochs}

\* Everything that may happen; the same for one save at a time; and saves at once
\* where nothing fails and an open file stays.
MCSurroundings ==
  {[overlap |-> TRUE, failure |-> TRUE, move |-> TRUE],
   [overlap |-> FALSE, failure |-> TRUE, move |-> TRUE],
   [overlap |-> TRUE, failure |-> FALSE, move |-> FALSE]}

\* Windows, where an open file stays, with a disk that may be full.
MCFullDisk == {[overlap |-> TRUE, failure |-> TRUE, move |-> FALSE]}
=============================================================================
