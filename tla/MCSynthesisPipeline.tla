------------------------ MODULE MCSynthesisPipeline ------------------------
(***************************************************************************)
(* Model checking of SynthesisPipeline on small instances.                 *)
(***************************************************************************)
EXTENDS SynthesisPipeline

\* Speeds are only compared for equality: which of them is the first makes no
\* difference.
MCInit == speed = (CHOOSE s \in Speeds : TRUE) /\ Init

MCSpec == MCInit /\ [][Next]_vars

=============================================================================
