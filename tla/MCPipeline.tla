----------------------------- MODULE MCPipeline -----------------------------
(***************************************************************************)
(* Small instances of EventPipeline: a transaction that writes two events  *)
(* about milk (it moved, it ran out), one that writes a third about milk   *)
(* and, in some instances, one about eggs.                                 *)
(***************************************************************************)
EXTENDS EventPipeline, TLC

MCSubject == (1 :> "milk") @@ (2 :> "milk") @@ (3 :> "eggs")
MCMilkOnly == (1 :> "milk") @@ (2 :> "milk") @@ (3 :> "milk")
MCTransactions == {{1, 2}, {3}}

Symmetry == Permutations(Relays) \cup Permutations(Workers)
=============================================================================
