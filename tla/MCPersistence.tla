---------------------------- MODULE MCPersistence ----------------------------
(***************************************************************************)
(* Persistence for TLC.                                                    *)
(***************************************************************************)
EXTENDS Persistence

MCBackups == {<<i>> : i \in Ids}

Symmetric == Permutations(Ids) \union Permutations(Callers)
=============================================================================
