----------------------------- MODULE MCWaitSets -----------------------------
(* WaitSets with five native handles: a participant, a reader, its       *)
(* status condition, a guard and a waitset, or fewer of some.    *)
EXTENDS WaitSets

MCMaxHandles == 5
=============================================================================
