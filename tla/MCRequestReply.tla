--------------------------- MODULE MCRequestReply ---------------------------
(***************************************************************************)
(* Two clients, each with its own client id (the slot itself), run once,  *)
(* and one server slot run twice, which stops after ServeLimit requests   *)
(* and whose second run receives the clients' request histories again.   *)
(***************************************************************************)
EXTENDS RequestReply, TLC

CONSTANTS c1, c2, s1

MCClients == {c1, c2}
MCServers == {s1}
MCClientId == [c \in MCClients |-> c]
MCMaxRuns == (c1 :> 1) @@ (c2 :> 1) @@ (s1 :> 2)
(* The client slot c1 run a second time with the same arguments.          *)
MCMaxRunsRerun == (c1 :> 2) @@ (c2 :> 1) @@ (s1 :> 1)
MCSymmetry == Permutations(MCClients)
====
