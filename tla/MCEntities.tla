---------------------------- MODULE MCEntities ----------------------------
(***************************************************************************)
(* Model-checking harness for Entities: every sequence of binding calls   *)
(* that allocates at most MaxHandles native handles.                       *)
(***************************************************************************)
EXTENDS Entities

(* Five handles hold a participant with a publisher and its writer, a     *)
(* reader or a subscriber, and its status or read condition, or two       *)
(* participants.                                                           *)
MCMaxHandles == 5
=============================================================================
