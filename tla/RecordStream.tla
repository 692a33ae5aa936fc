---------------------------- MODULE RecordStream ----------------------------
(***************************************************************************)
(* What a decoder of a length-prefixed record stream promises, stated over *)
(* the records a writer put on the wire rather than over bytes.  Three    *)
(* loops of tools/validate_sedp.py are such decoders: the capture reader   *)
(* (read_pcap), the submessage walk (parse_submessages) and the            *)
(* parameter-list walk (parse_cdr_parameter_list).                         *)
(*                                                                         *)
(* input is the list of records whose header lies inside the captured     *)
(* bytes, each as far as the capture holds it.  The decoder returns these  *)
(* records in order up to the first end record, which it returns too when  *)
(* KeepEnd holds, and then stops.                                          *)
(***************************************************************************)
EXTENDS Integers, Sequences

CONSTANTS
    Records,   \* the records a stream may hold
    IsEnd(_),  \* the record that ends the stream
    KeepEnd    \* whether the end record is returned

VARIABLES input, out, done

avars == <<input, out, done>>

Init ==
    /\ input \in Seq(Records)
    /\ out = <<>>
    /\ done = FALSE

NextRecord == input[Len(out) + 1]

(* A record is returned; a kept end record is returned as the last one.   *)
Emit ==
    /\ ~done
    /\ Len(out) < Len(input)
    /\ KeepEnd \/ ~IsEnd(NextRecord)
    /\ out' = Append(out, NextRecord)
    /\ done' = (KeepEnd /\ IsEnd(NextRecord))
    /\ UNCHANGED input

(* The stream ends: no record left, or an end record that is not kept.    *)
Stop ==
    /\ ~done
    /\ Len(out) = Len(input) \/ (~KeepEnd /\ IsEnd(NextRecord))
    /\ done' = TRUE
    /\ UNCHANGED <<input, out>>

Next == Emit \/ Stop

Spec == Init /\ [][Next]_avars /\ WF_avars(Next)
=============================================================================
