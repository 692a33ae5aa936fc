----------------------------- MODULE MCReaders -----------------------------
(***************************************************************************)
(* The three record-stream decoders of tools/validate_sedp.py checked in   *)
(* one model: the capture reader (MCPcapReader), the parameter-list walk   *)
(* (MCParameterList) and the submessage walk (MCSubmessages), each an      *)
(* instance of its harness over variables of its own.                      *)
(*                                                                         *)
(* In every behaviour one decoder is handed every input of its harness    *)
(* and the other two the shortest input theirs writes (an empty capture,  *)
(* an empty payload, a bare RTPS header), on which they return at once.   *)
(* The decoders share no state; the tool calls them one inside another,   *)
(* and interleaving their steps adds no behaviour of any one of them.     *)
(***************************************************************************)
EXTENDS Naturals

VARIABLES
    f_file, f_pos, f_endian, f_packets, f_pc, f_written,      \* read_pcap
    l_data, l_offset, l_params, l_pc, l_written,              \* parse_cdr_parameter_list
    s_data, s_offset, s_submessages, s_pc, s_written          \* parse_submessages

fvars == <<f_file, f_pos, f_endian, f_packets, f_pc, f_written>>
lvars == <<l_data, l_offset, l_params, l_pc, l_written>>
svars == <<s_data, s_offset, s_submessages, s_pc, s_written>>
rvars == <<fvars, lvars, svars>>

(* The harnesses, over variables of their own.  Their Writes constant    *)
(* only feeds their MCInit, which ReadersInit replaces.                    *)
PC == INSTANCE MCPcapReader
        WITH Writes <- {}, Files <- {}, MaxPackets <- 8,
             file <- f_file, pos <- f_pos, endian <- f_endian, packets <- f_packets,
             pc <- f_pc, written <- f_written
PL == INSTANCE MCParameterList
        WITH Writes <- {}, Payloads <- {}, MaxParams <- 16,
             data <- l_data, offset <- l_offset, params <- l_params,
             pc <- l_pc, written <- l_written
SM == INSTANCE MCSubmessages
        WITH Writes <- {}, Messages <- {}, MaxSubmessages <- 8,
             data <- s_data, offset <- s_offset, submessages <- s_submessages,
             pc <- s_pc, written <- s_written

(* The inputs each harness writes, and the shortest of them.               *)
FileWrites == PC!FileWrites
PayloadWrites == PL!PLWrites
MessageWrites == SM!HonestWrites
FileIdle == [magic |-> PC!MAGIC_LE, order |-> "<", frames |-> <<>>, cut |-> 0]
PayloadIdle == [recs |-> <<>>, cut |-> 0]
MessageIdle == [subs |-> <<>>, cut |-> 20]

(* The decoder under test gets every input; the others the idle one.      *)
Active == {"pcap", "pl", "sm"}
FileWritesFor(a) == IF a = "pcap" THEN FileWrites ELSE {FileIdle}
PayloadWritesFor(a) == IF a = "pl" THEN PayloadWrites ELSE {PayloadIdle}
MessageWritesFor(a) == IF a = "sm" THEN MessageWrites ELSE {MessageIdle}

(* Each harness's MCInit, over the inputs the mode gives its decoder.      *)
ReadersInit ==
    \E a \in Active :
        /\ \E w \in FileWritesFor(a) : f_written = w /\ PC!InitWith(PC!FileOf(w))
        /\ \E w \in PayloadWritesFor(a) : l_written = w /\ PL!InitWith(PL!Payload(w))
        /\ \E w \in MessageWritesFor(a) : s_written = w /\ SM!InitWith(SM!Message(w), 20)

ReadersNext ==
    \/ PC!MCNext /\ UNCHANGED <<lvars, svars>>
    \/ PL!MCNext /\ UNCHANGED <<fvars, svars>>
    \/ SM!MCNext /\ UNCHANGED <<fvars, lvars>>

(* Each decoder is a loop of the tool's one thread that keeps running      *)
(* while it has input: each is weakly fair on its own.                     *)
ReadersSpec ==
    /\ ReadersInit /\ [][ReadersNext]_rvars
    /\ WF_rvars(PC!MCNext /\ UNCHANGED <<lvars, svars>>)
    /\ WF_rvars(PL!MCNext /\ UNCHANGED <<fvars, svars>>)
    /\ WF_rvars(SM!MCNext /\ UNCHANGED <<fvars, lvars>>)

(* The type of every decoder's state.                                      *)
ReadersTypeOK == PC!TypeOK /\ PL!TypeOK /\ SM!TypeOK

(* A topic or type name written as a CDR string and held whole by the     *)
(* capture decodes to exactly the string written, without its NUL.       *)
NamesRoundTrip == PL!NamesRoundTrip

(* Every DATA submessage whose first 20 body bytes the capture holds is   *)
(* classified by the role of the writer entity that wrote it.             *)
DataRolesAsWritten == SM!DataRolesAsWritten

(* read_pcap returns exactly the frames of the whole records, in order,   *)
(* and returns (see MCPcapReader).                                         *)
ReadsWrittenFrames == PC!ReadsWrittenFrames

(* parse_cdr_parameter_list returns exactly the records written before   *)
(* the first sentinel and returns, also on lying lengths (see            *)
(* MCParameterList).                                                       *)
DecodesWrittenRecords == PL!DecodesWrittenRecords

(* parse_submessages returns the submessages written, up to and including *)
(* the first with octetsToNextHeader 0, and returns (see MCSubmessages).  *)
WalksWrittenSubmessages == SM!WalksWrittenSubmessages
=============================================================================
