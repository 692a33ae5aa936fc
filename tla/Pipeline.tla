------------------------------ MODULE Pipeline ------------------------------
(***************************************************************************)
(* Reporter: analyze_pcap of tools/validate_sedp.py.  For each captured    *)
(* packet in order: decapsulate, check the RTPS header, walk the           *)
(* submessages (the Submessages machine), then for each DATA submessage    *)
(* count SPDP and SEDP announcements and, for SEDP, decode the parameter   *)
(* list (the ParameterList machine) and validate it.  A report keeps what  *)
(* the printed block says: packet, role, the parameters' ids and names,    *)
(* the issues and the warnings.                                            *)
(***************************************************************************)
EXTENDS Integers, Sequences, Frames, SedpValidator

CONSTANTS
    Captures,        \* the packet lists read_pcap may return (frame bytes)
    MaxSubmessages,  \* bounds of the two loops, as in their modules
    MaxParams

VARIABLES
    packets,      \* read_pcap's list of frames
    pkt,          \* index of the packet being analysed
    phase,        \* "packet", "walk", "decode" or "done" (summary printed)
    si,           \* index into the packet's submessages (the for loop)
    rtps_count, spdp_count, sedp_count,
    reports,      \* one per SEDP announcement, in order
    sm_data, sm_offset, sm_subs, sm_pc,        \* parse_submessages
    pl_data, pl_offset, pl_params, pl_pc       \* parse_cdr_parameter_list

sm_vars == <<sm_data, sm_offset, sm_subs, sm_pc>>
pl_vars == <<pl_data, pl_offset, pl_params, pl_pc>>
rep_vars == <<packets, pkt, phase, si, rtps_count, spdp_count, sedp_count, reports>>
vars == <<rep_vars, sm_vars, pl_vars>>

SM == INSTANCE Submessages
        WITH data <- sm_data, offset <- sm_offset, submessages <- sm_subs,
             pc <- sm_pc, Messages <- {}
PL == INSTANCE ParameterList
        WITH data <- pl_data, offset <- pl_offset, params <- pl_params,
             pc <- pl_pc, Payloads <- {}

(* The UDP payload of an RTPS packet, or NotApplicable for a frame the     *)
(* three parsers skip.                                                     *)
RtpsPayload(frame) ==
    LET ip  == parse_ethernet(frame)
        udp == IF ip.ok THEN parse_ip(ip.bytes) ELSE NotApplicable
    IN  IF udp.ok THEN parse_rtps_header(udp.bytes) ELSE NotApplicable

(* SPDP announcements are counted before the SEDP test; both the data      *)
(* readers and writers of SEDP are validated.                              *)
IsSedpOrBuiltin(t) == t \in {"SEDP_PUB", "SEDP_SUB", "BUILTIN"}
IsSedp(t) == t \in {"SEDP_PUB", "SEDP_SUB"}

Sub == sm_subs[si]
EntityType == Sub.fields.entity_type   \* submsg.get('entity_type', 'UNKNOWN')

-----------------------------------------------------------------------------

Init ==
    /\ packets \in Captures
    /\ pkt = 1
    /\ phase = "packet"
    /\ si = 1
    /\ rtps_count = 0 /\ spdp_count = 0 /\ sedp_count = 0
    /\ reports = <<>>
    /\ SM!InitWith(<<>>, 20)
    /\ PL!InitWith(<<>>)

(* A frame that is not Ethernet/IPv4/UDP/RTPS: continue.                   *)
SkipPacket ==
    /\ phase = "packet"
    /\ pkt <= Len(packets)
    /\ ~RtpsPayload(packets[pkt]).ok
    /\ pkt' = pkt + 1
    /\ UNCHANGED <<packets, phase, si, rtps_count, spdp_count, sedp_count,
                   reports, sm_vars, pl_vars>>

(* An RTPS packet is counted and its submessages walked from offset 20.    *)
StartPacket ==
    /\ phase = "packet"
    /\ pkt <= Len(packets)
    /\ RtpsPayload(packets[pkt]).ok
    /\ rtps_count' = rtps_count + 1
    /\ sm_data' = RtpsPayload(packets[pkt]).bytes
    /\ sm_offset' = 20
    /\ sm_subs' = <<>>
    /\ sm_pc' = "loop"
    /\ phase' = "walk"
    /\ si' = 1
    /\ UNCHANGED <<packets, pkt, spdp_count, sedp_count, reports, pl_vars>>

(* One iteration of parse_submessages.                                     *)
Walk ==
    /\ phase = "walk"
    /\ sm_pc # "done"
    /\ SM!Next
    /\ UNCHANGED <<rep_vars, pl_vars>>

(* A submessage that is not DATA, or DATA of neither SPDP nor SEDP.        *)
SkipSubmessage ==
    /\ phase = "walk"
    /\ sm_pc = "done"
    /\ si <= Len(sm_subs)
    /\ \/ Sub.id # RTPS_SUBMSG_DATA
       \/ EntityType # "SPDP" /\ ~IsSedp(EntityType)
    /\ si' = si + 1
    /\ UNCHANGED <<packets, pkt, phase, rtps_count, spdp_count, sedp_count,
                   reports, sm_vars, pl_vars>>

CountSpdp ==
    /\ phase = "walk"
    /\ sm_pc = "done"
    /\ si <= Len(sm_subs)
    /\ Sub.id = RTPS_SUBMSG_DATA
    /\ EntityType = "SPDP"
    /\ spdp_count' = spdp_count + 1
    /\ si' = si + 1
    /\ UNCHANGED <<packets, pkt, phase, rtps_count, sedp_count, reports,
                   sm_vars, pl_vars>>

(* A SEDP announcement is counted and its payload handed to the decoder.   *)
StartAnnouncement ==
    /\ phase = "walk"
    /\ sm_pc = "done"
    /\ si <= Len(sm_subs)
    /\ Sub.id = RTPS_SUBMSG_DATA
    /\ EntityType # "SPDP"
    /\ IsSedp(EntityType)
    /\ sedp_count' = sedp_count + 1
    /\ pl_data' = Sub.fields.payload
    /\ pl_offset' = 0
    /\ pl_params' = <<>>
    /\ pl_pc' = "start"
    /\ phase' = "decode"
    /\ UNCHANGED <<packets, pkt, si, rtps_count, spdp_count, reports, sm_vars>>

(* One step of parse_cdr_parameter_list.                                   *)
Decode ==
    /\ phase = "decode"
    /\ pl_pc # "done"
    /\ PL!Next
    /\ UNCHANGED <<rep_vars, sm_vars>>

(* validate_sedp_packet on the returned parameters; the block is printed.  *)
Validate ==
    /\ phase = "decode"
    /\ pl_pc = "done"
    /\ LET v == validate_sedp_packet(EntityType, Sub.fields.sequence_number, pl_params)
       IN  reports' = Append(reports,
                [num |-> pkt, sub |-> si, entity_type |-> EntityType,
                 params |-> [i \in DOMAIN pl_params |->
                               [pid |-> pl_params[i].pid, name |-> pl_params[i].name]],
                 issues |-> v.issues, warnings |-> v.warnings])
    /\ si' = si + 1
    /\ phase' = "walk"
    /\ UNCHANGED <<packets, pkt, rtps_count, spdp_count, sedp_count, sm_vars, pl_vars>>

EndPacket ==
    /\ phase = "walk"
    /\ sm_pc = "done"
    /\ si > Len(sm_subs)
    /\ pkt' = pkt + 1
    /\ phase' = "packet"
    /\ UNCHANGED <<packets, si, rtps_count, spdp_count, sedp_count, reports,
                   sm_vars, pl_vars>>

(* Every packet analysed: the summary is printed.                          *)
Summary ==
    /\ phase = "packet"
    /\ pkt > Len(packets)
    /\ phase' = "done"
    /\ UNCHANGED <<packets, pkt, si, rtps_count, spdp_count, sedp_count,
                   reports, sm_vars, pl_vars>>

Next ==
    \/ SkipPacket \/ StartPacket \/ Walk
    \/ SkipSubmessage \/ CountSpdp \/ StartAnnouncement
    \/ Decode \/ Validate \/ EndPacket \/ Summary

(* analyze_pcap runs in one thread and never blocks.                       *)
Spec == Init /\ [][Next]_vars /\ WF_vars(Next)

-----------------------------------------------------------------------------

TypeOK ==
    /\ phase \in {"packet", "walk", "decode", "done"}
    /\ {rtps_count, spdp_count, sedp_count} \subseteq Nat
    /\ \A i \in DOMAIN reports :
          /\ reports[i].entity_type \in {"SEDP_PUB", "SEDP_SUB"}
          /\ reports[i].num \in 1 .. Len(packets)
          /\ \A j \in DOMAIN reports[i].params : reports[i].params[j].pid \in 0 .. 65535
=============================================================================
