---------------------------- MODULE SedpValidator ----------------------------
(***************************************************************************)
(* SedpValidator: validate_sedp_packet of tools/validate_sedp.py, a pure   *)
(* function of a classified DATA submessage and its decoded parameters.    *)
(* Issues and warnings are kept as records naming what the printed text    *)
(* names, in the order the code appends them.                              *)
(***************************************************************************)
EXTENDS Integers, Sequences, SequencesExt, RtpsTables

MissingIssue(pid, name) == [what |-> "missing", pid |-> pid, name |-> name]
EmptyTopicIssue == [what |-> "empty_topic", pid |-> PID_TOPIC_NAME, name |-> ""]
EmptyTypeIssue  == [what |-> "empty_type", pid |-> PID_TYPE_NAME, name |-> ""]
SeqZeroWarning  == "sequence_number_zero"

(* not decoded or decoded == '<decode error>', with decoded defaulting to  *)
(* '' when the parameter has no decoded value.                             *)
NameUnusable(p) ==
    \/ p.decoded.kind \in {"none", "error"}
    \/ p.decoded.kind = "str" /\ p.decoded.chars = <<>>

(* The sequence number is struct.unpack('<Q', ...) of 8 bytes; it is 0    *)
(* exactly when every byte is.                                             *)
SeqNumIsZero(sn) == \A i \in DOMAIN sn : sn[i] = 0

RequiredFor(entity_type) ==
    IF entity_type = "SEDP_PUB" THEN REQUIRED_SEDP_WRITER_PIDS
                                ELSE REQUIRED_SEDP_READER_PIDS

MissingIssues(required, params) ==
    LET found == {params[i].pid : i \in DOMAIN params}
    IN  FoldLeft(LAMBDA acc, r : IF r[1] \in found THEN acc
                                 ELSE Append(acc, MissingIssue(r[1], r[2])),
                 <<>>, required)

NameIssues(params) ==
    FoldLeft(LAMBDA acc, p :
                 acc \o (IF p.pid = PID_TOPIC_NAME /\ NameUnusable(p)
                         THEN <<EmptyTopicIssue>> ELSE <<>>)
                     \o (IF p.pid = PID_TYPE_NAME /\ NameUnusable(p)
                         THEN <<EmptyTypeIssue>> ELSE <<>>),
             <<>>, params)

(* validate_sedp_packet(submsg, params) = (issues, warnings)               *)
validate_sedp_packet(entity_type, sequence_number, params) ==
    IF entity_type \notin {"SEDP_PUB", "SEDP_SUB"}
    THEN [issues |-> <<>>, warnings |-> <<>>]
    ELSE [issues |-> MissingIssues(RequiredFor(entity_type), params)
                         \o NameIssues(params),
          warnings |-> IF SeqNumIsZero(sequence_number)
                       THEN <<SeqZeroWarning>> ELSE <<>>]
=============================================================================
