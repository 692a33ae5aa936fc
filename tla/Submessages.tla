---------------------------- MODULE Submessages ----------------------------
(***************************************************************************)
(* SubmessageDecoder: parse_submessages of tools/validate_sedp.py.  The    *)
(* walk starts after the 20-byte RTPS header and reads one submessage per  *)
(* iteration: id, flags, octetsToNextHeader (16-bit little-endian), the    *)
(* body, and for a DATA submessage of at least 20 bytes the DATA fields,   *)
(* the writer's classification and the serialized payload.                *)
(***************************************************************************)
EXTENDS Integers, Sequences, CdrBytes, RtpsTables

CONSTANTS
    Messages,        \* the UDP payloads the walk may be handed
    MaxSubmessages   \* model bound on the list's length; a correct walk of
                     \* the checked messages never reaches it

VARIABLES
    data,         \* the UDP payload
    offset,       \* the loop's cursor
    submessages,  \* the list returned so far
    pc            \* "loop" or "done" (returned)

vars == <<data, offset, submessages, pc>>

(* The payload taken from octets_to_inline_qos whenever that reaches the  *)
(* standard 16, as if it counted from the start of the body.               *)
PayloadStartFrom16(qos) == IF qos >= 16 THEN qos ELSE 20

(* Where the serialized payload starts in the body: at                     *)
(* octets_to_inline_qos when that is at least 20, else at 20.  The         *)
(* inline-QoS flag is not consulted.                                       *)
PayloadStart(qos) == IF qos >= 20 THEN qos ELSE 20

(* The DATA fields of a body of at least 20 bytes.  sequence_number is     *)
(* struct.unpack('<Q', body[12:20]): kept as its 8 bytes, least            *)
(* significant first.                                                      *)
DataFields(body) ==
    LET qos == U16LE(body, 2)
        wid == U32BE(body, 8)
    IN  [parsed               |-> TRUE,
         extra_flags          |-> U16LE(body, 0),
         octets_to_inline_qos |-> qos,
         reader_id            |-> U32BE(body, 4),
         writer_id            |-> wid,
         sequence_number      |-> Slice(body, 12, 20),
         entity_type          |-> classify_entity_id(wid),
         payload              |-> Slice(body, PayloadStart(qos), Len(body))]

(* The keys a submessage without DATA fields lacks, at the defaults the    *)
(* Reporter reads them with (submsg.get('entity_type', 'UNKNOWN'), ...).   *)
NoDataFields ==
    [parsed |-> FALSE, extra_flags |-> 0, octets_to_inline_qos |-> 0,
     reader_id |-> 0, writer_id |-> 0, sequence_number |-> <<>>,
     entity_type |-> "UNKNOWN", payload |-> <<>>]

(* octetsToNextHeader read big-endian, as a big-endian sender writes it.   *)
OctetsBE(buf, o) == U16BE(buf, o + 2)

(* octetsToNextHeader of the submessage at cursor o.                       *)
Octets(buf, o) == U16LE(buf, o + 2)

(* The submessage record read at cursor o.                                 *)
SubmessageAt(buf, o) ==
    LET id     == buf[o + 1]
        octets == Octets(buf, o)
        body   == IF octets > 0 THEN Slice(buf, o + 4, o + 4 + octets) ELSE <<>>
    IN  [id |-> id, flags |-> buf[o + 2], length |-> octets, data |-> body,
         offset |-> o,
         fields |-> IF id = RTPS_SUBMSG_DATA /\ Len(body) >= 20
                    THEN DataFields(body) ELSE NoDataFields]


-----------------------------------------------------------------------------

InitWith(payload, start) ==
    /\ data = payload
    /\ offset = start
    /\ submessages = <<>>
    /\ pc = "loop"

(* rtps['submessages_offset'] is always 20.                                *)
Init == \E m \in Messages : InitWith(m, 20)

(* while offset < len(data) fails.                                         *)
EndOfData ==
    /\ pc = "loop"
    /\ offset >= Len(data)
    /\ pc' = "done"
    /\ UNCHANGED <<data, offset, submessages>>

(* if offset + 4 > len(data): break                                        *)
ShortHeader ==
    /\ pc = "loop"
    /\ offset < Len(data)
    /\ offset + 4 > Len(data)
    /\ pc' = "done"
    /\ UNCHANGED <<data, offset, submessages>>

(* A submessage is appended and the cursor moves past its body.            *)
ReadSubmessage ==
    /\ pc = "loop"
    /\ offset + 4 <= Len(data)
    /\ Octets(data, offset) > 0
    /\ Len(submessages) < MaxSubmessages
    /\ submessages' = Append(submessages, SubmessageAt(data, offset))
    /\ offset' = offset + 4 + Octets(data, offset)
    /\ UNCHANGED <<data, pc>>

(* A submessage with octets_to_next == 0 is appended and ends the walk.    *)
ReadLastSubmessage ==
    /\ pc = "loop"
    /\ offset + 4 <= Len(data)
    /\ Octets(data, offset) = 0
    /\ Len(submessages) < MaxSubmessages
    /\ submessages' = Append(submessages, SubmessageAt(data, offset))
    /\ pc' = "done"
    /\ UNCHANGED <<data, offset>>

Next ==
    \/ EndOfData
    \/ ShortHeader
    \/ ReadSubmessage
    \/ ReadLastSubmessage

(* The walk is a plain loop in one thread: it is never blocked.            *)
Spec == Init /\ [][Next]_vars /\ WF_vars(Next)

-----------------------------------------------------------------------------

TypeOK ==
    /\ data \in Seq(Byte)
    /\ offset \in Nat
    /\ pc \in {"loop", "done"}
    /\ \A i \in DOMAIN submessages :
          /\ submessages[i].id \in Byte
          /\ submessages[i].length \in 0 .. 65535
          /\ submessages[i].data \in Seq(Byte)
          /\ submessages[i].fields.writer_id \in 0 .. U32Big
          /\ submessages[i].fields.entity_type \in Roles \cup {"UNKNOWN"}
=============================================================================
