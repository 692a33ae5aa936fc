--------------------------- MODULE ParameterList ---------------------------
(***************************************************************************)
(* CdrParameterListDecoder: parse_cdr_parameter_list of                    *)
(* tools/validate_sedp.py.  The decoder is handed the payload slice of a   *)
(* DATA submessage, skips the 4-byte CDR encapsulation header and walks    *)
(* the PID / length / value records until the sentinel PID or the end of   *)
(* the buffer.  One step of the model is one iteration of the while loop.  *)
(***************************************************************************)
EXTENDS Integers, Sequences, CdrBytes, RtpsTables

CONSTANTS
    Payloads,   \* the payload slices the decoder may be handed
    MaxParams   \* model bound on the list's length; a correct decode of
                \* the checked payloads never reaches it

VARIABLES
    data,    \* the payload slice being decoded
    offset,  \* the loop's cursor into data
    params,  \* the list returned so far
    pc       \* "start", "loop" or "done" (returned)

vars == <<data, offset, params, pc>>

(***************************************************************************)
(* The 'decoded' entry of a parameter.  kind "none" is a parameter without *)
(* the key; "error" is '<decode error>'; "str" a decoded name (its         *)
(* characters in chars); "hex" the endpoint GUID as hex digits (in chars); *)
(* "name" a reliability or durability name; "unknown" the durability       *)
(* 'UNKNOWN(kind)' (the kind in chars).                                    *)
(***************************************************************************)
NoDecoded   == [kind |-> "none", chars |-> <<>>, name |-> ""]
DecodeError == [kind |-> "error", chars |-> <<>>, name |-> ""]

(* The string slice taken through the NUL terminator, value[4:4+len].      *)
DecodeNameKeepNul(value) ==
    IF Len(value) < 4
    THEN DecodeError
    ELSE [kind |-> "str", name |-> "",
          chars |-> Utf8DecodeIgnore(Slice(value, 4, 4 + U32LE(value, 0)))]

(* The TOPIC_NAME / TYPE_NAME decoding: a 4-byte length, then that many    *)
(* bytes of which the last (the NUL) is dropped.  The struct.error raised  *)
(* on a value shorter than 4 bytes is caught by the bare except.           *)
DecodeName(value) ==
    IF Len(value) < 4
    THEN DecodeError
    ELSE [kind |-> "str", name |-> "",
          chars |-> Utf8DecodeIgnore(Slice(value, 4, 4 + U32LE(value, 0) - 1))]

DecodeDurability(kind) ==
    IF kind < 4 THEN [kind |-> "name", chars |-> <<>>, name |-> DurabilityNames[kind + 1]]
                ELSE [kind |-> "unknown", chars |-> <<kind>>, name |-> ""]

(* The 'Try to decode common parameter types' chain.                       *)
DecodeValue(pid, value) ==
    CASE pid \in {PID_TOPIC_NAME, PID_TYPE_NAME} -> DecodeName(value)
      [] pid = PID_ENDPOINT_GUID ->
            IF Len(value) >= 16
            THEN [kind |-> "hex", chars |-> Hex(SubSeq(value, 1, 16)), name |-> ""]
            ELSE NoDecoded
      [] pid = RELIABILITY_PID ->
            IF Len(value) >= 12
            THEN [kind |-> "name", chars |-> <<>>,
                  name |-> IF U32LE(value, 0) = 1 THEN "RELIABLE" ELSE "BEST_EFFORT"]
            ELSE NoDecoded
      [] pid = DURABILITY_PID ->
            IF Len(value) >= 4 THEN DecodeDurability(U32LE(value, 0)) ELSE NoDecoded
      [] OTHER -> NoDecoded

(* The value slice: exactly length bytes, or b'' when they overrun data.   *)
ParamValue(buf, o, length) ==
    IF o + 4 + length <= Len(buf) THEN Slice(buf, o + 4, o + 4 + length) ELSE <<>>

(* The parameter record the loop appends at cursor o.                      *)
ParamAt(buf, o) ==
    LET pid    == U16LE(buf, o)
        length == U16LE(buf, o + 2)
        value  == ParamValue(buf, o, length)
    IN  [pid |-> pid, name |-> PidName(pid), length |-> length,
         value |-> value, offset |-> o, decoded |-> DecodeValue(pid, value)]

(* A cursor that skips the padded value but not the 4-byte header.         *)
NextOffsetNoHeader(buf, o) == o + Pad4(U16LE(buf, o + 2))

(* The cursor after the parameter at o: past its header and padded value.  *)
NextOffset(buf, o) == o + 4 + Pad4(U16LE(buf, o + 2))

-----------------------------------------------------------------------------

InitWith(payload) ==
    /\ data = payload
    /\ offset = 0
    /\ params = <<>>
    /\ pc = "start"

Init == \E p \in Payloads : InitWith(p)

(* if len(data) < 4: return []                                             *)
TooShort ==
    /\ pc = "start"
    /\ Len(data) < 4
    /\ pc' = "done"
    /\ UNCHANGED <<data, offset, params>>

(* The encapsulation header is read and skipped: offset = 4.               *)
SkipEncapsulation ==
    /\ pc = "start"
    /\ Len(data) >= 4
    /\ offset' = 4
    /\ pc' = "loop"
    /\ UNCHANGED <<data, params>>

(* The while condition offset + 4 <= len(data) fails.                      *)
EndOfBuffer ==
    /\ pc = "loop"
    /\ offset + 4 > Len(data)
    /\ pc' = "done"
    /\ UNCHANGED <<data, offset, params>>

(* if pid == 0x0001: break                                                 *)
SentinelReached ==
    /\ pc = "loop"
    /\ offset + 4 <= Len(data)
    /\ U16LE(data, offset) = PID_SENTINEL
    /\ pc' = "done"
    /\ UNCHANGED <<data, offset, params>>

(* One parameter: decoded, appended, and the cursor advanced.              *)
ReadParameter ==
    /\ pc = "loop"
    /\ offset + 4 <= Len(data)
    /\ U16LE(data, offset) # PID_SENTINEL
    /\ Len(params) < MaxParams
    /\ params' = Append(params, ParamAt(data, offset))
    /\ offset' = NextOffset(data, offset)
    /\ UNCHANGED <<data, pc>>

Next ==
    \/ TooShort
    \/ SkipEncapsulation
    \/ EndOfBuffer
    \/ SentinelReached
    \/ ReadParameter

(* The decoder is a plain loop in one thread: it is never blocked.         *)
Spec == Init /\ [][Next]_vars /\ WF_vars(Next)

-----------------------------------------------------------------------------

DecodedKinds == {"none", "error", "str", "hex", "name", "unknown"}

TypeOK ==
    /\ data \in Seq(Byte)
    /\ offset \in Nat
    /\ pc \in {"start", "loop", "done"}
    /\ \A i \in DOMAIN params :
          /\ params[i].pid \in 0 .. 65535
          /\ params[i].length \in 0 .. 65535
          /\ params[i].value \in Seq(Byte)
          /\ params[i].decoded.kind \in DecodedKinds
=============================================================================
