-------------------------- MODULE MCParameterList --------------------------
(***************************************************************************)
(* Model-checking harness for ParameterList.  Payloads are produced by a   *)
(* PL_CDR writer from a list of records and then cut at every byte         *)
(* position, as a capture truncates them.  The written records are kept in *)
(* the ghost variable written, from which the refinement mapping to        *)
(* RecordStream is computed.                                      *)
(***************************************************************************)
EXTENDS ParameterList, SequencesExt, FiniteSets

CONSTANT Writes     \* the writer inputs: [recs |-> records, cut |-> bytes kept]

VARIABLE written

mcvars == <<vars, written>>

(* A record on the wire: pid, the declared length and the value bytes.     *)
(* str is the string a name parameter was written from.                   *)
Rec(pid, value) == [pid |-> pid, declared |-> Len(value), value |-> value, str |-> <<>>]

(* A CDR string: 4-byte length counting the NUL, the characters, the NUL.  *)
NameRec(pid, str) ==
    LET value == <<Len(str) + 1, 0, 0, 0>> \o str \o <<0>>
    IN  [pid |-> pid, declared |-> Len(value), value |-> value, str |-> str]

TopicEmpty  == NameRec(PID_TOPIC_NAME, <<>>)                  \* "" (length 5)
TopicName   == NameRec(PID_TOPIC_NAME, <<65>>)                \* "A"
TopicBadUtf == Rec(PID_TOPIC_NAME, <<2, 0, 0, 0, 128, 0>>)    \* stray 0x80
TypeName    == NameRec(PID_TYPE_NAME, <<66, 67>>)             \* "BC"
TypeShort   == Rec(PID_TYPE_NAME, <<2, 0>>)                   \* < 4 bytes
Guid        == Rec(PID_ENDPOINT_GUID, [i \in 1 .. 16 |-> 1])
Reliable    == Rec(RELIABILITY_PID, <<1, 0, 0, 0, 0, 0, 0, 0, 0, 0, 0, 0>>)
DurUnknown  == Rec(DURABILITY_PID, <<7, 0, 0, 0>>)
Related     == Rec(32768, <<65, 65, 65>>)                     \* pid 0x8000, length 3
InlineQos   == Rec(80, <<>>)                                  \* length 0
Sentinel    == Rec(PID_SENTINEL, <<>>)

(* Records whose declared length is not their value's length.              *)
Lie(r, declared) == [r EXCEPT !.declared = declared]

(* The writer's own padding, counted independently of the decoder's Pad4.  *)
PaddingLen(n) == (4 - (n % 4)) % 4
Zeros(n) == [i \in 1 .. n |-> 0]

EncodeParam(r) ==
    <<r.pid % 256, r.pid \div 256, r.declared % 256, r.declared \div 256>>
        \o r.value \o Zeros(PaddingLen(Len(r.value)))

(* Encapsulation header PL_CDR_LE (0x0003) and options, then the records.  *)
Encoding(recs) == FoldLeft(LAMBDA acc, r : acc \o EncodeParam(r), <<0, 3, 0, 0>>, recs)

Payload(w) == SubSeq(Encoding(w.recs), 1, w.cut)

(* Every cut of every list of at most n records drawn from R.              *)
CutsOf(R, n) ==
    UNION {{[recs |-> rs, cut |-> c] : c \in 0 .. Len(Encoding(rs))} : rs \in BoundedSeq(R, n)}

MCPayloads == {Payload(w) : w \in Writes}

(* Where record i's header starts in the encoding.                         *)
Start(recs, i) ==
    FoldLeft(LAMBDA a, r : a + Len(EncodeParam(r)), 4, SubSeq(recs, 1, i - 1))

(* The records the capture holds a header of, and their values as far as   *)
(* the capture holds them.                                                 *)
AbsInput(w) ==
    LET k == Cardinality({i \in DOMAIN w.recs : Start(w.recs, i) + 4 <= w.cut})
        Whole(i) == Start(w.recs, i) + 4 + Len(w.recs[i].value) <= w.cut
    IN  [i \in 1 .. k |-> [pid |-> w.recs[i].pid,
                           value |-> IF Whole(i) THEN w.recs[i].value ELSE <<>>]]

MCInit ==
    \E w \in Writes :
        /\ written = w
        /\ InitWith(Payload(w))

MCNext == Next /\ UNCHANGED written

MCSpec == MCInit /\ [][MCNext]_mcvars /\ WF_mcvars(MCNext)

(* The refinement mapping.  When a record's declared length is not the    *)
(* length of its value the wire no longer says what the writer meant: the *)
(* abstract stream is then empty and the mapping asks only that the decode *)
(* ends (out stays empty, done goes from FALSE to TRUE once).              *)
IsSentinel(r) == r.pid = PID_SENTINEL

Honest(w) == \A i \in DOMAIN w.recs : w.recs[i].declared = Len(w.recs[i].value)

PLA == INSTANCE RecordStream
         WITH Records <- [pid : 0 .. 65535, value : Seq(Byte)],
              IsEnd <- IsSentinel,
              KeepEnd <- FALSE,
              input <- IF Honest(written) THEN AbsInput(written) ELSE <<>>,
              out <- IF Honest(written)
                     THEN [i \in DOMAIN params |-> [pid |-> params[i].pid, value |-> params[i].value]]
                     ELSE <<>>,
              done <- (pc = "done")

(* On every capture of a parameter list whose lengths are honest,          *)
(* truncated or not, parse_cdr_parameter_list returns exactly the records  *)
(* the writer put before the first sentinel, each with the value it was    *)
(* written with (or empty when the capture cuts it), and returns; on a     *)
(* list with a lying length it still returns.  This is the round trip of   *)
(* the pad4 alignment, the header skip and the sentinel stop, and the      *)
(* termination of the offset loop.                                         *)
DecodesWrittenRecords == PLA!Spec

(* The round trip of section 8 of the design: a TOPIC_NAME or TYPE_NAME    *)
(* written as a CDR string and held whole by the capture decodes to        *)
(* exactly the string written, without its NUL terminator.                 *)
NamesRoundTrip ==
    \A i \in DOMAIN params :
        /\ params[i].pid \in {PID_TOPIC_NAME, PID_TYPE_NAME}
        /\ i \in DOMAIN written.recs
        /\ written.recs[i] = NameRec(params[i].pid, written.recs[i].str)
        /\ params[i].value = written.recs[i].value
        => params[i].decoded = [kind |-> "str", chars |-> written.recs[i].str, name |-> ""]

WellFormedWrites ==
    CutsOf({TopicEmpty, TypeName, Related, InlineQos, Sentinel, Reliable}, 3)

MalformedWrites ==
    CutsOf({Lie(TopicName, 0), Lie(Related, 9), Lie(InlineQos, 2), TypeShort,
            Guid, DurUnknown}, 2)

PLWrites == WellFormedWrites \cup MalformedWrites
=============================================================================
