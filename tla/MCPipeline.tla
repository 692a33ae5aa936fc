---------------------------- MODULE MCPipeline ----------------------------
(***************************************************************************)
(* Model-checking harness for Pipeline.  A capture is written from a list  *)
(* of packets, each an Ethernet frame around an IPv4 header (with or       *)
(* without options), a UDP header and an RTPS message of submessages.      *)
(* SEDP announcements carry a PL_CDR parameter list.  The written packets  *)
(* are kept in the ghost variable written, and the reports and summary     *)
(* the analysis must produce are computed from them, independently of the  *)
(* decoders.                                                               *)
(***************************************************************************)
EXTENDS Pipeline, SequencesExt, FiniteSets

CONSTANT Writes   \* the written captures: sequences of packet writes

VARIABLE written

mcvars == <<vars, written>>

LE32(n) == <<n % 256, (n \div 256) % 256, 0, 0>>
Zeros(n) == [i \in 1 .. n |-> 0]

(* A parameter as written; str is the string a name parameter carries.     *)
Rec(pid, value) == [pid |-> pid, value |-> value, str |-> <<>>]
NameRec(pid, str) == [pid |-> pid, value |-> LE32(Len(str) + 1) \o str \o <<0>>, str |-> str]

Guid     == Rec(90, [i \in 1 .. 16 |-> 1])
Topic    == NameRec(3, <<65>>)                 \* "A"
NoTopic  == NameRec(3, <<>>)                   \* ""
TypeB    == NameRec(4, <<66>>)                 \* "B"
Reliable == Rec(26, LE32(1) \o Zeros(8))       \* 0x001A, RELIABLE
Volatile == Rec(29, LE32(0))                   \* 0x001D, VOLATILE

EncodeParam(r) ==
    <<r.pid % 256, r.pid \div 256, Len(r.value) % 256, Len(r.value) \div 256>>
        \o r.value \o Zeros((4 - (Len(r.value) % 4)) % 4)

(* PL_CDR_LE encapsulation, the parameters, the sentinel.                  *)
ParamList(recs) ==
    FoldLeft(LAMBDA acc, r : acc \o EncodeParam(r), <<0, 3, 0, 0>>, recs) \o <<1, 0, 0, 0>>

(* A DATA submessage: the writer's entity id, its role by the RTPS table, *)
(* the sequence number {high, low} and the parameters.                     *)
Data(writer, role, sn, recs) ==
    [id |-> 21, flags |-> 5, role |-> role, sn |-> sn, recs |-> recs,
     body |-> <<0, 0, 16, 0>> \o <<0, 0, 0, 0>> \o writer
                 \o LE32(sn[1]) \o LE32(sn[2]) \o ParamList(recs)]
Other(id, body) ==
    [id |-> id, flags |-> 1, role |-> "", sn |-> <<0, 0>>, recs |-> <<>>, body |-> body]

PubCompliant    == Data(<<0, 0, 3, 194>>, "SEDP_PUB", <<0, 1>>, <<Guid, Topic, TypeB, Reliable, Volatile>>)
PubMissingTopic == Data(<<0, 0, 3, 194>>, "SEDP_PUB", <<0, 1>>, <<Guid, TypeB, Reliable, Volatile>>)
SubSnZero       == Data(<<0, 0, 3, 199>>, "SEDP_SUB", <<0, 0>>, <<Guid, NoTopic, TypeB, Reliable, Volatile>>)
SpdpAnn         == Data(<<0, 1, 0, 194>>, "SPDP", <<0, 1>>, <<Guid>>)
TopicAnn        == Data(<<0, 2, 0, 194>>, "BUILTIN", <<0, 1>>, <<Topic>>)
UserAnn         == Data(<<0, 0, 1, 2>>, "USER", <<0, 1>>, <<>>)
InfoTs          == Other(9, <<1, 2, 3, 4, 5, 6, 7, 8>>)

EncodeSub(s) == <<s.id, s.flags, Len(s.body) % 256, Len(s.body) \div 256>> \o s.body

RtpsMessage(magic, subs) ==
    FoldLeft(LAMBDA acc, s : acc \o EncodeSub(s), magic \o <<2, 3, 1, 15>> \o Zeros(12), subs)

(* A packet as written: EtherType, IHL in words, IP protocol, whether the  *)
(* UDP payload starts with b'RTPS', its submessages and trailing bytes     *)
(* (Ethernet padding).                                                     *)
(* snap is the number of bytes of the frame the capture keeps (incl_len); *)
(* a packet is written whole unless Snapped cuts it.                       *)
WholeFrame(p) ==
    [i \in 1 .. 12 |-> 2] \o <<p.ethertype \div 256, p.ethertype % 256>>
      \o <<64 + p.ihl, 0, 0, 0, 0, 0, 0, 0, 64, p.proto, 0, 0, 10, 0, 0, 1, 239, 255, 0, 1>>
      \o [i \in 1 .. 4 * (p.ihl - 5) |-> 1]
      \o <<28, 225, 28, 233, 0, 0, 0, 0>>
      \o RtpsMessage(IF p.rtps THEN <<82, 84, 80, 83>> ELSE <<82, 84, 80, 88>>, p.subs)
      \o p.trailer

Packet(ethertype, ihl, proto, rtps, subs, trailer) ==
    LET p == [ethertype |-> ethertype, ihl |-> ihl, proto |-> proto, rtps |-> rtps,
              subs |-> subs, trailer |-> trailer, snap |-> 0]
    IN  [p EXCEPT !.snap = Len(WholeFrame(p))]

Snapped(p, n) == [p EXCEPT !.snap = n]

FrameOf(p) == SubSeq(WholeFrame(p), 1, p.snap)

FramesOf(w) == [i \in DOMAIN w |-> FrameOf(w[i])]

MCCaptures == {FramesOf(w) : w \in Writes}

MCInit ==
    \E w \in Writes :
        /\ written = w
        /\ Init
        /\ packets = FramesOf(w)

MCNext == Next /\ UNCHANGED written

MCSpec == MCInit /\ [][MCNext]_mcvars /\ WF_mcvars(MCNext)

-----------------------------------------------------------------------------
(* The reference: what the design (sections 4.7, 4.8 and 8) says the       *)
(* analysis of the written capture reports.                                *)

(* The frame bytes before the RTPS submessages, and the offset in the    *)
(* frame of submessage j's header.                                         *)
HeadersLen(p) == 14 + 4 * p.ihl + 8 + 20
SubStart(p, j) ==
    HeadersLen(p) + FoldLeft(LAMBDA n, s : n + 4 + Len(s.body), 0, SubSeq(p.subs, 1, j - 1))

(* An RTPS packet whose headers the capture kept.                          *)
IsRtpsWritten(p) ==
    p.ethertype = 2048 /\ p.proto = 17 /\ p.rtps /\ p.snap >= HeadersLen(p)

(* How much of submessage j's body the capture kept; the walk reaches it  *)
(* when its 4-byte header was kept, and it carries DATA fields (so a role) *)
(* when at least 20 bytes of its body were.                                *)
BodyKept(p, j) == Min({Len(p.subs[j].body), p.snap - SubStart(p, j) - 4})
HasRole(p, j) == p.subs[j].id = 21 /\ BodyKept(p, j) >= 20

(* Bytes of the announcement's parameter list (after the 20 bytes of DATA *)
(* fields) the capture kept.                                               *)
ListKept(p, j) == BodyKept(p, j) - 20

(* Offset in the parameter list of record k, after the encapsulation.      *)
RecOffset(recs, k) ==
    4 + FoldLeft(LAMBDA n, r : n + Len(EncodeParam(r)), 0, SubSeq(recs, 1, k - 1))

(* The design's decoder stops at the end of the buffer: a record is read  *)
(* when its 4-byte header was kept, and its value is lost (a name then    *)
(* fails to decode) unless all of it was.                                  *)
HeldRecs(a, kept) ==
    SubSeq(a.recs, 1, Cardinality({k \in DOMAIN a.recs : RecOffset(a.recs, k) + 4 <= kept}))
ValueKept(a, kept, k) == RecOffset(a.recs, k) + 4 + Len(a.recs[k].value) <= kept

(* Required for both roles, in the order the issues are listed.            *)
Required == <<<<90, "PID_ENDPOINT_GUID">>, <<3, "PID_TOPIC_NAME">>, <<4, "PID_TYPE_NAME">>,
              <<26, "PID_RELIABILITY">>, <<29, "PID_DURABILITY">>>>

(* Missing required parameters in table order, then one issue per name    *)
(* parameter read that is empty or whose value the capture lost, in the   *)
(* order written.                                                          *)
ExpectedIssues(a, kept) ==
    LET held    == HeldRecs(a, kept)
        pids    == {held[k].pid : k \in DOMAIN held}
        missing == SelectSeq(Required, LAMBDA q : q[1] \notin pids)
        marked  == [k \in DOMAIN held |->
                       [pid |-> held[k].pid,
                        bad |-> held[k].pid \in {3, 4}
                                /\ (held[k].str = <<>> \/ ~ValueKept(a, kept, k))]]
        bad     == SelectSeq(marked, LAMBDA m : m.bad)
    IN  [i \in DOMAIN missing |-> MissingIssue(missing[i][1], missing[i][2])]
          \o [i \in DOMAIN bad |-> IF bad[i].pid = 3 THEN EmptyTopicIssue
                                                 ELSE EmptyTypeIssue]

ExpectedWarnings(a) == IF a.sn = <<0, 0>> THEN <<SeqZeroWarning>> ELSE <<>>

CountRoles(w, roles) ==
    FoldLeft(LAMBDA n, p :
                 n + IF IsRtpsWritten(p)
                     THEN Cardinality({j \in DOMAIN p.subs : p.subs[j].role \in roles
                                                              /\ HasRole(p, j)})
                     ELSE 0,
             0, w)

-----------------------------------------------------------------------------

(* Every SEDP announcement the capture carries is reported with the role   *)
(* of its writer, the parameter ids in the order written, exactly the      *)
(* issues the design prescribes for its parameters (missing required       *)
(* parameters, empty names) and the zero-sequence-number warning.  It      *)
(* rests on the whole chain: decapsulation, the submessage walk, the       *)
(* payload offset, the parameter-list decoding and the validation.         *)
ReportsAsWritten ==
    \A i \in DOMAIN reports :
        LET r == reports[i]
            a == written[r.num].subs[r.sub]
            kept == ListKept(written[r.num], r.sub)
            held == HeldRecs(a, kept)
        IN  /\ r.entity_type = a.role
            /\ [j \in DOMAIN r.params |-> r.params[j].pid] = [j \in DOMAIN held |-> held[j].pid]
            /\ r.issues = ExpectedIssues(a, kept)
            /\ r.warnings = ExpectedWarnings(a)

(* analyze_pcap returns having counted every RTPS packet of the capture    *)
(* (and no ARP, TCP or non-RTPS UDP frame), every SPDP DATA and every SEDP *)
(* DATA in them, and having reported each SEDP announcement once.          *)
SummaryReported ==
    <>(/\ phase = "done"
       /\ rtps_count = Cardinality({i \in DOMAIN written : IsRtpsWritten(written[i])})
       /\ spdp_count = CountRoles(written, {"SPDP"})
       /\ sedp_count = CountRoles(written, {"SEDP_PUB", "SEDP_SUB"})
       /\ Len(reports) = sedp_count)

P1 == Packet(2048, 5, 17, TRUE, <<PubCompliant>>, <<>>)
P2 == Packet(2048, 6, 17, TRUE, <<PubMissingTopic, SpdpAnn>>, <<>>)
P3 == Packet(2048, 5, 17, TRUE, <<InfoTs, SubSnZero>>, Zeros(6))
P4 == Packet(2048, 5, 17, TRUE, <<TopicAnn, UserAnn>>, <<>>)
Arp    == Packet(2054, 5, 17, TRUE, <<PubCompliant>>, <<>>)
Tcp    == Packet(2048, 5, 6, TRUE, <<SpdpAnn>>, <<>>)
NoRtps == Packet(2048, 5, 17, FALSE, <<PubCompliant>>, <<>>)

CaptureWrites == BoundedSeq({P1, P2, P3, P4, Arp, Tcp, NoRtps}, 3)

(* A capture taken with a snap length: the first packet is kept to each    *)
(* of its lengths, from nothing to whole, and a whole packet follows it.   *)
SnapWrites ==
    UNION {{<<Snapped(p, n), P4>> : n \in 0 .. Len(WholeFrame(p))} : p \in {P1, P2}}

(* Whole captures and captures cut by a snap length.                       *)
AllCaptureWrites == CaptureWrites \cup SnapWrites
=============================================================================
