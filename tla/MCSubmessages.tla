--------------------------- MODULE MCSubmessages ---------------------------
(***************************************************************************)
(* Model-checking harness for Submessages.  An RTPS message is written     *)
(* from a list of submessages after a fixed 20-byte header and cut at      *)
(* every byte position past the header, as a capture's snap length cuts    *)
(* it.  The written message is kept in the ghost variable written.         *)
(***************************************************************************)
EXTENDS Submessages, SequencesExt, FiniteSets

CONSTANT Writes   \* [subs |-> submessages written, cut |-> bytes kept]

VARIABLE written

mcvars == <<vars, written>>

(* "RTPS", version 2.3, vendor 0x010F, a 12-byte GUID prefix.              *)
RtpsHeader == <<82, 84, 80, 83, 2, 3, 1, 15>> \o [i \in 1 .. 12 |-> 7]

(* A submessage as written: id, flags, declared length, body, and for a    *)
(* DATA submessage the role of the writer entity it names.                 *)
Sub(id, body, role) ==
    [id |-> id, flags |-> 1, declared |-> Len(body), body |-> body, role |-> role]

(* A DATA body: extraFlags, octetsToInlineQos = 16, readerId, writerId,   *)
(* writerSN {high 0, low 1}, then the serialized payload (an empty        *)
(* PL_CDR_LE parameter list).                                              *)
DataBody(readerId, writerId) ==
    <<0, 0, 16, 0>> \o readerId \o writerId \o <<0, 0, 0, 0, 1, 0, 0, 0>>
        \o <<0, 3, 0, 0, 1, 0, 0, 0>>

SedpPubData == Sub(RTPS_SUBMSG_DATA, DataBody(<<0, 0, 3, 199>>, <<0, 0, 3, 194>>), "SEDP_PUB")
SpdpData    == Sub(RTPS_SUBMSG_DATA, DataBody(<<0, 1, 0, 199>>, <<0, 1, 0, 194>>), "SPDP")
UserData    == Sub(RTPS_SUBMSG_DATA, DataBody(<<0, 0, 0, 0>>, <<128, 0, 1, 2>>), "USER")
InfoTs      == Sub(9, <<1, 2, 3, 4, 5, 6, 7, 8>>, "")
Pad         == Sub(1, <<>>, "")          \* octetsToNextHeader 0: the last one

EncodeSub(s) ==
    <<s.id, s.flags, s.declared % 256, s.declared \div 256>> \o s.body

Encoding(subs) == FoldLeft(LAMBDA acc, s : acc \o EncodeSub(s), RtpsHeader, subs)

Message(w) == SubSeq(Encoding(w.subs), 1, w.cut)

(* Every cut past the RTPS header of every list of at most n submessages.  *)
CutsOf(S, n) ==
    UNION {{[subs |-> ss, cut |-> c] : c \in 20 .. Len(Encoding(ss))} : ss \in BoundedSeq(S, n)}

MCMessages == {Message(w) : w \in Writes}

Start(subs, i) == FoldLeft(LAMBDA a, s : a + Len(EncodeSub(s)), 20, SubSeq(subs, 1, i - 1))

(* The submessages whose 4-byte header the capture holds, with their body *)
(* as far as the capture holds it.                                         *)
AbsInput(w) ==
    LET k == Cardinality({i \in DOMAIN w.subs : Start(w.subs, i) + 4 <= w.cut})
    IN  [i \in 1 .. k |->
            [id |-> w.subs[i].id, length |-> w.subs[i].declared,
             data |-> SubSeq(w.subs[i].body, 1,
                             Min({Len(w.subs[i].body), w.cut - Start(w.subs, i) - 4}))]]

MCInit ==
    \E w \in Writes :
        /\ written = w
        /\ InitWith(Message(w), 20)

MCNext == Next /\ UNCHANGED written

MCSpec == MCInit /\ [][MCNext]_mcvars /\ WF_mcvars(MCNext)

IsLast(r) == r.length = 0

SMA == INSTANCE RecordStream
         WITH Records <- [id : Byte, length : 0 .. 65535, data : Seq(Byte)],
              IsEnd <- IsLast,
              KeepEnd <- TRUE,
              input <- AbsInput(written),
              out <- [i \in DOMAIN submessages |->
                        [id |-> submessages[i].id, length |-> submessages[i].length,
                         data |-> submessages[i].data]],
              done <- (pc = "done")

(* On every capture of an RTPS message, cut or not, parse_submessages      *)
(* returns the submessages written, in order, each with its declared       *)
(* length and the part of its body the capture holds, up to and including  *)
(* the first one with octetsToNextHeader 0, and returns.                   *)
WalksWrittenSubmessages == SMA!Spec

(* Every DATA submessage the capture holds the first 20 body bytes of is   *)
(* classified by the role of the writer entity it was written by: the      *)
(* entity ids are read big-endian at body offset 8 and looked up.          *)
DataRolesAsWritten ==
    \A i \in DOMAIN submessages :
        submessages[i].fields.parsed =>
            submessages[i].fields.entity_type = written.subs[i].role

HonestWrites == CutsOf({SedpPubData, SpdpData, UserData, InfoTs, Pad}, 3)
=============================================================================
