--------------------------- MODULE MCPcapReader ---------------------------
(***************************************************************************)
(* Model-checking harness for PcapReader.  A capture file is written in    *)
(* either byte order (or with another magic) from a list of frames and cut *)
(* at every byte, as a capture still being written or copied short is.     *)
(* The written file is kept in the ghost variable written, from which the  *)
(* refinement mapping to RecordStream is computed.                         *)
(***************************************************************************)
EXTENDS PcapReader, SequencesExt, FiniteSets

CONSTANT Writes   \* [magic |-> 4 bytes, order |-> "<" or ">", frames, cut]

VARIABLE written

mcvars == <<vars, written>>

(* A 32-bit field in the writer's byte order.                              *)
Enc32(n, order) ==
    IF order = "<" THEN <<n % 256, n \div 256, 0, 0>>
                   ELSE <<0, 0, n \div 256, n % 256>>

(* Version 2.4, zone, sigfigs, snaplen 65535, link type 1 (Ethernet).      *)
GlobalHeader(magic, order) ==
    magic \o (IF order = "<" THEN <<2, 0, 4, 0>> ELSE <<0, 2, 0, 4>>)
          \o Enc32(0, order) \o Enc32(0, order) \o Enc32(65535, order) \o Enc32(1, order)

RecordBytes(frame, order) ==
    Enc32(1, order) \o Enc32(2, order) \o Enc32(Len(frame), order)
        \o Enc32(Len(frame), order) \o frame

Encoding(w) ==
    FoldLeft(LAMBDA acc, fr : acc \o RecordBytes(fr, w.order),
             GlobalHeader(w.magic, w.order), w.frames)

FileOf(w) == SubSeq(Encoding(w), 1, w.cut)

MAGIC_NSEC_LE == <<77, 60, 178, 161>>   \* 0xa1b23c4d, nanosecond pcap

Magics(order) == IF order = "<" THEN {MAGIC_LE, MAGIC_NSEC_LE} ELSE {MAGIC_BE}

(* Every cut of every file of at most n frames drawn from F.               *)
CutsOf(F, n) ==
    UNION {{[magic |-> m, order |-> o, frames |-> fs, cut |-> c] :
               c \in 0 .. Len(Encoding([magic |-> m, order |-> o, frames |-> fs]))} :
           <<o, m, fs>> \in {<<o, m, fs>> \in {"<", ">"} \X {MAGIC_LE, MAGIC_BE, MAGIC_NSEC_LE}
                                             \X BoundedSeq(F, n) : m \in Magics(o)}}

MCFiles == {FileOf(w) : w \in Writes}

MCInit ==
    \E w \in Writes :
        /\ written = w
        /\ InitWith(FileOf(w))

MCNext == Next /\ UNCHANGED written

MCSpec == MCInit /\ [][MCNext]_mcvars /\ WF_mcvars(MCNext)

(* The frames whose record the file holds whole, when the file has a       *)
(* whole global header with one of the two magics of the design.           *)
Valid(w) == w.cut >= 24 /\ w.magic \in {MAGIC_LE, MAGIC_BE}

RecordEnd(w, i) ==
    FoldLeft(LAMBDA a, fr : a + 16 + Len(fr), 24, SubSeq(w.frames, 1, i))

AbsInput(w) ==
    IF Valid(w)
    THEN SubSeq(w.frames, 1, Cardinality({i \in DOMAIN w.frames : RecordEnd(w, i) <= w.cut}))
    ELSE <<>>

NeverEnds(r) == FALSE

PRA == INSTANCE RecordStream
         WITH Records <- Seq(Byte),
              IsEnd <- NeverEnds,
              KeepEnd <- FALSE,
              input <- AbsInput(written),
              out <- [i \in DOMAIN packets |-> packets[i].data],
              done <- (pc \in {"done", "error"})

(* On every file, cut at any byte and written in either byte order,        *)
(* read_pcap returns exactly the frames of the records the file holds      *)
(* whole, in order, and returns; a file whose global header is short or    *)
(* has neither magic yields no packet (it raises).  A truncated record     *)
(* ends the list and keeps every packet before it.                         *)
ReadsWrittenFrames == PRA!Spec

FrameSet == {<<>>, <<7>>, <<1, 2, 3>>}

FileWrites == CutsOf(FrameSet, 3)
=============================================================================
