----------------------------- MODULE PcapReader -----------------------------
(***************************************************************************)
(* CaptureReader: read_pcap of tools/validate_sedp.py.  The file is a byte *)
(* sequence: a 24-byte global header whose magic selects the byte order of *)
(* every later integer, then records of a 16-byte header (ts_sec, ts_usec, *)
(* incl_len, orig_len) and incl_len bytes of frame.  One step of the model *)
(* is one f.read pair of the while loop.                                   *)
(***************************************************************************)
EXTENDS Integers, Sequences, CdrBytes

CONSTANTS
    Files,       \* the capture files the reader may be given
    MaxPackets   \* model bound on the list's length; never reached on the
                 \* checked files

VARIABLES
    file,      \* the file's bytes
    pos,       \* the file position
    endian,    \* "<" or ">" once the magic is read
    packets,   \* the list returned so far
    pc         \* "start", "loop", "done" (returned) or "error" (ValueError)

vars == <<file, pos, endian, packets, pc>>

(* struct.unpack('<I', header[:4])[0] == 0xa1b2c3d4 / 0xd4c3b2a1, compared *)
(* byte by byte: both values are above TLC's integer range.                *)
MAGIC_LE == <<212, 195, 178, 161>>
MAGIC_BE == <<161, 178, 195, 212>>

PcapMagics == {MAGIC_LE, MAGIC_BE}

(* The record's incl_len read little-endian whatever the magic said.       *)
InclLenLE(f, o, e) == U32LE(f, o + 8)

(* incl_len of the record header at o, in the file's byte order.           *)
InclLen(f, o, e) == IF e = "<" THEN U32LE(f, o + 8) ELSE U32BE(f, o + 8)

InitWith(f) ==
    /\ file = f
    /\ pos = 0
    /\ endian = "<"
    /\ packets = <<>>
    /\ pc = "start"

Init == \E f \in Files : InitWith(f)

(* The truncation test taken one byte short.                               *)
RecordFitsOffByOne(f, o, e) == Len(f) - o - 16 >= InclLen(f, o, e) - 1

(* The record at o has all incl_len bytes of its frame: the negation of    *)
(* len(pkt_data) < incl_len.                                               *)
RecordFits(f, o, e) == Len(f) - o - 16 >= InclLen(f, o, e)

(* header = f.read(24); len(header) < 24 or an unknown magic: ValueError.  *)
BadHeader ==
    /\ pc = "start"
    /\ Len(file) < 24 \/ Slice(file, 0, 4) \notin PcapMagics
    /\ pc' = "error"
    /\ UNCHANGED <<file, pos, endian, packets>>

ReadGlobalHeader ==
    /\ pc = "start"
    /\ Len(file) >= 24
    /\ Slice(file, 0, 4) \in PcapMagics
    /\ endian' = IF Slice(file, 0, 4) = MAGIC_LE THEN "<" ELSE ">"
    /\ pos' = 24
    /\ pc' = "loop"
    /\ UNCHANGED <<file, packets>>

(* pkt_header = f.read(16); fewer than 16 bytes (end of file or a partial *)
(* header): break.                                                          *)
EndOfFile ==
    /\ pc = "loop"
    /\ Len(file) - pos < 16
    /\ pc' = "done"
    /\ UNCHANGED <<file, pos, endian, packets>>

(* pkt_data = f.read(incl_len) comes back short: warning, break.  The      *)
(* position moves past what was read, but nothing reads it again.          *)
Truncated ==
    /\ pc = "loop"
    /\ Len(file) - pos >= 16
    /\ ~RecordFits(file, pos, endian)
    /\ pc' = "done"
    /\ pos' = Len(file)
    /\ UNCHANGED <<file, endian, packets>>

(* A whole record: appended as {num, data, size}.                          *)
ReadPacket ==
    /\ pc = "loop"
    /\ Len(file) - pos >= 16
    /\ RecordFits(file, pos, endian)
    /\ Len(packets) < MaxPackets
    /\ packets' = Append(packets,
                    [num  |-> Len(packets) + 1,
                     data |-> Slice(file, pos + 16, pos + 16 + InclLen(file, pos, endian)),
                     size |-> InclLen(file, pos, endian)])
    /\ pos' = pos + 16 + InclLen(file, pos, endian)
    /\ UNCHANGED <<file, endian, pc>>

Next ==
    \/ BadHeader \/ ReadGlobalHeader
    \/ EndOfFile \/ Truncated \/ ReadPacket

(* read_pcap is a plain loop in one thread.                                *)
Spec == Init /\ [][Next]_vars /\ WF_vars(Next)

-----------------------------------------------------------------------------

TypeOK ==
    /\ pc \in {"start", "loop", "done", "error"}
    /\ endian \in {"<", ">"}
    /\ pos \in 0 .. Len(file)
    /\ \A i \in DOMAIN packets :
          /\ packets[i].num = i
          /\ packets[i].data \in Seq(Byte)
          /\ packets[i].size = Len(packets[i].data)
=============================================================================
