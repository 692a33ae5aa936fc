------------------------------- MODULE Frames -------------------------------
(***************************************************************************)
(* FrameDecapsulator and RtpsMessageParser of tools/validate_sedp.py:      *)
(* parse_ethernet, parse_ip and parse_rtps_header as pure operators.  Each *)
(* returns [ok |-> TRUE, bytes |-> the inner payload] or NotApplicable     *)
(* (the code's None).  The addresses, ports, version, vendor id and GUID   *)
(* prefix are only printed and are left out.                               *)
(***************************************************************************)
EXTENDS Integers, Sequences, CdrBytes

NotApplicable == [ok |-> FALSE, bytes |-> <<>>]
Inner(b) == [ok |-> TRUE, bytes |-> b]

ETHERTYPE_IPV4 == 2048   \* 0x0800
IPPROTO_UDP    == 17
RTPS_MAGIC     == <<82, 84, 80, 83>>   \* b'RTPS'

(* Ethernet II: EtherType big-endian at bytes 12..13, IPv4 after byte 14.  *)
parse_ethernet(data) ==
    IF Len(data) < 14 \/ U16BE(data, 12) # ETHERTYPE_IPV4
    THEN NotApplicable
    ELSE Inner(Slice(data, 14, Len(data)))

(* The header length taken as a fixed 20 bytes, ignoring IHL.              *)
IpHeaderLenFixed(version_ihl) == 20

(* ihl = (version_ihl & 0x0F) * 4, never checked to be at least 20.        *)
IpHeaderLen(version_ihl) == (version_ihl % 16) * 4

(* IPv4 with protocol UDP: the UDP datagram starts IHL*4 bytes in, and    *)
(* the payload is everything after its 8-byte header; the IPv4 total      *)
(* length and the UDP length field are not consulted.                      *)
parse_ip(data) ==
    IF \/ Len(data) < 20
       \/ data[1] \div 16 # 4
       \/ data[10] # IPPROTO_UDP
       \/ Len(data) - IpHeaderLen(data[1]) < 8
    THEN NotApplicable
    ELSE Inner(Slice(data, IpHeaderLen(data[1]) + 8, Len(data)))

(* At least 20 bytes beginning with b'RTPS'; the submessages then start at *)
(* offset 20 of the same payload.                                          *)
parse_rtps_header(data) ==
    IF Len(data) < 20 \/ SubSeq(data, 1, 4) # RTPS_MAGIC
    THEN NotApplicable
    ELSE Inner(data)
=============================================================================
