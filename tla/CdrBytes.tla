------------------------------ MODULE CdrBytes ------------------------------
(***************************************************************************)
(* The byte-level reads of tools/validate_sedp.py: Python slicing,         *)
(* struct.unpack of little- and big-endian integers, the 4-byte alignment  *)
(* of parameter values, bytes.hex() and bytes.decode('utf-8',              *)
(* errors='ignore').                                                       *)
(*                                                                         *)
(* A buffer is a sequence of integers in 0..255.  Offsets are 0-based, as  *)
(* in the Python code, so data[o] is s[o + 1].                             *)
(***************************************************************************)
EXTENDS Integers, Sequences

Byte == 0 .. 255

(* data[a:b] for a, b >= 0: clipped at the end, empty when a >= b.         *)
Slice(s, a, b) ==
    LET hi == IF b < Len(s) THEN b ELSE Len(s)
    IN  IF a >= hi THEN <<>> ELSE SubSeq(s, a + 1, hi)

(* '<h', the signed misreading of '<H'.                                    *)
U16LESigned(s, o) ==
    IF s[o + 2] < 128 THEN s[o + 1] + 256 * s[o + 2]
                      ELSE s[o + 1] + 256 * (s[o + 2] - 256)

(* struct.unpack('<H' / '>H', data[o:o+2])[0]; the code reads these only   *)
(* after checking that two bytes are there.                                *)
U16LE(s, o) == s[o + 1] + 256 * s[o + 2]
U16BE(s, o) == 256 * s[o + 1] + s[o + 2]

(* Python integers are unbounded; TLC's are not.  A 32-bit value whose top *)
(* byte is >= 128 is at least 2^31: the code only ever compares such a     *)
(* value with small constants or uses it as a slice bound past the end of  *)
(* any buffer, so every value >= 2^31 is represented by U32Big.            *)
U32Big == 2147483647
U32Of(b0, b1, b2, b3) ==
    IF b3 < 128 THEN b0 + 256 * b1 + 65536 * b2 + 16777216 * b3 ELSE U32Big
U32LE(s, o) == U32Of(s[o + 1], s[o + 2], s[o + 3], s[o + 4])
(* '>i', the signed misreading of '>I'.                                    *)
U32BESigned(s, o) ==
    IF s[o + 1] < 128 THEN U32Of(s[o + 4], s[o + 3], s[o + 2], s[o + 1])
    ELSE s[o + 4] + 256 * s[o + 3] + 65536 * s[o + 2] + 16777216 * (s[o + 1] - 256)
(* '<I' where '>I' is meant: an entity id read in the wrong byte order.    *)
U32BESwapped(s, o) == U32Of(s[o + 1], s[o + 2], s[o + 3], s[o + 4])
U32BE(s, o) == U32Of(s[o + 4], s[o + 3], s[o + 2], s[o + 1])

(* (length + 2) & ~3: rounding that misses lengths of the form 4k + 1.     *)
Pad4Short(n) == ((n + 2) \div 4) * 4

(* (length + 3) & ~3: length rounded up to a multiple of 4.               *)
Pad4(n) == ((n + 3) \div 4) * 4

(* bytes.hex(): two hex digits per byte, high nibble first; a digit is    *)
(* represented by its value 0..15.                                         *)
Hex(s) == [i \in 1 .. 2 * Len(s) |->
              IF i % 2 = 1 THEN s[(i + 1) \div 2] \div 16
                           ELSE s[i \div 2] % 16]

(* bytes.decode('utf-8', errors='ignore') over buffers holding no UTF-8   *)
(* lead byte (0xC0..0xFF), as every checked buffer is: each ASCII byte is *)
(* a character and each byte 0x80..0xBF a continuation byte with no lead,  *)
(* which is dropped.                                                       *)
Utf8DecodeIgnore(s) == SelectSeq(s, LAMBDA b : b < 128)
=============================================================================
