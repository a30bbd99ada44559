------------------------------- MODULE Bitmap -------------------------------
(***************************************************************************)
(* The bitmap of src/src/bitmap.c, in one buffer with its own header.  The *)
(* header (the number of bits, and the pointer to the bits) takes the      *)
(* first 16 bytes, and the pointer is set to the start of the buffer: the  *)
(* first 128 bits are the header itself.  A byte is the set of the bits    *)
(* that are 1, counted from the highest one, as the code counts them.      *)
(***************************************************************************)
EXTENDS Integers

CONSTANTS NoFields,           \* the bits asked for
          BuffSize,           \* bytes of the buffer
          SizeRange,          \* values of a size_t (2^64)
          Header              \* the bytes of .size and .buffer after Bitmap_init

SizeBytes   == 0 .. 7         \* .size
BufferBytes == 8 .. 15        \* .buffer
HeaderSz    == 16

Bit    == 0 .. 7
Fields == 0 .. NoFields - 1   \* the indexes of callers: no function checks one

VARIABLES bytes,              \* the buffer
          status,             \* "ready", "null", or "wild" once .buffer is not its address
          set, touched        \* history: the bits set, and all the bits written

vars == <<bytes, status, set, touched>>

ByteOffset(index) == index \div 8
BitOffset(index)  == index % 8

Bitmap_get(index) == BitOffset(index) \in bytes[ByteOffset(index)]

(* The bytes with one bit cleared, or set. *)
Cleared(b, index) == [b EXCEPT ![ByteOffset(index)] = @ \ {BitOffset(index)}]
WithBit(b, index) == [b EXCEPT ![ByteOffset(index)] = @ \cup {BitOffset(index)}]

PointerKept(b) == \A k \in BufferBytes : b[k] = Header[k]

-----------------------------------------------------------------------------
Init ==
  /\ bytes \in [0 .. BuffSize - 1 -> SUBSET Bit]
  /\ status = "none" /\ set = {} /\ touched = {}

(* Bitmap_init: only the bytes of .size are counted, in the arithmetic of size_t. *)
TooBig == NoFields > ((BuffSize - 8) * 8) % SizeRange

Bitmap_init ==
  /\ status = "none"
  /\ \/ TooBig /\ status' = "null" /\ UNCHANGED bytes
     \/ /\ ~ TooBig /\ BuffSize >= HeaderSz
        /\ bytes' = [k \in 0 .. BuffSize - 1 |-> IF k < HeaderSz THEN Header[k] ELSE {}]
        /\ status' = "ready"
     \/ ~ TooBig /\ BuffSize < HeaderSz /\ status' = "wild" /\ UNCHANGED bytes
  /\ UNCHANGED <<set, touched>>

(* The bit is cleared first; if it has to be set, .buffer is read once more. *)
Bitmap_set(index, value) ==
  /\ status = "ready"
  /\ \/ value /\ PointerKept(Cleared(bytes, index)) /\ bytes' = WithBit(bytes, index)
     \/ value /\ ~ PointerKept(Cleared(bytes, index)) /\ bytes' = Cleared(bytes, index)
     \/ ~ value /\ bytes' = Cleared(bytes, index)
  /\ status' = IF PointerKept(bytes') THEN "ready" ELSE "wild"
  /\ set' = IF value THEN set \cup {index} ELSE set \ {index}
  /\ touched' = touched \cup {index}

Next == Bitmap_init \/ \E index \in Fields, value \in BOOLEAN : Bitmap_set(index, value)

Spec == Init /\ [][Next]_vars

-----------------------------------------------------------------------------
(* A bit behind the header is 1 exactly if the last call that wrote it set it: *)
(* no two of them share a place.                                               *)
BitsAreSet ==
  status = "ready" => \A index \in Fields : index >= 8 * HeaderSz =>
                        (Bitmap_get(index) <=> index \in set)

(* The header is as Bitmap_init left it, unless a caller wrote one of the bits *)
(* that lie in it; and no bit asked for lies outside of the buffer.            *)
HeaderKept ==
  status = "ready" =>
    /\ \A k \in 0 .. HeaderSz - 1 :
         bytes[k] # Header[k] => \E index \in touched : ByteOffset(index) = k
    /\ \A index \in Fields : ByteOffset(index) \in DOMAIN bytes

(* The pointer goes astray only if a caller wrote a bit in it. *)
WildOnlyByHeader ==
  status = "wild" => \E index \in touched : ByteOffset(index) \in BufferBytes
=============================================================================
