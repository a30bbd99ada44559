---------------------------- MODULE BitmapProofs ----------------------------
(***************************************************************************)
(* Proofs about Bitmap, for every buffer that has room for the header.     *)
(***************************************************************************)
EXTENDS Bitmap, TLAPS

(* The buffer holds the header, its bits can be counted in a size_t, and the *)
(* header is 16 bytes.                                                       *)
BufferAssumption ==
  /\ NoFields \in Nat /\ BuffSize \in Nat /\ SizeRange \in Nat
  /\ BuffSize >= HeaderSz
  /\ (BuffSize - 8) * 8 < SizeRange
  /\ Header \in [0 .. HeaderSz - 1 -> SUBSET Bit]

-----------------------------------------------------------------------------
(* An index is given by the place of its bit. *)
LEMMA PlaceOfIndex ==
  ASSUME NEW index \in Nat
  PROVE  /\ ByteOffset(index) \in Nat
         /\ BitOffset(index) \in Bit
         /\ index = 8 * ByteOffset(index) + BitOffset(index)
BY DEF ByteOffset, BitOffset, Bit

(* No two bits share a place. *)
LEMMA PlacesDiffer ==
  ASSUME NEW index \in Nat, NEW other \in Nat,
         ByteOffset(index) = ByteOffset(other), BitOffset(index) = BitOffset(other)
  PROVE  index = other
BY PlaceOfIndex

(* A bit that was asked for lies in the buffer. *)
LEMMA BitsFit ==
  ASSUME NoFields \in Nat, BuffSize \in Nat, NoFields <= (BuffSize - 8) * 8,
         NEW index \in Fields
  PROVE  index \in Nat /\ ByteOffset(index) \in 0 .. BuffSize - 1
<1>1. index \in Nat /\ index < (BuffSize - 8) * 8
  BY DEF Fields
<1>2. QED
  BY <1>1, PlaceOfIndex DEF Bit

(* A buffer that is not too small for the bits is found so. *)
LEMMA RoomCounted ==
  ASSUME BufferAssumption, ~ TooBig
  PROVE  NoFields <= (BuffSize - 8) * 8
<1>1. (BuffSize - 8) * 8 \in Nat /\ SizeRange \in Nat /\ SizeRange > 0
  BY DEF BufferAssumption, HeaderSz
<1>2. ((BuffSize - 8) * 8) % SizeRange = (BuffSize - 8) * 8
  BY <1>1 DEF BufferAssumption
<1>3. QED
  BY <1>1, <1>2 DEF BufferAssumption, TooBig

-----------------------------------------------------------------------------
(* What the calls keep: the types, that a usable bitmap fits into its buffer *)
(* and points to it, and the three properties.                               *)
BitmapTypes ==
  /\ bytes \in [0 .. BuffSize - 1 -> SUBSET Bit]
  /\ status \in {"none", "null", "ready", "wild"}
  /\ set \subseteq Fields /\ touched \subseteq Fields
  /\ status = "none" => set = {}

Usable ==
  status = "ready" => NoFields <= (BuffSize - 8) * 8 /\ PointerKept(bytes)

HeaderWritten ==
  status = "ready" =>
    \A k \in 0 .. HeaderSz - 1 :
      bytes[k] # Header[k] => \E index \in touched : ByteOffset(index) = k

BInv == BitmapTypes /\ Usable /\ BitsAreSet /\ HeaderWritten /\ WildOnlyByHeader

LEMMA InitEstablishes == ASSUME Init PROVE BInv
BY DEF Init, BInv, BitmapTypes, Usable, BitsAreSet, HeaderWritten, WildOnlyByHeader

(* Bitmap_init fills the buffer with the header and zeros. *)
LEMMA InitCallKeeps ==
  ASSUME BufferAssumption, BInv, Bitmap_init
  PROVE  BInv'
<1>1. CASE TooBig
  BY <1>1 DEF Bitmap_init, BInv, BitmapTypes, Usable, BitsAreSet, HeaderWritten,
              WildOnlyByHeader
<1>2. CASE ~ TooBig
  <2>1. /\ bytes' = [k \in 0 .. BuffSize - 1 |-> IF k < HeaderSz THEN Header[k] ELSE {}]
        /\ status' = "ready" /\ set' = {} /\ set = {} /\ touched' = touched
    BY <1>2 DEF Bitmap_init, BInv, BitmapTypes, BufferAssumption, HeaderSz
  <2>2. NoFields <= (BuffSize - 8) * 8
    BY <1>2, RoomCounted
  <2>3. \A k \in 0 .. HeaderSz - 1 : bytes'[k] = Header[k]
    BY <2>1 DEF BufferAssumption, HeaderSz
  <2>4. BitmapTypes'
    BY <2>1 DEF BInv, BitmapTypes, BufferAssumption, HeaderSz
  <2>5. Usable' /\ HeaderWritten'
    BY <2>2, <2>3 DEF Usable, HeaderWritten, PointerKept, BufferBytes, HeaderSz
  <2>6. ASSUME NEW index \in Fields, index >= 8 * HeaderSz
        PROVE  bytes'[ByteOffset(index)] = {}
    <3>1. ByteOffset(index) \in 0 .. BuffSize - 1 /\ index \in Nat
      BY <2>2, BitsFit DEF BufferAssumption
    <3>2. ByteOffset(index) >= HeaderSz
      <4> DEFINE byte == ByteOffset(index)
                 bit  == BitOffset(index)
      <4>1. /\ byte \in Nat /\ bit \in Nat /\ bit < 8
            /\ index = 8 * byte + bit /\ index >= 8 * 16
        BY <2>6, <3>1, PlaceOfIndex DEF Bit, HeaderSz
      <4> HIDE DEF byte, bit
      <4>2. byte >= 16
        BY <4>1
      <4>3. QED
        BY <4>2 DEF byte, HeaderSz
    <3>3. QED
      BY <2>1, <3>1, <3>2 DEF HeaderSz
  <2>7. BitsAreSet'
    BY <2>1, <2>6 DEF BitsAreSet, Bitmap_get
  <2>8. QED
    BY <2>1, <2>4, <2>5, <2>7 DEF BInv, WildOnlyByHeader
<1>3. QED
  BY <1>1, <1>2

(* What Bitmap_set leaves in the buffer: one byte changes, in one bit. *)
LEMMA BytesAfterSet ==
  ASSUME BufferAssumption, BInv, NEW index \in Fields, NEW value \in BOOLEAN,
         Bitmap_set(index, value)
  PROVE  /\ index \in Nat /\ ByteOffset(index) \in 0 .. BuffSize - 1
         /\ bytes' \in [0 .. BuffSize - 1 -> SUBSET Bit]
         /\ \A k \in 0 .. BuffSize - 1 : k # ByteOffset(index) => bytes'[k] = bytes[k]
         /\ \A b \in Bit : b # BitOffset(index) =>
              (b \in bytes'[ByteOffset(index)] <=> b \in bytes[ByteOffset(index)])
         /\ status' = "ready" =>
              (BitOffset(index) \in bytes'[ByteOffset(index)] <=> value)
<1>1. /\ status = "ready" /\ NoFields <= (BuffSize - 8) * 8
      /\ bytes \in [0 .. BuffSize - 1 -> SUBSET Bit]
  BY DEF Bitmap_set, BInv, BitmapTypes, Usable
<1>2. index \in Nat /\ ByteOffset(index) \in 0 .. BuffSize - 1 /\ BitOffset(index) \in Bit
  BY <1>1, BitsFit, PlaceOfIndex DEF BufferAssumption
<1>3. CASE bytes' = Cleared(bytes, index) /\ ~ value
  BY <1>1, <1>2, <1>3 DEF Cleared
<1>4. CASE bytes' = Cleared(bytes, index) /\ ~ PointerKept(Cleared(bytes, index))
  <2>1. status' # "ready"
    BY <1>4 DEF Bitmap_set
  <2>2. QED
    BY <1>1, <1>2, <1>4, <2>1 DEF Cleared
<1>5. CASE bytes' = WithBit(bytes, index) /\ value
  BY <1>1, <1>2, <1>5 DEF WithBit
<1>6. QED
  BY <1>3, <1>4, <1>5 DEF Bitmap_set

LEMMA SetKeeps ==
  ASSUME BufferAssumption, BInv, NEW index \in Fields, NEW value \in BOOLEAN,
         Bitmap_set(index, value)
  PROVE  BInv'
<1> DEFINE byte == ByteOffset(index)
<1>1. /\ index \in Nat /\ byte \in 0 .. BuffSize - 1
      /\ bytes' \in [0 .. BuffSize - 1 -> SUBSET Bit]
      /\ \A k \in 0 .. BuffSize - 1 : k # byte => bytes'[k] = bytes[k]
  BY BytesAfterSet
<1>2. /\ \A b \in Bit : b # BitOffset(index) => (b \in bytes'[byte] <=> b \in bytes[byte])
      /\ status' = "ready" => (BitOffset(index) \in bytes'[byte] <=> value)
  BY BytesAfterSet
<1>3. /\ status = "ready" /\ NoFields <= (BuffSize - 8) * 8 /\ PointerKept(bytes)
      /\ status' = IF PointerKept(bytes') THEN "ready" ELSE "wild"
      /\ set' = IF value THEN set \cup {index} ELSE set \ {index}
      /\ touched' = touched \cup {index}
  BY DEF Bitmap_set, BInv, Usable
<1>4. BitmapTypes'
  BY <1>1, <1>3 DEF BInv, BitmapTypes
<1>5. Usable'
  BY <1>3 DEF Usable
<1>6. BitsAreSet'
  <2> SUFFICES ASSUME status' = "ready", NEW other \in Fields, other >= 8 * HeaderSz
               PROVE  Bitmap_get(other)' <=> other \in set'
    BY DEF BitsAreSet
  <2>1. Bitmap_get(other) <=> other \in set
    BY <1>3 DEF BInv, BitsAreSet
  <2>2. other \in Nat /\ ByteOffset(other) \in 0 .. BuffSize - 1 /\ BitOffset(other) \in Bit
    BY <1>3, BitsFit, PlaceOfIndex DEF BufferAssumption
  <2>3. CASE other = index
    BY <1>2, <1>3, <2>3 DEF Bitmap_get
  <2>4. CASE other # index
    <3>1. ByteOffset(other) # byte \/ BitOffset(other) # BitOffset(index)
      BY <1>1, <2>2, <2>4, PlacesDiffer
    <3>2. Bitmap_get(other)' <=> Bitmap_get(other)
      BY <1>1, <1>2, <2>2, <3>1 DEF Bitmap_get
    <3>3. QED
      BY <1>3, <2>1, <2>4, <3>2
  <2>5. QED
    BY <2>3, <2>4
<1>7. HeaderWritten'
  <2> SUFFICES ASSUME NEW k \in 0 .. HeaderSz - 1, bytes'[k] # Header[k]
               PROVE  \E other \in touched' : ByteOffset(other) = k
    BY DEF HeaderWritten
  <2>1. CASE k = byte
    BY <1>3, <2>1
  <2>2. CASE k # byte
    <3>1. bytes[k] # Header[k]
      BY <1>1, <2>2 DEF BufferAssumption, HeaderSz
    <3>2. \E other \in touched : ByteOffset(other) = k
      BY <1>3, <3>1 DEF BInv, HeaderWritten
    <3>3. QED
      BY <1>3, <3>2
  <2>3. QED
    BY <2>1, <2>2
<1>8. WildOnlyByHeader'
  <2> SUFFICES ASSUME ~ PointerKept(bytes')
               PROVE  byte \in BufferBytes
    BY <1>3 DEF WildOnlyByHeader
  <2>1. PICK k \in BufferBytes : bytes'[k] # Header[k]
    BY DEF PointerKept
  <2>2. bytes[k] = Header[k] /\ k \in 0 .. BuffSize - 1
    BY <1>3 DEF PointerKept, BufferBytes, BufferAssumption, HeaderSz
  <2>3. QED
    BY <1>1, <2>1, <2>2
<1>9. QED
  BY <1>4, <1>5, <1>6, <1>7, <1>8 DEF BInv

LEMMA AlwaysBInv == ASSUME BufferAssumption PROVE Spec => []BInv
<1>1. Init => BInv
  BY InitEstablishes
<1>2. BInv /\ [Next]_vars => BInv'
  <2> SUFFICES ASSUME BInv, [Next]_vars PROVE BInv'
    OBVIOUS
  <2>1. CASE Bitmap_init
    BY <2>1, InitCallKeeps
  <2>2. ASSUME NEW index \in Fields, NEW value \in BOOLEAN, Bitmap_set(index, value)
        PROVE  BInv'
    BY <2>2, SetKeeps
  <2>3. CASE UNCHANGED vars
    BY <2>3 DEF vars, BInv, BitmapTypes, Usable, PointerKept, BitsAreSet, Bitmap_get,
                HeaderWritten, WildOnlyByHeader
  <2>4. QED
    BY <2>1, <2>2, <2>3 DEF Next
<1>3. QED
  BY <1>1, <1>2, PTL DEF Spec

-----------------------------------------------------------------------------
(* Every bit behind the header is 1 exactly if the last Bitmap_set on it set *)
(* it, in every bitmap and after any sequence of calls.                      *)
THEOREM BitsCorrect == ASSUME BufferAssumption PROVE Spec => []BitsAreSet
<1>1. BInv => BitsAreSet
  BY DEF BInv
<1>2. QED
  BY <1>1, AlwaysBInv, PTL

(* The header changes only by calls on the bits that overlap it, and every *)
(* bit that Bitmap_init accepted lies in the buffer.                       *)
THEOREM HeaderCorrect == ASSUME BufferAssumption PROVE Spec => []HeaderKept
<1>1. BInv => HeaderKept
  <2> SUFFICES ASSUME BInv, status = "ready"
               PROVE  \A index \in Fields : ByteOffset(index) \in DOMAIN bytes
    BY DEF BInv, HeaderWritten, HeaderKept
  <2>1. QED
    BY BitsFit DEF BInv, BitmapTypes, Usable, BufferAssumption
<1>2. QED
  BY <1>1, AlwaysBInv, PTL

(* The pointer to the bits is lost only by a call on one of the bits that *)
(* overlap it.                                                            *)
THEOREM PointerCorrect == ASSUME BufferAssumption PROVE Spec => []WildOnlyByHeader
<1>1. BInv => WildOnlyByHeader
  BY DEF BInv
<1>2. QED
  BY <1>1, AlwaysBInv, PTL
=============================================================================
