---------------------------- MODULE TsedgeCodec ----------------------------
(***************************************************************************)
(* The compression of a block: src/compression.  Timestamps are stored as  *)
(* a first value, a first delta and the changes of the delta, zigzagged    *)
(* and written as varints; values as a first bit pattern and the XOR with  *)
(* the one before.  Both streams are sequences of bytes.                   *)
(*                                                                         *)
(* The widths are parameters, so that TLC can reach both ends of the       *)
(* integer range: a word has WordBytes bytes of ByteBits bits, 8 of 8 in   *)
(* the code.  The decoders take a stream and a number of points, and give  *)
(* Corrupt or the decoded sequence.                                        *)
(***************************************************************************)
EXTENDS TsedgeNumbers, FiniteSetsExt

CONSTANTS
  ByteBits,   \* bits in a byte
  WordBytes,  \* bytes in an int64_t, a uint64_t and a double
  Corrupt     \* TSEDGE_ERR_CORRUPT

Radix  == TwoTo[ByteBits]
Modulus == TwoTo[ByteBits * WordBytes]
Bytes  == 0..Radix - 1

\* A marker and the two byte counts of a value must each fit in a byte, and
\* TSEDGE_ERR_CORRUPT is none of the things a decoder can give.
ASSUME CodecAssumption ==
  /\ ByteBits \in Nat \ {0, 1}
  /\ WordBytes \in 4..Radix - 1
  /\ Corrupt \notin [next : Nat, value : Nat] \union [next : Nat, out : Seq(Int)]
  /\ Corrupt \notin [next : Nat, delta : Int, out : Seq(Int)]
  /\ Corrupt \notin Seq(Int) \union Seq(Int \X Int)

MaxInt == Modulus \div 2 - 1
MinInt == -(Modulus \div 2)

\* The casts between int64_t and uint64_t.
Unsigned(n) == n % Modulus
Signed(w) == IF w > MaxInt THEN w - Modulus ELSE w

\* int64_t arithmetic, as the build does it: it wraps around.
Int64(n) == Signed(Unsigned(n))

-----------------------------------------------------------------------------
(* bitstream.c *)

\* tsedge_write_u64_le
Write(w) == Split(ByteBits, WordBytes, w)

\* tsedge_read_u64_le, from the byte at position `at'.
Read(data, at) == Join(ByteBits, [i \in 1..WordBytes |-> data[at + i - 1]])

\* The sign moves to the lowest bit.
ZigzagEncode(n) ==
  LET doubled == Unsigned(2 * n) IN IF n < 0 THEN Modulus - 1 - doubled ELSE doubled

ZigzagDecode(w) ==
  Signed(IF w % 2 = 1 THEN Modulus - 1 - w \div 2 ELSE w \div 2)

\* Half of a byte's values say that another byte follows.
More == TwoTo[ByteBits - 1]

\* tsedge_varint_size
VarintSize(w) ==
  1 + Cardinality({k \in 1..ByteBits * WordBytes : w >= TwoTo[(ByteBits - 1) * k]})

\* tsedge_write_varint
Varint[w \in Nat] ==
  IF w < More THEN <<w>> ELSE <<(w % More) + More>> \o Varint[w \div More]

\* The groups of a varint, the lowest one first.
Groups(data, at, last) ==
  Join(ByteBits - 1, [i \in 1..last - at + 1 |-> data[at + i - 1] % More])

\* tsedge_read_varint: the position after the varint and its value, or Corrupt
\* when the stream or the width of a word ends first.
ReadVarint(data, at) ==
  LET limit == Min({Len(data), at + (ByteBits * WordBytes - 1) \div (ByteBits - 1)})
      last  == {i \in at..limit : data[i] < More}
  IN IF last = {} THEN Corrupt
     ELSE [next |-> Min(last) + 1, value |-> Unsigned(Groups(data, at, Min(last)))]

-----------------------------------------------------------------------------
\* Faulty variant: bytes behind the last point are ignored.
FinishedEarly(state, data) == IF state = Corrupt THEN Corrupt ELSE state.out

\* The end of both decoders: the stream must end with the last point.
Finished(state, data) ==
  IF state = Corrupt \/ state.next # Len(data) + 1 THEN Corrupt ELSE state.out

-----------------------------------------------------------------------------
(* tsedge_compress_timestamps, tsedge_decompress_timestamps *)

Delta(ts, i) == Int64(ts[i] - ts[i - 1])

Change(ts, i) == ZigzagEncode(Int64(Delta(ts, i) - Delta(ts, i - 1)))

\* Where the changes are in a sequence of timestamps.
Changes(ts) == [k \in 1..Max({Len(ts) - 2, 0}) |-> k + 2]

\* The first pass: the bytes to allocate.
TimestampSize(ts) ==
  WordBytes * Min({Len(ts), 2})
    + SumFunction([k \in DOMAIN Changes(ts) |-> VarintSize(Change(ts, k + 2))])

\* The second pass: the bytes.
CompressTimestamps(ts) ==
  Write(Unsigned(ts[1]))
    \o (IF Len(ts) = 1 THEN <<>> ELSE Write(Unsigned(Delta(ts, 2))))
    \o FlattenSeq([k \in DOMAIN Changes(ts) |-> Varint[Change(ts, k + 2)]])

\* The first timestamp and the first delta, which a single point has not.
DecodeHead(data, count) ==
  LET first == Signed(Read(data, 1)) IN
    IF count = 1
      THEN [next |-> 1 + WordBytes, delta |-> 0, out |-> <<first>>]
      ELSE LET delta == Signed(Read(data, WordBytes + 1))
           IN [next |-> 1 + 2 * WordBytes, delta |-> delta, out |-> <<first, Int64(first + delta)>>]

NextTimestamp(state, delta, next) ==
  [next |-> next, delta |-> delta, out |-> Append(state.out, Int64(Last(state.out) + delta))]

ApplyChange(state, read) ==
  IF read = Corrupt THEN Corrupt
  ELSE NextTimestamp(state, Int64(state.delta + ZigzagDecode(read.value)), read.next)

\* One round of the loop of tsedge_decompress_timestamps.
DecodeTimestamp(data, state) ==
  IF state = Corrupt THEN Corrupt ELSE ApplyChange(state, ReadVarint(data, state.next))

DecompressTimestamps(data, count) ==
  LET after[k \in 1..count] ==
        IF k <= 2 THEN DecodeHead(data, count) ELSE DecodeTimestamp(data, after[k - 1])
  IN IF Len(data) < WordBytes * Min({count, 2}) THEN Corrupt ELSE Finished(after[count], data)

-----------------------------------------------------------------------------
(* tsedge_compress_values, tsedge_decompress_values; a value is its bits *)

\* The exclusive or of two bytes, and of two words.
ByteXor ==
  [pair \in Bytes \X Bytes |->
     Join(1, [i \in 1..ByteBits |->
                (Split(1, ByteBits, pair[1])[i] + Split(1, ByteBits, pair[2])[i]) % 2])]

Xor(v, w) == Join(ByteBits, [i \in 1..WordBytes |-> ByteXor[<<Write(v)[i], Write(w)[i]>>]])

\* The bytes of a word, the most significant one first.
BigEndian(w) == Reverse(Write(w))

LeadingZeroBytes(w) ==
  Max({k \in 0..WordBytes : \A i \in 1..k : BigEndian(w)[i] = 0})

TrailingZeroBytes(w) ==
  Max({k \in 0..WordBytes : \A i \in 1..k : Write(w)[i] = 0})

Significant(w) == WordBytes - LeadingZeroBytes(w) - TrailingZeroBytes(w)

\* Whether marker 1, two counts and the significant bytes beat marker 2 and a word.
Packed(w) == Significant(w) + 3 < WordBytes + 1

\* The first pass, for one XOR.
XorSize(w) ==
  CASE w = 0 -> 1
    [] w # 0 /\ Significant(w) + 3 < WordBytes + 1 -> Significant(w) + 3
    [] OTHER -> WordBytes + 1

\* Faulty variant: the significant bytes are taken from the top of the word.
EncodeXorFromTop(w) ==
  CASE w = 0 -> <<0>>
    [] w # 0 /\ Packed(w) ->
         <<1, LeadingZeroBytes(w), Significant(w)>> \o SubSeq(BigEndian(w), 1, Significant(w))
    [] OTHER -> <<2>> \o Write(w)

\* The second pass, for one XOR.
EncodeXor(w) ==
  CASE w = 0 -> <<0>>
    [] w # 0 /\ Packed(w) ->
         LET leading == LeadingZeroBytes(w)
         IN <<1, leading, Significant(w)>>
              \o SubSeq(BigEndian(w), leading + 1, leading + Significant(w))
    [] OTHER -> <<2>> \o Write(w)

Xors(values) == [k \in 1..Len(values) - 1 |-> Xor(values[k], values[k + 1])]

ValueSize(values) ==
  WordBytes + SumFunction([k \in DOMAIN Xors(values) |-> XorSize(Xors(values)[k])])

CompressValues(values) ==
  Write(values[1]) \o FlattenSeq([k \in DOMAIN Xors(values) |-> EncodeXor(Xors(values)[k])])

\* The word that the packed bytes at `at' stand for.
Unpack(data, at, leading, significant) ==
  LET place(i) == WordBytes - leading - i  \* the packed byte for byte i of the word, from 0
  IN Join(ByteBits, [i \in 1..WordBytes |->
                       IF place(i) \in 0..significant - 1 THEN data[at + place(i)] ELSE 0])

NextValue(state, w, next) == [next |-> next, out |-> Append(state.out, Xor(Last(state.out), w))]

\* Marker 1: the two counts, and the significant bytes behind them.
DecodePacked(data, state, leading, significant) ==
  IF \/ leading >= WordBytes \/ significant = 0
     \/ leading + significant > WordBytes
     \/ Len(data) - state.next - 2 < significant
    THEN Corrupt
    ELSE NextValue(state, Unpack(data, state.next + 3, leading, significant),
                   state.next + 3 + significant)

\* One round of the loop of tsedge_decompress_values.
DecodeXor(data, state) ==
  IF state = Corrupt \/ state.next > Len(data) THEN Corrupt
  ELSE LET at   == state.next
           left == Len(data) - at
       IN CASE data[at] = 0 -> NextValue(state, 0, at + 1)
            [] data[at] = 1 /\ left >= 2 -> DecodePacked(data, state, data[at + 1], data[at + 2])
            [] data[at] = 2 /\ left >= WordBytes ->
                 NextValue(state, Read(data, at + 1), at + 1 + WordBytes)
            [] OTHER -> Corrupt

DecompressValues(data, count) ==
  LET after[k \in 1..count] ==
        IF k = 1 THEN [next |-> WordBytes + 1, out |-> <<Read(data, 1)>>]
        ELSE DecodeXor(data, after[k - 1])
  IN IF Len(data) < WordBytes THEN Corrupt ELSE Finished(after[count], data)
=============================================================================
