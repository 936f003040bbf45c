---------------------------- MODULE EntryCoding -----------------------------
(***************************************************************************)
(* The bytes of an InternalEntry (coding/internal_entry.cc): what          *)
(* TCTable::Insert and Delete allocate and encode, what is appended to a   *)
(* data block, and how ReadSSTDataBlock cuts the block up again.           *)
(***************************************************************************)
EXTENDS Varint, SequencesExt

CONSTANTS KeySizes, ValueSizes,   \* lengths of keys and values
          Fill,                   \* what their bytes and the id's are
          MaxEntries,             \* bound on the entries of a block
          Samples,                \* bytes that other numbers are made of
          Lengths,                \* lengths of their encodings
          After                   \* what may be in memory behind an encoding

ASSUME EntryCodingAssumption ==
    /\ KeySizes \subseteq 0..(2^16 - 1)
    /\ ValueSizes \subseteq 0..(2^16 - 1)
    /\ Fill \subseteq 0..255
    /\ MaxEntries \in Nat
    /\ Samples \subseteq 0..255
    /\ Lengths \subseteq 1..10
    /\ After \subseteq 0..255

VARIABLES written,       \* the entries of the block
          allocated,     \* bytes that were allocated for them
          block,         \* its bytes
          data_offset,   \* how far it has been read
          entry_set,     \* the entries that were read
          data, dest     \* a number on its own, and memory it is encoded to
vars == <<written, allocated, block, data_offset, entry_set, data, dest>>

kDelete == 0
kInsert == 1

\* A size as the uint64_t that is encoded, and back.
ToWord(n) == [k \in 0..7 |-> IF k < 2 THEN (n \div 256^k) % 256 ELSE 0]
ToSize(w) == w[0] + 256 * w[1]

Init ==
    /\ written = <<>>
    /\ allocated = 0
    /\ block = <<>>
    /\ data_offset = 0
    /\ entry_set = <<>>
    /\ data = ToWord(0)
    /\ dest = <<>>

Bytes(s) == EncodeVarint64(ToWord(Len(s))) \o s

EncodeInternal(e) ==
    Bytes(e.key) \o e.id \o <<e.op>>
        \o (IF e.op = kInsert THEN Bytes(e.value) ELSE <<>>)

\* entry_size of Insert and of Delete.
EntrySize(e) ==
    SizeOfVarint(ToWord(Len(e.key))) + Len(e.key) + 9
        + (IF e.op = kInsert THEN SizeOfVarint(ToWord(Len(e.value))) + Len(e.value) ELSE 0)

\* What a pointer into s, n bytes from its start, points at.
Skip(s, n) == SubSeq(s, n + 1, Len(s))

\* The bytes in front of the operation.
BeforeOp(s) ==
    LET size == DecodeVarint64(s) IN SizeOfVarint(size) + ToSize(size) + 8

EntryOpType(s) == s[BeforeOp(s) + 1]

\* The sequence whose length is encoded at s.
Payload(s) == SubSeq(Skip(s, SizeOfEncoded(s)), 1, ToSize(DecodeVarint64(s)))

\* Mutant: every length is taken to be one byte.
EntryKeyNear(s) == SubSeq(Skip(s, 1), 1, ToSize(DecodeVarint64(s)))

EntryKey(s) == Payload(s)

EntryValue(s) == Payload(Skip(s, BeforeOp(s) + 1))

\* The size of the sequence that EntryData returns.
EntryData(s) ==
    LET before_value_size == BeforeOp(s) + 1
        v == Skip(s, before_value_size)
    IN  IF EntryOpType(s) = kDelete THEN before_value_size
        ELSE before_value_size + SizeOfEncoded(v) + ToSize(DecodeVarint64(v))

-----------------------------------------------------------------------------
Entry ==
    LET S(n, b) == [i \in 1..n |-> b]
        K == {S(n, b) : n \in KeySizes, b \in Fill}
        V == {S(n, b) : n \in ValueSizes, b \in Fill}
        I == {S(8, b) : b \in Fill}
    IN  [key : K, id : I, op : {kInsert}, value : V]
            \cup [key : K, id : I, op : {kDelete}, value : {<<>>}]

(* The entry is encoded where memory was allocated, with other bytes       *)
(* behind it, and EntryData of it is appended to the block.                *)
Write ==
    /\ Len(written) < MaxEntries
    /\ data_offset = 0
    /\ dest = <<>>
    /\ \E e \in Entry, b \in Fill :
          LET m == EncodeInternal(e) \o [i \in 1..9 |-> b]
          IN  /\ written' = Append(written, e)
              /\ allocated' = allocated + EntrySize(e)
              /\ block' = block \o SubSeq(m, 1, EntryData(m))
    /\ UNCHANGED <<data_offset, entry_set, data, dest>>

\* One turn of the loop of ReadSSTDataBlock.
Read ==
    /\ data_offset < Len(block)
    /\ LET s == Skip(block, data_offset)
           op == EntryOpType(s)
       IN  /\ data_offset' = data_offset + EntryData(s)
           /\ entry_set' = Append(entry_set,
                  [key |-> EntryKey(s), op |-> op,
                   value |-> IF op = kInsert THEN EntryValue(s) ELSE <<>>])
    /\ UNCHANGED <<written, allocated, block, data, dest>>

(* Any number, encoded where no block is being made.                       *)
EncodeNumber ==
    /\ written = <<>>
    /\ dest = <<>>
    /\ \E w \in [0..7 -> Samples], a, b \in After :
          /\ SizeOfVarint(w) \in Lengths
          /\ data' = w
          /\ dest' = EncodeVarint64(w) \o <<a, b>>
    /\ UNCHANGED <<written, allocated, block, data_offset, entry_set>>

Next == Write \/ Read \/ EncodeNumber
Spec == Init /\ [][Next]_vars

-----------------------------------------------------------------------------
(* A block is cut into the entries it was made of, in their order, each    *)
(* with its key, operation and value, and its end is met exactly.  Insert  *)
(* and Delete have allocated as many bytes as EncodeInternal fills.        *)
EntriesReadBack ==
    /\ \A i \in DOMAIN entry_set :
          entry_set[i] = [key |-> written[i].key, op |-> written[i].op,
                          value |-> written[i].value]
    /\ data_offset <= Len(block)
    /\ data_offset = Len(block) => Len(entry_set) = Len(written)
    /\ allocated = Len(block)

(* varint.h: the coding rules conform with Protocol Buffers.  Decoding     *)
(* gives back the number that was encoded, whatever lies behind it in      *)
(* memory, and the length can be told from the bytes as from the number.   *)
RoundTrip ==
    dest # <<>> =>
        /\ DecodeVarint64(dest) = data
        /\ SizeOfEncoded(dest) = SizeOfVarint(data)
=============================================================================
