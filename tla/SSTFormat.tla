----------------------------- MODULE SSTFormat -----------------------------
(***************************************************************************)
(* The bytes of an SST file, as WriteSSTFile puts them there block by      *)
(* block and as the functions of TCIO read them back: data, index, bloom   *)
(* filter and footer.  Every byte says what it is a byte of, so that a     *)
(* read at a wrong offset shows.                                           *)
(***************************************************************************)
EXTENDS Entries, BloomFilter, Writer

CONSTANTS SizeOf(_),     \* bytes of an encoded entry
          BlkLimit       \* kDefaultDataBlkSize

\* A file with the entries of S.
Ascending(S) ==
    [i \in 1..Cardinality(S) |-> CHOOSE e \in S : Rank(e, S) = i - 1]

EntryBytes(e) == [j \in 1..SizeOf(e) |-> [entry |-> e, at |-> j - 1]]
Uint32(n) == [j \in 1..4 |-> [number |-> n, at |-> j - 1]]

Size(es) == SumFunction([i \in DOMAIN es |-> SizeOf(es[i])])

-----------------------------------------------------------------------------
(* WriteSSTData.  The entry that would overflow the current block still    *)
(* goes into it and closes it: the block is written as one batch.          *)
NoBlock(sw) == [sw |-> sw, offset |-> <<>>, cur |-> 0, blk |-> 0, open |-> <<>>]

WriteBlock(w) == WriteBatch(w.sw, [i \in DOMAIN w.open |-> EntryBytes(w.open[i])])

\* Mutant: a block of a single entry is left out of the index.
PutEntryUnlisted(w, e) ==
    LET with == [w EXCEPT !.open = Append(@, e)]
    IN  IF w.blk + SizeOf(e) > BlkLimit
        THEN [sw |-> WriteBlock(with),
              offset |-> IF w.blk = 0 THEN w.offset ELSE Append(w.offset, w.cur),
              cur |-> w.cur + w.blk + SizeOf(e), blk |-> 0, open |-> <<>>]
        ELSE [with EXCEPT !.blk = @ + SizeOf(e)]

PutEntry(w, e) ==
    LET with == [w EXCEPT !.open = Append(@, e)]
    IN  IF w.blk + SizeOf(e) > BlkLimit
        THEN [sw |-> WriteBlock(with), offset |-> Append(w.offset, w.cur),
              cur |-> w.cur + w.blk + SizeOf(e), blk |-> 0, open |-> <<>>]
        ELSE [with EXCEPT !.blk = @ + SizeOf(e)]

WriteSSTData(sw, es) ==
    LET put[i \in 0..Len(es)] ==
            IF i = 0 THEN NoBlock(sw) ELSE PutEntry(put[i - 1], es[i])
        w == put[Len(es)]
    IN  IF w.open = <<>>
        THEN [sw |-> w.sw, offset |-> w.offset, size |-> w.cur]
        ELSE [sw |-> WriteBlock(w), offset |-> Append(w.offset, w.cur),
              size |-> w.cur + Size(w.open)]

\* The index block: the number of offsets, then the offsets.
WriteSSTIndex(sw, offset) ==
    WriteFragment(sw, FlattenSeq([i \in 1..(Len(offset) + 1) |->
                                     Uint32((<<Len(offset)>> \o offset)[i])]))

WriteSSTFlexible(sw, filter) == WriteFragment(sw, filter)

WriteSSTFileFooter(sw, f) ==
    WriteFragment(sw, Uint32(f.min_key_size) \o Uint32(f.max_key_offset)
                      \o Uint32(f.max_key_size) \o Uint32(f.data_blk_size)
                      \o Uint32(f.index_blk_size) \o Uint32(f.flexible_blk_size))

WriteSSTFile(es) ==
    LET data == WriteSSTData(NewWriter, es)
        filter == CreateFilter([i \in DOMAIN es |-> es[i].key])
        back == SizeOf(es[Len(es)])
        footer == [min_key_size |-> SizeOf(es[1]),
                   max_key_offset |-> data.size - back,
                   max_key_size |-> back,
                   data_blk_size |-> data.size,
                   index_blk_size |-> (Len(data.offset) + 1) * 4,
                   flexible_blk_size |-> Len(filter)]
    IN  WriteSSTFileFooter(
            WriteSSTFlexible(WriteSSTIndex(data.sw, data.offset), filter), footer).file

-----------------------------------------------------------------------------
(* Reading.  The footer is what the file ends with.                        *)
kSSTFooterSize == 24

Read(file, size, offset) == SubSeq(file, offset + 1, offset + size)

Number(bytes, n) == bytes[4 * n + 1].number

ReadSSTFooter(file) ==
    LET b == Read(file, kSSTFooterSize, Len(file) - kSSTFooterSize)
    IN  [min_key_size |-> Number(b, 0), max_key_offset |-> Number(b, 1),
         max_key_size |-> Number(b, 2), data_blk_size |-> Number(b, 3),
         index_blk_size |-> Number(b, 4), flexible_blk_size |-> Number(b, 5)]

\* Its callers append the end of the data as one more offset.
ReadSSTIndex(file) ==
    LET f == ReadSSTFooter(file)
        b == Read(file, f.index_blk_size, f.data_blk_size)
    IN  Append([i \in 1..Number(b, 0) |-> Number(b, i)], f.data_blk_size)

ReadSSTFlexible(file) ==
    LET f == ReadSSTFooter(file)
    IN  Read(file, f.flexible_blk_size, f.data_blk_size + f.index_blk_size)

\* The entries that begin within the block.
ReadSSTDataBlock(file, size, offset) ==
    LET begins == SelectSeq(Read(file, size, offset), LAMBDA b : b.at = 0)
    IN  [i \in DOMAIN begins |-> begins[i].entry]

\* The first and the last entry, found through the footer.
ReadSSTBoundary(file) ==
    LET f == ReadSSTFooter(file)
    IN  <<ReadSSTDataBlock(file, f.min_key_size, 0),
          ReadSSTDataBlock(file, f.max_key_size, f.max_key_offset)>>

Block(file, index, n) == ReadSSTDataBlock(file, index[n + 1] - index[n], index[n])
=============================================================================
