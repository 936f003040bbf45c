------------------------------- MODULE Writer -------------------------------
(***************************************************************************)
(* SequentialWriter: bytes are collected in a buffer of kMaxBufferSize     *)
(* bytes, which is appended to the file whenever it is full and at the end *)
(* of a batch.  Nothing fails here; Recovery has the writes that do.       *)
(***************************************************************************)
EXTENDS Integers, SequencesExt

CONSTANT kMaxBufferSize

ASSUME WriterAssumption == kMaxBufferSize \in Nat \ {0}

\* A writer: what its file holds and what is in its buffer.
NewWriter == [file |-> <<>>, buffer |-> <<>>]

\* How many of these bytes AppendToBuffer takes.
Buffered(w, bytes) == Min({Len(bytes), kMaxBufferSize - Len(w.buffer)})

AppendToBuffer(w, bytes) ==
    [w EXCEPT !.buffer = @ \o SubSeq(bytes, 1, Buffered(w, bytes))]

WriteAppendFile(w) == [file |-> w.file \o w.buffer, buffer |-> <<>>]

\* One sequence of a batch.  Every round but the first takes at least one
\* byte, so that Len(e) more rounds are enough.
PutSequence(w, e) ==
    LET Round(x, rest) ==
            [w |-> AppendToBuffer(x, rest),
             rest |-> SubSeq(rest, Buffered(x, rest) + 1, Len(rest))]
        round[k \in 0..Len(e)] ==
            IF k = 0 THEN Round(w, e)
            ELSE LET p == round[k - 1]
                 IN  IF p.rest = <<>> THEN p ELSE Round(WriteAppendFile(p.w), p.rest)
    IN  round[Len(e)].w

WriteBatch(w, es) ==
    LET put[i \in 0..Len(es)] ==
            IF i = 0 THEN w ELSE PutSequence(put[i - 1], es[i])
        last == put[Len(es)]
    IN  IF last.buffer = <<>> THEN last ELSE WriteAppendFile(last)

\* The buffer is cleared first and written after every round.
WriteFragment(w, bytes) == WriteBatch([w EXCEPT !.buffer = <<>>], <<bytes>>)
=============================================================================
