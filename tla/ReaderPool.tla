----------------------------- MODULE ReaderPool -----------------------------
(***************************************************************************)
(* The readers of TCIO (src/io/io.cc, src/io/reader.cc): every function    *)
(* that reads a file takes a SequentialReader from the back of readers_,   *)
(* reads with it once or several times, and puts it back; only taking and  *)
(* putting back is under io_lock_.  A reader has one buffer, through which *)
(* short reads go.                                                         *)
(***************************************************************************)
EXTENDS Integers, Sequences, FiniteSets, SequencesExt

CONSTANTS Threads,           \* threads that read files at the same time
          SSTThreads,        \* those of them that read SST files
          kDefaultReaderNum,
          Parts,             \* parts of files: what a read asks for
          LongParts,         \* parts that do not fit into the buffer
          MaxReads           \* bound on the reads

ASSUME ReaderPoolAssumption ==
    /\ IsFiniteSet(Threads) /\ SSTThreads \subseteq Threads
    /\ kDefaultReaderNum \in Nat \ {0}
    /\ LongParts \subseteq Parts
    /\ MaxReads \in Nat

VARIABLES readers_,    \* the readers that are free
          reader,      \* the reader a thread has taken, 0 if none
          buffer,      \* what is in the buffer of each reader
          want,        \* the parts a call still has to read
          ret,         \* what its last read returned
          pc,
          reads

vars == <<readers_, reader, buffer, want, ret, pc, reads>>

NoPart == "no part"

Init ==
    /\ readers_ = [i \in 1..kDefaultReaderNum |-> i]
    /\ reader = [t \in Threads |-> 0]
    /\ buffer = [r \in 1..kDefaultReaderNum |-> NoPart]
    /\ want = [t \in Threads |-> <<>>]
    /\ ret = [t \in Threads |-> NoPart]
    /\ pc = [t \in Threads |-> "idle"]
    /\ reads = 0

Goto(t, l) == pc' = [pc EXCEPT ![t] = l]

\* Mutant: the reader is used and stays in the vector.
PopBackNot == readers_

\* readers_.pop_back() of a vector that is not empty.
PopBack == Front(readers_)

Take(t, parts) ==
    /\ reader' = [reader EXCEPT ![t] = Last(readers_)]
    /\ readers_' = PopBack
    /\ want' = [want EXCEPT ![t] = parts]
    /\ Goto(t, "read")

\* back() and pop_back() of an empty vector: what follows is undefined.
Undefined(t) ==
    /\ Goto(t, "undefined")
    /\ UNCHANGED <<reader, readers_, want>>

\* ReadManifest returns an error when no reader is left.
ReadManifest(t) ==
    /\ pc[t] = "idle"
    /\ reads < MaxReads
    /\ \E p \in Parts :
          IF readers_ = <<>> THEN UNCHANGED <<reader, readers_, want, pc>>
          ELSE Take(t, <<p>>)
    /\ reads' = reads + 1
    /\ UNCHANGED <<buffer, ret>>

\* ReadSSTFlexible, ReadSSTIndex, ReadSSTDataBlock and ReadSSTFooter read
\* one part; the ReadSSTFooter that returns the boundaries reads three.
ReadSST(t) ==
    /\ t \in SSTThreads
    /\ pc[t] = "idle"
    /\ reads < MaxReads
    /\ \E p, q \in Parts : \E parts \in {<<p>>, <<p, q, q>>} :
          IF readers_ = <<>> THEN Undefined(t) ELSE Take(t, parts)
    /\ reads' = reads + 1
    /\ UNCHANGED <<buffer, ret>>

(* InternalRead, with a reader.  A long part is read straight into the     *)
(* result, a short one into the buffer first.                              *)
ReadBytes(t) ==
    /\ pc[t] = "read"
    /\ LET p == Head(want[t])
       IN  IF p \in LongParts
           THEN ret' = [ret EXCEPT ![t] = p] /\ buffer' = buffer /\ Goto(t, "got")
           ELSE /\ buffer' = [buffer EXCEPT ![reader[t]] = p]
                /\ ret' = ret
                /\ Goto(t, "copy")
    /\ UNCHANGED <<readers_, reader, want, reads>>

CopyOut(t) ==
    /\ pc[t] = "copy"
    /\ ret' = [ret EXCEPT ![t] = buffer[reader[t]]]
    /\ Goto(t, "got")
    /\ UNCHANGED <<readers_, reader, buffer, want, reads>>

\* On to the next part, or done.
Advance(t) ==
    /\ pc[t] = "got"
    /\ want' = [want EXCEPT ![t] = Tail(want[t])]
    /\ Goto(t, IF Len(want[t]) > 1 THEN "read" ELSE "give")
    /\ UNCHANGED <<readers_, reader, buffer, ret, reads>>

\* Mutant: a read that fails returns at once.
ReadFailsAway(t) ==
    /\ pc[t] = "read"
    /\ ret' = [ret EXCEPT ![t] = NoPart]
    /\ want' = [want EXCEPT ![t] = <<>>]
    /\ reader' = [reader EXCEPT ![t] = 0]
    /\ Goto(t, "idle")
    /\ UNCHANGED <<readers_, buffer, reads>>

\* The file cannot be opened or is too short: the parts that are left are
\* not read.
ReadFails(t) ==
    /\ pc[t] = "read"
    /\ ret' = [ret EXCEPT ![t] = NoPart]
    /\ want' = [want EXCEPT ![t] = <<>>]
    /\ Goto(t, "give")
    /\ UNCHANGED <<readers_, reader, buffer, reads>>

GiveBack(t) ==
    /\ pc[t] = "give"
    /\ readers_' = Append(readers_, reader[t])
    /\ reader' = [reader EXCEPT ![t] = 0]
    /\ Goto(t, "idle")
    /\ UNCHANGED <<buffer, want, ret, reads>>

Next ==
    \E t \in Threads :
        \/ ReadManifest(t) \/ ReadSST(t)
        \/ ReadBytes(t) \/ CopyOut(t) \/ Advance(t) \/ ReadFails(t)
        \/ GiveBack(t)

Spec == Init /\ [][Next]_vars

-----------------------------------------------------------------------------
(* Every read returns the part it asked for: nobody else reads through the *)
(* same buffer between filling it and copying it out.                      *)
OwnPart == \A t \in Threads : pc[t] = "got" => ret[t] = Head(want[t])

(* Every reader is free or with one thread, also after reads that failed:  *)
(* none is lost and none is handed out twice.                              *)
ReadersKept ==
    \A r \in 1..kDefaultReaderNum :
        Cardinality({i \in DOMAIN readers_ : readers_[i] = r})
          + Cardinality({t \in Threads : reader[t] = r}) = 1

(* io.h: readers_ is protected from concurrent unsafety.  No thread takes  *)
(* a reader from an empty vector.                                          *)
NeverUndefined == \A t \in Threads : pc[t] # "undefined"
=============================================================================
