------------------------------ MODULE Recovery ------------------------------
(***************************************************************************)
(* What survives the process: the MANIFEST file and the SST files, written *)
(* by MVCCWriteLevel0 and BackgroundCompact through SequentialWriter and   *)
(* DBFile, and read by the constructor of the next instance.  The process  *)
(* may stop between any two writes; ~TCDB flushes nothing and waits for    *)
(* nobody, so a clean exit is a crash too.                                 *)
(*                                                                         *)
(* MANIFEST is a sequence of characters, in buffers of which it reaches    *)
(* the disk.  An SST file is the sequence of its blocks, each with the     *)
(* flushes whose entries it stands for.  Which files overlap, and so take  *)
(* part in a compaction, is any choice that CompactSST could make (LSM     *)
(* has the keys); a merge makes one new file.                              *)
(***************************************************************************)
EXTENDS VersionCtrl, SequencesExt

CONSTANTS LevelSize,    \* kDefaultLevelSize, the first levels of it
          Buffer,       \* kDefaultWriterBufferSize in characters
          MaxFlushes,   \* bound on the flushes of all instances
          MaxCrashes,   \* bound on the times the process stops
          MaxFailures   \* bound on the failing calls of open

ASSUME RecoveryAssumption ==
    /\ \A l \in DOMAIN LevelSize : LevelSize[l] \in Nat \ {0}
    /\ Buffer \in Nat \ {0}
    /\ MaxFlushes \in Nat /\ MaxCrashes \in Nat /\ MaxFailures \in Nat

VARIABLES MANIFEST,     \* disk: the characters of the file
          files,        \* disk: the blocks of every SST file
          stage,        \* the instance: off, build, boot, up or undefined
          file_id_,     \* the next file number
          manifest,     \* the flush task's copy of the manifest
          job,          \* what the flush task is writing
          flushes,      \* history: the flushes begun
          flushed,      \* history: the flushes that returned no error
          listed,       \* history: the last manifest written as a whole
          torn,         \* history: MANIFEST is not one whole manifest
          lost,         \* history: an instance stopped while it was torn, or
                        \* a file name was used again
          crashes,
          failures

diskvars == <<MANIFEST, files>>
historyvars == <<flushes, flushed, listed, torn, lost, crashes, failures>>
vars == <<versionvars, diskvars, stage, file_id_, manifest, job, historyvars>>

-----------------------------------------------------------------------------
(* ManifestFormat.  A manifest is its levels, a level its file names; the  *)
(* two paths are the same in every one of them.                            *)
NL == -1
SEMICOLON == -2
PATH == -3
LOG == -4
Absent == <<-5>>        \* there is no file

\* "%016lX": zeroes and the number.
Name(n) == <<0, n>>

\* Mutant: a level without files leaves no line.
EncodeLevelSkip(level) ==
    LET line == FlattenSeq([i \in DOMAIN level |-> level[i] \o <<SEMICOLON>>])
    IN  IF line = <<>> THEN <<>> ELSE [line EXCEPT ![Len(line)] = NL]

EncodeLevel(level) ==
    LET line == FlattenSeq([i \in DOMAIN level |-> level[i] \o <<SEMICOLON>>])
    IN  IF line = <<>> THEN <<NL>> ELSE [line EXCEPT ![Len(line)] = NL]

Encode(m) ==
    <<PATH, NL, LOG, NL>> \o FlattenSeq([l \in DOMAIN m |-> EncodeLevel(m[l])])

\* The positions in P from the first to the last.
InOrder(P) ==
    [n \in 1..Cardinality(P) |-> CHOOSE i \in P : Cardinality({j \in P : j <= i}) = n]

\* The pieces between the separators; an empty one at the end is dropped.
Split(s, separator) ==
    LET ends == InOrder({i \in DOMAIN s : s[i] = separator})
        cuts == <<0>> \o ends \o <<Len(s) + 1>>
        piece(k) == SubSeq(s, cuts[k] + 1, cuts[k + 1] - 1)
        last == Len(cuts) - 1
    IN  [k \in 1..(IF piece(last) = <<>> THEN last - 1 ELSE last) |-> piece(k)]

Lines(s) == Split(s, NL)

Decode(s) ==
    LET lines == Lines(s)
    IN  [l \in 1..(Len(lines) - 2) |-> Split(lines[l + 2], SEMICOLON)]

-----------------------------------------------------------------------------
(* SST files.                                                              *)
Blocks == <<"data", "index", "flexible", "footer">>

FilesOf(m) == UNION {Range(m[l]) : l \in DOMAIN m}

\* All four blocks of one file and nothing else.
Intact(f) ==
    /\ f \in DOMAIN files
    /\ Len(files[f]) = Len(Blocks)
    /\ \A b \in DOMAIN Blocks :
          files[f][b] = [block |-> Blocks[b], data |-> files[f][1].data]

DataOf(f) == files[f][1].data

\* Opened with O_APPEND: what a file of that name held stays.
Created(f) ==
    [g \in DOMAIN files \union {f} |-> IF g \in DOMAIN files THEN files[g] ELSE <<>>]

Reused(f) == f \in DOMAIN files /\ files[f] # <<>>

-----------------------------------------------------------------------------
(* The constructors of TCIO and TCDB.                                      *)
NoJob == [phase |-> "none", compact |-> FALSE, name |-> <<>>, data |-> {},
          next |-> <<>>, todo |-> <<>>, whole |-> FALSE, ok |-> TRUE]

Init ==
    /\ Down
    /\ MANIFEST = Absent
    /\ files = <<>>
    /\ stage = "off"
    /\ file_id_ = 0
    /\ manifest = <<>>
    /\ job = NoJob
    /\ flushes = 0 /\ flushed = {}
    /\ listed = <<>> /\ torn = FALSE /\ lost = FALSE
    /\ crashes = 0 /\ failures = 0

\* BuildMetadataFile makes the file and then writes its two lines.
BuildMetadataFile ==
    /\ stage = "off"
    /\ IF MANIFEST = Absent THEN MANIFEST' = <<>> /\ stage' = "build"
                            ELSE UNCHANGED MANIFEST /\ stage' = "boot"
    /\ UNCHANGED <<versionvars, files, file_id_, manifest, job, historyvars>>

BuildMetadataWrite ==
    /\ stage = "build"
    /\ MANIFEST' = <<PATH, NL, LOG>>
    /\ stage' = "boot"
    /\ UNCHANGED <<versionvars, files, file_id_, manifest, job, historyvars>>

\* Decode looks at the first two lines without asking whether they are there.
ReadManifest ==
    /\ stage = "boot"
    /\ IF Len(Lines(MANIFEST)) < 2
       THEN stage' = "undefined" /\ UNCHANGED versionvars
       ELSE stage' = "up" /\ Open(Decode(MANIFEST))
    /\ UNCHANGED <<diskvars, file_id_, manifest, job, historyvars>>

\* The process stops.  The next instance numbers its files from 0 again.
Crash ==
    /\ stage # "off"
    /\ crashes < MaxCrashes
    /\ crashes' = crashes + 1
    /\ Close
    /\ stage' = "off"
    /\ file_id_' = 0
    /\ manifest' = <<>>
    /\ job' = NoJob
    /\ torn' = FALSE
    /\ lost' = (lost \/ torn)
    /\ listed' = IF torn THEN Decode(MANIFEST) ELSE listed
    /\ UNCHANGED <<diskvars, flushes, flushed, failures>>

-----------------------------------------------------------------------------
(* MVCCWriteLevel0: the latest version, a copy of its manifest.            *)
Get(u) ==
    /\ stage = "up"
    /\ GetLatest(u) \/ GetCopy(u)
    /\ UNCHANGED <<diskvars, stage, file_id_, manifest, job, historyvars>>

BeginFlush ==
    /\ stage = "up"
    /\ flushes < MaxFlushes
    /\ FlushLatest
    /\ flushes' = flushes + 1
    /\ UNCHANGED <<diskvars, stage, file_id_, manifest, job, flushed, listed,
                   torn, lost, crashes, failures>>

CopyManifest ==
    /\ stage = "up"
    /\ FlushCopy
    /\ manifest' = it[Flusher]
    /\ job' = [NoJob EXCEPT !.phase = "first"]
    /\ UNCHANGED <<diskvars, stage, file_id_, historyvars>>

(* A new file: its number, and the file itself.                            *)
NewFile(compact, data, next) ==
    /\ file_id_' = file_id_ + 1
    /\ files' = Created(Name(file_id_))
    /\ lost' = (lost \/ Reused(Name(file_id_)))
    /\ job' = [phase |-> "sst", compact |-> compact, name |-> Name(file_id_),
               data |-> data, next |-> next,
               todo |-> [b \in DOMAIN Blocks |-> [block |-> Blocks[b], data |-> data]],
               whole |-> FALSE, ok |-> TRUE]

Level(l) == IF l <= Len(manifest) THEN manifest[l] ELSE <<>>

TooMany(l) == l \in DOMAIN manifest /\ Len(manifest[l]) >= LevelSize[l]

\* The file at the head of level 0 first, then as many of the first files of
\* the lowest level that is too full as are too many.
CompactFrom ==
    IF job.phase = "first" THEN 1
    ELSE CHOOSE l \in DOMAIN manifest : TooMany(l) /\ \A k \in 1..(l - 1) : ~ TooMany(k)

Chosen(l) ==
    IF job.phase = "first" THEN {1} ELSE 1..(Len(manifest[l]) - LevelSize[l] + 1)

Compacting ==
    \/ job.phase = "first" /\ TooMany(1)
    \/ job.phase = "loop" /\ \E l \in DOMAIN manifest : TooMany(l)

\* UpdateManifest: the files at `out' leave level l, the new one replaces the
\* stretch from first + 1 to last of the next level.
UpdateManifest(l, out, first, last, f) ==
    LET next == Level(l + 1)
        leave == {manifest[l][k] : k \in out}
        stay == InOrder({k \in DOMAIN manifest[l] : manifest[l][k] \notin leave})
    IN  [i \in 1..(IF l = Len(manifest) THEN l + 1 ELSE Len(manifest)) |->
            IF i = l THEN [n \in DOMAIN stay |-> manifest[l][stay[n]]]
            ELSE IF i = l + 1
            THEN SubSeq(next, 1, first) \o <<f>> \o SubSeq(next, last + 1, Len(next))
            ELSE manifest[i]]

CompactSST(l, out, first, last) ==
    LET in == {manifest[l][k] : k \in out} \union Range(SubSeq(Level(l + 1), first + 1, last))
    IN  IF \A f \in in : Intact(f)
        THEN /\ NewFile(TRUE, UNION {DataOf(f) : f \in in},
                        UpdateManifest(l, out, first, last, Name(file_id_)))
             /\ UNCHANGED stage
        ELSE /\ stage' = "undefined"
             /\ UNCHANGED <<files, file_id_, job, lost>>

\* A next level that is not overlapped gets the file in front or behind.
Compact ==
    /\ stage = "up"
    /\ Compacting
    /\ LET l == CompactFrom
           n == Len(Level(l + 1))
       IN  \E more \in SUBSET (IF l = 1 THEN DOMAIN manifest[1] ELSE {}) :
           \E first \in 0..n, last \in 0..n :
               /\ first < last \/ (first = last /\ first \in {0, n})
               /\ CompactSST(l, Chosen(l) \union more, first, last)
    /\ UNCHANGED <<versionvars, MANIFEST, manifest, flushes, flushed, listed, torn,
                   crashes, failures>>

Level0Push(f) ==
    IF manifest = <<>> THEN <<<<f>>>> ELSE [manifest EXCEPT ![1] = Append(@, f)]

WriteLevel0File ==
    /\ stage = "up"
    /\ job.phase \in {"first", "loop"}
    /\ ~ Compacting
    /\ NewFile(FALSE, {flushes}, Level0Push(Name(file_id_)))
    /\ UNCHANGED <<versionvars, MANIFEST, stage, manifest, flushes, flushed, listed, torn,
                   crashes, failures>>

-----------------------------------------------------------------------------
(* Writing.  WriteSSTFile appends its blocks one by one.  A level 0 file   *)
(* is pushed to the manifest once it is complete.                          *)

\* Mutant: the file is listed before its footer is written.
WriteBlockNoFooter ==
    /\ stage = "up"
    /\ job.phase = "sst"
    /\ files' = [files EXCEPT ![job.name] = Append(@, Head(job.todo))]
    /\ IF Len(job.todo) > 2
       THEN job' = [job EXCEPT !.todo = Tail(@)] /\ UNCHANGED manifest
       ELSE /\ job' = [job EXCEPT !.phase = "open", !.todo = Encode(job.next)]
            /\ manifest' = IF job.compact THEN manifest ELSE job.next
    /\ UNCHANGED <<versionvars, MANIFEST, stage, file_id_, historyvars>>

WriteBlock ==
    /\ stage = "up"
    /\ job.phase = "sst"
    /\ files' = [files EXCEPT ![job.name] = Append(@, Head(job.todo))]
    /\ IF Len(job.todo) > 1
       THEN job' = [job EXCEPT !.todo = Tail(@)] /\ UNCHANGED manifest
       ELSE /\ job' = [job EXCEPT !.phase = "open", !.todo = Encode(job.next)]
            /\ manifest' = IF job.compact THEN manifest ELSE job.next
    /\ UNCHANGED <<versionvars, MANIFEST, stage, file_id_, historyvars>>

\* WriteManifest: the constructor of DBFile truncates the file, if it can
\* open it.
OpenManifest ==
    /\ stage = "up"
    /\ job.phase = "open"
    /\ \/ /\ MANIFEST' = <<>>
          /\ torn' = TRUE
          /\ job' = [job EXCEPT !.phase = "append", !.whole = TRUE]
          /\ UNCHANGED failures
       \/ /\ failures < MaxFailures
          /\ failures' = failures + 1
          /\ job' = [job EXCEPT !.phase = "append"]
          /\ UNCHANGED <<MANIFEST, torn>>
    /\ UNCHANGED <<versionvars, files, stage, file_id_, manifest, flushes, flushed, listed,
                   lost, crashes>>

\* WriteFragment, buffer by buffer.  When all is written UpdateManifest takes
\* the new manifest over.
AppendManifest ==
    /\ stage = "up"
    /\ job.phase = "append"
    /\ MANIFEST' = MANIFEST \o SubSeq(job.todo, 1, Min({Buffer, Len(job.todo)}))
    /\ IF Len(job.todo) > Buffer
       THEN /\ job' = [job EXCEPT !.todo = SubSeq(@, Buffer + 1, Len(@))]
            /\ torn' = TRUE
            /\ UNCHANGED <<manifest, listed>>
       ELSE /\ job' = IF job.compact THEN [NoJob EXCEPT !.phase = "loop"]
                      ELSE [NoJob EXCEPT !.phase = "version"]
            /\ torn' = ~ job.whole
            /\ manifest' = job.next
            /\ listed' = job.next
    /\ UNCHANGED <<versionvars, files, stage, file_id_, flushes, flushed, lost,
                   crashes, failures>>

\* A file cannot be opened for appending.  BackgroundCompact gives up; after
\* WriteLevel0File has failed the manifest becomes a version nevertheless.
WriteFails ==
    /\ stage = "up"
    /\ job.phase \in {"sst", "append"}
    /\ failures < MaxFailures
    /\ failures' = failures + 1
    /\ IF job.compact
       THEN job' = NoJob /\ CompactFails
       ELSE /\ job' = [NoJob EXCEPT !.phase = "version", !.ok = FALSE]
            /\ UNCHANGED versionvars
    /\ UNCHANGED <<diskvars, stage, file_id_, manifest, flushes, flushed, listed, torn,
                   lost, crashes>>

AppendFlush ==
    /\ stage = "up"
    /\ job.phase = "version"
    /\ FlushAppend(manifest)
    /\ job' = [job EXCEPT !.phase = "none"]
    /\ UNCHANGED <<diskvars, stage, file_id_, manifest, historyvars>>

EndFlush ==
    /\ stage = "up"
    /\ FlushUnref(job.ok)
    /\ flushed' = IF job.ok THEN flushed \union {flushes} ELSE flushed
    /\ job' = NoJob
    /\ UNCHANGED <<diskvars, stage, file_id_, manifest, flushes, listed, torn, lost,
                   crashes, failures>>

Next ==
    \/ BuildMetadataFile \/ BuildMetadataWrite \/ ReadManifest \/ Crash
    \/ \E u \in Readers : Get(u)
    \/ BeginFlush \/ CopyManifest \/ Compact \/ WriteLevel0File
    \/ WriteBlock \/ OpenManifest \/ AppendManifest \/ WriteFails
    \/ AppendFlush \/ EndFlush

Spec == Init /\ [][Next]_vars

-----------------------------------------------------------------------------
(* While no flush is under way and none has failed, the latest version is  *)
(* the manifest that was written last, and the MANIFEST file says so: a    *)
(* compaction and the flush it belongs to, an instance and the next one    *)
(* agree on the files of every level, through Encode, the buffers of the   *)
(* writer, Decode and AppendVersion.                                       *)
ManifestIsLatest ==
    stage = "up" /\ pc[Flusher] = "idle" /\ ~ torn =>
        newest = listed /\ Decode(MANIFEST) = listed

(* Whenever the process stops, MANIFEST lists complete files only, and     *)
(* these hold every flush that returned without an error, unless it stops  *)
(* while the MANIFEST file is being rewritten, or a file has been written  *)
(* twice: nothing else that is interrupted or fails loses a flush.         *)
FlushedSurvive ==
    ~ torn /\ ~ lost /\ MANIFEST # Absent =>
        LET named == FilesOf(Decode(MANIFEST))
        IN  /\ \A f \in named : Intact(f)
            /\ flushed \subseteq UNION {DataOf(f) : f \in named}

(* db.cc: ReadManifest is assumed to succeed always.  A database that an   *)
(* instance has made can be opened by the next one.                        *)
NextInstanceStarts == stage # "undefined"

(* A flush that returned without an error is never lost.                   *)
NothingFlushedIsLost ==
    stage = "up" /\ pc[Flusher] = "idle" =>
        LET named == FilesOf(newest)
        IN  /\ \A f \in named : Intact(f)
            /\ flushed \subseteq UNION {DataOf(f) : f \in named}
=============================================================================
