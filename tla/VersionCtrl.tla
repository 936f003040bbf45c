---------------------------- MODULE VersionCtrl ----------------------------
(***************************************************************************)
(* TCVersionCtrl: the list of manifests with their reference counts, as    *)
(* Get and MVCCWriteLevel0 use it.  Each method holds v_mutex_ and is one  *)
(* step; what a caller does with the iterator it got is a step of its own. *)
(* What a manifest is does not matter here: versions are told apart by     *)
(* their encoded manifests.  Recovery has the files behind them.           *)
(***************************************************************************)
EXTENDS Integers, Sequences, FiniteSets, SequencesExt

CONSTANTS Readers,      \* threads that call Get
          MaxGets       \* bound on the calls of Get of one instance

Flusher == "flusher"    \* the pool runs one task at a time
Users == Readers \union {Flusher}

ASSUME VersionCtrlAssumption == MaxGets \in Nat /\ Flusher \notin Readers

VARIABLES version_list_,    \* versions: manifest and ref_
          pc,               \* off, idle, copy, work, unref or failed
          it,               \* the manifest of the version an iterator is at
          gets,             \* calls of Get so far
          newest            \* history: the manifest appended last

versionvars == <<version_list_, pc, it, gets, newest>>

\* No instance is running: nothing of this outlives the process.
Down ==
    /\ version_list_ = <<>>
    /\ pc = [u \in Users |-> "off"]
    /\ it = [u \in Users |-> <<>>]
    /\ gets = 0
    /\ newest = <<>>

Close ==
    /\ version_list_' = <<>>
    /\ pc' = [u \in Users |-> "off"]
    /\ it' = [u \in Users |-> <<>>]
    /\ gets' = 0
    /\ newest' = <<>>

\* The constructor appends the manifest it has read, with its one reference.
Open(m) ==
    /\ version_list_' = <<[manifest |-> m, ref |-> 1]>>
    /\ pc' = [u \in Users |-> "idle"]
    /\ newest' = m
    /\ UNCHANGED <<it, gets>>

ExistVersion(m) == \E i \in DOMAIN version_list_ : version_list_[i].manifest = m

Place(m) == CHOOSE i \in DOMAIN version_list_ : version_list_[i].manifest = m

\* Mutant: the iterator is returned without a reference.
LatestVersionNoRef(u) ==
    /\ it' = [it EXCEPT ![u] = version_list_[Len(version_list_)].manifest]
    /\ UNCHANGED version_list_

LatestVersion(u) ==
    /\ it' = [it EXCEPT ![u] = version_list_[Len(version_list_)].manifest]
    /\ version_list_' = [version_list_ EXCEPT ![Len(version_list_)].ref = @ + 1]

\* Appends the version with ref 0, or refers to the one that is there.
AppendVersion(m) ==
    version_list_' = IF ExistVersion(m)
                     THEN [version_list_ EXCEPT ![Place(m)].ref = @ + 1]
                     ELSE Append(version_list_, [manifest |-> m, ref |-> 0])

\* Mutant: a version without references stays in the list.
UnrefVersionOnly(m) ==
    version_list_' = [version_list_ EXCEPT ![Place(m)].ref = @ - 1]

UnrefVersion(m) ==
    LET p == Place(m)
    IN  version_list_' = IF version_list_[p].ref > 1
                         THEN [version_list_ EXCEPT ![p].ref = @ - 1]
                         ELSE RemoveAt(version_list_, p)

-----------------------------------------------------------------------------
(* Get copies the manifest and never gives the reference back.             *)
GetLatest(u) ==
    /\ pc[u] = "idle"
    /\ gets < MaxGets
    /\ gets' = gets + 1
    /\ LatestVersion(u)
    /\ pc' = [pc EXCEPT ![u] = "copy"]
    /\ UNCHANGED newest

GetCopy(u) ==
    /\ pc[u] = "copy"
    /\ pc' = [pc EXCEPT ![u] = "idle"]
    /\ UNCHANGED <<version_list_, it, gets, newest>>

(* MVCCWriteLevel0.  A task that returns an error is the last one of the   *)
(* instance (WritePath): its pc stays at failed.                           *)
FlushLatest ==
    /\ pc[Flusher] = "idle"
    /\ LatestVersion(Flusher)
    /\ pc' = [pc EXCEPT ![Flusher] = "copy"]
    /\ UNCHANGED <<gets, newest>>

FlushCopy ==
    /\ pc[Flusher] = "copy"
    /\ pc' = [pc EXCEPT ![Flusher] = "work"]
    /\ UNCHANGED <<version_list_, it, gets, newest>>

\* BackgroundCompact failed: the task returns with its reference.
CompactFails ==
    /\ pc[Flusher] = "work"
    /\ pc' = [pc EXCEPT ![Flusher] = "failed"]
    /\ UNCHANGED <<version_list_, it, gets, newest>>

\* The manifest that was made, even when writing it or its file failed.  It
\* is known already when the file could not be written and nothing had been
\* compacted: the version gets another reference and the task returns.
FlushAppend(m) ==
    /\ pc[Flusher] = "work"
    /\ AppendVersion(m)
    /\ newest' = IF ExistVersion(m) THEN newest ELSE m
    /\ pc' = [pc EXCEPT ![Flusher] = IF ExistVersion(m) THEN "failed" ELSE "unref"]
    /\ UNCHANGED <<it, gets>>

FlushUnref(ok) ==
    /\ pc[Flusher] = "unref"
    /\ UnrefVersion(it[Flusher])
    /\ pc' = [pc EXCEPT ![Flusher] = IF ok THEN "idle" ELSE "failed"]
    /\ UNCHANGED <<it, gets, newest>>

-----------------------------------------------------------------------------
(* A thread that has an iterator and will use it.                          *)
InUse(u) == pc[u] \in {"copy", "work", "unref"}

Up == pc[Flusher] # "off"

(* No iterator that LatestVersion returned is used after its version was   *)
(* evicted: Get copies the manifest without the mutex while flushes append *)
(* and evict versions.                                                     *)
IteratorsValid == \A u \in Users : InUse(u) => ExistVersion(it[u])

(* The version that was appended last is never evicted, so LatestVersion   *)
(* finds it: a version is appended with no reference at all, and a Get     *)
(* that gave its reference back would evict it.                            *)
LatestStays ==
    Up => /\ version_list_ # <<>>
          /\ version_list_[Len(version_list_)].manifest = newest

(* A version that is not the latest stays in the list only as long as it   *)
(* is referred to: UnrefVersion evicts the others.                         *)
OldEvicted ==
    \A i \in DOMAIN version_list_ :
        i < Len(version_list_) => version_list_[i].ref > 0

(* The list keeps what is needed and nothing else: the version appended    *)
(* last, although a Get or a flush of an older one may be the only one     *)
(* that refers to anything, and of the others those that are referred to.  *)
VersionsKept == LatestStays /\ OldEvicted
=============================================================================
