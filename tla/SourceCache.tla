----------------------------- MODULE SourceCache -----------------------------
(***************************************************************************)
(* The source cache (core/src/cache.rs, SourceCache): which file id stands *)
(* for a path, and what text that id holds.  A path is served from memory  *)
(* while an editor has it open and from the disk, by modification time,    *)
(* otherwise.  The operators map a cache and a disk to what each method    *)
(* returns; a cache is a record                                            *)
(*     fileIds : path -> its entry of the name-id table                    *)
(*     files   : the sequence of sources ever added; a file id is an index *)
(***************************************************************************)
EXTENDS Integers, Sequences, FiniteSets

CONSTANTS
    Files,      \* normalised paths
    NoFile,     \* a path with nothing on disk
    NoEntry,    \* a path without entry in the name-id table
    NoId        \* the absence of a file id

Source == [kind : {"Memory", "MemoryClosed", "Filesystem"}, ts : Nat]
Entry == [id : Nat, source : Source]

ASSUME SourceCacheAssumption ==
    /\ IsFiniteSet(Files)
    /\ NoId \notin Nat
    /\ NoEntry \notin Entry

Memory == [kind |-> "Memory", ts |-> 0]
MemoryClosed == [kind |-> "MemoryClosed", ts |-> 0]
Filesystem(ts) == [kind |-> "Filesystem", ts |-> ts]

NewCache == [fileIds |-> [f \in Files |-> NoEntry], files |-> <<>>]

\* id_of and id_or_new_timestamp_of: an entry is up to date when it is in
\* memory or has the modification time of the file on disk.
UpToDate(cache, disk, f) ==
    LET entry == cache.fileIds[f] IN
    /\ entry # NoEntry
    /\ \/ entry.source = Memory
       \/ disk[f] # NoFile /\ entry.source = Filesystem(disk[f].ts)

IdOf(cache, disk, f) ==
    IF UpToDate(cache, disk, f) THEN cache.fileIds[f].id ELSE NoId

\* add_string: a fresh id takes over the path, the old id and its source
\* stay.
AddString(cache, f, content) ==
    [fileIds |-> [cache.fileIds EXCEPT
                    ![f] = [id |-> Len(cache.files) + 1, source |-> Memory]],
     files |-> Append(cache.files, [path |-> f, content |-> content])]

ReplaceString(cache, disk, f, content) ==
    LET id == IdOf(cache, disk, f) IN
    IF id = NoId
    THEN AddString(cache, f, content)
    ELSE [fileIds |-> [cache.fileIds EXCEPT ![f].source = Memory],
          files |-> [cache.files EXCEPT ![id].content = content]]

\* The elements of a finite set, each one once, in some order.
Enumerated(S) ==
    CHOOSE q \in [1..Cardinality(S) -> S] : \A x \in S : \E i \in DOMAIN q : q[i] = x

\* get_or_add_file, for a set of files: those that are not up to date are
\* read, and get the next ids (in an order that does not matter).  A file
\* that does not exist is an error, which the caller tells by IdOf.
GetOrAddFiles(cache, disk, fs) ==
    LET new == {f \in fs : ~UpToDate(cache, disk, f) /\ disk[f] # NoFile}
        order == Enumerated(new)
        entry(i) == [id |-> Len(cache.files) + i,
                     source |-> Filesystem(disk[order[i]].ts)]
    IN  [fileIds |-> [f \in Files |->
                        IF f \in new
                        THEN entry(CHOOSE i \in DOMAIN order : order[i] = f)
                        ELSE cache.fileIds[f]],
         files |-> cache.files \o
                     [i \in DOMAIN order |-> [path |-> order[i],
                                             content |-> disk[order[i]].content]]]

CanClose(cache, f) ==
    cache.fileIds[f] # NoEntry /\ cache.fileIds[f].source = Memory

CloseInMemoryFile(cache, disk, f) ==
    GetOrAddFiles([cache EXCEPT !.fileIds[f].source = MemoryClosed], disk, {f})
=============================================================================
