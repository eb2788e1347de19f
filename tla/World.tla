-------------------------------- MODULE World --------------------------------
(***************************************************************************)
(* What the language server knows about files (lsp/nls/src/world.rs,       *)
(* analysis.rs, files.rs and handle_document_sync of server.rs): sources,  *)
(* the registry of analyses, the import graph, and the set of files whose  *)
(* published diagnostics are out of date.                                  *)
(*                                                                         *)
(* A source is abstracted to what the diagnostics depend on: whether it    *)
(* parses, and its body, the sequence of names it imports in the order the *)
(* typechecker walks them, with TypeError where its own code is wrong.     *)
(* Diagnostics are abstracted to whether there are any.                    *)
(*                                                                         *)
(* The server is one thread; the recursive typecheck is a stack of frames, *)
(* and no other operation runs while the stack is not empty.               *)
(***************************************************************************)
EXTENDS SourceCache

CONSTANTS
    Names,          \* names that imports are written with
    Candidates,     \* name -> the paths it may stand for, in lookup order
    FileName,       \* path -> its last component, a name
    TypeError,      \* a place in a body where the file's own code is wrong
    ContentsOf,     \* the sources a file may have, per file
    InitialDisks,   \* the disks the server may start with
    MaxWrites,      \* bound: modifications of the disk by other programs
    MaxOps,         \* bound: synchronisations, eval commands and modifications
    MaxDepth        \* bound: frames of the recursive typecheck

Content == [parses : BOOLEAN, body : Seq(Names \cup {TypeError})]

ASSUME WorldAssumption ==
    /\ ContentsOf \in [Files -> SUBSET Content]
    /\ FileName \in [Files -> Names]
    /\ Candidates \in [Names -> Seq(Files)]
    /\ TypeError \notin Names
    /\ InitialDisks \subseteq [Files -> {NoFile} \cup [ts : Nat, content : Content]]
    /\ {MaxWrites, MaxOps, MaxDepth} \subseteq Nat

VARIABLES
    disk,           \* path -> modification time and content, or NoFile
    writes,         \* modifications of the disk so far
    open,           \* path -> the text the client has open, or NoFile
    sources,        \* the SourceCache
    fileUris,       \* ids with a known URI
    analysis,       \* file id -> analysis, for the ids in the registry
    imports,        \* import_data.imports, as pairs <<importer, imported>>
    revImports,     \* import_data.rev_imports, as the same kind of pairs
    failedImports,  \* name that could not be imported -> importing ids
    stale,          \* TaskQueue.stale_diagnostics
    published,      \* path -> whether the last diagnostics were non-empty
    frames,         \* calls of typecheck_uncached in progress, innermost last
    syncs           \* client operations so far

diskVars == <<disk, writes>>
worldVars == <<sources, fileUris, analysis, imports, revImports, failedImports>>
vars == <<diskVars, open, worldVars, stale, published, frames, syncs>>

FileIdRange == 1..Len(sources.files)
ContentOf(id) == sources.files[id].content
PathOf(id) == sources.files[id].path
FileId(f) == IdOf(sources, disk, f)

Init ==
    /\ disk \in InitialDisks
    /\ writes = 0
    /\ open = [f \in Files |-> NoFile]
    /\ sources = NewCache
    /\ fileUris = {}
    /\ analysis = [id \in {} |-> {}]
    /\ imports = {}
    /\ revImports = {}
    /\ failedImports = [name \in Names |-> {}]
    /\ stale = {}
    /\ published = [f \in Files |-> "none"]
    /\ frames = <<>>
    /\ syncs = 0

Idle == frames = <<>>

ClientStep ==
    /\ Idle
    /\ syncs + writes < MaxOps
    /\ syncs' = syncs + 1

(***************************************************************************)
(* World::invalidate: a file and everything that imports it, directly or   *)
(* not, leaves the registry and the import graph.  The importers found on  *)
(* the way are reported: the file itself only if it is on a cycle.         *)
(***************************************************************************)
ImportersOf(ids) == {e[1] : e \in {x \in revImports : x[2] \in ids}}

RevDeps(ids) ==
    {g \in FileIdRange : \A S \in SUBSET FileIdRange :
        ImportersOf(ids) \cup ImportersOf(S) \subseteq S => g \in S}

\* Mutant: only the file itself loses its outgoing edges.
InvalidateKeepsEdges(ids) ==
    LET gone == ids \cup RevDeps(ids) IN
    /\ analysis' = [id \in DOMAIN analysis \ gone |-> analysis[id]]
    /\ imports' = {e \in imports : e[1] \notin ids}
    /\ revImports' = {e \in revImports : e[2] \notin gone}

Invalidate(ids) ==
    LET gone == ids \cup RevDeps(ids) IN
    /\ analysis' = [id \in DOMAIN analysis \ gone |-> analysis[id]]
    /\ imports' = {e \in imports : e[1] \notin gone}
    /\ revImports' = {e \in revImports : e[2] \notin gone}

Uris(ids) == {PathOf(id) : id \in ids \cap fileUris}

(***************************************************************************)
(* World::add_file, update_file and close_file: the source changes, and    *)
(* what was derived from it is invalidated; invalid is the reported set.   *)
(***************************************************************************)

\* Mutant: the reported set misses the files that failed to import this one.
AddFileForgetsFailedImports(f, content) ==
    LET failedToImport == failedImports[FileName[f]]
        cache == ReplaceString(sources, disk, f, content)
        id == cache.fileIds[f].id
        invalid == RevDeps({id} \cup failedToImport)
    IN
    /\ failedImports' = [failedImports EXCEPT ![FileName[f]] = {}]
    /\ sources' = cache
    /\ Invalidate({id} \cup failedToImport)
    /\ fileUris' = fileUris \cup {id}
    /\ stale' = stale \cup {f} \cup Uris(invalid)

AddFile(f, content) ==
    LET failedToImport == failedImports[FileName[f]]
        cache == ReplaceString(sources, disk, f, content)
        id == cache.fileIds[f].id
        invalid == failedToImport \cup RevDeps({id} \cup failedToImport)
    IN
    /\ failedImports' = [failedImports EXCEPT ![FileName[f]] = {}]
    /\ sources' = cache
    /\ Invalidate({id} \cup failedToImport)
    /\ fileUris' = fileUris \cup {id}
    /\ stale' = stale \cup {f} \cup Uris(invalid)

UpdateFile(f, content) ==
    LET cache == ReplaceString(sources, disk, f, content)
        id == cache.fileIds[f].id
    IN
    /\ sources' = cache
    /\ Invalidate({id})
    /\ stale' = stale \cup {f} \cup Uris(RevDeps({id}))
    /\ UNCHANGED <<fileUris, failedImports>>

\* Mutant: the files that import it are marked and keep their analyses.
CloseFileMarksOnly(f, cache, replacement) ==
    LET closedId == sources.fileIds[f].id IN
    /\ sources' = cache
    /\ fileUris' = fileUris \cup replacement
    /\ stale' = stale \cup Uris(RevDeps({closedId}))
                  \cup {g \in {f} : replacement # {}}
    /\ UNCHANGED <<analysis, imports, revImports, failedImports>>

CloseFile(f, cache, replacement) ==
    LET closedId == sources.fileIds[f].id IN
    /\ sources' = cache
    /\ Invalidate({closedId})
    /\ fileUris' = fileUris \cup replacement
    /\ stale' = stale \cup Uris(RevDeps({closedId}))
                  \cup {g \in {f} : replacement # {}}
    /\ UNCHANGED failedImports

(***************************************************************************)
(* didOpen, didChange and didClose (handle_open, handle_save,              *)
(* handle_close and handle_document_sync), from a client that opens a file *)
(* before changing or closing it.  A closed file is served from the disk   *)
(* again; if it is not there its diagnostics are cleared.                  *)
(***************************************************************************)
Open(f, content) ==
    /\ ClientStep
    /\ open[f] = NoFile
    /\ open' = [open EXCEPT ![f] = content]
    /\ AddFile(f, content)
    /\ UNCHANGED <<diskVars, published, frames>>

Change(f, content) ==
    /\ ClientStep
    /\ open[f] # NoFile
    /\ open' = [open EXCEPT ![f] = content]
    /\ UpdateFile(f, content)
    /\ UNCHANGED <<diskVars, published, frames>>

Close(f) ==
    LET cache == CloseInMemoryFile(sources, disk, f)
        replacement == {IdOf(cache, disk, f)} \ {NoId}
    IN
    /\ ClientStep
    /\ open[f] # NoFile
    /\ open' = [open EXCEPT ![f] = NoFile]
    /\ CanClose(sources, f)
    /\ CloseFile(f, cache, replacement)
    /\ published' = [published EXCEPT ![f] = IF replacement = {} THEN "ok" ELSE @]
    /\ UNCHANGED <<diskVars, frames>>

(***************************************************************************)
(* Another program writes or removes a file, at any time, and the server   *)
(* is not told.  Every write gives a new modification time.                *)
(***************************************************************************)
DiskWrite(f, content) ==
    /\ writes < MaxWrites /\ syncs + writes < MaxOps
    /\ writes' = writes + 1
    /\ disk' = [disk EXCEPT ![f] = [ts |-> writes', content |-> content]]
    /\ UNCHANGED <<open, worldVars, stale, published, frames, syncs>>

DiskRemove(f) ==
    /\ writes < MaxWrites /\ syncs + writes < MaxOps
    /\ disk[f] # NoFile
    /\ writes' = writes + 1
    /\ disk' = [disk EXCEPT ![f] = NoFile]
    /\ UNCHANGED <<open, worldVars, stale, published, frames, syncs>>

(***************************************************************************)
(* WorldImportResolver::resolve: an import stands for the first candidate  *)
(* that is open or on the disk.                                            *)
(***************************************************************************)
First(S) == CHOOSE i \in S : \A j \in S : i <= j

Resolve(name) ==
    LET found == {i \in DOMAIN Candidates[name] :
                    LET f == Candidates[name][i] IN
                    UpToDate(sources, disk, f) \/ disk[f] # NoFile}
    IN  IF found = {} THEN NoFile ELSE Candidates[name][First(found)]

\* typecheck_visit goes through the body up to its first error.
IsError(item) == item = TypeError \/ Resolve(item) = NoFile

Walk(body) ==
    LET errors == {i \in DOMAIN body : IsError(body[i])}
        end == IF errors = {} THEN Len(body) + 1 ELSE First(errors)
    IN  [stopped |-> errors # {},
         missing |-> {body[i] : i \in {end} \cap errors} \ {TypeError},
         files |-> {Resolve(body[i]) : i \in 1..(end - 1)}]

Parsed(content) == [state |-> "Parsed", parses |-> content.parses, failed |-> FALSE]

AssociateFailedImport(id, missing) ==
    failedImports' = [name \in Names |->
                        failedImports[name] \cup {g \in {id} : name \in missing}]

(***************************************************************************)
(* The first half of typecheck_uncached, fill_analysis.  The walk loads    *)
(* the imported files and runs on the registry without the analysis being  *)
(* filled (modify_and_insert); the analyses of imports not found there are *)
(* inserted afterwards.                                                    *)
(***************************************************************************)
FillAnalysis(id, registry, callers) ==
    LET walk == Walk(ContentOf(id).body)
        cache == GetOrAddFiles(sources, disk, walk.files)
        targets == {cache.fileIds[f].id : f \in walk.files}
        new == targets \ (DOMAIN registry \ {id})
        entry(g) == IF g \in new THEN Parsed(cache.files[g].content)
                    ELSE IF g = id THEN [registry[id] EXCEPT !.state = "Typechecking"]
                    ELSE registry[g]
    IN
    /\ sources' = cache
    /\ fileUris' = fileUris \cup targets
    /\ imports' = imports \cup ({id} \X targets)
    /\ revImports' = revImports \cup ({id} \X targets)
    /\ AssociateFailedImport(id, walk.missing)
    /\ analysis' = [g \in DOMAIN registry \cup {id} \cup targets |->
                      IF g = id THEN [entry(g) EXCEPT !.failed = walk.stopped]
                      ELSE entry(g)]
    /\ frames' = Append(callers,
                   [id |-> id, failed |-> FALSE,
                    todo |-> {e[2] : e \in {x \in imports' : x[1] = id}}])

\* parse_and_typecheck of a file: the analysis is replaced by a fresh one.
ParseAndTypecheck(id) ==
    FillAnalysis(id, [g \in DOMAIN analysis \cup {id} |->
                        IF g = id THEN Parsed(ContentOf(id)) ELSE analysis[g]], <<>>)

(***************************************************************************)
(* Task::Diagnostics: run_diagnostics_on_file.  The "eval" command checks  *)
(* a file the same way without having been marked stale.                   *)
(***************************************************************************)
RunDiagnostics(f) ==
    /\ Idle
    /\ f \in stale
    /\ stale' = stale \ {f}
    /\ \/ FileId(f) # NoId /\ ParseAndTypecheck(FileId(f))
       \/ FileId(f) = NoId /\ UNCHANGED <<worldVars, frames>>
    /\ UNCHANGED <<diskVars, open, published, syncs>>

EvalCommand(f) ==
    /\ ClientStep
    /\ FileId(f) # NoId
    /\ ParseAndTypecheck(FileId(f))
    /\ UNCHANGED <<diskVars, open, stale, published>>

(***************************************************************************)
(* The second half of typecheck_uncached visits the imports in any order   *)
(* (they are a HashSet).  An import that does not parse or has a verdict   *)
(* counts at once; any other is typechecked first.                         *)
(***************************************************************************)
Top == frames[Len(frames)]

\* The caller's frame once it has the verdict of an import.
Visited(frame, g, failed) ==
    [frame EXCEPT !.todo = @ \ {g}, !.failed = @ \/ failed]

HasVerdict(g) ==
    ~analysis[g].parses \/ analysis[g].state \in {"Typechecking", "Typechecked"}

CheckImport(g) ==
    /\ g \in Top.todo
    /\ HasVerdict(g)
    /\ frames' = [frames EXCEPT ![Len(frames)] =
                    Visited(@, g, ~analysis[g].parses \/ analysis[g].failed)]
    /\ UNCHANGED <<diskVars, open, worldVars, stale, published, syncs>>

TypecheckImport(g) ==
    /\ g \in Top.todo
    /\ ~HasVerdict(g)
    /\ Len(frames) < MaxDepth
    /\ FillAnalysis(g, analysis, frames)
    /\ UNCHANGED <<diskVars, open, stale, published, syncs>>

(***************************************************************************)
(* The end of typecheck_uncached: its verdict goes to the registry and to  *)
(* the caller; the outermost call publishes.                               *)
(***************************************************************************)
CompleteTypechecking ==
    LET id == Top.id
        failed == analysis[id].failed \/ Top.failed
        depth == Len(frames)
    IN
    /\ Top.todo = {}
    /\ analysis' = [analysis EXCEPT ![id].state = "Typechecked", ![id].failed = failed]
    /\ frames' = [i \in 1..(depth - 1) |->
                    IF i = depth - 1 THEN Visited(frames[i], id, failed) ELSE frames[i]]
    /\ published' = IF depth = 1 /\ id \in fileUris
                    THEN [published EXCEPT ![PathOf(id)] =
                            IF failed \/ ~analysis[id].parses THEN "errors" ELSE "ok"]
                    ELSE published
    /\ UNCHANGED <<diskVars, open, sources, fileUris, imports, revImports,
                   failedImports, stale, syncs>>

Sync ==
    \E f \in Files :
        \/ \E content \in ContentsOf[f] : Open(f, content) \/ Change(f, content)
        \/ Close(f)
        \/ EvalCommand(f)

DiskStep ==
    \E f \in Files :
        \/ \E content \in ContentsOf[f] : DiskWrite(f, content)
        \/ DiskRemove(f)

Typecheck ==
    /\ ~Idle
    /\ \/ \E g \in FileIdRange : CheckImport(g) \/ TypecheckImport(g)
       \/ CompleteTypechecking

Next ==
    \/ Sync
    \/ DiskStep
    \/ \E f \in Files : RunDiagnostics(f)
    \/ Typecheck

Spec == Init /\ [][Next]_vars

----------------------------------------------------------------------------
Analysis == [state : {"Parsed", "Typechecking", "Typechecked"},
             parses : BOOLEAN, failed : BOOLEAN]
Frame == [id : FileIdRange, todo : SUBSET FileIdRange, failed : BOOLEAN]

\* Every variable keeps its type; in particular all file ids in use are ids
\* of the source cache.
TypeOK ==
    /\ \A f \in Files : {disk[f], open[f]} \subseteq
          {NoFile} \cup ContentsOf[f] \cup [ts : 0..MaxWrites, content : ContentsOf[f]]
    /\ \A id \in FileIdRange : ContentOf(id) \in ContentsOf[PathOf(id)]
    /\ fileUris \subseteq FileIdRange
    /\ DOMAIN analysis \subseteq FileIdRange
    /\ \A id \in DOMAIN analysis : analysis[id] \in Analysis
    /\ imports \cup revImports \subseteq FileIdRange \X FileIdRange
    /\ failedImports \in [Names -> SUBSET FileIdRange]
    /\ stale \subseteq Files
    /\ published \in [Files -> {"none", "ok", "errors"}]
    /\ \A i \in DOMAIN frames : frames[i] \in Frame
    /\ syncs \in 0..MaxOps /\ writes \in 0..MaxWrites

\* A file the client has open is served from the client's text and from
\* nothing else, whatever other programs do to the disk and whoever imports
\* it (replace_string, id_or_new_timestamp_of).
EditorWins ==
    \A f \in Files : open[f] # NoFile =>
        FileId(f) # NoId /\ ContentOf(FileId(f)) = open[f]

\* The invariant typecheck_uncached is unsure of: whatever a registered
\* import edge points to has an analysis in the registry, so that looking up
\* the parse errors of an import never fails.
ImportsAnalyzed ==
    \A e \in imports : e[2] \in DOMAIN analysis

\* An analysis that imports a file the editor has open imports the id that
\* carries the editor's text: opening and closing files leaves no analysis
\* behind that was made from another version of them (add_file).
ImportersSeeEditor ==
    \A e \in imports : open[PathOf(e[2])] # NoFile => e[2] = FileId(PathOf(e[2]))

\* The same as long as no other program has touched the disk.
ImportersSeeEditorUndisturbed == writes = 0 => ImportersSeeEditor

(***************************************************************************)
(* What the diagnostics should say, defined on the files alone: a file is  *)
(* bad if it or something it transitively imports has an error.            *)
(***************************************************************************)
View(f) ==
    IF open[f] # NoFile THEN open[f]
    ELSE IF disk[f] # NoFile THEN disk[f].content ELSE NoFile

Target(name) ==
    LET there == {i \in DOMAIN Candidates[name] : View(Candidates[name][i]) # NoFile}
    IN  IF there = {} THEN NoFile
        ELSE Candidates[name][First(there)]

ImportedBy(f) ==
    {Target(name) : name \in {View(f).body[i] : i \in DOMAIN View(f).body} \cap Names}

OwnError(f) ==
    \/ ~View(f).parses
    \/ \E i \in DOMAIN View(f).body : View(f).body[i] = TypeError
    \/ NoFile \in ImportedBy(f)

Bad(f) ==
    \A S \in SUBSET Files :
        (\A g \in Files : View(g) # NoFile =>
            (OwnError(g) \/ ImportedBy(g) \cap S # {} => g \in S)) => f \in S

\* Diagnostics are right or about to be recomputed: when the server is idle,
\* a file whose published diagnostics disagree with its text and the text of
\* what it imports is marked stale.  An editor keystroke in one file reaches
\* every importer (invalidate, failed_imports, close_file).
PublishedRight ==
    Idle /\ writes = 0 => \A f \in Files : published[f] # "none" /\ f \notin stale =>
        published[f] = IF View(f) # NoFile /\ Bad(f) THEN "errors" ELSE "ok"

=============================================================================
