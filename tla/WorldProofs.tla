---------------------------- MODULE WorldProofs ----------------------------
(***************************************************************************)
(* Proofs about the language server's world, for any files, import paths,  *)
(* contents and bounds.                                                    *)
(***************************************************************************)
EXTENDS World, FiniteSetTheorems, SequenceTheorems,
        WellFoundedInduction, TLAPS

\* Most leaves are first-order reasoning.  Those with arithmetic, sequences or
\* records name SMT.
USE Zenon

\* A well-formed cache: every entry of the name-id table has an id whose
\* source is that path's.
CacheOK(cache) ==
    /\ cache \in [fileIds : [Files -> {NoEntry} \cup Entry],
                  files : Seq([path : Files, content : Content])]
    /\ \A f \in Files : cache.fileIds[f] # NoEntry =>
         /\ cache.fileIds[f].id \in 1..Len(cache.files)
         /\ cache.files[cache.fileIds[f].id].path = f

DiskOK == disk \in [Files -> {NoFile} \cup [ts : Nat, content : Content]]

\* The text of an open file is in memory.
Served(cache, texts) ==
    \A f \in Files : texts[f] # NoFile =>
        /\ cache.fileIds[f] # NoEntry
        /\ cache.fileIds[f].source = Memory
        /\ cache.files[cache.fileIds[f].id].content = texts[f]

EdgesOK ==
    /\ imports \subseteq revImports
    /\ ImportsAnalyzed
    /\ \A e \in revImports : e[1] \in FileIdRange

\* While no other program touches the disk, an entry of the name-id table is
\* up to date, or it is that of a closed file which is not on the disk.
Settled(cache) ==
    \A f \in Files : cache.fileIds[f] # NoEntry => UpToDate(cache, disk, f) \/ disk[f] = NoFile

\* The id that its path stands for.
Current(cache, id) ==
    /\ id \in 1..Len(cache.files)
    /\ UpToDate(cache, disk, cache.files[id].path)
    /\ cache.fileIds[cache.files[id].path].id = id

Undisturbed ==
    writes = 0 => Settled(sources) /\ \A e \in imports : Current(sources, e[2])

IInv ==
    /\ CacheOK(sources)
    /\ DiskOK
    /\ writes \in Nat
    /\ open \in [Files -> {NoFile} \cup Content]
    /\ Served(sources, open)
    /\ EdgesOK

----------------------------------------------------------------------------
\* Enumerated enumerates a finite set.
LEMMA EnumeratedFacts ==
    ASSUME NEW S, IsFiniteSet(S)
    PROVE  /\ Cardinality(S) \in Nat
           /\ Enumerated(S) \in [1..Cardinality(S) -> S]
           /\ \A x \in S : \E i \in 1..Cardinality(S) : Enumerated(S)[i] = x
<1> DEFINE n == Cardinality(S)
<1>1. n \in Nat /\ ExistsBijection(1..n, S)
  BY FS_CardinalityType
<1>2. PICK g \in Bijection(1..n, S) : TRUE
  BY <1>1 DEF ExistsBijection
<1>3. g \in [1..n -> S] /\ \A x \in S : \E i \in 1..n : g[i] = x
  BY <1>2 DEF Bijection, Surjection
<1> HIDE DEF n
<1>4. \E q \in [1..n -> S] : \A x \in S : \E i \in DOMAIN q : q[i] = x
  BY <1>3, Zenon
<1>5. /\ Enumerated(S) \in [1..n -> S]
      /\ \A x \in S : \E i \in DOMAIN Enumerated(S) : Enumerated(S)[i] = x
  BY <1>4, Zenon DEF Enumerated, n
<1> QED
  BY <1>1, <1>5 DEF n

\* The least element of a set of naturals is in it and below the others.
LEMMA FirstFacts ==
    ASSUME NEW S \in SUBSET Nat, S # {}
    PROVE  First(S) \in S /\ \A j \in S : First(S) <= j
<1> DEFINE R == {ss \in Nat \X Nat : ss[1] < ss[2]}
<1>1. IsWellFoundedOn(R, Nat)
  BY NatLessThanWellFounded DEF OpToRel
<1>2. PICK x \in S : \A y \in S : ~(<<y, x>> \in R)
  <2> HIDE DEF R
  <2> QED BY <1>1, WFMin, Zenon
<1>3. ASSUME NEW y \in S PROVE x <= y
  <2>1. y \in Nat /\ x \in Nat /\ <<y, x>> \notin R
    BY <1>2
  <2>2. <<y, x>> \in Nat \X Nat /\ <<y, x>>[1] = y /\ <<y, x>>[2] = x
    BY <2>1
  <2>3. ~(y < x)
    BY <2>1, <2>2
  <2> QED BY SMTT(30), <2>1, <2>3
<1> QED BY <1>3, Zenon DEF First

\* The cache new serves f from the text content, and other files as cache does.
Replaced(new, cache, f, content) ==
    /\ CacheOK(new)
    /\ Len(cache.files) <= Len(new.files)
    /\ new.fileIds[f] # NoEntry
    /\ new.fileIds[f].source = Memory
    /\ new.files[new.fileIds[f].id].content = content
    /\ \A g \in Files \ {f} : cache.fileIds[g] # NoEntry =>
         /\ new.fileIds[g] = cache.fileIds[g]
         /\ new.files[new.fileIds[g].id] = cache.files[cache.fileIds[g].id]
    /\ \A g \in Files \ {f} : new.fileIds[g] = cache.fileIds[g]
    /\ \A i \in 1..Len(cache.files) : new.files[i].path = cache.files[i].path
    /\ UpToDate(cache, disk, f) => new.fileIds[f].id = cache.fileIds[f].id

\* ReplaceString serves the path from the new text and changes nothing else.
LEMMA ReplaceStringFacts ==
    ASSUME NEW cache, CacheOK(cache), DiskOK, NEW f \in Files, NEW content \in Content
    PROVE  Replaced(ReplaceString(cache, disk, f, content), cache, f, content)
<1> DEFINE new == ReplaceString(cache, disk, f, content)
           id == IdOf(cache, disk, f)
<1> USE SourceCacheAssumption
<1>1. CASE id = NoId
  <2>1. new = [fileIds |-> [cache.fileIds EXCEPT
                    ![f] = [id |-> Len(cache.files) + 1, source |-> Memory]],
               files |-> Append(cache.files, [path |-> f, content |-> content])]
    BY <1>1 DEF ReplaceString, AddString
  <2>2. Len(cache.files) + 1 \in Nat /\ Memory \in Source
    BY SMTT(30) DEF CacheOK, Memory, Source
  <2>3. [id |-> Len(cache.files) + 1, source |-> Memory] \in Entry
    BY <2>2 DEF Entry
  <2>4. ~UpToDate(cache, disk, f)
    BY SMTT(30), <1>1 DEF IdOf, UpToDate, CacheOK
  <2> QED BY SMTT(30), <2>1, <2>2, <2>3, <2>4 DEF CacheOK, Replaced
<1>2. CASE id # NoId
  <2>1. new = [fileIds |-> [cache.fileIds EXCEPT ![f].source = Memory],
               files |-> [cache.files EXCEPT ![id].content = content]]
    BY <1>2 DEF ReplaceString
  <2>2. cache.fileIds[f] # NoEntry /\ id = cache.fileIds[f].id
    BY <1>2 DEF IdOf, UpToDate
  <2>3. Memory \in Source
    BY DEF Memory, Source
  <2>4. new.fileIds \in [Files -> {NoEntry} \cup Entry]
    BY SMTT(30), <2>1, <2>2, <2>3 DEF CacheOK, Entry
  <2>5. /\ new.files \in Seq([path : Files, content : Content])
        /\ Len(new.files) = Len(cache.files)
        /\ \A i \in 1..Len(cache.files) : new.files[i].path = cache.files[i].path
        /\ \A i \in 1..Len(cache.files) \ {id} : new.files[i] = cache.files[i]
    <3> DEFINE R == [path : Files, content : Content]
               r == [cache.files[id] EXCEPT !.content = content]
    <3>1. cache.files \in Seq(R) /\ id \in 1..Len(cache.files)
      BY <2>2 DEF CacheOK
    <3> HIDE DEF R
    <3>2. cache.files[id] \in R
      BY SMTT(30), <3>1
    <3>3. r \in R /\ r.path = cache.files[id].path
      BY <3>2 DEF R
    <3>4. new.files = [cache.files EXCEPT ![id] = r]
      BY SMTT(30), <2>1
    <3> HIDE DEF r
    <3>5. new.files \in Seq(R) /\ Len(new.files) = Len(cache.files)
      BY SMTT(30), <3>1, <3>3, <3>4
    <3>6. \A i \in 1..Len(cache.files) :
             new.files[i] = IF i = id THEN r ELSE cache.files[i]
      BY SMTT(30), <3>1, <3>4
    <3> QED BY <3>3, <3>5, <3>6 DEF R
  <2>6. \A g \in Files : new.fileIds[g] # NoEntry =>
           cache.fileIds[g] # NoEntry /\ new.fileIds[g].id = cache.fileIds[g].id
    BY SMTT(30), <2>1, <2>2 DEF CacheOK, Entry
  <2>7. CacheOK(new)
    BY SMTT(30), <2>1, <2>4, <2>5, <2>6 DEF CacheOK
  <2>8. new.fileIds[f] # NoEntry /\ new.fileIds[f].source = Memory /\ new.fileIds[f].id = id
    BY <2>1, <2>2, <2>3, SMTT(40) DEF CacheOK, Entry
  <2>9. new.files[id].content = content
    BY SMTT(30), <2>1, <2>2 DEF CacheOK
  <2>10. ASSUME NEW g \in Files \ {f}, cache.fileIds[g] # NoEntry
         PROVE  /\ new.fileIds[g] = cache.fileIds[g]
                /\ new.files[new.fileIds[g].id] = cache.files[cache.fileIds[g].id]
    <3>1. cache.fileIds[g].id # id
      BY SMTT(30), <2>2, <2>10 DEF CacheOK
    <3>2. new.fileIds[g] = cache.fileIds[g]
      BY SMTT(30), <2>1, <2>10 DEF CacheOK
    <3>3. cache.fileIds[g].id \in 1..Len(cache.files) \ {id}
      BY <3>1, <2>10 DEF CacheOK
    <3> QED BY <2>5, <3>2, <3>3
  <2>11. Len(cache.files) <= Len(new.files)
    BY SMTT(30), <2>5 DEF CacheOK
  <2>12. \A g \in Files \ {f} : new.fileIds[g] = cache.fileIds[g]
    BY SMTT(30), <2>1 DEF CacheOK
  <2> QED BY <2>2, <2>5, <2>7, <2>8, <2>9, <2>10, <2>11, <2>12 DEF Replaced
<1> QED BY <1>1, <1>2

\* The cache new has the sources of cache, and those of fs are up to date
\* unless they are nowhere.
Extended(new, cache, fs) ==
    /\ CacheOK(new)
    /\ Len(cache.files) <= Len(new.files)
    /\ \A i \in 1..Len(cache.files) : new.files[i] = cache.files[i]
    /\ \A g \in Files : UpToDate(cache, disk, g) => new.fileIds[g] = cache.fileIds[g]
    /\ \A g \in Files : new.fileIds[g] = cache.fileIds[g] \/ UpToDate(new, disk, g)
    /\ \A g \in fs : UpToDate(cache, disk, g) \/ disk[g] # NoFile => UpToDate(new, disk, g)

\* GetOrAddFiles leaves alone what is there and up to date.
LEMMA GetOrAddFilesFacts ==
    ASSUME NEW cache, CacheOK(cache), DiskOK, NEW fs \in SUBSET Files
    PROVE  Extended(GetOrAddFiles(cache, disk, fs), cache, fs)
<1> DEFINE missing == {f \in fs : ~UpToDate(cache, disk, f) /\ disk[f] # NoFile}
           order == Enumerated(missing)
           n == Cardinality(missing)
           len == Len(cache.files)
           R == [path : Files, content : Content]
           entry(i) == [id |-> len + i, source |-> Filesystem(disk[order[i]].ts)]
           pos(f) == CHOOSE i \in DOMAIN order : order[i] = f
           tail == [i \in 1..n |-> [path |-> order[i], content |-> disk[order[i]].content]]
           new == GetOrAddFiles(cache, disk, fs)
<1>1. IsFiniteSet(missing)
  BY FS_Subset, SourceCacheAssumption
<1>2. n \in Nat /\ order \in [1..n -> missing] /\ \A x \in missing : \E i \in 1..n : order[i] = x
  BY <1>1, EnumeratedFacts, Zenon
<1>3. \A f \in missing : pos(f) \in 1..n /\ order[pos(f)] = f
  BY <1>2, Zenon
<1>4. \A i \in 1..n : order[i] \in Files /\ disk[order[i]] \in [ts : Nat, content : Content]
  BY <1>2 DEF DiskOK
<1>5. len \in Nat /\ cache.files \in Seq(R)
  BY SMTT(30) DEF CacheOK
<1>6. tail \in Seq(R) /\ Len(tail) = n
  <2>1. tail \in [1..n -> R]
    BY <1>4
  <2> HIDE DEF tail, n, R
  <2> QED BY SMTT(30), <2>1, <1>2, SeqDef, LenProperties
<1>7. /\ new.fileIds = [f \in Files |-> IF f \in missing THEN entry(pos(f)) ELSE cache.fileIds[f]]
      /\ new.files = cache.files \o tail
      /\ new = [fileIds |-> new.fileIds, files |-> new.files]
  BY <1>2, Zenon DEF GetOrAddFiles
<1>8. \A i \in 1..n : entry(i) \in Entry /\ entry(i).id = len + i
  BY SMTT(30), <1>2, <1>4, <1>5 DEF Entry, Source, Filesystem
<1> HIDE DEF missing, order, n, len, pos, tail, new, R, entry
<1>9. new.files \in Seq(R) /\ Len(new.files) = len + n
  BY SMTT(30), <1>2, <1>5, <1>6, <1>7 DEF len
<1>10. \A i \in 1..len : new.files[i] = cache.files[i]
  BY SMTT(30), <1>2, <1>5, <1>6, <1>7 DEF len
<1>11. \A i \in 1..n : new.files[len + i] = tail[i]
  BY <1>2, <1>5, <1>6, <1>7, SMTT(40) DEF len
<1>12. new.fileIds \in [Files -> {NoEntry} \cup Entry]
  BY SMTT(30), <1>3, <1>7, <1>8 DEF CacheOK
<1>13. ASSUME NEW f \in Files, new.fileIds[f] # NoEntry
       PROVE  /\ new.fileIds[f].id \in 1..Len(new.files)
              /\ new.files[new.fileIds[f].id].path = f
  <2>1. CASE f \in missing
    <3>1. new.fileIds[f].id = len + pos(f) /\ pos(f) \in 1..n /\ order[pos(f)] = f
      BY <2>1, <1>3, <1>7, <1>8, <1>13
    <3>2. tail[pos(f)].path = f
      BY <3>1 DEF tail
    <3> QED BY <3>1, <3>2, <1>2, <1>5, <1>9, <1>11, SMTT(40)
  <2>2. CASE f \notin missing
    <3>1. new.fileIds[f] = cache.fileIds[f] /\ cache.fileIds[f].id \in 1..len
      BY <2>2, <1>7, <1>13 DEF CacheOK, len
    <3> QED BY SMTT(30), <3>1, <1>2, <1>5, <1>9, <1>10, <1>13 DEF CacheOK, len
  <2> QED BY <2>1, <2>2
<1>14. CacheOK(new)
  BY <1>7, <1>9, <1>12, <1>13, ZenonT(40) DEF CacheOK, R
<1>15. \A g \in Files : UpToDate(cache, disk, g) => new.fileIds[g] = cache.fileIds[g]
  BY <1>7 DEF missing
<1>16. \A g \in missing : UpToDate(new, disk, g)
  <2> SUFFICES ASSUME NEW g \in missing PROVE UpToDate(new, disk, g)
    OBVIOUS
  <2>1. g \in Files /\ disk[g] # NoFile /\ pos(g) \in 1..n /\ order[pos(g)] = g
    BY <1>3 DEF missing
  <2>2. new.fileIds[g] = entry(pos(g)) /\ entry(pos(g)) \in Entry
    BY <2>1, <1>7, <1>8
  <2>3. entry(pos(g)).source = Filesystem(disk[g].ts)
    BY <2>1 DEF entry
  <2> QED BY <2>1, <2>2, <2>3, SourceCacheAssumption DEF UpToDate
<1>17. \A g \in Files \ missing : new.fileIds[g] = cache.fileIds[g]
  BY <1>7
<1>18. \A g \in fs : UpToDate(cache, disk, g) \/ disk[g] # NoFile => UpToDate(new, disk, g)
  BY <1>15, <1>16 DEF missing, UpToDate
<1>19. Len(cache.files) <= Len(new.files)
  BY SMTT(30), <1>2, <1>5, <1>9 DEF len
<1> QED BY <1>10, <1>14, <1>15, <1>16, <1>17, <1>18, <1>19 DEF Extended, new, len

\* What Invalidate removes is closed under the reverse imports.
LEMMA GoneClosed ==
    ASSUME EdgesOK, NEW ids, NEW e \in revImports, e[2] \in ids \cup RevDeps(ids)
    PROVE  e[1] \in ids \cup RevDeps(ids)
<1>1. e[1] \in FileIdRange
  BY DEF EdgesOK
<1>2. ASSUME NEW S \in SUBSET FileIdRange,
             ImportersOf(ids) \cup ImportersOf(S) \subseteq S
      PROVE  e[1] \in S
  <2>1. CASE e[2] \in ids
    BY <2>1, <1>2 DEF ImportersOf
  <2>2. CASE e[2] \in RevDeps(ids)
    <3>1. e[2] \in S
      BY <2>2, <1>2 DEF RevDeps
    <3> QED BY <3>1, <1>2 DEF ImportersOf
  <2> QED BY <2>1, <2>2
<1> QED BY <1>1, <1>2 DEF RevDeps

\* So no edge survives the analysis it points to.
LEMMA InvalidateEdges ==
    ASSUME EdgesOK, NEW ids, Invalidate(ids),
           \A x \in FileIdRange : x \in FileIdRange'
    PROVE  EdgesOK'
<1> DEFINE gone == ids \cup RevDeps(ids)
<1>1. ASSUME NEW e \in revImports, e[2] \in gone
      PROVE  e[1] \in gone
  BY <1>1, GoneClosed
<1>2. /\ analysis' = [id \in DOMAIN analysis \ gone |-> analysis[id]]
      /\ imports' = {e \in imports : e[1] \notin gone}
      /\ revImports' = {e \in revImports : e[2] \notin gone}
  BY DEF Invalidate
<1> HIDE DEF gone
<1> QED BY <1>1, <1>2 DEF EdgesOK, ImportsAnalyzed

\* The files that are open or on the disk.
Loadable == {f \in Files : UpToDate(sources, disk, f) \/ disk[f] # NoFile}

\* The edges added by a walk have their analyses added with them.
LEMMA FillAnalysisIInv ==
    ASSUME IInv, NEW id \in FileIdRange, NEW registry, NEW callers,
           FillAnalysis(id, registry, callers),
           DOMAIN analysis \subseteq DOMAIN registry,
           UNCHANGED <<diskVars, open>>,
           Walk(ContentOf(id).body).files \in SUBSET Loadable
    PROVE  IInv'
<1> DEFINE fs == Walk(ContentOf(id).body).files
           cache == GetOrAddFiles(sources, disk, fs)
           targets == {cache.fileIds[f].id : f \in fs}
<1>1. /\ sources' = cache
      /\ imports' = imports \cup ({id} \X targets)
      /\ revImports' = revImports \cup ({id} \X targets)
      /\ DOMAIN analysis' = DOMAIN registry \cup {id} \cup targets
  BY Zenon DEF FillAnalysis
<1>2. /\ CacheOK(cache)
      /\ Len(sources.files) <= Len(cache.files)
      /\ \A i \in 1..Len(sources.files) : cache.files[i] = sources.files[i]
      /\ \A g \in Files : UpToDate(sources, disk, g) =>
           cache.fileIds[g] = sources.fileIds[g]
  <2>1. CacheOK(sources) /\ DiskOK
    BY DEF IInv
  <2>2. Extended(cache, sources, fs)
    BY <2>1, GetOrAddFilesFacts DEF Loadable
  <2> QED BY <2>2 DEF Extended
<1> HIDE DEF fs, cache, targets
<1>3. Served(cache, open)
  BY SMTT(30), <1>2 DEF IInv, Served, UpToDate, CacheOK
<1>4. \A x \in FileIdRange : x \in 1..Len(cache.files)
  BY SMTT(30), <1>2 DEF FileIdRange, IInv, CacheOK
<1>5. EdgesOK'
  BY <1>1, <1>4 DEF IInv, EdgesOK, ImportsAnalyzed, FileIdRange
<1> QED BY <1>1, <1>2, <1>3, <1>5 DEF IInv, DiskOK, diskVars

\* What a walk resolves is open or on the disk.
LEMMA WalkFiles ==
    ASSUME NEW body \in Seq(Names \cup {TypeError})
    PROVE  Walk(body).files \in SUBSET Loadable
<1> DEFINE errors == {i \in DOMAIN body : IsError(body[i])}
           end == IF errors = {} THEN Len(body) + 1 ELSE First(errors)
<1>1. errors \in SUBSET Nat /\ errors \subseteq 1..Len(body)
  BY SMTT(30)
<1>2. \A i \in 1..(end - 1) : i \in DOMAIN body /\ ~IsError(body[i])
  <2>1. CASE errors = {}
    <3>1. end - 1 = Len(body)
      BY SMTT(30), <2>1
    <3> QED BY SMTT(30), <2>1, <3>1
  <2>2. CASE errors # {}
    <3>1. First(errors) \in errors /\ \A j \in errors : First(errors) <= j
      BY <1>1, <2>2, FirstFacts, Zenon
    <3>2. end = First(errors)
      BY <2>2
    <3> HIDE DEF end
    <3>3. ASSUME NEW i \in 1..(end - 1) PROVE i \in 1..Len(body) /\ i \notin errors
      <4> HIDE DEF errors
      <4>1. Len(body) \in Nat
        BY SMTT(30)
      <4>2. end \in errors
        BY <3>1, <3>2
      <4>3. end \in 1..Len(body)
        BY <4>2, <1>1
      <4>4. \A j \in errors : end <= j
        BY <3>1, <3>2
      <4>5. i \in Nat /\ i < end
        BY SMTT(30), <4>1, <4>3, <3>3
      <4>6. i \notin errors
        BY SMTT(30), <4>3, <4>4, <4>5
      <4> QED BY SMTT(30), <4>1, <4>3, <4>5, <4>6
    <3> QED BY SMTT(30), <3>3
  <2> QED BY <2>1, <2>2
<1>3. ASSUME NEW i \in 1..(end - 1)
      PROVE  Resolve(body[i]) \in Loadable
  <2> DEFINE name == body[i]
             found == {k \in DOMAIN Candidates[name] :
                         LET f == Candidates[name][k] IN
                         UpToDate(sources, disk, f) \/ disk[f] # NoFile}
  <2>1. name \in Names /\ Resolve(name) # NoFile
    BY SMTT(30), <1>2, <1>3 DEF IsError
  <2>2. found # {} /\ Resolve(name) = Candidates[name][First(found)]
    BY <2>1, SMTT(40) DEF Resolve
  <2>3. Candidates[name] \in Seq(Files)
    BY <2>1, WorldAssumption
  <2>4. /\ found \in SUBSET DOMAIN Candidates[name]
        /\ \A k \in found : UpToDate(sources, disk, Candidates[name][k]) \/ disk[Candidates[name][k]] # NoFile
    OBVIOUS
  <2> HIDE DEF found
  <2>5. found \in SUBSET Nat
    BY SMTT(30), <2>3, <2>4
  <2>6. First(found) \in found
    BY <2>2, <2>5, FirstFacts
  <2>7. First(found) \in DOMAIN Candidates[name]
    BY <2>4, <2>6
  <2>8. Resolve(name) \in Files
    BY SMTT(30), <2>2, <2>3, <2>7
  <2> QED BY <2>2, <2>4, <2>6, <2>8 DEF Loadable
<1>4. Walk(body).files = {Resolve(body[i]) : i \in 1..(end - 1)}
  BY DEF Walk
<1> QED BY <1>3, <1>4, Zenon

\* A file that is up to date can be walked.
LEMMA Checkable ==
    ASSUME IInv, NEW f \in Files, FileId(f) # NoId
    PROVE  /\ FileId(f) \in FileIdRange
           /\ Walk(ContentOf(FileId(f)).body).files \in SUBSET Loadable
<1> DEFINE id == FileId(f)
<1>1. id \in FileIdRange
  BY DEF IInv, CacheOK, FileId, IdOf, UpToDate, FileIdRange
<1> HIDE DEF id
<1>2. sources.files[id] \in [path : Files, content : Content]
  BY <1>1, ElementOfSeq, Zenon DEF IInv, CacheOK, FileIdRange
<1>3. ContentOf(id).body \in Seq(Names \cup {TypeError})
  BY <1>2 DEF ContentOf, Content
<1> QED BY <1>1, <1>3, WalkFiles DEF id

\* Parsing and checking a file keeps the invariant.
LEMMA ParseAndTypecheckIInv ==
    ASSUME IInv, NEW f \in Files, FileId(f) # NoId, ParseAndTypecheck(FileId(f)),
           UNCHANGED <<diskVars, open>>
    PROVE  IInv'
<1> DEFINE id == FileId(f)
           registry == [g \in DOMAIN analysis \cup {id} |->
                          IF g = id THEN Parsed(ContentOf(id)) ELSE analysis[g]]
<1>1. id \in FileIdRange /\ Walk(ContentOf(id).body).files \in SUBSET Loadable
  BY Checkable
<1>3. FillAnalysis(id, registry, <<>>)
  BY DEF ParseAndTypecheck
<1>4. DOMAIN analysis \subseteq DOMAIN registry
  OBVIOUS
<1> HIDE DEF id, registry
<1> QED BY <1>1, <1>3, <1>4, FillAnalysisIInv

\* The invariant holds before the server has seen a file.
LEMMA InitIInv == Init => IInv
<1> SUFFICES ASSUME Init PROVE IInv
  OBVIOUS
<1>1. CacheOK(sources)
  BY SMTT(30) DEF Init, CacheOK, NewCache
<1>2. EdgesOK
  BY DEF Init, EdgesOK, ImportsAnalyzed
<1>3. DiskOK
  BY WorldAssumption DEF Init, DiskOK
<1>4. Served(sources, open) /\ open \in [Files -> {NoFile} \cup Content]
  BY DEF Init, Served
<1> QED BY <1>1, <1>2, <1>3, <1>4 DEF Init, IInv

\* Opening and changing a file: the new text is served, the rest stays.
LEMMA ReplaceIInv ==
    ASSUME IInv, NEW f \in Files, NEW content \in Content, NEW ids,
           sources' = ReplaceString(sources, disk, f, content),
           Invalidate(ids),
           open' = [open EXCEPT ![f] = content],
           UNCHANGED diskVars
    PROVE  IInv'
<1> DEFINE new == ReplaceString(sources, disk, f, content)
<1>1. Replaced(new, sources, f, content)
  <2>1. CacheOK(sources) /\ DiskOK
    BY DEF IInv
  <2> QED BY <2>1, ReplaceStringFacts
<1> HIDE DEF new
<1>2. sources' = new
  BY DEF new
<1>3. Served(new, open')
  BY <1>1, SMTT(40) DEF IInv, Served, Replaced
<1>4. \A x \in FileIdRange : x \in FileIdRange'
  BY SMTT(30), <1>1, <1>2 DEF FileIdRange, IInv, CacheOK, Replaced
<1>5. EdgesOK'
  BY <1>4, InvalidateEdges DEF IInv
<1>6. open' \in [Files -> {NoFile} \cup Content]
  BY DEF IInv
<1> QED BY <1>1, <1>2, <1>3, <1>5, <1>6 DEF IInv, DiskOK, diskVars, Replaced

\* What closing a file leaves before the file is looked for on the disk.
LEMMA ClosedCache ==
    ASSUME IInv, NEW f \in Files, Close(f)
    PROVE  LET closed == [sources EXCEPT !.fileIds[f].source = MemoryClosed] IN
           /\ CacheOK(closed)
           /\ closed.files = sources.files
           /\ \A g \in Files \ {f} : closed.fileIds[g] = sources.fileIds[g]
<1> DEFINE closed == [sources EXCEPT !.fileIds[f].source = MemoryClosed]
<1>1. sources.fileIds[f] # NoEntry
  BY DEF Close, CanClose
<1>2. CacheOK(closed) /\ closed.files = sources.files
  <2>1. MemoryClosed \in Source
    BY DEF MemoryClosed, Source
  <2>2. closed.fileIds \in [Files -> {NoEntry} \cup Entry]
    BY SMTT(30), <1>1, <2>1 DEF IInv, CacheOK, Entry
  <2>3. \A g \in Files : closed.fileIds[g] # NoEntry =>
           sources.fileIds[g] # NoEntry /\ closed.fileIds[g].id = sources.fileIds[g].id
    BY SMTT(30), <1>1 DEF IInv, CacheOK, Entry
  <2> QED BY <2>2, <2>3, Zenon DEF IInv, CacheOK
<1>3. \A g \in Files \ {f} : closed.fileIds[g] = sources.fileIds[g]
  BY DEF IInv, CacheOK
<1> QED BY <1>2, <1>3

\* Closing a file: the others are still served.
LEMMA CloseIInv ==
    ASSUME IInv, NEW f \in Files, Close(f)
    PROVE  IInv'
<1> DEFINE closed == [sources EXCEPT !.fileIds[f].source = MemoryClosed]
           new == GetOrAddFiles(closed, disk, {f})
<1>2. CacheOK(closed) /\ closed.files = sources.files
  BY ClosedCache
<1>3. \A g \in Files \ {f} : closed.fileIds[g] = sources.fileIds[g]
  BY ClosedCache
<1> HIDE DEF closed
<1>4. /\ CacheOK(new)
      /\ Len(closed.files) <= Len(new.files)
      /\ \A i \in 1..Len(closed.files) : new.files[i] = closed.files[i]
      /\ \A g \in Files : UpToDate(closed, disk, g) =>
           new.fileIds[g] = closed.fileIds[g]
  <2>1. Extended(new, closed, {f})
    BY <1>2, GetOrAddFilesFacts DEF IInv
  <2> QED BY <2>1 DEF Extended
<1> HIDE DEF new
<1>5. sources' = new
  BY DEF Close, CloseFile, CloseInMemoryFile, new, closed
<1>6. /\ open' = [open EXCEPT ![f] = NoFile]
      /\ open' \in [Files -> {NoFile} \cup Content]
  BY DEF Close, IInv
<1>7. ASSUME NEW g \in Files, open'[g] # NoFile
      PROVE  /\ new.fileIds[g] # NoEntry
             /\ new.fileIds[g].source = Memory
             /\ new.files[new.fileIds[g].id].content = open'[g]
  <2>1. g # f /\ open[g] = open'[g]
    BY <1>6, <1>7 DEF IInv
  <2>2. /\ sources.fileIds[g] # NoEntry
        /\ sources.fileIds[g].source = Memory
        /\ sources.files[sources.fileIds[g].id].content = open'[g]
        /\ sources.fileIds[g].id \in 1..Len(sources.files)
    BY <2>1, <1>7 DEF IInv, Served, CacheOK
  <2>3. new.fileIds[g] = sources.fileIds[g]
    BY <2>1, <2>2, <1>3, <1>4 DEF UpToDate
  <2> QED BY <2>2, <2>3, <1>2, <1>4
<1>8. Served(new, open')
  BY <1>7 DEF Served
<1>9. \A x \in FileIdRange : x \in FileIdRange'
  BY SMTT(30), <1>2, <1>4, <1>5 DEF FileIdRange, IInv, CacheOK
<1>10. EdgesOK'
  BY <1>9, InvalidateEdges DEF IInv, Close, CloseFile
<1> QED BY <1>4, <1>5, <1>6, <1>8, <1>10 DEF IInv, DiskOK, diskVars, Close

\* Changes of the disk leave open files and the import graph alone.
LEMMA DiskStepIInv == IInv /\ DiskStep => IInv'
<1> SUFFICES ASSUME IInv, DiskStep PROVE IInv'
  OBVIOUS
<1>1. UNCHANGED <<open, worldVars>>
  BY DEF DiskStep, DiskWrite, DiskRemove
<1>2. DiskOK' /\ writes' \in Nat
  <2>1. ASSUME NEW f \in Files, NEW content \in ContentsOf[f], DiskWrite(f, content)
        PROVE  DiskOK' /\ writes' \in Nat
    <3>1. content \in Content /\ writes' \in Nat
      BY SMTT(30), <2>1, WorldAssumption DEF IInv, DiskWrite
    <3> QED BY <2>1, <3>1 DEF IInv, DiskOK, DiskWrite
  <2>2. ASSUME NEW f \in Files, DiskRemove(f)
        PROVE  DiskOK' /\ writes' \in Nat
    BY SMTT(30), <2>2 DEF IInv, DiskOK, DiskRemove
  <2> QED BY <2>1, <2>2 DEF DiskStep
<1> QED BY <1>1, <1>2
        DEF IInv, worldVars, EdgesOK, ImportsAnalyzed, FileIdRange

\* Every step of the server, the client and the disk keeps the invariant.
THEOREM NextIInv == IInv /\ [Next]_vars => IInv'
<1> SUFFICES ASSUME IInv, [Next]_vars PROVE IInv'
  OBVIOUS
<1>1. ASSUME NEW f \in Files, NEW content \in ContentsOf[f],
             Open(f, content) \/ Change(f, content)
      PROVE  IInv'
  <2>1. content \in Content
    BY WorldAssumption
  <2> QED BY <1>1, <2>1, ReplaceIInv, SMTT(40) DEF Open, Change, AddFile, UpdateFile
<1>2. ASSUME NEW f \in Files, Close(f) PROVE IInv'
  BY <1>2, CloseIInv
<1>3. ASSUME NEW f \in Files, EvalCommand(f) PROVE IInv'
  BY <1>3, ParseAndTypecheckIInv DEF EvalCommand
<1>4. CASE DiskStep
  BY <1>4, DiskStepIInv
<1>5. ASSUME NEW f \in Files, RunDiagnostics(f) PROVE IInv'
  <2>1. CASE FileId(f) # NoId
    BY <1>5, <2>1, ParseAndTypecheckIInv DEF RunDiagnostics
  <2>2. CASE FileId(f) = NoId
    BY <1>5, <2>2 DEF RunDiagnostics, IInv, worldVars, diskVars, EdgesOK,
                      ImportsAnalyzed, FileIdRange, DiskOK
  <2> QED BY <2>1, <2>2
<1>6. ASSUME NEW g \in FileIdRange, CheckImport(g) PROVE IInv'
  BY <1>6 DEF CheckImport, IInv, worldVars, diskVars, EdgesOK, ImportsAnalyzed,
              FileIdRange, DiskOK
<1>7. ASSUME NEW g \in FileIdRange, TypecheckImport(g) PROVE IInv'
  <2>1. sources.files[g] \in [path : Files, content : Content]
    BY ElementOfSeq, Zenon DEF IInv, CacheOK, FileIdRange
  <2>2. ContentOf(g).body \in Seq(Names \cup {TypeError})
    BY <2>1 DEF ContentOf, Content
  <2> QED BY <1>7, <2>2, WalkFiles, FillAnalysisIInv DEF TypecheckImport
<1>8. CASE CompleteTypechecking
  <2>1. DOMAIN analysis' = DOMAIN analysis
    BY <1>8 DEF CompleteTypechecking
  <2> QED BY <1>8, <2>1 DEF CompleteTypechecking, IInv, diskVars, EdgesOK,
                            ImportsAnalyzed, FileIdRange, DiskOK
<1>9. CASE UNCHANGED vars
  BY <1>9 DEF vars, IInv, worldVars, diskVars, EdgesOK, ImportsAnalyzed,
              FileIdRange, DiskOK
<1> QED BY <1>1, <1>2, <1>3, <1>4, <1>5, <1>6, <1>7, <1>8, <1>9
        DEF Next, Sync, Typecheck

----------------------------------------------------------------------------
(***************************************************************************)
(* Without other programs: an id that is current stays so until its file   *)
(* is closed, and closing a file removes the analyses that import it.      *)
(***************************************************************************)
LEMMA PathsAreFiles ==
    ASSUME NEW cache, CacheOK(cache), NEW i \in 1..Len(cache.files)
    PROVE  cache.files[i].path \in Files
<1>1. cache.files \in Seq([path : Files, content : Content])
  BY DEF CacheOK
<1>2. cache.files[i] \in [path : Files, content : Content]
  BY <1>1, ElementOfSeq
<1> QED BY <1>2

LEMMA FillUndisturbed ==
    ASSUME IInv, Undisturbed, NEW id \in FileIdRange, NEW registry, NEW callers,
           FillAnalysis(id, registry, callers), UNCHANGED diskVars,
           Walk(ContentOf(id).body).files \in SUBSET Loadable
    PROVE  Undisturbed'
<1> DEFINE fs == Walk(ContentOf(id).body).files
           cache == GetOrAddFiles(sources, disk, fs)
           targets == {cache.fileIds[f].id : f \in fs}
<1>1. /\ sources' = cache
      /\ imports' = imports \cup ({id} \X targets)
  BY Zenon DEF FillAnalysis
<1>2. CacheOK(sources) /\ DiskOK /\ fs \in SUBSET Files
  BY DEF IInv, Loadable
<1>3. Extended(cache, sources, fs)
  BY <1>2, GetOrAddFilesFacts
<1>4. \A f \in fs : f \in Files /\ UpToDate(cache, disk, f)
  BY <1>3 DEF Loadable, Extended
<1> HIDE DEF fs, cache
<1>5. disk' = disk /\ writes' = writes
  BY DEF diskVars
<1> SUFFICES ASSUME writes = 0
             PROVE  Settled(cache) /\ \A e \in imports' : Current(cache, e[2])
  BY <1>1, <1>5 DEF Undisturbed, Settled, Current
<1>6. Settled(cache)
  BY <1>3 DEF Undisturbed, Settled, Extended, UpToDate
<1>7. ASSUME NEW i, Current(sources, i)
      PROVE  Current(cache, i)
  <2> DEFINE g == sources.files[i].path
  <2>1. i \in 1..Len(sources.files) /\ UpToDate(sources, disk, g) /\ sources.fileIds[g].id = i
    BY <1>7 DEF Current
  <2>2. g \in Files
    BY <2>1, <1>2, PathsAreFiles
  <2>3. cache.files[i].path = g /\ cache.fileIds[g] = sources.fileIds[g]
    BY <2>1, <2>2, <1>3 DEF Extended
  <2>4. i \in 1..Len(cache.files)
    BY SMTT(30), <2>1, <1>2, <1>3 DEF Extended, CacheOK
  <2> QED BY <2>1, <2>3, <2>4 DEF Current, UpToDate
<1>8. ASSUME NEW f \in fs
      PROVE  Current(cache, cache.fileIds[f].id)
  BY <1>3, <1>4 DEF Extended, CacheOK, Current, UpToDate
<1>9. \A e \in {id} \X targets : Current(cache, e[2])
  BY <1>8
<1> QED BY <1>1, <1>6, <1>7, <1>9 DEF Undisturbed

LEMMA ReplaceUndisturbed ==
    ASSUME IInv, Undisturbed, NEW f \in Files, NEW content \in Content, NEW ids,
           sources' = ReplaceString(sources, disk, f, content),
           Invalidate(ids), UNCHANGED diskVars
    PROVE  Undisturbed'
<1> DEFINE new == ReplaceString(sources, disk, f, content)
<1>1. CacheOK(sources) /\ DiskOK
  BY DEF IInv
<1>2. Replaced(new, sources, f, content)
  BY <1>1, ReplaceStringFacts
<1> HIDE DEF new
<1>3. sources' = new /\ disk' = disk /\ writes' = writes /\ imports' \subseteq imports
  BY DEF diskVars, Invalidate, new
<1> SUFFICES ASSUME writes = 0
             PROVE  Settled(new) /\ \A e \in imports : Current(new, e[2])
  BY <1>3 DEF Undisturbed, Settled, Current
<1>4. UpToDate(new, disk, f)
  BY <1>2 DEF Replaced, UpToDate
<1>5. Settled(new)
  BY <1>2, <1>4 DEF Undisturbed, Settled, Replaced, UpToDate
<1>6. ASSUME NEW i, Current(sources, i)
      PROVE  Current(new, i)
  <2> DEFINE g == sources.files[i].path
  <2>1. i \in 1..Len(sources.files) /\ UpToDate(sources, disk, g) /\ sources.fileIds[g].id = i
    BY <1>6 DEF Current
  <2>2. g \in Files
    BY <2>1, <1>1, PathsAreFiles
  <2>3. new.files[i].path = g
    BY <2>1, <1>2 DEF Replaced
  <2>4. i \in 1..Len(new.files)
    BY SMTT(30), <2>1, <1>1, <1>2 DEF Replaced, CacheOK
  <2>5. CASE g = f
    BY <2>1, <2>3, <2>4, <2>5, <1>2, <1>4 DEF Replaced, Current
  <2>6. CASE g # f
    BY <2>1, <2>2, <2>3, <2>4, <2>6, <1>2 DEF Replaced, Current, UpToDate
  <2> QED BY <2>5, <2>6
<1> QED BY <1>5, <1>6 DEF Undisturbed

LEMMA CloseUndisturbed ==
    ASSUME IInv, Undisturbed, NEW f \in Files, Close(f)
    PROVE  Undisturbed'
<1> DEFINE closed == [sources EXCEPT !.fileIds[f].source = MemoryClosed]
           new == GetOrAddFiles(closed, disk, {f})
           id == sources.fileIds[f].id
<1>1. CacheOK(closed) /\ closed.files = sources.files
      /\ \A g \in Files \ {f} : closed.fileIds[g] = sources.fileIds[g]
  BY ClosedCache
<1> HIDE DEF closed
<1>2. Extended(new, closed, {f})
  BY <1>1, GetOrAddFilesFacts DEF IInv
<1>3. sources' = new /\ disk' = disk /\ writes' = writes /\ Invalidate({id})
  BY DEF Close, CloseFile, CloseInMemoryFile, closed, diskVars
<1>4. \A e \in imports' : e \in imports /\ e[2] # id
  <2>1. \A e \in imports : e[2] = id => e[1] \in {id} \cup RevDeps({id})
    BY GoneClosed DEF IInv, EdgesOK
  <2> QED BY <2>1, <1>3 DEF Invalidate
<1> HIDE DEF new, id
<1> SUFFICES ASSUME writes = 0
             PROVE  Settled(new) /\ \A e \in imports' : Current(new, e[2])
  BY <1>3 DEF Undisturbed, Settled, Current
<1>5. Settled(new)
  <2> SUFFICES ASSUME NEW g \in Files, new.fileIds[g] # NoEntry
               PROVE  UpToDate(new, disk, g) \/ disk[g] = NoFile
    BY DEF Settled
  <2>1. CASE g = f
    BY <2>1, <1>2 DEF Extended
  <2>2. CASE g # f
    BY <2>2, <1>1, <1>2 DEF Extended, Undisturbed, Settled, UpToDate
  <2> QED BY <2>1, <2>2
<1>6. ASSUME NEW i, Current(sources, i), i # id
      PROVE  Current(new, i)
  <2> DEFINE g == sources.files[i].path
  <2>1. i \in 1..Len(sources.files) /\ UpToDate(sources, disk, g) /\ sources.fileIds[g].id = i
    BY <1>6 DEF Current
  <2>2. g \in Files
    BY <2>1, PathsAreFiles DEF IInv
  <2>3. g # f
    BY <2>1, <1>6 DEF id
  <2>4. closed.fileIds[g] = sources.fileIds[g] /\ UpToDate(closed, disk, g)
    BY <2>1, <2>2, <2>3, <1>1 DEF UpToDate
  <2>5. new.files[i].path = g /\ new.fileIds[g] = closed.fileIds[g]
    BY <2>1, <2>2, <2>4, <1>1, <1>2 DEF Extended
  <2>6. i \in 1..Len(new.files)
    BY SMTT(30), <2>1, <1>1, <1>2 DEF Extended, CacheOK
  <2> QED BY <2>1, <2>4, <2>5, <2>6 DEF Current, UpToDate
<1> QED BY <1>4, <1>5, <1>6 DEF Undisturbed

\* Nothing is imported at the start.
LEMMA InitUndisturbed == Init => Undisturbed
  BY SMTT(30) DEF Init, Undisturbed, Settled, NewCache

\* Every step keeps the imports current; steps of other programs end the claim.
THEOREM NextUndisturbed == IInv /\ Undisturbed /\ [Next]_vars => Undisturbed'
<1> SUFFICES ASSUME IInv, Undisturbed, [Next]_vars PROVE Undisturbed'
  OBVIOUS
<1>1. ASSUME NEW f \in Files, NEW content \in ContentsOf[f],
             Open(f, content) \/ Change(f, content)
      PROVE  Undisturbed'
  <2>1. content \in Content
    BY WorldAssumption
  <2>2. CASE Open(f, content)
    BY <2>1, <2>2, ReplaceUndisturbed DEF Open, AddFile
  <2>3. CASE Change(f, content)
    BY <2>1, <2>3, ReplaceUndisturbed DEF Change, UpdateFile
  <2> QED BY <1>1, <2>2, <2>3
<1>2. ASSUME NEW f \in Files, Close(f) PROVE Undisturbed'
  BY <1>2, CloseUndisturbed
<1>3. ASSUME NEW f \in Files, FileId(f) # NoId, ParseAndTypecheck(FileId(f)), UNCHANGED diskVars
      PROVE  Undisturbed'
  BY <1>3, Checkable, FillUndisturbed DEF ParseAndTypecheck
<1>4. CASE DiskStep
  <2>1. writes \in Nat /\ writes' = writes + 1
    BY <1>4 DEF DiskStep, DiskWrite, DiskRemove, IInv
  <2>2. writes' # 0
    BY SMTT(30), <2>1
  <2> QED BY <2>2 DEF Undisturbed
<1>5. ASSUME UNCHANGED <<sources, disk, writes, imports>> PROVE Undisturbed'
  BY <1>5 DEF Undisturbed, Settled, Current, UpToDate
<1>6. ASSUME NEW g \in FileIdRange, TypecheckImport(g) PROVE Undisturbed'
  <2>1. sources.files[g] \in [path : Files, content : Content]
    BY ElementOfSeq, Zenon DEF IInv, CacheOK, FileIdRange
  <2>2. ContentOf(g).body \in Seq(Names \cup {TypeError})
    BY <2>1 DEF ContentOf, Content
  <2> QED BY <1>6, <2>2, WalkFiles, FillUndisturbed DEF TypecheckImport
<1>7. ASSUME NEW f \in Files, RunDiagnostics(f) PROVE Undisturbed'
  BY <1>3, <1>5, <1>7 DEF RunDiagnostics, worldVars, diskVars
<1>8. ASSUME NEW f \in Files, EvalCommand(f) PROVE Undisturbed'
  BY <1>3, <1>8 DEF EvalCommand
<1>9. CASE CompleteTypechecking \/ UNCHANGED vars \/ \E g \in FileIdRange : CheckImport(g)
  BY <1>5, <1>9 DEF CompleteTypechecking, CheckImport, vars, worldVars, diskVars
<1> QED BY <1>1, <1>2, <1>4, <1>6, <1>7, <1>8, <1>9 DEF Next, Sync, Typecheck

\* For any files and contents: an open file is served from the editor's text
\* whatever happens to the disk (replace_string), and the imports recorded
\* for a file all have an analysis in the registry, the invariant that
\* typecheck_uncached relies on and its comment doubts.
THEOREM WorldSafety == Spec => [](EditorWins /\ ImportsAnalyzed)
<1>1. IInv => EditorWins /\ ImportsAnalyzed
  <2> SUFFICES ASSUME IInv PROVE EditorWins /\ ImportsAnalyzed
    OBVIOUS
  <2>1. ASSUME NEW f \in Files, open[f] # NoFile
        PROVE  FileId(f) # NoId /\ ContentOf(FileId(f)) = open[f]
    <3>1. sources.fileIds[f] # NoEntry /\ sources.fileIds[f].source = Memory
      BY <2>1 DEF IInv, Served
    <3>2. FileId(f) = sources.fileIds[f].id
      BY <3>1 DEF FileId, IdOf, UpToDate
    <3>3. FileId(f) \in Nat
      BY SMTT(30), <3>1, <3>2 DEF IInv, CacheOK
    <3> QED BY <2>1, <3>1, <3>2, <3>3, SourceCacheAssumption
            DEF IInv, Served, ContentOf
  <2> QED BY <2>1 DEF EditorWins, IInv, EdgesOK
<1> QED BY <1>1, InitIInv, NextIInv, PTL DEF Spec

\* For any files and contents: as long as no other program touches the disk,
\* an analysis that imports an open file imports the id that carries the
\* editor's text (add_file, close_file, invalidate).
THEOREM ImportersCurrent == Spec => []ImportersSeeEditorUndisturbed
<1>1. Undisturbed => ImportersSeeEditorUndisturbed
  BY DEF Undisturbed, Current, ImportersSeeEditorUndisturbed, ImportersSeeEditor, FileId, IdOf, PathOf
<1> QED BY <1>1, InitIInv, NextIInv, InitUndisturbed, NextUndisturbed, PTL DEF Spec
=============================================================================
