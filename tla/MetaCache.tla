------------------------------ MODULE MetaCache ------------------------------
(***************************************************************************)
(* net/HttpMetaCache.cpp with the sink that fills it, net/MetaCacheSink.cpp*)
(* on net/FileSink.cpp: a list of entries that say which version of a      *)
(* resource a cached file holds, saved in an index file 30 seconds after   *)
(* the last change.                                                        *)
(*                                                                         *)
(* An entry is a shared object: the list and any number of requests hold   *)
(* it, callers mark it stale in place, and it outlives its place in the    *)
(* list.  Hence `heap' and references.  The files change under the cache:  *)
(* by its own requests, which overlap, and by anybody else.  One base is   *)
(* modelled; m_max_age - m_current_age is `life'; bodies stand for their   *)
(* checksums, versions of the resource for their validators (ETag and      *)
(* Last-Modified).                                                         *)
(***************************************************************************)
EXTENDS Naturals

CONSTANTS
  Path, Request, Ref, \* cached paths, download tasks, objects
  Version,            \* versions of a resource on its server
  EmptyVersion,       \* those with an empty body
  Lives,              \* lifetimes that replies give
  MaxTime             \* bound on the clock, which every write advances

ASSUME VersionAssumption ==
  /\ EmptyVersion \subseteq Version /\ {"none", "empty", "edited"} \cap Version = {}
  /\ "null" \notin Ref
  /\ MaxTime \in Nat /\ Lives \subseteq 0 .. MaxTime + 1

VARIABLES
  heap,    \* MetaEntry objects
  listed,  \* m_entries: the object listed for a path, or "null"
  timer,   \* saveBatchingTimer is running
  index,   \* the index file: an entry for a path, or Unknown
  file,    \* the cached files: body and time of the last change
  remote,  \* the version the server has of each path
  req,     \* the download tasks
  now,     \* the clock
  failed,  \* the last write of the index failed
  tainted  \* history: paths whose entry was renewed without new data while
           \* the file was not the one that was resolved any more

cache == <<heap, listed, timer>>
disk == <<index, failed>>
vars == <<cache, disk, file, remote, req, now, tainted>>

Eternal == MaxTime + 1
NoTag == "none"
NoSum == "none"
Body(v) == IF v \in EmptyVersion THEN "empty" ELSE v
Edited == "edited"                      \* what somebody else wrote
Bodies == {Body(v) : v \in Version} \cup {Edited}
NoFile == [body |-> NoSum, stamp |-> 0]

Entry == [etag : Version \cup {NoTag}, sum : Bodies \cup {NoSum},
          stamp : Nat, life : 0 .. Eternal, stale : BOOLEAN]
FreshlyMade == [etag |-> NoTag, sum |-> NoSum, stamp |-> 0, life |-> 0, stale |-> TRUE]
Unknown == [FreshlyMade EXCEPT !.stale = FALSE]
Idle == [phase |-> "idle", path |-> "none", ref |-> "null", tag |-> NoTag,
         version |-> NoTag, modified |-> FALSE, seen |-> 0]

Present(p) == file[p].stamp # 0
EntryOf(p) == heap[listed[p]]

Init ==
  /\ heap = [i \in Ref |-> FreshlyMade]
  /\ listed = [p \in Path |-> "null"] /\ timer = FALSE
  /\ index = [p \in Path |-> Unknown] /\ failed = FALSE
  /\ file \in [Path -> {NoFile, [body |-> Edited, stamp |-> 1]}]
  /\ remote \in [Path -> Version]
  /\ req = [r \in Request |-> Idle]
  /\ now = 1 /\ tainted = {}
-----------------------------------------------------------------------------
Expired(e, f) == e.life # Eternal /\ e.life <= now - f.stamp

SameTime(e, f) == e.stamp # 0                                 \* mutant
\* The checksum is asked for only when the time of the file has changed.
Unchanged(e, f) == e.stamp = f.stamp \/ e.sum = f.body

\* resolveEntry() up to the question of age.
Verified(p, expected) ==
  /\ listed[p] # "null"
  /\ Present(p)
  /\ expected \in {NoTag, EntryOf(p).etag}
  /\ Unchanged(EntryOf(p), file[p])

Kept(p, expected) == Verified(p, expected) /\ ~Expired(EntryOf(p), file[p])

\* The entry takes over the time of a file that has kept its checksum.
Checked(p, expected) ==
  IF Verified(p, expected) THEN [heap EXCEPT ![listed[p]].stamp = file[p].stamp]
                           ELSE heap
SavesChecked(p, expected) ==
  timer \/ (Verified(p, expected) /\ EntryOf(p).stamp # file[p].stamp)

\* A listed entry that does not pass is disowned, unless the file cannot be
\* opened to compute its checksum.
Disowned(p, expected) ==
  \/ listed' = [listed EXCEPT ![p] = "null"]
  \/ /\ listed[p] # "null" /\ Present(p) /\ expected \in {NoTag, EntryOf(p).etag}
     /\ EntryOf(p).stamp # file[p].stamp
     /\ UNCHANGED listed

Unused(i) ==
  /\ \A p \in Path : listed[p] # i
  /\ \A r \in Request : req[r].ref # i

\* What the caller does to the entry before it makes a request of it.
Prepared(e, mode) ==
  [e EXCEPT !.stale = @ \/ mode # "asIs", !.etag = IF mode = "reload" THEN NoTag ELSE @]

Ready(p, i) == [Idle EXCEPT !.phase = "ready", !.path = p, !.ref = i, !.seen = file[p].stamp]

\* resolveEntry() for a request that is made with what it returns.
ResolveListed(r, p, expected, mode) ==
  /\ req[r].phase = "idle"
  /\ Kept(p, expected)
  /\ heap' = [Checked(p, expected) EXCEPT ![listed[p]] = Prepared(@, mode)]
  /\ timer' = SavesChecked(p, expected)
  /\ req' = [req EXCEPT ![r] = Ready(p, listed[p])]
  /\ UNCHANGED <<listed, disk, file, remote, now, tainted>>

ResolveNew(r, p, expected) ==
  /\ req[r].phase = "idle"
  /\ ~Kept(p, expected)
  /\ \E i \in Ref :
       /\ Unused(i)
       /\ heap' = [Checked(p, expected) EXCEPT ![i] = FreshlyMade]
       /\ req' = [req EXCEPT ![r] = Ready(p, i)]
  /\ timer' = SavesChecked(p, expected)
  /\ Disowned(p, expected)
  /\ UNCHANGED <<disk, file, remote, now, tainted>>
-----------------------------------------------------------------------------
\* The validators are sent only for a file that has data.
TagToSend(f, e) == IF f.stamp # 0 /\ f.body # "empty" THEN e.etag ELSE NoTag

\* MetaCacheSink::initCache(), again for every redirect and retry: a fresh
\* entry is a hit and ends the request.
InitCache(r) ==
  /\ req[r].phase \in {"ready", "sent", "answered"}
  /\ LET e == heap[req[r].ref] IN
     req' = [req EXCEPT ![r] =
       IF ~e.stale THEN Idle
       ELSE [Ready(@.path, @.ref) EXCEPT !.phase = "sent", !.seen = req[r].seen,
                                         !.tag = TagToSend(file[req[r].path], e)]]
  /\ UNCHANGED <<cache, disk, file, remote, now, tainted>>

\* The server compares the validator with what it has.
Answer(r) ==
  /\ req[r].phase = "sent"
  /\ \E modified \in BOOLEAN :
       /\ ~modified => req[r].tag = remote[req[r].path]
       /\ req' = [req EXCEPT ![r].phase = "answered", ![r].modified = modified,
                             ![r].version = remote[req[r].path]]
  /\ UNCHANGED <<cache, disk, file, remote, now, tainted>>

NothingToSave == UNCHANGED timer                              \* mutant
SaveEventually == timer' = TRUE

\* The checksum is that of the data that came, if any came.
NewSum(e, q) ==
  IF q.modified /\ q.version \notin EmptyVersion THEN Body(q.version) ELSE e.sum

\* MetaCacheSink::finalizeCache() for a file with the time `stamp', and
\* updateEntry().
Finalized(q, stamp, tag, life) ==
  LET e == heap[q.ref] IN
  /\ heap' = [heap EXCEPT ![q.ref] =
       [etag |-> tag, sum |-> NewSum(e, q), stamp |-> stamp, stale |-> FALSE,
        life |-> IF e.life = Eternal THEN Eternal ELSE life]]
  /\ listed' = [listed EXCEPT ![q.path] = q.ref]
  /\ SaveEventually
  /\ tainted' = IF NewSum(e, q) = e.sum /\ stamp # q.seen
                  THEN tainted \cup {q.path} ELSE tainted

FinishModified(r) ==
  LET q == req[r] IN
  /\ q.phase = "answered" /\ q.modified
  /\ now < MaxTime
  /\ now' = now + 1
  /\ file' = [file EXCEPT ![q.path] = [body |-> Body(q.version), stamp |-> now']]
  /\ \E life \in Lives : Finalized(q, now', q.version, life)
  /\ req' = [req EXCEPT ![r] = Idle]
  /\ UNCHANGED <<disk, remote>>

\* A 304 need not carry an ETag.
FinishNotModified(r) ==
  LET q == req[r] IN
  /\ q.phase = "answered" /\ ~q.modified
  /\ \E life \in Lives, tag \in {q.version, NoTag} :
       Finalized(q, file[q.path].stamp, tag, life)
  /\ req' = [req EXCEPT ![r] = Idle]
  /\ UNCHANGED <<disk, file, remote, now>>

\* An error, an abort or a validator ends the request before it is finalized.
RequestFails(r) ==
  /\ req[r].phase # "idle"
  /\ req' = [req EXCEPT ![r] = Idle]
  /\ UNCHANGED <<cache, disk, file, remote, now, tainted>>
-----------------------------------------------------------------------------
\* evictEntry() of what resolveEntry() returns.
EvictEntry(p) ==
  /\ IF Kept(p, NoTag)
       THEN /\ heap' = [Checked(p, NoTag) EXCEPT ![listed[p]].stale = TRUE]
            /\ UNCHANGED listed
       ELSE heap' = Checked(p, NoTag) /\ Disowned(p, NoTag)
  /\ SaveEventually
  /\ UNCHANGED <<disk, file, remote, req, now, tainted>>

\* SaveNow(): stale entries are not saved.
Saved(h, l) ==
  [p \in Path |-> IF l[p] = "null" \/ h[l[p]].stale THEN Unknown ELSE h[l[p]]]

Write(ix) == failed' \in BOOLEAN /\ index' = IF failed' THEN index ELSE ix

SaveTimeout ==
  /\ timer
  /\ timer' = FALSE
  /\ Write(Saved(heap, listed))
  /\ UNCHANGED <<heap, listed, file, remote, req, now, tainted>>

\* evictAll() and SaveNow() from the main window; not every file can be
\* deleted.
EvictAll ==
  /\ heap' = [i \in Ref |-> IF \E p \in Path : listed[p] = i
                              THEN [heap[i] EXCEPT !.stale = TRUE] ELSE heap[i]]
  /\ listed' = [p \in Path |-> "null"]
  /\ timer' = (timer \/ \E p \in Path : listed[p] # "null")
  /\ \E gone \in SUBSET Path :
       file' = [p \in Path |-> IF p \in gone THEN NoFile ELSE file[p]]
  /\ Write(Saved(heap', listed'))
  /\ UNCHANGED <<remote, req, now, tainted>>

\* Load(): what the index says is presumed innocent.
Load(ix) ==
  /\ \E place \in [Path -> Ref] :
       /\ \A p, o \in Path : p # o => place[p] # place[o]
       /\ heap' = [i \in Ref |-> IF \E p \in Path : place[p] = i
                                   THEN ix[CHOOSE p \in Path : place[p] = i]
                                   ELSE FreshlyMade]
       /\ listed' = [p \in Path |-> IF ix[p] = Unknown THEN "null" ELSE place[p]]
  /\ timer' = FALSE
  /\ req' = [r \in Request |-> Idle]

\* The launcher quits, which saves, or crashes; and starts again.
Quit == Write(Saved(heap, listed)) /\ Load(index') /\ UNCHANGED <<file, remote, now, tainted>>
Crash == Load(index) /\ UNCHANGED <<disk, file, remote, now, tainted>>
-----------------------------------------------------------------------------
\* Somebody else deletes, changes or touches a file; the server gets another
\* version; time passes.
FileChanges(p) ==
  /\ now < MaxTime
  /\ now' = now + 1
  /\ \E f \in {NoFile} \cup [body : {Edited, file[p].body} \ {NoSum}, stamp : {now'}] :
       file' = [file EXCEPT ![p] = f]
  /\ UNCHANGED <<cache, disk, remote, req, tainted>>
ServerChanges(p, v) ==
  /\ remote' = [remote EXCEPT ![p] = v]
  /\ UNCHANGED <<cache, disk, file, req, now, tainted>>
TimePasses ==
  /\ now < MaxTime /\ now' = now + 1
  /\ UNCHANGED <<cache, disk, file, remote, req, tainted>>

Modes == {"asIs", "stale", "reload"}
Resolve(r, p, expected) ==
  ResolveNew(r, p, expected) \/ \E m \in Modes : ResolveListed(r, p, expected, m)

Next ==
  \/ \E r \in Request :
       \/ \E p \in Path, expected \in Version \cup {NoTag} : Resolve(r, p, expected)
       \/ InitCache(r) \/ Answer(r) \/ RequestFails(r)
       \/ FinishModified(r) \/ FinishNotModified(r)
  \/ \E p \in Path :
       EvictEntry(p) \/ FileChanges(p) \/ \E v \in Version : ServerChanges(p, v)
  \/ SaveTimeout \/ EvictAll \/ Quit \/ Crash \/ TimePasses

Spec == Init /\ [][Next]_vars
-----------------------------------------------------------------------------
Files == [body : Bodies \cup {NoSum}, stamp : Nat]
Requests ==
  [phase : {"idle", "ready", "sent", "answered"}, path : Path \cup {"none"},
   ref : Ref \cup {"null"}, tag : Version \cup {NoTag},
   version : Version \cup {NoTag}, modified : BOOLEAN, seen : Nat]

TypeOK ==
  /\ heap \in [Ref -> Entry] /\ index \in [Path -> Entry]
  /\ listed \in [Path -> Ref \cup {"null"}] /\ timer \in BOOLEAN
  /\ failed \in BOOLEAN /\ now \in Nat /\ tainted \subseteq Path
  /\ file \in [Path -> Files]
  /\ remote \in [Path -> Version] /\ req \in [Request -> Requests]

\* What resolveEntry() hands out as fresh is there, is the version the caller
\* expects, has not outlived its lifetime, and is what the server sent for the
\* version it names: through overlapping downloads, edits, evictions, crashes
\* with an old index, and late saves.  The exception is the code's: a reply
\* without data (304, or an empty body) does not ask again whether the file is
\* still the one that was resolved.
Trusted(p, expected) ==
  LET e == EntryOf(p) IN
  /\ Present(p)
  /\ expected \in {NoTag, e.etag}
  /\ e.life = Eternal \/ now < file[p].stamp + e.life
  /\ p \in tainted \/ e.etag = NoTag \/ file[p].body = Body(e.etag)
ServedIsTrue ==
  [][\A r \in Request, p \in Path, x \in Version \cup {NoTag} :
       ResolveListed(r, p, x, "asIs") /\ ~EntryOf(p).stale => Trusted(p, x)]_vars

\* Nothing that was downloaded is forgotten: unless a save is on its way or
\* the last one failed, the index has every fresh entry as it is.
KnownIsSaved ==
  timer \/ failed \/ \A p \in Path :
    listed[p] # "null" /\ ~EntryOf(p).stale => index[p] = EntryOf(p)
=============================================================================
