--------------------------- MODULE MetaCacheProofs ---------------------------
(***************************************************************************)
(* The cache of HTTP metadata knows what it has: proofs for any number of  *)
(* paths, overlapping requests, objects, versions, and any lifetimes.      *)
(***************************************************************************)
EXTENDS MetaCache, TLAPS

Types == TypeOK

\* An object is of one path: that under which it is listed, and for which
\* requests hold it.
Busy(r) == req[r].phase # "idle"
Held ==
  \A r \in Request :
    /\ Busy(r) => req[r].ref \in Ref /\ req[r].path \in Path
    /\ ~Busy(r) => req[r].ref = "null"
Owned ==
  /\ \A p, o \in Path : listed[p] # "null" /\ listed[p] = listed[o] => p = o
  /\ \A r \in Request, p \in Path : Busy(r) /\ listed[p] = req[r].ref => p = req[r].path
  /\ \A r, s \in Request : Busy(r) /\ req[r].ref = req[s].ref => req[r].path = req[s].path

\* No time is ahead of the clock.
Clock ==
  /\ \A i \in Ref : heap[i].stamp <= now
  /\ \A p \in Path : index[p].stamp <= now /\ file[p].stamp <= now
  /\ \A r \in Request : req[r].seen <= now

\* A request that was made when there was no file has its object for itself,
\* and the object has no validator.
Private ==
  \A r \in Request : Busy(r) /\ req[r].seen = 0 =>
    /\ heap[req[r].ref].etag = NoTag /\ req[r].tag = NoTag
    /\ \A p \in Path : listed[p] # req[r].ref
    /\ \A s \in Request : s # r => req[s].ref # req[r].ref

\* Only a validator that was sent is answered with 304.
Answered ==
  \A r \in Request : req[r].phase = "answered" =>
    req[r].version \in Version /\ (~req[r].modified => req[r].tag = req[r].version)

\* What an entry with a validator says of its file: the checksum is that of the
\* version it names, and a file of its time has that body.
Describes(e, f) ==
  e.etag # NoTag =>
    /\ e.sum = Body(e.etag)
    /\ f.stamp # 0 /\ f.stamp = e.stamp => f.body = Body(e.etag)
\* What a request knows as long as the file is the one it was made for.
Opened(q, e, f) ==
  f.stamp = q.seen =>
    /\ e.etag # NoTag => e.stamp = q.seen
    /\ q.tag # NoTag => e.sum = Body(q.tag) /\ f.body = Body(q.tag)

IndexTrue == \A p \in Path \ tainted : Describes(index[p], file[p])
ListTrue == \A p \in Path \ tainted : listed[p] # "null" => Describes(EntryOf(p), file[p])
RequestsTrue ==
  \A r \in Request : Busy(r) /\ req[r].path \notin tainted =>
    /\ Describes(heap[req[r].ref], file[req[r].path])
    /\ Opened(req[r], heap[req[r].ref], file[req[r].path])

IInv ==
  /\ Types /\ Held /\ Owned /\ Clock /\ Private /\ Answered
  /\ IndexTrue /\ ListTrue /\ RequestsTrue /\ KnownIsSaved
-----------------------------------------------------------------------------
(***************************************************************************)
(* What is said of single objects.                                         *)
(***************************************************************************)
LEMMA Shapes ==
  /\ FreshlyMade \in Entry /\ Unknown \in Entry /\ Idle \in Requests /\ NoFile \in Files
  /\ \A v \in Version : Body(v) \in Bodies /\ v # NoTag
  /\ Eternal \in Nat
<1>1. MaxTime \in Nat /\ "none" \notin Version
  BY VersionAssumption
<1>2. Eternal \in Nat /\ 0 \in 0 .. Eternal
  BY <1>1 DEF Eternal
<1>3. FreshlyMade \in Entry /\ Unknown \in Entry
  BY <1>2 DEF FreshlyMade, Unknown, Entry, NoTag, NoSum
<1>4. Idle \in Requests
  BY DEF Idle, Requests, NoTag
<1>5. NoFile \in Files
  BY DEF NoFile, Files, NoSum
<1>6. \A v \in Version : Body(v) \in Bodies /\ v # NoTag
  BY <1>1 DEF Bodies, NoTag
<1> QED BY <1>2, <1>3, <1>4, <1>5, <1>6

LEMMA ReadyShape ==
  ASSUME Types, NEW p \in Path, NEW i \in Ref
  PROVE  /\ Ready(p, i) \in Requests
         /\ Ready(p, i).phase = "ready" /\ Ready(p, i).path = p /\ Ready(p, i).ref = i
         /\ Ready(p, i).tag = NoTag /\ Ready(p, i).seen = file[p].stamp
<1>1. file[p].stamp \in Nat
  BY DEF Types, TypeOK, Files
<1> QED BY <1>1 DEF Ready, Idle, Requests, NoTag

\* An object that says no more of its file than it did.
Soft(g, e, f) ==
  /\ g.etag \in {NoTag, e.etag} /\ g.sum = e.sum /\ g.stamp \in {e.stamp, f.stamp}
  /\ Describes(e, f) => Describes(g, f)

LEMMA SoftSame == \A e, f : Soft(e, e, f)
  BY DEF Soft

LEMMA SoftOpened ==
  ASSUME NEW g, NEW e, NEW f, NEW q, Soft(g, e, f), Opened(q, e, f)
  PROVE  Opened(q, g, f)
  BY DEF Soft, Opened

\* A heap whose objects in use have softened.
AllSoft(h) ==
  /\ h \in [Ref -> Entry] /\ \A i \in Ref : h[i].stamp <= now
  /\ \A p \in Path : listed[p] # "null" => Soft(h[listed[p]], EntryOf(p), file[p])
  /\ \A r \in Request : Busy(r) => Soft(h[req[r].ref], heap[req[r].ref], file[req[r].path])

\* It is enough to look at the object that is listed under one path.
LEMMA OneSoft ==
  ASSUME IInv, NEW p \in Path, NEW h \in [Ref -> Entry],
         \A i \in Ref : i # listed[p] /\ ~Unused(i) => h[i] = heap[i],
         \A i \in Ref : h[i].stamp <= now,
         listed[p] # "null" => Soft(h[listed[p]], EntryOf(p), file[p])
  PROVE  AllSoft(h)
<1>1. ASSUME NEW o \in Path, listed[o] # "null"
      PROVE  Soft(h[listed[o]], EntryOf(o), file[o])
  <2>1. listed[o] \in Ref /\ ~Unused(listed[o])
    BY <1>1 DEF IInv, Types, TypeOK, Unused
  <2>2. o = p \/ listed[o] # listed[p]
    BY <1>1 DEF IInv, Owned
  <2> QED BY <1>1, <2>1, <2>2, SoftSame DEF EntryOf
<1>2. ASSUME NEW r \in Request, Busy(r)
      PROVE  Soft(h[req[r].ref], heap[req[r].ref], file[req[r].path])
  <2>1. req[r].ref \in Ref /\ req[r].ref # "null" /\ ~Unused(req[r].ref)
    BY <1>2, VersionAssumption DEF IInv, Held, Unused
  <2>2. CASE req[r].ref = listed[p]
    <3>1. req[r].path = p
      BY <1>2, <2>2 DEF IInv, Owned
    <3> QED BY <2>1, <2>2, <3>1 DEF EntryOf
  <2>3. CASE req[r].ref # listed[p]
    BY <2>1, <2>3, SoftSame
  <2> QED BY <2>2, <2>3
<1> QED BY <1>1, <1>2 DEF AllSoft

\* What resolveEntry() does to the object that is listed.
LEMMA CheckedSoftens ==
  ASSUME IInv, NEW p \in Path, NEW x \in Version \cup {NoTag}
  PROVE  /\ Checked(p, x) \in [Ref -> Entry]
         /\ \A i \in Ref : Checked(p, x)[i].stamp <= now
         /\ \A i \in Ref : i # listed[p] => Checked(p, x)[i] = heap[i]
         /\ listed[p] # "null" => Soft(Checked(p, x)[listed[p]], EntryOf(p), file[p])
         /\ SavesChecked(p, x) \in BOOLEAN
         /\ ~SavesChecked(p, x) => ~timer /\ Checked(p, x) = heap
         /\ Verified(p, x) => listed[p] \in Ref /\ Checked(p, x)[listed[p]].stamp = file[p].stamp
<1>1. heap \in [Ref -> Entry] /\ listed[p] \in Ref \cup {"null"} /\ timer \in BOOLEAN
      /\ file[p].stamp \in Nat /\ file[p].stamp <= now
      /\ \A i \in Ref : heap[i].stamp <= now
  BY DEF IInv, Types, TypeOK, Files, Clock
<1>2. CASE ~Verified(p, x)
  BY <1>1, <1>2, SoftSame DEF Checked, SavesChecked, EntryOf
<1>3. CASE Verified(p, x)
  <2> DEFINE e == EntryOf(p)
             g == [e EXCEPT !.stamp = file[p].stamp]
  <2>1. listed[p] \in Ref /\ e \in Entry /\ e = heap[listed[p]]
    BY <1>1, <1>3 DEF Verified, EntryOf
  <2>2. Checked(p, x) = [heap EXCEPT ![listed[p]] = g]
    BY <1>3, <2>1 DEF Checked
  <2>3. g \in Entry /\ g.stamp = file[p].stamp /\ g.etag = e.etag /\ g.sum = e.sum
    BY <1>1, <2>1 DEF Entry
  <2>4. Soft(g, e, file[p])
    <3>1. e.stamp = file[p].stamp \/ e.sum = file[p].body
      BY <1>3 DEF Verified, Unchanged
    <3>2. Describes(e, file[p]) => Describes(g, file[p])
      BY <2>3, <3>1 DEF Describes
    <3> HIDE DEF e, g
    <3> QED BY <2>3, <3>2 DEF Soft
  <2>5. ASSUME e.stamp = file[p].stamp PROVE g = e
    BY <2>1, <2>5 DEF Entry
  <2>6. ~SavesChecked(p, x) => ~timer /\ e.stamp = file[p].stamp
    BY <1>3 DEF SavesChecked
  <2>7. [heap EXCEPT ![listed[p]] = e] = heap
    BY <1>1, <2>1
  <2> HIDE DEF e, g
  <2>8. Checked(p, x) \in [Ref -> Entry]
    BY <1>1, <2>1, <2>2, <2>3
  <2>9. Checked(p, x)[listed[p]] = g /\ \A i \in Ref : i # listed[p] => Checked(p, x)[i] = heap[i]
    BY <1>1, <2>1, <2>2
  <2>10. SavesChecked(p, x) \in BOOLEAN
    BY <1>1 DEF SavesChecked
  <2> QED BY <1>1, <2>1, <2>2, <2>3, <2>4, <2>5, <2>6, <2>7, <2>8, <2>9, <2>10 DEF e
<1> QED BY <1>2, <1>3

-----------------------------------------------------------------------------
(***************************************************************************)
(* A step that softens objects, and at most takes some off the list.       *)
(***************************************************************************)
LEMMA SoftKeeps ==
  ASSUME IInv, AllSoft(heap'), UNCHANGED <<file, now, tainted>>,
         \A p \in Path : listed'[p] \in {listed[p], "null"}
  PROVE  /\ ListTrue'
         /\ \A r \in Request : Busy(r) /\ req[r].path \notin tainted =>
              /\ Describes(heap'[req[r].ref], file[req[r].path])
              /\ Opened(req[r], heap'[req[r].ref], file[req[r].path])
         /\ \A r \in Request : Busy(r) /\ req[r].seen = 0 => heap'[req[r].ref].etag = NoTag
<1>1. ASSUME NEW p \in Path \ tainted, listed'[p] # "null"
      PROVE  Describes(heap'[listed'[p]], file[p])
  <2>1. listed'[p] = listed[p] /\ listed[p] # "null"
    BY <1>1
  <2>2. Soft(heap'[listed[p]], EntryOf(p), file[p]) /\ Describes(EntryOf(p), file[p])
    BY <1>1, <2>1 DEF AllSoft, IInv, ListTrue
  <2> QED BY <2>1, <2>2 DEF Soft
<1>2. ASSUME NEW r \in Request, Busy(r)
      PROVE  Soft(heap'[req[r].ref], heap[req[r].ref], file[req[r].path])
  BY <1>2 DEF AllSoft
<1>3. ASSUME NEW r \in Request, Busy(r), req[r].path \notin tainted
      PROVE  /\ Describes(heap'[req[r].ref], file[req[r].path])
             /\ Opened(req[r], heap'[req[r].ref], file[req[r].path])
  <2>1. /\ Describes(heap[req[r].ref], file[req[r].path])
        /\ Opened(req[r], heap[req[r].ref], file[req[r].path])
    BY <1>3 DEF IInv, RequestsTrue
  <2>2. Opened(req[r], heap'[req[r].ref], file[req[r].path])
    BY <1>2, <1>3, <2>1, SoftOpened
  <2> QED BY <1>2, <1>3, <2>1, <2>2 DEF Soft
<1>4. ASSUME NEW r \in Request, Busy(r), req[r].seen = 0 PROVE heap'[req[r].ref].etag = NoTag
  BY <1>2, <1>4 DEF Soft, IInv, Private
<1> QED BY <1>1, <1>3, <1>4 DEF ListTrue, EntryOf

LEMMA ResolveListedKeeps ==
  ASSUME IInv, NEW r \in Request, NEW p \in Path, NEW x \in Version \cup {NoTag},
         NEW mode \in Modes, ResolveListed(r, p, x, mode)
  PROVE  IInv'
<1> DEFINE i == listed[p]
           h == Checked(p, x)
           e == h[i]
           g == Prepared(e, mode)
<1>1. /\ Verified(p, x) /\ Present(p) /\ i \in Ref /\ i # "null" /\ ~Busy(r)
      /\ heap' = [h EXCEPT ![i] = g] /\ timer' = SavesChecked(p, x)
      /\ req' = [req EXCEPT ![r] = Ready(p, i)]
      /\ UNCHANGED <<listed, index, failed, file, remote, now, tainted>>
  BY CheckedSoftens DEF ResolveListed, Kept, Verified, Busy, disk
<1>2. /\ h \in [Ref -> Entry] /\ e \in Entry /\ Soft(e, EntryOf(p), file[p])
      /\ e.stamp = file[p].stamp /\ e.stamp <= now /\ \A j \in Ref : h[j].stamp <= now
      /\ \A j \in Ref : j # i => h[j] = heap[j]
  BY <1>1, CheckedSoftens DEF Verified
<1>3. /\ g \in Entry /\ g.etag \in {NoTag, e.etag} /\ g.sum = e.sum /\ g.stamp = e.stamp
      /\ mode = "asIs" => g = e
      /\ mode # "asIs" => g.stale
  <2> HIDE DEF e
  <2> QED BY <1>2 DEF Prepared, Entry, Modes, NoTag
<1>4. heap' \in [Ref -> Entry] /\ heap'[i] = g /\ \A j \in Ref : j # i => heap'[j] = heap[j]
  <2> HIDE DEF e, g, h
  <2> QED BY <1>1, <1>2, <1>3
<1>5. Soft(g, EntryOf(p), file[p])
  <2> HIDE DEF e, g
  <2>1. Describes(e, file[p]) => Describes(g, file[p])
    BY <1>3 DEF Describes
  <2> QED BY <1>2, <1>3, <2>1 DEF Soft
<1>6. \A j \in Ref : heap'[j].stamp <= now
  <2> HIDE DEF e, g, h
  <2> QED BY <1>1, <1>2, <1>3, <1>4
<1> HIDE DEF h, e, g
<1>7. AllSoft(heap')
  BY <1>1, <1>4, <1>5, <1>6, OneSoft
<1>8. /\ Ready(p, i) \in Requests /\ req' \in [Request -> Requests]
      /\ req'[r] = Ready(p, i) /\ \A s \in Request : s # r => req'[s] = req[s]
      /\ Ready(p, i).phase = "ready" /\ Ready(p, i).path = p /\ Ready(p, i).ref = i
      /\ Ready(p, i).tag = NoTag /\ Ready(p, i).seen = file[p].stamp
  BY <1>1, ReadyShape DEF IInv, Types, TypeOK
<1> HIDE DEF i
<1>9. Types'
  BY <1>1, <1>4, <1>8, CheckedSoftens DEF IInv, Types, TypeOK
<1>10. Held'
  BY <1>1, <1>8 DEF IInv, Held, Busy
<1>11. Owned'
  <2>1. \A o \in Path : listed[o] = i => o = p
    BY <1>1 DEF IInv, Owned, i
  <2>2. \A s \in Request : req[s].ref = i => Busy(s) /\ req[s].path = p
    BY <1>1 DEF IInv, Owned, Held, i
  <2> QED BY <1>1, <1>8, <2>1, <2>2 DEF IInv, Owned, Busy
<1>12. Clock'
  BY <1>1, <1>6, <1>8 DEF IInv, Clock
<1>13. Private'
  <2>1. file[p].stamp # 0
    BY <1>1 DEF Present
  <2>2. ASSUME NEW s \in Request, s # r, Busy(s), req[s].seen = 0
        PROVE  /\ heap'[req[s].ref].etag = NoTag /\ req[s].tag = NoTag
               /\ \A o \in Path : listed[o] # req[s].ref
               /\ \A t \in Request : t # s => req'[t].ref # req[s].ref
    <3>1. heap'[req[s].ref].etag = NoTag
      BY <1>1, <1>7, <2>2, SoftKeeps
    <3> QED BY <1>8, <2>2, <3>1 DEF IInv, Private, i
  <2> QED BY <1>1, <1>8, <2>1, <2>2 DEF Private, Busy
<1>14. Answered'
  BY <1>8 DEF IInv, Answered
<1>15. IndexTrue' /\ ListTrue'
  BY <1>1, <1>7, SoftKeeps DEF IInv, IndexTrue
<1>16. RequestsTrue'
  <2>1. ASSUME p \notin tainted
        PROVE  Describes(heap'[i], file[p]) /\ Opened(Ready(p, i), heap'[i], file[p])
    <3>1. Describes(EntryOf(p), file[p])
      BY <1>1, <2>1 DEF IInv, ListTrue, i
    <3>2. heap'[i].stamp = file[p].stamp
      BY <1>2, <1>3, <1>4, <1>1
    <3> QED BY <1>4, <1>5, <1>8, <3>1, <3>2, <1>1 DEF Soft, Opened
  <2>2. \A s \in Request : s # r /\ Busy(s) /\ req[s].path \notin tainted =>
          /\ Describes(heap'[req[s].ref], file[req[s].path])
          /\ Opened(req[s], heap'[req[s].ref], file[req[s].path])
    BY <1>1, <1>7, SoftKeeps
  <2> QED BY <1>1, <1>8, <2>1, <2>2 DEF RequestsTrue, Busy
<1>17. KnownIsSaved'
  <2> SUFFICES ASSUME ~timer', ~failed', NEW o \in Path, listed[o] # "null", ~heap'[listed[o]].stale
               PROVE  index[o] = heap'[listed[o]]
    BY <1>1 DEF KnownIsSaved, EntryOf
  <2>1. ~timer /\ h = heap
    BY <1>1, CheckedSoftens DEF h
  <2>2. o = p \/ listed[o] # i
    BY DEF IInv, Owned, i
  <2>3. listed[o] \in Ref
    BY DEF IInv, Types, TypeOK
  <2>4. heap'[listed[o]] = heap[listed[o]]
    <3>1. CASE o = p
      <4>1. mode = "asIs"
        BY <1>3, <1>4, <1>1, <3>1 DEF i
      <4> QED BY <1>3, <1>4, <2>1, <3>1, <4>1, <1>1 DEF i, e
    <3>2. CASE o # p
      BY <1>4, <2>2, <2>3, <3>2
    <3> QED BY <3>1, <3>2
  <2> QED BY <1>1, <2>1, <2>4 DEF IInv, KnownIsSaved, EntryOf
<1> QED BY <1>9, <1>10, <1>11, <1>12, <1>13, <1>14, <1>15, <1>16, <1>17 DEF IInv

LEMMA ResolveNewKeeps ==
  ASSUME IInv, NEW r \in Request, NEW p \in Path, NEW x \in Version \cup {NoTag},
         ResolveNew(r, p, x)
  PROVE  IInv'
<1> DEFINE h == Checked(p, x)
<1>1. PICK i \in Ref :
        /\ Unused(i) /\ heap' = [h EXCEPT ![i] = FreshlyMade]
        /\ req' = [req EXCEPT ![r] = Ready(p, i)]
  BY DEF ResolveNew
<1>2. /\ ~Busy(r) /\ timer' = SavesChecked(p, x)
      /\ UNCHANGED <<index, failed, file, remote, now, tainted>>
  BY DEF ResolveNew, Busy, disk
<1>3. /\ \A o \in Path : listed'[o] \in {listed[o], "null"} /\ listed[o] # i
      /\ \A s \in Request : req[s].ref # i
      /\ listed' \in [Path -> Ref \cup {"null"}]
  <2>1. listed \in [Path -> Ref \cup {"null"}]
    BY DEF IInv, Types, TypeOK
  <2>2. listed' = listed \/ listed' = [listed EXCEPT ![p] = "null"]
    BY DEF ResolveNew, Disowned
  <2> QED BY <1>1, <2>1, <2>2 DEF Unused
<1>4. /\ h \in [Ref -> Entry] /\ \A j \in Ref : h[j].stamp <= now
      /\ \A j \in Ref : j # listed[p] => h[j] = heap[j]
      /\ listed[p] # "null" => Soft(h[listed[p]], EntryOf(p), file[p])
  BY CheckedSoftens
<1> HIDE DEF h
<1>5. /\ heap' \in [Ref -> Entry] /\ heap'[i] = FreshlyMade
      /\ \A j \in Ref : j # i => heap'[j] = h[j]
  BY <1>1, <1>4, Shapes
<1>6. FreshlyMade.stamp = 0 /\ FreshlyMade.etag = NoTag /\ 0 <= now
  BY DEF FreshlyMade, IInv, Types, TypeOK
<1>7. \A j \in Ref : heap'[j].stamp <= now
  BY <1>4, <1>5, <1>6
<1>8. AllSoft(heap')
  <2>1. \A j \in Ref : j # listed[p] /\ ~Unused(j) => heap'[j] = heap[j]
    BY <1>1, <1>4, <1>5
  <2>2. listed[p] # "null" => Soft(heap'[listed[p]], EntryOf(p), file[p])
    <3>1. listed[p] # "null" => listed[p] \in Ref
      BY DEF IInv, Types, TypeOK
    <3> QED BY <1>3, <1>4, <1>5, <3>1
  <2> QED BY <1>5, <1>7, <2>1, <2>2, OneSoft
<1>9. /\ Ready(p, i) \in Requests /\ req' \in [Request -> Requests]
      /\ req'[r] = Ready(p, i) /\ \A s \in Request : s # r => req'[s] = req[s]
      /\ Ready(p, i).phase = "ready" /\ Ready(p, i).path = p /\ Ready(p, i).ref = i
      /\ Ready(p, i).tag = NoTag /\ Ready(p, i).seen = file[p].stamp
  BY <1>1, ReadyShape DEF IInv, Types, TypeOK
<1>10. Types'
  BY <1>2, <1>3, <1>5, <1>9, CheckedSoftens DEF IInv, Types, TypeOK
<1>11. Held'
  BY <1>2, <1>9 DEF IInv, Held, Busy
<1>12. Owned'
  <2>1. i # "null"
    BY VersionAssumption
  <2>2. \A q, o \in Path : listed'[q] # "null" /\ listed'[q] = listed'[o] => q = o
    BY <1>3 DEF IInv, Owned
  <2>3. \A s \in Request, o \in Path : Busy(s)' /\ listed'[o] = req'[s].ref => o = req'[s].path
    <3> SUFFICES ASSUME NEW s \in Request, NEW o \in Path, Busy(s)', listed'[o] = req'[s].ref
                 PROVE  o = req'[s].path
      OBVIOUS
    <3>1. s # r
      BY <1>3, <1>9, <2>1
    <3>2. Busy(s) /\ req[s].ref # "null"
      BY <1>9, <3>1, VersionAssumption DEF Busy, IInv, Held
    <3> QED BY <1>3, <1>9, <3>1, <3>2 DEF IInv, Owned
  <2>4. \A s, t \in Request : Busy(s)' /\ req'[s].ref = req'[t].ref => req'[s].path = req'[t].path
    BY <1>3, <1>9 DEF IInv, Owned, Busy
  <2> QED BY <2>2, <2>3, <2>4 DEF Owned
<1>13. Clock'
  BY <1>2, <1>7, <1>9 DEF IInv, Clock
<1>14. Private'
  <2>1. /\ heap'[i].etag = NoTag /\ Ready(p, i).tag = NoTag
        /\ \A o \in Path : listed'[o] # i
        /\ \A t \in Request : t # r => req'[t].ref # i
    BY <1>3, <1>5, <1>6, <1>9, VersionAssumption
  <2>2. ASSUME NEW s \in Request, s # r, Busy(s), req[s].seen = 0
        PROVE  /\ heap'[req[s].ref].etag = NoTag /\ req[s].tag = NoTag
               /\ \A o \in Path : listed'[o] # req[s].ref
               /\ \A t \in Request : t # s => req'[t].ref # req[s].ref
    <3>1. heap'[req[s].ref].etag = NoTag
      BY <1>2, <1>3, <1>8, <2>2, SoftKeeps
    <3>2. req[s].ref # "null"
      BY <2>2, VersionAssumption DEF IInv, Held
    <3> QED BY <1>3, <1>9, <2>2, <3>1, <3>2 DEF IInv, Private
  <2> QED BY <1>9, <2>1, <2>2 DEF Private, Busy
<1>15. Answered'
  BY <1>9 DEF IInv, Answered
<1>16. IndexTrue' /\ ListTrue'
  BY <1>2, <1>3, <1>8, SoftKeeps DEF IInv, IndexTrue
<1>17. RequestsTrue'
  <2>1. Describes(heap'[i], file[p]) /\ Opened(Ready(p, i), heap'[i], file[p])
    BY <1>5, <1>6, <1>9 DEF Describes, Opened
  <2>2. \A s \in Request : s # r /\ Busy(s) /\ req[s].path \notin tainted =>
          /\ Describes(heap'[req[s].ref], file[req[s].path])
          /\ Opened(req[s], heap'[req[s].ref], file[req[s].path])
    BY <1>2, <1>3, <1>8, SoftKeeps
  <2> QED BY <1>2, <1>9, <2>1, <2>2 DEF RequestsTrue, Busy
<1>18. KnownIsSaved'
  <2> SUFFICES ASSUME ~timer', ~failed', NEW o \in Path, listed'[o] # "null", ~heap'[listed'[o]].stale
               PROVE  index[o] = heap'[listed'[o]]
    BY <1>2 DEF KnownIsSaved, EntryOf
  <2>1. ~timer /\ h = heap
    BY <1>2, CheckedSoftens DEF h
  <2>2. listed'[o] = listed[o] /\ listed[o] \in Ref /\ listed[o] # i
    BY <1>3
  <2> QED BY <1>2, <1>5, <2>1, <2>2 DEF IInv, KnownIsSaved, EntryOf
<1> QED BY <1>10, <1>11, <1>12, <1>13, <1>14, <1>15, <1>16, <1>17, <1>18 DEF IInv

\* Steps of a request that leave the cache, the files and the clock alone.
LEMMA RequestKeeps ==
  ASSUME IInv, NEW r \in Request, NEW q \in Requests, Busy(r),
         req' = [req EXCEPT ![r] = q],
         UNCHANGED <<cache, disk, file, remote, now, tainted>>,
         \/ q = Idle
         \/ /\ q.phase # "idle" /\ q.ref = req[r].ref /\ q.path = req[r].path
            /\ q.seen = req[r].seen
            /\ \/ q.tag \in {NoTag, req[r].tag}
               \/ q.tag = heap[q.ref].etag /\ file[q.path].stamp # 0
            /\ q.phase = "answered" =>
                 q.version \in Version /\ (~q.modified => q.tag = q.version)
  PROVE  IInv'
<1>1. /\ req' \in [Request -> Requests] /\ req'[r] = q
      /\ \A s \in Request : s # r => req'[s] = req[s]
      /\ UNCHANGED <<heap, listed, timer, index, failed, file, remote, now, tainted>>
  BY DEF cache, disk, IInv, Types, TypeOK
<1>2. Types'
  BY <1>1 DEF IInv, Types, TypeOK
<1>3. q.phase = "idle" => q = Idle
  OBVIOUS
<1>4. Idle.phase = "idle" /\ Idle.ref = "null" /\ Idle.seen = 0
  BY DEF Idle
<1>5. /\ req[r].ref \in Ref /\ req[r].ref # "null" /\ req[r].path \in Path
      /\ req[r] \in Requests /\ q.seen \in Nat
  BY <1>4, VersionAssumption DEF IInv, Held, Types, TypeOK, Requests
<1>6. Held'
  BY <1>1, <1>4, <1>5 DEF IInv, Held, Busy
<1>7. Owned'
  <2>1. \A s \in Request : Busy(s)' => Busy(s) /\ req'[s].ref = req[s].ref /\ req'[s].path = req[s].path
    BY <1>1, <1>4 DEF Busy
  <2>2. \A s \in Request : Busy(s)' => req[s].ref # "null"
    BY <2>1, VersionAssumption DEF IInv, Held
  <2>3. \A s \in Request : ~Busy(s)' => req'[s].ref = "null"
    BY <1>6 DEF Held
  <2> QED BY <1>1, <2>1, <2>2, <2>3 DEF IInv, Owned
<1>8. Clock'
  <2>1. q.seen <= now
    BY <1>4, <1>5 DEF IInv, Clock, Types, TypeOK
  <2> QED BY <1>1, <2>1 DEF IInv, Clock
<1>9. Private'
  <2>1. \A s \in Request : req'[s].ref \in {req[s].ref, "null"}
    BY <1>1, <1>4
  <2>2. ASSUME NEW s \in Request, Busy(s)', req'[s].seen = 0
        PROVE  /\ heap[req'[s].ref].etag = NoTag /\ req'[s].tag = NoTag
               /\ \A p \in Path : listed[p] # req'[s].ref
               /\ \A t \in Request : t # s => req'[t].ref # req'[s].ref
    <3>1. Busy(s) /\ req'[s].ref = req[s].ref /\ req[s].seen = 0 /\ req[s].ref # "null"
      BY <1>1, <1>4, <2>2, VersionAssumption DEF Busy, IInv, Held
    <3>2. /\ heap[req[s].ref].etag = NoTag /\ req[s].tag = NoTag
          /\ \A p \in Path : listed[p] # req[s].ref
          /\ \A t \in Request : t # s => req[t].ref # req[s].ref
      BY <3>1 DEF IInv, Private
    <3>3. req'[s].tag = NoTag
      BY <1>1, <1>4, <2>2, <3>1, <3>2 DEF Busy
    <3> QED BY <2>1, <3>1, <3>2, <3>3
  <2> QED BY <1>1, <2>2 DEF Private
<1>10. Answered'
  BY <1>1, <1>4 DEF IInv, Answered
<1>11. IndexTrue' /\ ListTrue' /\ KnownIsSaved'
  BY <1>1 DEF IInv, IndexTrue, ListTrue, KnownIsSaved, EntryOf
<1>12. RequestsTrue'
  <2> SUFFICES ASSUME q.phase # "idle", q.path \notin tainted
               PROVE  Describes(heap[q.ref], file[q.path]) /\ Opened(q, heap[q.ref], file[q.path])
    BY <1>1 DEF IInv, RequestsTrue, Busy
  <2>1. Describes(heap[q.ref], file[q.path]) /\ Opened(req[r], heap[q.ref], file[q.path])
    BY <1>4 DEF IInv, RequestsTrue
  <2> QED BY <1>4, <2>1 DEF Describes, Opened
<1> QED BY <1>2, <1>6, <1>7, <1>8, <1>9, <1>10, <1>11, <1>12 DEF IInv

LEMMA InitCacheKeeps ==
  ASSUME IInv, NEW r \in Request, InitCache(r)
  PROVE  IInv'
<1> DEFINE q == req[r]
           tag == TagToSend(file[q.path], heap[q.ref])
           sent == [Ready(q.path, q.ref) EXCEPT !.phase = "sent", !.seen = q.seen, !.tag = tag]
<1>1. Busy(r) /\ q \in Requests /\ q.ref \in Ref /\ q.path \in Path
  BY DEF InitCache, Busy, IInv, Held, Types, TypeOK
<1>2. heap[q.ref] \in Entry
  BY <1>1 DEF IInv, Types, TypeOK
<1>3. tag \in {NoTag, heap[q.ref].etag} /\ (tag # NoTag => file[q.path].stamp # 0)
  BY DEF TagToSend
<1>4. q.seen \in Nat /\ tag \in Version \cup {NoTag}
  BY <1>1, <1>2, <1>3 DEF Requests, Entry
<1>5. /\ sent \in Requests /\ sent.phase = "sent" /\ sent.ref = q.ref /\ sent.path = q.path
      /\ sent.seen = q.seen /\ sent.tag = tag
  <2>1. Ready(q.path, q.ref) \in Requests /\ Ready(q.path, q.ref).ref = q.ref
        /\ Ready(q.path, q.ref).path = q.path
    BY <1>1, ReadyShape DEF IInv
  <2> HIDE DEF q, tag
  <2> QED BY <1>4, <2>1 DEF Requests
<1>6. /\ req' = [req EXCEPT ![r] = Idle] \/ req' = [req EXCEPT ![r] = sent]
      /\ UNCHANGED <<cache, disk, file, remote, now, tainted>>
  BY DEF InitCache
<1> HIDE DEF q, tag, sent
<1>7. CASE req' = [req EXCEPT ![r] = Idle]
  BY <1>1, <1>6, <1>7, Shapes, RequestKeeps
<1>8. CASE req' = [req EXCEPT ![r] = sent]
  BY <1>1, <1>3, <1>5, <1>6, <1>8, RequestKeeps DEF q
<1> QED BY <1>6, <1>7, <1>8

LEMMA AnswerKeeps ==
  ASSUME IInv, NEW r \in Request, Answer(r)
  PROVE  IInv'
<1>1. PICK modified \in BOOLEAN :
        /\ ~modified => req[r].tag = remote[req[r].path]
        /\ req' = [req EXCEPT ![r].phase = "answered", ![r].modified = modified,
                              ![r].version = remote[req[r].path]]
  BY DEF Answer
<1> DEFINE v == remote[req[r].path]
           q == [req[r] EXCEPT !.phase = "answered", !.modified = modified, !.version = v]
<1>2. Busy(r) /\ req[r] \in Requests /\ req[r].path \in Path /\ req \in [Request -> Requests]
  BY DEF Answer, Busy, IInv, Held, Types, TypeOK
<1>3. v \in Version
  BY <1>2 DEF IInv, Types, TypeOK
<1> HIDE DEF v
<1>4. q \in Requests /\ q.phase = "answered" /\ q.ref = req[r].ref /\ q.path = req[r].path
      /\ q.seen = req[r].seen /\ q.tag = req[r].tag /\ q.modified = modified /\ q.version = v
  BY <1>2, <1>3 DEF Requests
<1>5. req' = [req EXCEPT ![r] = q]
  BY <1>1, <1>2 DEF v, Requests
<1>6. UNCHANGED <<cache, disk, file, remote, now, tainted>>
  BY DEF Answer
<1> HIDE DEF q
<1> QED BY <1>1, <1>2, <1>3, <1>4, <1>5, <1>6, RequestKeeps DEF v

LEMMA FailsKeeps ==
  ASSUME IInv, NEW r \in Request, RequestFails(r)
  PROVE  IInv'
  BY Shapes, RequestKeeps DEF RequestFails, Busy
-----------------------------------------------------------------------------
(***************************************************************************)
(* The end of a request.                                                   *)
(***************************************************************************)
\* What finalizeCache() leaves, whether data came or not.
LEMMA FinalizedKeeps ==
  ASSUME IInv, NEW r \in Request, Busy(r),
         NEW stamp \in Nat, NEW tag \in Version \cup {NoTag}, NEW life \in 0 .. Eternal,
         Finalized(req[r], stamp, tag, life),
         req[r].version \in Version \cup {NoTag}, req[r].modified => req[r].version \in Version,
         req' = [req EXCEPT ![r] = Idle], UNCHANGED <<index, failed, remote>>,
         now' \in Nat, now <= now', stamp <= now', file' \in [Path -> Files],
         \A p \in Path : p # req[r].path => file'[p] = file[p],
         file'[req[r].path].stamp = stamp,
         \/ /\ file' = file /\ ~req[r].modified /\ tag \in {req[r].tag, NoTag} /\ req[r].tag # NoTag
         \/ /\ now < stamp /\ req[r].modified /\ tag = req[r].version
            /\ file'[req[r].path].body = Body(req[r].version)
  PROVE  IInv'
<1> DEFINE q == req[r]
           i == q.ref
           p == q.path
           f == file'[p]
           e == heap[i]
           g == [etag |-> tag, sum |-> NewSum(e, q), stamp |-> stamp, stale |-> FALSE,
                 life |-> IF e.life = Eternal THEN Eternal ELSE life]
<1>1. /\ i \in Ref /\ i # "null" /\ p \in Path /\ q \in Requests /\ e \in Entry
      /\ heap \in [Ref -> Entry] /\ req \in [Request -> Requests]
      /\ listed \in [Path -> Ref \cup {"null"}]
  BY VersionAssumption DEF IInv, Held, Types, TypeOK
<1>2. NewSum(e, q) \in Bodies \cup {NoSum}
  BY <1>1, Shapes DEF NewSum, Entry
<1>3. /\ g \in Entry /\ g.etag = tag /\ g.sum = NewSum(e, q) /\ g.stamp = stamp
  <2>1. e.life \in 0 .. Eternal
    BY <1>1 DEF Entry
  <2> QED BY <1>2, <2>1 DEF Entry
<1>4. /\ heap' = [heap EXCEPT ![i] = g] /\ listed' = [listed EXCEPT ![p] = i] /\ timer' = TRUE
      /\ tainted' = IF NewSum(e, q) = e.sum /\ stamp # q.seen THEN tainted \cup {p} ELSE tainted
  BY DEF Finalized, SaveEventually
<1> HIDE DEF g
<1>5. /\ heap' \in [Ref -> Entry] /\ heap'[i] = g /\ \A j \in Ref : j # i => heap'[j] = heap[j]
      /\ listed' \in [Path -> Ref \cup {"null"}] /\ listed'[p] = i
      /\ \A o \in Path : o # p => listed'[o] = listed[o]
      /\ req' \in [Request -> Requests] /\ req'[r] = Idle
      /\ \A s \in Request : s # r => req'[s] = req[s]
      /\ tainted \subseteq tainted' /\ tainted' \subseteq Path
  BY <1>1, <1>3, <1>4, Shapes DEF IInv, Types, TypeOK
<1>6. Idle.phase = "idle" /\ Idle.ref = "null" /\ Idle.seen = 0
  BY DEF Idle
<1>7. \A s \in Request : Busy(s)' => s # r /\ Busy(s) /\ req'[s] = req[s]
  BY <1>5, <1>6 DEF Busy
\* The objects of the other paths are others.
<1>8. /\ \A o \in Path : o # p => listed[o] # i
      /\ \A s \in Request : Busy(s) /\ req[s].ref = i => req[s].path = p
  BY <1>1 DEF IInv, Owned
<1>9. Types'
  BY <1>4, <1>5 DEF IInv, Types, TypeOK
<1>10. Held'
  BY <1>5, <1>6, <1>7 DEF IInv, Held, Busy
<1>11. Owned'
  <2>1. \A o, u \in Path : listed'[o] # "null" /\ listed'[o] = listed'[u] => o = u
    BY <1>1, <1>5, <1>8 DEF IInv, Owned
  <2>2. \A s \in Request, o \in Path : Busy(s)' /\ listed'[o] = req'[s].ref => o = req'[s].path
    BY <1>5, <1>7, <1>8 DEF IInv, Owned
  <2>3. \A s, t \in Request : Busy(s)' /\ req'[s].ref = req'[t].ref => req'[s].path = req'[t].path
    <3> SUFFICES ASSUME NEW s \in Request, NEW t \in Request, Busy(s)', req'[s].ref = req'[t].ref
                 PROVE  req'[s].path = req'[t].path
      OBVIOUS
    <3>1. Busy(s) /\ req'[s] = req[s] /\ req[s].ref # "null"
      BY <1>7, VersionAssumption DEF IInv, Held
    <3>2. t # r
      BY <1>5, <1>6, <3>1
    <3> QED BY <1>5, <3>1, <3>2 DEF IInv, Owned
  <2> QED BY <2>1, <2>2, <2>3 DEF Owned
<1>12. Clock'
  <2>1. now \in Nat
    BY DEF IInv, Types, TypeOK
  <2>2. \A j \in Ref : heap'[j].stamp <= now'
    <3> SUFFICES ASSUME NEW j \in Ref PROVE heap'[j].stamp <= now'
      OBVIOUS
    <3>1. heap[j].stamp \in Nat /\ heap[j].stamp <= now
      BY <1>1 DEF IInv, Clock, Entry
    <3> QED BY <1>3, <1>5, <2>1, <3>1
  <2>3. \A o \in Path : index'[o].stamp <= now' /\ file'[o].stamp <= now'
    <3> SUFFICES ASSUME NEW o \in Path PROVE index'[o].stamp <= now' /\ file'[o].stamp <= now'
      OBVIOUS
    <3>1. index[o].stamp \in Nat /\ file[o].stamp \in Nat /\ index[o].stamp <= now /\ file[o].stamp <= now
      BY DEF IInv, Clock, Types, TypeOK, Entry, Files
    <3> QED BY <2>1, <3>1
  <2>4. \A s \in Request : req'[s].seen <= now'
    <3> SUFFICES ASSUME NEW s \in Request PROVE req'[s].seen <= now'
      OBVIOUS
    <3>1. req[s].seen \in Nat /\ req[s].seen <= now
      BY <1>1 DEF IInv, Clock, Requests
    <3> QED BY <1>5, <1>6, <2>1, <3>1
  <2> QED BY <2>2, <2>3, <2>4 DEF Clock
<1>13. Private'
  <2> SUFFICES ASSUME NEW s \in Request, Busy(s)', req'[s].seen = 0
               PROVE  /\ heap'[req'[s].ref].etag = NoTag /\ req'[s].tag = NoTag
                      /\ \A o \in Path : listed'[o] # req'[s].ref
                      /\ \A t \in Request : t # s => req'[t].ref # req'[s].ref
    BY DEF Private
  <2>1. s # r /\ Busy(s) /\ req'[s] = req[s] /\ req[s].ref \in Ref /\ req[s].ref # "null"
    BY <1>7, VersionAssumption DEF IInv, Held
  <2>2. /\ heap[req[s].ref].etag = NoTag /\ req[s].tag = NoTag
        /\ \A o \in Path : listed[o] # req[s].ref
        /\ \A t \in Request : t # s => req[t].ref # req[s].ref
    BY <2>1 DEF IInv, Private
  <2>3. req[s].ref # i
    BY <2>1, <2>2
  <2> QED BY <1>5, <1>6, <2>1, <2>2, <2>3
<1>14. Answered'
  BY <1>5, <1>6 DEF IInv, Answered
\* The other objects of this path.
<1>15. ASSUME NEW d \in Entry, d.stamp <= now, Describes(d, file[p]) PROVE Describes(d, f)
  <2>1. CASE file' = file
    BY <1>15, <2>1
  <2>2. CASE now < stamp
    <3>1. d.stamp \in Nat /\ now \in Nat
      BY DEF Entry, IInv, Types, TypeOK
    <3>2. f.stamp = stamp
      OBVIOUS
    <3> HIDE DEF f
    <3> QED BY <1>15, <2>2, <3>1, <3>2 DEF Describes
  <2> QED BY <2>1, <2>2
<1>16. IndexTrue'
  <2> SUFFICES ASSUME NEW o \in Path \ tainted PROVE Describes(index[o], file'[o])
    BY <1>5 DEF IndexTrue
  <2>1. Describes(index[o], file[o]) /\ index[o] \in Entry /\ index[o].stamp <= now
    BY DEF IInv, IndexTrue, Types, TypeOK, Clock
  <2> QED BY <1>15, <2>1
\* The object that was finalized.
<1>17. ASSUME p \notin tainted'
       PROVE  /\ Describes(g, f)
              /\ file' = file => NewSum(e, q) = e.sum /\ stamp = q.seen
  <2>1. CASE file' = file /\ ~q.modified /\ tag \in {q.tag, NoTag} /\ q.tag # NoTag
    <3>1. NewSum(e, q) = e.sum
      BY <2>1 DEF NewSum
    <3>2. stamp = q.seen /\ p \notin tainted
      BY <1>4, <1>17, <3>1
    <3>3. Opened(q, e, file[p])
      BY <3>2 DEF IInv, RequestsTrue
    <3>4. e.sum = Body(q.tag) /\ file[p].body = Body(q.tag)
      BY <2>1, <3>2, <3>3 DEF Opened
    <3>5. Describes(g, f)
      BY <1>3, <2>1, <3>1, <3>4 DEF Describes
    <3> QED BY <3>1, <3>2, <3>5
  <2>2. CASE now < stamp /\ q.modified /\ tag = q.version /\ f.body = Body(q.version)
    <3>1. q.seen \in Nat /\ q.seen <= now /\ now \in Nat
      BY <1>1 DEF IInv, Clock, Requests, Types, TypeOK
    <3>2. stamp # q.seen /\ file' # file
      <4>1. file[p].stamp <= now /\ file[p].stamp \in Nat
        BY <1>1 DEF IInv, Clock, Types, TypeOK, Files
      <4> QED BY <2>2, <3>1, <4>1
    <3>3. NewSum(e, q) = Body(q.version)
      BY <1>4, <1>17, <3>2 DEF NewSum
    <3>4. Describes(g, f)
      <4> HIDE DEF f
      <4> QED BY <1>3, <2>2, <3>3 DEF Describes
    <3> QED BY <3>2, <3>4
  <2> QED BY <2>1, <2>2
<1> HIDE DEF f
<1>18. ListTrue'
  <2> SUFFICES ASSUME NEW o \in Path \ tainted', listed'[o] # "null"
               PROVE  Describes(heap'[listed'[o]], file'[o])
    BY DEF ListTrue, EntryOf
  <2>1. CASE o = p
    BY <1>5, <1>17, <2>1 DEF f
  <2>2. CASE o # p
    <3>1. listed'[o] = listed[o] /\ listed[o] \in Ref /\ listed[o] # i /\ o \notin tainted
      BY <1>1, <1>5, <1>8, <2>2
    <3>2. Describes(heap[listed[o]], file[o])
      BY <3>1 DEF IInv, ListTrue, EntryOf
    <3> QED BY <1>5, <2>2, <3>1, <3>2
  <2> QED BY <2>1, <2>2
<1>19. RequestsTrue'
  <2> SUFFICES ASSUME NEW s \in Request, Busy(s)', req'[s].path \notin tainted'
               PROVE  /\ Describes(heap'[req'[s].ref], file'[req'[s].path])
                      /\ Opened(req'[s], heap'[req'[s].ref], file'[req'[s].path])
    BY DEF RequestsTrue
  <2> DEFINE t == req[s]
  <2>1. /\ s # r /\ Busy(s) /\ req'[s] = t /\ t.path \notin tainted /\ t.path \notin tainted'
        /\ t.ref \in Ref /\ t.path \in Path /\ t.seen \in Nat /\ t.seen <= now /\ now \in Nat
    BY <1>1, <1>5, <1>7 DEF IInv, Held, Clock, Requests, Types, TypeOK
  <2>2. Describes(heap[t.ref], file[t.path]) /\ Opened(t, heap[t.ref], file[t.path])
    BY <2>1 DEF IInv, RequestsTrue
  <2> HIDE DEF t
  <2>3. CASE t.path # p
    <3>1. t.ref # i
      BY <1>8, <2>1, <2>3 DEF t
    <3> QED BY <1>5, <2>1, <2>2, <2>3, <3>1
  <2>4. CASE t.path = p /\ now < stamp
    <3>1. Describes(heap'[t.ref], f)
      <4>1. CASE t.ref = i
        BY <1>5, <1>17, <2>1, <2>4, <4>1
      <4>2. CASE t.ref # i
        <5>1. heap[t.ref] \in Entry /\ heap[t.ref].stamp <= now
          BY <1>1, <2>1 DEF IInv, Clock
        <5> QED BY <1>5, <1>15, <2>1, <2>2, <2>4, <4>2, <5>1
      <4> QED BY <4>1, <4>2
    <3>2. f.stamp # t.seen
      BY <2>1, <2>4 DEF f
    <3> QED BY <2>1, <2>4, <3>1, <3>2 DEF Opened, f
  <2>5. CASE t.path = p /\ file' = file
    <3>1. CASE t.ref # i
      BY <1>5, <2>1, <2>2, <2>5, <3>1
    <3>2. CASE t.ref = i
      <4>1. Describes(g, f) /\ NewSum(e, q) = e.sum /\ f.stamp = stamp
        BY <1>17, <2>1, <2>5 DEF f
      <4>2. Opened(t, g, f)
        BY <1>3, <2>2, <2>5, <3>2, <4>1 DEF Opened, f
      <4> QED BY <1>5, <2>1, <2>5, <3>2, <4>1, <4>2 DEF f
    <3> QED BY <3>1, <3>2
  <2> QED BY <2>3, <2>4, <2>5
<1>20. KnownIsSaved'
  BY <1>4 DEF KnownIsSaved
<1> QED BY <1>9, <1>10, <1>11, <1>12, <1>13, <1>14, <1>16, <1>18, <1>19, <1>20 DEF IInv

LEMMA FinishModifiedKeeps ==
  ASSUME IInv, NEW r \in Request, FinishModified(r)
  PROVE  IInv'
<1> DEFINE q == req[r]
           f == [body |-> Body(q.version), stamp |-> now + 1]
<1>1. PICK life \in Lives : Finalized(q, now + 1, q.version, life)
  BY DEF FinishModified
<1>2. /\ q.phase = "answered" /\ q.modified /\ now' = now + 1
      /\ file' = [file EXCEPT ![q.path] = f]
      /\ req' = [req EXCEPT ![r] = Idle] /\ UNCHANGED <<index, failed, remote>>
  BY DEF FinishModified, disk
<1>3. Busy(r) /\ q.path \in Path /\ q.version \in Version /\ now \in Nat
  BY <1>2 DEF Busy, IInv, Held, Answered, Types, TypeOK
<1>4. f \in Files /\ f.stamp = now + 1 /\ f.body = Body(q.version)
  BY <1>3, Shapes DEF Files
<1> HIDE DEF f
<1>5. /\ file' \in [Path -> Files] /\ file'[q.path] = f
      /\ \A p \in Path : p # q.path => file'[p] = file[p]
  BY <1>2, <1>3, <1>4 DEF IInv, Types, TypeOK
<1>6. life \in 0 .. Eternal
  BY VersionAssumption DEF Eternal
<1> HIDE DEF q
<1>7. now + 1 \in Nat /\ now <= now' /\ now < now + 1 /\ now' \in Nat
  BY <1>2, <1>3
<1>8. /\ req[r].version \in Version /\ req[r].modified
      /\ Finalized(req[r], now + 1, req[r].version, life) /\ now + 1 <= now'
      /\ \A p \in Path : p # req[r].path => file'[p] = file[p]
      /\ file'[req[r].path].stamp = now + 1 /\ file'[req[r].path].body = Body(req[r].version)
  BY <1>1, <1>2, <1>3, <1>4, <1>5, <1>7 DEF q
<1> QED
  BY <1>2, <1>3, <1>5, <1>6, <1>7, <1>8, FinalizedKeeps

LEMMA FinishNotModifiedKeeps ==
  ASSUME IInv, NEW r \in Request, FinishNotModified(r)
  PROVE  IInv'
<1> DEFINE q == req[r]
           stamp == file[q.path].stamp
<1>1. PICK life \in Lives, tag \in {q.version, NoTag} : Finalized(q, stamp, tag, life)
  BY DEF FinishNotModified
<1>2. /\ q.phase = "answered" /\ ~q.modified
      /\ req' = [req EXCEPT ![r] = Idle] /\ UNCHANGED <<index, failed, remote, file, now>>
  BY DEF FinishNotModified, disk
<1>3. /\ Busy(r) /\ q.path \in Path /\ q.version \in Version /\ q.tag = q.version /\ q.tag # NoTag
      /\ now \in Nat /\ file \in [Path -> Files]
  BY <1>2, Shapes DEF Busy, IInv, Held, Answered, Types, TypeOK
<1>4. stamp \in Nat /\ stamp <= now
  BY <1>3 DEF IInv, Clock, Files
<1>5. life \in 0 .. Eternal
  BY VersionAssumption DEF Eternal
<1> HIDE DEF q, stamp
<1>6. now <= now' /\ stamp <= now' /\ now' \in Nat
  BY <1>2, <1>3, <1>4
<1> QED
  BY <1>1, <1>2, <1>3, <1>4, <1>5, <1>6, FinalizedKeeps DEF q, stamp
-----------------------------------------------------------------------------
(***************************************************************************)
(* Eviction, the index, and what happens outside.                          *)
(***************************************************************************)
LEMMA EvictEntryKeeps ==
  ASSUME IInv, NEW p \in Path, EvictEntry(p)
  PROVE  IInv'
<1> DEFINE h == Checked(p, NoTag)
<1>1. /\ h \in [Ref -> Entry] /\ \A j \in Ref : h[j].stamp <= now
      /\ \A j \in Ref : j # listed[p] => h[j] = heap[j]
      /\ listed[p] # "null" => Soft(h[listed[p]], EntryOf(p), file[p])
  BY CheckedSoftens
<1>2. /\ \/ heap' = h
         \/ listed[p] # "null" /\ heap' = [h EXCEPT ![listed[p]].stale = TRUE]
      /\ timer' = TRUE /\ UNCHANGED <<index, failed, file, remote, req, now, tainted>>
      /\ listed' = listed \/ listed' = [listed EXCEPT ![p] = "null"]
  BY DEF EvictEntry, Kept, Verified, Disowned, SaveEventually, disk
<1> HIDE DEF h
<1>3. listed \in [Path -> Ref \cup {"null"}]
  BY DEF IInv, Types, TypeOK
<1>4. /\ heap' \in [Ref -> Entry] /\ \A j \in Ref : heap'[j].stamp <= now
      /\ \A j \in Ref : j # listed[p] => heap'[j] = heap[j]
      /\ listed[p] # "null" => Soft(heap'[listed[p]], EntryOf(p), file[p])
  <2>1. CASE heap' = h
    BY <1>1, <2>1
  <2>2. CASE listed[p] # "null" /\ heap' = [h EXCEPT ![listed[p]].stale = TRUE]
    <3> DEFINE e == h[listed[p]]
               g == [e EXCEPT !.stale = TRUE]
    <3>1. listed[p] \in Ref /\ e \in Entry /\ e.stamp <= now
      BY <1>1, <1>3, <2>2
    <3>2. g \in Entry /\ g.etag = e.etag /\ g.sum = e.sum /\ g.stamp = e.stamp
      <4> HIDE DEF e
      <4> QED BY <3>1 DEF Entry
    <3>3. heap' = [h EXCEPT ![listed[p]] = g]
      BY <2>2
    <3> HIDE DEF e, g
    <3>4. heap'[listed[p]] = g /\ \A j \in Ref : j # listed[p] => heap'[j] = h[j]
      BY <1>1, <3>1, <3>3
    <3>5. Soft(e, EntryOf(p), file[p])
      BY <1>1, <2>2 DEF e
    <3>6. Soft(g, EntryOf(p), file[p])
      BY <3>2, <3>5 DEF Soft, Describes
    <3>7. heap' \in [Ref -> Entry]
      BY <1>1, <3>1, <3>2, <3>3
    <3>8. \A j \in Ref : heap'[j].stamp <= now
      BY <1>1, <3>1, <3>2, <3>4
    <3> QED BY <1>1, <3>4, <3>6, <3>7, <3>8
  <2> QED BY <1>2, <2>1, <2>2
<1>5. AllSoft(heap')
  BY <1>4, OneSoft
<1>6. /\ \A o \in Path : listed'[o] \in {listed[o], "null"}
      /\ listed' \in [Path -> Ref \cup {"null"}]
  BY <1>2, <1>3
<1>7. Types'
  BY <1>2, <1>4, <1>6 DEF IInv, Types, TypeOK
<1>8. Held' /\ Answered'
  BY <1>2 DEF IInv, Held, Answered, Busy
<1>9. Owned'
  <2>1. \A r \in Request : Busy(r) => req[r].ref # "null"
    BY VersionAssumption DEF IInv, Held
  <2> QED BY <1>2, <1>6, <2>1 DEF IInv, Owned, Busy
<1>10. Clock'
  BY <1>2, <1>4 DEF IInv, Clock
<1>11. Private'
  <2>1. \A r \in Request : Busy(r) => req[r].ref # "null"
    BY VersionAssumption DEF IInv, Held
  <2>2. \A r \in Request : Busy(r) /\ req[r].seen = 0 => heap'[req[r].ref].etag = NoTag
    BY <1>2, <1>5, <1>6, SoftKeeps
  <2> QED BY <1>2, <1>6, <2>1, <2>2 DEF IInv, Private, Busy
<1>12. IndexTrue' /\ ListTrue'
  BY <1>2, <1>5, <1>6, SoftKeeps DEF IInv, IndexTrue
<1>13. RequestsTrue'
  BY <1>2, <1>5, <1>6, SoftKeeps DEF RequestsTrue, Busy
<1>14. KnownIsSaved'
  BY <1>2 DEF KnownIsSaved
<1> QED BY <1>7, <1>8, <1>9, <1>10, <1>11, <1>12, <1>13, <1>14 DEF IInv

\* A new index: that which SaveNow() writes of the present list, or the old one.
LEMMA SavedTrue ==
  ASSUME IInv
  PROVE  /\ Saved(heap, listed) \in [Path -> Entry]
         /\ \A p \in Path : Saved(heap, listed)[p].stamp <= now
         /\ \A p \in Path \ tainted : Describes(Saved(heap, listed)[p], file[p])
         /\ \A p \in Path : listed[p] # "null" /\ ~EntryOf(p).stale =>
              Saved(heap, listed)[p] = EntryOf(p)
<1>1. /\ heap \in [Ref -> Entry] /\ listed \in [Path -> Ref \cup {"null"}] /\ now \in Nat
      /\ \A i \in Ref : heap[i].stamp <= now
  BY DEF IInv, Types, TypeOK, Clock
<1>2. Unknown.stamp = 0 /\ Unknown.etag = NoTag
  BY DEF Unknown, FreshlyMade
<1>3. ASSUME NEW p \in Path
      PROVE  \/ Saved(heap, listed)[p] = Unknown
             \/ listed[p] \in Ref /\ Saved(heap, listed)[p] = heap[listed[p]]
  BY <1>1 DEF Saved
<1>4. Saved(heap, listed) \in [Path -> Entry]
  <2> DEFINE ix == Saved(heap, listed)
  <2>1. ix = [p \in Path |-> ix[p]]
    BY DEF Saved
  <2>2. \A p \in Path : ix[p] \in Entry
    BY <1>1, <1>3, Shapes
  <2> HIDE DEF ix
  <2>3. ix \in [Path -> Entry]
    BY <2>1, <2>2
  <2> QED BY <2>3 DEF ix
<1>5. ASSUME NEW p \in Path PROVE Saved(heap, listed)[p].stamp <= now
  <2>1. CASE Saved(heap, listed)[p] = Unknown
    <3>1. 0 <= now
      BY <1>1
    <3> QED BY <1>2, <2>1, <3>1
  <2>2. CASE listed[p] \in Ref /\ Saved(heap, listed)[p] = heap[listed[p]]
    BY <1>1, <2>2
  <2> QED BY <1>3, <2>1, <2>2
<1>6. ASSUME NEW p \in Path \ tainted PROVE Describes(Saved(heap, listed)[p], file[p])
  <2>1. CASE Saved(heap, listed)[p] = Unknown
    BY <1>2, <2>1 DEF Describes
  <2>2. CASE listed[p] \in Ref /\ Saved(heap, listed)[p] = heap[listed[p]]
    BY <2>2, VersionAssumption DEF IInv, ListTrue, EntryOf
  <2> QED BY <1>3, <2>1, <2>2
<1> QED BY <1>4, <1>5, <1>6 DEF Saved, EntryOf

LEMMA WriteTrue ==
  ASSUME IInv, Write(Saved(heap, listed))
  PROVE  /\ failed' \in BOOLEAN /\ index' \in [Path -> Entry]
         /\ \A p \in Path : index'[p].stamp <= now
         /\ \A p \in Path \ tainted : Describes(index'[p], file[p])
         /\ failed' \/ index' = Saved(heap, listed)
  BY SavedTrue DEF Write, IInv, Types, TypeOK, Clock, IndexTrue

LEMMA SaveTimeoutKeeps ==
  ASSUME IInv, SaveTimeout
  PROVE  IInv'
<1>1. timer' = FALSE /\ UNCHANGED <<heap, listed, file, remote, req, now, tainted>>
  BY DEF SaveTimeout
<1>2. /\ failed' \in BOOLEAN /\ index' \in [Path -> Entry]
      /\ \A p \in Path : index'[p].stamp <= now
      /\ \A p \in Path \ tainted : Describes(index'[p], file[p])
      /\ failed' \/ index' = Saved(heap, listed)
  BY WriteTrue DEF SaveTimeout
<1>3. Types' /\ Clock' /\ IndexTrue'
  BY <1>1, <1>2 DEF IInv, Types, TypeOK, Clock, IndexTrue
<1>4. Held' /\ Owned' /\ Private' /\ Answered' /\ ListTrue'
  BY <1>1 DEF IInv, Held, Owned, Private, Answered, ListTrue, Busy, EntryOf
<1>5. RequestsTrue'
  BY <1>1 DEF IInv, RequestsTrue, Busy
<1>6. KnownIsSaved'
  BY <1>1, <1>2, SavedTrue DEF KnownIsSaved, EntryOf
<1> QED BY <1>3, <1>4, <1>5, <1>6 DEF IInv

\* Files that are as they were, gone, or newer than all that is known.
LEMMA FilesKeep ==
  ASSUME IInv,
         \A p \in Path : \/ file'[p] = file[p] \/ file'[p].stamp = 0
                         \/ file'[p].stamp \in Nat /\ now < file'[p].stamp
  PROVE  /\ \A p \in Path : \A e \in Entry :
              e.stamp <= now /\ Describes(e, file[p]) => Describes(e, file'[p])
         /\ \A r \in Request : Busy(r) /\ req[r].path \notin tainted =>
              /\ Describes(heap[req[r].ref], file'[req[r].path])
              /\ Opened(req[r], heap[req[r].ref], file'[req[r].path])
<1>1. now \in Nat
  BY DEF IInv, Types, TypeOK
<1>2. ASSUME NEW p \in Path, NEW e \in Entry, e.stamp <= now, Describes(e, file[p])
      PROVE  Describes(e, file'[p])
  <2>1. e.stamp \in Nat
    BY DEF Entry
  <2> QED BY <1>1, <1>2, <2>1 DEF Describes
<1>3. ASSUME NEW r \in Request, Busy(r), req[r].path \notin tainted
      PROVE  /\ Describes(heap[req[r].ref], file'[req[r].path])
             /\ Opened(req[r], heap[req[r].ref], file'[req[r].path])
  <2> DEFINE q == req[r]
             p == q.path
             e == heap[q.ref]
  <2>1. /\ p \in Path /\ e \in Entry /\ e.stamp <= now /\ q.seen \in Nat /\ q.seen <= now
        /\ Describes(e, file[p]) /\ Opened(q, e, file[p])
    BY <1>3 DEF IInv, Held, Types, TypeOK, Requests, Clock, RequestsTrue
  <2>2. q.seen = 0 => e.etag = NoTag /\ q.tag = NoTag
    BY <1>3 DEF IInv, Private
  <2> HIDE DEF q, p, e
  <2>3. Describes(e, file'[p])
    BY <1>2, <2>1
  <2>4. Opened(q, e, file'[p])
    BY <1>1, <2>1, <2>2 DEF Opened
  <2> QED BY <2>3, <2>4 DEF q, p, e
<1> QED BY <1>2, <1>3

LEMMA FileChangesKeeps ==
  ASSUME IInv, NEW p \in Path, FileChanges(p)
  PROVE  IInv'
<1>1. PICK f \in {NoFile} \cup [body : {Edited, file[p].body} \ {NoSum}, stamp : {now'}] :
        file' = [file EXCEPT ![p] = f]
  BY DEF FileChanges
<1>2. /\ now' = now + 1 /\ now \in Nat /\ now' \in Nat
      /\ UNCHANGED <<heap, listed, timer, index, failed, remote, req, tainted>>
  BY DEF FileChanges, cache, disk, IInv, Types, TypeOK
<1>3. f \in Files /\ (f.stamp = 0 \/ f.stamp = now + 1) /\ f.stamp \in Nat
  <2>1. file[p].body \in Bodies \cup {NoSum} /\ Edited \in Bodies
    BY DEF IInv, Types, TypeOK, Files, Bodies
  <2>2. CASE f = NoFile
    BY <2>2, Shapes DEF NoFile
  <2>3. CASE f \in [body : {Edited, file[p].body} \ {NoSum}, stamp : {now'}]
    BY <1>2, <2>1, <2>3 DEF Files
  <2> QED BY <1>1, <2>2, <2>3
<1>4. /\ file' \in [Path -> Files] /\ file'[p] = f
      /\ \A o \in Path : o # p => file'[o] = file[o]
  BY <1>1, <1>3 DEF IInv, Types, TypeOK
<1>5. /\ \A o \in Path : \A e \in Entry :
           e.stamp <= now /\ Describes(e, file[o]) => Describes(e, file'[o])
      /\ \A r \in Request : Busy(r) /\ req[r].path \notin tainted =>
           /\ Describes(heap[req[r].ref], file'[req[r].path])
           /\ Opened(req[r], heap[req[r].ref], file'[req[r].path])
  <2>1. \A o \in Path : \/ file'[o] = file[o] \/ file'[o].stamp = 0
                        \/ file'[o].stamp \in Nat /\ now < file'[o].stamp
    BY <1>2, <1>3, <1>4
  <2> QED BY <2>1, FilesKeep
<1>6. Types'
  BY <1>2, <1>4 DEF IInv, Types, TypeOK
<1>7. Held' /\ Owned' /\ Private' /\ Answered' /\ KnownIsSaved'
  BY <1>2 DEF IInv, Held, Owned, Private, Answered, KnownIsSaved, Busy, EntryOf
<1>8. Clock'
  <2>1. \A i \in Ref : heap[i].stamp \in Nat /\ heap[i].stamp <= now
    BY DEF IInv, Clock, Types, TypeOK, Entry
  <2>2. \A o \in Path : /\ index[o].stamp \in Nat /\ index[o].stamp <= now
                        /\ file[o].stamp \in Nat /\ file[o].stamp <= now
    BY DEF IInv, Clock, Types, TypeOK, Entry, Files
  <2>3. \A r \in Request : req[r].seen \in Nat /\ req[r].seen <= now
    BY DEF IInv, Clock, Types, TypeOK, Requests
  <2>4. \A o \in Path : file'[o].stamp <= now + 1
    BY <1>2, <1>3, <1>4, <2>2
  <2> QED BY <1>2, <2>1, <2>2, <2>3, <2>4 DEF Clock
<1>9. IndexTrue'
  BY <1>2, <1>5 DEF IInv, IndexTrue, Types, TypeOK, Clock
<1>10. ListTrue'
  <2> SUFFICES ASSUME NEW o \in Path \ tainted, listed[o] # "null"
               PROVE  Describes(heap[listed[o]], file'[o])
    BY <1>2 DEF ListTrue, EntryOf
  <2>1. /\ heap[listed[o]] \in Entry /\ heap[listed[o]].stamp <= now
        /\ Describes(heap[listed[o]], file[o])
    BY DEF IInv, Types, TypeOK, Clock, ListTrue, EntryOf
  <2> QED BY <1>5, <2>1
<1>11. RequestsTrue'
  BY <1>2, <1>5 DEF RequestsTrue, Busy
<1> QED BY <1>6, <1>7, <1>8, <1>9, <1>10, <1>11 DEF IInv

LEMMA EvictAllKeeps ==
  ASSUME IInv, EvictAll
  PROVE  IInv'
<1>1. heap \in [Ref -> Entry] /\ listed \in [Path -> Ref \cup {"null"}] /\ file \in [Path -> Files]
      /\ timer \in BOOLEAN /\ index \in [Path -> Entry] /\ now \in Nat
  BY DEF IInv, Types, TypeOK
<1>2. /\ heap' = [i \in Ref |-> IF \E p \in Path : listed[p] = i
                                  THEN [heap[i] EXCEPT !.stale = TRUE] ELSE heap[i]]
      /\ listed' = [p \in Path |-> "null"]
      /\ timer' = (timer \/ \E p \in Path : listed[p] # "null")
      /\ UNCHANGED <<remote, req, now, tainted>>
  BY DEF EvictAll
<1>3. ASSUME NEW i \in Ref
      PROVE  /\ heap'[i] \in Entry /\ heap'[i].etag = heap[i].etag
             /\ heap'[i].sum = heap[i].sum /\ heap'[i].stamp = heap[i].stamp
  <2> DEFINE e == heap[i]
  <2>1. heap'[i] = e \/ heap'[i] = [e EXCEPT !.stale = TRUE]
    BY <1>2
  <2>2. e \in Entry
    BY <1>1
  <2> HIDE DEF e
  <2>3. heap'[i] \in Entry /\ heap'[i].etag = e.etag /\ heap'[i].sum = e.sum /\ heap'[i].stamp = e.stamp
    BY <2>1, <2>2 DEF Entry
  <2> QED BY <2>3 DEF e
<1>4. heap' \in [Ref -> Entry]
  <2>1. heap' = [i \in Ref |-> heap'[i]]
    BY <1>2
  <2> QED BY <1>3, <2>1
<1>5. /\ file' \in [Path -> Files]
      /\ \A p \in Path : file'[p] = file[p] \/ file'[p].stamp = 0
  <2>1. PICK gone \in SUBSET Path : file' = [p \in Path |-> IF p \in gone THEN NoFile ELSE file[p]]
    BY DEF EvictAll
  <2>2. NoFile.stamp = 0
    BY DEF NoFile
  <2> QED BY <1>1, <2>1, <2>2, Shapes
<1>6. /\ failed' \in BOOLEAN /\ index' \in [Path -> Entry]
      /\ \A p \in Path : index'[p] = index[p] \/ index'[p] = Unknown
  <2>1. Saved(heap', listed') = [p \in Path |-> Unknown]
    BY <1>2 DEF Saved
  <2>2. Write([p \in Path |-> Unknown])
    BY <2>1 DEF EvictAll
  <2> QED BY <1>1, <2>2, Shapes DEF Write
<1>7. Unknown.stamp = 0 /\ Unknown.etag = NoTag
  BY DEF Unknown, FreshlyMade
<1>8. /\ \A p \in Path : \A e \in Entry :
           e.stamp <= now /\ Describes(e, file[p]) => Describes(e, file'[p])
      /\ \A r \in Request : Busy(r) /\ req[r].path \notin tainted =>
           /\ Describes(heap[req[r].ref], file'[req[r].path])
           /\ Opened(req[r], heap[req[r].ref], file'[req[r].path])
  BY <1>5, FilesKeep
<1>9. \A r \in Request : Busy(r) => req[r].ref \in Ref
  BY DEF IInv, Held
<1>10. Types'
  BY <1>1, <1>2, <1>4, <1>5, <1>6 DEF IInv, Types, TypeOK
<1>11. Held' /\ Answered'
  BY <1>2 DEF IInv, Held, Answered, Busy
<1>12. Owned'
  <2>1. \A r \in Request : Busy(r) => req[r].ref # "null"
    BY <1>9, VersionAssumption
  <2> QED BY <1>2, <2>1 DEF IInv, Owned, Busy
<1>13. Clock'
  <2>1. \A p \in Path : file'[p].stamp <= now
    BY <1>1, <1>5 DEF IInv, Clock
  <2>2. \A p \in Path : index'[p].stamp <= now
    BY <1>1, <1>6, <1>7 DEF IInv, Clock
  <2> QED BY <1>2, <1>3, <2>1, <2>2 DEF IInv, Clock
<1>14. Private'
  <2>1. \A r \in Request : Busy(r) => req[r].ref # "null"
    BY <1>9, VersionAssumption
  <2> QED BY <1>2, <1>3, <1>9, <2>1 DEF IInv, Private, Busy
<1>15. IndexTrue'
  <2> SUFFICES ASSUME NEW p \in Path \ tainted PROVE Describes(index'[p], file'[p])
    BY <1>2 DEF IndexTrue
  <2>1. Describes(index[p], file[p]) /\ index[p] \in Entry /\ index[p].stamp <= now
    BY <1>1 DEF IInv, IndexTrue, Clock
  <2>2. Describes(Unknown, file'[p])
    BY <1>7 DEF Describes
  <2> QED BY <1>6, <1>8, <2>1, <2>2
<1>16. ListTrue' /\ KnownIsSaved'
  BY <1>2 DEF ListTrue, KnownIsSaved
<1>17. RequestsTrue'
  <2> SUFFICES ASSUME NEW r \in Request, Busy(r), req[r].path \notin tainted
               PROVE  /\ Describes(heap'[req[r].ref], file'[req[r].path])
                      /\ Opened(req[r], heap'[req[r].ref], file'[req[r].path])
    BY <1>2 DEF RequestsTrue, Busy
  <2> QED BY <1>3, <1>8, <1>9 DEF Describes, Opened
<1> QED BY <1>10, <1>11, <1>12, <1>13, <1>14, <1>15, <1>16, <1>17 DEF IInv

\* The launcher starts with what the index says.
LEMMA LoadKeeps ==
  ASSUME IInv, Load(index'), failed' \in BOOLEAN, index' \in [Path -> Entry],
         \A p \in Path : index'[p].stamp <= now,
         \A p \in Path \ tainted : Describes(index'[p], file[p]),
         UNCHANGED <<file, remote, now, tainted>>
  PROVE  IInv'
<1>1. PICK place \in [Path -> Ref] :
        /\ \A p, o \in Path : p # o => place[p] # place[o]
        /\ heap' = [i \in Ref |-> IF \E p \in Path : place[p] = i
                                    THEN index'[CHOOSE p \in Path : place[p] = i]
                                    ELSE FreshlyMade]
        /\ listed' = [p \in Path |-> IF index'[p] = Unknown THEN "null" ELSE place[p]]
  BY DEF Load
<1>2. timer' = FALSE /\ req' = [r \in Request |-> Idle]
  BY DEF Load
<1>3. ASSUME NEW p \in Path PROVE heap'[place[p]] = index'[p]
  <2> DEFINE o == CHOOSE q \in Path : place[q] = place[p]
  <2>1. o \in Path /\ place[o] = place[p]
    OBVIOUS
  <2>2. o = p
    BY <1>1, <2>1
  <2>3. heap'[place[p]] = index'[o]
    BY <1>1
  <2> QED BY <2>2, <2>3
<1>4. ASSUME NEW i \in Ref
      PROVE  heap'[i] = FreshlyMade \/ \E p \in Path : heap'[i] = index'[p]
  <2>1. CASE \E p \in Path : place[p] = i
    BY <1>3, <2>1
  <2>2. CASE ~\E p \in Path : place[p] = i
    BY <1>1, <2>2
  <2> QED BY <2>1, <2>2
<1>5. heap' \in [Ref -> Entry]
  <2>1. heap' = [i \in Ref |-> heap'[i]]
    BY <1>1
  <2>2. \A i \in Ref : heap'[i] \in Entry
    BY <1>4, Shapes
  <2> QED BY <2>1, <2>2
<1>6. /\ listed' \in [Path -> Ref \cup {"null"}]
      /\ \A p \in Path : listed'[p] # "null" => listed'[p] = place[p] /\ EntryOf(p)' = index'[p]
  BY <1>1, <1>3 DEF EntryOf
<1>7. \A r \in Request : req'[r] = Idle /\ req'[r].ref = "null" /\ req'[r].seen = 0 /\ ~Busy(r)'
                         /\ req'[r].phase # "answered"
  BY <1>2 DEF Idle, Busy
<1>8. Types'
  <2>1. req' \in [Request -> Requests]
    BY <1>2, Shapes
  <2> QED BY <1>2, <1>5, <1>6, <2>1 DEF IInv, Types, TypeOK
<1>9. Held' /\ Private' /\ Answered' /\ RequestsTrue'
  BY <1>7 DEF Held, Private, Answered, RequestsTrue
<1>10. Owned'
  BY <1>1, <1>6, <1>7 DEF Owned
<1>11. Clock'
  <2>1. FreshlyMade.stamp = 0 /\ now \in Nat
    BY DEF FreshlyMade, IInv, Types, TypeOK
  <2>2. \A i \in Ref : heap'[i].stamp <= now
    BY <1>4, <2>1
  <2> QED BY <1>7, <2>1, <2>2 DEF IInv, Clock
<1>12. IndexTrue'
  BY DEF IndexTrue
<1>13. ListTrue' /\ KnownIsSaved'
  BY <1>6 DEF ListTrue, KnownIsSaved
<1> QED BY <1>8, <1>9, <1>10, <1>11, <1>12, <1>13 DEF IInv

LEMMA RestartKeeps ==
  ASSUME IInv, Quit \/ Crash
  PROVE  IInv'
<1>1. CASE Quit
  BY <1>1, WriteTrue, LoadKeeps DEF Quit
<1>2. CASE Crash
  <2>1. UNCHANGED <<index, failed, file, remote, now, tainted>>
    BY <1>2 DEF Crash, disk
  <2>2. Load(index')
    BY <1>2, <2>1 DEF Crash, Load
  <2>3. /\ failed' \in BOOLEAN /\ index' \in [Path -> Entry]
        /\ \A p \in Path : index'[p].stamp <= now
        /\ \A p \in Path \ tainted : Describes(index'[p], file[p])
    BY <2>1 DEF IInv, Types, TypeOK, Clock, IndexTrue
  <2> QED BY <2>1, <2>2, <2>3, LoadKeeps
<1> QED BY <1>1, <1>2

LEMMA ServerChangesKeeps ==
  ASSUME IInv, NEW p \in Path, NEW v \in Version, ServerChanges(p, v)
  PROVE  IInv'
<1>1. /\ remote' = [remote EXCEPT ![p] = v]
      /\ UNCHANGED <<heap, listed, timer, index, failed, file, req, now, tainted>>
  BY DEF ServerChanges, cache, disk
<1>2. Types'
  BY <1>1 DEF IInv, Types, TypeOK
<1> QED
  BY <1>1, <1>2 DEF IInv, Held, Owned, Clock, Private, Answered, IndexTrue, ListTrue,
                    RequestsTrue, KnownIsSaved, Busy, EntryOf

LEMMA TimePassesKeeps ==
  ASSUME IInv, TimePasses
  PROVE  IInv'
<1>1. /\ now' = now + 1 /\ now \in Nat
      /\ UNCHANGED <<heap, listed, timer, index, failed, file, remote, req, tainted>>
  BY DEF TimePasses, cache, disk, IInv, Types, TypeOK
<1>2. Types'
  BY <1>1 DEF IInv, Types, TypeOK
<1>3. Clock'
  <2>1. \A i \in Ref : heap[i].stamp \in Nat
    BY DEF IInv, Types, TypeOK, Entry
  <2>2. \A p \in Path : index[p].stamp \in Nat /\ file[p].stamp \in Nat
    BY DEF IInv, Types, TypeOK, Entry, Files
  <2>3. \A r \in Request : req[r].seen \in Nat
    BY DEF IInv, Types, TypeOK, Requests
  <2> QED BY <1>1, <2>1, <2>2, <2>3 DEF IInv, Clock
<1> QED
  BY <1>1, <1>2, <1>3 DEF IInv, Held, Owned, Private, Answered, IndexTrue, ListTrue,
                    RequestsTrue, KnownIsSaved, Busy, EntryOf
-----------------------------------------------------------------------------
(***************************************************************************)
(* The theorems.                                                           *)
(***************************************************************************)
LEMMA InitHolds == Init => IInv
<1> SUFFICES ASSUME Init PROVE IInv
  OBVIOUS
<1>1. /\ heap = [i \in Ref |-> FreshlyMade] /\ listed = [p \in Path |-> "null"]
      /\ timer = FALSE /\ index = [p \in Path |-> Unknown] /\ failed = FALSE
      /\ remote \in [Path -> Version] /\ req = [r \in Request |-> Idle]
      /\ now = 1 /\ tainted = {}
      /\ file \in [Path -> {NoFile, [body |-> Edited, stamp |-> 1]}]
  BY DEF Init
<1>2. /\ FreshlyMade.stamp = 0 /\ Unknown.stamp = 0 /\ Unknown.etag = NoTag /\ NoFile.stamp = 0
      /\ Idle.phase = "idle" /\ Idle.ref = "null" /\ Idle.seen = 0
  BY DEF FreshlyMade, Unknown, NoFile, Idle
<1>3. [body |-> Edited, stamp |-> 1] \in Files
  BY DEF Files, Bodies
<1>4. Types
  BY <1>1, <1>3, Shapes DEF Types, TypeOK
<1>5. Held /\ Owned /\ Private /\ Answered /\ RequestsTrue
  BY <1>1, <1>2 DEF Held, Owned, Private, Answered, RequestsTrue, Busy
<1>6. Clock
  <2>1. ASSUME NEW p \in Path PROVE file[p].stamp <= 1
    <3>1. file[p] = NoFile \/ file[p] = [body |-> Edited, stamp |-> 1]
      BY <1>1
    <3>2. file[p].stamp = 0 \/ file[p].stamp = 1
      BY <1>2, <3>1
    <3> QED BY <3>2
  <2> QED BY <1>1, <1>2, <2>1 DEF Clock
<1>7. IndexTrue /\ ListTrue /\ KnownIsSaved
  BY <1>1, <1>2 DEF IndexTrue, ListTrue, KnownIsSaved, Describes
<1> QED BY <1>4, <1>5, <1>6, <1>7 DEF IInv

LEMMA Inductive == IInv /\ [Next]_vars => IInv'
<1> SUFFICES ASSUME IInv, [Next]_vars PROVE IInv'
  OBVIOUS
<1>1. CASE UNCHANGED vars
  BY <1>1 DEF vars, cache, disk, IInv, Types, TypeOK, Held, Owned, Clock, Private, Answered,
              IndexTrue, ListTrue, RequestsTrue, KnownIsSaved, Busy, EntryOf
<1>2. ASSUME NEW r \in Request, NEW p \in Path, NEW x \in Version \cup {NoTag}, Resolve(r, p, x)
      PROVE  IInv'
  BY <1>2, ResolveNewKeeps, ResolveListedKeeps DEF Resolve
<1>3. ASSUME NEW r \in Request, InitCache(r) \/ Answer(r) \/ RequestFails(r)
      PROVE  IInv'
  BY <1>3, InitCacheKeeps, AnswerKeeps, FailsKeeps
<1>4. ASSUME NEW r \in Request, FinishModified(r) \/ FinishNotModified(r)
      PROVE  IInv'
  BY <1>4, FinishModifiedKeeps, FinishNotModifiedKeeps
<1>5. ASSUME NEW p \in Path, EvictEntry(p) \/ FileChanges(p) PROVE IInv'
  BY <1>5, EvictEntryKeeps, FileChangesKeeps
<1>6. ASSUME NEW p \in Path, NEW v \in Version, ServerChanges(p, v) PROVE IInv'
  BY <1>6, ServerChangesKeeps
<1>7. CASE SaveTimeout \/ EvictAll \/ Quit \/ Crash \/ TimePasses
  BY <1>7, SaveTimeoutKeeps, EvictAllKeeps, RestartKeeps, TimePassesKeeps
<1> QED BY <1>1, <1>2, <1>3, <1>4, <1>5, <1>6, <1>7 DEF Next

LEMMA Invariant == Spec => []IInv
  BY InitHolds, Inductive, PTL DEF Spec

\* Type correctness of the cache, its objects, files and requests
\* (net/HttpMetaCache.cpp).
THEOREM TypeCorrect == Spec => []TypeOK
<1>1. IInv => TypeOK
  BY DEF IInv, Types
<1> QED BY <1>1, Invariant, PTL

\* Every fresh entry is in the index unless a save is due or the last one
\* failed: no update of the list forgets to start the timer of
\* SaveEventually(), and no save leaves an entry out (HttpMetaCache.cpp).
THEOREM SavedWhenKnown == Spec => []KnownIsSaved
<1>1. IInv => KnownIsSaved
  BY DEF IInv
<1> QED BY <1>1, Invariant, PTL

\* What resolveEntry() serves as fresh is what the server sent, however
\* downloads overlap and files change, except where a reply without data has
\* renewed an entry over another file (HttpMetaCache.cpp, MetaCacheSink.cpp).
THEOREM ServedTrue == Spec => ServedIsTrue
<1>1. ASSUME IInv, NEW r \in Request, NEW p \in Path, NEW x \in Version \cup {NoTag},
             ResolveListed(r, p, x, "asIs")
      PROVE  Trusted(p, x)
  <2> DEFINE e == EntryOf(p)
             f == file[p]
  <2>1. /\ listed[p] # "null" /\ Present(p) /\ x \in {NoTag, e.etag}
        /\ f.stamp = e.stamp \/ e.sum = f.body
        /\ e.life = Eternal \/ ~(e.life <= now - f.stamp)
    BY <1>1 DEF ResolveListed, Kept, Verified, Unchanged, Expired
  <2>2. e \in Entry /\ f.stamp \in Nat /\ now \in Nat /\ Eternal \in Nat
    BY <1>1, <2>1, Shapes DEF IInv, Types, TypeOK, Files, EntryOf
  <2>3. e.life \in 0 .. Eternal
    BY <2>2 DEF Entry
  <2>4. p \notin tainted => Describes(e, f)
    BY <1>1, <2>1 DEF IInv, ListTrue
  <2>5. f.stamp # 0
    BY <2>1 DEF Present
  <2> HIDE DEF e, f
  <2>6. e.life = Eternal \/ now < f.stamp + e.life
    BY <2>1, <2>2, <2>3
  <2>7. p \in tainted \/ e.etag = NoTag \/ f.body = Body(e.etag)
    BY <2>1, <2>4, <2>5 DEF Describes
  <2> QED BY <2>1, <2>6, <2>7 DEF Trusted, e, f
<1>2. IInv /\ [Next]_vars =>
        [\A r \in Request, p \in Path, x \in Version \cup {NoTag} :
           ResolveListed(r, p, x, "asIs") /\ ~EntryOf(p).stale => Trusted(p, x)]_vars
  BY <1>1
<1> QED BY <1>2, Invariant, PTL DEF Spec, ServedIsTrue
=============================================================================
