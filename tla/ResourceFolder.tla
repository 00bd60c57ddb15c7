----------------------------- MODULE ResourceFolder -----------------------------
(***************************************************************************)
(* ResourceFolderModel: the list of the mods or packs in a folder, kept up *)
(* to date by scans on a pool thread (ResourceFolderLoadTask) and filled   *)
(* in by parse tasks on the resolver's thread.  Both report by queued      *)
(* signals, and meanwhile the files and the list go on changing.           *)
(*                                                                         *)
(* A resource is a file under an enabled or a disabled name.  The contents *)
(* of a file, its time stamp and the details parsed from it are one number.*)
(* The two signals of a parse task come from one thread and in a row, and  *)
(* are one delivery; those of the scan are two.                            *)
(* Left out: the confirmation dialogs between the choice of a row and its  *)
(* toggle, while the list may change (a row that is still valid then is    *)
(* toggled, whatever it has become), and the mods that depend on a mod,    *)
(* which are toggled with it and looked up by name without a check.        *)
(***************************************************************************)
EXTENDS Naturals, Sequences, SequencesExt, FiniteSetsExt

CONSTANTS
  File,
  Broken,     \* contents that are no pack
  MaxChanges  \* bound on what the user and other programs do

ASSUME ResourceFolderAssumption ==
  IsFiniteSet(File) /\ Broken \subseteq Nat /\ MaxChanges \in Nat

VARIABLES
  mods,       \* ModFolderModel, whose parse tasks do not fail, or a model of packs
  disk,       \* the contents of each name, 0 if there is no such file
  notify,     \* the watcher has seen a change and not delivered it
  watching,   \* m_isWatching
  launched,   \* the instance has, or has had, a LaunchTask
  update,     \* m_currentUpdateTask: none, running, scanned, applied, or stuck
  found,      \* its result
  scheduled,  \* m_scheduledUpdate
  rows,       \* m_resources
  index,      \* m_resourcesIndex
  parses,     \* m_activeParseTasks, in the order of the resolver's queue
  misfired,   \* history: a failed parse removed the successor of its resource
  changes     \* counted for the bound

scan == <<update, found, scheduled>>
table == <<rows, index, parses, misfired>>
vars == <<mods, disk, notify, watching, launched, scan, table, changes>>

Name == File \X BOOLEAN
Other(n) == <<n[1], ~n[2]>>
OnDisk == {n \in Name : disk[n] # 0}
Ids(s) == {s[i].id : i \in DOMAIN s}
Found == {n \in Name : found[n] # 0}
Nothing == [n \in Name |-> 0]

Init ==
  /\ mods \in BOOLEAN
  /\ \E S \in SUBSET File : disk = [n \in Name |-> IF n[1] \in S /\ n[2] THEN 1 ELSE 0]
  /\ notify = FALSE /\ watching = FALSE /\ launched = FALSE
  /\ update = "none" /\ found = Nothing /\ scheduled = FALSE
  /\ rows = <<>> /\ index = <<>> /\ parses = <<>>
  /\ misfired = FALSE /\ changes = 0
-----------------------------------------------------------------------------
Forgotten == UNCHANGED <<update, found, scheduled>>                     \* mutant
Remembered == scheduled' = TRUE /\ UNCHANGED <<update, found>>
\* update(): one at a time, and one more is remembered.
Update ==
  IF update = "none" THEN update' = "running" /\ UNCHANGED <<found, scheduled>>
                     ELSE Remembered

\* A change of the folder.  No file is given both its names: the scan would
\* rename the disabled one.
Change == changes < MaxChanges /\ changes' = changes + 1
Write(n) ==
  /\ disk[Other(n)] = 0
  /\ disk' = [disk EXCEPT ![n] = changes + 2]
Delete(n) ==
  /\ disk[n] # 0
  /\ disk' = [disk EXCEPT ![n] = 0]

\* Another program puts a file there, over the old one, or removes it.
ExternalChange(n) ==
  /\ Change /\ (Write(n) \/ Delete(n))
  /\ notify' = watching
  /\ UNCHANGED <<mods, watching, launched, scan, table>>

\* installResource(), which leaves the update to the watcher if there is one.
Install(f) ==
  /\ Change /\ Write(<<f, TRUE>>)
  /\ notify' = watching
  /\ IF watching THEN UNCHANGED scan ELSE Update
  /\ UNCHANGED <<mods, watching, launched, table>>

\* uninstallResource() and deleteResources().
Uninstall(i) ==
  /\ Change
  /\ disk' = [disk EXCEPT ![rows[i].id] = 0]
  /\ notify' = (notify \/ (watching /\ disk' # disk))
  /\ Update
  /\ UNCHANGED <<mods, watching, launched, table>>

KeepOldId(old, new, i) == [n \in DOMAIN index \cup {new} |-> IF n = new THEN i ELSE index[n]] \* mutant
Reindex(old, new, i) ==
  [n \in (DOMAIN index \ {old}) \cup {new} |-> IF n = new THEN i ELSE index[n]]
\* A mod whose parse task waits is not found by it under its new name.
Renamed(r, n, pending) == [r EXCEPT !.id = n, !.hidden = @ \/ pending]
\* setResourceEnabled() of one row: the file is renamed, and the row with it.
Toggle(i) ==
  LET old == rows[i].id
      new == Other(old)
      Pending(p) == p.ticket = rows[i].ticket
  IN
  /\ Change
  /\ disk[old] # 0 /\ disk[new] = 0
  /\ disk' = [disk EXCEPT ![old] = 0, ![new] = disk[old]]
  /\ notify' = watching
  /\ rows' = [rows EXCEPT ![i] = Renamed(rows[i], new, \E k \in DOMAIN parses : Pending(parses[k]))]
  /\ index' = Reindex(old, new, i)
  /\ parses' = [k \in DOMAIN parses |->
                  IF Pending(parses[k]) THEN [parses[k] EXCEPT !.id = new] ELSE parses[k]]
  /\ UNCHANGED <<mods, watching, launched, scan, misfired>>

StartWatching ==
  /\ ~watching /\ Change
  /\ watching' = TRUE
  /\ Update
  /\ UNCHANGED <<mods, disk, notify, launched, table>>
StopWatching ==
  /\ watching /\ Change
  /\ watching' = FALSE /\ notify' = FALSE
  /\ UNCHANGED <<mods, disk, launched, scan, table>>
DirectoryChanged ==
  /\ notify /\ notify' = FALSE
  /\ Update
  /\ UNCHANGED <<mods, disk, watching, launched, table, changes>>

\* From its first launch on the instance has a launch task.
LaunchInstance ==
  /\ ~launched /\ launched' = TRUE
  /\ UNCHANGED <<mods, disk, notify, watching, scan, table, changes>>
-----------------------------------------------------------------------------
\* The worker lists the folder.  Of shader packs it first runs a migration; if
\* that fails, the update task is never run.
Scan ==
  /\ update = "running"
  /\ \/ update' = "scanned" /\ found' = disk
     \/ ~mods /\ update' = "stuck" /\ UNCHANGED found
  /\ UNCHANGED <<mods, disk, notify, watching, launched, scheduled, table, changes>>

Upwards(n, k) == k                                                      \* mutant
\* The row that is looked at in the k-th place, of n: the last row first.
Downwards(n, k) == n + 1 - k
EraseRow(t, S, i) == IF i \in S /\ i <= Len(t) THEN RemoveAt(t, i) ELSE t
\* Rows are erased one by one, by the places they had at first.
Erase(s, S) ==
  LET left[k \in 0 .. Len(s)] ==
        IF k = 0 THEN s ELSE EraseRow(left[k - 1], S, Downwards(Len(s), k))
  IN left[Len(s)]
Indexed(s) == [n \in Ids(s) |-> CHOOSE i \in DOMAIN s : s[i].id = n]

Tickets == {rows[i].ticket : i \in DOMAIN rows} \cup {parses[k].ticket : k \in DOMAIN parses}
\* A new resource, whose ticket resolveResource() gives it if it gets one.
New(n, k) == [id |-> n, stamp |-> found[n], details |-> 0, hidden |-> FALSE,
              ticket |-> IF launched THEN 0 ELSE Max(Tickets \cup {0}) + k]
Parse(r) == [ticket |-> r.ticket, id |-> r.id, path |-> r.id, aborted |-> FALSE, outcome |-> "none",
             details |-> 0]

\* What the scan has found that is not as the rows say.
Changed == {n \in DOMAIN index \cap Found : found[n] # rows[index[n]].stamp}
Gone == DOMAIN index \ Found
Ordered == SetToSeq(Changed) \o SetToSeq(Found \ DOMAIN index)
Fresh(n) == New(n, CHOOSE k \in DOMAIN Ordered : Ordered[k] = n)
Swapped == [i \in DOMAIN rows |-> IF \E n \in Changed : index[n] = i
                                    THEN Fresh(rows[i].id) ELSE rows[i]]
Added == [k \in 1 .. Cardinality(Found \ DOMAIN index) |-> Fresh(Ordered[Cardinality(Changed) + k])]
Aborted(p) ==
  [p EXCEPT !.aborted = @ \/ p.ticket \in {rows[index[n]].ticket : n \in Changed \cup Gone} \ {0}]

\* applyUpdates() of onUpdateSucceeded(): rows that changed are replaced, rows
\* that are gone are erased, new rows are appended, and every resource that is
\* new is given to the resolver.
ApplyUpdates ==
  /\ update = "scanned" /\ update' = "applied"
  /\ rows' = Erase(Swapped, {index[n] : n \in Gone}) \o Added
  /\ index' = Indexed(rows')
  /\ parses' = [k \in DOMAIN parses |-> Aborted(parses[k])]
               \o (IF launched THEN <<>> ELSE [k \in DOMAIN Ordered |-> Parse(Fresh(Ordered[k]))])
  /\ UNCHANGED <<mods, disk, notify, watching, launched, found, scheduled, misfired, changes>>

\* The update task is over; the one that was remembered starts.
UpdateFinished ==
  /\ update = "applied"
  /\ update' = IF scheduled THEN "running" ELSE "none"
  /\ found' = Nothing /\ scheduled' = FALSE
  /\ UNCHANGED <<mods, disk, notify, watching, launched, table, changes>>
-----------------------------------------------------------------------------
\* What a parse task makes of the file: that of a mod looks under the name
\* that the mod had, and always succeeds; that of a pack fails when it does not
\* find one, aborted or not.
Outcome(p) ==
  LET read == disk[IF mods THEN p.path ELSE p.id] IN
  [p EXCEPT !.details = read,
            !.outcome = CASE ~mods /\ (read = 0 \/ read \in Broken) -> "failed"
                          [] mods /\ p.aborted -> "aborted"
                          [] OTHER -> "succeeded"]
ParseFile ==
  \E k \in DOMAIN parses :
    /\ parses[k].outcome = "none"
    /\ \A j \in 1 .. k - 1 : parses[j].outcome # "none"
    /\ parses' = [parses EXCEPT ![k] = Outcome(parses[k])]
    /\ UNCHANGED <<mods, disk, notify, watching, launched, scan, rows, index, misfired, changes>>

\* onParseSucceeded() gives the details to whatever row has the name now.
GiveDetails(p) ==
  /\ rows' = [rows EXCEPT ![index[p.id]] = [@ EXCEPT !.details = p.details]]
  /\ UNCHANGED <<index, misfired>>
\* onParseFailed() removes whatever row has the name now.
RemoveFailed(p) ==
  /\ rows' = RemoveAt(rows, index[p.id]) /\ index' = Indexed(rows')
  /\ misfired' = (misfired \/ rows[index[p.id]].ticket # p.ticket)
ParseFinished ==
  LET p == Head(parses) IN
  /\ parses # <<>> /\ p.outcome # "none"
  /\ parses' = Tail(parses)
  /\ CASE p.outcome = "succeeded" /\ mods /\ p.id \in DOMAIN index -> GiveDetails(p)
       [] p.outcome = "failed" /\ p.id \in DOMAIN index -> RemoveFailed(p)
       [] OTHER -> UNCHANGED <<rows, index, misfired>>
  /\ UNCHANGED <<mods, disk, notify, watching, launched, scan, changes>>

Internal == DirectoryChanged \/ Scan \/ ApplyUpdates \/ UpdateFinished \/ ParseFile \/ ParseFinished
Next ==
  \/ \E n \in Name : ExternalChange(n)
  \/ \E f \in File : Install(f)
  \/ \E i \in DOMAIN rows : Uninstall(i) \/ Toggle(i)
  \/ StartWatching \/ StopWatching \/ LaunchInstance
  \/ DirectoryChanged \/ Scan \/ ApplyUpdates \/ UpdateFinished \/ ParseFile \/ ParseFinished

Spec == Init /\ [][Next]_vars
\* Worker threads run, and queued signals are delivered.
FairSpec == Spec /\ WF_vars(Internal)
-----------------------------------------------------------------------------
TypeOK ==
  /\ mods \in BOOLEAN /\ disk \in [Name -> Nat] /\ notify \in BOOLEAN /\ watching \in BOOLEAN
  /\ launched \in BOOLEAN /\ update \in {"none", "running", "scanned", "applied", "stuck"}
  /\ found \in [Name -> Nat] /\ scheduled \in BOOLEAN /\ misfired \in BOOLEAN
  /\ rows \in Seq([id : Name, stamp : Nat, details : Nat, hidden : BOOLEAN, ticket : Nat])
  /\ DOMAIN index \subseteq Name /\ changes \in 0 .. MaxChanges

\* The index leads from a name to the row of that name, and no row is missing
\* in it: a row is found, and never twice.
IndexMatchesRows ==
  /\ DOMAIN index = Ids(rows) /\ Len(rows) = Cardinality(Ids(rows))
  /\ \A n \in DOMAIN index : index[n] \in DOMAIN rows /\ rows[index[n]].id = n

\* When a scan has been applied, the list is what the scan found.
Listing(s) == {<<s[i].id, s[i].stamp>> : i \in DOMAIN s}
ScanApplied ==
  [][update = "scanned" /\ update' = "applied" =>
       Listing(rows') = {<<n, found[n]>> : n \in Found}]_vars

\* What the list should show of the folder: every file with its present
\* contents, except what is no pack, and of mods the details of these contents.
\* The exceptions are the code's: a mod renamed while its parse task waits is
\* not found by it, and nothing is parsed once the instance has been launched.
Shown ==
  /\ \A i \in DOMAIN rows :
       /\ disk[rows[i].id] = rows[i].stamp
       /\ mods => rows[i].hidden \/ rows[i].ticket = 0 \/ rows[i].details = rows[i].stamp
  /\ \A n \in OnDisk : n \in Ids(rows) \/ (~mods /\ disk[n] \in Broken)
\* A folder that is watched is shown as it is, once it is let alone: no update
\* is lost and no result of an older one stays.  The exceptions, for packs:
\* the migration failed, or a failed parse hit the successor of its resource.
SettlesOnDisk == <>[](watching /\ update # "stuck" /\ ~misfired => Shown)
=============================================================================
