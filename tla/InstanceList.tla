------------------------------ MODULE InstanceList ------------------------------
(***************************************************************************)
(* InstanceList: the instances found in the configured folders, their      *)
(* groups, which are kept in a file, the trash history, and the staging    *)
(* of a new or updated instance.                                           *)
(*                                                                         *)
(* Everything here runs on the main thread; the folders change under it.   *)
(* An instance on disk is the folder that holds its instance.cfg.  The     *)
(* folders of instances are watched, what is inside of an instance is not. *)
(* The dialog of a staged instance is modal: meanwhile the user does       *)
(* nothing else, but games start and end, folders change and the process   *)
(* may die.                                                                *)
(* Left out: the index entry without a group, which only costs a save of   *)
(* what is saved; the "ungrouped" section; shortcuts; unreadable files,    *)
(* which are read like missing ones; folders whose instance.cfg has an     *)
(* InstanceType that is not known, which claim an id and are never listed. *)
(***************************************************************************)
EXTENDS Naturals, Sequences, SequencesExt, FiniteSetsExt

CONSTANTS
  Id, Group,
  NoGroup,
  RootLists,  \* what the settings may have as the instance folders
  InitDisks,  \* what the launcher may find at first
  MaxOps      \* bound on what the user and other programs do

\* The folders are a list, and what is found is in folders that may be on it.
Roots == UNION {Range(rs) : rs \in RootLists}
ASSUME InstanceListAssumption ==
  /\ NoGroup \notin Group /\ IsFiniteSet(Id) /\ MaxOps \in Nat
  /\ \A rs \in RootLists : rs \in Seq(Range(rs))
  /\ \A d \in InitDisks : d \subseteq Roots \X Id /\ IsFiniteSet(d)

VARIABLES
  disk,       \* <<folder, id>> of the instances
  file,       \* instgroups.json: where it is, groups and hidden groups, and as
              \* history, whether the last write of it failed
  roots,      \* m_instDirs, the first of which is the primary one
  list,       \* m_instances, m_instanceGroupIndex, m_groupNameCache,
              \* m_collapsedGroups, m_groupsLoaded
  suspended,  \* m_gameplaySuspended, the only reason for another m_watchLevel than 1
  dirty,      \* m_dirty
  watched,    \* the folders in m_watcher
  notify,     \* those with a change that is not delivered yet
  trash,      \* m_trashHistory
  stage,      \* the InstanceStaging task
  missed,     \* history: since the list was loaded, an instance came or went where
              \* no watcher sees it: in a folder that was not watched, or ceased to
              \* be before the change was delivered, or inside of the instance's own
  outlived,   \* history: a group was changed while the index had an entry of
              \* that group, or of that instance, and no such instance
  ops         \* counted for the bound

watch == <<suspended, dirty, watched, notify>>
vars == <<disk, file, roots, list, watch, trash, stage, missed, outlived, ops>>

Ids(s) == {s[k][2] : k \in DOMAIN s}
Listed == Ids(list.rows)
RowOf(i) == CHOOSE row \in Range(list.rows) : row[2] = i
GroupOf(i) == list.of[i]
\* The groups that the view shows; getGroups() has those of the counts.
ShownGroups == {GroupOf(i) : i \in Listed} \ {NoGroup}
GetGroups == {g \in Group : list.counts[g] > 0}
Members(of, g) == {i \in Id : of[i] = g}
-----------------------------------------------------------------------------
Increase(l, g) == IF g = NoGroup THEN l ELSE [l EXCEPT !.counts[g] = @ + 1]
Decrease(l, g) ==
  IF g = NoGroup THEN l
  ELSE IF l.counts[g] > 1 THEN [l EXCEPT !.counts[g] = @ - 1]
  ELSE [l EXCEPT !.counts[g] = 0, !.collapsed = @ \ {g}]

Unloaded == [rows |-> <<>>, of |-> [i \in Id |-> NoGroup], counts |-> [g \in Group |-> 0],
             collapsed |-> {}, loaded |-> FALSE]

Written(l) ==
  [place |-> "current", of |-> l.of, hidden |-> l.collapsed \cap {l.of[i] : i \in Id},
   behind |-> FALSE]
SavedIfLoaded(l, f) ==                                                   \* mutant
  IF l.loaded THEN {Written(l), [f EXCEPT !.behind = TRUE]} ELSE {f}
\* saveGroupList(), after which the file is one of these: a write that fails leaves
\* it as it was, and is only logged.  The instances have always been probed by then.
Saved(l, f) == {Written(l), [f EXCEPT !.behind = TRUE]}

\* loadGroupList() starts from nothing, and from the file if there is one.
LoadGroups(l, f) ==
  IF f.place = "none"
    THEN [Unloaded EXCEPT !.rows = l.rows]
    ELSE [rows |-> l.rows, of |-> f.of,
          counts |-> [g \in Group |-> Cardinality(Members(f.of, g))],
          collapsed |-> f.hidden, loaded |-> TRUE]

\* discoverInstances(): of two folders of one name the first is taken.
Before(rs, r) == {rs[k] : k \in 1 .. (CHOOSE n \in DOMAIN rs : rs[n] = r) - 1}
Discovered(d, rs) ==
  {p \in d : p[1] \in Range(rs) /\ \A r \in Before(rs, p[1]) : <<r, p[2]>> \notin d}

Cut(s, from, to) == SubSeq(s, 1, from - 1) \o SubSeq(s, to + 1, Len(s))
SeamLost(a, p) ==                                                        \* mutant
  IF a.back = 0 THEN [a EXCEPT !.back = p, !.front = p]
  ELSE IF p = a.front - 1 THEN [a EXCEPT !.front = p]
  ELSE [s |-> Cut(a.s, a.front, a.back), back |-> 0, front |-> 0]
\* The dead rows are removed in ranges, from last to first.
DeadRow(a, p) ==
  IF a.back = 0 THEN [a EXCEPT !.back = p, !.front = p]
  ELSE IF p = a.front - 1 THEN [a EXCEPT !.front = p]
  ELSE [s |-> Cut(a.s, a.front, a.back), back |-> p, front |-> p]
LookAtRow(a, dead, p) == IF p \in dead THEN DeadRow(a, p) ELSE a
RemoveRows(s, dead) ==
  LET seen[k \in 0 .. Len(s)] ==
        IF k = 0 THEN [s |-> s, back |-> 0, front |-> 0]
        ELSE LookAtRow(seen[k - 1], dead, Len(s) + 1 - k)
      a == seen[Len(s)]
  IN IF a.back = 0 THEN a.s ELSE Cut(a.s, a.front, a.back)

AlwaysUnread(l) == TRUE                                                  \* mutant
GroupsUnread(l) == ~l.loaded
\* loadList(), and what the file may be then: it is written when it was at the
\* legacy place, where it stays, with the same groups, when that fails.
LoadList(l, f, d, rs) ==
  LET found == Discovered(d, rs)
      new == {p \in found : p[2] \notin Ids(l.rows)}
      dead == {k \in DOMAIN l.rows : \A p \in found : p[2] # l.rows[k][2]}
      read == new # {} /\ GroupsUnread(l)
      m == IF read THEN LoadGroups(l, f) ELSE l
  IN [list |-> [m EXCEPT !.rows = RemoveRows(m.rows, dead) \o SetToSeq(new)],
      files |-> IF read /\ f.place = "legacy" THEN {f, Written(m)} ELSE {f}]

NoStage == [state |-> "none"]
Started(d, f, rs) ==
  LET loaded == LoadList(Unloaded, f, d, rs) IN
  /\ list' = loaded.list /\ file' \in loaded.files
  /\ suspended' = FALSE /\ dirty' = FALSE /\ watched' = Range(rs) /\ notify' = {}
  /\ trash' = <<>> /\ stage' = NoStage /\ missed' = FALSE /\ outlived' = FALSE

Init ==
  /\ disk \in InitDisks /\ roots \in RootLists
  /\ \E g \in Group, place \in {"none", "legacy", "current"} :
       LET of == [i \in Id |-> IF place # "none" /\ (\E p \in disk : p[2] = i) THEN g ELSE NoGroup]
           f == [place |-> place, of |-> of, hidden |-> {}, behind |-> FALSE]
           loaded == LoadList(Unloaded, f, disk, roots)
       IN file \in loaded.files /\ list = loaded.list
  /\ suspended = FALSE /\ dirty = FALSE /\ watched = Range(roots) /\ notify = {}
  /\ trash = <<>> /\ stage = NoStage /\ missed = FALSE /\ outlived = FALSE /\ ops = 0
-----------------------------------------------------------------------------
Op == ops < MaxOps /\ ops' = ops + 1
UserOp == Op /\ stage = NoStage

\* A crash, or the end of the program, and its next start.
Restart == Op /\ Started(disk, [file EXCEPT !.behind = FALSE], roots) /\ UNCHANGED <<disk, roots>>

\* An instance comes or goes in the folder R: WHOLE, which the watcher of R sees,
\* or by its instance.cfg inside of its own folder, which stays where it is.
FolderChanged(r, whole) ==
  /\ notify' = IF whole /\ r \in watched THEN notify \cup {r} ELSE notify
  /\ missed' = (missed \/ (r \in Range(roots) /\ ~(whole /\ r \in watched)))
  /\ UNCHANGED <<suspended, dirty, watched>>

\* providerUpdated(), with the list L and the file F at that time.
Provided(l, f) ==
  IF suspended THEN [list |-> l, files |-> {f}] ELSE LoadList(l, f, disk', roots')
ProviderUpdated(l, f) ==
  /\ list' = Provided(l, f).list
  /\ dirty' = suspended /\ missed' = (missed /\ suspended)

ExternalAdd(r, i, whole) ==
  /\ Op /\ <<r, i>> \notin disk
  /\ disk' = disk \cup {<<r, i>>} /\ FolderChanged(r, whole)
  /\ UNCHANGED <<file, roots, list, trash, stage, outlived>>
ExternalRemove(r, i, whole) ==
  /\ Op /\ <<r, i>> \in disk
  /\ disk' = disk \ {<<r, i>>} /\ FolderChanged(r, whole)
  /\ UNCHANGED <<file, roots, list, trash, stage, outlived>>
DirectoryChanged(r) ==
  /\ r \in notify /\ notify' = notify \ {r}
  /\ UNCHANGED <<disk, roots, suspended, watched, trash, stage, outlived, ops>>
  /\ ProviderUpdated(list, file) /\ file' \in Provided(list, file).files
\* MainWindow::refreshInstances().
Refresh ==
  LET loaded == LoadList(list, file, disk, roots) IN
  /\ UserOp
  /\ list' = loaded.list /\ file' \in loaded.files /\ dirty' = FALSE /\ missed' = FALSE
  /\ UNCHANGED <<disk, roots, suspended, watched, notify, trash, stage, outlived>>

\* setGameplaySuspension(), at the start and at the end of a game.
Suspend ==
  /\ Op /\ ~suspended /\ suspended' = TRUE
  /\ watched' = watched \ Range(roots) /\ notify' = {}
  /\ missed' = (missed \/ notify # {})
  /\ UNCHANGED <<disk, file, roots, list, dirty, trash, stage, outlived>>
Resume ==
  /\ suspended /\ suspended' = FALSE
  /\ watched' = watched \cup Range(roots)
  /\ IF dirty
       THEN LET loaded == LoadList(list, file, disk, roots)
            IN list' = loaded.list /\ file' \in loaded.files /\ dirty' = FALSE /\ missed' = FALSE
       ELSE UNCHANGED <<list, file, dirty, missed>>
  /\ UNCHANGED <<disk, roots, notify, trash, stage, outlived, ops>>

\* on_InstFolderChanged(): the list is emptied and loaded again.
ChangeRoots(rs) ==
  LET l == [list EXCEPT !.rows = <<>>, !.loaded = FALSE] IN
  /\ UserOp /\ rs # roots /\ roots' = rs
  /\ watched' = Range(rs) /\ notify' = {}
  /\ UNCHANGED <<disk, suspended, trash, stage, outlived>>
  /\ \E f \in IF list.loaded THEN Saved(list, file) ELSE {file} :
       ProviderUpdated(l, f) /\ file' \in Provided(l, f).files
-----------------------------------------------------------------------------
\* The index has an entry of an instance that is not listed.
Outlives(S) == outlived' = (outlived \/ ~(S \subseteq Listed))

SetGroup(i, g) ==
  LET l == Increase([Decrease(list, GroupOf(i)) EXCEPT !.of[i] = g], g) IN
  /\ UserOp /\ i \in Listed /\ g # GroupOf(i)
  /\ list' = l /\ file' \in Saved(l, file)
  /\ UNCHANGED <<disk, roots, watch, trash, stage, missed, outlived>>

DeleteGroup(g) ==
  LET l == [list EXCEPT !.counts[g] = 0, !.collapsed = @ \ {g},
                        !.of = [i \in Id |-> IF i \in Listed /\ list.of[i] = g THEN NoGroup
                                                                            ELSE list.of[i]]]
  IN
  /\ UserOp /\ g \in ShownGroups
  /\ list' = l /\ file' \in Saved(l, file)
  /\ Outlives(Members(list.of, g))
  /\ UNCHANGED <<disk, roots, watch, trash, stage, missed>>

NotCounted(l, S, h) == l                                                 \* mutant
Counted(l, S, h) == [l EXCEPT !.counts[h] = @ + Cardinality(S)]
\* The window does not offer the name of another group.
RenameGroup(g, h) ==
  LET moved == Members(list.of, g) \cap Listed
      l == Counted([list EXCEPT !.counts[g] = 0,
                                !.collapsed = IF g \in @ THEN (@ \ {g}) \cup {h} ELSE @,
                                !.of = [i \in Id |-> IF i \in moved THEN h ELSE list.of[i]]],
                   moved, h)
  IN
  /\ UserOp /\ g \in ShownGroups /\ h \notin GetGroups \cup {g}
  /\ list' = l /\ file' \in Saved(l, file)
  /\ Outlives(Members(list.of, g))
  /\ UNCHANGED <<disk, roots, watch, trash, stage, missed>>

Collapse(g) ==
  LET l == [list EXCEPT !.collapsed = IF g \in @ THEN @ \ {g} ELSE @ \cup {g}] IN
  /\ UserOp /\ g \in ShownGroups
  /\ list' = l /\ file' \in Saved(l, file)
  /\ UNCHANGED <<disk, roots, watch, trash, stage, missed, outlived>>

\* trashInstance() and deleteInstance(): the group goes before the folder.
Ungrouped(i) == [Decrease(list, GroupOf(i)) EXCEPT !.of[i] = NoGroup]
Trash(i) ==
  /\ UserOp /\ i \in Listed /\ RowOf(i) \in disk
  /\ list' = Ungrouped(i) /\ file' \in Saved(Ungrouped(i), file)
  /\ disk' = disk \ {RowOf(i)} /\ FolderChanged(RowOf(i)[1], TRUE)
  /\ trash' = Append(trash, [at |-> RowOf(i), group |-> GroupOf(i)])
  /\ UNCHANGED <<roots, stage, outlived>>
\* The trash could not be used: it is deleted, which may fail as well, and half-way.
Delete(i) ==
  /\ UserOp /\ i \in Listed
  /\ list' = Ungrouped(i) /\ file' \in Saved(Ungrouped(i), file)
  /\ \/ /\ RowOf(i) \in disk /\ disk' = disk \ {RowOf(i)}
        /\ \E whole \in BOOLEAN : FolderChanged(RowOf(i)[1], whole)
     \/ UNCHANGED <<disk, watch, missed>>
  /\ UNCHANGED <<roots, trash, stage, outlived>>

\* undoTrashInstance(): under its old name, or under one that is free in its folder.
Undo ==
  LET top == Last(trash)
      r == top.at[1]
  IN
  /\ UserOp /\ trash # <<>> /\ trash' = Front(trash)
  /\ UNCHANGED <<roots, stage, suspended, watched>>
  /\ \/ \E i \in Id :
          LET l == Increase([list EXCEPT !.of[i] = top.group], top.group) IN
          /\ <<r, i>> \notin disk /\ (i = top.at[2] \/ top.at \in disk)
          /\ disk' = disk \cup {<<r, i>>}
          /\ notify' = notify \cup ({r} \cap watched)
          /\ outlived' = (outlived \/ GroupOf(i) # NoGroup)
          /\ \E f \in Saved(l, file) : ProviderUpdated(l, f) /\ file' \in Provided(l, f).files
     \/ UNCHANGED <<disk, list, file, dirty, notify, missed, outlived>>
-----------------------------------------------------------------------------
(* InstanceStaging: the task that makes the instance, and the commit.      *)
MinBackoff == 1
MaxBackoff == 16

Stage(r, of, g) ==
  /\ UserOp
  /\ stage' = [state |-> "running", target |-> r, update |-> of, group |-> g,
               backoff |-> MinBackoff]
  /\ UNCHANGED <<disk, file, roots, list, watch, trash, missed, outlived>>
\* A new instance goes where the dialog says.  An update says nothing, and
\* goes to the primary folder.
StageNew == \E r \in Range(roots), g \in Group \cup {NoGroup} : Stage(r, {}, g)
StageUpdate == \E i \in Id \cap Listed : Stage(Head(roots), {i}, GroupOf(i))

\* updateInstance() of the task: the pack is installed already, and the user says
\* that it shall be updated.  The folder of the dialog stays the target.
ChildUpdates(i) ==
  /\ stage.state = "running" /\ stage.update = {} /\ i \in Listed
  /\ stage' = [stage EXCEPT !.update = {i}]
  /\ UNCHANGED <<disk, file, roots, list, watch, trash, missed, outlived, ops>>

\* childFailed() and childAborted(): the staged folder is deleted.
ChildFails ==
  /\ stage.state = "running" /\ stage' = NoStage
  /\ UNCHANGED <<disk, file, roots, list, watch, trash, missed, outlived, ops>>

\* The watcher leaves the target alone while its lock is held.
Unlock == watched' = watched \cup {stage.target} /\ notify' = notify \ {stage.target}

\* shouldOverride(), or a name that no configured folder has.
Destination(i) ==
  IF stage.update # {} THEN i \in stage.update ELSE \A r \in Range(roots) : <<r, i>> \notin disk

\* childSucceeded(), after the task or by the timer: commitStagedInstance().
Commit ==
  \E i \in Id :
    LET new == stage.update = {}
        l == IF new THEN Increase([list EXCEPT !.of[i] = stage.group], stage.group) ELSE list
    IN
    /\ stage.state # "none" /\ stage' = NoStage
    /\ Destination(i) /\ disk' = disk \cup {<<stage.target, i>>}
    /\ Unlock
    /\ outlived' = (outlived \/ (new /\ GroupOf(i) # NoGroup))
    /\ UNCHANGED <<roots, suspended, trash, ops>>
    /\ ProviderUpdated(l, file)
    /\ \E f \in Provided(l, file).files : file' \in Saved(list', f)
\* It failed.  What was copied may stay, and look like an instance.
CommitFails ==
  /\ stage.state # "none"
  /\ stage' = IF stage.backoff = MaxBackoff THEN NoStage
              ELSE [stage EXCEPT !.state = "retrying", !.backoff = 2 * @]
  /\ \/ \E i \in Id : Destination(i) /\ disk' = disk \cup {<<stage.target, i>>}
     \/ UNCHANGED disk
  /\ missed' = (missed \/ disk' # disk \/ stage.target \in notify)
  /\ Unlock
  /\ UNCHANGED <<file, roots, list, suspended, dirty, trash, outlived, ops>>

Next ==
  \/ Restart \/ Refresh \/ Suspend \/ Resume \/ Undo
  \/ \E r \in Roots :
       \/ DirectoryChanged(r)
       \/ \E i \in Id, whole \in BOOLEAN : ExternalAdd(r, i, whole) \/ ExternalRemove(r, i, whole)
  \/ \E rs \in RootLists : ChangeRoots(rs)
  \/ \E i \in Id : Trash(i) \/ Delete(i) \/ ChildUpdates(i)
                   \/ \E g \in Group \cup {NoGroup} : SetGroup(i, g)
  \/ \E g \in Group : DeleteGroup(g) \/ Collapse(g) \/ \E h \in Group : RenameGroup(g, h)
  \/ StageNew \/ StageUpdate \/ ChildFails \/ Commit \/ CommitFails

Spec == Init /\ [][Next]_vars
-----------------------------------------------------------------------------
\* A list that does not show what is on disk will be loaded again: there is a
\* delivery to come, or a game to end.  The exceptions are the code's: what
\* changes in a folder while it is not watched, for a game or a commit, and an
\* instance.cfg that is written into a folder that was there before, or removed
\* alone, are shown only when something else is.
ReloadDue ==
  \/ Listed = {p[2] : p \in Discovered(disk, roots)}
  \/ dirty \/ notify # {} \/ missed

\* getGroups() offers exactly the groups in use, and their counts are right,
\* unless a group was changed behind the back of the index.
CountsExact ==
  outlived \/ (\A g \in Group : list.counts[g] = Cardinality(Members(list.of, g)))

\* A crash costs no instance its group, and no group in use its state: what the
\* user did is in the file, unless the last write of it failed, which the code
\* only logs.
RestartKeepsGroups ==
  [][Restart /\ ~file.behind => \A i \in Id \cap Listed \cap Ids(list'.rows) :
       /\ list'.of[i] = GroupOf(i)
       /\ GroupOf(i) \in list.collapsed <=> GroupOf(i) \in list'.collapsed]_vars

\* An instance leaves its group only when the user says so, and a new one is in
\* the group that the user chose.  The exceptions are the code's: a removal that
\* fails, the undo that restores an instance under the name of another, the new
\* instance of a launcher that has never read its groups, and a file whose last
\* write failed, when it is read again.
ByUser(i) ==
  \/ \E g \in Group \cup {NoGroup} : SetGroup(i, g)
  \/ \E g \in Group : DeleteGroup(g) \/ \E h \in Group : RenameGroup(g, h)
  \/ Delete(i) \/ Trash(i) \/ Undo
GroupByUser ==
  [][/\ \A i \in Listed \cap Ids(list'.rows) :
           RowOf(i) \in disk /\ list'.of[i] # GroupOf(i) => ByUser(i) \/ file.behind
     /\ Commit /\ stage.update = {} /\ (list.loaded \/ suspended) =>
          \E p \in disk' \ disk : list'.of[p[2]] = stage.group]_vars

\* An update changes the instance it is for; it does not make another one.
UpdateMakesNoInstance ==
  [][stage.state # "none" /\ (\E i \in stage.update : i \in Listed /\ RowOf(i) \in disk)
       /\ stage' = NoStage => disk' = disk]_vars
=============================================================================
