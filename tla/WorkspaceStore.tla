--------------------------- MODULE WorkspaceStore ---------------------------
(***************************************************************************)
(* The workspace catalog and the files it is kept in                       *)
(* (src/src/workspace.c).  A mutation holds the store's write lock from    *)
(* its first change to its last, so no thread sees it half done; a crash   *)
(* does.  A step is one effect on the disk, with what the thread does in   *)
(* memory before it.                                                       *)
(*                                                                         *)
(* Only workspaces.json is read back.  meta.json, active_id and _trash are *)
(* written and never read: of them the model has the steps, where a crash  *)
(* may come, and that writing a meta.json re-creates a directory.          *)
(*                                                                         *)
(* A conversation (the content of an events.log) is a number, a session_sha*)
(* the number of the conversation it was saved in.  Labels and times are   *)
(* left out.  Calls that are refused change nothing and are left out.      *)
(***************************************************************************)
EXTENDS Naturals, FiniteSets

CONSTANTS
  Ids,            (* Workspace ids, never used twice: eight random bytes.  *)
  Paths,          (* Directories a workspace may be created for.           *)
  None,
  MaxTalks,       (* Bound: conversations ever begun.                      *)
  WritesFail      (* A write, a rename or a truncation may fail.           *)

ASSUME WorkspaceStoreAssumption ==
  /\ None \notin Ids \cup Paths \cup Nat
  /\ None \notin [path : Paths, session : Nat \cup {None}]
  /\ MaxTalks \in Nat
  /\ WritesFail \in BOOLEAN

VARIABLES
  mem,            (* active_id and records, as threads see them.           *)
  op,             (* The mutation that holds the write lock.               *)
  catalog,        (* workspaces.json.                                      *)
  dir,            (* workspaces/<id>: the conversation in its events.log.  *)
  used,           (* Ids ever given out.                                   *)
  talks,          (* Conversations ever begun.                             *)
  acked,          (* History: the catalog when the last mutation returned. *)
  lost,           (* History: the last write of the catalog failed.        *)
  torn            (* History: workspaces a crash or a failed write took an *)
                  (* effect from.                                          *)

disk    == <<catalog, dir>>
history == <<acked, lost, torn>>
vars    == <<mem, op, disk, used, talks, history>>

Talks == 1 .. MaxTalks

Abstract == INSTANCE DurableCatalog WITH
  Sessions <- Talks, now <- mem, kept <- catalog

Known(cat) == Abstract!Known(cat)
WithEntry(cat, w, e) == Abstract!WithEntry(cat, w, e)
WithoutEntry(cat, w) == Abstract!WithoutEntry(cat, w)

Idle == [at |-> "idle", id |-> None]

TypeOK ==
  /\ mem \in Abstract!Catalog /\ catalog \in Abstract!Catalog /\ acked \in Abstract!Catalog
  /\ op \in [at : {"idle", "meta", "forget", "file", "remove", "catalog"},
             id : Ids \cup {None}]
  /\ dir \in [Ids -> Talks \cup {None}]
  /\ used \subseteq Ids /\ torn \subseteq Ids
  /\ talks \in 0 .. MaxTalks
  /\ lost \in BOOLEAN

Init ==
  /\ mem = Abstract!Empty /\ catalog = Abstract!Empty /\ acked = Abstract!Empty
  /\ op = Idle
  /\ dir = [w \in Ids |-> None]
  /\ used = {} /\ torn = {}
  /\ talks = 0
  /\ lost = FALSE

-----------------------------------------------------------------------------
(* Files.                                                                  *)

Locked(stage) == op.at = stage

Stage(stage, w) == op' = [at |-> stage, id |-> w]

(* atomic_write: a file written next to it and renamed.  The old content   *)
(* stays when any part of that fails, which no caller acts upon.           *)
AtomicWrite(old, new) == IF WritesFail THEN {old, new} ELSE {new}

(* A catalog written without the active workspace, for comparison. *)
PersistRecords(new) ==
  /\ catalog' \in AtomicWrite(catalog, [new EXCEPT !.active = None])
  /\ lost' = FALSE
  /\ acked' = new
  /\ op' = Idle

(* persist_catalog with its result ignored, and the lock released.         *)
PersistCatalog(new) ==
  /\ catalog' \in AtomicWrite(catalog, new)
  /\ lost' = (catalog' # new)
  /\ acked' = new
  /\ op' = Idle

(* ensure_dir_recursive: a directory that is not there begins empty.       *)
EnsureDir(w) ==
  IF dir[w] # None THEN UNCHANGED <<dir, talks>>
  ELSE /\ talks < MaxTalks
       /\ talks' = talks + 1
       /\ dir' = [dir EXCEPT ![w] = talks + 1]

(* persist_meta: its directory is made if need be; what is written there,  *)
(* or not, is never read.                                                  *)
PersistMeta(w) == EnsureDir(w)

-----------------------------------------------------------------------------
(* Mutations.                                                              *)

(* A create that does not look for the path, for comparison. *)
CreateAnother(w, p) ==
  /\ Locked("idle")
  /\ w \notin used
  /\ mem' = WithEntry(mem, w, [path |-> p, session |-> None])
  /\ used' = used \cup {w}
  /\ EnsureDir(w)
  /\ Stage("meta", w)
  /\ UNCHANGED <<catalog, history>>

(* pin_workspace_store_create: the record, then its directory. *)
Create(w, p) ==
  /\ Locked("idle")
  /\ w \notin used
  /\ \A v \in Known(mem) : mem.recs[v].path # p
  /\ mem' = WithEntry(mem, w, [path |-> p, session |-> None])
  /\ used' = used \cup {w}
  /\ EnsureDir(w)
  /\ Stage("meta", w)
  /\ UNCHANGED <<catalog, history>>

CreateMeta ==
  /\ Locked("meta")
  /\ PersistMeta(op.id)
  /\ Stage("catalog", op.id)
  /\ UNCHANGED <<mem, catalog, used, history>>

(* The last step of every mutation but a delete.                           *)
Finish ==
  /\ Locked("catalog")
  /\ PersistCatalog(mem)
  /\ UNCHANGED <<mem, dir, used, talks, torn>>

MayDelete(w) == w \in Known(mem) /\ mem.active # w

(* pin_workspace_store_delete: the directory goes to the trash, or is      *)
(* removed if that fails.                                                  *)
Delete(w) ==
  /\ Locked("idle")
  /\ MayDelete(w)
  /\ dir' = [dir EXCEPT ![w] = None]
  /\ Stage("remove", w)
  /\ UNCHANGED <<mem, catalog, used, talks, history>>

(* A record that is freed and stays in the array, for comparison. *)
RemoveInPlace ==
  /\ Locked("remove")
  /\ mem' = [mem EXCEPT !.recs[op.id] = None]
  /\ PersistCatalog(mem')
  /\ UNCHANGED <<dir, used, talks, torn>>

(* Its log is closed, the records are closed up, the catalog written.      *)
Remove ==
  /\ Locked("remove")
  /\ mem' = WithoutEntry(mem, op.id)
  /\ PersistCatalog(WithoutEntry(mem, op.id))
  /\ UNCHANGED <<dir, used, talks, torn>>

(* pin_workspace_store_set_active: last_active goes into meta.json first. *)
SetActive(w) ==
  /\ Locked("idle")
  /\ w \in Known(mem)
  /\ PersistMeta(w)
  /\ Stage("file", w)
  /\ UNCHANGED <<mem, catalog, used, history>>

(* A change of the active workspace that only writes its own file, for     *)
(* comparison.                                                             *)
ActiveFileOnly ==
  /\ Locked("file")
  /\ mem' = [mem EXCEPT !.active = op.id]
  /\ acked' = mem'
  /\ op' = Idle
  /\ UNCHANGED <<catalog, dir, used, talks, lost, torn>>

ActiveFile ==
  /\ Locked("file")
  /\ mem' = [mem EXCEPT !.active = op.id]
  /\ Stage("catalog", op.id)
  /\ UNCHANGED <<catalog, dir, used, talks, history>>

(* Called with NULL: the file is unlinked. *)
Deactivate ==
  /\ Locked("idle")
  /\ mem' = [mem EXCEPT !.active = None]
  /\ Stage("catalog", None)
  /\ UNCHANGED <<catalog, dir, used, talks, history>>

WithSession(cat, w, s) == WithEntry(cat, w, [path |-> cat.recs[w].path, session |-> s])

(* pin_workspace_store_set_session_sha, of the conversation that goes on:  *)
(* what the child saves is in its events.log too.                          *)
SetSession(w) ==
  /\ Locked("idle")
  /\ w \in Known(mem)
  /\ dir[w] # None
  /\ mem' = WithSession(mem, w, dir[w])
  /\ PersistMeta(w)
  /\ Stage("catalog", w)
  /\ UNCHANGED <<catalog, used, history>>

(* pin_workspace_store_reset: the log is closed and emptied.  It stays as  *)
(* it is when it cannot be opened.                                         *)
Reset(w) ==
  /\ Locked("idle")
  /\ w \in Known(mem)
  /\ \/ /\ dir[w] # None /\ talks < MaxTalks
        /\ dir' = [dir EXCEPT ![w] = talks + 1]
        /\ talks' = talks + 1
     \/ (WritesFail \/ dir[w] = None) /\ UNCHANGED <<dir, talks>>
  /\ Stage("forget", w)
  /\ UNCHANGED <<mem, catalog, used, history>>

(* A reset that leaves the saved session, for comparison. *)
ForgetNothing ==
  /\ Locked("forget")
  /\ UNCHANGED mem
  /\ PersistMeta(op.id)
  /\ Stage("catalog", op.id)
  /\ UNCHANGED <<catalog, used, history>>

Forget ==
  /\ Locked("forget")
  /\ mem' = WithSession(mem, op.id, None)
  /\ PersistMeta(op.id)
  /\ Stage("catalog", op.id)
  /\ UNCHANGED <<catalog, used, history>>

(* pin_workspace_store_event_log: the lazy open, which makes the directory *)
(* of a workspace that has none.                                           *)
OpenLog(w) ==
  /\ Locked("idle")
  /\ w \in Known(mem)
  /\ EnsureDir(w)
  /\ UNCHANGED <<mem, op, catalog, used, history>>

-----------------------------------------------------------------------------
(* The process ends, at any step, and pin_workspace_store_open reads the   *)
(* catalog: only that file, and only what the store wrote there.           *)

EntryOf(cat, w) == IF w \in Known(cat) THEN cat.recs[w] ELSE None

Restart ==
  /\ mem' = catalog /\ acked' = catalog
  /\ op' = Idle
  /\ lost' = FALSE
  /\ torn' = torn \cup ({op.id} \ {None})
                 \cup {w \in Ids : EntryOf(catalog, w) # EntryOf(mem, w)}
  /\ UNCHANGED <<disk, used, talks>>

Mutate ==
  \/ \E w \in Ids, p \in Paths : Create(w, p)
  \/ \E w \in Ids : Delete(w) \/ SetActive(w) \/ SetSession(w) \/ Reset(w) \/ OpenLog(w)
  \/ Deactivate

Continue == CreateMeta \/ Remove \/ ActiveFile \/ Forget \/ Finish

Next == Mutate \/ Continue \/ Restart

Spec == Init /\ [][Next]_vars

-----------------------------------------------------------------------------
(* Properties.                                                             *)

(* An operation is in the file a restart reads wholly or not at all,       *)
(* whatever step it is cut short at, unless a failed write went unnoticed. *)
AllOrNothing == ~lost => catalog \in {acked, mem}

(* The active workspace is in the catalog, in memory and after a restart,  *)
(* although a delete and a change of the active workspace are several      *)
(* writes each.                                                            *)
ActiveExists ==
  /\ mem.active \in Known(mem) \cup {None}
  /\ catalog.active \in Known(catalog) \cup {None}

(* No two workspaces are for one path, restarts and lost writes included.  *)
OnePerPath ==
  \A v, w \in Known(mem) : v # w => mem.recs[v].path # mem.recs[w].path

(* Both: what a restart finds is a catalog, whatever was under way.        *)
CatalogIsSound == ActiveExists /\ OnePerPath

(* Between two operations, a session_sha is one of the conversation in the *)
(* events.log, unless a crash or a lost write came between the two files:  *)
(* what a reset erased cannot be switched back to.                         *)
SessionOfConversation ==
  Locked("idle") =>
    \A w \in Known(mem) \ torn :
      mem.recs[w].session # None => dir[w] # None /\ mem.recs[w].session = dir[w]

(* Between two operations, the directories are those of the records, with  *)
(* the same exception.                                                     *)
DirectoriesMatch ==
  Locked("idle") => \A w \in Ids \ torn : dir[w] # None <=> w \in Known(mem)

(* Both: the records say of the files what the files are.                  *)
FilesMatch == SessionOfConversation /\ DirectoriesMatch

(* The store is the catalog its callers rely on. *)
KeepsCatalog == Abstract!Spec
=============================================================================
