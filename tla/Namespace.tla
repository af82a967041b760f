----------------------------- MODULE Namespace -----------------------------
(***************************************************************************)
(* The directory tree in the table `files' and the callbacks of myfs.c     *)
(* that read or change it, as several mounts of one database run them,     *)
(* together with the table of open files of each mount.                    *)
(*                                                                         *)
(* A callback resolves its path with one query for each component and      *)
(* changes the tree with a last one; queries of other callbacks may come   *)
(* between any two of them.  (The queries of a component, by name, by      *)
(* file_id and for its parents, are one step.  Each query, and each        *)
(* transaction, is atomic: see DbSession.)                                 *)
(*                                                                         *)
(* What FUSE and the kernel check before they call (that a name exists,    *)
(* that it is a directory) they check against a cache that another mount   *)
(* makes stale; here a callback may be called with any path.               *)
(***************************************************************************)
EXTENDS Integers, Sequences, FiniteSets

CONSTANTS
    Threads,    \* the FUSE threads of all mounts
    Mounts,     \* the mounts, each a process with its own memory
    MountOf,    \* MountOf[t]: the mount thread t belongs to
    Names,      \* the names of files
    Paths,      \* the paths callbacks are called with: sequences of names
    Tail1,      \* Tail1[n]: the path that is left of name n without its
                \* first character
    MaxFiles,   \* bound: how many files are ever created
    Slots,      \* 0..MYFS_FILES_OPEN_MAX - 1
    Starts,     \* what there may be at the start: the rows of `files', its
                \* AUTO_INCREMENT, and the requests that come to each thread
    Faults,     \* the threads whose queries may fail
    NoFile      \* NULL

ASSUME MountAssumption == MountOf \in [Threads -> Mounts]
ASSUME PathAssumption ==
    /\ Paths \subseteq Seq(Names) \ {<<>>}
    /\ Tail1 \in [Names -> Seq(Names)]
ASSUME BoundAssumption ==
    /\ MaxFiles \in Nat
    /\ Slots \subseteq Nat
    /\ NoFile \notin Int

(* The callbacks modelled (`move' and `swap' are rename with a flag) *)
Callbacks == {"getattr", "setattr", "mkdir", "create", "symlink", "unlink", "rmdir",
              "open", "opendir", "move", "swap"}
Requests == [op : Callbacks, path : Paths, to : Paths]

VARIABLES
    rows,       \* the table `files' without the root, by file_id
    nextId,     \* its AUTO_INCREMENT
    table,      \* myfs->files of each mount: the file in each slot
    fds,        \* the files that are open: [mount, slot, file, by]
    job,        \* what each thread is doing
    up,         \* the mounts that have not crashed
    requests    \* what each thread may be called with, any number of times

vars == <<rows, nextId, table, fds, job, up, requests>>

(* A job is at a component of a path ("walk"), at the children of one      *)
(* ("list", "visit"), between an INSERT and mysql_insert_id ("id"), or at  *)
(* the append of a symlink's target ("text"):                              *)
(*   cur, todo    the file found last and the names still to look up; at   *)
(*                "id" and "text", cur is what mysql_insert_id gives       *)
(*   parent       the parent of cur, for a swap                            *)
(*   got          what earlier lookups found, or the row inserted          *)
(*   slot         the free slot an open has chosen                         *)
(*   list, kids   the children of cur: none, all there, or with a NULL;    *)
(*                those that are still to be read                          *)
(*   raced        history: another move or swap changed the tree meanwhile *)
Root == 0       \* its row is kept from deletion by `file_protection'
Idle == [op |-> "none"]
Row == [parent : 0..MaxFiles, name : Names, type : {"File", "Directory", "Soft Link"},
        text : {"none", "own", "foreign"}]     \* text: the target of a symlink
Kinds == [mkdir |-> "Directory", create |-> "File", symlink |-> "Soft Link"]
Files == DOMAIN rows
FileOrNone == 0..MaxFiles \cup {NoFile}
Entry == [file : 0..MaxFiles, whole : BOOLEAN]
ASSUME NoFileAssumption == NoFile \notin Entry

(* What is mounted are the tables of create.c, as earlier mounts left them. *)
ASSUME StartsAssumption ==
    \A start \in Starts :
        LET old == start.rows
        IN  /\ start.nextId \in 1..(MaxFiles + 1)
            /\ DOMAIN old \subseteq 1..(start.nextId - 1)
            /\ \A i \in DOMAIN old : /\ old[i] \in Row /\ old[i].text = "none"
                                    /\ old[i].parent \in DOMAIN old \cup {Root}
            /\ \A i, j \in DOMAIN old :
                   old[i].parent = old[j].parent /\ old[i].name = old[j].name => i = j
            /\ start.requests \in [Threads -> SUBSET Requests]

TypeOK ==
    /\ nextId \in 1..(MaxFiles + 1)
    /\ Files \subseteq 1..(nextId - 1)
    /\ \A i \in Files : rows[i] \in Row
    /\ table \in [Mounts -> [Slots -> Entry \cup {NoFile}]]
    /\ fds \subseteq [mount : Mounts, slot : Slots, file : 0..MaxFiles, by : Threads]
    /\ up \subseteq Mounts
    /\ requests \in [Threads -> SUBSET Requests]
    /\ \A t \in Threads : job[t] # Idle =>
          /\ MountOf[t] \in up
          /\ job[t].at \in {"walk", "list", "visit", "id", "text"}
          /\ job[t].cur \in FileOrNone
          /\ job[t].at # "walk" => job[t].cur # NoFile
          /\ job[t].todo \in Seq(Names)
          /\ job[t].kids \subseteq 1..MaxFiles
          /\ \A i \in DOMAIN job[t].got : job[t].got[i].file \in FileOrNone

Init ==
    /\ \E start \in Starts :
          rows = start.rows /\ nextId = start.nextId /\ requests = start.requests
    /\ table = [m \in Mounts |-> [s \in Slots |-> NoFile]]
    /\ fds = {}
    /\ job = [t \in Threads |-> Idle]
    /\ up = Mounts

-----------------------------------------------------------------------------
(* Mutant of NameFree: a table without its unique key. *)
NameFreeAnyway(i, parent, name) == TRUE

(* The tables, as create.c declares them: uk_files and fk_files_parentid   *)
NameFree(i, parent, name) ==
    \A j \in Files \ {i} : ~(rows[j].parent = parent /\ rows[j].name = name)
IsFile(i) == i = Root \/ i \in Files

(* ON DELETE CASCADE: the least set that has i and the children of its     *)
(* members                                                                 *)
Below(i) ==
    LET some == Files \cup {i}
        closed == {S \in SUBSET some :
                     i \in S /\ \A j \in Files : rows[j].parent \in S => j \in S}
    IN  {j \in some : \A S \in closed : j \in S}
Children(i) == {j \in Files : rows[j].parent = i}

(* SELECT ... WHERE `parent_id`=... AND `name`=... *)
Find(parent, name) ==
    IF \E i \in Files : rows[i].parent = parent /\ rows[i].name = name
    THEN CHOOSE i \in Files : rows[i].parent = parent /\ rows[i].name = name
    ELSE NoFile

Dirname(path) == SubSeq(path, 1, Len(path) - 1)
Basename(path) == path[Len(path)]
ParentOf(i) == IF i \in Files THEN rows[i].parent ELSE Root
IsDirectory(i) == i = Root \/ (i \in Files /\ rows[i].type = "Directory")

-----------------------------------------------------------------------------
(* The paths a callback resolves, one after the other.  getattr stands for *)
(* getattr, access and readlink, setattr for chmod, chown and utimens.     *)
(* myfs_rename_move looks for the new name with myfs_file_exists, which is *)
(* given the bare name: myfs_file_get skips its first character and        *)
(* searches the root.                                                      *)
Lookups(op, path, to) ==
    CASE op \in {"unlink", "rmdir", "open", "opendir", "getattr", "setattr"} -> <<path>>
      [] op \in {"mkdir", "symlink"}        -> <<Dirname(path)>>
      [] op = "create"                      -> <<Dirname(path), path>>
      [] op = "move"                        -> <<Tail1[Basename(to)], path, Dirname(to)>>
      [] op = "swap"                        -> <<path, to>>
LookupsOf(j) == Lookups(j.op, j.path, j.to)

Listing == {"rmdir", "opendir"}     \* these ask for the children of what they find
Opening == {"open", "opendir"}
Probing(j) == j.op = "move" /\ j.got = <<>>
Resolved(t) == job[t] # Idle /\ job[t].at = "walk" /\ job[t].todo = <<>>
Last(j) == Len(j.got) + 1 = Len(LookupsOf(j))

(* A statement that is executed: thread t goes on with j, and the insert   *)
(* id of its connection becomes id, also for a thread that has yet to read *)
(* its own.  (An error and a SELECT leave it.)                             *)
Executed(t, j, id, moved) ==
    job' = [u \in Threads |->
        CASE u = t -> j
          [] u # t /\ job[u] # Idle /\ job[u].at = "id" /\ MountOf[u] = MountOf[t] ->
                [job[u] EXCEPT !.cur = id]
          [] u # t /\ job[u].op \in {"move", "swap"} -> [job[u] EXCEPT !.raced = @ \/ moved]
          [] OTHER -> job[u]]
Return(t) == job' = [job EXCEPT ![t] = Idle]

(* What becomes of a job whose lookup has found (or not found) a file *)
Found(j, file, parent) ==
    [j EXCEPT !.cur = file, !.list = "none",
              !.parent = IF j.op = "swap" THEN parent ELSE Root,
              !.at = IF j.op \in Listing /\ file # NoFile /\ IsDirectory(file)
                     THEN "list" ELSE "walk"]

(* myfs_file_get queries the root first. *)
Lookup(t, j, path) ==
    \E root \in {Root} \cup (IF t \in Faults THEN {NoFile} ELSE {}) :
        job' = [job EXCEPT ![t] = Found([j EXCEPT !.todo = path], root, Root)]

(* What a lookup that has ended is kept as, for the queries to come *)
Kept(j) == [j EXCEPT !.got = Append(@, [file |-> j.cur, parent |-> j.parent])]

FreeSlotsUpTo(m) ==   \* mutant: one index too many
    {s \in Slots : table[m][s] = NoFile} \cup {Cardinality(Slots)}
FreeSlots(m) == {s \in Slots : table[m][s] = NoFile}
FirstFree(m) == {s \in FreeSlots(m) : \A r \in FreeSlots(m) : s <= r}

Call(t, op, path, to) ==
    /\ job[t] = Idle /\ MountOf[t] \in up
    /\ \E slot \in IF op \in Opening THEN FirstFree(MountOf[t])    \* none: -EMFILE
                                  ELSE {0} :
       LET j == [op |-> op, path |-> path, to |-> to, at |-> "walk", cur |-> Root,
                 parent |-> Root, todo |-> <<>>, got |-> <<>>, slot |-> slot,
                 list |-> "none", kids |-> {}, raced |-> FALSE]
       IN  Lookup(t, j, Lookups(op, path, to)[1])
    /\ UNCHANGED <<rows, nextId, table, fds, up>>

(* A process that dies takes its threads and its table of files with it.   *)
Dies(m) ==
    /\ up' = up \ {m}
    /\ table' = [table EXCEPT ![m] = [s \in Slots |-> NoFile]]
    /\ fds' = {d \in fds : d.mount # m}
    /\ job' = [t \in Threads |-> IF MountOf[t] = m THEN Idle ELSE job[t]]

(* The loop of myfs_file_get.  It frees what it has found so far and       *)
(* queries the next name.  A file that is not there and a query that       *)
(* failed are the same to it, and a parent that could not be queried is    *)
(* the root to myfs_db_file_swap.  myfs_db_file_query goes on to query all *)
(* the parents of what it has found, which never ends if they form a cycle.*)
Walk(t) ==
    LET j == job[t]
        faulty == t \in Faults
    IN  /\ j # Idle /\ j.at = "walk" /\ j.todo # <<>>
        /\ j.cur # NoFile /\ j.list # "broken"
        /\ \E found \in {Find(j.cur, Head(j.todo))} \cup (IF faulty THEN {NoFile} ELSE {}) :
              IF found = NoFile \/ found \in Below(Root)
              THEN /\ \E parent \in {ParentOf(found)} \cup (IF faulty THEN {Root} ELSE {}) :
                         job' = [job EXCEPT ![t] =
                                   Found([j EXCEPT !.todo = Tail(@)], found, parent)]
                   /\ UNCHANGED <<table, fds, up>>
              ELSE Dies(MountOf[t])
        /\ UNCHANGED <<rows, nextId>>

(* myfs_file_get reads file->file_id of a component that is not there, or  *)
(* myfs_file_free follows a child that is NULL.                            *)
Broken(t) == job[t].list = "broken" /\ (job[t].todo # <<>> \/ job[t].op = "rmdir")
WalkOffNull(t) ==
    /\ job[t] # Idle /\ job[t].at = "walk"
    /\ (job[t].cur = NoFile /\ job[t].todo # <<>>) \/ Broken(t)
    /\ Dies(MountOf[t])
    /\ UNCHANGED <<rows, nextId>>

(* myfs_db_file_query_children reads the ids of the children and queries   *)
(* them one by one.  It does not test whether the first query failed, nor  *)
(* whether a child was still there.                                        *)
List(t) ==
    /\ job[t] # Idle /\ job[t].at = "list"
    /\ LET kids == Children(job[t].cur)
       IN  \/ /\ job' = [job EXCEPT ![t].kids = kids,
                                    ![t].list = IF kids = {} THEN "none" ELSE "whole",
                                    ![t].at = IF kids = {} THEN "walk" ELSE "visit"]
              /\ UNCHANGED <<table, fds, up>>
           \/ t \in Faults /\ Dies(MountOf[t])
    /\ UNCHANGED <<rows, nextId>>

Visit(t) ==
    /\ job[t] # Idle /\ job[t].at = "visit"
    /\ \E kid \in job[t].kids,
          there \in {TRUE} \cup (IF t \in Faults THEN {FALSE} ELSE {}) :
          job' = [job EXCEPT
            ![t].kids = @ \ {kid},
            ![t].list = IF there /\ kid \in Files THEN @ ELSE "broken",
            ![t].at = IF job[t].kids = {kid} THEN "walk" ELSE "visit"]
    /\ UNCHANGED <<rows, nextId, table, fds, up>>

(* -ENOENT, or -EEXIST from the first lookup of myfs_rename_move *)
Refuse(t) ==
    /\ Resolved(t)
    /\ (job[t].cur = NoFile) # Probing(job[t])
    /\ Return(t)
    /\ UNCHANGED <<rows, nextId, table, fds, up>>

Proceeds(t) ==
    Resolved(t) /\ (job[t].cur = NoFile) = Probing(job[t]) /\ ~Broken(t)

(* The next path of a callback that changes nothing in between *)
LookupNext(t) ==
    /\ Proceeds(t) /\ job[t].op \in {"move", "swap"} /\ ~Last(job[t])
    /\ Lookup(t, Kept(job[t]), LookupsOf(job[t])[Len(job[t].got) + 2])
    /\ UNCHANGED <<rows, nextId, table, fds, up>>

(* The query that changes the tree (for an open, the truncation) fails,    *)
(* which is -EIO.                                                          *)
LastQuery(j) ==
    CASE j.op \in {"move", "swap"} -> Last(j)
      [] j.op = "create"           -> j.got = <<>>
      [] j.op = "rmdir"            -> j.list = "none"
      [] j.op \in {"opendir", "getattr"} -> FALSE
      [] OTHER                     -> TRUE
QueryFails(t) ==
    /\ t \in Faults
    /\ \/ Proceeds(t) /\ LastQuery(job[t])
       \/ job[t] # Idle /\ job[t].at = "text"
    /\ Return(t)
    /\ UNCHANGED <<rows, nextId, table, fds, up>>

-----------------------------------------------------------------------------
(* getattr, access and readlink return what was found, by its path; left   *)
(* out are the way over an open handle, and readlink's look at the type and *)
(* the data.                                                               *)
GetAttributes(t) ==
    /\ Proceeds(t) /\ job[t].op = "getattr"
    /\ Return(t)
    /\ UNCHANGED <<rows, nextId, table, fds, up>>

(* chmod, chown and utimens: an UPDATE of other columns than those that    *)
(* make the tree; by the path, not by the id of an open handle.            *)
Updated(t) == Executed(t, Idle, 0, FALSE)
SetAttributes(t) ==
    /\ Proceeds(t) /\ job[t].op = "setattr"
    /\ Updated(t)
    /\ UNCHANGED <<rows, nextId, table, fds, up>>

(* Mutant of Delete: a table without its foreign key. *)
DeleteOnly(t) ==
    /\ rows' = [i \in Files \ {job[t].cur} |-> rows[i]]
    /\ Executed(t, Idle, 0, FALSE)
    /\ UNCHANGED <<nextId, table, fds, up>>

(* DELETE FROM `files` *)
Delete(t) ==
    /\ rows' = [i \in Files \ Below(job[t].cur) |-> rows[i]]
    /\ Executed(t, Idle, 0, FALSE)
    /\ UNCHANGED <<nextId, table, fds, up>>

Unlink(t) ==
    /\ Proceeds(t) /\ job[t].op = "unlink"
    /\ Delete(t)

(* -ENOTEMPTY is for the children that were there when it looked. *)
Rmdir(t) ==
    /\ Proceeds(t) /\ job[t].op = "rmdir"
    /\ IF job[t].list = "none" THEN Delete(t)
       ELSE Return(t) /\ UNCHANGED <<rows, nextId, table, fds, up>>

(* myfs_db_file_create for mkdir, create and symlink.  The INSERT needs    *)
(* its parent and a name that is free.                                     *)
Insert(t) ==
    LET j == job[t]
        new == [parent |-> j.cur, name |-> Basename(j.path),
                type |-> Kinds[j.op], text |-> "none"]
    IN  /\ Proceeds(t) /\ j.op \in DOMAIN Kinds /\ j.got = <<>>
        /\ IF ~IsFile(j.cur) \/ ~NameFree(0, new.parent, new.name)
           THEN Return(t) /\ UNCHANGED <<rows, nextId>>
           ELSE /\ nextId <= MaxFiles
                /\ rows' = [i \in Files \cup {nextId} |-> IF i = nextId THEN new ELSE rows[i]]
                /\ nextId' = nextId + 1
                /\ Executed(t, Kept([j EXCEPT !.at = "id", !.cur = nextId]), nextId, FALSE)
        /\ UNCHANGED <<table, fds, up>>

InsertIdMax(t) == nextId - 1    \* mutant: the highest id there is
(* db_insert_id *)
InsertId(t) == job[t].cur

(* What follows the INSERT: an id of 0 is -EIO, create goes on to look for *)
(* a slot and the path, symlink to append its target.                      *)
ReadId(t) ==
    LET j == job[t]
        id == InsertId(t)
        m == MountOf[t]
    IN  /\ j # Idle /\ j.at = "id"
        /\ CASE id = 0 \/ j.op = "mkdir" -> Return(t)
             [] id # 0 /\ j.op = "symlink" ->
                    job' = [job EXCEPT ![t].at = "text", ![t].cur = id]
             [] id # 0 /\ j.op = "create" ->
                    IF FreeSlots(m) = {} THEN Return(t)
                    ELSE \E slot \in FirstFree(m) :
                            Lookup(t, [j EXCEPT !.slot = slot], j.path)
        /\ UNCHANGED <<rows, nextId, table, fds, up>>

(* myfs_db_file_append puts the target into the file of that id, if there  *)
(* still is one.  (What it does to the blocks of a file is in BlockStore.) *)
(* Until its COMMIT the insert id is that of a block.                      *)
AppendTarget(t) ==
    LET i == job[t].cur
        own == i = job[t].got[1].file /\ rows[i].text = "none"
    IN  /\ job[t] # Idle /\ job[t].at = "text"
        /\ IF i \in Files
           THEN rows' = [rows EXCEPT ![i].text = IF own THEN "own" ELSE "foreign"]
           ELSE UNCHANGED rows
        /\ \E id \in 0..MaxFiles : Executed(t, Idle, id, FALSE)
        /\ UNCHANGED <<nextId, table, fds, up>>

(* UPDATE `files` SET `parent_id`, `name`: no row, no error *)
Move(t) ==
    LET i == job[t].got[2].file
        dir == job[t].cur
        name == Basename(job[t].to)
    IN  /\ Proceeds(t) /\ job[t].op = "move" /\ Last(job[t])
        /\ IF i \in Files /\ (~IsFile(dir) \/ ~NameFree(i, dir, name))
           THEN Return(t) /\ UNCHANGED rows
           ELSE /\ rows' = [k \in Files |-> IF k = i THEN [rows[k] EXCEPT !.parent = dir, !.name = name]
                                            ELSE rows[k]]
                /\ Executed(t, Idle, 0, rows' # rows)
        /\ UNCHANGED <<nextId, table, fds, up>>

SwappedInto(i, j, parentI, parentJ) ==   \* mutant: the files, not their parents
    [k \in Files |-> CASE k = j -> [rows[k] EXCEPT !.parent = i]
                       [] k = i /\ k # j -> [rows[k] EXCEPT !.parent = j]
                       [] OTHER -> rows[k]]
(* myfs_db_file_swap: both parents as they were when they were looked up;  *)
(* the names stay.  It is rolled back if one of the updates is refused.    *)
Swapped(i, j, parentI, parentJ) ==
    [k \in Files |-> CASE k = j -> [rows[k] EXCEPT !.parent = parentI]
                       [] k = i /\ k # j -> [rows[k] EXCEPT !.parent = parentJ]
                       [] OTHER -> rows[k]]

Swap(t) ==
    LET i == job[t].got[1].file
        pi == job[t].got[1].parent
        j == job[t].cur
        pj == job[t].parent
    IN  /\ Proceeds(t) /\ job[t].op = "swap" /\ Last(job[t])
        /\ IF /\ i \in Files => IsFile(pj) /\ NameFree(i, pj, rows[i].name)
              /\ j \in Files => /\ IsFile(pi)
                                /\ \A k \in Files \ {j} :
                                      LET p == IF k = i THEN pj ELSE rows[k].parent
                                      IN  ~(p = pi /\ rows[k].name = rows[j].name)
           THEN rows' = Swapped(i, j, pi, pj)
           ELSE UNCHANGED rows
        /\ Executed(t, Idle, 0, rows' # rows)
        /\ UNCHANGED <<nextId, table, fds, up>>

-----------------------------------------------------------------------------
(* The end of myfs_open_helper: the file goes into the slot that was free  *)
(* when the call began.                                                    *)
Store(t) ==
    LET m == MountOf[t]
        j == job[t]
    IN  /\ Proceeds(t)
        /\ j.op \in Opening \/ (j.op = "create" /\ Len(j.got) = 1)
        /\ table' = [table EXCEPT ![m][j.slot] = [file |-> j.cur, whole |-> j.list # "broken"]]
        /\ fds' = fds \cup {[mount |-> m, slot |-> j.slot, file |-> j.cur, by |-> t]}
        /\ Return(t)
        /\ UNCHANGED <<rows, nextId, up>>

(* Mutant of Release: the pointer is not reset. *)
ReleaseKeepsSlot(t, d) ==
    /\ job[t] = Idle /\ d \in fds /\ d.mount = MountOf[t]
    /\ fds' = fds \ {d}
    /\ UNCHANGED <<rows, nextId, table, job, up>>

(* myfs_release_helper frees what the slot holds, NULL too, with its       *)
(* children, NULL too.                                                     *)
Release(t, d) ==
    /\ job[t] = Idle /\ d \in fds /\ d.mount = MountOf[t]
    /\ LET entry == table[d.mount][d.slot]
       IN  IF entry = NoFile \/ (entry # NoFile /\ ~entry.whole) THEN Dies(d.mount)
           ELSE /\ table' = [table EXCEPT ![d.mount][d.slot] = NoFile]
                /\ fds' = fds \ {d}
                /\ UNCHANGED <<job, up>>
    /\ UNCHANGED <<rows, nextId>>

(* myfs_readdir gives out the names of the children, which needs them all. *)
ReadDir(t, d) ==
    /\ job[t] = Idle /\ d \in fds /\ d.mount = MountOf[t]
    /\ table[d.mount][d.slot] # NoFile /\ ~table[d.mount][d.slot].whole
    /\ Dies(d.mount)
    /\ UNCHANGED <<rows, nextId>>

(* The kernel does not let a mount move a directory into itself. *)
Within(path, to) == Len(path) <= Len(to) /\ SubSeq(to, 1, Len(path)) = path
Passes(op, path, to) ==
    /\ op \in {"move", "swap"} => ~Within(path, to)
    /\ op = "swap" => ~Within(to, path)

Remount(m) ==
    /\ m \notin up
    /\ up' = up \cup {m}
    /\ UNCHANGED <<rows, nextId, table, fds, job>>

Act ==
    \/ \E t \in Threads :
        \/ \E r \in requests[t] : Passes(r.op, r.path, r.to) /\ Call(t, r.op, r.path, r.to)
        \/ Walk(t) \/ WalkOffNull(t) \/ List(t) \/ Visit(t)
        \/ Refuse(t) \/ LookupNext(t) \/ QueryFails(t)
        \/ GetAttributes(t) \/ SetAttributes(t) \/ Unlink(t) \/ Rmdir(t)
        \/ Insert(t) \/ ReadId(t) \/ AppendTarget(t)
        \/ Move(t) \/ Swap(t) \/ Store(t)
        \/ \E d \in fds : Release(t, d) \/ ReadDir(t, d)
    \/ \E m \in Mounts : Remount(m)

Next == Act /\ UNCHANGED requests

Spec == Init /\ [][Next]_vars

-----------------------------------------------------------------------------
(* No directory has two files of one name, whichever mounts create, move   *)
(* and swap files at the same time: no callback checks it in time.         *)
NamesAreUnique ==
    \A i, j \in Files :
        rows[i].parent = rows[j].parent /\ rows[i].name = rows[j].name => i = j

(* Every file is in a directory that exists: a directory that goes takes   *)
(* along what another mount puts into it at the same time.                 *)
ParentsExist == \A i \in Files : rows[i].parent \in Files \cup {Root}

(* A move or a swap cuts nothing off from the root, unless another one     *)
(* changed the tree between its lookups and its UPDATE: creations and      *)
(* deletions of other mounts in between do no harm.                        *)
InOneTree == Files \subseteq Below(Root)
MovesKeepTheTree ==
    [][InOneTree => \/ InOneTree'
                    \/ \E t \in Threads : job[t] # Idle /\ job[t].raced /\ job'[t] = Idle]_vars

(* An open file has a slot of its own, which holds it until it is          *)
(* released, and no slot is lost, whatever becomes of a call that fails.   *)
SlotsMatchFiles ==
    /\ \A d, e \in fds : d.mount = e.mount /\ d.slot = e.slot => d = e
    /\ \A d \in fds : /\ table[d.mount][d.slot] # NoFile
                      /\ table[d.mount][d.slot].file = d.file
    /\ \A m \in Mounts, s \in Slots :
          table[m][s] # NoFile => \E d \in fds : d.mount = m /\ d.slot = s

(* A target is appended to the link it was given for, whatever the other   *)
(* mounts insert at the same time: the insert id is that of a connection.  *)
(* (Two threads of one mount share theirs.)                                *)
LinksHoldOwnTarget ==
    \A i \in Files : rows[i].text # "none" => rows[i].type = "Soft Link" /\ rows[i].text = "own"

(* myfs.c: myfs_file_get gives "The MyFS file or `NULL` if an error        *)
(* occurred."  No callback brings the process down.                        *)
NeverDies == up = Mounts

(* myfs.h: files is "An array of open file descriptors for FUSE, indexed   *)
(* by file descriptor."  Each open file has an index of its own.           *)
OneFilePerSlot == \A d, e \in fds : d.mount = e.mount /\ d.slot = e.slot => d = e
=============================================================================
