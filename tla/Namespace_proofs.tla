-------------------------- MODULE Namespace_proofs --------------------------
(***************************************************************************)
(* Theorems about Namespace, for any number of mounts, threads, names,     *)
(* paths, files and slots, and any faults.                                 *)
(***************************************************************************)
EXTENDS Namespace, SequenceTheorems, TLAPS, WellFoundedInduction

-----------------------------------------------------------------------------
(* What the operators of the module return                                 *)

(* A cascade takes the children of what it takes.                          *)
LEMMA BelowIsClosed ==
  ASSUME NEW i, NEW j \in Files, rows[j].parent \in Below(i)
  PROVE  j \in Below(i)
BY DEF Below

(* The parts of a path, and the paths a callback resolves                  *)
LEMMA PartsOfPaths ==
  ASSUME NEW path \in Paths
  PROVE  Dirname(path) \in Seq(Names) /\ Basename(path) \in Names
<1>1. path \in Seq(Names) /\ path # <<>>
  BY PathAssumption
<1>2. Len(path) \in Nat \ {0}
  BY <1>1, EmptySeq
<1>3. \A k \in 1..(Len(path) - 1) : path[k] \in Names
  BY <1>1, <1>2, ElementOfSeq
<1>4. Dirname(path) \in Seq(Names)
  BY <1>2, <1>3, SubSeqProperties DEF Dirname
<1>5. Basename(path) \in Names
  BY <1>1, <1>2, ElementOfSeq DEF Basename
<1> QED
  BY <1>4, <1>5

LEMMA LookupsAreTyped ==
  ASSUME NEW op \in Callbacks, NEW path \in Paths, NEW to \in Paths
  PROVE  /\ Lookups(op, path, to)[1] \in Seq(Names)
         /\ op = "create" => Lookups(op, path, to)[2] \in Seq(Names)
         /\ op = "move" => /\ Len(Lookups(op, path, to)) = 3
                           /\ Lookups(op, path, to)[2] \in Seq(Names)
                           /\ Lookups(op, path, to)[3] \in Seq(Names)
         /\ op = "swap" => /\ Len(Lookups(op, path, to)) = 2
                           /\ Lookups(op, path, to)[2] \in Seq(Names)
<1>1. path \in Seq(Names) /\ to \in Seq(Names)
  BY PathAssumption
<1>2. Dirname(path) \in Seq(Names) /\ Dirname(to) \in Seq(Names) /\ Basename(to) \in Names
  BY PartsOfPaths
<1>3. Tail1[Basename(to)] \in Seq(Names)
  BY <1>2, PathAssumption
<1>4. CASE op \in {"unlink", "rmdir", "open", "opendir", "getattr", "setattr"}
  BY <1>1, <1>4 DEF Lookups
<1>5. CASE op \in {"mkdir", "symlink"}
  BY <1>2, <1>5 DEF Lookups
<1>6. CASE op = "create"
  BY <1>1, <1>2, <1>6 DEF Lookups
<1>7. CASE op = "move"
  <2>1. Lookups(op, path, to) = <<Tail1[Basename(to)], path, Dirname(to)>>
    BY <1>7 DEF Lookups
  <2> QED
    BY <1>1, <1>2, <1>3, <1>7, <2>1
<1>8. CASE op = "swap"
  BY <1>1, <1>8 DEF Lookups
<1> QED
  BY <1>4, <1>5, <1>6, <1>7, <1>8 DEF Callbacks

LEMMA FindsAFile ==
  ASSUME NEW parent, NEW name, nextId \in 1..(MaxFiles + 1), Files \subseteq 1..(nextId - 1)
  PROVE  Find(parent, name) \in FileOrNone
<1>1. Files \subseteq 0..MaxFiles
  BY BoundAssumption
<1> QED
  BY <1>1 DEF Find, FileOrNone

-----------------------------------------------------------------------------
(* Types                                                                   *)

Results == [file : FileOrNone, parent : 0..MaxFiles]
Jobs == [op : Callbacks, path : Paths, to : Paths,
         at : {"walk", "list", "visit", "id", "text"},
         cur : FileOrNone, parent : 0..MaxFiles, todo : Seq(Names),
         got : Seq(Results), slot : Slots \cup {0},
         list : {"none", "whole", "broken"}, kids : SUBSET (1..MaxFiles),
         raced : BOOLEAN]

(* A job that has chosen a slot, when the INSERT of a create is behind it   *)
Chosen(j) == j.op \in Opening \/ (j.op = "create" /\ j.got # <<>>)

(* What a job has before a lookup, and between any two steps               *)
Ready(j) ==
    /\ j \in Jobs
    /\ Chosen(j) => j.slot \in Slots
    /\ j.op = "move" => Len(j.got) <= 2
    /\ j.op = "swap" => Len(j.got) <= 1
WellFormed(j) ==
    /\ j \in Jobs
    /\ j.at # "id" => Ready(j)
    /\ j.at # "walk" => j.cur # NoFile
    /\ j.at = "id" => j.op \in DOMAIN Kinds
    /\ j.at = "text" => j.op = "symlink"

RowsOK ==
    /\ nextId \in 1..(MaxFiles + 1)
    /\ Files \subseteq 1..(nextId - 1)
    /\ \A i \in Files : rows[i] \in Row
TableOK ==
    /\ table \in [Mounts -> [Slots -> Entry \cup {NoFile}]]
    /\ fds \subseteq [mount : Mounts, slot : Slots, file : 0..MaxFiles, by : Threads]
    /\ up \subseteq Mounts
JobsOK ==
    /\ job \in [Threads -> Jobs \cup {Idle}]
    /\ \A t \in Threads : job[t] # Idle => MountOf[t] \in up /\ WellFormed(job[t])
TypeInv == RowsOK /\ TableOK /\ JobsOK
RequestsOK == requests \in [Threads -> SUBSET Requests]

LEMMA TypeInvIsEnough == TypeInv /\ RequestsOK => TypeOK
<1> SUFFICES ASSUME TypeInv, RequestsOK PROVE TypeOK
  OBVIOUS
<1>1. ASSUME NEW t \in Threads, job[t] # Idle
      PROVE  /\ MountOf[t] \in up
             /\ job[t].at \in {"walk", "list", "visit", "id", "text"}
             /\ job[t].cur \in FileOrNone
             /\ job[t].at # "walk" => job[t].cur # NoFile
             /\ job[t].todo \in Seq(Names)
             /\ job[t].kids \subseteq 1..MaxFiles
             /\ \A i \in DOMAIN job[t].got : job[t].got[i].file \in FileOrNone
  <2>1. job[t] \in Jobs
    BY <1>1 DEF TypeInv, JobsOK
  <2>2. job[t].got \in Seq(Results)
    BY <2>1 DEF Jobs
  <2>3. \A i \in DOMAIN job[t].got : job[t].got[i] \in Results
    BY <2>2, LenProperties, ElementOfSeq
  <2> QED
    BY <1>1, <2>1, <2>3 DEF TypeInv, JobsOK, WellFormed, Jobs, Results
<1> QED
  BY <1>1 DEF TypeOK, TypeInv, RowsOK, TableOK, RequestsOK

(* A lookup that begins or goes on leaves a job well formed.               *)
LEMMA FoundIsTyped ==
  ASSUME NEW j, Ready(j), NEW file \in FileOrNone, NEW parent \in 0..MaxFiles
  PROVE  /\ WellFormed(Found(j, file, parent))
         /\ Found(j, file, parent).at \in {"walk", "list"}
         /\ Found(j, file, parent).op = j.op
         /\ Found(j, file, parent).got = j.got
         /\ Found(j, file, parent).slot = j.slot
<1> DEFINE k == Found(j, file, parent)
<1>1. Root \in 0..MaxFiles
  BY BoundAssumption DEF Root
<1>2. k \in Jobs
  BY <1>1 DEF Found, Ready, Jobs
<1>3. k.at \in {"walk", "list"} /\ k.op = j.op /\ k.got = j.got /\ k.slot = j.slot
  BY DEF Found, Ready, Jobs
<1>4. k.at = "list" => k.cur # NoFile
  BY DEF Found, Ready, Jobs
<1> HIDE DEF k
<1>5. Ready(k)
  BY <1>2, <1>3 DEF Ready, Chosen
<1> QED
  BY <1>2, <1>3, <1>4, <1>5 DEF WellFormed, k

LEMMA KeptIsTyped ==
  ASSUME NEW j \in Jobs
  PROVE  /\ Kept(j) \in Jobs
         /\ Kept(j).got # <<>>
         /\ Len(Kept(j).got) = Len(j.got) + 1
         /\ Kept(j).op = j.op /\ Kept(j).at = j.at /\ Kept(j).cur = j.cur
         /\ Kept(j).slot = j.slot
         /\ Kept(j).path = j.path /\ Kept(j).to = j.to
<1> DEFINE r == [file |-> j.cur, parent |-> j.parent]
<1>1. r \in Results /\ j.got \in Seq(Results)
  BY DEF Jobs, Results
<1>2. /\ Append(j.got, r) \in Seq(Results)
      /\ Append(j.got, r) # <<>>
      /\ Len(Append(j.got, r)) = Len(j.got) + 1
  BY <1>1, AppendProperties
<1>3. Kept(j) = [j EXCEPT !.got = Append(j.got, r)]
  BY DEF Kept
<1> HIDE DEF r
<1> QED
  BY <1>2, <1>3 DEF Jobs

LEMMA FilesAreBounded ==
  ASSUME RowsOK
  PROVE  /\ Files \subseteq 1..MaxFiles
         /\ \A i \in Files : rows[i].parent \in 0..MaxFiles
         /\ \A i : ParentOf(i) \in 0..MaxFiles
         /\ \A i \in Files : i \in FileOrNone
<1>1. Files \subseteq 1..MaxFiles
  BY BoundAssumption DEF RowsOK
<1>2. \A i \in Files : rows[i].parent \in 0..MaxFiles
  BY DEF RowsOK, Row
<1>3. Root \in 0..MaxFiles
  BY BoundAssumption DEF Root
<1>4. \A i \in Files : i \in FileOrNone
  BY <1>1, BoundAssumption DEF FileOrNone
<1> QED
  BY <1>1, <1>2, <1>3, <1>4 DEF ParentOf

(* What a step may do to the jobs                                          *)
LEMMA OneJob ==
  ASSUME JobsOK, NEW t \in Threads, NEW k, job' = [job EXCEPT ![t] = k], up' = up,
         k = Idle \/ (WellFormed(k) /\ MountOf[t] \in up)
  PROVE  JobsOK'
<1>1. job' \in [Threads -> Jobs \cup {Idle}]
  BY DEF JobsOK, WellFormed
<1>2. ASSUME NEW u \in Threads, job'[u] # Idle
      PROVE  MountOf[u] \in up' /\ WellFormed(job'[u])
  BY <1>2 DEF JobsOK
<1> QED
  BY <1>1, <1>2 DEF JobsOK

LEMMA LookupIsTyped ==
  ASSUME JobsOK, NEW t \in Threads, NEW j, Ready(j), NEW path \in Seq(Names),
         Lookup(t, j, path), MountOf[t] \in up, up' = up
  PROVE  JobsOK'
<1>1. PICK root \in {Root, NoFile} :
          job' = [job EXCEPT ![t] = Found([j EXCEPT !.todo = path], root, Root)]
  BY DEF Lookup
<1>2. Root \in 0..MaxFiles /\ root \in FileOrNone
  BY BoundAssumption DEF Root, FileOrNone
<1>3. Ready([j EXCEPT !.todo = path])
  BY DEF Ready, Jobs, Chosen
<1>4. WellFormed(Found([j EXCEPT !.todo = path], root, Root))
  BY <1>2, <1>3, FoundIsTyped
<1> QED
  BY <1>1, <1>4, OneJob

LEMMA ExecutedIsTyped ==
  ASSUME JobsOK, NEW t \in Threads, NEW j, NEW id \in 0..MaxFiles, NEW moved \in BOOLEAN,
         Executed(t, j, id, moved), up' = up,
         j = Idle \/ (WellFormed(j) /\ MountOf[t] \in up)
  PROVE  JobsOK'
<1>1. \A u \in Threads : job'[u] =
        CASE u = t -> j
          [] u # t /\ job[u] # Idle /\ job[u].at = "id" /\ MountOf[u] = MountOf[t] ->
                [job[u] EXCEPT !.cur = id]
          [] u # t /\ job[u].op \in {"move", "swap"} -> [job[u] EXCEPT !.raced = @ \/ moved]
          [] OTHER -> job[u]
  BY DEF Executed
<1>2. ASSUME NEW u \in Threads
      PROVE  job'[u] = Idle \/ (WellFormed(job'[u]) /\ MountOf[u] \in up)
  <2>1. CASE u = t
    BY <1>1, <2>1
  <2>2. CASE u # t /\ job[u] # Idle /\ job[u].at = "id" /\ MountOf[u] = MountOf[t]
    <3>1. job[u].op \in DOMAIN Kinds /\ job[u] \in Jobs /\ MountOf[u] \in up
      BY <2>2 DEF JobsOK, WellFormed
    <3>2. job'[u] = [job[u] EXCEPT !.cur = id]
      BY <1>1, <2>2, <3>1 DEF Kinds
    <3>3. id \in FileOrNone /\ id # NoFile
      BY BoundAssumption DEF FileOrNone
    <3>4. /\ job'[u] \in Jobs /\ job'[u].at = "id" /\ job'[u].op = job[u].op
          /\ job'[u].cur = id
      BY <2>2, <3>1, <3>2, <3>3 DEF Jobs
    <3> QED
      BY <3>1, <3>3, <3>4 DEF WellFormed
  <2>3. CASE /\ u # t
             /\ ~(job[u] # Idle /\ job[u].at = "id" /\ MountOf[u] = MountOf[t])
             /\ job[u].op \in {"move", "swap"}
    <3>1. job'[u] = [job[u] EXCEPT !.raced = @ \/ moved]
      BY <1>1, <2>3
    <3>2. job[u] # Idle
      BY <2>3 DEF Idle
    <3>3. job[u] \in Jobs /\ WellFormed(job[u]) /\ MountOf[u] \in up
      BY <3>2 DEF JobsOK, WellFormed
    <3>4. (job[u].raced \/ moved) \in BOOLEAN
      OBVIOUS
    <3>5. /\ job'[u] \in Jobs /\ job'[u].at = job[u].at /\ job'[u].op = job[u].op
          /\ job'[u].cur = job[u].cur /\ job'[u].got = job[u].got /\ job'[u].slot = job[u].slot
      BY <3>1, <3>3, <3>4 DEF Jobs
    <3> QED
      BY <3>3, <3>5 DEF WellFormed, Ready, Chosen
  <2>4. CASE /\ u # t
             /\ ~(job[u] # Idle /\ job[u].at = "id" /\ MountOf[u] = MountOf[t])
             /\ job[u].op \notin {"move", "swap"}
    <3>1. job'[u] = job[u]
      BY <1>1, <2>4
    <3> QED
      BY <3>1 DEF JobsOK
  <2> QED
    BY <2>1, <2>2, <2>3, <2>4
<1>3. job' \in [Threads -> Jobs \cup {Idle}]
  <2>1. \A u \in Threads : job'[u] \in Jobs \cup {Idle}
    BY <1>2 DEF WellFormed
  <2>2. job' = [u \in Threads |-> job'[u]]
    BY DEF Executed
  <2> QED
    BY <2>1, <2>2
<1> QED
  BY <1>2, <1>3 DEF JobsOK

LEMMA DiesIsTyped ==
  ASSUME TypeInv, NEW m \in Mounts, Dies(m)
  PROVE  JobsOK' /\ TableOK'
<1>1. JobsOK'
  BY DEF TypeInv, JobsOK, Dies
<1>2. TableOK'
  BY DEF TypeInv, TableOK, Dies
<1> QED
  BY <1>1, <1>2

-----------------------------------------------------------------------------
(* Each action keeps the types.                                            *)

LEMMA SameRows == ASSUME RowsOK, UNCHANGED <<rows, nextId>> PROVE RowsOK'
BY DEF RowsOK, Files

LEMMA SameTable == ASSUME TableOK, UNCHANGED <<table, fds, up>> PROVE TableOK'
BY DEF TableOK

LEMMA JobIsTyped ==
  ASSUME JobsOK, NEW t \in Threads, job[t] # Idle
  PROVE  job[t] \in Jobs /\ WellFormed(job[t]) /\ MountOf[t] \in up
BY DEF JobsOK, WellFormed

LEMMA ReturnIsTyped ==
  ASSUME JobsOK, NEW t \in Threads, Return(t), up' = up
  PROVE  JobsOK'
<1>1. job' = [job EXCEPT ![t] = Idle]
  BY DEF Return
<1> QED
  BY <1>1, OneJob

(* A call that opens something takes a free slot.                          *)
LEMMA CallDoes ==
  ASSUME TypeInv, NEW t \in Threads, NEW op \in Callbacks, NEW path \in Paths, NEW to \in Paths,
         Call(t, op, path, to)
  PROVE  \E j, todo :
            /\ Ready(j) /\ j.op = op /\ j.got = <<>> /\ todo \in Seq(Names)
            /\ op \in Opening => j.slot \in FreeSlots(MountOf[t])
            /\ Lookup(t, j, todo) /\ job[t] = Idle /\ MountOf[t] \in up
            /\ UNCHANGED <<rows, nextId, table, fds, up>>
<1>1. PICK slot \in IF op \in Opening THEN FirstFree(MountOf[t]) ELSE {0} :
        Lookup(t, [op |-> op, path |-> path, to |-> to, at |-> "walk", cur |-> Root,
                   parent |-> Root, todo |-> <<>>, got |-> <<>>, slot |-> slot,
                   list |-> "none", kids |-> {}, raced |-> FALSE],
               Lookups(op, path, to)[1])
  BY DEF Call
<1> DEFINE j == [op |-> op, path |-> path, to |-> to, at |-> "walk", cur |-> Root,
                 parent |-> Root, todo |-> <<>>, got |-> <<>>, slot |-> slot,
                 list |-> "none", kids |-> {}, raced |-> FALSE]
<1>3. /\ slot \in Slots \cup {0}
      /\ op \in Opening => slot \in Slots /\ slot \in FreeSlots(MountOf[t])
  BY DEF FirstFree, FreeSlots
<1>4. Ready(j)
  <2>1. <<>> \in Seq(Names) /\ <<>> \in Seq(Results) /\ Len(<<>>) = 0
    BY EmptySeq
  <2>2. Root \in 0..MaxFiles /\ Root \in FileOrNone
    BY BoundAssumption DEF Root, FileOrNone
  <2>3. j \in Jobs
    BY <1>3, <2>1, <2>2 DEF Jobs
  <2> QED
    BY <1>3, <2>1, <2>3 DEF Ready, Chosen
<1>5. Lookups(op, path, to)[1] \in Seq(Names)
  BY LookupsAreTyped
<1>6. j.op = op /\ j.got = <<>> /\ j.slot = slot
  OBVIOUS
<1>7. Lookup(t, j, Lookups(op, path, to)[1])
  BY <1>1
<1> HIDE DEF j
<1> QED
  BY <1>3, <1>4, <1>5, <1>6, <1>7 DEF Call

LEMMA CallIsTyped ==
  ASSUME TypeInv, NEW t \in Threads, NEW op \in Callbacks, NEW path \in Paths, NEW to \in Paths,
         Call(t, op, path, to)
  PROVE  TypeInv'
<1>1. PICK j, todo :
         /\ Ready(j) /\ todo \in Seq(Names) /\ Lookup(t, j, todo) /\ MountOf[t] \in up
         /\ UNCHANGED <<rows, nextId, table, fds, up>>
  BY CallDoes
<1> QED
  BY <1>1, LookupIsTyped, SameRows, SameTable DEF TypeInv

LEMMA WalkIsTyped ==
  ASSUME TypeInv, NEW t \in Threads, Walk(t)
  PROVE  TypeInv'
<1> DEFINE j == job[t]
<1>1. j \in Jobs /\ WellFormed(j) /\ MountOf[t] \in up /\ j.at = "walk" /\ j.todo # <<>>
  BY JobIsTyped DEF Walk, TypeInv
<1>2. Tail(j.todo) \in Seq(Names)
  BY <1>1, HeadTailProperties DEF Jobs
<1>3. PICK found \in {Find(j.cur, Head(j.todo)), NoFile} :
        IF found = NoFile \/ found \in Below(Root)
        THEN /\ \E parent \in {ParentOf(found), Root} :
                   job' = [job EXCEPT ![t] = Found([j EXCEPT !.todo = Tail(@)], found, parent)]
             /\ UNCHANGED <<table, fds, up>>
        ELSE Dies(MountOf[t])
  BY DEF Walk
<1>4. JobsOK' /\ TableOK'
  <2>1. CASE found = NoFile \/ found \in Below(Root)
    <3>1. PICK parent \in {ParentOf(found), Root} :
             job' = [job EXCEPT ![t] = Found([j EXCEPT !.todo = Tail(j.todo)], found, parent)]
      BY <1>3, <2>1
    <3>2. found \in FileOrNone
      BY FindsAFile DEF TypeInv, RowsOK, FileOrNone
    <3>3. parent \in 0..MaxFiles
      BY FilesAreBounded, BoundAssumption DEF TypeInv, Root
    <3>4. Ready([j EXCEPT !.todo = Tail(j.todo)])
      <4>1. Ready(j)
        BY <1>1 DEF WellFormed
      <4> HIDE DEF j
      <4> QED
        BY <1>2, <4>1 DEF Ready, Jobs, Chosen
    <3>5. WellFormed(Found([j EXCEPT !.todo = Tail(j.todo)], found, parent))
      BY <3>2, <3>3, <3>4, FoundIsTyped
    <3>6. UNCHANGED <<table, fds, up>>
      BY <1>3, <2>1
    <3> QED
      BY <1>1, <3>1, <3>5, <3>6, OneJob, SameTable DEF TypeInv
  <2>2. CASE ~(found = NoFile \/ found \in Below(Root))
    <3>1. Dies(MountOf[t]) /\ MountOf[t] \in Mounts
      BY <1>3, <2>2, MountAssumption
    <3> QED
      BY <3>1, DiesIsTyped
  <2> QED
    BY <2>1, <2>2
<1> QED
  BY <1>4, SameRows DEF Walk, TypeInv

LEMMA ListIsTyped ==
  ASSUME TypeInv, NEW t \in Threads, List(t)
  PROVE  TypeInv'
<1> DEFINE kids == Children(job[t].cur)
           k == [job[t] EXCEPT !.kids = kids,
                               !.list = IF kids = {} THEN "none" ELSE "whole",
                               !.at = IF kids = {} THEN "walk" ELSE "visit"]
<1>1. job[t] # Idle /\ job[t] \in Jobs /\ WellFormed(job[t]) /\ MountOf[t] \in up /\ job[t].at = "list"
  BY JobIsTyped DEF List, TypeInv
<1>2. CASE job' = [job EXCEPT ![t].kids = kids,
                              ![t].list = IF kids = {} THEN "none" ELSE "whole",
                              ![t].at = IF kids = {} THEN "walk" ELSE "visit"]
           /\ UNCHANGED <<table, fds, up>>
  <2>1. kids \subseteq 1..MaxFiles
    BY FilesAreBounded DEF Children, TypeInv
  <2> HIDE DEF kids
  <2>2. job' = [job EXCEPT ![t] = k]
    BY <1>1, <1>2 DEF TypeInv, JobsOK
  <2>3. WellFormed(k)
    <3> QED
      BY <1>1, <2>1 DEF WellFormed, Ready, Jobs, Chosen
  <2> HIDE DEF k
  <2> QED
    BY <1>1, <1>2, <2>2, <2>3, OneJob, SameTable, SameRows DEF List, TypeInv
<1>3. CASE Dies(MountOf[t])
  BY <1>3, MountAssumption, DiesIsTyped, SameRows DEF List, TypeInv
<1> QED
  BY <1>2, <1>3 DEF List

LEMMA VisitIsTyped ==
  ASSUME TypeInv, NEW t \in Threads, Visit(t)
  PROVE  TypeInv'
<1>1. job[t] # Idle /\ job[t] \in Jobs /\ WellFormed(job[t]) /\ MountOf[t] \in up /\ job[t].at = "visit"
  BY JobIsTyped DEF Visit, TypeInv
<1>2. PICK kid \in job[t].kids, there \in BOOLEAN :
        job' = [job EXCEPT
            ![t].kids = @ \ {kid},
            ![t].list = IF there /\ kid \in Files THEN @ ELSE "broken",
            ![t].at = IF job[t].kids = {kid} THEN "walk" ELSE "visit"]
  BY DEF Visit
<1> DEFINE k == [job[t] EXCEPT !.kids = job[t].kids \ {kid},
                   !.list = IF there /\ kid \in Files THEN job[t].list ELSE "broken",
                   !.at = IF job[t].kids = {kid} THEN "walk" ELSE "visit"]
<1>3. job' = [job EXCEPT ![t] = k]
  BY <1>1, <1>2 DEF TypeInv, JobsOK
<1>4. WellFormed(k)
  BY <1>1 DEF WellFormed, Ready, Jobs, Chosen
<1> HIDE DEF k
<1> QED
  BY <1>1, <1>3, <1>4, OneJob, SameTable, SameRows DEF Visit, TypeInv

LEMMA LookupNextDoes ==
  ASSUME TypeInv, NEW t \in Threads, LookupNext(t)
  PROVE  \E todo \in Seq(Names) :
            /\ job[t] # Idle /\ job[t] \in Jobs /\ job[t].op \in {"move", "swap"}
            /\ MountOf[t] \in up
            /\ Ready(Kept(job[t])) /\ Lookup(t, Kept(job[t]), todo)
            /\ UNCHANGED <<rows, nextId, table, fds, up>>
<1> DEFINE j == job[t]
           path == LookupsOf(j)[Len(j.got) + 2]
<1>1. /\ j # Idle /\ j \in Jobs /\ WellFormed(j) /\ MountOf[t] \in up
      /\ j.at = "walk" /\ j.op \in {"move", "swap"} /\ ~Last(j)
  BY JobIsTyped DEF LookupNext, Proceeds, Resolved, TypeInv
<1>2. Len(j.got) \in Nat
  BY <1>1, LenProperties DEF Jobs
<1>3. /\ path \in Seq(Names)
      /\ j.op = "move" => Len(j.got) <= 1
      /\ j.op = "swap" => Len(j.got) <= 0
  <2>1. /\ j.op \in Callbacks /\ j.path \in Paths /\ j.to \in Paths
        /\ j.op = "move" => Len(j.got) <= 2
        /\ j.op = "swap" => Len(j.got) <= 1
    BY <1>1 DEF Jobs, WellFormed, Ready
  <2>2. Len(j.got) + 1 # Len(LookupsOf(j))
    BY <1>1 DEF Last
  <2>3. CASE j.op = "move"
    <3>1. /\ Len(LookupsOf(j)) = 3 /\ LookupsOf(j)[2] \in Seq(Names)
          /\ LookupsOf(j)[3] \in Seq(Names)
      BY <2>1, <2>3, LookupsAreTyped DEF LookupsOf
    <3>2. Len(j.got) = 0 \/ Len(j.got) = 1
      <4>1. \A n \in Nat : n <= 2 /\ n + 1 # 3 => n = 0 \/ n = 1
        OBVIOUS
      <4>2. Len(j.got) <= 2 /\ Len(j.got) + 1 # 3
        BY <2>1, <2>2, <2>3, <3>1
      <4> QED
        BY <1>2, <4>1, <4>2
    <3>3. (Len(j.got) + 2 = 2 \/ Len(j.got) + 2 = 3) /\ Len(j.got) <= 1
      <4>1. \A n : n = 0 \/ n = 1 => (n + 2 = 2 \/ n + 2 = 3) /\ n <= 1
        OBVIOUS
      <4> QED
        BY <3>2, <4>1, Zenon
    <3>4. path \in Seq(Names)
      BY <3>1, <3>3
    <3> QED
      BY <2>3, <3>3, <3>4
  <2>4. CASE j.op = "swap"
    <3>1. Len(LookupsOf(j)) = 2 /\ LookupsOf(j)[2] \in Seq(Names)
      BY <2>1, <2>4, LookupsAreTyped DEF LookupsOf
    <3>2. Len(j.got) = 0
      <4>1. \A n \in Nat : n <= 1 /\ n + 1 # 2 => n = 0
        OBVIOUS
      <4>2. Len(j.got) <= 1 /\ Len(j.got) + 1 # 2
        BY <2>1, <2>2, <2>4, <3>1
      <4> QED
        BY <1>2, <4>1, <4>2
    <3>3. Len(j.got) + 2 = 2
      BY <3>2
    <3>4. path \in Seq(Names)
      BY <3>1, <3>3
    <3>5. Len(j.got) <= 0
      BY <3>2
    <3> QED
      BY <2>4, <3>4, <3>5
  <2> QED
    BY <1>1, <2>3, <2>4
<1>4. Ready(Kept(j))
  BY <1>1, <1>2, <1>3, KeptIsTyped DEF Ready, Chosen, Opening
<1>5. Lookup(t, Kept(j), path) /\ UNCHANGED <<rows, nextId, table, fds, up>>
  BY DEF LookupNext
<1> HIDE DEF path
<1> QED
  BY <1>1, <1>3, <1>4, <1>5

LEMMA LookupNextIsTyped ==
  ASSUME TypeInv, NEW t \in Threads, LookupNext(t)
  PROVE  TypeInv'
<1>1. PICK todo \in Seq(Names) :
         /\ MountOf[t] \in up /\ Ready(Kept(job[t])) /\ Lookup(t, Kept(job[t]), todo)
         /\ UNCHANGED <<rows, nextId, table, fds, up>>
  BY LookupNextDoes
<1> QED
  BY <1>1, LookupIsTyped, SameRows, SameTable DEF TypeInv

(* The steps that end a callback and change nothing                        *)
LEMMA EndIsTyped ==
  ASSUME TypeInv, NEW t \in Threads, Return(t), UNCHANGED <<rows, nextId, table, fds, up>>
  PROVE  TypeInv'
BY ReturnIsTyped, SameRows, SameTable DEF TypeInv

LEMMA SetAttributesIsTyped ==
  ASSUME TypeInv, NEW t \in Threads, SetAttributes(t)
  PROVE  TypeInv'
<1>1. Executed(t, Idle, 0, FALSE) /\ UNCHANGED <<rows, nextId, table, fds, up>>
  BY DEF SetAttributes, Updated
<1>2. 0 \in 0..MaxFiles
  BY BoundAssumption
<1> QED
  BY <1>1, <1>2, ExecutedIsTyped, SameRows, SameTable DEF TypeInv

LEMMA DeleteIsTyped ==
  ASSUME TypeInv, NEW t \in Threads, Delete(t)
  PROVE  TypeInv'
<1>1. Executed(t, Idle, 0, FALSE) /\ UNCHANGED <<nextId, table, fds, up>>
  BY DEF Delete
<1>2. 0 \in 0..MaxFiles
  BY BoundAssumption
<1>3. JobsOK' /\ TableOK'
  BY <1>1, <1>2, ExecutedIsTyped, SameTable DEF TypeInv
<1>4. rows' = [i \in Files \ Below(job[t].cur) |-> rows[i]]
  BY DEF Delete
<1>5. Files' \subseteq Files /\ \A i \in Files' : rows'[i] = rows[i]
  BY <1>4 DEF Files
<1>6. RowsOK'
  BY <1>1, <1>5 DEF RowsOK, TypeInv
<1> QED
  BY <1>3, <1>6 DEF TypeInv

LEMMA KindsAre ==
  /\ DOMAIN Kinds = {"mkdir", "create", "symlink"}
  /\ Kinds["mkdir"] = "Directory" /\ Kinds["create"] = "File" /\ Kinds["symlink"] = "Soft Link"
  /\ \A op \in DOMAIN Kinds : Kinds[op] \in {"File", "Directory", "Soft Link"}
<1>1. DOMAIN Kinds = {"mkdir", "create", "symlink"}
  BY DEF Kinds
<1>2. Kinds["mkdir"] = "Directory" /\ Kinds["create"] = "File" /\ Kinds["symlink"] = "Soft Link"
  BY DEF Kinds
<1> QED
  BY <1>1, <1>2

(* What an INSERT does: nothing, or a row                                  *)
LEMMA InsertDoes ==
  ASSUME TypeInv, NEW t \in Threads, Insert(t)
  PROVE  \/ Return(t) /\ UNCHANGED <<rows, nextId, table, fds, up>>
         \/ LET j == job[t]
                new == [parent |-> j.cur, name |-> Basename(j.path),
                        type |-> Kinds[j.op], text |-> "none"]
            IN  /\ j \in Jobs /\ j.op \in DOMAIN Kinds /\ j.got = <<>> /\ MountOf[t] \in up
                /\ IsFile(j.cur) /\ NameFree(0, j.cur, Basename(j.path))
                /\ nextId \in 1..MaxFiles /\ nextId' = nextId + 1
                /\ new \in Row
                /\ Files' = Files \cup {nextId} /\ nextId \notin Files
                /\ rows'[nextId] = new
                /\ \A i \in Files : rows'[i] = rows[i]
                /\ Executed(t, Kept([j EXCEPT !.at = "id", !.cur = nextId]), nextId, FALSE)
                /\ UNCHANGED <<table, fds, up>>
<1> DEFINE j == job[t]
           new == [parent |-> j.cur, name |-> Basename(j.path),
                   type |-> Kinds[j.op], text |-> "none"]
<1>1. /\ j # Idle /\ j \in Jobs /\ j.op \in DOMAIN Kinds /\ j.got = <<>> /\ MountOf[t] \in up
      /\ UNCHANGED <<table, fds, up>>
  BY JobIsTyped DEF Insert, Proceeds, Resolved, TypeInv
<1>2. CASE ~IsFile(j.cur) \/ ~NameFree(0, new.parent, new.name)
  BY <1>1, <1>2 DEF Insert
<1>3. CASE IsFile(j.cur) /\ NameFree(0, new.parent, new.name)
  <2>1. /\ nextId <= MaxFiles
        /\ rows' = [i \in Files \cup {nextId} |-> IF i = nextId THEN new ELSE rows[i]]
        /\ nextId' = nextId + 1
        /\ Executed(t, Kept([j EXCEPT !.at = "id", !.cur = nextId]), nextId, FALSE)
    BY <1>1, <1>3 DEF Insert
  <2>2. nextId \in 1..MaxFiles /\ nextId \notin Files
    BY <2>1, BoundAssumption DEF TypeInv, RowsOK
  <2>3. new \in Row
    <3>1. j.cur \in 0..MaxFiles
      BY <1>3, FilesAreBounded, BoundAssumption DEF IsFile, Root, TypeInv
    <3>2. Basename(j.path) \in Names
      BY <1>1, PartsOfPaths DEF Jobs
    <3>3. Kinds[j.op] \in {"File", "Directory", "Soft Link"}
      BY <1>1, KindsAre
    <3> QED
      BY <3>1, <3>2, <3>3 DEF Row
  <2> HIDE DEF new
  <2>4. /\ Files' = Files \cup {nextId}
        /\ rows'[nextId] = new /\ \A i \in Files : rows'[i] = rows[i]
    BY <2>1, <2>2 DEF Files
  <2>5. NameFree(0, j.cur, Basename(j.path))
    BY <1>3 DEF new
  <2> QED
    BY <1>1, <1>3, <2>1, <2>2, <2>3, <2>4, <2>5 DEF new
<1> QED
  BY <1>2, <1>3

LEMMA InsertIsTyped ==
  ASSUME TypeInv, NEW t \in Threads, Insert(t)
  PROVE  TypeInv'
<1>1. CASE Return(t) /\ UNCHANGED <<rows, nextId, table, fds, up>>
  BY <1>1, EndIsTyped
<1> DEFINE j == job[t]
           new == [parent |-> j.cur, name |-> Basename(j.path),
                   type |-> Kinds[j.op], text |-> "none"]
           k == [j EXCEPT !.at = "id", !.cur = nextId]
<1>2. CASE /\ j \in Jobs /\ j.op \in DOMAIN Kinds /\ MountOf[t] \in up
           /\ nextId \in 1..MaxFiles /\ nextId' = nextId + 1
           /\ new \in Row
           /\ Files' = Files \cup {nextId}
           /\ rows'[nextId] = new
           /\ \A i \in Files : rows'[i] = rows[i]
           /\ Executed(t, Kept(k), nextId, FALSE)
           /\ UNCHANGED <<table, fds, up>>
  <2>1. nextId \in FileOrNone /\ nextId \in 0..MaxFiles /\ nextId # NoFile
    BY <1>2, BoundAssumption DEF FileOrNone
  <2>2. k \in Jobs /\ k.op = j.op /\ k.at = "id" /\ k.cur = nextId
    BY <1>2, <2>1 DEF Jobs
  <2>3. Kept(k) \in Jobs /\ Kept(k).op = j.op /\ Kept(k).at = "id" /\ Kept(k).cur = nextId
    BY <2>2, KeptIsTyped
  <2> HIDE DEF k, new
  <2>4. WellFormed(Kept(k))
    BY <1>2, <2>1, <2>3 DEF WellFormed
  <2>5. JobsOK' /\ TableOK'
    BY <1>2, <2>1, <2>4, ExecutedIsTyped, SameTable DEF TypeInv
  <2>6. RowsOK'
    <3>1. nextId' \in 1..(MaxFiles + 1) /\ Files' \subseteq 1..(nextId' - 1)
      <4>1. nextId \in 1..MaxFiles /\ nextId' = nextId + 1 /\ Files' = Files \cup {nextId}
        BY <1>2
      <4>2. Files \subseteq 1..(nextId - 1)
        BY DEF RowsOK, TypeInv
      <4> QED
        BY <4>1, <4>2, BoundAssumption
    <3>2. \A i \in Files' : rows'[i] \in Row
      BY <1>2 DEF RowsOK, TypeInv
    <3> QED
      BY <3>1, <3>2 DEF RowsOK
  <2> QED
    BY <2>5, <2>6 DEF TypeInv
<1> HIDE DEF new, k
<1> QED
  BY <1>1, <1>2, InsertDoes DEF new, k

(* What follows an INSERT: mkdir returns, symlink goes on with the id it   *)
(* read, create with a free slot and a lookup.                             *)
LEMMA ReadIdDoes ==
  ASSUME TypeInv, NEW t \in Threads, ReadId(t)
  PROVE  LET j == job[t]
             text == [j EXCEPT !.at = "text", !.cur = j.cur]
         IN  /\ j # Idle /\ j \in Jobs /\ j.at = "id" /\ MountOf[t] \in up
             /\ UNCHANGED <<rows, nextId, table, fds, up>>
             /\ \/ Return(t)
                \/ j.op = "symlink" /\ WellFormed(text) /\ job' = [job EXCEPT ![t] = text]
                \/ /\ j.op = "create"
                   /\ \E slot \in FreeSlots(MountOf[t]), todo \in Seq(Names) :
                         /\ Ready([j EXCEPT !.slot = slot])
                         /\ Lookup(t, [j EXCEPT !.slot = slot], todo)
<1> DEFINE j == job[t]
           text == [j EXCEPT !.at = "text", !.cur = j.cur]
<1>1. /\ j # Idle /\ j \in Jobs /\ WellFormed(j) /\ MountOf[t] \in up /\ j.at = "id"
      /\ j.cur # NoFile /\ j.op \in {"mkdir", "create", "symlink"}
      /\ UNCHANGED <<rows, nextId, table, fds, up>>
  BY JobIsTyped, KindsAre DEF ReadId, TypeInv, WellFormed
<1>2. CASE j.cur = 0 \/ j.op = "mkdir"
  BY <1>1, <1>2 DEF ReadId, InsertId
<1>3. CASE j.cur # 0 /\ j.op = "symlink"
  <2>1. job' = [job EXCEPT ![t].at = "text", ![t].cur = j.cur]
    BY <1>1, <1>3 DEF ReadId, InsertId
  <2>2. job' = [job EXCEPT ![t] = text]
    BY <1>1, <2>1 DEF TypeInv, JobsOK
  <2>3. WellFormed(text)
    BY <1>1, <1>3 DEF WellFormed, Ready, Jobs, Chosen, Opening
  <2> HIDE DEF text
  <2> QED
    BY <1>1, <1>3, <2>2, <2>3 DEF text
<1>4. CASE j.cur # 0 /\ j.op = "create"
  <2>1. CASE Return(t)
    BY <1>1, <2>1
  <2>2. CASE \E slot \in FirstFree(MountOf[t]) : Lookup(t, [j EXCEPT !.slot = slot], j.path)
    <3>1. PICK slot \in FirstFree(MountOf[t]) : Lookup(t, [j EXCEPT !.slot = slot], j.path)
      BY <2>2
    <3>2. slot \in FreeSlots(MountOf[t]) /\ slot \in Slots
      BY DEF FirstFree, FreeSlots
    <3>3. Ready([j EXCEPT !.slot = slot])
      BY <1>1, <1>4, <3>2 DEF Ready, Jobs, Chosen, Opening
    <3>4. j.path \in Seq(Names)
      BY <1>1, PathAssumption DEF Jobs
    <3> QED
      BY <1>1, <1>4, <3>1, <3>2, <3>3, <3>4
  <2> QED
    BY <1>1, <1>4, <2>1, <2>2 DEF ReadId, InsertId
<1> QED
  BY <1>1, <1>2, <1>3, <1>4

LEMMA ReadIdIsTyped ==
  ASSUME TypeInv, NEW t \in Threads, ReadId(t)
  PROVE  TypeInv'
<1> DEFINE j == job[t]
           text == [j EXCEPT !.at = "text", !.cur = j.cur]
<1>1. MountOf[t] \in up /\ UNCHANGED <<rows, nextId, table, fds, up>>
  BY ReadIdDoes
<1>2. CASE Return(t)
  BY <1>1, <1>2, EndIsTyped
<1>3. CASE WellFormed(text) /\ job' = [job EXCEPT ![t] = text]
  <2> HIDE DEF text
  <2> QED
    BY <1>1, <1>3, OneJob, SameRows, SameTable DEF TypeInv
<1>4. ASSUME NEW slot, NEW todo \in Seq(Names),
             Ready([j EXCEPT !.slot = slot]), Lookup(t, [j EXCEPT !.slot = slot], todo)
      PROVE  TypeInv'
  BY <1>1, <1>4, LookupIsTyped, SameRows, SameTable DEF TypeInv
<1> HIDE DEF text
<1> QED
  BY <1>2, <1>3, <1>4, ReadIdDoes DEF text

LEMMA AppendTargetDoes ==
  ASSUME TypeInv, NEW t \in Threads, AppendTarget(t)
  PROVE  LET i == job[t].cur
             own == i = job[t].got[1].file /\ rows[i].text = "none"
         IN  /\ UNCHANGED <<nextId, table, fds, up>>
             /\ job[t] # Idle /\ job[t].at = "text"
             /\ Files' = Files
             /\ \A k \in Files \ {i} : rows'[k] = rows[k]
             /\ i \in Files => rows'[i] = [rows[i] EXCEPT !.text = IF own THEN "own" ELSE "foreign"]
             /\ \E id \in 0..MaxFiles : Executed(t, Idle, id, FALSE)
<1> DEFINE i == job[t].cur
           own == i = job[t].got[1].file /\ rows[i].text = "none"
<1>1. IF i \in Files
      THEN rows' = [rows EXCEPT ![i].text = IF own THEN "own" ELSE "foreign"]
      ELSE UNCHANGED rows
  BY DEF AppendTarget
<1> HIDE DEF i, own
<1>2. /\ Files' = Files
      /\ \A k \in Files \ {i} : rows'[k] = rows[k]
      /\ i \in Files => rows'[i] = [rows[i] EXCEPT !.text = IF own THEN "own" ELSE "foreign"]
  BY <1>1 DEF Files
<1> QED
  BY <1>2 DEF AppendTarget, i, own

LEMMA AppendTargetIsTyped ==
  ASSUME TypeInv, NEW t \in Threads, AppendTarget(t)
  PROVE  TypeInv'
<1> DEFINE i == job[t].cur
<1>1. JobsOK' /\ TableOK' /\ nextId' = nextId
  BY ExecutedIsTyped, SameTable DEF AppendTarget, TypeInv
<1>2. /\ Files' = Files
      /\ \A k \in Files \ {i} : rows'[k] = rows[k]
      /\ i \in Files => \E text \in {"own", "foreign"} : rows'[i] = [rows[i] EXCEPT !.text = text]
  BY AppendTargetDoes
<1> HIDE DEF i
<1>3. \A k \in Files : rows'[k] \in Row
  <2>1. \A k \in Files : rows[k] \in Row
    BY DEF TypeInv, RowsOK
  <2>2. i \in Files => rows'[i] \in Row
    <3>1. ASSUME NEW text \in {"own", "foreign"}, i \in Files,
                 rows'[i] = [rows[i] EXCEPT !.text = text]
          PROVE  rows'[i] \in Row
      BY <2>1, <3>1 DEF Row
    <3> QED
      BY <1>2, <3>1
  <2> QED
    BY <1>2, <2>1, <2>2
<1> QED
  BY <1>1, <1>2, <1>3 DEF TypeInv, RowsOK

(* The statement of a rename is executed: if it changed a row, the renames *)
(* that still look things up are raced.                                    *)
Renames(t) ==
    \E moved \in BOOLEAN : (moved \/ UNCHANGED rows) /\ Executed(t, Idle, 0, moved)

LEMMA RenamesWhenExecuted ==
  ASSUME NEW t, Executed(t, Idle, 0, rows' # rows)
  PROVE  Renames(t)
<1>1. CASE rows' = rows
  <2>1. Executed(t, Idle, 0, FALSE)
    BY <1>1 DEF Executed
  <2> QED  BY <1>1, <2>1 DEF Renames
<1>2. CASE rows' # rows
  <2>1. Executed(t, Idle, 0, TRUE)
    BY <1>2 DEF Executed
  <2> QED  BY <2>1 DEF Renames
<1> QED  BY <1>1, <1>2

(* A move changes the directory and the name of one row, if there is one.  *)
LEMMA MoveDoes ==
  ASSUME TypeInv, NEW t \in Threads, Move(t)
  PROVE  LET i == job[t].got[2].file
             dir == job[t].cur
             name == Basename(job[t].to)
         IN  /\ UNCHANGED <<nextId, table, fds, up>>
             /\ job[t] # Idle /\ job[t] \in Jobs
             /\ \/ Return(t) /\ UNCHANGED rows
                \/ /\ i \in Files => IsFile(dir) /\ NameFree(i, dir, name)
                   /\ name \in Names
                   /\ Files' = Files
                   /\ \A k \in Files \ {i} : rows'[k] = rows[k]
                   /\ i \in Files => rows'[i] = [rows[i] EXCEPT !.parent = dir, !.name = name]
                   /\ Renames(t)
<1>1. job[t] # Idle /\ job[t] \in Jobs
  BY JobIsTyped DEF Move, Proceeds, Resolved, TypeInv
<1>2. Basename(job[t].to) \in Names
  BY <1>1, PartsOfPaths DEF Jobs
<1> QED
  BY <1>1, <1>2, RenamesWhenExecuted DEF Move, Files

LEMMA MoveIsTyped ==
  ASSUME TypeInv, NEW t \in Threads, Move(t)
  PROVE  TypeInv'
<1> DEFINE i == job[t].got[2].file
           dir == job[t].cur
           name == Basename(job[t].to)
<1>1. UNCHANGED <<nextId, table, fds, up>>
  BY MoveDoes
<1>2. CASE Return(t) /\ UNCHANGED rows
  BY <1>1, <1>2, EndIsTyped
<1>3. CASE /\ i \in Files => IsFile(dir)
           /\ name \in Names
           /\ Files' = Files
           /\ \A k \in Files \ {i} : rows'[k] = rows[k]
           /\ i \in Files => rows'[i] = [rows[i] EXCEPT !.parent = dir, !.name = name]
           /\ Renames(t)
  <2>1. JobsOK' /\ TableOK'
    <3>1. Renames(t)
      BY <1>3, Zenon
    <3>2. 0 \in 0..MaxFiles
      BY BoundAssumption
    <3> QED
      BY <1>1, <3>1, <3>2, ExecutedIsTyped, SameTable DEF TypeInv, Renames
  <2>2. IsFile(dir) => dir \in 0..MaxFiles
    BY FilesAreBounded, BoundAssumption DEF IsFile, Root, TypeInv
  <2>3. \A k \in Files : rows'[k] \in Row
    <3> HIDE DEF i, dir, name
    <3>1. \A k \in Files : rows[k] \in Row
      BY DEF TypeInv, RowsOK
    <3>2. i \in Files => rows'[i] \in Row
      BY <1>3, <2>2, <3>1 DEF Row
    <3>3. \A k \in Files \ {i} : rows'[k] = rows[k]
      BY <1>3
    <3> QED
      BY <3>1, <3>2, <3>3
  <2> QED
    BY <1>1, <1>3, <2>1, <2>3 DEF TypeInv, RowsOK
<1> HIDE DEF i, dir, name
<1> QED
  BY <1>2, <1>3, MoveDoes DEF i, dir, name

(* A swap changes the parents of two rows, those of them that are there.   *)
LEMMA SwapDoes ==
  ASSUME TypeInv, NEW t \in Threads, Swap(t)
  PROVE  LET i == job[t].got[1].file
             pi == job[t].got[1].parent
             j == job[t].cur
             pj == job[t].parent
         IN  /\ UNCHANGED <<nextId, table, fds, up>>
             /\ Renames(t)
             /\ \/ UNCHANGED rows
                \/ /\ i \in Files => IsFile(pj) /\ NameFree(i, pj, rows[i].name)
                   /\ j \in Files => /\ IsFile(pi)
                                     /\ \A k \in Files \ {j} :
                                           LET p == IF k = i THEN pj ELSE rows[k].parent
                                           IN  ~(p = pi /\ rows[k].name = rows[j].name)
                   /\ Files' = Files
                   /\ \A k \in Files \ {i, j} : rows'[k] = rows[k]
                   /\ j \in Files => rows'[j] = [rows[j] EXCEPT !.parent = pi]
                   /\ i \in Files /\ i # j => rows'[i] = [rows[i] EXCEPT !.parent = pj]
BY RenamesWhenExecuted DEF Swap, Swapped, Files

LEMMA SwapIsTyped ==
  ASSUME TypeInv, NEW t \in Threads, Swap(t)
  PROVE  TypeInv'
<1> DEFINE i == job[t].got[1].file
           pi == job[t].got[1].parent
           j == job[t].cur
           pj == job[t].parent
<1>1. JobsOK' /\ TableOK' /\ nextId' = nextId
  <2>1. Renames(t) /\ UNCHANGED <<nextId, table, fds, up>>
    BY SwapDoes
  <2>2. 0 \in 0..MaxFiles
    BY BoundAssumption
  <2> QED
    BY <2>1, <2>2, ExecutedIsTyped, SameTable DEF TypeInv, Renames
<1>2. \A d : IsFile(d) => d \in 0..MaxFiles
  BY FilesAreBounded, BoundAssumption DEF IsFile, Root, TypeInv
<1>3. \A k \in Files : rows[k] \in Row
  BY DEF TypeInv, RowsOK
<1>4. CASE UNCHANGED rows
  BY <1>1, <1>4, SameRows DEF TypeInv
<1>5. CASE /\ i \in Files => IsFile(pj)
           /\ j \in Files => IsFile(pi)
           /\ Files' = Files
           /\ \A k \in Files \ {i, j} : rows'[k] = rows[k]
           /\ j \in Files => rows'[j] = [rows[j] EXCEPT !.parent = pi]
           /\ i \in Files /\ i # j => rows'[i] = [rows[i] EXCEPT !.parent = pj]
  <2> HIDE DEF i, pi, j, pj
  <2>1. j \in Files => rows'[j] \in Row
    BY <1>2, <1>3, <1>5 DEF Row
  <2>2. i \in Files /\ i # j => rows'[i] \in Row
    BY <1>2, <1>3, <1>5 DEF Row
  <2>3. \A k \in Files : rows'[k] \in Row
    BY <1>3, <1>5, <2>1, <2>2
  <2> QED
    BY <1>1, <1>5, <2>3 DEF TypeInv, RowsOK
<1> HIDE DEF i, pi, j, pj
<1> QED
  BY <1>4, <1>5, SwapDoes DEF i, pi, j, pj

(* An open fills the slot that was free when it chose it.                  *)
LEMMA StoreDoes ==
  ASSUME TypeInv, NEW t \in Threads, Store(t)
  PROVE  LET m == MountOf[t]
             s == job[t].slot
             entry == [file |-> job[t].cur, whole |-> job[t].list # "broken"]
         IN  /\ m \in Mounts /\ s \in Slots /\ entry \in Entry
             /\ job[t] # Idle /\ Chosen(job[t]) /\ job[t].at = "walk"
             /\ table' = [table EXCEPT ![m] = [table[m] EXCEPT ![s] = entry]]
             /\ fds' = fds \cup {[mount |-> m, slot |-> s, file |-> job[t].cur, by |-> t]}
             /\ Return(t) /\ UNCHANGED <<rows, nextId, up>>
<1> DEFINE j == job[t]
<1>1. /\ j # Idle /\ j \in Jobs /\ WellFormed(j) /\ j.at = "walk"
      /\ (j.cur = NoFile) = Probing(j)
      /\ j.op \in Opening \/ (j.op = "create" /\ Len(j.got) = 1)
  BY JobIsTyped DEF Store, Proceeds, Resolved, TypeInv
<1>2. Chosen(j)
  <2>1. Len(<<>>) = 0 /\ 0 # 1
    BY EmptySeq
  <2>2. Len(j.got) = 1 => j.got # <<>>
    BY <2>1, Zenon
  <2> QED
    BY <1>1, <2>2 DEF Chosen
<1>3. j.slot \in Slots
  BY <1>1, <1>2 DEF WellFormed, Ready
<1>4. j.cur \in 0..MaxFiles
  <2>1. j.op # "move"
    BY <1>1 DEF Opening
  <2> QED
    BY <1>1, <2>1 DEF Probing, Jobs, FileOrNone
<1>5. [file |-> j.cur, whole |-> j.list # "broken"] \in Entry
  BY <1>4 DEF Entry
<1> QED
  BY <1>1, <1>2, <1>3, <1>5, MountAssumption DEF Store

LEMMA StoreIsTyped ==
  ASSUME TypeInv, NEW t \in Threads, Store(t)
  PROVE  TypeInv'
<1> DEFINE m == MountOf[t]
           s == job[t].slot
           file == job[t].cur
           entry == [file |-> file, whole |-> job[t].list # "broken"]
           d == [mount |-> m, slot |-> s, file |-> file, by |-> t]
<1>1. /\ m \in Mounts /\ s \in Slots /\ entry \in Entry
      /\ table' = [table EXCEPT ![m] = [table[m] EXCEPT ![s] = entry]]
      /\ fds' = fds \cup {d}
      /\ Return(t) /\ UNCHANGED <<rows, nextId, up>>
  BY StoreDoes
<1>2. file \in 0..MaxFiles
  BY <1>1 DEF Entry
<1>3. TableOK'
  <2>1. d \in [mount : Mounts, slot : Slots, file : 0..MaxFiles, by : Threads]
    BY <1>1, <1>2
  <2> HIDE DEF m, s, entry, d
  <2>2. [table[m] EXCEPT ![s] = entry] \in [Slots -> Entry \cup {NoFile}]
    BY <1>1 DEF TypeInv, TableOK
  <2>3. table' \in [Mounts -> [Slots -> Entry \cup {NoFile}]]
    BY <1>1, <2>2 DEF TypeInv, TableOK
  <2> QED
    BY <1>1, <2>1, <2>3 DEF TypeInv, TableOK
<1> QED
  BY <1>1, <1>3, ReturnIsTyped, SameRows DEF TypeInv

LEMMA ReleaseDoes ==
  ASSUME TypeInv, NEW t \in Threads, NEW d \in fds, Release(t, d)
  PROVE  /\ d.mount \in Mounts /\ d.slot \in Slots /\ UNCHANGED <<rows, nextId>>
         /\ \/ Dies(d.mount)
            \/ /\ table' = [table EXCEPT ![d.mount] = [table[d.mount] EXCEPT ![d.slot] = NoFile]]
               /\ fds' = fds \ {d} /\ UNCHANGED <<job, up>>
BY DEF Release, TypeInv, TableOK

LEMMA ReleaseIsTyped ==
  ASSUME TypeInv, NEW t \in Threads, NEW d \in fds, Release(t, d)
  PROVE  TypeInv'
<1>1. d.mount \in Mounts /\ d.slot \in Slots /\ UNCHANGED <<rows, nextId>>
  BY ReleaseDoes
<1>2. CASE Dies(d.mount)
  BY <1>1, <1>2, DiesIsTyped, SameRows DEF TypeInv
<1>3. CASE /\ table' = [table EXCEPT ![d.mount] = [table[d.mount] EXCEPT ![d.slot] = NoFile]]
           /\ fds' = fds \ {d} /\ UNCHANGED <<job, up>>
  <2>1. [table[d.mount] EXCEPT ![d.slot] = NoFile] \in [Slots -> Entry \cup {NoFile}]
    BY <1>1 DEF TypeInv, TableOK
  <2>2. TableOK'
    BY <1>1, <1>3, <2>1 DEF TypeInv, TableOK
  <2>3. JobsOK'
    BY <1>3 DEF TypeInv, JobsOK
  <2> QED
    BY <1>1, <2>2, <2>3, SameRows DEF TypeInv
<1> QED
  BY <1>2, <1>3, ReleaseDoes

(* A process that dies, in whichever callback                              *)
LEMMA DeathIsTyped ==
  ASSUME TypeInv, NEW m \in Mounts, Dies(m), UNCHANGED <<rows, nextId>>
  PROVE  TypeInv'
BY DiesIsTyped, SameRows DEF TypeInv

LEMMA RemountIsTyped ==
  ASSUME TypeInv, NEW m \in Mounts, Remount(m)
  PROVE  TypeInv'
<1>1. TableOK'
  BY DEF TypeInv, TableOK, Remount
<1>2. JobsOK'
  BY DEF TypeInv, JobsOK, Remount
<1> QED
  BY <1>1, <1>2, SameRows DEF TypeInv, Remount

(* The steps of a thread, and of a handle it is given                      *)
Step(t) ==
    \/ \E op \in Callbacks, path, to \in Paths : Call(t, op, path, to)
    \/ Walk(t) \/ WalkOffNull(t) \/ List(t) \/ Visit(t)
    \/ Refuse(t) \/ LookupNext(t) \/ QueryFails(t)
    \/ GetAttributes(t) \/ SetAttributes(t) \/ Unlink(t) \/ Rmdir(t)
    \/ Insert(t) \/ ReadId(t) \/ AppendTarget(t)
    \/ Move(t) \/ Swap(t) \/ Store(t)
    \/ \E d \in fds : Release(t, d) \/ ReadDir(t, d)

LEMMA RequestsHold == Spec => []RequestsOK
<1>1. Init => RequestsOK
  BY StartsAssumption DEF Init, RequestsOK
<1>2. RequestsOK /\ [Next]_vars => RequestsOK'
  BY DEF RequestsOK, Next, vars
<1> QED
  BY <1>1, <1>2, PTL DEF Spec

LEMMA NextSteps ==
  ASSUME RequestsOK, [Next]_vars
  PROVE  \/ \E t \in Threads : Step(t)
         \/ \E m \in Mounts : Remount(m)
         \/ UNCHANGED vars
BY DEF Next, Act, Step, RequestsOK, Requests

LEMMA StepIsTyped ==
  ASSUME TypeInv, NEW t \in Threads, Step(t)
  PROVE  TypeInv'
<1>1. CASE \E op \in Callbacks, path, to \in Paths : Call(t, op, path, to)
  BY <1>1, CallIsTyped
<1>2. CASE Walk(t)
  BY <1>2, WalkIsTyped
<1>3. CASE WalkOffNull(t)
  BY <1>3, DeathIsTyped, MountAssumption DEF WalkOffNull
<1>4. CASE List(t)
  BY <1>4, ListIsTyped
<1>5. CASE Visit(t)
  BY <1>5, VisitIsTyped
<1>6. CASE Refuse(t)
  BY <1>6, EndIsTyped DEF Refuse
<1>7. CASE LookupNext(t)
  BY <1>7, LookupNextIsTyped
<1>8. CASE QueryFails(t)
  BY <1>8, EndIsTyped DEF QueryFails
<1>9. CASE GetAttributes(t)
  BY <1>9, EndIsTyped DEF GetAttributes
<1>10. CASE SetAttributes(t)
  BY <1>10, SetAttributesIsTyped
<1>11. CASE Unlink(t)
  BY <1>11, DeleteIsTyped DEF Unlink
<1>12. CASE Rmdir(t)
  BY <1>12, DeleteIsTyped, EndIsTyped DEF Rmdir
<1>13. CASE Insert(t)
  BY <1>13, InsertIsTyped
<1>14. CASE ReadId(t)
  BY <1>14, ReadIdIsTyped
<1>15. CASE AppendTarget(t)
  BY <1>15, AppendTargetIsTyped
<1>16. CASE Move(t)
  BY <1>16, MoveIsTyped
<1>17. CASE Swap(t)
  BY <1>17, SwapIsTyped
<1>18. CASE Store(t)
  BY <1>18, StoreIsTyped
<1>19. CASE \E d \in fds : Release(t, d)
  BY <1>19, ReleaseIsTyped
<1>20. ASSUME NEW d \in fds, ReadDir(t, d) PROVE TypeInv'
  <2>1. d.mount \in Mounts
    BY DEF TypeInv, TableOK
  <2> QED
    BY <1>20, <2>1, DeathIsTyped DEF ReadDir
<1> QED
  BY <1>1, <1>2, <1>3, <1>4, <1>5, <1>6, <1>7, <1>8, <1>9, <1>10, <1>11, <1>12,
     <1>13, <1>14, <1>15, <1>16, <1>17, <1>18, <1>19, <1>20 DEF Step

LEMMA TypesHold == Spec => []TypeInv
<1>1. Init => TypeInv
  <2> SUFFICES ASSUME Init PROVE TypeInv
    OBVIOUS
  <2>1. PICK start \in Starts : rows = start.rows /\ nextId = start.nextId
    BY DEF Init
  <2>2. RowsOK
    BY <2>1, StartsAssumption DEF RowsOK, Files
  <2>3. TableOK /\ JobsOK
    BY DEF Init, TableOK, JobsOK
  <2> QED
    BY <2>2, <2>3 DEF TypeInv
<1>2. TypeInv /\ RequestsOK /\ [Next]_vars => TypeInv'
  <2> SUFFICES ASSUME TypeInv, RequestsOK, [Next]_vars PROVE TypeInv'
    OBVIOUS
  <2>1. CASE UNCHANGED vars
    BY <2>1, SameRows, SameTable DEF vars, TypeInv, JobsOK
  <2> QED
    BY <2>1, NextSteps, StepIsTyped, RemountIsTyped
<1> QED
  BY <1>1, <1>2, RequestsHold, PTL DEF Spec

(* Whatever the threads of all mounts do, a job's lookups, files and slot  *)
(* stay what its callback may use.                                         *)
THEOREM TypeCorrect == Spec => []TypeOK
<1>1. TypeInv /\ RequestsOK => TypeOK
  BY TypeInvIsEnough
<1> QED
  BY <1>1, TypesHold, RequestsHold, PTL

-----------------------------------------------------------------------------
(* The tree                                                                *)

TreeInv == NamesAreUnique /\ ParentsExist

LEMMA SameTree == ASSUME TreeInv, UNCHANGED rows PROVE TreeInv'
BY DEF TreeInv, NamesAreUnique, ParentsExist, Files

(* A deletion takes along what is below; an INSERT, a move and a swap pass *)
(* the unique key and the foreign key.                                     *)
LEMMA DeleteKeepsTree ==
  ASSUME TreeInv, NEW t \in Threads, Delete(t)
  PROVE  TreeInv'
<1> DEFINE gone == Below(job[t].cur)
<1>1. Files' = Files \ gone /\ \A i \in Files' : rows'[i] = rows[i]
  BY DEF Delete, Files
<1>2. \A i \in Files : rows[i].parent \in gone => i \in gone
  BY BelowIsClosed
<1>3. \A i \in Files' : rows'[i].parent \in Files' \cup {Root}
  <2> HIDE DEF gone
  <2> QED
    BY <1>1, <1>2 DEF TreeInv, ParentsExist
<1> QED
  BY <1>1, <1>3 DEF TreeInv, NamesAreUnique, ParentsExist

LEMMA InsertKeepsTree ==
  ASSUME TypeInv, TreeInv, NEW t \in Threads, Insert(t)
  PROVE  TreeInv'
<1> DEFINE parent == job[t].cur
           name == Basename(job[t].path)
           new == [parent |-> parent, name |-> name, type |-> Kinds[job[t].op], text |-> "none"]
<1>1. CASE UNCHANGED rows
  BY <1>1, SameTree
<1>2. CASE /\ IsFile(parent) /\ NameFree(0, parent, name)
           /\ Files' = Files \cup {nextId} /\ nextId \notin Files
           /\ rows'[nextId] = new
           /\ \A i \in Files : rows'[i] = rows[i]
  <2>1. \A j \in Files : ~(rows[j].parent = parent /\ rows[j].name = name)
    BY <1>2 DEF NameFree, TypeInv, RowsOK
  <2>2. rows'[nextId].parent = parent /\ rows'[nextId].name = name
    BY <1>2
  <2> HIDE DEF parent, name, new
  <2>3. NamesAreUnique'
    BY <1>2, <2>1, <2>2 DEF TreeInv, NamesAreUnique
  <2>4. ParentsExist'
    BY <1>2, <2>2 DEF TreeInv, ParentsExist, IsFile
  <2> QED
    BY <2>3, <2>4 DEF TreeInv
<1>3. \/ UNCHANGED rows
      \/ /\ IsFile(parent) /\ NameFree(0, parent, name)
         /\ Files' = Files \cup {nextId} /\ nextId \notin Files
         /\ rows'[nextId] = new
         /\ \A i \in Files : rows'[i] = rows[i]
  BY InsertDoes
<1> HIDE DEF parent, name, new
<1> QED
  BY <1>1, <1>2, <1>3

LEMMA MoveKeepsTree ==
  ASSUME TypeInv, TreeInv, NEW t \in Threads, Move(t)
  PROVE  TreeInv'
<1> DEFINE i == job[t].got[2].file
           dir == job[t].cur
           name == Basename(job[t].to)
<1>1. CASE UNCHANGED rows
  BY <1>1, SameTree
<1>2. CASE /\ i \in Files => IsFile(dir) /\ NameFree(i, dir, name)
           /\ Files' = Files
           /\ \A k \in Files \ {i} : rows'[k] = rows[k]
           /\ i \in Files => rows'[i] = [rows[i] EXCEPT !.parent = dir, !.name = name]
  <2> HIDE DEF i, dir, name
  <2>1. i \in Files => rows'[i].parent = dir /\ rows'[i].name = name
    BY <1>2 DEF TypeInv, RowsOK, Row
  <2>2. \A k \in Files \ {i} : rows'[k] = rows[k]
    BY <1>2
  <2>3. i \in Files => \A k \in Files \ {i} : ~(rows[k].parent = dir /\ rows[k].name = name)
    BY <1>2 DEF NameFree
  <2>4. NamesAreUnique'
    BY <1>2, <2>1, <2>2, <2>3 DEF TreeInv, NamesAreUnique
  <2>5. ParentsExist'
    BY <1>2, <2>1, <2>2 DEF TreeInv, ParentsExist, IsFile
  <2> QED
    BY <2>4, <2>5 DEF TreeInv
<1> HIDE DEF i, dir, name
<1> QED
  BY <1>1, <1>2, MoveDoes DEF i, dir, name

LEMMA SwapKeepsTree ==
  ASSUME TypeInv, TreeInv, NEW t \in Threads, Swap(t)
  PROVE  TreeInv'
<1> DEFINE i == job[t].got[1].file
           pi == job[t].got[1].parent
           j == job[t].cur
           pj == job[t].parent
<1>1. CASE UNCHANGED rows
  BY <1>1, SameTree
<1>2. CASE /\ i \in Files => IsFile(pj) /\ NameFree(i, pj, rows[i].name)
           /\ j \in Files => /\ IsFile(pi)
                             /\ \A k \in Files \ {j} :
                                   LET p == IF k = i THEN pj ELSE rows[k].parent
                                   IN  ~(p = pi /\ rows[k].name = rows[j].name)
           /\ Files' = Files
           /\ \A k \in Files \ {i, j} : rows'[k] = rows[k]
           /\ j \in Files => rows'[j] = [rows[j] EXCEPT !.parent = pi]
           /\ i \in Files /\ i # j => rows'[i] = [rows[i] EXCEPT !.parent = pj]
  <2> HIDE DEF i, pi, j, pj
  <2>1. j \in Files => rows'[j].parent = pi /\ rows'[j].name = rows[j].name
    BY <1>2 DEF TypeInv, RowsOK, Row
  <2>2. i \in Files /\ i # j => rows'[i].parent = pj /\ rows'[i].name = rows[i].name
    BY <1>2 DEF TypeInv, RowsOK, Row
  <2>3. \A k \in Files \ {i, j} : rows'[k] = rows[k]
    BY <1>2
  <2>4. i \in Files => \A k \in Files \ {i} : ~(rows[k].parent = pj /\ rows[k].name = rows[i].name)
    BY <1>2 DEF NameFree
  <2>5. j \in Files => \A k \in Files \ {i, j} :
                          ~(rows[k].parent = pi /\ rows[k].name = rows[j].name)
    BY <1>2
  <2>6. i \in Files /\ j \in Files /\ i # j => ~(pj = pi /\ rows[i].name = rows[j].name)
    BY <1>2
  <2>7. NamesAreUnique'
    BY <1>2, <2>1, <2>2, <2>3, <2>4, <2>5, <2>6 DEF TreeInv, NamesAreUnique
  <2>8. ParentsExist'
    BY <1>2, <2>1, <2>2, <2>3 DEF TreeInv, ParentsExist, IsFile
  <2> QED
    BY <2>7, <2>8 DEF TreeInv
<1> HIDE DEF i, pi, j, pj
<1> QED
  BY <1>1, <1>2, SwapDoes DEF i, pi, j, pj

LEMMA StepKeepsTree ==
  ASSUME TypeInv, TreeInv, NEW t \in Threads, Step(t)
  PROVE  TreeInv'
<1>1. CASE Delete(t)
  BY <1>1, DeleteKeepsTree
<1>2. CASE Insert(t)
  BY <1>2, InsertKeepsTree
<1>3. CASE AppendTarget(t)
  <2> DEFINE i == job[t].cur
  <2>1. /\ Files' = Files
        /\ \A k \in Files \ {i} : rows'[k] = rows[k]
        /\ i \in Files => \E text : rows'[i] = [rows[i] EXCEPT !.text = text]
    BY <1>3, AppendTargetDoes
  <2> HIDE DEF i
  <2>2. \A k \in Files : rows'[k].parent = rows[k].parent /\ rows'[k].name = rows[k].name
    <3>1. CASE i \in Files
      <4>1. PICK text : rows'[i] = [rows[i] EXCEPT !.text = text]
        BY <2>1, <3>1
      <4>2. rows[i] \in Row
        BY <3>1 DEF TypeInv, RowsOK
      <4>3. rows'[i].parent = rows[i].parent /\ rows'[i].name = rows[i].name
        BY <4>1, <4>2 DEF Row
      <4> QED  BY <2>1, <4>3
    <3>2. CASE i \notin Files
      BY <2>1, <3>2
    <3> QED  BY <3>1, <3>2
  <2> QED
    BY <2>1, <2>2 DEF TreeInv, NamesAreUnique, ParentsExist
<1>4. CASE Move(t)
  BY <1>4, MoveKeepsTree
<1>5. CASE Swap(t)
  BY <1>5, SwapKeepsTree
<1>6. CASE UNCHANGED rows
  BY <1>6, SameTree
<1> QED
  BY <1>1, <1>2, <1>3, <1>4, <1>5, <1>6
     DEF Step, Call, Walk, WalkOffNull, List, Visit, Refuse, LookupNext, QueryFails,
         GetAttributes, SetAttributes, Unlink, Rmdir, ReadId, Store, Release, ReadDir

LEMMA TreeHolds == Spec => [](TypeInv /\ TreeInv)
<1>1. Init => TreeInv
  BY StartsAssumption DEF Init, TreeInv, NamesAreUnique, ParentsExist, Files
<1>2. TypeInv /\ RequestsOK /\ TreeInv /\ [Next]_vars => TreeInv'
  BY NextSteps, StepKeepsTree, SameTree DEF Remount, vars
<1> QED
  BY <1>1, <1>2, TypesHold, RequestsHold, PTL DEF Spec

(* No directory has two files of one name, however many mounts create,     *)
(* move and swap files at the same time.                                   *)
THEOREM UniqueNames == Spec => []NamesAreUnique
<1>1. TreeInv => NamesAreUnique
  BY DEF TreeInv
<1> QED
  BY <1>1, TreeHolds, PTL

(* Every file is in a directory that exists, although a directory is       *)
(* deleted on the word of an earlier query.                                *)
THEOREM NoOrphans == Spec => []ParentsExist
<1>1. TreeInv => ParentsExist
  BY DEF TreeInv
<1> QED
  BY <1>1, TreeHolds, PTL

-----------------------------------------------------------------------------
(* Mounts of one thread each: what a step does to the jobs                 *)

OneThread == \A t, u \in Threads : MountOf[t] = MountOf[u] => t = u

(* A thread that does not act keeps its place, or dies.                    *)
Keeps(u) ==
    \/ job'[u] = Idle
    \/ /\ job[u] # Idle
       /\ job'[u].op = job[u].op /\ job'[u].at = job[u].at /\ job'[u].cur = job[u].cur
       /\ job'[u].got = job[u].got /\ job'[u].slot = job[u].slot

(* One that acts returns, or looks further, with the slot it has chosen or *)
(* a free one, or goes on to append the target of a link, or has inserted. *)
Looks(t) ==
    /\ job'[t].at \notin {"id", "text"}
    /\ Chosen(job'[t]) =>
          \/ job'[t].slot \in FreeSlots(MountOf[t])
          \/ /\ job[t] # Idle /\ Chosen(job[t]) /\ job[t].at # "id"
             /\ job'[t].slot = job[t].slot
Targets(t) ==
    /\ job[t] # Idle /\ job[t].at = "id" /\ job[t].op = "symlink"
    /\ job'[t].at = "text" /\ job'[t].op = job[t].op
    /\ job'[t].cur = job[t].cur /\ job'[t].got = job[t].got
Acts(t) == job'[t] = Idle \/ Looks(t) \/ Targets(t)
OthersKeep(t) == \A u \in Threads \ {t} : Keeps(u)

LEMMA OneJobChanges ==
  ASSUME JobsOK, NEW t \in Threads, NEW k, job' = [job EXCEPT ![t] = k]
  PROVE  job'[t] = k /\ OthersKeep(t)
BY DEF JobsOK, OthersKeep, Keeps

LEMMA ExecutedChanges ==
  ASSUME OneThread, JobsOK, NEW t \in Threads, NEW j, NEW id, NEW moved \in BOOLEAN,
         Executed(t, j, id, moved)
  PROVE  job'[t] = j /\ OthersKeep(t)
<1>1. job'[t] = j
  BY DEF Executed
<1>2. ASSUME NEW u \in Threads \ {t} PROVE Keeps(u)
  <2>1. MountOf[u] # MountOf[t]
    BY DEF OneThread
  <2>2. CASE job[u].op \in {"move", "swap"}
    <3>1. job'[u] = [job[u] EXCEPT !.raced = @ \/ moved]
      BY <2>1, <2>2 DEF Executed
    <3>2. job[u] # Idle
      BY <2>2 DEF Idle
    <3>3. job[u] \in Jobs
      BY <3>2 DEF JobsOK
    <3> QED
      BY <3>1, <3>2, <3>3 DEF Keeps, Jobs
  <2>3. CASE job[u].op \notin {"move", "swap"}
    <3>1. job'[u] = job[u]
      BY <2>1, <2>3 DEF Executed
    <3> QED
      BY <3>1 DEF Keeps
  <2> QED
    BY <2>2, <2>3
<1> QED
  BY <1>1, <1>2 DEF OthersKeep

LEMMA LookupChanges ==
  ASSUME JobsOK, NEW t \in Threads, NEW j, Ready(j), NEW todo \in Seq(Names), Lookup(t, j, todo)
  PROVE  /\ OthersKeep(t)
         /\ job'[t].at \notin {"id", "text"}
         /\ job'[t].op = j.op /\ job'[t].got = j.got /\ job'[t].slot = j.slot
<1>1. PICK root \in {Root, NoFile} :
          job' = [job EXCEPT ![t] = Found([j EXCEPT !.todo = todo], root, Root)]
  BY DEF Lookup
<1> DEFINE i == [j EXCEPT !.todo = todo]
<1>2. Root \in 0..MaxFiles /\ root \in FileOrNone
  BY BoundAssumption DEF Root, FileOrNone
<1>3. Ready(i) /\ i.op = j.op /\ i.got = j.got /\ i.slot = j.slot
  BY DEF Ready, Jobs, Chosen
<1> HIDE DEF i
<1>4. /\ Found(i, root, Root).at \in {"walk", "list"}
      /\ Found(i, root, Root).op = i.op /\ Found(i, root, Root).got = i.got
      /\ Found(i, root, Root).slot = i.slot
  BY <1>2, <1>3, FoundIsTyped
<1>5. job'[t] = Found(i, root, Root) /\ OthersKeep(t)
  BY <1>1, OneJobChanges DEF i
<1> QED
  BY <1>3, <1>4, <1>5

LEMMA DiesChanges ==
  ASSUME JobsOK, NEW m \in Mounts, Dies(m)
  PROVE  \A u \in Threads : Keeps(u) /\ (MountOf[u] = m => job'[u] = Idle)
BY DEF Dies, Keeps

(* Each step but an INSERT                                                 *)
LEMMA StepChanges ==
  ASSUME OneThread, TypeInv, NEW t \in Threads, Step(t), ~Insert(t)
  PROVE  OthersKeep(t) /\ Acts(t)
<1>0. JobsOK
  BY DEF TypeInv
<1>1. ASSUME Return(t) PROVE OthersKeep(t) /\ Acts(t)
  <2>1. job' = [job EXCEPT ![t] = Idle]
    BY <1>1 DEF Return
  <2> QED
    BY <1>0, <2>1, OneJobChanges DEF Acts
<1>2. ASSUME NEW m \in Mounts, m = MountOf[t], Dies(m) PROVE OthersKeep(t) /\ Acts(t)
  BY <1>0, <1>2, DiesChanges DEF OthersKeep, Acts
<1>3. ASSUME NEW id, NEW moved \in BOOLEAN, Executed(t, Idle, id, moved)
      PROVE  OthersKeep(t) /\ Acts(t)
  BY <1>0, <1>3, ExecutedChanges DEF Acts
<1>4. ASSUME NEW k, job' = [job EXCEPT ![t] = k], k.at \notin {"id", "text"},
             job[t] # Idle, job[t].at # "id",
             k.op = job[t].op, k.got = job[t].got, k.slot = job[t].slot
      PROVE  OthersKeep(t) /\ Acts(t)
  <2>1. job'[t] = k /\ OthersKeep(t)
    BY <1>0, <1>4, OneJobChanges
  <2> QED
    BY <1>4, <2>1 DEF Acts, Looks, Chosen
<1>5. CASE \E op \in Callbacks, path, to \in Paths : Call(t, op, path, to)
  <2>1. PICK op \in Callbacks, path \in Paths, to \in Paths : Call(t, op, path, to)
    BY <1>5
  <2>2. PICK j, todo :
          /\ Ready(j) /\ j.op = op /\ j.got = <<>> /\ todo \in Seq(Names)
          /\ op \in Opening => j.slot \in FreeSlots(MountOf[t])
          /\ Lookup(t, j, todo)
    BY <2>1, CallDoes
  <2>3. /\ OthersKeep(t) /\ job'[t].at \notin {"id", "text"}
        /\ job'[t].op = op /\ job'[t].got = <<>> /\ job'[t].slot = j.slot
    BY <1>0, <2>2, LookupChanges
  <2>4. Looks(t)
    BY <2>2, <2>3 DEF Looks, Chosen
  <2> QED
    BY <2>3, <2>4 DEF Acts
<1>6. CASE Walk(t)
  <2> DEFINE j == job[t]
  <2>1. j # Idle /\ j \in Jobs /\ WellFormed(j) /\ j.at = "walk" /\ j.todo # <<>>
    BY <1>0, <1>6, JobIsTyped DEF Walk
  <2>2. Tail(j.todo) \in Seq(Names)
    BY <2>1, HeadTailProperties DEF Jobs
  <2>3. CASE Dies(MountOf[t])
    BY <1>2, <2>3, MountAssumption
  <2>4. CASE \E found \in FileOrNone, parent \in 0..MaxFiles :
                job' = [job EXCEPT ![t] = Found([j EXCEPT !.todo = Tail(j.todo)], found, parent)]
    <3>1. PICK found \in FileOrNone, parent \in 0..MaxFiles :
                job' = [job EXCEPT ![t] = Found([j EXCEPT !.todo = Tail(j.todo)], found, parent)]
      BY <2>4
    <3> DEFINE i == [j EXCEPT !.todo = Tail(j.todo)]
    <3>2. Ready(j)
      BY <2>1 DEF WellFormed
    <3>3. Ready(i) /\ i.op = j.op /\ i.got = j.got /\ i.slot = j.slot
      <4> HIDE DEF j
      <4> QED
        BY <2>2, <3>2 DEF Ready, Jobs, Chosen
    <3> HIDE DEF i
    <3>4. /\ Found(i, found, parent).at \notin {"id", "text"}
          /\ Found(i, found, parent).op = j.op /\ Found(i, found, parent).got = j.got
          /\ Found(i, found, parent).slot = j.slot
      BY <3>3, FoundIsTyped
    <3>5. job' = [job EXCEPT ![t] = Found(i, found, parent)]
      BY <3>1 DEF i
    <3> QED
      BY <1>4, <2>1, <3>4, <3>5
  <2>5. Dies(MountOf[t]) \/ \E found \in FileOrNone, parent \in 0..MaxFiles :
                job' = [job EXCEPT ![t] = Found([j EXCEPT !.todo = Tail(j.todo)], found, parent)]
    <3>1. Find(j.cur, Head(j.todo)) \in FileOrNone /\ NoFile \in FileOrNone
      BY FindsAFile DEF TypeInv, RowsOK, FileOrNone
    <3>2. Root \in 0..MaxFiles /\ \A i : ParentOf(i) \in 0..MaxFiles
      BY FilesAreBounded, BoundAssumption DEF TypeInv, Root
    <3> QED
      BY <1>6, <3>1, <3>2 DEF Walk
  <2> HIDE DEF j
  <2> QED
    BY <2>3, <2>4, <2>5
<1>7. CASE WalkOffNull(t)
  BY <1>2, <1>7, MountAssumption DEF WalkOffNull
<1>8. CASE List(t)
  <2> DEFINE kids == Children(job[t].cur)
             k == [job[t] EXCEPT !.kids = kids,
                                 !.list = IF kids = {} THEN "none" ELSE "whole",
                                 !.at = IF kids = {} THEN "walk" ELSE "visit"]
  <2>1. job[t] # Idle /\ job[t] \in Jobs /\ job[t].at = "list"
    BY <1>0, <1>8, JobIsTyped DEF List
  <2>2. CASE Dies(MountOf[t])
    BY <1>2, <2>2, MountAssumption
  <2>3. CASE job' = [job EXCEPT ![t].kids = kids,
                                ![t].list = IF kids = {} THEN "none" ELSE "whole",
                                ![t].at = IF kids = {} THEN "walk" ELSE "visit"]
    <3> HIDE DEF kids
    <3>1. job' = [job EXCEPT ![t] = k]
      BY <1>0, <2>1, <2>3 DEF JobsOK
    <3>2. /\ k.at \notin {"id", "text"} /\ k.op = job[t].op
          /\ k.got = job[t].got /\ k.slot = job[t].slot
      BY <2>1 DEF Jobs
    <3> HIDE DEF k
    <3> QED
      BY <1>4, <2>1, <3>1, <3>2
  <2> QED
    BY <1>8, <2>2, <2>3 DEF List
<1>9. CASE Visit(t)
  <2>1. job[t] # Idle /\ job[t] \in Jobs /\ job[t].at = "visit"
    BY <1>0, <1>9, JobIsTyped DEF Visit
  <2>2. PICK kid \in job[t].kids, there \in BOOLEAN :
          job' = [job EXCEPT
              ![t].kids = @ \ {kid},
              ![t].list = IF there /\ kid \in Files THEN @ ELSE "broken",
              ![t].at = IF job[t].kids = {kid} THEN "walk" ELSE "visit"]
    BY <1>9 DEF Visit
  <2> DEFINE k == [job[t] EXCEPT !.kids = job[t].kids \ {kid},
                     !.list = IF there /\ kid \in Files THEN job[t].list ELSE "broken",
                     !.at = IF job[t].kids = {kid} THEN "walk" ELSE "visit"]
  <2>3. job' = [job EXCEPT ![t] = k]
    BY <1>0, <2>1, <2>2 DEF JobsOK
  <2>4. /\ k.at \notin {"id", "text"} /\ k.op = job[t].op
        /\ k.got = job[t].got /\ k.slot = job[t].slot
    BY <2>1 DEF Jobs
  <2> HIDE DEF k
  <2> QED
    BY <1>4, <2>1, <2>3, <2>4
<1>10. CASE LookupNext(t)
  <2>1. PICK todo \in Seq(Names) :
          /\ job[t] \in Jobs /\ job[t].op \in {"move", "swap"}
          /\ Ready(Kept(job[t])) /\ Lookup(t, Kept(job[t]), todo)
    BY <1>10, LookupNextDoes
  <2>2. OthersKeep(t) /\ job'[t].at \notin {"id", "text"} /\ job'[t].op \in {"move", "swap"}
    BY <1>0, <2>1, LookupChanges, KeptIsTyped
  <2> QED
    BY <2>2 DEF Acts, Looks, Chosen, Opening
<1>11. CASE ReadId(t)
  <2> DEFINE j == job[t]
             text == [j EXCEPT !.at = "text", !.cur = j.cur]
  <2>1. j # Idle /\ j \in Jobs /\ j.at = "id"
    BY <1>11, ReadIdDoes
  <2>2. CASE j.op = "symlink" /\ job' = [job EXCEPT ![t] = text]
    <3>1. text.at = "text" /\ text.op = j.op /\ text.cur = j.cur /\ text.got = j.got
      BY <2>1 DEF Jobs
    <3> HIDE DEF text
    <3>2. job'[t] = text /\ OthersKeep(t)
      BY <1>0, <2>2, OneJobChanges
    <3> QED
      BY <2>1, <2>2, <3>1, <3>2 DEF Acts, Targets
  <2>3. ASSUME NEW slot \in FreeSlots(MountOf[t]), NEW todo \in Seq(Names),
               Ready([j EXCEPT !.slot = slot]), Lookup(t, [j EXCEPT !.slot = slot], todo)
        PROVE  OthersKeep(t) /\ Acts(t)
    <3>1. [j EXCEPT !.slot = slot].slot = slot
      BY <2>1 DEF Jobs
    <3>2. OthersKeep(t) /\ job'[t].at \notin {"id", "text"} /\ job'[t].slot = slot
      BY <1>0, <2>3, <3>1, LookupChanges
    <3> QED
      BY <3>2 DEF Acts, Looks
  <2> HIDE DEF text
  <2> QED
    BY <1>1, <1>11, <2>2, <2>3, ReadIdDoes DEF text
<1>12. CASE SetAttributes(t) \/ Delete(t)
  BY <1>3, <1>12 DEF SetAttributes, Updated, Delete
<1>13. CASE AppendTarget(t)
  BY <1>3, <1>13 DEF AppendTarget
<1>14. CASE Move(t)
  <2>1. Return(t) \/ Renames(t)
    BY <1>14, MoveDoes
  <2> QED
    BY <1>1, <1>3, <2>1 DEF Renames
<1>15. CASE Swap(t)
  BY <1>3, <1>15, SwapDoes DEF Renames
<1>16. CASE \E d \in fds : Release(t, d) \/ ReadDir(t, d)
  <2>1. PICK d \in fds : Release(t, d) \/ ReadDir(t, d)
    BY <1>16
  <2>2. d.mount = MountOf[t] /\ d.mount \in Mounts
    BY <2>1, MountAssumption DEF Release, ReadDir
  <2>3. CASE Dies(d.mount)
    BY <1>2, <2>2, <2>3
  <2>4. CASE UNCHANGED job /\ job[t] = Idle
    BY <2>4 DEF OthersKeep, Keeps, Acts
  <2> QED
    BY <2>1, <2>3, <2>4 DEF Release, ReadDir
<1> QED
  BY <1>1, <1>5, <1>6, <1>7, <1>8, <1>9, <1>10, <1>11, <1>12, <1>13, <1>14, <1>15, <1>16
     DEF Step, Refuse, QueryFails, GetAttributes, Unlink, Rmdir, Store

-----------------------------------------------------------------------------
(* Links                                                                   *)

(* Between its INSERT and the end of its append, a thread holds the id of  *)
(* a row that no other holds, and that has no target if it is still there. *)
Holds(t) == job[t] # Idle /\ job[t].at \in {"id", "text"}
HeldIsOwn(t) ==
    LET j == job[t]
    IN  /\ j.cur = j.got[1].file /\ j.cur \in 1..(nextId - 1)
        /\ j.cur \in Files => rows[j.cur].type = Kinds[j.op] /\ rows[j.cur].text = "none"
LinkInv ==
    /\ LinksHoldOwnTarget
    /\ \A t \in Threads : Holds(t) => HeldIsOwn(t)
    /\ \A t, u \in Threads : Holds(t) /\ Holds(u) /\ t # u => job[t].cur # job[u].cur

(* A step that inserts nothing and appends nothing                         *)
RowsKeepLinks ==
    /\ nextId' = nextId /\ Files' \subseteq Files
    /\ \A i \in Files' : rows'[i].type = rows[i].type /\ rows'[i].text = rows[i].text

LEMMA LinksCarried ==
  ASSUME LinkInv, NEW t \in Threads, OthersKeep(t), Acts(t), RowsKeepLinks
  PROVE  LinkInv'
<1>1. ASSUME NEW u \in Threads, Holds(u)'
      PROVE  /\ Holds(u) /\ job'[u].cur = job[u].cur /\ job'[u].got = job[u].got
             /\ job'[u].op = job[u].op
  BY <1>1 DEF OthersKeep, Keeps, Acts, Looks, Targets, Holds
<1>2. LinksHoldOwnTarget'
  BY DEF LinkInv, LinksHoldOwnTarget, RowsKeepLinks
<1>3. ASSUME NEW u \in Threads, Holds(u)' PROVE HeldIsOwn(u)'
  BY <1>1, <1>3 DEF LinkInv, HeldIsOwn, RowsKeepLinks
<1>4. ASSUME NEW u \in Threads, NEW v \in Threads, Holds(u)', Holds(v)', u # v
      PROVE  job'[u].cur # job'[v].cur
  BY <1>1, <1>4 DEF LinkInv
<1> QED
  BY <1>2, <1>3, <1>4 DEF LinkInv

LEMMA InsertKeepsLinks ==
  ASSUME OneThread, TypeInv, LinkInv, NEW t \in Threads, Insert(t)
  PROVE  LinkInv'
<1> DEFINE j == job[t]
           new == [parent |-> j.cur, name |-> Basename(j.path),
                   type |-> Kinds[j.op], text |-> "none"]
           k == [j EXCEPT !.at = "id", !.cur = nextId]
<1>1. CASE Return(t) /\ UNCHANGED <<rows, nextId, table, fds, up>>
  <2>1. job' = [job EXCEPT ![t] = Idle]
    BY <1>1 DEF Return
  <2>2. OthersKeep(t) /\ Acts(t)
    BY <2>1, OneJobChanges DEF Acts, TypeInv
  <2>3. RowsKeepLinks
    BY <1>1 DEF RowsKeepLinks, Files
  <2> QED
    BY <2>2, <2>3, LinksCarried
<1>2. CASE /\ j \in Jobs /\ j.op \in DOMAIN Kinds /\ j.got = <<>>
           /\ nextId \in 1..MaxFiles /\ nextId' = nextId + 1
           /\ Files' = Files \cup {nextId} /\ nextId \notin Files
           /\ rows'[nextId] = new
           /\ \A i \in Files : rows'[i] = rows[i]
           /\ Executed(t, Kept(k), nextId, FALSE)
  <2>1. k \in Jobs /\ k.got = <<>> /\ k.op = j.op /\ k.at = "id" /\ k.cur = nextId
    <3>1. nextId \in FileOrNone
      BY <1>2 DEF FileOrNone
    <3> QED
      BY <1>2, <3>1 DEF Jobs
  <2>2. job'[t] = Kept(k) /\ OthersKeep(t)
    <3> HIDE DEF k
    <3> QED
      BY <1>2, ExecutedChanges DEF TypeInv
  <2>3. /\ job'[t].at = "id" /\ job'[t].cur = nextId /\ job'[t].op = j.op
        /\ job'[t].got[1].file = nextId
    <3>1. Kept(k).at = "id" /\ Kept(k).cur = nextId /\ Kept(k).op = j.op
      BY <2>1, KeptIsTyped
    <3>2. Kept(k).got = Append(<<>>, [file |-> nextId, parent |-> k.parent])
      BY <2>1 DEF Kept, Jobs
    <3>3. Append(<<>>, [file |-> nextId, parent |-> k.parent])[1]
            = [file |-> nextId, parent |-> k.parent]
      OBVIOUS
    <3> HIDE DEF k
    <3>4. Kept(k).got[1].file = nextId
      BY <3>2, <3>3
    <3> QED
      BY <2>2, <3>1, <3>4
  <2>4. nextId \in Nat /\ Files \subseteq 1..(nextId - 1)
    BY <1>2 DEF TypeInv, RowsOK
  <2>5. rows'[nextId].type = Kinds[j.op] /\ rows'[nextId].text = "none"
    BY <1>2
  <2> HIDE DEF k, new
  <2>6. ASSUME NEW u \in Threads, u # t, Holds(u)'
        PROVE  /\ Holds(u) /\ job'[u].cur = job[u].cur /\ job'[u].got = job[u].got
               /\ job'[u].op = job[u].op
    BY <2>2, <2>6 DEF OthersKeep, Keeps, Holds
  <2>7. LinksHoldOwnTarget'
    BY <1>2, <2>5 DEF LinkInv, LinksHoldOwnTarget
  <2>8. HeldIsOwn(t)'
    BY <1>2, <2>3, <2>4, <2>5 DEF HeldIsOwn
  <2>9. ASSUME NEW u \in Threads, u # t, Holds(u)'
        PROVE  HeldIsOwn(u)' /\ job'[u].cur \in 1..(nextId - 1)
    <3>1. HeldIsOwn(u)
      BY <2>6, <2>9 DEF LinkInv
    <3>2. job[u].cur \in 1..(nextId - 1) /\ job[u].cur # nextId
      BY <2>4, <3>1 DEF HeldIsOwn
    <3>3. job[u].cur \in 1..(nextId' - 1)
      BY <1>2, <2>4, <3>2
    <3> QED
      BY <1>2, <2>6, <2>9, <3>1, <3>2, <3>3 DEF HeldIsOwn
  <2>10. ASSUME NEW u \in Threads, NEW v \in Threads, Holds(u)', Holds(v)', u # v
         PROVE  job'[u].cur # job'[v].cur
    <3>1. nextId \notin 1..(nextId - 1)
      BY <2>4
    <3>2. CASE u = t
      BY <2>3, <2>9, <2>10, <3>1, <3>2
    <3>3. CASE v = t
      BY <2>3, <2>9, <2>10, <3>1, <3>3
    <3>4. CASE u # t /\ v # t
      BY <2>6, <2>10, <3>4 DEF LinkInv
    <3> QED
      BY <3>2, <3>3, <3>4
  <2> QED
    BY <2>7, <2>8, <2>9, <2>10 DEF LinkInv
<1>3. \/ Return(t) /\ UNCHANGED <<rows, nextId, table, fds, up>>
      \/ /\ j \in Jobs /\ j.op \in DOMAIN Kinds /\ j.got = <<>>
         /\ nextId \in 1..MaxFiles /\ nextId' = nextId + 1
         /\ Files' = Files \cup {nextId} /\ nextId \notin Files
         /\ rows'[nextId] = new
         /\ \A i \in Files : rows'[i] = rows[i]
         /\ Executed(t, Kept(k), nextId, FALSE)
  BY InsertDoes
<1> HIDE DEF j, new, k
<1> QED
  BY <1>1, <1>2, <1>3

LEMMA AppendKeepsLinks ==
  ASSUME OneThread, TypeInv, LinkInv, NEW t \in Threads, AppendTarget(t)
  PROVE  LinkInv'
<1> DEFINE i == job[t].cur
           own == i = job[t].got[1].file /\ rows[i].text = "none"
<1>1. /\ nextId' = nextId /\ job[t] # Idle /\ job[t].at = "text"
      /\ Files' = Files
      /\ \A k \in Files \ {i} : rows'[k] = rows[k]
      /\ i \in Files => rows'[i] = [rows[i] EXCEPT !.text = IF own THEN "own" ELSE "foreign"]
      /\ \E id \in 0..MaxFiles : Executed(t, Idle, id, FALSE)
  BY AppendTargetDoes
<1>2. job'[t] = Idle /\ OthersKeep(t)
  BY <1>1, ExecutedChanges DEF TypeInv
<1>3. Holds(t) /\ HeldIsOwn(t) /\ job[t].op = "symlink"
  BY <1>1, JobIsTyped DEF Holds, LinkInv, TypeInv, WellFormed
<1>4. i \in Files => own /\ rows[i].type = "Soft Link"
  BY <1>3, KindsAre DEF HeldIsOwn
<1>5. i \in Files => rows'[i].type = "Soft Link" /\ rows'[i].text = "own"
  <2> HIDE DEF i, own
  <2> QED
    BY <1>1, <1>4 DEF TypeInv, RowsOK, Row
<1>6. ASSUME NEW u \in Threads, Holds(u)'
      PROVE  /\ u # t /\ Holds(u) /\ job'[u].cur = job[u].cur /\ job'[u].got = job[u].got
             /\ job'[u].op = job[u].op
  BY <1>2, <1>6 DEF OthersKeep, Keeps, Holds
<1>7. LinksHoldOwnTarget'
  <2> HIDE DEF i, own
  <2> QED
    BY <1>1, <1>5 DEF LinkInv, LinksHoldOwnTarget
<1>8. ASSUME NEW u \in Threads, Holds(u)' PROVE HeldIsOwn(u)'
  <2>1. u # t /\ Holds(u) /\ HeldIsOwn(u) /\ job[u].cur # i
    BY <1>3, <1>6, <1>8 DEF LinkInv
  <2> HIDE DEF i, own
  <2> QED
    BY <1>1, <1>6, <1>8, <2>1 DEF HeldIsOwn
<1>9. ASSUME NEW u \in Threads, NEW v \in Threads, Holds(u)', Holds(v)', u # v
      PROVE  job'[u].cur # job'[v].cur
  BY <1>6, <1>9 DEF LinkInv
<1> QED
  BY <1>7, <1>8, <1>9 DEF LinkInv

LEMMA StepKeepsLinks ==
  ASSUME OneThread, TypeInv, LinkInv, NEW t \in Threads, Step(t)
  PROVE  LinkInv'
<1>1. CASE Insert(t)
  BY <1>1, InsertKeepsLinks
<1>2. CASE AppendTarget(t)
  BY <1>2, AppendKeepsLinks
<1>3. ASSUME ~Insert(t), RowsKeepLinks PROVE LinkInv'
  BY <1>3, StepChanges, LinksCarried
<1>4. CASE ~Insert(t) /\ Delete(t)
  <2>1. RowsKeepLinks
    BY <1>4 DEF Delete, RowsKeepLinks, Files
  <2> QED
    BY <1>3, <1>4, <2>1
<1>5. CASE ~Insert(t) /\ Move(t)
  <2> DEFINE i == job[t].got[2].file
             dir == job[t].cur
             name == Basename(job[t].to)
  <2>1. /\ nextId' = nextId
        /\ \/ UNCHANGED rows
           \/ /\ Files' = Files
              /\ \A k \in Files \ {i} : rows'[k] = rows[k]
              /\ i \in Files => rows'[i] = [rows[i] EXCEPT !.parent = dir, !.name = name]
    BY <1>5, MoveDoes
  <2> HIDE DEF i, dir, name
  <2>2. \A k \in Files : rows[k] \in Row
    BY DEF TypeInv, RowsOK
  <2>3. CASE UNCHANGED rows
    BY <1>3, <1>5, <2>1, <2>3 DEF RowsKeepLinks, Files
  <2>4. CASE /\ Files' = Files
             /\ \A k \in Files \ {i} : rows'[k] = rows[k]
             /\ i \in Files => rows'[i] = [rows[i] EXCEPT !.parent = dir, !.name = name]
    <3>1. i \in Files => rows'[i].type = rows[i].type /\ rows'[i].text = rows[i].text
      BY <2>2, <2>4 DEF Row
    <3>2. RowsKeepLinks
      BY <2>1, <2>4, <3>1 DEF RowsKeepLinks
    <3> QED
      BY <1>3, <1>5, <3>2
  <2> QED
    BY <2>1, <2>3, <2>4
<1>6. CASE ~Insert(t) /\ Swap(t)
  <2> DEFINE i == job[t].got[1].file
             pi == job[t].got[1].parent
             j == job[t].cur
             pj == job[t].parent
  <2>1. /\ nextId' = nextId
        /\ \/ UNCHANGED rows
           \/ /\ Files' = Files
              /\ \A k \in Files \ {i, j} : rows'[k] = rows[k]
              /\ j \in Files => rows'[j] = [rows[j] EXCEPT !.parent = pi]
              /\ i \in Files /\ i # j => rows'[i] = [rows[i] EXCEPT !.parent = pj]
    BY <1>6, SwapDoes
  <2> HIDE DEF i, pi, j, pj
  <2>2. \A k \in Files : rows[k] \in Row
    BY DEF TypeInv, RowsOK
  <2>3. CASE UNCHANGED rows
    BY <1>3, <1>6, <2>1, <2>3 DEF RowsKeepLinks, Files
  <2>4. CASE /\ Files' = Files
             /\ \A k \in Files \ {i, j} : rows'[k] = rows[k]
             /\ j \in Files => rows'[j] = [rows[j] EXCEPT !.parent = pi]
             /\ i \in Files /\ i # j => rows'[i] = [rows[i] EXCEPT !.parent = pj]
    <3>1. j \in Files => rows'[j].type = rows[j].type /\ rows'[j].text = rows[j].text
      BY <2>2, <2>4 DEF Row
    <3>2. i \in Files => rows'[i].type = rows[i].type /\ rows'[i].text = rows[i].text
      BY <2>2, <2>4, <3>1 DEF Row
    <3>3. RowsKeepLinks
      BY <2>1, <2>4, <3>1, <3>2 DEF RowsKeepLinks
    <3> QED
      BY <1>3, <1>6, <3>3
  <2> QED
    BY <2>1, <2>3, <2>4
<1>7. CASE ~Insert(t) /\ UNCHANGED <<rows, nextId>>
  <2>1. RowsKeepLinks
    BY <1>7 DEF RowsKeepLinks, Files
  <2> QED
    BY <1>3, <1>7, <2>1
<1> QED
  BY <1>1, <1>2, <1>4, <1>5, <1>6, <1>7
     DEF Step, Call, Walk, WalkOffNull, List, Visit, Refuse, LookupNext, QueryFails,
         GetAttributes, SetAttributes, Unlink, Rmdir, ReadId, Store, Release, ReadDir

(* If no two threads share a connection, a target is appended to the link  *)
(* it was given for, whatever the other mounts insert and delete.          *)
THEOREM OwnTargets ==
  ASSUME OneThread
  PROVE  Spec => []LinksHoldOwnTarget
<1>1. Init => LinkInv
  <2> SUFFICES ASSUME Init PROVE LinkInv
    OBVIOUS
  <2>1. \A t \in Threads : ~Holds(t)
    BY DEF Init, Holds
  <2>2. \A i \in Files : rows[i].text = "none"
    BY StartsAssumption DEF Init, Files
  <2> QED
    BY <2>1, <2>2 DEF LinkInv, LinksHoldOwnTarget
<1>2. TypeInv /\ RequestsOK /\ LinkInv /\ [Next]_vars => LinkInv'
  <2> SUFFICES ASSUME TypeInv, RequestsOK, LinkInv, [Next]_vars PROVE LinkInv'
    OBVIOUS
  <2>1. CASE UNCHANGED <<rows, nextId, job>>
    BY <2>1 DEF LinkInv, LinksHoldOwnTarget, Holds, HeldIsOwn, Files
  <2> QED
    BY <2>1, NextSteps, StepKeepsLinks DEF Remount, vars
<1>3. LinkInv => LinksHoldOwnTarget
  BY DEF LinkInv
<1> QED
  BY <1>1, <1>2, <1>3, TypesHold, RequestsHold, PTL DEF Spec

-----------------------------------------------------------------------------
(* Slots                                                                   *)

(* The slot that a call has chosen is free until it is filled.             *)
Choosing(t) == job[t] # Idle /\ Chosen(job[t]) /\ job[t].at # "id"
SlotInv ==
    /\ SlotsMatchFiles
    /\ \A t \in Threads : Choosing(t) => table[MountOf[t]][job[t].slot] = NoFile

LEMMA SameSlots ==
  ASSUME SlotInv, NEW t \in Threads, OthersKeep(t), Acts(t), UNCHANGED <<table, fds>>
  PROVE  SlotInv'
<1>1. SlotsMatchFiles'
  BY DEF SlotInv, SlotsMatchFiles
<1>2. ASSUME NEW u \in Threads, Choosing(u)'
      PROVE  table[MountOf[u]][job'[u].slot] = NoFile
  <2>1. CASE u # t
    <3>1. Choosing(u) /\ job'[u].slot = job[u].slot
      BY <1>2, <2>1 DEF OthersKeep, Keeps, Choosing, Chosen
    <3> QED
      BY <3>1 DEF SlotInv
  <2>2. CASE u = t /\ Looks(t)
    <3>1. Chosen(job'[t])
      BY <1>2, <2>2 DEF Choosing, Chosen
    <3>2. CASE job'[t].slot \in FreeSlots(MountOf[t])
      BY <2>2, <3>2 DEF FreeSlots
    <3>3. CASE Choosing(t) /\ job'[t].slot = job[t].slot
      BY <2>2, <3>3 DEF SlotInv
    <3> QED
      BY <2>2, <3>1, <3>2, <3>3 DEF Looks, Choosing
  <2>3. CASE u = t /\ (job'[t] = Idle \/ Targets(t))
    BY <1>2, <2>3 DEF Choosing, Chosen, Targets, Opening
  <2> QED
    BY <2>1, <2>2, <2>3 DEF Acts
<1> QED
  BY <1>1, <1>2 DEF SlotInv

LEMMA InsertKeepsSlots ==
  ASSUME OneThread, TypeInv, SlotInv, NEW t \in Threads, Insert(t)
  PROVE  SlotInv'
<1> DEFINE k == [job[t] EXCEPT !.at = "id", !.cur = nextId]
<1>1. UNCHANGED <<table, fds>>
  BY DEF Insert
<1>2. CASE Return(t)
  <2>1. job' = [job EXCEPT ![t] = Idle]
    BY <1>2 DEF Return
  <2>2. OthersKeep(t) /\ Acts(t)
    BY <2>1, OneJobChanges DEF Acts, TypeInv
  <2> QED
    BY <1>1, <2>2, SameSlots
<1>3. CASE /\ job[t] \in Jobs /\ nextId \in 1..MaxFiles
           /\ Executed(t, Kept(k), nextId, FALSE)
  <2>1. k \in Jobs /\ k.at = "id"
    <3>1. nextId \in FileOrNone
      BY <1>3 DEF FileOrNone
    <3> QED
      BY <1>3, <3>1 DEF Jobs
  <2> HIDE DEF k
  <2>2. job'[t] = Kept(k) /\ OthersKeep(t)
    BY <1>3, ExecutedChanges DEF TypeInv
  <2>3. ~Choosing(t)'
    BY <2>1, <2>2, KeptIsTyped DEF Choosing
  <2>4. \A u \in Threads \ {t} : Choosing(u)' => Choosing(u) /\ job'[u].slot = job[u].slot
    BY <2>2 DEF OthersKeep, Keeps, Choosing, Chosen
  <2> QED
    BY <1>1, <2>3, <2>4 DEF SlotInv, SlotsMatchFiles
<1> HIDE DEF k
<1> QED
  BY <1>2, <1>3, InsertDoes DEF k

LEMMA DiesKeepsSlots ==
  ASSUME TypeInv, SlotInv, NEW m \in Mounts, Dies(m)
  PROVE  SlotInv'
<1>1. /\ table' = [table EXCEPT ![m] = [s \in Slots |-> NoFile]]
      /\ fds' = {d \in fds : d.mount # m}
  BY DEF Dies
<1>2. /\ \A n \in Mounts \ {m} : table'[n] = table[n]
      /\ \A s \in Slots : table'[m][s] = NoFile
  BY <1>1 DEF TypeInv, TableOK
<1>3. \A d \in fds' : d \in fds /\ d.mount \in Mounts \ {m} /\ d.slot \in Slots
  BY <1>1 DEF TypeInv, TableOK
<1>4. SlotsMatchFiles'
  BY <1>1, <1>2, <1>3 DEF SlotInv, SlotsMatchFiles
<1>5. ASSUME NEW u \in Threads, Choosing(u)'
      PROVE  table'[MountOf[u]][job'[u].slot] = NoFile
  <2>1. job'[u] = job[u] /\ MountOf[u] # m /\ Choosing(u)
    BY <1>5 DEF Dies, Choosing
  <2> QED
    BY <1>2, <2>1, MountAssumption DEF SlotInv
<1> QED
  BY <1>4, <1>5 DEF SlotInv

LEMMA StoreKeepsSlots ==
  ASSUME OneThread, TypeInv, SlotInv, NEW t \in Threads, Store(t)
  PROVE  SlotInv'
<1> DEFINE m == MountOf[t]
           s == job[t].slot
           file == job[t].cur
           entry == [file |-> file, whole |-> job[t].list # "broken"]
           d == [mount |-> m, slot |-> s, file |-> file, by |-> t]
<1>1. /\ m \in Mounts /\ s \in Slots /\ entry \in Entry /\ Choosing(t)
      /\ table' = [table EXCEPT ![m] = [table[m] EXCEPT ![s] = entry]]
      /\ fds' = fds \cup {d}
      /\ Return(t)
  BY StoreDoes DEF Choosing
<1>2. table[m][s] = NoFile
  BY <1>1 DEF SlotInv
<1>3. entry # NoFile /\ entry.file = file
  BY <1>1, NoFileAssumption
<1>4. d.mount = m /\ d.slot = s /\ d.file = file
  OBVIOUS
<1>5. job'[t] = Idle /\ OthersKeep(t)
  BY <1>1, OneJobChanges DEF Return, TypeInv
<1>6. \A u \in Threads \ {t} : MountOf[u] \in Mounts \ {m}
  BY MountAssumption DEF OneThread
<1> HIDE DEF m, s, file, entry, d
<1>7. /\ table'[m][s] = entry
      /\ \A r \in Slots \ {s} : table'[m][r] = table[m][r]
      /\ \A n \in Mounts \ {m} : table'[n] = table[n]
  BY <1>1 DEF TypeInv, TableOK
<1>8. \A e \in fds : /\ e.mount \in Mounts /\ e.slot \in Slots
                     /\ ~(e.mount = m /\ e.slot = s)
  BY <1>2 DEF TypeInv, TableOK, SlotInv, SlotsMatchFiles
<1>9. \A e \in fds : table'[e.mount][e.slot] = table[e.mount][e.slot]
  BY <1>7, <1>8
<1>10. SlotsMatchFiles'
  <2>1. ASSUME NEW e \in fds', NEW f \in fds', e.mount = f.mount, e.slot = f.slot
        PROVE  e = f
    BY <1>1, <1>4, <1>8, <2>1 DEF SlotInv, SlotsMatchFiles
  <2>2. ASSUME NEW e \in fds'
        PROVE  /\ table'[e.mount][e.slot] # NoFile
               /\ table'[e.mount][e.slot].file = e.file
    BY <1>1, <1>3, <1>4, <1>7, <1>9, <2>2 DEF SlotInv, SlotsMatchFiles
  <2>3. ASSUME NEW n \in Mounts, NEW r \in Slots, table'[n][r] # NoFile
        PROVE  \E e \in fds' : e.mount = n /\ e.slot = r
    <3>1. CASE n = m /\ r = s
      BY <1>1, <1>4, <3>1
    <3>2. CASE ~(n = m /\ r = s)
      BY <1>1, <1>7, <2>3, <3>2 DEF SlotInv, SlotsMatchFiles
    <3> QED
      BY <3>1, <3>2
  <2> QED
    BY <2>1, <2>2, <2>3 DEF SlotsMatchFiles
<1>11. ASSUME NEW u \in Threads, Choosing(u)'
       PROVE  table'[MountOf[u]][job'[u].slot] = NoFile
  <2>1. u # t /\ Choosing(u) /\ job'[u].slot = job[u].slot
    BY <1>5, <1>11 DEF OthersKeep, Keeps, Choosing, Chosen
  <2> QED
    BY <1>6, <1>7, <2>1 DEF SlotInv
<1> QED
  BY <1>10, <1>11 DEF SlotInv

LEMMA ReleaseKeepsSlots ==
  ASSUME TypeInv, SlotInv, NEW t \in Threads, NEW d \in fds, Release(t, d)
  PROVE  SlotInv'
<1>1. d.mount \in Mounts /\ d.slot \in Slots
  BY DEF TypeInv, TableOK
<1>2. CASE Dies(d.mount)
  BY <1>1, <1>2, DiesKeepsSlots
<1>3. CASE /\ table' = [table EXCEPT ![d.mount] = [table[d.mount] EXCEPT ![d.slot] = NoFile]]
           /\ fds' = fds \ {d} /\ UNCHANGED job
  <2>1. /\ table'[d.mount][d.slot] = NoFile
        /\ \A n \in Mounts, r \in Slots :
              ~(n = d.mount /\ r = d.slot) => table'[n][r] = table[n][r]
    BY <1>1, <1>3 DEF TypeInv, TableOK
  <2>2. \A e \in fds' : /\ e \in fds /\ e.mount \in Mounts /\ e.slot \in Slots
                        /\ ~(e.mount = d.mount /\ e.slot = d.slot)
    BY <1>3 DEF SlotInv, SlotsMatchFiles, TypeInv, TableOK
  <2>3. SlotsMatchFiles'
    <3>1. \A e, f \in fds' : e.mount = f.mount /\ e.slot = f.slot => e = f
      BY <2>2 DEF SlotInv, SlotsMatchFiles
    <3>2. \A e \in fds' : table'[e.mount][e.slot] # NoFile /\ table'[e.mount][e.slot].file = e.file
      BY <2>1, <2>2 DEF SlotInv, SlotsMatchFiles
    <3>3. ASSUME NEW n \in Mounts, NEW r \in Slots, table'[n][r] # NoFile
          PROVE  \E e \in fds' : e.mount = n /\ e.slot = r
      <4>1. ~(n = d.mount /\ r = d.slot) /\ table[n][r] # NoFile
        BY <2>1, <3>3
      <4>2. PICK e \in fds : e.mount = n /\ e.slot = r
        BY <4>1 DEF SlotInv, SlotsMatchFiles
      <4> QED
        BY <1>3, <4>1, <4>2
    <3> QED
      BY <3>1, <3>2, <3>3 DEF SlotsMatchFiles
  <2>4. ASSUME NEW u \in Threads, Choosing(u)'
        PROVE  table'[MountOf[u]][job'[u].slot] = NoFile
    <3>1. /\ Choosing(u) /\ job'[u] = job[u] /\ MountOf[u] \in Mounts
          /\ job[u] \in Jobs /\ WellFormed(job[u])
      BY <1>3, <2>4, JobIsTyped, MountAssumption DEF Choosing, TypeInv
    <3>2. job[u].slot \in Slots
      BY <3>1 DEF Choosing, WellFormed, Ready
    <3> QED
      BY <2>1, <3>1, <3>2 DEF SlotInv
  <2> QED
    BY <2>3, <2>4 DEF SlotInv
<1> QED
  BY <1>2, <1>3, ReleaseDoes

LEMMA StepKeepsSlots ==
  ASSUME OneThread, TypeInv, SlotInv, NEW t \in Threads, Step(t)
  PROVE  SlotInv'
<1>1. CASE Insert(t)
  BY <1>1, InsertKeepsSlots
<1>2. CASE Store(t)
  BY <1>2, StoreKeepsSlots
<1>3. ASSUME NEW d \in fds, Release(t, d) PROVE SlotInv'
  BY <1>3, ReleaseKeepsSlots
<1>4. ASSUME NEW m \in Mounts, Dies(m) PROVE SlotInv'
  BY <1>4, DiesKeepsSlots
<1>5. CASE ~Insert(t) /\ UNCHANGED <<table, fds>>
  BY <1>5, StepChanges, SameSlots
<1>6. ASSUME NEW d \in fds, ReadDir(t, d) PROVE SlotInv'
  <2>1. d.mount \in Mounts
    BY DEF TypeInv, TableOK
  <2> QED
    BY <1>4, <1>6, <2>1 DEF ReadDir
<1>7. MountOf[t] \in Mounts
  BY MountAssumption
<1> QED
  BY <1>1, <1>2, <1>3, <1>4, <1>5, <1>6, <1>7
     DEF Step, Call, Walk, WalkOffNull, List, Visit, Refuse, LookupNext, QueryFails,
         GetAttributes, SetAttributes, Unlink, Rmdir, Delete, ReadId, AppendTarget, Move, Swap

(* If the threads that open files do not share a table, an open file has a *)
(* slot of its own, and no slot is lost, whatever fails.                   *)
THEOREM OwnSlots ==
  ASSUME OneThread
  PROVE  Spec => []SlotsMatchFiles
<1>1. Init => SlotInv
  BY DEF Init, SlotInv, SlotsMatchFiles, Choosing
<1>2. TypeInv /\ RequestsOK /\ SlotInv /\ [Next]_vars => SlotInv'
  <2> SUFFICES ASSUME TypeInv, RequestsOK, SlotInv, [Next]_vars PROVE SlotInv'
    OBVIOUS
  <2>1. CASE \E m \in Mounts : Remount(m)
    BY <2>1 DEF Remount, SlotInv, SlotsMatchFiles, Choosing
  <2>2. CASE UNCHANGED vars
    BY <2>2 DEF vars, SlotInv, SlotsMatchFiles, Choosing
  <2> QED
    BY <2>1, <2>2, NextSteps, StepKeepsSlots
<1>3. SlotInv => SlotsMatchFiles
  BY DEF SlotInv
<1> QED
  BY <1>1, <1>2, <1>3, TypesHold, RequestsHold, PTL DEF Spec


-----------------------------------------------------------------------------
(* One tree: how a renaming of files to other directories keeps it         *)

Smaller == {ss \in Nat \X Nat : ss[1] < ss[2]}

LEMMA LeastNumber ==
  ASSUME NEW T \in SUBSET Nat, T # {}
  PROVE  \E m \in T : \A k \in T : m <= k
<1>1. OpToRel(<, Nat) = Smaller
  BY DEF OpToRel, Smaller
<1>2. IsWellFoundedOn(Smaller, Nat)
  BY <1>1, NatLessThanWellFounded
<1>3. PICK x \in T : \A y \in T : ~(<<y, x>> \in Smaller)
  BY <1>2, WFMin
<1>4. \A a, b \in Nat : <<a, b>> \in Smaller <=> a < b
  BY DEF Smaller
<1>5. \A y \in T : x \in Nat /\ y \in Nat /\ ~(y < x)
  BY <1>3, <1>4
<1> QED  BY <1>5

LEMMA RootIsNoFile ==
  ASSUME RowsOK
  PROVE  /\ nextId \in Nat /\ Root < nextId
         /\ Files \subseteq 1..(nextId - 1) /\ Files \subseteq 1..MaxFiles
         /\ Root \notin Files /\ NoFile \notin Files /\ NoFile # Root
<1>1. /\ nextId \in Nat /\ Root < nextId
      /\ Files \subseteq 1..(nextId - 1) /\ Files \subseteq 1..MaxFiles
  BY FilesAreBounded, BoundAssumption DEF RowsOK, Root
<1>2. Root \in Int /\ NoFile \notin Int
  BY BoundAssumption DEF Root
<1>3. \A i \in Files : i \in Int /\ i # Root
  BY <1>1 DEF Root
<1> QED  BY <1>1, <1>2, <1>3

LEMMA BelowIsLeast ==
  ASSUME NEW i, NEW S \in SUBSET (Files \cup {i}), i \in S,
         \A j \in Files : rows[j].parent \in S => j \in S
  PROVE  Below(i) \subseteq S
BY DEF Below

(* Files that get a directory which is below none of them stay in the tree.*)
LEMMA TreeIsKept ==
  ASSUME RowsOK, RowsOK', InOneTree, Files' = Files, NEW M \in SUBSET Files,
         \A k \in Files \ M : rows'[k].parent = rows[k].parent,
         \A m \in M : IsFile(rows'[m].parent),
         \A m, l \in M : rows'[m].parent \notin Below(l)
  PROVE  InOneTree'
<1>1. SUFFICES ASSUME NEW S \in SUBSET (Files \cup {Root}), Root \in S,
                      \A j \in Files : rows'[j].parent \in S => j \in S
               PROVE  Files \subseteq S
  BY DEF InOneTree, Below
<1> DEFINE D == {x \in Files : \E l \in M : x \in Below(l)}
<1>2. \A j \in Files : rows[j].parent \in D => j \in D
  BY BelowIsClosed
<1>3. \A l \in M : l \in D
  BY DEF Below
<1>4. S \cup D \in SUBSET (Files \cup {Root}) /\ Root \in S \cup D
  BY <1>1
<1>5. \A j \in Files : rows[j].parent \in S \cup D => j \in S \cup D
  BY <1>1, <1>2, <1>3
<1>6. Files \subseteq S \cup D
  <2> HIDE DEF D
  <2> QED  BY <1>4, <1>5, BelowIsLeast DEF InOneTree
<1>7. \A m \in M : m \in S
  <2> SUFFICES ASSUME NEW m \in M PROVE m \in S
    OBVIOUS
  <2>1. IsFile(rows'[m].parent) /\ rows'[m].parent \notin D
    OBVIOUS
  <2>2. rows'[m].parent \in S
    BY <1>1, <1>6, <2>1 DEF IsFile
  <2> QED  BY <1>1, <2>2
<1>8. \A j \in Files : rows[j].parent \in S => j \in S
  BY <1>1, <1>7
<1> QED  BY <1>1, <1>8, BelowIsLeast DEF InOneTree

-----------------------------------------------------------------------------
(* The way from the root to file i along the first n names of a path       *)
Ways(n) == [0..n -> 0..MaxFiles]
Along(r, f, path, n, i) ==
  /\ f[0] = Root /\ f[n] = i
  /\ \A k \in 1..n :
        f[k] \in DOMAIN r /\ r[f[k]].parent = f[k - 1] /\ r[f[k]].name = path[k]

LEMMA NotBelowOthers ==
  ASSUME RowsOK, NEW path, NEW n \in Nat, NEW i, NEW f, Along(rows, f, path, n, i),
         NEW l \in Files, \A k \in 0..n : f[k] # l
  PROVE  i \notin Below(l)
<1> DEFINE W == {f[k] : k \in 0..n}  S == Files \ W
<1>1. S \in SUBSET (Files \cup {l}) /\ l \in S
  OBVIOUS
<1>2. ASSUME NEW j \in Files, rows[j].parent \in S, j \in W PROVE FALSE
  <2>1. PICK k \in 0..n : j = f[k]
    BY <1>2
  <2>2. k # 0
    BY <2>1, RootIsNoFile DEF Along
  <2>3. k \in 1..n /\ k - 1 \in 0..n
    BY <2>1, <2>2
  <2>4. rows[j].parent = f[k - 1]
    BY <2>1, <2>3 DEF Along
  <2> QED  BY <1>2, <2>3, <2>4
<1>3. \A j \in Files : rows[j].parent \in S => j \in S
  BY <1>2
<1>4. Below(l) \subseteq S
  <2> HIDE DEF S
  <2> QED  BY <1>1, <1>3, BelowIsLeast
<1>5. n \in 0..n /\ f[n] = i
  BY DEF Along
<1> QED  BY <1>4, <1>5

(* There is one way to a file: two that meet have the same names.          *)
LEMMA OneWay ==
  ASSUME RowsOK,
         NEW path, NEW n \in Nat, NEW i \in Files, NEW f, Along(rows, f, path, n, i),
         NEW to, NEW m \in Nat, NEW x, NEW g, Along(rows, g, to, m, x),
         NEW k \in 0..m, g[k] = i
  PROVE  n = k /\ \A j \in 1..n : path[j] = to[j]
<1>1. /\ f[0] = Root /\ g[0] = Root /\ f[n] = g[k] /\ Root \notin Files
      /\ \A a \in 1..n : f[a] \in Files /\ rows[f[a]].parent = f[a - 1] /\ rows[f[a]].name = path[a]
      /\ \A a \in 1..m : g[a] \in Files /\ rows[g[a]].parent = g[a - 1] /\ rows[g[a]].name = to[a]
  BY RootIsNoFile DEF Along, Files
<1> DEFINE K == {d \in Nat : d <= n /\ d <= k /\ f[n - d] # g[k - d]}
<1>2. K = {}
  <2> SUFFICES ASSUME K # {} PROVE FALSE
    OBVIOUS
  <2>1. PICK d \in K : \A e \in K : d <= e
    BY LeastNumber
  <2>2. d \in Nat /\ d <= n /\ d <= k /\ f[n - d] # g[k - d]
    OBVIOUS
  <2>3. d # 0
    BY <1>1, <2>2
  <2>4. d - 1 \in Nat /\ d - 1 <= n /\ d - 1 <= k /\ ~(d <= d - 1)
    BY <2>2, <2>3
  <2>5. f[n - (d - 1)] = g[k - (d - 1)]
    BY <2>1, <2>4
  <2>6. /\ n - (d - 1) \in 1..n /\ n - (d - 1) - 1 = n - d
        /\ k - (d - 1) \in 1..m /\ k - (d - 1) - 1 = k - d
    BY <2>2, <2>3
  <2> QED  BY <1>1, <2>2, <2>5, <2>6
<1>3. \A d \in Nat : d <= n /\ d <= k => f[n - d] = g[k - d]
  BY <1>2
<1> HIDE DEF K
<1>4. n = k
  <2>1. ASSUME n < k PROVE FALSE
    <3>1. n \in Nat /\ n <= n /\ n <= k /\ n - n = 0 /\ k - n \in 1..m
      BY <2>1
    <3>2. f[0] = g[k - n]
      BY <1>3, <3>1
    <3> QED  BY <1>1, <3>1, <3>2
  <2>2. ASSUME k < n PROVE FALSE
    <3>1. k \in Nat /\ k <= n /\ k <= k /\ k - k = 0 /\ n - k \in 1..n
      BY <2>2
    <3>2. f[n - k] = g[0]
      BY <1>3, <3>1
    <3> QED  BY <1>1, <3>1, <3>2
  <2> QED  BY <2>1, <2>2
<1>5. ASSUME NEW j \in 1..n PROVE path[j] = to[j]
  <2>1. n - j \in Nat /\ n - j <= n /\ n - j <= k /\ n - (n - j) = j /\ k - (n - j) = j /\ j \in 1..m
    BY <1>4
  <2>2. f[j] = g[j]
    BY <1>3, <2>1
  <2> QED  BY <1>1, <2>1, <2>2
<1> QED  BY <1>4, <1>5

LEMMA WithinIs ==
  ASSUME NEW path \in Seq(Names), NEW to \in Seq(Names), Len(path) <= Len(to),
         \A j \in 1..Len(path) : path[j] = to[j]
  PROVE  Within(path, to)
<1> DEFINE n == Len(path)  s == SubSeq(to, 1, n)
<1>1. n \in Nat /\ Len(to) \in Nat
  BY LenProperties
<1>2. \A j \in 1..n : to[j] \in Names
  BY <1>1, ElementOfSeq
<1>3. s \in Seq(Names) /\ Len(s) = n /\ \A j \in 1..n : s[j] = to[j]
  <2>1. \A j \in 1..n : n - 1 + 1 = n /\ 1 + j - 1 = j
    BY <1>1
  <2>2. /\ s \in Seq(Names) /\ Len(s) = IF 1 <= n THEN n - 1 + 1 ELSE 0
        /\ \A j \in 1..(n - 1 + 1) : s[j] = to[1 + j - 1]
    BY <1>1, <1>2, SubSeqProperties
  <2> HIDE DEF s
  <2>3. Len(s) = n /\ \A j \in 1..n : s[j] = to[j]
    BY <1>1, <2>1, <2>2
  <2> QED  BY <2>2, <2>3
<1> HIDE DEF s
<1>4. s = path
  BY <1>1, <1>3, SeqEqual
<1> QED  BY <1>4 DEF Within, s, n

(* A file on the way to `to' is below one on the way to `path' only if     *)
(* `path' is a part of that way.                                           *)
LEMMA Apart ==
  ASSUME RowsOK,
         NEW path, NEW n \in Nat, NEW l \in Files, NEW f, Along(rows, f, path, n, l),
         NEW to, NEW m \in Nat, NEW i, NEW g, Along(rows, g, to, m, i),
         ~(n <= m /\ \A j \in 1..n : path[j] = to[j])
  PROVE  i \notin Below(l)
<1>1. ASSUME NEW k \in 0..m, g[k] = l PROVE FALSE
  <2>1. n = k /\ \A j \in 1..n : path[j] = to[j]
    BY <1>1, OneWay
  <2>2. n <= m
    BY <2>1
  <2> QED  BY <2>1, <2>2
<1> QED  BY <1>1, NotBelowOthers

-----------------------------------------------------------------------------
(* What the lookups of a rename know                                       *)

(* File i was found at the first n names of a path, and if it is still     *)
(* there then the way to it is as it was.                                  *)
Reached(r, next, path, n, i) ==
  /\ i # NoFile => i < next
  /\ i \in DOMAIN r \cup {Root} => \E f \in Ways(n) : Along(r, f, path, n, i)

(* The same of the directory of that file, or of the root in its place     *)
ReachedUp(r, next, path, n, p) ==
  p = Root \/ (n >= 1 /\ Reached(r, next, path, n - 1, p))

Moving(j) == j.op \in {"move", "swap"}
Wanted(j) == LookupsOf(j)[Len(j.got) + 1]

Walked(r, next, j) ==
  \E n \in 0..Len(Wanted(j)) :
     /\ Len(j.todo) = Len(Wanted(j)) - n
     /\ \A k \in 1..Len(j.todo) : j.todo[k] = Wanted(j)[n + k]
     /\ Reached(r, next, Wanted(j), n, j.cur)
     /\ ReachedUp(r, next, Wanted(j), n, j.parent)

Looked(r, next, path, result) ==
  /\ Reached(r, next, path, Len(path), result.file)
  /\ ReachedUp(r, next, path, Len(path), result.parent)

Knows(r, next, j) ==
  /\ ~Within(j.path, j.to)
  /\ j.op = "swap" => ~Within(j.to, j.path)
  /\ ~j.raced =>
       /\ Walked(r, next, j)
       /\ j.op = "move" /\ Len(j.got) = 2 => Looked(r, next, j.path, j.got[2])
       /\ j.op = "swap" /\ Len(j.got) = 1 => Looked(r, next, j.path, j.got[1])

MovesInv == \A t \in Threads : Moving(job[t]) => Knows(rows, nextId, job[t])

(* A step that moves no file *)
Steady ==
  /\ nextId <= nextId'
  /\ \A k \in Files \cap Files' :
        rows'[k].parent = rows[k].parent /\ rows'[k].name = rows[k].name
  /\ \A k \in Files' \ Files : k >= nextId

(* A job that waits, during such a step or another one *)
Later(j, k) ==
  /\ Moving(j)
  /\ k.op = j.op /\ k.path = j.path /\ k.to = j.to /\ k.got = j.got
  /\ k.todo = j.todo /\ k.cur = j.cur /\ k.parent = j.parent
  /\ j.raced => k.raced

LEMMA WayUp ==
  ASSUME NEW n \in Nat, NEW K \in SUBSET (0..n), n \notin K,
         \A k \in K : k < n => k + 1 \in K
  PROVE  K = {}
<1> DEFINE T == {n - k : k \in K}
<1>1. SUFFICES ASSUME K # {} PROVE FALSE
  OBVIOUS
<1>2. T \in SUBSET Nat
  <2>1. \A k \in K : n - k \in Nat
    OBVIOUS
  <2> QED  BY <2>1
<1>3. \A k \in K : n - k \in T
  OBVIOUS
<1>4. \A d \in T : \E k \in K : d = n - k
  OBVIOUS
<1> HIDE DEF T
<1>5. PICK d \in T : \A e \in T : d <= e
  BY <1>1, <1>2, <1>3, LeastNumber
<1>6. PICK k \in K : d = n - k
  BY <1>4
<1>7. k < n /\ k \in Int
  OBVIOUS
<1>8. n - (k + 1) \in T
  BY <1>3, <1>7
<1>9. d <= n - (k + 1)
  BY <1>5, <1>8
<1> QED  BY <1>6, <1>7, <1>9

LEMMA ReachedStays ==
  ASSUME TypeInv, TypeInv', TreeInv', Steady,
         NEW path, NEW n \in Nat, NEW i \in FileOrNone, Reached(rows, nextId, path, n, i)
  PROVE  Reached(rows', nextId', path, n, i)
<1>1. /\ nextId \in Nat /\ nextId' \in Nat /\ nextId <= nextId'
      /\ Root \notin Files /\ Root \notin Files'
      /\ \A k \in Files' : k \in Int
  BY RootIsNoFile DEF TypeInv, RowsOK, Steady, Root
<1>2. i # NoFile => i \in Int /\ i < nextId
  BY DEF FileOrNone, Reached
<1>3. ASSUME i \in Files' \cup {Root}
      PROVE  \E f \in Ways(n) : Along(rows', f, path, n, i)
  <2>1. i \in Files \cup {Root}
    <3>1. i \in Files' => i # NoFile /\ ~(i >= nextId)
      BY <1>1, <1>2, BoundAssumption
    <3> QED  BY <1>3, <3>1 DEF Steady
  <2>2. PICK f \in Ways(n) : Along(rows, f, path, n, i)
    BY <2>1 DEF Reached, Files
  <2>3. /\ f[0] = Root /\ f[n] = i
        /\ \A k \in 1..n : f[k] \in Files /\ rows[f[k]].parent = f[k - 1] /\ rows[f[k]].name = path[k]
    BY <2>2 DEF Along, Files
  <2> DEFINE K == {k \in 1..n : f[k] \notin Files'}
  <2>4. K \in SUBSET (0..n)
    OBVIOUS
  <2>5. n \notin K
    BY <1>1, <1>3, <2>3
  <2>6. ASSUME NEW k \in K, k < n PROVE k + 1 \in K
    <3>1. k + 1 \in 1..n /\ (k + 1) - 1 = k /\ k \in 1..n /\ f[k] \notin Files'
      BY <2>6
    <3>2. ASSUME f[k + 1] \in Files' PROVE FALSE
      <4>1. rows'[f[k + 1]].parent = f[k]
        BY <2>3, <3>1, <3>2 DEF Steady
      <4>2. rows'[f[k + 1]].parent \in Files' \cup {Root}
        BY <3>2 DEF TreeInv, ParentsExist
      <4> QED  BY <1>1, <2>3, <3>1, <4>1, <4>2
    <3> QED  BY <3>1, <3>2
  <2>7. K = {}
    <3> HIDE DEF K
    <3> QED  BY <2>4, <2>5, <2>6, WayUp
  <2>8. \A k \in 1..n : f[k] \in Files \cap Files'
    BY <2>3, <2>7
  <2>9. Along(rows', f, path, n, i)
    BY <2>3, <2>8 DEF Along, Steady, Files
  <2> QED  BY <2>9
<1>4. i # NoFile => i < nextId'
  BY <1>1, <1>2
<1> QED  BY <1>3, <1>4 DEF Reached, Files

LEMMA ReachedUpStays ==
  ASSUME TypeInv, TypeInv', TreeInv', Steady,
         NEW path, NEW n \in Nat, NEW p \in 0..MaxFiles, ReachedUp(rows, nextId, path, n, p)
  PROVE  ReachedUp(rows', nextId', path, n, p)
<1>1. CASE p = Root
  BY <1>1 DEF ReachedUp
<1>2. CASE n >= 1 /\ Reached(rows, nextId, path, n - 1, p)
  <2>1. n - 1 \in Nat /\ p \in FileOrNone
    BY <1>2 DEF FileOrNone
  <2>2. Reached(rows', nextId', path, n - 1, p)
    BY <1>2, <2>1, ReachedStays
  <2> QED  BY <1>2, <2>2 DEF ReachedUp
<1> QED  BY <1>1, <1>2 DEF ReachedUp

(* The root is the first file of each way.                                 *)
LEMMA AtRoot ==
  ASSUME TypeInv, NEW path, NEW i \in {Root, NoFile}
  PROVE  Reached(rows, nextId, path, 0, i)
<1>1. nextId \in Nat /\ Root < nextId /\ NoFile \notin Files /\ NoFile # Root
  BY RootIsNoFile DEF TypeInv
<1>2. CASE i = NoFile
  BY <1>1, <1>2 DEF Reached, Files
<1>3. CASE i = Root
  <2> DEFINE f == [k \in 0..0 |-> Root]
  <2>1. f \in Ways(0) /\ f[0] = Root
    BY BoundAssumption DEF Ways, Root
  <2> HIDE DEF f
  <2>2. Along(rows, f, path, 0, i)
    BY <1>3, <2>1 DEF Along
  <2> QED  BY <1>1, <1>3, <2>1, <2>2 DEF Reached
<1> QED  BY <1>2, <1>3

(* One more name of the path is looked up.                                 *)
LEMMA Onward ==
  ASSUME TypeInv, TreeInv, NEW path, NEW n \in Nat, NEW cur \in FileOrNone,
         Reached(rows, nextId, path, n, cur),
         NEW found, found = NoFile \/ found = Find(cur, path[n + 1])
  PROVE  /\ Reached(rows, nextId, path, n + 1, found)
         /\ ReachedUp(rows, nextId, path, n + 1, ParentOf(found))
<1>1. /\ nextId \in Nat /\ Root \notin Files /\ NoFile \notin Files /\ NoFile # Root
      /\ Files \subseteq 1..MaxFiles /\ Files \subseteq 1..(nextId - 1)
  BY RootIsNoFile DEF TypeInv
<1>2. CASE found = NoFile
  BY <1>1, <1>2 DEF Reached, ReachedUp, ParentOf, Files
<1>3. CASE found # NoFile
  <2>1. found \in Files /\ rows[found].parent = cur /\ rows[found].name = path[n + 1]
    BY <1>3 DEF Find
  <2>2. cur \in Files \cup {Root}
    BY <2>1 DEF TreeInv, ParentsExist
  <2>3. PICK f \in Ways(n) : Along(rows, f, path, n, cur)
    BY <2>2 DEF Reached, Files
  <2> DEFINE g == [k \in 0..(n + 1) |-> IF k = n + 1 THEN found ELSE f[k]]
  <2>4. /\ f \in [0..n -> 0..MaxFiles] /\ f[0] = Root /\ f[n] = cur
        /\ \A k \in 1..n : f[k] \in Files /\ rows[f[k]].parent = f[k - 1] /\ rows[f[k]].name = path[k]
    BY <2>3 DEF Along, Ways, Files
  <2>5. g[n + 1] = found /\ \A k \in 0..n : g[k] = f[k]
    OBVIOUS
  <2>6. g \in Ways(n + 1)
    <3>1. ASSUME NEW k \in 0..(n + 1)
          PROVE  (IF k = n + 1 THEN found ELSE f[k]) \in 0..MaxFiles
      <4>1. k # n + 1 => k \in 0..n
        OBVIOUS
      <4>2. found \in 0..MaxFiles
        BY <1>1, <2>1
      <4> QED  BY <2>4, <4>1, <4>2
    <3> QED  BY <3>1 DEF Ways
  <2> HIDE DEF g
  <2>7. g[0] = Root /\ g[n + 1] = found
    BY <2>4, <2>5
  <2>8. ASSUME NEW k \in 1..(n + 1)
        PROVE  g[k] \in Files /\ rows[g[k]].parent = g[k - 1] /\ rows[g[k]].name = path[k]
    <3>1. CASE k = n + 1
      <4>1. g[k] = found /\ g[k - 1] = cur
        BY <2>4, <2>5, <3>1
      <4> QED  BY <2>1, <3>1, <4>1
    <3>2. CASE k # n + 1
      <4>1. k \in 1..n /\ k \in 0..n /\ k - 1 \in 0..n
        BY <3>2
      <4> QED  BY <2>4, <2>5, <4>1
    <3> QED  BY <3>1, <3>2
  <2>9. Along(rows, g, path, n + 1, found)
    BY <2>7, <2>8 DEF Along, Files
  <2>10. found < nextId
    BY <1>1, <2>1
  <2>11. n + 1 >= 1 /\ (n + 1) - 1 = n /\ ParentOf(found) = cur
    BY <2>1 DEF ParentOf
  <2> QED  BY <2>6, <2>9, <2>10, <2>11 DEF Reached, ReachedUp
<1> QED  BY <1>2, <1>3

(* What the paths of a rename are                                          *)
LEMMA WantedIs ==
  ASSUME NEW j \in Jobs, WellFormed(j), Moving(j)
  PROVE  /\ Ready(j) /\ j.path \in Paths /\ j.to \in Paths
         /\ j.path \in Seq(Names) /\ j.to \in Seq(Names)
         /\ j.op \in Callbacks /\ Len(j.got) \in 0..2
         /\ j.op = "move" => Len(LookupsOf(j)) = 3
         /\ j.op = "swap" => Len(j.got) \in 0..1 /\ Len(LookupsOf(j)) = 2
         /\ Wanted(j) \in Seq(Names)
         /\ j.op = "move" /\ Len(j.got) = 1 => Wanted(j) = j.path
         /\ j.op = "move" /\ Len(j.got) = 2 => Wanted(j) = Dirname(j.to)
         /\ j.op = "swap" /\ Len(j.got) = 0 => Wanted(j) = j.path
         /\ j.op = "swap" /\ Len(j.got) = 1 => Wanted(j) = j.to
<1>1. Ready(j)
  BY KindsAre DEF WellFormed, Moving
<1>2. /\ j.path \in Paths /\ j.to \in Paths /\ j.op \in Callbacks
      /\ j.got \in Seq(Results)
  BY DEF Jobs
<1>3. j.path \in Seq(Names) /\ j.to \in Seq(Names)
  BY <1>2, PathAssumption
<1>4. /\ Len(j.got) = 0 \/ Len(j.got) = 1 \/ Len(j.got) = 2
      /\ j.op = "swap" => Len(j.got) = 0 \/ Len(j.got) = 1
  <2>1. Len(j.got) \in Nat
    BY <1>2, LenProperties
  <2>2. (j.op = "move" => Len(j.got) <= 2) /\ (j.op = "swap" => Len(j.got) <= 1)
    BY <1>1 DEF Ready
  <2> DEFINE n == Len(j.got)
  <2> HIDE DEF n
  <2>3. n \in Nat => (n <= 2 => n = 0 \/ n = 1 \/ n = 2) /\ (n <= 1 => n = 0 \/ n = 1)
    OBVIOUS
  <2> QED  BY <2>1, <2>2, <2>3 DEF n, Moving
<1>5. Len(j.got) \in 0..2 /\ (j.op = "swap" => Len(j.got) \in 0..1)
  <2>1. \A n : /\ n = 0 \/ n = 1 \/ n = 2 => n \in 0..2
               /\ n = 0 \/ n = 1 => n \in 0..1
    OBVIOUS
  <2> QED  BY <1>4, <2>1, Zenon
<1>6. /\ Len(j.got) = 0 => Wanted(j) = LookupsOf(j)[1]
      /\ Len(j.got) = 1 => Wanted(j) = LookupsOf(j)[2]
      /\ Len(j.got) = 2 => Wanted(j) = LookupsOf(j)[3]
  <2>1. \A n : (n = 0 => n + 1 = 1) /\ (n = 1 => n + 1 = 2) /\ (n = 2 => n + 1 = 3)
    OBVIOUS
  <2> QED  BY <2>1, Zenon DEF Wanted
<1>7. CASE j.op = "move"
  <2>1. LookupsOf(j) = <<Tail1[Basename(j.to)], j.path, Dirname(j.to)>>
    BY <1>7 DEF LookupsOf, Lookups
  <2>2. /\ Len(LookupsOf(j)) = 3
        /\ LookupsOf(j)[2] = j.path /\ LookupsOf(j)[3] = Dirname(j.to)
    BY <2>1
  <2>3. LookupsOf(j)[1] \in Seq(Names) /\ Dirname(j.to) \in Seq(Names)
    BY <1>2, LookupsAreTyped, PartsOfPaths DEF LookupsOf
  <2>4. /\ Len(j.got) = 1 => Wanted(j) = j.path
        /\ Len(j.got) = 2 => Wanted(j) = Dirname(j.to)
        /\ Wanted(j) \in Seq(Names)
    BY <1>3, <1>4, <1>6, <2>2, <2>3
  <2>5. j.op # "swap"
    BY <1>7
  <2> QED  BY <1>1, <1>2, <1>3, <1>5, <2>2, <2>4, <2>5
<1>8. CASE j.op = "swap"
  <2>1. LookupsOf(j) = <<j.path, j.to>>
    BY <1>8 DEF LookupsOf, Lookups
  <2>2. /\ Len(LookupsOf(j)) = 2
        /\ LookupsOf(j)[1] = j.path /\ LookupsOf(j)[2] = j.to
    BY <2>1
  <2>3. /\ Len(j.got) = 0 => Wanted(j) = j.path
        /\ Len(j.got) = 1 => Wanted(j) = j.to
        /\ Wanted(j) \in Seq(Names)
    BY <1>3, <1>4, <1>6, <1>8, <2>2
  <2>4. j.op # "move"
    BY <1>8
  <2> QED  BY <1>1, <1>2, <1>3, <1>5, <2>2, <2>3, <2>4
<1> QED  BY <1>7, <1>8 DEF Moving

(* What a job knows stays true while it waits, or no longer matters.       *)
LEMMA KnowsStays ==
  ASSUME TypeInv, TypeInv', TreeInv', NEW j \in Jobs, WellFormed(j), NEW k, Later(j, k),
         Knows(rows, nextId, j), Steady \/ k.raced
  PROVE  Knows(rows', nextId', k)
<1>1. /\ k.op = j.op /\ k.path = j.path /\ k.to = j.to /\ k.got = j.got
      /\ k.todo = j.todo /\ k.cur = j.cur /\ k.parent = j.parent
      /\ j.raced => k.raced
      /\ Moving(j)
  BY DEF Later
<1>2. Wanted(k) = Wanted(j)
  BY <1>1 DEF Wanted, LookupsOf
<1>3. ~Within(k.path, k.to) /\ (k.op = "swap" => ~Within(k.to, k.path))
  BY <1>1 DEF Knows
<1>4. ASSUME ~k.raced
      PROVE  /\ Walked(rows', nextId', k)
             /\ k.op = "move" /\ Len(k.got) = 2 => Looked(rows', nextId', k.path, k.got[2])
             /\ k.op = "swap" /\ Len(k.got) = 1 => Looked(rows', nextId', k.path, k.got[1])
  <2>1. Steady /\ ~j.raced
    BY <1>1, <1>4
  <2>2. /\ Walked(rows, nextId, j)
        /\ j.op = "move" /\ Len(j.got) = 2 => Looked(rows, nextId, j.path, j.got[2])
        /\ j.op = "swap" /\ Len(j.got) = 1 => Looked(rows, nextId, j.path, j.got[1])
    BY <2>1 DEF Knows
  <2>3. /\ j.cur \in FileOrNone /\ j.parent \in 0..MaxFiles /\ j.got \in Seq(Results)
        /\ Wanted(j) \in Seq(Names) /\ j.path \in Seq(Names)
    <3>1. j.cur \in FileOrNone /\ j.parent \in 0..MaxFiles /\ j.got \in Seq(Results)
      BY DEF Jobs
    <3>2. j \in Jobs /\ WellFormed(j) /\ Moving(j)
      BY <1>1
    <3>3. Wanted(j) \in Seq(Names) /\ j.path \in Seq(Names)
      BY ONLY <3>2, WantedIs
    <3> QED  BY <3>1, <3>3
  <2>4. Len(Wanted(j)) \in Nat /\ Len(j.path) \in Nat
    BY <2>3, LenProperties
  <2>5. Walked(rows', nextId', k)
    <3> DEFINE W == Wanted(j)
    <3> HIDE DEF W
    <3>1. PICK n \in 0..Len(W) :
             /\ Len(j.todo) = Len(W) - n
             /\ \A a \in 1..Len(j.todo) : j.todo[a] = W[n + a]
             /\ Reached(rows, nextId, W, n, j.cur)
             /\ ReachedUp(rows, nextId, W, n, j.parent)
      BY <2>2 DEF Walked, W
    <3>2. n \in Nat
      BY <2>4 DEF W
    <3>3. Reached(rows', nextId', W, n, j.cur)
      BY <2>1, <2>3, <3>1, <3>2, ReachedStays
    <3>4. ReachedUp(rows', nextId', W, n, j.parent)
      BY <2>1, <2>3, <3>1, <3>2, ReachedUpStays
    <3> QED  BY <1>1, <1>2, <3>1, <3>3, <3>4 DEF Walked, W
  <2>6. ASSUME NEW result \in Results, Looked(rows, nextId, j.path, result)
        PROVE  Looked(rows', nextId', j.path, result)
    <3> DEFINE path == j.path
    <3> HIDE DEF path
    <3>1. /\ Reached(rows, nextId, path, Len(path), result.file)
          /\ ReachedUp(rows, nextId, path, Len(path), result.parent)
          /\ result.file \in FileOrNone /\ result.parent \in 0..MaxFiles
      BY <2>6 DEF Looked, Results, path
    <3>2. Len(path) \in Nat
      BY <2>4 DEF path
    <3>3. Reached(rows', nextId', path, Len(path), result.file)
      BY <2>1, <3>1, <3>2, ReachedStays
    <3>4. ReachedUp(rows', nextId', path, Len(path), result.parent)
      BY <2>1, <3>1, <3>2, ReachedUpStays
    <3> QED  BY <3>3, <3>4 DEF Looked, path
  <2>7. /\ Len(j.got) = 2 => j.got[2] \in Results
        /\ Len(j.got) = 1 => j.got[1] \in Results
    BY <2>3, ElementOfSeq
  <2> QED  BY <1>1, <2>2, <2>5, <2>6, <2>7
<1> QED  BY <1>3, <1>4 DEF Knows

-----------------------------------------------------------------------------
(* What a step does to the jobs that wait                                  *)

LEMMA OneJobLater ==
  ASSUME JobsOK, NEW t \in Threads, NEW k, job' = [job EXCEPT ![t] = k],
         ~Moving(k) \/ Later(job[t], k), NEW u \in Threads, Moving(job'[u])
  PROVE  Later(job[u], job'[u])
<1>1. CASE u = t
  BY <1>1 DEF JobsOK
<1>2. CASE u # t
  <2>1. job'[u] = job[u]
    BY <1>2 DEF JobsOK
  <2> QED  BY <2>1 DEF Later
<1> QED  BY <1>1, <1>2

LEMMA DiesLater ==
  ASSUME JobsOK, NEW m, Dies(m), NEW u \in Threads, Moving(job'[u])
  PROVE  Later(job[u], job'[u])
<1>1. job'[u] = Idle \/ job'[u] = job[u]
  BY DEF Dies
<1>2. ~Moving(Idle)
  BY DEF Moving, Idle
<1>3. job'[u] = job[u]
  BY <1>1, <1>2
<1> QED  BY <1>3 DEF Later

LEMMA ExecutedLater ==
  ASSUME JobsOK, NEW t \in Threads, NEW j, ~Moving(j), NEW id, NEW moved \in BOOLEAN,
         Executed(t, j, id, moved), NEW u \in Threads, Moving(job'[u])
  PROVE  Later(job[u], job'[u]) /\ (moved => job'[u].raced)
<1>1. job'[u] = CASE u = t -> j
          [] u # t /\ job[u] # Idle /\ job[u].at = "id" /\ MountOf[u] = MountOf[t] ->
                [job[u] EXCEPT !.cur = id]
          [] u # t /\ job[u].op \in {"move", "swap"} -> [job[u] EXCEPT !.raced = @ \/ moved]
          [] OTHER -> job[u]
  BY DEF Executed
<1>2. u # t
  BY <1>1
<1>3. CASE job[u] # Idle /\ job[u].at = "id" /\ MountOf[u] = MountOf[t]
  <2>1. job[u] \in Jobs /\ job[u].op \in DOMAIN Kinds
    BY <1>3 DEF JobsOK, WellFormed
  <2>2. job'[u] = [job[u] EXCEPT !.cur = id]
    BY <1>1, <1>2, <1>3, <2>1, KindsAre
  <2>3. job'[u].op = job[u].op
    BY <2>1, <2>2 DEF Jobs
  <2> QED  BY <2>1, <2>3, KindsAre DEF Moving
<1>4. CASE ~(job[u] # Idle /\ job[u].at = "id" /\ MountOf[u] = MountOf[t]) /\ Moving(job[u])
  <2>1. job'[u] = [job[u] EXCEPT !.raced = @ \/ moved]
    BY <1>1, <1>2, <1>4 DEF Moving
  <2>2. job[u] \in Jobs
    BY <1>4 DEF JobsOK, Moving, Idle
  <2>3. PICK r \in BOOLEAN : /\ r <=> (job[u].raced \/ moved)
                             /\ job'[u] = [job[u] EXCEPT !.raced = r]
    <3>1. (job[u].raced \/ moved) \in BOOLEAN
      OBVIOUS
    <3> QED  BY <2>1, <3>1
  <2>4. job'[u].raced = r
    BY <2>2, <2>3 DEF Jobs
  <2>5. /\ job'[u].op = job[u].op /\ job'[u].path = job[u].path /\ job'[u].to = job[u].to
        /\ job'[u].got = job[u].got /\ job'[u].todo = job[u].todo
        /\ job'[u].cur = job[u].cur /\ job'[u].parent = job[u].parent
    BY <2>2, <2>3 DEF Jobs
  <2>6. (job[u].raced => job'[u].raced) /\ (moved => job'[u].raced)
    BY <2>3, <2>4
  <2> QED  BY <1>4, <2>5, <2>6 DEF Later
<1>5. CASE ~(job[u] # Idle /\ job[u].at = "id" /\ MountOf[u] = MountOf[t]) /\ ~Moving(job[u])
  BY <1>1, <1>2, <1>5 DEF Moving
<1> QED  BY <1>3, <1>4, <1>5

LEMMA SameIsSteady ==
  ASSUME TypeInv, UNCHANGED <<rows, nextId>>
  PROVE  Steady
<1>1. nextId \in Nat /\ Files' = Files
  BY RootIsNoFile DEF TypeInv, Files
<1> QED  BY <1>1 DEF Steady

LEMMA StepIsSteady ==
  ASSUME TypeInv, NEW t \in Threads, Step(t), ~Move(t), ~Swap(t)
  PROVE  Steady
<1>1. nextId \in Nat /\ Files \subseteq 1..(nextId - 1)
  BY RootIsNoFile DEF TypeInv
<1>2. CASE UNCHANGED <<rows, nextId>>
  BY <1>2, SameIsSteady
<1>3. CASE Delete(t)
  <2>1. rows' = [i \in Files \ Below(job[t].cur) |-> rows[i]] /\ nextId' = nextId
    BY <1>3 DEF Delete
  <2>2. Files' \subseteq Files /\ \A i \in Files' : rows'[i] = rows[i]
    BY <2>1 DEF Files
  <2> QED  BY <1>1, <2>1, <2>2 DEF Steady
<1>4. CASE Insert(t)
  <2>1. \/ UNCHANGED <<rows, nextId>>
        \/ /\ nextId' = nextId + 1 /\ Files' = Files \cup {nextId}
           /\ \A i \in Files : rows'[i] = rows[i]
    BY <1>4, InsertDoes
  <2> QED  BY <1>1, <1>2, <2>1 DEF Steady
<1>5. CASE AppendTarget(t)
  <2> DEFINE i == job[t].cur
  <2>1. /\ Files' = Files /\ nextId' = nextId
        /\ \A k \in Files \ {i} : rows'[k] = rows[k]
        /\ i \in Files => \E text : rows'[i] = [rows[i] EXCEPT !.text = text]
    BY <1>5, AppendTargetDoes
  <2> HIDE DEF i
  <2>2. ASSUME i \in Files PROVE rows'[i].parent = rows[i].parent /\ rows'[i].name = rows[i].name
    <3>1. PICK text : rows'[i] = [rows[i] EXCEPT !.text = text]
      BY <2>1, <2>2
    <3>2. rows[i] \in Row
      BY <2>2 DEF TypeInv, RowsOK
    <3> QED  BY <3>1, <3>2 DEF Row
  <2> QED  BY <1>1, <2>1, <2>2 DEF Steady
<1> QED
  BY <1>2, <1>3, <1>4, <1>5
     DEF Step, Call, Walk, WalkOffNull, List, Visit, Refuse, LookupNext, QueryFails,
         GetAttributes, SetAttributes, Unlink, Rmdir, ReadId, Store, Release, ReadDir

(* The steps that look nothing up leave what a rename knows as it is.      *)
Others(t) ==
    \/ WalkOffNull(t) \/ List(t) \/ Visit(t)
    \/ Refuse(t) \/ QueryFails(t)
    \/ GetAttributes(t) \/ SetAttributes(t) \/ Unlink(t) \/ Rmdir(t)
    \/ Insert(t) \/ ReadId(t) \/ AppendTarget(t)
    \/ Move(t) \/ Swap(t) \/ Store(t)
    \/ \E d \in fds : Release(t, d) \/ ReadDir(t, d)

LEMMA StepIsLater ==
  ASSUME TypeInv, NEW t \in Threads, Others(t),
         NEW u \in Threads, Moving(job'[u])
  PROVE  Later(job[u], job'[u]) /\ (Steady \/ job'[u].raced)
<1>1. JobsOK /\ ~Moving(Idle)
  BY DEF TypeInv, Moving, Idle
<1>2. ASSUME Return(t) PROVE Later(job[u], job'[u])
  <2>1. job' = [job EXCEPT ![t] = Idle]
    BY <1>2 DEF Return
  <2> QED  BY <1>1, <2>1, OneJobLater
<1>3. ASSUME NEW m, Dies(m) PROVE Later(job[u], job'[u])
  BY <1>1, <1>3, DiesLater
<1>4. ASSUME NEW id, NEW moved \in BOOLEAN, Executed(t, Idle, id, moved)
      PROVE  Later(job[u], job'[u]) /\ (moved => job'[u].raced)
  BY <1>1, <1>4, ExecutedLater
<1>5. CASE Move(t)
  <2>1. /\ UNCHANGED <<nextId, table, fds, up>>
        /\ (Return(t) /\ UNCHANGED rows) \/ Renames(t)
    BY <1>5, MoveDoes
  <2>2. CASE Return(t) /\ UNCHANGED rows
    BY <1>2, <2>1, <2>2, SameIsSteady
  <2>3. CASE Renames(t)
    BY <1>4, <2>1, <2>3, SameIsSteady DEF Renames
  <2> QED  BY <2>1, <2>2, <2>3
<1>6. CASE Swap(t)
  <2>1. Renames(t) /\ nextId' = nextId
    BY <1>6, SwapDoes
  <2> QED  BY <1>4, <2>1, SameIsSteady DEF Renames
<1>7. CASE ~Move(t) /\ ~Swap(t)
  <2>1. SUFFICES Later(job[u], job'[u])
    BY <1>7, StepIsSteady DEF Others, Step
  <2>2. CASE WalkOffNull(t) \/ \E d \in fds : ReadDir(t, d)
    BY <1>3, <2>2 DEF WalkOffNull, ReadDir
  <2>3. CASE Refuse(t) \/ QueryFails(t) \/ GetAttributes(t) \/ Store(t)
    BY <1>2, <2>3 DEF Refuse, QueryFails, GetAttributes, Store
  <2>4. CASE SetAttributes(t) \/ Unlink(t) \/ Rmdir(t) \/ AppendTarget(t)
    <3>1. Return(t) \/ \E id : Executed(t, Idle, id, FALSE)
      BY <2>4 DEF SetAttributes, Updated, Unlink, Rmdir, Delete, AppendTarget
    <3> QED  BY <1>2, <1>4, <3>1
  <2>5. CASE Insert(t)
    <3> DEFINE k == [job[t] EXCEPT !.at = "id", !.cur = nextId]
    <3>1. \/ Return(t)
          \/ /\ job[t] \in Jobs /\ job[t].op \in DOMAIN Kinds /\ nextId \in 1..MaxFiles
             /\ Executed(t, Kept(k), nextId, FALSE)
      BY <2>5, InsertDoes
    <3>2. CASE /\ job[t] \in Jobs /\ job[t].op \in DOMAIN Kinds /\ nextId \in 1..MaxFiles
               /\ Executed(t, Kept(k), nextId, FALSE)
      <4>1. nextId \in FileOrNone
        BY <3>2 DEF FileOrNone
      <4>2. k \in Jobs /\ k.op = job[t].op
        BY <3>2, <4>1 DEF Jobs
      <4> HIDE DEF k
      <4>3. ~Moving(Kept(k))
        BY <3>2, <4>2, KeptIsTyped, KindsAre DEF Moving
      <4> QED  BY <1>1, <3>2, <4>3, ExecutedLater
    <3> HIDE DEF k
    <3> QED  BY <1>2, <3>1, <3>2
  <2>6. CASE ReadId(t)
    <3> DEFINE j == job[t]  text == [j EXCEPT !.at = "text", !.cur = j.cur]
    <3>1. /\ j \in Jobs
          /\ \/ Return(t)
             \/ j.op = "symlink" /\ WellFormed(text) /\ job' = [job EXCEPT ![t] = text]
             \/ /\ j.op = "create"
                /\ \E slot \in FreeSlots(MountOf[t]), todo \in Seq(Names) :
                      /\ Ready([j EXCEPT !.slot = slot])
                      /\ Lookup(t, [j EXCEPT !.slot = slot], todo)
      BY <2>6, ReadIdDoes
    <3>2. CASE j.op = "symlink" /\ job' = [job EXCEPT ![t] = text]
      <4>1. ~Moving(text)
        BY <3>1, <3>2 DEF Jobs, Moving
      <4> HIDE DEF text
      <4> QED  BY <1>1, <3>2, <4>1, OneJobLater
    <3>3. ASSUME NEW slot \in FreeSlots(MountOf[t]), NEW todo, j.op = "create",
                 Lookup(t, [j EXCEPT !.slot = slot], todo)
          PROVE  Later(job[u], job'[u])
      <4> DEFINE i == [j EXCEPT !.slot = slot]
      <4>1. PICK root : job' = [job EXCEPT ![t] = Found([i EXCEPT !.todo = todo], root, Root)]
        BY <3>3 DEF Lookup
      <4>2. ~Moving(Found([i EXCEPT !.todo = todo], root, Root))
        BY <3>1, <3>3 DEF Found, Moving, Jobs
      <4> HIDE DEF i
      <4> QED  BY <1>1, <4>1, <4>2, OneJobLater
    <3> HIDE DEF text
    <3> QED  BY <1>2, <3>1, <3>2, <3>3
  <2>7. ASSUME job[t] \in Jobs, NEW kids, NEW list, NEW at,
               job' = [job EXCEPT ![t] =
                  [job[t] EXCEPT !.kids = kids, !.list = list, !.at = at]]
        PROVE  Later(job[u], job'[u])
    <3> DEFINE k == [job[t] EXCEPT !.kids = kids, !.list = list, !.at = at]
    <3>1. /\ k.op = job[t].op /\ k.path = job[t].path /\ k.to = job[t].to
          /\ k.got = job[t].got /\ k.todo = job[t].todo /\ k.cur = job[t].cur
          /\ k.parent = job[t].parent /\ k.raced = job[t].raced
      BY <2>7 DEF Jobs
    <3>2. job' = [job EXCEPT ![t] = k]
      BY <2>7
    <3> HIDE DEF k
    <3>3. ~Moving(k) \/ Later(job[t], k)
      BY <3>1 DEF Moving, Later
    <3> QED  BY <1>1, <3>2, <3>3, OneJobLater
  <2>8. CASE List(t)
    <3> DEFINE kids == Children(job[t].cur)
               list == IF kids = {} THEN "none" ELSE "whole"
               at == IF kids = {} THEN "walk" ELSE "visit"
    <3>1. job[t] \in Jobs
      BY <1>1, <2>8 DEF List, JobsOK
    <3>2. CASE Dies(MountOf[t])
      BY <1>3, <3>2
    <3>3. CASE job' = [job EXCEPT ![t].kids = kids, ![t].list = list, ![t].at = at]
      <4> HIDE DEF kids, list, at
      <4>1. job' = [job EXCEPT ![t] = [job[t] EXCEPT !.kids = kids, !.list = list, !.at = at]]
        BY <1>1, <3>1, <3>3 DEF JobsOK
      <4> QED  BY <2>7, <3>1, <4>1
    <3> QED  BY <2>8, <3>2, <3>3 DEF List
  <2>9. CASE Visit(t)
    <3>1. job[t] \in Jobs
      BY <1>1, <2>9 DEF Visit, JobsOK
    <3>2. PICK kid \in job[t].kids, there \in BOOLEAN :
             job' = [job EXCEPT
               ![t].kids = @ \ {kid},
               ![t].list = IF there /\ kid \in Files THEN @ ELSE "broken",
               ![t].at = IF job[t].kids = {kid} THEN "walk" ELSE "visit"]
      BY <2>9 DEF Visit
    <3> DEFINE kids == job[t].kids \ {kid}
               list == IF there /\ kid \in Files THEN job[t].list ELSE "broken"
               at == IF job[t].kids = {kid} THEN "walk" ELSE "visit"
    <3>3. job' = [job EXCEPT ![t] = [job[t] EXCEPT !.kids = kids, !.list = list, !.at = at]]
      BY <1>1, <3>1, <3>2 DEF JobsOK
    <3> HIDE DEF kids, list, at
    <3> QED  BY <2>7, <3>1, <3>3
  <2>10. CASE \E d \in fds : Release(t, d)
    <3>1. PICK d \in fds : Release(t, d)
      BY <2>10
    <3>2. Dies(d.mount) \/ job' = job
      BY <3>1 DEF Release
    <3> QED  BY <1>3, <3>2 DEF Later
  <2> QED
    BY <1>7, <2>2, <2>3, <2>4, <2>5, <2>6, <2>8, <2>9, <2>10 DEF Others
<1> QED  BY <1>5, <1>6, <1>7

-----------------------------------------------------------------------------
(* The steps that look something up                                        *)

(* A lookup begins at the root.                                            *)
LEMMA LookupKnows ==
  ASSUME TypeInv, NEW t \in Threads, NEW j \in Jobs, Moving(j), NEW todo \in Seq(Names),
         Lookup(t, j, todo), todo = Wanted(j),
         ~Within(j.path, j.to), j.op = "swap" => ~Within(j.to, j.path),
         ~j.raced =>
           /\ j.op = "move" /\ Len(j.got) = 2 => Looked(rows, nextId, j.path, j.got[2])
           /\ j.op = "swap" /\ Len(j.got) = 1 => Looked(rows, nextId, j.path, j.got[1])
  PROVE  Knows(rows, nextId, job'[t])
<1>1. PICK root \in {Root, NoFile} :
          job' = [job EXCEPT ![t] = Found([j EXCEPT !.todo = todo], root, Root)]
  BY DEF Lookup
<1> DEFINE k == job'[t]
<1>2. k = Found([j EXCEPT !.todo = todo], root, Root)
  BY <1>1 DEF TypeInv, JobsOK
<1>3. /\ k.op = j.op /\ k.path = j.path /\ k.to = j.to /\ k.got = j.got
      /\ k.todo = todo /\ k.cur = root /\ k.parent = Root /\ k.raced = j.raced
  BY <1>2 DEF Found, Jobs
<1> HIDE DEF k
<1>4. Wanted(k) = todo
  BY <1>3 DEF Wanted, LookupsOf
<1>5. Walked(rows, nextId, k)
  <2>1. Len(todo) \in Nat
    BY LenProperties
  <2>2. /\ 0 \in 0..Len(todo) /\ Len(todo) = Len(todo) - 0
        /\ \A a \in 1..Len(todo) : todo[a] = todo[0 + a]
    BY <2>1
  <2>3. Reached(rows, nextId, todo, 0, root)
    BY AtRoot
  <2>4. ReachedUp(rows, nextId, todo, 0, Root)
    BY DEF ReachedUp
  <2> QED  BY <1>3, <1>4, <2>2, <2>3, <2>4 DEF Walked
<1>6. /\ ~Within(k.path, k.to)
      /\ k.op = "swap" => ~Within(k.to, k.path)
      /\ ~k.raced =>
           /\ k.op = "move" /\ Len(k.got) = 2 => Looked(rows, nextId, k.path, k.got[2])
           /\ k.op = "swap" /\ Len(k.got) = 1 => Looked(rows, nextId, k.path, k.got[1])
  BY <1>3
<1> QED  BY <1>5, <1>6 DEF Knows, k

Calls(t) ==
  \E op \in Callbacks, path, to \in Paths :
     Passes(op, path, to) /\ Call(t, op, path, to)

LEMMA CallKnows ==
  ASSUME TypeInv, NEW t \in Threads, Calls(t), Moving(job'[t])
  PROVE  Knows(rows, nextId, job'[t])
<1>1. PICK op \in Callbacks, path \in Paths, to \in Paths :
         /\ op \in {"move", "swap"} => ~Within(path, to)
         /\ op = "swap" => ~Within(to, path)
         /\ Call(t, op, path, to)
  BY DEF Calls, Passes
<1>2. PICK slot \in IF op \in Opening THEN FirstFree(MountOf[t]) ELSE {0} :
        Lookup(t, [op |-> op, path |-> path, to |-> to, at |-> "walk", cur |-> Root,
                   parent |-> Root, todo |-> <<>>, got |-> <<>>, slot |-> slot,
                   list |-> "none", kids |-> {}, raced |-> FALSE],
               Lookups(op, path, to)[1])
  BY <1>1 DEF Call
<1> DEFINE j == [op |-> op, path |-> path, to |-> to, at |-> "walk", cur |-> Root,
                 parent |-> Root, todo |-> <<>>, got |-> <<>>, slot |-> slot,
                 list |-> "none", kids |-> {}, raced |-> FALSE]
           todo == Lookups(op, path, to)[1]
<1>3. /\ j.op = op /\ j.path = path /\ j.to = to /\ j.got = <<>> /\ ~j.raced
  OBVIOUS
<1>5. j \in Jobs
  <2>1. <<>> \in Seq(Names) /\ <<>> \in Seq(Results)
    BY EmptySeq
  <2>2. Root \in 0..MaxFiles /\ Root \in FileOrNone
    BY BoundAssumption DEF Root, FileOrNone
  <2>3. slot \in Slots \cup {0}
    BY DEF FirstFree, FreeSlots
  <2> QED  BY <2>1, <2>2, <2>3 DEF Jobs
<1>6. todo \in Seq(Names)
  BY LookupsAreTyped
<1> HIDE DEF j
<1>7. Len(j.got) = 0
  BY <1>3, EmptySeq
<1>8. todo = Wanted(j)
  <2>1. LookupsOf(j) = Lookups(op, path, to)
    BY <1>3 DEF LookupsOf
  <2>2. Len(j.got) + 1 = 1
    BY <1>7
  <2> QED  BY <2>1, <2>2 DEF Wanted
<1>9. Lookup(t, j, todo)
  BY <1>2 DEF j
<1> HIDE DEF todo
<1>10. Moving(j)
  <2>1. PICK root \in {Root, NoFile} :
          job' = [job EXCEPT ![t] = Found([j EXCEPT !.todo = todo], root, Root)]
    BY <1>9 DEF Lookup
  <2>2. job'[t].op = j.op
    BY <1>5, <2>1 DEF TypeInv, JobsOK, Found, Jobs
  <2> QED  BY <2>2 DEF Moving
<1>11. Len(j.got) # 2 /\ Len(j.got) # 1
  BY <1>7
<1>12. ~Within(j.path, j.to) /\ (j.op = "swap" => ~Within(j.to, j.path))
  BY <1>1, <1>3, <1>10 DEF Moving
<1> QED  BY <1>5, <1>6, <1>8, <1>9, <1>10, <1>11, <1>12, LookupKnows

(* A path that has been looked up to its end                               *)
LEMMA Arrived ==
  ASSUME NEW j, Wanted(j) \in Seq(Names), Walked(rows, nextId, j), j.todo = <<>>
  PROVE  Looked(rows, nextId, Wanted(j), [file |-> j.cur, parent |-> j.parent])
<1> DEFINE W == Wanted(j)
<1>1. Len(W) \in Nat /\ Len(j.todo) = 0
  BY EmptySeq, LenProperties
<1>2. PICK n \in 0..Len(W) :
         /\ Len(j.todo) = Len(W) - n
         /\ Reached(rows, nextId, W, n, j.cur)
         /\ ReachedUp(rows, nextId, W, n, j.parent)
  BY DEF Walked
<1> HIDE DEF W
<1>3. n = Len(W)
  BY <1>1, <1>2
<1> QED  BY <1>2, <1>3 DEF Looked, W

LEMMA LookupNextKnows ==
  ASSUME TypeInv, MovesInv, NEW t \in Threads, LookupNext(t)
  PROVE  Knows(rows, nextId, job'[t])
<1> DEFINE j == job[t]  k == Kept(j)  todo == LookupsOf(j)[Len(j.got) + 2]
           result == [file |-> j.cur, parent |-> j.parent]
<1>1. /\ j \in Jobs /\ WellFormed(j) /\ j.todo = <<>> /\ Moving(j) /\ ~Last(j)
      /\ Lookup(t, k, todo)
  BY JobIsTyped DEF LookupNext, Proceeds, Resolved, Moving, TypeInv
<1>2. Knows(rows, nextId, j)
  BY <1>1 DEF MovesInv
<1> HIDE DEF j, k, todo
<1>3. /\ j.path \in Seq(Names) /\ Len(j.got) \in 0..2
      /\ j.op = "move" => Len(LookupsOf(j)) = 3
      /\ j.op = "swap" => Len(j.got) \in 0..1 /\ Len(LookupsOf(j)) = 2
      /\ Wanted(j) \in Seq(Names)
      /\ j.op = "move" /\ Len(j.got) = 1 => Wanted(j) = j.path
      /\ j.op = "swap" /\ Len(j.got) = 0 => Wanted(j) = j.path
  BY <1>1, WantedIs
<1>4. j.got \in Seq(Results) /\ Len(j.got) \in Nat /\ result \in Results /\ j.raced \in BOOLEAN
  BY <1>1, <1>3 DEF Jobs, Results
<1>5. /\ k \in Jobs /\ k.got = Append(j.got, result)
      /\ k.op = j.op /\ k.path = j.path /\ k.to = j.to /\ k.raced = j.raced
  <2>1. k \in Jobs
    BY <1>1, KeptIsTyped DEF k
  <2> QED  BY <1>1, <2>1 DEF k, Kept, Jobs
<1>6. Len(k.got) = Len(j.got) + 1 /\ k.got[Len(j.got) + 1] = result
  BY <1>4, <1>5, AppendProperties
<1>7. LookupsOf(k) = LookupsOf(j)
  BY <1>5 DEF LookupsOf
<1>8. Len(k.got) + 1 = Len(j.got) + 2
  BY <1>4, <1>6
<1>9. todo = Wanted(k)
  BY <1>7, <1>8 DEF Wanted, todo
<1>10. todo \in Seq(Names)
  <2>1. Len(j.got) + 1 # Len(LookupsOf(j))
    BY <1>1 DEF Last
  <2>2. Ready(k) /\ WellFormed(k)
    <3>1. PICK other \in Seq(Names) : Ready(k)
      BY LookupNextDoes DEF j, k
    <3>2. k.at = "walk"
      BY <1>1, KeptIsTyped DEF k, j, LookupNext, Proceeds, Resolved
    <3> QED  BY <1>5, <3>1, <3>2 DEF WellFormed
  <2>3. Moving(k)
    BY <1>1, <1>5 DEF Moving
  <2> QED  BY <1>5, <1>9, <2>2, <2>3, WantedIs
<1>11. Moving(k)
  BY <1>1, <1>5 DEF Moving
<1>12. /\ ~Within(k.path, k.to)
       /\ k.op = "swap" => ~Within(k.to, k.path)
  BY <1>2, <1>5 DEF Knows
<1>13. ASSUME ~k.raced, Wanted(j) = j.path
       PROVE  Looked(rows, nextId, k.path, k.got[Len(j.got) + 1])
  <2>1. Walked(rows, nextId, j)
    BY <1>2, <1>5, <1>13 DEF Knows
  <2>2. Looked(rows, nextId, j.path, result)
    BY <1>1, <1>3, <1>13, <2>1, Arrived
  <2> QED  BY <1>5, <1>6, <2>2
<1>14. ASSUME ~k.raced
       PROVE  /\ k.op = "move" /\ Len(k.got) = 2 => Looked(rows, nextId, k.path, k.got[2])
              /\ k.op = "swap" /\ Len(k.got) = 1 => Looked(rows, nextId, k.path, k.got[1])
  <2>1. /\ Len(k.got) = 2 => Len(j.got) = 1 /\ Len(j.got) + 1 = 2
        /\ Len(k.got) = 1 => Len(j.got) = 0 /\ Len(j.got) + 1 = 1
    <3> DEFINE n == Len(j.got)  m == Len(k.got)
    <3>1. n \in Nat /\ m = n + 1
      BY <1>4, <1>6
    <3> HIDE DEF n, m
    <3>2. (m = 2 => n = 1 /\ n + 1 = 2) /\ (m = 1 => n = 0 /\ n + 1 = 1)
      BY <3>1
    <3> QED  BY <3>2 DEF n, m
  <2> QED  BY <1>3, <1>5, <1>13, <1>14, <2>1
<1> QED  BY <1>1, <1>5, <1>9, <1>10, <1>11, <1>12, <1>14, LookupKnows

LEMMA WalkKnows ==
  ASSUME TypeInv, TreeInv, MovesInv, NEW t \in Threads, Walk(t), Moving(job'[t])
  PROVE  Knows(rows, nextId, job'[t])
<1> DEFINE j == job[t]  k == job'[t]
<1>1. /\ j \in Jobs /\ WellFormed(j) /\ j.todo # <<>>
  BY JobIsTyped DEF Walk, TypeInv
<1>2. ~Dies(MountOf[t])
  BY DEF Dies, Moving, Idle
<1>3. PICK found \in {Find(j.cur, Head(j.todo)), NoFile} :
        \E parent \in {ParentOf(found), Root} : job' = [job EXCEPT ![t] = Found([j EXCEPT !.todo = Tail(j.todo)], found, parent)]
  BY <1>2 DEF Walk
<1>31. PICK parent \in {ParentOf(found), Root} :
        job' = [job EXCEPT ![t] = Found([j EXCEPT !.todo = Tail(j.todo)], found, parent)]
  BY <1>3
<1>4. k = Found([j EXCEPT !.todo = Tail(j.todo)], found, parent)
  BY <1>31 DEF TypeInv, JobsOK
<1> HIDE DEF j, k
<1>5. /\ k.op = j.op /\ k.path = j.path /\ k.to = j.to /\ k.got = j.got
      /\ k.todo = Tail(j.todo) /\ k.cur = found /\ k.raced = j.raced
      /\ k.parent \in {parent, Root}
  BY <1>1, <1>4 DEF Found, Jobs
<1>6. Moving(j)
  BY <1>5 DEF Moving, k
<1>7. Knows(rows, nextId, j)
  BY <1>6 DEF MovesInv, j
<1>8. Wanted(k) = Wanted(j) /\ Wanted(j) \in Seq(Names)
  <2>1. Wanted(j) \in Seq(Names)
    BY <1>1, <1>6, WantedIs
  <2> QED  BY <1>5, <2>1 DEF Wanted, LookupsOf
<1>9. ASSUME Walked(rows, nextId, j) PROVE Walked(rows, nextId, k)
  <2> DEFINE W == Wanted(j)  todo == j.todo
  <2> HIDE DEF W, todo
  <2>1. PICK n \in 0..Len(W) :
           /\ Len(todo) = Len(W) - n
           /\ \A a \in 1..Len(todo) : todo[a] = W[n + a]
           /\ Reached(rows, nextId, W, n, j.cur)
    BY <1>9 DEF Walked, W, todo
  <2>2. todo \in Seq(Names) /\ todo # <<>> /\ Len(W) \in Nat /\ j.cur \in FileOrNone
    BY <1>1, <1>8, LenProperties DEF Jobs, todo, W
  <2>3. Len(todo) \in Nat /\ Len(todo) >= 1
    BY <2>2, EmptySeq, LenProperties
  <2>4. /\ Head(todo) = todo[1] /\ Len(Tail(todo)) = Len(todo) - 1
        /\ \A a \in 1..Len(Tail(todo)) : Tail(todo)[a] = todo[a + 1]
    BY <2>2, HeadTailProperties
  <2>5. n \in Nat /\ n + 1 \in 0..Len(W) /\ Len(Tail(todo)) = Len(W) - (n + 1)
    BY <2>1, <2>2, <2>3, <2>4
  <2>6. ASSUME NEW a \in 1..Len(Tail(todo)) PROVE Tail(todo)[a] = W[(n + 1) + a]
    <3>1. a + 1 \in 1..Len(todo) /\ n + (a + 1) = (n + 1) + a
      BY <2>3, <2>4, <2>5
    <3> QED  BY <2>1, <2>4, <3>1
  <2>7. found = NoFile \/ found = Find(j.cur, W[n + 1])
    BY <1>3, <2>1, <2>3, <2>4 DEF todo
  <2>8. /\ Reached(rows, nextId, W, n + 1, found)
        /\ ReachedUp(rows, nextId, W, n + 1, ParentOf(found))
    BY <2>1, <2>2, <2>5, <2>7, Onward
  <2>9. ReachedUp(rows, nextId, W, n + 1, k.parent)
    BY <1>31, <1>5, <2>8 DEF ReachedUp
  <2> QED  BY <1>5, <1>8, <2>5, <2>6, <2>8, <2>9 DEF Walked, W, todo
<1> QED  BY <1>5, <1>7, <1>9 DEF Knows, k

-----------------------------------------------------------------------------
(* The invariant                                                           *)

LEMMA NextCalls ==
  ASSUME RequestsOK, [Next]_vars
  PROVE  \/ \E t \in Threads : Calls(t) \/ Walk(t) \/ LookupNext(t) \/ Others(t)
         \/ \E m \in Mounts : Remount(m)
         \/ UNCHANGED vars
BY DEF Next, Act, Calls, Others, RequestsOK, Requests

LEMMA MovesStep ==
  ASSUME TypeInv, TypeInv', TreeInv, TreeInv', MovesInv, NEW t \in Threads,
         Calls(t) \/ Walk(t) \/ LookupNext(t) \/ Others(t)
  PROVE  MovesInv'
<1> SUFFICES ASSUME NEW u \in Threads, Moving(job'[u])
             PROVE  Knows(rows', nextId', job'[u])
  BY DEF MovesInv
<1>1. ASSUME Later(job[u], job'[u]), Steady \/ job'[u].raced
      PROVE  Knows(rows', nextId', job'[u])
  <2>1. Moving(job[u])
    BY <1>1 DEF Later
  <2>2. Knows(rows, nextId, job[u])
    BY <2>1 DEF MovesInv
  <2>3. job[u] \in Jobs /\ WellFormed(job[u])
    BY <2>1 DEF TypeInv, JobsOK, WellFormed, Moving, Idle
  <2> QED  BY <1>1, <2>2, <2>3, KnowsStays
<1>2. CASE Others(t)
  BY <1>1, <1>2, StepIsLater
<1>3. ASSUME Calls(t) \/ Walk(t) \/ LookupNext(t)
      PROVE  Knows(rows', nextId', job'[u])
  <2>1. UNCHANGED <<rows, nextId>>
    BY <1>3 DEF Calls, Call, Walk, LookupNext
  <2>2. CASE u = t
    <3>1. Knows(rows, nextId, job'[t])
      BY <1>3, <2>2, CallKnows, WalkKnows, LookupNextKnows
    <3> QED  BY <2>1, <2>2, <3>1
  <2>3. CASE u # t
    <3> DEFINE OneJobs == (\E k : job' = [job EXCEPT ![t] = k]) \/ \E m : Dies(m)
    <3>1. OneJobs
      <4>1. ASSUME NEW j, NEW path, Lookup(t, j, path) PROVE OneJobs
        BY <4>1 DEF Lookup
      <4> HIDE DEF OneJobs
      <4>2. CASE Calls(t)
        BY <4>1, <4>2 DEF Calls, Call
      <4>3. CASE Walk(t)
        BY <4>3 DEF Walk, OneJobs
      <4>4. CASE LookupNext(t)
        BY <4>1, <4>4 DEF LookupNext
      <4> QED  BY <1>3, <4>2, <4>3, <4>4
    <3>2. ASSUME NEW k, job' = [job EXCEPT ![t] = k] PROVE Later(job[u], job'[u])
      <4>1. job'[u] = job[u]
        BY <2>3, <3>2 DEF TypeInv, JobsOK
      <4> QED  BY <4>1 DEF Later
    <3>3. Later(job[u], job'[u])
      BY <3>1, <3>2, DiesLater DEF TypeInv
    <3> QED  BY <1>1, <2>1, <3>3, SameIsSteady
  <2> QED  BY <2>2, <2>3
<1> QED  BY <1>2, <1>3

LEMMA CallsAreSteps ==
  ASSUME NEW t \in Threads, Calls(t) \/ Walk(t) \/ LookupNext(t) \/ Others(t)
  PROVE  Step(t)
BY DEF Calls, Others, Step

LEMMA MovesHold == Spec => [](TypeInv /\ TreeInv /\ MovesInv)
<1>1. Init => MovesInv
  BY DEF Init, MovesInv, Moving, Idle
<1>2. TypeInv /\ TypeInv' /\ RequestsOK /\ TreeInv /\ TreeInv' /\ MovesInv /\ [Next]_vars
      => MovesInv'
  <2> SUFFICES ASSUME TypeInv, TypeInv', RequestsOK, TreeInv, TreeInv', MovesInv, [Next]_vars
               PROVE  MovesInv'
    OBVIOUS
  <2>1. CASE UNCHANGED <<rows, nextId, job>>
    BY <2>1 DEF MovesInv
  <2> QED  BY <2>1, NextCalls, MovesStep DEF Remount, vars
<1> QED  BY <1>1, <1>2, TreeHolds, RequestsHold, PTL DEF Spec

-----------------------------------------------------------------------------
(* What each step does to the tree                                         *)

LEMMA TreeAgain ==
  ASSUME \A S \in SUBSET (Files' \cup {Root}) :
            Root \in S /\ (\A j \in Files' : rows'[j].parent \in S => j \in S)
            => Files' \subseteq S
  PROVE  InOneTree'
BY DEF InOneTree, Below

LEMMA DeleteKeepsOneTree ==
  ASSUME TypeInv, NEW t \in Threads, Delete(t), InOneTree
  PROVE  InOneTree'
<1> DEFINE D == {x \in Files : x \in Below(job[t].cur)}
<1>1. rows' = [i \in Files \ Below(job[t].cur) |-> rows[i]]
  BY DEF Delete
<1>2. Files' = Files \ D /\ \A i \in Files' : rows'[i] = rows[i]
  BY <1>1 DEF Files
<1>3. \A j \in Files : rows[j].parent \in D => j \in D
  BY BelowIsClosed
<1>4. D \subseteq Files
  OBVIOUS
<1> HIDE DEF D
<1>5. ASSUME NEW S \in SUBSET (Files' \cup {Root}), Root \in S,
             \A j \in Files' : rows'[j].parent \in S => j \in S
      PROVE  Files' \subseteq S
  <2>1. S \cup D \in SUBSET (Files \cup {Root}) /\ Root \in S \cup D
    BY <1>2, <1>4, <1>5
  <2>2. \A j \in Files : rows[j].parent \in S \cup D => j \in S \cup D
    BY <1>2, <1>3, <1>5
  <2>3. Files \subseteq S \cup D
    BY <2>1, <2>2, BelowIsLeast DEF InOneTree
  <2> QED  BY <1>2, <2>3
<1> QED  BY <1>5, TreeAgain

LEMMA InsertKeepsOneTree ==
  ASSUME TypeInv, NEW t \in Threads, Insert(t), InOneTree
  PROVE  InOneTree'
<1> DEFINE parent == job[t].cur
           name == Basename(job[t].path)
           new == [parent |-> parent, name |-> name, type |-> Kinds[job[t].op], text |-> "none"]
<1>1. CASE UNCHANGED rows
  BY <1>1 DEF InOneTree, Below, Files
<1>2. CASE /\ IsFile(parent) /\ Files' = Files \cup {nextId} /\ nextId \notin Files
           /\ rows'[nextId] = new
           /\ \A i \in Files : rows'[i] = rows[i]
  <2>1. rows'[nextId].parent = parent
    BY <1>2
  <2> HIDE DEF parent, name, new
  <2>2. ASSUME NEW S \in SUBSET (Files' \cup {Root}), Root \in S,
               \A j \in Files' : rows'[j].parent \in S => j \in S
        PROVE  Files' \subseteq S
    <3> DEFINE P == S \cap (Files \cup {Root})
    <3>1. P \in SUBSET (Files \cup {Root}) /\ Root \in P
      BY <2>2
    <3>2. \A j \in Files : rows[j].parent \in P => j \in P
      BY <1>2, <2>2
    <3>3. Files \subseteq P
      <4> HIDE DEF P
      <4> QED  BY <3>1, <3>2, BelowIsLeast DEF InOneTree
    <3>4. parent \in S
      BY <1>2, <2>2, <3>3 DEF IsFile
    <3> QED  BY <1>2, <2>1, <2>2, <3>3, <3>4
  <2> QED  BY <2>2, TreeAgain
<1>3. \/ UNCHANGED rows
      \/ /\ IsFile(parent) /\ Files' = Files \cup {nextId} /\ nextId \notin Files
         /\ rows'[nextId] = new
         /\ \A i \in Files : rows'[i] = rows[i]
  BY InsertDoes
<1> HIDE DEF parent, name, new
<1> QED  BY <1>1, <1>2, <1>3

LEMMA AppendKeepsOneTree ==
  ASSUME TypeInv, TypeInv', NEW t \in Threads, AppendTarget(t), InOneTree
  PROVE  InOneTree'
<1>1. Files' = Files
  BY AppendTargetDoes
<1>2. ~Move(t) /\ ~Swap(t) /\ Step(t)
  BY DEF AppendTarget, Move, Swap, Proceeds, Resolved, Step
<1>3. \A k \in Files : rows'[k].parent = rows[k].parent
  BY <1>1, <1>2, StepIsSteady DEF Steady
<1> DEFINE M == {}
<1>4. M \in SUBSET Files /\ \A k \in Files \ M : rows'[k].parent = rows[k].parent
  BY <1>3
<1>5. /\ \A m \in M : IsFile(rows'[m].parent)
      /\ \A m, l \in M : rows'[m].parent \notin Below(l)
  OBVIOUS
<1> HIDE DEF M
<1> QED  BY <1>1, <1>4, <1>5, TreeIsKept DEF TypeInv

LEMMA DirnameIs ==
  ASSUME NEW path \in Paths
  PROVE  /\ Len(path) \in Nat \ {0} /\ Len(Dirname(path)) = Len(path) - 1
         /\ \A k \in 1..(Len(path) - 1) : Dirname(path)[k] = path[k]
<1>1. path \in Seq(Names) /\ path # <<>>
  BY PathAssumption
<1>2. Len(path) \in Nat \ {0}
  BY <1>1, EmptySeq
<1> DEFINE n == Len(path)  d == SubSeq(path, 1, n - 1)
<1>3. \A k \in 1..(n - 1) : path[k] \in Names
  BY <1>1, <1>2, ElementOfSeq
<1>4. n \in Nat \ {0} /\ n - 1 \in Int
  BY <1>2
<1> HIDE DEF n
<1>5. /\ Len(d) = IF 1 <= n - 1 THEN (n - 1) - 1 + 1 ELSE 0
      /\ \A k \in 1..((n - 1) - 1 + 1) : d[k] = path[1 + k - 1]
  BY <1>3, <1>4, SubSeqProperties
<1>6. (n - 1) - 1 + 1 = n - 1 /\ \A k \in 1..(n - 1) : 1 + k - 1 = k
  BY <1>4
<1> HIDE DEF d
<1>7. Len(d) = n - 1 /\ \A k \in 1..(n - 1) : d[k] = path[k]
  BY <1>4, <1>5, <1>6
<1> QED  BY <1>2, <1>7 DEF Dirname, n, d

(* The directory of what is found at one path is below nothing that was    *)
(* found at another, unless that path leads to it.                         *)
LEMMA UpApart ==
  ASSUME RowsOK, NEW path \in Seq(Names), NEW to \in Seq(Names),
         path = to \/ ~Within(path, to),
         NEW l \in Files, Reached(rows, nextId, path, Len(path), l),
         NEW p, IsFile(p), ReachedUp(rows, nextId, to, Len(to), p)
  PROVE  p \notin Below(l)
<1>1. Len(path) \in Nat /\ Len(to) \in Nat
  BY LenProperties
<1>2. CASE p = Root
  BY <1>2, RootIsNoFile DEF Below
<1>3. CASE p # Root
  <2>1. Len(to) >= 1 /\ Reached(rows, nextId, to, Len(to) - 1, p)
    BY <1>3 DEF ReachedUp
  <2>2. PICK f \in Ways(Len(path)) : Along(rows, f, path, Len(path), l)
    BY DEF Reached, Files
  <2>3. PICK g \in Ways(Len(to) - 1) : Along(rows, g, to, Len(to) - 1, p)
    BY <2>1 DEF Reached, Files, IsFile
  <2>4. ASSUME Len(path) <= Len(to) - 1, \A k \in 1..Len(path) : path[k] = to[k]
        PROVE  FALSE
    <3>1. path # to /\ Len(path) <= Len(to)
      BY <1>1, <2>4
    <3> QED  BY <2>4, <3>1, WithinIs
  <2>5. Len(to) - 1 \in Nat
    BY <1>1, <2>1
  <2> QED  BY <1>1, <2>2, <2>3, <2>4, <2>5, Apart
<1> QED  BY <1>2, <1>3

(* What a rename that goes ahead knows                                     *)
LEMMA MoveKnows ==
  ASSUME TypeInv, MovesInv, NEW t \in Threads, Move(t), ~job[t].raced
  PROVE  LET j == job[t]
         IN  /\ j.path \in Seq(Names) /\ j.to \in Paths /\ ~Within(j.path, j.to)
             /\ Looked(rows, nextId, j.path, j.got[2])
             /\ Reached(rows, nextId, Dirname(j.to), Len(Dirname(j.to)), j.cur)
<1> DEFINE j == job[t]
<1>1. /\ j # Idle /\ j.op = "move" /\ j.todo = <<>> /\ Last(j)
  BY DEF Move, Proceeds, Resolved
<1>2. j \in Jobs /\ WellFormed(j) /\ Moving(j)
  BY <1>1 DEF TypeInv, JobsOK, Moving
<1>3. Knows(rows, nextId, j) /\ ~j.raced
  BY <1>2 DEF MovesInv
<1> HIDE DEF j
<1>4. /\ j.path \in Seq(Names) /\ j.to \in Paths /\ Len(j.got) \in 0..2
      /\ Len(LookupsOf(j)) = 3 /\ Wanted(j) \in Seq(Names)
      /\ Len(j.got) = 2 => Wanted(j) = Dirname(j.to)
  BY <1>1, <1>2, WantedIs
<1>5. Len(j.got) = 2
  <2>1. Len(j.got) + 1 = 3 /\ Len(j.got) \in 0..2
    BY <1>1, <1>4 DEF Last
  <2>2. \A n \in 0..2 : n + 1 = 3 => n = 2
    OBVIOUS
  <2> QED  BY <2>1, <2>2, Zenon
<1>6. Looked(rows, nextId, j.path, j.got[2]) /\ Walked(rows, nextId, j) /\ ~Within(j.path, j.to)
  BY <1>1, <1>3, <1>5 DEF Knows
<1>7. Looked(rows, nextId, Wanted(j), [file |-> j.cur, parent |-> j.parent])
  BY <1>1, <1>4, <1>6, Arrived
<1>8. Reached(rows, nextId, Wanted(j), Len(Wanted(j)), j.cur)
  BY <1>7 DEF Looked
<1> QED  BY <1>4, <1>5, <1>6, <1>8 DEF j

LEMMA MoveKeepsOneTree ==
  ASSUME TypeInv, TypeInv', MovesInv, InOneTree,
         NEW t \in Threads, Move(t), ~job[t].raced
  PROVE  InOneTree'
<1> DEFINE i == job[t].got[2].file
           dir == job[t].cur
           path == job[t].path
           to == job[t].to
           name == Basename(job[t].to)
<1>1. CASE UNCHANGED rows
  BY <1>1 DEF InOneTree, Below, Files
<1>2. CASE /\ i \in Files => IsFile(dir)
           /\ Files' = Files
           /\ \A k \in Files \ {i} : rows'[k] = rows[k]
           /\ i \in Files => rows'[i] = [rows[i] EXCEPT !.parent = dir, !.name = name]
  <2>1. /\ path \in Seq(Names) /\ to \in Paths /\ ~Within(path, to)
        /\ Reached(rows, nextId, path, Len(path), i)
        /\ Reached(rows, nextId, Dirname(to), Len(Dirname(to)), dir)
    BY MoveKnows DEF Looked
  <2> HIDE DEF i, dir, path, to, name
  <2>2. i \in Files => rows'[i].parent = dir
    BY <1>2 DEF TypeInv, RowsOK, Row
  <2>3. RowsOK /\ RowsOK'
    BY DEF TypeInv
  <2>4. ASSUME i \in Files PROVE dir \notin Below(i)
    <3>1. PICK f \in Ways(Len(path)) : Along(rows, f, path, Len(path), i)
      BY <2>1, <2>4 DEF Reached, Files
    <3>2. PICK g \in Ways(Len(Dirname(to))) : Along(rows, g, Dirname(to), Len(Dirname(to)), dir)
      BY <1>2, <2>1, <2>4 DEF Reached, Files, IsFile
    <3>3. Len(path) \in Nat /\ Len(to) \in Nat \ {0} /\ Len(Dirname(to)) = Len(to) - 1
      BY <2>1, DirnameIs, LenProperties
    <3>4. ASSUME Len(path) <= Len(Dirname(to)), \A k \in 1..Len(path) : path[k] = Dirname(to)[k]
          PROVE  FALSE
      <4>1. Len(path) <= Len(to) /\ \A k \in 1..Len(path) : k \in 1..(Len(to) - 1)
        BY <3>3, <3>4
      <4>2. \A k \in 1..Len(path) : path[k] = to[k]
        BY <2>1, <3>4, <4>1, DirnameIs
      <4>3. to \in Seq(Names)
        BY <2>1, PathAssumption
      <4> QED  BY <2>1, <4>1, <4>2, <4>3, WithinIs
    <3>5. Len(Dirname(to)) \in Nat
      BY <3>3
    <3> QED  BY <2>3, <2>4, <3>1, <3>2, <3>3, <3>4, <3>5, Apart
  <2> DEFINE M == {i} \cap Files
  <2>5. M \in SUBSET Files /\ \A k \in Files \ M : rows'[k].parent = rows[k].parent
    BY <1>2
  <2>6. \A m \in M : IsFile(rows'[m].parent)
    BY <1>2, <2>2
  <2>7. \A m, l \in M : rows'[m].parent \notin Below(l)
    BY <2>2, <2>4
  <2> HIDE DEF M
  <2> QED  BY <1>2, <2>3, <2>5, <2>6, <2>7, TreeIsKept
<1> HIDE DEF i, dir, path, to, name
<1> QED  BY <1>1, <1>2, MoveDoes DEF i, dir, name

LEMMA SwapKnows ==
  ASSUME TypeInv, MovesInv, NEW t \in Threads, Swap(t), ~job[t].raced
  PROVE  LET j == job[t]
         IN  /\ j.path \in Seq(Names) /\ j.to \in Seq(Names)
             /\ ~Within(j.path, j.to) /\ ~Within(j.to, j.path)
             /\ Looked(rows, nextId, j.path, j.got[1])
             /\ Looked(rows, nextId, j.to, [file |-> j.cur, parent |-> j.parent])
<1> DEFINE j == job[t]
<1>1. /\ j # Idle /\ j.op = "swap" /\ j.todo = <<>> /\ Last(j)
  BY DEF Swap, Proceeds, Resolved
<1>2. j \in Jobs /\ WellFormed(j) /\ Moving(j)
  BY <1>1 DEF TypeInv, JobsOK, Moving
<1>3. Knows(rows, nextId, j) /\ ~j.raced
  BY <1>2 DEF MovesInv
<1> HIDE DEF j
<1>4. /\ j.path \in Seq(Names) /\ j.to \in Seq(Names) /\ Len(j.got) \in 0..2
      /\ Len(LookupsOf(j)) = 2 /\ Wanted(j) \in Seq(Names)
      /\ Len(j.got) = 1 => Wanted(j) = j.to
  BY <1>1, <1>2, WantedIs
<1>5. Len(j.got) = 1
  <2>1. Len(j.got) + 1 = 2 /\ Len(j.got) \in 0..2
    BY <1>1, <1>4 DEF Last
  <2>2. \A n \in 0..2 : n + 1 = 2 => n = 1
    OBVIOUS
  <2> QED  BY <2>1, <2>2, Zenon
<1>6. /\ Looked(rows, nextId, j.path, j.got[1]) /\ Walked(rows, nextId, j)
      /\ ~Within(j.path, j.to) /\ ~Within(j.to, j.path)
  BY <1>1, <1>3, <1>5 DEF Knows
<1>7. Looked(rows, nextId, Wanted(j), [file |-> j.cur, parent |-> j.parent])
  BY <1>1, <1>4, <1>6, Arrived
<1> QED  BY <1>4, <1>5, <1>6, <1>7 DEF j

LEMMA SwapKeepsOneTree ==
  ASSUME TypeInv, TypeInv', MovesInv, InOneTree,
         NEW t \in Threads, Swap(t), ~job[t].raced
  PROVE  InOneTree'
<1> DEFINE i == job[t].got[1].file
           pi == job[t].got[1].parent
           j == job[t].cur
           pj == job[t].parent
           path == job[t].path
           to == job[t].to
<1>1. CASE UNCHANGED rows
  BY <1>1 DEF InOneTree, Below, Files
<1>2. CASE /\ i \in Files => IsFile(pj)
           /\ j \in Files => IsFile(pi)
           /\ Files' = Files
           /\ \A k \in Files \ {i, j} : rows'[k] = rows[k]
           /\ j \in Files => rows'[j] = [rows[j] EXCEPT !.parent = pi]
           /\ i \in Files /\ i # j => rows'[i] = [rows[i] EXCEPT !.parent = pj]
  <2>1. /\ path \in Seq(Names) /\ to \in Seq(Names)
        /\ ~Within(path, to) /\ ~Within(to, path)
        /\ Reached(rows, nextId, path, Len(path), i)
        /\ ReachedUp(rows, nextId, path, Len(path), pi)
        /\ Reached(rows, nextId, to, Len(to), j)
        /\ ReachedUp(rows, nextId, to, Len(to), pj)
    <3>1. Looked(rows, nextId, to, [file |-> j, parent |-> pj])
      BY SwapKnows
    <3>2. /\ path \in Seq(Names) /\ to \in Seq(Names)
          /\ ~Within(path, to) /\ ~Within(to, path)
          /\ Looked(rows, nextId, path, job[t].got[1])
      BY SwapKnows
    <3> QED  BY <3>1, <3>2 DEF Looked
  <2> HIDE DEF i, pi, j, pj, path, to
  <2>2. /\ j \in Files => rows'[j].parent = pi
        /\ i \in Files /\ i # j => rows'[i].parent = pj
    BY <1>2 DEF TypeInv, RowsOK, Row
  <2>3. RowsOK /\ RowsOK'
    BY DEF TypeInv
  <2>4. j \in Files => pi \notin Below(j)
    BY <1>2, <2>1, <2>3, UpApart
  <2>5. i \in Files => pj \notin Below(i)
    BY <1>2, <2>1, <2>3, UpApart
  <2>6. i \in Files /\ j \in Files => pi \notin Below(i)
    BY <1>2, <2>1, <2>3, UpApart
  <2>7. i \in Files /\ j \in Files => pj \notin Below(j)
    BY <1>2, <2>1, <2>3, UpApart
  <2> DEFINE M == {i, j} \cap Files
  <2>8. M \in SUBSET Files /\ \A k \in Files \ M : rows'[k].parent = rows[k].parent
    BY <1>2
  <2>9. ASSUME NEW m \in M
        PROVE  \/ j \in Files /\ rows'[m].parent = pi
               \/ i \in Files /\ rows'[m].parent = pj
    BY <2>2
  <2>10. \A m \in M : IsFile(rows'[m].parent)
    BY <1>2, <2>9
  <2>11. \A m, l \in M : rows'[m].parent \notin Below(l)
    BY <2>4, <2>5, <2>6, <2>7, <2>9
  <2> HIDE DEF M
  <2> QED  BY <1>2, <2>3, <2>8, <2>10, <2>11, TreeIsKept
<1> HIDE DEF i, pi, j, pj, path, to
<1> QED  BY <1>1, <1>2, SwapDoes DEF i, pi, j, pj

(* A rename ends with its UPDATE. *)
LEMMA RenameEnds ==
  ASSUME TypeInv, NEW t \in Threads, Move(t) \/ Swap(t)
  PROVE  job[t] # Idle /\ job'[t] = Idle
<1>1. job[t] # Idle /\ t \in DOMAIN job
  BY DEF Move, Swap, Proceeds, Resolved, TypeInv, JobsOK
<1>2. ASSUME Renames(t) PROVE job'[t] = Idle
  BY <1>2 DEF Renames, Executed
<1>3. Return(t) \/ Renames(t)
  BY MoveDoes, SwapDoes
<1> QED  BY <1>1, <1>2, <1>3 DEF Return

LEMMA StepKeepsOneTree ==
  ASSUME TypeInv, TypeInv', MovesInv, InOneTree, NEW t \in Threads, Step(t)
  PROVE  InOneTree' \/ (job[t] # Idle /\ job[t].raced /\ job'[t] = Idle)
<1>1. CASE Delete(t)
  BY <1>1, DeleteKeepsOneTree
<1>2. CASE Insert(t)
  BY <1>2, InsertKeepsOneTree
<1>3. CASE AppendTarget(t)
  BY <1>3, AppendKeepsOneTree
<1>4. CASE Move(t)
  BY <1>4, MoveKeepsOneTree, RenameEnds
<1>5. CASE Swap(t)
  BY <1>5, SwapKeepsOneTree, RenameEnds
<1>6. CASE UNCHANGED rows
  BY <1>6 DEF InOneTree, Below, Files
<1> QED
  BY <1>1, <1>2, <1>3, <1>4, <1>5, <1>6
     DEF Step, Call, Walk, WalkOffNull, List, Visit, Refuse, LookupNext, QueryFails,
         GetAttributes, SetAttributes, Unlink, Rmdir, ReadId, Store, Release, ReadDir

(* A move or a swap cuts no file off from the root, whatever the other     *)
(* mounts create and delete between its lookups and its UPDATE, unless     *)
(* another move or swap has changed the tree meanwhile: the kernel does    *)
(* not let a directory into itself, and the way to what was found is as it *)
(* was.                                                                    *)
THEOREM TreeIsWhole == Spec => MovesKeepTheTree
<1> DEFINE Uncut ==
             InOneTree => \/ InOneTree'
                          \/ \E t \in Threads : job[t] # Idle /\ job[t].raced /\ job'[t] = Idle
<1>1. TypeInv /\ TypeInv' /\ RequestsOK /\ MovesInv /\ [Next]_vars => [Uncut]_vars
  <2> SUFFICES ASSUME TypeInv, TypeInv', RequestsOK, MovesInv, [Next]_vars, InOneTree
               PROVE  \/ InOneTree'
                      \/ \E t \in Threads : job[t] # Idle /\ job[t].raced /\ job'[t] = Idle
    OBVIOUS
  <2>1. CASE UNCHANGED rows
    BY <2>1 DEF InOneTree, Below, Files
  <2>2. CASE \E t \in Threads : Step(t)
    BY <2>2, StepKeepsOneTree
  <2> QED  BY <2>1, <2>2, NextSteps DEF Remount, vars
<1> QED  BY <1>1, MovesHold, RequestsHold, PTL DEF Spec, MovesKeepTheTree
=============================================================================
