----------------------------- MODULE FileStore -----------------------------
(***************************************************************************)
(* Reading and writing one file through its open handles: the callbacks    *)
(* myfs_open, myfs_write, myfs_truncate, myfs_read and myfs_release of     *)
(* myfs.c on top of the blocks of BlockStore.  (How a call on the database *)
(* may fail, and that it is atomic, is the subject of DbSession.)          *)
(*                                                                         *)
(* A handle keeps the st_size it read when it was opened.  myfs_write uses *)
(* it to tell an append from an overwrite, and adds to it after each       *)
(* write, whether the file grew or not.                                    *)
(*                                                                         *)
(* The kernel gives an O_APPEND write the end of the file as its offset;   *)
(* no write here starts behind the end (a hole).  With Requests = "served" *)
(* the callers moreover keep to the requests that the functions of         *)
(* myfs_db.c serve, which are named below; with "dense" they do not.       *)
(***************************************************************************)
EXTENDS BlockStore

CONSTANTS
    Handles,    \* the entries of myfs->files that may refer to the file
    Data,       \* what a write may carry
    MaxSize,    \* bound: the file grows to at most this size
    MaxStat,    \* bound: st_size grows to at most this value
    Requests    \* "served" or "dense"

(* The bytes a file may hold *)
Bytes == (UNION {{d[i] : i \in DOMAIN d} : d \in Data}) \cup {Blank}

(* A write carries a sequence of bytes; the bounds lie within a size_t, and *)
(* a handle can keep every size the file may have.                          *)
ASSUME DataAssumption == Data \subseteq Seq(Bytes)
ASSUME BoundAssumption ==
    /\ MaxSize \in Nat /\ MaxStat \in Nat
    /\ MaxSize <= MaxStat /\ MaxStat < Word

VARIABLES
    file,       \* the file in the database
    handle,     \* its open handles: [open, append, st_size]
    last        \* the last request and its answer

vars == <<file, handle, last>>

Closed == [open |-> FALSE, append |-> FALSE, st_size |-> 0]

TypeOK ==
    /\ file.size \in 0..MaxSize
    /\ DOMAIN file.rows \subseteq 0..MaxSize
    /\ \A i \in DOMAIN file.rows : Len(file.rows[i]) \in 1..B
    /\ \A i \in DOMAIN file.rows : \A j \in DOMAIN file.rows[i] : file.rows[i][j] \in Bytes
    /\ handle \in [Handles -> [open : BOOLEAN, append : BOOLEAN, st_size : 0..MaxStat]]

Init ==
    /\ file = Empty
    /\ handle = [h \in Handles |-> Closed]
    /\ last = [op |-> "none"]

(* myfs_open: the size is read, then the file is truncated if O_TRUNC asks *)
(* for it; the handle keeps the size it has read.                          *)
Open(h, append, truncate) ==
    /\ ~handle[h].open
    /\ LET answer == IF truncate THEN DbTruncate(file, 0) ELSE Done(file.size, file.rows)
           opened == [open |-> TRUE, append |-> append, st_size |-> file.size]
       IN  /\ file' = answer.file
           /\ handle' = IF answer.ok THEN [handle EXCEPT ![h] = opened] ELSE handle
           /\ last' = IF truncate THEN [op |-> "truncate", at |-> 0, ok |-> answer.ok]
                      ELSE last

Release(h) ==
    /\ handle[h].open
    /\ handle' = [handle EXCEPT ![h] = Closed]
    /\ UNCHANGED <<file, last>>

-----------------------------------------------------------------------------
(* myfs_write takes this path for O_APPEND, and where it takes the offset  *)
(* to be the end of the file.                                              *)
TakesAppend(h, at) == handle[h].append \/ handle[h].st_size = at

(* The writes that are served: an append at the end of the file, a write   *)
(* at the end that starts a block, and an overwrite of bytes that exist    *)
(* which touches no more blocks than its length alone asks for.            *)
ServedWrite(h, at, len) ==
    IF TakesAppend(h, at) THEN at = file.size
    ELSE \/ at = file.size /\ BlockOffset(at) = 0
         \/ /\ at + len <= file.size
            /\ BlockCount(BlockOffset(at) + len) <= BlockCount(len)

Write(h, at, data) ==
    /\ handle[h].open
    /\ at <= file.size /\ (handle[h].append => at = file.size)
    /\ Requests = "served" => ServedWrite(h, at, Len(data))
    /\ LET answer == IF TakesAppend(h, at) THEN DbAppend(file, data)
                     ELSE DbWrite(file, data, at)
           size == handle[h].st_size + Len(data)
       IN  /\ answer.file.size <= MaxSize /\ size <= MaxStat
           /\ file' = answer.file
           /\ handle' = IF answer.ok THEN [handle EXCEPT ![h].st_size = size] ELSE handle
           /\ last' = [op |-> "write", at |-> at, data |-> data, ok |-> answer.ok]

(* A file may grow at will, but only be cut between two blocks. *)
ServedSize(size) == size >= file.size \/ BlockOffset(size) = 0

(* myfs_truncate of an open file: the handle's st_size stays.  (For a path  *)
(* that is not open FUSE gives no handle, and myfs.c:413 reads through it.) *)
Truncate(h, size) ==
    /\ handle[h].open
    /\ Requests = "served" => ServedSize(size)
    /\ LET answer == DbTruncate(file, size)
       IN  /\ file' = answer.file
           /\ last' = [op |-> "truncate", at |-> size, ok |-> answer.ok]
    /\ UNCHANGED handle

(* myfs_read trims the request to what it takes for the end of the file.   *)
Trimmed(h, at, size) ==
    IF at + size > handle[h].st_size THEN (handle[h].st_size - at) % Word ELSE size

(* The reads that are served start a block, ask for at most two blocks,    *)
(* and lie below an st_size that is not short of the file.                 *)
ServedRead(h, at, size) ==
    /\ BlockOffset(at) = 0
    /\ at <= handle[h].st_size
    /\ file.size <= handle[h].st_size \/ at + size <= handle[h].st_size
    /\ Trimmed(h, at, size) <= 2 * B

(* What myfs_read answers; it changes nothing. *)
Read(h, at, size) == DbRead(file, Trimmed(h, at, size), at)

Next ==
    \E h \in Handles :
        \/ \E append, truncate \in BOOLEAN : Open(h, append, truncate)
        \/ Release(h)
        \/ \E at \in 0..MaxSize, data \in Data : Write(h, at, data)
        \/ \E size \in 0..MaxSize : Truncate(h, size)

Spec == Init /\ [][Next]_vars

-----------------------------------------------------------------------------
(* The abstract file, a sequence of bytes *)
Bytewise == INSTANCE ByteFile WITH
    content <- Content(file),
    Offsets <- 0..MaxSize

(* The blocks of the file always hold exactly `size' bytes, in blocks      *)
(* 0, 1, ... of which only the last is short: write, append and truncate   *)
(* keep the layout each of them relies on.                                 *)
LayoutMatchesSize == WellFormed(file)

(* No served write or truncation is answered with -EIO: it never meets the *)
(* unique key (file_id, index) nor runs out of blocks to cut.              *)
ServedSucceed == last.op \in {"write", "truncate"} => last.ok

(* A served read answers with the bytes of the file at its offset.         *)
ServedReadsAreExact ==
    \A h \in Handles, at \in 0..MaxSize, size \in 1..MaxSize :
        handle[h].open /\ ServedRead(h, at, size)
        => Read(h, at, size) = Bytewise!Slice(Content(file), at, size)

(* The callbacks that change the file implement a sequence of bytes. *)
IsByteFile == Bytewise!Spec

(* myfs_db.h, truncate: "Sets the size of the content"; myfs_db.c:804:     *)
(* "The block needs to be shrunk."  A truncation keeps the bytes below the *)
(* new size.                                                               *)
TruncateKeepsBytes ==
    [][\A size \in 0..MaxSize :
          DbTruncate(file, size) = [ok |-> TRUE, file |-> file'] /\ file' # file
          => \A p \in 1..Min({size, file.size}) : Content(file')[p] = Content(file)[p]]_vars

(* myfs_db.h, write: "`true` on success".  A write that is answered with   *)
(* success is in the file.                                                 *)
WrittenIsStored ==
    last.op = "write" /\ last.ok =>
        \A i \in DOMAIN last.data :
            /\ last.at + i <= file.size
            /\ Content(file)[last.at + i] = last.data[i]
=============================================================================
