-------------------------- MODULE FileStore_proofs --------------------------
(***************************************************************************)
(* What FileStore promises holds for every block size, every set of        *)
(* handles and every bound, as long as the requests are those that         *)
(* myfs_db.c serves: the blocks always lie as they should, no request is   *)
(* refused, reads are exact, and the whole implements ByteFile.            *)
(*                                                                         *)
(* The inductive invariant says that the file in the database is Stored(c) *)
(* for a sequence of bytes c.  The layout alone would not do: after a      *)
(* write it has to be known which bytes are where.                         *)
(***************************************************************************)
EXTENDS FileStore, BlockStore_proofs

-----------------------------------------------------------------------------
(* The requests as ByteFile sees them                                      *)

LEMMA BytesInData ==
  ASSUME NEW d \in Data
  PROVE  d \in Seq(Bytes)
BY DataAssumption

LEMMA BlankIsByte == Blank \in Bytes
BY DEF Bytes

LEMMA LargerOfTwo ==
  ASSUME NEW a \in Int, NEW b \in Int
  PROVE  Bytewise!Max({a, b}) = IF a <= b THEN b ELSE a
BY DEF Bytewise!Max

LEMMA SmallerOfTwo ==
  ASSUME NEW a \in Int, NEW b \in Int
  PROVE  Bytewise!Min({a, b}) = IF a <= b THEN a ELSE b
BY DEF Bytewise!Min

(* Byte i of an overwrite, by where it lies *)
LEMMA OverwriteIs ==
  ASSUME NEW S, NEW c \in Seq(S), NEW d \in Seq(S), NEW at \in Nat, at <= Len(c),
         NEW n \in Nat, n = IF at + Len(d) <= Len(c) THEN Len(c) ELSE at + Len(d)
  PROVE  LET e == Bytewise!Overwrite(c, at, d)
         IN  /\ e = [i \in 1..n |-> e[i]]
             /\ \A i \in 1..n : e[i] = IF at < i /\ i <= at + Len(d) THEN d[i - at] ELSE c[i]
<1> DEFINE m == Len(c)  l == Len(d)  e == Bytewise!Overwrite(c, at, d)
           Cell(i) == CASE i \in (at + 1)..(at + l) -> d[i - at]
                        [] i \in DOMAIN c /\ i \notin (at + 1)..(at + l) -> c[i]
                        [] OTHER -> Blank
           max == Bytewise!Max({m, at + l})
<1>1. m \in Nat /\ l \in Nat /\ DOMAIN c = 1..m
  BY LenProperties
<1>2. e = [i \in 1..max |-> Cell(i)]
  BY DEF Bytewise!Overwrite
<1> HIDE DEF m, l, e
<1>3. max = n
  <2>1. at + l \in Int /\ m \in Int
    BY <1>1
  <2>2. n = IF at + l <= m THEN m ELSE at + l
    BY DEF m, l
  <2>3. max = IF m <= at + l THEN at + l ELSE m
    BY <2>1, LargerOfTwo
  <2> HIDE DEF max
  <2> QED  BY <1>1, <2>1, <2>2, <2>3
<1>4. ASSUME NEW i \in 1..n
      PROVE  Cell(i) = IF at < i /\ i <= at + l THEN d[i - at] ELSE c[i]
  <2>1. i \in (at + 1)..(at + l) <=> at < i /\ i <= at + l
    BY <1>1
  <2>2. CASE i \in (at + 1)..(at + l)
    BY <2>1, <2>2
  <2>3. CASE i \notin (at + 1)..(at + l)
    <3>1. i \in DOMAIN c
      <4>1. n = (IF at + l <= m THEN m ELSE at + l) /\ at <= m
        BY DEF m, l
      <4> QED  BY <1>1, <2>1, <2>3, <4>1
    <3> QED  BY <2>1, <2>3, <3>1
  <2> QED  BY <2>2, <2>3
<1> HIDE DEF Cell, max
<1>5. e = [i \in 1..n |-> e[i]] /\ \A i \in 1..n : e[i] = Cell(i)
  BY <1>2, <1>3
<1> QED  BY <1>4, <1>5 DEF e, l

LEMMA OverwriteInside ==
  ASSUME NEW S, NEW c \in Seq(S), NEW d \in Seq(S), NEW at \in Nat, at + Len(d) <= Len(c)
  PROVE  Bytewise!Overwrite(c, at, d) = Over(c, at, d)
<1> DEFINE n == Len(c)  e == Bytewise!Overwrite(c, at, d)
<1>1. /\ n \in Nat /\ at <= Len(c)
      /\ n = IF at + Len(d) <= Len(c) THEN Len(c) ELSE at + Len(d)
  <2>1. Len(c) \in Nat /\ Len(d) \in Nat
    BY LenProperties
  <2> QED  BY <2>1
<1>2. /\ e = [i \in 1..n |-> e[i]]
      /\ \A i \in 1..n : e[i] = IF at < i /\ i <= at + Len(d) THEN d[i - at] ELSE c[i]
  <2> HIDE DEF n
  <2> QED  BY <1>1, OverwriteIs
<1> HIDE DEF n, e
<1>3. Over(c, at, d) = [p \in 1..n |-> IF at < p /\ p <= at + Len(d) THEN d[p - at] ELSE c[p]]
  BY DEF Over, n
<1>4. e = [p \in 1..n |-> IF at < p /\ p <= at + Len(d) THEN d[p - at] ELSE c[p]]
  BY <1>2
<1> QED  BY <1>3, <1>4 DEF e

LEMMA OverwriteAtEnd ==
  ASSUME NEW S, NEW c \in Seq(S), NEW d \in Seq(S)
  PROVE  Bytewise!Overwrite(c, Len(c), d) = c \o d
<1> DEFINE at == Len(c)  l == Len(d)  n == at + l  e == Bytewise!Overwrite(c, at, d)  j == c \o d
<1>0. at \in Nat /\ l \in Nat
  BY LenProperties
<1>1. /\ n \in Nat /\ at <= Len(c)
      /\ n = IF at + Len(d) <= Len(c) THEN Len(c) ELSE at + Len(d)
  <2> HIDE DEF l
  <2> QED  BY <1>0 DEF l
<1>2. /\ e = [i \in 1..n |-> e[i]]
      /\ \A i \in 1..n : e[i] = IF at < i /\ i <= at + Len(d) THEN d[i - at] ELSE c[i]
  <2>1. at \in Nat
    BY <1>0
  <2> HIDE DEF n, at
  <2> QED  BY <1>1, <2>1, OverwriteIs
<1>3. j \in Seq(S) /\ JoinedAs(c, d, at, l)
  BY Joined
<1> HIDE DEF at, l, e, j
<1>4. Len(j) = n /\ \A i \in 1..n : j[i] = IF i <= at THEN c[i] ELSE d[i - at]
  BY <1>3 DEF JoinedAs, j
<1>5. j = [i \in 1..n |-> j[i]]
  <2>1. DOMAIN j = 1..Len(j) /\ j \in [1..Len(j) -> S]
    BY <1>3, LenProperties
  <2> QED  BY <1>4, <2>1
<1>6. \A i \in 1..n : e[i] = j[i]
  <2> TAKE i \in 1..n
  <2>1. at < i <=> ~(i <= at)
    BY <1>0
  <2>2. i <= at + l
    BY <1>0
  <2>3. e[i] = IF at < i /\ i <= at + l THEN d[i - at] ELSE c[i]
    BY <1>2 DEF l
  <2>4. j[i] = IF i <= at THEN c[i] ELSE d[i - at]
    BY <1>4
  <2> HIDE DEF n
  <2> QED  BY <2>1, <2>2, <2>3, <2>4
<1>7. e = j
  <2> HIDE DEF n
  <2> QED  BY <1>2, <1>5, <1>6
<1> QED  BY <1>7 DEF e, j, at

LEMMA ResizeIs ==
  ASSUME NEW S, Blank \in S, NEW c \in Seq(S), NEW n \in Nat
  PROVE  Bytewise!Resize(c, n) = Resized(c, n)
<1> DEFINE r == Resized(c, n)  m == Len(c)
<1>1. DOMAIN c = 1..m
  BY LenProperties
<1>2. r \in Seq(S) /\ Len(r) = n /\ \A p \in 1..n : r[p] = IF p \in 1..m THEN c[p] ELSE Blank
  BY ResizedIs
<1> HIDE DEF r, m
<1>3. r = [p \in 1..n |-> r[p]]
  <2>1. DOMAIN r = 1..Len(r) /\ r \in [1..Len(r) -> S]
    BY <1>2, LenProperties
  <2> QED  BY <1>2, <2>1
<1>4. Bytewise!Resize(c, n) = [p \in 1..n |-> IF p \in 1..m THEN c[p] ELSE Blank]
  BY <1>1 DEF Bytewise!Resize
<1> QED  BY <1>2, <1>3, <1>4 DEF r

-----------------------------------------------------------------------------
(* The inductive invariant: the file is Stored(c) for some bytes c, within *)
(* the bounds, and nothing was refused.                                    *)
FileIs(c) == c \in Seq(Bytes) /\ Len(c) <= MaxSize /\ file = Stored(c)

Inv ==
  /\ \E c \in Seq(Bytes) : FileIs(c)
  /\ handle \in [Handles -> [open : BOOLEAN, append : BOOLEAN, st_size : 0..MaxStat]]
  /\ ServedSucceed

LEMMA ContentIs ==
  ASSUME NEW c, FileIs(c)
  PROVE  Content(file) = c
BY ContentOfStored DEF FileIs

LEMMA InvInit == Init => Inv
<1> SUFFICES ASSUME Init PROVE Inv
  OBVIOUS
<1>1. FileIs(<<>>)
  <2>1. <<>> \in Seq(Bytes) /\ Len(<<>>) = 0 /\ 0 <= MaxSize
    BY BoundAssumption
  <2>2. DOMAIN NewBlocks(0, <<>>) = {}
    BY NoNewBlocks
  <2>3. NewBlocks(0, <<>>) = <<>>
    <3>1. NewBlocks(0, <<>>) = [i \in DOMAIN NewBlocks(0, <<>>) |-> NewBlocks(0, <<>>)[i]]
      BY DEF NewBlocks
    <3> QED  BY <2>2, <3>1
  <2> QED  BY <2>1, <2>3 DEF FileIs, Stored, Init, Empty
<1>2. handle \in [Handles -> [open : BOOLEAN, append : BOOLEAN, st_size : 0..MaxStat]]
  BY BoundAssumption DEF Init, Closed
<1>3. ServedSucceed
  BY DEF Init, ServedSucceed
<1> QED  BY <1>1, <1>2, <1>3 DEF Inv, FileIs

(* A write that is served overwrites or extends the bytes of the file. *)
LEMMA WriteStep ==
  ASSUME Requests = "served", NEW c, FileIs(c),
         NEW h \in Handles, NEW at \in 0..MaxSize, NEW data \in Data, Write(h, at, data)
  PROVE  /\ FileIs(Bytewise!Overwrite(c, at, data))'
         /\ last' = [op |-> "write", at |-> at, data |-> data, ok |-> TRUE]
<1> DEFINE answer == IF TakesAppend(h, at) THEN DbAppend(file, data) ELSE DbWrite(file, data, at)
           e == Bytewise!Overwrite(c, at, data)
           n == Len(c)
<1>1. /\ c \in Seq(Bytes) /\ data \in Seq(Bytes) /\ file = Stored(c)
      /\ n \in Nat /\ Len(data) \in Nat /\ file.size = n /\ at \in Nat
  <2>1. c \in Seq(Bytes) /\ data \in Seq(Bytes) /\ file = Stored(c)
    BY BytesInData DEF FileIs
  <2>2. n \in Nat /\ Len(data) \in Nat
    BY <2>1, LenProperties
  <2>3. file.size = n
    BY <2>1 DEF Stored
  <2>4. at \in Nat
    BY BoundAssumption
  <2> QED  BY <2>1, <2>2, <2>3, <2>4
<1>2. /\ ServedWrite(h, at, Len(data)) /\ at <= file.size
      /\ answer.file.size <= MaxSize /\ file' = answer.file
      /\ last' = [op |-> "write", at |-> at, data |-> data, ok |-> answer.ok]
  BY DEF Write
<1>3. answer = [ok |-> TRUE, file |-> Stored(e)] /\ e \in Seq(Bytes)
  <2>1. c \o data \in Seq(Bytes)
    BY <1>1, Joined
  <2>2. CASE TakesAppend(h, at)
    <3>1. at = n
      BY <1>1, <1>2, <2>2 DEF ServedWrite
    <3>2. e = c \o data
      BY <1>1, <3>1, OverwriteAtEnd
    <3>3. DbAppend(file, data) = Extend(Stored(c), data, n + Len(data))
      BY <1>1 DEF DbAppend
    <3>4. Extend(Stored(c), data, n + Len(data)) = [ok |-> TRUE, file |-> Stored(c \o data)]
      BY <1>1, ExtendIs
    <3> QED  BY <2>1, <2>2, <3>2, <3>3, <3>4
  <2>3. CASE ~TakesAppend(h, at) /\ at = n /\ BlockOffset(at) = 0
    <3>1. e = c \o data
      BY <1>1, <2>3, OverwriteAtEnd
    <3>2. DbWrite(Stored(c), data, n) = [ok |-> TRUE, file |-> Stored(c \o data)]
      BY <1>1, <2>3, WriteAtEnd
    <3> QED  BY <1>1, <2>1, <2>3, <3>1, <3>2
  <2>4. CASE /\ ~TakesAppend(h, at) /\ at + Len(data) <= n
             /\ BlockCount(BlockOffset(at) + Len(data)) <= BlockCount(Len(data))
    <3>1. e = Over(c, at, data) /\ Over(c, at, data) \in Seq(Bytes)
      BY <1>1, <2>4, OverwriteInside, OverIs
    <3>2. DbWrite(Stored(c), data, at) = [ok |-> TRUE, file |-> Stored(Over(c, at, data))]
      BY <1>1, <2>4, WriteInPlace
    <3> QED  BY <1>1, <2>4, <3>1, <3>2
  <2> QED  BY <1>1, <1>2, <2>2, <2>3, <2>4 DEF ServedWrite
<1> HIDE DEF answer, e
<1>4. Len(e) <= MaxSize
  <2>1. Stored(e).size = Len(e)
    BY <1>3, StoredRows
  <2> QED  BY <1>2, <1>3, <2>1
<1>5. file' = Stored(e) /\ last' = [op |-> "write", at |-> at, data |-> data, ok |-> TRUE]
  BY <1>2, <1>3
<1> QED  BY <1>3, <1>4, <1>5 DEF FileIs, e

(* So does a truncation, by a call or with O_TRUNC. *)
LEMMA TruncateStep ==
  ASSUME NEW c, FileIs(c), NEW size \in 0..MaxSize, size >= Len(c) \/ BlockOffset(size) = 0,
         file' = DbTruncate(file, size).file
  PROVE  /\ FileIs(Bytewise!Resize(c, size))'
         /\ DbTruncate(file, size).ok = TRUE
<1> DEFINE e == Bytewise!Resize(c, size)
<1>1. c \in Seq(Bytes) /\ file = Stored(c) /\ size \in Nat /\ size <= MaxSize
  BY BoundAssumption DEF FileIs
<1>2. e = Resized(c, size) /\ e \in Seq(Bytes) /\ Len(e) = size
  <2>1. e = Resized(c, size)
    BY <1>1, BlankIsByte, ResizeIs
  <2> HIDE DEF e
  <2> QED  BY <1>1, <2>1, BlankIsByte, ResizedIs
<1>3. DbTruncate(file, size) = [ok |-> TRUE, file |-> Stored(e)]
  <2> HIDE DEF e
  <2> QED  BY <1>1, <1>2, BlankIsByte, TruncateIs
<1> HIDE DEF e
<1> QED  BY <1>1, <1>2, <1>3 DEF FileIs, e

LEMMA NoOffset == BlockOffset(0) = 0
<1>1. 0 \in 0..(B - 1) /\ 0 * B + 0 = 0
  BY BlockAssumption
<1>2. (0 * B + 0) % B = 0
  BY <1>1, DivisionIs
<1> QED  BY <1>1, <1>2 DEF BlockOffset

(* Each action keeps the invariant, and is a step of ByteFile or none.     *)
Maps == [Bytewise!Next]_<<Content(file), last>>

LEMMA OpenKeeps ==
  ASSUME Inv, NEW h \in Handles, NEW append \in BOOLEAN, NEW truncate \in BOOLEAN,
         Open(h, append, truncate)
  PROVE  Inv' /\ Maps
<1>1. PICK c \in Seq(Bytes) : FileIs(c)
  BY DEF Inv
<1>2. Content(file) = c
  BY <1>1, ContentIs
<1>3. Len(c) \in Nat /\ Len(c) <= MaxSize /\ file = Stored(c) /\ file.size = Len(c)
  <2>1. Len(c) \in Nat
    BY <1>1, LenProperties
  <2>2. Stored(c).size = Len(c)
    BY DEF Stored
  <2> QED  BY <1>1, <2>1, <2>2 DEF FileIs
<1>4. handle' \in [Handles -> [open : BOOLEAN, append : BOOLEAN, st_size : 0..MaxStat]]
  <2> DEFINE opened == [open |-> TRUE, append |-> append, st_size |-> file.size]
  <2>1. opened \in [open : BOOLEAN, append : BOOLEAN, st_size : 0..MaxStat]
    BY <1>3, BoundAssumption
  <2>2. handle' = [handle EXCEPT ![h] = opened] \/ handle' = handle
    BY DEF Open
  <2> HIDE DEF opened
  <2> QED  BY <2>1, <2>2 DEF Inv
<1>5. CASE truncate
  <2>1. 0 \in 0..MaxSize
    BY BoundAssumption
  <2>2. file' = DbTruncate(file, 0).file
        /\ last' = [op |-> "truncate", at |-> 0, ok |-> DbTruncate(file, 0).ok]
    BY <1>5 DEF Open
  <2>3. FileIs(Bytewise!Resize(c, 0))' /\ DbTruncate(file, 0).ok = TRUE
    BY <1>1, <2>1, <2>2, NoOffset, TruncateStep
  <2>4. last' = [op |-> "truncate", at |-> 0, ok |-> TRUE]
    BY <2>2, <2>3
  <2>5. Content(file') = Bytewise!Resize(c, 0)
    BY <2>3, ContentOfStored DEF FileIs
  <2>6. Maps
    BY <1>2, <2>1, <2>4, <2>5 DEF Maps, Bytewise!Next, Bytewise!Truncate
  <2>7. ServedSucceed'
    BY <2>4 DEF ServedSucceed
  <2> QED  BY <1>4, <2>3, <2>6, <2>7 DEF Inv, FileIs
<1>6. CASE ~truncate
  <2>1. file' = file /\ last' = last
    <3>1. file' = Done(file.size, file.rows).file /\ last' = last
      BY <1>6 DEF Open
    <3>2. [size |-> file.size, rows |-> file.rows] = file
      BY <1>3 DEF Stored
    <3> QED  BY <3>1, <3>2 DEF Done
  <2> QED  BY <1>4, <2>1 DEF Inv, FileIs, ServedSucceed, Maps
<1> QED  BY <1>5, <1>6

LEMMA ReleaseKeeps ==
  ASSUME Inv, NEW h \in Handles, Release(h)
  PROVE  Inv' /\ Maps
<1>1. file' = file /\ last' = last /\ handle' = [handle EXCEPT ![h] = Closed]
  BY DEF Release
<1>2. Closed \in [open : BOOLEAN, append : BOOLEAN, st_size : 0..MaxStat]
  BY BoundAssumption DEF Closed
<1>3. handle' \in [Handles -> [open : BOOLEAN, append : BOOLEAN, st_size : 0..MaxStat]]
  BY <1>1, <1>2 DEF Inv
<1> QED  BY <1>1, <1>3 DEF Inv, FileIs, ServedSucceed, Maps

LEMMA WriteKeeps ==
  ASSUME Requests = "served", Inv,
         NEW h \in Handles, NEW at \in 0..MaxSize, NEW data \in Data, Write(h, at, data)
  PROVE  Inv' /\ Maps
<1>1. PICK c \in Seq(Bytes) : FileIs(c)
  BY DEF Inv
<1>2. Content(file) = c
  BY <1>1, ContentIs
<1> DEFINE e == Bytewise!Overwrite(c, at, data)
<1>3. FileIs(e)' /\ last' = [op |-> "write", at |-> at, data |-> data, ok |-> TRUE]
  BY <1>1, WriteStep
<1>4. handle' \in [Handles -> [open : BOOLEAN, append : BOOLEAN, st_size : 0..MaxStat]]
  <2> DEFINE size == handle[h].st_size + Len(data)
  <2>1. size \in 0..MaxStat
    <3>1. handle[h].st_size \in Nat
      BY BoundAssumption DEF Inv
    <3>2. Len(data) \in Nat
      BY BytesInData, LenProperties
    <3>3. size <= MaxStat
      BY DEF Write
    <3> QED  BY <3>1, <3>2, <3>3, BoundAssumption
  <2>2. handle' = [handle EXCEPT ![h].st_size = size] \/ handle' = handle
    BY DEF Write
  <2> HIDE DEF size
  <2> QED  BY <2>1, <2>2 DEF Inv
<1>5. Content(file') = e
  <2> HIDE DEF e
  <2> QED  BY <1>3, ContentOfStored DEF FileIs
<1>6. Maps
  BY <1>2, <1>3, <1>5 DEF Maps, Bytewise!Next, Bytewise!Write
<1>7. ServedSucceed'
  BY <1>3 DEF ServedSucceed
<1> HIDE DEF e
<1> QED  BY <1>3, <1>4, <1>6, <1>7 DEF Inv, FileIs

LEMMA TruncateKeeps ==
  ASSUME Requests = "served", Inv,
         NEW h \in Handles, NEW size \in 0..MaxSize, Truncate(h, size)
  PROVE  Inv' /\ Maps
<1>1. PICK c \in Seq(Bytes) : FileIs(c)
  BY DEF Inv
<1>2. Content(file) = c /\ file.size = Len(c)
  <2>1. Stored(c).size = Len(c)
    BY DEF Stored
  <2> QED  BY <1>1, <2>1, ContentIs DEF FileIs
<1> DEFINE e == Bytewise!Resize(c, size)
<1>3. /\ size >= Len(c) \/ BlockOffset(size) = 0
      /\ file' = DbTruncate(file, size).file /\ UNCHANGED handle
      /\ last' = [op |-> "truncate", at |-> size, ok |-> DbTruncate(file, size).ok]
  BY <1>2 DEF Truncate, ServedSize
<1>4. FileIs(e)' /\ DbTruncate(file, size).ok = TRUE
  BY <1>1, <1>3, TruncateStep
<1>5. last' = [op |-> "truncate", at |-> size, ok |-> TRUE]
  BY <1>3, <1>4
<1>6. Content(file') = e
  <2> HIDE DEF e
  <2> QED  BY <1>4, ContentOfStored DEF FileIs
<1>7. Maps
  BY <1>2, <1>5, <1>6 DEF Maps, Bytewise!Next, Bytewise!Truncate
<1>8. ServedSucceed'
  BY <1>5 DEF ServedSucceed
<1> HIDE DEF e
<1> QED  BY <1>3, <1>4, <1>7, <1>8 DEF Inv, FileIs

LEMMA NextKeeps ==
  ASSUME Requests = "served", Inv, [Next]_vars
  PROVE  Inv' /\ Maps
<1>1. CASE UNCHANGED vars
  BY <1>1 DEF vars, Inv, FileIs, ServedSucceed, Maps
<1>2. ASSUME NEW h \in Handles, NEW append \in BOOLEAN, NEW truncate \in BOOLEAN,
             Open(h, append, truncate)
      PROVE  Inv' /\ Maps
  BY <1>2, OpenKeeps
<1>3. ASSUME NEW h \in Handles, Release(h)
      PROVE  Inv' /\ Maps
  BY <1>3, ReleaseKeeps
<1>4. ASSUME NEW h \in Handles, NEW at \in 0..MaxSize, NEW data \in Data, Write(h, at, data)
      PROVE  Inv' /\ Maps
  BY <1>4, WriteKeeps
<1>5. ASSUME NEW h \in Handles, NEW size \in 0..MaxSize, Truncate(h, size)
      PROVE  Inv' /\ Maps
  BY <1>5, TruncateKeeps
<1> QED  BY <1>1, <1>2, <1>3, <1>4, <1>5 DEF Next

-----------------------------------------------------------------------------
(* The invariant implies what the runs check.                              *)

LEMMA InvTypes ==
  ASSUME Inv
  PROVE  TypeOK
<1>1. PICK c \in Seq(Bytes) : FileIs(c)
  BY DEF Inv
<1> DEFINE N == BlockCount(Len(c))
<1>2. /\ file.size = Len(c) /\ Len(c) \in Nat /\ DOMAIN file.rows = 0..(N - 1)
      /\ \A i \in 0..(N - 1) : IsBlock(file.rows[i], c, i, Bytes)
  <2>1. file = Stored(c)
    BY <1>1 DEF FileIs
  <2> QED  BY <2>1, StoredRows
<1>3. Len(c) <= MaxSize /\ MaxSize \in Nat
  BY <1>1, BoundAssumption DEF FileIs
<1>4. N \in Nat /\ N <= Len(c)
  <2>1. N \in Nat /\ (N - 1) * B < Len(c)
    BY <1>2, CountBounds
  <2> HIDE DEF N
  <2>2. N > 0 => N - 1 <= (N - 1) * B /\ (N - 1) * B \in Int
    BY <2>1, BlockAssumption
  <2> QED  BY <1>2, <2>1, <2>2
<1>5. ASSUME NEW i \in 0..(N - 1)
      PROVE  /\ Len(file.rows[i]) \in 1..B
             /\ \A j \in DOMAIN file.rows[i] : file.rows[i][j] \in Bytes
  <2> DEFINE row == file.rows[i]
  <2>1. IsBlock(row, c, i, Bytes)
    BY <1>2
  <2>2. Held(Len(c), i) \in 1..B
    BY <1>2, HeldBounds
  <2> HIDE DEF row
  <2>3. row \in Seq(Bytes) /\ Len(row) \in 1..B
    BY <2>1, <2>2 DEF IsBlock
  <2>4. \A j \in DOMAIN row : row[j] \in Bytes
    BY <2>3, LenProperties
  <2> QED  BY <2>3, <2>4 DEF row
<1> HIDE DEF N
<1>6. DOMAIN file.rows \subseteq 0..MaxSize
  BY <1>2, <1>3, <1>4
<1>7. file.size \in 0..MaxSize
  BY <1>2, <1>3
<1> QED  BY <1>2, <1>5, <1>6, <1>7 DEF TypeOK, Inv

LEMMA InvLayout ==
  ASSUME Inv
  PROVE  LayoutMatchesSize
<1>1. PICK c \in Seq(Bytes) : FileIs(c)
  BY DEF Inv
<1> QED  BY <1>1, StoredIsWellFormed DEF FileIs, LayoutMatchesSize

LEMMA InvReads ==
  ASSUME Inv
  PROVE  ServedReadsAreExact
<1>1. PICK c \in Seq(Bytes) : FileIs(c)
  BY DEF Inv
<1>2. Content(file) = c /\ file = Stored(c) /\ Len(c) \in Nat /\ file.size = Len(c)
  <2>1. Stored(c).size = Len(c)
    BY DEF Stored
  <2> QED  BY <1>1, <2>1, ContentIs, LenProperties DEF FileIs
<1>3. ASSUME NEW h \in Handles, NEW at \in 0..MaxSize, NEW size \in 1..MaxSize,
             handle[h].open, ServedRead(h, at, size)
      PROVE  Read(h, at, size) = Bytewise!Slice(c, at, size)
  <2> DEFINE stat == handle[h].st_size  m == Len(c)  n == Trimmed(h, at, size)
  <2>1. at \in Nat /\ size \in Nat /\ size < Word /\ stat \in Nat /\ stat < Word /\ Word \in Nat
    BY BoundAssumption, BlockAssumption DEF Inv
  <2>2. /\ BlockOffset(at) = 0 /\ at <= stat /\ n <= 2 * B
        /\ m <= stat \/ at + size <= stat
    BY <1>2, <1>3 DEF ServedRead
  <2>3. n = IF at + size > stat THEN (stat - at) % Word ELSE size
    BY DEF Trimmed
  <2> HIDE DEF stat, n
  <2>4. stat - at \in Nat /\ (stat - at) % Word = stat - at
    <3>1. stat - at \in Nat /\ stat - at < Word
      BY <2>1, <2>2
    <3> QED  BY <3>1, SmallRest
  <2>5. n = (IF at + size > stat THEN stat - at ELSE size) /\ n \in Nat /\ n < Word
    BY <2>1, <2>2, <2>3, <2>4
  <2>6. Read(h, at, size) = SubSeq(c, at + 1, Min({at + n, m}))
    <3>1. DbRead(Stored(c), n, at) = SubSeq(c, at + 1, Min({at + n, Len(c)}))
      BY <2>1, <2>2, <2>5, ReadIs
    <3> QED  BY <1>2, <3>1 DEF Read, n
  <2>7. Bytewise!Slice(c, at, size) = SubSeq(c, at + 1, Bytewise!Min({at + size, m}))
    BY DEF Bytewise!Slice
  <2> HIDE DEF m
  <2>8. m \in Nat
    BY <1>2 DEF m
  <2>9. Min({at + n, m}) = IF at + n <= m THEN at + n ELSE m
    BY <2>1, <2>5, <2>8, MinOfTwo
  <2>10. Bytewise!Min({at + size, m}) = IF at + size <= m THEN at + size ELSE m
    BY <2>1, <2>8, SmallerOfTwo
  <2>11. (IF at + n <= m THEN at + n ELSE m) = IF at + size <= m THEN at + size ELSE m
    BY <2>1, <2>2, <2>5, <2>8
  <2> QED  BY <2>6, <2>7, <2>9, <2>10, <2>11
<1> QED  BY <1>2, <1>3 DEF ServedReadsAreExact

-----------------------------------------------------------------------------
(* The theorems                                                            *)

(* The inductive invariant: whatever the callbacks do with the blocks of a *)
(* file, the database holds Stored(c) for some sequence of bytes c.        *)
THEOREM Invariant ==
  ASSUME Requests = "served"
  PROVE  Spec => []Inv
<1>1. Init => Inv
  BY InvInit
<1>2. Inv /\ [Next]_vars => Inv'
  BY NextKeeps
<1> QED  BY <1>1, <1>2, PTL DEF Spec

(* The file of the database, its rows and the open handles stay within the *)
(* types and the bounds, whatever is written, truncated and opened.        *)
THEOREM TypesHold ==
  ASSUME Requests = "served"
  PROVE  Spec => []TypeOK
<1>1. Inv => TypeOK
  BY InvTypes
<1> QED  BY <1>1, Invariant, PTL

(* myfs_db_file_write, _append and _truncate leave the blocks 0, 1, ... of *)
(* a file full but for the last, and `size' bytes in all: the layout that  *)
(* each of them takes for granted when it looks for a block.               *)
THEOREM LayoutHolds ==
  ASSUME Requests = "served"
  PROVE  Spec => []LayoutMatchesSize
<1>1. Inv => LayoutMatchesSize
  BY InvLayout
<1> QED  BY <1>1, Invariant, PTL

(* No write meets the unique key of file_data, and no truncation runs out  *)
(* of blocks: myfs_write and myfs_truncate do not answer -EIO.             *)
THEOREM NothingIsRefused ==
  ASSUME Requests = "served"
  PROVE  Spec => []ServedSucceed
<1>1. Inv => ServedSucceed
  BY DEF Inv
<1> QED  BY <1>1, Invariant, PTL

(* myfs_read gives exactly the bytes of the file at the offset, although   *)
(* myfs_db_file_read counts down `size' by all it has read so far.         *)
THEOREM ReadsAreExact ==
  ASSUME Requests = "served"
  PROVE  Spec => []ServedReadsAreExact
<1>1. Inv => ServedReadsAreExact
  BY InvReads
<1> QED  BY <1>1, Invariant, PTL

(* The callbacks on blocks implement a plain sequence of bytes: every step *)
(* is one of ByteFile's or leaves the bytes and the last answer alone.     *)
THEOREM BlocksImplementBytes ==
  ASSUME Requests = "served"
  PROVE  Spec => IsByteFile
<1>1. Init => Bytewise!Init
  <2> SUFFICES ASSUME Init PROVE Bytewise!Init
    OBVIOUS
  <2>1. Content(file) = <<>>
    BY DEF Init, Empty, Content
  <2> QED  BY <2>1 DEF Init, Bytewise!Init, Bytewise!NoRequest
<1>2. Inv /\ [Next]_vars => [Bytewise!Next]_<<Content(file), last>>
  BY NextKeeps DEF Maps
<1> QED  BY <1>1, <1>2, Invariant, PTL DEF Spec, IsByteFile, Bytewise!Spec

-----------------------------------------------------------------------------
(* What the runs find violated with "dense" requests holds of served ones. *)

LEMMA WriteStores ==
  ASSUME Requests = "served", Inv,
         NEW h \in Handles, NEW at \in 0..MaxSize, NEW data \in Data, Write(h, at, data)
  PROVE  WrittenIsStored'
<1>1. PICK c \in Seq(Bytes) : FileIs(c)
  BY DEF Inv
<1> DEFINE e == Bytewise!Overwrite(c, at, data)  m == Len(c)  l == Len(data)
           n == IF at + l <= m THEN m ELSE at + l
<1>2. FileIs(e)' /\ last' = [op |-> "write", at |-> at, data |-> data, ok |-> TRUE]
  BY <1>1, WriteStep
<1>3. /\ data \in Seq(Bytes) /\ m \in Nat /\ l \in Nat /\ at \in Nat /\ DOMAIN data = 1..l
      /\ at <= m
  <2>1. data \in Seq(Bytes)
    BY BytesInData
  <2>2. m \in Nat /\ l \in Nat /\ DOMAIN data = 1..l
    BY <2>1, LenProperties
  <2>3. file.size = m
    BY <1>1 DEF FileIs, Stored
  <2>4. at <= m
    BY <2>3 DEF Write
  <2> QED  BY <2>1, <2>2, <2>4, BoundAssumption
<1>4. n \in Nat /\ \A i \in 1..n : e[i] = IF at < i /\ i <= at + l THEN data[i - at] ELSE c[i]
  <2>1. n \in Nat /\ n = IF at + Len(data) <= Len(c) THEN Len(c) ELSE at + Len(data)
    BY <1>3
  <2> HIDE DEF n
  <2> QED  BY <1>3, <2>1, OverwriteIs
<1>5. DOMAIN e = 1..n
  <2>1. n \in Nat /\ n = IF at + Len(data) <= Len(c) THEN Len(c) ELSE at + Len(data)
    BY <1>3
  <2> HIDE DEF n
  <2>2. e = [i \in 1..n |-> e[i]]
    BY <1>3, <2>1, OverwriteIs
  <2> HIDE DEF e
  <2> QED  BY <2>2
<1> HIDE DEF e
<1>6. Content(file') = e /\ file'.size = Len(e) /\ DOMAIN e = 1..Len(e) /\ Len(e) \in Nat
  BY <1>2, ContentOfStored, LenProperties DEF FileIs, Stored
<1>7. ASSUME NEW i \in 1..l
      PROVE  at + i <= Len(e) /\ e[at + i] = data[i]
  <2>1. at + i \in 1..n /\ at < at + i /\ at + i <= at + l /\ (at + i) - at = i
    BY <1>3
  <2>2. at + i \in 1..Len(e)
    <3> HIDE DEF n
    <3> QED  BY <1>5, <1>6, <2>1
  <2> HIDE DEF n
  <2> QED  BY <1>4, <1>6, <2>1, <2>2
<1> QED  BY <1>2, <1>3, <1>6, <1>7 DEF WrittenIsStored

LEMMA NextStores ==
  ASSUME Requests = "served", Inv, WrittenIsStored, [Next]_vars
  PROVE  WrittenIsStored'
<1>1. CASE file' = file /\ last' = last
  BY <1>1 DEF WrittenIsStored
<1>2. CASE last'.op = "truncate"
  BY <1>2 DEF WrittenIsStored
<1>3. ASSUME NEW h \in Handles, NEW append \in BOOLEAN, NEW truncate \in BOOLEAN,
             Open(h, append, truncate)
      PROVE  WrittenIsStored'
  <2>1. CASE truncate
    BY <1>2, <1>3, <2>1 DEF Open
  <2>2. CASE ~truncate
    <3>1. PICK c \in Seq(Bytes) : FileIs(c)
      BY DEF Inv
    <3>2. file' = [size |-> file.size, rows |-> file.rows] /\ last' = last
      BY <1>3, <2>2 DEF Open, Done
    <3>3. file' = file
      BY <3>1, <3>2 DEF FileIs, Stored
    <3> QED  BY <1>1, <3>2, <3>3
  <2> QED  BY <2>1, <2>2
<1>4. ASSUME NEW h \in Handles, Release(h)
      PROVE  WrittenIsStored'
  BY <1>1, <1>4 DEF Release
<1>5. ASSUME NEW h \in Handles, NEW at \in 0..MaxSize, NEW data \in Data, Write(h, at, data)
      PROVE  WrittenIsStored'
  BY <1>5, WriteStores
<1>6. ASSUME NEW h \in Handles, NEW size \in 0..MaxSize, Truncate(h, size)
      PROVE  WrittenIsStored'
  BY <1>2, <1>6 DEF Truncate
<1> QED  BY <1>1, <1>3, <1>4, <1>5, <1>6 DEF Next, vars

(* A write that is answered with success is in the file, at its offset,    *)
(* and stays there until the next request that changes the file:           *)
(* myfs_write never puts an append elsewhere nor loses part of it.         *)
THEOREM WritesAreStored ==
  ASSUME Requests = "served"
  PROVE  Spec => []WrittenIsStored
<1>1. Init => WrittenIsStored
  BY DEF Init, WrittenIsStored
<1>2. Inv /\ WrittenIsStored /\ [Next]_vars => WrittenIsStored'
  BY NextStores
<1> QED  BY <1>1, <1>2, Invariant, PTL DEF Spec

(* However a file is cut, the loop of myfs_db_file_truncate never deletes  *)
(* more than it is to cut: what it gives has the size that was asked for.  *)
LEMMA ShrinkSize ==
  ASSUME NEW S, NEW c \in Seq(S), NEW size \in Nat, size < Len(c),
         Shrink(Stored(c), size).ok = TRUE
  PROVE  Shrink(Stored(c), size).file.size = size
<1> DEFINE f == Stored(c)  n == Len(c)  N == BlockCount(n)
           cut == f.size - size
           Behind(i) == BytesIn(f.rows, {j \in DOMAIN f.rows : j >= i})
           deleted == {i \in DOMAIN f.rows : Behind(i) <= cut}
           kept == DOMAIN f.rows \ deleted
           left == cut - BytesIn(f.rows, deleted)
           after == [i \in kept |-> f.rows[i]]
           blanked == [i \in kept |->
                         IF i = Max(kept) THEN Blanks(Len(f.rows[i]) - left) ELSE f.rows[i]]
<1>1. Shrink(f, size) =
        CASE left = 0 -> Done(size, after)
          [] left > 0 /\ kept = {} -> Failed(f)
          [] left > 0 /\ kept # {} -> Done(size, blanked)
  BY DEF Shrink, BytesIn
<1>2. n \in Nat /\ N \in Nat
  BY LenProperties, CountBounds
<1>3. f.size = n /\ DOMAIN f.rows = 0..(N - 1)
  BY StoredRows
<1>4. \A i \in 0..(N - 1) : BytesIn(f.rows, i..(N - 1)) = n - i * B
  <2> TAKE i \in 0..(N - 1)
  <2>1. i \in 0..N /\ i < N
    BY <1>2
  <2> QED  BY <2>1, SumOfBlocks
<1>5. size < n /\ cut \in Nat /\ cut = n - size
  BY <1>2, <1>3
<1> HIDE DEF n, N, f, cut
<1>6. \A i \in 0..(N - 1) : Behind(i) = n - i * B
  <2> TAKE i \in 0..(N - 1)
  <2>1. {j \in DOMAIN f.rows : j >= i} = i..(N - 1)
    BY <1>2, <1>3
  <2> QED  BY <1>4, <2>1
<1>7. left \in Nat
  <2>1. CASE deleted = {}
    <3> DEFINE G == [s \in SUBSET {} |-> 0]
    <3>1. Sums(G, f.rows, {})
      BY DEF Sums
    <3>2. IsFiniteSet({}) /\ G[{}] = 0
      BY FS_EmptySet
    <3> HIDE DEF G
    <3>3. BytesIn(f.rows, {}) = 0
      BY <3>1, <3>2, SumIs
    <3> HIDE DEF deleted
    <3>4. BytesIn(f.rows, deleted) = 0
      BY <2>1, <3>3
    <3> QED  BY <1>5, <3>4
  <2>2. CASE deleted # {}
    <3>1. deleted \in SUBSET Nat
      BY <1>2, <1>3
    <3> HIDE DEF deleted
    <3>2. PICK k \in deleted : \A j \in deleted : k <= j
      BY <2>2, <3>1, Least
    <3>3. k \in 0..(N - 1) /\ Behind(k) <= cut
      BY <1>3, <3>2 DEF deleted
    <3>4. k * B \in Int /\ Behind(k) = n - k * B
      <4>1. k \in Int
        BY <3>3
      <4> QED  BY <1>6, <3>3, <4>1, Product
    <3>5. ASSUME NEW j \in k..(N - 1)
          PROVE  j \in deleted
      <4>1. j \in 0..(N - 1) /\ j \in Int /\ k \in Int
        BY <3>3
      <4>2. j * B \in Int /\ k * B <= j * B
        <5>1. CASE j = k
          BY <3>4, <5>1
        <5>2. CASE k < j
          <6>1. k * B + B <= j * B /\ j * B \in Int
            BY <4>1, <5>2, Larger, Product
          <6> QED  BY <3>4, <6>1, BlockAssumption
        <5> QED  BY <4>1, <5>1, <5>2
      <4>3. Behind(j) = n - j * B
        BY <1>6, <4>1
      <4>4. Behind(j) <= cut
        <5> HIDE DEF Behind
        <5> QED  BY <1>2, <1>5, <3>3, <3>4, <4>2, <4>3
      <4> HIDE DEF Behind
      <4> QED  BY <1>3, <4>1, <4>4 DEF deleted
    <3>6. deleted = k..(N - 1)
      <4>1. \A j \in deleted : j \in 0..(N - 1)
        BY <1>3 DEF deleted
      <4>2. \A j \in deleted : j \in k..(N - 1)
        BY <1>2, <3>2, <3>3, <4>1
      <4> QED  BY <3>5, <4>2
    <3>7. BytesIn(f.rows, deleted) = n - k * B
      BY <1>4, <3>3, <3>6
    <3> HIDE DEF Behind
    <3> QED  BY <1>2, <1>5, <3>3, <3>4, <3>7
  <2> QED  BY <2>1, <2>2
<1> HIDE DEF left, kept, after, blanked
<1>8. Shrink(f, size).ok = TRUE
  BY DEF f
<1>9. CASE left = 0
  <2>1. ~(left > 0)
    BY <1>9
  <2>2. Shrink(f, size) = Done(size, after)
    BY <1>1, <1>9, <2>1
  <2> QED  BY <2>2 DEF Done, f
<1>10. CASE left # 0
  <2>1. left > 0
    BY <1>7, <1>10
  <2>2. CASE kept = {}
    <3>1. Shrink(f, size) = Failed(f)
      BY <1>1, <1>10, <2>1, <2>2
    <3> QED  BY <1>8, <3>1 DEF Failed
  <2>3. CASE kept # {}
    <3>1. Shrink(f, size) = Done(size, blanked)
      BY <1>1, <1>10, <2>1, <2>3
    <3> QED  BY <3>1 DEF Done, f
  <2> QED  BY <2>2, <2>3
<1> QED  BY <1>9, <1>10

LEMMA NextCuts ==
  ASSUME Requests = "served", Inv, [Next]_vars, file' # file
  PROVE  file'.size >= file.size \/ BlockOffset(file'.size) = 0
<1>1. PICK c \in Seq(Bytes) : FileIs(c)
  BY DEF Inv
<1>2. file.size = Len(c) /\ Len(c) \in Nat /\ c \in Seq(Bytes)
  BY <1>1, LenProperties DEF FileIs, Stored
<1>3. ASSUME NEW size \in 0..MaxSize, size >= Len(c) \/ BlockOffset(size) = 0,
             file' = DbTruncate(file, size).file
      PROVE  file'.size = size
  <2> DEFINE e == Bytewise!Resize(c, size)
  <2>1. FileIs(e)'
    BY <1>1, <1>3, TruncateStep
  <2>2. e = Resized(c, size)
    BY <1>2, BlankIsByte, ResizeIs
  <2>3. size \in Nat
    OBVIOUS
  <2> HIDE DEF e
  <2>4. Len(e) = size
    BY <1>2, <2>2, <2>3, BlankIsByte, ResizedIs
  <2> QED  BY <2>1, <2>4 DEF FileIs, Stored
<1>4. ASSUME NEW h \in Handles, NEW append \in BOOLEAN, NEW truncate \in BOOLEAN,
             Open(h, append, truncate)
      PROVE  file'.size >= file.size \/ BlockOffset(file'.size) = 0
  <2>1. CASE truncate
    <3>1. file' = DbTruncate(file, 0).file /\ 0 \in 0..MaxSize
      BY <1>4, <2>1, BoundAssumption DEF Open
    <3>2. file'.size = 0
      BY <1>3, <3>1, NoOffset
    <3> QED  BY <3>2, NoOffset
  <2>2. CASE ~truncate
    <3>1. file' = [size |-> file.size, rows |-> file.rows]
      BY <1>4, <2>2 DEF Open, Done
    <3> QED  BY <1>2, <3>1
  <2> QED  BY <2>1, <2>2
<1>5. ASSUME NEW h \in Handles, NEW at \in 0..MaxSize, NEW data \in Data, Write(h, at, data)
      PROVE  file'.size >= file.size
  <2> DEFINE e == Bytewise!Overwrite(c, at, data)
             m == Len(c)  n == IF at + Len(data) <= m THEN m ELSE at + Len(data)
  <2>1. FileIs(e)'
    BY <1>1, <1>5, WriteStep
  <2>2. data \in Seq(Bytes) /\ Len(data) \in Nat /\ at \in Nat
    BY BytesInData, LenProperties
  <2>3. n \in Nat /\ n >= m
    BY <1>2, <2>2
  <2>4. at <= m
    BY <1>2, <1>5 DEF Write
  <2>5. e = [i \in 1..n |-> e[i]]
    <3>1. n = IF at + Len(data) <= Len(c) THEN Len(c) ELSE at + Len(data)
      OBVIOUS
    <3> HIDE DEF n
    <3> QED  BY <1>2, <2>2, <2>3, <2>4, <3>1, OverwriteIs
  <2> HIDE DEF n, e
  <2>6. Len(e) = n
    <3>1. e \in Seq(Bytes) /\ DOMAIN e = 1..n
      BY <2>1, <2>5 DEF FileIs
    <3> QED  BY <2>3, <3>1, LenProperties
  <2> QED  BY <1>2, <2>1, <2>3, <2>6 DEF FileIs, Stored
<1>6. ASSUME NEW h \in Handles, NEW size \in 0..MaxSize, Truncate(h, size)
      PROVE  file'.size >= file.size \/ BlockOffset(file'.size) = 0
  <2>1. /\ file' = DbTruncate(file, size).file
        /\ size >= Len(c) \/ BlockOffset(size) = 0
    BY <1>2, <1>6 DEF Truncate, ServedSize
  <2>2. file'.size = size
    BY <1>3, <2>1
  <2> QED  BY <1>2, <2>1, <2>2
<1>7. CASE Next
  BY <1>4, <1>5, <1>6, <1>7 DEF Next, Release
<1> QED  BY <1>7 DEF vars

LEMMA ResizedKeeps ==
  ASSUME NEW e \in Seq(Bytes), NEW n \in Nat
  PROVE  /\ Resized(e, n) \in Seq(Bytes)
         /\ \A b \in 1..n : b \in 1..Len(e) => Resized(e, n)[b] = e[b]
<1>1. Resized(e, n) \in Seq(Bytes)
  BY BlankIsByte, ResizedIs
<1> SUFFICES ASSUME NEW b \in 1..n, b \in 1..Len(e)
             PROVE  Resized(e, n)[b] = e[b]
  BY <1>1
<1> QED  BY BlankIsByte, ResizedIs

(* A truncation keeps the bytes below the new size, whether it cuts the    *)
(* file or pads it: the block that myfs_db_file_truncate would blank is    *)
(* never cut into.                                                         *)
THEOREM CutsKeepBytes ==
  ASSUME Requests = "served"
  PROVE  Spec => TruncateKeepsBytes
<1> DEFINE Keeps == \A size \in 0..MaxSize :
             DbTruncate(file, size) = [ok |-> TRUE, file |-> file'] /\ file' # file
             => \A p \in 1..Min({size, file.size}) : Content(file')[p] = Content(file)[p]
<1>1. ASSUME Inv, [Next]_vars
      PROVE  Keeps
  <2> SUFFICES ASSUME NEW size \in 0..MaxSize,
                      DbTruncate(file, size) = [ok |-> TRUE, file |-> file'], file' # file,
                      NEW p \in 1..Min({size, file.size})
               PROVE  Content(file')[p] = Content(file)[p]
    OBVIOUS
  <2>1. PICK c \in Seq(Bytes) : FileIs(c)
    BY <1>1 DEF Inv
  <2>2. file = Stored(c) /\ file.size = Len(c) /\ Len(c) \in Nat /\ size \in Nat /\ Content(file) = c
    BY <2>1, ContentIs, LenProperties, BoundAssumption DEF FileIs, Stored
  <2>3. size >= Len(c) \/ BlockOffset(size) = 0
    <3> SUFFICES ASSUME size < Len(c) PROVE BlockOffset(size) = 0
      BY <2>2
    <3>1. DbTruncate(file, size) = Shrink(file, size)
      <4>1. ~(size > file.size) /\ size < file.size
        BY <2>2
      <4> QED  BY <4>1 DEF DbTruncate
    <3>2. Shrink(Stored(c), size).ok = TRUE /\ Shrink(Stored(c), size).file = file'
      BY <2>2, <3>1
    <3>3. file'.size = size
      BY <2>2, <3>2, ShrinkSize
    <3> QED  BY <1>1, <2>2, <3>3, NextCuts
  <2>4. file' = Stored(Resized(c, size))
    BY <2>2, <2>3, BlankIsByte, TruncateIs
  <2>5. /\ Resized(c, size) \in Seq(Bytes)
        /\ \A b \in 1..size : b \in 1..Len(c) => Resized(c, size)[b] = c[b]
    BY <2>2, ResizedKeeps
  <2>6. Content(file') = Resized(c, size)
    BY <2>4, <2>5, ContentOfStored
  <2>7. p \in 1..size /\ p \in 1..Len(c)
    <3>1. Min({size, Len(c)}) = IF size <= Len(c) THEN size ELSE Len(c)
      BY <2>2, MinOfTwo
    <3>2. p \in 1..Min({size, Len(c)})
      BY <2>2
    <3> QED  BY <2>2, <3>1, <3>2
  <2> QED  BY <2>2, <2>5, <2>6, <2>7
<1>2. Inv /\ [Next]_vars => [Keeps]_vars
  BY <1>1
<1> QED  BY <1>2, Invariant, PTL DEF Spec, TruncateKeepsBytes
=============================================================================
