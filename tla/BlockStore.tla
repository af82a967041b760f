----------------------------- MODULE BlockStore -----------------------------
(***************************************************************************)
(* How myfs_db.c keeps the bytes of one file: the column `size' of its row *)
(* in `files', and its rows in `file_data', each a block of at most B      *)
(* bytes with an index (UNIQUE per file).                                  *)
(*                                                                         *)
(* A file is [size, rows], where rows maps the indexes that exist to the   *)
(* bytes of their blocks.  Each operator is one function of myfs_db.c with *)
(* its loop in closed form, and gives [ok, file]: a function that returns  *)
(* false has rolled back, which leaves the file as it was.                 *)
(***************************************************************************)
EXTENDS Integers, Sequences, FiniteSets, SequencesExt

CONSTANTS
    B,          \* MYFS_FILE_BLOCK_SIZE
    Blank,      \* the byte REPEAT(' ', n) pads with
    Garbage,    \* whatever lies behind a block in memory
    Word        \* the number of values of a size_t

ASSUME BlockAssumption == B \in Nat \ {0} /\ Word \in Nat \ {0}

BlockIndex(offset) == offset \div B
BlockOffset(offset) == offset % B
BlockCount(len) == len \div B + (IF len % B = 0 THEN 0 ELSE 1)

Empty == [size |-> 0, rows |-> <<>>]
Failed(f) == [ok |-> FALSE, file |-> f]
Done(size, rows) == [ok |-> TRUE, file |-> [size |-> size, rows |-> rows]]

Blanks(n) == [i \in 1..n |-> Blank]

(* Mutant of SqlInsert: the position counts from 0. *)
SqlInsertOffByOne(row, pos, data) ==
    IF pos >= Len(row) THEN row
    ELSE SubSeq(row, 1, pos - 1) \o data \o SubSeq(row, pos + Len(data), Len(row))

(* The SQL function INSERT(row, pos + 1, Len(data), data) *)
SqlInsert(row, pos, data) ==
    IF pos >= Len(row) THEN row
    ELSE SubSeq(row, 1, pos) \o data \o SubSeq(row, pos + Len(data) + 1, Len(row))

(* ORDER BY `index` ASC *)
Ascending(indexes) ==
    CHOOSE s \in [1..Cardinality(indexes) -> indexes] :
        \A j \in 2..Cardinality(indexes) : s[j - 1] < s[j]

(* Mutant of Hits: `index` > k. *)
HitsBehind(f, k, limit) ==
    LET found == Ascending({i \in DOMAIN f.rows : i > k})
    IN  SubSeq(found, 1, Min({limit, Len(found)}))

(* The first `limit' blocks from index k on *)
Hits(f, k, limit) ==
    LET found == Ascending({i \in DOMAIN f.rows : i >= k})
    IN  SubSeq(found, 1, Min({limit, Len(found)}))

(* Mutant of NewBlocks: a block may be one byte too long. *)
NewBlocksTooLong(k, data) ==
    [i \in k..(k + BlockCount(Len(data)) - 1) |->
        SubSeq(data, (i - k) * B + 1, Min({(i - k + 1) * B + 1, Len(data)}))]

(* The loops that insert new blocks, from index k on *)
NewBlocks(k, data) ==
    [i \in k..(k + BlockCount(Len(data)) - 1) |->
        SubSeq(data, (i - k) * B + 1, Min({(i - k + 1) * B, Len(data)}))]

(* INSERT INTO `file_data` meets the unique key (`file_id`,`index`) *)
Conflict(f, blocks) == DOMAIN f.rows \cap DOMAIN blocks # {}
Merge(rows, blocks) ==
    [i \in DOMAIN rows \cup DOMAIN blocks |->
        IF i \in DOMAIN blocks THEN blocks[i] ELSE rows[i]]

(* myfs_db_file_write: the first blocks from the offset on are overwritten *)
(* in place, as many as the length alone asks for; what is left goes to    *)
(* new blocks behind the last one that was overwritten.                    *)
DbWrite(f, data, offset) ==
    LET k == BlockIndex(offset)
        po == BlockOffset(offset)
        hits == Hits(f, k, BlockCount(Len(data)))
        n == Len(hits)
        Start(j) == IF j = 1 THEN 0 ELSE (j - 1) * B - po
        Chunk(j) == SubSeq(data, Start(j) + 1, Min({Start(j + 1), Len(data)}))
        overwritten ==
            [i \in DOMAIN f.rows |->
                IF \E j \in 1..n : hits[j] = i
                THEN LET j == CHOOSE j \in 1..n : hits[j] = i
                     IN  SqlInsert(f.rows[i], IF j = 1 THEN po ELSE 0, Chunk(j))
                ELSE f.rows[i]]
        written == IF n = 0 THEN 0 ELSE Min({Start(n + 1), Len(data)})
        rest == SubSeq(data, written + 1, Len(data))
        new == NewBlocks(IF n = 0 THEN k ELSE hits[n] + 1, rest)
    IN  IF Conflict(f, new) THEN Failed(f)
        ELSE Done(f.size + Len(rest), Merge(overwritten, new))

(* The last block, by index, and how many bytes still fit into it *)
LastIndex(f) == Max(DOMAIN f.rows)
Room(f) == IF DOMAIN f.rows = {} THEN 0 ELSE Max({0, B - Len(f.rows[LastIndex(f)])})

(* Mutant of Extend: the new blocks start with the bytes that went into the *)
(* last block already.                                                     *)
ExtendFromStart(f, data, size) ==
    LET fill == Min({Room(f), Len(data)})
        filled == IF fill = 0 THEN f.rows
                  ELSE [f.rows EXCEPT ![LastIndex(f)] = @ \o SubSeq(data, 1, fill)]
        new == NewBlocks(IF DOMAIN f.rows = {} THEN 0 ELSE LastIndex(f) + 1,
                         SubSeq(data, 1, Len(data) - fill))
    IN  Done(size, Merge(filled, new))

(* Mutant of Extend: the new blocks start at the last index, not behind it. *)
ExtendOverLast(f, data, size) ==
    LET fill == Min({Room(f), Len(data)})
        filled == IF fill = 0 THEN f.rows
                  ELSE [f.rows EXCEPT ![LastIndex(f)] = @ \o SubSeq(data, 1, fill)]
        new == NewBlocks(IF DOMAIN f.rows = {} THEN 0 ELSE LastIndex(f),
                         SubSeq(data, fill + 1, Len(data)))
    IN  Done(size, Merge(filled, new))

(* What append and a growing truncation do with the bytes they add *)
Extend(f, data, size) ==
    LET fill == Min({Room(f), Len(data)})
        filled == IF fill = 0 THEN f.rows
                  ELSE [f.rows EXCEPT ![LastIndex(f)] = @ \o SubSeq(data, 1, fill)]
        new == NewBlocks(IF DOMAIN f.rows = {} THEN 0 ELSE LastIndex(f) + 1,
                         SubSeq(data, fill + 1, Len(data)))
    IN  Done(size, Merge(filled, new))

(* Mutant of DbAppend: the file's size is not updated. *)
DbAppendKeepsSize(f, data) == Extend(f, data, f.size)

(* myfs_db_file_append *)
DbAppend(f, data) == Extend(f, data, f.size + Len(data))

(* The loop of a shrinking truncation deletes blocks from the end while    *)
(* they are no longer than what is left to cut; the block it then cuts     *)
(* into is replaced by blanks.                                             *)
Shrink(f, size) ==
    LET cut == f.size - size
        Behind(i) == MapThenSumSet(LAMBDA j : Len(f.rows[j]),
                                   {j \in DOMAIN f.rows : j >= i})
        deleted == {i \in DOMAIN f.rows : Behind(i) <= cut}
        kept == DOMAIN f.rows \ deleted
        left == cut - MapThenSumSet(LAMBDA j : Len(f.rows[j]), deleted)
    IN  CASE left = 0 -> Done(size, [i \in kept |-> f.rows[i]])
          [] left > 0 /\ kept = {} -> Failed(f)
          [] left > 0 /\ kept # {} ->
                Done(size, [i \in kept |->
                    IF i = Max(kept) THEN Blanks(Len(f.rows[i]) - left) ELSE f.rows[i]])

(* myfs_db_file_truncate *)
DbTruncate(f, size) ==
    CASE size > f.size -> Extend(f, Blanks(size - f.size), size)
      [] size < f.size -> Shrink(f, size)
      [] OTHER         -> Done(f.size, f.rows)

(* Mutant of DbRead: every block is copied whole. *)
DbReadWholeBlocks(f, size, offset) ==
    LET hits == Hits(f, BlockIndex(offset), BlockCount(size))
    IN  FlattenSeq([j \in 1..Len(hits) |-> f.rows[hits[j]]])

(* myfs_db_file_read: the bytes it copies.  After each block `size' goes   *)
(* down by all that was read so far, not by that block, and may wrap.      *)
DbRead(f, size, offset) ==
    LET hits == Hits(f, BlockIndex(offset), BlockCount(size))
        Copy(row, po, n) ==
            [i \in 1..n |-> IF po + i <= Len(row) THEN row[po + i] ELSE Garbage]
        loop[j \in 0..Len(hits)] ==
            IF j = 0 THEN [left |-> size, out |-> <<>>]
            ELSE LET row == f.rows[hits[j]]
                     n == Min({Len(row), loop[j - 1].left})
                     po == IF j = 1 THEN BlockOffset(offset) ELSE 0
                     out == loop[j - 1].out \o Copy(row, po, n)
                 IN  [left |-> (loop[j - 1].left - Len(out)) % Word, out |-> out]
    IN  loop[Len(hits)].out

-----------------------------------------------------------------------------
(* The layout the functions rely on: blocks 0, 1, ... hold exactly `size'  *)
(* bytes, and only the last one may be short.                              *)
WellFormed(f) ==
    /\ DOMAIN f.rows = 0..(BlockCount(f.size) - 1)
    /\ \A i \in DOMAIN f.rows : Len(f.rows[i]) = Min({B, f.size - i * B})

(* The bytes the blocks stand for *)
Content(f) ==
    [p \in 1..f.size |->
        LET i == BlockIndex(p - 1)
            o == BlockOffset(p - 1) + 1
        IN  IF i \in DOMAIN f.rows /\ o <= Len(f.rows[i]) THEN f.rows[i][o] ELSE Blank]
=============================================================================
