-------------------------- MODULE BlockStore_proofs --------------------------
(***************************************************************************)
(* What the functions of BlockStore do to a file whose blocks are laid out *)
(* as they should be: the lemmas that FileStore_proofs puts together.      *)
(* Positions are counted from 1: byte p of a file is byte o of block i,    *)
(* where p = i * B + o and o is in 1..B.                                   *)
(***************************************************************************)
EXTENDS BlockStore, FiniteSetTheorems, SequenceTheorems, WellFoundedInduction, TLAPS

-----------------------------------------------------------------------------
(* Arithmetic                                                              *)

LEMMA MinOfTwo ==
  ASSUME NEW a \in Int, NEW b \in Int
  PROVE  Min({a, b}) = IF a <= b THEN a ELSE b
BY DEF Min

LEMMA MaxOfTwo ==
  ASSUME NEW a \in Int, NEW b \in Int
  PROVE  Max({a, b}) = IF a <= b THEN b ELSE a
BY DEF Max

LEMMA DivisionBy ==
  ASSUME NEW b \in Nat \ {0}, NEW n \in Nat
  PROVE  /\ n \div b \in Nat /\ n % b \in 0..(b - 1)
         /\ n = (n \div b) * b + (n % b)
BY Z3

LEMMA Division ==
  ASSUME NEW n \in Nat
  PROVE  /\ n \div B \in Nat /\ n % B \in 0..(B - 1)
         /\ n = (n \div B) * B + (n % B)
BY BlockAssumption, DivisionBy

LEMMA DivisionByIs ==
  ASSUME NEW b \in Nat \ {0}, NEW i \in Nat, NEW o \in 0..(b - 1)
  PROVE  (i * b + o) \div b = i /\ (i * b + o) % b = o
BY Z3

LEMMA DivisionIs ==
  ASSUME NEW i \in Nat, NEW o \in 0..(B - 1)
  PROVE  (i * B + o) \div B = i /\ (i * B + o) % B = o
BY BlockAssumption, DivisionByIs

LEMMA Larger ==
  ASSUME NEW i \in Int, NEW j \in Int, i < j
  PROVE  i * B + B <= j * B
BY BlockAssumption, Z3

LEMMA Product == \A i \in Int : i * B \in Int /\ (i \in Nat => i * B \in Nat)
BY BlockAssumption

LEMMA Successor ==
  0 * B = 0 /\ \A i \in Int : (i + 1) * B = i * B + B /\ (i - 1) * B = i * B - B
BY BlockAssumption

LEMMA Distributes ==
  \A i, j \in Int : /\ (i + j) * B = i * B + j * B
                    /\ (i - j) * B = i * B - j * B
                    /\ (i + j - 1) * B = i * B + (j - 1) * B
BY BlockAssumption

LEMMA Ordered ==
  ASSUME NEW i \in Int, NEW j \in Int
  PROVE  /\ i * B < j * B => i < j
         /\ i * B = j * B => i = j
<1>1. i < j => i * B + B <= j * B
  BY Larger
<1>2. j < i => j * B + B <= i * B
  BY Larger
<1> QED  BY <1>1, <1>2, BlockAssumption, Product

(* The number of blocks is the least that holds all bytes. *)
LEMMA CountBounds ==
  ASSUME NEW n \in Nat
  PROVE  /\ BlockCount(n) \in Nat
         /\ (BlockCount(n) - 1) * B < n /\ n <= BlockCount(n) * B
<1>1. /\ n \div B \in Nat /\ n % B \in 0..(B - 1)
      /\ n = (n \div B) * B + (n % B)
  BY Division
<1>2. CASE n % B = 0
  <2>1. BlockCount(n) = n \div B
    BY <1>1, <1>2 DEF BlockCount
  <2>2. (n \div B - 1) * B + B <= (n \div B) * B
    BY <1>1, Larger
  <2> QED  BY <1>1, <1>2, <2>1, <2>2, Product, BlockAssumption
<1>3. CASE n % B # 0
  <2>1. BlockCount(n) = n \div B + 1
    BY <1>1, <1>3 DEF BlockCount
  <2>2. (n \div B) * B + B <= (n \div B + 1) * B
    BY <1>1, Larger
  <2>3. (n \div B + 1) - 1 = n \div B
    BY <1>1
  <2> QED  BY <1>1, <1>3, <2>1, <2>2, <2>3, Product, BlockAssumption
<1> QED  BY <1>2, <1>3

LEMMA CountIs ==
  ASSUME NEW n \in Nat, NEW c \in Int, (c - 1) * B < n, n <= c * B
  PROVE  BlockCount(n) = c
<1> DEFINE d == BlockCount(n)
<1>1. d \in Nat /\ (d - 1) * B < n /\ n <= d * B
  BY CountBounds
<1> HIDE DEF d
<1>2. (d - 1) * B < c * B /\ (c - 1) * B < d * B
  BY <1>1, Product
<1>3. d - 1 < c /\ c - 1 < d
  BY <1>1, <1>2, Ordered
<1>4. d = c
  BY <1>1, <1>3
<1> QED  BY <1>4 DEF d

LEMMA NoBlocks == BlockCount(0) = 0
BY CountIs, Successor, BlockAssumption

(* A block exists if it has a byte. *)
LEMMA InBlocks ==
  ASSUME NEW n \in Nat, NEW i \in Nat
  PROVE  i \in 0..(BlockCount(n) - 1) <=> i * B < n
<1> DEFINE d == BlockCount(n)
<1>1. d \in Nat /\ (d - 1) * B < n /\ n <= d * B
  BY CountBounds
<1> HIDE DEF d
<1>2. i < d => i * B < n
  <2>1. CASE i = d - 1
    BY <1>1, <2>1
  <2>2. CASE i < d - 1
    <3>1. i * B + B <= (d - 1) * B
      BY <1>1, <2>2, Larger
    <3> QED  BY <1>1, <3>1, Product, BlockAssumption
  <2> QED  BY <1>1, <2>1, <2>2
<1>3. i * B < n => i < d
  <2> SUFFICES ASSUME i * B < n PROVE i < d
    OBVIOUS
  <2>1. i * B < d * B
    BY <1>1, Product
  <2> QED  BY <1>1, <2>1, Ordered
<1>4. i \in 0..(d - 1) <=> i * B < n
  BY <1>1, <1>2, <1>3
<1> QED  BY <1>4 DEF d

(* Byte p of a file is in one block. *)
LEMMA Place ==
  ASSUME NEW p \in Nat \ {0}
  PROVE  /\ BlockIndex(p - 1) \in Nat /\ BlockOffset(p - 1) + 1 \in 1..B
         /\ p = BlockIndex(p - 1) * B + (BlockOffset(p - 1) + 1)
<1> DEFINE q == (p - 1) \div B  r == (p - 1) % B
<1>1. q \in Nat /\ r \in 0..(B - 1) /\ p - 1 = q * B + r
  BY Division
<1>2. BlockIndex(p - 1) = q /\ BlockOffset(p - 1) = r
  BY DEF BlockIndex, BlockOffset
<1> HIDE DEF q, r
<1> QED  BY <1>1, <1>2, Product, BlockAssumption

-----------------------------------------------------------------------------
(* Pieces of sequences                                                     *)

LEMMA Piece ==
  ASSUME NEW S, NEW s \in Seq(S), NEW m \in Nat \ {0}, NEW n \in Nat, m <= n + 1, n <= Len(s)
  PROVE  /\ SubSeq(s, m, n) \in Seq(S)
         /\ Len(SubSeq(s, m, n)) = n - m + 1
         /\ \A i \in 1..(n - m + 1) : SubSeq(s, m, n)[i] = s[m + i - 1]
<1>1. \A i \in m..n : s[i] \in S
  BY ElementOfSeq
<1> QED  BY <1>1, SubSeqProperties

LEMMA PieceFrom ==
  ASSUME NEW S, NEW s \in Seq(S), NEW m \in Nat, NEW n \in Nat, m <= n, n <= Len(s)
  PROVE  /\ SubSeq(s, m + 1, n) \in Seq(S)
         /\ Len(SubSeq(s, m + 1, n)) = n - m
         /\ \A i \in 1..(n - m) : SubSeq(s, m + 1, n)[i] = s[m + i]
<1> DEFINE p == SubSeq(s, m + 1, n)
<1>1. /\ p \in Seq(S) /\ Len(p) = n - (m + 1) + 1
      /\ \A i \in 1..(n - (m + 1) + 1) : p[i] = s[(m + 1) + i - 1]
  BY Piece
<1>2. n - (m + 1) + 1 = n - m /\ \A i \in Int : (m + 1) + i - 1 = m + i
  OBVIOUS
<1> HIDE DEF p
<1>3. p \in Seq(S) /\ Len(p) = n - m
  BY <1>1, <1>2
<1>4. ASSUME NEW i \in 1..(n - m)
      PROVE  p[i] = s[m + i]
  BY <1>1, <1>2
<1> QED  BY <1>3, <1>4 DEF p

(* m elements of s and then n elements of t *)
JoinedAs(s, t, m, n) ==
    /\ Len(s \o t) = m + n
    /\ \A i \in 1..(m + n) : (s \o t)[i] = IF i <= m THEN s[i] ELSE t[i - m]

LEMMA Joined ==
  ASSUME NEW S, NEW s \in Seq(S), NEW t \in Seq(S)
  PROVE  s \o t \in Seq(S) /\ JoinedAs(s, t, Len(s), Len(t))
BY ConcatProperties DEF JoinedAs

LEMMA NoPiece ==
  ASSUME NEW s, NEW m \in Int, NEW n \in Int, n < m
  PROVE  SubSeq(s, m, n) = <<>>
BY SubSeqEmpty

(* How many bytes block i of n bytes holds. *)
Held(n, i) == IF i * B + B <= n THEN B ELSE n - i * B

(* A row that is block i of the bytes of c *)
IsBlock(row, c, i, S) ==
  /\ row \in Seq(S)
  /\ Len(row) = Held(Len(c), i)
  /\ \A o \in 1..Held(Len(c), i) : row[o] = c[i * B + o]

LEMMA HeldBounds ==
  ASSUME NEW n \in Nat, NEW i \in 0..(BlockCount(n) - 1)
  PROVE  /\ Held(n, i) \in 1..B
         /\ \A o \in 1..Held(n, i) : i * B + o \in 1..n
<1>1. BlockCount(n) \in Nat
  BY CountBounds
<1>2. i \in Nat
  BY <1>1
<1>3. i * B \in Nat /\ i * B < n
  BY <1>2, InBlocks, Product
<1> DEFINE x == i * B
<1>4. Held(n, i) = IF x + B <= n THEN B ELSE n - x
  BY DEF Held
<1> HIDE DEF x
<1> DEFINE h == Held(n, i)
<1>5. h \in 1..B /\ \A o \in 1..h : x + o \in 1..n
  <2> HIDE DEF h
  <2>1. h = (IF x + B <= n THEN B ELSE n - x) /\ x \in Nat /\ x < n /\ B \in Nat \ {0}
    BY <1>3, <1>4, BlockAssumption DEF x, h
  <2> QED  BY <2>1
<1> QED  BY <1>5 DEF x

(* The blocks NewBlocks makes: each a piece of the bytes. *)
LEMMA BlocksAre ==
  ASSUME NEW S, NEW c \in Seq(S), NEW k \in Nat
  PROVE  /\ NewBlocks(k, c) = [i \in k..(k + BlockCount(Len(c)) - 1) |-> NewBlocks(k, c)[i]]
         /\ \A i \in k..(k + BlockCount(Len(c)) - 1) : IsBlock(NewBlocks(k, c)[i], c, i - k, S)
<1> DEFINE n == Len(c)
           Block(i) == SubSeq(c, (i - k) * B + 1, Min({(i - k + 1) * B, n}))
           dom == k..(k + BlockCount(n) - 1)
<1>1. n \in Nat /\ BlockCount(n) \in Nat
  BY LenProperties, CountBounds
<1>2. NewBlocks(k, c) = [i \in dom |-> Block(i)]
  BY DEF NewBlocks
<1> HIDE DEF dom
<1>3. ASSUME NEW i \in dom
      PROVE  IsBlock(Block(i), c, i - k, S)
  <2> DEFINE j == i - k  x == j * B
  <2>1. j \in Nat /\ j \in 0..(BlockCount(n) - 1)
    BY <1>1 DEF dom
  <2> HIDE DEF j
  <2>2. x \in Nat /\ x < n /\ (j + 1) * B = x + B
    BY <1>1, <2>1, InBlocks, Product, Successor
  <2> HIDE DEF x
  <2>3. Block(i) = SubSeq(c, x + 1, IF x + B <= n THEN x + B ELSE n)
    <3>1. Min({x + B, n}) = IF x + B <= n THEN x + B ELSE n
      BY <1>1, <2>2, MinOfTwo, BlockAssumption
    <3> QED  BY <2>2, <3>1 DEF j, x
  <2> DEFINE e == IF x + B <= n THEN x + B ELSE n
  <2>4. e \in Nat /\ x + 1 <= e + 1 /\ e <= n /\ e - (x + 1) + 1 = Held(n, j) /\ Held(n, j) \in 1..B
        /\ x + Held(n, j) <= n
    BY <1>1, <2>2, BlockAssumption DEF Held, x
  <2>5. /\ Block(i) \in Seq(S) /\ Len(Block(i)) = e - (x + 1) + 1
        /\ \A o \in 1..(e - (x + 1) + 1) : Block(i)[o] = c[(x + 1) + o - 1]
    <3> HIDE DEF e, Block
    <3>1. Block(i) = SubSeq(c, x + 1, e)
      BY <2>3 DEF e
    <3>2. x + 1 \in Nat \ {0} /\ e \in Nat /\ x + 1 <= e + 1 /\ e <= Len(c)
      BY <2>2, <2>4
    <3> QED  BY <3>1, <3>2, Piece
  <2>6. \A o \in 1..Held(n, j) : Block(i)[o] = c[x + o]
    <3> TAKE o \in 1..Held(n, j)
    <3>1. (x + 1) + o - 1 = x + o
      BY <2>2, <2>4
    <3> QED  BY <2>4, <2>5, <3>1
  <2> HIDE DEF e, Block
  <2>7. Block(i) \in Seq(S) /\ Len(Block(i)) = Held(n, j)
    BY <2>4, <2>5
  <2> QED  BY <2>6, <2>7 DEF x, j, IsBlock
<1> HIDE DEF Block
<1>4. \A i \in dom : NewBlocks(k, c)[i] = Block(i)
  BY <1>2
<1>5. NewBlocks(k, c) = [i \in dom |-> NewBlocks(k, c)[i]]
  BY <1>2
<1> QED  BY <1>3, <1>4, <1>5 DEF dom

-----------------------------------------------------------------------------
(* The file that holds the bytes of c                                      *)

Stored(c) == [size |-> Len(c), rows |-> NewBlocks(0, c)]

LEMMA StoredRows ==
  ASSUME NEW S, NEW c \in Seq(S)
  PROVE  /\ Stored(c).size = Len(c) /\ Len(c) \in Nat
         /\ DOMAIN Stored(c).rows = 0..(BlockCount(Len(c)) - 1)
         /\ Stored(c).rows = [i \in 0..(BlockCount(Len(c)) - 1) |-> Stored(c).rows[i]]
         /\ \A i \in 0..(BlockCount(Len(c)) - 1) : IsBlock(Stored(c).rows[i], c, i, S)
<1> DEFINE N == BlockCount(Len(c))  new == NewBlocks(0, c)
<1>1. Stored(c).size = Len(c) /\ Stored(c).rows = new
  BY DEF Stored
<1>2. Len(c) \in Nat /\ N \in Nat
  BY LenProperties, CountBounds
<1>3. /\ new = [i \in 0..(0 + N - 1) |-> new[i]]
      /\ \A i \in 0..(0 + N - 1) : IsBlock(new[i], c, i - 0, S)
  BY BlocksAre
<1> HIDE DEF new, N
<1>4. 0 + N - 1 = N - 1 /\ \A i \in 0..(N - 1) : i - 0 = i
  BY <1>2
<1>5. new = [i \in 0..(N - 1) |-> new[i]] /\ \A i \in 0..(N - 1) : IsBlock(new[i], c, i, S)
  BY <1>3, <1>4
<1>6. DOMAIN new = 0..(N - 1)
  BY <1>5
<1> QED  BY <1>1, <1>2, <1>5, <1>6 DEF N

(* A file with the right blocks is that file. *)
LEMMA StoredIs ==
  ASSUME NEW S, NEW c \in Seq(S), NEW rows,
         rows = [i \in 0..(BlockCount(Len(c)) - 1) |-> rows[i]],
         \A i \in 0..(BlockCount(Len(c)) - 1) : IsBlock(rows[i], c, i, S)
  PROVE  [size |-> Len(c), rows |-> rows] = Stored(c)
<1> DEFINE dom == 0..(BlockCount(Len(c)) - 1)  new == Stored(c).rows
<1>1. new = [i \in dom |-> new[i]] /\ \A i \in dom : IsBlock(new[i], c, i, S)
  BY StoredRows
<1>2. Stored(c) = [size |-> Len(c), rows |-> new]
  BY DEF Stored
<1>3. rows = [i \in dom |-> rows[i]] /\ \A i \in dom : IsBlock(rows[i], c, i, S)
  OBVIOUS
<1> HIDE DEF new, dom
<1>4. ASSUME NEW i \in dom
      PROVE  rows[i] = new[i]
  <2>1. /\ rows[i] \in Seq(S) /\ new[i] \in Seq(S) /\ Len(rows[i]) = Len(new[i])
        /\ \A o \in 1..Len(rows[i]) : rows[i][o] = new[i][o]
    BY <1>1, <1>3 DEF IsBlock
  <2> QED  BY <2>1, SeqEqual
<1>5. rows = new
  BY <1>1, <1>3, <1>4
<1> QED  BY <1>2, <1>5

LEMMA ContentOfStored ==
  ASSUME NEW S, NEW c \in Seq(S)
  PROVE  Content(Stored(c)) = c
<1> DEFINE f == Stored(c)
<1>1. /\ f.size = Len(c) /\ Len(c) \in Nat
      /\ DOMAIN f.rows = 0..(BlockCount(Len(c)) - 1)
      /\ \A i \in 0..(BlockCount(Len(c)) - 1) :
            /\ Len(f.rows[i]) = Held(Len(c), i)
            /\ \A o \in 1..Held(Len(c), i) : f.rows[i][o] = c[i * B + o]
  <2>1. /\ f.size = Len(c) /\ Len(c) \in Nat
        /\ DOMAIN f.rows = 0..(BlockCount(Len(c)) - 1)
        /\ \A i \in 0..(BlockCount(Len(c)) - 1) : IsBlock(f.rows[i], c, i, S)
    BY StoredRows
  <2> HIDE DEF f
  <2> QED  BY <2>1 DEF IsBlock
<1> HIDE DEF f
<1> DEFINE Cell(p) == LET i == BlockIndex(p - 1)
                          o == BlockOffset(p - 1) + 1
                      IN  IF i \in DOMAIN f.rows /\ o <= Len(f.rows[i]) THEN f.rows[i][o] ELSE Blank
<1>2. ASSUME NEW p \in 1..Len(c)
      PROVE  Cell(p) = c[p]
  <2> DEFINE i == BlockIndex(p - 1)  o == BlockOffset(p - 1) + 1
  <2>1. i \in Nat /\ o \in 1..B /\ p = i * B + o
    BY <1>1, Place
  <2>2. Cell(p) = IF i \in DOMAIN f.rows /\ o <= Len(f.rows[i]) THEN f.rows[i][o] ELSE Blank
    OBVIOUS
  <2> HIDE DEF i, o, Cell
  <2>3. i * B \in Nat /\ i * B < Len(c)
    BY <1>1, <2>1, Product
  <2>4. i \in 0..(BlockCount(Len(c)) - 1)
    BY <1>1, <2>1, <2>3, InBlocks
  <2>5. o \in 1..Held(Len(c), i)
    BY <1>1, <2>1, <2>3, BlockAssumption DEF Held
  <2>6. o <= Held(Len(c), i) /\ f.rows[i][o] = c[i * B + o]
    BY <1>1, <2>4, <2>5
  <2> QED  BY <1>1, <2>1, <2>2, <2>4, <2>6
<1>3. Content(f) = [p \in 1..Len(c) |-> Cell(p)]
  BY <1>1 DEF Content
<1> HIDE DEF Cell
<1>4. [p \in 1..Len(c) |-> Cell(p)] = [p \in 1..Len(c) |-> c[p]]
  BY <1>2
<1>5. c = [p \in 1..Len(c) |-> c[p]]
  BY LenProperties
<1> QED  BY <1>3, <1>4, <1>5 DEF f

LEMMA StoredIsWellFormed ==
  ASSUME NEW S, NEW c \in Seq(S)
  PROVE  WellFormed(Stored(c))
<1> DEFINE f == Stored(c)
<1>1. /\ f.size = Len(c) /\ Len(c) \in Nat
      /\ DOMAIN f.rows = 0..(BlockCount(Len(c)) - 1)
      /\ \A i \in 0..(BlockCount(Len(c)) - 1) : Len(f.rows[i]) = Held(Len(c), i)
  <2>1. /\ f.size = Len(c) /\ Len(c) \in Nat
        /\ DOMAIN f.rows = 0..(BlockCount(Len(c)) - 1)
        /\ \A i \in 0..(BlockCount(Len(c)) - 1) : IsBlock(f.rows[i], c, i, S)
    BY StoredRows
  <2> HIDE DEF f
  <2> QED  BY <2>1 DEF IsBlock
<1> HIDE DEF f
<1>2. ASSUME NEW i \in 0..(BlockCount(Len(c)) - 1)
      PROVE  Held(Len(c), i) = Min({B, Len(c) - i * B})
  <2>1. BlockCount(Len(c)) \in Nat
    BY <1>1, CountBounds
  <2>2. i * B \in Nat
    BY <2>1, Product
  <2>3. Min({B, Len(c) - i * B}) = IF B <= Len(c) - i * B THEN B ELSE Len(c) - i * B
    BY <1>1, <2>2, BlockAssumption, MinOfTwo
  <2> QED  BY <1>1, <2>2, <2>3, BlockAssumption DEF Held
<1> QED  BY <1>1, <1>2 DEF WellFormed, f

-----------------------------------------------------------------------------
(* Growing                                                                 *)

LEMMA LastBlock ==
  ASSUME NEW S, NEW c \in Seq(S), Len(c) > 0
  PROVE  /\ BlockCount(Len(c)) - 1 \in 0..(BlockCount(Len(c)) - 1)
         /\ DOMAIN Stored(c).rows # {}
         /\ LastIndex(Stored(c)) = BlockCount(Len(c)) - 1
         /\ Held(Len(c), BlockCount(Len(c)) - 1) = Len(c) - (BlockCount(Len(c)) * B - B)
<1> DEFINE n == Len(c)  N == BlockCount(n)  x == N * B
<1>1. /\ n \in Nat /\ N \in Nat /\ (N - 1) * B < n /\ n <= x
  BY LenProperties, CountBounds
<1>2. DOMAIN Stored(c).rows = 0..(N - 1)
  BY StoredRows
<1> HIDE DEF n, N
<1>3. 0 * B = 0 /\ (N - 1) * B = x - B /\ x \in Nat
  BY <1>1, Successor, Product
<1>4. N # 0
  BY <1>1, <1>3 DEF n
<1> HIDE DEF x
<1>5. N - 1 \in 0..(N - 1)
  BY <1>1, <1>4
<1>6. Max(0..(N - 1)) = N - 1
  BY <1>1, <1>4 DEF Max
<1>7. Held(n, N - 1) = n - (x - B)
  BY <1>1, <1>3, BlockAssumption DEF Held
<1> QED  BY <1>2, <1>5, <1>6, <1>7 DEF n, N, x, LastIndex

(* The last block has room for what its bytes leave of it. *)
LEMMA RoomIs ==
  ASSUME NEW S, NEW c \in Seq(S)
  PROVE  Room(Stored(c)) = BlockCount(Len(c)) * B - Len(c)
<1> DEFINE f == Stored(c)  n == Len(c)  N == BlockCount(n)
<1>1. n \in Nat /\ N \in Nat /\ (N - 1) * B < n /\ n <= N * B
  BY LenProperties, CountBounds
<1>2. DOMAIN f.rows = 0..(N - 1) /\ \A i \in 0..(N - 1) : Len(f.rows[i]) = Held(n, i)
  <2>1. DOMAIN f.rows = 0..(N - 1) /\ \A i \in 0..(N - 1) : IsBlock(f.rows[i], c, i, S)
    BY StoredRows
  <2> HIDE DEF f
  <2> QED  BY <2>1 DEF IsBlock
<1>3. CASE n = 0
  <2> HIDE DEF f
  <2>1. N = 0
    BY <1>3, CountIs, Successor, BlockAssumption
  <2>2. DOMAIN f.rows = {}
    BY <1>2, <2>1
  <2> QED  BY <1>3, <2>1, <2>2, Successor DEF Room, f
<1>4. CASE n > 0
  <2>1. /\ N - 1 \in 0..(N - 1) /\ DOMAIN f.rows # {} /\ LastIndex(f) = N - 1
        /\ Held(n, N - 1) = n - (N * B - B)
    BY <1>4, LastBlock
  <2> HIDE DEF f, n, N
  <2>2. N * B \in Nat /\ (N - 1) * B = N * B - B
    BY <1>1, Product, Successor
  <2>3. Room(f) = Max({0, B - Len(f.rows[N - 1])})
    BY <2>1 DEF Room
  <2>4. Len(f.rows[N - 1]) = n - (N * B - B)
    BY <1>2, <2>1
  <2>5. Max({0, N * B - n}) = N * B - n
    BY <1>1, <2>2, MaxOfTwo
  <2>6. B - (n - (N * B - B)) = N * B - n
    BY <1>1, <2>2, BlockAssumption
  <2> QED  BY <2>3, <2>4, <2>5, <2>6 DEF f, n, N
<1> QED  BY <1>1, <1>3, <1>4

(* Append, and a truncation that grows the file: the bytes of d follow.    *)
LEMMA ExtendIs ==
  ASSUME NEW S, NEW c \in Seq(S), NEW d \in Seq(S)
  PROVE  Extend(Stored(c), d, Len(c) + Len(d)) = [ok |-> TRUE, file |-> Stored(c \o d)]
<1> DEFINE f == Stored(c)  e == c \o d
           n == Len(c)  l == Len(d)  N == BlockCount(n)  x == N * B  r == x - n
           fill == IF r <= l THEN r ELSE l
           rest == SubSeq(d, fill + 1, l)
           K == BlockCount(l - fill)
           filled == IF fill = 0 THEN f.rows
                     ELSE [f.rows EXCEPT ![N - 1] = @ \o SubSeq(d, 1, fill)]
           new == NewBlocks(N, rest)
           rows == Merge(filled, new)
<1>1. /\ n \in Nat /\ l \in Nat /\ N \in Nat /\ (N - 1) * B < n /\ n <= x
      /\ x \in Nat /\ (N - 1) * B = x - B /\ r \in Nat /\ r < B
  <2>1. n \in Nat /\ l \in Nat /\ N \in Nat /\ (N - 1) * B < n /\ n <= x
    BY LenProperties, CountBounds
  <2> HIDE DEF n, N, l
  <2>2. x \in Nat /\ (N - 1) * B = x - B
    BY <2>1, Product, Successor
  <2> QED  BY <2>1, <2>2, BlockAssumption
<1>2. /\ e \in Seq(S) /\ Len(e) = n + l
      /\ \A i \in 1..(n + l) : e[i] = IF i <= n THEN c[i] ELSE d[i - n]
  BY ConcatProperties
<1>3. /\ fill \in Nat /\ fill <= l /\ fill <= r /\ l - fill \in Nat
  BY <1>1
<1>4. /\ DOMAIN f.rows = 0..(N - 1)
      /\ f.rows = [i \in 0..(N - 1) |-> f.rows[i]]
      /\ \A i \in 0..(N - 1) :
            /\ f.rows[i] \in Seq(S) /\ Len(f.rows[i]) = Held(n, i) /\ Held(n, i) \in 1..B
            /\ \A o \in 1..Held(n, i) : f.rows[i][o] = c[i * B + o] /\ i * B + o \in 1..n
  <2>1. /\ DOMAIN f.rows = 0..(N - 1) /\ f.rows = [i \in 0..(N - 1) |-> f.rows[i]]
        /\ \A i \in 0..(N - 1) : IsBlock(f.rows[i], c, i, S)
    BY StoredRows
  <2>2. \A i \in 0..(N - 1) :
          Held(n, i) \in 1..B /\ \A o \in 1..Held(n, i) : i * B + o \in 1..n
    BY <1>1, HeldBounds
  <2> HIDE DEF f
  <2> QED  BY <2>1, <2>2 DEF IsBlock
<1>5. /\ rest \in Seq(S) /\ Len(rest) = l - fill
      /\ \A i \in 1..(l - fill) : rest[i] = d[fill + i]
  <2> HIDE DEF fill
  <2>1. fill \in Nat /\ l \in Nat /\ fill <= l
    BY <1>1, <1>3
  <2> QED  BY <2>1, PieceFrom
<1> HIDE DEF rest
<1>6. K \in Nat /\ (K - 1) * B < l - fill /\ l - fill <= K * B
  BY <1>3, CountBounds
<1>7. /\ new = [i \in N..(N + K - 1) |-> new[i]]
      /\ \A i \in N..(N + K - 1) :
            /\ new[i] \in Seq(S) /\ Len(new[i]) = Held(l - fill, i - N)
            /\ Held(l - fill, i - N) \in 1..B
            /\ \A o \in 1..Held(l - fill, i - N) :
                  new[i][o] = rest[(i - N) * B + o] /\ (i - N) * B + o \in 1..(l - fill)
  <2> HIDE DEF N, l, fill
  <2>1. Len(rest) = l - fill
    BY <1>5
  <2>2. /\ new = [i \in N..(N + BlockCount(Len(rest)) - 1) |-> new[i]]
        /\ \A i \in N..(N + BlockCount(Len(rest)) - 1) : IsBlock(new[i], rest, i - N, S)
    BY <1>1, <1>5, BlocksAre
  <2> HIDE DEF new, K
  <2>3. BlockCount(Len(rest)) = K
    BY <2>1 DEF K
  <2>4. K \in Nat /\ l - fill \in Nat /\ N \in Nat
    BY <1>1, <1>3, <1>6
  <2>5. ASSUME NEW i \in N..(N + K - 1)
        PROVE  /\ Held(l - fill, i - N) \in 1..B
               /\ \A o \in 1..Held(l - fill, i - N) : (i - N) * B + o \in 1..(l - fill)
    <3> DEFINE j == i - N  left == l - fill
    <3>1. j \in 0..(BlockCount(left) - 1)
      BY <2>4 DEF K
    <3>2. left \in Nat
      BY <2>4
    <3> HIDE DEF j, left
    <3>3. Held(left, j) \in 1..B /\ \A o \in 1..Held(left, j) : j * B + o \in 1..left
      BY <3>1, <3>2, HeldBounds
    <3> QED  BY <3>3 DEF j, left
  <2>6. ASSUME NEW i \in N..(N + K - 1)
        PROVE  /\ new[i] \in Seq(S) /\ Len(new[i]) = Held(l - fill, i - N)
               /\ \A o \in 1..Held(l - fill, i - N) : new[i][o] = rest[(i - N) * B + o]
    <3>1. IsBlock(new[i], rest, i - N, S)
      BY <2>2, <2>3
    <3> DEFINE left == l - fill  j == i - N
    <3>2. Len(rest) = left
      BY <2>1
    <3> HIDE DEF left, j
    <3> QED  BY <3>1, <3>2 DEF IsBlock, left, j
  <2>7. new = [i \in N..(N + K - 1) |-> new[i]]
    BY <2>2, <2>3
  <2> QED  BY <2>5, <2>6, <2>7
<1>8. Room(f) = r
  BY RoomIs
<1>9. fill > 0 => n > 0 /\ LastIndex(f) = N - 1 /\ N - 1 \in 0..(N - 1)
  <2>1. n = 0 => fill = 0
    <3> SUFFICES ASSUME n = 0 PROVE fill = 0
      OBVIOUS
    <3>1. N = 0
      BY CountIs, Successor, BlockAssumption
    <3>2. r = 0
      BY <3>1, Successor
    <3> QED  BY <3>2, <1>1
  <2> QED  BY <1>1, <1>3, <2>1, LastBlock
<1>10. DOMAIN f.rows = {} <=> N = 0
  BY <1>1, <1>4
<1>11. Extend(f, d, n + l) = [ok |-> TRUE, file |-> [size |-> n + l, rows |-> rows]]
  <2>1. Min({Room(f), Len(d)}) = fill
    BY <1>1, <1>8, MinOfTwo
  <2>2. (IF DOMAIN f.rows = {} THEN 0 ELSE LastIndex(f) + 1) = N
    <3>1. CASE n = 0
      BY <3>1, <1>10, CountIs, Successor, BlockAssumption
    <3>2. CASE n > 0
      <4>1. LastIndex(f) = N - 1 /\ DOMAIN f.rows # {}
        BY <3>2, LastBlock
      <4>2. (N - 1) + 1 = N
        BY <1>1
      <4> QED  BY <4>1, <4>2
    <3> QED  BY <3>1, <3>2, <1>1
  <2> DEFINE last == IF DOMAIN f.rows = {} THEN 0 ELSE LastIndex(f) + 1
             filledBy(b) == IF b = 0 THEN f.rows
                            ELSE [f.rows EXCEPT ![LastIndex(f)] = @ \o SubSeq(d, 1, b)]
  <2>3. Extend(f, d, n + l)
          = Done(n + l, Merge(filledBy(Min({Room(f), Len(d)})),
                              NewBlocks(last, SubSeq(d, Min({Room(f), Len(d)}) + 1, Len(d)))))
    BY DEF Extend
  <2>4. filledBy(fill) = filled
    <3>1. CASE fill = 0
      BY <3>1
    <3>2. CASE fill # 0
      <4>1. LastIndex(f) = N - 1
        BY <1>3, <1>9, <3>2
      <4> HIDE DEF f, fill, N
      <4> QED  BY <4>1, <3>2
    <3> QED  BY <3>1, <3>2
  <2> HIDE DEF filledBy, last, filled, fill
  <2>5. Extend(f, d, n + l) = Done(n + l, Merge(filled, NewBlocks(N, SubSeq(d, fill + 1, Len(d)))))
    BY <2>1, <2>2, <2>3, <2>4 DEF last
  <2> QED  BY <2>5 DEF Done, rest, filled, fill
<1>12. x = N * B /\ r = x - n /\ fill = (IF r <= l THEN r ELSE l) /\ B \in Nat \ {0}
  BY BlockAssumption
<1>13. rows = Merge(filled, new) /\ f = Stored(c) /\ e = c \o d /\ n = Len(c) /\ l = Len(d)
  OBVIOUS
<1>14. K = BlockCount(l - fill)
  OBVIOUS
<1>15. /\ DOMAIN filled = 0..(N - 1)
       /\ \A i \in 0..(N - 1) : fill = 0 \/ i # N - 1 => filled[i] = f.rows[i]
       /\ fill # 0 => filled[N - 1] = f.rows[N - 1] \o SubSeq(d, 1, fill)
  <2> DEFINE old == f.rows  more == SubSeq(d, 1, fill)  m == N - 1  is == fill = 0
  <2>1. DOMAIN old = 0..m /\ (~is => m \in 0..m)
    BY <1>3, <1>4, <1>9
  <2>2. filled = IF is THEN old ELSE [old EXCEPT ![m] = old[m] \o more]
    OBVIOUS
  <2> HIDE DEF old, more, m, filled, is
  <2>3. /\ DOMAIN filled = 0..m
        /\ \A i \in 0..m : is \/ i # m => filled[i] = old[i]
        /\ ~is => filled[m] = old[m] \o more
    BY <2>1, <2>2
  <2> QED  BY <2>3 DEF old, more, m, is
<1> HIDE DEF f, new, K, e, n, l, N, x, r, fill, filled, rows
(* The number of blocks *)
<1>16. N + K = BlockCount(n + l)
  <2>1. CASE l <= r
    <3>1. fill = l
      BY <1>1, <1>12, <2>1
    <3>2. K = 0
      <4>1. l - fill = 0
        BY <1>1, <3>1
      <4> QED  BY <4>1, <1>14, NoBlocks
    <3>3. (N - 1) * B < n + l /\ n + l <= N * B
      <4>1. n + l <= x /\ x - B < n + l
        BY <1>1, <1>12, <2>1
      <4> QED  BY <1>1, <1>12, <4>1
    <3>4. BlockCount(n + l) = N
      BY <1>1, <3>3, CountIs
    <3> QED  BY <1>1, <3>2, <3>4
  <2>2. CASE l > r
    <3>1. fill = r /\ r = x - n
      BY <1>1, <1>12, <2>2
    <3>2. (N + K - 1) * B = x + (K - 1) * B /\ (N + K) * B = x + K * B
      BY <1>1, <1>6, <1>12, Distributes
    <3>3. (K - 1) * B \in Int /\ K * B \in Int
      BY <1>6, Product
    <3>4. (N + K - 1) * B < n + l /\ n + l <= (N + K) * B
      BY <1>1, <1>6, <3>1, <3>2, <3>3
    <3> QED  BY <1>1, <1>6, <3>4, CountIs
  <2> QED  BY <1>1, <2>1, <2>2
<1>17. /\ rows = [i \in 0..(N + K - 1) |-> rows[i]]
       /\ \A i \in 0..(N - 1) : rows[i] = filled[i]
       /\ \A i \in N..(N + K - 1) : rows[i] = new[i]
  <2>1. DOMAIN new = N..(N + K - 1)
    BY <1>7
  <2>2. /\ (0..(N - 1)) \cup (N..(N + K - 1)) = 0..(N + K - 1)
        /\ (0..(N - 1)) \cap (N..(N + K - 1)) = {}
    BY <1>1, <1>6
  <2> QED  BY <1>13, <1>15, <2>1, <2>2 DEF Merge
(* What is in them *)
<1> DEFINE Right(b, i) == /\ b \in Seq(S) /\ Len(b) = Held(n + l, i)
                          /\ \A o \in 1..Held(n + l, i) : b[o] = e[i * B + o]
<1>18. ASSUME NEW i \in 0..(N - 1), fill = 0 \/ i # N - 1
       PROVE  Right(filled[i], i)
  <2>1. filled[i] = f.rows[i]
    BY <1>15, <1>18
  <2>2. Held(n, i) = Held(n + l, i)
    <3>1. CASE i # N - 1
      <4>1. i < N - 1 /\ i \in Int /\ N - 1 \in Int
        BY <1>1, <3>1
      <4>2. i * B \in Int /\ i * B + B <= (N - 1) * B
        BY <4>1, Larger, Product
      <4>3. i * B + B <= n /\ i * B + B <= n + l
        BY <1>1, <4>2, BlockAssumption
      <4> QED  BY <4>3 DEF Held
    <3>2. CASE i = N - 1
      <4>1. i * B = x - B /\ i * B + B = x
        BY <1>1, <1>12, <3>2, BlockAssumption
      <4>2. l = 0 \/ x = n
        BY <1>1, <1>12, <1>18, <3>2
      <4> QED  BY <1>1, <4>1, <4>2 DEF Held
    <3> QED  BY <3>1, <3>2
  <2>3. /\ f.rows[i] \in Seq(S) /\ Len(f.rows[i]) = Held(n, i)
        /\ \A o \in 1..Held(n, i) : f.rows[i][o] = c[i * B + o] /\ i * B + o \in 1..n
    BY <1>4
  <2>4. \A o \in 1..Held(n, i) : f.rows[i][o] = e[i * B + o]
    <3> TAKE o \in 1..Held(n, i)
    <3> DEFINE p == i * B + o
    <3>1. f.rows[i][o] = c[p] /\ p \in 1..n
      BY <2>3
    <3> HIDE DEF p
    <3>2. p \in 1..(n + l) /\ p <= n
      BY <1>1, <3>1
    <3>3. e[p] = c[p]
      BY <1>2, <3>2
    <3> QED  BY <3>1, <3>3 DEF p
  <2> QED  BY <2>1, <2>2, <2>3, <2>4
<1>19. ASSUME fill # 0
       PROVE  Right(filled[N - 1], N - 1)
  <2> DEFINE old == f.rows[N - 1]  more == SubSeq(d, 1, fill)  h == Held(n, N - 1)
  <2>1. N - 1 \in 0..(N - 1) /\ n > 0
    BY <1>3, <1>9, <1>19
  <2>2. filled[N - 1] = old \o more
    BY <1>15, <1>19
  <2>3. h = n - (x - B)
    BY <2>1, <1>12, LastBlock DEF n, N
  <2>4. old \in Seq(S) /\ Len(old) = h /\ h \in 1..B
        /\ \A o \in 1..h : old[o] = c[(N - 1) * B + o] /\ (N - 1) * B + o \in 1..n
    BY <1>4, <2>1
  <2>5. more \in Seq(S) /\ Len(more) = fill /\ \A i \in 1..fill : more[i] = d[i]
    <3>1. /\ more \in Seq(S) /\ Len(more) = fill - 1 + 1
          /\ \A i \in 1..(fill - 1 + 1) : more[i] = d[1 + i - 1]
      BY <1>1, <1>3, Piece DEF l
    <3>2. fill - 1 + 1 = fill /\ \A i \in Int : 1 + i - 1 = i
      BY <1>3
    <3> QED  BY <3>1, <3>2
  <2> HIDE DEF old, more, h
  <2>6. /\ old \o more \in Seq(S) /\ Len(old \o more) = h + fill
        /\ \A i \in 1..(h + fill) : (old \o more)[i] = IF i <= h THEN old[i] ELSE more[i - h]
    <3>1. old \in Seq(S) /\ more \in Seq(S) /\ Len(old) = h /\ Len(more) = fill
      BY <2>4, <2>5
    <3>2. old \o more \in Seq(S) /\ JoinedAs(old, more, Len(old), Len(more))
      BY <3>1, Joined
    <3> QED  BY <3>1, <3>2 DEF JoinedAs
  <2>7. h + fill = Held(n + l, N - 1)
    BY <1>1, <1>3, <1>12, <2>3 DEF Held
  <2>8. ASSUME NEW o \in 1..(h + fill)
        PROVE  (old \o more)[o] = e[(N - 1) * B + o]
    <3>1. (old \o more)[o] = IF o <= h THEN old[o] ELSE more[o - h]
      BY <2>6
    <3>2. CASE o <= h
      <4>1. o \in 1..h
        BY <2>4, <3>2
      <4>2. old[o] = c[(N - 1) * B + o] /\ (N - 1) * B + o \in 1..n
        BY <2>4, <4>1
      <4> QED  BY <1>1, <1>2, <3>1, <3>2, <4>2
    <3>3. CASE o > h
      <4>1. o - h \in 1..fill /\ o - h = ((N - 1) * B + o) - n
        BY <1>1, <1>3, <2>3, <2>4, <3>3, BlockAssumption
      <4>2. (N - 1) * B + o \in 1..(n + l) /\ ~((N - 1) * B + o <= n)
        BY <1>1, <1>3, <2>3, <2>4, <3>3, <4>1, BlockAssumption
      <4>3. more[o - h] = d[o - h]
        BY <2>5, <4>1
      <4>4. e[(N - 1) * B + o] = d[((N - 1) * B + o) - n]
        BY <1>2, <4>2
      <4> QED  BY <2>4, <3>1, <3>3, <4>1, <4>3, <4>4
    <3>4. o <= h \/ o > h
      BY <1>3, <2>4
    <3> QED  BY <3>2, <3>3, <3>4
  <2> QED  BY <2>2, <2>6, <2>7, <2>8
<1>20. ASSUME NEW i \in N..(N + K - 1)
       PROVE  Right(new[i], i)
  <2>1. i - N \in Int /\ i \in Int /\ i * B = (i - N) * B + x /\ (i - N) * B \in Int
    BY <1>1, <1>12, Product, Distributes
  <2>2. K >= 1
    BY <1>1, <1>6
  <2>3. l > r /\ fill = r
    <3>1. l - fill > 0
      BY <1>3, <1>6, <1>14, <2>2, NoBlocks
    <3> QED  BY <1>1, <1>3, <1>12, <3>1
  <2>4. r = x - n
    BY <1>12
  <2>5. Held(l - fill, i - N) = Held(n + l, i)
    BY <1>1, <2>1, <2>3, <2>4, BlockAssumption DEF Held
  <2>6. /\ new[i] \in Seq(S) /\ Len(new[i]) = Held(l - fill, i - N)
        /\ Held(l - fill, i - N) \in 1..B
        /\ \A o \in 1..Held(l - fill, i - N) :
              new[i][o] = rest[(i - N) * B + o] /\ (i - N) * B + o \in 1..(l - fill)
    BY <1>7
  <2>7. ASSUME NEW o \in 1..Held(l - fill, i - N)
        PROVE  new[i][o] = e[i * B + o]
    <3> DEFINE p == (i - N) * B + o
    <3>1. new[i][o] = rest[p] /\ p \in 1..(l - fill) /\ o \in Int
      BY <2>6
    <3> HIDE DEF p
    <3>2. rest[p] = d[fill + p]
      BY <1>5, <3>1
    <3>3. i * B + o = p + x
      BY <1>1, <2>1, <3>1 DEF p
    <3>4. (i * B + o) - n = fill + p /\ i * B + o \in 1..(n + l) /\ ~(i * B + o <= n)
      BY <1>1, <1>3, <2>3, <2>4, <3>1, <3>3
    <3>5. e[i * B + o] = d[fill + p]
      BY <1>2, <3>4
    <3> QED  BY <3>1, <3>2, <3>5
  <2> QED  BY <2>5, <2>6, <2>7
<1>21. ASSUME NEW i \in 0..(N + K - 1)
       PROVE  Right(rows[i], i)
  <2> HIDE DEF Right
  <2>1. CASE i \in N..(N + K - 1)
    BY <1>17, <1>20, <2>1
  <2>2. CASE i \in 0..(N - 1)
    <3>1. CASE fill = 0 \/ i # N - 1
      BY <1>17, <1>18, <2>2, <3>1
    <3>2. CASE fill # 0 /\ i = N - 1
      BY <1>17, <1>19, <2>2, <3>2
    <3> QED  BY <3>1, <3>2
  <2> QED  BY <1>1, <1>6, <2>1, <2>2
<1>22. [size |-> n + l, rows |-> rows] = Stored(e)
  <2> DEFINE M == BlockCount(Len(e))
  <2>1. M = N + K /\ N \in Nat /\ K \in Nat /\ M \in Nat
    BY <1>1, <1>2, <1>6, <1>16
  <2>2. n + l = Len(e) /\ n \in Nat /\ l \in Nat
    BY <1>1, <1>2
  <2> HIDE DEF M
  <2>3. rows = [i \in 0..(M - 1) |-> rows[i]]
    BY <2>1, <1>17
  <2>4. \A i \in 0..(M - 1) : IsBlock(rows[i], e, i, S)
    <3> TAKE i \in 0..(M - 1)
    <3>1. i \in 0..(N + K - 1)
      BY <2>1
    <3>2. Right(rows[i], i)
      <4> HIDE DEF Right
      <4> QED  BY <3>1, <1>21
    <3>3. Held(n + l, i) = Held(Len(e), i)
      BY <2>2
    <3> QED  BY <3>2, <3>3 DEF IsBlock
  <2>5. [size |-> Len(e), rows |-> rows] = Stored(e)
    <3>1. e \in Seq(S)
      BY <1>2
    <3> QED  BY <2>3, <2>4, <3>1, StoredIs DEF M
  <2> QED  BY <2>2, <2>5
<1> QED  BY <1>11, <1>13, <1>22

-----------------------------------------------------------------------------
(* The blocks a request finds                                              *)

Less == {ss \in Nat \X Nat : ss[1] < ss[2]}

(* The least element of a set of natural numbers: how a claim about all    *)
(* of them is proved from its least counterexample.                        *)
LEMMA Least ==
  ASSUME NEW T \in SUBSET Nat, T # {}
  PROVE  \E m \in T : \A k \in T : m <= k
<1>1. OpToRel(<, Nat) = Less
  BY DEF OpToRel, Less
<1>2. IsWellFoundedOn(Less, Nat)
  BY <1>1, NatLessThanWellFounded
<1>3. PICK x \in T : \A y \in T : ~(<<y, x>> \in Less)
  BY <1>2, WFMin
<1>4. \A a, b \in Nat : <<a, b>> \in Less <=> a < b
  BY DEF Less
<1>5. \A y \in T : x \in Nat /\ y \in Nat /\ ~(y < x)
  BY <1>3, <1>4
<1>6. \A y \in T : x <= y
  BY <1>5
<1> QED  BY <1>6

(* m numbers from k on *)
Line(k, m) == [j \in 1..m |-> k + j - 1]

(* An ascending list of neighbouring numbers has no choice. *)
LEMMA AscendingIs ==
  ASSUME NEW k \in Nat, NEW m \in Nat
  PROVE  Ascending(k..(k + m - 1)) = Line(k, m)
<1> DEFINE D == k..(k + m - 1)  line == [j \in 1..m |-> k + j - 1]
           Up(s) == \A j \in 2..m : s[j - 1] < s[j]
<1>1. Cardinality(D) = m
  <2>1. Cardinality(D) = IF k > k + m - 1 THEN 0 ELSE (k + m - 1) - k + 1
    BY FS_Interval
  <2> QED  BY <2>1
<1>2. line \in [1..m -> D] /\ Up(line)
  <2>1. \A j \in 1..m : k + j - 1 \in D
    OBVIOUS
  <2>2. \A j \in 2..m : j - 1 \in 1..m /\ j \in 1..m /\ k + (j - 1) - 1 < k + j - 1
    OBVIOUS
  <2>3. \A j \in 2..m : line[j - 1] = k + (j - 1) - 1 /\ line[j] = k + j - 1
    BY <2>2
  <2>4. Up(line)
    BY <2>2, <2>3
  <2> QED  BY <2>1, <2>4
<1>3. ASSUME NEW s \in [1..m -> D], Up(s)
      PROVE  s = line
  <2>0. \A j \in 1..m : s[j] \in k..(k + m - 1)
    OBVIOUS
  <2>1. ASSUME NEW j \in 1..m
        PROVE  s[j] >= k + j - 1
    <3> DEFINE T == {i \in 1..m : s[i] < k + i - 1}
    <3>1. T = {}
      <4> SUFFICES ASSUME T # {} PROVE FALSE
        OBVIOUS
      <4>1. T \in SUBSET Nat
        OBVIOUS
      <4>2. PICK i \in T : \A h \in T : i <= h
        BY <4>1, Least
      <4>3. i \in 1..m /\ s[i] < k + i - 1 /\ s[i] \in k..(k + m - 1)
        BY <4>2, <2>0
      <4>4. i # 1
        BY <4>3
      <4>5. i \in 2..m /\ i - 1 \in 1..m
        BY <4>3, <4>4
      <4>6. i - 1 \notin T
        <5> HIDE DEF T
        <5>1. ~(i <= i - 1)
          BY <4>3
        <5> QED  BY <4>2, <5>1
      <4>7. s[i - 1] >= k + (i - 1) - 1 /\ s[i - 1] < s[i] /\ s[i - 1] \in k..(k + m - 1)
        BY <1>3, <2>0, <4>5, <4>6
      <4> QED  BY <4>3, <4>7
    <3>2. ~(s[j] < k + j - 1)
      BY <3>1
    <3> QED  BY <3>2, <2>0
  <2>2. ASSUME NEW j \in 1..m
        PROVE  s[j] <= k + j - 1
    <3> DEFINE T == {i \in 0..(m - 1) : s[m - i] > k + (m - i) - 1}
    <3>1. T = {}
      <4> SUFFICES ASSUME T # {} PROVE FALSE
        OBVIOUS
      <4>1. T \in SUBSET Nat
        OBVIOUS
      <4>2. PICK i \in T : \A h \in T : i <= h
        BY <4>1, Least
      <4>3. i \in 0..(m - 1) /\ s[m - i] > k + (m - i) - 1 /\ m - i \in 1..m
        BY <4>2
      <4>4. s[m - i] \in k..(k + m - 1)
        BY <2>0, <4>3
      <4>5. i # 0
        BY <4>3, <4>4
      <4>6. i - 1 \in 0..(m - 1) /\ m - (i - 1) \in 2..m /\ m - (i - 1) - 1 = m - i /\ m - (i - 1) \in 1..m
        BY <4>3, <4>5
      <4>7. i - 1 \notin T
        <5> HIDE DEF T
        <5>1. ~(i <= i - 1)
          BY <4>3
        <5> QED  BY <4>2, <5>1
      <4>8. s[m - (i - 1)] \in k..(k + m - 1) /\ s[m - i] < s[m - (i - 1)]
        BY <1>3, <2>0, <4>6
      <4>9. ~(s[m - (i - 1)] > k + (m - (i - 1)) - 1)
        BY <4>6, <4>7
      <4> QED  BY <4>3, <4>4, <4>8, <4>9
    <3>2. m - j \in 0..(m - 1) /\ m - (m - j) = j
      OBVIOUS
    <3>3. ~(s[j] > k + j - 1)
      BY <3>1, <3>2
    <3> QED  BY <3>3, <2>0
  <2>3. \A j \in 1..m : s[j] = line[j]
    <3> TAKE j \in 1..m
    <3> DEFINE place == k + j - 1
    <3>1. s[j] >= place /\ s[j] <= place
      BY <2>1, <2>2
    <3>2. s[j] \in Int /\ place \in Int
      BY <2>0
    <3>3. line[j] = place
      OBVIOUS
    <3> HIDE DEF place, line
    <3> QED  BY <3>1, <3>2, <3>3
  <2> QED  BY <2>3
<1> HIDE DEF D, line, Up
<1>4. (CHOOSE s \in [1..m -> D] : Up(s)) = line
  BY <1>2, <1>3
<1>5. Ascending(D) = CHOOSE s \in [1..m -> D] : Up(s)
  BY <1>1 DEF Ascending, Up
<1> QED  BY <1>4, <1>5 DEF D, line, Line

(* The blocks k, k + 1, ... of the file, as many as there are, up to limit *)
LEMMA HitsAre ==
  ASSUME NEW S, NEW c \in Seq(S), NEW k \in Nat, NEW limit \in Nat
  PROVE  /\ k >= BlockCount(Len(c)) => Hits(Stored(c), k, limit) = <<>>
         /\ k + limit <= BlockCount(Len(c))
               => Hits(Stored(c), k, limit) = Line(k, limit)
         /\ BlockCount(Len(c)) - k \in 0..limit
               => Hits(Stored(c), k, limit) = Line(k, BlockCount(Len(c)) - k)
<1> DEFINE f == Stored(c)  N == BlockCount(Len(c))
           m == IF N <= k THEN 0 ELSE N - k
           few == IF limit <= m THEN limit ELSE m
           D == {i \in DOMAIN f.rows : i >= k}
           line == [j \in 1..m |-> k + j - 1]
<1>1. N \in Nat /\ DOMAIN f.rows = 0..(N - 1)
  BY StoredRows, CountBounds
<1> HIDE DEF f, N
<1>2. m \in Nat /\ few \in Nat /\ few <= m /\ k + m - 1 \in Int
  BY <1>1
<1>3. D = k..(k + m - 1)
  <2> SUFFICES ASSUME NEW i PROVE i \in D <=> i \in k..(k + m - 1)
    OBVIOUS
  <2>1. i \in D <=> i \in 0..(N - 1) /\ i >= k
    BY <1>1
  <2>2. CASE N <= k
    BY <1>1, <2>1, <2>2
  <2>3. CASE N > k
    <3>1. k + m - 1 = N - 1
      BY <1>1, <2>3
    <3> HIDE DEF m
    <3> QED  BY <1>1, <2>1, <3>1
  <2> QED  BY <1>1, <2>2, <2>3
<1> HIDE DEF m, D
<1>4. Ascending(D) = line /\ line \in Seq(Nat) /\ Len(line) = m
  <2>1. \A j \in 1..m : k + j - 1 \in Nat
    OBVIOUS
  <2>2. line \in Seq(Nat) /\ Len(line) = m
    BY <1>2, <2>1
  <2> QED  BY <1>2, <1>3, <2>2, AscendingIs DEF Line
<1> HIDE DEF line
<1>5. Hits(f, k, limit) = SubSeq(line, 1, few)
  <2>1. Min({limit, m}) = few
    BY <1>2, MinOfTwo
  <2>2. Hits(f, k, limit) = SubSeq(Ascending(D), 1, Min({limit, Len(Ascending(D))}))
    BY DEF Hits, D
  <2> HIDE DEF few
  <2> QED  BY <1>4, <2>1, <2>2
<1>6. SubSeq(line, 1, few) = Line(k, few)
  <2>1. SubSeq(line, 1, few) = [j \in 1..few |-> line[j]]
    <3> HIDE DEF few
    <3> QED  BY <1>2, <1>4, SubSeqRestrict DEF Restrict
  <2>2. \A j \in 1..few : line[j] = k + j - 1
    BY <1>2 DEF line
  <2> HIDE DEF few
  <2> QED  BY <2>1, <2>2 DEF Line
<1>7. k >= N => few = 0
  BY <1>1 DEF m
<1>8. k + limit <= N => few = limit
  BY <1>1 DEF m
<1>9. N - k \in 0..limit => few = N - k
  BY <1>1 DEF m
<1> HIDE DEF few
<1>10. Line(k, 0) = <<>>
  BY DEF Line
<1> QED  BY <1>5, <1>6, <1>7, <1>8, <1>9, <1>10 DEF f, N

-----------------------------------------------------------------------------
(* Overwriting                                                             *)

(* INSERT() replaces a piece of a row by as many bytes.                    *)
LEMMA InsertIs ==
  ASSUME NEW S, NEW row \in Seq(S), NEW mid \in Seq(S), NEW pos \in Nat,
         Len(mid) > 0, pos + Len(mid) <= Len(row)
  PROVE  /\ SqlInsert(row, pos, mid) \in Seq(S)
         /\ Len(SqlInsert(row, pos, mid)) = Len(row)
         /\ \A o \in 1..Len(row) :
               SqlInsert(row, pos, mid)[o]
                 = IF pos < o /\ o <= pos + Len(mid) THEN mid[o - pos] ELSE row[o]
<1> DEFINE w == Len(mid)  from == pos + w
           left == SubSeq(row, 1, pos)  right == SubSeq(row, from + 1, Len(row))
           both == left \o mid  new == both \o right
<1>1. Len(row) \in Nat /\ w \in Nat /\ from \in Nat /\ from <= Len(row) /\ w > 0
  BY LenProperties
<1>2. left \in Seq(S) /\ Len(left) = pos /\ \A i \in 1..pos : left[i] = row[i]
  <2>1. /\ left \in Seq(S) /\ Len(left) = pos - 1 + 1
        /\ \A i \in 1..(pos - 1 + 1) : left[i] = row[1 + i - 1]
    BY <1>1, Piece
  <2>2. pos - 1 + 1 = pos /\ \A i \in Int : 1 + i - 1 = i
    OBVIOUS
  <2> HIDE DEF left
  <2> QED  BY <2>1, <2>2
<1> HIDE DEF from
<1>3. right \in Seq(S) /\ Len(right) = Len(row) - from
      /\ \A i \in 1..(Len(row) - from) : right[i] = row[from + i]
  BY <1>1, PieceFrom
<1>4. SqlInsert(row, pos, mid) = new
  <2>1. ~(pos >= Len(row)) /\ pos + Len(mid) + 1 = from + 1
    BY <1>1 DEF from
  <2> QED  BY <2>1 DEF SqlInsert
<1> HIDE DEF left, right, both, w
<1>5. both \in Seq(S) /\ JoinedAs(left, mid, pos, w)
  BY <1>2, Joined DEF both, w
<1>6. Len(both) = from /\ \A i \in 1..from : both[i] = IF i <= pos THEN left[i] ELSE mid[i - pos]
  BY <1>5 DEF JoinedAs, both, from
<1>7. new \in Seq(S) /\ JoinedAs(both, right, from, Len(row) - from)
  BY <1>3, <1>5, <1>6, Joined
<1>8. from + (Len(row) - from) = Len(row)
  BY <1>1
<1>9. /\ Len(new) = Len(row)
      /\ \A o \in 1..Len(row) : new[o] = IF o <= from THEN both[o] ELSE right[o - from]
  BY <1>7, <1>8 DEF JoinedAs
<1> HIDE DEF new
<1>10. ASSUME NEW o \in 1..Len(row)
       PROVE  new[o] = IF pos < o /\ o <= pos + w THEN mid[o - pos] ELSE row[o]
  <2>1. new[o] = IF o <= from THEN both[o] ELSE right[o - from]
    BY <1>9
  <2>2. CASE o <= pos
    <3>1. o \in 1..pos /\ o \in 1..from /\ o <= from
      BY <1>1, <2>2 DEF from
    <3>2. new[o] = left[o]
      BY <1>6, <2>1, <2>2, <3>1
    <3> QED  BY <1>2, <2>2, <3>1, <3>2
  <2>3. CASE pos < o /\ o <= from
    <3>1. o \in 1..from /\ ~(o <= pos)
      BY <1>1, <2>3
    <3>2. new[o] = mid[o - pos]
      BY <1>6, <2>1, <2>3, <3>1
    <3> QED  BY <2>3, <3>2 DEF from
  <2>4. CASE ~(o <= from)
    <3>1. o - from \in 1..(Len(row) - from) /\ from + (o - from) = o
      BY <1>1, <2>4
    <3>2. new[o] = row[o]
      BY <1>3, <2>1, <2>4, <3>1
    <3> QED  BY <2>4, <3>2 DEF from
  <2> QED  BY <1>1, <2>2, <2>3, <2>4
<1> QED  BY <1>4, <1>7, <1>9, <1>10 DEF w

(* The bytes of c with those of d from offset at on *)
Over(c, at, d) ==
  [p \in 1..Len(c) |-> IF at < p /\ p <= at + Len(d) THEN d[p - at] ELSE c[p]]

LEMMA OverIs ==
  ASSUME NEW S, NEW c \in Seq(S), NEW d \in Seq(S), NEW at \in Nat, at + Len(d) <= Len(c)
  PROVE  Over(c, at, d) \in Seq(S) /\ Len(Over(c, at, d)) = Len(c)
<1>1. Len(c) \in Nat /\ Len(d) \in Nat
  BY LenProperties
<1>2. ASSUME NEW p \in 1..Len(c)
      PROVE  (IF at < p /\ p <= at + Len(d) THEN d[p - at] ELSE c[p]) \in S
  <2>1. c[p] \in S
    BY ElementOfSeq
  <2>2. ASSUME at < p, p <= at + Len(d)
        PROVE  d[p - at] \in S
    <3>1. p - at \in 1..Len(d)
      BY <1>1, <2>2
    <3> QED  BY <3>1, ElementOfSeq
  <2> QED  BY <2>1, <2>2
<1> QED  BY <1>1, <1>2 DEF Over

(* No bytes, no blocks *)
LEMMA NoNewBlocks ==
  ASSUME NEW k \in Nat
  PROVE  DOMAIN NewBlocks(k, <<>>) = {}
<1>1. BlockCount(Len(<<>>)) = 0
  BY NoBlocks
<1>2. k..(k + 0 - 1) = {}
  OBVIOUS
<1> QED  BY <1>1, <1>2 DEF NewBlocks

(* A write into bytes that exist, in as many blocks as its length alone    *)
(* asks for, changes those bytes and nothing else.                         *)
LEMMA WriteInPlace ==
  ASSUME NEW S, NEW c \in Seq(S), NEW d \in Seq(S), NEW at \in Nat,
         at + Len(d) <= Len(c),
         BlockCount(BlockOffset(at) + Len(d)) <= BlockCount(Len(d))
  PROVE  DbWrite(Stored(c), d, at) = [ok |-> TRUE, file |-> Stored(Over(c, at, d))]
<1> DEFINE f == Stored(c)  e == Over(c, at, d)
           n == Len(c)  l == Len(d)  N == BlockCount(n)  T == BlockCount(l)
           k == BlockIndex(at)  po == BlockOffset(at)
           hits == Hits(f, k, T)
           Start(j) == IF j = 1 THEN 0 ELSE (j - 1) * B - po
           Chunk(j) == SubSeq(d, Start(j) + 1, Min({Start(j + 1), Len(d)}))
           overwritten ==
             [i \in DOMAIN f.rows |->
                IF \E j \in 1..Len(hits) : hits[j] = i
                THEN LET j == CHOOSE j \in 1..Len(hits) : hits[j] = i
                     IN  SqlInsert(f.rows[i], IF j = 1 THEN po ELSE 0, Chunk(j))
                ELSE f.rows[i]]
           written == IF Len(hits) = 0 THEN 0 ELSE Min({Start(Len(hits) + 1), Len(d)})
           rest == SubSeq(d, written + 1, Len(d))
           new == NewBlocks(IF Len(hits) = 0 THEN k ELSE hits[Len(hits)] + 1, rest)
<1>1. DbWrite(f, d, at) = IF Conflict(f, new) THEN Failed(f)
                          ELSE Done(f.size + Len(rest), Merge(overwritten, new))
  BY DEF DbWrite
<1>2. k \in Nat /\ po \in 0..(B - 1) /\ at = k * B + po /\ k * B \in Nat /\ B \in Nat \ {0}
  <2>1. at \div B \in Nat /\ at % B \in 0..(B - 1) /\ at = (at \div B) * B + (at % B)
    BY Division
  <2>2. k = at \div B /\ po = at % B
    BY DEF BlockIndex, BlockOffset
  <2> HIDE DEF k, po
  <2> QED  BY <2>1, <2>2, Product, BlockAssumption
<1>3. n \in Nat /\ N \in Nat /\ (N - 1) * B < n /\ n <= N * B /\ N * B \in Nat
  <2>1. n \in Nat /\ N \in Nat /\ (N - 1) * B < n /\ n <= N * B
    BY LenProperties, CountBounds
  <2> HIDE DEF N, n
  <2> QED  BY <2>1, Product
<1>4. l \in Nat /\ T \in Nat /\ (T - 1) * B < l /\ l <= T * B /\ T * B \in Nat /\ (T - 1) * B \in Int
  <2>1. l \in Nat /\ T \in Nat /\ (T - 1) * B < l /\ l <= T * B
    BY LenProperties, CountBounds
  <2> HIDE DEF T, l
  <2>2. T - 1 \in Int
    BY <2>1
  <2> QED  BY <2>1, <2>2, Product
<1>5. /\ f.size = n /\ DOMAIN f.rows = 0..(N - 1)
      /\ \A i \in 0..(N - 1) :
            /\ f.rows[i] \in Seq(S) /\ Len(f.rows[i]) = Held(n, i) /\ Held(n, i) \in 1..B
            /\ \A o \in 1..Held(n, i) : f.rows[i][o] = c[i * B + o] /\ i * B + o \in 1..n
  <2>1. /\ f.size = n /\ DOMAIN f.rows = 0..(N - 1)
        /\ \A i \in 0..(N - 1) : IsBlock(f.rows[i], c, i, S)
    BY StoredRows
  <2>2. \A i \in 0..(N - 1) :
          Held(n, i) \in 1..B /\ \A o \in 1..Held(n, i) : i * B + o \in 1..n
    BY <1>3, HeldBounds
  <2> HIDE DEF f
  <2> QED  BY <2>1, <2>2 DEF IsBlock
<1>6. at + l <= n /\ BlockCount(po + l) <= T
  OBVIOUS
<1>7. e \in Seq(S) /\ Len(e) = n
      /\ \A p \in 1..n : e[p] = IF at < p /\ p <= at + l THEN d[p - at] ELSE c[p]
  BY OverIs DEF Over
<1>9. k + T <= N => hits = Line(k, T)
  BY <1>2, <1>4, HitsAre
<1> HIDE DEF f, e, n, l, N, T, k, po, hits
<1>10. po + l <= T * B
  <2> DEFINE U == BlockCount(po + l)
  <2>0. po + l \in Nat
    BY <1>2, <1>4
  <2>1. U \in Nat /\ po + l <= U * B
    BY <2>0, CountBounds
  <2>2. U <= T
    BY <1>6
  <2> HIDE DEF U
  <2>3. U = T \/ U * B + B <= T * B
    BY <1>4, <2>1, <2>2, Larger
  <2>4. po + l \in Int /\ U * B \in Nat
    BY <1>2, <1>4, <2>1, Product
  <2> QED  BY <1>2, <1>4, <2>1, <2>3, <2>4
<1>11. k + T <= N
  <2>1. (k + T - 1) * B = k * B + (T - 1) * B
    BY <1>2, <1>4, Distributes
  <2>2. (k + T - 1) * B < N * B
    BY <1>2, <1>3, <1>4, <1>6, <2>1
  <2>3. k + T - 1 < N
    BY <1>2, <1>3, <1>4, <2>2, Ordered
  <2> QED  BY <1>2, <1>3, <1>4, <2>3
<1>12. hits = [j \in 1..T |-> k + j - 1] /\ Len(hits) = T
  <2>1. hits = [j \in 1..T |-> k + j - 1]
    BY <1>9, <1>11 DEF Line
  <2>2. \A j \in 1..T : k + j - 1 \in Nat
    BY <1>2
  <2>3. hits \in [1..T -> Nat]
    BY <2>1, <2>2
  <2> QED  BY <1>4, <2>1, <2>3
<1>13. written = l
  <2>1. CASE T = 0
    <3>1. l = 0
      BY <1>4, <2>1, Successor
    <3> QED  BY <1>12, <2>1, <3>1
  <2>2. CASE T # 0
    <3>1. T + 1 # 1 /\ (T + 1) - 1 = T
      BY <1>4, <2>2
    <3>2. Start(T + 1) = T * B - po
      BY <3>1
    <3>3. T * B - po \in Int /\ l <= T * B - po
      BY <1>2, <1>4, <1>10
    <3>4. Min({Start(T + 1), l}) = l
      BY <1>4, <3>2, <3>3, MinOfTwo
    <3> HIDE DEF Start
    <3> QED  BY <1>12, <2>2, <3>4 DEF l
  <2> QED  BY <2>1, <2>2
<1> HIDE DEF written, overwritten
<1>14. rest = <<>>
  <2>1. l < l + 1
    BY <1>4
  <2>2. SubSeq(d, l + 1, l) = <<>>
    BY <1>4, <2>1, NoPiece
  <2> QED  BY <1>13, <2>2 DEF l
<1>15. DOMAIN new = {}
  <2>1. (IF Len(hits) = 0 THEN k ELSE hits[Len(hits)] + 1) \in Nat
    <3>1. CASE T = 0
      BY <1>2, <1>12, <3>1
    <3>2. CASE T # 0
      <4>1. T \in 1..T
        BY <1>4, <3>2
      <4>2. hits[T] = k + T - 1
        BY <1>12, <4>1
      <4> QED  BY <1>2, <1>4, <1>12, <3>2, <4>2
    <3> QED  BY <3>1, <3>2
  <2> HIDE DEF rest
  <2> QED  BY <1>14, <2>1, NoNewBlocks
<1> HIDE DEF rest, new
<1>16. DOMAIN overwritten = 0..(N - 1) /\ overwritten = [i \in 0..(N - 1) |-> overwritten[i]]
  BY <1>5 DEF overwritten
<1>17. DbWrite(f, d, at) = [ok |-> TRUE, file |-> [size |-> n, rows |-> overwritten]]
  <2>1. ~Conflict(f, new)
    BY <1>15 DEF Conflict
  <2>2. Merge(overwritten, new) = overwritten
    <3>1. DOMAIN overwritten \cup DOMAIN new = 0..(N - 1)
      BY <1>15, <1>16
    <3>2. Merge(overwritten, new) = [i \in 0..(N - 1) |-> overwritten[i]]
      BY <1>15, <3>1 DEF Merge
    <3> QED  BY <1>16, <3>2
  <2>3. f.size + Len(rest) = n
    BY <1>3, <1>5, <1>14
  <2> QED  BY <1>1, <2>1, <2>2, <2>3 DEF Done
<1> DEFINE Right(b, i) == /\ b \in Seq(S) /\ Len(b) = Held(n, i)
                          /\ \A o \in 1..Held(n, i) : b[o] = e[i * B + o]
<1>18. ASSUME NEW i \in 0..(N - 1), i \notin k..(k + T - 1)
       PROVE  Right(overwritten[i], i)
  <2>1. overwritten[i] = f.rows[i]
    <3>1. ~\E j \in 1..T : hits[j] = i
      BY <1>2, <1>4, <1>12, <1>18
    <3> QED  BY <1>5, <1>12, <3>1 DEF overwritten
  <2>2. i * B \in Int /\ i * B + B = (i + 1) * B
    BY <1>2, Product, Successor
  <2>3. i * B + B <= at \/ at + l <= i * B
    <3>1. CASE i < k
      <4>1. i * B + B <= k * B
        BY <1>2, <3>1, Larger
      <4> QED  BY <1>2, <2>2, <4>1
    <3>2. CASE i >= k
      <4>1. i >= k + T /\ k + T \in Int
        BY <1>2, <1>3, <1>4, <1>18, <3>2
      <4>2. (k + T) * B = k * B + T * B
        BY <1>2, <1>4, Distributes
      <4>3. i = k + T \/ (k + T) * B + B <= i * B
        BY <4>1, Larger
      <4>4. k * B + T * B <= i * B
        BY <1>2, <1>4, <2>2, <4>2, <4>3
      <4> QED  BY <1>2, <1>4, <1>10, <2>2, <4>4
    <3> QED  BY <1>2, <3>1, <3>2
  <2>4. /\ f.rows[i] \in Seq(S) /\ Len(f.rows[i]) = Held(n, i) /\ Held(n, i) \in 1..B
        /\ \A o \in 1..Held(n, i) : f.rows[i][o] = c[i * B + o] /\ i * B + o \in 1..n
    BY <1>5
  <2>5. ASSUME NEW o \in 1..Held(n, i)
        PROVE  f.rows[i][o] = e[i * B + o]
    <3> DEFINE p == i * B + o
    <3>1. f.rows[i][o] = c[p] /\ p \in 1..n
      BY <2>4
    <3>2. ~(at < p /\ p <= at + l)
      BY <1>2, <1>4, <2>2, <2>3, <2>4
    <3> HIDE DEF p
    <3>3. e[p] = c[p]
      BY <1>7, <3>1, <3>2
    <3> QED  BY <3>1, <3>3 DEF p
  <2> QED  BY <2>1, <2>4, <2>5
<1>19. ASSUME NEW i \in 0..(N - 1), i \in k..(k + T - 1)
       PROVE  Right(overwritten[i], i)
  <2> DEFINE j == i - k + 1  pos == IF j = 1 THEN po ELSE 0
             s == Start(j)  u == Start(j + 1)
             t == IF u <= l THEN u ELSE l
  <2>1. j \in 1..T /\ j \in Int /\ hits[j] = i /\ \A h \in 1..T : hits[h] = i => h = j
    BY <1>2, <1>4, <1>12, <1>19
  <2>2. i * B = k * B + (j - 1) * B /\ (j - 1) * B \in Int /\ i * B \in Int /\ j * B = (j - 1) * B + B
    <3>1. i = k + (j - 1) /\ j - 1 \in Int
      BY <1>2, <1>19
    <3> HIDE DEF j
    <3>2. (k + (j - 1)) * B = k * B + (j - 1) * B
      BY <1>2, <3>1, Distributes
    <3>3. j * B = (j - 1) * B + B
      BY <1>2, <2>1, Successor, Product
    <3> QED  BY <1>2, <3>1, <3>2, <3>3, Product
  <2>3. u = j * B - po
    <3>1. j + 1 # 1 /\ (j + 1) - 1 = j
      BY <2>1
    <3> HIDE DEF j
    <3> QED  BY <3>1
  <2>4. overwritten[i] = SqlInsert(f.rows[i], pos, SubSeq(d, s + 1, t))
    <3>1. (CHOOSE h \in 1..T : hits[h] = i) = j
      BY <2>1
    <3>2. Min({u, l}) = t
      <4>1. u \in Int
        BY <1>2, <2>2, <2>3
      <4> HIDE DEF u
      <4> QED  BY <1>4, <4>1, MinOfTwo
    <3> HIDE DEF j, Start
    <3>3. overwritten[i] = LET h == CHOOSE h \in 1..T : hits[h] = i
                           IN  SqlInsert(f.rows[i], IF h = 1 THEN po ELSE 0, Chunk(h))
      BY <1>5, <1>12, <2>1 DEF overwritten
    <3>4. overwritten[i] = SqlInsert(f.rows[i], IF j = 1 THEN po ELSE 0, Chunk(j))
      BY <3>1, <3>3
    <3>5. Chunk(j) = SubSeq(d, s + 1, t)
      BY <3>2 DEF l
    <3> QED  BY <3>4, <3>5
  <2>5. /\ pos \in Nat /\ s \in Nat /\ s < l /\ s < u /\ u \in Int
        /\ i * B + pos = at + s /\ i * B + B = at + u
    <3>1. CASE j = 1
      <4>1. (j - 1) * B = 0 /\ s = 0 /\ pos = po
        BY <3>1, Successor
      <4>2. T >= 1
        BY <2>1, <3>1
      <4>3. 0 <= (T - 1) * B
        <5>1. T - 1 \in Nat
          BY <1>4, <4>2
        <5> QED  BY <5>1, Product
      <4>4. j \in Int
        BY <2>1
      <4> HIDE DEF j, pos, s, u, Start
      <4>5. u = B - po /\ u \in Int /\ i * B = k * B
        BY <1>2, <2>2, <2>3, <4>1, <4>4
      <4>6. 0 < l
        BY <1>4, <4>3
      <4> QED  BY <1>2, <1>4, <2>2, <4>1, <4>5, <4>6
    <3>2. CASE j # 1
      <4>1. s = (j - 1) * B - po /\ pos = 0
        BY <3>2
      <4>2. j - 1 = 1 \/ 1 < j - 1
        BY <2>1, <3>2
      <4>3. B <= (j - 1) * B
        <5>1. 1 * B = B
          BY <1>2
        <5>2. j - 1 \in Int
          BY <2>1
        <5> HIDE DEF j
        <5>3. 1 < j - 1 => 1 * B + B <= (j - 1) * B
          BY <5>2, Larger
        <5> QED  BY <1>2, <2>2, <4>2, <5>1, <5>3
      <4>4. j = T \/ j - 1 < T - 1
        BY <1>4, <2>1
      <4>5. (j - 1) * B <= (T - 1) * B
        <5>1. j - 1 \in Int /\ T - 1 \in Int
          BY <1>4, <2>1
        <5> HIDE DEF j
        <5>2. j - 1 < T - 1 => (j - 1) * B + B <= (T - 1) * B
          BY <5>1, Larger
        <5> QED  BY <1>2, <1>4, <2>2, <4>4, <5>2
      <4>6. j \in Int
        BY <2>1
      <4> DEFINE y == (j - 1) * B
      <4> HIDE DEF j, pos, s, u, Start
      <4>7. u = y + B - po /\ s = y - po /\ i * B = k * B + y /\ B <= y /\ y \in Int
        BY <1>2, <2>2, <2>3, <4>1, <4>3, <4>6
      <4>8. y < l
        BY <1>4, <2>2, <4>5
      <4> HIDE DEF y
      <4> DEFINE v == i * B  w == k * B
      <4>9. /\ v = w + y /\ at = w + po /\ v \in Int /\ w \in Nat /\ y \in Int
            /\ u = y + B - po /\ s = y - po /\ pos = 0 /\ B <= y /\ y < l
            /\ po \in 0..(B - 1) /\ B \in Nat \ {0} /\ l \in Nat
        BY <1>2, <1>4, <2>2, <4>1, <4>7, <4>8
      <4> HIDE DEF v, w
      <4>10. /\ pos \in Nat /\ s \in Nat /\ s < l /\ s < u /\ u \in Int
             /\ v + pos = at + s /\ v + B = at + u
        BY <4>9
      <4> QED  BY <4>10 DEF v
    <3> QED  BY <3>1, <3>2
  <2> HIDE DEF j, pos, s, u, Start
  <2>6. t \in Nat /\ s < t /\ t <= l /\ t <= u /\ (t = u \/ t = l)
    BY <1>4, <2>5
  <2> HIDE DEF t
  <2> DEFINE row == f.rows[i]  h == Held(n, i)  x == i * B
  <2>7. /\ row \in Seq(S) /\ Len(row) = h /\ h \in 1..B
        /\ \A o \in 1..h : row[o] = c[x + o] /\ x + o \in 1..n
    BY <1>5
  <2>8. h = IF x + B <= n THEN B ELSE n - x
    BY DEF Held
  <2> HIDE DEF row, h, x
  <2>9. x \in Int /\ x + pos = at + s /\ x + B = at + u
    BY <2>2, <2>5 DEF x
  <2>10. pos + (t - s) <= h
    BY <1>2, <1>3, <1>4, <1>6, <2>5, <2>6, <2>8, <2>9
  <2> DEFINE mid == SubSeq(d, s + 1, t)  new_row == SqlInsert(row, pos, mid)
  <2>11. /\ new_row \in Seq(S) /\ Len(new_row) = h
         /\ \A o \in 1..h :
               new_row[o] = IF pos < o /\ o <= pos + (t - s) THEN d[s + (o - pos)] ELSE row[o]
    <3>1. mid \in Seq(S) /\ Len(mid) = t - s /\ \A y \in 1..(t - s) : mid[y] = d[s + y]
      <4>1. s \in Nat /\ t \in Nat /\ s <= t /\ t <= Len(d)
        BY <2>5, <2>6 DEF l
      <4> QED  BY <4>1, PieceFrom
    <3>2. Len(mid) > 0 /\ pos + Len(mid) <= Len(row)
      BY <2>5, <2>6, <2>7, <2>10, <3>1
    <3> HIDE DEF mid
    <3>3. /\ new_row \in Seq(S) /\ Len(new_row) = Len(row)
          /\ \A o \in 1..Len(row) :
               new_row[o] = IF pos < o /\ o <= pos + Len(mid) THEN mid[o - pos] ELSE row[o]
      <4>1. row \in Seq(S) /\ mid \in Seq(S) /\ pos \in Nat
        BY <2>5, <2>7, <3>1
      <4> QED  BY <3>2, <4>1, InsertIs
    <3> HIDE DEF new_row
    <3>4. ASSUME NEW o \in 1..h, pos < o, o <= pos + (t - s)
          PROVE  mid[o - pos] = d[s + (o - pos)]
      <4>1. o - pos \in 1..(t - s)
        BY <2>5, <2>6, <3>4
      <4> QED  BY <3>1, <4>1
    <3> QED  BY <2>7, <3>1, <3>3, <3>4
  <2> HIDE DEF new_row
  <2>12. ASSUME NEW o \in 1..h
         PROVE  new_row[o] = e[x + o]
    <3> DEFINE p == x + o
    <3>1. row[o] = c[p] /\ p \in 1..n /\ o \in Int
      BY <2>7
    <3>2. e[p] = IF at < p /\ p <= at + l THEN d[p - at] ELSE c[p]
      BY <1>7, <3>1
    <3>3. p \in Int /\ (pos < o <=> at + s < p) /\ s + (o - pos) = p - at
      BY <2>5, <2>9, <3>1
    <3>4. o <= pos + (t - s) <=> p <= at + t
      BY <2>5, <2>6, <2>9, <3>1
    <3>5. new_row[o] = IF pos < o /\ o <= pos + (t - s) THEN d[s + (o - pos)] ELSE row[o]
      BY <2>11
    <3>6. x < p /\ p <= x + B
      BY <1>2, <2>7, <2>9
    <3>7. at + s < p <=> at < p
      <4>1. CASE s = 0
        BY <4>1
      <4>2. CASE s # 0
        <5>1. pos = 0
          BY <2>1, <4>2 DEF s, pos, Start
        <5> QED  BY <2>5, <2>9, <3>3, <3>6, <5>1
      <4> QED  BY <4>1, <4>2
    <3>8. p <= at + t <=> p <= at + l
      BY <1>4, <2>5, <2>6, <2>9, <3>3, <3>6
    <3> HIDE DEF p
    <3> QED  BY <3>1, <3>2, <3>3, <3>4, <3>5, <3>7, <3>8 DEF p
  <2> QED  BY <2>4, <2>11, <2>12 DEF new_row, mid, row, h, x
<1>20. [size |-> n, rows |-> overwritten] = Stored(e)
  <2> DEFINE M == BlockCount(Len(e))
  <2>1. M = N /\ Len(e) = n
    BY <1>7 DEF N
  <2>2. \A i \in 0..(N - 1) : Right(overwritten[i], i)
    <3> HIDE DEF Right
    <3> QED  BY <1>18, <1>19
  <2> HIDE DEF M
  <2>3. \A i \in 0..(M - 1) : IsBlock(overwritten[i], e, i, S)
    BY <2>1, <2>2 DEF IsBlock
  <2>4. overwritten = [i \in 0..(M - 1) |-> overwritten[i]]
    BY <1>16, <2>1
  <2>5. [size |-> Len(e), rows |-> overwritten] = Stored(e)
    <3>1. e \in Seq(S)
      BY <1>7
    <3> QED  BY <2>3, <2>4, <3>1, StoredIs DEF M
  <2> QED  BY <2>1, <2>5
<1> QED  BY <1>17, <1>20 DEF f, e

LEMMA NextIndex ==
  ASSUME NEW S, NEW c \in Seq(S)
  PROVE  (IF DOMAIN Stored(c).rows = {} THEN 0 ELSE LastIndex(Stored(c)) + 1) = BlockCount(Len(c))
<1>1. Len(c) \in Nat /\ BlockCount(Len(c)) \in Nat
  BY LenProperties, CountBounds
<1>2. CASE Len(c) = 0
  <2>1. BlockCount(Len(c)) = 0
    BY <1>2, NoBlocks
  <2>2. DOMAIN Stored(c).rows = 0..(BlockCount(Len(c)) - 1)
    BY StoredRows
  <2>3. 0..(0 - 1) = {}
    OBVIOUS
  <2> QED  BY <2>1, <2>2, <2>3
<1>3. CASE Len(c) > 0
  <2>1. LastIndex(Stored(c)) = BlockCount(Len(c)) - 1 /\ DOMAIN Stored(c).rows # {}
    BY <1>3, LastBlock
  <2> QED  BY <1>1, <2>1
<1> QED  BY <1>1, <1>2, <1>3

(* A write at the end of the file, where a block begins, is an append.     *)
LEMMA WriteAtEnd ==
  ASSUME NEW S, NEW c \in Seq(S), NEW d \in Seq(S), BlockOffset(Len(c)) = 0
  PROVE  DbWrite(Stored(c), d, Len(c)) = [ok |-> TRUE, file |-> Stored(c \o d)]
<1> DEFINE f == Stored(c)  at == Len(c)  k == BlockIndex(at)  po == BlockOffset(at)
           hits == Hits(f, k, BlockCount(Len(d)))
           Start(j) == IF j = 1 THEN 0 ELSE (j - 1) * B - po
           Chunk(j) == SubSeq(d, Start(j) + 1, Min({Start(j + 1), Len(d)}))
           overwritten ==
             [i \in DOMAIN f.rows |->
                IF \E j \in 1..Len(hits) : hits[j] = i
                THEN LET j == CHOOSE j \in 1..Len(hits) : hits[j] = i
                     IN  SqlInsert(f.rows[i], IF j = 1 THEN po ELSE 0, Chunk(j))
                ELSE f.rows[i]]
           written == IF Len(hits) = 0 THEN 0 ELSE Min({Start(Len(hits) + 1), Len(d)})
           rest == SubSeq(d, written + 1, Len(d))
           new == NewBlocks(IF Len(hits) = 0 THEN k ELSE hits[Len(hits)] + 1, rest)
           N == BlockCount(Len(c))
<1>1. DbWrite(f, d, at) = IF Conflict(f, new) THEN Failed(f)
                          ELSE Done(f.size + Len(rest), Merge(overwritten, new))
  BY DEF DbWrite
<1>2. Len(c) \in Nat /\ Len(d) \in Nat /\ N \in Nat /\ BlockCount(Len(d)) \in Nat
  BY LenProperties, CountBounds
<1>3. k \in Nat /\ at = k * B
  <2> DEFINE q == at \div B  r == at % B
  <2>1. q \in Nat /\ at = q * B + r
    BY <1>2, Division
  <2>2. k = q /\ r = 0
    BY DEF BlockIndex, BlockOffset
  <2> HIDE DEF q, k, r
  <2>3. q * B \in Int
    BY <2>1, Product
  <2> QED  BY <2>1, <2>2, <2>3
<1>4. N = k
  <2> HIDE DEF k
  <2>1. (k - 1) * B = k * B - B /\ k * B \in Nat
    BY <1>3, Successor, Product
  <2>2. (k - 1) * B < at /\ at <= k * B
    BY <1>3, <2>1, BlockAssumption
  <2> QED  BY <1>2, <1>3, <2>2, CountIs
<1>5. hits = <<>> /\ Len(hits) = 0
  <2>1. k >= N
    BY <1>2, <1>4
  <2> HIDE DEF k
  <2>2. hits = <<>>
    BY <1>2, <1>3, <2>1, HitsAre
  <2> QED  BY <2>2
<1>6. rest = d
  <2>1. SubSeq(d, 0 + 1, Len(d)) = d
    BY SubSeqFull
  <2> HIDE DEF hits
  <2> QED  BY <1>5, <2>1
<1>7. /\ f.size = Len(c) /\ DOMAIN f.rows = 0..(N - 1)
      /\ f.rows = [i \in 0..(N - 1) |-> f.rows[i]]
  BY StoredRows
<1> HIDE DEF hits
<1>8. overwritten = f.rows
  <2>1. \A i : ~\E j \in 1..Len(hits) : hits[j] = i
    BY <1>5
  <2> HIDE DEF f, N
  <2> QED  BY <1>7, <2>1
<1>9. new = NewBlocks(k, d)
  <2> HIDE DEF rest
  <2> QED  BY <1>5, <1>6
<1> HIDE DEF overwritten, rest, new, f, N, k, at
<1>10. DOMAIN NewBlocks(k, d) = k..(k + BlockCount(Len(d)) - 1)
  BY DEF NewBlocks
<1>11. DbWrite(f, d, at) = Done(Len(c) + Len(d), Merge(f.rows, NewBlocks(k, d)))
  <2>1. ~Conflict(f, new)
    BY <1>2, <1>3, <1>4, <1>7, <1>9, <1>10 DEF Conflict
  <2> QED  BY <1>1, <1>6, <1>7, <1>8, <1>9, <2>1
<1>12. Extend(f, d, Len(c) + Len(d)) = Done(Len(c) + Len(d), Merge(f.rows, NewBlocks(k, d)))
  <2>1. Room(f) = 0
    <3>1. Room(f) = N * B - Len(c)
      BY RoomIs DEF f, N
    <3> QED  BY <1>2, <1>3, <1>4, <3>1 DEF at
  <2>2. Min({Room(f), Len(d)}) = 0
    BY <1>2, <2>1, MinOfTwo
  <2>3. (IF DOMAIN f.rows = {} THEN 0 ELSE LastIndex(f) + 1) = k
    BY <1>4, NextIndex DEF f, N
  <2>4. SubSeq(d, 0 + 1, Len(d)) = d
    BY SubSeqFull
  <2> DEFINE fill == Min({Room(f), Len(d)})
             filled == IF fill = 0 THEN f.rows
                       ELSE [f.rows EXCEPT ![LastIndex(f)] = @ \o SubSeq(d, 1, fill)]
             next == IF DOMAIN f.rows = {} THEN 0 ELSE LastIndex(f) + 1
  <2>5. Extend(f, d, Len(c) + Len(d))
          = Done(Len(c) + Len(d), Merge(filled, NewBlocks(next, SubSeq(d, fill + 1, Len(d)))))
    BY DEF Extend
  <2>6. filled = f.rows /\ fill = 0 /\ next = k
    BY <2>2, <2>3
  <2> HIDE DEF filled, fill, next
  <2> QED  BY <2>4, <2>5, <2>6
<1>13. DbWrite(f, d, at) = [ok |-> TRUE, file |-> Stored(c \o d)]
  BY <1>11, <1>12, ExtendIs DEF f
<1> QED  BY <1>13 DEF f, at

-----------------------------------------------------------------------------
(* Cutting                                                                 *)

(* The bytes in the blocks of T *)
BytesIn(r, T) == MapThenSumSet(LAMBDA j : Len(r[j]), T)

(* A function on the subsets of T that grows with each block by its length *)
Sums(G, r, T) ==
  /\ G \in [SUBSET T -> Int]
  /\ G[{}] = 0
  /\ \A s \in SUBSET T : \A x \in s : G[s] = Len(r[x]) + G[s \ {x}]

LEMMA SumIs ==
  ASSUME NEW r, NEW T, IsFiniteSet(T), NEW G, Sums(G, r, T)
  PROVE  BytesIn(r, T) = G[T]
<1> DEFINE Step(it) == [s \in SUBSET T |->
                          IF s = {} THEN 0
                          ELSE Len(r[CHOOSE x \in s : TRUE]) + it[s \ {CHOOSE x \in s : TRUE}]]
           iter == CHOOSE it : it = Step(it)
<1>0. /\ G \in [SUBSET T -> Int] /\ G[{}] = 0
      /\ \A s \in SUBSET T : \A x \in s : G[s] = Len(r[x]) + G[s \ {x}]
  BY DEF Sums
<1>1. BytesIn(r, T) = iter[T]
  BY DEF BytesIn, MapThenSumSet, MapThenFoldSet
<1>2. \A s \in SUBSET T : s # {} => (CHOOSE x \in s : TRUE) \in s
  OBVIOUS
<1>3. G = Step(G)
  <2>1. \A s \in SUBSET T : G[s] = IF s = {} THEN 0
                          ELSE Len(r[CHOOSE x \in s : TRUE]) + G[s \ {CHOOSE x \in s : TRUE}]
    BY <1>0, <1>2
  <2> QED  BY <1>0, <2>1
<1>4. iter = Step(iter)
  <2> HIDE DEF Step
  <2> QED  BY <1>3
<1> HIDE DEF iter
<1> DEFINE bad == {s \in SUBSET T : iter[s] # G[s]}
<1>5. bad = {}
  <2> SUFFICES ASSUME bad # {} PROVE FALSE
    OBVIOUS
  <2>1. \A s \in SUBSET T : IsFiniteSet(s) /\ Cardinality(s) \in Nat
    BY FS_Subset, FS_CardinalityType
  <2>2. {Cardinality(s) : s \in bad} \in SUBSET Nat /\ {Cardinality(s) : s \in bad} # {}
    BY <2>1
  <2>3. PICK m \in {Cardinality(s) : s \in bad} : \A k \in {Cardinality(s) : s \in bad} : m <= k
    BY <2>2, Least
  <2>4. PICK s \in bad : Cardinality(s) = m
    OBVIOUS
  <2>5. s \in SUBSET T /\ iter[s] # G[s]
    OBVIOUS
  <2>6. iter[s] = IF s = {} THEN 0
                  ELSE Len(r[CHOOSE x \in s : TRUE]) + iter[s \ {CHOOSE x \in s : TRUE}]
    BY <1>4, <2>5
  <2>7. s # {}
    BY <1>0, <2>5, <2>6
  <2> DEFINE x == CHOOSE x \in s : TRUE
  <2>8. x \in s /\ s \ {x} \in SUBSET T
    BY <1>2, <2>5, <2>7
  <2>9. iter[s] = Len(r[x]) + iter[s \ {x}] /\ G[s] = Len(r[x]) + G[s \ {x}]
    BY <1>0, <2>5, <2>6, <2>7, <2>8
  <2> HIDE DEF x, bad
  <2>10. Cardinality(s \ {x}) = Cardinality(s) - 1 /\ Cardinality(s) \in Nat
    BY <2>1, <2>5, <2>8, FS_RemoveElement
  <2>11. s \ {x} \notin bad
    <3> SUFFICES ASSUME s \ {x} \in bad PROVE FALSE
      OBVIOUS
    <3>1. m <= Cardinality(s \ {x})
      BY <2>3
    <3> QED  BY <2>4, <2>10, <3>1
  <2> QED  BY <2>5, <2>8, <2>9, <2>11 DEF bad
<1> QED  BY <1>1, <1>5

(* The bytes of the blocks from i on *)
LEMMA SumOfBlocks ==
  ASSUME NEW S, NEW c \in Seq(S), NEW i \in 0..BlockCount(Len(c)), i < BlockCount(Len(c))
  PROVE  BytesIn(Stored(c).rows, i..(BlockCount(Len(c)) - 1)) = Len(c) - i * B
<1> DEFINE r == Stored(c).rows  n == Len(c)  N == BlockCount(n)  T == i..(N - 1)
           short == N * B - n
           G == [s \in SUBSET T |-> Cardinality(s) * B - (IF N - 1 \in s THEN short ELSE 0)]
<1>1. n \in Nat /\ N \in Nat /\ (N - 1) * B < n /\ n <= N * B /\ N * B \in Nat
      /\ (N - 1) * B = N * B - B /\ B \in Nat \ {0} /\ short \in Nat
  <2>1. n \in Nat /\ N \in Nat /\ (N - 1) * B < n /\ n <= N * B
    BY LenProperties, CountBounds
  <2> HIDE DEF n, N
  <2> QED  BY <2>1, Product, Successor, BlockAssumption
<1>2. \A j \in 0..(N - 1) : Len(r[j]) = Held(n, j)
  <2>1. \A j \in 0..(N - 1) : IsBlock(r[j], c, j, S)
    BY StoredRows
  <2> HIDE DEF r
  <2> QED  BY <2>1 DEF IsBlock
<1> HIDE DEF r, n, N, short
<1>3. ASSUME NEW j \in T
      PROVE  Len(r[j]) = B - (IF j = N - 1 THEN short ELSE 0)
  <2>1. j \in 0..(N - 1)
    BY <1>1
  <2>2. CASE j = N - 1
    <3>1. j * B = N * B - B /\ N * B \in Nat
      BY <1>1, <2>2
    <3>2. Held(n, j) = B - short
      BY <1>1, <3>1 DEF Held, short
    <3> QED  BY <1>2, <2>1, <2>2, <3>2
  <2>3. CASE j # N - 1
    <3>1. j < N - 1 /\ j \in Int /\ N - 1 \in Int
      BY <1>1, <2>1, <2>3
    <3>2. j * B + B <= (N - 1) * B /\ j * B \in Int
      BY <3>1, Larger, Product
    <3>3. j * B + B <= n
      BY <1>1, <3>2
    <3> QED  BY <1>1, <1>2, <2>1, <2>3, <3>3 DEF Held
  <2> QED  BY <2>2, <2>3
<1>4. IsFiniteSet(T) /\ Cardinality(T) = N - i
  <2>1. i \in Int /\ N - 1 \in Int /\ i <= N - 1 /\ (N - 1) - i + 1 = N - i
    BY <1>1 DEF N, n
  <2>2. IsFiniteSet(T) /\ Cardinality(T) = IF i > N - 1 THEN 0 ELSE (N - 1) - i + 1
    BY <2>1, FS_Interval
  <2> HIDE DEF T
  <2> QED  BY <2>1, <2>2
<1> HIDE DEF T
<1>5. \A s \in SUBSET T : IsFiniteSet(s) /\ Cardinality(s) \in Nat
  BY <1>4, FS_Subset, FS_CardinalityType
<1>6. G \in [SUBSET T -> Int]
  BY <1>1, <1>5
<1>7. G[{}] = 0
  BY <1>1, FS_EmptySet
<1>8. ASSUME NEW s \in SUBSET T, NEW x \in s
      PROVE  G[s] = Len(r[x]) + G[s \ {x}]
  <2> DEFINE m == Cardinality(s)
  <2>1. Cardinality(s \ {x}) = m - 1 /\ m \in Nat
    BY <1>5, FS_RemoveElement
  <2>2. (m - 1) * B = m * B - B /\ m * B \in Int
    BY <2>1, Successor, Product
  <2>3. G[s] = m * B - (IF N - 1 \in s THEN short ELSE 0)
    OBVIOUS
  <2>4. G[s \ {x}] = (m - 1) * B - (IF N - 1 \in s \ {x} THEN short ELSE 0)
    BY <2>1
  <2>5. Len(r[x]) = B - (IF x = N - 1 THEN short ELSE 0)
    BY <1>3
  <2> HIDE DEF G, m
  <2> QED  BY <1>1, <2>2, <2>3, <2>4, <2>5
<1>9. BytesIn(r, T) = G[T]
  <2> HIDE DEF G
  <2>1. \A s \in SUBSET T : \A x \in s : G[s] = Len(r[x]) + G[s \ {x}]
    BY <1>8
  <2>2. Sums(G, r, T)
    BY <1>6, <1>7, <2>1 DEF Sums
  <2> QED  BY <1>4, <2>2, SumIs
<1>10. G[T] = n - i * B
  <2>1. N - 1 \in T
    BY <1>1 DEF T, N, n
  <2>2. G[T] = (N - i) * B - short
    BY <1>4, <2>1
  <2>3. (N - i) * B = N * B - i * B /\ i * B \in Int
    BY <1>1, Distributes, Product
  <2> QED  BY <1>1, <2>2, <2>3 DEF short
<1> QED  BY <1>9, <1>10 DEF r, n, N, T

(* A cut between two blocks deletes whole blocks only. *)
LEMMA ShrinkIs ==
  ASSUME NEW S, NEW c \in Seq(S), NEW size \in Nat, size < Len(c), BlockOffset(size) = 0
  PROVE  Shrink(Stored(c), size) = [ok |-> TRUE, file |-> Stored(SubSeq(c, 1, size))]
<1> DEFINE f == Stored(c)  n == Len(c)  N == BlockCount(n)  m == BlockIndex(size)
           e == SubSeq(c, 1, size)
           cut == f.size - size
           Behind(i) == BytesIn(f.rows, {j \in DOMAIN f.rows : j >= i})
           deleted == {i \in DOMAIN f.rows : Behind(i) <= cut}
           kept == DOMAIN f.rows \ deleted
           left == cut - BytesIn(f.rows, deleted)
           after == [i \in kept |-> f.rows[i]]
<1>1. Shrink(f, size) =
        CASE left = 0 -> Done(size, after)
          [] left > 0 /\ kept = {} -> Failed(f)
          [] left > 0 /\ kept # {} ->
                Done(size, [i \in kept |->
                    IF i = Max(kept) THEN Blanks(Len(f.rows[i]) - left) ELSE f.rows[i]])
  BY DEF Shrink, BytesIn
<1>2. n \in Nat /\ N \in Nat
  BY LenProperties, CountBounds
<1>3. m \in Nat /\ size = m * B
  <2> DEFINE q == size \div B  r == size % B
  <2>1. q \in Nat /\ size = q * B + r
    BY Division
  <2>2. m = q /\ r = 0
    BY DEF BlockIndex, BlockOffset
  <2> HIDE DEF q, m, r
  <2>3. q * B \in Int
    BY <2>1, Product
  <2> QED  BY <2>1, <2>2, <2>3
<1>4. /\ f.size = n
      /\ DOMAIN f.rows = 0..(N - 1)
      /\ \A i \in 0..(N - 1) : IsBlock(f.rows[i], c, i, S)
  BY StoredRows
<1>5. \A i \in 0..(N - 1) : BytesIn(f.rows, i..(N - 1)) = n - i * B
  <2> TAKE i \in 0..(N - 1)
  <2>1. i \in 0..N /\ i < N
    BY <1>2
  <2> QED  BY <2>1, SumOfBlocks
<1>6. size < n
  OBVIOUS
<1> HIDE DEF m, n, N, f
<1>7. m \in 0..(N - 1)
  BY <1>2, <1>3, <1>6, InBlocks DEF N
<1>8. \A i \in 0..(N - 1) : Behind(i) = n - i * B
  <2> TAKE i \in 0..(N - 1)
  <2>1. {j \in DOMAIN f.rows : j >= i} = i..(N - 1)
    BY <1>2, <1>4
  <2> QED  BY <1>5, <2>1
<1>9. deleted = m..(N - 1)
  <2>0. DOMAIN f.rows = 0..(N - 1) /\ cut = n - m * B
    BY <1>3, <1>4
  <2> HIDE DEF Behind, cut
  <2> SUFFICES ASSUME NEW i \in 0..(N - 1)
               PROVE  Behind(i) <= cut <=> i >= m
    <3>1. DOMAIN f.rows = 0..(N - 1) /\ m \in 0..(N - 1) /\ N \in Nat
      BY <1>2, <1>7, <2>0
    <3> QED  BY <3>1
  <2>1. i * B \in Int /\ m * B \in Int /\ Behind(i) = n - i * B /\ cut = n - m * B
    <3>1. i \in Int /\ m \in Int
      BY <1>2, <1>3
    <3> QED  BY <1>8, <2>0, <3>1, Product
  <2>2. i < m => i * B + B <= m * B
    BY <1>2, <1>3, Larger
  <2>3. m < i => m * B + B <= i * B
    BY <1>2, <1>3, Larger
  <2>4. i \in Int /\ m \in Int /\ n \in Int /\ B \in Nat \ {0}
    BY <1>2, <1>3, BlockAssumption
  <2> QED  BY <2>1, <2>2, <2>3, <2>4
<1> HIDE DEF deleted
<1>10. kept = 0..(m - 1)
  BY <1>2, <1>3, <1>4, <1>7, <1>9
<1>11. left = 0
  <2>1. BytesIn(f.rows, deleted) = n - m * B
    BY <1>5, <1>7, <1>9
  <2> QED  BY <1>2, <1>3, <1>4, <2>1, Product
<1> HIDE DEF left, kept
<1>12. Shrink(f, size) = [ok |-> TRUE, file |-> [size |-> size, rows |-> after]]
  <2>1. ~(left > 0)
    BY <1>11
  <2> QED  BY <1>1, <1>11, <2>1 DEF Done
<1>13. e \in Seq(S) /\ Len(e) = size /\ \A p \in 1..size : e[p] = c[p]
  <2>1. /\ e \in Seq(S) /\ Len(e) = size - 1 + 1
        /\ \A i \in 1..(size - 1 + 1) : e[i] = c[1 + i - 1]
    BY <1>2, <1>6, Piece DEF n
  <2>2. size - 1 + 1 = size /\ \A i \in Int : 1 + i - 1 = i
    OBVIOUS
  <2> HIDE DEF e
  <2> QED  BY <2>1, <2>2
<1> HIDE DEF e
<1>14. BlockCount(Len(e)) = m
  <2>1. (m - 1) * B < size /\ size <= m * B
    <3>1. (m - 1) * B = m * B - B /\ m * B \in Nat
      BY <1>3, Successor, Product
    <3> QED  BY <1>3, <3>1, BlockAssumption
  <2> QED  BY <1>3, <1>13, <2>1, CountIs
<1>15. ASSUME NEW i \in 0..(m - 1)
       PROVE  IsBlock(after[i], e, i, S)
  <2>1. after[i] = f.rows[i] /\ i \in 0..(N - 1) /\ i < m /\ i \in Nat
    BY <1>2, <1>3, <1>7, <1>10
  <2>2. i * B + B <= m * B /\ i * B \in Nat
    BY <1>3, <2>1, Larger, Product
  <2>3. Held(n, i) = B /\ Held(size, i) = B
    BY <1>2, <1>3, <1>6, <2>2, BlockAssumption DEF Held
  <2>4. /\ f.rows[i] \in Seq(S) /\ Len(f.rows[i]) = B
        /\ \A o \in 1..B : f.rows[i][o] = c[i * B + o]
    <3>1. IsBlock(f.rows[i], c, i, S)
      BY <1>4, <2>1
    <3> QED  BY <2>3, <3>1 DEF IsBlock, n
  <2>5. \A o \in 1..B : f.rows[i][o] = e[i * B + o]
    <3> TAKE o \in 1..B
    <3>1. i * B + o \in 1..size
      BY <1>3, <2>2, BlockAssumption
    <3> QED  BY <1>13, <2>4, <3>1
  <2> QED  BY <1>13, <2>1, <2>3, <2>4, <2>5 DEF IsBlock
<1>16. [size |-> size, rows |-> after] = Stored(e)
  <2> DEFINE M == BlockCount(Len(e))
  <2>1. M = m
    BY <1>14
  <2>2. after = [i \in 0..(m - 1) |-> after[i]]
    BY <1>10
  <2> HIDE DEF M, after
  <2>3. after = [i \in 0..(M - 1) |-> after[i]]
    BY <2>1, <2>2
  <2>4. \A i \in 0..(M - 1) : IsBlock(after[i], e, i, S)
    BY <1>15, <2>1
  <2>5. [size |-> Len(e), rows |-> after] = Stored(e)
    <3>1. e \in Seq(S)
      BY <1>13
    <3> QED  BY <2>3, <2>4, <3>1, StoredIs DEF M
  <2> QED  BY <1>13, <2>5
<1> QED  BY <1>12, <1>16 DEF f, e

LEMMA BlanksAre ==
  ASSUME NEW S, Blank \in S, NEW n \in Nat
  PROVE  /\ Blanks(n) \in Seq(S) /\ Len(Blanks(n)) = n
         /\ \A i \in 1..n : Blanks(n)[i] = Blank
BY SeqDef DEF Blanks

(* What a truncation that is served makes of the file c *)
Resized(c, size) ==
  IF size <= Len(c) THEN SubSeq(c, 1, size) ELSE c \o Blanks(size - Len(c))

LEMMA TruncateIs ==
  ASSUME NEW S, Blank \in S, NEW c \in Seq(S), NEW size \in Nat,
         size >= Len(c) \/ BlockOffset(size) = 0
  PROVE  DbTruncate(Stored(c), size) = [ok |-> TRUE, file |-> Stored(Resized(c, size))]
<1> DEFINE f == Stored(c)  n == Len(c)
<1>1. n \in Nat /\ f.size = n
  BY LenProperties, StoredRows
<1>2. CASE size < n
  <2>1. Shrink(f, size) = [ok |-> TRUE, file |-> Stored(SubSeq(c, 1, size))]
    BY <1>1, <1>2, ShrinkIs
  <2>2. DbTruncate(f, size) = Shrink(f, size)
    <3> HIDE DEF f, n
    <3> QED  BY <1>1, <1>2 DEF DbTruncate
  <2>3. Resized(c, size) = SubSeq(c, 1, size)
    BY <1>1, <1>2 DEF Resized
  <2> QED  BY <2>1, <2>2, <2>3
<1>3. CASE size = n
  <2>1. SubSeq(c, 1, size) = c
    BY <1>3, SubSeqFull
  <2>2. Resized(c, size) = c
    BY <1>1, <1>3, <2>1 DEF Resized
  <2>3. DbTruncate(f, size) = Done(f.size, f.rows)
    <3> HIDE DEF f, n
    <3> QED  BY <1>1, <1>3 DEF DbTruncate
  <2>4. [size |-> f.size, rows |-> f.rows] = f
    BY DEF Stored
  <2> QED  BY <2>2, <2>3, <2>4 DEF Done
<1>4. CASE size > n
  <2> DEFINE more == Blanks(size - n)
  <2>1. size - n \in Nat
    BY <1>1, <1>4
  <2>2. more \in Seq(S) /\ Len(more) = size - n
    BY <2>1, BlanksAre
  <2>3. DbTruncate(f, size) = Extend(f, more, size)
    <3> HIDE DEF f, n
    <3> QED  BY <1>1, <1>4 DEF DbTruncate
  <2>4. Resized(c, size) = c \o more
    BY <1>1, <1>4 DEF Resized
  <2> HIDE DEF more
  <2>5. n + Len(more) = size
    BY <1>1, <2>2
  <2>6. Extend(f, more, n + Len(more)) = [ok |-> TRUE, file |-> Stored(c \o more)]
    BY <2>2, ExtendIs
  <2> QED  BY <2>3, <2>4, <2>5, <2>6
<1> QED  BY <1>1, <1>2, <1>3, <1>4

LEMMA ResizedIs ==
  ASSUME NEW S, Blank \in S, NEW c \in Seq(S), NEW size \in Nat
  PROVE  /\ Resized(c, size) \in Seq(S) /\ Len(Resized(c, size)) = size
         /\ \A p \in 1..size :
               Resized(c, size)[p] = IF p \in 1..Len(c) THEN c[p] ELSE Blank
<1> DEFINE n == Len(c)
<1>1. n \in Nat
  BY LenProperties
<1>2. CASE size <= n
  <2>1. Resized(c, size) = SubSeq(c, 0 + 1, size)
    BY <1>2 DEF Resized
  <2>2. /\ SubSeq(c, 0 + 1, size) \in Seq(S) /\ Len(SubSeq(c, 0 + 1, size)) = size - 0
        /\ \A i \in 1..(size - 0) : SubSeq(c, 0 + 1, size)[i] = c[0 + i]
    BY <1>1, <1>2, PieceFrom
  <2> DEFINE e == SubSeq(c, 0 + 1, size)
  <2>3. e \in Seq(S) /\ Len(e) = size /\ \A i \in 1..size : e[i] = c[i]
    <3> HIDE DEF e
    <3>1. size - 0 = size /\ \A i \in Int : 0 + i = i
      OBVIOUS
    <3> QED  BY <2>2, <3>1 DEF e
  <2> HIDE DEF e
  <2>4. \A p \in 1..size : p \in 1..n
    BY <1>1, <1>2
  <2> QED  BY <2>1, <2>3, <2>4 DEF e, n
<1>3. CASE size > n
  <2> DEFINE more == Blanks(size - n)  e == c \o more
  <2>1. size - n \in Nat
    BY <1>1, <1>3
  <2>2. more \in Seq(S) /\ Len(more) = size - n
        /\ \A i \in 1..(size - n) : more[i] = Blank
    BY <2>1, BlanksAre
  <2>3. Resized(c, size) = e
    BY <1>1, <1>3 DEF Resized
  <2> HIDE DEF more
  <2>4. e \in Seq(S) /\ Len(e) = n + Len(more)
        /\ \A i \in 1..(n + Len(more)) : e[i] = IF i <= n THEN c[i] ELSE more[i - n]
    BY <2>2, ConcatProperties
  <2> HIDE DEF e, n
  <2>5. n + Len(more) = size
    BY <1>1, <2>2
  <2>6. ASSUME NEW p \in 1..size
        PROVE  e[p] = IF p \in 1..n THEN c[p] ELSE Blank
    <3>1. CASE p <= n
      <4>1. p \in 1..n /\ p \in 1..(n + Len(more))
        BY <1>1, <2>5, <3>1
      <4> QED  BY <2>4, <3>1, <4>1
    <3>2. CASE p > n
      <4>1. p \notin 1..n /\ ~(p <= n) /\ p \in 1..(n + Len(more)) /\ p - n \in 1..(size - n)
        BY <1>1, <2>5, <3>2
      <4> QED  BY <2>2, <2>4, <4>1
    <3> QED  BY <1>1, <3>1, <3>2
  <2> QED  BY <2>3, <2>4, <2>5, <2>6 DEF n
<1> QED  BY <1>1, <1>2, <1>3

-----------------------------------------------------------------------------
(* Reading                                                                 *)

(* The loop of DbRead: what is left to read and what has been copied after *)
(* one more block.                                                         *)
CopyOf(row, po, n) ==
  [i \in 1..n |-> IF po + i <= Len(row) THEN row[po + i] ELSE Garbage]
OutAfter(prev, row, po) == prev.out \o CopyOf(row, po, Min({Len(row), prev.left}))
After(prev, row, po) ==
  [left |-> (prev.left - Len(OutAfter(prev, row, po))) % Word,
   out |-> OutAfter(prev, row, po)]

Before(size) == [left |-> size, out |-> <<>>]
AfterTwo(f, size, offset, hits) ==
  LET a1 == After(Before(size), f.rows[hits[1]], BlockOffset(offset))
      a2 == After(a1, f.rows[hits[2]], 0)
  IN  IF Len(hits) = 0 THEN Before(size) ELSE IF Len(hits) = 1 THEN a1 ELSE a2

LEMMA LoopIs ==
  ASSUME NEW f, NEW size, NEW offset, NEW hits,
         hits = Hits(f, BlockIndex(offset), BlockCount(size)), Len(hits) \in 0..2
  PROVE  DbRead(f, size, offset) = AfterTwo(f, size, offset, hits).out
<1> DEFINE a0 == [left |-> size, out |-> <<>>]
           a1 == After(a0, f.rows[hits[1]], BlockOffset(offset))
           a2 == After(a1, f.rows[hits[2]], 0)
           h == Len(hits)
           Step(prev, j) == After(prev, f.rows[hits[j]], IF j = 1 THEN BlockOffset(offset) ELSE 0)
           Rec(loop) == [j \in 0..h |-> IF j = 0 THEN a0 ELSE Step(loop[j - 1], j)]
           g == [j \in 0..h |-> IF j = 0 THEN a0 ELSE IF j = 1 THEN a1 ELSE a2]
           loop == CHOOSE loop : loop = Rec(loop)
<1>1. DbRead(f, size, offset) = loop[h].out
  BY DEF DbRead, After, OutAfter, CopyOf
<1>2. Step(a0, 1) = a1 /\ Step(a1, 2) = a2
  OBVIOUS
<1>3. h \in 0..2
  OBVIOUS
<1> HIDE DEF h, Step, a0, a1, a2
<1>4. g = Rec(g)
  <2>1. ASSUME NEW j \in 0..h
        PROVE  g[j] = Rec(g)[j]
    <3>1. CASE j = 0
      BY <2>1, <3>1
    <3>2. CASE j = 1
      <4>1. j - 1 = 0 /\ 0 \in 0..h
        BY <1>3, <2>1, <3>2
      <4>2. g[0] = a0
        BY <4>1
      <4>3. Rec(g)[j] = Step(g[0], 1)
        BY <2>1, <3>2, <4>1
      <4> QED  BY <1>2, <2>1, <3>2, <4>2, <4>3
    <3>3. CASE j = 2
      <4>1. j - 1 = 1 /\ 1 \in 0..h
        BY <1>3, <2>1, <3>3
      <4>2. g[1] = a1
        BY <4>1
      <4>3. Rec(g)[j] = Step(g[1], 2)
        BY <2>1, <3>3, <4>1
      <4> QED  BY <1>2, <2>1, <3>3, <4>2, <4>3
    <3> QED  BY <1>3, <2>1, <3>1, <3>2, <3>3
  <2> QED  BY <2>1
<1>5. loop = Rec(loop)
  <2> HIDE DEF Rec, g
  <2> QED  BY <1>4
<1> HIDE DEF loop
<1>6. loop[0] = a0
  BY <1>3, <1>5
<1>7. h >= 1 => loop[1] = a1
  <2>1. h >= 1 => loop[1] = Step(loop[0], 1)
    BY <1>3, <1>5
  <2> QED  BY <1>2, <1>6, <2>1
<1>8. h >= 2 => loop[2] = a2
  <2>1. h >= 2 => loop[2] = Step(loop[1], 2)
    BY <1>3, <1>5
  <2> QED  BY <1>2, <1>3, <1>7, <2>1
<1>9. loop[h] = IF h = 0 THEN a0 ELSE IF h = 1 THEN a1 ELSE a2
  <2> HIDE DEF Rec
  <2> QED  BY <1>3, <1>6, <1>7, <1>8
<1>10. DbRead(f, size, offset) = (IF h = 0 THEN a0 ELSE IF h = 1 THEN a1 ELSE a2).out
  BY <1>1, <1>9
<1>11. AfterTwo(f, size, offset, hits) = IF h = 0 THEN a0 ELSE IF h = 1 THEN a1 ELSE a2
  BY DEF AfterTwo, Before, h, a0, a1, a2
<1> QED  BY <1>10, <1>11

Lesser(a, b) == IF a <= b THEN a ELSE b

LEMMA OneMore ==
  ASSUME NEW S, NEW prev, prev.left \in Nat, NEW row \in Seq(S)
  PROVE  OutAfter(prev, row, 0) = prev.out \o SubSeq(row, 1, Lesser(Len(row), prev.left))
<1> DEFINE left == prev.left  m == Lesser(Len(row), left)  piece == SubSeq(row, 1, m)
<1> HIDE DEF m
<1>1. Len(row) \in Nat /\ m \in Nat /\ m <= Len(row) /\ Min({Len(row), left}) = m
  <2> DEFINE l == Len(row)
  <2>1. l \in Nat
    BY LenProperties
  <2>2. Min({l, left}) = IF l <= left THEN l ELSE left
    BY <2>1, MinOfTwo
  <2>3. m = IF l <= left THEN l ELSE left
    BY DEF Lesser, m
  <2> HIDE DEF l, left
  <2>4. left \in Nat
    BY DEF left
  <2> QED  BY <2>1, <2>2, <2>3, <2>4 DEF l
<1>2. piece \in Seq(S) /\ Len(piece) = m /\ \A i \in 1..m : piece[i] = row[i]
  <2> DEFINE p == SubSeq(row, 0 + 1, m)
  <2>1. p \in Seq(S) /\ Len(p) = m - 0 /\ \A i \in 1..(m - 0) : p[i] = row[0 + i]
    BY <1>1, PieceFrom
  <2>2. p = piece /\ m - 0 = m /\ \A i \in Int : 0 + i = i
    BY <1>1
  <2> HIDE DEF p, piece
  <2> QED  BY <2>1, <2>2
<1>3. CopyOf(row, 0, m) = piece
  <2> DEFINE copy == CopyOf(row, 0, m)
  <2>1. copy = [i \in 1..m |-> copy[i]]
    BY DEF CopyOf
  <2>2. \A i \in 1..m : copy[i] = row[i]
    <3> TAKE i \in 1..m
    <3>1. 0 + i <= Len(row) /\ 0 + i = i
      BY <1>1
    <3> QED  BY <3>1 DEF CopyOf
  <2>3. \A i \in 1..m : row[i] \in S
    BY <1>1, ElementOfSeq
  <2> HIDE DEF copy
  <2>4. copy \in Seq(S) /\ Len(copy) = m
    <3>1. copy \in [1..m -> S]
      BY <2>1, <2>2, <2>3
    <3>2. copy \in Seq(S)
      BY <1>1, <3>1, SeqDef
    <3>3. DOMAIN copy = 1..m
      BY <3>1
    <3>4. Len(copy) \in Nat /\ DOMAIN copy = 1..Len(copy)
      BY <3>2, LenProperties
    <3>5. Len(copy) = m
      <4> DEFINE l == Len(copy)
      <4>1. l \in Nat /\ 1..l = 1..m
        BY <3>3, <3>4
      <4> HIDE DEF l
      <4>2. (l \in 1..m \/ l = 0) /\ (m \in 1..l \/ m = 0)
        BY <1>1, <4>1
      <4>3. l = m
        BY <4>1, <4>2
      <4> QED  BY <4>3 DEF l
    <3> QED  BY <3>2, <3>5
  <2> HIDE DEF piece
  <2> QED  BY <1>2, <2>2, <2>4, SeqEqual DEF copy
<1>4. OutAfter(prev, row, 0) = prev.out \o piece
  BY <1>1, <1>3 DEF OutAfter
<1> QED  BY <1>4 DEF m

LEMMA SmallRest ==
  ASSUME NEW n \in Nat, n < Word
  PROVE  n % Word = n
<1>1. Word \in Nat \ {0} /\ n \in 0..(Word - 1)
  BY BlockAssumption
<1>2. (0 * Word + n) % Word = n
  BY <1>1, DivisionByIs
<1>3. 0 * Word + n = n
  BY <1>1
<1> QED  BY <1>2, <1>3

(* The bytes of c behind the first `at', at most n of them *)
Want(c, at, n) ==
  IF at >= Len(c) THEN 0 ELSE IF at + n <= Len(c) THEN n ELSE Len(c) - at
IsSlice(s, c, at, n, S) ==
  /\ s \in Seq(S) /\ Len(s) = n
  /\ \A i \in 1..n : s[i] = c[at + i]

LEMMA SliceIs ==
  ASSUME NEW S, NEW c \in Seq(S), NEW at \in Nat, NEW n \in Nat
  PROVE  IsSlice(SubSeq(c, at + 1, Min({at + n, Len(c)})), c, at, Want(c, at, n), S)
<1> DEFINE L == Len(c)  e == IF at + n <= L THEN at + n ELSE L  w == Want(c, at, n)
<1>1. L \in Nat /\ Min({at + n, L}) = e
  <2>1. L \in Nat
    BY LenProperties
  <2> HIDE DEF L
  <2> QED  BY <2>1, MinOfTwo
<1>2. w = IF at >= L THEN 0 ELSE IF at + n <= L THEN n ELSE L - at
  BY DEF Want
<1> HIDE DEF w
<1>3. CASE at >= L
  <2>1. SubSeq(c, at + 1, e) = <<>>
    <3>1. at + 1 \in Int /\ e \in Int /\ e < at + 1
      BY <1>1, <1>3
    <3> HIDE DEF e
    <3> QED  BY <3>1, NoPiece
  <2>2. w = 0
    BY <1>2, <1>3
  <2>3. <<>> \in Seq(S) /\ Len(<<>>) = 0
    OBVIOUS
  <2> DEFINE s == SubSeq(c, at + 1, Min({at + n, L}))
  <2>4. s = <<>>
    BY <1>1, <2>1
  <2> HIDE DEF s, L
  <2>5. IsSlice(s, c, at, w, S)
    BY <2>2, <2>3, <2>4 DEF IsSlice
  <2> QED  BY <2>5 DEF s, L, w
<1>4. CASE at < L
  <2>1. e \in Nat /\ at <= e /\ e <= L /\ e - at = w
    BY <1>1, <1>2, <1>4
  <2> HIDE DEF e
  <2>2. /\ SubSeq(c, at + 1, e) \in Seq(S) /\ Len(SubSeq(c, at + 1, e)) = e - at
        /\ \A i \in 1..(e - at) : SubSeq(c, at + 1, e)[i] = c[at + i]
    BY <2>1, PieceFrom DEF L
  <2> QED  BY <1>1, <2>1, <2>2 DEF IsSlice, L, w
<1> QED  BY <1>1, <1>3, <1>4

LEMMA BlockPiece ==
  ASSUME NEW S, NEW c, NEW row, NEW i \in Nat, IsBlock(row, c, i, S),
         NEW m \in Nat, m <= Held(Len(c), i)
  PROVE  IsSlice(SubSeq(row, 1, m), c, i * B, m, S)
<1> DEFINE l == Held(Len(c), i)  piece == SubSeq(row, 0 + 1, m)
<1>1. row \in Seq(S) /\ Len(row) = l /\ \A o \in 1..l : row[o] = c[i * B + o]
  BY DEF IsBlock
<1>2. l \in Nat
  <2> HIDE DEF l
  <2> QED  BY <1>1, LenProperties
<1>3. piece \in Seq(S) /\ Len(piece) = m - 0 /\ \A o \in 1..(m - 0) : piece[o] = row[0 + o]
  BY <1>1, PieceFrom
<1>4. piece = SubSeq(row, 1, m)
  OBVIOUS
<1> HIDE DEF piece
<1>5. m <= l
  OBVIOUS
<1> HIDE DEF l
<1>6. ASSUME NEW o \in 1..m
      PROVE  piece[o] = c[i * B + o]
  <2>1. o \in 1..(m - 0) /\ 0 + o = o /\ o \in 1..l
    BY <1>2, <1>5
  <2> QED  BY <1>1, <1>3, <2>1
<1>7. Len(piece) = m
  BY <1>3
<1>8. IsSlice(piece, c, i * B, m, S)
  BY <1>3, <1>6, <1>7 DEF IsSlice
<1> QED  BY <1>4, <1>8

(* What a read behind `at' finds: nothing, the rest of the file or the     *)
(* request in one block, or a whole block and part of the next.            *)
LEMMA ReadCases ==
  ASSUME NEW S, NEW c \in Seq(S), NEW n \in Nat, n <= 2 * B, NEW k \in Nat
  PROVE  LET N == BlockCount(Len(c))
             hits == Hits(Stored(c), k, BlockCount(n))
             w == Want(c, k * B, n)
             l == Held(Len(c), k)
             l2 == Held(Len(c), k + 1)
         IN  \/ hits = <<>> /\ w = 0
             \/ /\ hits = Line(k, 1) /\ k \in 0..(N - 1) /\ w \in Nat /\ l \in Nat
                /\ w = IF l <= n THEN l ELSE n
             \/ /\ hits = Line(k, 2) /\ k \in 0..(N - 1) /\ k + 1 \in 0..(N - 1)
                /\ l = B /\ l2 \in Nat /\ B <= n /\ n - B \in Nat
                /\ w = B + (IF l2 <= n - B THEN l2 ELSE n - B)
<1> DEFINE L == Len(c)  N == BlockCount(L)  T == BlockCount(n)  at == k * B
           hits == Hits(Stored(c), k, T)
           w == Want(c, at, n)
           l == Held(L, k)  l2 == Held(L, k + 1)
<1>1. L \in Nat /\ N \in Nat /\ (N - 1) * B < L /\ L <= N * B
      /\ T \in Nat /\ (T - 1) * B < n /\ n <= T * B
  BY LenProperties, CountBounds
<1>2. w = IF at >= L THEN 0 ELSE IF at + n <= L THEN n ELSE L - at
  BY DEF Want
<1>3. l = (IF at + B <= L THEN B ELSE L - at)
      /\ l2 = (IF at + B + B <= L THEN B ELSE L - (at + B))
      /\ (k + 1) * B = at + B /\ at \in Nat
  <2>0. k \in Int
    OBVIOUS
  <2>1. (k + 1) * B = at + B /\ at \in Nat
    <3>1. (k + 1) * B = k * B + B
      BY ONLY <2>0, Successor
    <3>2. k * B \in Nat
      BY ONLY <2>0, k \in Nat, Product
    <3> QED  BY <3>1, <3>2
  <2> HIDE DEF at
  <2>2. l = IF k * B + B <= L THEN B ELSE L - k * B
    BY DEF Held
  <2>3. l2 = IF (k + 1) * B + B <= L THEN B ELSE L - (k + 1) * B
    BY DEF Held
  <2> HIDE DEF l, l2, L
  <2> QED  BY <2>1, <2>2, <2>3 DEF at
<1>4. /\ k >= N => hits = <<>>
      /\ k + T <= N => hits = Line(k, T)
      /\ N - k \in 0..T => hits = Line(k, N - k)
  BY <1>1, HitsAre
<1>5. \A i \in Nat : i \in 0..(N - 1) <=> i * B < L
  BY <1>1, InBlocks
<1>6. Line(k, 0) = <<>>
  BY DEF Line
<1>7. B \in Nat \ {0} /\ n <= 2 * B
  BY BlockAssumption
<1> HIDE DEF L, N, T, at, hits, w, l, l2
<1>8. CASE at >= L
  <2>1. k >= N
    <3>1. k * B \in Int /\ ~(k * B < L) /\ k \in Int
      BY <1>1, <1>3, <1>8 DEF at
    <3>2. ~(k \in 0..(N - 1))
      BY <1>5, <3>1
    <3> QED  BY <1>1, <3>1, <3>2
  <2> QED  BY <1>2, <1>4, <1>8, <2>1 DEF hits, w, at, T
<1>9. CASE at < L /\ n = 0
  <2>1. T = 0
    BY <1>9, NoBlocks DEF T
  <2>2. k \in 0..(N - 1)
    BY <1>5, <1>9 DEF at
  <2>3. k + T <= N
    BY <1>1, <2>1, <2>2
  <2>4. w = 0
    BY <1>1, <1>2, <1>3, <1>9
  <2> QED  BY <1>4, <1>6, <2>1, <2>3, <2>4 DEF hits, w, at, T
<1>10. CASE at < L /\ n > 0 /\ (T = 1 \/ N - k = 1)
  <2>1. k \in 0..(N - 1)
    BY <1>5, <1>10 DEF at
  <2>2. T >= 1
    <3>1. T # 0
      BY <1>1, <1>10, Successor
    <3> QED  BY <1>1, <3>1
  <2>3. hits = Line(k, 1)
    <3>1. CASE T = 1
      <4>1. k + T <= N
        BY <1>1, <2>1, <3>1
      <4> QED  BY <1>4, <3>1, <4>1
    <3>2. CASE N - k = 1
      <4>1. N - k \in 0..T
        BY <1>1, <2>2, <3>2
      <4> QED  BY <1>4, <3>2, <4>1
    <3> QED  BY <1>10, <3>1, <3>2
  <2>4. T = 1 => n <= B
    <3>1. 1 * B = B
      BY BlockAssumption
    <3> QED  BY <1>1, <3>1
  <2>5. N - k = 1 => L <= at + B
    <3>1. N - k = 1 => N = k + 1
      BY <1>1
    <3> QED  BY <1>1, <1>3, <3>1
  <2>6. w \in Nat /\ l \in Nat /\ w = IF l <= n THEN l ELSE n
    BY <1>1, <1>2, <1>3, <1>7, <1>10, <2>4, <2>5
  <2> QED  BY <2>1, <2>3, <2>6 DEF hits, w, at, T, l, N, L
<1>11. CASE at < L /\ n > 0 /\ T # 1 /\ N - k # 1
  <2>1. k \in 0..(N - 1)
    BY <1>5, <1>11 DEF at
  <2>2. k + 1 \in 0..(N - 1)
    BY <1>1, <1>11, <2>1
  <2>3. T = 2 /\ B < n
    <3>1. T # 0
      BY <1>1, <1>11, Successor
    <3>2. T >= 2
      BY <1>1, <1>11, <3>1
    <3>3. T < 3
      <4>1. (T - 1) * B < 2 * B
        <5>1. (T - 1) * B \in Int
          BY <1>1, Product
        <5> QED  BY <1>1, <1>7, <5>1
      <4>2. T - 1 < 2
        BY <1>1, <4>1, Ordered
      <4> QED  BY <1>1, <4>2
    <3>4. T = 2
      BY <1>1, <3>2, <3>3
    <3>5. (T - 1) * B = B
      BY <1>7, <3>4
    <3> QED  BY <1>1, <3>4, <3>5
  <2>4. hits = Line(k, 2)
    <3>1. k + T <= N
      BY <1>1, <2>2, <2>3
    <3> QED  BY <1>4, <2>3, <3>1
  <2>5. at + B < L
    <3>1. (k + 1) * B < L
      BY <1>5, <2>2
    <3> QED  BY <1>3, <3>1
  <2>6. n <= B + B
    BY <1>7
  <2>7. l = B /\ l2 \in Nat /\ B <= n /\ n - B \in Nat
        /\ w = B + (IF l2 <= n - B THEN l2 ELSE n - B)
    BY <1>1, <1>2, <1>3, <1>7, <1>11, <2>3, <2>5, <2>6
  <2> QED  BY <2>1, <2>2, <2>4, <2>7 DEF hits, w, at, T, l, l2, N, L
<1> QED  BY <1>1, <1>3, <1>8, <1>9, <1>10, <1>11

(* A read that starts a block and asks for at most two answers with the    *)
(* bytes of the file at its offset.                                        *)
LEMMA ReadIs ==
  ASSUME NEW S, NEW c \in Seq(S), NEW at \in Nat, BlockOffset(at) = 0,
         NEW n \in Nat, n <= 2 * B, n < Word
  PROVE  DbRead(Stored(c), n, at) = SubSeq(c, at + 1, Min({at + n, Len(c)}))
<1> DEFINE f == Stored(c)  k == BlockIndex(at)  N == BlockCount(Len(c))
           hits == Hits(f, k, BlockCount(n))
           w == Want(c, at, n)
           l == Held(Len(c), k)  l2 == Held(Len(c), k + 1)
           row == f.rows[k]  row2 == f.rows[k + 1]
           a0 == [left |-> n, out |-> <<>>]
           a1(i) == After(a0, f.rows[i], BlockOffset(at))
           a2(i, j) == After(a1(i), f.rows[j], 0)
           one == SubSeq(row, 1, w)
           full == SubSeq(row, 1, B)
           two == full \o SubSeq(row2, 1, w - B)
<1>1. k \in Nat /\ at = k * B
  <2> DEFINE q == at \div B  r == at % B
  <2>1. q \in Nat /\ at = q * B + r
    BY Division
  <2>2. k = q /\ r = 0
    BY DEF BlockIndex, BlockOffset
  <2> HIDE DEF q, k, r
  <2>3. q * B \in Int
    BY <2>1, Product
  <2> QED  BY <2>1, <2>2, <2>3
<1>2. \/ hits = <<>> /\ w = 0
      \/ /\ hits = Line(k, 1) /\ k \in 0..(N - 1) /\ w \in Nat /\ l \in Nat
         /\ w = IF l <= n THEN l ELSE n
      \/ /\ hits = Line(k, 2) /\ k \in 0..(N - 1) /\ k + 1 \in 0..(N - 1)
         /\ l = B /\ l2 \in Nat /\ B <= n /\ n - B \in Nat
         /\ w = B + (IF l2 <= n - B THEN l2 ELSE n - B)
  <2> HIDE DEF k
  <2>1. Want(c, k * B, n) = w
    BY <1>1
  <2> HIDE DEF w
  <2> QED  BY <1>1, <2>1, ReadCases
<1>3. Len(hits) \in 0..2 =>
        DbRead(f, n, at) = (IF Len(hits) = 0 THEN a0
                            ELSE IF Len(hits) = 1 THEN a1(hits[1])
                            ELSE a2(hits[1], hits[2])).out
  <2>1. hits = Hits(f, BlockIndex(at), BlockCount(n))
    OBVIOUS
  <2> HIDE DEF hits, f
  <2>2. Len(hits) \in 0..2 => DbRead(f, n, at) = AfterTwo(f, n, at, hits).out
    BY <2>1, LoopIs
  <2> QED  BY <2>2 DEF AfterTwo, Before
<1>4. \A i \in 0..(N - 1) : IsBlock(f.rows[i], c, i, S)
  BY StoredRows
<1>5. \A i : a1(i) = After(a0, f.rows[i], 0)
  OBVIOUS
<1>6. \A s : <<>> \o s = s \/ s \notin Seq(S)
  BY ConcatEmptySeq
<1>7. Len(<<>>) = 0 /\ <<>> \in Seq(S) /\ B \in Nat \ {0}
  BY BlockAssumption
<1> HIDE DEF f, k, N, hits, w, l, l2
<1> DEFINE read == DbRead(f, n, at)
<1>8. ASSUME hits = <<>>, w = 0
      PROVE  IsSlice(read, c, at, w, S)
  <2>1. Len(hits) = 0
    BY <1>8
  <2>2. read = <<>>
    BY <1>3, <2>1
  <2> HIDE DEF read
  <2> QED  BY <1>7, <1>8, <2>2 DEF IsSlice
<1>9. ASSUME hits = Line(k, 1), k \in 0..(N - 1), w \in Nat, l \in Nat,
             w = IF l <= n THEN l ELSE n
      PROVE  IsSlice(read, c, at, w, S)
  <2>1. Len(hits) = 1 /\ hits[1] = k
    <3> HIDE DEF hits
    <3> QED  BY <1>1, <1>9 DEF Line
  <2>2. read = OutAfter(a0, row, 0)
    <3>1. read = a1(k).out
      BY <1>3, <2>1
    <3> HIDE DEF read, a0
    <3>2. read = After(a0, row, 0).out
      BY <1>5, <3>1
    <3> HIDE DEF row
    <3> QED  BY <3>2 DEF After
  <2>3. IsBlock(row, c, k, S)
    BY <1>4, <1>9
  <2> HIDE DEF row, read
  <2>4. row \in Seq(S) /\ Len(row) = l
    BY <2>3 DEF IsBlock, l
  <2>5. OutAfter(a0, row, 0) = <<>> \o one
    <3>1. w = Lesser(Len(row), n)
      BY <1>9, <2>4 DEF Lesser
    <3>2. row \in Seq(S) /\ a0.left = n /\ a0.out = <<>>
      BY <2>4
    <3> HIDE DEF a0
    <3> QED  BY <3>1, <3>2, OneMore
  <2>6. IsSlice(one, c, k * B, w, S)
    BY <1>1, <1>9, <2>3, BlockPiece DEF l
  <2>7. one \in Seq(S)
    BY <2>6 DEF IsSlice
  <2> HIDE DEF one
  <2> QED  BY <1>1, <1>6, <2>2, <2>5, <2>6, <2>7
<1>10. ASSUME hits = Line(k, 2), k \in 0..(N - 1), k + 1 \in 0..(N - 1),
              l = B, l2 \in Nat, B <= n, n - B \in Nat,
              w = B + (IF l2 <= n - B THEN l2 ELSE n - B)
       PROVE  IsSlice(read, c, at, w, S)
  <2>1. Len(hits) = 2 /\ hits[1] = k /\ hits[2] = k + 1
    <3> HIDE DEF hits
    <3> QED  BY <1>1, <1>10 DEF Line
  <2> DEFINE b1 == After(a0, row, 0)
  <2>2. read = OutAfter(b1, row2, 0)
    <3>1. read = a2(k, k + 1).out
      BY <1>3, <2>1
    <3>2. a1(k) = b1
      BY <1>5
    <3>3. a2(k, k + 1) = After(a1(k), row2, 0)
      OBVIOUS
    <3> HIDE DEF read, a0, a1, a2, b1, row2
    <3>4. read = After(b1, row2, 0).out
      BY <3>1, <3>2, <3>3
    <3> QED  BY <3>4 DEF After
  <2>3. IsBlock(row, c, k, S) /\ IsBlock(row2, c, k + 1, S)
    BY <1>4, <1>10
  <2> HIDE DEF row, row2, read
  <2>4. row \in Seq(S) /\ Len(row) = B /\ row2 \in Seq(S) /\ Len(row2) = l2
    BY <1>10, <2>3 DEF IsBlock, l, l2
  <2>5. OutAfter(a0, row, 0) = <<>> \o full
    <3>1. B = Lesser(Len(row), n)
      BY <1>10, <2>4 DEF Lesser
    <3>2. row \in Seq(S) /\ a0.left = n /\ a0.out = <<>>
      BY <2>4
    <3> HIDE DEF a0
    <3> QED  BY <3>1, <3>2, OneMore
  <2>6. IsSlice(full, c, k * B, B, S)
    BY <1>1, <1>7, <1>10, <2>3, BlockPiece DEF l
  <2>7. full \in Seq(S) /\ Len(full) = B /\ \A i \in 1..B : full[i] = c[at + i]
    BY <1>1, <2>6 DEF IsSlice
  <2> HIDE DEF full
  <2>8. OutAfter(a0, row, 0) = full
    BY <1>6, <2>5, <2>7
  <2>9. b1 = [left |-> n - B, out |-> full]
    <3>1. (n - B) % Word = n - B
      <4>1. n - B \in Nat /\ n - B < Word
        BY <1>7, <1>10, BlockAssumption
      <4> QED  BY <4>1, SmallRest
    <3>2. b1 = [left |-> (n - Len(full)) % Word, out |-> full]
      BY <2>8 DEF After
    <3> HIDE DEF b1
    <3> QED  BY <2>7, <3>1, <3>2
  <2> HIDE DEF b1
  <2> DEFINE more == w - B  rest == SubSeq(row2, 1, more)
  <2>10. more \in Nat /\ more = (IF l2 <= n - B THEN l2 ELSE n - B) /\ w = B + more /\ more <= l2
    BY <1>7, <1>10
  <2> HIDE DEF more
  <2>11. OutAfter(b1, row2, 0) = full \o rest
    <3>1. more = Lesser(Len(row2), n - B)
      BY <2>4, <2>10 DEF Lesser
    <3>2. row2 \in Seq(S) /\ b1.left = n - B /\ b1.left \in Nat /\ b1.out = full
      BY <1>10, <2>4, <2>9
    <3>3. more = Lesser(Len(row2), b1.left)
      BY <3>1, <3>2
    <3> QED  BY <3>2, <3>3, OneMore
  <2>12. read = full \o rest
    BY <2>2, <2>11
  <2>13. IsSlice(rest, c, (k + 1) * B, more, S)
    <3>1. k + 1 \in Nat
      BY <1>1
    <3> QED  BY <2>3, <2>10, <3>1, BlockPiece DEF l2
  <2>14. (k + 1) * B = at + B
    <3>1. k \in Int
      BY <1>1
    <3> QED  BY <1>1, <3>1, Successor
  <2>15. rest \in Seq(S) /\ Len(rest) = more /\ \A i \in 1..more : rest[i] = c[(at + B) + i]
    BY <2>13, <2>14 DEF IsSlice
  <2> HIDE DEF rest
  <2>16. read \in Seq(S) /\ Len(read) = B + more
         /\ \A i \in 1..(B + more) : read[i] = IF i <= B THEN full[i] ELSE rest[i - B]
    <3>1. full \in Seq(S) /\ rest \in Seq(S) /\ Len(full) = B /\ Len(rest) = more
      BY <2>7, <2>15
    <3>2. full \o rest \in Seq(S) /\ JoinedAs(full, rest, Len(full), Len(rest))
      BY <3>1, Joined
    <3> QED  BY <2>12, <3>1, <3>2 DEF JoinedAs
  <2>17. ASSUME NEW i \in 1..w
         PROVE  read[i] = c[at + i]
    <3>1. i \in 1..(B + more)
      BY <2>10
    <3>2. CASE i <= B
      <4>1. i \in 1..B
        BY <1>7, <2>10, <3>2
      <4> QED  BY <2>7, <2>16, <3>1, <3>2, <4>1
    <3>3. CASE ~(i <= B)
      <4>1. i - B \in 1..more /\ (at + B) + (i - B) = at + i
        BY <1>7, <2>10, <3>1, <3>3
      <4> QED  BY <2>15, <2>16, <3>1, <3>3, <4>1
    <3> QED  BY <3>2, <3>3
  <2>18. Len(read) = w
    BY <2>10, <2>16
  <2> QED  BY <2>16, <2>17, <2>18 DEF IsSlice
<1>11. IsSlice(read, c, at, w, S)
  BY <1>2, <1>8, <1>9, <1>10
<1> DEFINE slice == SubSeq(c, at + 1, Min({at + n, Len(c)}))
<1>12. IsSlice(slice, c, at, w, S)
  BY SliceIs DEF w
<1>13. read = slice
  <2> HIDE DEF read, slice
  <2> QED  BY <1>11, <1>12, SeqEqual DEF IsSlice
<1> QED  BY <1>13 DEF f
=============================================================================
