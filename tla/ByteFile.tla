------------------------------ MODULE ByteFile ------------------------------
(***************************************************************************)
(* What a file promises: a sequence of bytes that a write overwrites or    *)
(* extends, a truncation cuts or pads, and a read returns a slice of.      *)
(*                                                                         *)
(* MyFS pads with spaces where POSIX has zero bytes; Blank is that byte.   *)
(***************************************************************************)
EXTENDS Integers, Sequences, FiniteSetsExt

CONSTANTS
    Data,       \* the byte sequences a write may carry
    Offsets,    \* the offsets and sizes a request may name
    Blank       \* the byte a gap is filled with

VARIABLES
    content,    \* the bytes of the file
    last        \* the last request and its answer

Overwrite(c, at, d) ==
    [i \in 1..Max({Len(c), at + Len(d)}) |->
        CASE i \in (at + 1)..(at + Len(d)) -> d[i - at]
          [] i \in DOMAIN c /\ i \notin (at + 1)..(at + Len(d)) -> c[i]
          [] OTHER -> Blank]

Resize(c, n) == [i \in 1..n |-> IF i \in DOMAIN c THEN c[i] ELSE Blank]

(* What a read of n bytes gives *)
Slice(c, at, n) == SubSeq(c, at + 1, Min({at + n, Len(c)}))

NoRequest == [op |-> "none"]

Init == content = <<>> /\ last = NoRequest

(* An answer is a success or, if nothing changed, an error. *)
Write(at, d) ==
    \E ok \in BOOLEAN :
        /\ last' = [op |-> "write", at |-> at, data |-> d, ok |-> ok]
        /\ content' = IF ok THEN Overwrite(content, at, d) ELSE content

Truncate(n) ==
    \E ok \in BOOLEAN :
        /\ last' = [op |-> "truncate", at |-> n, ok |-> ok]
        /\ content' = IF ok THEN Resize(content, n) ELSE content

Next ==
    \/ \E at \in Offsets, d \in Data : Write(at, d)
    \/ \E n \in Offsets : Truncate(n)

Spec == Init /\ [][Next]_<<content, last>>
=============================================================================
