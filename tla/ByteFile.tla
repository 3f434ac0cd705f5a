------------------------------ MODULE ByteFile ------------------------------
(***************************************************************************)
(* What a file promises to whoever writes and truncates it: one array of   *)
(* bytes, zero wherever nothing was written since the array last grew over *)
(* it.  MemFiles carries this array along and is compared with it.         *)
(***************************************************************************)
EXTENDS Integers, Sequences

VARIABLE data

(* the array after b is written at offset o                                *)
Overwritten(d, o, b) ==
    [i \in 1 .. (IF o + Len(b) > Len(d) THEN o + Len(b) ELSE Len(d)) |->
        IF i > o /\ i <= o + Len(b) THEN b[i - o]
        ELSE IF i <= Len(d) THEN d[i] ELSE 0]

Resized(d, n) == [i \in 1 .. n |-> IF i <= Len(d) THEN d[i] ELSE 0]

FileInit == data = <<>>

WriteBytes(o, b) == data' = Overwritten(data, o, b)
SetLength(n) == data' = Resized(data, n)
=============================================================================
