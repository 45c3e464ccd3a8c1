--------------------------- MODULE CircularBuffer ---------------------------
(***************************************************************************)
(* The circular buffer of numbers that keeps the last measurements of a    *)
(* worker (src/circular-buffer.ts): a fixed array and two indexes that     *)
(* wrap.  A put on a full buffer forgets the oldest number.                *)
(*                                                                         *)
(* The array is a Float32Array: what it holds of a number is the number    *)
(* rounded to single precision.  The pool never calls get nor clear.       *)
(***************************************************************************)
EXTENDS Integers, Sequences

CONSTANTS
    BufferSize,  \* the length of the array
    Number,      \* the numbers that are put in it
    Float32      \* what the array holds of each

ASSUME BufferAssumption ==
    /\ BufferSize \in Nat \ {0}
    /\ Number \subseteq Nat
    /\ Float32 \in [Number -> Nat]

Index == 0..BufferSize-1

Buffer == [readIdx : Index, writeIdx : Index, items : [Index -> Int],
           size : 0..BufferSize]

EmptyBuffer == [readIdx |-> 0, writeIdx |-> 0, items |-> [i \in Index |-> 0],
                size |-> 0]

Full(b) == b.size = BufferSize

Following(i) == IF i = BufferSize - 1 THEN 0 ELSE i + 1

PutKeepingOldest(b, number) ==  \* faulty: the oldest number is not forgotten
    [readIdx |-> b.readIdx,
     writeIdx |-> Following(b.writeIdx),
     items |-> [b.items EXCEPT ![b.writeIdx] = Float32[number]],
     size |-> IF Full(b) THEN b.size ELSE b.size + 1]

Put(b, number) ==
    [readIdx |-> IF Full(b) THEN Following(b.readIdx) ELSE b.readIdx,
     writeIdx |-> Following(b.writeIdx),
     items |-> [b.items EXCEPT ![b.writeIdx] = Float32[number]],
     size |-> IF Full(b) THEN b.size ELSE b.size + 1]

(* The index n steps after i, n at most the length of the array *)
After(i, n) == IF i + n < BufferSize THEN i + n ELSE i + n - BufferSize

(* toArray: the numbers from the oldest to the newest *)
ToArray(b) == [n \in 1..b.size |-> b.items[After(b.readIdx, n - 1)]]

-----------------------------------------------------------------------------
(* What a buffer promises: it is the window of the last numbers put in it, *)
(* rounded                                                                 *)

(* The next number is written behind the newest one *)
BufferInv(b) == b \in Buffer /\ b.writeIdx = After(b.readIdx, b.size)

WindowAppend(window, number) ==
    IF Len(window) = BufferSize THEN Append(Tail(window), Float32[number])
    ELSE Append(window, Float32[number])
=============================================================================
