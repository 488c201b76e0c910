------------------------------ MODULE Offsets ------------------------------
(***************************************************************************)
(* Byte offsets and seek arithmetic shared by every stream of the crate.   *)
(*                                                                         *)
(* A byte of a stream is represented by the absolute offset it comes from, *)
(* so a byte served from the wrong place is a wrong value and not only a   *)
(* wrong count.  MaxOff stands for u64::MAX.                               *)
(***************************************************************************)
EXTENDS Integers, Sequences

CONSTANT MaxOff        \* the largest offset a u64 holds (scaled down for TLC)

ASSUME MaxOffAssumption == MaxOff \in Nat

Offset == 0 .. MaxOff

(* The `None` of the Option<u64> fields, and a seek that cannot resolve.   *)
None == -1

(* The n bytes found from offset off on.                                   *)
Bytes(off, n) == [i \in 1 .. n |-> off + i - 1]

(* What a call returned: its kind, and the bytes a read filled in.         *)
Outcome(kind, data) == [kind |-> kind, data |-> data]
NoOutcome           == Outcome("none", <<>>)

Smaller(a, b) == IF a <= b THEN a ELSE b
Larger(a, b)  == IF a >= b THEN a ELSE b

(* checked_add / checked_sub of a signed delta: both ends of u64 fail.     *)
add_signed(base, delta) ==
    IF base + delta \in Offset THEN base + delta ELSE None

(* A SeekFrom value: Start carries an offset, Current and End a delta.     *)
SeekFrom == [whence : {"Start"}, off : Offset]
              \union [whence : {"Current", "End"}, off : Int]

(* The offset `from` asks for when the cursor is at cur and the stream     *)
(* ends at end; None when it lies before 0 or past u64::MAX.               *)
Resolve(from, cur, end) ==
    CASE from.whence = "Start"   -> from.off
      [] from.whence = "Current" -> add_signed(cur, from.off)
      [] from.whence = "End"     -> add_signed(end, from.off)
=============================================================================
