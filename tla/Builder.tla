------------------------------ MODULE Builder ------------------------------
(***************************************************************************)
(* BufferedSourceBuilder of buffered.rs: the knobs a caller sets in any    *)
(* order, and build, which clamps them in machine integers.                *)
(*                                                                         *)
(* BufferedSource computes the same knobs over the natural numbers; this   *)
(* module is where their width matters.                                    *)
(***************************************************************************)
EXTENDS Offsets

CONSTANTS
    UsizeSpan,     \* how many values a usize has; half of them fit an isize
    MinBlock,      \* 4096 in build
    MinTimeout,    \* 1 ms in build
    Sizes,         \* the sizes a caller passes
    Timeouts,      \* the durations a caller passes
    Parts,         \* the numerators and denominators a caller passes
    Default,       \* the knobs of BufferedSourceBuilder::default
    Checked        \* does arithmetic panic (debug) or wrap (release)?

VARIABLES
    knobs,         \* of the builder, and then of the source it built
    status         \* "unbuilt", "built", "failed" or "panicked"

vars == <<knobs, status>>

Init == knobs = Default /\ status = "unbuilt"

-----------------------------------------------------------------------------
(* The setters.                                                            *)

Set(k) == status = "unbuilt" /\ knobs' = k /\ UNCHANGED status

SetCapacity  == \E n \in Sizes : Set([knobs EXCEPT !.capacity = n])
SetBlockSize == \E n \in Sizes : Set([knobs EXCEPT !.block_size = n])
SetTimeout   == \E d \in Timeouts : Set([knobs EXCEPT !.prefetch_timeout = d])
SetLookback  ==
    \E num, den \in Parts :
        Set([knobs EXCEPT !.lookback_num = num, !.lookback_den = den])

-----------------------------------------------------------------------------
(* build                                                                   *)

sanitise_lookback(num, den) ==
    IF den = 0         THEN <<0, 1>>
    ELSE IF num >= den THEN <<den - 1, den>>
    ELSE                    <<num, den>>

block_size  == Larger(knobs.block_size, MinBlock)
four_blocks == (4 * block_size) % UsizeSpan
capacity    == Larger(knobs.capacity, four_blocks)
lookback    == sanitise_lookback(knobs.lookback_num, knobs.lookback_den)

(* What the ring keeps behind the reader: a u64 product that saturates.    *)
rear == Smaller(knobs.capacity * knobs.lookback_num, MaxOff)
            \div knobs.lookback_den

Wraps    == 4 * block_size >= UsizeSpan
TooLarge == capacity >= UsizeSpan \div 2    \* VecDeque::with_capacity panics

Panic ==
    /\ status = "unbuilt"
    /\ (Wraps /\ Checked) \/ TooLarge
    /\ status' = "panicked"
    /\ UNCHANGED knobs

(* The inner source's position, the seek to its end or the seek back.      *)
InnerFails ==
    /\ status = "unbuilt" /\ ~(Wraps /\ Checked)
    /\ status' = "failed"
    /\ UNCHANGED knobs

Build ==
    /\ status = "unbuilt" /\ ~(Wraps /\ Checked) /\ ~TooLarge
    /\ status' = "built"
    /\ knobs' = [capacity         |-> capacity,
                 block_size       |-> block_size,
                 prefetch_timeout |-> Larger(knobs.prefetch_timeout, MinTimeout),
                 lookback_num     |-> lookback[1],
                 lookback_den     |-> lookback[2]]

Done == status # "unbuilt" /\ UNCHANGED vars

Next == \/ SetCapacity \/ SetBlockSize \/ SetTimeout \/ SetLookback
        \/ Panic \/ InnerFails \/ Build \/ Done

Spec == Init /\ [][Next]_vars

-----------------------------------------------------------------------------
(* Properties.                                                             *)

(* However the knobs are set, a source that was built keeps less than all  *)
(* of its ring behind the reader: a full ring can be drained, so the loop  *)
(* of a read makes progress (buffered.rs:125-126, 479-480).  A block size  *)
(* whose fourfold wraps leaves a ring of no bytes.                         *)
ForwardWindow == status = "built" => rear < knobs.capacity

(* And it has room for four worker blocks (buffered.rs:128-129).           *)
RoomForFourBlocks ==
    status = "built" => knobs.capacity >= 4 * knobs.block_size
=============================================================================
