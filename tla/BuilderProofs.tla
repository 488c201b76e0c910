--------------------------- MODULE BuilderProofs ---------------------------
(***************************************************************************)
(* Proofs about Builder: what build promises of every setting of the knobs *)
(* whose fourfold block does not wrap, and of all settings where           *)
(* arithmetic is checked.                                                  *)
(***************************************************************************)
EXTENDS Builder, TLAPS

Knobs == [capacity : Nat, block_size : Nat, prefetch_timeout : Nat,
          lookback_num : Nat, lookback_den : Nat]

(* What the types of the Rust code say of the constants.                   *)
Machine ==
    /\ UsizeSpan \in Nat /\ MinBlock \in Nat \ {0} /\ MinTimeout \in Nat
    /\ Sizes \subseteq Nat /\ Timeouts \subseteq Nat /\ Parts \subseteq Nat
    /\ Default \in Knobs

(* The callers ask for no block of a quarter of the address space.         *)
SmallBlocks ==
    \A n \in Sizes \union {Default.block_size, MinBlock} : 4 * n < UsizeSpan

BlockFits == Checked \/ ~Wraps

(* The inductive invariant: until build has run the block on order does    *)
(* not wrap unseen; what build leaves behind is clamped.                   *)
BInv ==
    /\ knobs \in Knobs
    /\ status = "unbuilt" => BlockFits
    /\ ForwardWindow /\ RoomForFourBlocks

-----------------------------------------------------------------------------
(* A saturated product divided is no more than the product divided, which  *)
(* is less than the number a proper fraction was taken of.                 *)
LEMMA SaturatedFraction ==
    ASSUME NEW c \in Nat \ {0}, NEW n \in Nat, NEW d \in Nat \ {0}, n < d,
           NEW m \in Nat
    PROVE  Smaller(c * n, m) \div d < c
<1> DEFINE p == Smaller(c * n, m)
           q == p \div d
<1>1. c * n \in Nat
  OBVIOUS
<1>2. p \in Nat /\ p <= c * n
  BY <1>1 DEF Smaller
<1>3. q \in Nat /\ q * d <= p
  BY <1>2, SMT
<1>4. c * n < c * d
  BY SMT
<1>5. q >= c => q * d >= c * d
  BY <1>3, SMT
<1>6. c * d \in Nat /\ q * d \in Nat
  BY <1>3, SMT
<1>7. QED
  BY <1>1, <1>2, <1>3, <1>4, <1>5, <1>6

(* The step that matters: build, from knobs whose block fits.              *)
LEMMA BuildClamps ==
    ASSUME Machine, knobs \in Knobs, BlockFits, Build
    PROVE  BInv'
<1> USE DEF Machine
<1>1. /\ block_size \in Nat \ {0}
      /\ 4 * block_size < UsizeSpan
  BY DEF Build, BlockFits, Wraps, block_size, Larger, Knobs
<1>2. four_blocks = 4 * block_size
  BY <1>1 DEF four_blocks
<1>3. capacity \in Nat \ {0} /\ capacity >= 4 * block_size
  BY <1>1, <1>2 DEF capacity, Larger, Knobs
<1>4. /\ lookback[1] \in Nat /\ lookback[2] \in Nat \ {0}
      /\ lookback[1] < lookback[2]
  BY DEF lookback, sanitise_lookback, Knobs
<1>5. Larger(knobs.prefetch_timeout, MinTimeout) \in Nat
  BY DEF Larger, Knobs
<1>6. /\ knobs'.capacity = capacity /\ knobs'.block_size = block_size
      /\ knobs'.lookback_num = lookback[1] /\ knobs'.lookback_den = lookback[2]
      /\ status' = "built"
  BY DEF Build
<1>7. knobs' \in Knobs
  BY <1>1, <1>3, <1>4, <1>5 DEF Build, Knobs
<1>8. rear' < knobs'.capacity
  BY <1>3, <1>4, <1>6, SaturatedFraction, MaxOffAssumption DEF rear
<1>9. QED
  BY <1>3, <1>6, <1>7, <1>8 DEF BInv, ForwardWindow, RoomForFourBlocks

(* A setter keeps the block small enough and leaves nothing built.         *)
LEMMA SetKeeps ==
    ASSUME Machine, Checked \/ SmallBlocks, BInv,
           SetCapacity \/ SetBlockSize \/ SetTimeout \/ SetLookback
    PROVE  BInv'
<1> USE DEF Machine, Knobs, Set
<1>1. status = "unbuilt" /\ status' = "unbuilt"
  BY DEF SetCapacity, SetBlockSize, SetTimeout, SetLookback
<1>2. knobs' \in Knobs
  BY DEF BInv, SetCapacity, SetBlockSize, SetTimeout, SetLookback
<1>3. knobs'.block_size \in Sizes \union {knobs.block_size}
  BY DEF BInv, SetCapacity, SetBlockSize, SetTimeout, SetLookback
<1>4. BlockFits'
  <2>1. CASE Checked
    BY <2>1 DEF BlockFits
  <2>2. CASE SmallBlocks
    BY <1>1, <1>2, <1>3, <2>2
       DEF BInv, BlockFits, Wraps, block_size, Larger, SmallBlocks
  <2>3. QED
    BY <2>1, <2>2
<1>5. QED
  BY <1>1, <1>2, <1>4 DEF BInv, ForwardWindow, RoomForFourBlocks

(* If arithmetic is checked, or nobody asks for a block of a quarter of    *)
(* the address space, every source that build returns has room for four    *)
(* blocks and a ring that can be drained, however the knobs were set.      *)
THEOREM ClampsHold ==
    ASSUME Machine, Checked \/ SmallBlocks
    PROVE  Spec => [](ForwardWindow /\ RoomForFourBlocks)
<1>1. Init => BInv
  BY DEF Init, BInv, Machine, BlockFits, Wraps, block_size, Larger,
         SmallBlocks, ForwardWindow, RoomForFourBlocks, Knobs
<1>2. BInv /\ [Next]_vars => BInv'
  <2> SUFFICES ASSUME BInv, [Next]_vars PROVE BInv'
    OBVIOUS
  <2>1. CASE SetCapacity \/ SetBlockSize \/ SetTimeout \/ SetLookback
    BY <2>1, SetKeeps
  <2>2. CASE Build
    BY <2>2, BuildClamps DEF Build, BInv
  <2>3. CASE Panic \/ InnerFails
    BY <2>3 DEF Panic, InnerFails, BInv, ForwardWindow, RoomForFourBlocks
  <2>4. CASE Done \/ UNCHANGED vars
    BY <2>4 DEF Done, vars, BInv, ForwardWindow, RoomForFourBlocks, BlockFits,
                Wraps, block_size, rear
  <2>5. QED
    BY <2>1, <2>2, <2>3, <2>4 DEF Next
<1>3. BInv => ForwardWindow /\ RoomForFourBlocks
  BY DEF BInv
<1>4. QED
  BY <1>1, <1>2, <1>3, PTL DEF Spec
=============================================================================
