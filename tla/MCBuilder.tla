----------------------------- MODULE MCBuilder -----------------------------
(***************************************************************************)
(* A small instance of Builder for TLC: a usize of six bits, in a build    *)
(* that wraps, and a caller who may ask for a block of a quarter of it.    *)
(***************************************************************************)
EXTENDS Builder

MCDefault == [capacity |-> 8, block_size |-> 2, prefetch_timeout |-> 30,
              lookback_num |-> 1, lookback_den |-> 8]
=============================================================================
