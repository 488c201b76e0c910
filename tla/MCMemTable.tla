----------------------------- MODULE MCMemTable -----------------------------
(***************************************************************************)
(* A small instance of MemTable for TLC.                                   *)
(***************************************************************************)
EXTENDS MemTable, TLC

MCBuffers == {[tag |-> "old", len |-> 2], [tag |-> "new", len |-> 1]}

MCSeeks == {[whence |-> "Start", off |-> 3], [whence |-> "Current", off |-> -1],
            [whence |-> "End", off |-> 0]}

(* Only safety is checked: cells and readers may be exchanged.             *)
MCSymmetry == Permutations(Cells) \union Permutations(Readers)
=============================================================================
