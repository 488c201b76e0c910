--------------------------- MODULE MCConcatSource ---------------------------
(***************************************************************************)
(* Small instances of ConcatSource for TLC.                                *)
(***************************************************************************)
EXTENDS ConcatSource

Start(n)   == [whence |-> "Start",   off |-> n]
Current(d) == [whence |-> "Current", off |-> d]
FromEnd(d) == [whence |-> "End",     off |-> d]

MCSeeks == {Start(0), Start(3), Current(-1), FromEnd(1)}
=============================================================================
