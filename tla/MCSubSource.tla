---------------------------- MODULE MCSubSource ----------------------------
(***************************************************************************)
(* Small instances of SubSource for TLC.                                   *)
(***************************************************************************)
EXTENDS SubSource

Start(n)   == [whence |-> "Start",   off |-> n]
Current(d) == [whence |-> "Current", off |-> d]
FromEnd(d) == [whence |-> "End",     off |-> d]

(* The whole source, a prefix, a middle, a suffix, nothing at either end,  *)
(* one byte too many, and two whose end overflows.                         *)
MCWindows == {<<0, 5>>, <<0, 3>>, <<2, 2>>, <<1, 4>>, <<0, 0>>, <<5, 0>>,
              <<3, 3>>, <<5, 3>>, <<7, 7>>}

MCSeeks == {Start(0), Start(7), Current(-1), Current(2),
            FromEnd(-1), FromEnd(3)}
=============================================================================
