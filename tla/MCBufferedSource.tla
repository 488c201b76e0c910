-------------------------- MODULE MCBufferedSource --------------------------
(***************************************************************************)
(* Small instances of BufferedSource for TLC.                              *)
(***************************************************************************)
EXTENDS BufferedSource

Start(n)   == [whence |-> "Start",   off |-> n]
Current(d) == [whence |-> "Current", off |-> d]
FromEnd(d) == [whence |-> "End",     off |-> d]

(* Both ends of the stream and of the offset range, a short step back (the *)
(* lookback), a step that may or may not leave the window, two that always *)
(* overflow or underflow.                                                  *)
MCSeeks == {Start(0), Start(3), Current(-1), Current(2),
            FromEnd(0), FromEnd(1), FromEnd(-TotalLen - 1)}

(* An interrupted seek needs the restarting and in-window cases only.      *)
MCFewSeeks == {Start(0), Current(1), FromEnd(0)}
=============================================================================
