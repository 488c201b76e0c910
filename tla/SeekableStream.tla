--------------------------- MODULE SeekableStream ---------------------------
(***************************************************************************)
(* What every byte source of the crate promises its caller: one cursor     *)
(* over the bytes [0, end), read forward in pieces and moved by seeks, as  *)
(* the shared conformance suite (tests/conformance.rs) spells it out.      *)
(*                                                                         *)
(* Nothing of rings, threads, windows or segments is visible here; the     *)
(* modules that model those implement this one.  The length is fixed when  *)
(* the stream is made; a file behind it may be cut short later, and reads  *)
(* at the bytes that are gone then end early, like any other reader's.     *)
(***************************************************************************)
EXTENDS Offsets

CONSTANTS
    ReadSizes,    \* the non-zero buffer sizes a caller passes to read
    SeekFroms,    \* the SeekFrom values a caller passes to seek
    Failures      \* error kinds a read may surface

VARIABLES
    end,          \* length of the stream, fixed while it is open
    missing,      \* offsets below end whose bytes are gone from the store
    pos,          \* the cursor
    pending,      \* size of the read in progress, 0 when there is none
    closed,       \* the caller has dropped the source
    ret           \* outcome of the last completed call

vars == <<end, missing, pos, pending, closed, ret>>

Init ==
    /\ end \in Offset
    /\ missing = {}
    /\ pos \in Offset
    /\ pending = 0
    /\ closed = FALSE
    /\ ret = NoOutcome

BeginRead(k) ==
    /\ pending = 0 /\ ~closed
    /\ pending' = k
    /\ UNCHANGED <<end, missing, pos, closed, ret>>

(* Any non-empty prefix of what is left fits the contract of Read.         *)
Deliver ==
    /\ pending > 0 /\ pos < end
    /\ \E n \in 1 .. Smaller(pending, end - pos) :
          /\ pos .. pos + n - 1 \subseteq Offset \ missing
          /\ ret' = Outcome("bytes", Bytes(pos, n))
          /\ pos' = pos + n
    /\ pending' = 0
    /\ UNCHANGED <<end, missing, closed>>

AtEnd ==
    /\ pending > 0
    /\ pos >= end \/ pos \in missing
    /\ ret' = Outcome("eof", <<>>)
    /\ pending' = 0
    /\ UNCHANGED <<end, missing, pos, closed>>

(* A failed read moves nothing.  A read at the end never times out: no     *)
(* byte is awaited there.                                                  *)
Fail ==
    /\ pending > 0
    /\ \/ \E e \in Failures : ret' = Outcome(e, <<>>)
       \/ pos < end /\ ret' = Outcome("TimedOut", <<>>)
    /\ pending' = 0
    /\ UNCHANGED <<end, missing, pos, closed>>

ReadEmpty ==
    /\ pending = 0 /\ ~closed
    /\ ret' = Outcome("empty", <<>>)
    /\ UNCHANGED <<end, missing, pos, pending, closed>>

Seek(from) ==
    /\ pending = 0 /\ ~closed
    /\ LET new == Resolve(from, pos, end) IN
          IF new = None
            THEN ret' = Outcome("InvalidInput", <<>>) /\ pos' = pos
            ELSE ret' = Outcome("seeked", <<>>) /\ pos' = new
    /\ UNCHANGED <<end, missing, pending, closed>>

Close ==
    /\ pending = 0 /\ ~closed
    /\ closed' = TRUE
    /\ UNCHANGED <<end, missing, pos, pending, ret>>

StoreChanges ==
    /\ missing' \subseteq 0 .. end - 1
    /\ UNCHANGED <<end, pos, pending, closed, ret>>

Next ==
    \/ \E k \in ReadSizes : BeginRead(k)
    \/ Deliver
    \/ AtEnd
    \/ Fail
    \/ ReadEmpty
    \/ \E from \in SeekFroms : Seek(from)
    \/ Close
    \/ StoreChanges

Spec == Init /\ [][Next]_vars
=============================================================================
