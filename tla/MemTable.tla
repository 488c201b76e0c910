------------------------------ MODULE MemTable ------------------------------
(***************************************************************************)
(* The mem:// driver of mem.rs: a process-wide table of named buffers that *)
(* any thread may change, and the readers opened on them.  The table and   *)
(* its readers share buffers (Arc): a reader's buffer outlives its entry   *)
(* in the table.  That the memory of a buffer is not used again while one  *)
(* of them refers to it is Arc's promise, taken here as what Free means.   *)
(*                                                                         *)
(* Each table operation holds the table's lock throughout and is one       *)
(* action; a reader's calls interleave with them in any order.  An         *)
(* operator named Buggy... is the one that follows it with a plausible     *)
(* mistake, kept to check that the properties notice.                      *)
(***************************************************************************)
EXTENDS Offsets

CONSTANTS
    Ids,            \* names a caller may put a buffer under
    OpenableIds,    \* those open_mem accepts: not empty, without a slash
    Buffers,        \* what may be put: a tag that tells contents apart, a length
    Cells,          \* memory for buffers: bounds how many are alive at once
    Nowhere,        \* no cell
    Readers,        \* places for readers a caller holds
    ReadSizes,      \* the non-zero buffer sizes a caller passes to read
    SeekFroms       \* the SeekFrom values a caller passes to seek

ASSUME TableAssumption ==
    /\ OpenableIds \subseteq Ids
    /\ \A b \in Buffers : b = [tag |-> b.tag, len |-> b.len] /\ b.len \in Offset
    /\ Nowhere \notin Cells

ASSUME CallerAssumption ==
    ReadSizes \subseteq Nat \ {0} /\ SeekFroms \subseteq SeekFrom

VARIABLES
    table,          \* the cell each name stands for, or Nowhere
    content,        \* what each cell holds, or held when it was freed
    buf,            \* the cell each reader reads, Nowhere for none
    pos,            \* each reader's cursor
    want,           \* length of the buffer of its read in progress, else 0
    ret             \* outcome of the last call made with it

reader == <<buf, pos, want, ret>>
vars   == <<table, content, buf, pos, want, ret>>

Free ==
    {c \in Cells : /\ \A id \in Ids : table[id] # c
                   /\ \A r \in Readers : buf[r] # c}
Open == {r \in Readers : buf[r] # Nowhere}

Init ==
    /\ table = [id \in Ids |-> Nowhere]
    /\ content \in [Cells -> Buffers]
    /\ buf = [r \in Readers |-> Nowhere]
    /\ pos = [r \in Readers |-> 0]
    /\ want = [r \in Readers |-> 0]
    /\ ret = [r \in Readers |-> NoOutcome]

-----------------------------------------------------------------------------
(* The table.                                                              *)

(* put makes a new buffer, whatever the name stood for; readers of that    *)
(* keep it.  (The mistake is to write over what is there.)                 *)
Buggy_NewCells(id) == IF table[id] \in Cells THEN {table[id]} ELSE Free
NewCells(id)       == Free

Put(id) ==
    /\ \E c \in NewCells(id), b \in Buffers :
          /\ table' = [table EXCEPT ![id] = c]
          /\ content' = [content EXCEPT ![c] = b]
    /\ UNCHANGED reader

(* remove of a name that stands for nothing changes nothing (its answer,   *)
(* whether there was a buffer, is not kept).                               *)
Remove(id) ==
    /\ table' = [table EXCEPT ![id] = Nowhere]
    /\ UNCHANGED <<content, reader>>

Clear ==
    /\ table' = [id \in Ids |-> Nowhere]
    /\ UNCHANGED <<content, reader>>

OpenMem(r, id) ==
    /\ r \notin Open
    /\ id \in OpenableIds /\ table[id] # Nowhere
    /\ buf' = [buf EXCEPT ![r] = table[id]]
    /\ UNCHANGED <<table, content, pos, want, ret>>

(* A malformed name is refused before the table is looked at.              *)
OpenFails(r, id) ==
    /\ r \notin Open
    /\ \/ id \notin OpenableIds /\ ret' = [ret EXCEPT ![r] = Outcome("Invalid", <<>>)]
       \/ /\ id \in OpenableIds /\ table[id] = Nowhere
          /\ ret' = [ret EXCEPT ![r] = Outcome("NotFound", <<>>)]
    /\ UNCHANGED <<table, content, buf, pos, want>>

-----------------------------------------------------------------------------
(* A reader.                                                               *)

Idle(r) == r \in Open /\ want[r] = 0

len(r) == content[buf[r]].len

(* The bytes of a cell are told apart by the tag of what it holds.         *)
BytesOf(c, off, n) == [k \in 1 .. n |-> <<content[c].tag, off + k - 1>>]

Return(r, outcome) ==
    /\ ret' = [ret EXCEPT ![r] = outcome]
    /\ want' = [want EXCEPT ![r] = 0]

ReadCall(r, k) ==
    /\ Idle(r)
    /\ want' = [want EXCEPT ![r] = k]
    /\ UNCHANGED <<table, content, buf, pos, ret>>

ReadEmpty(r) ==
    /\ Idle(r)
    /\ Return(r, Outcome("empty", <<>>))
    /\ UNCHANGED <<table, content, buf, pos>>

ReadEnds(r) ==
    /\ want[r] > 0 /\ pos[r] >= len(r)
    /\ Return(r, Outcome("eof", <<>>))
    /\ UNCHANGED <<table, content, buf, pos>>

(* A read is never shorter than it has to be.                              *)
Buggy_Served(r) == want[r]
Served(r)       == Smaller(want[r], len(r) - pos[r])

ReadBytes(r) ==
    /\ want[r] > 0 /\ pos[r] < len(r)
    /\ Return(r, Outcome("bytes", BytesOf(buf[r], pos[r], Served(r))))
    /\ pos' = [pos EXCEPT ![r] = @ + Served(r)]
    /\ UNCHANGED <<table, content, buf>>

SeekTo(r, from) == Resolve(from, pos[r], len(r))

SeekRefused(r, from) ==
    /\ Idle(r) /\ SeekTo(r, from) = None
    /\ Return(r, Outcome("InvalidInput", <<>>))
    /\ UNCHANGED <<table, content, buf, pos>>

Seek(r, from) ==
    /\ Idle(r) /\ SeekTo(r, from) # None
    /\ pos' = [pos EXCEPT ![r] = SeekTo(r, from)]
    /\ Return(r, Outcome("seeked", <<>>))
    /\ UNCHANGED <<table, content, buf>>

(* The reader is dropped.                                                  *)
Close(r) ==
    /\ Idle(r)
    /\ buf' = [buf EXCEPT ![r] = Nowhere]
    /\ pos' = [pos EXCEPT ![r] = 0]
    /\ ret' = [ret EXCEPT ![r] = NoOutcome]
    /\ UNCHANGED <<table, content, want>>

-----------------------------------------------------------------------------
TableStep == Clear \/ \E id \in Ids : Put(id) \/ Remove(id)

ReaderStep(r) ==
    \/ \E id \in Ids : OpenMem(r, id) \/ OpenFails(r, id)
    \/ \E k \in ReadSizes : ReadCall(r, k)
    \/ ReadEmpty(r) \/ ReadEnds(r) \/ ReadBytes(r)
    \/ \E from \in SeekFroms : SeekRefused(r, from) \/ Seek(r, from)
    \/ Close(r)

Next == TableStep \/ \E r \in Readers : ReaderStep(r)

Spec == Init /\ [][Next]_vars

-----------------------------------------------------------------------------
(* Properties.                                                             *)

Byte  == {b.tag : b \in Buffers} \X Nat
Kinds == {"none", "bytes", "empty", "eof", "seeked",
          "Invalid", "NotFound", "InvalidInput"}

TypeOK ==
    /\ table \in [Ids -> Cells \union {Nowhere}]
    /\ content \in [Cells -> Buffers]
    /\ buf \in [Readers -> Cells \union {Nowhere}]
    /\ pos \in [Readers -> Offset]
    /\ want \in [Readers -> Nat]
    /\ ret \in [Readers -> [kind : Kinds, data : Seq(Byte)]]

(* With no reader in its place a call has nothing to read from.            *)
ClosedAreIdle == \A r \in Readers : want[r] > 0 => r \in Open

(* The inductive invariant.                                                *)
IInv == TypeOK /\ ClosedAreIdle

(* A reader's outcome with bytes of the buffer it reads by their offsets.  *)
Seen(r, outcome) ==
    [outcome EXCEPT !.data = [k \in DOMAIN @ |->
        IF @[k][1] = content[buf[r]].tag THEN @[k][2] ELSE None]]

Stream(r) == INSTANCE SeekableStream WITH
    end      <- len(r),
    missing  <- {},
    pos      <- pos[r],
    pending  <- want[r],
    closed   <- FALSE,
    Failures <- {},
    ret      <- Seen(r, ret[r])

(* What an open reader sees is the plain stream of the buffer it opened:   *)
(* no step, of the table or of another reader, changes a byte, the length  *)
(* or the cursor under it.                                                 *)
StaysOpen(r) == r \in Open /\ r \in Open'

ReadersAreStreams ==
    [][\A r \in Readers :
          StaysOpen(r) => [Stream(r)!Next]_(Stream(r)!vars)]_vars
=============================================================================
