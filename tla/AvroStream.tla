----------------------------- MODULE AvroStream -----------------------------
(***************************************************************************)
(* lowlevel/avro.py: a dataframe is encoded record by record into a buffer *)
(* that an HTTP client (or ConnectionLocal.update_table) reads piecewise.  *)
(* The buffer is one BytesIO, rewound and overwritten each time it is used *)
(* up, so bytes of an earlier filling stay behind the new ones.            *)
(*                                                                         *)
(* A byte is its place in the whole encoding: the reader must get 1, 2, 3, *)
(* ... An operator Name_Fault is Name with one plausible mistake.          *)
(***************************************************************************)
EXTENDS Integers, Sequences

CONSTANTS
  NbRecords,    \* rows of the dataframe
  Ends,         \* Ends[k]: length of the header and the first k encoded records
  BufferSize,   \* _BUFFER_SIZE
  ReadSizes     \* the sizes the reader asks for; -1: all

ASSUME NbRecordsAssumption == NbRecords \in Nat
ASSUME BufferSizeAssumption == BufferSize \in Nat \ {0}
ASSUME ReadSizesAssumption == ReadSizes \subseteq Nat \cup {-1}

\* A header is never empty, and a record takes some bytes: its block has at
\* least a count, a size and the synchronisation marker.
ASSUME EndsAssumption ==
  /\ Ends \in [0..NbRecords -> Nat \ {0}]
  /\ \A j, k \in 0..NbRecords : j < k => Ends[j] < Ends[k]

VARIABLES
  buffer,   \* contents of the BytesIO, left-overs included
  pos,      \* its position
  len,      \* self.len: bytes not yet read
  records,  \* records taken from the generator
  out,      \* history: what the reader got
  last      \* history: the last read, its size and what it returned

vars == <<buffer, pos, len, records, out, last>>

Total == Ends[NbRecords]

\* The bytes after the i-th up to the j-th.
Bytes(i, j) == [k \in 1..(j - i) |-> i + k]

\* Writing at position 0 overwrites what is there and leaves the rest.
Overwrite(old, new) ==
  [k \in 1..(IF Len(old) > Len(new) THEN Len(old) ELSE Len(new)) |->
     IF k <= Len(new) THEN new[k] ELSE old[k]]

Smaller(a, b) == IF a < b THEN a ELSE b

-----------------------------------------------------------------------------
\* __init__: the header is written and the buffer rewound.
Init ==
  /\ buffer = Bytes(0, Ends[0])
  /\ pos = 0
  /\ len = Ends[0]
  /\ records = 0
  /\ out = << >>
  /\ last = [size |-> 0, bytes |-> << >>]

\* _next_bytes_in_buffer: what the read returns.
NextBytes_IgnoresLen(size) ==
  LET n == IF size >= 0 THEN size ELSE Len(buffer) - pos
  IN SubSeq(buffer, pos + 1, Smaller(pos + n, Len(buffer)))
NextBytes(size) ==
  LET n == Smaller(len, IF size >= 0 THEN size ELSE len)
  IN SubSeq(buffer, pos + 1, Smaller(pos + n, Len(buffer)))

\* The number of records after which a filling stops: the buffer is full enough
\* or the generator is exhausted.
FilledUpTo_OnlyOnce(k) == IF k = 0 /\ NbRecords > 0 THEN 1 ELSE k
FilledUpTo(k) ==
  CHOOSE m \in k..NbRecords :
    /\ m = NbRecords \/ Ends[m] - Ends[k] >= BufferSize
    /\ \A j \in k..(m - 1) : Ends[j] - Ends[k] < BufferSize

\* _fill_buffer
FillBuffer_NoRewind(n) ==
  LET new == Bytes(Ends[records], Ends[FilledUpTo(records)])
  IN /\ buffer' = Overwrite(buffer, new)
     /\ len' = Len(new)
     /\ records' = FilledUpTo(records)
     /\ pos' = pos + n
FillBuffer(n) ==
  LET new == Bytes(Ends[records], Ends[FilledUpTo(records)])
  IN /\ buffer' = Overwrite(buffer, new)
     /\ len' = Len(new)
     /\ records' = FilledUpTo(records)
     /\ pos' = 0

Read_FillsLate(size) ==
  LET got == NextBytes(size) IN
  /\ out' = out \o got
  /\ last' = [size |-> size, bytes |-> got]
  /\ IF len = 0
     THEN FillBuffer(Len(got))
     ELSE /\ len' = len - Len(got)
          /\ pos' = pos + Len(got)
          /\ UNCHANGED <<buffer, records>>

\* read: the bytes are taken first, then an empty buffer is filled again.
Read(size) ==
  LET got == NextBytes(size) IN
  /\ out' = out \o got
  /\ last' = [size |-> size, bytes |-> got]
  /\ IF len - Len(got) = 0
     THEN FillBuffer(Len(got))
     ELSE /\ len' = len - Len(got)
          /\ pos' = pos + Len(got)
          /\ UNCHANGED <<buffer, records>>

Next == \E size \in ReadSizes : Read(size)

Spec == Init /\ [][Next]_vars

\* The client reads on until it has it all.
FairSpec == Spec /\ \A size \in ReadSizes \ {0} : WF_vars(Read(size))

-----------------------------------------------------------------------------
(* Properties. *)

\* The state keeps its shape, and len never promises more than the buffer has.
TypeOK ==
  /\ buffer \in Seq(1..Total)
  /\ pos \in Nat
  /\ len \in Nat
  /\ pos + len <= Len(buffer)
  /\ records \in 0..NbRecords
  /\ out \in Seq(1..Total)
  /\ last.size \in ReadSizes \cup {0}
  /\ last.bytes \in Seq(1..Total)

\* The reader gets the bytes of the encoding in order, none twice, none missing,
\* and never a left-over of an earlier filling.
InOrder == \A i \in 1..Len(out) : out[i] = i

\* A read that returns nothing means the end: this is where httpx and
\* ConnectionLocal.update_table stop.
EmptyMeansEnd == last.size # 0 /\ last.bytes = << >> => Len(out) = Total

\* A reader that goes on gets everything.
AllIsRead == <>(Len(out) = Total)
=============================================================================
