-------------------------- MODULE Payloads_proofs --------------------------
(***************************************************************************)
(* Proofs about what is sent: AvroStream, for any dataframe, buffer size   *)
(* and sizes read, and Queries, for programs that build and edit any       *)
(* number of objects with any number of arguments.                         *)
(***************************************************************************)
EXTENDS AvroStream, Queries, SequenceTheorems, WellFoundedInduction, TLAPS

-----------------------------------------------------------------------------
(* AvroStream. *)

\* A filling takes at least one record if there is one.
LEMMA Filling ==
  ASSUME NEW k \in 0..NbRecords
  PROVE  /\ FilledUpTo(k) \in k..NbRecords
         /\ FilledUpTo(k) = k => k = NbRecords
<1> DEFINE Full(m) == m = NbRecords \/ Ends[m] - Ends[k] >= BufferSize
           Stops == {m \in k..NbRecords : Full(m)}
           R == {ss \in Nat \X Nat : ss[1] < ss[2]}
<1>1. IsWellFoundedOn(R, Nat)
  <2>1. OpToRel(<, Nat) = R
    BY DEF OpToRel
  <2> QED
    BY <2>1, NatLessThanWellFounded
<1>2. Stops \subseteq Nat /\ NbRecords \in Stops
  BY NbRecordsAssumption
<1>3. PICK m \in Stops : \A j \in Stops : ~(<<j, m>> \in R)
  BY <1>1, <1>2, WFMin
<1>4. \A j \in k..(m - 1) : Ends[j] - Ends[k] < BufferSize
  <2> SUFFICES ASSUME NEW j \in k..(m - 1) PROVE Ends[j] - Ends[k] < BufferSize
    OBVIOUS
  <2>1. j < m /\ j \in Nat /\ m \in Nat /\ j \in k..NbRecords
    BY <1>2, NbRecordsAssumption
  <2>2. j \notin Stops
    BY <1>3, <2>1
  <2> QED
    BY <2>1, <2>2, EndsAssumption, BufferSizeAssumption, NbRecordsAssumption
<1>5. /\ FilledUpTo(k) \in k..NbRecords
      /\ Full(FilledUpTo(k))
  BY <1>3, <1>4 DEF FilledUpTo
<1> QED
  BY <1>5, EndsAssumption, BufferSizeAssumption, NbRecordsAssumption

LEMMA TotalIsLargest ==
  /\ Total \in Nat \ {0}
  /\ \A k \in 0..NbRecords : Ends[k] \in Nat \ {0} /\ Ends[k] <= Total
BY EndsAssumption, NbRecordsAssumption DEF Total

\* Bytes(i, j) is the part of the encoding between two places of it.
LEMMA BytesProperties ==
  ASSUME NEW i \in 0..Total, NEW j \in 0..Total, i <= j
  PROVE  /\ Bytes(i, j) \in Seq(1..Total)
         /\ Len(Bytes(i, j)) = j - i
         /\ \A k \in 1..(j - i) : Bytes(i, j)[k] = i + k
<1>1. Total \in Nat
  BY TotalIsLargest
<1>2. \A k \in 1..(j - i) : i + k \in 1..Total
  BY <1>1
<1> QED
  BY <1>1, <1>2, IsASeq DEF Bytes

LEMMA OverwriteProperties ==
  ASSUME NEW old \in Seq(1..Total), NEW new \in Seq(1..Total)
  PROVE  /\ Overwrite(old, new) \in Seq(1..Total)
         /\ Len(Overwrite(old, new)) >= Len(new)
         /\ \A k \in 1..Len(new) : Overwrite(old, new)[k] = new[k]
<1> DEFINE n == IF Len(old) > Len(new) THEN Len(old) ELSE Len(new)
<1>1. n \in Nat /\ Len(new) \in Nat /\ n >= Len(new)
  BY LenProperties
<1>2. \A k \in 1..n : (IF k <= Len(new) THEN new[k] ELSE old[k]) \in 1..Total
  <2>1. Len(old) \in Nat /\ n \in {Len(old), Len(new)}
    BY LenProperties
  <2> HIDE DEF n
  <2> SUFFICES ASSUME NEW k \in 1..n
               PROVE  (IF k <= Len(new) THEN new[k] ELSE old[k]) \in 1..Total
    OBVIOUS
  <2>2. CASE k <= Len(new)
    <3>1. k \in 1..Len(new)
      BY <1>1, <2>2
    <3> QED
      BY <2>2, <3>1, ElementOfSeq
  <2>3. CASE ~(k <= Len(new))
    <3>1. k \in 1..Len(old)
      BY <1>1, <2>1, <2>3
    <3> QED
      BY <2>3, <3>1, ElementOfSeq
  <2> QED
    BY <2>2, <2>3
<1>3. Overwrite(old, new) = [k \in 1..n |-> IF k <= Len(new) THEN new[k] ELSE old[k]]
  BY DEF Overwrite
<1>4. Overwrite(old, new) \in Seq(1..Total) /\ Len(Overwrite(old, new)) = n
  <2> HIDE DEF n
  <2> QED
    BY <1>1, <1>2, <1>3, IsASeq
<1>5. \A k \in 1..Len(new) : Overwrite(old, new)[k] = new[k]
  <2> HIDE DEF n
  <2> QED
    BY <1>1, <1>3
<1> QED
  BY <1>1, <1>4, <1>5

\* What is still to be read lies ahead of pos, right after what was read, up to
\* the last record taken; when nothing is left to read, no record is either.
Ahead ==
  /\ Len(out) + len = Ends[records]
  /\ \A i \in 1..len : buffer[pos + i] = Len(out) + i
  /\ len = 0 => records = NbRecords

IInv == TypeOK /\ Ahead /\ InOrder /\ EmptyMeansEnd

LEMMA InitIInv == Init => IInv
<1> SUFFICES ASSUME Init PROVE IInv
  OBVIOUS
<1>1. 0 \in 0..Total /\ Ends[0] \in 0..Total /\ Ends[0] # 0 /\ 0 \in 0..NbRecords
  BY TotalIsLargest, NbRecordsAssumption
<1>2. /\ buffer \in Seq(1..Total) /\ Len(buffer) = Ends[0]
      /\ \A i \in 1..Ends[0] : buffer[i] = i
  <2>1. /\ Bytes(0, Ends[0]) \in Seq(1..Total)
        /\ Len(Bytes(0, Ends[0])) = Ends[0] - 0
        /\ \A k \in 1..(Ends[0] - 0) : Bytes(0, Ends[0])[k] = 0 + k
    <3>1. PICK e \in 0..Total : e = Ends[0]
      BY <1>1
    <3>2. 0 <= e
      BY <3>1, TotalIsLargest
    <3>3. /\ Bytes(0, e) \in Seq(1..Total)
          /\ Len(Bytes(0, e)) = e - 0
          /\ \A k \in 1..(e - 0) : Bytes(0, e)[k] = 0 + k
      BY ONLY <1>1, <3>2, BytesProperties
    <3> QED
      BY <3>1, <3>3
  <2>2. Ends[0] \in Nat
    BY <1>1, TotalIsLargest
  <2> QED
    BY <2>1, <2>2 DEF Init
<1>3. out = << >> /\ Len(out) = 0 /\ out \in Seq(1..Total) /\ last.bytes \in Seq(1..Total)
      /\ last.size = 0
  BY EmptySeq DEF Init
<1> QED
  BY <1>1, <1>2, <1>3 DEF Init, IInv, TypeOK, Ahead, InOrder, EmptyMeansEnd

\* A read returns the next bytes, and all of them when the buffer is used up.
LEMMA NextBytesProperties ==
  ASSUME IInv, NEW size \in Nat \cup {-1}
  PROVE  /\ NextBytes(size) \in Seq(1..Total)
         /\ Len(NextBytes(size)) \in 0..len
         /\ \A i \in 1..Len(NextBytes(size)) : NextBytes(size)[i] = Len(out) + i
         /\ NextBytes(size) = << >> => size = 0 \/ len = 0
<1> DEFINE n == Smaller(len, IF size >= 0 THEN size ELSE len)
<1>1. len \in Nat /\ pos \in Nat /\ pos + len <= Len(buffer) /\ buffer \in Seq(1..Total)
      /\ Len(buffer) \in Nat /\ Len(out) \in Nat
  BY LenProperties DEF IInv, TypeOK
<1>2. n \in 0..len /\ (n = 0 => size = 0 \/ len = 0)
  BY <1>1 DEF Smaller
<1>3. NextBytes(size) = SubSeq(buffer, pos + 1, pos + n)
  BY <1>1, <1>2 DEF NextBytes, Smaller
<1> HIDE DEF n
<1>4. \A i \in (pos + 1)..(pos + n) : buffer[i] \in 1..Total
  <2> SUFFICES ASSUME NEW i \in (pos + 1)..(pos + n) PROVE buffer[i] \in 1..Total
    OBVIOUS
  <2>1. i \in 1..Len(buffer)
    BY <1>1, <1>2
  <2> QED
    BY <1>1, <2>1, ElementOfSeq
<1>5. /\ NextBytes(size) \in Seq(1..Total)
      /\ Len(NextBytes(size)) = n
      /\ \A i \in 1..n : NextBytes(size)[i] = buffer[pos + i]
  <2>1. pos + 1 \in Int /\ pos + n \in Int
    BY <1>1, <1>2
  <2>2. /\ NextBytes(size) \in Seq(1..Total)
        /\ Len(NextBytes(size)) = IF pos + 1 <= pos + n THEN (pos + n) - (pos + 1) + 1 ELSE 0
        /\ \A i \in 1..((pos + n) - (pos + 1) + 1) :
              NextBytes(size)[i] = buffer[(pos + 1) + i - 1]
    BY <1>3, <1>4, <2>1, SubSeqProperties
  <2> QED
    BY <1>1, <1>2, <2>2
<1>6. NextBytes(size) = << >> => n = 0
  BY <1>5, EmptySeq
<1>7. \A i \in 1..n : i \in 1..len /\ buffer[pos + i] = Len(out) + i
  BY <1>1, <1>2 DEF IInv, Ahead
<1> QED
  BY <1>2, <1>5, <1>6, <1>7

LEMMA FillBufferProperties ==
  ASSUME IInv, NEW n \in Nat, FillBuffer(n)
  PROVE  /\ buffer' \in Seq(1..Total)
         /\ pos' = 0
         /\ len' \in Nat
         /\ len' <= Len(buffer')
         /\ records' \in 0..NbRecords
         /\ len' = Ends[records'] - Ends[records]
         /\ \A i \in 1..len' : buffer'[i] = Ends[records] + i
         /\ len' = 0 => records' = NbRecords
<1> DEFINE from == Ends[records]
           to == Ends[FilledUpTo(records)]
           new == Bytes(from, to)
<1>1. records \in 0..NbRecords /\ buffer \in Seq(1..Total)
  BY DEF IInv, TypeOK
<1>2. /\ FilledUpTo(records) \in records..NbRecords
      /\ FilledUpTo(records) = records => records = NbRecords
  BY <1>1, Filling
<1>3. FilledUpTo(records) \in 0..NbRecords /\ records <= FilledUpTo(records)
  BY <1>1, <1>2, NbRecordsAssumption
<1>4. /\ from \in Nat /\ to \in Nat /\ from \in 0..Total /\ to \in 0..Total
      /\ from <= to
      /\ from = to => records = NbRecords /\ FilledUpTo(records) = NbRecords
  <2>1. from \in 0..Total /\ to \in 0..Total /\ from \in Nat /\ to \in Nat
    BY <1>1, <1>3, TotalIsLargest
  <2>2. CASE FilledUpTo(records) = records
    BY <1>2, <2>1, <2>2
  <2>3. CASE FilledUpTo(records) # records
    <3>1. records < FilledUpTo(records)
      BY <1>1, <1>3, <2>3, NbRecordsAssumption
    <3>2. from < to
      BY <1>1, <1>3, <3>1, EndsAssumption
    <3> QED
      BY <2>1, <3>2
  <2> QED
    BY <2>2, <2>3
<1> HIDE DEF from, to
<1>5. /\ new \in Seq(1..Total)
      /\ Len(new) = to - from
      /\ \A k \in 1..(to - from) : new[k] = from + k
  BY <1>4, BytesProperties
<1>6. buffer' = Overwrite(buffer, new) /\ len' = Len(new) /\ pos' = 0
      /\ records' = FilledUpTo(records)
  BY DEF FillBuffer, from, to
<1> HIDE DEF new
<1>7. /\ Overwrite(buffer, new) \in Seq(1..Total)
      /\ Len(Overwrite(buffer, new)) >= Len(new)
      /\ \A k \in 1..Len(new) : Overwrite(buffer, new)[k] = new[k]
  BY <1>1, <1>5, OverwriteProperties
<1>8. len' = to - from /\ len' \in Nat /\ Len(buffer') \in Nat
  BY <1>4, <1>5, <1>6, <1>7, LenProperties
<1>9. \A i \in 1..len' : buffer'[i] = from + i
  BY <1>5, <1>6, <1>7, <1>8
<1> QED
  BY <1>3, <1>4, <1>5, <1>6, <1>7, <1>8, <1>9 DEF from, to

LEMMA ReadStep ==
  ASSUME IInv, NEW size \in ReadSizes, Read(size)
  PROVE  IInv'
<1> DEFINE got == NextBytes(size)
<1>1. /\ got \in Seq(1..Total)
      /\ Len(got) \in 0..len
      /\ \A i \in 1..Len(got) : got[i] = Len(out) + i
      /\ got = << >> => size = 0 \/ len = 0
  BY ReadSizesAssumption, NextBytesProperties
<1>2. /\ out' = out \o got
      /\ last' = [size |-> size, bytes |-> got]
      /\ IF len - Len(got) = 0
         THEN FillBuffer(Len(got))
         ELSE /\ len' = len - Len(got)
              /\ pos' = pos + Len(got)
              /\ UNCHANGED <<buffer, records>>
  BY DEF Read
<1> HIDE DEF got
<1>3. /\ len \in Nat /\ pos \in Nat /\ Len(buffer) \in Nat /\ pos + len <= Len(buffer)
      /\ out \in Seq(1..Total) /\ Len(out) \in Nat /\ records \in 0..NbRecords
      /\ Len(got) \in Nat /\ Ends[records] \in Nat
  BY <1>1, LenProperties, TotalIsLargest DEF IInv, TypeOK
<1>4. /\ out' \in Seq(1..Total)
      /\ Len(out') = Len(out) + Len(got)
      /\ \A i \in 1..(Len(out) + Len(got)) :
            out'[i] = IF i <= Len(out) THEN out[i] ELSE got[i - Len(out)]
  BY <1>1, <1>2, <1>3, ConcatProperties
<1>5. InOrder'
  <2> SUFFICES ASSUME NEW i \in 1..Len(out') PROVE out'[i] = i
    BY DEF InOrder
  <2>1. CASE i <= Len(out)
    BY <1>3, <1>4, <2>1 DEF IInv, InOrder
  <2>2. CASE ~(i <= Len(out))
    <3>1. i \in Nat /\ i - Len(out) \in 1..Len(got)
      BY <1>3, <1>4, <2>2
    <3>2. got[i - Len(out)] = Len(out) + (i - Len(out))
      BY <1>1, <3>1
    <3>3. out'[i] = got[i - Len(out)]
      BY <1>3, <1>4, <2>2, <3>1
    <3> QED
      BY <1>3, <3>1, <3>2, <3>3
  <2> QED
    BY <2>1, <2>2
<1>6. TypeOK' /\ Ahead'
  <2>1. last'.size \in ReadSizes \cup {0} /\ last'.bytes \in Seq(1..Total)
    BY <1>1, <1>2
  <2>2. CASE len - Len(got) = 0
    <3>1. FillBuffer(Len(got))
      BY <1>2, <2>2
    <3>2. /\ buffer' \in Seq(1..Total)
          /\ pos' = 0
          /\ len' \in Nat
          /\ len' <= Len(buffer')
          /\ records' \in 0..NbRecords
          /\ len' = Ends[records'] - Ends[records]
          /\ \A i \in 1..len' : buffer'[i] = Ends[records] + i
          /\ len' = 0 => records' = NbRecords
      BY <1>3, <3>1, FillBufferProperties
    <3>3. Len(out') = Ends[records]
      BY <1>3, <1>4, <2>2 DEF IInv, Ahead
    <3>4. Ends[records'] \in Nat
      BY <3>2, TotalIsLargest
    <3>5. \A i \in 1..len' : pos' + i = i
      BY <3>2
    <3>6. \A i \in 1..len' : buffer'[pos' + i] = Len(out') + i
      BY <3>2, <3>3, <3>5
    <3>7. pos' + len' <= Len(buffer')
      BY <3>2
    <3>8. Ahead'
      BY <1>3, <3>2, <3>3, <3>4, <3>6 DEF Ahead
    <3>9. TypeOK'
      BY <1>4, <2>1, <3>2, <3>7 DEF TypeOK
    <3> QED
      BY <3>8, <3>9
  <2>3. CASE len - Len(got) # 0
    <3>1. len' = len - Len(got) /\ pos' = pos + Len(got) /\ buffer' = buffer
          /\ records' = records
      BY <1>2, <2>3
    <3>2. len' \in Nat /\ pos' \in Nat /\ pos' + len' <= Len(buffer')
      BY <1>1, <1>3, <3>1
    <3>3. \A i \in 1..len' : Len(got) + i \in 1..len /\ pos' + i = pos + (Len(got) + i)
      BY <1>1, <1>3, <3>1
    <3>4. \A i \in 1..len' : buffer'[pos' + i] = Len(out') + i
      <4> SUFFICES ASSUME NEW i \in 1..len' PROVE buffer'[pos' + i] = Len(out') + i
        OBVIOUS
      <4>1. buffer'[pos' + i] = Len(out) + (Len(got) + i)
        BY <3>1, <3>3 DEF IInv, Ahead
      <4> QED
        BY <1>3, <1>4, <3>2, <4>1
    <3>5. Len(out') + len' = Ends[records']
      BY <1>3, <1>4, <3>1 DEF IInv, Ahead
    <3>6. Ahead'
      BY <2>3, <3>1, <3>4, <3>5 DEF Ahead
    <3>7. TypeOK'
      BY <1>3, <1>4, <2>1, <3>1, <3>2 DEF TypeOK, IInv
    <3> QED
      BY <3>6, <3>7
  <2> QED
    BY <2>2, <2>3
<1>7. EmptyMeansEnd'
  <2> SUFFICES ASSUME size # 0, got = << >> PROVE Len(out') = Total
    BY <1>2 DEF EmptyMeansEnd
  <2>1. len = 0 /\ records = NbRecords /\ Len(out) = Ends[records]
    BY <1>1, <1>3 DEF IInv, Ahead
  <2>2. Len(got) = 0
    BY <1>1, <2>1
  <2> QED
    BY <1>3, <1>4, <2>1, <2>2 DEF Total
<1> QED
  BY <1>5, <1>6, <1>7 DEF IInv

LEMMA Invariance == Spec => []IInv
<1>1. IInv /\ [Next]_vars => IInv'
  <2> SUFFICES ASSUME IInv, [Next]_vars PROVE IInv'
    OBVIOUS
  <2>1. CASE UNCHANGED vars
    BY <2>1 DEF vars, IInv, TypeOK, Ahead, InOrder, EmptyMeansEnd
  <2>2. ASSUME NEW size \in ReadSizes, Read(size) PROVE IInv'
    BY <2>2, ReadStep
  <2> QED
    BY <2>1, <2>2 DEF Next
<1> QED
  BY <1>1, InitIInv, PTL DEF Spec

\* The buffer always has the bytes that len promises, and only bytes of the
\* encoding of this dataframe, whatever its records and the sizes of the reads.
THEOREM BufferHoldsUnread == Spec => []TypeOK
BY Invariance, PTL DEF IInv

\* Whatever the dataframe and however it is read: the bytes come in order, none
\* twice and none missing, no left-over of an earlier filling among them.
THEOREM StreamInOrder == Spec => []InOrder
BY Invariance, PTL DEF IInv

\* A reader that stops at the first empty read has read everything.
THEOREM StreamEnds == Spec => []EmptyMeansEnd
BY Invariance, PTL DEF IInv

-----------------------------------------------------------------------------
(* The schema, class by class. *)

\* The parts of the schema have no class in common.
LEMMA PartDomains ==
  /\ DOMAIN ScalarFunctions =
       {"PreviousStageFunction", "SourceFunction", "AggregateScalarFunction",
        "JoinTableFunction", "JoinPipelineFunction"}
  /\ DOMAIN References =
       {"LiteralValue", "PreviousStageColumnReference",
        "PipelineColumnReference"} \cup TableReferences
  /\ DOMAIN Functions =
       {"PreviousStageFunctionAgg", "PreviousStageWindowFunctionCall",
        "PreviousStageRankOverFunction"}
  /\ DOMAIN Windows = {"PreviousStageWindowFunction", "Order"}
  /\ DOMAIN Tables = Table
  /\ DOMAIN Joins = {"JoinTable", "JoinPipeline"}
  /\ DOMAIN Stages = Stage \ {"JoinTable", "JoinPipeline"}
  /\ DOMAIN Pipelines = {"Pipeline"}
<1>1. DOMAIN ScalarFunctions =
       {"PreviousStageFunction", "SourceFunction", "AggregateScalarFunction",
        "JoinTableFunction", "JoinPipelineFunction"}
  BY DEF ScalarFunctions
<1>2. DOMAIN References =
       {"LiteralValue", "PreviousStageColumnReference",
        "PipelineColumnReference"} \cup TableReferences
  BY DEF References, TableReferences
<1>3. DOMAIN Functions =
       {"PreviousStageFunctionAgg", "PreviousStageWindowFunctionCall",
        "PreviousStageRankOverFunction"}
  BY DEF Functions
<1>4. DOMAIN Windows = {"PreviousStageWindowFunction", "Order"}
  BY DEF Windows
<1>5. DOMAIN Tables = Table
  BY DEF Tables
<1>6. DOMAIN Joins = {"JoinTable", "JoinPipeline"}
  BY DEF Joins
<1>7. DOMAIN Stages = Stage \ {"JoinTable", "JoinPipeline"}
  BY DEF Stages, Stage
<1>8. DOMAIN Pipelines = {"Pipeline"}
  BY DEF Pipelines
<1> QED
  BY <1>1, <1>2, <1>3, <1>4, <1>5, <1>6, <1>7, <1>8

\* A table is not the class of anything else.
LEMMA TableClasses ==
  /\ Table \cap (DOMAIN ScalarFunctions \cup DOMAIN References \cup DOMAIN Functions) = {}
  /\ Table \cap (DOMAIN Windows \cup DOMAIN Joins \cup DOMAIN Stages \cup DOMAIN Pipelines) = {}
BY PartDomains DEF Table, TableNames, TableReferences, Stage

LEMMA SchemaOfPart ==
  ASSUME NEW part \in Parts, NEW c \in DOMAIN part
  PROVE  c \in Classes /\ Schema[c] = part[c]
<1> DEFINE chosen == CHOOSE other \in Parts : c \in DOMAIN other
<1>1. c \in Classes
  BY DEF Classes
<1>2. chosen \in Parts /\ c \in DOMAIN chosen
  OBVIOUS
<1> HIDE DEF chosen
<1>3. chosen = part
  BY <1>2, PartDomains, TableClasses DEF Parts, TableReferences, Stage
<1> QED
  BY <1>1, <1>3 DEF Schema, chosen

\* Where the schema has each class from.
LEMMA SchemaOfClasses ==
  /\ Schema["PreviousStageFunction"] = ScalarFunctions.PreviousStageFunction
  /\ Schema["SourceFunction"] = ScalarFunctions.SourceFunction
  /\ Schema["AggregateScalarFunction"] = ScalarFunctions.AggregateScalarFunction
  /\ Schema["JoinTableFunction"] = ScalarFunctions.JoinTableFunction
  /\ Schema["JoinPipelineFunction"] = ScalarFunctions.JoinPipelineFunction
  /\ Schema["LiteralValue"] = References.LiteralValue
  /\ Schema["SourceColumnReference"] = References.SourceColumnReference
  /\ Schema["PreviousStageColumnReference"] = References.PreviousStageColumnReference
  /\ Schema["PipelineColumnReference"] = References.PipelineColumnReference
  /\ Schema["InputColumnReference"] = References.InputColumnReference
  /\ Schema["OutputColumnReference"] = References.OutputColumnReference
  /\ Schema["CalculationResultColumnReference"] =
       References.CalculationResultColumnReference
  /\ Schema["ActiveCalculationResultColumnReference"] =
       References.ActiveCalculationResultColumnReference
  /\ Schema["PreviousCalculationResultColumnReference"] =
       References.PreviousCalculationResultColumnReference
  /\ Schema["PreviousStageFunctionAgg"] = Functions.PreviousStageFunctionAgg
  /\ Schema["PreviousStageWindowFunctionCall"] = Functions.PreviousStageWindowFunctionCall
  /\ Schema["PreviousStageRankOverFunction"] = Functions.PreviousStageRankOverFunction
  /\ Schema["PreviousStageWindowFunction"] = Windows.PreviousStageWindowFunction
  /\ Schema["Order"] = Windows.Order
  /\ Schema["JoinTable"] = Joins.JoinTable
  /\ Schema["JoinPipeline"] = Joins.JoinPipeline
  /\ Schema["Source"] = Stages.Source
  /\ Schema["AddColumns"] = Stages.AddColumns
  /\ Schema["Filter"] = Stages.Filter
  /\ Schema["Aggregate"] = Stages.Aggregate
  /\ Schema["Distinct"] = Stages.Distinct
  /\ Schema["SelectColumns"] = Stages.SelectColumns
  /\ Schema["RemoveColumns"] = Stages.RemoveColumns
  /\ Schema["RetainColumns"] = Stages.RetainColumns
  /\ Schema["Take"] = Stages.Take
  /\ Schema["Sort"] = Stages.Sort
  /\ Schema["Pipeline"] = Pipelines.Pipeline
  /\ \A t \in Table : Schema[t] = Tables[t]
<1>1. \A c \in DOMAIN ScalarFunctions : Schema[c] = ScalarFunctions[c]
  BY SchemaOfPart DEF Parts
<1>2. \A c \in DOMAIN References : Schema[c] = References[c]
  BY SchemaOfPart DEF Parts
<1>3. \A c \in DOMAIN Functions : Schema[c] = Functions[c]
  BY SchemaOfPart DEF Parts
<1>4. \A c \in DOMAIN Windows : Schema[c] = Windows[c]
  BY SchemaOfPart DEF Parts
<1>5. \A c \in DOMAIN Joins : Schema[c] = Joins[c]
  BY SchemaOfPart DEF Parts
<1>6. \A c \in DOMAIN Stages : Schema[c] = Stages[c]
  BY SchemaOfPart DEF Parts
<1>7. \A c \in DOMAIN Pipelines : Schema[c] = Pipelines[c]
  BY SchemaOfPart DEF Parts
<1>8. \A c \in DOMAIN Tables : Schema[c] = Tables[c]
  BY SchemaOfPart DEF Parts
<1>9. Table = DOMAIN Tables
  BY DEF Tables
<1> QED
  BY <1>1, <1>2, <1>3, <1>4, <1>5, <1>6, <1>7, <1>8, <1>9, PartDomains
     DEF TableReferences, Stage

\* What the schema says of each class.
LEMMA Rows ==
  /\ Schema["PreviousStageFunction"] = Function(Operation, PreviousStageExpression)
  /\ Schema["SourceFunction"] = Function(Operation, SourceExpression)
  /\ Schema["AggregateScalarFunction"] = Function(Operation, ExpressionAgg)
  /\ Schema["JoinTableFunction"] = Function(Operation, JoinTableExpression)
  /\ Schema["JoinPipelineFunction"] = Function(Operation, JoinPipelineExpression)
  /\ Schema["LiteralValue"] = Leaf("literal", NoSource)
  /\ Schema["SourceColumnReference"] = Leaf("columnReference", "table")
  /\ Schema["PreviousStageColumnReference"] = Leaf("columnReference", "previousStage")
  /\ Schema["PipelineColumnReference"] = Leaf("columnReference", "pipeline")
  /\ Schema["InputColumnReference"] = Leaf("inputColumnReference", "table")
  /\ Schema["OutputColumnReference"] = Leaf("outputColumnReference", "table")
  /\ Schema["CalculationResultColumnReference"] =
       Leaf("calculationResultColumnReference", "table")
  /\ Schema["ActiveCalculationResultColumnReference"] =
       Leaf("activeCalculationResultColumnReference", "table")
  /\ Schema["PreviousCalculationResultColumnReference"] =
       Leaf("previousCalculationResultColumnReference", "table")
  /\ Schema["PreviousStageFunctionAgg"] = Function(OperationAgg, PreviousStageExpression)
  /\ Schema["PreviousStageWindowFunctionCall"] =
       Function(WindowOperation, PreviousStageExpression)
  /\ Schema["PreviousStageRankOverFunction"] =
       Class("function", NoSource, RankOverOperation, {"Order"}, {}, 1, 1)
  /\ Schema["PreviousStageWindowFunction"] =
       Class("windowFunction", NoSource, {NoName}, {"PreviousStageWindowFunctionCall"},
             PreviousStageExpression \cup {"Order"}, 1, MaxArgs)
  /\ Schema["Order"] = Class("order", NoSource, {NoName}, PreviousStageExpression, {}, 1, 1)
  /\ Schema["JoinTable"] =
       Class("join", "table", {NoName}, Table, JoinTableExpression, 2, MaxArgs)
  /\ Schema["JoinPipeline"] =
       Class("join", "pipeline", {NoName}, {"Pipeline"}, JoinPipelineExpression, 2, MaxArgs)
  /\ Schema["Source"] =
       Class("source", NoSource, {NoName}, Table, SourceExpression, 1, MaxArgs)
  /\ Schema["AddColumns"] =
       Class("addColumns", NoSource, {NoName}, PreviousStageExpression, PreviousStageExpression,
             1, MaxArgs)
  /\ Schema["Filter"] =
       Class("filter", NoSource, {NoName}, PreviousStageExpression, {}, 1, 1)
  /\ Schema["Aggregate"] =
       Class("aggregate", NoSource, {NoName}, ExpressionAgg, PreviousStageExpression, 1, MaxArgs)
  /\ Schema["Distinct"] = Leaf("distinct", NoSource)
  /\ Schema["SelectColumns"] =
       Class("selectColumns", NoSource, {NoName}, PreviousStageExpression,
             PreviousStageExpression, 1, MaxArgs)
  /\ Schema["RemoveColumns"] = Leaf("removeColumns", NoSource)
  /\ Schema["RetainColumns"] = Leaf("retainColumns", NoSource)
  /\ Schema["Take"] = Leaf("take", NoSource)
  /\ Schema["Sort"] = Class("sort", NoSource, {NoName}, {"Order"}, {"Order"}, 1, MaxArgs)
  /\ Schema["Pipeline"] = Class("pipeline", NoSource, {NoName}, Stage, Stage, 1, MaxArgs)
  /\ \A t \in Table : Schema[t] = Class("table", NoSource, TableNames[t], {}, {}, 0, 0)
<1>1. /\ Schema["PreviousStageFunction"] = Function(Operation, PreviousStageExpression)
      /\ Schema["SourceFunction"] = Function(Operation, SourceExpression)
      /\ Schema["AggregateScalarFunction"] = Function(Operation, ExpressionAgg)
      /\ Schema["JoinTableFunction"] = Function(Operation, JoinTableExpression)
      /\ Schema["JoinPipelineFunction"] = Function(Operation, JoinPipelineExpression)
  BY SchemaOfClasses DEF ScalarFunctions
<1>2. /\ Schema["LiteralValue"] = Leaf("literal", NoSource)
      /\ Schema["SourceColumnReference"] = Leaf("columnReference", "table")
      /\ Schema["PreviousStageColumnReference"] = Leaf("columnReference", "previousStage")
      /\ Schema["PipelineColumnReference"] = Leaf("columnReference", "pipeline")
      /\ Schema["InputColumnReference"] = Leaf("inputColumnReference", "table")
      /\ Schema["OutputColumnReference"] = Leaf("outputColumnReference", "table")
      /\ Schema["CalculationResultColumnReference"] =
           Leaf("calculationResultColumnReference", "table")
      /\ Schema["ActiveCalculationResultColumnReference"] =
           Leaf("activeCalculationResultColumnReference", "table")
      /\ Schema["PreviousCalculationResultColumnReference"] =
           Leaf("previousCalculationResultColumnReference", "table")
  BY SchemaOfClasses DEF References
<1>3. /\ Schema["PreviousStageFunctionAgg"] =
           Function(OperationAgg, PreviousStageExpression)
      /\ Schema["PreviousStageWindowFunctionCall"] =
           Function(WindowOperation, PreviousStageExpression)
      /\ Schema["PreviousStageRankOverFunction"] =
           Class("function", NoSource, RankOverOperation, {"Order"}, {}, 1, 1)
      /\ Schema["PreviousStageWindowFunction"] =
           Class("windowFunction", NoSource, {NoName}, {"PreviousStageWindowFunctionCall"},
                 PreviousStageExpression \cup {"Order"}, 1, MaxArgs)
      /\ Schema["Order"] =
           Class("order", NoSource, {NoName}, PreviousStageExpression, {}, 1, 1)
  BY SchemaOfClasses DEF Functions, Windows
<1>4. /\ Schema["JoinTable"] =
           Class("join", "table", {NoName}, Table, JoinTableExpression, 2, MaxArgs)
      /\ Schema["JoinPipeline"] =
           Class("join", "pipeline", {NoName}, {"Pipeline"}, JoinPipelineExpression, 2, MaxArgs)
  BY SchemaOfClasses DEF Joins
<1>5. /\ Schema["Source"] =
           Class("source", NoSource, {NoName}, Table, SourceExpression, 1, MaxArgs)
      /\ Schema["AddColumns"] =
           Class("addColumns", NoSource, {NoName}, PreviousStageExpression, PreviousStageExpression,
                 1, MaxArgs)
      /\ Schema["Filter"] =
           Class("filter", NoSource, {NoName}, PreviousStageExpression, {}, 1, 1)
      /\ Schema["Aggregate"] =
           Class("aggregate", NoSource, {NoName}, ExpressionAgg, PreviousStageExpression, 1, MaxArgs)
      /\ Schema["Distinct"] = Leaf("distinct", NoSource)
      /\ Schema["SelectColumns"] =
           Class("selectColumns", NoSource, {NoName}, PreviousStageExpression,
                 PreviousStageExpression, 1, MaxArgs)
      /\ Schema["RemoveColumns"] = Leaf("removeColumns", NoSource)
      /\ Schema["RetainColumns"] = Leaf("retainColumns", NoSource)
      /\ Schema["Take"] = Leaf("take", NoSource)
      /\ Schema["Sort"] =
           Class("sort", NoSource, {NoName}, {"Order"}, {"Order"}, 1, MaxArgs)
      /\ Schema["Pipeline"] =
           Class("pipeline", NoSource, {NoName}, Stage, Stage, 1, MaxArgs)
  BY SchemaOfClasses DEF Stages, Pipelines
<1>6. \A t \in Table : Schema[t] = Class("table", NoSource, TableNames[t], {}, {}, 0, 0)
  BY SchemaOfClasses DEF Tables
<1> QED
  BY <1>1, <1>2, <1>3, <1>4, <1>5, <1>6

LEMMA ClassFields ==
  ASSUME NEW kind, NEW source, NEW names, NEW first, NEW rest, NEW least, NEW most
  PROVE  /\ Class(kind, source, names, first, rest, least, most).kind = kind
         /\ Class(kind, source, names, first, rest, least, most).source = source
         /\ Class(kind, source, names, first, rest, least, most).names = names
         /\ Class(kind, source, names, first, rest, least, most).first = first
         /\ Class(kind, source, names, first, rest, least, most).rest = rest
         /\ Class(kind, source, names, first, rest, least, most).least = least
         /\ Class(kind, source, names, first, rest, least, most).most = most
BY DEF Class

\* No two tables have a kind in common.
LEMMA TableKindsDiffer ==
  ASSUME NEW t \in Table, NEW u \in Table, TableNames[t] \cap TableNames[u] # {}
  PROVE  t = u
BY SMTT(120) DEF Table, TableNames

\* The classes that a field takes differ in kind, source or names: a dump is never
\* that of two of them.
LEMMA FieldsDiscriminate ==
  ASSUME NEW fields \in Unions, NEW c \in fields, NEW d \in fields,
         Schema[c].kind = Schema[d].kind, Schema[c].source = Schema[d].source,
         Schema[c].names \cap Schema[d].names # {}
  PROVE  c = d
<1>1. CASE fields = Table
  <2>1. \A t \in Table : Schema[t].names = TableNames[t]
    BY Rows, ClassFields
  <2> QED
    BY <1>1, <2>1, TableKindsDiffer
<1>2. CASE fields = PreviousStageExpression
  BY <1>2, Rows, ClassFields
     DEF PreviousStageExpression, Leaf, Function, Operation, RankOverOperation
<1>3. CASE fields = SourceExpression
  BY <1>3, Rows, ClassFields DEF SourceExpression, TableReferences, Leaf, Function
<1>4. CASE fields = ExpressionAgg
  BY <1>4, Rows, ClassFields DEF ExpressionAgg, Leaf, Function, Operation, OperationAgg
<1>5. CASE fields = JoinTableExpression
  BY <1>5, Rows, ClassFields DEF JoinTableExpression, TableReferences, Leaf, Function
<1>6. CASE fields = JoinPipelineExpression
  BY <1>6, Rows, ClassFields DEF JoinPipelineExpression, Leaf, Function
<1>7. CASE fields = Stage
  BY <1>7, Rows, ClassFields DEF Stage, Leaf
<1> QED
  BY <1>1, <1>2, <1>3, <1>4, <1>5, <1>6, <1>7 DEF Unions

-----------------------------------------------------------------------------
(* The inductive invariant. *)

Objects ==
  [class : Classes, name : UNION {Schema[c].names : c \in Classes}, args : Seq(Nat)]

ObjectsTyped == objects \in Seq(Objects) /\ edited \subseteq DOMAIN objects

\* An object refers to earlier ones, edited or not, and keeps a name of its class.
RefersBack ==
  \A i \in DOMAIN objects :
    /\ objects[i].name \in Schema[objects[i].class].names
    /\ \A k \in DOMAIN objects[i].args : objects[i].args[k] \in 1..(i - 1)

\* What the constructor of an object checked.
Checked(i) ==
  /\ Len(objects[i].args) \in Schema[objects[i].class].least..Schema[objects[i].class].most
  /\ \A k \in DOMAIN objects[i].args :
        objects[objects[i].args[k]].class \in Field(objects[i].class, k)
  /\ InValuesAreLiterals(objects[i].class, objects[i].name, objects[i].args)

QueriesInv == ObjectsTyped /\ RefersBack /\ \A i \in DOMAIN objects \ edited : Checked(i)

LEMMA ObjectTyping ==
  ASSUME ObjectsTyped, NEW i \in DOMAIN objects
  PROVE  /\ objects[i].class \in Classes
         /\ objects[i].args \in Seq(Nat)
         /\ DOMAIN objects[i].args = 1..Len(objects[i].args)
         /\ Len(objects[i].args) \in Nat
<1>1. objects[i] \in Objects
  BY DEF ObjectsTyped
<1>2. objects[i].class \in Classes /\ objects[i].args \in Seq(Nat)
  BY <1>1 DEF Objects
<1> QED
  BY <1>2

LEMMA QueriesInit ==
  ASSUME QueryInit
  PROVE  QueriesInv
<1>1. << >> \in Seq(Objects)
  OBVIOUS
<1>2. objects = << >> /\ edited = {} /\ DOMAIN objects = {}
  BY DEF QueryInit
<1> QED
  BY <1>1, <1>2 DEF QueriesInv, ObjectsTyped, RefersBack

\* A constructor adds an object and leaves the others alone.
LEMMA BuildAppends ==
  ASSUME QueriesInv, NEW c \in Classes, Build(c)
  PROVE  /\ ObjectsTyped' /\ edited' = edited
         /\ Len(objects') = Len(objects) + 1 /\ Len(objects) \in Nat
         /\ DOMAIN objects = 1..Len(objects) /\ DOMAIN objects' = 1..(Len(objects) + 1)
         /\ \A i \in DOMAIN objects : objects'[i] = objects[i]
         /\ LET object == objects'[Len(objects) + 1] IN
            /\ object.class = c /\ object.name \in Schema[c].names
            /\ object.args \in Seq(Nat)
            /\ \A k \in DOMAIN object.args : object.args[k] \in 1..Len(objects)
            /\ Len(object.args) \in Schema[c].least..Schema[c].most
            /\ \A k \in DOMAIN object.args : objects[object.args[k]].class \in Field(c, k)
            /\ InValuesAreLiterals(c, object.name, object.args)
<1>1. PICK name \in Schema[c].names, args \in Arguments :
        /\ Len(args) \in Schema[c].least..Schema[c].most
        /\ \A k \in DOMAIN args : objects[args[k]].class \in Field(c, k)
        /\ InValuesAreLiterals(c, name, args)
        /\ objects' = Append(objects, [class |-> c, name |-> name, args |-> args])
  BY DEF Build
<1> DEFINE object == [class |-> c, name |-> name, args |-> args]
<1>2. object.class = c /\ object.name = name /\ object.args = args
  OBVIOUS
<1>3. objects \in Seq(Objects) /\ Len(objects) \in Nat /\ edited \subseteq DOMAIN objects
  BY DEF QueriesInv, ObjectsTyped
<1>4. args \in Seq(Nat) /\ \A k \in DOMAIN args : args[k] \in 1..Len(objects)
  <2>1. PICK n \in 0..MaxArgs : args \in [1..n -> 1..Len(objects)]
    BY DEF Arguments
  <2>2. args \in [1..n -> Nat] /\ n \in Nat
    BY <2>1, <1>3, BoundsAssumption
  <2> QED
    BY <2>1, <2>2
<1>5. object \in Objects
  BY <1>4 DEF Objects
<1> HIDE DEF object
<1>6. objects' = Append(objects, object)
  BY <1>1 DEF object
<1>7. /\ Append(objects, object) \in Seq(Objects)
      /\ Len(Append(objects, object)) = Len(objects) + 1
      /\ \A i \in 1..Len(objects) : Append(objects, object)[i] = objects[i]
      /\ Append(objects, object)[Len(objects) + 1] = object
  BY <1>3, <1>5, AppendProperties
<1>8. DOMAIN objects = 1..Len(objects) /\ DOMAIN objects' = 1..(Len(objects) + 1)
  BY <1>3, <1>6, <1>7
<1>9. edited' = edited
  BY DEF Build
<1>10. ObjectsTyped'
  BY <1>3, <1>6, <1>7, <1>8, <1>9 DEF ObjectsTyped
<1> QED
  BY <1>1, <1>2, <1>3, <1>4, <1>6, <1>7, <1>8, <1>9, <1>10

\* An assignment to the arguments of an object leaves its class and name, and the
\* other objects, alone.
LEMMA EditAssigns ==
  ASSUME QueriesInv, NEW i \in DOMAIN objects, Edit(i)
  PROVE  /\ ObjectsTyped' /\ edited' = edited \cup {i}
         /\ DOMAIN objects' = DOMAIN objects
         /\ \A j \in DOMAIN objects \ {i} : objects'[j] = objects[j]
         /\ objects'[i].class = objects[i].class /\ objects'[i].name = objects[i].name
         /\ \A k \in DOMAIN objects'[i].args : objects'[i].args[k] \in 1..(i - 1)
<1>1. PICK args \in Arguments :
        /\ \A k \in DOMAIN args : args[k] < i
        /\ objects' = [objects EXCEPT ![i].args = args]
  BY DEF Edit
<1>2. objects \in Seq(Objects) /\ Len(objects) \in Nat /\ edited \subseteq DOMAIN objects
      /\ DOMAIN objects = 1..Len(objects)
  BY DEF QueriesInv, ObjectsTyped
<1>3. args \in Seq(Nat) /\ \A k \in DOMAIN args : args[k] \in 1..(i - 1)
  <2>1. PICK n \in 0..MaxArgs : args \in [1..n -> 1..Len(objects)]
    BY DEF Arguments
  <2>2. args \in [1..n -> Nat] /\ n \in Nat
    BY <2>1, <1>2, BoundsAssumption
  <2> QED
    BY <1>1, <1>2, <2>1, <2>2
<1> DEFINE object == [objects[i] EXCEPT !.args = args]
<1>4. objects[i] \in Objects
  BY <1>2
<1>5. /\ object \in Objects
      /\ object.class = objects[i].class /\ object.name = objects[i].name /\ object.args = args
  BY <1>3, <1>4 DEF Objects
<1> HIDE DEF object
<1>6. objects' = [objects EXCEPT ![i] = object]
  BY <1>1 DEF object
<1>7. objects' \in Seq(Objects) /\ DOMAIN objects' = DOMAIN objects
  BY <1>2, <1>5, <1>6
<1>8. objects'[i] = object /\ \A j \in DOMAIN objects \ {i} : objects'[j] = objects[j]
  BY <1>2, <1>6
<1>9. edited' = edited \cup {i}
  BY DEF Edit
<1>10. ObjectsTyped'
  BY <1>2, <1>7, <1>9 DEF ObjectsTyped
<1> QED
  BY <1>3, <1>5, <1>7, <1>8, <1>9, <1>10

LEMMA BuildKeeps ==
  ASSUME QueriesInv, NEW c \in Classes, Build(c)
  PROVE  QueriesInv'
<1>0. PICK n \in Nat : n = Len(objects) + 1
  BY DEF QueriesInv, ObjectsTyped
<1>1. /\ ObjectsTyped' /\ edited' = edited
      /\ n \in Nat /\ DOMAIN objects = 1..(n - 1) /\ DOMAIN objects' = 1..n
      /\ \A i \in DOMAIN objects : objects'[i] = objects[i]
  BY <1>0, BuildAppends
<1>2. /\ objects'[n].class = c /\ objects'[n].name \in Schema[c].names
      /\ objects'[n].args \in Seq(Nat)
      /\ \A k \in DOMAIN objects'[n].args : objects'[n].args[k] \in 1..(n - 1)
      /\ Len(objects'[n].args) \in Schema[c].least..Schema[c].most
      /\ \A k \in DOMAIN objects'[n].args : objects[objects'[n].args[k]].class \in Field(c, k)
      /\ InValuesAreLiterals(c, objects'[n].name, objects'[n].args)
  BY <1>0, BuildAppends
<1>3. RefersBack'
  BY <1>1, <1>2 DEF RefersBack, QueriesInv
<1>4. ASSUME NEW i \in DOMAIN objects \ edited
      PROVE  Checked(i)'
  <2>1. /\ Checked(i) /\ objects'[i] = objects[i]
        /\ \A k \in DOMAIN objects[i].args : objects[i].args[k] \in DOMAIN objects
    BY <1>1 DEF QueriesInv, RefersBack
  <2>2. objects[i].args \in Seq(Nat)
    BY ObjectTyping DEF QueriesInv
  <2>3. \A k \in DOMAIN objects[i].args :
          objects'[objects[i].args[k]].class = objects[objects[i].args[k]].class
    BY <1>1, <2>1
  <2> QED
    BY <2>1, <2>2, <2>3 DEF Checked, InValuesAreLiterals
<1>5. Checked(n)'
  <2>1. \A k \in DOMAIN objects'[n].args :
          objects'[objects'[n].args[k]].class = objects[objects'[n].args[k]].class
    BY <1>1, <1>2
  <2>2. InValuesAreLiterals(objects[n].class, objects[n].name, objects[n].args)'
    <3>1. \A k \in 2..Len(objects'[n].args) : k \in DOMAIN objects'[n].args
      BY <1>2
    <3> QED
      BY <1>2, <2>1, <3>1 DEF InValuesAreLiterals
  <2> QED
    BY <1>2, <2>1, <2>2 DEF Checked
<1>6. \A i \in DOMAIN objects' \ edited' : i = n \/ i \in DOMAIN objects \ edited
  BY <1>1
<1> QED
  BY <1>1, <1>3, <1>4, <1>5, <1>6 DEF QueriesInv

LEMMA EditKeeps ==
  ASSUME QueriesInv, NEW i \in DOMAIN objects, Edit(i)
  PROVE  QueriesInv'
<1>1. /\ ObjectsTyped' /\ edited' = edited \cup {i}
      /\ DOMAIN objects' = DOMAIN objects
      /\ \A j \in DOMAIN objects \ {i} : objects'[j] = objects[j]
      /\ objects'[i].class = objects[i].class /\ objects'[i].name = objects[i].name
      /\ \A k \in DOMAIN objects'[i].args : objects'[i].args[k] \in 1..(i - 1)
  BY EditAssigns
<1>2. RefersBack'
  BY <1>1 DEF RefersBack, QueriesInv
<1>3. ASSUME NEW j \in DOMAIN objects \ edited, j # i
      PROVE  Checked(j)'
  <2>1. /\ Checked(j) /\ objects'[j] = objects[j]
        /\ \A k \in DOMAIN objects[j].args : objects[j].args[k] \in DOMAIN objects
    <3>1. \A k \in DOMAIN objects[j].args : objects[j].args[k] \in 1..(j - 1)
      BY DEF QueriesInv, RefersBack
    <3>2. DOMAIN objects = 1..Len(objects) /\ Len(objects) \in Nat
      BY DEF QueriesInv, ObjectsTyped
    <3> QED
      BY <1>1, <1>3, <3>1, <3>2 DEF QueriesInv
  <2>2. objects[j].args \in Seq(Nat)
    BY ObjectTyping DEF QueriesInv
  <2>3. \A k \in DOMAIN objects[j].args :
          objects'[objects[j].args[k]].class = objects[objects[j].args[k]].class
    BY <1>1, <2>1
  <2> QED
    BY <2>1, <2>2, <2>3 DEF Checked, InValuesAreLiterals
<1> QED
  BY <1>1, <1>2, <1>3 DEF QueriesInv

LEMMA QueriesInvariant == QuerySpec => []QueriesInv
<1>1. QueryInit => QueriesInv
  BY QueriesInit
<1>2. QueriesInv /\ [QueryNext]_queryVars => QueriesInv'
  <2> SUFFICES ASSUME QueriesInv, [QueryNext]_queryVars PROVE QueriesInv'
    OBVIOUS
  <2>1. CASE \E c \in Classes : Build(c)
    BY <2>1, BuildKeeps
  <2>2. CASE \E i \in DOMAIN objects : Edit(i)
    BY <2>2, EditKeeps
  <2>3. CASE UNCHANGED queryVars
    BY <2>3 DEF queryVars, QueriesInv, ObjectsTyped, RefersBack, Checked, InValuesAreLiterals
  <2> QED
    BY <2>1, <2>2, <2>3 DEF QueryNext
<1> QED
  BY <1>1, <1>2, PTL DEF QuerySpec

-----------------------------------------------------------------------------
(* Objects refer to earlier ones: what is defined or shown object by object *)
(* is defined or shown from the first one up.                               *)

LEMMA FromEarlierOnes ==
  ASSUME NEW n \in Nat, NEW S,
         \A m \in 0..n : (\A j \in 0..(m - 1) : j \in S) => m \in S
  PROVE  0..n \subseteq S
<1> DEFINE R == {ss \in Nat \X Nat : ss[1] < ss[2]}
           Missing == {m \in 0..n : m \notin S}
<1>1. IsWellFoundedOn(R, Nat)
  <2>1. OpToRel(<, Nat) = R
    BY DEF OpToRel
  <2> QED
    BY <2>1, NatLessThanWellFounded
<1>2. Missing \subseteq Nat
  OBVIOUS
<1>3. SUFFICES ASSUME Missing # {} PROVE FALSE
  OBVIOUS
<1>4. PICK m \in Missing : \A j \in Missing : ~(<<j, m>> \in R)
  BY <1>1, <1>2, <1>3, WFMin
<1>5. \A j \in 0..(m - 1) : j \in S
  <2> SUFFICES ASSUME NEW j \in 0..(m - 1) PROVE j \in S
    OBVIOUS
  <2>1. j \in Nat /\ m \in Nat /\ j < m /\ j \in 0..n
    OBVIOUS
  <2> QED
    BY <1>4, <2>1
<1> QED
  BY <1>5

\* What the walk of Inside goes on to from an object.
Steps(beyond, i) == {b \in Range(objects[i].args) : beyond \/ objects[b].class # "Pipeline"}

LEMMA StepsAreEarlier ==
  ASSUME QueriesInv, NEW beyond \in BOOLEAN, NEW i \in DOMAIN objects
  PROVE  Steps(beyond, i) \subseteq 1..(i - 1)
BY DEF QueriesInv, RefersBack, Steps, Range

\* The recursion of Inside has a solution, so Inside is one.
LEMMA InsideEquation ==
  ASSUME QueriesInv, NEW beyond \in BOOLEAN
  PROVE  Inside(beyond) =
           [i \in DOMAIN objects |->
              {i} \cup UNION {Inside(beyond)[a] : a \in Steps(beyond, i)}]
<1> DEFINE Walk(g, i) == {i} \cup UNION {g[a] : a \in Steps(beyond, i)}
           Upto(n) == \E g : g = [i \in 1..n |-> Walk(g, i)]
           n == Len(objects)
           S == {m \in 0..n : Upto(m)}
<1>1. n \in Nat /\ DOMAIN objects = 1..n
  BY DEF QueriesInv, ObjectsTyped
<1>2. \A i \in 1..n : Steps(beyond, i) \subseteq 1..(i - 1)
  BY <1>1, StepsAreEarlier
<1> HIDE DEF n
<1>3. Upto(0)
  <2>1. << >> = [i \in 1..0 |-> Walk(<< >>, i)]
    OBVIOUS
  <2> QED
    BY <2>1
<1>4. ASSUME NEW m \in 1..n, Upto(m - 1)
      PROVE  Upto(m)
  <2>1. PICK g : g = [i \in 1..(m - 1) |-> Walk(g, i)]
    BY <1>4
  <2> DEFINE h == [i \in 1..m |-> IF i = m THEN Walk(g, m) ELSE g[i]]
  <2>2. \A i \in 1..m : \A a \in Steps(beyond, i) : h[a] = g[a]
    BY <1>1, <1>2
  <2>3. \A i \in 1..m : h[i] = Walk(g, i)
    <3>1. \A i \in 1..(m - 1) : g[i] = Walk(g, i)
      BY <2>1
    <3>2. \A i \in 1..m : i = m \/ i \in 1..(m - 1)
      BY <1>1
    <3> HIDE DEF Walk
    <3> QED
      BY <3>1, <3>2
  <2>4. \A i \in 1..m : Walk(h, i) = Walk(g, i)
    BY <2>2
  <2>5. DOMAIN h = 1..m
    OBVIOUS
  <2>6. h = [i \in 1..m |-> h[i]]
    OBVIOUS
  <2> HIDE DEF h
  <2>7. \A i \in 1..m : h[i] = Walk(h, i)
    BY <2>3, <2>4
  <2> HIDE DEF Walk
  <2>8. h = [i \in 1..m |-> Walk(h, i)]
    BY <2>6, <2>7, Zenon
  <2> QED
    BY <2>8
<1> HIDE DEF Upto
<1>5. \A m \in 0..n : (\A j \in 0..(m - 1) : j \in S) => m \in S
  <2> SUFFICES ASSUME NEW m \in 0..n, \A j \in 0..(m - 1) : j \in S
               PROVE  Upto(m)
    OBVIOUS
  <2>1. CASE m = 0
    BY <1>3, <2>1
  <2>2. CASE m # 0
    <3>1. m \in 1..n /\ m - 1 \in 0..(m - 1)
      BY <1>1, <2>2
    <3> QED
      BY <1>4, <3>1
  <2> QED
    BY <2>1, <2>2
<1>6. 0..n \subseteq S
  BY <1>1, <1>5, FromEarlierOnes
<1>7. Upto(n)
  BY <1>1, <1>6
<1>8. PICK g : g = [i \in DOMAIN objects |-> Walk(g, i)]
  BY <1>1, <1>7, Zenon DEF Upto
<1> QED
  BY <1>8, Zenon DEF Inside, Steps

LEMMA ClassesOfKind ==
  ASSUME NEW c \in Classes
  PROVE  OfKind[Schema[c].kind] = {d \in Classes : Schema[d].kind = Schema[c].kind}
BY DEF OfKind

\* What an object is parsed as, given what its arguments are.
ParsedFrom(g, i) ==
  {c \in OfKind[Dump(i).kind] :
     /\ Schema[c].source = Dump(i).source
     /\ Dump(i).name \in Schema[c].names
     /\ Len(objects[i].args) \in Schema[c].least..Schema[c].most
     /\ \A k \in DOMAIN objects[i].args : g[objects[i].args[k]] \cap Field(c, k) # {}
     /\ InValuesAreLiterals(c, Dump(i).name, objects[i].args)}

\* So has the recursion of ParsedAs.
LEMMA ParsedAsEquation ==
  ASSUME QueriesInv
  PROVE  ParsedAs = [i \in DOMAIN objects |-> ParsedFrom(ParsedAs, i)]
<1> DEFINE Upto(n) == \E g : g = [i \in 1..n |-> ParsedFrom(g, i)]
           n == Len(objects)
           S == {m \in 0..n : Upto(m)}
<1>1. n \in Nat /\ DOMAIN objects = 1..n
  BY DEF QueriesInv, ObjectsTyped
<1>2. \A i \in 1..n : \A k \in DOMAIN objects[i].args : objects[i].args[k] \in 1..(i - 1)
  BY <1>1 DEF QueriesInv, RefersBack
<1> HIDE DEF n
<1>3. Upto(0)
  <2>1. << >> = [i \in 1..0 |-> ParsedFrom(<< >>, i)]
    OBVIOUS
  <2> QED
    BY <2>1
<1>4. ASSUME NEW m \in 1..n, Upto(m - 1)
      PROVE  Upto(m)
  <2>1. PICK g : g = [i \in 1..(m - 1) |-> ParsedFrom(g, i)]
    BY <1>4
  <2> DEFINE h == [i \in 1..m |-> IF i = m THEN ParsedFrom(g, m) ELSE g[i]]
  <2>2. \A i \in 1..m : \A k \in DOMAIN objects[i].args :
          h[objects[i].args[k]] = g[objects[i].args[k]]
    BY <1>1, <1>2
  <2>3. \A i \in 1..m : h[i] = ParsedFrom(g, i)
    <3>1. \A i \in 1..(m - 1) : g[i] = ParsedFrom(g, i)
      BY <2>1
    <3>2. \A i \in 1..m : i = m \/ i \in 1..(m - 1)
      BY <1>1
    <3> QED
      BY <3>1, <3>2
  <2>4. \A i \in 1..m : ParsedFrom(h, i) = ParsedFrom(g, i)
    BY <2>2, Zenon DEF ParsedFrom
  <2>5. DOMAIN h = 1..m
    OBVIOUS
  <2>6. h = [i \in 1..m |-> h[i]]
    OBVIOUS
  <2> HIDE DEF h
  <2>7. \A i \in 1..m : h[i] = ParsedFrom(h, i)
    BY <2>3, <2>4
  <2>8. h = [i \in 1..m |-> ParsedFrom(h, i)]
    BY <2>6, <2>7, Zenon
  <2> QED
    BY <2>8
<1> HIDE DEF Upto
<1>5. \A m \in 0..n : (\A j \in 0..(m - 1) : j \in S) => m \in S
  <2> SUFFICES ASSUME NEW m \in 0..n, \A j \in 0..(m - 1) : j \in S
               PROVE  Upto(m)
    OBVIOUS
  <2>1. CASE m = 0
    BY <1>3, <2>1
  <2>2. CASE m # 0
    <3>1. m \in 1..n /\ m - 1 \in 0..(m - 1)
      BY <1>1, <2>2
    <3> QED
      BY <1>4, <3>1
  <2> QED
    BY <2>1, <2>2
<1>6. 0..n \subseteq S
  BY <1>1, <1>5, FromEarlierOnes
<1>7. Upto(n)
  BY <1>1, <1>6
<1>8. PICK g : g = [i \in DOMAIN objects |-> ParsedFrom(g, i)]
  BY <1>1, <1>7, Zenon DEF Upto
<1> QED
  BY <1>8, Zenon DEF ParsedAs, ParsedFrom

-----------------------------------------------------------------------------
(* What was built and not edited since. *)

LEMMA UntouchedObjects ==
  ASSUME QueriesInv, NEW i \in Untouched
  PROVE  /\ i \in DOMAIN objects /\ Checked(i)
         /\ \A k \in DOMAIN objects[i].args :
              objects[i].args[k] \in Untouched /\ objects[i].args[k] \in 1..(i - 1)
<1>1. i \in DOMAIN objects /\ Inside(TRUE)[i] \cap edited = {}
  BY DEF Untouched
<1>2. Inside(TRUE)[i] = {i} \cup UNION {Inside(TRUE)[a] : a \in Steps(TRUE, i)}
  BY <1>1, InsideEquation
<1>3. \A k \in DOMAIN objects[i].args : objects[i].args[k] \in 1..(i - 1)
  BY <1>1 DEF QueriesInv, RefersBack
<1>4. \A k \in DOMAIN objects[i].args : objects[i].args[k] \in Steps(TRUE, i)
  BY DEF Steps, Range
<1>5. \A k \in DOMAIN objects[i].args : objects[i].args[k] \in Untouched
  <2> SUFFICES ASSUME NEW k \in DOMAIN objects[i].args
               PROVE  objects[i].args[k] \in Untouched
    OBVIOUS
  <2>1. Inside(TRUE)[objects[i].args[k]] \subseteq Inside(TRUE)[i]
    BY <1>2, <1>4
  <2>2. objects[i].args[k] \in DOMAIN objects
    BY <1>1, <1>3 DEF QueriesInv, ObjectsTyped
  <2> QED
    BY <1>1, <2>1, <2>2 DEF Untouched
<1>6. i \notin edited
  BY <1>1, <1>2
<1> QED
  BY <1>1, <1>3, <1>5, <1>6 DEF QueriesInv

\* Its own class always parses the dump of an object.
LEMMA ParsesAsOwnClass ==
  ASSUME QueriesInv, NEW i \in Untouched
  PROVE  objects[i].class \in ParsedAs[i]
<1> DEFINE n == Len(objects)
           S == {m \in 0..n : m \in Untouched => objects[m].class \in ParsedAs[m]}
<1>1. n \in Nat /\ DOMAIN objects = 1..n
  BY DEF QueriesInv, ObjectsTyped
<1> HIDE DEF n
<1>2. ASSUME NEW m \in 0..n, \A j \in 0..(m - 1) : j \in S, m \in Untouched
      PROVE  objects[m].class \in ParsedAs[m]
  <2>1. /\ m \in DOMAIN objects /\ Checked(m)
        /\ \A k \in DOMAIN objects[m].args :
             objects[m].args[k] \in Untouched /\ objects[m].args[k] \in 1..(m - 1)
    BY <1>2, UntouchedObjects
  <2>2. \A k \in DOMAIN objects[m].args :
          objects[objects[m].args[k]].class \in ParsedAs[objects[m].args[k]]
    <3> SUFFICES ASSUME NEW k \in DOMAIN objects[m].args
                 PROVE  objects[objects[m].args[k]].class \in ParsedAs[objects[m].args[k]]
      OBVIOUS
    <3>1. objects[m].args[k] \in 0..(m - 1) /\ objects[m].args[k] \in Untouched
      BY <1>1, <2>1
    <3> QED
      BY <1>2, <3>1
  <2>3. objects[m].class \in Classes /\ objects[m].name \in Schema[objects[m].class].names
    BY <2>1, ObjectTyping DEF QueriesInv, RefersBack
  <2>4. objects[m].class \in ParsedFrom(ParsedAs, m)
    BY <2>1, <2>2, <2>3, ClassesOfKind DEF ParsedFrom, Dump, Checked
  <2> QED
    BY <2>1, <2>4, ParsedAsEquation
<1>3. \A m \in 0..n : (\A j \in 0..(m - 1) : j \in S) => m \in S
  BY <1>2
<1>4. 0..n \subseteq S
  BY <1>1, <1>3, FromEarlierOnes
<1>5. i \in 0..n
  BY <1>1, UntouchedObjects
<1> QED
  BY <1>4, <1>5

\* What a program built and did not edit is parsed back as objects of its own
\* classes, whatever field of the query API it stands in.
THEOREM ParsingTheorem == QuerySpec => []ParsesBackAsItself
<1>1. QueriesInv => ParsesBackAsItself
  <2> SUFFICES ASSUME QueriesInv, NEW i \in Untouched, NEW fields \in Unions,
                      objects[i].class \in fields
               PROVE  ParsedAs[i] \cap fields = {objects[i].class}
    BY DEF ParsesBackAsItself
  <2>1. objects[i].class \in ParsedAs[i]
    BY ParsesAsOwnClass
  <2>2. i \in DOMAIN objects
    BY UntouchedObjects
  <2>3. ASSUME NEW c \in ParsedAs[i] \cap fields
        PROVE  c = objects[i].class
    <3>1. c \in ParsedFrom(ParsedAs, i)
      BY <2>2, ParsedAsEquation
    <3>2. /\ Schema[c].kind = Schema[objects[i].class].kind
          /\ Schema[c].source = Schema[objects[i].class].source
          /\ objects[i].name \in Schema[c].names
      BY <2>2, <3>1, ClassesOfKind, ObjectTyping DEF ParsedFrom, Dump, QueriesInv
    <3>3. objects[i].name \in Schema[objects[i].class].names
      BY <2>2 DEF QueriesInv, RefersBack
    <3> QED
      BY <3>2, <3>3, FieldsDiscriminate
  <2> QED
    BY <2>1, <2>3
<1> QED
  BY <1>1, QueriesInvariant, PTL

-----------------------------------------------------------------------------
(* What an object may hold, class by class. *)

LEMMA ClassesOfParts ==
  ASSUME NEW c \in Classes
  PROVE  \/ c \in DOMAIN ScalarFunctions \/ c \in DOMAIN References \/ c \in DOMAIN Functions
         \/ c \in DOMAIN Windows \/ c \in Table \/ c \in DOMAIN Joins \/ c \in DOMAIN Stages
         \/ c \in DOMAIN Pipelines
BY DEF Classes, Parts, Tables

\* Only scalar functions share a name with in, only the functions of windows one with
\* rank.
LEMMA NamesDiffer ==
  /\ NoName \notin InOperations \cup RankingOperation
  /\ Operation \cap RankingOperation = {}
  /\ (OperationAgg \cup RankOverOperation) \cap (InOperations \cup RankingOperation) = {}
  /\ WindowOperation \cap InOperations = {}
  /\ \A t \in Table : TableNames[t] \cap (InOperations \cup RankingOperation) = {}
<1> USE DEF InOperations, RankingOperation, WindowOperation, OperationAgg
<1>1. NoName \notin InOperations \cup RankingOperation
  BY DEF NoName
<1>2. Operation \cap RankingOperation = {}
  BY DEF Operation
<1>3. (OperationAgg \cup RankOverOperation) \cap (InOperations \cup RankingOperation) = {}
  BY DEF RankOverOperation
<1>4. WindowOperation \cap InOperations = {}
  OBVIOUS
<1>5. \A t \in Table : TableNames[t] \cap (InOperations \cup RankingOperation) = {}
  BY SMTT(60) DEF Table, TableNames
<1> QED
  BY <1>1, <1>2, <1>3, <1>4, <1>5

\* What the names and kinds tell of the classes.
LEMMA ClassesByDump ==
  ASSUME NEW c \in Classes
  PROVE  /\ Schema[c].names \cap InOperations # {} => c \in DOMAIN ScalarFunctions
         /\ Schema[c].names \cap RankingOperation # {} =>
              c = "PreviousStageWindowFunctionCall"
         /\ Schema[c].kind = "columnReference" =>
              \/ c = "SourceColumnReference" /\ Schema[c].source = "table"
              \/ c = "PipelineColumnReference" /\ Schema[c].source = "pipeline"
              \/ c = "PreviousStageColumnReference" /\ Schema[c].source = "previousStage"
<1>1. CASE c \in DOMAIN ScalarFunctions
  BY <1>1, PartDomains, Rows, ClassFields, NamesDiffer DEF Function
<1>2. CASE c \in DOMAIN References
  BY <1>2, PartDomains, Rows, ClassFields, NamesDiffer DEF Leaf, TableReferences
<1>3. CASE c \in DOMAIN Functions
  BY <1>3, PartDomains, Rows, ClassFields, NamesDiffer DEF Function
<1>4. CASE c \in DOMAIN Windows
  BY <1>4, PartDomains, Rows, ClassFields, NamesDiffer
<1>5. CASE c \in Table
  BY <1>5, Rows, ClassFields, NamesDiffer
<1>6. CASE c \in DOMAIN Joins
  BY <1>6, PartDomains, Rows, ClassFields, NamesDiffer
<1>7. CASE c \in DOMAIN Stages
  BY <1>7, PartDomains, Rows, ClassFields, NamesDiffer DEF Leaf, Stage
<1>8. CASE c \in DOMAIN Pipelines
  BY <1>8, PartDomains, Rows, ClassFields, NamesDiffer
<1> QED
  BY <1>1, <1>2, <1>3, <1>4, <1>5, <1>6, <1>7, <1>8, ClassesOfParts

\* The function of a window stands nowhere but first in a window.
LEMMA WindowFunctionsComeFirst ==
  ASSUME NEW c \in Classes, NEW k, "PreviousStageWindowFunctionCall" \in Field(c, k)
  PROVE  c = "PreviousStageWindowFunction" /\ k = 1
<1> USE DEF Field
<1>1. "PreviousStageWindowFunctionCall" \notin
        Table \cup PreviousStageExpression \cup SourceExpression \cup ExpressionAgg
          \cup JoinTableExpression \cup JoinPipelineExpression \cup Stage
  BY DEF Table, TableNames, PreviousStageExpression, SourceExpression, TableReferences,
         ExpressionAgg, JoinTableExpression, JoinPipelineExpression, Stage
<1>2. CASE c \in DOMAIN ScalarFunctions
  BY <1>1, <1>2, PartDomains, Rows, ClassFields DEF Function
<1>3. CASE c \in DOMAIN References
  BY <1>3, PartDomains, Rows, ClassFields DEF Leaf, TableReferences
<1>4. CASE c \in DOMAIN Functions
  BY <1>1, <1>4, PartDomains, Rows, ClassFields DEF Function
<1>5. CASE c \in DOMAIN Windows
  BY <1>1, <1>5, PartDomains, Rows, ClassFields
<1>6. CASE c \in Table
  BY <1>6, Rows, ClassFields
<1>7. CASE c \in DOMAIN Joins
  BY <1>1, <1>7, PartDomains, Rows, ClassFields
<1>8. CASE c \in DOMAIN Stages
  BY <1>1, <1>8, PartDomains, Rows, ClassFields DEF Leaf, Stage
<1>9. CASE c \in DOMAIN Pipelines
  BY <1>1, <1>9, PartDomains, Rows, ClassFields
<1> QED
  BY <1>2, <1>3, <1>4, <1>5, <1>6, <1>7, <1>8, <1>9, ClassesOfParts

\* Sets of classes that what they hold does not leave.
Closed(K) == \A c \in K : Schema[c].first \cup Schema[c].rest \subseteq K

PreviousStageClasses ==
  PreviousStageExpression \cup {"PreviousStageWindowFunctionCall", "Order"}

LEMMA ClosedClasses ==
  /\ Closed(PreviousStageClasses)
  /\ Closed(PreviousStageClasses \cup ExpressionAgg)
  /\ Closed(Table \cup SourceExpression)
  /\ Closed(Table \cup JoinTableExpression)
  /\ Closed(JoinPipelineExpression)
<1> USE DEF Closed
<1>1. Closed(PreviousStageClasses)
  BY Rows, ClassFields DEF PreviousStageClasses, PreviousStageExpression, Leaf, Function
<1>2. Closed(PreviousStageClasses \cup ExpressionAgg)
  BY <1>1, Rows, ClassFields
     DEF ExpressionAgg, PreviousStageClasses, PreviousStageExpression, Leaf, Function
<1>3. Closed(Table \cup SourceExpression)
  BY Rows, ClassFields DEF SourceExpression, TableReferences, Leaf, Function
<1>4. Closed(Table \cup JoinTableExpression)
  BY Rows, ClassFields DEF JoinTableExpression, TableReferences, Leaf, Function
<1>5. Closed(JoinPipelineExpression)
  BY Rows, ClassFields DEF JoinPipelineExpression, Leaf, Function
<1> QED
  BY <1>1, <1>2, <1>3, <1>4, <1>5

\* What each argument of a stage may hold, but for the pipelines it joins.
LEMMA StageArguments ==
  ASSUME NEW c \in Stage, NEW k
  PROVE  \E K :
           /\ Closed(K) /\ Field(c, k) \subseteq K \cup {"Pipeline"}
           /\ "PreviousStageFunctionAgg" \in K => c = "Aggregate" /\ k = 1
           /\ "SourceColumnReference" \in K => c \in {"Source", "JoinTable"}
           /\ "PipelineColumnReference" \in K => c = "JoinPipeline"
           /\ "PreviousStageColumnReference" \in K => c # "Source"
<1> USE DEF Field
<1>1. CASE c = "Source"
  <2> DEFINE K == Table \cup SourceExpression
  <2>1. Field(c, k) \subseteq K
    BY <1>1, Rows, ClassFields
  <2>2. \A d \in K : d \notin {"PreviousStageFunctionAgg", "PipelineColumnReference",
                               "PreviousStageColumnReference"}
    BY DEF Table, TableNames, SourceExpression, TableReferences
  <2> QED
    BY <1>1, <2>1, <2>2, ClosedClasses
<1>2. CASE c = "JoinTable"
  <2> DEFINE K == Table \cup JoinTableExpression
  <2>1. Field(c, k) \subseteq K
    BY <1>2, Rows, ClassFields
  <2>2. \A d \in K : d \notin {"PreviousStageFunctionAgg", "PipelineColumnReference"}
    BY DEF Table, TableNames, JoinTableExpression, TableReferences
  <2> QED
    BY <1>2, <2>1, <2>2, ClosedClasses
<1>3. CASE c = "JoinPipeline"
  <2> DEFINE K == JoinPipelineExpression
  <2>1. Field(c, k) \subseteq K \cup {"Pipeline"}
    BY <1>3, Rows, ClassFields
  <2>2. \A d \in K : d \notin {"PreviousStageFunctionAgg", "SourceColumnReference"}
    BY DEF JoinPipelineExpression
  <2> QED
    BY <1>3, <2>1, <2>2, ClosedClasses
<1>4. CASE c = "Aggregate" /\ k = 1
  <2> DEFINE K == PreviousStageClasses \cup ExpressionAgg
  <2>1. Field(c, k) \subseteq K
    BY <1>4, Rows, ClassFields
  <2>2. \A d \in K : d \notin {"SourceColumnReference", "PipelineColumnReference"}
    BY DEF PreviousStageClasses, PreviousStageExpression, ExpressionAgg
  <2> QED
    BY <1>4, <2>1, <2>2, ClosedClasses
<1>5. CASE c \in Stage \ {"Source", "JoinTable", "JoinPipeline", "Aggregate"}
            \/ (c = "Aggregate" /\ k # 1)
  <2> DEFINE K == PreviousStageClasses
  <2>1. Field(c, k) \subseteq K
    BY <1>5, Rows, ClassFields DEF PreviousStageClasses, Leaf, Stage
  <2>2. \A d \in K : d \notin {"PreviousStageFunctionAgg", "SourceColumnReference",
                               "PipelineColumnReference"}
    BY DEF PreviousStageClasses, PreviousStageExpression
  <2> QED
    BY <1>5, <2>1, <2>2, ClosedClasses
<1> QED
  BY <1>1, <1>2, <1>3, <1>4, <1>5 DEF Stage

\* The walk of Inside stays among the classes that what it begins with may hold.
LEMMA HeldClasses ==
  ASSUME QueriesInv, NEW K, Closed(K), NEW i \in Untouched, objects[i].class \in K
  PROVE  \A j \in Inside(FALSE)[i] : j \in DOMAIN objects /\ objects[j].class \in K
<1> DEFINE n == Len(objects)
           Within(m) ==
             \A j \in Inside(FALSE)[m] : j \in DOMAIN objects /\ objects[j].class \in K
           S == {m \in 0..n : m \in Untouched /\ objects[m].class \in K => Within(m)}
<1>1. n \in Nat /\ DOMAIN objects = 1..n
  BY DEF QueriesInv, ObjectsTyped
<1> HIDE DEF n
<1>2. ASSUME NEW m \in 0..n, \A j \in 0..(m - 1) : j \in S,
             m \in Untouched, objects[m].class \in K
      PROVE  Within(m)
  <2>1. /\ m \in DOMAIN objects /\ Checked(m)
        /\ \A k \in DOMAIN objects[m].args :
             objects[m].args[k] \in Untouched /\ objects[m].args[k] \in 1..(m - 1)
    BY <1>2, UntouchedObjects
  <2>2. Inside(FALSE)[m] = {m} \cup UNION {Inside(FALSE)[a] : a \in Steps(FALSE, m)}
    BY <2>1, InsideEquation
  <2>3. ASSUME NEW a \in Steps(FALSE, m)
        PROVE  Within(a)
    <3>1. PICK k \in DOMAIN objects[m].args : a = objects[m].args[k]
      BY DEF Steps, Range
    <3>2. a \in 0..(m - 1) /\ a \in Untouched
      BY <1>1, <2>1, <3>1
    <3>3. objects[a].class \in Field(objects[m].class, k)
      BY <2>1, <3>1 DEF Checked
    <3>4. objects[a].class \in K
      BY <1>2, <3>3 DEF Field, Closed
    <3> QED
      BY <1>2, <3>2, <3>4
  <2> QED
    BY <1>2, <2>1, <2>2, <2>3
<1>3. \A m \in 0..n : (\A j \in 0..(m - 1) : j \in S) => m \in S
  BY <1>2
<1>4. 0..n \subseteq S
  BY <1>1, <1>3, FromEarlierOnes
<1>5. i \in 0..n
  BY <1>1, UntouchedObjects
<1> QED
  BY <1>4, <1>5

LEMMA StepsAreArguments ==
  ASSUME QueriesInv, NEW i \in Untouched, NEW a \in Steps(FALSE, i)
  PROVE  /\ a \in Untouched /\ objects[a].class # "Pipeline"
         /\ \E k \in DOMAIN objects[i].args :
              a = objects[i].args[k] /\ objects[a].class \in Field(objects[i].class, k)
<1>1. PICK k \in DOMAIN objects[i].args : a = objects[i].args[k]
  BY DEF Steps, Range
<1>2. objects[a].class # "Pipeline"
  BY DEF Steps
<1> QED
  BY <1>1, <1>2, UntouchedObjects DEF Checked

\* In what was built and not edited an aggregate holds no other, and gets into a
\* stage, but for the pipelines it joins, by the column of an Aggregate only.
THEOREM AggregatesTheorem == QuerySpec => []AggregatesDoNotNest
<1>1. QueriesInv => AggregatesDoNotNest
  <2> DEFINE Aggregates(i) ==
               {j \in Inside(FALSE)[i] : objects[j].class = "PreviousStageFunctionAgg"}
  <2> SUFFICES ASSUME QueriesInv, NEW i \in Untouched
               PROVE  /\ objects[i].class = "PreviousStageFunctionAgg" => Aggregates(i) = {i}
                      /\ objects[i].class \in Stage =>
                           \A k \in DOMAIN objects[i].args :
                             /\ objects[objects[i].args[k]].class # "Pipeline"
                             /\ Aggregates(objects[i].args[k]) # {}
                             => objects[i].class = "Aggregate" /\ k = 1
    BY DEF AggregatesDoNotNest
  <2>1. /\ i \in DOMAIN objects
        /\ \A k \in DOMAIN objects[i].args :
             /\ objects[i].args[k] \in Untouched
             /\ objects[objects[i].args[k]].class \in Field(objects[i].class, k)
    BY UntouchedObjects DEF Checked
  <2>2. ASSUME objects[i].class = "PreviousStageFunctionAgg"
        PROVE  Aggregates(i) = {i}
    <3>1. Inside(FALSE)[i] = {i} \cup UNION {Inside(FALSE)[a] : a \in Steps(FALSE, i)}
      BY <2>1, InsideEquation
    <3>2. ASSUME NEW a \in Steps(FALSE, i)
          PROVE  \A j \in Inside(FALSE)[a] : objects[j].class \in PreviousStageClasses
      <4>1. \A k : Field("PreviousStageFunctionAgg", k) = PreviousStageExpression
        BY Rows, ClassFields DEF Function, Field
      <4>2. a \in Untouched /\ \E k : objects[a].class \in Field(objects[i].class, k)
        BY StepsAreArguments
      <4> QED
        BY <2>2, <4>1, <4>2, HeldClasses, ClosedClasses DEF PreviousStageClasses
    <3>3. "PreviousStageFunctionAgg" \notin PreviousStageClasses
      BY DEF PreviousStageClasses, PreviousStageExpression
    <3> QED
      BY <2>2, <3>1, <3>2, <3>3
  <2>3. ASSUME objects[i].class \in Stage, NEW k \in DOMAIN objects[i].args,
               objects[objects[i].args[k]].class # "Pipeline",
               Aggregates(objects[i].args[k]) # {}
        PROVE  objects[i].class = "Aggregate" /\ k = 1
    <3>1. PICK K :
            /\ Closed(K) /\ Field(objects[i].class, k) \subseteq K \cup {"Pipeline"}
            /\ "PreviousStageFunctionAgg" \in K => objects[i].class = "Aggregate" /\ k = 1
      BY <2>3, StageArguments
    <3>2. objects[i].args[k] \in Untouched /\ objects[objects[i].args[k]].class \in K
      BY <2>1, <2>3, <3>1
    <3>3. \A j \in Inside(FALSE)[objects[i].args[k]] : objects[j].class \in K
      BY <3>1, <3>2, HeldClasses
    <3> QED
      BY <2>3, <3>1, <3>3
  <2> QED
    BY <2>2, <2>3
<1> QED
  BY <1>1, QueriesInvariant, PTL

\* What was built and not edited keeps the rules of the backend: literals as the
\* values of in, ranking functions in windows only, and stages that refer only to
\* what they have.
THEOREM BackendTheorem == QuerySpec => []BackendTakesWhatIsBuilt
<1>1. QueriesInv => BackendTakesWhatIsBuilt
  <2> DEFINE Refers(i, source) ==
               \E j \in Inside(FALSE)[i] : Dump(j).kind = "columnReference" /\ Dump(j).source = source
  <2> SUFFICES ASSUME QueriesInv, NEW i \in Untouched
               PROVE  /\ Dump(i).name \in InOperations =>
                           \A k \in 2..Len(objects[i].args) :
                             Dump(objects[i].args[k]).kind = "literal"
                      /\ \A k \in DOMAIN objects[i].args :
                           Dump(objects[i].args[k]).name \in RankingOperation
                             => k = 1 /\ Dump(i).kind = "windowFunction"
                      /\ objects[i].class \in Stage =>
                           /\ Refers(i, "table") => objects[i].class \in {"Source", "JoinTable"}
                           /\ Refers(i, "pipeline") => objects[i].class = "JoinPipeline"
                           /\ Refers(i, "previousStage") => objects[i].class # "Source"
    BY DEF BackendTakesWhatIsBuilt
  <2>1. /\ i \in DOMAIN objects /\ Checked(i) /\ objects[i].class \in Classes
        /\ objects[i].name \in Schema[objects[i].class].names
    BY UntouchedObjects, ObjectTyping DEF QueriesInv, RefersBack
  <2>2. ASSUME objects[i].name \in InOperations, NEW k \in 2..Len(objects[i].args)
        PROVE  Dump(objects[i].args[k]).kind = "literal"
    <3>1. objects[i].class \in DOMAIN ScalarFunctions
      BY <2>1, <2>2, ClassesByDump
    <3>2. objects[objects[i].args[k]].class = "LiteralValue"
      BY <2>1, <2>2, <3>1 DEF Checked, InValuesAreLiterals
    <3> QED
      BY <3>2, Rows, ClassFields DEF Leaf, Dump
  <2>3. ASSUME NEW k \in DOMAIN objects[i].args,
               objects[objects[i].args[k]].name \in RankingOperation
        PROVE  k = 1 /\ Dump(i).kind = "windowFunction"
    <3>1. objects[i].args[k] \in DOMAIN objects
      BY <2>3, UntouchedObjects
    <3>2. /\ objects[objects[i].args[k]].class \in Classes
          /\ objects[objects[i].args[k]].name \in Schema[objects[objects[i].args[k]].class].names
      BY <3>1, ObjectTyping DEF QueriesInv, RefersBack
    <3>3. objects[objects[i].args[k]].class = "PreviousStageWindowFunctionCall"
      BY <2>3, <3>2, ClassesByDump
    <3>4. objects[i].class = "PreviousStageWindowFunction" /\ k = 1
      BY <2>1, <2>3, <3>3, WindowFunctionsComeFirst DEF Checked
    <3> QED
      BY <3>4, Rows, ClassFields DEF Dump
  <2>4. ASSUME objects[i].class \in Stage, NEW j \in Inside(FALSE)[i],
               Dump(j).kind = "columnReference"
        PROVE  /\ Dump(j).source = "table" => objects[i].class \in {"Source", "JoinTable"}
               /\ Dump(j).source = "pipeline" => objects[i].class = "JoinPipeline"
               /\ Dump(j).source = "previousStage" => objects[i].class # "Source"
    <3>1. Inside(FALSE)[i] = {i} \cup UNION {Inside(FALSE)[a] : a \in Steps(FALSE, i)}
      BY <2>1, InsideEquation
    <3>2. Dump(i).kind # "columnReference"
      BY <2>4, Rows, ClassFields DEF Stage, Leaf, Dump
    <3>3. PICK a \in Steps(FALSE, i) : j \in Inside(FALSE)[a]
      BY <2>4, <3>1, <3>2
    <3>4. PICK k \in DOMAIN objects[i].args :
            objects[a].class \in Field(objects[i].class, k)
      BY StepsAreArguments
    <3>5. PICK K :
            /\ Closed(K) /\ Field(objects[i].class, k) \subseteq K \cup {"Pipeline"}
            /\ "SourceColumnReference" \in K => objects[i].class \in {"Source", "JoinTable"}
            /\ "PipelineColumnReference" \in K => objects[i].class = "JoinPipeline"
            /\ "PreviousStageColumnReference" \in K => objects[i].class # "Source"
      BY <2>4, StageArguments
    <3>6. a \in Untouched /\ objects[a].class \in K
      BY <3>4, <3>5, StepsAreArguments
    <3>7. j \in DOMAIN objects /\ objects[j].class \in K
      BY <3>3, <3>5, <3>6, HeldClasses
    <3>8. objects[j].class \in Classes
      BY <3>7, ObjectTyping DEF QueriesInv
    <3> QED
      BY <2>4, <3>5, <3>7, <3>8, ClassesByDump DEF Dump
  <2> QED
    BY <2>2, <2>3, <2>4 DEF Dump
<1> QED
  BY <1>1, QueriesInvariant, PTL
=============================================================================
