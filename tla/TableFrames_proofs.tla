------------------------- MODULE TableFrames_proofs -------------------------
(***************************************************************************)
(* Proofs about dataframes and tables, for every frame, manual spec and    *)
(* backend version: the version gate of push_pandas, the index that        *)
(* becomes the key and is not lost, and the fetched frame that fits its    *)
(* table.                                                                  *)
(***************************************************************************)
EXTENDS TableFrames, TLAPS

AllVersions == Nat \X Nat \X Nat

\* What SupportsLob accepts has the fix.
LEMMA SupportsMeansFixed ==
  ASSUME NEW v \in AllVersions, SupportsLob(v)
  PROVE  /\ v[1] >= 16
         /\ v[1] = 16 => AtLeast(v, <<16, 3, 13>>)
         /\ v[1] = 17 => AtLeast(v, <<17, 0, 4>>)
  BY DEF SupportsLob, Bounds, AtLeast, AllVersions

\* Within a major, what supports a LOB field goes on to in every later version
\* ("Within a single major versions ARE monotonic").
THEOREM GateIsMonotonicPerMajor ==
  ASSUME NEW v \in AllVersions, NEW w \in AllVersions,
         v[1] = w[1], AtLeast(w, v), SupportsLob(v)
  PROVE  SupportsLob(w)
<1>1. CASE \E bound \in Bounds : v[1] = bound[1] /\ AtLeast(v, bound)
  <2>1. PICK bound \in Bounds : v[1] = bound[1] /\ AtLeast(v, bound)
    BY <1>1
  <2>2. w[1] = bound[1] /\ AtLeast(w, bound)
    BY <2>1 DEF Bounds, AtLeast, AllVersions
  <2> QED BY <2>2 DEF SupportsLob
<1>2. CASE \A bound \in Bounds : v[1] > bound[1]
  BY <1>2 DEF SupportsLob
<1> QED BY <1>1, <1>2 DEF SupportsLob

\* A later major than every bounded one needs no bound ("A backend on a major newer
\* than every listed major is assumed to support the type"), an earlier one fails.
THEOREM GateOfOtherMajors ==
  ASSUME NEW v \in AllVersions
  PROVE  /\ v[1] >= 18 => SupportsLob(v)
         /\ v[1] <= 15 => ~SupportsLob(v)
  BY DEF SupportsLob, Bounds, AtLeast, AllVersions

\* A LOB field of a table comes from a LOB field of the spec that was sent.
LEMMA FieldsComeFromTheSpec ==
  ASSUME NEW fields, NEW cols,
         \E c \in DOMAIN TableOf(fields, cols).fields :
            TableOf(fields, cols).fields[c].type = "LOB"
  PROVE  \E c \in DOMAIN fields : fields[c].type = "LOB"
<1> DEFINE Sent == TableOf(fields, cols).fields
           Old(name) == OldName(fields, DOMAIN fields, name)
<1>1. PICK name \in NewNames(fields, DOMAIN fields) : Sent[name].type = "LOB"
  BY DEF TableOf
<1>2. \E c \in DOMAIN fields : NewName(fields, c) = name
  BY <1>1 DEF NewNames
<1>3. Old(name) \in DOMAIN fields
  BY <1>2 DEF OldName
<1>4. Sent[name].type = fields[Old(name)].type
  BY <1>1 DEF TableOf
<1> QED BY <1>1, <1>3, <1>4

\* The gate of push is not passed by, and the version of the backend stays: a table
\* with a LOB field is on a backend with the fix.
LobInvariant == version \in AllVersions /\ LobNeedsTheFix

THEOREM TablesNeedTheFix == Spec => []LobNeedsTheFix
<1>1. Init => LobInvariant
  BY VersionsAssumption DEF Init, LobInvariant, LobNeedsTheFix, NoTable, AllVersions
<1>2. LobInvariant /\ [Next]_vars => LobInvariant'
  <2> SUFFICES ASSUME LobInvariant, [Next]_vars PROVE LobInvariant'
    OBVIOUS
  <2>1. UNCHANGED <<table, version>> => LobInvariant'
    BY DEF LobInvariant, LobNeedsTheFix
  <2>2. ASSUME NEW p \in Options, NEW manual \in Manuals \cup {NoManual},
               NEW keepIndex \in BOOLEAN, NEW replace \in BOOLEAN,
               PushPandas(p, manual, keepIndex, replace)
        PROVE  LobInvariant'
    <3> DEFINE fields == Updated(FieldsSpec(frame, p), manual, keepIndex)
               cols == Converted(Prepared(frame, p), FieldsSpec(frame, p), manual, keepIndex)
               Gated == (\E c \in DOMAIN fields : fields[c].type = "LOB") => SupportsLob(version)
    <3>1. version' = version
      BY <2>2 DEF PushPandas
    <3>2. table' = table \/ (Gated /\ table' = TableOf(fields, cols))
      BY <2>2 DEF PushPandas
    <3>3. CASE table' = table
      BY <3>1, <3>3, <2>1
    <3>4. CASE Gated /\ table' = TableOf(fields, cols)
      <4>1. (\E c \in DOMAIN table'.fields : table'.fields[c].type = "LOB")
              => SupportsLob(version)
        <5> HIDE DEF fields, cols
        <5> QED BY <3>4, FieldsComeFromTheSpec
      <4>2. SupportsLob(version) =>
              /\ version[1] >= 16
              /\ version[1] = 16 => AtLeast(version, <<16, 3, 13>>)
              /\ version[1] = 17 => AtLeast(version, <<17, 0, 4>>)
        BY SupportsMeansFixed DEF LobInvariant
      <4>3. LobNeedsTheFix'
        BY <4>1, <4>2, <3>1 DEF LobNeedsTheFix
      <4> QED BY <4>3, <3>1 DEF LobInvariant
    <3> QED BY <3>2, <3>3, <3>4
  <2>3. ASSUME NEW p \in Options, UpdatePandas(p) PROVE LobInvariant'
    BY <2>3, <2>1 DEF UpdatePandas
  <2>4. CASE GetTable
    BY <2>4, <2>1 DEF GetTable
  <2>5. ASSUME NEW columns, ToPandas(columns) PROVE LobInvariant'
    BY <2>5, <2>1 DEF ToPandas
  <2>6. CASE UNCHANGED vars
    BY <2>6, <2>1 DEF vars
  <2> QED BY <2>2, <2>3, <2>4, <2>5, <2>6 DEF Next
<1>3. LobInvariant => LobNeedsTheFix
  BY DEF LobInvariant
<1> QED BY <1>1, <1>2, <1>3, PTL DEF Spec

-----------------------------------------------------------------------------
(* What the preparation makes of a frame. *)

LEMMA ColumnNamed ==
  ASSUME NEW f, FrameOK(f), NEW i \in DOMAIN f.levels
  PROVE  ColumnName(f, i) # NoName
BY LevelNameAssumption DEF FrameOK, ColumnName, NoName

\* reset_index, finished or refused half-way, adds levels to the columns.
LEMMA InsertedColumns ==
  ASSUME NEW f, FrameOK(f)
  PROVE  /\ \A c \in DOMAIN f.cols :
              c \in DOMAIN WithInserted(f) /\ WithInserted(f)[c] = f.cols[c]
         /\ NoName \notin DOMAIN WithInserted(f)
         /\ \A c \in DOMAIN WithInserted(f) : WithInserted(f)[c].dtype \in Dtypes
<1> DEFINE names == {ColumnName(f, i) : i \in Inserted(f)}
           Chosen(c) == CHOOSE i \in Inserted(f) : ColumnName(f, i) = c
           cols == [c \in DOMAIN f.cols \cup names |->
                      IF c \in DOMAIN f.cols THEN f.cols[c] ELSE f.levels[Chosen(c)].col]
<1>1. WithInserted(f) = cols
  BY DEF WithInserted
<1>2. NoName \notin names
  BY ColumnNamed DEF Inserted
<1>3. ASSUME NEW c \in names
      PROVE  Chosen(c) \in DOMAIN f.levels
  BY DEF Inserted
<1> QED
  BY <1>1, <1>2, <1>3 DEF FrameOK

LEMMA ColumnNamesDiffer ==
  ASSUME NEW f, FrameOK(f), Resets(f)
  PROVE  /\ \A i \in DOMAIN f.levels : ColumnName(f, i) \notin DOMAIN f.cols
         /\ \A i, j \in DOMAIN f.levels : ColumnName(f, i) = ColumnName(f, j) => i = j
<1>1. DOMAIN f.levels \subseteq Nat
  BY DEF FrameOK
<1>2. \A i \in DOMAIN f.levels : ~Taken(f, i)
  BY <1>1 DEF Resets, Inserted
<1>3. \A i, j \in DOMAIN f.levels : i = j \/ i > j \/ j > i
  BY <1>1
<1> QED
  BY <1>2, <1>3 DEF Taken

\* reset_index puts every level next to the columns, under its name.
LEMMA ResetColumns ==
  ASSUME NEW f, FrameOK(f), Resets(f)
  PROVE  /\ DOMAIN Reset(f).cols
              = DOMAIN f.cols \cup {ColumnName(f, i) : i \in DOMAIN f.levels}
         /\ \A c \in DOMAIN f.cols : Reset(f).cols[c] = f.cols[c]
         /\ \A i \in DOMAIN f.levels : Reset(f).cols[ColumnName(f, i)] = f.levels[i].col
         /\ FrameOK(Reset(f))
<1> DEFINE cols == WithInserted(f)
<1>1. Reset(f).cols = cols /\ Reset(f).levels = RangeIndex
  BY DEF Reset, Frame
<1>2. Inserted(f) = DOMAIN f.levels
  BY DEF Resets
<1>3. DOMAIN cols = DOMAIN f.cols \cup {ColumnName(f, i) : i \in DOMAIN f.levels}
  BY <1>2 DEF WithInserted
<1>4. ASSUME NEW i \in DOMAIN f.levels
      PROVE  cols[ColumnName(f, i)] = f.levels[i].col
  <2>1. /\ ColumnName(f, i) \notin DOMAIN f.cols
        /\ \A j \in DOMAIN f.levels : ColumnName(f, j) = ColumnName(f, i) <=> j = i
    BY ColumnNamesDiffer
  <2>2. (CHOOSE j \in Inserted(f) : ColumnName(f, j) = ColumnName(f, i)) = i
    BY <1>2, <2>1
  <2> QED
    BY <1>2, <2>1, <2>2 DEF WithInserted
<1>5. FrameOK(Reset(f))
  <2>1. /\ DOMAIN RangeIndex = {0}
        /\ RangeIndex[0].col.dtype = "int"
    BY DEF RangeIndex, Level, Column
  <2> QED
    BY <1>1, <2>1, InsertedColumns, LevelNameAssumption DEF FrameOK, Dtypes
<1> QED
  BY <1>1, <1>3, <1>4, <1>5, InsertedColumns

LEMMA SupportedType ==
  ASSUME NEW dtype \in Dtypes
  PROVE  /\ PricefxType(dtype) \in Types \cup {NoType}
         /\ PricefxType(dtype) # NoType => PricefxType(dtype) \in Types
         /\ PricefxType("str") = "TEXT"
<1>1. /\ PricefxType("str") = "TEXT" /\ PricefxType("int") = "INTEGER"
      /\ PricefxType("float") = "NUMBER" /\ PricefxType("bool") = "BOOLEAN"
      /\ PricefxType("date") = "DATE" /\ PricefxType("list") = NoType
  BY DEF PricefxType
<1> QED
  BY <1>1 DEF Dtypes, Types

\* What is sent has supported types and names, and no more than the reset frame.
LEMMA PreparedColumns ==
  ASSUME NEW f, NEW p \in Options, FrameOK(f), ~PreparationFails(f, p)
  PROVE  /\ DOMAIN Prepared(f, p) \subseteq DOMAIN Reset(f).cols
         /\ NoName \notin DOMAIN Prepared(f, p)
         /\ \A c \in DOMAIN Prepared(f, p) : PricefxType(Prepared(f, p)[c].dtype) \in Types
         /\ \A c \in DOMAIN Reset(f).cols :
              PricefxType(Reset(f).cols[c].dtype) # NoType =>
                /\ c \in DOMAIN Prepared(f, p)
                /\ Prepared(f, p)[c] = Reset(f).cols[c]
<1> DEFINE cols == Reset(f).cols
<1>1. Resets(f) /\ FrameOK(Reset(f))
  BY ResetColumns DEF PreparationFails
<1>2. /\ NoName \notin DOMAIN cols
      /\ \A c \in DOMAIN cols : cols[c].dtype \in Dtypes
  BY <1>1 DEF FrameOK
<1> HIDE DEF cols
<1>3. \A c \in DOMAIN cols : c \notin Unsupported(cols) <=> PricefxType(cols[c].dtype) # NoType
  BY DEF Unsupported
<1>4. \A c \in DOMAIN cols :
        c \notin Unsupported(cols) => PricefxType(cols[c].dtype) \in Types
  BY <1>2, <1>3, SupportedType
<1>5. CASE p.unsupported = "coerce"
  <2>1. Prepared(f, p) = Coerced(cols)
    BY <1>5 DEF Prepared, cols
  <2>2. DOMAIN Coerced(cols) = DOMAIN cols
    BY DEF Coerced
  <2>3. \A c \in DOMAIN cols :
          Coerced(cols)[c] = IF c \in Unsupported(cols) THEN Column("str", cols[c].data) ELSE cols[c]
    BY DEF Coerced
  <2>4. "TEXT" \in Types /\ PricefxType("str") = "TEXT"
    BY SupportedType DEF Types, Dtypes
  <2>5. \A c \in DOMAIN cols : PricefxType(Coerced(cols)[c].dtype) \in Types
    <3> SUFFICES ASSUME NEW c \in DOMAIN cols
                 PROVE  PricefxType(Coerced(cols)[c].dtype) \in Types
      OBVIOUS
    <3>1. CASE c \in Unsupported(cols)
      <4>1. Coerced(cols)[c] = Column("str", cols[c].data)
        BY <2>3, <3>1
      <4>2. Column("str", cols[c].data).dtype = "str"
        BY DEF Column
      <4> QED
        BY <2>4, <4>1, <4>2
    <3>2. CASE c \notin Unsupported(cols)
      BY <1>4, <2>3, <3>2
    <3> QED
      BY <3>1, <3>2
  <2> QED
    BY <1>2, <1>3, <2>1, <2>2, <2>3, <2>5 DEF cols
<1>6. CASE p.unsupported # "coerce"
  <2>1. Prepared(f, p) = Dropped(cols)
    BY <1>6 DEF Prepared, cols
  <2>2. /\ DOMAIN Dropped(cols) = DOMAIN cols \ Unsupported(cols)
        /\ \A c \in DOMAIN cols \ Unsupported(cols) : Dropped(cols)[c] = cols[c]
    BY DEF Dropped
  <2> QED
    BY <1>2, <1>3, <1>4, <2>1, <2>2 DEF cols
<1> QED
  BY <1>5, <1>6

\* Unless a column is dropped, all of the reset frame is sent.
LEMMA AllIsPrepared ==
  ASSUME NEW f, NEW p \in Options, ~PreparationFails(f, p),
         p.unsupported = "drop" => Unsupported(Reset(f).cols) = {}
  PROVE  /\ DOMAIN Prepared(f, p) = DOMAIN Reset(f).cols
         /\ \A c \in DOMAIN Reset(f).cols : Prepared(f, p)[c].data = Reset(f).cols[c].data
<1> DEFINE cols == Reset(f).cols
<1>1. CASE p.unsupported = "coerce"
  <2>1. Prepared(f, p) = Coerced(cols)
    BY <1>1 DEF Prepared
  <2> HIDE DEF cols
  <2>2. /\ DOMAIN Coerced(cols) = DOMAIN cols
        /\ \A c \in DOMAIN cols : Coerced(cols)[c].data = cols[c].data
    BY DEF Coerced, Column
  <2> QED
    BY <2>1, <2>2 DEF cols
<1>2. CASE p.unsupported # "coerce"
  <2>1. Prepared(f, p) = Dropped(cols)
    BY <1>2 DEF Prepared
  <2>2. Unsupported(cols) = {}
    BY <1>2 DEF PreparationFails, Options
  <2> HIDE DEF cols
  <2> QED
    BY <2>1, <2>2 DEF Dropped, cols
<1> QED
  BY <1>1, <1>2

\* The caller's frame stays a frame, prepared in place or not, and holds all its data.
IndexAndColumns(f) == IndexData(f) \cup {f.cols[c].data : c \in DOMAIN f.cols}

LEMMA SourceIsFrame ==
  ASSUME NEW f, NEW p \in Options, FrameOK(f)
  PROVE  FrameOK(Source(f, p)) /\ IndexAndColumns(f) \subseteq IndexAndColumns(Source(f, p))
<1>1. CASE ~p.inplace
  BY <1>1 DEF Source
<1>2. CASE p.inplace /\ ~Resets(f)
  <2> DEFINE source == Frame(f.levels, WithInserted(f))
  <2>1. source.levels = f.levels /\ source.cols = WithInserted(f)
    BY DEF Frame
  <2> HIDE DEF source
  <2>2. FrameOK(source)
    BY <2>1, InsertedColumns DEF FrameOK
  <2>3. IndexAndColumns(f) \subseteq IndexAndColumns(source)
    BY <2>1, InsertedColumns DEF IndexAndColumns, IndexData
  <2>4. Source(f, p) = source
    BY <1>2 DEF Source, source
  <2> QED
    BY <2>2, <2>3, <2>4
<1>3. CASE p.inplace /\ Resets(f)
  <2> DEFINE cols == Reset(f).cols
             coerced == Frame(RangeIndex, Coerced(cols))
  <2>1. /\ FrameOK(Reset(f))
        /\ DOMAIN cols = DOMAIN f.cols \cup {ColumnName(f, i) : i \in DOMAIN f.levels}
        /\ \A c \in DOMAIN f.cols : cols[c] = f.cols[c]
        /\ \A i \in DOMAIN f.levels : cols[ColumnName(f, i)] = f.levels[i].col
    BY <1>3, ResetColumns
  <2>2. Source(f, p) = Reset(f) \/ Source(f, p) = coerced
    BY <1>3 DEF Source
  <2>3. Reset(f).levels = RangeIndex
    BY DEF Reset, Frame
  <2> HIDE DEF cols
  <2>4. /\ DOMAIN Coerced(cols) = DOMAIN cols
        /\ \A c \in DOMAIN cols : Coerced(cols)[c].data = cols[c].data
    BY DEF Coerced, Column
  <2>5. coerced.levels = RangeIndex /\ coerced.cols = Coerced(cols)
    BY DEF Frame
  <2> HIDE DEF coerced
  <2>6. FrameOK(coerced)
    <3>1. \A c \in DOMAIN cols : Coerced(cols)[c].dtype \in Dtypes
      BY <2>1 DEF Coerced, Column, FrameOK, Dtypes, cols
    <3> QED
      BY <2>1, <2>3, <2>4, <2>5, <3>1 DEF FrameOK, cols
  <2>7. \A d \in IndexAndColumns(f) : \E c \in DOMAIN cols : cols[c].data = d
    BY <2>1 DEF IndexAndColumns, IndexData
  <2>8. IndexAndColumns(f) \subseteq IndexAndColumns(Reset(f))
    BY <2>7 DEF IndexAndColumns, cols
  <2>9. IndexAndColumns(f) \subseteq IndexAndColumns(coerced)
    BY <2>4, <2>5, <2>7 DEF IndexAndColumns
  <2> QED
    BY <2>1, <2>2, <2>6, <2>8, <2>9
<1> QED
  BY <1>1, <1>2, <1>3

-----------------------------------------------------------------------------
(* What a table is made of. *)

LEMMA SpecOfPrepared ==
  ASSUME NEW f, NEW p \in Options
  PROVE  /\ DOMAIN FieldsSpec(f, p) = DOMAIN Prepared(f, p)
         /\ \A c \in DOMAIN Prepared(f, p) :
              FieldsSpec(f, p)[c] = [name |-> c, type |-> PricefxType(Prepared(f, p)[c].dtype),
                                     key |-> c \in Keys(f)]
BY DEF FieldsSpec

\* Fields with known types, and different names, make a table with such fields and
\* with data for each.
LEMMA TableOfFields ==
  ASSUME NEW fields, NEW cols, DOMAIN cols = DOMAIN fields, DistinctNames(fields)
  PROVE  /\ DOMAIN TableOf(fields, cols).fields = {fields[c].name : c \in DOMAIN fields}
         /\ DOMAIN TableOf(fields, cols).data = {fields[c].name : c \in DOMAIN fields}
         /\ \A c \in DOMAIN fields :
              /\ TableOf(fields, cols).fields[fields[c].name]
                   = [type |-> fields[c].type, key |-> fields[c].key]
              /\ TableOf(fields, cols).data[fields[c].name] = Encoded(fields[c].name, cols[c])
<1> DEFINE C == DOMAIN fields
           Old(name) == OldName(fields, C, name)
           F == [name \in NewNames(fields, C) |->
                   [type |-> fields[Old(name)].type, key |-> fields[Old(name)].key]]
           D == [name \in NewNames(fields, C) |-> Encoded(name, cols[Old(name)])]
<1>1. TableOf(fields, cols).fields = F /\ TableOf(fields, cols).data = D
  BY DEF TableOf
<1>2. NewNames(fields, C) = {fields[c].name : c \in C}
  BY DEF NewNames, NewName
<1>3. DOMAIN F = NewNames(fields, C) /\ DOMAIN D = NewNames(fields, C)
  OBVIOUS
<1>4. ASSUME NEW c \in C
      PROVE  /\ F[fields[c].name] = [type |-> fields[c].type, key |-> fields[c].key]
             /\ D[fields[c].name] = Encoded(fields[c].name, cols[c])
  <2> DEFINE name == fields[c].name
  <2>1. name \in NewNames(fields, C)
    BY <1>2
  <2>2. \A d \in C : NewName(fields, d) = name <=> d = c
    BY DEF NewName, DistinctNames
  <2>3. Old(name) = c
    BY <2>2 DEF OldName
  <2>4. /\ F[name] = [type |-> fields[Old(name)].type, key |-> fields[Old(name)].key]
        /\ D[name] = Encoded(name, cols[Old(name)])
    BY <2>1
  <2> HIDE DEF F, D, Old
  <2> QED
    BY <2>3, <2>4 DEF name
<1> HIDE DEF F, D
<1> QED
  BY <1>1, <1>2, <1>3, <1>4

-----------------------------------------------------------------------------
(* Type correctness. *)

\* What push_pandas sends: the fields, and the columns.
SentFields(f, p, manual, keepIndex) == Updated(FieldsSpec(f, p), manual, keepIndex)
SentColumns(f, p, manual, keepIndex) ==
  Converted(Prepared(f, p), FieldsSpec(f, p), manual, keepIndex)
SentTable(f, p, manual, keepIndex) ==
  TableOf(SentFields(f, p, manual, keepIndex), SentColumns(f, p, manual, keepIndex))

\* It makes a table, whatever the manual spec.
LEMMA PushedTable ==
  ASSUME NEW f, NEW p \in Options, NEW manual \in Manuals \cup {NoManual},
         NEW keepIndex \in BOOLEAN,
         FrameOK(f), ~PreparationFails(f, p),
         DistinctNames(SentFields(f, p, manual, keepIndex))
  PROVE  /\ FieldsOK(SentTable(f, p, manual, keepIndex).fields)
         /\ DOMAIN SentTable(f, p, manual, keepIndex).data
              = DOMAIN SentTable(f, p, manual, keepIndex).fields
<1> DEFINE prep == Prepared(f, p)
           spec == FieldsSpec(f, p)
           fields == SentFields(f, p, manual, keepIndex)
           cols == SentColumns(f, p, manual, keepIndex)
<1>1. /\ NoName \notin DOMAIN prep
      /\ \A c \in DOMAIN prep : PricefxType(prep[c].dtype) \in Types
  BY PreparedColumns
<1>2. /\ DOMAIN spec = DOMAIN prep
      /\ \A c \in DOMAIN prep :
           spec[c] = [name |-> c, type |-> PricefxType(prep[c].dtype), key |-> c \in Keys(f)]
  BY SpecOfPrepared
<1> HIDE DEF prep, spec
<1>3. \A c \in DOMAIN spec : spec[c].name # NoName /\ spec[c].type \in Types /\ spec[c].key \in BOOLEAN
  <2> SUFFICES ASSUME NEW c \in DOMAIN spec
               PROVE  spec[c].name # NoName /\ spec[c].type \in Types /\ spec[c].key \in BOOLEAN
    OBVIOUS
  <2>1. spec[c] = [name |-> c, type |-> PricefxType(prep[c].dtype), key |-> c \in Keys(f)]
    BY <1>2
  <2>2. /\ spec[c].name = c /\ spec[c].type = PricefxType(prep[c].dtype)
        /\ spec[c].key = (c \in Keys(f))
    BY <2>1
  <2>3. spec[c].key \in BOOLEAN
    BY <2>2
  <2> QED
    BY <1>1, <1>2, <2>2, <2>3
<1>4. DOMAIN fields = Kept(spec, keepIndex) /\ Kept(spec, keepIndex) \subseteq DOMAIN spec
  BY DEF Updated, Kept, spec, SentFields
<1>5. DOMAIN cols = DOMAIN fields
  BY <1>2, <1>4 DEF Converted, prep, spec, SentColumns
<1>6. \A c \in DOMAIN manual : /\ manual[c].name # NoName
                               /\ manual[c].type \in Types \cup {NoType}
                               /\ manual[c].key \in BOOLEAN
  BY ManualsAssumption DEF NoManual
<1>7. \A c \in DOMAIN fields :
        fields[c] = IF c \notin DOMAIN manual THEN spec[c]
                    ELSE [name |-> manual[c].name, key |-> manual[c].key,
                          type |-> IF manual[c].type = NoType THEN spec[c].type
                                                              ELSE manual[c].type]
  BY <1>4 DEF Updated, spec, SentFields
<1> HIDE DEF fields, cols
<1>8. \A c \in DOMAIN fields :
        fields[c].name # NoName /\ fields[c].type \in Types /\ fields[c].key \in BOOLEAN
  <2> SUFFICES ASSUME NEW c \in DOMAIN fields
               PROVE  /\ fields[c].name # NoName /\ fields[c].type \in Types
                      /\ fields[c].key \in BOOLEAN
    OBVIOUS
  <2>1. CASE c \notin DOMAIN manual
    BY <1>3, <1>4, <1>7, <2>1
  <2>2. CASE c \in DOMAIN manual
    <3>1. /\ fields[c].name = manual[c].name /\ fields[c].key = manual[c].key
          /\ fields[c].type = IF manual[c].type = NoType THEN spec[c].type ELSE manual[c].type
      BY <1>7, <2>2
    <3> QED
      BY <1>3, <1>4, <1>6, <2>2, <3>1
  <2> QED
    BY <2>1, <2>2
<1> DEFINE sent == TableOf(fields, cols)
<1>9. /\ DOMAIN sent.fields = {fields[c].name : c \in DOMAIN fields}
      /\ DOMAIN sent.data = {fields[c].name : c \in DOMAIN fields}
      /\ \A c \in DOMAIN fields :
           sent.fields[fields[c].name] = [type |-> fields[c].type, key |-> fields[c].key]
  BY <1>5, TableOfFields DEF fields
<1> HIDE DEF sent
<1>10. \A name \in DOMAIN sent.fields :
         /\ name # NoName
         /\ sent.fields[name].type \in Types /\ sent.fields[name].key \in BOOLEAN
  <2> SUFFICES ASSUME NEW c \in DOMAIN fields
               PROVE  /\ fields[c].name # NoName
                      /\ sent.fields[fields[c].name].type \in Types
                      /\ sent.fields[fields[c].name].key \in BOOLEAN
    BY <1>9
  <2>1. sent.fields[fields[c].name] = [type |-> fields[c].type, key |-> fields[c].key]
    BY <1>9
  <2>2. /\ sent.fields[fields[c].name].type = fields[c].type
        /\ sent.fields[fields[c].name].key = fields[c].key
    BY <2>1
  <2> QED
    BY <1>8, <2>2
<1> QED
  BY <1>9, <1>10 DEF FieldsOK, SentTable, sent, fields, cols

\* Every column and level of a frame has a type that a table can have.
AllSupported(f) ==
  /\ \A c \in DOMAIN f.cols : PricefxType(f.cols[c].dtype) # NoType
  /\ \A i \in DOMAIN f.levels : PricefxType(f.levels[i].col.dtype) # NoType

\* What pandas reads from a table has types, and set_index makes an index of the keys.
LEMMA FetchedFrame ==
  ASSUME FieldsOK(table.fields), NEW columns \in SUBSET DOMAIN table.fields,
         NEW keys \in SUBSET columns, NEW order \in Orders(keys)
  PROVE  LET f == Indexed(columns, order) IN
         /\ FrameOK(f)
         /\ DOMAIN f.cols = columns \ keys
         /\ keys # {} => LevelNames(f) = keys
         /\ AllSupported(f)
<1> DEFINE read(type) == [TEXT |-> "str", LOB |-> "str", DATE |-> "str", INTEGER |-> "int",
                          NUMBER |-> "float", BOOLEAN |-> "bool"][type]
<1>1. \A type \in Types : read(type) \in Dtypes /\ PricefxType(read(type)) # NoType
  <2>1. /\ PricefxType("str") = "TEXT" /\ PricefxType("int") = "INTEGER"
        /\ PricefxType("float") = "NUMBER" /\ PricefxType("bool") = "BOOLEAN"
    BY DEF PricefxType
  <2>2. \A type \in Types : read(type) \in {"str", "int", "float", "bool"}
    BY DEF Types
  <2> HIDE DEF read
  <2> QED
    BY <2>1, <2>2 DEF Dtypes, NoType
<1>2. \A c : FromTable(c).dtype = read(table.fields[c].type)
  BY DEF FromTable, Column
<1> HIDE DEF read
<1>3. \A c \in columns :
        c # NoName /\ FromTable(c).dtype \in Dtypes /\ PricefxType(FromTable(c).dtype) # NoType
  BY <1>1, <1>2 DEF FieldsOK
<1>4. /\ DOMAIN order \subseteq Nat
      /\ \A i \in DOMAIN order : order[i] \in keys
      /\ \A c \in keys : \E i \in DOMAIN order : order[i] = c
  <2>1. PICK n : order \in [0..n -> keys]
    BY DEF Orders
  <2> QED
    BY <2>1 DEF Orders
<1>5. {order[i] : i \in DOMAIN order} = keys
  BY <1>4
<1> DEFINE levels == IF DOMAIN order = {} THEN RangeIndex
                     ELSE [i \in DOMAIN order |-> Level(order[i], FromTable(order[i]))]
           cols == [c \in columns \ keys |-> FromTable(c)]
<1>6. Indexed(columns, order).levels = levels /\ Indexed(columns, order).cols = cols
  BY <1>5 DEF Indexed, Frame
<1>7. /\ DOMAIN cols = columns \ keys
      /\ \A c \in DOMAIN cols : cols[c] = FromTable(c)
  OBVIOUS
<1>8. /\ DOMAIN levels \subseteq Nat
      /\ \A i \in DOMAIN levels :
           /\ levels[i].col.dtype \in Dtypes /\ PricefxType(levels[i].col.dtype) # NoType
           /\ levels[i].name = NoName => i \in DOMAIN LevelName
      /\ keys # {} => {levels[i].name : i \in DOMAIN levels} = keys
  <2>1. CASE DOMAIN order = {}
    <3>1. keys = {}
      BY <1>4, <2>1
    <3>2. DOMAIN levels = {0} /\ levels[0].col.dtype = "int"
      BY <2>1 DEF RangeIndex, Level, Column
    <3>3. "int" \in Dtypes /\ PricefxType("int") # NoType
      BY DEF Dtypes, PricefxType, NoType
    <3> HIDE DEF levels
    <3> QED
      BY <3>1, <3>2, <3>3, LevelNameAssumption
  <2>2. CASE DOMAIN order # {}
    <3>1. /\ DOMAIN levels = DOMAIN order
          /\ \A i \in DOMAIN order : levels[i].name = order[i] /\ levels[i].col = FromTable(order[i])
      BY <2>2 DEF Level
    <3> HIDE DEF levels
    <3>2. {levels[i].name : i \in DOMAIN levels} = keys
      BY <1>4, <3>1
    <3> QED
      BY <1>3, <1>4, <3>1, <3>2
  <2> QED
    BY <2>1, <2>2
<1> HIDE DEF levels, cols
<1>9. FrameOK(Indexed(columns, order))
  BY <1>3, <1>6, <1>7, <1>8 DEF FrameOK
<1> QED
  BY <1>3, <1>6, <1>7, <1>8, <1>9 DEF LevelNames, AllSupported

LEMMA PushOutcome ==
  ASSUME NEW p \in Options, NEW manual \in Manuals \cup {NoManual},
         NEW keepIndex \in BOOLEAN, NEW replace \in BOOLEAN,
         PushPandas(p, manual, keepIndex, replace)
  PROVE  /\ frame' = Source(frame, p) /\ UNCHANGED <<object, version, given>> /\ Calls
         /\ manual = NoManual => keepIndex
         /\ advised \in BOOLEAN => advised' \in BOOLEAN
         /\ \/ /\ table' = table
               /\ last' = Call("push", "raised", manual, p, {})
            \/ /\ ~PreparationFails(frame, p)
               /\ DistinctNames(SentFields(frame, p, manual, keepIndex))
               /\ table' = SentTable(frame, p, manual, keepIndex)
               /\ last' = Call("push", "returned", manual, p,
                               DOMAIN SentColumns(frame, p, manual, keepIndex))
         /\ origin' = IF p.inplace \/ last'.result = "returned" THEN "built" ELSE origin
<1>1. advised \in BOOLEAN => advised' \in BOOLEAN
  BY DEF PushPandas, HasText
<1> QED
  BY <1>1 DEF PushPandas, SentFields, SentColumns, SentTable

LEMMA CallRecord ==
  ASSUME NEW call, NEW result, NEW manual, NEW p, NEW sent
  PROVE  LET this == Call(call, result, manual, p, sent) IN
         /\ this.call = call /\ this.result = result /\ this.sent = sent
         /\ this.index = IndexData(frame) /\ this.levels = LevelNames(frame)
         /\ this.origin = origin
BY DEF Call

LEMMA CallFlags ==
  ASSUME NEW call, NEW result, NEW manual, NEW p, NEW sent
  PROVE  LET this == Call(call, result, manual, p, sent) IN
         /\ this.manual = (manual # NoManual)
         /\ this.keyable = Keyable(frame) /\ this.sendable = Sendable(frame, p)
BY DEF Call

LEMMA TypeStep ==
  ASSUME TypeOK, [Next]_vars
  PROVE  TypeOK'
<1>1. /\ FrameOK(frame)
      /\ FieldsOK(table.fields) /\ DOMAIN table.data = DOMAIN table.fields
      /\ object # NoObject => FieldsOK(object)
      /\ version \in Versions /\ advised \in BOOLEAN
      /\ origin \in {"built", "fetched", "fetched without key", "fetched through stale"}
      /\ calls \in 0..MaxCalls
  BY DEF TypeOK
<1>2. Calls => calls' \in 0..MaxCalls
  <2>1. calls \in 0..MaxCalls
    BY <1>1
  <2> QED
    BY <2>1, MaxCallsAssumption DEF Calls
<1>3. ASSUME NEW p \in Options, UpdatePandas(p) PROVE TypeOK'
  <2>1. FrameOK(frame')
    BY <1>1, <1>3, SourceIsFrame DEF UpdatePandas
  <2>2. advised' \in BOOLEAN
    BY <1>1, <1>3 DEF UpdatePandas
  <2>3. /\ UNCHANGED <<table, object, version>>
        /\ origin' = IF p.inplace THEN "built" ELSE origin
        /\ calls' \in 0..MaxCalls
    BY <1>2, <1>3 DEF UpdatePandas
  <2> QED
    BY <1>1, <2>1, <2>2, <2>3 DEF TypeOK
<1>4. ASSUME NEW p \in Options, NEW manual \in Manuals \cup {NoManual},
             NEW keepIndex \in BOOLEAN, NEW replace \in BOOLEAN,
             PushPandas(p, manual, keepIndex, replace)
      PROVE  TypeOK'
  <2>1. /\ frame' = Source(frame, p) /\ UNCHANGED <<object, version, given>> /\ Calls
        /\ advised' \in BOOLEAN
        /\ \/ table' = table
           \/ /\ ~PreparationFails(frame, p)
              /\ DistinctNames(SentFields(frame, p, manual, keepIndex))
              /\ table' = SentTable(frame, p, manual, keepIndex)
        /\ origin' \in {"built", origin}
    BY <1>1, <1>4, PushOutcome
  <2>2. FrameOK(frame')
    BY <1>1, <2>1, SourceIsFrame
  <2>3. FieldsOK(table'.fields) /\ DOMAIN table'.data = DOMAIN table'.fields
    <3>1. CASE table' = table
      BY <1>1, <3>1
    <3>2. CASE /\ ~PreparationFails(frame, p)
               /\ DistinctNames(SentFields(frame, p, manual, keepIndex))
               /\ table' = SentTable(frame, p, manual, keepIndex)
      <4> DEFINE sent == SentTable(frame, p, manual, keepIndex)
      <4>1. FrameOK(frame)
        BY <1>1
      <4>2. FieldsOK(sent.fields) /\ DOMAIN sent.data = DOMAIN sent.fields
        BY <3>2, <4>1, PushedTable
      <4> HIDE DEF sent
      <4>3. table' = sent
        BY <3>2 DEF sent
      <4> QED
        BY <4>2, <4>3
    <3> QED
      BY <2>1, <3>1, <3>2
  <2> QED
    BY <1>1, <1>2, <2>1, <2>2, <2>3 DEF TypeOK
<1>5. CASE GetTable
  BY <1>1, <1>5 DEF GetTable, TypeOK
<1>6. ASSUME NEW columns \in SUBSET DOMAIN table.fields, ToPandas(columns) PROVE TypeOK'
  <2>1. FrameOK(frame')
    <3>1. PICK order \in Orders(KeyColumns(columns)) : frame' = Indexed(columns, order)
      BY <1>6 DEF ToPandas
    <3>2. KeyColumns(columns) \in SUBSET columns
      BY DEF KeyColumns
    <3>3. FrameOK(Indexed(columns, order))
      BY <1>1, <3>2, FetchedFrame
    <3> QED
      BY <3>1, <3>3
  <2>2. /\ UNCHANGED <<table, object, version, advised>>
        /\ origin' \in {"fetched through stale", "fetched", "fetched without key"}
        /\ calls' \in 0..MaxCalls
    BY <1>2, <1>6 DEF ToPandas
  <2> QED
    BY <1>1, <2>1, <2>2 DEF TypeOK
<1>7. CASE UNCHANGED vars
  BY <1>1, <1>7 DEF vars, TypeOK
<1> QED
  BY <1>3, <1>4, <1>5, <1>6, <1>7 DEF Next

-----------------------------------------------------------------------------
(* The index becomes the key. *)

\* Without a manual spec what was inferred is sent.
LEMMA SentWithoutManual ==
  ASSUME NEW f, NEW p \in Options
  PROVE  /\ SentFields(f, p, NoManual, TRUE) = FieldsSpec(f, p)
         /\ SentColumns(f, p, NoManual, TRUE) = Prepared(f, p)
<1>1. DOMAIN NoManual = {}
  BY DEF NoManual
<1>2. FieldsSpec(f, p) = [c \in DOMAIN FieldsSpec(f, p) |-> FieldsSpec(f, p)[c]]
  BY DEF FieldsSpec
<1>3. Prepared(f, p) = [c \in DOMAIN Prepared(f, p) |-> Prepared(f, p)[c]]
  <2>1. CASE p.unsupported = "coerce"
    <3>1. Prepared(f, p) = Coerced(Reset(f).cols)
      BY <2>1 DEF Prepared
    <3> QED
      BY <3>1 DEF Coerced
  <2>2. CASE p.unsupported # "coerce"
    <3>1. Prepared(f, p) = Dropped(Reset(f).cols)
      BY <2>2 DEF Prepared
    <3> QED
      BY <3>1 DEF Dropped
  <2> QED
    BY <2>1, <2>2
<1>4. SentFields(f, p, NoManual, TRUE) = [c \in DOMAIN FieldsSpec(f, p) |-> FieldsSpec(f, p)[c]]
  BY <1>1 DEF SentFields, Updated, Kept
<1>5. SentColumns(f, p, NoManual, TRUE) = [c \in DOMAIN Prepared(f, p) |-> Prepared(f, p)[c]]
  <2>1. Retyping(FieldsSpec(f, p), NoManual) = {}
    BY <1>1 DEF Retyping
  <2> QED
    BY <2>1 DEF SentColumns, Converted, Kept
<1> QED
  BY <1>2, <1>3, <1>4, <1>5

\* What was inferred becomes the table: a key is what the index calls one.
LEMMA InferredTable ==
  ASSUME NEW f, NEW p \in Options
  PROVE  LET sent == TableOf(FieldsSpec(f, p), Prepared(f, p)) IN
         /\ DOMAIN sent.fields = DOMAIN Prepared(f, p)
         /\ DOMAIN sent.data = DOMAIN Prepared(f, p)
         /\ KeysOf(sent.fields) = DOMAIN Prepared(f, p) \cap Keys(f)
         /\ \A c \in DOMAIN Prepared(f, p) : sent.data[c] = Encoded(c, Prepared(f, p)[c])
<1> DEFINE prep == Prepared(f, p)
           spec == FieldsSpec(f, p)
           sent == TableOf(spec, prep)
<1>1. /\ DOMAIN spec = DOMAIN prep
      /\ \A c \in DOMAIN prep :
           spec[c] = [name |-> c, type |-> PricefxType(prep[c].dtype), key |-> c \in Keys(f)]
  BY SpecOfPrepared
<1> HIDE DEF prep, spec
<1>2. \A c \in DOMAIN prep : spec[c].name = c /\ spec[c].key = (c \in Keys(f))
  <2> SUFFICES ASSUME NEW c \in DOMAIN prep
               PROVE  spec[c].name = c /\ spec[c].key = (c \in Keys(f))
    OBVIOUS
  <2>1. spec[c] = [name |-> c, type |-> PricefxType(prep[c].dtype), key |-> c \in Keys(f)]
    BY <1>1
  <2> QED
    BY <2>1
<1>3. DistinctNames(spec)
  BY <1>1, <1>2 DEF DistinctNames
<1>4. /\ DOMAIN sent.fields = {spec[c].name : c \in DOMAIN spec}
      /\ DOMAIN sent.data = {spec[c].name : c \in DOMAIN spec}
      /\ \A c \in DOMAIN spec :
           /\ sent.fields[spec[c].name] = [type |-> spec[c].type, key |-> spec[c].key]
           /\ sent.data[spec[c].name] = Encoded(spec[c].name, prep[c])
  BY <1>1, <1>3, TableOfFields
<1> HIDE DEF sent
<1>5. DOMAIN sent.fields = DOMAIN prep /\ DOMAIN sent.data = DOMAIN prep
  <2>1. {spec[c].name : c \in DOMAIN spec} = DOMAIN prep
    BY <1>1, <1>2
  <2> QED
    BY <1>4, <2>1
<1>6. \A c \in DOMAIN prep : /\ sent.fields[c].key = (c \in Keys(f))
                             /\ sent.data[c] = Encoded(c, prep[c])
  <2> SUFFICES ASSUME NEW c \in DOMAIN prep
               PROVE  sent.fields[c].key = (c \in Keys(f)) /\ sent.data[c] = Encoded(c, prep[c])
    OBVIOUS
  <2>1. spec[c].name = c /\ spec[c].key = (c \in Keys(f)) /\ c \in DOMAIN spec
    BY <1>1, <1>2
  <2>2. sent.fields[c] = [type |-> spec[c].type, key |-> spec[c].key]
    BY <1>4, <2>1
  <2>3. sent.fields[c].key = spec[c].key
    BY <2>2
  <2>4. sent.data[c] = Encoded(c, prep[c])
    BY <1>4, <2>1
  <2> QED
    BY <2>1, <2>3, <2>4
<1>7. KeysOf(sent.fields) = DOMAIN prep \cap Keys(f)
  BY <1>5, <1>6 DEF KeysOf
<1> QED
  BY <1>5, <1>6, <1>7 DEF sent, spec, prep

LEMMA IndexIsSent ==
  ASSUME NEW f, NEW p \in Options, FrameOK(f), ~PreparationFails(f, p), Keyable(f)
  PROVE  LET sent == TableOf(FieldsSpec(f, p), Prepared(f, p))
         IN  {sent.data[c] : c \in KeysOf(sent.fields)} = IndexData(f)
<1> DEFINE prep == Prepared(f, p)
           sent == TableOf(FieldsSpec(f, p), prep)
           names == {ColumnName(f, i) : i \in DOMAIN f.levels}
<1>1. Resets(f)
  BY DEF PreparationFails
<1>2. \A i \in DOMAIN f.levels : /\ ColumnName(f, i) \in DOMAIN prep
                                 /\ prep[ColumnName(f, i)] = f.levels[i].col
                                 /\ ColumnName(f, i) \in Identifiers
  <2> SUFFICES ASSUME NEW i \in DOMAIN f.levels
               PROVE  /\ ColumnName(f, i) \in DOMAIN prep
                      /\ prep[ColumnName(f, i)] = f.levels[i].col
                      /\ ColumnName(f, i) \in Identifiers
    OBVIOUS
  <2>1. /\ ColumnName(f, i) \in DOMAIN Reset(f).cols
        /\ Reset(f).cols[ColumnName(f, i)] = f.levels[i].col
    BY <1>1, ResetColumns
  <2>2. PricefxType(f.levels[i].col.dtype) # NoType /\ ColumnName(f, i) \in Identifiers
    BY DEF Keyable
  <2> QED
    BY <2>1, <2>2, PreparedColumns
<1>3. Keys(f) = names
  BY DEF Keyable, Keys
<1>4. /\ KeysOf(sent.fields) = DOMAIN prep \cap Keys(f)
      /\ \A c \in DOMAIN prep : sent.data[c] = Encoded(c, prep[c])
  BY InferredTable
<1> HIDE DEF prep, sent
<1>5. KeysOf(sent.fields) = names
  BY <1>2, <1>3, <1>4
<1>6. \A i \in DOMAIN f.levels : sent.data[ColumnName(f, i)] = f.levels[i].col.data
  BY <1>2, <1>4 DEF Encoded
<1>7. {sent.data[c] : c \in names} = IndexData(f)
  <2>1. ASSUME NEW d \in IndexData(f)
        PROVE  d \in {sent.data[c] : c \in names}
    <3>1. PICK i \in DOMAIN f.levels : d = f.levels[i].col.data
      BY DEF IndexData
    <3>2. ColumnName(f, i) \in names
      OBVIOUS
    <3> QED
      BY <1>6, <3>1, <3>2
  <2>2. ASSUME NEW c \in names
        PROVE  sent.data[c] \in IndexData(f)
    <3>1. PICK i \in DOMAIN f.levels : c = ColumnName(f, i)
      OBVIOUS
    <3> QED
      BY <1>6, <3>1 DEF IndexData
  <2> HIDE DEF names
  <2> QED
    BY <2>1, <2>2
<1> HIDE DEF names
<1> QED
  BY <1>5, <1>7 DEF sent, prep

\* If all of the frame can be sent, the data of its index and columns arrive.
LEMMA FrameIsSent ==
  ASSUME NEW f, NEW p \in Options, FrameOK(f), ~PreparationFails(f, p), Sendable(f, p)
  PROVE  LET sent == TableOf(FieldsSpec(f, p), Prepared(f, p))
         IN  IndexAndColumns(f) \subseteq {sent.data[c] : c \in DOMAIN sent.data}
<1> DEFINE prep == Prepared(f, p)
           cols == Reset(f).cols
           sent == TableOf(FieldsSpec(f, p), prep)
<1>1. Resets(f)
  BY DEF PreparationFails
<1>2. /\ DOMAIN cols = DOMAIN f.cols \cup {ColumnName(f, i) : i \in DOMAIN f.levels}
      /\ \A c \in DOMAIN f.cols : cols[c] = f.cols[c]
      /\ \A i \in DOMAIN f.levels : cols[ColumnName(f, i)] = f.levels[i].col
  BY <1>1, ResetColumns
<1>3. DOMAIN cols \subseteq Identifiers
  BY DEF Sendable
<1>4. DOMAIN prep = DOMAIN cols /\ \A c \in DOMAIN cols : prep[c].data = cols[c].data
  BY AllIsPrepared DEF Sendable
<1>5. DOMAIN sent.data = DOMAIN prep /\ \A c \in DOMAIN prep : sent.data[c] = Encoded(c, prep[c])
  BY InferredTable
<1> HIDE DEF prep, cols, sent
<1>6. \A c \in DOMAIN cols : c \in DOMAIN sent.data /\ sent.data[c] = cols[c].data
  BY <1>3, <1>4, <1>5 DEF Encoded
<1>7. \A d \in IndexAndColumns(f) : \E c \in DOMAIN cols : cols[c].data = d
  BY <1>2 DEF IndexAndColumns, IndexData
<1> QED
  BY <1>6, <1>7 DEF sent, prep

-----------------------------------------------------------------------------
(* The invariants. *)

\* The index that the frame was given is still there, as index or as columns.
IndexKept == given.index \subseteq IndexAndColumns(frame)

\* A frame that was fetched with a key, and that no call worked on in place, has the
\* columns it was fetched with, which are fields of the table and can be sent; if the
\* object was not stale, the key of the table, as far as it was fetched, is the index.
FetchedInv ==
  origin \in {"fetched", "fetched through stale"} =>
    /\ DOMAIN frame.cols \cup LevelNames(frame) = given.names
    /\ given.names \subseteq DOMAIN table.fields
    /\ NoName \notin LevelNames(frame)
    /\ AllSupported(frame)
    /\ origin = "fetched" => LevelNames(frame) = KeysOf(table.fields) \cap given.names

IInv == TypeOK /\ IndexKept /\ FetchedInv /\ IndexBecomesKey /\ FetchedFrameFitsTable

LEMMA InitInv == Init => IInv
<1> SUFFICES ASSUME Init PROVE IInv
  OBVIOUS
<1>1. TypeOK
  <2>1. FieldsOK(table.fields) /\ DOMAIN table.data = DOMAIN table.fields
    BY DEF Init, NoTable, FieldsOK
  <2>2. FrameOK(frame) /\ object = NoObject /\ version \in Versions
    BY FramesAssumption DEF Init
  <2>3. calls \in 0..MaxCalls
    BY MaxCallsAssumption DEF Init
  <2>4. origin = "built" /\ advised = FALSE
    BY DEF Init
  <2> QED
    BY <2>1, <2>2, <2>3, <2>4 DEF TypeOK
<1>2. IndexKept /\ FetchedInv
  BY DEF Init, IndexKept, FetchedInv, Given, IndexAndColumns
<1>3. IndexBecomesKey /\ FetchedFrameFitsTable
  BY DEF Init, IndexBecomesKey, FetchedFrameFitsTable, NoCall
<1> QED
  BY <1>1, <1>2, <1>3 DEF IInv

Invariants == IndexKept /\ FetchedInv /\ IndexBecomesKey /\ FetchedFrameFitsTable

LEMMA PushStep ==
  ASSUME IInv, NEW p \in Options, NEW manual \in Manuals \cup {NoManual},
         NEW keepIndex \in BOOLEAN, NEW replace \in BOOLEAN,
         PushPandas(p, manual, keepIndex, replace)
  PROVE  Invariants'
<1>1. FrameOK(frame) /\ IndexKept /\ FetchedInv
  BY DEF IInv, TypeOK
<1>2. /\ frame' = Source(frame, p) /\ UNCHANGED <<object, version, given>>
      /\ manual = NoManual => keepIndex
      /\ \/ /\ table' = table
            /\ last' = Call("push", "raised", manual, p, {})
         \/ /\ ~PreparationFails(frame, p)
            /\ DistinctNames(SentFields(frame, p, manual, keepIndex))
            /\ table' = SentTable(frame, p, manual, keepIndex)
            /\ last' = Call("push", "returned", manual, p,
                            DOMAIN SentColumns(frame, p, manual, keepIndex))
      /\ origin' = IF p.inplace \/ last'.result = "returned" THEN "built" ELSE origin
  BY PushOutcome
<1>3. FetchedInv'
  <2> SUFFICES ASSUME origin' \in {"fetched", "fetched through stale"} PROVE FetchedInv'
    BY DEF FetchedInv
  <2>1. ~p.inplace /\ last'.result # "returned" /\ origin' = origin
    BY <1>2
  <2>2. table' = table
    <3> DEFINE columns == DOMAIN SentColumns(frame, p, manual, keepIndex)
               this == Call("push", "returned", manual, p, columns)
    <3>1. table' = table \/ last' = this
      BY <1>2
    <3> HIDE DEF columns
    <3>2. this.result = "returned"
      BY DEF Call
    <3> HIDE DEF this
    <3> QED
      BY <2>1, <3>1, <3>2
  <2>3. frame' = frame
    BY <1>2, <2>1 DEF Source
  <2> QED
    BY <1>1, <1>2, <2>1, <2>2, <2>3 DEF FetchedInv
<1>4. FetchedFrameFitsTable'
  <2>1. last'.call = "push"
    BY <1>2, CallRecord
  <2> QED
    BY <2>1 DEF FetchedFrameFitsTable
<1>5. IndexKept'
  BY <1>1, <1>2, SourceIsFrame DEF IndexKept
<1>6. IndexBecomesKey'
  <2> SUFFICES ASSUME last'.result = "returned", ~last'.manual
               PROVE  /\ last'.keyable =>
                           {table'.data[c] : c \in KeysOf(table'.fields)} = last'.index
                      /\ last'.sendable =>
                           given.index \subseteq {table'.data[c] : c \in DOMAIN table'.data}
    BY <1>2 DEF IndexBecomesKey
  <2> DEFINE columns == DOMAIN SentColumns(frame, p, manual, keepIndex)
             this == Call("push", "returned", manual, p, columns)
  <2>1. /\ ~PreparationFails(frame, p)
        /\ table' = SentTable(frame, p, manual, keepIndex)
        /\ last' = this
    BY <1>2, CallRecord
  <2> HIDE DEF columns
  <2>2. /\ this.manual = (manual # NoManual)
        /\ this.index = IndexData(frame)
        /\ this.keyable = Keyable(frame) /\ this.sendable = Sendable(frame, p)
    BY CallRecord, CallFlags
  <2> HIDE DEF this
  <2>3. manual = NoManual /\ keepIndex = TRUE
    BY <1>2, <2>1, <2>2
  <2> DEFINE sent == TableOf(FieldsSpec(frame, p), Prepared(frame, p))
  <2>4. table' = sent
    BY <2>1, <2>3, SentWithoutManual DEF SentTable
  <2>5. Keyable(frame) => {sent.data[c] : c \in KeysOf(sent.fields)} = IndexData(frame)
    BY <1>1, <2>1, IndexIsSent
  <2>6. Sendable(frame, p) =>
          IndexAndColumns(frame) \subseteq {sent.data[c] : c \in DOMAIN sent.data}
    BY <1>1, <2>1, FrameIsSent
  <2> HIDE DEF sent
  <2>7. this.keyable => {table'.data[c] : c \in KeysOf(table'.fields)} = this.index
    <3> SUFFICES ASSUME this.keyable
                 PROVE  {table'.data[c] : c \in KeysOf(table'.fields)} = this.index
      OBVIOUS
    <3>1. Keyable(frame)
      BY <2>2, Zenon
    <3> QED
      BY <2>2, <2>4, <2>5, <3>1
  <2>8. this.sendable => given.index \subseteq {table'.data[c] : c \in DOMAIN table'.data}
    <3> SUFFICES ASSUME this.sendable
                 PROVE  given.index \subseteq {table'.data[c] : c \in DOMAIN table'.data}
      OBVIOUS
    <3>1. Sendable(frame, p)
      BY <2>2, Zenon
    <3> QED
      BY <1>1, <2>4, <2>6, <3>1 DEF IndexKept
  <2> QED
    BY <2>1, <2>7, <2>8
<1> QED
  BY <1>3, <1>4, <1>5, <1>6 DEF Invariants

LEMMA UpdateStep ==
  ASSUME IInv, NEW p \in Options, UpdatePandas(p)
  PROVE  Invariants'
<1>1. FrameOK(frame) /\ IndexKept /\ FetchedInv
  BY DEF IInv, TypeOK
<1> DEFINE raised == Call("update", "raised", NoManual, p, {})
           sent == Call("update", "sent", NoManual, p, DOMAIN Prepared(frame, p))
<1>2. /\ frame' = Source(frame, p)
      /\ origin' = IF p.inplace THEN "built" ELSE origin
      /\ UNCHANGED <<table, object, version, given>>
  BY DEF UpdatePandas
<1>3. last' = raised \/ (~PreparationFails(frame, p) /\ last' = sent)
  BY DEF UpdatePandas
<1>4. /\ raised.call = "update" /\ raised.result = "raised" /\ raised.origin = origin
      /\ sent.call = "update" /\ sent.result = "sent" /\ sent.origin = origin
      /\ sent.sent = DOMAIN Prepared(frame, p) /\ sent.levels = LevelNames(frame)
  BY CallRecord
<1> HIDE DEF raised, sent
<1>5. FetchedInv'
  <2> SUFFICES ASSUME origin' \in {"fetched", "fetched through stale"} PROVE FetchedInv'
    BY DEF FetchedInv
  <2>1. ~p.inplace /\ origin' = origin
    BY <1>2
  <2>2. frame' = frame
    BY <1>2, <2>1 DEF Source
  <2> QED
    BY <1>1, <1>2, <2>1, <2>2 DEF FetchedInv
<1>6. IndexBecomesKey'
  <2>1. last'.call = "update"
    BY <1>3, <1>4
  <2> QED
    BY <2>1 DEF IndexBecomesKey
<1>7. IndexKept'
  BY <1>1, <1>2, SourceIsFrame DEF IndexKept
<1>8. FetchedFrameFitsTable'
  <2> SUFFICES ASSUME last'.result = "sent", origin \in {"fetched", "fetched through stale"}
               PROVE  /\ last'.sent = given.names /\ last'.sent \subseteq DOMAIN table.fields
                      /\ origin = "fetched" =>
                           last'.levels = KeysOf(table.fields) \cap given.names
    <3>1. last'.origin = origin
      BY <1>3, <1>4
    <3> QED
      BY <1>2, <3>1 DEF FetchedFrameFitsTable
  <2>1. /\ ~PreparationFails(frame, p)
        /\ last'.sent = DOMAIN Prepared(frame, p)
        /\ last'.levels = LevelNames(frame)
    BY <1>3, <1>4
  <2>2. /\ DOMAIN frame.cols \cup LevelNames(frame) = given.names
        /\ given.names \subseteq DOMAIN table.fields
        /\ NoName \notin LevelNames(frame)
        /\ AllSupported(frame)
        /\ origin = "fetched" => LevelNames(frame) = KeysOf(table.fields) \cap given.names
    BY <1>1 DEF FetchedInv
  <2>3. {ColumnName(frame, i) : i \in DOMAIN frame.levels} = LevelNames(frame)
    <3>1. \A i \in DOMAIN frame.levels : ColumnName(frame, i) = frame.levels[i].name
      BY <2>2 DEF ColumnName, LevelNames
    <3> QED
      BY <3>1 DEF LevelNames
  <2> DEFINE cols == Reset(frame).cols
  <2>4. /\ DOMAIN cols = DOMAIN frame.cols \cup LevelNames(frame)
        /\ \A c \in DOMAIN frame.cols : cols[c] = frame.cols[c]
        /\ \A i \in DOMAIN frame.levels : cols[ColumnName(frame, i)] = frame.levels[i].col
    BY <1>1, <2>1, <2>3, ResetColumns DEF PreparationFails
  <2> HIDE DEF cols
  <2>5. \A c \in LevelNames(frame) :
          \E i \in DOMAIN frame.levels : c = ColumnName(frame, i)
    BY <2>3
  <2>6. Unsupported(cols) = {}
    BY <2>2, <2>4, <2>5 DEF Unsupported, AllSupported
  <2>7. DOMAIN Prepared(frame, p) = DOMAIN cols
    BY <2>1, <2>6, AllIsPrepared DEF cols
  <2> QED
    BY <2>1, <2>2, <2>4, <2>7
<1> QED
  BY <1>5, <1>6, <1>7, <1>8 DEF Invariants

LEMMA FetchStep ==
  ASSUME IInv, NEW columns \in SUBSET DOMAIN table.fields, ToPandas(columns)
  PROVE  Invariants'
<1> DEFINE keys == KeyColumns(columns)
<1>1. PICK order \in Orders(keys) : frame' = Indexed(columns, order)
  BY DEF ToPandas
<1>2. /\ given' = Given(frame') /\ last' = NoCall /\ UNCHANGED <<table, object>>
      /\ origin' = IF keys = {} THEN "fetched without key"
                   ELSE IF object = table.fields THEN "fetched" ELSE "fetched through stale"
  BY DEF ToPandas
<1>3. IndexBecomesKey' /\ FetchedFrameFitsTable'
  BY <1>2 DEF NoCall, IndexBecomesKey, FetchedFrameFitsTable
<1>4. IndexKept'
  BY <1>2 DEF IndexKept, Given, IndexAndColumns, IndexData
<1>5. FetchedInv'
  <2> SUFFICES ASSUME origin' \in {"fetched", "fetched through stale"} PROVE FetchedInv'
    BY DEF FetchedInv
  <2>1. keys # {} /\ keys \subseteq columns
    BY <1>2 DEF KeyColumns
  <2>2. object = table.fields => keys = KeysOf(table.fields) \cap columns
    BY DEF KeyColumns, KeysOf
  <2> HIDE DEF keys
  <2>3. FieldsOK(table.fields)
    BY DEF IInv, TypeOK
  <2>4. /\ DOMAIN frame'.cols = columns \ keys
        /\ LevelNames(frame') = keys
        /\ AllSupported(frame')
    <3>1. /\ FieldsOK(table.fields) /\ columns \in SUBSET DOMAIN table.fields
          /\ keys \in SUBSET columns /\ order \in Orders(keys)
      BY <1>1, <2>1, <2>3
    <3> DEFINE f == Indexed(columns, order)
    <3>2. DOMAIN f.cols = columns \ keys
      BY <3>1, FetchedFrame
    <3>3. LevelNames(f) = keys
      BY <2>1, <3>1, FetchedFrame
    <3>4. AllSupported(f)
      BY <3>1, FetchedFrame
    <3>5. frame' = f
      BY <1>1
    <3> HIDE DEF f
    <3> QED
      BY <3>2, <3>3, <3>4, <3>5
  <2>5. NoName \notin DOMAIN table.fields
    BY <2>3 DEF FieldsOK
  <2>6. given'.names = columns
    <3>1. given'.names = DOMAIN frame'.cols \cup LevelNames(frame')
      BY <1>2 DEF Given, LevelNames
    <3> QED
      BY <2>1, <2>4, <3>1
  <2>7. NoName \notin LevelNames(frame') /\ columns \subseteq DOMAIN table'.fields
    BY <1>2, <2>1, <2>4, <2>5
  <2>8. DOMAIN frame'.cols \cup LevelNames(frame') = columns
    BY <2>1, <2>4
  <2>9. origin' = "fetched" => LevelNames(frame') = KeysOf(table'.fields) \cap columns
    BY <1>2, <2>2, <2>4
  <2> QED
    BY <2>4, <2>6, <2>7, <2>8, <2>9 DEF FetchedInv, LevelNames, KeysOf, AllSupported
<1> QED
  BY <1>3, <1>4, <1>5 DEF Invariants

LEMMA NextInv == IInv /\ [Next]_vars => IInv'
<1> SUFFICES ASSUME IInv, [Next]_vars PROVE IInv'
  OBVIOUS
<1>1. TypeOK'
  BY TypeStep DEF IInv
<1>2. Invariants'
  <2>1. ASSUME NEW p \in Options, UpdatePandas(p) PROVE Invariants'
    BY <2>1, UpdateStep
  <2>2. ASSUME NEW p \in Options, NEW manual \in Manuals \cup {NoManual},
               NEW keepIndex \in BOOLEAN, NEW replace \in BOOLEAN,
               PushPandas(p, manual, keepIndex, replace)
        PROVE  Invariants'
    BY <2>2, PushStep
  <2>3. CASE GetTable
    BY <2>3 DEF GetTable, IInv, Invariants, IndexKept, FetchedInv, IndexBecomesKey,
                FetchedFrameFitsTable, NoCall
  <2>4. ASSUME NEW columns \in SUBSET DOMAIN table.fields, ToPandas(columns)
        PROVE  Invariants'
    BY <2>4, FetchStep
  <2>5. CASE UNCHANGED vars
    BY <2>5 DEF vars, IInv, Invariants, IndexKept, FetchedInv, IndexBecomesKey,
                FetchedFrameFitsTable
  <2> QED
    BY <2>1, <2>2, <2>3, <2>4, <2>5 DEF Next
<1> QED
  BY <1>1, <1>2 DEF IInv, Invariants

LEMMA Invariance == Spec => []IInv
BY InitInv, NextInv, PTL DEF Spec

\* Frames and tables keep their shape, whatever the levels of the index are called, and
\* whatever manual specs and options are used.
THEOREM TypeCorrect == Spec => []TypeOK
<1>1. IInv => TypeOK
  BY DEF IInv
<1> QED
  BY <1>1, Invariance, PTL

\* After push_pandas without manual specs the key fields of the table hold the data of
\* the index, for every frame whose index, named or not, can become key fields; and an
\* index that in-place calls took apart is not lost if all of the frame can be sent.
THEOREM IndexIsKey == Spec => []IndexBecomesKey
<1>1. IInv => IndexBecomesKey
  BY DEF IInv
<1> QED
  BY <1>1, Invariance, PTL

\* What to_pandas fetched with a key goes back by update_pandas with exactly the columns
\* that were fetched, all of them fields of the table, and the index of the frame is the
\* key of the table if the object was not stale; for every frame, manual spec and
\* sequence of calls.
THEOREM FetchedFrameFits == Spec => []FetchedFrameFitsTable
<1>1. IInv => FetchedFrameFitsTable
  BY DEF IInv
<1> QED
  BY <1>1, Invariance, PTL
=============================================================================
