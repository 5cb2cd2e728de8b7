---------------------------- MODULE TableFrames -----------------------------
(***************************************************************************)
(* A program pushes a dataframe as a table, fetches it back, updates the   *)
(* table from it, in any order and with the options of push_pandas,        *)
(* update_pandas and to_pandas (api/domain.py, lowlevel/pandasutil.py):    *)
(* what becomes of the frame's index and columns, and of the table's keys. *)
(*                                                                         *)
(* A column is its dtype and what data it holds.  The order of columns is  *)
(* left out.  pandas, fastavro and the backend are external.  An operator  *)
(* Name_Fault is Name with one plausible mistake.                          *)
(***************************************************************************)
EXTENDS Integers, FiniteSets

CONSTANTS
  Frames,       \* the frames the program may begin with
  Manuals,      \* the schemas of the manual_fields_specs it may pass
  LevelName,    \* LevelName[i] is "level_{i}", the i-th level of an index counted from 0
  Identifiers,  \* the column names that Python accepts as identifiers
  Versions,     \* backend versions: <<major, minor, patch>>
  MaxCalls      \* bound: calls of push_pandas, update_pandas and to_pandas

ASSUME MaxCallsAssumption == MaxCalls \in Nat
ASSUME VersionsAssumption == Versions \subseteq Nat \X Nat \X Nat

VARIABLES
  frame,    \* the program's dataframe: its index levels, and its columns
  table,    \* backend: the table's fields and the data in them, or NoTable
  object,   \* fields of the TableMutable the program got last, or NoObject
  version,  \* backend: its version
  advised,  \* _TRUNCATION_RISK_ADVISED
  last,     \* history: what was called last
  given,    \* history: the data of the index, and the names, of the frame as the
            \* program made or fetched it, before calls worked on it in place
  origin,   \* history: whether the frame still is what to_pandas made of the table
  calls     \* number of calls

vars == <<frame, table, object, version, advised, last, given, origin, calls>>

NoName == "no name"
NoType == "no type"
NoTable == [fields |-> << >>, data |-> << >>]
NoObject == [c \in {NoName} |-> NoName]
NoManual == [c \in {} |-> NoName]

Column(dtype, data) == [dtype |-> dtype, data |-> data]
Level(name, col) == [name |-> name, col |-> col]
RangeIndex == [i \in {0} |-> Level(NoName, Column("int", "position"))]
Frame(levels, cols) == [levels |-> levels, cols |-> cols]

-----------------------------------------------------------------------------
(* Types and versions. *)

Dtypes == {"str", "int", "float", "bool", "date", "list"}
Types == {"TEXT", "LOB", "INTEGER", "NUMBER", "BOOLEAN", "DATE"}

\* to_pricefx_type; a list has none.
PricefxType(dtype) ==
  [str |-> "TEXT", int |-> "INTEGER", float |-> "NUMBER", bool |-> "BOOLEAN",
   date |-> "DATE", list |-> NoType][dtype]

\* field_type_to_dtype: the dtypes that need no conversion (a date always is
\* converted), and the dtype converted to.
Checks(type) ==
  [TEXT |-> {"str"}, LOB |-> {"str"}, INTEGER |-> {"int"},
   NUMBER |-> {"int", "float", "bool"}, BOOLEAN |-> {"bool"}, DATE |-> {}][type]
DtypeOf(type) ==
  [TEXT |-> "str", LOB |-> "str", INTEGER |-> "int", NUMBER |-> "float",
   BOOLEAN |-> "bool", DATE |-> "date"][type]

AtLeast(v, w) ==
  \/ v[1] > w[1]
  \/ v[1] = w[1] /\ v[2] > w[2]
  \/ v[1] = w[1] /\ v[2] = w[2] /\ v[3] >= w[3]

\* _FIELD_TYPE_MIN_BACKEND_VERSION["LOB"], one bound per major.
Bounds == {<<16, 3, 13>>, <<17, 0, 4>>}
SupportsLob_Scalar(v) == AtLeast(v, <<16, 3, 13>>)
SupportsLob(v) ==
  \/ \E bound \in Bounds : v[1] = bound[1] /\ AtLeast(v, bound)
  \/ \A bound \in Bounds : v[1] > bound[1]

\* Columns and levels have types; the levels are counted from 0, and a level may have no
\* name, or the name of another level or of a column.
FrameOK(f) ==
  /\ NoName \notin DOMAIN f.cols
  /\ \A c \in DOMAIN f.cols : f.cols[c].dtype \in Dtypes
  /\ DOMAIN f.levels \subseteq Nat
  /\ \A i \in DOMAIN f.levels :
       /\ f.levels[i].col.dtype \in Dtypes
       /\ f.levels[i].name = NoName => i \in DOMAIN LevelName

ASSUME LevelNameAssumption ==
  0 \in DOMAIN LevelName /\ \A i \in DOMAIN LevelName : LevelName[i] # NoName
ASSUME FramesAssumption == 
  \A f \in Frames : FrameOK(f) /\ \E n \in DOMAIN f.levels : DOMAIN f.levels = 0..n
ASSUME ManualsAssumption ==
  \A manual \in Manuals : \A c \in DOMAIN manual :
     /\ manual[c].name # NoName
     /\ manual[c].type \in Types \cup {NoType}
     /\ manual[c].key \in BOOLEAN

-----------------------------------------------------------------------------
(* to_field_collection_spec *)

\* The names of the index: what the fields spec calls key.
Single(f) == DOMAIN f.levels = {0}
KeyName(f, i) ==
  IF f.levels[i].name # NoName THEN f.levels[i].name
  ELSE IF Single(f) THEN "index" ELSE LevelName[i]
Keys_AfterReset(f) == {"index"}
Keys(f) == {KeyName(f, i) : i \in DOMAIN f.levels}

\* What reset_index calls a level: a single one without name "index", if no column is.
ColumnName(f, i) ==
  IF f.levels[i].name # NoName THEN f.levels[i].name
  ELSE IF Single(f) /\ "index" \notin DOMAIN f.cols THEN "index" ELSE LevelName[i]

\* It inserts the levels as columns, the last one first, and refuses to repeat a name.
Taken(f, i) ==
  \/ ColumnName(f, i) \in DOMAIN f.cols
  \/ \E j \in DOMAIN f.levels : j > i /\ ColumnName(f, j) = ColumnName(f, i)
Inserted(f) == {i \in DOMAIN f.levels : \A j \in DOMAIN f.levels : j >= i => ~Taken(f, j)}
Resets(f) == Inserted(f) = DOMAIN f.levels
WithInserted(f) ==
  LET names == {ColumnName(f, i) : i \in Inserted(f)} IN
  [c \in DOMAIN f.cols \cup names |->
     IF c \in DOMAIN f.cols THEN f.cols[c]
     ELSE f.levels[CHOOSE i \in Inserted(f) : ColumnName(f, i) = c].col]
Reset(f) == Frame(RangeIndex, WithInserted(f))

Unsupported(cols) == {c \in DOMAIN cols : PricefxType(cols[c].dtype) = NoType}
Coerced(cols) ==
  [c \in DOMAIN cols |-> IF c \in Unsupported(cols) THEN Column("str", cols[c].data) ELSE cols[c]]
Dropped(cols) == [c \in DOMAIN cols \ Unsupported(cols) |-> cols[c]]

\* p: on_unsupported_type, inplace, and column_labels with an unknown name.
PreparationFails(f, p) ==
  \/ ~Resets(f)
  \/ p.badLabel
  \/ p.unsupported = "error" /\ Unsupported(Reset(f).cols) # {}

\* What the caller's frame is afterwards, whether or not the preparation failed: in
\* place a refused reset_index leaves the levels it has inserted.
Source(f, p) ==
  IF ~p.inplace THEN f
  ELSE IF ~Resets(f) THEN Frame(f.levels, WithInserted(f))
  ELSE IF p.unsupported = "coerce" /\ ~p.badLabel
       THEN Frame(RangeIndex, Coerced(Reset(f).cols)) ELSE Reset(f)

Prepared(f, p) ==
  IF p.unsupported = "coerce" THEN Coerced(Reset(f).cols) ELSE Dropped(Reset(f).cols)

FieldsSpec(f, p) ==
  [c \in DOMAIN Prepared(f, p) |->
     [name |-> c, type |-> PricefxType(Prepared(f, p)[c].dtype), key |-> c \in Keys(f)]]

-----------------------------------------------------------------------------
(* _update_fields_spec *)

Kept(fields, keepIndex) == {c \in DOMAIN fields : keepIndex \/ ~fields[c].key}

\* Errors that do not depend on the values.
ManualFails(fields, manual, keepIndex) ==
  \/ ~keepIndex /\ ~\E c \in DOMAIN manual \cap DOMAIN fields :
                        manual[c].key /\ ~fields[c].key
  \/ ~(DOMAIN manual \subseteq Kept(fields, keepIndex))

Retyping(fields, manual) ==
  {c \in DOMAIN manual : manual[c].type \notin {NoType, fields[c].type}}

\* The manual spec overwrites the name and the key of the inferred one.
Updated(fields, manual, keepIndex) ==
  [c \in Kept(fields, keepIndex) |->
     IF c \notin DOMAIN manual THEN fields[c]
     ELSE [name |-> manual[c].name, key |-> manual[c].key,
           type |-> IF manual[c].type = NoType THEN fields[c].type ELSE manual[c].type]]

\* The columns of the frame follow: dropped, converted and, below, renamed.
Converted(cols, fields, manual, keepIndex) ==
  [c \in {d \in DOMAIN cols : d \in DOMAIN fields => d \in Kept(fields, keepIndex)} |->
     IF c \in Retyping(fields, manual) /\ cols[c].dtype \notin Checks(manual[c].type)
     THEN Column(DtypeOf(manual[c].type), cols[c].data) ELSE cols[c]]

DistinctNames(fields) ==
  \A c, d \in DOMAIN fields : fields[c].name = fields[d].name => c = d

NewName(fields, c) == IF c \in DOMAIN fields THEN fields[c].name ELSE c
NewNames(fields, C) == {NewName(fields, c) : c \in C}
OldName(fields, C, name) == CHOOSE c \in C : NewName(fields, c) = name

-----------------------------------------------------------------------------
(* The calls. *)

\* AvroStream.from_dataframe: itertuples renames what is no identifier, and a
\* field that a record lacks is written as null.
Encoded(name, col) == IF name \in Identifiers THEN col.data ELSE "nulls"

TableOf(fields, cols) ==
  [fields |-> [name \in NewNames(fields, DOMAIN fields) |->
                 LET f == fields[OldName(fields, DOMAIN fields, name)]
                 IN [type |-> f.type, key |-> f.key]],
   data |-> [name \in NewNames(fields, DOMAIN cols) |->
               Encoded(name, cols[OldName(fields, DOMAIN cols, name)])]]

HasText(fields) == \E c \in DOMAIN fields : fields[c].type \in {"TEXT", "LOB"}

\* The index can become key fields: it does not share the name "index" with a column, the
\* types are supported, and the names are identifiers.
Keyable(f) ==
  \A i \in DOMAIN f.levels :
     /\ KeyName(f, i) = ColumnName(f, i)
     /\ PricefxType(f.levels[i].col.dtype) # NoType
     /\ ColumnName(f, i) \in Identifiers

\* All of the frame can be sent with its data.
Sendable(f, p) ==
  /\ DOMAIN Reset(f).cols \subseteq Identifiers
  /\ p.unsupported = "drop" => Unsupported(Reset(f).cols) = {}

IndexData(f) == {f.levels[i].col.data : i \in DOMAIN f.levels}
LevelNames(f) == {f.levels[i].name : i \in DOMAIN f.levels}
Given(f) == [index |-> IndexData(f), names |-> DOMAIN f.cols \cup LevelNames(f)]

\* What the properties ask of a call: the index it was given, whether that can become
\* key fields, whether nothing is left behind, and where the frame came from.
Call(call, result, manual, p, sent) ==
  [call |-> call, result |-> result, manual |-> manual # NoManual, sent |-> sent,
   index |-> IndexData(frame), levels |-> LevelNames(frame),
   keyable |-> Keyable(frame), sendable |-> Sendable(frame, p), origin |-> origin]
NoCall == [call |-> "none"]

Calls == calls < MaxCalls /\ calls' = calls + 1

Options == [inplace : BOOLEAN, unsupported : {"error", "drop", "coerce"}, badLabel : BOOLEAN]

\* push_pandas, up to what reaches the backend; replace is replace_existing.
PushPandas(p, manual, keepIndex, replace) ==
  LET fields == Updated(FieldsSpec(frame, p), manual, keepIndex)
      cols == Converted(Prepared(frame, p), FieldsSpec(frame, p), manual, keepIndex)
  IN
  /\ Calls
  /\ manual = NoManual => keepIndex
  /\ manual # NoManual => ~p.badLabel
  /\ frame' = Source(frame, p)
  /\ UNCHANGED <<object, version, given>>
  /\ \/ /\ PreparationFails(frame, p) \/ ManualFails(FieldsSpec(frame, p), manual, keepIndex)
        /\ last' = Call("push", "raised", manual, p, {})
        /\ UNCHANGED <<table, advised>>
     \/ /\ ~PreparationFails(frame, p)
        /\ ~ManualFails(FieldsSpec(frame, p), manual, keepIndex)
        /\ \/ /\ Retyping(FieldsSpec(frame, p), manual) # {}   \* a value that cannot be
              /\ UNCHANGED <<table, advised>>
              /\ last' = Call("push", "raised", manual, p, {})
           \/ /\ advised' = (advised \/ HasText(fields))
              /\ \/ /\ DistinctNames(fields) /\ Unsupported(cols) = {}
                    /\ (\E c \in DOMAIN fields : fields[c].type = "LOB") => SupportsLob(version)
                    /\ table = NoTable \/ replace
                    /\ table' = TableOf(fields, cols)
                    /\ last' = Call("push", "returned", manual, p, DOMAIN cols)
                 \/ /\ UNCHANGED table           \* refused, here or by the backend
                    /\ last' = Call("push", "raised", manual, p, {})
  /\ origin' = IF p.inplace \/ last'.result = "returned" THEN "built" ELSE origin

\* update_pandas sends the columns; the types are those of the table.
UpdatePandas(p) ==
  /\ Calls
  /\ object # NoObject /\ ~p.badLabel
  /\ frame' = Source(frame, p)
  /\ origin' = IF p.inplace THEN "built" ELSE origin
  /\ UNCHANGED <<table, object, version, given>>
  /\ \/ /\ PreparationFails(frame, p)
        /\ last' = Call("update", "raised", NoManual, p, {})
        /\ UNCHANGED advised
     \/ /\ ~PreparationFails(frame, p)
        /\ advised' = (advised \/ \E c \in DOMAIN object \cap DOMAIN Prepared(frame, p) :
                                     object[c].type \in {"TEXT", "LOB"})
        /\ last' = Call("update", "sent", NoManual, p, DOMAIN Prepared(frame, p))

\* The program gets the table from its collection.
GetTable ==
  /\ table # NoTable /\ object # table.fields
  /\ object' = table.fields
  /\ last' = NoCall
  /\ UNCHANGED <<frame, table, version, advised, given, origin, calls>>

\* What pandas reads from a column of the table.
FromTable(c) ==
  Column([TEXT |-> "str", LOB |-> "str", DATE |-> "str", INTEGER |-> "int",
          NUMBER |-> "float", BOOLEAN |-> "bool"][table.fields[c].type],
         table.data[c])

\* _key_colums, from the fields the object has.
KeyColumns(columns) == {c \in DOMAIN object \cap columns : object[c].key}

\* set_index, with the keys in the order of the fields.
Orders(keys) ==
  {order \in [0..(Cardinality(keys) - 1) -> keys] :
     \A c \in keys : \E i \in DOMAIN order : order[i] = c}
Indexed_Never(columns, order) ==
  Frame(RangeIndex, [c \in columns |-> FromTable(c)])
Indexed(columns, order) ==
  Frame(IF DOMAIN order = {} THEN RangeIndex
        ELSE [i \in DOMAIN order |-> Level(order[i], FromTable(order[i]))],
        [c \in columns \ {order[i] : i \in DOMAIN order} |-> FromTable(c)])

\* to_pandas; of an empty table to_pandas_paginated knows no columns.
ToPandas(columns) ==
  /\ Calls
  /\ object # NoObject
  /\ columns \subseteq DOMAIN table.fields
  /\ \E order \in Orders(KeyColumns(columns)) : frame' = Indexed(columns, order)
  /\ given' = Given(frame')
  /\ origin' = IF KeyColumns(columns) = {} THEN "fetched without key"
               ELSE IF object = table.fields THEN "fetched" ELSE "fetched through stale"
  /\ last' = NoCall
  /\ UNCHANGED <<table, object, version, advised>>

-----------------------------------------------------------------------------
Init ==
  /\ frame \in Frames
  /\ table = NoTable
  /\ object = NoObject
  /\ version \in Versions
  /\ advised = FALSE
  /\ given = Given(frame)
  /\ origin = "built"
  /\ last = NoCall
  /\ calls = 0

Next ==
  \/ \E p \in Options :
       \/ UpdatePandas(p)
       \/ \E manual \in Manuals \cup {NoManual}, keepIndex, replace \in BOOLEAN :
            PushPandas(p, manual, keepIndex, replace)
  \/ GetTable
  \/ \E columns \in SUBSET DOMAIN table.fields : columns # {} /\ ToPandas(columns)

Spec == Init /\ [][Next]_vars

-----------------------------------------------------------------------------
(* Properties. *)

\* Fields and columns have known types and names, and a table has data for its fields
\* and for nothing else.
FieldsOK(fields) ==
  /\ NoName \notin DOMAIN fields
  /\ \A c \in DOMAIN fields : fields[c].type \in Types /\ fields[c].key \in BOOLEAN
TypeOK ==
  /\ FrameOK(frame)
  /\ FieldsOK(table.fields) /\ DOMAIN table.data = DOMAIN table.fields
  /\ object # NoObject => FieldsOK(object)
  /\ version \in Versions /\ advised \in BOOLEAN
  /\ origin \in {"built", "fetched", "fetched without key", "fetched through stale"}
  /\ calls \in 0..MaxCalls

KeysOf(fields) == {c \in DOMAIN fields : fields[c].key}

\* "Dataframe index will be used as key columns by default": after a push without
\* manual specs the key fields hold the data of the index.  Not so if an index without
\* name meets a column called "index", if a level has no supported type ("drop" drops it),
\* or if its name is no identifier.  And the index that the frame had before calls worked
\* on it in place, whether they failed or not, is never lost: its data arrive in the
\* table, as key or not, if all of the frame can be sent.
IndexBecomesKey ==
  last.call = "push" /\ last.result = "returned" /\ ~last.manual =>
     /\ last.keyable => {table.data[c] : c \in KeysOf(table.fields)} = last.index
     /\ last.sendable => given.index \subseteq {table.data[c] : c \in DOMAIN table.data}

\* A frame that was fetched with a key, and that no call worked on in place, goes back to
\* the table with the columns it was fetched with, keys included, and no other, even if
\* the object it was fetched through was stale.  If it was not, the index of the frame is
\* the key of the table, as far as it was fetched.
FetchedFrameFitsTable ==
  last.call = "update" /\ last.result = "sent" =>
     /\ last.origin \in {"fetched", "fetched through stale"} =>
          last.sent = given.names /\ last.sent \subseteq DOMAIN table.fields
     /\ last.origin = "fetched" => last.levels = KeysOf(table.fields) \cap given.names

\* A table has a LOB field only if the backend has the fix: from 16.3.13 on for
\* 16, from 17.0.4 on for 17, and in every later major.
LobNeedsTheFix ==
  (\E c \in DOMAIN table.fields : table.fields[c].type = "LOB") =>
     /\ version[1] >= 16
     /\ version[1] = 16 => AtLeast(version, <<16, 3, 13>>)
     /\ version[1] = 17 => AtLeast(version, <<17, 0, 4>>)

\* What a table gets is what the frame has: no column arrives empty ("Create an
\* AvroStream from a pandas Dataframe").
ValuesArrive == \A c \in DOMAIN table.data : table.data[c] # "nulls"
=============================================================================
