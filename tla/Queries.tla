------------------------------ MODULE Queries ------------------------------
(***************************************************************************)
(* The classes of the Query API (schema/query.py): a program builds a      *)
(* pipeline bottom up, object by object, and the dump of it is sent to the *)
(* backend and parsed back.                                                *)
(*                                                                         *)
(* Only the constructors validate: an object among the arguments must be   *)
(* of one of the classes the field names, and is not looked into again; a  *)
(* field assigned later is not validated at all.  A dump keeps kind,       *)
(* source and name of an object, not its class: parsing finds the class    *)
(* among those the field names.                                            *)
(*                                                                         *)
(* Aliases, column names, literal values, types of joins, frames and       *)
(* directions are left out.  A selectable is its expression.  What the     *)
(* backend accepts is external.  An operator Name_Fault is Name with one   *)
(* plausible mistake.                                                      *)
(***************************************************************************)
EXTENDS Naturals, Sequences, FiniteSets, Functions

CONSTANTS
  UsedClasses, \* bound: the classes the program builds objects of
  UsedNames,   \* bound: the operations it names
  MaxObjects,  \* bound: objects the program builds
  MaxArgs,     \* bound: arguments of an object
  MaxEdits     \* bound: objects edited after they were built

ASSUME BoundsAssumption == MaxObjects \in Nat /\ MaxArgs \in Nat /\ MaxEdits \in Nat

VARIABLES
  objects,  \* the objects built: class, name, and arguments (earlier objects)
  edited    \* history: the objects whose arguments were assigned since

queryVars == <<objects, edited>>

-----------------------------------------------------------------------------
(* Names. *)

NoName == "unnamed"
NoSource == "none"

Operation ==
  {"and", "or", "not", "abs", "exp", "caseWhen", "coalesce", "nullIf", "lessThan",
   "lessOrEqual", "greaterThan", "greaterOrEqual", "equal", "equalNullAware",
   "notEqual", "notEqualNullAware", "like", "ilike", "notLike", "notIlike", "in",
   "notIn", "isNull", "isNotNull", "isTrue", "isFalse", "concat", "substring",
   "upper", "lower", "trim", "length", "locate", "plus", "minus", "multiply", "div",
   "safeDiv", "mod", "castAsInteger", "castAsBoolean", "castAsDateOnly",
   "castAsDateTime", "castAsReal", "castAsString", "cbrt", "ceil", "degrees",
   "factorial", "floor", "greatest", "least", "ln", "log", "pi", "power", "radians",
   "round", "sign", "trunc", "random", "width_bucket", "acos", "asin", "atan",
   "atan2", "cos", "sin", "tan", "dateOnlyToday", "dateTimeNow"}
OperationAgg_WithScalars ==
  {"sum", "avg", "min", "max", "countAll", "countNonNull", "countDistinctNonNull",
   "plus"}
OperationAgg ==
  {"sum", "avg", "min", "max", "countAll", "countNonNull", "countDistinctNonNull"}
WindowOperation ==
  {"avg", "countAll", "countNonNull", "cumeDist", "denseRank", "firstValue", "lag",
   "lastValue", "lead", "max", "min", "nthValue", "ntile", "percentRank", "rank",
   "rowNumber", "sum"}
RankOverOperation == {"percentRankOver", "cumeDistOver"}

\* The operations whose values must be literals, and those of windows alone.
InOperations == {"in", "notIn"}
RankingOperation == WindowOperation \ OperationAgg

\* The kinds of the tables are their names here.  Two were renamed in newer
\* backends: both are parsed.
TableNames ==
  [CompanyParameterTables |-> {"companyParameterTables"},
   CompanyParametersRows |-> {"companyParameterRows"}, Customers |-> {"customers"},
   Sellers |-> {"sellers"}, ActionItems |-> {"actionItems"},
   Products |-> {"products"}, ProductCompetitions |-> {"productCompetitions"},
   ProductReferences |-> {"productReferences"},
   ProductBillOfMaterials |-> {"productBillOfMaterials"},
   JobStatusTrackers |-> {"jobStatusTrackers"},
   ProductExtensionRows |-> {"productExtensionRows"},
   CustomerExtensionRows |-> {"customerExtensionRows"},
   SellerExtensionRows |-> {"sellerExtensionRows"},
   ConditionRecords |-> {"conditionRecords"},
   HistoricalConditionRecords |-> {"historicalConditionRecords"},
   QuoteLineItems |-> {"quoteLineItems"}, RebateLineItems |-> {"rebateLineItems"},
   ContractLineItems |-> {"contractLineItems"},
   CompensationLineItems |-> {"compensationLineItems"}, Claims |-> {"claims"},
   ClaimLineItems |-> {"claimLineItems"}, CalculationGrids |-> {"calculationGrids"},
   CalculationGridLineItems |-> {"calculationGridLineItems"},
   PriceLists |-> {"priceLists"}, PriceListLineItems |-> {"priceListLineItems"},
   PriceGrids |-> {"priceGrids"}, PriceGridLineItems |-> {"priceGridLineItems"},
   RebateRecords |-> {"rebateRecords"},
   CompensationRecords |-> {"compensationRecords"},
   PADataSource |-> {"dataSource", "datasource"}, PADatamart |-> {"datamart"},
   PADataFeed |-> {"dataFeed", "datafeed"}, PAModelTable |-> {"modelTable"},
   PARollup |-> {"rollup"}, CustomForms |-> {"customForms"}, Users |-> {"users"}]

-----------------------------------------------------------------------------
(* What a field may hold. *)

Table == DOMAIN TableNames

\* Input, output and calculation result references: only next to a table.
TableReferences ==
  {"SourceColumnReference", "InputColumnReference", "OutputColumnReference",
   "CalculationResultColumnReference", "ActiveCalculationResultColumnReference",
   "PreviousCalculationResultColumnReference"}

PreviousStageExpression ==
  {"LiteralValue", "PreviousStageColumnReference", "PreviousStageWindowFunction",
   "PreviousStageFunction", "PreviousStageRankOverFunction"}

SourceExpression == {"LiteralValue", "SourceFunction"} \cup TableReferences

ExpressionAgg ==
  {"LiteralValue", "PreviousStageColumnReference", "PreviousStageFunctionAgg",
   "AggregateScalarFunction"}

JoinTableExpression ==
  {"LiteralValue", "PreviousStageColumnReference", "JoinTableFunction"} \cup TableReferences

JoinPipelineExpression ==
  {"LiteralValue", "PreviousStageColumnReference", "PipelineColumnReference",
   "JoinPipelineFunction"}

Stage == {"Source", "JoinTable", "JoinPipeline", "AddColumns", "RemoveColumns",
          "RetainColumns", "SelectColumns", "Filter", "Aggregate", "Distinct", "Take", "Sort"}

Unions == {Table, PreviousStageExpression, SourceExpression, ExpressionAgg, JoinTableExpression,
           JoinPipelineExpression, Stage}

-----------------------------------------------------------------------------
(* The classes: kind and source of the dump, names, what the first argument *)
(* and the others may be, and how many there are.                           *)

Class(kind, source, names, first, rest, least, most) ==
  [kind |-> kind, source |-> source, names |-> names, first |-> first, rest |-> rest,
   least |-> least, most |-> most]

Leaf(kind, source) == Class(kind, source, {NoName}, {}, {}, 0, 0)
Function(names, arguments) == Class("function", NoSource, names, arguments, arguments, 0, MaxArgs)

\* The subclasses of _ScalarFunction narrow its arguments.
ScalarFunctions ==
  [PreviousStageFunction |-> Function(Operation, PreviousStageExpression),
   SourceFunction |-> Function(Operation, SourceExpression),
   AggregateScalarFunction |-> Function(Operation, ExpressionAgg),
   JoinTableFunction |-> Function(Operation, JoinTableExpression),
   JoinPipelineFunction |-> Function(Operation, JoinPipelineExpression)]

References ==
  [LiteralValue |-> Leaf("literal", NoSource),
   SourceColumnReference |-> Leaf("columnReference", "table"),
   PreviousStageColumnReference |-> Leaf("columnReference", "previousStage"),
   PipelineColumnReference |-> Leaf("columnReference", "pipeline"),
   InputColumnReference |-> Leaf("inputColumnReference", "table"),
   OutputColumnReference |-> Leaf("outputColumnReference", "table"),
   CalculationResultColumnReference |-> Leaf("calculationResultColumnReference", "table"),
   ActiveCalculationResultColumnReference |->
     Leaf("activeCalculationResultColumnReference", "table"),
   PreviousCalculationResultColumnReference |->
     Leaf("previousCalculationResultColumnReference", "table")]

Functions_AggOfAggs ==
  [PreviousStageFunctionAgg |-> Function(OperationAgg, PreviousStageExpression \cup ExpressionAgg),
   PreviousStageWindowFunctionCall |-> Function(WindowOperation, PreviousStageExpression),
   PreviousStageRankOverFunction |->
     Class("function", NoSource, RankOverOperation, {"Order"}, {}, 1, 1)]
Functions ==
  [PreviousStageFunctionAgg |-> Function(OperationAgg, PreviousStageExpression),
   PreviousStageWindowFunctionCall |-> Function(WindowOperation, PreviousStageExpression),
   PreviousStageRankOverFunction |->
     Class("function", NoSource, RankOverOperation, {"Order"}, {}, 1, 1)]

\* The function of a window comes first, then partitions, filter and orders.
Windows ==
  [PreviousStageWindowFunction |->
     Class("windowFunction", NoSource, {NoName}, {"PreviousStageWindowFunctionCall"},
           PreviousStageExpression \cup {"Order"}, 1, MaxArgs),
   Order |-> Class("order", NoSource, {NoName}, PreviousStageExpression, {}, 1, 1)]

Tables ==
  [t \in Table |-> Class("table", NoSource, TableNames[t], {}, {}, 0, 0)]

\* The table or pipeline comes first, then criteria and columns.
Joins ==
  [JoinTable |->
     Class("join", "table", {NoName}, Table, JoinTableExpression, 2, MaxArgs),
   JoinPipeline |->
     Class("join", "pipeline", {NoName}, {"Pipeline"}, JoinPipelineExpression, 2, MaxArgs)]

\* An aggregate has one column here, and its dimensions.  The columns of RemoveColumns
\* and RetainColumns are names.
Stages ==
  [Source |-> Class("source", NoSource, {NoName}, Table, SourceExpression, 1, MaxArgs),
   AddColumns |->
     Class("addColumns", NoSource, {NoName}, PreviousStageExpression, PreviousStageExpression,
           1, MaxArgs),
   SelectColumns |->
     Class("selectColumns", NoSource, {NoName}, PreviousStageExpression,
           PreviousStageExpression, 1, MaxArgs),
   RemoveColumns |-> Leaf("removeColumns", NoSource),
   RetainColumns |-> Leaf("retainColumns", NoSource),
   Filter |-> Class("filter", NoSource, {NoName}, PreviousStageExpression, {}, 1, 1),
   Aggregate |->
     Class("aggregate", NoSource, {NoName}, ExpressionAgg, PreviousStageExpression, 1, MaxArgs),
   Distinct |-> Leaf("distinct", NoSource),
   Take |-> Leaf("take", NoSource),
   Sort |-> Class("sort", NoSource, {NoName}, {"Order"}, {"Order"}, 1, MaxArgs)]

Pipelines == [Pipeline |-> Class("pipeline", NoSource, {NoName}, Stage, Stage, 1, MaxArgs)]

Parts == {ScalarFunctions, References, Functions, Windows, Tables, Joins, Stages, Pipelines}

Classes == UNION {DOMAIN part : part \in Parts}

Schema == [c \in Classes |-> (CHOOSE part \in Parts : c \in DOMAIN part)[c]]

OfKind == [kind \in {Schema[c].kind : c \in Classes} |-> {c \in Classes : Schema[c].kind = kind}]

Field(c, k) == IF k = 1 THEN Schema[c].first ELSE Schema[c].rest

-----------------------------------------------------------------------------
(* Construction. *)

\* _check_in_values_are_literals, of the scalar functions.
InValuesAreLiterals_CountsThem(c, name, args) ==
  c \in DOMAIN ScalarFunctions /\ name \in InOperations => Len(args) >= 2
InValuesAreLiterals(c, name, args) ==
  c \in DOMAIN ScalarFunctions /\ name \in InOperations
    => /\ Len(args) >= 2
       /\ \A k \in 2..Len(args) : objects[args[k]].class = "LiteralValue"

Arguments == UNION {[1..n -> 1..Len(objects)] : n \in 0..MaxArgs}

\* A constructor, given objects.  (What holds nothing is built first and nothing
\* twice: the order tells no property anything.)
Build(c) ==
  /\ c \in UsedClasses /\ Len(objects) < MaxObjects
  /\ Schema[c].most = 0 => \A i \in DOMAIN objects : Schema[objects[i].class].most = 0
  /\ \E name \in Schema[c].names, args \in Arguments :
        /\ Schema[c].kind = "function" => name \in UsedNames
        /\ Len(args) \in Schema[c].least..Schema[c].most
        /\ \A k \in DOMAIN args : objects[args[k]].class \in Field(c, k)
        /\ InValuesAreLiterals(c, name, args)
        /\ LET object == [class |-> c, name |-> name, args |-> args] IN
           /\ \A i \in DOMAIN objects : objects[i] # object
           /\ objects' = Append(objects, object)
  /\ UNCHANGED edited

\* The arguments of a function are assigned, or appended to: nothing is checked.
\* (Objects that hold themselves are left out.)
Edit(i) ==
  /\ Schema[objects[i].class].kind = "function"
  /\ Cardinality(edited \cup {i}) <= MaxEdits
  /\ \E args \in Arguments :
        /\ \A k \in DOMAIN args : args[k] < i
        /\ args # objects[i].args
        /\ objects' = [objects EXCEPT ![i].args = args]
  /\ edited' = edited \cup {i}

-----------------------------------------------------------------------------
(* The dump of an object, and what holds the object. *)

Dump(i) ==
  [kind |-> Schema[objects[i].class].kind, source |-> Schema[objects[i].class].source,
   name |-> objects[i].name]

\* The classes the dump of each object is parsed as, field by field.
ParsedAs ==
  LET as[i \in DOMAIN objects] ==
        LET args == objects[i].args IN
        {c \in OfKind[Dump(i).kind] :
           /\ Schema[c].source = Dump(i).source
           /\ Dump(i).name \in Schema[c].names
           /\ Len(args) \in Schema[c].least..Schema[c].most
           /\ \A k \in DOMAIN args : as[args[k]] \cap Field(c, k) # {}
           /\ InValuesAreLiterals(c, Dump(i).name, args)}
  IN  as

\* What each object holds, at any depth, itself included; beyond nested pipelines
\* only if asked.
Inside(beyond) ==
  LET in[i \in DOMAIN objects] ==
        {i} \cup UNION {in[a] : a \in {b \in Range(objects[i].args) :
                                     beyond \/ objects[b].class # "Pipeline"}}
  IN  in

\* The objects nothing in which was edited.
Untouched == LET in == Inside(TRUE) IN {i \in DOMAIN objects : in[i] \cap edited = {}}

-----------------------------------------------------------------------------
QueryInit == objects = << >> /\ edited = {}

QueryNext == (\E c \in Classes : Build(c)) \/ (\E i \in DOMAIN objects : Edit(i))

QuerySpec == QueryInit /\ [][QueryNext]_queryVars

-----------------------------------------------------------------------------
(* Properties. *)

\* What was built and not edited since is parsed back, wherever it may stand, as
\* objects of its own classes and no others: no field leaves pydantic a choice.
ParsesBackAsItself ==
  LET as == ParsedAs IN
  \A i \in Untouched, fields \in Unions :
    objects[i].class \in fields => as[i] \cap fields = {objects[i].class}

\* Aggregates sit at any depth under scalar functions, never under another
\* aggregate, and get into a stage, but for the pipelines it joins, by the column
\* of an Aggregate only (AggregateScalarFunction).
AggregatesDoNotNest ==
  LET in == Inside(FALSE)
      Aggregates(i) == {j \in in[i] : objects[j].class = "PreviousStageFunctionAgg"} IN
  \A i \in Untouched :
    /\ objects[i].class = "PreviousStageFunctionAgg" => Aggregates(i) = {i}
    /\ objects[i].class \in Stage =>
         \A k \in DOMAIN objects[i].args :
           /\ objects[objects[i].args[k]].class # "Pipeline"
           /\ Aggregates(objects[i].args[k]) # {}
           => objects[i].class = "Aggregate" /\ k = 1

\* The rules of the backend that the classes say they keep: the values of in are
\* literals; a ranking function stands in a window; and a stage refers to what it
\* has: a table to its columns, a joined pipeline to its own, and everything but a
\* source to the stage before.
BackendTakesWhatIsBuilt ==
  LET in == Inside(FALSE)
      Refers(i, source) ==
        \E j \in in[i] : Dump(j).kind = "columnReference" /\ Dump(j).source = source IN
  \A i \in Untouched :
    /\ Dump(i).name \in InOperations =>
         \A k \in 2..Len(objects[i].args) : Dump(objects[i].args[k]).kind = "literal"
    /\ \A k \in DOMAIN objects[i].args :
         Dump(objects[i].args[k]).name \in RankingOperation
           => k = 1 /\ Dump(i).kind = "windowFunction"
    /\ objects[i].class \in Stage =>
         /\ Refers(i, "table") => objects[i].class \in {"Source", "JoinTable"}
         /\ Refers(i, "pipeline") => objects[i].class = "JoinPipeline"
         /\ Refers(i, "previousStage") => objects[i].class # "Source"
=============================================================================
