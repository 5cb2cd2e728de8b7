SPECIFICATION QuerySpec
CONSTANTS
  UsedClasses = {"PreviousStageFunction", "SourceFunction", "AggregateScalarFunction",
    "JoinTableFunction", "JoinPipelineFunction", "LiteralValue", "SourceColumnReference",
    "PreviousStageColumnReference", "PipelineColumnReference", "InputColumnReference",
    "PreviousStageFunctionAgg", "PreviousStageWindowFunctionCall",
    "PreviousStageRankOverFunction", "PreviousStageWindowFunction", "Order", "Customers",
    "PADataSource", "PADataFeed", "JoinTable", "JoinPipeline", "Source",
    "AddColumns",
    "Filter", "Aggregate", "Distinct", "Sort", "Pipeline"}
  UsedNames = {"plus", "in", "sum", "rank", "percentRankOver"}
  MaxObjects = 4
  MaxArgs = 2
  MaxEdits = 1
INVARIANTS
  ParsesBackAsItself
  AggregatesDoNotNest
  BackendTakesWhatIsBuilt
CHECK_DEADLOCK FALSE
