SPECIFICATION BuilderSpec
CONSTANTS
  SectionNames = {"s"}
  Keys = {"k"}
  Values = {"v", "w"}
  MaxSpecs = 2
  WrapsOptional = FALSE
INVARIANTS
  ValidMeansMandatesMet
CHECK_DEADLOCK FALSE
