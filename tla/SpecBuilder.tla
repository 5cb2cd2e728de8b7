---------------------------- MODULE SpecBuilder -----------------------------
(***************************************************************************)
(* A program builds a spec with the operations of ConfigSpec, one call at  *)
(* a time, and validates a configuration with it.                          *)
(***************************************************************************)
EXTENDS Validation

CONSTANTS
  SectionNames, Keys, Values,  \* in configurations and specs
  MaxSpecs,                    \* bound: specs added to a section spec
  WrapsOptional                \* the program puts optional specs into a ConditionalSpec

VARIABLES
  spec,           \* the section spec under construction, or what wraps it
  nested,         \* the conditional section spec being built inside it, or NoSpec
  configuration,  \* the configuration
  mandates        \* history: some mandatory requirement that it does not meet

builderVars == <<spec, nested, configuration, mandates>>

NoSpec == [kind |-> "none"]
Configurations ==
  UNION {[S -> UNION {[K -> Values] : K \in SUBSET Keys}] : S \in SUBSET SectionNames}

InSection == spec.kind = "section"

\* The section spec that the next call extends.
Target == IF nested = NoSpec THEN spec ELSE nested

Room(s) == Len(s.specs) < MaxSpecs + IF s.required THEN 1 ELSE 0

Extend(s) ==
  /\ Room(Target)
  /\ IF nested = NoSpec THEN spec' = s /\ UNCHANGED nested
                        ELSE nested' = s /\ UNCHANGED spec

\* What the calls ask for applies when the condition they are nested in holds.
Applies == nested = NoSpec \/ Holds(nested.cond, configuration)

MustContain(key) ==
  /\ InSection
  /\ Extend(must_contains(Target, key))
  /\ mandates' = (mandates \/ (Applies /\ Target.section \in DOMAIN configuration
                                       /\ ~Has(configuration, Target.section, key)))
  /\ UNCHANGED configuration

MayContain(key) ==
  /\ InSection
  /\ Extend(may_contains(Target, key))
  /\ UNCHANGED <<mandates, configuration>>

WithValues(key, values) ==
  /\ InSection
  /\ Extend(with_values(Target, key, values))
  /\ mandates' = (mandates \/ (Applies /\ Has(configuration, Target.section, key)
                                       /\ configuration[Target.section][key] \notin values))
  /\ UNCHANGED configuration

WithCheck(b) ==
  /\ InSection
  /\ Extend(with_check(Target, Callable(b)))
  /\ mandates' = (mandates \/ (Applies /\ ~b))
  /\ UNCHANGED configuration

WhenKeyValueIs(key, value) ==
  /\ InSection /\ nested = NoSpec /\ Room(spec)
  /\ nested' = when_key_value_is(spec, key, value)
  /\ UNCHANGED <<spec, configuration, mandates>>

\* Back to the outer section spec.
EndWhen ==
  /\ InSection /\ nested # NoSpec
  /\ Room(spec)
  /\ spec' = with_spec(spec, nested)
  /\ nested' = NoSpec
  /\ UNCHANGED <<configuration, mandates>>

HasOptional(s) ==
  \E i \in DOMAIN s.specs :
    \/ s.specs[i].kind = "optional"
    \/ /\ s.specs[i].kind = "conditional_section"
       /\ \E j \in DOMAIN s.specs[i].specs : s.specs[i].specs[j].kind = "optional"

\* The classes can be combined by hand, as the unit tests do.
Wrap ==
  /\ InSection /\ nested = NoSpec
  /\ \/ spec' = OptionalSpec(spec) /\ mandates' = FALSE
     \/ spec' = ComposedSpec(<< spec >>) /\ UNCHANGED mandates
     \/ \E b \in BOOLEAN :
          /\ HasOptional(spec) => WrapsOptional
          /\ spec' = ConditionalSpec(spec, Callable(b))
          /\ mandates' = (b /\ mandates)
  /\ UNCHANGED <<nested, configuration>>

BuilderInit ==
  /\ configuration \in Configurations
  /\ \E section \in SectionNames, required \in BOOLEAN :
       /\ spec = SectionSpec(section, required)
       /\ mandates = (required /\ section \notin DOMAIN configuration)
  /\ nested = NoSpec

BuilderNext ==
  \/ \E key \in Keys : MustContain(key) \/ MayContain(key)
  \/ \E key \in Keys, value \in Values : WithValues(key, {value}) \/ WhenKeyValueIs(key, value)
  \/ \E b \in BOOLEAN : WithCheck(b)
  \/ EndWhen \/ Wrap

BuilderSpec == BuilderInit /\ [][BuilderNext]_builderVars

-----------------------------------------------------------------------------
(* Properties. *)

\* A configuration is invalid exactly when it fails something mandatory: optional
\* keys never count ("This spec will always return True"), a condition that does
\* not hold takes what depends on it away, and nothing mandatory is lost in the
\* nesting of conditional sections.
ValidMeansMandatesMet ==
  nested = NoSpec => (is_valid(spec, configuration) <=> ~mandates)

=============================================================================
