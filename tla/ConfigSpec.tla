----------------------------- MODULE ConfigSpec -----------------------------
(***************************************************************************)
(* lowlevel/configuration/spec.py: specifications of valid configurations, *)
(* the units' diagnostics, and the chained calls that build them.          *)
(*                                                                         *)
(* A ConfigParser is a function from its sections to functions from keys   *)
(* to values.  A diagnostic message is "required", or "optional" when an   *)
(* OptionalSpec marks it so.  The lists of specs are sequences.            *)
(***************************************************************************)
EXTENDS Naturals, Sequences

Has(config, section, key) ==
  section \in DOMAIN config /\ key \in DOMAIN config[section]

\* Conditions: of when_key_value_is, and any other callable.
KeyValueIs(section, key, value) == [section |-> section, key |-> key, value |-> value]
Callable(b) == [result |-> b]
Holds(cond, config) ==
  IF "result" \in DOMAIN cond THEN cond.result
  ELSE /\ Has(config, cond.section, cond.key)
       /\ config[cond.section][cond.key] = cond.value

-----------------------------------------------------------------------------
(* The specs. *)

FunctionSpec(cond) == [kind |-> "function", cond |-> cond]
SectionMustExistSpec(section) == [kind |-> "exists", section |-> section]
SectionMustContainKeySpec(section, key) ==
  [kind |-> "contains", section |-> section, key |-> key]
PossibleValuesSpec(section, key, values) ==
  [kind |-> "values", section |-> section, key |-> key, values |-> values]

OptionalSpec(spec) == [kind |-> "optional", spec |-> spec]
ConditionalSpec(spec, cond) == [kind |-> "conditional", spec |-> spec, cond |-> cond]
ComposedSpec(specs) == [kind |-> "composed", specs |-> specs]

Existence(section, required) ==
  IF required THEN << SectionMustExistSpec(section) >> ELSE << >>
SectionSpec(section, required) ==
  [kind |-> "section", section |-> section, required |-> required,
   specs |-> Existence(section, required)]
ConditionalSectionSpec(section, required, cond) ==
  [kind |-> "conditional_section", section |-> section, required |-> required,
   specs |-> Existence(section, required), cond |-> cond]

required_section(section) == SectionSpec(section, TRUE)
optional_section(section) == SectionSpec(section, FALSE)

-----------------------------------------------------------------------------
(* Building: each returns the section spec with one spec more. *)

with_spec(s, spec) == [s EXCEPT !.specs = Append(@, spec)]
with_check(s, cond) == with_spec(s, FunctionSpec(cond))

must_contains(s, key) == with_spec(s, SectionMustContainKeySpec(s.section, key))
may_contains(s, key) == with_spec(s, OptionalSpec(SectionMustContainKeySpec(s.section, key)))
with_values(s, key, values) == with_spec(s, PossibleValuesSpec(s.section, key, values))

\* when and when_key_value_is: the conditional section spec to go on building with
\* is put into s when it is complete.
when_empty(s, cond) == ConditionalSectionSpec(s.section, s.required, cond)
when_key_value_is(s, key, value) == when_empty(s, KeyValueIs(s.section, key, value))

-----------------------------------------------------------------------------
(* Validation. *)

UnitDiagnostic(s, config) ==
  LET ok ==
        \/ s.kind = "function" /\ Holds(s.cond, config)
        \/ s.kind = "exists" /\ s.section \in DOMAIN config
        \/ s.kind = "contains" /\
             (s.section \in DOMAIN config => s.key \in DOMAIN config[s.section])
        \/ s.kind = "values" /\
             (Has(config, s.section, s.key) => config[s.section][s.key] \in s.values)
  IN IF ok THEN {} ELSE {"required"}

Units == {"function", "exists", "contains", "values"}
=============================================================================
