----------------------------- MODULE Validation -----------------------------
(***************************************************************************)
(* lowlevel/configuration/spec.py: diagnostic and is_valid of the specs    *)
(* that ConfigSpec defines, the two recursions over nested specs.          *)
(***************************************************************************)
EXTENDS ConfigSpec, Functions

\* self._spec or self._specs: none for a unit.
Parts(s) ==
  CASE "spec" \in DOMAIN s -> {s.spec}
    [] "specs" \in DOMAIN s -> Range(s.specs)
    [] OTHER -> {}

\* A spec and all in it.  (Bound: specs are nested at most four deep.)
Inner(S) == S \cup UNION {Parts(s) : s \in S}
Within(s) == Inner(Inner(Inner(Inner({s}))))

\* The diagnostic of each spec in s, and whether each is valid.
Diagnostics(s, config) ==
  LET found[t \in Within(s)] ==
        LET all == UNION {found[p] : p \in Parts(t)} IN
        CASE t.kind \in Units -> UnitDiagnostic(t, config)
          [] t.kind = "optional" -> IF all = {} THEN {} ELSE {"optional"}
          [] t.kind \in {"composed", "section"} -> all
          [] t.kind \in {"conditional", "conditional_section"} ->
               IF Holds(t.cond, config) THEN all ELSE {}
  IN  found

diagnostic(s, config) == Diagnostics(s, config)[s]

\* Spec.is_valid for every spec: only diagnostics count.
is_valid_ByDiagnostic(s, config) == diagnostic(s, config) = {}

Validities(s, config) ==
  LET valid[t \in Within(s)] ==
        LET all == \A p \in Parts(t) : valid[p] IN
        CASE t.kind \in Units \cup {"conditional"} -> diagnostic(t, config) = {}
          [] t.kind = "optional" -> TRUE
          [] t.kind \in {"composed", "section"} -> all
          [] t.kind = "conditional_section" -> Holds(t.cond, config) => all
  IN  valid

\* Spec.is_valid, inherited by the units and ConditionalSpec, and its overrides.
is_valid(s, config) == Validities(s, config)[s]
=============================================================================
