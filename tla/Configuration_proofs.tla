----------------------- MODULE Configuration_proofs ------------------------
(***************************************************************************)
(* Theorems about Connections and SpecBuilder, and the lemmas about the    *)
(* specs and their validation that both rest on: for every configuration,  *)
(* every set of attachments, and every number of calls, of connections     *)
(* made and of specs added to a section.                                   *)
(***************************************************************************)
EXTENDS Connections, SpecBuilder, SequenceTheorems, TLAPS

(***************************************************************************)
(* The recursions of Validation: the functions that Diagnostics and        *)
(* Validities choose exist, and obey the equations of spec.py.             *)
(***************************************************************************)

\* How deep a spec is nested: Nested(0, s) if there is nothing in it, Nested(n + 1, s)
\* if what is in it is nested n deep at most.
Flat(s) == Parts(s) = {}
Nested1(s) == \A p \in Parts(s) : Flat(p)
Nested2(s) == \A p \in Parts(s) : Nested1(p)
Nested3(s) == \A p \in Parts(s) : Nested2(p)
Nested4(s) == \A p \in Parts(s) : Nested3(p)

Nested(n, s) ==
  \/ n = 0 /\ Flat(s)
  \/ n = 1 /\ Nested1(s)
  \/ n = 2 /\ Nested2(s)
  \/ n = 3 /\ Nested3(s)
  \/ n = 4 /\ Nested4(s)

LEMMA NestedLess ==
  ASSUME NEW n \in 0..4, NEW s, Nested(n, s)
  PROVE  /\ Nested(4, s)
         /\ \A p \in Parts(s) : n # 0 /\ Nested(n - 1, p)
<1>1. Flat(s) => Nested1(s)
  BY DEF Flat, Nested1
<1>2. Nested1(s) => Nested2(s)
  BY DEF Flat, Nested1, Nested2
<1>3. Nested2(s) => Nested3(s)
  BY DEF Flat, Nested1, Nested2, Nested3
<1>4. Nested3(s) => Nested4(s)
  BY DEF Flat, Nested1, Nested2, Nested3, Nested4
<1>5. Nested(4, s)
  BY <1>1, <1>2, <1>3, <1>4 DEF Nested
<1>6. \A p \in Parts(s) : n # 0 /\ Nested(n - 1, p)
  BY DEF Nested, Flat, Nested1, Nested2, Nested3, Nested4
<1> QED
  BY <1>5, <1>6

LEMMA NestedMore ==
  ASSUME NEW n \in 1..4, NEW s, Nested(n - 1, s)
  PROVE  Nested(n, s)
BY DEF Nested, Flat, Nested1, Nested2, Nested3, Nested4

\* Within holds a spec and whatever is in what it holds.
LEMMA WithinIsClosed ==
  ASSUME NEW s, Nested(4, s)
  PROVE  /\ s \in Within(s)
         /\ \A t \in Within(s) : Parts(t) \subseteq Within(s) /\ Nested(4, t)
<1> DEFINE All(S) == UNION {Parts(t) : t \in S}
           F1 == All({s})
           F2 == All(F1)
           F3 == All(F2)
           F4 == All(F3)
<1>1. Within(s) = {s} \cup F1 \cup F2 \cup F3 \cup F4
  <2>1. Inner({s}) = {s} \cup F1
    BY DEF Inner
  <2>2. Inner({s} \cup F1) = {s} \cup F1 \cup F2
    BY DEF Inner
  <2>3. Inner({s} \cup F1 \cup F2) = {s} \cup F1 \cup F2 \cup F3
    BY DEF Inner
  <2>4. Inner({s} \cup F1 \cup F2 \cup F3) = {s} \cup F1 \cup F2 \cup F3 \cup F4
    BY DEF Inner
  <2> QED
    BY <2>1, <2>2, <2>3, <2>4 DEF Within
<1>2. \A t \in F1 : Nested(3, t)
  BY NestedLess
<1>3. \A t \in F2 : Nested(2, t)
  BY <1>2, NestedLess
<1>4. \A t \in F3 : Nested(1, t)
  BY <1>3, NestedLess
<1>5. \A t \in F4 : Nested(0, t)
  BY <1>4, NestedLess
<1>6. \A t \in F4 : Parts(t) = {}
  BY <1>5 DEF Nested, Flat
<1>7. /\ Parts(s) \subseteq F1
      /\ \A t \in F1 : Parts(t) \subseteq F2
      /\ \A t \in F2 : Parts(t) \subseteq F3
      /\ \A t \in F3 : Parts(t) \subseteq F4
  OBVIOUS
<1> HIDE DEF F1, F2, F3, F4
<1>8. \A t \in {s} \cup F1 \cup F2 \cup F3 \cup F4 : Nested(4, t)
  BY <1>2, <1>3, <1>4, <1>5, NestedLess
<1> QED
  BY <1>1, <1>6, <1>7, <1>8

\* The diagnostic of a spec, given those of what is in it.
DiagnosticFrom(found, t, c) ==
  LET all == UNION {found[p] : p \in Parts(t)} IN
  CASE t.kind \in Units -> UnitDiagnostic(t, c)
    [] t.kind = "optional" -> IF all = {} THEN {} ELSE {"optional"}
    [] t.kind \in {"composed", "section"} -> all
    [] t.kind \in {"conditional", "conditional_section"} ->
         IF Holds(t.cond, c) THEN all ELSE {}

\* The recursion of Diagnostics has a solution, so Diagnostics is one.
LEMMA DiagnosticsEquation ==
  ASSUME NEW s, Nested(4, s), NEW c
  PROVE  Diagnostics(s, c) =
           [t \in Within(s) |-> DiagnosticFrom(Diagnostics(s, c), t, c)]
<1> DEFINE Layer(n) == {t \in Within(s) : Nested(n, t)}
           Upto(n) == \E found : found = [t \in Layer(n) |-> DiagnosticFrom(found, t, c)]
<1>1. Upto(0)
  <2> DEFINE h == [t \in Layer(0) |-> DiagnosticFrom(<< >>, t, c)]
  <2>1. \A t \in Layer(0) : Parts(t) = {}
    BY DEF Nested, Flat
  <2>2. \A t \in Layer(0) : DiagnosticFrom(h, t, c) = DiagnosticFrom(<< >>, t, c)
    BY <2>1 DEF DiagnosticFrom
  <2>3. h = [t \in Layer(0) |-> DiagnosticFrom(h, t, c)]
    BY <2>2, Zenon
  <2> QED
    BY <2>3, Zenon
<1>2. ASSUME NEW n \in 1..4, Upto(n - 1)
      PROVE  Upto(n)
  <2>1. PICK found : found = [t \in Layer(n - 1) |-> DiagnosticFrom(found, t, c)]
    BY <1>2, Zenon
  <2> DEFINE h == [t \in Layer(n) |-> DiagnosticFrom(found, t, c)]
  <2>2. \A t \in Layer(n) : \A p \in Parts(t) : p \in Layer(n - 1) /\ p \in Layer(n)
    <3>1. \A t \in Layer(n) : \A p \in Parts(t) : p \in Layer(n - 1)
      BY NestedLess, WithinIsClosed
    <3>2. Layer(n - 1) \subseteq Layer(n)
      BY NestedMore
    <3> QED
      BY <3>1, <3>2
  <2>3. \A t \in Layer(n) : \A p \in Parts(t) : h[p] = found[p]
    BY <2>1, <2>2, Zenon
  <2>4. \A t \in Layer(n) : DiagnosticFrom(h, t, c) = DiagnosticFrom(found, t, c)
    <3> SUFFICES ASSUME NEW t \in Layer(n)
                 PROVE  DiagnosticFrom(h, t, c) = DiagnosticFrom(found, t, c)
      OBVIOUS
    <3>1. {h[p] : p \in Parts(t)} = {found[p] : p \in Parts(t)}
      BY <2>3
    <3> QED
      BY <3>1, Zenon DEF DiagnosticFrom
  <2>5. h = [t \in Layer(n) |-> DiagnosticFrom(h, t, c)]
    BY <2>4, Zenon
  <2> QED
    BY <2>5, Zenon
<1> HIDE DEF Upto
<1>3. Upto(4)
  BY <1>1, <1>2
<1>4. Layer(4) = Within(s)
  BY WithinIsClosed
<1>5. PICK found : found = [t \in Within(s) |-> DiagnosticFrom(found, t, c)]
  BY <1>3, <1>4, Zenon DEF Upto
<1> QED
  BY <1>5, Zenon DEF Diagnostics, DiagnosticFrom

\* What is found of a spec does not depend on what it is part of.
LEMMA DiagnosticsAgree ==
  ASSUME NEW c
  PROVE  \A s, t : Nested(4, s) /\ t \in Within(s) =>
                     Diagnostics(s, c)[t] = diagnostic(t, c)
<1> DEFINE Agree(n) ==
             \A s, t : Nested(4, s) /\ t \in Within(s) /\ Nested(n, t) =>
                         Diagnostics(s, c)[t] = diagnostic(t, c)
<1>1. ASSUME NEW s, NEW t, Nested(4, s), t \in Within(s),
             \A p \in Parts(t) : Diagnostics(s, c)[p] = Diagnostics(t, c)[p]
      PROVE  Diagnostics(s, c)[t] = diagnostic(t, c)
  <2>1. Nested(4, t) /\ t \in Within(t)
    BY <1>1, WithinIsClosed
  <2>2. Diagnostics(s, c)[t] = DiagnosticFrom(Diagnostics(s, c), t, c)
    <3>1. Diagnostics(s, c)
            = [u \in Within(s) |-> DiagnosticFrom(Diagnostics(s, c), u, c)]
      BY <1>1, DiagnosticsEquation
    <3> QED
      BY <1>1, <3>1, Zenon
  <2>3. Diagnostics(t, c)[t] = DiagnosticFrom(Diagnostics(t, c), t, c)
    <3>1. Diagnostics(t, c)
            = [u \in Within(t) |-> DiagnosticFrom(Diagnostics(t, c), u, c)]
      BY <2>1, DiagnosticsEquation
    <3> QED
      BY <2>1, <3>1, Zenon
  <2>4. {Diagnostics(s, c)[p] : p \in Parts(t)} = {Diagnostics(t, c)[p] : p \in Parts(t)}
    BY <1>1
  <2>5. DiagnosticFrom(Diagnostics(s, c), t, c)
          = DiagnosticFrom(Diagnostics(t, c), t, c)
    BY <2>4, Zenon DEF DiagnosticFrom
  <2> QED
    BY <2>2, <2>3, <2>5, Zenon DEF diagnostic
<1>2. Agree(0)
  BY <1>1 DEF Nested, Flat
<1>3. ASSUME NEW n \in 1..4, Agree(n - 1)
      PROVE  Agree(n)
  <2> SUFFICES ASSUME NEW s, NEW t, Nested(4, s), t \in Within(s), Nested(n, t)
               PROVE  Diagnostics(s, c)[t] = diagnostic(t, c)
    OBVIOUS
  <2>1. /\ Nested(4, t) /\ t \in Within(t)
        /\ Parts(t) \subseteq Within(s) /\ Parts(t) \subseteq Within(t)
    BY WithinIsClosed
  <2>2. \A p \in Parts(t) : Nested(n - 1, p)
    BY NestedLess
  <2>3. \A p \in Parts(t) : Diagnostics(s, c)[p] = diagnostic(p, c)
    BY <1>3, <2>1, <2>2
  <2>4. \A p \in Parts(t) : Diagnostics(t, c)[p] = diagnostic(p, c)
    BY <1>3, <2>1, <2>2
  <2> QED
    BY <1>1, <2>3, <2>4
<1> HIDE DEF Agree
<1>4. Agree(4)
  BY <1>2, <1>3
<1> QED
  BY <1>4, WithinIsClosed DEF Agree

\* diagnostic, as the code defines it: by the diagnostics of what is in the spec.
DiagnosticOf(s, c) ==
  LET all == UNION {diagnostic(p, c) : p \in Parts(s)} IN
  CASE s.kind \in Units -> UnitDiagnostic(s, c)
    [] s.kind = "optional" -> IF all = {} THEN {} ELSE {"optional"}
    [] s.kind \in {"composed", "section"} -> all
    [] s.kind \in {"conditional", "conditional_section"} ->
         IF Holds(s.cond, c) THEN all ELSE {}

LEMMA DiagnosticIsRecursive ==
  ASSUME NEW s, Nested(4, s), NEW c
  PROVE  diagnostic(s, c) = DiagnosticOf(s, c)
<1>1. s \in Within(s) /\ Parts(s) \subseteq Within(s)
  BY WithinIsClosed
<1>2. Diagnostics(s, c)[s] = DiagnosticFrom(Diagnostics(s, c), s, c)
  BY <1>1, DiagnosticsEquation, Zenon
<1>3. \A p \in Parts(s) : Diagnostics(s, c)[p] = diagnostic(p, c)
  BY <1>1, DiagnosticsAgree
<1>4. {Diagnostics(s, c)[p] : p \in Parts(s)} = {diagnostic(p, c) : p \in Parts(s)}
  BY <1>3
<1>5. DiagnosticFrom(Diagnostics(s, c), s, c) = DiagnosticOf(s, c)
  BY <1>4, Zenon DEF DiagnosticFrom, DiagnosticOf
<1> QED
  BY <1>2, <1>5, Zenon DEF diagnostic

\* Whether a spec is valid, given whether what is in it is.
ValidFrom(valid, t, c) ==
  LET all == \A p \in Parts(t) : valid[p] IN
  CASE t.kind \in Units \cup {"conditional"} -> diagnostic(t, c) = {}
    [] t.kind = "optional" -> TRUE
    [] t.kind \in {"composed", "section"} -> all
    [] t.kind = "conditional_section" -> Holds(t.cond, c) => all

\* The recursion of Validities has a solution, so Validities is one.
LEMMA ValiditiesEquation ==
  ASSUME NEW s, Nested(4, s), NEW c
  PROVE  Validities(s, c) =
           [t \in Within(s) |-> ValidFrom(Validities(s, c), t, c)]
<1> DEFINE Layer(n) == {t \in Within(s) : Nested(n, t)}
           Upto(n) == \E valid : valid = [t \in Layer(n) |-> ValidFrom(valid, t, c)]
<1>1. Upto(0)
  <2> DEFINE h == [t \in Layer(0) |-> ValidFrom(<< >>, t, c)]
  <2>1. \A t \in Layer(0) : Parts(t) = {}
    BY DEF Nested, Flat
  <2>2. \A t \in Layer(0) : ValidFrom(h, t, c) = ValidFrom(<< >>, t, c)
    <3> SUFFICES ASSUME NEW t \in Layer(0)
                 PROVE  ValidFrom(h, t, c) = ValidFrom(<< >>, t, c)
      OBVIOUS
    <3>1. (\A p \in Parts(t) : h[p]) = (\A p \in Parts(t) : << >>[p])
      BY <2>1, Zenon
    <3> QED
      BY <3>1, Zenon DEF ValidFrom
  <2>3. h = [t \in Layer(0) |-> ValidFrom(h, t, c)]
    BY <2>2, Zenon
  <2> QED
    BY <2>3, Zenon
<1>2. ASSUME NEW n \in 1..4, Upto(n - 1)
      PROVE  Upto(n)
  <2>1. PICK valid : valid = [t \in Layer(n - 1) |-> ValidFrom(valid, t, c)]
    BY <1>2, Zenon
  <2> DEFINE h == [t \in Layer(n) |-> ValidFrom(valid, t, c)]
  <2>2. \A t \in Layer(n) : \A p \in Parts(t) : p \in Layer(n - 1) /\ p \in Layer(n)
    <3>1. \A t \in Layer(n) : \A p \in Parts(t) : p \in Layer(n - 1)
      BY NestedLess, WithinIsClosed
    <3>2. Layer(n - 1) \subseteq Layer(n)
      BY NestedMore
    <3> QED
      BY <3>1, <3>2
  <2>3. \A t \in Layer(n) : \A p \in Parts(t) : h[p] = valid[p]
    BY <2>1, <2>2, Zenon
  <2>4. \A t \in Layer(n) : ValidFrom(h, t, c) = ValidFrom(valid, t, c)
    <3> SUFFICES ASSUME NEW t \in Layer(n)
                 PROVE  ValidFrom(h, t, c) = ValidFrom(valid, t, c)
      OBVIOUS
    <3>1. (\A p \in Parts(t) : h[p]) = (\A p \in Parts(t) : valid[p])
      BY <2>3, Zenon
    <3> QED
      BY <3>1, Zenon DEF ValidFrom
  <2>5. h = [t \in Layer(n) |-> ValidFrom(h, t, c)]
    BY <2>4, Zenon
  <2> QED
    BY <2>5, Zenon
<1> HIDE DEF Upto
<1>3. Upto(4)
  BY <1>1, <1>2
<1>4. Layer(4) = Within(s)
  BY WithinIsClosed
<1>5. PICK valid : valid = [t \in Within(s) |-> ValidFrom(valid, t, c)]
  BY <1>3, <1>4, Zenon DEF Upto
<1>6. Validities(s, c) = CHOOSE f : f = [t \in Within(s) |-> ValidFrom(f, t, c)]
  BY Zenon DEF Validities, ValidFrom
<1> QED
  BY <1>5, <1>6, Zenon

\* Whether a spec is valid does not depend on what it is part of.
LEMMA ValiditiesAgree ==
  ASSUME NEW c
  PROVE  \A s, t : Nested(4, s) /\ t \in Within(s) =>
                     Validities(s, c)[t] = is_valid(t, c)
<1> DEFINE Agree(n) ==
             \A s, t : Nested(4, s) /\ t \in Within(s) /\ Nested(n, t) =>
                         Validities(s, c)[t] = is_valid(t, c)
<1>1. ASSUME NEW s, NEW t, Nested(4, s), t \in Within(s),
             \A p \in Parts(t) : Validities(s, c)[p] = Validities(t, c)[p]
      PROVE  Validities(s, c)[t] = is_valid(t, c)
  <2>1. Nested(4, t) /\ t \in Within(t)
    BY <1>1, WithinIsClosed
  <2>2. Validities(s, c)[t] = ValidFrom(Validities(s, c), t, c)
    <3>1. Validities(s, c)
            = [u \in Within(s) |-> ValidFrom(Validities(s, c), u, c)]
      BY <1>1, ValiditiesEquation
    <3> QED
      BY <1>1, <3>1, Zenon
  <2>3. Validities(t, c)[t] = ValidFrom(Validities(t, c), t, c)
    <3>1. Validities(t, c)
            = [u \in Within(t) |-> ValidFrom(Validities(t, c), u, c)]
      BY <2>1, ValiditiesEquation
    <3> QED
      BY <2>1, <3>1, Zenon
  <2>4. (\A p \in Parts(t) : Validities(s, c)[p])
          = (\A p \in Parts(t) : Validities(t, c)[p])
    BY <1>1, Zenon
  <2>5. ValidFrom(Validities(s, c), t, c) = ValidFrom(Validities(t, c), t, c)
    BY <2>4, Zenon DEF ValidFrom
  <2> QED
    BY <2>2, <2>3, <2>5, Zenon DEF is_valid
<1>2. Agree(0)
  BY <1>1 DEF Nested, Flat
<1>3. ASSUME NEW n \in 1..4, Agree(n - 1)
      PROVE  Agree(n)
  <2> SUFFICES ASSUME NEW s, NEW t, Nested(4, s), t \in Within(s), Nested(n, t)
               PROVE  Validities(s, c)[t] = is_valid(t, c)
    OBVIOUS
  <2>1. /\ Nested(4, t) /\ t \in Within(t)
        /\ Parts(t) \subseteq Within(s) /\ Parts(t) \subseteq Within(t)
    BY WithinIsClosed
  <2>2. \A p \in Parts(t) : Nested(n - 1, p)
    BY NestedLess
  <2>3. \A p \in Parts(t) : Validities(s, c)[p] = is_valid(p, c)
    BY <1>3, <2>1, <2>2
  <2>4. \A p \in Parts(t) : Validities(t, c)[p] = is_valid(p, c)
    BY <1>3, <2>1, <2>2
  <2> QED
    BY <1>1, <2>3, <2>4
<1> HIDE DEF Agree
<1>4. Agree(4)
  BY <1>2, <1>3
<1> QED
  BY <1>4, WithinIsClosed DEF Agree

\* is_valid, as the code defines it: by the validity of what is in the spec.
ValidOf(s, c) ==
  CASE s.kind \in Units \cup {"conditional"} -> diagnostic(s, c) = {}
    [] s.kind = "optional" -> TRUE
    [] s.kind \in {"composed", "section"} -> \A p \in Parts(s) : is_valid(p, c)
    [] s.kind = "conditional_section" ->
         Holds(s.cond, c) => \A p \in Parts(s) : is_valid(p, c)

LEMMA IsValidIsRecursive ==
  ASSUME NEW s, Nested(4, s), NEW c
  PROVE  is_valid(s, c) = ValidOf(s, c)
<1>1. s \in Within(s) /\ Parts(s) \subseteq Within(s)
  BY WithinIsClosed
<1>2. Validities(s, c)[s] = ValidFrom(Validities(s, c), s, c)
  <2>1. Validities(s, c)
          = [t \in Within(s) |-> ValidFrom(Validities(s, c), t, c)]
    BY ValiditiesEquation
  <2> QED
    BY <1>1, <2>1, Zenon
<1>3. \A p \in Parts(s) : Validities(s, c)[p] = is_valid(p, c)
  BY <1>1, ValiditiesAgree
<1>4. (\A p \in Parts(s) : Validities(s, c)[p]) = (\A p \in Parts(s) : is_valid(p, c))
  BY <1>3, Zenon
<1>5. ValidFrom(Validities(s, c), s, c) = ValidOf(s, c)
  BY <1>4, Zenon DEF ValidFrom, ValidOf
<1> QED
  BY <1>2, <1>5, Zenon DEF is_valid

(***************************************************************************)
(* What the three specs of configuration/__init__.py are made of.          *)
(***************************************************************************)

\* A section spec, conditional or not.
IsSectionSpec(s) ==
  /\ s = [f \in DOMAIN s |-> s[f]]
  /\ {"kind", "section", "required", "specs"} \subseteq DOMAIN s /\ "spec" \notin DOMAIN s
  /\ \E U : s.specs \in Seq(U)

LEMMA SectionParts ==
  ASSUME NEW s, IsSectionSpec(s)
  PROVE  Parts(s) = {s.specs[i] : i \in DOMAIN s.specs}
BY DEF IsSectionSpec, Parts, Range

\* t is s with some members more.
Extends(t, s, new) ==
  /\ IsSectionSpec(t)
  /\ Parts(t) = Parts(s) \cup new
  /\ DOMAIN t = DOMAIN s
  /\ \A f \in DOMAIN s \ {"specs"} : t[f] = s[f]

\* SectionSpec.with_spec adds one member and changes nothing else.
LEMMA WithSpec ==
  ASSUME NEW s, IsSectionSpec(s), NEW x
  PROVE  Extends(with_spec(s, x), s, {x})
<1> DEFINE t == with_spec(s, x)
<1>1. /\ DOMAIN t = DOMAIN s
      /\ t = [f \in DOMAIN t |-> t[f]]
      /\ t.specs = Append(s.specs, x)
      /\ \A f \in DOMAIN s \ {"specs"} : t[f] = s[f]
  BY DEF IsSectionSpec, with_spec
<1>2. PICK U : s.specs \in Seq(U)
  BY DEF IsSectionSpec
<1>3. s.specs \in Seq(U \cup {x})
  BY <1>2
<1>4. /\ t.specs \in Seq(U \cup {x})
      /\ Len(t.specs) = Len(s.specs) + 1
      /\ \A i \in 1..Len(s.specs) : t.specs[i] = s.specs[i]
      /\ t.specs[Len(s.specs) + 1] = x
  BY <1>1, <1>3, AppendProperties
<1>5. Len(s.specs) \in Nat /\ DOMAIN s.specs = 1..Len(s.specs)
      /\ DOMAIN t.specs = 1..(Len(s.specs) + 1)
  BY <1>3, <1>4, LenProperties
<1>7. IsSectionSpec(t)
  BY <1>1, <1>4 DEF IsSectionSpec
<1>8. /\ Parts(t) = {t.specs[i] : i \in DOMAIN t.specs}
      /\ Parts(s) = {s.specs[i] : i \in DOMAIN s.specs}
  BY <1>7, SectionParts
<1>6. Parts(t) = Parts(s) \cup {x}
  <2>1. ASSUME NEW m \in Parts(t) PROVE m \in Parts(s) \cup {x}
    <3>1. PICK i \in 1..(Len(s.specs) + 1) : m = t.specs[i]
      BY <2>1, <1>5, <1>8
    <3>2. CASE i = Len(s.specs) + 1
      BY <3>1, <3>2, <1>4
    <3>3. CASE i # Len(s.specs) + 1
      <4>1. i \in 1..Len(s.specs)
        BY <3>1, <3>3, <1>5
      <4> QED BY <3>1, <4>1, <1>4, <1>5, <1>8
    <3> QED BY <3>2, <3>3
  <2>2. x \in Parts(t)
    <3>1. Len(s.specs) + 1 \in DOMAIN t.specs
      BY <1>5
    <3> QED BY <3>1, <1>4, <1>8
  <2>3. ASSUME NEW m \in Parts(s) PROVE m \in Parts(t)
    <3>1. PICK i \in 1..Len(s.specs) : m = s.specs[i]
      BY <2>3, <1>5, <1>8
    <3>2. i \in DOMAIN t.specs /\ t.specs[i] = m
      BY <3>1, <1>4, <1>5
    <3> QED BY <3>2, <1>8
  <2> QED BY <2>1, <2>2, <2>3
<1> HIDE DEF t
<1> QED BY <1>1, <1>6, <1>7 DEF t, Extends

LEMMA ExtendsTwice ==
  ASSUME NEW s, NEW t, NEW u, NEW a, NEW b, Extends(t, s, a), Extends(u, t, b)
  PROVE  Extends(u, s, a \cup b)
BY DEF Extends

LEMMA MustContainAdds ==
  ASSUME NEW s, IsSectionSpec(s), NEW key
  PROVE  Extends(must_contains(s, key), s, {SectionMustContainKeySpec(s.section, key)})
BY WithSpec DEF must_contains

LEMMA MustContainOne ==
  ASSUME NEW s, IsSectionSpec(s), NEW key, NEW values
  PROVE  Extends(must_contain_one(s, key, values), s,
                 {SectionMustContainKeySpec(s.section, key),
                  PossibleValuesSpec(s.section, key, values)})
<1> DEFINE t == must_contains(s, key)
           u == must_contain_one(s, key, values)
           c == SectionMustContainKeySpec(s.section, key)
           v == PossibleValuesSpec(s.section, key, values)
<1>1. Extends(t, s, {c})
  BY MustContainAdds
<1>2. t.section = s.section /\ IsSectionSpec(t)
  BY <1>1 DEF Extends, IsSectionSpec
<1>3. Extends(u, t, {v})
  BY <1>2, WithSpec DEF must_contain_one, with_values
<1> HIDE DEF t, u, c, v
<1>4. Extends(u, s, {c} \cup {v})
  BY <1>1, <1>3, ExtendsTwice
<1>5. {c} \cup {v} = {c, v}
  OBVIOUS
<1> QED BY <1>4, <1>5 DEF u, c, v

\* What the chained calls start from.
LEMMA OptionalSection ==
  ASSUME NEW section
  PROVE  LET s == optional_section(section) IN
         /\ IsSectionSpec(s) /\ Parts(s) = {}
         /\ DOMAIN s = {"kind", "section", "required", "specs"}
         /\ s.kind = "section" /\ s.section = section /\ s.required = FALSE
<1> DEFINE s == optional_section(section)
<1>1. s = [kind |-> "section", section |-> section, required |-> FALSE, specs |-> << >>]
  BY DEF optional_section, SectionSpec, Existence
<1>2. s.specs = << >> /\ << >> \in Seq({}) /\ DOMAIN << >> = {}
  BY <1>1
<1>3. IsSectionSpec(s)
  BY <1>1, <1>2 DEF IsSectionSpec
<1>4. Parts(s) = {}
  BY <1>2, <1>3, SectionParts
<1> HIDE DEF s
<1>5. DOMAIN s = {"kind", "section", "required", "specs"}
  BY <1>1
<1>6. s.kind = "section" /\ s.section = section /\ s.required = FALSE
  BY <1>1
<1> QED BY <1>3, <1>4, <1>5, <1>6 DEF s

LEMMA RequiredSection ==
  ASSUME NEW section
  PROVE  LET s == required_section(section) IN
         /\ IsSectionSpec(s) /\ Parts(s) = {SectionMustExistSpec(section)}
         /\ DOMAIN s = {"kind", "section", "required", "specs"}
         /\ s.kind = "section" /\ s.section = section
<1> DEFINE s == required_section(section)
           e == SectionMustExistSpec(section)
<1>1. s = [kind |-> "section", section |-> section, required |-> TRUE, specs |-> << e >>]
  BY DEF required_section, SectionSpec, Existence
<1>2. s.specs = << e >> /\ << e >> \in Seq({e}) /\ DOMAIN << e >> = {1} /\ << e >>[1] = e
  BY <1>1
<1>3. IsSectionSpec(s)
  BY <1>1, <1>2 DEF IsSectionSpec
<1>4. Parts(s) = {e}
  BY <1>2, <1>3, SectionParts
<1> HIDE DEF s
<1>5. DOMAIN s = {"kind", "section", "required", "specs"}
  BY <1>1
<1>6. s.kind = "section" /\ s.section = section
  BY <1>1
<1> QED BY <1>3, <1>4, <1>5, <1>6 DEF s

LEMMA WhenSection ==
  ASSUME NEW s, IsSectionSpec(s), s.required = FALSE, NEW key, NEW value
  PROVE  LET w == when_key_value_is(s, key, value) IN
         /\ IsSectionSpec(w) /\ Parts(w) = {}
         /\ DOMAIN w = {"kind", "section", "required", "specs", "cond"}
         /\ w.kind = "conditional_section" /\ w.section = s.section
         /\ w.cond = KeyValueIs(s.section, key, value)
<1> DEFINE w == when_key_value_is(s, key, value)
           c == KeyValueIs(s.section, key, value)
<1>1. w = [kind |-> "conditional_section", section |-> s.section, required |-> FALSE,
           specs |-> << >>, cond |-> c]
  BY DEF when_key_value_is, when_empty, ConditionalSectionSpec, Existence
<1> HIDE DEF c, w
<1>2. w.specs = << >>
  BY <1>1
<1>7. << >> \in Seq({}) /\ DOMAIN << >> = {}
  OBVIOUS
<1>3. IsSectionSpec(w)
  BY <1>1, <1>2, <1>7 DEF IsSectionSpec
<1>4. Parts(w) = {}
  BY <1>2, <1>3, <1>7, SectionParts
<1>5. DOMAIN w = {"kind", "section", "required", "specs", "cond"}
  BY <1>1
<1>6. w.kind = "conditional_section" /\ w.section = s.section /\ w.cond = c
  BY <1>1
<1> QED BY <1>3, <1>4, <1>5, <1>6 DEF w, c
-----------------------------------------------------------------------------
(* The specs of the three sections. *)

Must(section, key) == SectionMustContainKeySpec(section, key)

\* RemoteSpec, part by part.
RemoteBase ==
  must_contain_one(must_contains(optional_section(Remote), "endpoint"), "auth", {"token", "login"})
TokenSection == must_contains(when_key_value_is(RemoteBase, "auth", "token"), "jwttoken")
LoginSection ==
  must_contain_one(
    must_contains(must_contains(must_contains(
      when_key_value_is(RemoteBase, "auth", "login"), "instance"), "partition"), "account"),
    "passwordmethod", {"prompt", "keyring", "command"})
CommandSection ==
  must_contains(when_key_value_is(RemoteBase, "passwordmethod", "command"), "passcmd")

BaseMembers ==
  {Must(Remote, "endpoint"), Must(Remote, "auth"),
   PossibleValuesSpec(Remote, "auth", {"token", "login"})}
LoginMembers ==
  {Must(Remote, "instance"), Must(Remote, "partition"), Must(Remote, "account"),
   Must(Remote, "passwordmethod"),
   PossibleValuesSpec(Remote, "passwordmethod", {"prompt", "keyring", "command"})}

LEMMA BaseParts ==
  /\ IsSectionSpec(RemoteBase) /\ RemoteBase.kind = "section"
  /\ RemoteBase.section = Remote /\ RemoteBase.required = FALSE
  /\ Parts(RemoteBase) = BaseMembers
<1> DEFINE s == optional_section(Remote)
           t == must_contains(s, "endpoint")
<1>1. /\ IsSectionSpec(s) /\ Parts(s) = {} /\ s.kind = "section" /\ s.section = Remote
      /\ s.required = FALSE /\ DOMAIN s = {"kind", "section", "required", "specs"}
  BY OptionalSection
<1>2. Extends(t, s, {Must(Remote, "endpoint")})
  BY <1>1, MustContainAdds DEF Must
<1> HIDE DEF s
<1>3. IsSectionSpec(t) /\ t.section = Remote
  BY <1>1, <1>2 DEF Extends
<1>4. Extends(RemoteBase, t, {Must(Remote, "auth"), PossibleValuesSpec(Remote, "auth", {"token", "login"})})
  BY <1>3, MustContainOne DEF Must, RemoteBase, s
<1> HIDE DEF t
<1>5. Extends(RemoteBase, s, {Must(Remote, "endpoint")} \cup
        {Must(Remote, "auth"), PossibleValuesSpec(Remote, "auth", {"token", "login"})})
  BY <1>2, <1>4, ExtendsTwice
<1>6. Parts(RemoteBase) = BaseMembers
  BY <1>1, <1>5 DEF Extends, BaseMembers
<1>7. /\ IsSectionSpec(RemoteBase) /\ RemoteBase.kind = "section"
      /\ RemoteBase.section = Remote /\ RemoteBase.required = FALSE
  BY <1>1, <1>5 DEF Extends
<1> QED BY <1>6, <1>7

LEMMA TokenParts ==
  /\ TokenSection.kind = "conditional_section"
  /\ TokenSection.cond = KeyValueIs(Remote, "auth", "token")
  /\ Parts(TokenSection) = {Must(Remote, "jwttoken")}
<1> DEFINE w == when_key_value_is(RemoteBase, "auth", "token")
<1>1. /\ IsSectionSpec(w) /\ Parts(w) = {} /\ w.kind = "conditional_section"
      /\ w.section = Remote /\ DOMAIN w = {"kind", "section", "required", "specs", "cond"}
      /\ w.cond = KeyValueIs(Remote, "auth", "token")
  BY BaseParts, WhenSection
<1>2. Extends(TokenSection, w, {Must(Remote, "jwttoken")})
  BY <1>1, MustContainAdds DEF Must, TokenSection
<1> HIDE DEF w
<1> QED BY <1>1, <1>2 DEF Extends

LEMMA CommandParts ==
  /\ CommandSection.kind = "conditional_section"
  /\ CommandSection.cond = KeyValueIs(Remote, "passwordmethod", "command")
  /\ Parts(CommandSection) = {Must(Remote, "passcmd")}
<1> DEFINE w == when_key_value_is(RemoteBase, "passwordmethod", "command")
<1>1. /\ IsSectionSpec(w) /\ Parts(w) = {} /\ w.kind = "conditional_section"
      /\ w.section = Remote /\ DOMAIN w = {"kind", "section", "required", "specs", "cond"}
      /\ w.cond = KeyValueIs(Remote, "passwordmethod", "command")
  BY BaseParts, WhenSection
<1>2. Extends(CommandSection, w, {Must(Remote, "passcmd")})
  BY <1>1, MustContainAdds DEF Must, CommandSection
<1> HIDE DEF w
<1> QED BY <1>1, <1>2 DEF Extends

LEMMA LoginParts ==
  /\ LoginSection.kind = "conditional_section"
  /\ LoginSection.cond = KeyValueIs(Remote, "auth", "login")
  /\ Parts(LoginSection) = LoginMembers
<1> DEFINE w == when_key_value_is(RemoteBase, "auth", "login")
           x == must_contains(w, "instance")
           y == must_contains(x, "partition")
           z == must_contains(y, "account")
           methods == PossibleValuesSpec(Remote, "passwordmethod", {"prompt", "keyring", "command"})
<1>1. /\ IsSectionSpec(w) /\ Parts(w) = {} /\ w.kind = "conditional_section"
      /\ w.section = Remote /\ DOMAIN w = {"kind", "section", "required", "specs", "cond"}
      /\ w.cond = KeyValueIs(Remote, "auth", "login")
  BY BaseParts, WhenSection
<1>2. Extends(x, w, {Must(Remote, "instance")})
  BY <1>1, MustContainAdds DEF Must
<1>3. IsSectionSpec(x) /\ x.section = Remote
  BY <1>1, <1>2 DEF Extends
<1>4. Extends(y, x, {Must(Remote, "partition")})
  BY <1>3, MustContainAdds DEF Must
<1>5. IsSectionSpec(y) /\ y.section = Remote
  BY <1>3, <1>4 DEF Extends, IsSectionSpec
<1>6. Extends(z, y, {Must(Remote, "account")})
  BY <1>5, MustContainAdds DEF Must
<1>7. IsSectionSpec(z) /\ z.section = Remote
  BY <1>5, <1>6 DEF Extends, IsSectionSpec
<1>8. Extends(LoginSection, z, {Must(Remote, "passwordmethod"), methods})
  BY <1>7, MustContainOne DEF Must, LoginSection
<1> HIDE DEF w, x, y, z, methods
<1>9. /\ Parts(LoginSection) = {Must(Remote, "instance")} \cup {Must(Remote, "partition")}
           \cup {Must(Remote, "account")} \cup {Must(Remote, "passwordmethod"), methods}
  BY <1>1, <1>2, <1>4, <1>6, <1>8 DEF Extends
<1>10. LoginSection.kind = w.kind /\ LoginSection.cond = w.cond
  BY <1>1, <1>2, <1>4, <1>6, <1>8 DEF Extends
<1>11. Parts(LoginSection) = LoginMembers
  BY <1>9 DEF LoginMembers, methods
<1> QED BY <1>1, <1>10, <1>11

LEMMA RemoteParts ==
  /\ RemoteSpec.kind = "section"
  /\ Parts(RemoteSpec) = BaseMembers \cup {TokenSection, LoginSection, CommandSection}
<1> DEFINE t == with_spec(RemoteBase, TokenSection)
           l == with_spec(t, LoginSection)
<1>1. Extends(t, RemoteBase, {TokenSection})
  BY BaseParts, WithSpec
<1>2. Extends(l, t, {LoginSection})
  BY <1>1, WithSpec DEF Extends
<1>3. Extends(with_spec(l, CommandSection), l, {CommandSection})
  BY <1>2, WithSpec DEF Extends
<1>4. RemoteSpec = with_spec(l, CommandSection)
  BY DEF RemoteSpec, RemoteBase, TokenSection, LoginSection, CommandSection
<1> HIDE DEF t, l
<1>5. Extends(RemoteSpec, l, {CommandSection})
  BY <1>3, <1>4
<1>6. Parts(RemoteSpec) = BaseMembers \cup {TokenSection, LoginSection, CommandSection}
  BY <1>1, <1>2, <1>5, BaseParts DEF Extends
<1>7. RemoteSpec.kind = "section"
  BY <1>1, <1>2, <1>5, BaseParts DEF Extends, IsSectionSpec
<1> QED BY <1>6, <1>7

LEMMA LocalParts ==
  /\ LocalSpec.kind = "section"
  /\ Parts(LocalSpec) = {Must(Local, "path"), OptionalSpec(Must(Local, "logformat"))}
<1> DEFINE s == optional_section(Local)
           t == must_contains(s, "path")
           o == OptionalSpec(Must(Local, "logformat"))
<1>1. /\ IsSectionSpec(s) /\ Parts(s) = {} /\ s.kind = "section" /\ s.section = Local
      /\ DOMAIN s = {"kind", "section", "required", "specs"}
  BY OptionalSection
<1>2. Extends(t, s, {Must(Local, "path")})
  BY <1>1, MustContainAdds DEF Must
<1>3. IsSectionSpec(t) /\ t.section = Local
  BY <1>1, <1>2 DEF Extends
<1>4. LocalSpec = with_spec(t, o)
  BY <1>3 DEF LocalSpec, may_contains, Must
<1>5. Extends(LocalSpec, t, {o})
  BY <1>3, <1>4, WithSpec
<1> HIDE DEF s, t, o
<1>6. Parts(LocalSpec) = {Must(Local, "path"), o}
  BY <1>1, <1>2, <1>5 DEF Extends
<1>7. LocalSpec.kind = "section"
  BY <1>1, <1>2, <1>5 DEF Extends
<1> QED BY <1>6, <1>7 DEF o

\* The two specs of a dispatched kind of operations.
KindMembers(k) == {Must(Dispatch, k), PossibleValuesSpec(Dispatch, k, Stores)}

LEMMA DispatchParts ==
  /\ DispatchSpec.kind = "section"
  /\ Parts(DispatchSpec) =
       {SectionMustExistSpec(Dispatch)} \cup UNION {KindMembers(k) : k \in Kinds}
<1> DEFINE r == required_section(Dispatch)
           a == must_contain_one(r, "model_attachments", Stores)
           b == must_contain_one(a, "model_parameters", Stores)
           c == must_contain_one(b, "model_tables", Stores)
           d == must_contain_one(c, "pa_tables", Stores)
<1>1. /\ IsSectionSpec(r) /\ Parts(r) = {SectionMustExistSpec(Dispatch)}
      /\ r.kind = "section" /\ r.section = Dispatch
      /\ DOMAIN r = {"kind", "section", "required", "specs"}
  BY RequiredSection
<1> HIDE DEF r
<1>2. Extends(a, r, KindMembers("model_attachments"))
  BY <1>1, MustContainOne DEF KindMembers, Must
<1> HIDE DEF a
<1>3. IsSectionSpec(a) /\ a.section = Dispatch
  BY <1>1, <1>2 DEF Extends
<1>4. Extends(b, a, KindMembers("model_parameters"))
  BY <1>3, MustContainOne DEF KindMembers, Must
<1> HIDE DEF b
<1>5. IsSectionSpec(b) /\ b.section = Dispatch
  BY <1>3, <1>4 DEF Extends, IsSectionSpec
<1>6. Extends(c, b, KindMembers("model_tables"))
  BY <1>5, MustContainOne DEF KindMembers, Must
<1> HIDE DEF c
<1>7. IsSectionSpec(c) /\ c.section = Dispatch
  BY <1>5, <1>6 DEF Extends, IsSectionSpec
<1>8. Extends(d, c, KindMembers("pa_tables"))
  BY <1>7, MustContainOne DEF KindMembers, Must
<1> HIDE DEF d
<1>9. IsSectionSpec(d) /\ d.section = Dispatch
  BY <1>7, <1>8 DEF Extends, IsSectionSpec
<1>10. Extends(DispatchSpec, d, KindMembers("job_updates"))
  BY <1>9, MustContainOne DEF DispatchSpec, r, a, b, c, d, KindMembers, Must
<1>11. Parts(DispatchSpec) =
         {SectionMustExistSpec(Dispatch)} \cup KindMembers("model_attachments")
         \cup KindMembers("model_parameters") \cup KindMembers("model_tables")
         \cup KindMembers("pa_tables") \cup KindMembers("job_updates")
  BY <1>1, <1>2, <1>4, <1>6, <1>8, <1>10 DEF Extends
<1>12. UNION {KindMembers(k) : k \in Kinds} =
         KindMembers("model_attachments")
         \cup KindMembers("model_parameters") \cup KindMembers("model_tables")
         \cup KindMembers("pa_tables") \cup KindMembers("job_updates")
  BY DEF Kinds
<1>13. DispatchSpec.kind = "section"
  BY <1>1, <1>2, <1>4, <1>6, <1>8, <1>10 DEF Extends, IsSectionSpec
<1> QED BY <1>11, <1>12, <1>13

-----------------------------------------------------------------------------
(* When a configuration is valid. *)

Needs(c, section, key) == section \in DOMAIN c => key \in DOMAIN c[section]
Allows(c, section, key, values) == Has(c, section, key) => c[section][key] \in values
Is(c, section, key, value) == Has(c, section, key) /\ c[section][key] = value

LEMMA UnitValid ==
  ASSUME NEW s, s.kind \in Units, Parts(s) = {}, NEW c
  PROVE  is_valid(s, c) <=> UnitDiagnostic(s, c) = {}
<1>1. Nested(4, s)
  BY NestedLess DEF Nested, Flat
<1>2. is_valid(s, c) = (diagnostic(s, c) = {})
  BY <1>1, IsValidIsRecursive, Zenon DEF ValidOf, Units
<1>3. diagnostic(s, c) = UnitDiagnostic(s, c)
  BY <1>1, DiagnosticIsRecursive, Zenon DEF DiagnosticOf, Units
<1> QED BY <1>2, <1>3

LEMMA MustValid ==
  ASSUME NEW c, NEW section, NEW key
  PROVE  is_valid(Must(section, key), c) <=> Needs(c, section, key)
<1> DEFINE s == Must(section, key)
<1>1. s.kind = "contains" /\ s.section = section /\ s.key = key /\ Parts(s) = {}
  BY DEF Must, SectionMustContainKeySpec, Parts
<1> HIDE DEF s
<1>2. is_valid(s, c) <=> UnitDiagnostic(s, c) = {}
  BY <1>1, UnitValid DEF Units
<1>3. UnitDiagnostic(s, c) = {} <=> Needs(c, section, key)
  BY <1>1 DEF UnitDiagnostic, Needs
<1> QED BY <1>2, <1>3 DEF s

LEMMA ValuesValid ==
  ASSUME NEW c, NEW section, NEW key, NEW values
  PROVE  is_valid(PossibleValuesSpec(section, key, values), c) <=> Allows(c, section, key, values)
<1> DEFINE s == PossibleValuesSpec(section, key, values)
<1>1. s.kind = "values" /\ s.section = section /\ s.key = key /\ s.values = values /\ Parts(s) = {}
  BY DEF PossibleValuesSpec, Parts
<1> HIDE DEF s
<1>2. is_valid(s, c) <=> UnitDiagnostic(s, c) = {}
  BY <1>1, UnitValid DEF Units
<1>3. UnitDiagnostic(s, c) = {} <=> Allows(c, section, key, values)
  BY <1>1 DEF UnitDiagnostic, Allows
<1> QED BY <1>2, <1>3 DEF s

LEMMA ExistsValid ==
  ASSUME NEW c, NEW section
  PROVE  is_valid(SectionMustExistSpec(section), c) <=> section \in DOMAIN c
<1> DEFINE s == SectionMustExistSpec(section)
<1>1. s.kind = "exists" /\ s.section = section /\ Parts(s) = {}
  BY DEF SectionMustExistSpec, Parts
<1> HIDE DEF s
<1>2. is_valid(s, c) <=> UnitDiagnostic(s, c) = {}
  BY <1>1, UnitValid DEF Units
<1>3. UnitDiagnostic(s, c) = {} <=> section \in DOMAIN c
  BY <1>1 DEF UnitDiagnostic
<1> QED BY <1>2, <1>3 DEF s

LEMMA OptionalValid ==
  ASSUME NEW c, NEW s, Nested(4, OptionalSpec(s))
  PROVE  is_valid(OptionalSpec(s), c)
<1> DEFINE o == OptionalSpec(s)
<1>1. o.kind = "optional"
  BY DEF OptionalSpec
<1> HIDE DEF o
<1>2. is_valid(o, c) = TRUE
  BY <1>1, IsValidIsRecursive, Zenon DEF ValidOf, Units, o
<1> QED BY <1>2 DEF o

LEMMA SectionValid ==
  ASSUME NEW c, NEW s, Nested(4, s), s.kind = "section"
  PROVE  is_valid(s, c) <=> \A m \in Parts(s) : is_valid(m, c)
<1>1. is_valid(s, c) = (\A m \in Parts(s) : is_valid(m, c))
  BY IsValidIsRecursive, Zenon DEF ValidOf, Units
<1> QED BY <1>1, Zenon

LEMMA ConditionalSectionValid ==
  ASSUME NEW c, NEW s, Nested(4, s), s.kind = "conditional_section"
  PROVE  is_valid(s, c) <=> (Holds(s.cond, c) => \A m \in Parts(s) : is_valid(m, c))
<1>1. is_valid(s, c) = (Holds(s.cond, c) => \A m \in Parts(s) : is_valid(m, c))
  BY IsValidIsRecursive, Zenon DEF ValidOf, Units
<1> QED BY <1>1, Zenon

LEMMA WhenValid ==
  ASSUME NEW c, NEW s, Nested(4, s), s.kind = "conditional_section",
         NEW section, NEW key, NEW value, s.cond = KeyValueIs(section, key, value)
  PROVE  is_valid(s, c) <=> (Is(c, section, key, value) => \A m \in Parts(s) : is_valid(m, c))
<1> DEFINE k == KeyValueIs(section, key, value)
<1>3. /\ k.section = section /\ k.key = key /\ k.value = value
      /\ "result" \notin DOMAIN k
  BY DEF KeyValueIs
<1> HIDE DEF k
<1>1. Holds(k, c) <=> Is(c, section, key, value)
  BY <1>3 DEF Holds, Is
<1>2. is_valid(s, c) <=> (Holds(s.cond, c) => \A m \in Parts(s) : is_valid(m, c))
  BY ConditionalSectionValid
<1> QED BY <1>1, <1>2 DEF k

\* What a valid remote section has.
RemoteSays(c) ==
  /\ Needs(c, Remote, "endpoint") /\ Needs(c, Remote, "auth")
  /\ Allows(c, Remote, "auth", {"token", "login"})
  /\ Is(c, Remote, "auth", "token") => Needs(c, Remote, "jwttoken")
  /\ Is(c, Remote, "auth", "login") =>
       /\ Needs(c, Remote, "instance") /\ Needs(c, Remote, "partition")
       /\ Needs(c, Remote, "account") /\ Needs(c, Remote, "passwordmethod")
       /\ Allows(c, Remote, "passwordmethod", {"prompt", "keyring", "command"})
  /\ Is(c, Remote, "passwordmethod", "command") => Needs(c, Remote, "passcmd")

LEMMA LeavesAreFlat ==
  ASSUME NEW section, NEW key, NEW values
  PROVE  /\ Flat(Must(section, key)) /\ Flat(SectionMustExistSpec(section))
         /\ Flat(PossibleValuesSpec(section, key, values))
BY DEF Flat, Parts, Must, SectionMustContainKeySpec, SectionMustExistSpec, PossibleValuesSpec

LEMMA RemoteValid ==
  ASSUME NEW c
  PROVE  is_valid(RemoteSpec, c) <=> RemoteSays(c)
<1>2. /\ \A m \in BaseMembers : Flat(m)
      /\ \A w \in {TokenSection, LoginSection, CommandSection} : Nested1(w)
  BY TokenParts, LoginParts, CommandParts, LeavesAreFlat
     DEF BaseMembers, LoginMembers, Nested1
<1>3. /\ \A w \in {TokenSection, LoginSection, CommandSection} : Nested(4, w)
      /\ Nested(4, RemoteSpec)
  <2>1. \A w \in {TokenSection, LoginSection, CommandSection} : Nested(1, w)
    BY <1>2 DEF Nested
  <2>2. Nested(2, RemoteSpec)
    BY <1>2, RemoteParts DEF Nested, Nested2, Nested1, Flat
  <2> QED BY <2>1, <2>2, NestedLess
<1>1. is_valid(RemoteSpec, c) <=> \A m \in Parts(RemoteSpec) : is_valid(m, c)
  BY <1>3, RemoteParts, SectionValid
<1>4. (\A m \in BaseMembers : is_valid(m, c)) <=>
        /\ Needs(c, Remote, "endpoint") /\ Needs(c, Remote, "auth")
        /\ Allows(c, Remote, "auth", {"token", "login"})
  BY MustValid, ValuesValid DEF BaseMembers
<1>5. is_valid(TokenSection, c) <=> (Is(c, Remote, "auth", "token") => Needs(c, Remote, "jwttoken"))
  <2>1. is_valid(Must(Remote, "jwttoken"), c) <=> Needs(c, Remote, "jwttoken")
    BY MustValid
  <2>2. is_valid(TokenSection, c) <=>
          (Is(c, Remote, "auth", "token") => \A m \in Parts(TokenSection) : is_valid(m, c))
    BY <1>3, TokenParts, WhenValid
  <2> QED BY <2>1, <2>2, TokenParts
<1>6. is_valid(CommandSection, c) <=>
        (Is(c, Remote, "passwordmethod", "command") => Needs(c, Remote, "passcmd"))
  <2>1. is_valid(Must(Remote, "passcmd"), c) <=> Needs(c, Remote, "passcmd")
    BY MustValid
  <2>2. is_valid(CommandSection, c) <=>
          (Is(c, Remote, "passwordmethod", "command")
             => \A m \in Parts(CommandSection) : is_valid(m, c))
    BY <1>3, CommandParts, WhenValid
  <2> QED BY <2>1, <2>2, CommandParts
<1>7. (\A m \in LoginMembers : is_valid(m, c)) <=>
        /\ Needs(c, Remote, "instance") /\ Needs(c, Remote, "partition")
        /\ Needs(c, Remote, "account") /\ Needs(c, Remote, "passwordmethod")
        /\ Allows(c, Remote, "passwordmethod", {"prompt", "keyring", "command"})
  BY MustValid, ValuesValid DEF LoginMembers
<1>8. is_valid(LoginSection, c) <=>
        (Is(c, Remote, "auth", "login") => \A m \in LoginMembers : is_valid(m, c))
  BY <1>3, LoginParts, WhenValid
<1>9. is_valid(RemoteSpec, c) <=>
        /\ \A m \in BaseMembers : is_valid(m, c)
        /\ is_valid(TokenSection, c) /\ is_valid(LoginSection, c) /\ is_valid(CommandSection, c)
  BY <1>1, RemoteParts
<1> QED BY <1>4, <1>5, <1>6, <1>7, <1>8, <1>9 DEF RemoteSays

LEMMA LocalValid ==
  ASSUME NEW c
  PROVE  is_valid(LocalSpec, c) <=> Needs(c, Local, "path")
<1> DEFINE o == OptionalSpec(Must(Local, "logformat"))
<1>1. Nested(4, o) /\ Nested(4, LocalSpec)
  <2>1. Parts(o) = {Must(Local, "logformat")}
    BY DEF OptionalSpec, Parts
  <2> HIDE DEF o
  <2>2. Nested1(o)
    BY <2>1, LeavesAreFlat DEF Nested1
  <2>3. Nested(1, o) /\ Nested(2, LocalSpec)
    BY <2>2, LeavesAreFlat, LocalParts DEF Nested, Nested2, Nested1, Flat, o
  <2> QED BY <2>3, NestedLess
<1>2. is_valid(LocalSpec, c) <=> \A m \in Parts(LocalSpec) : is_valid(m, c)
  BY <1>1, LocalParts, SectionValid
<1> QED BY <1>1, <1>2, LocalParts, MustValid, OptionalValid

LEMMA DispatchValid ==
  ASSUME NEW c
  PROVE  is_valid(DispatchSpec, c) <=>
           /\ Dispatch \in DOMAIN c
           /\ \A k \in Kinds : Needs(c, Dispatch, k) /\ Allows(c, Dispatch, k, Stores)
<1>1. is_valid(DispatchSpec, c) <=> \A m \in Parts(DispatchSpec) : is_valid(m, c)
  <2>1. Nested(1, DispatchSpec)
    BY DispatchParts, LeavesAreFlat DEF Nested, Nested1, KindMembers
  <2> QED BY <2>1, DispatchParts, SectionValid, NestedLess
<1>3. ASSUME NEW k \in Kinds
      PROVE  (\A m \in KindMembers(k) : is_valid(m, c)) <=>
               Needs(c, Dispatch, k) /\ Allows(c, Dispatch, k, Stores)
  BY MustValid, ValuesValid DEF KindMembers
<1>4. is_valid(SectionMustExistSpec(Dispatch), c) <=> Dispatch \in DOMAIN c
  BY ExistsValid
<1>5. (\A m \in Parts(DispatchSpec) : is_valid(m, c)) <=>
        /\ is_valid(SectionMustExistSpec(Dispatch), c)
        /\ \A k \in Kinds : \A m \in KindMembers(k) : is_valid(m, c)
  BY DispatchParts
<1> QED BY <1>1, <1>3, <1>4, <1>5

-----------------------------------------------------------------------------
(* What conn_from_config returns or raises. *)

LEMMA RemoteSection ==
  ASSUME Remote \in DOMAIN config
  PROVE  RemoteSays(config) <=> RemoteUsable
<1> DEFINE c == config[Remote]
<1>1. ASSUME NEW k
      PROVE  /\ Needs(config, Remote, k) <=> k \in DOMAIN c
             /\ Given(Remote, {k}) <=> k \in DOMAIN c
             /\ \A v : Is(config, Remote, k, v) <=> k \in DOMAIN c /\ c[k] = v
             /\ \A values : Allows(config, Remote, k, values) <=> (k \in DOMAIN c => c[k] \in values)
  BY DEF Needs, Given, Is, Allows, Has
<1>2. ASSUME NEW k, NEW v, v # "missing"
      PROVE  Value(Remote, k) = v <=> k \in DOMAIN c /\ c[k] = v
  BY <1>2 DEF Value, Has
<1>3. Given(Remote, {"instance", "partition", "account"}) <=>
        "instance" \in DOMAIN c /\ "partition" \in DOMAIN c /\ "account" \in DOMAIN c
  BY DEF Given, Has
<1> HIDE DEF c
<1>4. RemoteSays(config) <=>
        /\ "endpoint" \in DOMAIN c /\ "auth" \in DOMAIN c /\ c["auth"] \in {"token", "login"}
        /\ c["auth"] = "token" => "jwttoken" \in DOMAIN c
        /\ c["auth"] = "login" =>
             /\ "instance" \in DOMAIN c /\ "partition" \in DOMAIN c
             /\ "account" \in DOMAIN c /\ "passwordmethod" \in DOMAIN c
             /\ c["passwordmethod"] \in {"prompt", "keyring", "command"}
        /\ "passwordmethod" \in DOMAIN c /\ c["passwordmethod"] = "command"
             => "passcmd" \in DOMAIN c
  BY <1>1 DEF RemoteSays
<1>5. RemoteUsable <=>
        /\ "endpoint" \in DOMAIN c
        /\ \/ "auth" \in DOMAIN c /\ c["auth"] = "token" /\ "jwttoken" \in DOMAIN c
           \/ /\ "auth" \in DOMAIN c /\ c["auth"] = "login"
              /\ "instance" \in DOMAIN c /\ "partition" \in DOMAIN c /\ "account" \in DOMAIN c
              /\ \/ "passwordmethod" \in DOMAIN c /\ c["passwordmethod"] \in {"prompt", "keyring"}
                 \/ "passwordmethod" \in DOMAIN c /\ c["passwordmethod"] = "command"
                    /\ "passcmd" \in DOMAIN c
        /\ "passwordmethod" \in DOMAIN c /\ c["passwordmethod"] = "command"
             => "passcmd" \in DOMAIN c
  <2>1. Value(Remote, "passwordmethod") \in {"prompt", "keyring"} <=>
          "passwordmethod" \in DOMAIN c /\ c["passwordmethod"] \in {"prompt", "keyring"}
    BY <1>2
  <2>2. Given(Remote, {"endpoint"}) <=> "endpoint" \in DOMAIN c
    BY <1>1
  <2>3. Given(Remote, {"jwttoken"}) <=> "jwttoken" \in DOMAIN c
    BY <1>1
  <2>4. Given(Remote, {"passcmd"}) <=> "passcmd" \in DOMAIN c
    BY <1>1
  <2>5. Value(Remote, "auth") = "token" <=> "auth" \in DOMAIN c /\ c["auth"] = "token"
    BY <1>2
  <2>6. Value(Remote, "auth") = "login" <=> "auth" \in DOMAIN c /\ c["auth"] = "login"
    BY <1>2
  <2>7. Value(Remote, "passwordmethod") = "command" <=>
          "passwordmethod" \in DOMAIN c /\ c["passwordmethod"] = "command"
    BY <1>2
  <2> QED BY <1>3, <2>1, <2>2, <2>3, <2>4, <2>5, <2>6, <2>7 DEF RemoteUsable
<1> QED BY <1>4, <1>5

\* A validated remote section has every key that is read.
LEMMA RemoteKeys ==
  ASSUME Remote \in DOMAIN config, RemoteSays(config)
  PROVE  KeysRead(config[Remote]) \subseteq DOMAIN config[Remote]
<1> DEFINE c == config[Remote]
<1>1. /\ "endpoint" \in DOMAIN c /\ "auth" \in DOMAIN c /\ c["auth"] \in {"token", "login"}
      /\ c["auth"] = "token" => "jwttoken" \in DOMAIN c
      /\ c["auth"] = "login" =>
           /\ "instance" \in DOMAIN c /\ "partition" \in DOMAIN c
           /\ "account" \in DOMAIN c /\ "passwordmethod" \in DOMAIN c
      /\ "passwordmethod" \in DOMAIN c /\ c["passwordmethod"] = "command"
           => "passcmd" \in DOMAIN c
  BY DEF RemoteSays, Needs, Allows, Is, Has
<1> HIDE DEF c
<1> QED BY <1>1 DEF KeysRead, c

LEMMA RemoteOutcome ==
  ASSUME config \in Configs
  PROVE  remote_conn_from_config =
           IF Remote \notin Sections THEN "none"
           ELSE IF RemoteUsable THEN "connection" ELSE "SpecError"
<1>1. is_valid(RemoteSpec, config) <=> RemoteSays(config)
  BY RemoteValid
<1>2. CASE Remote \notin Sections
  <2>1. RemoteSays(config)
    BY <1>2 DEF RemoteSays, Needs, Allows, Is, Has, Sections
  <2> QED BY <1>1, <1>2, <2>1 DEF remote_conn_from_config, FromSection, Sections
<1>3. CASE Remote \in Sections
  <2>1. RemoteSays(config) <=> RemoteUsable
    BY <1>3, RemoteSection DEF Sections
  <2>2. RemoteSays(config) => KeysRead(config[Remote]) \subseteq DOMAIN config[Remote]
    BY <1>3, RemoteKeys DEF Sections
  <2> QED BY <1>1, <1>3, <2>1, <2>2 DEF remote_conn_from_config, FromSection, Sections
<1> QED BY <1>2, <1>3

LEMMA LocalOutcome ==
  ASSUME config \in Configs
  PROVE  local_conn_from_config =
           IF Local \notin Sections THEN "none"
           ELSE IF ~Given(Local, {"path"}) THEN "SpecError"
           ELSE IF ~Given(Local, {"logformat"}) THEN "KeyError" ELSE "connection"
<1>1. is_valid(LocalSpec, config) <=> Needs(config, Local, "path")
  BY LocalValid
<1> QED BY <1>1 DEF local_conn_from_config, FromSection, Sections, Given, Has, Needs

LEMMA DispatchOutcome ==
  ASSUME config \in Configs
  PROVE  is_valid(DispatchSpec, config) <=> \A k \in Kinds : Value(Dispatch, k) \in Stores
<1>1. ASSUME NEW k \in Kinds
      PROVE  Value(Dispatch, k) \in Stores <=>
               /\ Dispatch \in DOMAIN config
               /\ Needs(config, Dispatch, k) /\ Allows(config, Dispatch, k, Stores)
  BY DEF Value, Stores, Needs, Allows, Has
<1>2. "job_updates" \in Kinds
  BY DEF Kinds
<1> QED BY <1>1, <1>2, DispatchValid

\* What the program holds is what its configuration says.
ConnInv == config \in Configs /\ conn \in {"none", conn_from_config}

LEMMA ConnDecides ==
  ASSUME ConnInv
  PROVE  /\ ConfigurationDecides
         /\ conn \in {"none", "remote", "local", "composed"} \cup Exceptions
         /\ conn = "remote" => Remote \in Sections /\ Local \notin Sections
         /\ conn = "local" => Remote \notin Sections /\ Local \in Sections
         /\ conn = "composed" => Remote \in Sections /\ Local \in Sections
<1> USE DEF ConnInv
<1>1. CASE conn = "none"
  BY <1>1 DEF ConfigurationDecides, Connected
<1>2. CASE conn # "none"
  <2>1. conn = conn_from_config
    BY <1>2
  <2>2. CASE Remote \notin Sections /\ Local \notin Sections
    BY <2>1, <2>2, RemoteOutcome, LocalOutcome
       DEF conn_from_config, ConfigurationDecides, Connected, Usable, Exceptions
  <2>3. CASE Remote \in Sections /\ Local \notin Sections
    BY <2>1, <2>3, RemoteOutcome, LocalOutcome
       DEF conn_from_config, ConfigurationDecides, Connected, Usable, Exceptions
  <2>4. CASE Remote \notin Sections /\ Local \in Sections
    BY <2>1, <2>4, RemoteOutcome, LocalOutcome
       DEF conn_from_config, ConfigurationDecides, Connected, Usable, Exceptions
  <2>5. CASE Remote \in Sections /\ Local \in Sections
    BY <2>1, <2>5, RemoteOutcome, LocalOutcome, DispatchOutcome
       DEF conn_from_config, ConfigurationDecides, Connected, Usable, Exceptions
  <2> QED BY <2>2, <2>3, <2>4, <2>5
<1> QED BY <1>1, <1>2

-----------------------------------------------------------------------------
(* The inductive invariant. *)

\* Each update is a line in its store, and none elsewhere.
StatusInv == lines = [s \in Stores |-> IF s = Wanted("job_updates") THEN updates ELSE 0]

\* An item list on disk is a header and rows.
ItemsInv ==
  items["local"] # << >> =>
    Head(items["local"]) = "header" /\ Tail(items["local"]) \in Seq({"row"})

\* The last attachment is in its store.
FileInv == last # NoFile => file[Wanted("model_attachments")] = last

\* A pull reads the store of attachments; until it is disturbed, what it opened is
\* what is there, and what it got is the beginning of that.
PullInv ==
  pull.state # "idle" =>
    /\ pull.store = Wanted("model_attachments")
    /\ pull.state = "open" => file[pull.store] # NoFile /\ pull.opened # NoFile
    /\ ~pull.disturbed =>
         /\ pull.opened = file[pull.store]
         /\ pull.state = "failed" => pull.opened = NoFile
         /\ pull.state \in {"open", "done"} =>
              /\ pull.pos <= Len(pull.opened)
              /\ Len(pull.got) = pull.pos
              /\ \A i \in 1..pull.pos : pull.got[i] = pull.opened[i]
         /\ pull.state = "done" => pull.pos = Len(pull.opened)

IInv == TypeOK /\ ConnInv /\ StatusInv /\ ItemsInv /\ FileInv /\ PullInv

LEMMA StoreIsWanted ==
  ASSUME ConnInv, Connected, NEW kind \in Kinds
  PROVE  Store(kind) = Wanted(kind)
<1>1. CASE conn = "composed"
  <2>1. Remote \in Sections /\ Local \in Sections
    BY <1>1, ConnDecides
  <2>2. Usable
    BY ConnDecides DEF ConfigurationDecides
  <2>3. Value(Dispatch, kind) \in Stores
    BY <2>1, <2>2 DEF Usable
  <2>4. Value(Dispatch, kind) = config[Dispatch][kind]
    BY <2>3 DEF Value, Stores
  <2> QED BY <1>1, <2>1, <2>4 DEF Store, Wanted
<1>2. CASE conn = "remote"
  BY <1>2, ConnDecides DEF Store, Wanted
<1>3. CASE conn = "local"
  BY <1>3, ConnDecides DEF Store, Wanted
<1> QED BY <1>1, <1>2, <1>3 DEF Connected

LEMMA WantedStores == \A kind : Wanted(kind) \in Stores
BY DEF Wanted, Stores

\* No call changes the configuration or the connection.
LEMMA ConfigStays ==
  ASSUME ConnInv, UNCHANGED <<config, conn>>
  PROVE  ConnInv' /\ \A kind : Wanted(kind)' = Wanted(kind)
<1>1. conn_from_config' = conn_from_config
  BY DEF conn_from_config, remote_conn_from_config, local_conn_from_config, FromSection
<1>2. \A kind : Wanted(kind)' = Wanted(kind)
  BY DEF Wanted, Sections, Value, Has
<1> QED BY <1>1, <1>2 DEF ConnInv

LEMMA NoPullType == NoPull \in [state : {"idle", "open", "done", "failed"}, store : Stores,
    pos : Nat, got : Seq(Chunks), opened : Contents \cup {<< >>, NoFile}, disturbed : BOOLEAN]
BY DEF NoPull, Stores

LEMMA InitIInv == Init => IInv
<1> SUFFICES ASSUME Init PROVE IInv
  OBVIOUS
<1> USE DEF Init
<1>1. TypeOK
  BY NoPullType, BoundsAssumption DEF TypeOK
<1>2. NoPull.state = "idle"
  BY DEF NoPull
<1>3. ConnInv
  BY DEF ConnInv
<1>4. StatusInv /\ ItemsInv /\ FileInv /\ PullInv
  BY <1>2 DEF StatusInv, ItemsInv, FileInv, PullInv, Stores
<1> QED BY <1>1, <1>3, <1>4 DEF IInv

LEMMA ConnectInv == IInv /\ Connect => IInv'
<1> SUFFICES ASSUME IInv, Connect PROVE IInv'
  OBVIOUS
<1>1. conn_from_config' = conn_from_config /\ \A kind : Wanted(kind)' = Wanted(kind)
  BY DEF Connect, conn_from_config, remote_conn_from_config, local_conn_from_config,
         FromSection, Wanted, Sections, Value, Has
<1>2. ConnInv'
  BY <1>1 DEF IInv, ConnInv, Connect
<1>3. conn' \in {"none", "remote", "local", "composed"} \cup Exceptions
  <2>1. config \in Configs /\ conn' = conn_from_config
    BY DEF IInv, ConnInv, Connect
  <2> QED BY <2>1, RemoteOutcome, LocalOutcome DEF conn_from_config, Exceptions
<1>4. starts' \in 0..MaxStarts
  BY BoundsAssumption DEF IInv, TypeOK, Connect
<1>5. TypeOK'
  BY <1>3, <1>4, NoPullType DEF IInv, TypeOK, Connect, stores
<1>6. NoPull.state = "idle"
  BY DEF NoPull
<1>7. PullInv'
  BY <1>6 DEF PullInv, Connect
<1>8. StatusInv' /\ ItemsInv' /\ FileInv'
  BY <1>1 DEF IInv, StatusInv, ItemsInv, FileInv, Connect, stores
<1> QED BY <1>2, <1>5, <1>7, <1>8 DEF IInv

LEMMA RestartInv == IInv /\ Restart => IInv'
<1> SUFFICES ASSUME IInv, Restart PROVE IInv'
  OBVIOUS
<1>1. \A kind : Wanted(kind)' = Wanted(kind)
  BY DEF Restart, Wanted, Sections, Value, Has
<1>2. ConnInv'
  BY DEF IInv, ConnInv, Restart
<1>3. TypeOK'
  BY NoPullType DEF IInv, TypeOK, Restart, stores
<1>4. NoPull.state = "idle"
  BY DEF NoPull
<1>5. PullInv'
  BY <1>4 DEF PullInv, Restart
<1>6. StatusInv' /\ ItemsInv' /\ FileInv'
  BY <1>1 DEF IInv, StatusInv, ItemsInv, FileInv, Restart, stores
<1> QED BY <1>2, <1>3, <1>5, <1>6 DEF IInv

LEMMA CalledFacts ==
  ASSUME IInv, Called
  PROVE  /\ ConnInv' /\ \A kind : Wanted(kind)' = Wanted(kind)
         /\ \A kind \in Kinds : Store(kind) = Wanted(kind) /\ Store(kind) \in Stores
         /\ config' \in Configs /\ conn' \in {"none", "remote", "local", "composed"} \cup Exceptions
         /\ calls' \in 0..MaxCalls /\ starts' \in 0..MaxStarts
<1>1. ConnInv /\ Connected /\ UNCHANGED <<config, conn>>
  BY DEF IInv, Called
<1>2. calls' \in 0..MaxCalls
  BY BoundsAssumption DEF IInv, TypeOK, Called
<1> QED BY <1>1, <1>2, ConfigStays, StoreIsWanted, WantedStores DEF IInv, TypeOK, Called

LEMMA UpdateStatusInv == IInv /\ UpdateStatus => IInv'
<1> SUFFICES ASSUME IInv, UpdateStatus PROVE IInv'
  OBVIOUS
<1> DEFINE store == Store("job_updates")
<1>1. Called /\ UNCHANGED <<file, table, items, pull, last>>
  BY DEF UpdateStatus
<1>2. store = Wanted("job_updates") /\ store \in Stores
  BY <1>1, CalledFacts DEF Kinds
<1>3. /\ handlers' = IF store = "local" /\ handlers = 0 THEN 1 ELSE handlers
      /\ lines' = [lines EXCEPT ![store] = @ + IF store = "local" THEN handlers' ELSE 1]
      /\ updates' = updates + 1
  BY DEF UpdateStatus
<1> HIDE DEF store
<1>4. handlers \in {0, 1} /\ updates \in Nat /\ lines \in [Stores -> Nat]
  BY DEF IInv, TypeOK
<1>5. handlers' \in {0, 1} /\ (store = "local" => handlers' = 1) /\ updates' \in Nat
  BY <1>3, <1>4
<1>6. lines' = [lines EXCEPT ![store] = @ + 1]
  BY <1>3, <1>5
<1>7. lines' = [s \in Stores |-> IF s = store THEN updates' ELSE 0]
  <2>1. lines = [s \in Stores |-> IF s = store THEN updates ELSE 0]
    BY <1>2 DEF IInv, StatusInv
  <2> QED BY <1>2, <1>3, <1>6, <2>1
<1>8. lines' \in [Stores -> Nat]
  BY <1>5, <1>7
<1>9. TypeOK'
  BY <1>1, <1>5, <1>8, CalledFacts DEF IInv, TypeOK
<1>10. StatusInv'
  BY <1>1, <1>2, <1>7, CalledFacts DEF StatusInv
<1>11. ItemsInv' /\ FileInv' /\ PullInv'
  BY <1>1, CalledFacts DEF IInv, ItemsInv, FileInv, PullInv
<1> QED BY <1>1, <1>9, <1>10, <1>11, CalledFacts DEF IInv

LEMMA PushCalcitemInv == IInv /\ PushCalcitem => IInv'
<1> SUFFICES ASSUME IInv, PushCalcitem PROVE IInv'
  OBVIOUS
<1> DEFINE store == Store("model_parameters")
           old == items[store]
           new == IF store = "local" /\ old = << >> THEN <<"header", "row">> ELSE <<"row">>
<1>1. Called /\ UNCHANGED <<handlers, lines, file, table, pull, updates, last>>
  BY DEF PushCalcitem
<1>2. store \in Stores
  BY <1>1, CalledFacts DEF Kinds
<1>3. items' = [items EXCEPT ![store] = old \o new]
  BY DEF PushCalcitem
<1>4. items \in [Stores -> Seq({"header", "row"})]
  BY DEF IInv, TypeOK
<1>5. old \in Seq({"header", "row"}) /\ new \in Seq({"header", "row"})
  <2>1. <<"header", "row">> \in Seq({"header", "row"}) /\ <<"row">> \in Seq({"header", "row"})
    OBVIOUS
  <2>2. old \in Seq({"header", "row"})
    BY <1>2, <1>4
  <2> QED BY <2>1, <2>2
<1>6. old \o new \in Seq({"header", "row"})
  BY <1>5
<1>7. ItemsInv'
  <2>1. CASE store = "local"
    <3>1. items'["local"] = old \o new
      BY <1>2, <1>3, <1>4, <2>1
    <3>2. CASE old = << >>
      <4>1. old \o new = <<"header", "row">>
        BY <2>1, <3>2
      <4>2. Head(<<"header", "row">>) = "header" /\ Tail(<<"header", "row">>) = <<"row">>
            /\ <<"row">> \in Seq({"row"})
        OBVIOUS
      <4> QED BY <3>1, <4>1, <4>2 DEF ItemsInv
    <3>3. CASE old # << >>
      <4>1. new = <<"row">>
        BY <2>1, <3>3
      <4>2. Head(old) = "header" /\ Tail(old) \in Seq({"row"})
        BY <2>1, <3>3 DEF IInv, ItemsInv
      <4> HIDE DEF old, new
      <4>3. old \o new = Append(old, "row")
        BY <1>5, <4>1, AppendIsConcat
      <4>4. Head(old \o new) = Head(old) /\ Tail(old \o new) = Append(Tail(old), "row")
        BY <1>5, <3>3, <4>3, HeadTailAppend
      <4>5. Append(Tail(old), "row") \in Seq({"row"})
        BY <4>2
      <4> QED BY <3>1, <4>2, <4>4, <4>5 DEF ItemsInv
    <3> QED BY <3>2, <3>3
  <2>2. CASE store # "local"
    <3>1. items'["local"] = items["local"]
      BY <1>3, <1>4, <2>2 DEF Stores
    <3> QED BY <3>1 DEF IInv, ItemsInv
  <2> QED BY <2>1, <2>2
<1>8. items' \in [Stores -> Seq({"header", "row"})]
  BY <1>2, <1>3, <1>4, <1>6
<1>9. TypeOK'
  BY <1>1, <1>8, CalledFacts DEF IInv, TypeOK
<1>10. StatusInv' /\ FileInv' /\ PullInv'
  BY <1>1, CalledFacts DEF IInv, StatusInv, FileInv, PullInv
<1> QED BY <1>1, <1>7, <1>9, <1>10, CalledFacts DEF IInv

LEMMA TableInv ==
  ASSUME IInv, Called, UNCHANGED <<handlers, lines, file, items, pull, updates, last>>,
         table' \in [Stores -> Seq({"load"}) \cup {NoFile}]
  PROVE  IInv'
<1>1. TypeOK'
  BY CalledFacts DEF IInv, TypeOK
<1>2. StatusInv' /\ ItemsInv' /\ FileInv' /\ PullInv'
  BY CalledFacts DEF IInv, StatusInv, ItemsInv, FileInv, PullInv
<1> QED BY <1>1, <1>2, CalledFacts DEF IInv

LEMMA CreateTableInv == IInv /\ (\E owned \in BOOLEAN : CreateTable(owned)) => IInv'
<1> SUFFICES ASSUME IInv, NEW owned \in BOOLEAN, CreateTable(owned) PROVE IInv'
  OBVIOUS
<1> DEFINE store == Store("model_tables")
           new == IF store = "partition" THEN <<"load">> ELSE IF owned THEN table[store] ELSE << >>
<1>1. Called /\ UNCHANGED <<handlers, lines, file, items, pull, updates, last>>
  BY DEF CreateTable
<1>2. table' = [table EXCEPT ![store] = new]
  BY DEF CreateTable
<1>3. store \in Stores
  BY <1>1, CalledFacts DEF Kinds
<1>4. table \in [Stores -> Seq({"load"}) \cup {NoFile}]
  BY DEF IInv, TypeOK
<1>5. new \in Seq({"load"}) \cup {NoFile}
  BY <1>3, <1>4
<1>6. table' \in [Stores -> Seq({"load"}) \cup {NoFile}]
  BY <1>2, <1>4, <1>5
<1> QED BY <1>1, <1>6, TableInv

LEMMA UpdateTableInv == IInv /\ UpdateTable => IInv'
<1> SUFFICES ASSUME IInv, UpdateTable PROVE IInv'
  OBVIOUS
<1> DEFINE store == Store("model_tables")
           old == table[store]
           new == IF old = NoFile THEN NoFile ELSE Append(old, "load")
<1>1. Called /\ UNCHANGED <<handlers, lines, file, items, pull, updates, last>>
  BY DEF UpdateTable
<1>2. table' = [table EXCEPT ![store] = new]
  BY DEF UpdateTable
<1>3. store \in Stores
  BY <1>1, CalledFacts DEF Kinds
<1>4. table \in [Stores -> Seq({"load"}) \cup {NoFile}]
  BY DEF IInv, TypeOK
<1>5. new \in Seq({"load"}) \cup {NoFile}
  BY <1>3, <1>4
<1>6. table' \in [Stores -> Seq({"load"}) \cup {NoFile}]
  BY <1>2, <1>4, <1>5
<1> QED BY <1>1, <1>6, TableInv

LEMMA AttachFileInv == IInv /\ (\E content \in Contents : AttachFile(content)) => IInv'
<1> SUFFICES ASSUME IInv, NEW content \in Contents, AttachFile(content) PROVE IInv'
  OBVIOUS
<1> DEFINE store == Store("model_attachments")
<1>1. Called /\ UNCHANGED <<handlers, lines, table, items, updates>>
  BY DEF AttachFile
<1>2. store = Wanted("model_attachments") /\ store \in Stores
  BY <1>1, CalledFacts DEF Kinds
<1>3. \/ file' = [file EXCEPT ![store] = content] /\ last' = content
      \/ /\ file' = IF store = "local" THEN [file EXCEPT ![store] = << >>] ELSE file
         /\ last' = NoFile
  BY DEF AttachFile
<1>4. pull' = IF pull.state = "idle" THEN pull ELSE [pull EXCEPT !.disturbed = TRUE]
  BY DEF AttachFile
<1> HIDE DEF store
<1>5. file \in [Stores -> Contents \cup {<< >>, NoFile}] /\ last \in Contents \cup {NoFile}
  BY DEF IInv, TypeOK
<1>6. content # NoFile /\ << >> # NoFile
  BY ContentsAssumption DEF NoFile
<1>7. /\ file' \in [Stores -> Contents \cup {<< >>, NoFile}] /\ last' \in Contents \cup {NoFile}
      /\ last' # NoFile => file'[store] = last'
      /\ \A s \in Stores : file[s] # NoFile => file'[s] # NoFile
  BY <1>2, <1>3, <1>5, <1>6
<1>8. /\ pull' \in [state : {"idle", "open", "done", "failed"}, store : Stores, pos : Nat,
                   got : Seq(Chunks), opened : Contents \cup {<< >>, NoFile}, disturbed : BOOLEAN]
      /\ pull'.state = pull.state /\ pull'.store = pull.store /\ pull'.opened = pull.opened
      /\ pull.state # "idle" => pull'.disturbed
  BY <1>4 DEF IInv, TypeOK
<1>9. TypeOK'
  BY <1>1, <1>7, <1>8, CalledFacts DEF IInv, TypeOK
<1>10. FileInv'
  BY <1>1, <1>2, <1>7, CalledFacts DEF FileInv
<1>11. PullInv'
  <2>1. CASE pull.state = "idle"
    BY <2>1, <1>8 DEF PullInv
  <2>2. CASE pull.state # "idle"
    <3>1. /\ pull.store = Wanted("model_attachments") /\ pull.store \in Stores
          /\ pull.state = "open" => file[pull.store] # NoFile /\ pull.opened # NoFile
      BY <2>2, WantedStores DEF IInv, PullInv
    <3>2. pull'.store = Wanted("model_attachments")'
      BY <3>1, <1>1, <1>8, CalledFacts
    <3>3. pull'.state = "open" => file'[pull'.store] # NoFile /\ pull'.opened # NoFile
      BY <3>1, <1>7, <1>8
    <3> QED BY <2>2, <3>2, <3>3, <1>8 DEF PullInv
  <2> QED BY <2>1, <2>2
<1>12. StatusInv' /\ ItemsInv'
  BY <1>1, CalledFacts DEF IInv, StatusInv, ItemsInv
<1> QED BY <1>1, <1>9, <1>10, <1>11, <1>12, CalledFacts DEF IInv

LEMMA OpenPullInv == IInv /\ OpenPull => IInv'
<1> SUFFICES ASSUME IInv, OpenPull PROVE IInv'
  OBVIOUS
<1> DEFINE store == Store("model_attachments")
<1>1. Called /\ UNCHANGED <<handlers, stores, updates, last>>
  BY DEF OpenPull
<1>2. store = Wanted("model_attachments") /\ store \in Stores
  BY <1>1, CalledFacts DEF Kinds
<1>3. pull' = [NoPull EXCEPT !.state = IF file[store] = NoFile THEN "failed" ELSE "open",
                             !.store = store, !.opened = file[store]]
  BY DEF OpenPull
<1> HIDE DEF store
<1>4. file[store] \in Contents \cup {<< >>, NoFile}
  BY <1>2 DEF IInv, TypeOK
<1>5. pull' = [state |-> IF file[store] = NoFile THEN "failed" ELSE "open", store |-> store,
               pos |-> 0, got |-> << >>, opened |-> file[store], disturbed |-> FALSE]
  BY <1>3 DEF NoPull
<1>6. /\ pull'.state = IF file[store] = NoFile THEN "failed" ELSE "open"
      /\ pull'.store = store /\ pull'.pos = 0 /\ pull'.got = << >> /\ pull'.opened = file[store]
      /\ ~pull'.disturbed
  BY <1>5
<1>7. pull' \in [state : {"idle", "open", "done", "failed"}, store : Stores, pos : Nat,
                got : Seq(Chunks), opened : Contents \cup {<< >>, NoFile}, disturbed : BOOLEAN]
  BY <1>2, <1>4, <1>5
<1>8. TypeOK'
  BY <1>1, <1>7, CalledFacts DEF IInv, TypeOK, stores
<1>9. PullInv'
  <2>1. pull'.state # "idle" /\ pull'.state # "done"
    BY <1>6
  <2>2. pull'.store = Wanted("model_attachments")'
    BY <1>1, <1>2, <1>6, CalledFacts
  <2>3. file' = file
    BY <1>1 DEF stores
  <2>4. pull'.opened = file'[pull'.store]
    BY <1>6, <2>3
  <2>5. pull'.state = "open" => file'[pull'.store] # NoFile /\ pull'.opened # NoFile
    BY <1>6, <2>3
  <2>6. pull'.state = "failed" => pull'.opened = NoFile
    BY <1>6
  <2>7. pull'.state = "open" => pull'.pos <= Len(pull'.opened)
    <3>1. pull'.state = "open" => pull'.opened \in Seq(Chunks)
      <4>1. << >> \in Seq(Chunks)
        OBVIOUS
      <4>2. file[store] # NoFile => file[store] \in Seq(Chunks)
        BY <1>4, <4>1, ContentsAssumption
      <4> QED BY <1>6, <4>2
    <3> QED BY <3>1, <1>6
  <2>8. Len(pull'.got) = pull'.pos /\ \A i \in 1..pull'.pos : pull'.got[i] = pull'.opened[i]
    BY <1>6
  <2> QED BY <2>1, <2>2, <2>4, <2>5, <2>6, <2>7, <2>8 DEF PullInv
<1>10. StatusInv' /\ ItemsInv' /\ FileInv'
  BY <1>1, CalledFacts DEF IInv, StatusInv, ItemsInv, FileInv, stores
<1> QED BY <1>1, <1>8, <1>9, <1>10, CalledFacts DEF IInv

LEMMA PullChunkInv == IInv /\ PullChunk => IInv'
<1> SUFFICES ASSUME IInv, PullChunk PROVE IInv'
  OBVIOUS
<1> DEFINE source == IF pull.store = "partition" THEN pull.opened ELSE file["local"]
<1>1. /\ pull.state = "open"
      /\ UNCHANGED <<config, conn, handlers, stores, updates, last, calls, starts>>
      /\ pull' = IF pull.pos < Len(source)
                 THEN [pull EXCEPT !.pos = @ + 1, !.got = Append(@, source[pull.pos + 1])]
                 ELSE [pull EXCEPT !.state = "done"]
  BY DEF PullChunk
<1>2. /\ pull \in [state : {"idle", "open", "done", "failed"}, store : Stores, pos : Nat,
                  got : Seq(Chunks), opened : Contents \cup {<< >>, NoFile}, disturbed : BOOLEAN]
      /\ file \in [Stores -> Contents \cup {<< >>, NoFile}]
  BY DEF IInv, TypeOK
<1>3. /\ pull.store = Wanted("model_attachments")
      /\ file[pull.store] # NoFile /\ pull.opened # NoFile
      /\ ~pull.disturbed => /\ pull.opened = file[pull.store]
                            /\ pull.pos <= Len(pull.opened)
                            /\ Len(pull.got) = pull.pos
                            /\ \A i \in 1..pull.pos : pull.got[i] = pull.opened[i]
  BY <1>1 DEF IInv, PullInv
<1>4. source \in Seq(Chunks)
  <2>1. source \in Contents \cup {<< >>} \/ source = NoFile
    BY <1>2 DEF Stores
  <2>2. source # NoFile
    BY <1>2, <1>3 DEF Stores
  <2>3. << >> \in Seq(Chunks)
    OBVIOUS
  <2> QED BY <2>1, <2>2, <2>3, ContentsAssumption
<1>5. ~pull.disturbed => source = pull.opened
  BY <1>2, <1>3 DEF Stores
<1> HIDE DEF source
<1>6. /\ conn_from_config' = conn_from_config
      /\ ConnInv' /\ \A kind : Wanted(kind)' = Wanted(kind)
  BY <1>1, ConfigStays DEF IInv, conn_from_config, remote_conn_from_config,
     local_conn_from_config, FromSection
<1>7. /\ pull' \in [state : {"idle", "open", "done", "failed"}, store : Stores, pos : Nat,
                   got : Seq(Chunks), opened : Contents \cup {<< >>, NoFile}, disturbed : BOOLEAN]
      /\ pull'.store = pull.store /\ pull'.opened = pull.opened
      /\ pull'.disturbed = pull.disturbed
  <2>1. CASE pull.pos < Len(source)
    <3>1. source[pull.pos + 1] \in Chunks
      BY <1>2, <1>4, <2>1
    <3>2. Append(pull.got, source[pull.pos + 1]) \in Seq(Chunks)
      BY <1>2, <3>1
    <3>3. pull' = [pull EXCEPT !.pos = @ + 1, !.got = Append(@, source[pull.pos + 1])]
      BY <1>1, <2>1
    <3>4. pull.pos + 1 \in Nat
      BY <1>2
    <3> DEFINE got == Append(pull.got, source[pull.pos + 1])
               pos == pull.pos + 1
    <3>5. pull' = [pull EXCEPT !.pos = pos, !.got = got]
      BY <3>3
    <3>6. pos \in Nat /\ got \in Seq(Chunks)
      BY <3>2, <3>4
    <3> HIDE DEF got, pos
    <3> QED BY <1>2, <3>5, <3>6
  <2>2. CASE ~(pull.pos < Len(source))
    <3>1. pull' = [pull EXCEPT !.state = "done"]
      BY <1>1, <2>2
    <3> QED BY <1>2, <3>1
  <2> QED BY <2>1, <2>2
<1>8. TypeOK'
  BY <1>1, <1>7 DEF IInv, TypeOK, stores
<1>9. PullInv'
  <2>1. file' = file
    BY <1>1 DEF stores
  <2>2. pull'.store = Wanted("model_attachments")'
    BY <1>3, <1>6, <1>7
  <2>3. file'[pull'.store] # NoFile /\ pull'.opened # NoFile
    BY <1>3, <1>7, <2>1
  <2>4. ~pull.disturbed => pull'.opened = file'[pull'.store]
    BY <1>3, <1>7, <2>1
  <2>5. CASE pull.pos < Len(source)
    <3>1. /\ pull'.pos = pull.pos + 1 /\ pull'.state = "open"
          /\ pull'.got = Append(pull.got, source[pull.pos + 1])
      BY <1>1, <1>2, <2>5
    <3>2. ASSUME ~pull.disturbed
          PROVE  /\ pull'.pos <= Len(pull'.opened)
                 /\ Len(pull'.got) = pull'.pos
                 /\ \A i \in 1..pull'.pos : pull'.got[i] = pull'.opened[i]
      <4>1. source = pull.opened /\ source[pull.pos + 1] \in Chunks
        BY <3>2, <1>2, <1>4, <1>5, <2>5
      <4>2. pull.got \in Seq(Chunks) /\ Len(pull.got) = pull.pos /\ pull.pos \in Nat
            /\ \A i \in 1..pull.pos : pull.got[i] = pull.opened[i]
        BY <3>2, <1>2, <1>3
      <4>3. /\ Len(pull'.got) = pull.pos + 1
            /\ \A i \in 1..pull.pos : pull'.got[i] = pull.got[i]
            /\ pull'.got[pull.pos + 1] = source[pull.pos + 1]
        BY <3>1, <4>1, <4>2, AppendProperties
      <4>4. \A i \in 1..(pull.pos + 1) : i \in 1..pull.pos \/ i = pull.pos + 1
        BY <4>2
      <4>5. \A i \in 1..(pull.pos + 1) : pull'.got[i] = pull.opened[i]
        BY <4>1, <4>2, <4>3, <4>4
      <4>6. pull.pos + 1 <= Len(source)
        BY <1>4, <2>5, <4>2
      <4> QED BY <1>7, <3>1, <4>1, <4>3, <4>5, <4>6
    <3> QED BY <2>2, <2>3, <2>4, <3>1, <3>2, <1>7 DEF PullInv
  <2>6. CASE ~(pull.pos < Len(source))
    <3>1. pull'.pos = pull.pos /\ pull'.state = "done" /\ pull'.got = pull.got
      BY <1>1, <1>2, <2>6
    <3>2. ~pull.disturbed => pull.pos = Len(pull.opened)
      BY <1>2, <1>3, <1>4, <1>5, <2>6
    <3> QED BY <2>2, <2>4, <3>1, <3>2, <1>3, <1>7 DEF PullInv
  <2> QED BY <2>5, <2>6
<1>10. StatusInv' /\ ItemsInv' /\ FileInv'
  BY <1>1, <1>6 DEF IInv, StatusInv, ItemsInv, FileInv, stores
<1> QED BY <1>6, <1>8, <1>9, <1>10 DEF IInv

LEMMA NextIInv == IInv /\ [Next]_vars => IInv'
<1> SUFFICES ASSUME IInv, [Next]_vars PROVE IInv'
  OBVIOUS
<1>1. CASE Next
  BY <1>1, ConnectInv, RestartInv, UpdateStatusInv, PushCalcitemInv, CreateTableInv,
     UpdateTableInv, AttachFileInv, OpenPullInv, PullChunkInv DEF Next
<1>2. CASE UNCHANGED vars
  <2>1. ConnInv' /\ \A kind : Wanted(kind)' = Wanted(kind)
    BY <1>2, ConfigStays DEF IInv, vars
  <2>2. TypeOK' /\ StatusInv' /\ ItemsInv' /\ FileInv' /\ PullInv'
    BY <1>2, <2>1 DEF IInv, TypeOK, StatusInv, ItemsInv, FileInv, PullInv, vars, stores
  <2> QED BY <2>1, <2>2 DEF IInv
<1> QED BY <1>1, <1>2

LEMMA Invariant == Spec => []IInv
BY InitIInv, NextIInv, PTL DEF Spec

-----------------------------------------------------------------------------
(* The theorems. *)

\* The stores hold what their operations write, for every configuration: no load is
\* appended to a table that is not there, and a logger has one handler at most.
THEOREM TypeCorrect == Spec => []TypeOK
<1>1. IInv => TypeOK
  BY DEF IInv
<1> QED BY <1>1, Invariant, PTL

\* conn_from_config refuses a usable configuration only for want of the logformat, and
\* connects with no other: its specs and the code that reads the sections agree,
\* whatever the configuration has.
THEOREM ConfigurationIsDecided == Spec => []ConfigurationDecides
<1>1. IInv => ConfigurationDecides
  BY ConnDecides DEF IInv
<1> QED BY <1>1, Invariant, PTL

\* Each update_status is one line in the store that the configuration wants, and an
\* item list keeps one header, through any number of connections and restarts.
THEOREM UpdatesAreWrittenOnce == Spec => []WrittenOnce
<1>1. IInv => WrittenOnce
  BY DEF IInv, WrittenOnce, StatusInv, ItemsInv
<1> QED BY <1>1, Invariant, PTL

\* pull_file yields what attach_file stored, unless an attach_file disturbs it, for all
\* contents, dispatches, connections and restarts.
THEOREM AttachmentsAreKept == Spec => []PulledIsAttached
<1>1. IInv => PulledIsAttached
  <2> SUFFICES ASSUME IInv, pull.state \in {"done", "failed"}, ~pull.disturbed, last # NoFile
               PROVE  pull.state = "done" /\ pull.got = last
    BY DEF PulledIsAttached
  <2>1. pull.opened = last
    BY DEF IInv, PullInv, FileInv
  <2>2. pull.state = "done"
    BY <2>1 DEF IInv, PullInv
  <2>3. pull.pos = Len(last) /\ Len(pull.got) = pull.pos
        /\ \A i \in 1..pull.pos : pull.got[i] = last[i]
    BY <2>1, <2>2 DEF IInv, PullInv
  <2>4. pull.got \in Seq(Chunks) /\ last \in Seq(Chunks)
    BY ContentsAssumption DEF IInv, TypeOK
  <2>5. pull.got = last
    BY <2>3, <2>4, SeqEqual
  <2> QED BY <2>2, <2>5
<1> QED BY <1>1, Invariant, PTL
-----------------------------------------------------------------------------
(***************************************************************************)
(* The specs that SpecBuilder builds.                                      *)
(***************************************************************************)

\* What a section spec holds: units, optional keys and conditional section specs, which
\* hold units and optional keys.
IsUnit(s) == s.kind \in Units /\ Parts(s) = {}
IsKey(s) == IsUnit(s) \/ (s.kind = "optional" /\ Nested1(s))
IsConditional(s) ==
  /\ IsSectionSpec(s) /\ "cond" \in DOMAIN s /\ s.kind = "conditional_section"
  /\ \A p \in Parts(s) : IsKey(p)
IsSection(s) ==
  /\ IsSectionSpec(s) /\ s.kind = "section"
  /\ \A p \in Parts(s) : IsKey(p) \/ IsConditional(p)

\* While the section is built, what has been asked for so far is what is valid; a
\* spec that wraps it is never valid by mistake, and invalid by mistake only if it
\* holds optional specs.
BuilderInv ==
  /\ mandates \in BOOLEAN
  /\ InSection =>
       /\ IsSection(spec) /\ spec.required \in BOOLEAN
       /\ nested = NoSpec \/ IsConditional(nested)
       /\ mandates <=> ~(/\ is_valid(spec, configuration)
                         /\ nested # NoSpec => is_valid(nested, configuration))
  /\ ~InSection =>
       /\ nested = NoSpec
       /\ is_valid(spec, configuration) => ~mandates
       /\ ~WrapsOptional => (is_valid(spec, configuration) <=> ~mandates)
       /\ diagnostic(spec, configuration) = {} => is_valid(spec, configuration)

LEMMA BuiltNested ==
  ASSUME NEW s
  PROVE  /\ IsKey(s) => Nested(1, s) /\ Nested(4, s)
         /\ IsConditional(s) => Nested(2, s) /\ Nested(4, s)
         /\ IsSection(s) => Nested(3, s) /\ Nested(4, s)
<1>1. \A p : IsKey(p) => Nested1(p)
  BY DEF IsKey, IsUnit, Nested1, Flat
<1>2. \A p : IsConditional(p) => Nested2(p)
  BY <1>1 DEF IsConditional, Nested2
<1>3. \A p : Nested1(p) => Nested2(p)
  BY DEF Nested1, Nested2, Flat
<1>4. IsSection(s) => Nested3(s)
  BY <1>1, <1>2, <1>3 DEF IsSection, Nested3
<1>5. /\ IsKey(s) => Nested(1, s)
      /\ IsConditional(s) => Nested(2, s)
      /\ IsSection(s) => Nested(3, s)
  BY <1>1, <1>2, <1>4 DEF Nested
<1>6. \A n \in 0..4 : Nested(n, s) => Nested(4, s)
  BY NestedLess
<1> QED BY <1>5, <1>6

\* A section that gets a spec more is valid if it was and the spec is.
LEMMA SectionGrows ==
  ASSUME NEW c, NEW s, IsSection(s), NEW x, IsKey(x) \/ IsConditional(x)
  PROVE  LET t == with_spec(s, x) IN
         /\ IsSection(t) /\ t.required = s.required
         /\ is_valid(t, c) <=> is_valid(s, c) /\ is_valid(x, c)
<1> DEFINE t == with_spec(s, x)
<1>1. IsSectionSpec(s) /\ s.kind = "section" /\ \A p \in Parts(s) : IsKey(p) \/ IsConditional(p)
  BY DEF IsSection
<1>2. Extends(t, s, {x})
  BY <1>1, WithSpec
<1> HIDE DEF t
<1>3. /\ IsSectionSpec(t) /\ t.kind = "section" /\ t.required = s.required
      /\ Parts(t) = Parts(s) \cup {x}
  BY <1>1, <1>2 DEF Extends, IsSectionSpec
<1>4. IsSection(t)
  BY <1>1, <1>3 DEF IsSection
<1>5. /\ is_valid(s, c) <=> \A p \in Parts(s) : is_valid(p, c)
      /\ is_valid(t, c) <=> \A p \in Parts(t) : is_valid(p, c)
  BY <1>1, <1>3, <1>4, SectionValid, BuiltNested
<1> QED BY <1>3, <1>4, <1>5 DEF t

LEMMA ConditionalGrows ==
  ASSUME NEW c, NEW s, IsConditional(s), NEW x, IsKey(x)
  PROVE  LET t == with_spec(s, x) IN
         /\ IsConditional(t)
         /\ is_valid(t, c) <=> is_valid(s, c) /\ (Holds(s.cond, c) => is_valid(x, c))
<1> DEFINE t == with_spec(s, x)
<1>1. /\ IsSectionSpec(s) /\ s.kind = "conditional_section" /\ "cond" \in DOMAIN s
      /\ \A p \in Parts(s) : IsKey(p)
  BY DEF IsConditional
<1>2. Extends(t, s, {x})
  BY <1>1, WithSpec
<1> HIDE DEF t
<1>3. /\ IsSectionSpec(t) /\ t.kind = "conditional_section" /\ Parts(t) = Parts(s) \cup {x}
      /\ "cond" \in DOMAIN t /\ t.cond = s.cond
  BY <1>1, <1>2 DEF Extends, IsSectionSpec
<1>4. IsConditional(t)
  BY <1>1, <1>3 DEF IsConditional
<1>5. /\ is_valid(s, c) <=> (Holds(s.cond, c) => \A p \in Parts(s) : is_valid(p, c))
      /\ is_valid(t, c) <=> (Holds(t.cond, c) => \A p \in Parts(t) : is_valid(p, c))
  BY <1>1, <1>3, <1>4, ConditionalSectionValid, BuiltNested
<1> QED BY <1>3, <1>4, <1>5 DEF t

\* What with_check, must_contains, may_contains and with_values add.
LEMMA KeysAdded ==
  ASSUME NEW section, NEW key, NEW values, NEW b \in BOOLEAN, NEW c
  PROVE  /\ IsKey(Must(section, key))
         /\ IsKey(PossibleValuesSpec(section, key, values))
         /\ IsKey(OptionalSpec(Must(section, key)))
         /\ is_valid(OptionalSpec(Must(section, key)), c)
         /\ IsKey(FunctionSpec(Callable(b)))
         /\ is_valid(FunctionSpec(Callable(b)), c) <=> b
<1>1. IsKey(Must(section, key)) /\ IsKey(PossibleValuesSpec(section, key, values))
  BY LeavesAreFlat DEF IsKey, IsUnit, Flat, Units, Must, SectionMustContainKeySpec,
     PossibleValuesSpec
<1>2. IsKey(OptionalSpec(Must(section, key))) /\ is_valid(OptionalSpec(Must(section, key)), c)
  <2> DEFINE m == Must(section, key)
             o == OptionalSpec(m)
  <2>1. o.kind = "optional" /\ Parts(o) = {m}
    BY DEF OptionalSpec, Parts
  <2>2. IsKey(o)
    <3> HIDE DEF o
    <3> QED BY <2>1, LeavesAreFlat DEF IsKey, Nested1
  <2>3. Nested(4, o)
    <3> HIDE DEF o
    <3> QED BY <2>2, BuiltNested
  <2> HIDE DEF m
  <2>4. is_valid(o, c)
    BY <2>3, OptionalValid
  <2> QED BY <2>2, <2>4 DEF m
<1>3. IsKey(FunctionSpec(Callable(b))) /\ (is_valid(FunctionSpec(Callable(b)), c) <=> b)
  <2> DEFINE k == Callable(b)
             f == FunctionSpec(k)
  <2>1. f.kind = "function" /\ f.cond = k /\ Parts(f) = {}
    BY DEF FunctionSpec, Parts
  <2>2. Holds(k, c) = b
    BY Zenon DEF Callable, Holds
  <2> HIDE DEF f, k
  <2>3. is_valid(f, c) <=> UnitDiagnostic(f, c) = {}
    BY <2>1, UnitValid DEF Units
  <2>4. UnitDiagnostic(f, c) = {} <=> Holds(k, c)
    BY <2>1 DEF UnitDiagnostic
  <2>5. IsKey(f)
    BY <2>1 DEF IsKey, IsUnit, Units
  <2> QED BY <2>2, <2>3, <2>4, <2>5 DEF f, k
<1> QED BY <1>1, <1>2, <1>3

\* What a section spec starts with, if its section must exist.
LEMMA Exists ==
  ASSUME NEW section, NEW required \in BOOLEAN
  PROVE  LET e == SectionMustExistSpec(section)
             specs == Existence(section, required) IN
         /\ specs \in Seq({e})
         /\ {specs[i] : i \in DOMAIN specs} = IF required THEN {e} ELSE {}
         /\ IsKey(e)
<1> DEFINE e == SectionMustExistSpec(section)
<1>1. IsKey(e)
  BY LeavesAreFlat DEF IsKey, IsUnit, Units, Flat, SectionMustExistSpec
<1> HIDE DEF e
<1>2. << e >> \in Seq({e}) /\ DOMAIN << e >> = {1} /\ << e >>[1] = e
  OBVIOUS
<1>3. << >> \in Seq({e}) /\ DOMAIN << >> = {}
  OBVIOUS
<1>4. CASE required
  BY <1>1, <1>2, <1>4 DEF Existence, e
<1>5. CASE ~required
  BY <1>1, <1>3, <1>5 DEF Existence, e
<1> QED BY <1>4, <1>5

LEMMA SectionStarts ==
  ASSUME NEW section, NEW required \in BOOLEAN, NEW c
  PROVE  LET s == SectionSpec(section, required) IN
         /\ IsSection(s) /\ s.required = required
         /\ is_valid(s, c) <=> (required => section \in DOMAIN c)
<1> DEFINE s == SectionSpec(section, required)
           e == SectionMustExistSpec(section)
           specs == Existence(section, required)
<1>1. /\ specs \in Seq({e}) /\ IsKey(e)
      /\ {specs[i] : i \in DOMAIN specs} = IF required THEN {e} ELSE {}
  BY Exists
<1>2. s = [kind |-> "section", section |-> section, required |-> required, specs |-> specs]
  BY DEF SectionSpec
<1>3. is_valid(e, c) <=> section \in DOMAIN c
  BY ExistsValid
<1> HIDE DEF s, e, specs
<1>4. /\ s = [f \in DOMAIN s |-> s[f]] /\ DOMAIN s = {"kind", "section", "required", "specs"}
      /\ s.kind = "section" /\ s.specs = specs
  BY <1>2
<1>8. s.required = required
  BY <1>2, Zenon
<1>5. IsSectionSpec(s)
  BY <1>1, <1>4 DEF IsSectionSpec
<1>6. Parts(s) = IF required THEN {e} ELSE {}
  BY <1>1, <1>4, <1>5, SectionParts
<1>7. IsSection(s)
  BY <1>1, <1>4, <1>5, <1>6 DEF IsSection
<1> QED BY <1>3, <1>4, <1>6, <1>7, <1>8, SectionValid, BuiltNested DEF s

\* A conditional section spec starts valid: if its condition holds, its section exists.
LEMMA ConditionalStarts ==
  ASSUME NEW s, s.required \in BOOLEAN, NEW key, NEW value, NEW c
  PROVE  LET w == when_key_value_is(s, key, value) IN
         IsConditional(w) /\ is_valid(w, c)
<1> DEFINE w == when_key_value_is(s, key, value)
           e == SectionMustExistSpec(s.section)
           k == KeyValueIs(s.section, key, value)
           specs == Existence(s.section, s.required)
<1>1. /\ specs \in Seq({e}) /\ IsKey(e)
      /\ {specs[i] : i \in DOMAIN specs} = IF s.required THEN {e} ELSE {}
  BY Exists
<1>2. w = [kind |-> "conditional_section", section |-> s.section, required |-> s.required,
           specs |-> specs, cond |-> k]
  BY DEF when_key_value_is, when_empty, ConditionalSectionSpec
<1>3. is_valid(e, c) <=> s.section \in DOMAIN c
  BY ExistsValid
<1>9. Holds(k, c) => s.section \in DOMAIN c
  BY DEF KeyValueIs, Holds, Has
<1> HIDE DEF w, e, specs, k
<1>4. /\ w = [f \in DOMAIN w |-> w[f]]
      /\ DOMAIN w = {"kind", "section", "required", "specs", "cond"}
      /\ w.kind = "conditional_section" /\ w.specs = specs /\ w.cond = k
  BY <1>2
<1>5. IsSectionSpec(w)
  BY <1>1, <1>4 DEF IsSectionSpec
<1>6. Parts(w) = IF s.required THEN {e} ELSE {}
  BY <1>1, <1>4, <1>5, SectionParts
<1>7. IsConditional(w)
  BY <1>1, <1>4, <1>5, <1>6 DEF IsConditional
<1> QED BY <1>3, <1>4, <1>6, <1>7, <1>9, ConditionalSectionValid, BuiltNested DEF w

\* Without optional specs, a section spec is valid if nothing is found.
LEMMA NothingFound ==
  ASSUME NEW s, IsSection(s), NEW c
  PROVE  /\ diagnostic(s, c) = {} => is_valid(s, c)
         /\ ~HasOptional(s) => (diagnostic(s, c) = {} <=> is_valid(s, c))
<1> DEFINE Found(p) == diagnostic(p, c) # {}
<1>1. ASSUME NEW p, IsUnit(p)
      PROVE  Found(p) <=> ~is_valid(p, c)
  <2>1. Nested(4, p)
    BY <1>1, BuiltNested DEF IsKey
  <2>2. diagnostic(p, c) = UnitDiagnostic(p, c)
    BY <1>1, <2>1, DiagnosticIsRecursive, Zenon DEF DiagnosticOf, IsUnit, Units
  <2>3. is_valid(p, c) <=> UnitDiagnostic(p, c) = {}
    BY <1>1, UnitValid DEF IsUnit
  <2> QED BY <2>2, <2>3
<1>2. ASSUME NEW p, IsKey(p)
      PROVE  /\ ~is_valid(p, c) => Found(p)
             /\ p.kind # "optional" => (Found(p) <=> ~is_valid(p, c))
  <2>1. CASE IsUnit(p)
    BY <1>1, <2>1
  <2>2. CASE p.kind = "optional"
    <3>1. is_valid(p, c) = TRUE
      BY <1>2, <2>2, BuiltNested, IsValidIsRecursive, Zenon DEF ValidOf, Units
    <3> QED BY <2>2, <3>1
  <2> QED BY <1>2, <2>1, <2>2 DEF IsKey
<1>3. ASSUME NEW p, IsConditional(p)
      PROVE  /\ ~is_valid(p, c) => Found(p)
             /\ (\A q \in Parts(p) : q.kind # "optional") => (Found(p) <=> ~is_valid(p, c))
  <2> DEFINE all == UNION {diagnostic(q, c) : q \in Parts(p)}
  <2>1. diagnostic(p, c) = IF Holds(p.cond, c) THEN all ELSE {}
    BY <1>3, BuiltNested, DiagnosticIsRecursive, Zenon DEF DiagnosticOf, IsConditional, Units
  <2>2. all # {} <=> \E q \in Parts(p) : Found(q)
    OBVIOUS
  <2> HIDE DEF all
  <2>3. is_valid(p, c) <=> (Holds(p.cond, c) => \A q \in Parts(p) : is_valid(q, c))
    BY <1>3, ConditionalSectionValid, BuiltNested DEF IsConditional
  <2>4. \A q \in Parts(p) : IsKey(q)
    BY <1>3 DEF IsConditional
  <2> HIDE DEF Found
  <2>5. Found(p) <=> Holds(p.cond, c) /\ all # {}
    BY <2>1 DEF Found
  <2> QED BY <1>2, <2>2, <2>3, <2>4, <2>5
<1> DEFINE every == UNION {diagnostic(q, c) : q \in Parts(s)}
<1>4. diagnostic(s, c) = every
  BY BuiltNested, DiagnosticIsRecursive, Zenon DEF DiagnosticOf, IsSection, Units
<1>5. diagnostic(s, c) # {} <=> \E q \in Parts(s) : Found(q)
  BY <1>4
<1>6. is_valid(s, c) <=> \A q \in Parts(s) : is_valid(q, c)
  BY SectionValid, BuiltNested DEF IsSection
<1>7. \A q \in Parts(s) : IsKey(q) \/ IsConditional(q)
  BY DEF IsSection
<1>8. ASSUME ~HasOptional(s), NEW q \in Parts(s)
      PROVE  q.kind # "optional" /\ (IsConditional(q) => \A r \in Parts(q) : r.kind # "optional")
  <2>1. Parts(s) = {s.specs[i] : i \in DOMAIN s.specs}
    BY SectionParts DEF IsSection
  <2>2. PICK i \in DOMAIN s.specs : q = s.specs[i]
    BY <2>1
  <2>3. q.kind # "optional"
    BY <1>8, <2>2 DEF HasOptional
  <2>4. ASSUME IsConditional(q), NEW r \in Parts(q)
        PROVE  r.kind # "optional"
    <3>1. Parts(q) = {q.specs[j] : j \in DOMAIN q.specs} /\ q.kind = "conditional_section"
      BY <2>4, SectionParts DEF IsConditional
    <3>2. PICK j \in DOMAIN q.specs : r = q.specs[j]
      BY <3>1
    <3> QED BY <1>8, <2>2, <3>1, <3>2 DEF HasOptional
  <2> QED BY <2>3, <2>4
<1> HIDE DEF Found, every
<1>9. is_valid(s, c) \/ \E q \in Parts(s) : Found(q)
  BY <1>2, <1>3, <1>6, <1>7
<1>10. ~HasOptional(s) => ((\E q \in Parts(s) : Found(q)) <=> ~is_valid(s, c))
  BY <1>2, <1>3, <1>6, <1>7, <1>8
<1> QED BY <1>5, <1>9, <1>10

LEMMA NestedOrNot == ASSUME NEW s, IsConditional(s) PROVE s # NoSpec
BY DEF IsConditional, NoSpec

LEMMA BuilderInitInv == BuilderInit => BuilderInv
<1> SUFFICES ASSUME BuilderInit PROVE BuilderInv
  OBVIOUS
<1>1. PICK section \in SectionNames, required \in BOOLEAN :
        /\ spec = SectionSpec(section, required)
        /\ mandates = (required /\ section \notin DOMAIN configuration)
  BY DEF BuilderInit
<1>2. /\ IsSection(spec) /\ spec.required = required
      /\ is_valid(spec, configuration) <=> (required => section \in DOMAIN configuration)
  BY <1>1, SectionStarts
<1>3. nested = NoSpec
  BY DEF BuilderInit
<1>4. mandates \in BOOLEAN /\ (mandates <=> ~is_valid(spec, configuration))
  BY <1>1, <1>2
<1>5. InSection
  BY <1>2 DEF IsSection, InSection
<1> QED BY <1>2, <1>3, <1>4, <1>5 DEF BuilderInv

\* One key or check more in the section spec that the calls extend.
LEMMA ExtendInv ==
  ASSUME BuilderInv, InSection, NEW x, IsKey(x), Extend(with_spec(Target, x)),
         mandates' = (mandates \/ (Applies /\ ~is_valid(x, configuration))),
         UNCHANGED configuration
  PROVE  BuilderInv'
<1>1. /\ mandates \in BOOLEAN /\ IsSection(spec) /\ spec.required \in BOOLEAN
      /\ nested = NoSpec \/ IsConditional(nested)
      /\ mandates <=> ~(/\ is_valid(spec, configuration)
                        /\ nested # NoSpec => is_valid(nested, configuration))
  BY DEF BuilderInv
<1>2. mandates' \in BOOLEAN
  BY <1>1
<1>3. CASE nested = NoSpec
  <2>1. spec' = with_spec(spec, x) /\ nested' = NoSpec
    BY <1>3 DEF Extend, Target
  <2>2. mandates' <=> mandates \/ ~is_valid(x, configuration)
    BY <1>3 DEF Applies
  <2>3. /\ IsSection(spec') /\ spec'.required = spec.required
        /\ is_valid(spec', configuration) <=>
             is_valid(spec, configuration) /\ is_valid(x, configuration)
    BY <1>1, <2>1, SectionGrows
  <2>4. InSection'
    BY <2>3 DEF InSection, IsSection
  <2>5. mandates' <=> ~is_valid(spec', configuration)
    BY <1>1, <1>3, <2>2, <2>3
  <2> QED BY <1>1, <1>2, <2>1, <2>3, <2>4, <2>5 DEF BuilderInv
<1>4. CASE nested # NoSpec
  <2>1. nested' = with_spec(nested, x) /\ spec' = spec
    BY <1>4 DEF Extend, Target
  <2>2. mandates' <=> mandates \/ (Holds(nested.cond, configuration) /\ ~is_valid(x, configuration))
    BY <1>4 DEF Applies
  <2>3. /\ IsConditional(nested')
        /\ is_valid(nested', configuration) <=>
             /\ is_valid(nested, configuration)
             /\ Holds(nested.cond, configuration) => is_valid(x, configuration)
    BY <1>1, <1>4, <2>1, ConditionalGrows
  <2>4. nested' # NoSpec
    BY <2>3, NestedOrNot
  <2>5. mandates' <=> ~(is_valid(spec', configuration) /\ is_valid(nested', configuration))
    BY <1>1, <1>4, <2>1, <2>2, <2>3
  <2>6. InSection'
    BY <2>1 DEF InSection
  <2> QED BY <1>1, <1>2, <2>1, <2>3, <2>4, <2>5, <2>6 DEF BuilderInv
<1> QED BY <1>3, <1>4

LEMMA KeyInv ==
  ASSUME BuilderInv, NEW key \in Keys, MustContain(key) \/ MayContain(key)
  PROVE  BuilderInv'
<1>1. PICK section : section = Target.section
  OBVIOUS
<1>2. CASE MustContain(key)
  <2> DEFINE m == Must(section, key)
  <2>1. Extend(with_spec(Target, m)) /\ InSection /\ UNCHANGED configuration
    BY <1>1, <1>2 DEF MustContain, must_contains, Must
  <2>2. IsKey(m) /\ (is_valid(m, configuration) <=> Needs(configuration, section, key))
    BY KeysAdded, MustValid
  <2>3. ~Needs(configuration, section, key) <=>
          section \in DOMAIN configuration /\ ~Has(configuration, section, key)
    BY DEF Needs, Has
  <2>4. mandates' = (mandates \/ (Applies /\ section \in DOMAIN configuration
                                          /\ ~Has(configuration, section, key)))
    BY <1>1, <1>2 DEF MustContain
  <2> HIDE DEF m
  <2>5. mandates' = (mandates \/ (Applies /\ ~is_valid(m, configuration)))
    BY <2>2, <2>3, <2>4
  <2> QED BY <2>1, <2>2, <2>5, ExtendInv
<1>3. CASE MayContain(key)
  <2> DEFINE o == OptionalSpec(Must(section, key))
  <2>1. Extend(with_spec(Target, o)) /\ InSection /\ UNCHANGED <<mandates, configuration>>
    BY <1>1, <1>3 DEF MayContain, may_contains, Must
  <2>2. IsKey(o) /\ is_valid(o, configuration)
    BY KeysAdded
  <2> HIDE DEF o
  <2>3. mandates' = (mandates \/ (Applies /\ ~is_valid(o, configuration)))
    BY <2>1, <2>2 DEF BuilderInv
  <2> QED BY <2>1, <2>2, <2>3, ExtendInv
<1> QED BY <1>2, <1>3

LEMMA ValuesInv ==
  ASSUME BuilderInv, NEW key \in Keys, NEW value \in Values, WithValues(key, {value})
  PROVE  BuilderInv'
<1>1. PICK section : section = Target.section
  OBVIOUS
<1> DEFINE v == PossibleValuesSpec(section, key, {value})
<1>2. Extend(with_spec(Target, v)) /\ InSection /\ UNCHANGED configuration
  BY <1>1 DEF WithValues, with_values
<1>3. IsKey(v) /\ (is_valid(v, configuration) <=> Allows(configuration, section, key, {value}))
  BY KeysAdded, ValuesValid
<1>4. mandates' = (mandates \/ (Applies /\ Has(configuration, section, key)
                                        /\ configuration[section][key] \notin {value}))
  BY <1>1 DEF WithValues
<1> HIDE DEF v
<1>5. mandates' = (mandates \/ (Applies /\ ~is_valid(v, configuration)))
  BY <1>3, <1>4 DEF Allows
<1> QED BY <1>2, <1>3, <1>5, ExtendInv

LEMMA CheckInv ==
  ASSUME BuilderInv, NEW b \in BOOLEAN, WithCheck(b)
  PROVE  BuilderInv'
<1> DEFINE f == FunctionSpec(Callable(b))
<1>1. Extend(with_spec(Target, f)) /\ InSection /\ UNCHANGED configuration
      /\ mandates' = (mandates \/ (Applies /\ ~b))
  BY DEF WithCheck, with_check
<1>2. IsKey(f) /\ (is_valid(f, configuration) <=> b)
  BY KeysAdded
<1> HIDE DEF f
<1>3. mandates' = (mandates \/ (Applies /\ ~is_valid(f, configuration)))
  BY <1>1, <1>2
<1> QED BY <1>1, <1>2, <1>3, ExtendInv

LEMMA WhenInv ==
  ASSUME BuilderInv, NEW key \in Keys, NEW value \in Values, WhenKeyValueIs(key, value)
  PROVE  BuilderInv'
<1>1. /\ InSection /\ nested = NoSpec /\ UNCHANGED <<spec, configuration, mandates>>
      /\ nested' = when_key_value_is(spec, key, value)
  BY DEF WhenKeyValueIs
<1>2. IsConditional(nested') /\ is_valid(nested', configuration)
  BY <1>1, ConditionalStarts DEF BuilderInv
<1>3. InSection'
  BY <1>1 DEF InSection
<1> QED BY <1>1, <1>2, <1>3 DEF BuilderInv

LEMMA EndWhenInv == ASSUME BuilderInv, EndWhen PROVE BuilderInv'
<1>1. /\ InSection /\ nested # NoSpec /\ UNCHANGED <<configuration, mandates>>
      /\ spec' = with_spec(spec, nested) /\ nested' = NoSpec
  BY DEF EndWhen
<1>2. /\ IsSection(spec') /\ spec'.required = spec.required
      /\ is_valid(spec', configuration) <=>
           is_valid(spec, configuration) /\ is_valid(nested, configuration)
  BY <1>1, SectionGrows DEF BuilderInv
<1>3. InSection'
  BY <1>2 DEF InSection, IsSection
<1> QED BY <1>1, <1>2, <1>3 DEF BuilderInv

\* What the specs that wrap a section spec make of it.
LEMMA Wrapped ==
  ASSUME NEW s, IsSection(s), NEW b \in BOOLEAN, NEW c
  PROVE  /\ OptionalSpec(s).kind = "optional" /\ is_valid(OptionalSpec(s), c)
         /\ ComposedSpec(<< s >>).kind = "composed"
         /\ is_valid(ComposedSpec(<< s >>), c) <=> is_valid(s, c)
         /\ diagnostic(ComposedSpec(<< s >>), c) = diagnostic(s, c)
         /\ ConditionalSpec(s, Callable(b)).kind = "conditional"
         /\ is_valid(ConditionalSpec(s, Callable(b)), c) <=> (b => diagnostic(s, c) = {})
         /\ is_valid(ConditionalSpec(s, Callable(b)), c) <=>
              diagnostic(ConditionalSpec(s, Callable(b)), c) = {}
<1>1. ASSUME NEW t, Parts(t) = {s}
      PROVE  Nested(4, t)
  <2>1. Nested3(s)
    BY BuiltNested DEF Nested
  <2> QED BY <1>1, <2>1 DEF Nested, Nested4
<1>2. OptionalSpec(s).kind = "optional" /\ is_valid(OptionalSpec(s), c)
  <2>1. Parts(OptionalSpec(s)) = {s}
    BY DEF OptionalSpec, Parts
  <2> QED BY <1>1, <2>1, OptionalValid DEF OptionalSpec
<1>3. /\ ComposedSpec(<< s >>).kind = "composed"
      /\ is_valid(ComposedSpec(<< s >>), c) <=> is_valid(s, c)
      /\ diagnostic(ComposedSpec(<< s >>), c) = diagnostic(s, c)
  <2> DEFINE t == ComposedSpec(<< s >>)
  <2>1. t.kind = "composed" /\ Parts(t) = Range(<< s >>)
    BY DEF ComposedSpec, Parts
  <2>2. Range(<< s >>) = {s}
    BY DEF Range
  <2> HIDE DEF t
  <2>3. is_valid(t, c) = (\A p \in Parts(t) : is_valid(p, c))
    BY <1>1, <2>1, <2>2, IsValidIsRecursive, Zenon DEF ValidOf, Units
  <2>4. diagnostic(t, c) = UNION {diagnostic(p, c) : p \in Parts(t)}
    BY <1>1, <2>1, <2>2, DiagnosticIsRecursive, Zenon DEF DiagnosticOf, Units
  <2>5. UNION {diagnostic(p, c) : p \in Parts(t)} = diagnostic(s, c)
    BY <2>1, <2>2
  <2> QED BY <2>1, <2>2, <2>3, <2>4, <2>5 DEF t
<1>4. /\ ConditionalSpec(s, Callable(b)).kind = "conditional"
      /\ is_valid(ConditionalSpec(s, Callable(b)), c) <=> (b => diagnostic(s, c) = {})
      /\ is_valid(ConditionalSpec(s, Callable(b)), c) <=>
           diagnostic(ConditionalSpec(s, Callable(b)), c) = {}
  <2> DEFINE k == Callable(b)
             t == ConditionalSpec(s, k)
  <2>1. t.kind = "conditional" /\ Parts(t) = {s} /\ t.cond = k
    BY DEF ConditionalSpec, Parts
  <2>2. Holds(k, c) = b
    BY Zenon DEF Callable, Holds
  <2> HIDE DEF t, k
  <2>3. is_valid(t, c) = (diagnostic(t, c) = {})
    BY <1>1, <2>1, IsValidIsRecursive, Zenon DEF ValidOf, Units
  <2>4. diagnostic(t, c) =
          IF Holds(t.cond, c) THEN UNION {diagnostic(p, c) : p \in Parts(t)} ELSE {}
    BY <1>1, <2>1, DiagnosticIsRecursive, Zenon DEF DiagnosticOf, Units
  <2>5. UNION {diagnostic(p, c) : p \in Parts(t)} = diagnostic(s, c)
    BY <2>1
  <2> QED BY <2>1, <2>2, <2>3, <2>4, <2>5 DEF t, k
<1> QED BY <1>2, <1>3, <1>4

LEMMA WrapInv == ASSUME BuilderInv, Wrap PROVE BuilderInv'
<1>1. /\ InSection /\ nested = NoSpec /\ nested' = NoSpec /\ configuration' = configuration
      /\ mandates \in BOOLEAN /\ IsSection(spec)
      /\ mandates <=> ~is_valid(spec, configuration)
  BY DEF BuilderInv, Wrap
<1>2. CASE spec' = OptionalSpec(spec) /\ mandates' = FALSE
  <2>1. spec'.kind = "optional" /\ is_valid(spec', configuration)
    BY <1>1, <1>2, Wrapped
  <2> QED BY <1>1, <1>2, <2>1 DEF BuilderInv, InSection
<1>3. CASE spec' = ComposedSpec(<< spec >>) /\ UNCHANGED mandates
  <2>1. /\ spec'.kind = "composed"
        /\ is_valid(spec', configuration) <=> is_valid(spec, configuration)
        /\ diagnostic(spec', configuration) = diagnostic(spec, configuration)
    BY <1>1, <1>3, Wrapped
  <2>2. diagnostic(spec, configuration) = {} => is_valid(spec, configuration)
    BY <1>1, NothingFound
  <2> QED BY <1>1, <1>3, <2>1, <2>2 DEF BuilderInv, InSection
<1>4. ASSUME NEW b \in BOOLEAN, HasOptional(spec) => WrapsOptional,
             spec' = ConditionalSpec(spec, Callable(b)), mandates' = (b /\ mandates)
      PROVE  BuilderInv'
  <2>1. /\ spec'.kind = "conditional"
        /\ is_valid(spec', configuration) <=> (b => diagnostic(spec, configuration) = {})
        /\ is_valid(spec', configuration) <=> diagnostic(spec', configuration) = {}
    BY <1>1, <1>4, Wrapped
  <2>2. /\ diagnostic(spec, configuration) = {} => is_valid(spec, configuration)
        /\ ~HasOptional(spec) =>
             (diagnostic(spec, configuration) = {} <=> is_valid(spec, configuration))
    BY <1>1, NothingFound
  <2>3. mandates' \in BOOLEAN /\ (is_valid(spec', configuration) => ~mandates')
    BY <1>1, <1>4, <2>1, <2>2
  <2>4. ~WrapsOptional => (is_valid(spec', configuration) <=> ~mandates')
    BY <1>1, <1>4, <2>1, <2>2
  <2> QED BY <1>1, <2>1, <2>3, <2>4 DEF BuilderInv, InSection
<1> QED BY <1>2, <1>3, <1>4 DEF Wrap

LEMMA BuilderInductive == BuilderSpec => []BuilderInv
<1>1. BuilderInv /\ [BuilderNext]_builderVars => BuilderInv'
  <2> SUFFICES ASSUME BuilderInv, [BuilderNext]_builderVars PROVE BuilderInv'
    OBVIOUS
  <2>1. CASE BuilderNext
    BY <2>1, KeyInv, ValuesInv, CheckInv, WhenInv, EndWhenInv, WrapInv DEF BuilderNext
  <2>2. CASE UNCHANGED builderVars
    BY <2>2 DEF builderVars, BuilderInv, InSection
  <2> QED BY <2>1, <2>2
<1> QED BY <1>1, BuilderInitInv, PTL DEF BuilderSpec

\* is_valid is what the calls that built the spec ask for, for all sections, keys and
\* values, however many specs are added and whatever condition they are nested in: with
\* every class of spec, if no optional spec is put into a ConditionalSpec.
THEOREM ValidityTheorem ==
  ASSUME ~WrapsOptional
  PROVE  BuilderSpec => []ValidMeansMandatesMet
<1>1. BuilderInv => ValidMeansMandatesMet
  BY DEF BuilderInv, ValidMeansMandatesMet
<1> QED BY <1>1, BuilderInductive, PTL

\* Whatever is put into a ConditionalSpec, a configuration that is_valid accepts fails
\* nothing mandatory: an optional spec in there can only make it refuse by mistake.
THEOREM NeverValidByMistake ==
  BuilderSpec => [](nested = NoSpec /\ is_valid(spec, configuration) => ~mandates)
<1>1. BuilderInv => (nested = NoSpec /\ is_valid(spec, configuration) => ~mandates)
  BY DEF BuilderInv
<1> QED BY <1>1, BuilderInductive, PTL

\* The SpecError that validate raises is never without a message: what is not valid,
\* with is_valid overridden as the classes do, has a diagnostic.
THEOREM RejectionsAreExplained ==
  BuilderSpec => [](~is_valid(spec, configuration) => diagnostic(spec, configuration) # {})
<1>1. BuilderInv => (~is_valid(spec, configuration) => diagnostic(spec, configuration) # {})
  BY NothingFound DEF BuilderInv
<1> QED BY <1>1, BuilderInductive, PTL
=============================================================================
