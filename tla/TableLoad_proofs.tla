-------------------------- MODULE TableLoad_proofs --------------------------
(***************************************************************************)
(* Proofs about TableLoad, for any program of calls, any number of retries *)
(* and any requests that may fail.                                         *)
(***************************************************************************)
EXTENDS TableLoad, TLAPS

\* The requests of a try that come before its load is sent.
Before == {"version", "spec", "newslot", "load"}

\* Which request comes when, and what the program knows of its calls.
ControlInv ==
  /\ pc # "idle" => current \in 1..Len(Calls)
  /\ pc \in Before => ~drained /\ pending = None
  /\ pc \in {"spec", "newslot", "progress", "deleteslot"} => kind = "update"
  /\ pc = "version" => kind # "update"
  /\ pc = "progress" => pending \in HTTPStatusErrors
  /\ \A i \in 1..Len(Calls) : results[i] = "unknown" <=> i > current \/ (i = current /\ pc # "idle")

\* A load belongs to a try that sent it, is whole, and is taken at most once.
LoadsInv ==
  /\ \A l \in accepted \cup late :
        /\ l.complete /\ l.call <= current
        /\ l.call = current /\ pc # "idle" => l.try <= nbTries
        /\ l.call = current /\ pc \in Before => l.try < nbTries
  /\ \A l \in late : l.late
  /\ \A l \in late, k \in accepted \cup late : k.call = l.call /\ k.try = l.try => k = l
  /\ late \cap accepted = {}

\* What the call under way loaded is in the table, unless a late load came over it.
Written ==
  /\ \E l \in accepted : l.call = current
  /\ table = current \/ \E l \in accepted : l.late /\ l.call = table

TableInv ==
  /\ pc = "deleteslot" /\ pending = None => Written
  /\ JustReturned => Written

\* The only open slot without a lost answer is that of the try under way.
SlotsInv ==
  /\ \A s \in slots : \/ \E l \in lost : l.slot = s
                      \/ s = slot /\ pc \in {"load", "progress", "deleteslot"} /\ kind = "update"
  /\ pc \in {"load", "progress", "deleteslot"} /\ kind = "update" => slot \in 1..lastSlot

IInv == TypeOK /\ ControlInv /\ LoadsInv /\ TableInv /\ SlotsInv /\ ConfirmedLoadEndsCall

LEMMA CallsFacts ==
  /\ Len(Calls) \in Nat /\ MaxRetries \in Nat
  /\ \A i \in 1..Len(Calls) : Calls[i] \in {"update", "create", "replace"}
BY CallsAssumption, RetriesAssumption

\* The first request of a call.
LEMMA FirstStepFacts ==
  ASSUME NEW i \in 1..Len(Calls)
  PROVE  /\ FirstStep(i) \in Before \ {"newslot"}
         /\ FirstStep(i) = "spec" => Calls[i] = "update"
         /\ FirstStep(i) \in {"version", "load"} => Calls[i] # "update"
BY CallsFacts, LobAssumption DEF FirstStep, Before

\* How a try ends: in the next try, or in the end of the call.
LEMMA TryEndsFacts ==
  ASSUME TypeOK, current \in 1..Len(Calls), NEW e \in {None} \cup Exceptions, TryEnds(e)
  PROVE  \/ /\ e # None /\ nbTries < MaxRetries
            /\ pc' = FirstStep(current) /\ nbTries' = nbTries + 1
            /\ drained' = FALSE /\ slot' = NoSlot /\ pending' = None
            /\ results' = results
         \/ /\ pc' = "idle" /\ pending' = e
            /\ results' = [results EXCEPT ![current] =
                             IF e = None THEN "returned" ELSE "raised"]
            /\ UNCHANGED <<nbTries, drained, slot>>
BY CallsFacts DEF TryEnds, Retryable, None, TypeOK

LEMMA InitIInv == Init => IInv
<1> SUFFICES ASSUME Init PROVE IInv
  OBVIOUS
<1>1. current \in 0..Len(Calls) /\ nbTries \in 0..MaxRetries /\ slot \in 0..lastSlot
  BY CallsFacts DEF Init, NoSlot
<1>2. TypeOK
  BY <1>1 DEF Init, TypeOK
<1>3. ControlInv
  BY DEF Init, ControlInv, Before
<1>4. LoadsInv /\ TableInv /\ SlotsInv /\ ConfirmedLoadEndsCall
  BY DEF Init, LoadsInv, TableInv, JustReturned, SlotsInv, ConfirmedLoadEndsCall
<1> QED
  BY <1>2, <1>3, <1>4 DEF IInv

\* A try that ended keeps everything that does not look at what the backend did:
\* the state of the backend must fit the state before.
LEMMA TryEndsStep ==
  ASSUME IInv, pc # "idle", NEW e \in {None} \cup Exceptions, TryEnds(e),
         current' = current,
         table' \in {NoTable, Initial} \cup 1..Len(Calls),
         late' \subseteq Loads, accepted' \subseteq Loads, LoadsInv',
         e = None => Written',
         lastSlot' \in Nat, slots' \subseteq 1..lastSlot', lastSlot <= lastSlot',
         lost' \subseteq [slot : 1..lastSlot', call : 1..Len(Calls), at : {"newslot", "deleteslot"}],
         \A s \in slots' : \E l \in lost' : l.slot = s,
         confirmed' \subseteq [call : 1..Len(Calls), slot : 0..lastSlot'],
         \A k \in confirmed' :
            \/ e = None /\ k.call = current
            \/ results[k.call] = "returned"
            \/ \E l \in lost' : l.slot = k.slot /\ l.call = k.call /\ l.at = "deleteslot"
  PROVE  IInv'
<1>1. current \in 1..Len(Calls) /\ TypeOK /\ ControlInv
  BY DEF IInv, ControlInv
<1>2. /\ FirstStep(current) \in Before \ {"newslot"}
      /\ FirstStep(current) = "spec" => Calls[current] = "update"
      /\ FirstStep(current) \in {"version", "load"} => Calls[current] # "update"
  BY <1>1, FirstStepFacts
<1>3. \/ /\ e # None /\ nbTries < MaxRetries
         /\ pc' = FirstStep(current) /\ nbTries' = nbTries + 1
         /\ drained' = FALSE /\ slot' = NoSlot /\ pending' = None
         /\ results' = results
      \/ /\ pc' = "idle" /\ pending' = e
         /\ results' = [results EXCEPT ![current] = IF e = None THEN "returned" ELSE "raised"]
         /\ UNCHANGED <<nbTries, drained, slot>>
  BY <1>1, TryEndsFacts
<1>4. TypeOK'
  <2>1. current' \in 0..Len(Calls) /\ slot' \in 0..lastSlot' /\ nbTries' \in 0..MaxRetries
    BY <1>1, <1>3, CallsFacts DEF TypeOK, NoSlot
  <2>2. /\ pc' \in {"idle", "version", "spec", "newslot", "load", "progress", "deleteslot"}
        /\ drained' \in BOOLEAN
        /\ pending' \in {None} \cup Exceptions
    BY <1>1, <1>2, <1>3 DEF TypeOK, Before
  <2>3. results' \in [1..Len(Calls) -> {"unknown", "returned", "raised"}]
    BY <1>1, <1>3 DEF TypeOK
  <2> QED
    BY <2>1, <2>2, <2>3 DEF TypeOK
<1>5. ControlInv'
  BY <1>1, <1>2, <1>3, CallsFacts DEF TypeOK, ControlInv, Before, kind
<1>6. TableInv'
  BY <1>1, <1>2, <1>3 DEF TypeOK, TableInv, JustReturned, Before
<1>7. SlotsInv'
  BY <1>2, <1>3 DEF SlotsInv, Before, kind
<1>8. ConfirmedLoadEndsCall'
  <2>1. results[current] = "unknown"
    BY <1>1 DEF ControlInv, TypeOK
  <2>2. \A i \in 1..Len(Calls) : results[i] = "returned" => results'[i] = "returned"
    BY <1>1, <1>3, <2>1 DEF TypeOK
  <2>3. e = None => results'[current] = "returned"
    BY <1>1, <1>3 DEF TypeOK
  <2>4. \A k \in confirmed' : k.call \in 1..Len(Calls)
    OBVIOUS
  <2> QED
    BY <2>2, <2>3, <2>4 DEF ConfirmedLoadEndsCall
<1> QED
  BY <1>4, <1>5, <1>6, <1>7, <1>8 DEF IInv

LEMMA NextCallStep == ASSUME IInv, NextCall PROVE IInv'
<1>1. current + 1 \in 1..Len(Calls) /\ pc = "idle" /\ current \in Nat
  BY CallsFacts DEF NextCall, IInv, TypeOK
<1>2. /\ pc' = FirstStep(current + 1) /\ current' = current + 1
      /\ nbTries' = 0 /\ drained' = FALSE /\ slot' = NoSlot /\ pending' = None
      /\ UNCHANGED <<results, slots, lastSlot, lost, table, late, accepted, confirmed>>
  BY DEF NextCall, Begin, slotVars, tableVars
<1>3. /\ FirstStep(current + 1) \in Before \ {"newslot"}
      /\ FirstStep(current + 1) = "spec" => Calls[current + 1] = "update"
      /\ FirstStep(current + 1) \in {"version", "load"} => Calls[current + 1] # "update"
  BY <1>1, FirstStepFacts
<1>4. TypeOK'
  <2>1. current' \in 0..Len(Calls) /\ slot' \in 0..lastSlot' /\ nbTries' \in 0..MaxRetries
    BY <1>1, <1>2, CallsFacts DEF IInv, TypeOK, NoSlot
  <2>2. /\ pc' \in {"idle", "version", "spec", "newslot", "load", "progress", "deleteslot"}
        /\ drained' \in BOOLEAN
        /\ pending' \in {None} \cup Exceptions
    BY <1>2, <1>3 DEF Before
  <2> QED
    BY <1>2, <2>1, <2>2 DEF IInv, TypeOK
<1>5. ControlInv'
  BY <1>1, <1>2, <1>3, CallsFacts DEF IInv, TypeOK, ControlInv, Before, kind
<1>6. LoadsInv'
  BY <1>1, <1>2 DEF IInv, TypeOK, LoadsInv, Loads, Before
<1>7. TableInv'
  BY <1>2, <1>3 DEF TableInv, JustReturned, Before
<1>8. SlotsInv'
  BY <1>1, <1>2, <1>3 DEF IInv, SlotsInv, Before, kind
<1>9. ConfirmedLoadEndsCall'
  BY <1>1, <1>2 DEF IInv, TypeOK, ConfirmedLoadEndsCall, InFinally
<1> QED
  BY <1>4, <1>5, <1>6, <1>7, <1>8, <1>9 DEF IInv

\* LoadsInv does not look at what a try that ends changes.
LEMMA TryEndsLoads ==
  ASSUME IInv, pc # "idle", NEW e \in {None} \cup Exceptions, TryEnds(e),
         UNCHANGED <<current, accepted, late>>
  PROVE  LoadsInv'
<1>1. current \in 1..Len(Calls) /\ TypeOK
  BY DEF IInv, ControlInv
<1>2. \/ pc' \in Before /\ nbTries' = nbTries + 1
      \/ pc' = "idle"
  BY <1>1, TryEndsFacts, FirstStepFacts
<1>3. \A l \in accepted \cup late : l.try \in Nat /\ nbTries \in Nat
  BY CallsFacts DEF IInv, TypeOK, Loads
<1> QED
  BY <1>2, <1>3 DEF IInv, LoadsInv, Before

\* The requests that come before the load, when they fail.
LEMMA EarlyTryEnds ==
  ASSUME IInv, pc \in {"version", "spec"}, NEW e \in Exceptions, TryEnds(e),
         UNCHANGED <<current, slotVars, tableVars, confirmed>>
  PROVE  IInv'
<1>1. e # None
  BY DEF Exceptions, HTTPErrors, HTTPStatusErrors, None
<1>2. LoadsInv'
  BY TryEndsLoads DEF tableVars
<1>3. /\ \A s \in slots : \E l \in lost : l.slot = s
      /\ \A k \in confirmed :
           \/ results[k.call] = "returned"
           \/ \E l \in lost : l.slot = k.slot /\ l.call = k.call /\ l.at = "deleteslot"
  BY DEF IInv, SlotsInv, ConfirmedLoadEndsCall, InFinally
<1> QED
  BY <1>1, <1>2, <1>3, TryEndsStep DEF IInv, TypeOK, slotVars, tableVars

\* A request before the load that succeeds leads to the next one.
LEMMA EarlyAdvance ==
  ASSUME IInv, pc \in {"version", "spec"}, pc' \in {"newslot", "load"},
         pc' = "newslot" => pc = "spec",
         pc' = "load" => pc = "version",
         UNCHANGED <<current, nbTries, drained, slot, pending, results,
                     slotVars, tableVars, confirmed>>
  PROVE  IInv'
<1>1. TypeOK'
  BY DEF IInv, TypeOK, slotVars, tableVars
<1>2. ControlInv'
  BY DEF IInv, ControlInv, Before, kind
<1>3. LoadsInv'
  BY DEF IInv, LoadsInv, Before, tableVars
<1>4. TableInv'
  BY DEF IInv, TableInv, JustReturned
<1>5. SlotsInv'
  BY DEF IInv, SlotsInv, ControlInv, slotVars, kind
<1>6. ConfirmedLoadEndsCall'
  BY DEF IInv, ConfirmedLoadEndsCall, InFinally, slotVars
<1> QED
  BY <1>1, <1>2, <1>3, <1>4, <1>5, <1>6 DEF IInv

LEMMA CheckBackendStep == ASSUME IInv, CheckBackend PROVE IInv'
<1>1. pc = "version" /\ UNCHANGED <<current, slotVars, tableVars, confirmed>>
  BY DEF CheckBackend
<1>2. CASE pc' = "load" /\ UNCHANGED <<nbTries, drained, slot, pending, results>>
  BY <1>1, <1>2, EarlyAdvance
<1>3. CASE \E e \in Exceptions : TryEnds(e)
  BY <1>1, <1>3, EarlyTryEnds
<1>4. "runtime" \in Exceptions /\ Failures("version") \subseteq Exceptions
  BY DEF Exceptions, Failures
<1> QED
  BY <1>2, <1>3, <1>4 DEF CheckBackend

LEMMA FcSpecStep == ASSUME IInv, FcSpec PROVE IInv'
<1>1. pc = "spec" /\ UNCHANGED <<current, slotVars, tableVars, confirmed>>
  BY DEF FcSpec
<1>2. CASE pc' = "newslot" /\ UNCHANGED <<nbTries, drained, slot, pending, results>>
  BY <1>1, <1>2, EarlyAdvance
<1>3. CASE \E e \in Exceptions : TryEnds(e)
  BY <1>1, <1>3, EarlyTryEnds
<1>4. "runtime" \in Exceptions /\ Failures("spec") \subseteq Exceptions
  BY DEF Exceptions, Failures
<1> QED
  BY <1>2, <1>3, <1>4 DEF FcSpec

\* What the backend has after n slots were opened, the answers of m of them lost.
LEMMA OpenSlotsFacts ==
  ASSUME IInv, current \in 1..Len(Calls), NEW n \in Nat, NEW m \in Nat, m <= n, OpenSlots(n, m)
  PROVE  /\ lastSlot' = lastSlot + n /\ lastSlot \in Nat
         /\ slots' \subseteq 1..lastSlot'
         /\ lost \subseteq lost'
         /\ lost' \subseteq [slot : 1..lastSlot', call : 1..Len(Calls),
                             at : {"newslot", "deleteslot"}]
         /\ \A s \in slots' : s \in slots \/ s \in (lastSlot + 1)..(lastSlot + n)
         /\ \A s \in (lastSlot + 1)..(lastSlot + m) : \E l \in lost' : l.slot = s
<1>1. /\ lastSlot \in Nat /\ slots \subseteq 1..lastSlot
      /\ lost \subseteq [slot : 1..lastSlot, call : 1..Len(Calls),
                         at : {"newslot", "deleteslot"}]
  BY DEF IInv, TypeOK
<1>2. /\ slots' = slots \cup (lastSlot + 1)..(lastSlot + n)
      /\ lastSlot' = lastSlot + n
      /\ lost' = lost \cup {Lost(s, "newslot") : s \in (lastSlot + 1)..(lastSlot + m)}
  BY DEF OpenSlots
<1>3. \A s \in (lastSlot + 1)..(lastSlot + m) :
        Lost(s, "newslot") \in [slot : 1..(lastSlot + n), call : 1..Len(Calls),
                               at : {"newslot", "deleteslot"}]
  BY <1>1 DEF Lost
<1>4. lost \subseteq [slot : 1..(lastSlot + n), call : 1..Len(Calls),
                     at : {"newslot", "deleteslot"}]
  BY <1>1
<1>5. ASSUME NEW s \in (lastSlot + 1)..(lastSlot + m) PROVE \E l \in lost' : l.slot = s
  <2>1. Lost(s, "newslot") \in lost'
    BY <1>2
  <2>2. Lost(s, "newslot").slot = s
    BY DEF Lost
  <2> QED
    BY <2>1, <2>2
<1>6. lost \subseteq lost'
      /\ lost' \subseteq [slot : 1..lastSlot', call : 1..Len(Calls),
                         at : {"newslot", "deleteslot"}]
  BY <1>2, <1>3, <1>4
<1>7. /\ slots' \subseteq 1..lastSlot'
      /\ \A s \in slots' : s \in slots \/ s \in (lastSlot + 1)..(lastSlot + n)
  BY <1>1, <1>2
<1>8. lastSlot' = lastSlot + n /\ lastSlot \in Nat
  BY <1>1, <1>2
<1> QED
  BY <1>5, <1>6, <1>7, <1>8, Zenon

LEMMA NewUploadSlotStep == ASSUME IInv, NewUploadSlot PROVE IInv'
<1>1. /\ pc = "newslot" /\ UNCHANGED <<current, tableVars, confirmed>>
      /\ current \in 1..Len(Calls) /\ lastSlot \in Nat
  BY DEF NewUploadSlot, IInv, ControlInv, TypeOK
<1>2. CASE /\ \E m \in LostAnswers("newslot") : OpenSlots(m + 1, m)
           /\ slot' = lastSlot' /\ pc' = "load"
           /\ UNCHANGED <<nbTries, drained, pending, results>>
  <2>1. PICK m \in {0, 1} : OpenSlots(m + 1, m)
    BY <1>2 DEF LostAnswers
  <2>2. /\ lastSlot' = lastSlot + (m + 1)
        /\ slots' \subseteq 1..lastSlot'
        /\ lost \subseteq lost'
        /\ lost' \subseteq [slot : 1..lastSlot', call : 1..Len(Calls),
                            at : {"newslot", "deleteslot"}]
        /\ \A s \in slots' : s \in slots \/ s \in (lastSlot + 1)..(lastSlot + (m + 1))
        /\ \A s \in (lastSlot + 1)..(lastSlot + m) : \E l \in lost' : l.slot = s
    BY <1>1, <2>1, OpenSlotsFacts
  <2>3. TypeOK'
    BY <1>1, <1>2, <2>2 DEF IInv, TypeOK, tableVars
  <2>4. ControlInv'
    BY <1>1, <1>2 DEF IInv, ControlInv, Before, kind
  <2>5. LoadsInv'
    BY <1>1, <1>2 DEF IInv, LoadsInv, Before, tableVars
  <2>6. TableInv'
    BY <1>2 DEF TableInv, JustReturned
  <2>7. SlotsInv'
    <3>1. ASSUME NEW s \in slots', s \notin slots PROVE s = slot' \/ \E l \in lost' : l.slot = s
      BY <1>1, <1>2, <2>2, <3>1
    <3>2. kind' = "update"
      BY <1>1 DEF IInv, ControlInv, kind
    <3>3. slot' \in 1..lastSlot'
      BY <1>1, <1>2, <2>1, <2>2
    <3> QED
      BY <1>1, <1>2, <2>2, <3>1, <3>2, <3>3 DEF IInv, SlotsInv
  <2>8. ConfirmedLoadEndsCall'
    BY <1>1, <1>2, <2>2 DEF IInv, ConfirmedLoadEndsCall, InFinally
  <2> QED
    BY <2>3, <2>4, <2>5, <2>6, <2>7, <2>8 DEF IInv
<1>3. CASE /\ \E e \in Failures("newslot") : TryEnds(e)
           /\ \E m \in LostAnswers("newslot") : OpenSlots(m, m)
  <2>1. PICK m \in {0, 1} : OpenSlots(m, m)
    BY <1>3 DEF LostAnswers
  <2>2. PICK e \in Exceptions : TryEnds(e)
    BY <1>3 DEF Failures, Exceptions
  <2>3. e # None
    BY DEF Exceptions, HTTPErrors, HTTPStatusErrors, None
  <2>4. /\ lastSlot' = lastSlot + m
        /\ slots' \subseteq 1..lastSlot'
        /\ lost \subseteq lost'
        /\ lost' \subseteq [slot : 1..lastSlot', call : 1..Len(Calls),
                            at : {"newslot", "deleteslot"}]
        /\ \A s \in slots' : s \in slots \/ s \in (lastSlot + 1)..(lastSlot + m)
        /\ \A s \in (lastSlot + 1)..(lastSlot + m) : \E l \in lost' : l.slot = s
    BY <1>1, <2>1, OpenSlotsFacts
  <2>5. \A s \in slots' : \E l \in lost' : l.slot = s
    BY <1>1, <2>4 DEF IInv, SlotsInv
  <2>6. LoadsInv'
    BY <1>1, <2>2, TryEndsLoads DEF tableVars
  <2>7. \A k \in confirmed' :
           \/ results[k.call] = "returned"
           \/ \E l \in lost' : l.slot = k.slot /\ l.call = k.call /\ l.at = "deleteslot"
    BY <1>1, <2>4 DEF IInv, ConfirmedLoadEndsCall, InFinally
  <2>9. lastSlot' \in Nat /\ lastSlot <= lastSlot'
    BY <1>1, <2>4
  <2>8. confirmed' \subseteq [call : 1..Len(Calls), slot : 0..lastSlot']
    BY <1>1, <2>9 DEF IInv, TypeOK
  <2> QED
    BY <1>1, <2>2, <2>3, <2>4, <2>5, <2>6, <2>7, <2>8, <2>9, TryEndsStep
       DEF IInv, TypeOK, tableVars
<1> QED
  BY <1>2, <1>3 DEF NewUploadSlot

LEMMA LoadFacts ==
  ASSUME IInv, pc = "load"
  PROVE  /\ Load \in Loads /\ LateLoadOf \in Loads
         /\ Load.call = current /\ LateLoadOf.call = current
         /\ Load.try = nbTries /\ LateLoadOf.try = nbTries
         /\ Load.complete /\ LateLoadOf.complete /\ ~Load.late /\ LateLoadOf.late
         /\ nbTries \in Nat /\ current \in 1..Len(Calls)
<1>1. current \in 1..Len(Calls) /\ nbTries \in 0..MaxRetries /\ drained = FALSE
  BY DEF IInv, TypeOK, ControlInv, Before
<1>2. Load = [call |-> current, try |-> nbTries, complete |-> TRUE, late |-> FALSE]
  BY <1>1 DEF Load, LoadTaken
<1>3. LateLoadOf = [call |-> current, try |-> nbTries, complete |-> TRUE, late |-> TRUE]
  BY <1>1 DEF LateLoadOf, LoadTaken
<1>4. current \in Nat /\ nbTries \in Nat
  BY <1>1, CallsFacts
<1>5. Load \in Loads /\ LateLoadOf \in Loads
  BY <1>1, <1>2, <1>3 DEF Loads
<1>6. /\ Load.call = current /\ LateLoadOf.call = current
      /\ Load.try = nbTries /\ LateLoadOf.try = nbTries
  BY <1>2, <1>3
<1>7. Load.complete /\ LateLoadOf.complete /\ ~Load.late /\ LateLoadOf.late
  BY <1>2, <1>3, Zenon
<1> QED
  BY <1>1, <1>4, <1>5, <1>6, <1>7, Zenon

\* A load that was sent fits LoadsInv, whatever the call does next.
LEMMA SentLoads ==
  ASSUME IInv, pc = "load", current' = current,
         \/ accepted' = accepted /\ late' \in {late, late \cup {LateLoadOf}}
         \/ accepted' = accepted \cup {Load} /\ late' = late,
         \/ pc' \in Before /\ nbTries' = nbTries + 1
         \/ pc' = "idle"
         \/ pc' \in {"progress", "deleteslot"} /\ nbTries' = nbTries
  PROVE  LoadsInv' /\ accepted' \subseteq Loads /\ late' \subseteq Loads
<1> DEFINE all == accepted \cup late
<1>1. /\ \A l \in all : /\ l.complete /\ l.call <= current /\ l.try \in Nat
                        /\ l.call = current => l.try < nbTries
      /\ nbTries \in Nat /\ current \in Nat
  BY LoadFacts DEF IInv, TypeOK, Loads, LoadsInv, Before
<1>2. accepted' \subseteq Loads /\ late' \subseteq Loads
  BY LoadFacts DEF IInv, TypeOK
<1>6. Load # LateLoadOf
  BY LoadFacts
<1>3. PICK new \in {Load, LateLoadOf} :
        /\ accepted' \cup late' \subseteq all \cup {new}
        /\ new = Load => late' = late
        /\ new = LateLoadOf => accepted' = accepted
        /\ late' \subseteq late \cup {new} /\ accepted' \subseteq accepted \cup {new}
  <2>1. CASE accepted' = accepted /\ late' \in {late, late \cup {LateLoadOf}}
    <3> WITNESS LateLoadOf \in {Load, LateLoadOf}
    <3> QED
      BY <1>6, <2>1
  <2>2. CASE accepted' = accepted \cup {Load} /\ late' = late
    <3> WITNESS Load \in {Load, LateLoadOf}
    <3> QED
      BY <1>6, <2>2
  <2> QED
    BY <2>1, <2>2
<1>4. new.complete /\ new.call = current /\ new.try = nbTries
  BY LoadFacts
<1>5. \A l \in all : ~(l.call = new.call /\ l.try = new.try)
  BY <1>1, <1>4
<1>7. \A l \in accepted' \cup late' :
        /\ l.complete /\ l.call <= current
        /\ l.call = current => l.try <= nbTries /\ (pc' \in Before => l.try < nbTries')
  BY <1>1, <1>3, <1>4 DEF Before
<1>8. \A l \in late' : l.late
  BY <1>3, LoadFacts DEF IInv, LoadsInv
<1>9. \A l \in late', k \in accepted' \cup late' :
         k.call = l.call /\ k.try = l.try => k = l
  BY <1>3, <1>5 DEF IInv, LoadsInv
<1>10. late' \cap accepted' = {}
  BY <1>3, <1>5, <1>6 DEF IInv, LoadsInv
<1>11. pc' # "idle" => (\A l \in accepted' \cup late' : l.call = current => l.try <= nbTries')
  BY <1>1, <1>3, <1>4
<1> QED
  BY <1>2, <1>7, <1>8, <1>9, <1>10, <1>11 DEF LoadsInv

\* The load fails: on to the progress, the slot, or the end of the try.
LEMMA LoadFailsStep ==
  ASSUME IInv, pc = "load", NEW e \in HTTPErrors, LoadFails(e),
         UNCHANGED <<current, slotVars, confirmed>>,
         table' \in {NoTable, Initial} \cup 1..Len(Calls),
         \/ accepted' = accepted /\ late' \in {late, late \cup {LateLoadOf}}
         \/ accepted' = accepted \cup {Load} /\ late' = late
  PROVE  IInv'
<1>1. /\ current \in 1..Len(Calls) /\ TypeOK /\ ControlInv
      /\ e \in Exceptions /\ e # None
  BY DEF IInv, ControlInv, Exceptions, HTTPErrors, HTTPStatusErrors, None
<1>2. CASE kind = "update"
  <2>1. /\ pc' \in {"progress", "deleteslot"} /\ pending' = e /\ drained' = TRUE
        /\ pc' = "progress" => e \in HTTPStatusErrors
        /\ UNCHANGED <<nbTries, slot, results>>
    BY <1>2 DEF LoadFails
  <2>2. LoadsInv' /\ accepted' \subseteq Loads /\ late' \subseteq Loads
    BY <2>1, SentLoads
  <2>3. TypeOK'
    BY <1>1, <2>1, <2>2 DEF TypeOK, slotVars
  <2>4. ControlInv'
    BY <1>1, <1>2, <2>1 DEF ControlInv, Before, kind
  <2>5. TableInv'
    BY <1>1, <2>1 DEF TableInv, JustReturned
  <2>6. SlotsInv'
    BY <1>2, <2>1 DEF IInv, SlotsInv, slotVars, kind
  <2>7. ConfirmedLoadEndsCall'
    BY <2>1 DEF IInv, ConfirmedLoadEndsCall, InFinally, slotVars
  <2> QED
    BY <2>2, <2>3, <2>4, <2>5, <2>6, <2>7 DEF IInv
<1>3. CASE kind # "update"
  <2>1. TryEnds(e)
    BY <1>3 DEF LoadFails
  <2>2. (pc' \in Before /\ nbTries' = nbTries + 1) \/ pc' = "idle"
    BY <1>1, <2>1, TryEndsFacts, FirstStepFacts
  <2>3. LoadsInv' /\ accepted' \subseteq Loads /\ late' \subseteq Loads
    BY <2>2, SentLoads
  <2>4. \A s \in slots : \E l \in lost : l.slot = s
    BY <1>3 DEF IInv, SlotsInv
  <2>5. \A k \in confirmed :
           \/ results[k.call] = "returned"
           \/ \E l \in lost : l.slot = k.slot /\ l.call = k.call /\ l.at = "deleteslot"
    BY DEF IInv, ConfirmedLoadEndsCall, InFinally
  <2> QED
    BY <1>1, <2>1, <2>3, <2>4, <2>5, TryEndsStep DEF TypeOK, slotVars
<1> QED
  BY <1>2, <1>3

\* The backend takes the load and says so.
LEMMA LoadTakenStep ==
  ASSUME IInv, pc = "load", Take(Load), confirmed' = confirmed \cup {[call |-> current, slot |-> slot]},
         UNCHANGED <<current, slotVars, late>>,
         IF kind = "update"
         THEN /\ pc' = "deleteslot" /\ drained' = TRUE
              /\ UNCHANGED <<nbTries, slot, pending, results>>
         ELSE TryEnds(None)
  PROVE  IInv'
<1>1. /\ current \in 1..Len(Calls) /\ TypeOK /\ ControlInv /\ pending = None
      /\ table' = current /\ accepted' = accepted \cup {Load}
  BY LoadFacts DEF IInv, ControlInv, Before, Take
<1>2. Written'
  BY <1>1, LoadFacts DEF Written
<1>3. /\ confirmed' \subseteq [call : 1..Len(Calls), slot : 0..lastSlot]
      /\ \A k \in confirmed' :
           \/ k.call = current /\ k.slot = slot
           \/ results[k.call] = "returned"
           \/ \E l \in lost : l.slot = k.slot /\ l.call = k.call /\ l.at = "deleteslot"
  BY <1>1 DEF IInv, TypeOK, ConfirmedLoadEndsCall, InFinally
<1>4. CASE kind = "update"
  <2>1. /\ pc' = "deleteslot" /\ drained' = TRUE
        /\ UNCHANGED <<nbTries, slot, pending, results>>
    BY <1>4
  <2>2. LoadsInv' /\ accepted' \subseteq Loads /\ late' \subseteq Loads
    BY <1>1, <2>1, SentLoads
  <2>4. TypeOK'
    BY <1>1, <1>3, <2>1, <2>2 DEF TypeOK, slotVars
  <2>5. ControlInv'
    BY <1>1, <1>4, <2>1 DEF ControlInv, Before, kind
  <2>6. TableInv'
    BY <1>2, <2>1 DEF TableInv, JustReturned
  <2>7. SlotsInv'
    BY <1>4, <2>1 DEF IInv, SlotsInv, slotVars, kind
  <2>8. ConfirmedLoadEndsCall'
    BY <1>1, <1>3, <2>1 DEF ConfirmedLoadEndsCall, InFinally, slotVars
  <2> QED
    BY <2>2, <2>4, <2>5, <2>6, <2>7, <2>8 DEF IInv
<1>5. CASE kind # "update"
  <2>1. TryEnds(None)
    BY <1>5
  <2>2. pc' = "idle"
    BY <1>1, <2>1, TryEndsFacts
  <2>3. LoadsInv' /\ accepted' \subseteq Loads /\ late' \subseteq Loads
    BY <1>1, <2>2, SentLoads
  <2>4. \A s \in slots : \E l \in lost : l.slot = s
    BY <1>5 DEF IInv, SlotsInv
  <2> QED
    BY <1>1, <1>2, <1>3, <2>1, <2>3, <2>4, TryEndsStep DEF TypeOK, slotVars
<1> QED
  BY <1>4, <1>5

LEMMA SendLoadStep == ASSUME IInv, SendLoad PROVE IInv'
<1>1. /\ pc = "load" /\ UNCHANGED <<current, slotVars>>
      /\ table \in {NoTable, Initial} \cup 1..Len(Calls)
  BY DEF SendLoad, IInv, TypeOK
<1>2. Take(Load) => table' = current /\ accepted' = accepted \cup {Load}
  BY <1>1, LoadFacts DEF Take
<1>3. "refused" \in HTTPErrors /\ Failures("load") \subseteq HTTPErrors
  BY DEF HTTPErrors, HTTPStatusErrors, Failures
<1>4. current \in 1..Len(Calls)
  BY <1>1, LoadFacts
<1>5. CASE /\ Take(Load) /\ confirmed' = confirmed \cup {[call |-> current, slot |-> slot]} /\ UNCHANGED late
           /\ IF kind = "update"
              THEN /\ pc' = "deleteslot" /\ drained' = TRUE
                   /\ UNCHANGED <<nbTries, slot, pending, results>>
              ELSE TryEnds(None)
  BY <1>1, <1>5, LoadTakenStep
<1>6. ASSUME NEW e \in HTTPErrors, LoadFails(e), UNCHANGED <<tableVars, confirmed>>
      PROVE  IInv'
  BY <1>1, <1>6, LoadFailsStep DEF tableVars
<1>7. ASSUME NEW e \in HTTPErrors, LoadFails(e), UNCHANGED confirmed,
             \/ Take(Load) /\ UNCHANGED late
             \/ /\ late' = late \cup {LateLoadOf}
                /\ UNCHANGED <<table, accepted>>
      PROVE  IInv'
  BY <1>1, <1>2, <1>4, <1>7, LoadFailsStep
<1> QED
  BY <1>3, <1>5, <1>6, <1>7 DEF SendLoad

LEMMA ProgressStep == ASSUME IInv, Progress PROVE IInv'
<1>1. /\ pc = "progress" /\ pc' = "deleteslot"
      /\ UNCHANGED <<programVars, nbTries, drained, slot, slotVars, tableVars, confirmed>>
  BY DEF Progress
<1>2. pending' \in Exceptions
  BY DEF Progress, Exceptions, Uploading, Failures
<1>3. pending' # None
  BY <1>2 DEF Exceptions, HTTPErrors, HTTPStatusErrors, None
<1>4. TypeOK'
  BY <1>1, <1>2 DEF IInv, TypeOK, programVars, slotVars, tableVars
<1>5. ControlInv'
  BY <1>1 DEF IInv, ControlInv, Before, kind, programVars
<1>6. LoadsInv'
  BY <1>1 DEF IInv, LoadsInv, Before, programVars, tableVars
<1>7. TableInv'
  BY <1>1, <1>3 DEF TableInv, JustReturned
<1>8. SlotsInv'
  BY <1>1 DEF IInv, SlotsInv, slotVars, programVars, kind
<1>9. ConfirmedLoadEndsCall'
  BY <1>1 DEF IInv, ConfirmedLoadEndsCall, InFinally, slotVars, programVars
<1> QED
  BY <1>4, <1>5, <1>6, <1>7, <1>8, <1>9 DEF IInv

LEMMA DeleteSlotStep == ASSUME IInv, DeleteSlot PROVE IInv'
<1>1. /\ pc = "deleteslot" /\ UNCHANGED <<current, lastSlot, tableVars, confirmed>>
      /\ current \in 1..Len(Calls) /\ TypeOK
  BY DEF DeleteSlot, IInv, ControlInv
<1>2. \A k \in confirmed :
         \/ k.call = current /\ k.slot = slot /\ pending = None
         \/ results[k.call] = "returned"
         \/ \E l \in lost : l.slot = k.slot /\ l.call = k.call /\ l.at = "deleteslot"
  BY DEF IInv, ConfirmedLoadEndsCall, InFinally
<1>3. CASE TryEnds(pending) /\ slots' = slots \ {slot} /\ UNCHANGED lost
  <2>1. pending \in {None} \cup Exceptions
    BY <1>1 DEF TypeOK
  <2>2. LoadsInv'
    BY <1>1, <1>3, <2>1, TryEndsLoads DEF tableVars
  <2>3. pending = None => Written'
    BY <1>1 DEF IInv, TableInv, Written, tableVars
  <2>4. \A s \in slots' : \E l \in lost' : l.slot = s
    BY <1>3 DEF IInv, SlotsInv
  <2> QED
    BY <1>1, <1>2, <1>3, <2>1, <2>2, <2>3, <2>4, TryEndsStep DEF TypeOK, tableVars
<1>4. ASSUME NEW e \in Exceptions, TryEnds(e), slots' \in {slots, slots \ {slot}},
             lost' = lost \cup {Lost(slot, "deleteslot")}
      PROVE  IInv'
  <2>1. e # None
    BY DEF Exceptions, HTTPErrors, HTTPStatusErrors, None
  <2>2. LoadsInv'
    BY <1>1, <1>4, TryEndsLoads DEF tableVars
  <2>6. /\ Lost(slot, "deleteslot") \in lost' /\ lost \subseteq lost'
        /\ Lost(slot, "deleteslot") \in [slot : 1..lastSlot, call : 1..Len(Calls),
                                        at : {"newslot", "deleteslot"}]
        /\ Lost(slot, "deleteslot").slot = slot
        /\ Lost(slot, "deleteslot").call = current
        /\ Lost(slot, "deleteslot").at = "deleteslot"
    BY <1>1, <1>4 DEF IInv, SlotsInv, ControlInv, Lost
  <2>3. \A s \in slots' : \E l \in lost' : l.slot = s
    BY <1>1, <1>4, <2>6 DEF IInv, SlotsInv
  <2>4. \A k \in confirmed :
           \/ results[k.call] = "returned"
           \/ \E l \in lost' : l.slot = k.slot /\ l.call = k.call /\ l.at = "deleteslot"
    BY <1>2, <2>6
  <2>5. lost' \subseteq [slot : 1..lastSlot', call : 1..Len(Calls),
                        at : {"newslot", "deleteslot"}]
    BY <1>1, <1>4, <2>6 DEF TypeOK
  <2> QED
    BY <1>1, <1>2, <1>4, <2>1, <2>2, <2>3, <2>4, <2>5, TryEndsStep DEF TypeOK, tableVars
<1>5. Failures("deleteslot") \subseteq Exceptions
  BY DEF Exceptions, Failures
<1> QED
  BY <1>3, <1>4, <1>5 DEF DeleteSlot

\* A late load is taken as the late load it is, after the call that sent it.
LEMMA LateLoadStep == ASSUME IInv, LateLoad PROVE IInv'
<1>1. UNCHANGED <<current, results, pc, nbTries, drained, slot, pending,
                  slots, lastSlot, lost, confirmed>>
  BY DEF LateLoad, programVars, tryVars, slotVars
<1>2. PICK l \in late : late' = late \ {l} /\ (Take(l) \/ UNCHANGED <<table, accepted>>)
  BY DEF LateLoad
<1>3. l.late /\ l.call \in 1..Len(Calls) /\ l \in Loads
  BY DEF IInv, TypeOK, LoadsInv, Loads
<1>4. \/ table' = l.call /\ accepted' = accepted \cup {l}
      \/ table' = table /\ accepted' = accepted
  BY <1>2 DEF Take
<1>5. TypeOK'
  BY <1>1, <1>2, <1>3, <1>4 DEF IInv, TypeOK
<1>6. ControlInv'
  BY <1>1 DEF IInv, ControlInv, Before, kind
<1>7. LoadsInv'
  BY <1>1, <1>2, <1>4 DEF IInv, LoadsInv, Before
<1>8. TableInv'
  BY <1>1, <1>3, <1>4 DEF IInv, TableInv, JustReturned, Written
<1>9. SlotsInv'
  BY <1>1 DEF IInv, SlotsInv, kind
<1>10. ConfirmedLoadEndsCall'
  BY <1>1 DEF IInv, ConfirmedLoadEndsCall, InFinally
<1> QED
  BY <1>5, <1>6, <1>7, <1>8, <1>9, <1>10 DEF IInv

LEMMA IInvStep == IInv /\ [Next]_vars => IInv'
<1>1. ASSUME IInv, UNCHANGED vars PROVE IInv'
  BY <1>1 DEF IInv, TypeOK, ControlInv, LoadsInv, TableInv, SlotsInv, ConfirmedLoadEndsCall, InFinally, Written,
              JustReturned, Before, kind, vars, programVars, tryVars, slotVars, tableVars
<1> QED
  BY <1>1, NextCallStep, CheckBackendStep, FcSpecStep, NewUploadSlotStep, SendLoadStep,
     ProgressStep, DeleteSlotStep, LateLoadStep DEF Next, Step

LEMMA Invariance == Spec => []IInv
BY InitIInv, IInvStep, PTL DEF Spec

\* The state keeps its shape; a try beyond the delays is never made (retry,
\* session.py).
THEOREM TypeCorrect == Spec => []TypeOK
<1>1. IInv => TypeOK
  BY DEF IInv
<1> QED
  BY <1>1, Invariance, PTL

\* Between two calls no upload slot is open but those whose newuploadslot or
\* deleteslot was not answered (the finally of update_table).
THEOREM SlotsAreFreed == Spec => []NoSlotLeft
<1>1. IInv => NoSlotLeft
  BY DEF IInv, SlotsInv, NoSlotLeft
<1> QED
  BY <1>1, Invariance, PTL

\* The table holds the rows of the last call that returned, unless the backend
\* executed a load late (update_pandas and push_pandas).
THEOREM LastReturned == Spec => []LastReturnedWins
<1>1. IInv => LastReturnedWins
  BY DEF IInv, TableInv, Written, LastReturnedWins
<1> QED
  BY <1>1, Invariance, PTL

\* A load that was answered with success ends its call, which returns, unless the slot
\* of this very load could not be deleted (the retry around the whole of update_table).
THEOREM ConfirmedEndsCall == Spec => []ConfirmedLoadEndsCall
<1>1. IInv => ConfirmedLoadEndsCall
  BY DEF IInv
<1> QED
  BY <1>1, Invariance, PTL

\* The call under way, as LoadPromise sees it.
LEMMA UnderWayFacts ==
  ASSUME IInv, pc # "idle"
  PROVE  current \in 1..Len(Calls) /\ Promise!UnderWay(current)
BY CallsFacts DEF IInv, ControlInv, Promise!UnderWay

\* A try that failed without a load of its own: the call goes on or raises.
LEMMA TryEndsPromise ==
  ASSUME IInv, pc # "idle", NEW e \in Exceptions, TryEnds(e), UNCHANGED <<table, accepted>>
  PROVE  [Promise!LoadPromiseNext]_(Promise!loadVars)
<1>1. current \in 1..Len(Calls) /\ Promise!UnderWay(current) /\ e # None
  BY UnderWayFacts DEF Exceptions, HTTPErrors, HTTPStatusErrors, None
<1>2. results' = results \/ results' = [results EXCEPT ![current] = "raised"]
  BY <1>1, TryEndsFacts DEF IInv
<1>3. CASE results' = results
  BY <1>3 DEF Promise!loadVars
<1>4. CASE results' = [results EXCEPT ![current] = "raised"]
  <2>1. Promise!Raise(current)
    BY <1>1, <1>4 DEF Promise!Raise
  <2> QED
    BY <1>1, <2>1 DEF Promise!LoadPromiseNext
<1> QED
  BY <1>2, <1>3, <1>4

\* The backend takes the load of the try: a new one, the call's own.
LEMMA TakePromise ==
  ASSUME IInv, pc = "load", Take(Load),
         \/ results' = results
         \/ \E o \in {"returned", "raised"} : results' = [results EXCEPT ![current] = o]
  PROVE  [Promise!LoadPromiseNext]_(Promise!loadVars)
<1>1. /\ current \in 1..Len(Calls) /\ Promise!UnderWay(current)
      /\ Load.call = current /\ Load.try = nbTries /\ ~Load.late
  BY UnderWayFacts, LoadFacts
<1>2. Load \in Promise!PromisedLoads
  <2>1. Load \in Loads /\ Load.complete
    BY LoadFacts
  <2> QED
    BY <2>1 DEF Loads, Promise!PromisedLoads
<1>3. \A w \in accepted : w.call = Load.call => w.try # Load.try
  <2>1. \A w \in accepted : w.call = current => w.try < nbTries
    BY DEF IInv, LoadsInv, Before
  <2>2. \A w \in accepted : w.try \in Nat /\ nbTries \in Nat
    BY CallsFacts DEF IInv, TypeOK, Loads
  <2> QED
    BY <1>1, <2>1, <2>2
<1>4. table' = Load.call /\ accepted' = accepted \cup {Load}
  BY DEF Take
<1>5. CASE results' = results
  <2>1. Promise!Write(Load)
    BY <1>1, <1>3, <1>4, <1>5 DEF Promise!Write
  <2> QED
    BY <1>2, <2>1 DEF Promise!LoadPromiseNext
<1>6. CASE \E o \in {"returned", "raised"} : results' = [results EXCEPT ![current] = o]
  <2>1. Promise!WriteAndReturn(Load)
    BY <1>1, <1>3, <1>4, <1>6 DEF Promise!WriteAndReturn
  <2> QED
    BY <1>2, <2>1 DEF Promise!LoadPromiseNext
<1> QED
  BY <1>5, <1>6

LEMMA SendLoadPromise ==
  ASSUME IInv, SendLoad PROVE [Promise!LoadPromiseNext]_(Promise!loadVars)
<1>1. pc = "load" /\ current \in 1..Len(Calls) /\ TypeOK
  BY LoadFacts DEF SendLoad, IInv
<1>2. /\ "refused" \in HTTPErrors /\ Failures("load") \subseteq HTTPErrors
      /\ HTTPErrors \subseteq Exceptions
  BY DEF HTTPErrors, HTTPStatusErrors, Failures, Exceptions
<1>3. CASE Take(Load) /\ IF kind = "update"
                         THEN UNCHANGED <<nbTries, slot, pending, results>>
                         ELSE TryEnds(None)
  <2>1. results' = results \/ results' = [results EXCEPT ![current] = "returned"]
    BY <1>1, <1>3, TryEndsFacts
  <2> QED
    BY <1>1, <1>3, <2>1, TakePromise
<1>4. ASSUME NEW e \in HTTPErrors, LoadFails(e),
             Take(Load) \/ UNCHANGED <<table, accepted>>
      PROVE  [Promise!LoadPromiseNext]_(Promise!loadVars)
  <2>1. CASE results' = results
    BY <1>1, <1>4, <2>1, TakePromise DEF Promise!loadVars
  <2>2. CASE results' # results
    <3>1. TryEnds(e)
      BY <1>4, <2>2 DEF LoadFails
    <3>2. e # None
      BY DEF HTTPErrors, HTTPStatusErrors, None
    <3>3. results' = [results EXCEPT ![current] = "raised"]
      BY <1>1, <1>2, <2>2, <3>1, <3>2, TryEndsFacts
    <3> QED
      BY <1>1, <1>2, <1>4, <3>1, <3>3, TakePromise, TryEndsPromise
  <2> QED
    BY <2>1, <2>2
<1>5. UNCHANGED tableVars => UNCHANGED <<table, accepted>>
  BY DEF tableVars
<1> QED
  BY <1>2, <1>3, <1>4, <1>5 DEF SendLoad

LEMMA DeleteSlotPromise ==
  ASSUME IInv, DeleteSlot PROVE [Promise!LoadPromiseNext]_(Promise!loadVars)
<1>1. /\ pc = "deleteslot" /\ UNCHANGED <<table, accepted>> /\ TypeOK
      /\ current \in 1..Len(Calls) /\ Promise!UnderWay(current)
  BY UnderWayFacts DEF DeleteSlot, IInv, tableVars
<1>2. CASE TryEnds(None) /\ pending = None
  <2>1. results' = [results EXCEPT ![current] = "returned"]
    BY <1>1, <1>2, TryEndsFacts
  <2>2. Written
    BY <1>1, <1>2 DEF IInv, TableInv
  <2>3. Promise!Return(current)
    BY <1>1, <2>1, <2>2 DEF Written, Promise!Return
  <2> QED
    BY <1>1, <2>3 DEF Promise!LoadPromiseNext
<1>3. CASE \E e \in Exceptions : TryEnds(e)
  BY <1>1, <1>3, TryEndsPromise
<1>4. Failures("deleteslot") \subseteq Exceptions /\ pending \in {None} \cup Exceptions
  BY <1>1 DEF Exceptions, Failures, TypeOK
<1> QED
  BY <1>2, <1>3, <1>4 DEF DeleteSlot

LEMMA LateLoadPromise ==
  ASSUME IInv, LateLoad PROVE [Promise!LoadPromiseNext]_(Promise!loadVars)
<1>1. PICK l \in late : Take(l) \/ UNCHANGED <<table, accepted>>
  BY DEF LateLoad
<1>2. results' = results
  BY DEF LateLoad, programVars
<1>3. CASE UNCHANGED <<table, accepted>>
  BY <1>2, <1>3 DEF Promise!loadVars
<1>4. CASE Take(l)
  <2>1. l \in Loads /\ l.complete /\ l.late
    BY DEF IInv, TypeOK, LoadsInv
  <2>2. l \in Promise!PromisedLoads
    BY <2>1 DEF Loads, Promise!PromisedLoads
  <2>3. \A w \in accepted : w.call = l.call => w.try # l.try
    BY DEF IInv, LoadsInv
  <2>4. Promise!Write(l)
    BY <1>2, <1>4, <2>1, <2>3 DEF Take, Promise!Write
  <2> QED
    BY <2>2, <2>4 DEF Promise!LoadPromiseNext
<1> QED
  BY <1>1, <1>3, <1>4

LEMMA StepPromise ==
  IInv /\ [Next]_vars => [Promise!LoadPromiseNext]_(Promise!loadVars)
<1> SUFFICES ASSUME IInv, [Next]_vars PROVE [Promise!LoadPromiseNext]_(Promise!loadVars)
  OBVIOUS
<1>1. CASE UNCHANGED <<results, table, accepted>>
  BY <1>1 DEF Promise!loadVars
<1>2. UNCHANGED vars \/ NextCall \/ Progress => UNCHANGED <<results, table, accepted>>
  BY DEF vars, NextCall, Progress, programVars, tableVars
<1>3. CASE CheckBackend \/ FcSpec \/ NewUploadSlot
  <2>1. pc # "idle" /\ UNCHANGED <<table, accepted>>
    BY <1>3 DEF CheckBackend, FcSpec, NewUploadSlot, tableVars
  <2>2. results' = results \/ \E e \in Exceptions : TryEnds(e)
    BY <1>3 DEF CheckBackend, FcSpec, NewUploadSlot, Failures, Exceptions
  <2> QED
    BY <1>1, <2>1, <2>2, TryEndsPromise
<1> QED
  BY <1>1, <1>2, <1>3, SendLoadPromise, DeleteSlotPromise, LateLoadPromise DEF Next, Step

\* update_pandas and push_pandas keep LoadPromise: only whole dataframes are taken,
\* one per try at most, by the call under way or late; a call that returns was
\* written, and nothing but a late load can have come over it.
THEOREM ImplementsLoadPromise == Spec => KeepsLoadPromise
<1>1. Init => Promise!LoadPromiseInit
  BY DEF Init, Promise!LoadPromiseInit
<1> QED
  BY <1>1, StepPromise, Invariance, PTL DEF Spec, KeepsLoadPromise, Promise!LoadPromiseSpec
=============================================================================
