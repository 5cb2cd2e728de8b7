----------------------------- MODULE TableLoad -----------------------------
(***************************************************************************)
(* update_pandas and push_pandas of a table (api/domain.py) over the       *)
(* update_table and create_table of ConnectionRemote                       *)
(* (lowlevel/connection.py): a program makes one call after the other,     *)
(* each under the blocking retry of lowlevel/session.py, each try with a   *)
(* new AvroStream.                                                         *)
(*                                                                         *)
(* A request through RetryPfxSession is one step here, with the outcomes   *)
(* RequestPromise allows: it succeeds and was executed, or it fails and    *)
(* was executed, or not, or is executed later.  The backend is external.   *)
(* An operator Name_Fault is Name with one plausible mistake, for the      *)
(* properties to find.                                                     *)
(***************************************************************************)
EXTENDS Integers, Sequences

CONSTANTS
  Calls,         \* the calls of the program, in order: "update", "create", "replace"
  LobCalls,      \* the pushes with a LOB column
  MaxRetries,    \* len(retry_delays) of the blocking retry
  Faulty,        \* the requests that may fail
  LateExecution  \* the backend may execute a load after its request failed

ASSUME CallsAssumption == Calls \in Seq({"update", "create", "replace"})
ASSUME LobAssumption == \A i \in LobCalls : i \in 1..Len(Calls) /\ Calls[i] # "update"
ASSUME RetriesAssumption == MaxRetries \in Nat

VARIABLES
  current,   \* the program's call: 0 before the first
  pc,        \* what the call does next
  nbTries,   \* nb_tries of retry
  drained,   \* the AvroStream of this try was read
  slot,      \* id of the try's upload slot
  pending,   \* the exception on its way out of update_table's try block, or of the call
  results,   \* results[i]: how call i ended
  slots,     \* backend: open upload slots
  lastSlot,  \* backend: slot ids used so far
  table,     \* backend: the call whose content the table holds
  late,      \* loads whose request failed, still to be executed
  accepted,  \* history: the loads the backend executed
  confirmed, \* history: the loads answered with success: their call and upload slot
  lost       \* history: slots whose opening or deletion was not answered, with the call

programVars == <<current, results>>
tryVars == <<pc, nbTries, drained, slot, pending>>
slotVars == <<slots, lastSlot, lost>>
tableVars == <<table, late, accepted>>
vars == <<programVars, tryVars, slotVars, tableVars, confirmed>>

NoSlot == 0
NoTable == -1
Initial == 0       \* the content the table has before the program starts

None == "none"
HTTPStatusErrors == {"transient", "refused"}       \* 5xx and 409, or the others
HTTPErrors == HTTPStatusErrors \cup {"timeout", "transport"}
\* raise Exception("Error while uploading file") from err: not an HTTPError.
Uploading(err) == IF err = "transient" THEN "upload (busy)" ELSE "upload (refused)"
Exceptions == HTTPErrors \cup {"runtime", "upload (busy)", "upload (refused)"}

Retryable(e) == e \in {"timeout", "transient"}

kind == Calls[current]

\* What a try does first: update_table _fc_spec, push the version check of a LOB
\* column; create_table has only its post_simple.
FirstStep(i) ==
  CASE Calls[i] = "update" -> "spec"
    [] i \in LobCalls -> "version"
    [] OTHER -> "load"

Failures(request) == IF request \in Faulty THEN HTTPErrors ELSE {}

-----------------------------------------------------------------------------
(* retry(lambda: self.update(AvroStream.from_dataframe(...)), 0) *)

Begin(i) ==
  /\ current' = i
  /\ pc' = FirstStep(i)
  /\ nbTries' = 0
  /\ drained' = FALSE
  /\ slot' = NoSlot
  /\ pending' = None

\* The program makes its next call when the last one returned or raised.
NextCall ==
  /\ pc = "idle"
  /\ current < Len(Calls)
  /\ Begin(current + 1)
  /\ UNCHANGED <<results, slotVars, tableVars, confirmed>>

\* A try is over with exception e, or with None: retry's except branch.
TryEnds_ReusesStream(e) ==
  \/ /\ Retryable(e) /\ MaxRetries > nbTries
     /\ pc' = FirstStep(current)
     /\ nbTries' = nbTries + 1
     /\ slot' = NoSlot /\ pending' = None
     /\ UNCHANGED <<drained, results>>
  \/ /\ ~(Retryable(e) /\ MaxRetries > nbTries)
     /\ pc' = "idle"
     /\ pending' = e
     /\ results' = [results EXCEPT ![current] = IF e = None THEN "returned" ELSE "raised"]
     /\ UNCHANGED <<nbTries, drained, slot>>
TryEnds_OneMore(e) ==
  \/ /\ Retryable(e) /\ MaxRetries >= nbTries
     /\ pc' = FirstStep(current)
     /\ nbTries' = nbTries + 1
     /\ drained' = FALSE /\ slot' = NoSlot /\ pending' = None
     /\ UNCHANGED results
  \/ /\ ~(Retryable(e) /\ MaxRetries >= nbTries)
     /\ pc' = "idle"
     /\ pending' = e
     /\ results' = [results EXCEPT ![current] = IF e = None THEN "returned" ELSE "raised"]
     /\ UNCHANGED <<nbTries, drained, slot>>
TryEnds_Forever(e) ==
  \/ /\ Retryable(e)
     /\ pc' = FirstStep(current)
     /\ drained' = FALSE /\ slot' = NoSlot /\ pending' = None
     /\ UNCHANGED <<nbTries, results>>
  \/ /\ ~Retryable(e)
     /\ pc' = "idle"
     /\ pending' = e
     /\ results' = [results EXCEPT ![current] = IF e = None THEN "returned" ELSE "raised"]
     /\ UNCHANGED <<nbTries, drained, slot>>
TryEnds_RetriesNone(e) ==
  LET again == Retryable(e) \/ e = None IN
  \/ /\ again /\ MaxRetries > nbTries
     /\ pc' = FirstStep(current)
     /\ nbTries' = nbTries + 1
     /\ drained' = FALSE /\ slot' = NoSlot /\ pending' = None
     /\ UNCHANGED results
  \/ /\ ~(again /\ MaxRetries > nbTries)
     /\ pc' = "idle"
     /\ pending' = e
     /\ results' = [results EXCEPT ![current] = IF e = None THEN "returned" ELSE "raised"]
     /\ UNCHANGED <<nbTries, drained, slot>>
TryEnds(e) ==
  \/ /\ Retryable(e) /\ MaxRetries > nbTries
     /\ pc' = FirstStep(current)
     /\ nbTries' = nbTries + 1
     /\ drained' = FALSE /\ slot' = NoSlot /\ pending' = None
     /\ UNCHANGED results
  \/ /\ ~(Retryable(e) /\ MaxRetries > nbTries)
     /\ pc' = "idle"
     /\ pending' = e
     /\ results' = [results EXCEPT ![current] = IF e = None THEN "returned" ELSE "raised"]
     /\ UNCHANGED <<nbTries, drained, slot>>

-----------------------------------------------------------------------------
(* push *)

\* check_backend_supports_field_types, in every try: login/extended, whose answer
\* decides, whatever version the backend has by then.
CheckBackend ==
  /\ pc = "version"
  /\ \/ /\ pc' = "load"
        /\ UNCHANGED <<nbTries, drained, slot, pending, results>>
     \/ TryEnds("runtime")
     \/ \E e \in Failures("version") : TryEnds(e)
  /\ UNCHANGED <<current, slotVars, tableVars, confirmed>>

-----------------------------------------------------------------------------
(* update_table *)

\* _fc_spec: the table must exist.
FcSpec ==
  /\ pc = "spec"
  /\ \/ /\ table # NoTable
        /\ pc' = "newslot"
        /\ UNCHANGED <<nbTries, drained, slot, pending, results>>
     \/ /\ table = NoTable
        /\ TryEnds("runtime")
     \/ \E e \in Failures("spec") : TryEnds(e)
  /\ UNCHANGED <<current, slotVars, tableVars, confirmed>>

\* How many of its executions may be lost on the client: one stands for several.
LostAnswers(request) == IF request \in Faulty THEN {0, 1} ELSE {0}

Lost(s, request) == [slot |-> s, call |-> current, at |-> request]

\* The backend opens n slots; the answers of the first m are lost.
OpenSlots(n, m) ==
  /\ slots' = slots \cup (lastSlot + 1)..(lastSlot + n)
  /\ lastSlot' = lastSlot + n
  /\ lost' = lost \cup {Lost(s, "newslot") : s \in (lastSlot + 1)..(lastSlot + m)}

NewUploadSlot ==
  /\ pc = "newslot"
  /\ \/ /\ \E m \in LostAnswers("newslot") : OpenSlots(m + 1, m)
        /\ slot' = lastSlot'
        /\ pc' = "load"
        /\ UNCHANGED <<nbTries, drained, pending, results>>
     \/ /\ \E e \in Failures("newslot") : TryEnds(e)
        /\ \E m \in LostAnswers("newslot") : OpenSlots(m, m)
  /\ UNCHANGED <<current, tableVars, confirmed>>

\* The try's load, as the backend takes it at once or after its request failed.
LoadTaken(isLate) == [call |-> current, try |-> nbTries, complete |-> ~drained, late |-> isLate]
Load == LoadTaken(FALSE)
LateLoadOf == LoadTaken(TRUE)

\* The backend takes a load: createfc without /replace wants no such table,
\* loadfc wants one.
CanTake(l) ==
  /\ Calls[l.call] = "update" => table # NoTable
  /\ Calls[l.call] = "create" => table = NoTable

Take(l) ==
  /\ CanTake(l)
  /\ table' = l.call
  /\ accepted' = accepted \cup {l}

\* The exception e leaves the try block of update_table, or of create_table.
LoadFails(e) ==
  IF kind = "update"
  THEN /\ pc' = IF e \in HTTPStatusErrors THEN "progress" ELSE "deleteslot"
       /\ pending' = e
       /\ drained' = TRUE
       /\ UNCHANGED <<nbTries, slot, results>>
  ELSE TryEnds(e)

\* post_simple: one request, with all of the stream.
SendLoad ==
  /\ pc = "load"
  /\ \/ /\ Take(Load)
        /\ confirmed' = confirmed \cup {[call |-> current, slot |-> slot]}
        /\ IF kind = "update"
           THEN /\ pc' = "deleteslot" /\ drained' = TRUE
                /\ UNCHANGED <<nbTries, slot, pending, results>>
           ELSE TryEnds(None)
        /\ UNCHANGED late
     \/ /\ ~CanTake(Load)
        /\ LoadFails("refused")
        /\ UNCHANGED <<tableVars, confirmed>>
     \/ /\ \E e \in Failures("load") : LoadFails(e)
        /\ UNCHANGED <<tableVars, confirmed>>
     \/ /\ \E e \in Failures("load") \ {"refused"} : LoadFails(e)
        /\ \/ Take(Load) /\ UNCHANGED late
           \/ /\ LateExecution
              /\ late' = late \cup {LateLoadOf}
              /\ UNCHANGED <<table, accepted>>
        /\ UNCHANGED confirmed
  /\ UNCHANGED <<current, slotVars>>

\* Only HTTPStatusError is looked into; what comes out is a plain Exception.
Progress ==
  /\ pc = "progress"
  /\ pc' = "deleteslot"
  /\ pending' \in {Uploading(pending)} \cup Failures("progress")
  /\ UNCHANGED <<programVars, nbTries, drained, slot, slotVars, tableVars, confirmed>>

\* finally: what deleteslot raises takes the place of what was pending.
DeleteSlot_OnlyOnSuccess ==
  /\ pc = "deleteslot"
  /\ TryEnds(pending)
  /\ slots' = IF pending = None THEN slots \ {slot} ELSE slots
  /\ UNCHANGED <<current, lastSlot, lost, tableVars, confirmed>>
DeleteSlot_SwallowsPending ==
  /\ pc = "deleteslot"
  /\ TryEnds(None)
  /\ slots' = slots \ {slot}
  /\ UNCHANGED <<current, lastSlot, lost, tableVars, confirmed>>
DeleteSlot ==
  /\ pc = "deleteslot"
  /\ \/ /\ TryEnds(pending)
        /\ slots' = slots \ {slot}
        /\ UNCHANGED lost
     \/ /\ \E e \in Failures("deleteslot") : TryEnds(e)
        /\ slots' \in {slots, slots \ {slot}}
        /\ lost' = lost \cup {Lost(slot, "deleteslot")}
  /\ UNCHANGED <<current, lastSlot, tableVars, confirmed>>

\* The backend gets round to a load the client gave up on, or drops it.
LateLoad ==
  \E l \in late :
    /\ late' = late \ {l}
    /\ Take(l) \/ UNCHANGED <<table, accepted>>
    /\ UNCHANGED <<programVars, tryVars, slotVars, confirmed>>

-----------------------------------------------------------------------------
Init ==
  /\ current = 0
  /\ pc = "idle"
  /\ nbTries = 0
  /\ drained = FALSE
  /\ slot = NoSlot
  /\ pending = None
  /\ results = [i \in 1..Len(Calls) |-> "unknown"]
  /\ slots = {}
  /\ lastSlot = 0
  /\ table \in {NoTable, Initial}
  /\ late = {}
  /\ accepted = {}
  /\ confirmed = {}
  /\ lost = {}

Step == CheckBackend \/ FcSpec \/ NewUploadSlot \/ SendLoad \/ Progress \/ DeleteSlot

Next == NextCall \/ Step \/ LateLoad

Spec == Init /\ [][Next]_vars

\* Every request is answered or fails: the thread of the program goes on.
FairSpec == Spec /\ WF_vars(NextCall) /\ WF_vars(Step)

-----------------------------------------------------------------------------
(* Properties. *)

Loads == [call : 1..Len(Calls), try : 0..MaxRetries, complete : BOOLEAN, late : BOOLEAN]

\* The state keeps its shape; a try beyond the delays is never made.
TypeOK ==
  /\ current \in 0..Len(Calls)
  /\ pc \in {"idle", "version", "spec", "newslot", "load", "progress", "deleteslot"}
  /\ nbTries \in 0..MaxRetries
  /\ drained \in BOOLEAN
  /\ slot \in 0..lastSlot
  /\ pending \in {None} \cup Exceptions
  /\ results \in [1..Len(Calls) -> {"unknown", "returned", "raised"}]
  /\ slots \subseteq 1..lastSlot
  /\ lastSlot \in Nat
  /\ table \in {NoTable, Initial} \cup 1..Len(Calls)
  /\ late \subseteq Loads /\ accepted \subseteq Loads
  /\ confirmed \subseteq [call : 1..Len(Calls), slot : 0..lastSlot]
  /\ lost \subseteq [slot : 1..lastSlot, call : 1..Len(Calls), at : {"newslot", "deleteslot"}]

\* Between two calls no upload slot is open but those whose newuploadslot or
\* deleteslot was not answered.
NoSlotLeft == pc = "idle" => slots \subseteq {l.slot : l \in lost}

\* A load that was answered with success ends its call, which then returns: only if the
\* slot of this very load could not be deleted may the call send another, or raise, so
\* that each load it repeats costs a deleteslot of its own.
InFinally(load) ==
  /\ load.call = current /\ load.slot = slot
  /\ pc = "deleteslot" /\ pending = None
ConfirmedLoadEndsCall ==
  \A load \in confirmed :
     \/ InFinally(load)
     \/ results[load.call] = "returned"
     \/ \E l \in lost : l.slot = load.slot /\ l.call = load.call /\ l.at = "deleteslot"

JustReturned == pc = "idle" /\ current > 0 /\ results[current] = "returned"

\* The table holds the rows of the last call that returned, unless the backend
\* executed a load late.
LastReturnedWins ==
  JustReturned => table = current \/ \E l \in accepted : l.late /\ l.call = table

Promise == INSTANCE LoadPromise
             WITH NbCalls <- Len(Calls), MaxTry <- MaxRetries,
                  holds <- table, outcome <- results, written <- accepted

\* The calls keep what LoadPromise says: only whole dataframes are taken, however
\* many tries failed halfway through the stream; success is never reported for a
\* load that failed, and no load is taken twice.
KeepsLoadPromise == Promise!LoadPromiseSpec

\* Every call ends, and the program goes on to its last one.
ProgramEnds == <>(current = Len(Calls) /\ pc = "idle")
=============================================================================
