----------------------------- MODULE AttachFile -----------------------------
(***************************************************************************)
(* attach_file of ConnectionRemote (lowlevel/connection.py): calls on one  *)
(* owner, concurrent ones included.  A call opens an upload slot, lists    *)
(* the attachments, edits the first one of its name or else uploads a new  *)
(* one, and deletes the slot whatever happened.  A reader looks an         *)
(* attachment up by name (Attachments, api/domain.py) and downloads it     *)
(* later, by the id it got.                                                *)
(*                                                                         *)
(* All requests go through the retrying post of RetryPfxSession: one step  *)
(* here, with the outcomes RequestPromise allows - a request that returned *)
(* was executed, one that failed was executed, or not, or will be later.   *)
(* The backend is external.  An operator Name_Fault is Name with one       *)
(* plausible mistake.                                                      *)
(***************************************************************************)
EXTENDS Naturals, FiniteSets

CONSTANTS
  Calls,         \* calls of attach_file; a call stands for its content, too
  Name,          \* Name[c]: the name it attaches under
  MaxInFlight,   \* calls the program has open at once (1: through ConnectionSync)
  Faulty,        \* what may fail: requests, and "read", reading the content
  LateExecution  \* the backend may execute an upload after its request failed

ASSUME CallsAssumption == IsFiniteSet(Calls)
ASSUME NameAssumption == DOMAIN Name = Calls

VARIABLES
  pc,           \* the request each call makes next
  slot,         \* slot_id
  existing,     \* existing[0], or NoId
  failed,       \* an exception is on its way out of the try block
  results,      \* how the calls ended
  slots,        \* backend: open upload slots
  lastSlot,     \* backend: slot ids used so far
  attachments,  \* backend: the attachments of the owner
  late,         \* uploads whose request failed, still to be executed
  lost,         \* history: slots whose opening or deletion was not answered
  raced,        \* history: names with overlapping calls, or an upload late or repeated
  handle,       \* the reader's Attachment objects: at most one, its id and name
  superseded    \* history: contents whose call ended before another of its name returned

callVars == <<pc, slot, existing, failed, results>>
slotVars == <<slots, lastSlot, lost>>
vars == <<callVars, slotVars, attachments, late, raced, handle, superseded>>

NoSlot == 0
NoId == 0
Ids == 1..2 * Cardinality(Calls)

Named(name) == {a \in attachments : a.name = name}
Open == {c \in Calls : pc[c] \notin {"idle", "done"}}

\* The exception leaves the try block, or there was none: finally.
LeaveTry(c, exception) ==
  /\ failed' = [failed EXCEPT ![c] = exception]
  /\ pc' = [pc EXCEPT ![c] = "deleteslot"]

Ends(c, result) ==
  /\ results' = [results EXCEPT ![c] = result]
  /\ pc' = [pc EXCEPT ![c] = "done"]
  /\ superseded' = IF result = "returned"
                   THEN superseded \cup {d \in Calls : Name[d] = Name[c] /\ pc[d] = "done"}
                   ELSE superseded

-----------------------------------------------------------------------------
\* The backend opens n slots; the answers of the first m are lost.
OpenSlots(n, m) ==
  /\ slots' = slots \cup (lastSlot + 1)..(lastSlot + n)
  /\ lastSlot' = lastSlot + n
  /\ lost' = lost \cup (lastSlot + 1)..(lastSlot + m)

\* How many executions of newuploadslot may be lost: one stands for several.
LostAnswers == IF "newslot" \in Faulty THEN {0, 1} ELSE {0}

\* Calls of the same name overlap.
Race(c) == raced' = raced \cup {Name[d] : d \in {e \in Open : Name[e] = Name[c]}}

\* uploadmanager.newuploadslot.
NewUploadSlot_NextId(c) ==
  /\ pc[c] = "idle"
  /\ Cardinality(Open) < MaxInFlight
  /\ Race(c)
  /\ \E m \in LostAnswers :
        \/ /\ OpenSlots(m + 1, m)
           /\ slot' = [slot EXCEPT ![c] = lastSlot' + 1]
           /\ pc' = [pc EXCEPT ![c] = "list"]
           /\ UNCHANGED <<results, superseded>>
        \/ /\ "newslot" \in Faulty
           /\ OpenSlots(m, m)
           /\ Ends(c, "raised")
           /\ UNCHANGED slot
  /\ UNCHANGED <<existing, failed, attachments, late, handle>>
NewUploadSlot(c) ==
  /\ pc[c] = "idle"
  /\ Cardinality(Open) < MaxInFlight
  /\ Race(c)
  /\ \E m \in LostAnswers :
        \/ /\ OpenSlots(m + 1, m)
           /\ slot' = [slot EXCEPT ![c] = lastSlot']
           /\ pc' = [pc EXCEPT ![c] = "list"]
           /\ UNCHANGED <<results, superseded>>
        \/ /\ "newslot" \in Faulty
           /\ OpenSlots(m, m)
           /\ Ends(c, "raised")
           /\ UNCHANGED slot
  /\ UNCHANGED <<existing, failed, attachments, late, handle>>

\* bdmanager.list: the first attachment of that name, in the backend's order.
List_AnyName(c) ==
  /\ pc[c] = "list"
  /\ \/ attachments = {} /\ UNCHANGED existing
     \/ \E a \in attachments : existing' = [existing EXCEPT ![c] = a.id]
  /\ pc' = [pc EXCEPT ![c] = "upload"]
  /\ UNCHANGED failed
  /\ UNCHANGED <<slot, results, slotVars, attachments, late, raced, handle, superseded>>
List(c) ==
  /\ pc[c] = "list"
  /\ \/ /\ \/ /\ Named(Name[c]) = {}
              /\ existing' = [existing EXCEPT ![c] = NoId]
           \/ \E a \in Named(Name[c]) : existing' = [existing EXCEPT ![c] = a.id]
        /\ pc' = [pc EXCEPT ![c] = "upload"]
        /\ UNCHANGED failed
     \/ /\ "list" \in Faulty
        /\ LeaveTry(c, TRUE)
        /\ UNCHANGED existing
  /\ UNCHANGED <<slot, results, slotVars, attachments, late, raced, handle, superseded>>

\* What the backend makes of bdmanager.edit and bdmanager.upload.
After(as, u) ==
  IF u.id = NoId
  THEN as \cup {[id |-> Cardinality(as) + 1, name |-> Name[u.call], content |-> u.call]}
  ELSE {IF a.id = u.id THEN [a EXCEPT !.content = u.call] ELSE a : a \in as}

Put(u) == attachments' = After(attachments, u)

\* A try that timed out was executed, and the next one is, too.
PutTwice(u) == attachments' = After(After(attachments, u), u)

\* A text is read and encoded before its request; the read may raise.
Upload_NeverEdits(c) ==
  /\ pc[c] = "upload"
  /\ Put([call |-> c, id |-> NoId])
  /\ LeaveTry(c, FALSE)
  /\ UNCHANGED <<slot, existing, results, slotVars, late, raced, handle, superseded>>
Upload(c) ==
  LET upload == [call |-> c, id |-> existing[c]] IN
  /\ pc[c] = "upload"
  /\ \/ /\ Put(upload)
        /\ LeaveTry(c, FALSE)
        /\ UNCHANGED <<late, raced>>
     \/ /\ "read" \in Faulty
        /\ LeaveTry(c, TRUE)
        /\ UNCHANGED <<attachments, late, raced>>
     \/ /\ "upload" \in Faulty
        /\ PutTwice(upload)
        /\ \E exception \in BOOLEAN : LeaveTry(c, exception)
        /\ raced' = raced \cup {Name[c]}
        /\ UNCHANGED late
     \/ /\ "upload" \in Faulty
        /\ LeaveTry(c, TRUE)
        /\ \/ UNCHANGED <<attachments, late, raced>>
           \/ Put(upload) /\ UNCHANGED <<late, raced>>
           \/ /\ LateExecution
              /\ late' = late \cup {upload}
              /\ raced' = raced \cup {Name[c]}
              /\ UNCHANGED attachments
  /\ UNCHANGED <<slot, existing, results, slotVars, handle, superseded>>

\* finally: uploadmanager.deleteslot.
DeleteSlot_OnlyOnSuccess(c) ==
  /\ pc[c] = "deleteslot"
  /\ slots' = IF failed[c] THEN slots ELSE slots \ {slot[c]}
  /\ Ends(c, IF failed[c] THEN "raised" ELSE "returned")
  /\ UNCHANGED <<slot, existing, failed, lastSlot, lost, attachments, late, raced, handle>>
DeleteSlot(c) ==
  /\ pc[c] = "deleteslot"
  /\ \/ /\ slots' = slots \ {slot[c]}
        /\ Ends(c, IF failed[c] THEN "raised" ELSE "returned")
        /\ UNCHANGED lost
     \/ /\ "deleteslot" \in Faulty
        /\ slots' \in {slots, slots \ {slot[c]}}
        /\ lost' = lost \cup {slot[c]}
        /\ Ends(c, "raised")
  /\ UNCHANGED <<slot, existing, failed, lastSlot, attachments, late, raced, handle>>

\* The backend gets round to an upload the client gave up on, or drops it.
LateUpload ==
  \E u \in late :
    /\ late' = late \ {u}
    /\ Put(u) \/ UNCHANGED attachments
    /\ UNCHANGED <<callVars, slotVars, raced, handle, superseded>>

\* get_by_name of Attachments: one list request, the first of that name.
LookUp(name) ==
  /\ handle = {}
  /\ \E a \in Named(name) : handle' = {[id |-> a.id, name |-> name]}
  /\ UNCHANGED <<callVars, slotVars, attachments, late, raced, superseded>>

\* What pull_file downloads by an id: what is attached there at the time.
Downloaded(id) == {a.content : a \in {b \in attachments : b.id = id}}

-----------------------------------------------------------------------------
Init ==
  /\ pc = [c \in Calls |-> "idle"]
  /\ slot = [c \in Calls |-> NoSlot]
  /\ existing = [c \in Calls |-> NoId]
  /\ failed = [c \in Calls |-> FALSE]
  /\ results = [c \in Calls |-> "unknown"]
  /\ slots = {} /\ lastSlot = 0
  /\ attachments = {}
  /\ late = {} /\ lost = {} /\ raced = {}
  /\ handle = {} /\ superseded = {}

Step(c) == List(c) \/ Upload(c) \/ DeleteSlot(c)

Next ==
  \/ \E c \in Calls : NewUploadSlot(c) \/ Step(c) \/ LookUp(Name[c])
  \/ LateUpload

Spec == Init /\ [][Next]_vars

-----------------------------------------------------------------------------
(* Properties. *)

\* The state keeps its shape, and an attachment has an id of its own.
TypeOK ==
  /\ pc \in [Calls -> {"idle", "list", "upload", "deleteslot", "done"}]
  /\ lastSlot \in Nat /\ slot \in [Calls -> 0..lastSlot]
  /\ existing \in [Calls -> Ids \cup {NoId}]
  /\ failed \in [Calls -> BOOLEAN]
  /\ results \in [Calls -> {"unknown", "returned", "raised"}]
  /\ slots \subseteq 1..lastSlot
  /\ attachments \subseteq [id : Ids, name : {Name[c] : c \in Calls}, content : Calls]
  /\ \A a, b \in attachments : a.id = b.id => a = b
  /\ late \subseteq [call : Calls, id : Ids \cup {NoId}]
  /\ handle \subseteq [id : Ids, name : {Name[c] : c \in Calls}] /\ superseded \subseteq Calls
  /\ lost \subseteq 1..lastSlot /\ raced \subseteq {Name[c] : c \in Calls}

\* However long a reader keeps an Attachment it looked up, its id gives it one
\* content, of the name it asked for, and the newest: never what a call attached
\* that had ended before a later one returned - unless the name was raced for.
DownloadIsNewest ==
  \A h \in handle :
    \E c \in Calls :
      /\ Downloaded(h.id) = {c} /\ Name[c] = h.name
      /\ c \in superseded => h.name \in raced

\* An upload slot that is open belongs to a call under way: whatever fails in
\* between, a call deletes its slot.  (A slot whose opening or deletion was not
\* answered may stay.)
SlotsHaveOwners ==
  \A s \in slots \ lost : \E c \in Open : slot[c] = s

\* A call that returned has its file there, once: a name is attached twice only if
\* calls of that name overlapped, or one of their uploads was executed late or
\* twice: other failures make no duplicates.
AttachedOnce ==
  /\ \A c \in Calls : results[c] = "returned" => Named(Name[c]) # {}
  /\ \A a, b \in attachments : a.name = b.name /\ a # b => a.name \in raced
=============================================================================
