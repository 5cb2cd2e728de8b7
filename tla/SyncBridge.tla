----------------------------- MODULE SyncBridge -----------------------------
(***************************************************************************)
(* ConnectionSync (lowlevel/connection.py): program threads run the        *)
(* coroutines of a connection on an event loop of its own, in a daemon     *)
(* thread.  _run_sync submits one coroutine and blocks; _sync_iterator     *)
(* submits one __anext__ per item.  __del__ stops the loop when the last   *)
(* reference to the object is gone: the program's, and one for each call   *)
(* on the stack and each iterator not yet exhausted.                       *)
(*                                                                         *)
(* External: the event loop of asyncio (ready callbacks run first in,      *)
(* first out; stop takes effect when the callbacks already at hand have    *)
(* run), the garbage collector (which may run __del__ in any thread) and   *)
(* the finalizer that closes an async generator nobody will advance.       *)
(* An operator Name_Fault is Name with one plausible mistake.              *)
(***************************************************************************)
EXTENDS Naturals, Sequences, FiniteSets

CONSTANTS
  Threads,     \* threads of the program that use the object
  Tasks,       \* bound: coroutines submitted to the loop
  MaxAwaits,   \* bound: times a coroutine waits for the network
  Interrupts,  \* a blocked thread may get a KeyboardInterrupt
  NoTask,      \* no coroutine
  Stop         \* the callback of loop.stop

ASSUME NamesAssumption == NoTask \notin Tasks /\ Stop \notin Tasks \cup {NoTask}
ASSUME AwaitsAssumption == MaxAwaits \in Nat
ASSUME InterruptsAssumption == Interrupts \in BOOLEAN

VARIABLES
  held,      \* the program has a reference to the ConnectionSync
  thread,    \* where each program thread is
  task,      \* the coroutine it submitted last
  state,     \* state of each coroutine
  awaits,    \* how often it waited
  ready,     \* the loop's callbacks, in order
  loop,      \* the loop and its thread
  stopping,  \* loop.stop has run
  running,   \* the coroutine the loop is executing
  del,       \* progress of __del__
  closing,   \* coroutines whose async generator was dropped half way
  unwatched  \* history: coroutines nobody waits for: interrupted, or an aclose

programVars == <<held, thread, task>>
loopVars == <<ready, loop, stopping, running>>
taskVars == <<state, awaits>>
vars == <<programVars, loopVars, taskVars, del, closing, unwatched>>

Blocked == {t \in Threads : thread[t] \in {"call", "next"}}

\* A call on the stack refers to self, and so does a suspended iterator.
Referenced_IteratorsDoNot == held \/ \E t \in Threads : thread[t] = "call"
Referenced == held \/ \E t \in Threads : thread[t] # "out"

-----------------------------------------------------------------------------
(* The program. *)

\* asyncio.run_coroutine_threadsafe, of a new coroutine.
CanSubmit == \E k \in Tasks : state[k] = "none"
Fresh == CHOOSE k \in Tasks : state[k] = "none"
Submit ==
  /\ CanSubmit
  /\ state' = [state EXCEPT ![Fresh] = "ready"]
  /\ ready' = Append(ready, Fresh)

\* _run_sync, up to result().
RunSync(t) ==
  /\ held /\ thread[t] = "out"
  /\ Submit
  /\ task' = [task EXCEPT ![t] = Fresh]
  /\ thread' = [thread EXCEPT ![t] = "call"]
  /\ UNCHANGED <<held, awaits, loop, stopping, running, del, closing, unwatched>>

Return_TimesOut(t) ==
  /\ thread[t] = "call"
  /\ thread' = [thread EXCEPT ![t] = "out"]
  /\ UNCHANGED <<held, task, taskVars, loopVars, del, closing, unwatched>>
Return(t) ==
  /\ thread[t] = "call" /\ state[task[t]] = "finished"
  /\ thread' = [thread EXCEPT ![t] = "out"]
  /\ UNCHANGED <<held, task, taskVars, loopVars, del, closing, unwatched>>

\* The caller of stream_dm_data, fetch_paginated_dm_data or pull_file.
OpenIterator(t) ==
  /\ held /\ thread[t] = "out"
  /\ thread' = [thread EXCEPT ![t] = "iterator"]
  /\ task' = [task EXCEPT ![t] = NoTask]
  /\ UNCHANGED <<held, taskVars, loopVars, del, closing, unwatched>>

\* One turn of _sync_iterator, up to result().
NextItem(t) ==
  /\ thread[t] = "iterator"
  /\ Submit
  /\ task' = [task EXCEPT ![t] = Fresh]
  /\ thread' = [thread EXCEPT ![t] = "next"]
  /\ UNCHANGED <<held, awaits, loop, stopping, running, del, closing, unwatched>>

\* An item is yielded, or StopAsyncIteration or an error ends the iterator.
GotItem(t) ==
  /\ thread[t] = "next" /\ state[task[t]] = "finished"
  /\ thread' \in {[thread EXCEPT ![t] = "iterator"], [thread EXCEPT ![t] = "out"]}
  /\ UNCHANGED <<held, task, taskVars, loopVars, del, closing, unwatched>>

\* The program breaks out of its loop over the iterator.
Abandon(t) ==
  /\ thread[t] = "iterator"
  /\ thread' = [thread EXCEPT ![t] = "out"]
  /\ closing' = IF task[t] = NoTask THEN closing ELSE closing \cup {task[t]}
  /\ UNCHANGED <<held, task, taskVars, loopVars, del, unwatched>>

\* A KeyboardInterrupt leaves result(): the coroutine goes on without a caller.
Interrupt(t) ==
  /\ Interrupts
  /\ t \in Blocked
  /\ unwatched' = unwatched \cup {task[t]}
  /\ thread' = [thread EXCEPT ![t] = "out"]
  /\ \/ thread[t] = "next" /\ closing' = closing \cup {task[t]}
     \/ UNCHANGED closing
  /\ UNCHANGED <<held, task, taskVars, loopVars, del>>

\* The program forgets the object.
Drop ==
  /\ held
  /\ held' = FALSE
  /\ UNCHANGED <<thread, task, taskVars, loopVars, del, closing, unwatched>>

\* The finalizer of an async generator: aclose is submitted to its loop.
CloseGenerator(k) ==
  /\ k \in closing /\ state[k] = "finished"
  /\ closing' = closing \ {k}
  /\ \/ /\ loop # "closed"
        /\ Submit
        /\ unwatched' = unwatched \cup {Fresh}
     \/ /\ loop = "closed" \/ ~CanSubmit
        /\ UNCHANGED <<state, ready, unwatched>>
  /\ UNCHANGED <<programVars, awaits, loop, stopping, running, del>>

-----------------------------------------------------------------------------
(* The event loop. *)

Run_Reentrant ==
  /\ loop = "running" /\ ready # << >>
  /\ ready' = Tail(ready)
  /\ \/ /\ Head(ready) = Stop
        /\ stopping' = TRUE
        /\ UNCHANGED <<running, state>>
     \/ /\ Head(ready) # Stop
        /\ running' = Head(ready)
        /\ state' = [state EXCEPT ![Head(ready)] = "running"]
        /\ UNCHANGED stopping
  /\ UNCHANGED <<programVars, awaits, loop, del, closing, unwatched>>
Run ==
  /\ loop = "running" /\ running = NoTask /\ ready # << >>
  /\ ready' = Tail(ready)
  /\ \/ /\ Head(ready) = Stop
        /\ stopping' = TRUE
        /\ UNCHANGED <<running, state>>
     \/ /\ Head(ready) # Stop
        /\ running' = Head(ready)
        /\ state' = [state EXCEPT ![Head(ready)] = "running"]
        /\ UNCHANGED stopping
  /\ UNCHANGED <<programVars, awaits, loop, del, closing, unwatched>>

\* The coroutine runs up to an await, or to its end.
StepEnds ==
  /\ running # NoTask
  /\ running' = NoTask
  /\ \/ /\ awaits[running] < MaxAwaits
        /\ awaits' = [awaits EXCEPT ![running] = @ + 1]
        /\ state' = [state EXCEPT ![running] = "awaiting"]
     \/ /\ state' = [state EXCEPT ![running] = "finished"]
        /\ UNCHANGED awaits
  /\ UNCHANGED <<programVars, ready, loop, stopping, del, closing, unwatched>>

\* What the coroutine waits for is there.
Arrives(k) ==
  /\ loop = "running" /\ state[k] = "awaiting"
  /\ state' = [state EXCEPT ![k] = "ready"]
  /\ ready' = Append(ready, k)
  /\ UNCHANGED <<programVars, awaits, loop, stopping, running, del, closing, unwatched>>

\* run_forever returns, and with it the thread ends.
LoopEnds ==
  /\ loop = "running" /\ stopping /\ running = NoTask
  /\ loop' = "ended"
  /\ UNCHANGED <<programVars, taskVars, ready, stopping, running, del, closing, unwatched>>

-----------------------------------------------------------------------------
(* __del__ *)

\* call_soon_threadsafe(stop).  In the loop's own thread the join that follows
\* raises, which ends __del__.
DelStop_JoinsOnly(by) ==
  /\ del = "none" /\ ~Referenced
  /\ by = "loop" => running # NoTask
  /\ del' = IF by = "loop" THEN "done" ELSE "join"
  /\ UNCHANGED <<programVars, taskVars, loopVars, closing, unwatched>>
DelStop(by) ==
  /\ del = "none" /\ ~Referenced
  /\ by = "loop" => running # NoTask
  /\ ready' = Append(ready, Stop)
  /\ del' = IF by = "loop" THEN "done" ELSE "join"
  /\ UNCHANGED <<programVars, taskVars, loop, stopping, running, closing, unwatched>>

\* join(timeout=1), then close: closing a running loop raises, which is ignored.
DelClose ==
  /\ del = "join"
  /\ loop' = IF loop = "ended" THEN "closed" ELSE loop
  /\ del' = "done"
  /\ UNCHANGED <<programVars, taskVars, ready, stopping, running, closing, unwatched>>

Del == DelClose \/ \E by \in {"program", "loop"} : DelStop(by)

-----------------------------------------------------------------------------
Init ==
  /\ held = TRUE
  /\ thread = [t \in Threads |-> "out"]
  /\ task = [t \in Threads |-> NoTask]
  /\ state = [k \in Tasks |-> "none"]
  /\ awaits = [k \in Tasks |-> 0]
  /\ ready = << >>
  /\ loop = "running"
  /\ stopping = FALSE
  /\ running = NoTask
  /\ del = "none"
  /\ closing = {}
  /\ unwatched = {}

Program(t) ==
  \/ RunSync(t) \/ OpenIterator(t) \/ NextItem(t) \/ Abandon(t) \/ Interrupt(t)
Resume(t) == Return(t) \/ GotItem(t)
LoopStep == Run \/ StepEnds \/ LoopEnds

Next ==
  \/ \E t \in Threads : Program(t) \/ Resume(t)
  \/ \E k \in Tasks : CloseGenerator(k) \/ Arrives(k)
  \/ LoopStep \/ Drop \/ Del

Spec == Init /\ [][Next]_vars

\* The loop's thread runs, the network answers (or httpx gives up), a thread whose
\* result is there goes on, and an object without references is finalized.
FairSpec ==
  /\ Spec
  /\ WF_vars(LoopStep) /\ WF_vars(Del)
  /\ \A k \in Tasks : WF_vars(Arrives(k))
  /\ \A t \in Threads : WF_vars(Resume(t))

-----------------------------------------------------------------------------
(* Properties. *)

\* The state keeps its shape, and the loop never runs two coroutines.
TypeOK ==
  /\ held \in BOOLEAN /\ stopping \in BOOLEAN
  /\ thread \in [Threads -> {"out", "call", "iterator", "next"}]
  /\ task \in [Threads -> Tasks \cup {NoTask}]
  /\ state \in [Tasks -> {"none", "ready", "running", "awaiting", "finished"}]
  /\ awaits \in [Tasks -> 0..MaxAwaits]
  /\ ready \in Seq(Tasks \cup {Stop})
  /\ loop \in {"running", "ended", "closed"}
  /\ running \in Tasks \cup {NoTask}
  /\ {k \in Tasks : state[k] = "running"} = {running} \ {NoTask}
  /\ del \in {"none", "join", "done"}
  /\ closing \subseteq Tasks /\ unwatched \subseteq Tasks

\* No thread blocks in result() on a loop that was told to stop, or would ever
\* have to submit to one: __del__ only runs when no call and no iterator is left.
BlockedMeansLoopRuns ==
  (Blocked # {} \/ \E t \in Threads : thread[t] = "iterator")
    => loop = "running" /\ ~stopping /\ \A i \in 1..Len(ready) : ready[i] # Stop

Unfinished == {k \in Tasks : state[k] \in {"ready", "running", "awaiting"}}

\* Calls through one ConnectionSync overlap only when the program overlaps them:
\* every coroutine under way has a thread blocked on it, unless that thread was
\* interrupted (or it is the aclose of an abandoned iterator).
EveryCoroutineIsAwaited ==
  \A k \in Unfinished \ unwatched : \E t \in Blocked : task[t] = k

\* Every blocking call ends, and so does the loop's thread once the object is out
\* of use.
EveryWaitEnds ==
  /\ \A t \in Threads : t \in Blocked ~> t \notin Blocked
  /\ ~Referenced ~> loop # "running"
=============================================================================
