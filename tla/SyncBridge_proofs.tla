--------------------------- MODULE SyncBridge_proofs ---------------------------
(***************************************************************************)
(* Proofs about SyncBridge, for any threads, coroutines and awaits, with   *)
(* interrupts and without.                                                 *)
(***************************************************************************)
EXTENDS SyncBridge, SequenceTheorems, TLAPS

\* What a thread is blocked on is a coroutine.
BlockedInv == \A t \in Blocked : task[t] \in Tasks

\* The loop's queue holds each coroutine that is ready, once.
ReadyInv ==
  /\ \A i \in 1..Len(ready) : ready[i] # Stop => state[ready[i]] = "ready"
  /\ \A i, j \in 1..Len(ready) : ready[i] = ready[j] /\ ready[i] # Stop => i = j

StopQueued == \E i \in 1..Len(ready) : ready[i] = Stop

\* The loop is only told to stop when nothing refers to the object any more.
StopInv == stopping \/ StopQueued \/ loop # "running" \/ del # "none" => ~Referenced

IInv == TypeOK /\ BlockedInv /\ ReadyInv /\ StopInv /\ EveryCoroutineIsAwaited

-----------------------------------------------------------------------------
(* The queue of the loop. *)

\* What a callback put at the end of the queue leaves there.
LEMMA AppendFacts ==
  ASSUME NEW e \in Tasks \cup {Stop}, ready \in Seq(Tasks \cup {Stop}), ready' = Append(ready, e)
  PROVE  /\ ready' \in Seq(Tasks \cup {Stop})
         /\ Len(ready) \in Nat /\ Len(ready') = Len(ready) + 1
         /\ \A i \in 1..Len(ready) : ready'[i] = ready[i]
         /\ ready'[Len(ready) + 1] = e
BY AppendProperties, LenProperties

\* What taking the first callback leaves.
LEMMA TailFacts ==
  ASSUME ready \in Seq(Tasks \cup {Stop}), ready # << >>, ready' = Tail(ready)
  PROVE  /\ ready' \in Seq(Tasks \cup {Stop})
         /\ Head(ready) = ready[1] /\ Head(ready) \in Tasks \cup {Stop}
         /\ 1 \in 1..Len(ready) /\ Len(ready) \in Nat
         /\ Len(ready') = Len(ready) - 1
         /\ \A i \in 1..Len(ready') : ready'[i] = ready[i + 1] /\ i + 1 \in 1..Len(ready)
<1>1. Len(ready) \in Nat /\ Len(ready) # 0
  BY LenProperties, EmptySeq
<1> QED
  BY <1>1, HeadTailProperties, ElementOfSeq

\* What is still queued may not be what was taken; the rest keeps its state.
LEMMA TailKeepsReady ==
  ASSUME TypeOK, ReadyInv, ready # << >>, ready' = Tail(ready),
         \A k \in Tasks : state'[k] = state[k] \/ k = Head(ready)
  PROVE  ReadyInv'
<1>1. /\ Head(ready) = ready[1] /\ 1 \in 1..Len(ready) /\ Len(ready) \in Nat
      /\ Len(ready') = Len(ready) - 1
      /\ \A i \in 1..Len(ready') : ready'[i] = ready[i + 1] /\ i + 1 \in 1..Len(ready)
  BY TailFacts DEF TypeOK
<1>2. ASSUME NEW i \in 1..Len(ready'), ready'[i] # Stop
      PROVE  state'[ready'[i]] = "ready"
  <2>1. ready'[i] \in Tasks /\ state[ready'[i]] = "ready"
    BY <1>1, <1>2, ElementOfSeq DEF TypeOK, ReadyInv
  <2>2. ready'[i] # Head(ready)
    BY <1>1, <1>2 DEF ReadyInv
  <2> QED
    BY <2>1, <2>2
<1>3. ASSUME NEW i \in 1..Len(ready'), NEW j \in 1..Len(ready'),
             ready'[i] = ready'[j], ready'[i] # Stop
      PROVE  i = j
  <2>1. i + 1 = j + 1
    BY <1>1, <1>3 DEF ReadyInv
  <2> QED
    BY <2>1
<1> QED
  BY <1>2, <1>3 DEF ReadyInv

\* A coroutine that was not queued may be put at the end when it becomes ready.
LEMMA Queued ==
  ASSUME TypeOK, ReadyInv, NEW k \in Tasks, state[k] # "ready",
         state' = [state EXCEPT ![k] = "ready"], ready' = Append(ready, k)
  PROVE  ReadyInv' /\ (StopQueued' <=> StopQueued)
<1>1. /\ Len(ready) \in Nat /\ Len(ready') = Len(ready) + 1
      /\ \A i \in 1..Len(ready) : ready'[i] = ready[i] /\ ready[i] \in Tasks \cup {Stop}
      /\ ready'[Len(ready) + 1] = k
  BY AppendFacts, ElementOfSeq DEF TypeOK
<1>2. k # Stop /\ \A i \in 1..Len(ready) : ready[i] # k
  BY NamesAssumption DEF ReadyInv
<1>3. \A i \in 1..Len(ready') : i \in 1..Len(ready) \/ i = Len(ready) + 1
  BY <1>1
<1>4. \A i \in 1..Len(ready') : ready'[i] # Stop => state'[ready'[i]] = "ready"
  BY <1>1, <1>2, <1>3 DEF ReadyInv, TypeOK
<1>5. \A i, j \in 1..Len(ready') : ready'[i] = ready'[j] /\ ready'[i] # Stop => i = j
  BY <1>1, <1>2, <1>3 DEF ReadyInv
<1>6. StopQueued' <=> StopQueued
  BY <1>1, <1>2, <1>3 DEF StopQueued
<1> QED
  BY <1>4, <1>5, <1>6 DEF ReadyInv

\* Submitting takes a coroutine that was not submitted before.
LEMMA SubmitFacts ==
  ASSUME TypeOK, ReadyInv, Submit
  PROVE  /\ Fresh \in Tasks /\ state[Fresh] = "none" /\ Fresh # running
         /\ state' = [state EXCEPT ![Fresh] = "ready"]
         /\ ready' \in Seq(Tasks \cup {Stop})
         /\ ReadyInv' /\ (StopQueued' <=> StopQueued)
         /\ Unfinished' = Unfinished \cup {Fresh} /\ Fresh \notin Unfinished
<1>1. Fresh \in Tasks /\ state[Fresh] = "none"
  BY DEF Submit, CanSubmit, Fresh
<1>2. state' = [state EXCEPT ![Fresh] = "ready"] /\ ready' = Append(ready, Fresh)
  BY DEF Submit
<1>3. Fresh # running
  BY <1>1, NamesAssumption DEF TypeOK
<1>4. ready' \in Seq(Tasks \cup {Stop}) /\ ReadyInv' /\ (StopQueued' <=> StopQueued)
  BY <1>1, <1>2, AppendFacts, Queued DEF TypeOK
<1>5. Unfinished' = Unfinished \cup {Fresh} /\ Fresh \notin Unfinished
  BY <1>1, <1>2 DEF Unfinished, TypeOK
<1> QED
  BY <1>1, <1>2, <1>3, <1>4, <1>5

-----------------------------------------------------------------------------
LEMMA InitIInv == Init => IInv
<1> SUFFICES ASSUME Init PROVE IInv
  OBVIOUS
<1>1. ready = << >> /\ ready \in Seq(Tasks \cup {Stop}) /\ Len(ready) = 0
  BY EmptySeq DEF Init
<1>2. TypeOK
  <2>1. 0 \in 0..MaxAwaits
    BY AwaitsAssumption
  <2>2. {k \in Tasks : state[k] = "running"} = {running} \ {NoTask}
    BY DEF Init
  <2> QED
    BY <1>1, <2>1, <2>2 DEF Init, TypeOK
<1>3. BlockedInv /\ ReadyInv /\ StopInv
  BY <1>1 DEF Init, BlockedInv, Blocked, ReadyInv, StopInv, StopQueued, Referenced
<1>4. EveryCoroutineIsAwaited
  BY DEF Init, EveryCoroutineIsAwaited, Unfinished
<1> QED
  BY <1>2, <1>3, <1>4 DEF IInv

\* The turns of the program that submit a coroutine and block on it.
LEMMA SubmittingStep ==
  ASSUME IInv, NEW t \in Threads, NEW where \in {"call", "next"},
         (held /\ thread[t] = "out") \/ thread[t] = "iterator",
         Submit,
         task' = [task EXCEPT ![t] = Fresh],
         thread' = [thread EXCEPT ![t] = where],
         UNCHANGED <<held, awaits, loop, stopping, running, del, closing, unwatched>>
  PROVE  IInv'
<1>1. /\ Fresh \in Tasks /\ state[Fresh] = "none" /\ Fresh # running
      /\ state' = [state EXCEPT ![Fresh] = "ready"]
      /\ ready' \in Seq(Tasks \cup {Stop})
      /\ ReadyInv' /\ (StopQueued' <=> StopQueued)
      /\ Unfinished' = Unfinished \cup {Fresh}
  BY SubmitFacts DEF IInv
<1>2. TypeOK'
  BY <1>1 DEF IInv, TypeOK
<1>3. t \in Blocked' /\ task'[t] = Fresh /\ t \notin Blocked
      /\ \A u \in Threads \ {t} : (u \in Blocked' <=> u \in Blocked) /\ task'[u] = task[u]
  BY DEF IInv, TypeOK, Blocked
<1>4. BlockedInv'
  BY <1>1, <1>3 DEF IInv, BlockedInv, Blocked
<1>5. StopInv'
  BY <1>1 DEF IInv, TypeOK, StopInv, Referenced
<1>6. EveryCoroutineIsAwaited'
  BY <1>1, <1>3 DEF IInv, EveryCoroutineIsAwaited, Blocked
<1> QED
  BY <1>1, <1>2, <1>4, <1>5, <1>6 DEF IInv

LEMMA RunSyncStep == ASSUME IInv, NEW t \in Threads, RunSync(t) PROVE IInv'
BY SubmittingStep DEF RunSync

LEMMA NextItemStep == ASSUME IInv, NEW t \in Threads, NextItem(t) PROVE IInv'
BY SubmittingStep DEF NextItem

\* The turns of the program that leave the loop alone and block no thread: a thread
\* that does no longer wait has its coroutine finished, or leaves it unwatched.
LEMMA ProgramStep ==
  ASSUME IInv, NEW t \in Threads, NEW where \in {"out", "iterator"},
         thread' = [thread EXCEPT ![t] = where],
         where = "iterator" => held \/ thread[t] # "out",
         task' = task \/ (t \notin Blocked /\ task' = [task EXCEPT ![t] = NoTask]),
         t \in Blocked => state[task[t]] = "finished" \/ task[t] \in unwatched',
         unwatched \subseteq unwatched', unwatched' \subseteq Tasks, closing' \subseteq Tasks,
         UNCHANGED <<held, taskVars, loopVars, del>>
  PROVE  IInv'
<1>1. TypeOK'
  BY DEF IInv, TypeOK, taskVars, loopVars
<1>2. Blocked' = Blocked \ {t} /\ \A u \in Threads \ {t} : task'[u] = task[u]
  BY DEF IInv, TypeOK, Blocked
<1>3. BlockedInv'
  BY <1>2 DEF IInv, BlockedInv, Blocked
<1>4. ReadyInv'
  BY DEF IInv, ReadyInv, taskVars, loopVars
<1>5. StopInv'
  BY DEF IInv, TypeOK, StopInv, StopQueued, Referenced, loopVars
<1>6. EveryCoroutineIsAwaited'
  <2> SUFFICES ASSUME NEW k \in Unfinished, k \notin unwatched'
               PROVE  \E u \in Blocked' : task'[u] = k
    BY DEF EveryCoroutineIsAwaited, Unfinished, taskVars
  <2>1. PICK u \in Blocked : task[u] = k
    BY DEF IInv, EveryCoroutineIsAwaited
  <2>2. u # t
    BY <2>1 DEF Unfinished
  <2> QED
    BY <1>2, <2>1, <2>2 DEF Blocked
<1> QED
  BY <1>1, <1>3, <1>4, <1>5, <1>6 DEF IInv

LEMMA ReturnStep == ASSUME IInv, NEW t \in Threads, Return(t) PROVE IInv'
BY ProgramStep DEF Return, Blocked, IInv, TypeOK

LEMMA OpenIteratorStep == ASSUME IInv, NEW t \in Threads, OpenIterator(t) PROVE IInv'
BY ProgramStep DEF OpenIterator, Blocked, IInv, TypeOK

LEMMA GotItemStep == ASSUME IInv, NEW t \in Threads, GotItem(t) PROVE IInv'
BY ProgramStep DEF GotItem, Blocked, IInv, TypeOK

LEMMA AbandonStep == ASSUME IInv, NEW t \in Threads, Abandon(t) PROVE IInv'
BY ProgramStep DEF Abandon, Blocked, IInv, TypeOK

LEMMA InterruptStep == ASSUME IInv, NEW t \in Threads, Interrupt(t) PROVE IInv'
BY ProgramStep DEF Interrupt, Blocked, BlockedInv, IInv, TypeOK

LEMMA DropStep == ASSUME IInv, Drop PROVE IInv'
BY DEF Drop, IInv, TypeOK, BlockedInv, Blocked, ReadyInv, StopInv, StopQueued, Referenced,
       EveryCoroutineIsAwaited, Unfinished, taskVars, loopVars

\* An aclose is submitted by nobody who waits: it is unwatched.
LEMMA CloseGeneratorStep == ASSUME IInv, NEW k \in Tasks, CloseGenerator(k) PROVE IInv'
<1>1. UNCHANGED <<held, thread, task, awaits, loop, stopping, running, del>>
      /\ closing' \subseteq Tasks
  BY DEF CloseGenerator, programVars, IInv, TypeOK
<1>2. BlockedInv'
  BY <1>1 DEF IInv, BlockedInv, Blocked
<1>3. CASE Submit /\ unwatched' = unwatched \cup {Fresh}
  <2>1. /\ Fresh \in Tasks /\ state[Fresh] = "none" /\ Fresh # running
        /\ state' = [state EXCEPT ![Fresh] = "ready"]
        /\ ready' \in Seq(Tasks \cup {Stop})
        /\ ReadyInv' /\ (StopQueued' <=> StopQueued)
        /\ Unfinished' = Unfinished \cup {Fresh}
    BY <1>3, SubmitFacts DEF IInv
  <2>2. TypeOK'
    BY <1>1, <1>3, <2>1 DEF IInv, TypeOK
  <2>3. StopInv'
    BY <1>1, <2>1 DEF IInv, StopInv, Referenced
  <2>4. EveryCoroutineIsAwaited'
    BY <1>1, <1>3, <2>1 DEF IInv, EveryCoroutineIsAwaited, Blocked
  <2> QED
    BY <1>2, <2>1, <2>2, <2>3, <2>4 DEF IInv
<1>4. CASE UNCHANGED <<state, ready, unwatched>>
  BY <1>1, <1>2, <1>4 DEF IInv, TypeOK, ReadyInv, StopInv, StopQueued, Referenced,
     EveryCoroutineIsAwaited, Unfinished, Blocked
<1> QED
  BY <1>3, <1>4 DEF CloseGenerator

-----------------------------------------------------------------------------
(* The loop and __del__: steps that leave the program alone. *)

\* A step of the loop or of __del__ touches no thread, and ends coroutines at most.
LEMMA ThreadsStay ==
  ASSUME IInv, UNCHANGED <<programVars, unwatched>>, Unfinished' \subseteq Unfinished
  PROVE  BlockedInv' /\ EveryCoroutineIsAwaited' /\ (Referenced' <=> Referenced)
BY DEF IInv, BlockedInv, Blocked, EveryCoroutineIsAwaited, Referenced, programVars

LEMMA RunStep == ASSUME IInv, Run PROVE IInv'
<1>1. /\ ready # << >> /\ ready' = Tail(ready) /\ running = NoTask /\ loop = "running"
      /\ UNCHANGED <<programVars, awaits, loop, del, closing, unwatched>>
  BY DEF Run
<1>2. /\ ready' \in Seq(Tasks \cup {Stop})
      /\ Head(ready) = ready[1] /\ Head(ready) \in Tasks \cup {Stop}
      /\ 1 \in 1..Len(ready) /\ Len(ready) \in Nat
      /\ Len(ready') = Len(ready) - 1
      /\ \A i \in 1..Len(ready') : ready'[i] = ready[i + 1] /\ i + 1 \in 1..Len(ready)
  BY <1>1, TailFacts DEF IInv, TypeOK
<1>3. StopQueued' => StopQueued
  BY <1>2 DEF StopQueued
<1>4. CASE Head(ready) = Stop /\ stopping' = TRUE /\ UNCHANGED <<running, state>>
  <2>1. TypeOK'
    BY <1>1, <1>2, <1>4 DEF IInv, TypeOK, programVars
  <2>2. ReadyInv'
    BY <1>1, <1>4, TailKeepsReady DEF IInv
  <2>3. StopQueued
    BY <1>2, <1>4 DEF StopQueued
  <2>4. BlockedInv' /\ EveryCoroutineIsAwaited' /\ (Referenced' <=> Referenced)
    BY <1>1, <1>4, ThreadsStay DEF Unfinished
  <2>5. StopInv'
    BY <2>3, <2>4 DEF IInv, StopInv
  <2> QED
    BY <2>1, <2>2, <2>4, <2>5 DEF IInv
<1>5. CASE /\ Head(ready) # Stop
           /\ running' = Head(ready)
           /\ state' = [state EXCEPT ![Head(ready)] = "running"]
           /\ UNCHANGED stopping
  <2> DEFINE k == Head(ready)
  <2>1. k \in Tasks /\ state[k] = "ready" /\ k # NoTask
    BY <1>2, <1>5, NamesAssumption DEF IInv, ReadyInv
  <2>2. TypeOK'
    BY <1>1, <1>2, <1>5, <2>1 DEF IInv, TypeOK, programVars
  <2>3. ReadyInv'
    <3>1. \A j \in Tasks : state'[j] = state[j] \/ j = k
      BY <1>5 DEF IInv, TypeOK
    <3> QED
      BY <1>1, <3>1, TailKeepsReady DEF IInv
  <2>4. BlockedInv' /\ EveryCoroutineIsAwaited' /\ (Referenced' <=> Referenced)
    <3>1. Unfinished' \subseteq Unfinished
      BY <1>5, <2>1 DEF Unfinished, IInv, TypeOK
    <3> QED
      BY <1>1, <3>1, ThreadsStay
  <2>5. StopInv'
    BY <1>1, <1>3, <1>5, <2>4 DEF IInv, StopInv
  <2> QED
    BY <2>2, <2>3, <2>4, <2>5 DEF IInv
<1> QED
  BY <1>4, <1>5 DEF Run

LEMMA StepEndsStep == ASSUME IInv, StepEnds PROVE IInv'
<1>1. /\ running \in Tasks /\ running' = NoTask /\ state[running] = "running"
      /\ UNCHANGED <<programVars, ready, loop, stopping, del, closing, unwatched>>
  BY DEF StepEnds, IInv, TypeOK
<1>2. /\ \E s \in {"awaiting", "finished"} : state' = [state EXCEPT ![running] = s]
      /\ awaits' = awaits \/ (awaits[running] < MaxAwaits
                               /\ awaits' = [awaits EXCEPT ![running] = @ + 1])
  BY DEF StepEnds
<1>3. awaits' \in [Tasks -> 0..MaxAwaits]
  <2>1. awaits \in [Tasks -> 0..MaxAwaits]
    BY DEF IInv, TypeOK
  <2>2. awaits[running] < MaxAwaits => awaits[running] + 1 \in 0..MaxAwaits
    BY <1>1, <2>1, AwaitsAssumption
  <2> QED
    BY <1>1, <1>2, <2>1, <2>2
<1>4. TypeOK'
  BY <1>1, <1>2, <1>3 DEF IInv, TypeOK, programVars
<1>5. ReadyInv'
  BY <1>1, <1>2 DEF IInv, TypeOK, ReadyInv
<1>6. BlockedInv' /\ EveryCoroutineIsAwaited' /\ (Referenced' <=> Referenced)
  <2>1. Unfinished' \subseteq Unfinished
    BY <1>1, <1>2 DEF Unfinished, IInv, TypeOK
  <2> QED
    BY <1>1, <2>1, ThreadsStay
<1>7. StopInv'
  BY <1>1, <1>6 DEF IInv, StopInv, StopQueued
<1> QED
  BY <1>4, <1>5, <1>6, <1>7 DEF IInv

LEMMA ArrivesStep == ASSUME IInv, NEW k \in Tasks, Arrives(k) PROVE IInv'
<1>1. /\ state[k] = "awaiting" /\ state' = [state EXCEPT ![k] = "ready"]
      /\ ready' = Append(ready, k)
      /\ UNCHANGED <<programVars, awaits, loop, stopping, running, del, closing, unwatched>>
  BY DEF Arrives
<1>2. ready' \in Seq(Tasks \cup {Stop}) /\ ReadyInv' /\ (StopQueued' <=> StopQueued)
  BY <1>1, AppendFacts, Queued DEF IInv, TypeOK
<1>3. TypeOK'
  BY <1>1, <1>2 DEF IInv, TypeOK, programVars
<1>4. BlockedInv' /\ EveryCoroutineIsAwaited' /\ (Referenced' <=> Referenced)
  <2>1. Unfinished' \subseteq Unfinished
    BY <1>1 DEF Unfinished, IInv, TypeOK
  <2> QED
    BY <1>1, <2>1, ThreadsStay
<1>5. StopInv'
  BY <1>1, <1>2, <1>4 DEF IInv, StopInv
<1> QED
  BY <1>2, <1>3, <1>4, <1>5 DEF IInv

LEMMA LoopEndsStep == ASSUME IInv, LoopEnds PROVE IInv'
<1>1. BlockedInv' /\ EveryCoroutineIsAwaited' /\ (Referenced' <=> Referenced)
  BY ThreadsStay DEF LoopEnds, Unfinished, taskVars
<1>2. TypeOK' /\ ReadyInv'
  BY DEF LoopEnds, IInv, TypeOK, ReadyInv, taskVars, programVars
<1>3. StopInv'
  BY <1>1 DEF LoopEnds, IInv, StopInv
<1> QED
  BY <1>1, <1>2, <1>3 DEF IInv

LEMMA DelStopStep == ASSUME IInv, NEW by \in {"program", "loop"}, DelStop(by) PROVE IInv'
<1>1. /\ ~Referenced /\ ready' = Append(ready, Stop) /\ del' \in {"join", "done"}
      /\ UNCHANGED <<programVars, taskVars, loop, stopping, running, closing, unwatched>>
  BY DEF DelStop
<1>2. /\ ready' \in Seq(Tasks \cup {Stop})
      /\ Len(ready) \in Nat /\ Len(ready') = Len(ready) + 1
      /\ \A i \in 1..Len(ready) : ready'[i] = ready[i]
      /\ ready'[Len(ready) + 1] = Stop
  BY <1>1, AppendFacts DEF IInv, TypeOK
<1>3. BlockedInv' /\ EveryCoroutineIsAwaited' /\ (Referenced' <=> Referenced)
  BY <1>1, ThreadsStay DEF Unfinished, taskVars
<1>4. TypeOK'
  BY <1>1, <1>2 DEF IInv, TypeOK, programVars, taskVars
<1>5. ReadyInv'
  <2>1. \A i \in 1..Len(ready') : i \in 1..Len(ready) \/ ready'[i] = Stop
    BY <1>2
  <2> QED
    BY <1>1, <1>2, <2>1 DEF IInv, ReadyInv, taskVars
<1>6. StopInv'
  BY <1>1, <1>3 DEF StopInv
<1> QED
  BY <1>3, <1>4, <1>5, <1>6 DEF IInv

LEMMA DelCloseStep == ASSUME IInv, DelClose PROVE IInv'
<1>1. BlockedInv' /\ EveryCoroutineIsAwaited' /\ (Referenced' <=> Referenced)
  BY ThreadsStay DEF DelClose, Unfinished, taskVars
<1>2. TypeOK' /\ ReadyInv'
  BY DEF DelClose, IInv, TypeOK, ReadyInv, taskVars, programVars
<1>3. StopInv'
  BY <1>1 DEF DelClose, IInv, StopInv
<1> QED
  BY <1>1, <1>2, <1>3 DEF IInv

LEMMA NextIInv == IInv /\ [Next]_vars => IInv'
<1> SUFFICES ASSUME IInv, [Next]_vars PROVE IInv'
  OBVIOUS
<1>1. ASSUME NEW t \in Threads, Program(t) PROVE IInv'
  BY <1>1, RunSyncStep, OpenIteratorStep, NextItemStep, AbandonStep, InterruptStep DEF Program
<1>2. ASSUME NEW t \in Threads, Resume(t) PROVE IInv'
  BY <1>2, ReturnStep, GotItemStep DEF Resume
<1>3. ASSUME NEW k \in Tasks, CloseGenerator(k) \/ Arrives(k) PROVE IInv'
  BY <1>3, CloseGeneratorStep, ArrivesStep
<1>4. CASE LoopStep
  BY <1>4, RunStep, StepEndsStep, LoopEndsStep DEF LoopStep
<1>5. CASE Drop
  BY <1>5, DropStep
<1>6. CASE Del
  BY <1>6, DelCloseStep, DelStopStep DEF Del
<1>7. CASE UNCHANGED vars
  BY <1>7 DEF vars, programVars, loopVars, taskVars, IInv, TypeOK, BlockedInv, Blocked,
     ReadyInv, StopInv, StopQueued, Referenced, EveryCoroutineIsAwaited, Unfinished
<1> QED
  BY <1>1, <1>2, <1>3, <1>4, <1>5, <1>6, <1>7 DEF Next

LEMMA Invariant == Spec => []IInv
BY InitIInv, NextIInv, PTL DEF Spec

-----------------------------------------------------------------------------
\* The state keeps its shape: the loop executes one coroutine at a time, the one
\* whose state says so.
THEOREM TypeCorrect == Spec => []TypeOK
<1>1. IInv => TypeOK
  BY DEF IInv
<1> QED
  BY <1>1, Invariant, PTL

\* No thread blocks on a loop that was told to stop (_run_sync, __del__): a stop is
\* queued only when the last reference is gone, and no reference comes back.
THEOREM NobodyBlocksOnAStoppedLoop == Spec => []BlockedMeansLoopRuns
<1>1. IInv => BlockedMeansLoopRuns
  <2> SUFFICES ASSUME IInv, Blocked # {} \/ \E t \in Threads : thread[t] = "iterator"
               PROVE  loop = "running" /\ ~stopping /\ ~StopQueued
    BY DEF BlockedMeansLoopRuns, StopQueued
  <2>1. Referenced
    BY DEF Referenced, Blocked
  <2> QED
    BY <2>1 DEF IInv, TypeOK, StopInv
<1> QED
  BY <1>1, Invariant, PTL

\* A coroutine runs without a thread that waits for it only if its thread was
\* interrupted, or if it closes an abandoned generator.
THEOREM CoroutinesAreAwaited == Spec => []EveryCoroutineIsAwaited
<1>1. IInv => EveryCoroutineIsAwaited
  BY DEF IInv
<1> QED
  BY <1>1, Invariant, PTL
=============================================================================
