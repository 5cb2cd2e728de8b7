---------------------------- MODULE LoadPromise ----------------------------
(***************************************************************************)
(* What a program that loads a table call after call (push_pandas,         *)
(* update_pandas) may rely on, whatever fails on the way: the backend      *)
(* takes whole dataframes only, one per try at most; while a call is under *)
(* way nothing but that call writes the table, save loads that were given  *)
(* up before and come late; a call that returns was written, and the table *)
(* is then what it wrote, unless a late load came over it.                 *)
(***************************************************************************)
EXTENDS Naturals

CONSTANTS NbCalls, MaxTry, NoTable, Initial

VARIABLES holds,     \* whose dataframe the table holds
          outcome,   \* outcome[i]: what the program knows of call i
          written    \* the loads the backend took

loadVars == <<holds, outcome, written>>

PromisedLoads == [call : 1..NbCalls, try : 0..MaxTry, complete : {TRUE}, late : BOOLEAN]

LoadPromiseInit ==
  /\ holds \in {NoTable, Initial}
  /\ outcome = [i \in 1..NbCalls |-> "unknown"]
  /\ written = {}

\* The calls come one after the other.
UnderWay(i) ==
  /\ outcome[i] = "unknown"
  /\ \A j \in 1..NbCalls : j < i => outcome[j] # "unknown"

Write(l) ==
  /\ l.late \/ UnderWay(l.call)
  /\ \A w \in written : w.call = l.call => w.try # l.try
  /\ holds' = l.call
  /\ written' = written \cup {l}
  /\ UNCHANGED outcome

Return(i) ==
  /\ UnderWay(i)
  /\ \E w \in written : w.call = i
  /\ \/ holds = i
     \/ \E w \in written : w.late /\ w.call = holds
  /\ outcome' = [outcome EXCEPT ![i] = "returned"]
  /\ UNCHANGED <<holds, written>>

Raise(i) ==
  /\ UnderWay(i)
  /\ outcome' = [outcome EXCEPT ![i] = "raised"]
  /\ UNCHANGED <<holds, written>>

\* A load and the return of its call may be one step of the program.
WriteAndReturn(l) ==
  /\ UnderWay(l.call) /\ ~l.late
  /\ \A w \in written : w.call = l.call => w.try # l.try
  /\ holds' = l.call
  /\ written' = written \cup {l}
  /\ outcome' \in {[outcome EXCEPT ![l.call] = o] : o \in {"returned", "raised"}}

LoadPromiseNext ==
  \/ \E l \in PromisedLoads : Write(l) \/ WriteAndReturn(l)
  \/ \E i \in 1..NbCalls : Return(i) \/ Raise(i)

LoadPromiseSpec == LoadPromiseInit /\ [][LoadPromiseNext]_loadVars
=============================================================================
