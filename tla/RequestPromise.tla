--------------------------- MODULE RequestPromise ---------------------------
(***************************************************************************)
(* What a caller of RetryPfxSession may rely on, whatever the session, the *)
(* network and the backend do: a request is executed by the backend at     *)
(* most once per try it is allowed, a request that returned was executed   *)
(* (a stream excepted: its answer is passed on unread), and a request that *)
(* raised may have been executed or not - possibly later than the moment   *)
(* the caller was told of the failure.                                     *)
(***************************************************************************)
EXTENDS Naturals

CONSTANTS Requests,     \* calls of get, post, post_simple or get_stream
          Checked,      \* those whose answer is looked at before they return
          Budget        \* Budget[r]: the tries request r is allowed

VARIABLES phase,        \* what the caller of r has seen so far
          executed      \* the tries of r the backend has executed

promiseVars == <<phase, executed>>

PromiseInit ==
  /\ phase = [r \in Requests |-> "idle"]
  /\ executed = [r \in Requests |-> {}]

Start(r) ==
  /\ phase[r] = "idle"
  /\ phase' = [phase EXCEPT ![r] = "running"]
  /\ UNCHANGED executed

Execute(r) ==
  /\ phase[r] # "idle"
  /\ \E try \in 1..Budget[r] \ executed[r] :
        executed' = [executed EXCEPT ![r] = @ \cup {try}]
  /\ UNCHANGED phase

Succeed(r) ==
  /\ phase[r] = "running"
  /\ r \in Checked => executed[r] # {}
  /\ phase' = [phase EXCEPT ![r] = "ok"]
  /\ UNCHANGED executed

Fail(r) ==
  /\ phase[r] \in {"idle", "running"}
  /\ phase' = [phase EXCEPT ![r] = "failed"]
  /\ UNCHANGED executed

PromiseNext == \E r \in Requests : Start(r) \/ Execute(r) \/ Succeed(r) \/ Fail(r)

PromiseSpec == PromiseInit /\ [][PromiseNext]_promiseVars
=============================================================================
