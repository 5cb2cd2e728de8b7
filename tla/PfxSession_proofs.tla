------------------------- MODULE PfxSession_proofs -------------------------
(***************************************************************************)
(* Proofs about PfxSession, for any set of calls, any number of retries    *)
(* and any number of calls open at once.                                   *)
(***************************************************************************)
EXTENDS PfxSession, TLAPS

\* A call keeps to its mode, and a sleeping one has a delay left.
ModeInv ==
  \A r \in Requests :
     /\ Mode[r] # "post" => nbTries[r] = 0 /\ pc[r] # "sleep"
     /\ pc[r] = "sleep" => nbTries[r] < MaxRetries

\* Only tries that were made are executed or on their way.
TryInv ==
  /\ \A r \in Requests : executed[r] \subseteq 1..(nbTries[r] + 1)
  /\ \A r \in Requests : pc[r] = "idle" => executed[r] = {}
  /\ \A m \in net : pc[m.req] # "idle" /\ m.try \in 1..(nbTries[m.req] + 1)

\* Only a waiting call holds an answer; one it would accept was executed.
ReplyInv ==
  /\ \A r \in Requests : pc[r] \notin Waiting => reply[r] = NoReply
  /\ \A r \in Checked :
        pc[r] = "wait" /\ reply[r] # NoReply /\ Accepted(r, reply[r])
           => nbTries[r] + 1 \in executed[r]

IInv == TypeOK /\ ModeInv /\ TryInv /\ ReplyInv /\ ReturnedMeansExecuted

\* The constants of the answers and errors are what TypeOK says.
LEMMA Shapes ==
  /\ NoReply \in Answers
  /\ NoError \in Errors /\ Timeout \in Errors
  /\ TransportError \in Errors /\ AttributeError \in Errors
  /\ FileNotFoundError \in Errors
  /\ \A s \in Statuses : HTTPStatusError(s) \in Errors
BY DEF NoReply, Answers, NoError, Errors, Timeout, TransportError, AttributeError,
       FileNotFoundError, HTTPStatusError, Statuses, NoToken

\* An exception ends the try: the call sleeps only if it has a delay left.
LEMMA RaiseStep ==
  ASSUME TypeOK, NEW r \in Requests, NEW e \in Errors, Raise(r, e)
  PROVE  /\ error' \in [Requests -> Errors]
         /\ reply' \in [Requests -> Answers]
         /\ reply'[r] = NoReply
         /\ \A q \in Requests \ {r} : /\ pc'[q] = pc[q]
                                      /\ reply'[q] = reply[q]
                                      /\ error'[q] = error[q]
         /\ pc' \in [Requests -> {"idle", "login", "wait", "sleep", "returned", "raised"}]
         /\ pc'[r] \in {"sleep", "raised"}
         /\ pc'[r] = "sleep" => Mode[r] = "post" /\ nbTries[r] < MaxRetries
BY Shapes, MaxRetriesAssumption DEF TypeOK, Raise

LEMMA InitIInv == Init => IInv
BY Shapes, MaxRetriesAssumption, AuthAssumption
   DEF Init, IInv, TypeOK, ModeInv, TryInv, ReplyInv, ReturnedMeansExecuted,
       NoToken, Checked

\* The first step of a try sends a login or the request, or finds no credential.
LEMMA BeforeRequestStep ==
  ASSUME IInv, NEW r \in Requests, NEW try \in Nat,
         pc[r] \in {"idle", "sleep"}, BeforeRequest(r, try)
  PROVE  /\ pc' \in [Requests -> {"idle", "login", "wait", "sleep", "returned", "raised"}]
         /\ pc'[r] \in {"login", "wait", "raised"}
         /\ \A q \in Requests \ {r} : pc'[q] = pc[q]
         /\ reply' = reply
         /\ error' \in [Requests -> Errors]
         /\ pfxtoken' \in Nat /\ cookie' \in Nat /\ credential' \in BOOLEAN
         /\ net' \subseteq Messages
         /\ \A m \in net' : m \in net \/ (m.req = r /\ m.try = try)
<1> USE DEF IInv, TypeOK, authVars
<1>0. reply[r] = NoReply
  BY DEF ReplyInv, Waiting
<1>1. CASE Known = {} /\ credential
  BY <1>1 DEF BeforeRequest, NoToken, Message, Messages
<1>2. CASE Known = {} /\ ~credential
  <2>1. PICK e \in {FileNotFoundError, AttributeError} :
           Raise(r, e) /\ UNCHANGED <<authVars, net>>
    BY <1>2 DEF BeforeRequest
  <2>2. ~DefaultRetryPredicate(e)
    BY DEF DefaultRetryPredicate, FileNotFoundError, AttributeError
  <2>3. reply' = reply
    BY <2>1, <1>0 DEF Raise
  <2> QED
    BY <2>1, <2>2, <2>3, Shapes DEF Raise
<1>3. CASE Known # {}
  <2>1. PICK token \in Known :
           /\ cookie' = token
           /\ Send(r, try, token)
           /\ UNCHANGED <<error, reply, pfxtoken, credential>>
    BY <1>3 DEF BeforeRequest
  <2>2. token \in Nat
    BY <2>1 DEF Known
  <2> QED
    BY <2>1, <2>2 DEF Send, Message, Messages
<1> QED
  BY <1>1, <1>2, <1>3

\* Calling and waking up.
LEMMA TryStep ==
  ASSUME IInv, NEW r \in Requests, Call(r) \/ WakeUp(r)
  PROVE  IInv'
<1>1. /\ nbTries' \in [Requests -> 0..MaxRetries]
      /\ nbTries'[r] >= nbTries[r]
      /\ \A q \in Requests \ {r} : nbTries'[q] = nbTries[q]
      /\ Mode[r] # "post" => nbTries'[r] = 0
  BY MaxRetriesAssumption DEF Call, WakeUp, IInv, TypeOK, ModeInv
<1>2. pc[r] \in {"idle", "sleep"} /\ UNCHANGED <<executed, issued, auth, tokenFile>>
  BY DEF Call, WakeUp, sourceVars
<1>3. PICK try \in Nat : BeforeRequest(r, try) /\ try \in 1..(nbTries'[r] + 1)
  <2>1. CASE Call(r)
    BY <2>1, <1>1, MaxRetriesAssumption DEF Call, IInv, TypeOK
  <2>2. CASE WakeUp(r)
    <3>1. nbTries'[r] = nbTries[r] + 1 /\ nbTries[r] \in Nat
      BY <2>2, MaxRetriesAssumption DEF WakeUp, IInv, TypeOK
    <3> QED
      BY <2>2, <3>1 DEF WakeUp
  <2> QED
    BY <2>1, <2>2
<1>4. /\ pc' \in [Requests -> {"idle", "login", "wait", "sleep", "returned", "raised"}]
      /\ pc'[r] \in {"login", "wait", "raised"}
      /\ \A q \in Requests \ {r} : pc'[q] = pc[q]
      /\ reply' = reply
      /\ error' \in [Requests -> Errors]
      /\ pfxtoken' \in Nat /\ cookie' \in Nat /\ credential' \in BOOLEAN
      /\ net' \subseteq Messages
      /\ \A m \in net' : m \in net \/ (m.req = r /\ m.try = try)
  BY <1>2, <1>3, BeforeRequestStep
<1>5. TypeOK'
  BY <1>1, <1>2, <1>4 DEF IInv, TypeOK
<1>6. ModeInv'
  BY <1>1, <1>4 DEF IInv, ModeInv
<1>7. TryInv'
  BY <1>1, <1>2, <1>3, <1>4, MaxRetriesAssumption
     DEF IInv, TypeOK, TryInv, Messages
<1>8. ReplyInv'
  BY <1>1, <1>2, <1>4 DEF IInv, ReplyInv, Checked, Waiting, Accepted, RaiseForStatus
<1>9. ReturnedMeansExecuted'
  BY <1>1, <1>2, <1>4 DEF IInv, ReturnedMeansExecuted, Checked
<1> QED
  BY <1>5, <1>6, <1>7, <1>8, <1>9 DEF IInv

\* A try ended by an exception, with nothing else changed but the auth object
\* and messages of this try.
LEMMA EndedTryStep ==
  ASSUME IInv, NEW r \in Requests, pc[r] \in Waiting,
         NEW e \in Errors, Raise(r, e),
         UNCHANGED <<nbTries, net, executed, issued, sourceVars>>,
         pfxtoken' \in Nat, cookie' \in Nat, credential' \in BOOLEAN
  PROVE  IInv'
<1>1. /\ error' \in [Requests -> Errors]
      /\ reply' \in [Requests -> Answers]
      /\ reply'[r] = NoReply
      /\ \A q \in Requests \ {r} : pc'[q] = pc[q] /\ reply'[q] = reply[q]
      /\ pc' \in [Requests -> {"idle", "login", "wait", "sleep", "returned", "raised"}]
      /\ pc'[r] \in {"sleep", "raised"}
      /\ pc'[r] = "sleep" => Mode[r] = "post" /\ nbTries[r] < MaxRetries
  BY RaiseStep DEF IInv
<1>2. TypeOK'
  BY <1>1 DEF IInv, TypeOK, sourceVars
<1>3. ModeInv'
  BY <1>1 DEF IInv, ModeInv
<1>4. TryInv'
  BY <1>1 DEF IInv, TryInv, TypeOK, Messages
<1>5. ReplyInv'
  BY <1>1 DEF IInv, ReplyInv, Checked, Waiting, Accepted, RaiseForStatus, CheckForPfxError
<1>6. ReturnedMeansExecuted'
  BY <1>1 DEF IInv, ReturnedMeansExecuted, Checked
<1> QED
  BY <1>2, <1>3, <1>4, <1>5, <1>6 DEF IInv

\* The token of an answer is a token.
LEMMA RefreshTokenStep ==
  ASSUME TypeOK, NEW a \in Answers, RefreshToken(a)
  PROVE  pfxtoken' \in Nat /\ cookie' \in Nat
BY DEF TypeOK, RefreshToken, Answers

LEMMA LoginAnsweredStep ==
  ASSUME IInv, NEW r \in Requests, LoginAnswered(r)
  PROVE  IInv'
<1>1. reply[r] \in Answers /\ pc[r] \in Waiting
  BY DEF IInv, TypeOK, LoginAnswered, Waiting
<1>2. UNCHANGED <<nbTries, executed, issued, sourceVars>>
  BY DEF LoginAnswered
<1>3. CASE ~CheckForPfxError(reply[r])
  <2>1. /\ HTTPStatusError(reply[r].status) \in Errors
        /\ Raise(r, HTTPStatusError(reply[r].status))
        /\ UNCHANGED <<authVars, net>>
    BY <1>1, <1>3, Shapes DEF LoginAnswered, Answers
  <2> QED
    BY <2>1, <1>1, <1>2, EndedTryStep DEF authVars, IInv, TypeOK
<1>4. CASE CheckForPfxError(reply[r]) /\ ~credential
  <2>1. RefreshToken(reply[r]) /\ credential' = FALSE
    BY <1>4 DEF LoginAnswered
  <2>2. Raise(r, AttributeError) /\ UNCHANGED net
    BY <1>4 DEF LoginAnswered
  <2> QED
    BY <2>1, <2>2, <1>1, <1>2, EndedTryStep, RefreshTokenStep, Shapes DEF IInv
<1>5. CASE CheckForPfxError(reply[r]) /\ credential
  <2>1. RefreshToken(reply[r]) /\ credential' = FALSE
    BY <1>5 DEF LoginAnswered
  <2>2. pfxtoken' \in Nat /\ cookie' \in Nat
    BY <2>1, <1>1, RefreshTokenStep DEF IInv
  <2>3. /\ Send(r, nbTries[r] + 1, cookie')
        /\ reply' = [reply EXCEPT ![r] = NoReply]
        /\ UNCHANGED error
    BY <1>5 DEF LoginAnswered
  <2>4. nbTries[r] \in Nat
    BY MaxRetriesAssumption DEF IInv, TypeOK
  <2>5. TypeOK'
    <3>1. Message(r, nbTries[r] + 1, "request", cookie') \in Messages
      BY <2>2, <2>4 DEF Message, Messages
    <3>2. net' \subseteq Messages
      BY <2>3, <3>1 DEF Send, IInv, TypeOK
    <3>3. /\ reply' \in [Requests -> Answers]
          /\ pc' \in [Requests -> {"idle", "login", "wait", "sleep", "returned", "raised"}]
      BY <2>3, Shapes DEF Send, IInv, TypeOK
    <3> QED
      BY <1>2, <2>1, <2>2, <2>3, <3>2, <3>3 DEF IInv, TypeOK, sourceVars
  <2>6. ModeInv'
    BY <1>2, <2>3 DEF IInv, TypeOK, ModeInv, Send
  <2>7. TryInv'
    BY <1>2, <2>3, <2>4 DEF IInv, TypeOK, TryInv, Send, Message, Messages
  <2>8. ReplyInv'
    BY <1>2, <2>3 DEF IInv, TypeOK, ReplyInv, Send, Checked, Waiting, Accepted,
                      RaiseForStatus, CheckForPfxError
  <2>9. ReturnedMeansExecuted'
    BY <1>2, <2>3 DEF IInv, TypeOK, ReturnedMeansExecuted, Send, Checked
  <2> QED
    BY <2>5, <2>6, <2>7, <2>8, <2>9 DEF IInv
<1> QED
  BY <1>3, <1>4, <1>5 DEF IInv, TypeOK

LEMMA AnsweredStep ==
  ASSUME IInv, NEW r \in Requests, Answered(r)
  PROVE  IInv'
<1>1. reply[r] \in Answers /\ pc[r] \in Waiting
  BY DEF IInv, TypeOK, Answered, Waiting
<1>2. UNCHANGED <<nbTries, net, executed, issued, sourceVars>>
  BY DEF Answered
<1>3. CASE ~Accepted(r, reply[r])
  <2>1. /\ HTTPStatusError(reply[r].status) \in Errors
        /\ Raise(r, HTTPStatusError(reply[r].status))
        /\ UNCHANGED authVars
    BY <1>1, <1>3, Shapes DEF Answered, Answers
  <2> QED
    BY <2>1, <1>1, <1>2, EndedTryStep DEF authVars, IInv, TypeOK
<1>4. CASE Accepted(r, reply[r])
  <2>1. /\ pc' = [pc EXCEPT ![r] = "returned"]
        /\ error' = [error EXCEPT ![r] = NoError]
        /\ reply' = [reply EXCEPT ![r] = NoReply]
        /\ UNCHANGED credential
    BY <1>4 DEF Answered
  <2>2. pfxtoken' \in Nat /\ cookie' \in Nat
    BY <1>4, <1>1, RefreshTokenStep DEF Answered, IInv, TypeOK
  <2>3. TypeOK'
    BY <1>2, <2>1, <2>2, Shapes DEF IInv, TypeOK, sourceVars
  <2>4. ModeInv'
    BY <1>2, <2>1 DEF IInv, TypeOK, ModeInv
  <2>5. TryInv'
    BY <1>2, <2>1 DEF IInv, TypeOK, TryInv, Messages
  <2>6. ReplyInv'
    BY <1>2, <2>1 DEF IInv, TypeOK, ReplyInv, Checked, Waiting, Accepted,
                      RaiseForStatus, CheckForPfxError
  <2>7. r \in Checked => nbTries[r] + 1 \in executed[r]
    BY <1>4 DEF Answered, IInv, ReplyInv
  <2>8. ReturnedMeansExecuted'
    BY <1>2, <2>1, <2>7 DEF IInv, TypeOK, ReturnedMeansExecuted, Checked
  <2> QED
    BY <2>3, <2>4, <2>5, <2>6, <2>8 DEF IInv
<1> QED
  BY <1>3, <1>4

\* A message handled: its answer reaches the call only while it waits for it.
LEMMA DeliverStep ==
  ASSUME IInv, NEW m \in net, NEW a \in Answers, Deliver(m, a),
         executed' \in {executed, [executed EXCEPT ![m.req] = @ \cup {m.try}]},
         m.kind = "request" /\ CheckForPfxError(a) /\ RaiseForStatus(a)
            => executed' = [executed EXCEPT ![m.req] = @ \cup {m.try}],
         issued' \in Nat
  PROVE  IInv'
<1> USE DEF IInv
<1>1. m.req \in Requests /\ m.try \in Nat /\ pc[m.req] # "idle"
  BY DEF TypeOK, Messages, TryInv
<1>2. UNCHANGED <<pc, nbTries, error, authVars, sourceVars>> /\ net' \subseteq net
  BY DEF Deliver
<1>3. /\ executed' \in [Requests -> SUBSET Nat]
      /\ \A r \in Requests : executed[r] \subseteq executed'[r]
      /\ \A r \in Requests : executed'[r] # executed[r] =>
            r = m.req /\ executed'[r] = executed[r] \cup {m.try}
  BY <1>1 DEF TypeOK
<1>4. TypeOK'
  BY <1>1, <1>2, <1>3 DEF TypeOK, Deliver, authVars, sourceVars
<1>5. ModeInv'
  BY <1>2 DEF ModeInv
<1>6. TryInv'
  BY <1>1, <1>2, <1>3 DEF TryInv
<1>7. ReplyInv'
  <2>1. \A r \in Requests : pc'[r] \notin Waiting => reply'[r] = NoReply
    BY <1>1, <1>2 DEF ReplyInv, Deliver, Awaited, Waiting, TypeOK
  <2>2. ASSUME NEW r \in Checked, pc'[r] = "wait", reply'[r] # NoReply,
               Accepted(r, reply'[r])
        PROVE  nbTries'[r] + 1 \in executed'[r]
    <3>1. r \in Requests /\ Mode[r] # "stream"
      BY DEF Checked
    <3>2. CASE reply'[r] = reply[r]
      BY <1>2, <1>3, <2>2, <3>1, <3>2 DEF ReplyInv, Accepted
    <3>3. CASE reply'[r] # reply[r]
      <4>1. Awaited(m) /\ r = m.req /\ reply'[r] = a
        BY <3>1, <3>3, <1>1 DEF Deliver, TypeOK
      <4>2. m.try = nbTries[r] + 1 /\ m.kind = "request"
        BY <4>1, <2>2, <1>2 DEF Awaited, TypeOK, Messages
      <4>3. CheckForPfxError(a) /\ RaiseForStatus(a)
        BY <2>2, <3>1, <4>1 DEF Accepted
      <4> QED
        BY <4>1, <4>2, <4>3, <1>1, <1>2 DEF TypeOK
    <3> QED
      BY <3>2, <3>3
  <2> QED
    BY <2>1, <2>2 DEF ReplyInv, Checked
<1>8. ReturnedMeansExecuted'
  BY <1>2, <1>3 DEF ReturnedMeansExecuted, Checked
<1> QED
  BY <1>4, <1>5, <1>6, <1>7, <1>8

LEMMA HandleStep ==
  ASSUME IInv, NEW m \in net, Handle(m)
  PROVE  IInv'
<1>1. issued \in Nat /\ m.kind \in {"login", "request"}
  BY DEF IInv, TypeOK, Messages
<1>2. CASE HandleLogin(m)
  <2>1. PICK a \in Answers : Deliver(m, a)
    BY <1>1, <1>2 DEF HandleLogin, Answer, Answers, Statuses, NoToken
  <2>2. executed' = executed /\ issued' \in Nat /\ m.kind = "login"
    BY <1>1, <1>2 DEF HandleLogin
  <2> QED
    BY <2>1, <2>2, DeliverStep
<1>3. CASE HandleRequest(m)
  <2>1. PICK a \in Answers :
           /\ Deliver(m, a)
           /\ executed' \in {executed, [executed EXCEPT ![m.req] = @ \cup {m.try}]}
           /\ CheckForPfxError(a) /\ RaiseForStatus(a)
                => executed' = [executed EXCEPT ![m.req] = @ \cup {m.try}]
           /\ issued' \in Nat
    <3>1. CASE UNCHANGED executed /\ Deliver(m, Answer(401, "blank", NoToken))
               /\ UNCHANGED issued
      BY <3>1, <1>1 DEF Answer, Answers, Statuses, NoToken, RaiseForStatus
    <3>2. CASE Executed(m) /\ Deliver(m, Answer(200, "ok", NoToken)) /\ UNCHANGED issued
      BY <3>2, <1>1 DEF Answer, Answers, Statuses, NoToken, Executed
    <3>3. CASE Executed(m) /\ Deliver(m, Answer(200, "ok", issued + 1))
               /\ issued' = issued + 1
      BY <3>3, <1>1 DEF Answer, Answers, Statuses, NoToken, Executed
    <3>4. CASE /\ Executed(m) \/ UNCHANGED executed
               /\ \/ Deliver(m, Answer(409, "app_error", NoToken))
                  \/ Deliver(m, Answer(503, "blank", NoToken))
               /\ UNCHANGED issued
      BY <3>4, <1>1 DEF Answer, Answers, Statuses, NoToken, Executed, RaiseForStatus
    <3>5. CASE UNCHANGED executed /\ Deliver(m, Answer(200, "app_error", NoToken))
               /\ UNCHANGED issued
      BY <3>5, <1>1 DEF Answer, Answers, Statuses, NoToken, CheckForPfxError
    <3> QED
      BY <1>3, <3>1, <3>2, <3>3, <3>4, <3>5 DEF HandleRequest
  <2> QED
    BY <2>1, DeliverStep
<1> QED
  BY <1>2, <1>3 DEF Handle

\* The inductive step.
LEMMA IInvStep == IInv /\ [Next]_vars => IInv'
<1> SUFFICES ASSUME IInv, [Next]_vars PROVE IInv'
  OBVIOUS
<1>1. CASE UNCHANGED vars
  BY <1>1 DEF IInv, vars, callVars, authVars, sourceVars, backendVars, TypeOK, ModeInv,
              TryInv, ReplyInv, ReturnedMeansExecuted, Checked, Waiting, Accepted,
              CheckForPfxError, RaiseForStatus
<1>2. ASSUME NEW r \in Requests, Call(r) \/ WakeUp(r) PROVE IInv'
  BY <1>2, TryStep
<1>3. ASSUME NEW r \in Requests, LoginAnswered(r) PROVE IInv'
  BY <1>3, LoginAnsweredStep
<1>4. ASSUME NEW r \in Requests, Answered(r) PROVE IInv'
  BY <1>4, AnsweredStep
<1>5. ASSUME NEW r \in Requests, TimedOut(r) \/ ConnectionBreaks(r) PROVE IInv'
  <2>1. PICK e \in Errors : Raise(r, e)
    BY <1>5, Shapes DEF TimedOut, ConnectionBreaks
  <2>2. /\ pc[r] \in Waiting
        /\ UNCHANGED <<nbTries, pfxtoken, cookie, credential, net, executed, issued,
                       sourceVars>>
    BY <1>5 DEF TimedOut, ConnectionBreaks, authVars, backendVars
  <2> QED
    BY <1>5, <2>1, <2>2, EndedTryStep DEF IInv, TypeOK
<1>6. ASSUME NEW m \in net, Handle(m) PROVE IInv'
  BY <1>6, HandleStep
<1>7. ASSUME NEW m \in net, Lose(m) PROVE IInv'
  BY <1>7 DEF Lose, callVars, authVars, sourceVars, IInv, TypeOK, ModeInv, TryInv,
              ReplyInv, ReturnedMeansExecuted, Checked, Waiting, Accepted,
              CheckForPfxError, RaiseForStatus
<1>8. CASE RewriteTokenFile
  <2>1. UNCHANGED <<callVars, authVars, auth, net, executed>>
    BY <1>8 DEF RewriteTokenFile
  <2>2. tokenFile' \subseteq Nat /\ issued' \in Nat
    BY <1>8 DEF RewriteTokenFile, IInv, TypeOK, NoToken
  <2> QED
    BY <2>1, <2>2 DEF callVars, authVars, IInv, TypeOK, ModeInv, TryInv, ReplyInv,
              ReturnedMeansExecuted, Checked, Waiting, Accepted, CheckForPfxError,
              RaiseForStatus
<1> QED
  BY <1>1, <1>2, <1>3, <1>4, <1>5, <1>6, <1>7, <1>8 DEF Next, Client

LEMMA Invariance == Spec => []IInv
BY InitIInv, IInvStep, PTL DEF Spec

\* The variables keep their types, and async_retry never counts past its delays.
THEOREM TypeCorrect == Spec => []TypeOK
BY Invariance, PTL DEF IInv

\* What get, post and post_simple return was executed, in the very try that
\* returned it.
THEOREM ReturnedIsExecuted == Spec => []ReturnedMeansExecuted
BY Invariance, PTL DEF IInv

LEMMA BudgetFromIInv == IInv => ExecutionsWithinBudget
<1> SUFFICES ASSUME IInv, NEW r \in Requests
             PROVE  executed[r] \subseteq 1..Budget[r]
  BY DEF ExecutionsWithinBudget
<1>1. nbTries[r] + 1 <= Budget[r] /\ nbTries[r] + 1 \in Nat /\ Budget[r] \in Nat
  BY MaxRetriesAssumption DEF IInv, TypeOK, ModeInv, Budget
<1> QED
  BY <1>1 DEF IInv, TryInv

\* However many calls are open, whatever is lost or late: the backend executes a
\* call at most once per try it is allowed, a post_simple at most once.
THEOREM ExecutionBudget == Spec => []ExecutionsWithinBudget
BY Invariance, BudgetFromIInv, PTL

-----------------------------------------------------------------------------
(* The session implements RequestPromise. *)

LEMMA PromiseInitially == Init => Promise!PromiseInit
BY DEF Init, Promise!PromiseInit, Phase

\* Every step of the session is a step of the promise, or none the caller sees.
LEMMA PromiseStep ==
  IInv /\ ExecutionsWithinBudget' /\ IInv' /\ [Next]_vars
     => [Promise!PromiseNext]_Promise!promiseVars
<1> SUFFICES ASSUME IInv, ExecutionsWithinBudget', IInv', [Next]_vars
             PROVE  [Promise!PromiseNext]_Promise!promiseVars
  OBVIOUS
<1> USE DEF Promise!PromiseNext, Promise!promiseVars
<1>1. ASSUME UNCHANGED <<pc, executed>>
      PROVE  UNCHANGED Promise!promiseVars
  BY <1>1 DEF Phase
<1>2. ASSUME NEW r \in Requests, executed' = executed,
             \A q \in Requests \ {r} : pc'[q] = pc[q],
             pc[r] \notin Done, pc'[r] # "idle",
             pc'[r] = "returned" => pc[r] # "idle" /\ (r \in Checked => executed[r] # {})
      PROVE  [Promise!PromiseNext]_Promise!promiseVars
  <2>1. \A q \in Requests \ {r} : Phase'[q] = Phase[q]
    BY <1>2 DEF Phase
  <2>2. Phase[r] \in {"idle", "running"} /\ Phase'[r] \in {"running", "ok", "failed"}
    BY <1>2 DEF Phase, Done, IInv, TypeOK
  <2>3. Phase' = [Phase EXCEPT ![r] = Phase'[r]]
    BY <2>1 DEF Phase
  <2>4. CASE Phase[r] = "idle" /\ Phase'[r] = "running"
    BY <1>2, <2>3, <2>4 DEF Promise!Start
  <2>5. CASE Phase'[r] = "failed"
    BY <1>2, <2>2, <2>3, <2>5 DEF Promise!Fail
  <2>6. CASE Phase'[r] = "ok"
    <3>1. pc'[r] = "returned" /\ pc[r] # "idle" /\ Phase[r] = "running"
      BY <1>2, <2>2, <2>6 DEF Phase, IInv, TypeOK
    <3> QED
      BY <1>2, <2>3, <2>6, <3>1 DEF Promise!Succeed
  <2>7. CASE Phase[r] = "running" /\ Phase'[r] = "running"
    <3>1. Phase' = Phase
      BY <2>3, <2>7 DEF Phase
    <3> QED
      BY <1>2, <3>1
  <2> QED
    BY <2>2, <2>4, <2>5, <2>6, <2>7
<1>3. ASSUME NEW m \in net, Handle(m)
      PROVE  [Promise!PromiseNext]_Promise!promiseVars
  <2>1. m.req \in Requests /\ m.try \in Nat /\ pc[m.req] # "idle" /\ pc' = pc
    BY <1>3 DEF IInv, TypeOK, TryInv, Messages, Handle, HandleLogin, HandleRequest, Deliver
  <2>2. executed' = executed \/ Executed(m)
    BY <1>3 DEF Handle, HandleLogin, HandleRequest
  <2>3. CASE executed' = executed
    BY <2>1, <2>3, <1>1
  <2>4. CASE executed' # executed
    <3>1. executed' = [executed EXCEPT ![m.req] = @ \cup {m.try}]
      BY <2>2, <2>4 DEF Executed
    <3>2. m.try \notin executed[m.req]
      BY <2>1, <2>4, <3>1 DEF IInv, TypeOK
    <3>3. m.try \in 1..Budget[m.req]
      <4>1. m.try \in executed'[m.req]
        BY <2>1, <3>1 DEF IInv, TypeOK
      <4> QED
        BY <2>1, <4>1 DEF ExecutionsWithinBudget, Budget
    <3>4. Phase' = Phase /\ Phase[m.req] # "idle"
      BY <2>1 DEF Phase, IInv, TypeOK
    <3> QED
      BY <2>1, <3>1, <3>2, <3>3, <3>4 DEF Promise!Execute
  <2> QED
    BY <2>3, <2>4
<1>4. ASSUME NEW r \in Requests, Call(r) \/ WakeUp(r)
      PROVE  [Promise!PromiseNext]_Promise!promiseVars
  <2>1. executed' = executed /\ pc[r] \in {"idle", "sleep"}
    BY <1>4 DEF Call, WakeUp
  <2>2. PICK try \in Nat : BeforeRequest(r, try)
    BY <1>4, MaxRetriesAssumption DEF Call, WakeUp, IInv, TypeOK
  <2>3. pc'[r] \in {"login", "wait", "raised"} /\ \A q \in Requests \ {r} : pc'[q] = pc[q]
    BY <2>1, <2>2, BeforeRequestStep
  <2> QED
    BY <2>1, <2>3, <1>2 DEF Done
<1>5. ASSUME NEW r \in Requests, LoginAnswered(r) \/ TimedOut(r) \/ ConnectionBreaks(r)
      PROVE  [Promise!PromiseNext]_Promise!promiseVars
  <2>1. executed' = executed /\ pc[r] \in Waiting
    BY <1>5 DEF LoginAnswered, TimedOut, ConnectionBreaks, Waiting, backendVars
  <2>2. pc'[r] \in {"wait", "sleep", "raised"} /\ \A q \in Requests \ {r} : pc'[q] = pc[q]
    BY <1>5 DEF LoginAnswered, TimedOut, ConnectionBreaks, Raise, Send, IInv, TypeOK
  <2> QED
    BY <2>1, <2>2, <1>2 DEF Done, Waiting
<1>6. ASSUME NEW r \in Requests, Answered(r)
      PROVE  [Promise!PromiseNext]_Promise!promiseVars
  <2>1. executed' = executed /\ pc[r] = "wait"
    BY <1>6 DEF Answered
  <2>2. pc'[r] \in {"returned", "sleep", "raised"} /\ \A q \in Requests \ {r} : pc'[q] = pc[q]
    BY <1>6 DEF Answered, Raise, IInv, TypeOK
  <2>3. pc'[r] = "returned" => (r \in Checked => executed[r] # {})
    <3>1. pc'[r] = "returned" => Accepted(r, reply[r])
      BY <1>6 DEF Answered, Raise, IInv, TypeOK
    <3> QED
      BY <1>6, <3>1 DEF Answered, IInv, ReplyInv
  <2> QED
    BY <2>1, <2>2, <2>3, <1>2 DEF Done
<1>7. ASSUME NEW m \in net, Lose(m)
      PROVE  [Promise!PromiseNext]_Promise!promiseVars
  BY <1>1, <1>7 DEF Lose, callVars
<1>8. CASE UNCHANGED vars
  BY <1>1, <1>8 DEF vars, callVars, backendVars
<1>9. CASE RewriteTokenFile
  BY <1>1, <1>9 DEF RewriteTokenFile, callVars
<1> QED
  BY <1>3, <1>4, <1>5, <1>6, <1>7, <1>8, <1>9 DEF Next, Client

\* RetryPfxSession over SimplePfxSession and PfxAuthUserPass keeps what
\* RequestPromise says, for any calls, retries and interleavings.
THEOREM ImplementsPromise == Spec => KeepsPromise
<1>1. Init => Promise!PromiseInit
  BY PromiseInitially
<1>2. IInv /\ ExecutionsWithinBudget' /\ IInv' /\ [Next]_vars
        => [Promise!PromiseNext]_Promise!promiseVars
  BY PromiseStep
<1> QED
  BY <1>1, <1>2, Invariance, ExecutionBudget, PTL
     DEF Spec, KeepsPromise, Promise!PromiseSpec

-----------------------------------------------------------------------------
(* The token and the credential. *)

\* The header and the auth object change together, whatever the logins answer.
THEOREM HeaderFollowsToken == Spec => []HeaderIsToken
<1>1. Init => HeaderIsToken
  BY DEF Init, HeaderIsToken
<1>2. HeaderIsToken /\ [Next]_vars => HeaderIsToken'
  <2> SUFFICES ASSUME HeaderIsToken, [Next]_vars PROVE HeaderIsToken'
    OBVIOUS
  <2>1. ASSUME NEW r \in Requests, Call(r) \/ WakeUp(r) PROVE HeaderIsToken'
    BY <2>1 DEF Call, WakeUp, BeforeRequest, Known, authVars, sourceVars, HeaderIsToken
  <2>2. ASSUME NEW r \in Requests, LoginAnswered(r) \/ Answered(r) PROVE HeaderIsToken'
    BY <2>2 DEF LoginAnswered, Answered, AfterResponse, RefreshToken, authVars,
                sourceVars, HeaderIsToken
  <2>3. ASSUME NEW r \in Requests, TimedOut(r) \/ ConnectionBreaks(r) PROVE HeaderIsToken'
    BY <2>3 DEF TimedOut, ConnectionBreaks, authVars, sourceVars, HeaderIsToken
  <2>4. ASSUME NEW m \in net, Handle(m) \/ Lose(m) PROVE HeaderIsToken'
    BY <2>4 DEF Handle, HandleLogin, HandleRequest, Deliver, Lose, authVars, sourceVars,
                HeaderIsToken
  <2>5. CASE UNCHANGED vars
    BY <2>5 DEF vars, authVars, sourceVars, HeaderIsToken
  <2>6. CASE RewriteTokenFile
    BY <2>6 DEF RewriteTokenFile, authVars, HeaderIsToken
  <2> QED
    BY <2>1, <2>2, <2>3, <2>4, <2>5, <2>6 DEF Next, Client
<1> QED
  BY <1>1, <1>2, PTL DEF Spec

\* When every login the client accepts carries a token.
TokenInv ==
  /\ CredentialOrToken
  /\ RequestsCarryToken
  /\ pfxtoken <= issued
  /\ \A r \in Requests : reply[r].token <= issued
  /\ \A r \in Requests : pc[r] = "wait" /\ auth # "file" => pfxtoken # NoToken
  /\ \A r \in Requests :
        pc[r] = "login" /\ reply[r] # NoReply /\ CheckForPfxError(reply[r])
           => reply[r].token # NoToken

LEMMA TokenInitially == Init => TokenInv
<1> SUFFICES ASSUME Init PROVE TokenInv
  OBVIOUS
<1>1. CredentialOrToken
  BY Zenon DEF Init, CredentialOrToken
<1>2. /\ pfxtoken <= issued
      /\ \A r \in Requests : reply[r] = NoReply /\ pc[r] = "idle"
      /\ issued \in {0, 1} /\ net = {}
  BY DEF Init, NoToken
<1> QED
  BY <1>1, <1>2 DEF TokenInv, RequestsCarryToken, NoReply, NoToken

LEMMA TokenTryStep ==
  ASSUME IInv, TokenInv, NEW r \in Requests, Call(r) \/ WakeUp(r)
  PROVE  TokenInv'
<1>1. UNCHANGED <<issued, pfxtoken, credential, auth>>
  BY DEF Call, WakeUp, BeforeRequest, authVars, sourceVars
<1>2. PICK try \in Nat : BeforeRequest(r, try)
  BY MaxRetriesAssumption DEF Call, WakeUp, IInv, TypeOK
<1>3. pc[r] \in {"idle", "sleep"}
  BY DEF Call, WakeUp
<1>4. /\ pc'[r] \in {"login", "wait", "raised"} /\ reply' = reply
      /\ \A q \in Requests \ {r} : pc'[q] = pc[q]
  BY <1>2, <1>3, BeforeRequestStep
<1>5. reply[r] = NoReply
  BY <1>3 DEF IInv, ReplyInv, Waiting
<1>6. pc'[r] = "wait" /\ auth # "file" => pfxtoken # NoToken
  BY <1>2, <1>3 DEF BeforeRequest, Known, Raise, IInv, TypeOK
<1>7. RequestsCarryToken'
  <2>1. \A m \in net' \ net : m.kind = "request" /\ auth # "file"
          => m.token = pfxtoken /\ pfxtoken # NoToken
    BY <1>2 DEF BeforeRequest, Known, Send, Message
  <2>2. pfxtoken \in Nat /\ issued \in Nat /\ pfxtoken <= issued
    BY DEF IInv, TypeOK, TokenInv
  <2> QED
    BY <1>1, <2>1, <2>2 DEF TokenInv, RequestsCarryToken, NoToken
<1> QED
  BY <1>1, <1>4, <1>5, <1>6, <1>7 DEF TokenInv, CredentialOrToken

\* A try ended by an exception leaves the token as it is.
LEMMA TokenEndedStep ==
  ASSUME IInv, TokenInv, NEW r \in Requests, NEW e \in Errors, Raise(r, e),
         UNCHANGED <<net, issued, pfxtoken, credential, auth>>
  PROVE  TokenInv'
<1>1. /\ reply'[r] = NoReply /\ pc'[r] \in {"sleep", "raised"}
      /\ \A q \in Requests \ {r} : pc'[q] = pc[q] /\ reply'[q] = reply[q]
  BY RaiseStep DEF IInv
<1>2. issued \in Nat
  BY DEF IInv, TypeOK
<1> QED
  BY <1>1, <1>2 DEF TokenInv, CredentialOrToken, RequestsCarryToken, NoReply, NoToken

LEMMA TokenLoginAnsweredStep ==
  ASSUME IInv, TokenInv, NEW r \in Requests, LoginAnswered(r)
  PROVE  TokenInv'
<1>1. issued' = issued /\ auth' = auth /\ reply[r] \in Answers
  BY DEF LoginAnswered, sourceVars, IInv, TypeOK
<1>2. CASE ~CheckForPfxError(reply[r])
  <2>1. /\ HTTPStatusError(reply[r].status) \in Errors
        /\ Raise(r, HTTPStatusError(reply[r].status))
        /\ UNCHANGED <<authVars, net>>
    BY <1>1, <1>2, Shapes DEF LoginAnswered, Answers
  <2> QED
    BY <2>1, <1>1, TokenEndedStep DEF authVars
<1>3. CASE CheckForPfxError(reply[r])
  <2>1. reply[r].token # NoToken /\ reply[r].token <= issued
    BY <1>3 DEF TokenInv, LoginAnswered
  <2>2. pfxtoken' = reply[r].token /\ cookie' = reply[r].token /\ credential' = FALSE
    BY <1>3, <2>1 DEF LoginAnswered, RefreshToken
  <2>3. /\ \A q \in Requests \ {r} : pc'[q] = pc[q] /\ reply'[q] = reply[q]
        /\ pc'[r] \in {"wait", "sleep", "raised"}
        /\ reply'[r] = NoReply
    BY <1>3 DEF LoginAnswered, Raise, Send, IInv, TypeOK
  <2>4. \A m \in net' : m \in net \/ m.token = pfxtoken'
    BY <1>3, <2>2 DEF LoginAnswered, Send, Message
  <2>5. reply[r].token \in 1..issued /\ issued \in Nat
    BY <1>1, <2>1 DEF IInv, TypeOK, Answers, NoToken
  <2>6. RequestsCarryToken'
    BY <1>1, <2>2, <2>4, <2>5 DEF TokenInv, RequestsCarryToken
  <2> QED
    BY <1>1, <2>1, <2>2, <2>3, <2>5, <2>6
       DEF TokenInv, CredentialOrToken, NoReply, NoToken
<1> QED
  BY <1>2, <1>3

LEMMA TokenAnsweredStep ==
  ASSUME IInv, TokenInv, NEW r \in Requests, Answered(r)
  PROVE  TokenInv'
<1>1. /\ issued' = issued /\ net' = net /\ auth' = auth /\ reply[r] \in Answers
      /\ auth # "file" => pfxtoken # NoToken
  BY DEF Answered, sourceVars, IInv, TypeOK, TokenInv
<1>2. CASE ~Accepted(r, reply[r])
  <2>1. /\ HTTPStatusError(reply[r].status) \in Errors
        /\ Raise(r, HTTPStatusError(reply[r].status))
        /\ UNCHANGED authVars
    BY <1>1, <1>2, Shapes DEF Answered, Answers
  <2> QED
    BY <2>1, <1>1, TokenEndedStep DEF authVars
<1>3. CASE Accepted(r, reply[r])
  <2>1. /\ credential' = credential
        /\ pfxtoken' = pfxtoken \/ (pfxtoken' = reply[r].token /\ pfxtoken' # NoToken)
    BY <1>1, <1>3 DEF Answered, AfterResponse, RefreshToken
  <2>2. /\ pc'[r] = "returned" /\ reply'[r] = NoReply
        /\ \A q \in Requests \ {r} : pc'[q] = pc[q] /\ reply'[q] = reply[q]
    BY <1>3 DEF Answered, IInv, TypeOK
  <2>3. issued \in Nat
    BY DEF IInv, TypeOK
  <2> QED
    BY <1>1, <2>1, <2>2, <2>3
       DEF TokenInv, CredentialOrToken, RequestsCarryToken, NoReply, NoToken
<1> QED
  BY <1>2, <1>3

LEMMA TokenHandleStep ==
  ASSUME ~BlankLogins, IInv, TokenInv, NEW m \in net, Handle(m)
  PROVE  TokenInv'
<1>1. issued \in Nat /\ m.req \in Requests
  BY DEF IInv, TypeOK, Messages
<1>2. PICK a \in Answers :
         /\ Deliver(m, a)
         /\ a.token <= issued'
         /\ m.kind = "login" /\ CheckForPfxError(a) => a.token # NoToken
  <2>1. CASE HandleLogin(m)
    <3>1. CASE issued' = issued + 1 /\ Deliver(m, Answer(200, "ok", issued + 1))
      BY <3>1, <1>1 DEF Answer, Answers, Statuses, NoToken
    <3>2. CASE \E status \in {401, 503} :
                  Deliver(m, Answer(status, "app_error", NoToken)) /\ UNCHANGED issued
      BY <3>2, <1>1 DEF Answer, Answers, Statuses, NoToken, CheckForPfxError
    <3> QED
      BY <2>1, <3>1, <3>2 DEF HandleLogin
  <2>2. CASE HandleRequest(m)
    <3>1. CASE \E s \in Statuses, b \in {"ok", "app_error", "blank"} :
                  Deliver(m, Answer(s, b, NoToken)) /\ UNCHANGED issued
      BY <2>2, <3>1, <1>1 DEF HandleRequest, Answer, Answers, NoToken
    <3>2. CASE issued' = issued + 1 /\ Deliver(m, Answer(200, "ok", issued + 1))
      BY <3>2, <1>1 DEF Answer, Answers, Statuses, NoToken
    <3> QED
      BY <2>2, <3>1, <3>2 DEF HandleRequest, Statuses
  <2> QED
    BY <2>1, <2>2 DEF Handle
<1>3. issued' >= issued /\ issued' \in Nat
  BY <1>1 DEF Handle, HandleLogin, HandleRequest
<1>4. /\ UNCHANGED <<pc, pfxtoken, credential, auth>>
      /\ net' \subseteq net
      /\ \A r \in Requests : reply'[r] # reply[r] => r = m.req /\ Awaited(m) /\ reply'[r] = a
  BY <1>1, <1>2 DEF Deliver, authVars, sourceVars, IInv, TypeOK
<1>5. \A r \in Requests : reply[r].token \in Nat
  BY DEF IInv, TypeOK, Answers
<1>6. \A r \in Requests : reply'[r].token <= issued'
  BY <1>1, <1>2, <1>3, <1>4, <1>5 DEF TokenInv
<1>7. RequestsCarryToken'
  BY <1>1, <1>3, <1>4 DEF TokenInv, RequestsCarryToken
<1>8. pfxtoken <= issued'
  BY <1>1, <1>3 DEF TokenInv, IInv, TypeOK
<1>9. ASSUME NEW r \in Requests, pc'[r] = "login", reply'[r] # NoReply,
             CheckForPfxError(reply'[r])
      PROVE  reply'[r].token # NoToken
  <2>1. CASE reply'[r] = reply[r]
    BY <1>4, <1>9, <2>1 DEF TokenInv
  <2>2. CASE reply'[r] # reply[r]
    BY <1>2, <1>4, <1>9, <2>2 DEF Awaited
  <2> QED
    BY <2>1, <2>2
<1> QED
  BY <1>4, <1>6, <1>7, <1>8, <1>9 DEF TokenInv, CredentialOrToken

\* If every login the session accepts carries a token, the password is forgotten
\* exactly when the session switched to the token, and no request leaves without
\* one - with any number of first calls racing.
THEOREM TokenReplacesCredential ==
  ~BlankLogins => (Spec => []CredentialOrToken /\ []RequestsCarryToken)
<1> SUFFICES ASSUME ~BlankLogins
             PROVE  Spec => []CredentialOrToken /\ []RequestsCarryToken
  OBVIOUS
<1>1. IInv /\ TokenInv /\ [Next]_vars => TokenInv'
  <2> SUFFICES ASSUME IInv, TokenInv, [Next]_vars PROVE TokenInv'
    OBVIOUS
  <2>1. ASSUME NEW r \in Requests, Call(r) \/ WakeUp(r) PROVE TokenInv'
    BY <2>1, TokenTryStep
  <2>2. ASSUME NEW r \in Requests, LoginAnswered(r) PROVE TokenInv'
    BY <2>2, TokenLoginAnsweredStep
  <2>3. ASSUME NEW r \in Requests, Answered(r) PROVE TokenInv'
    BY <2>3, TokenAnsweredStep
  <2>4. ASSUME NEW r \in Requests, TimedOut(r) \/ ConnectionBreaks(r) PROVE TokenInv'
    <3>1. PICK e \in Errors : Raise(r, e)
      BY <2>4, Shapes DEF TimedOut, ConnectionBreaks
    <3> QED
      BY <2>4, <3>1, TokenEndedStep
         DEF TimedOut, ConnectionBreaks, authVars, sourceVars, backendVars
  <2>5. ASSUME NEW m \in net, Handle(m) PROVE TokenInv'
    BY <2>5, TokenHandleStep
  <2>6. ASSUME NEW m \in net, Lose(m) PROVE TokenInv'
    BY <2>6 DEF Lose, callVars, authVars, sourceVars, TokenInv, CredentialOrToken,
                RequestsCarryToken
  <2>7. CASE UNCHANGED vars
    BY <2>7 DEF vars, callVars, authVars, sourceVars, backendVars, TokenInv,
                CredentialOrToken, RequestsCarryToken
  <2>8. CASE RewriteTokenFile
    <3>1. /\ UNCHANGED <<callVars, authVars, auth, net>>
          /\ auth = "file" /\ issued \in Nat /\ issued' \in {issued, issued + 1}
      BY <2>8 DEF RewriteTokenFile, IInv, TypeOK
    <3>2. pfxtoken \in Nat /\ \A r \in Requests : reply[r].token \in Nat
      BY DEF IInv, TypeOK, Answers
    <3> QED
      BY <3>1, <3>2 DEF callVars, authVars, TokenInv, CredentialOrToken, RequestsCarryToken
  <2> QED
    BY <2>1, <2>2, <2>3, <2>4, <2>5, <2>6, <2>7, <2>8 DEF Next, Client
<1>2. TokenInv => CredentialOrToken /\ RequestsCarryToken
  BY DEF TokenInv
<1> QED
  BY <1>1, <1>2, TokenInitially, Invariance, PTL DEF Spec

\* Without any assumption about logins: a session that has a token keeps one.  An
\* answer without a cookie, and the late answer of a try that was given up, never
\* take it away.
THEOREM TokenStays == Spec => TokenIsKept
<1>1. [Next]_vars => (pfxtoken # NoToken => pfxtoken' # NoToken)
  <2> SUFFICES ASSUME [Next]_vars, pfxtoken # NoToken PROVE pfxtoken' # NoToken
    OBVIOUS
  <2>1. ASSUME NEW r \in Requests, Call(r) \/ WakeUp(r) PROVE pfxtoken' = pfxtoken
    BY <2>1 DEF Call, WakeUp, BeforeRequest, authVars
  <2>2. ASSUME NEW r \in Requests, LoginAnswered(r) \/ Answered(r) PROVE pfxtoken' # NoToken
    BY <2>2 DEF LoginAnswered, Answered, AfterResponse, RefreshToken, authVars
  <2>3. ASSUME NEW r \in Requests, TimedOut(r) \/ ConnectionBreaks(r) PROVE pfxtoken' = pfxtoken
    BY <2>3 DEF TimedOut, ConnectionBreaks, authVars
  <2>4. ASSUME NEW m \in net, Handle(m) \/ Lose(m) PROVE pfxtoken' = pfxtoken
    BY <2>4 DEF Handle, HandleLogin, HandleRequest, Deliver, Lose, authVars
  <2>5. CASE UNCHANGED vars
    BY <2>5 DEF vars, authVars
  <2>6. CASE RewriteTokenFile
    BY <2>6 DEF RewriteTokenFile, authVars
  <2> QED
    BY <2>1, <2>2, <2>3, <2>4, <2>5, <2>6 DEF Next, Client
<1> QED
  BY <1>1, PTL DEF Spec, TokenIsKept

\* The password is gone as soon as there is a token, whatever logins answer.  An
\* answer that brings the first token may be that of a request, not of a login: a
\* request leaves only when the password is gone.
PasswordInv ==
  /\ TokenReplacesPassword
  /\ auth # "userpass" => ~credential
  /\ \A r \in Requests : pc[r] = "wait" => ~credential

THEOREM PasswordIsForgotten == Spec => []TokenReplacesPassword
<1>1. Init => PasswordInv
  BY DEF Init, PasswordInv, TokenReplacesPassword
<1>2. IInv /\ PasswordInv /\ [Next]_vars => PasswordInv'
  <2> SUFFICES ASSUME IInv, PasswordInv, [Next]_vars PROVE PasswordInv'
    OBVIOUS
  <2>1. ASSUME NEW r \in Requests, Call(r) \/ WakeUp(r) PROVE PasswordInv'
    <3>1. PICK try \in Nat : BeforeRequest(r, try)
      BY <2>1, MaxRetriesAssumption DEF Call, WakeUp, IInv, TypeOK
    <3>2. UNCHANGED <<pfxtoken, credential, auth>>
      BY <2>1, <3>1 DEF Call, WakeUp, BeforeRequest, authVars, sourceVars
    <3>3. /\ \A q \in Requests \ {r} : pc'[q] = pc[q]
          /\ pc'[r] = "wait" => auth = "file" \/ pfxtoken # NoToken
      BY <3>1 DEF BeforeRequest, Known, Raise, Send, IInv, TypeOK
    <3> QED
      BY <3>2, <3>3 DEF PasswordInv, TokenReplacesPassword
  <2>2. ASSUME NEW r \in Requests, LoginAnswered(r) PROVE PasswordInv'
    <3>1. \/ credential' = FALSE
          \/ \E e : Raise(r, e) /\ UNCHANGED authVars
      BY <2>2 DEF LoginAnswered
    <3>2. auth' = auth
      BY <2>2 DEF LoginAnswered, sourceVars
    <3> QED
      BY <3>1, <3>2 DEF Raise, authVars, PasswordInv, TokenReplacesPassword, IInv, TypeOK
  <2>3. ASSUME NEW r \in Requests, Answered(r) PROVE PasswordInv'
    <3>1. pc[r] = "wait" /\ credential' = credential /\ auth' = auth
      BY <2>3 DEF Answered, authVars, sourceVars
    <3>2. ~credential
      BY <3>1 DEF PasswordInv
    <3> QED
      BY <3>1, <3>2 DEF PasswordInv, TokenReplacesPassword
  <2>4. ASSUME NEW r \in Requests, TimedOut(r) \/ ConnectionBreaks(r) PROVE PasswordInv'
    BY <2>4 DEF TimedOut, ConnectionBreaks, Raise, authVars, sourceVars, PasswordInv,
                TokenReplacesPassword, IInv, TypeOK
  <2>5. ASSUME NEW m \in net, Handle(m) \/ Lose(m) PROVE PasswordInv'
    BY <2>5 DEF Handle, HandleLogin, HandleRequest, Deliver, Lose, callVars, authVars,
                sourceVars, PasswordInv, TokenReplacesPassword
  <2>6. CASE UNCHANGED vars
    BY <2>6 DEF vars, callVars, authVars, sourceVars, PasswordInv, TokenReplacesPassword
  <2>7. CASE RewriteTokenFile
    BY <2>7 DEF RewriteTokenFile, callVars, authVars, PasswordInv, TokenReplacesPassword
  <2> QED
    BY <2>1, <2>2, <2>3, <2>4, <2>5, <2>6, <2>7 DEF Next, Client
<1>3. PasswordInv => TokenReplacesPassword
  BY DEF PasswordInv
<1> QED
  BY <1>1, <1>2, <1>3, Invariance, PTL DEF Spec

\* Only PfxAuthUserPass logs in.
LoginInv ==
  /\ credential => auth = "userpass"
  /\ \A r \in Requests : pc[r] = "login" => auth = "userpass"

LEMMA OnlyUserPassLogsIn == Spec => []LoginInv
<1>1. Init => LoginInv
  BY DEF Init, LoginInv
<1>2. IInv /\ LoginInv /\ [Next]_vars => LoginInv'
  <2> SUFFICES ASSUME IInv, LoginInv, [Next]_vars PROVE LoginInv'
    OBVIOUS
  <2>1. ASSUME NEW r \in Requests, Call(r) \/ WakeUp(r) PROVE LoginInv'
    <3>1. PICK try \in Nat : BeforeRequest(r, try)
      BY <2>1, MaxRetriesAssumption DEF Call, WakeUp, IInv, TypeOK
    <3>2. UNCHANGED <<credential, auth>>
      BY <2>1, <3>1 DEF Call, WakeUp, BeforeRequest, authVars, sourceVars
    <3>3. /\ \A q \in Requests \ {r} : pc'[q] = pc[q]
          /\ pc'[r] = "login" => credential
      BY <3>1 DEF BeforeRequest, Raise, Send, IInv, TypeOK
    <3> QED
      BY <3>2, <3>3 DEF LoginInv
  <2>2. ASSUME NEW r \in Requests, Client(r) \/ ConnectionBreaks(r), ~WakeUp(r)
        PROVE  LoginInv'
    <3>1. /\ auth' = auth /\ (credential' => credential)
          /\ \A q \in Requests : pc'[q] = "login" => pc[q] = "login"
      BY <2>2 DEF Client, LoginAnswered, Answered, TimedOut, ConnectionBreaks, Raise, Send,
                  authVars, sourceVars, IInv, TypeOK
    <3> QED
      BY <3>1 DEF LoginInv, IInv, TypeOK
  <2>3. ASSUME NEW m \in net, Handle(m) \/ Lose(m) PROVE LoginInv'
    BY <2>3 DEF Handle, HandleLogin, HandleRequest, Deliver, Lose, callVars, authVars,
                sourceVars, LoginInv
  <2>4. CASE UNCHANGED vars \/ RewriteTokenFile
    BY <2>4 DEF vars, RewriteTokenFile, callVars, authVars, sourceVars, LoginInv
  <2> QED
    BY <2>1, <2>2, <2>3, <2>4 DEF Next, Client
<1> QED
  BY <1>1, <1>2, Invariance, PTL DEF Spec

\* A request leaves with the token its session has at that moment, under any auth
\* method: a retry of a call whose token file was rewritten while it slept takes the
\* new one.
THEOREM FreshToken == Spec => TokenIsFresh
<1> DEFINE Fresh(m) == m.kind = "request" /\ Known' # {} => m.token \in Known'
<1>1. [Next]_vars /\ LoginInv /\ HeaderIsToken' => \A m \in net' \ net : Fresh(m)
  <2> SUFFICES ASSUME [Next]_vars, LoginInv, HeaderIsToken', NEW m \in net' \ net
               PROVE  Fresh(m)
    OBVIOUS
  <2>1. ASSUME NEW r \in Requests, NEW try, BeforeRequest(r, try), UNCHANGED sourceVars
        PROVE  Fresh(m)
    <3>1. m.kind = "request" => m.token \in Known
      BY <2>1 DEF BeforeRequest, Send, Message
    <3>2. Known' = Known
      BY <2>1 DEF BeforeRequest, sourceVars, authVars, Known
    <3> QED
      BY <3>1, <3>2
  <2>2. ASSUME NEW r \in Requests, Call(r) \/ WakeUp(r) PROVE Fresh(m)
    BY <2>1, <2>2 DEF Call, WakeUp
  <2>3. ASSUME NEW r \in Requests, LoginAnswered(r) PROVE Fresh(m)
    <3>1. auth = "userpass" /\ auth' = auth
      BY <2>3 DEF LoginAnswered, LoginInv, sourceVars
    <3>2. m.token = cookie'
      BY <2>3 DEF LoginAnswered, Send, Message
    <3> QED
      BY <3>1, <3>2 DEF HeaderIsToken, Known
  <2>4. ASSUME NEW r \in Requests, Answered(r) \/ TimedOut(r) \/ ConnectionBreaks(r)
        PROVE  net' = net
    BY <2>4 DEF Answered, TimedOut, ConnectionBreaks, backendVars
  <2>5. ASSUME NEW n \in net, Handle(n) \/ Lose(n) PROVE net' \subseteq net
    BY <2>5 DEF Handle, HandleLogin, HandleRequest, Deliver, Lose
  <2>6. CASE RewriteTokenFile \/ UNCHANGED vars
    BY <2>6 DEF RewriteTokenFile, vars, backendVars
  <2> QED
    BY <2>2, <2>3, <2>4, <2>5, <2>6 DEF Next, Client
<1> QED
  BY <1>1, OnlyUserPassLogsIn, HeaderFollowsToken, PTL DEF Spec, TokenIsFresh
=============================================================================
