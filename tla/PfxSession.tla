----------------------------- MODULE PfxSession -----------------------------
(***************************************************************************)
(* pfx_session: concurrent requests through RetryPfxSession over           *)
(* SimplePfxSession over one of the three PfxAuthMethods, PfxAuthUserPass, *)
(* PfxAuthStaticToken and PfxAuthTokenFile (lowlevel/session.py).          *)
(*                                                                         *)
(* asyncio runs a coroutine without interruption from one await that       *)
(* suspends to the next, so a step of a request goes from an answer (or a  *)
(* sleep) to the next thing it waits for.  The requests share the auth     *)
(* object and the header of the httpx client.                              *)
(*                                                                         *)
(* The network and the backend are external: a message may be lost, its    *)
(* answer may come after the client timed out, and answers come in any     *)
(* order.  Another process may rewrite the token file at any time.         *)
(*                                                                         *)
(* An operator Name_Fault is Name with one plausible mistake.  No          *)
(* specification uses it: it serves to see that a property can fail.       *)
(***************************************************************************)
EXTENDS Naturals, FiniteSets

CONSTANTS
  AuthMethods,   \* what the session may be made with: "userpass", "token", "file"
  Requests,      \* calls made by the program
  Mode,          \* Mode[r]: "post" (post and get), "simple" or "stream"
  MaxRetries,    \* len(retry_delays)
  MaxInFlight,   \* calls the program has open at once (1: through ConnectionSync)
  Timeouts,      \* the AsyncClient was given a timeout (without: timeout=None)
  BlankLogins,   \* a login may be answered by a page that is not JSON
  MaxRefreshed   \* bound: a token is refreshed, or the file renewed, after at most so many tokens

ASSUME MaxRetriesAssumption == MaxRetries \in Nat
ASSUME AuthAssumption == AuthMethods \subseteq {"userpass", "token", "file"}
ASSUME ModeAssumption == Mode \in [Requests -> {"post", "simple", "stream"}]

VARIABLES
  pc,          \* where the call is
  nbTries,     \* nb_tries of async_retry
  error,       \* the last exception the call's try ended with
  reply,       \* answer delivered to the call and not yet processed
  auth,        \* the PfxAuthMethod of the session
  pfxtoken,    \* pfxtoken of PfxAuthUserPass or PfxAuthStaticToken
  cookie,      \* the token in the Cookie header of the httpx client
  credential,  \* the attribute _credential exists
  tokenFile,   \* what the token file holds: a token, nothing, or {} without a file
  net,         \* messages on their way to the backend
  executed,    \* history: the tries of a request the backend executed
  issued       \* backend: the tokens issued so far are 1..issued

callVars == <<pc, nbTries, error, reply>>
authVars == <<pfxtoken, cookie, credential>>
sourceVars == <<auth, tokenFile>>
backendVars == <<net, executed, issued>>
vars == <<callVars, authVars, sourceVars, backendVars>>

NoToken == 0
NoReply == [status |-> 0, body |-> "none", token |-> NoToken]
Waiting == {"login", "wait"}
Done == {"returned", "raised"}

Message(r, try, kind, token) == [req |-> r, try |-> try, kind |-> kind, token |-> token]
Answer(status, body, token) == [status |-> status, body |-> body, token |-> token]

NoError == [kind |-> "none", status |-> 0]
Timeout == [kind |-> "timeout", status |-> 0]
TransportError == [kind |-> "transport", status |-> 0]
AttributeError == [kind |-> "attribute", status |-> 0]
FileNotFoundError == [kind |-> "file", status |-> 0]
HTTPStatusError(status) == [kind |-> "status", status |-> status]

-----------------------------------------------------------------------------
(* How an answer is read. *)

\* A body that is not JSON passes; a JSON body must carry a success status.
CheckForPfxError_AcceptsAll(a) == TRUE
CheckForPfxError(a) == a.body # "app_error"

RaiseForStatus(a) == a.status < 400

DefaultRetryPredicate(e) ==
  \/ e.kind = "timeout"
  \/ e.kind = "status" /\ (e.status \in 500..599 \/ e.status = 409)

\* get_stream neither looks at the body nor refreshes the token.
Accepted_BodyOnly(r, a) == Mode[r] = "stream" \/ CheckForPfxError(a)
Accepted(r, a) ==
  /\ Mode[r] = "stream" \/ CheckForPfxError(a)
  /\ RaiseForStatus(a)

-----------------------------------------------------------------------------
(* The client. *)

\* async_retry's except branch; post_simple and get_stream have none.
Raise_OneTooMany(r, e) ==
  /\ error' = [error EXCEPT ![r] = e]
  /\ pc' = [pc EXCEPT ![r] = IF /\ Mode[r] = "post"
                                /\ DefaultRetryPredicate(e)
                                /\ MaxRetries >= nbTries[r]
                             THEN "sleep" ELSE "raised"]
  /\ reply' = [reply EXCEPT ![r] = NoReply]
Raise_AnyMode(r, e) ==
  /\ error' = [error EXCEPT ![r] = e]
  /\ pc' = [pc EXCEPT ![r] = IF DefaultRetryPredicate(e) /\ MaxRetries > nbTries[r]
                             THEN "sleep" ELSE "raised"]
  /\ reply' = [reply EXCEPT ![r] = NoReply]
Raise(r, e) ==
  /\ error' = [error EXCEPT ![r] = e]
  /\ pc' = [pc EXCEPT ![r] = IF /\ Mode[r] = "post"
                                /\ DefaultRetryPredicate(e)
                                /\ MaxRetries > nbTries[r]
                             THEN "sleep" ELSE "raised"]
  /\ reply' = [reply EXCEPT ![r] = NoReply]

\* The request leaves with the header the client has at that moment.
Send(r, try, token) ==
  /\ net' = net \cup {Message(r, try, "request", token)}
  /\ pc' = [pc EXCEPT ![r] = "wait"]

\* Where before_request takes the token from: PfxAuthTokenFile reads it from the
\* file, whatever the file holds at that moment.
Known == IF auth = "file" THEN tokenFile ELSE {pfxtoken} \ {NoToken}

\* before_request, up to the first thing it waits for, in try number try.
BeforeRequest_KeepsHeader(r, try) ==
  \/ \E token \in Known :
       /\ cookie' = IF cookie = NoToken THEN token ELSE cookie
       /\ Send(r, try, cookie')
       /\ UNCHANGED <<error, reply, pfxtoken, credential>>
  \/ /\ Known = {} /\ credential
     /\ net' = net \cup {Message(r, try, "login", NoToken)}
     /\ pc' = [pc EXCEPT ![r] = "login"]
     /\ UNCHANGED <<error, reply, authVars>>
  \/ /\ Known = {} /\ ~credential
     /\ Raise(r, IF auth = "file" THEN FileNotFoundError ELSE AttributeError)
     /\ UNCHANGED <<authVars, net>>
BeforeRequest(r, try) ==
  \/ \E token \in Known :
       /\ cookie' = token
       /\ Send(r, try, token)
       /\ UNCHANGED <<error, reply, pfxtoken, credential>>
  \/ /\ Known = {} /\ credential
     /\ net' = net \cup {Message(r, try, "login", NoToken)}
     /\ pc' = [pc EXCEPT ![r] = "login"]
     /\ UNCHANGED <<error, reply, authVars>>
  \/ /\ Known = {} /\ ~credential
     /\ Raise(r, IF auth = "file" THEN FileNotFoundError ELSE AttributeError)
     /\ UNCHANGED <<authVars, net>>

Open == {r \in Requests : pc[r] \notin {"idle"} \cup Done}

\* The program calls get, post, post_simple or get_stream.
Call(r) ==
  /\ pc[r] = "idle"
  /\ Cardinality(Open) < MaxInFlight
  /\ BeforeRequest(r, 1)
  /\ UNCHANGED <<nbTries, sourceVars, executed, issued>>

\* The delay is over: async_retry calls itself with nb_tries + 1.
WakeUp_ForgetsTries(r) ==
  /\ pc[r] = "sleep"
  /\ BeforeRequest(r, nbTries[r] + 1)
  /\ UNCHANGED <<nbTries, sourceVars, executed, issued>>
WakeUp(r) ==
  /\ pc[r] = "sleep"
  /\ nbTries' = [nbTries EXCEPT ![r] = @ + 1]
  /\ BeforeRequest(r, nbTries[r] + 2)
  /\ UNCHANGED <<sourceVars, executed, issued>>

\* _refresh_token: nothing happens without the cookie.
RefreshToken_Always(a) == pfxtoken' = a.token /\ cookie' = a.token
RefreshToken(a) ==
  /\ pfxtoken' = IF a.token # NoToken THEN a.token ELSE pfxtoken
  /\ cookie' = IF a.token # NoToken THEN a.token ELSE cookie

\* The rest of before_request once the login is answered, and the request.
LoginAnswered_KeepsCredential(r) ==
  /\ pc[r] = "login"
  /\ reply[r] # NoReply
  /\ \/ /\ ~CheckForPfxError(reply[r])
        /\ Raise(r, HTTPStatusError(reply[r].status))
        /\ UNCHANGED <<authVars, net>>
     \/ /\ CheckForPfxError(reply[r])
        /\ RefreshToken(reply[r])
        /\ Send(r, nbTries[r] + 1, cookie')
        /\ reply' = [reply EXCEPT ![r] = NoReply]
        /\ UNCHANGED <<error, credential>>
  /\ UNCHANGED <<nbTries, sourceVars, executed, issued>>
LoginAnswered(r) ==
  /\ pc[r] = "login"
  /\ reply[r] # NoReply
  /\ \/ /\ ~CheckForPfxError(reply[r])
        /\ Raise(r, HTTPStatusError(reply[r].status))
        /\ UNCHANGED <<authVars, net>>
     \/ /\ CheckForPfxError(reply[r])
        /\ RefreshToken(reply[r])
        /\ credential' = FALSE
        /\ \/ /\ credential
              /\ Send(r, nbTries[r] + 1, cookie')
              /\ reply' = [reply EXCEPT ![r] = NoReply]
              /\ UNCHANGED error
           \/ /\ ~credential              \* del self._credential, twice
              /\ Raise(r, AttributeError)
              /\ UNCHANGED net
  /\ UNCHANGED <<nbTries, sourceVars, executed, issued>>

\* get_stream has no after_response, and only PfxAuthUserPass does something there.
AfterResponse(r) == Mode[r] # "stream" /\ auth = "userpass"

\* The request's own answer: checks, after_response, return.
Answered(r) ==
  /\ pc[r] = "wait"
  /\ reply[r] # NoReply
  /\ \/ /\ ~Accepted(r, reply[r])
        /\ Raise(r, HTTPStatusError(reply[r].status))
        /\ UNCHANGED authVars
     \/ /\ Accepted(r, reply[r])
        /\ IF AfterResponse(r) THEN RefreshToken(reply[r])
                               ELSE UNCHANGED <<pfxtoken, cookie>>
        /\ pc' = [pc EXCEPT ![r] = "returned"]
        /\ error' = [error EXCEPT ![r] = NoError]
        /\ reply' = [reply EXCEPT ![r] = NoReply]
        /\ UNCHANGED credential
  /\ UNCHANGED <<nbTries, sourceVars, net, executed, issued>>

\* httpx gives up waiting, or the connection breaks.
TimedOut(r) ==
  /\ Timeouts
  /\ pc[r] \in Waiting
  /\ Raise(r, Timeout)
  /\ UNCHANGED <<nbTries, authVars, sourceVars, backendVars>>
ConnectionBreaks(r) ==
  /\ pc[r] \in Waiting
  /\ Raise(r, TransportError)
  /\ UNCHANGED <<nbTries, authVars, sourceVars, backendVars>>

-----------------------------------------------------------------------------
(* The network and the backend. *)

Awaited(m) ==
  /\ m.try = nbTries[m.req] + 1
  /\ pc[m.req] = (IF m.kind = "login" THEN "login" ELSE "wait")

Deliver(m, a) ==
  /\ net' = net \ {m}
  /\ reply' = IF Awaited(m) THEN [reply EXCEPT ![m.req] = a] ELSE reply
  /\ UNCHANGED <<pc, nbTries, error, authVars, sourceVars>>

HandleLogin(m) ==
  /\ m.kind = "login"
  /\ \/ /\ issued' = issued + 1
        /\ Deliver(m, Answer(200, "ok", issued + 1))
     \/ /\ \E status \in {401, 503} : Deliver(m, Answer(status, "app_error", NoToken))
        /\ UNCHANGED issued
     \/ /\ BlankLogins
        /\ Deliver(m, Answer(503, "blank", NoToken))
        /\ UNCHANGED issued
  /\ UNCHANGED executed

Executed(m) == executed' = [executed EXCEPT ![m.req] = @ \cup {m.try}]

HandleRequest(m) ==
  /\ m.kind = "request"
  /\ \/ /\ m.token = NoToken
        /\ Deliver(m, Answer(401, "blank", NoToken))
        /\ UNCHANGED <<executed, issued>>
     \/ /\ m.token # NoToken
        /\ Executed(m)
        /\ \/ /\ Deliver(m, Answer(200, "ok", NoToken))
              /\ UNCHANGED issued
           \/ /\ issued <= MaxRefreshed
              /\ issued' = issued + 1
              /\ Deliver(m, Answer(200, "ok", issued + 1))
     \/ /\ m.token # NoToken
        /\ Executed(m) \/ UNCHANGED executed
        /\ \/ Deliver(m, Answer(409, "app_error", NoToken))
           \/ Deliver(m, Answer(503, "blank", NoToken))
        /\ UNCHANGED issued
     \/ /\ m.token # NoToken
        /\ Deliver(m, Answer(200, "app_error", NoToken))
        /\ UNCHANGED <<executed, issued>>

\* A message lost without a trace: only a client timeout notices.
Lose(m) ==
  /\ Timeouts
  /\ net' = net \ {m}
  /\ UNCHANGED <<callVars, authVars, sourceVars, executed, issued>>

\* Another process renews the token file: it writes a new token into it, which
\* empties it first, or removes it before.
RewriteTokenFile ==
  /\ auth = "file" /\ issued <= MaxRefreshed
  /\ \/ tokenFile = {issued} /\ tokenFile' \in {{}, {NoToken}} /\ UNCHANGED issued
     \/ issued' = issued + 1 /\ tokenFile' = {issued + 1}
  /\ UNCHANGED <<callVars, authVars, auth, net, executed>>

-----------------------------------------------------------------------------
Init ==
  /\ pc = [r \in Requests |-> "idle"]
  /\ nbTries = [r \in Requests |-> 0]
  /\ error = [r \in Requests |-> NoError]
  /\ reply = [r \in Requests |-> NoReply]
  /\ auth \in AuthMethods
  /\ pfxtoken = IF auth = "token" THEN 1 ELSE NoToken
  /\ cookie = NoToken
  /\ credential = (auth = "userpass")
  /\ tokenFile = IF auth = "file" THEN {1} ELSE {}
  /\ net = {}
  /\ executed = [r \in Requests |-> {}]
  /\ issued = IF auth = "userpass" THEN 0 ELSE 1

Client(r) ==
  \/ WakeUp(r) \/ LoginAnswered(r) \/ Answered(r) \/ TimedOut(r)

Handle(m) == HandleLogin(m) \/ HandleRequest(m)

Next ==
  \/ \E r \in Requests : Call(r) \/ Client(r) \/ ConnectionBreaks(r)
  \/ \E m \in net : Handle(m) \/ Lose(m)
  \/ RewriteTokenFile

Spec == Init /\ [][Next]_vars

\* A coroutine whose answer or timer is there is resumed by the event loop,
\* and the backend answers the messages that reach it.
Fairness ==
  /\ \A r \in Requests : WF_vars(Client(r))
  /\ WF_vars(\E m \in net : Handle(m))

FairSpec == Spec /\ Fairness
-----------------------------------------------------------------------------
(* Properties. *)

Statuses == {0, 200, 401, 409, 503}
Errors == [kind : {"none", "timeout", "transport", "attribute", "file", "status"},
           status : Statuses]
Answers == [status : Statuses, body : {"none", "ok", "app_error", "blank"}, token : Nat]
Messages == [req : Requests, try : Nat, kind : {"login", "request"}, token : Nat]

\* The state keeps its shape: the retry counter of async_retry stays within the
\* delays it has.
TypeOK ==
  /\ pc \in [Requests -> {"idle", "login", "wait", "sleep", "returned", "raised"}]
  /\ nbTries \in [Requests -> 0..MaxRetries]
  /\ error \in [Requests -> Errors]
  /\ reply \in [Requests -> Answers]
  /\ pfxtoken \in Nat /\ cookie \in Nat /\ issued \in Nat
  /\ auth \in AuthMethods
  /\ credential \in BOOLEAN
  /\ tokenFile \subseteq Nat
  /\ net \subseteq Messages
  /\ executed \in [Requests -> SUBSET Nat]

\* The tries a call may make: post_simple and get_stream are never retried.
Budget == [r \in Requests |-> IF Mode[r] = "post" THEN MaxRetries + 1 ELSE 1]

\* The backend never executes a call more often than its retry budget, however
\* late the messages of tries the client gave up on arrive; a post_simple
\* (createfc, loadfc) is executed at most once.
ExecutionsWithinBudget == \A r \in Requests : executed[r] \subseteq 1..Budget[r]

\* get, post and post_simple look at the answer; get_stream passes it on.
Checked == {r \in Requests : Mode[r] # "stream"}

\* A call returns the answer of its last try, and that very try was executed.
ReturnedMeansExecuted ==
  \A r \in Checked : pc[r] = "returned" => nbTries[r] + 1 \in executed[r]

\* Every message of a call leaves with a token the backend issued: no request is
\* sent between the login and the header update.  (A token file may be empty.)
RequestsCarryToken ==
  auth # "file" => \A m \in net : m.kind = "request" => m.token \in 1..issued

\* A request, a retry included, leaves with the token its session has when it
\* leaves: the file's as it is then ("updated by re-reading the file before each
\* request"), or that of the login or answer handled last.
TokenIsFresh ==
  [][\A m \in net' \ net : m.kind = "request" /\ Known' # {} => m.token \in Known']_vars

\* The password is forgotten once the session switched to the token, ...
TokenReplacesPassword == pfxtoken # NoToken => ~credential

\* ... and, if every login that is accepted carries a token, not before.
CredentialOrToken == auth = "userpass" => (credential <=> pfxtoken = NoToken)

\* The header in use is the token the auth object holds.
HeaderIsToken == auth = "userpass" => cookie = pfxtoken

\* No call fails for want of the credential: the session can log in, or has a
\* token ("authenticate using user/pass on first connexion ... After
\* authenticating the user, the session switch to the provided JWT token").
NoCallLacksCredential == \A r \in Requests : error[r] # AttributeError

\* A session that has a token keeps one: an answer without a cookie, and the late
\* answer of a try that was given up, never take it away.  (Which token it is may
\* go back to an older one, when the answers of concurrent calls overtake each other.)
TokenIsKept == [][pfxtoken # NoToken => pfxtoken' # NoToken]_vars

\* Every call ends: no login, retry or lost answer leaves it waiting.
CallsEnd == \A r \in Requests : pc[r] # "idle" ~> pc[r] \in Done

\* The caller's view of a call.
Phase ==
  [r \in Requests |-> IF pc[r] = "idle" THEN "idle"
                      ELSE IF pc[r] = "returned" THEN "ok"
                      ELSE IF pc[r] = "raised" THEN "failed" ELSE "running"]

Promise == INSTANCE RequestPromise WITH phase <- Phase

\* RetryPfxSession keeps what RequestPromise says.
KeepsPromise == Promise!PromiseSpec
=============================================================================
