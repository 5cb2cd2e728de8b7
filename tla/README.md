# Verification of pyfxlib

pyfxlib is an asyncio client library for the Pricefx backend: sessions with
authentication and retries, typed access to tables, attachments, calculation
items and jobs, a blocking façade, a local replacement of the backend for
development, and the conversion of pandas dataframes to Avro streams.

This directory holds TLA+ models of the parts of it that keep state or talk to
something that may fail, the TLC configurations that check them on small
instances, and proofs of the properties that matter most for every instance.
Paths below are relative to `src/pyfxlib/`; line numbers refer to the files
there. `PROJECT.json` maps every definition to the lines it translates.

    tlc -workers 2 -config SessionGateway.cfg MCPfxSession     # one of the runs below
    tlapm PfxSession_proofs.tla                                # one of the proofs below

## 1. Inventory

| component | code | state | modelled by |
|---|---|---|---|
| session | `lowlevel/session.py` | token, password, token file, Cookie header, the retry counter of each call | `PfxSession`, `RequestPromise` |
| table loads | `lowlevel/connection.py` 798-880, `api/domain.py` 386-480, 598-700 | upload slot, half-read stream, exception on its way out; the table | `TableLoad`, `LoadPromise` |
| avro stream | `lowlevel/avro.py` | buffer, position, unread length, generator | `AvroStream` |
| synchronous connection | `lowlevel/connection.py` from 1872 | event loop, its thread, submitted coroutines, references | `SyncBridge` |
| paginated fetch | `lowlevel/connection.py` 881-912 | offset, what was yielded; the table | `PagedFetch` |
| attachments | `lowlevel/connection.py` 987-1035, `api/domain.py` 480-488, 752-779 | slot, id found, exception; the attachments, a reader's handle | `AttachFile` |
| configuration specs | `lowlevel/configuration/spec.py` | lists of specs under construction | `ConfigSpec`, `Validation`, `SpecBuilder` |
| connections from a configuration | `lowlevel/configuration/__init__.py` | none; decides which connection there is | `Connections` |
| local connection | `lowlevel/connection.py` 1177-1585 | files below a path, process-wide loggers | `Connections` |
| composed connection | `lowlevel/connection.py` 1586-1871 | which store each operation goes to | `Connections` |
| dataframe preparation | `lowlevel/pandasutil.py` | the caller's frame (in place), the advice given once | `TableFrames` |
| domain objects | `api/domain.py` | the fields a table object was listed with | `TableLoad`, `AttachFile`, `TableFrames` |
| queries | `schema/query.py` | the objects a program builds and edits | `Queries` |
| other schemas | `schema/core.py`, `schema/lpg.py`, `schema/optimization.py` | none | not modelled |
| password providers | `lowlevel/session.py` | none | not modelled |
| read-only remote calls | `lowlevel/connection.py` | none | not modelled |
| test tooling, scripts | `_testtooling/`, `scripts/` | none | not modelled |

### What each does, what is hard about it, what makes it correct

**Session.** `pfx_session_from_user_pass` stacks `RetryPfxSession` (retries of
`get` and `post`) on `SimplePfxSession` (one request, its checks) on
`PfxAuthUserPass` (login on first use, then the token the backend hands out); with
`PfxAuthStaticToken` there is one token, with `PfxAuthTokenFile` the file is read
before each request, whoever rewrites it.
Coroutines of one program share the auth object and the header of one httpx
client, and every `await` lets another go on. Hard: two first calls that both
log in; answers that overtake each other and each bring a token; a try the
client gave up on that the backend executes anyway; a token file that changes while a call
sleeps between two tries; an error inside an answer
with status 200, and the reverse. Correct means: a call is executed no more
often than its retry budget, a call that returned was executed, the password is
forgotten once there is a token, a token is never taken away, every call ends.

**Table loads.** `push_pandas` and `update_pandas` send a dataframe through
`create_table` or `update_table` of `ConnectionRemote`, under the blocking
`retry`, each try with a new `AvroStream`. `update_table` is a protocol of
its own: `_fc_spec`, `newuploadslot`, `loadfc`, `progress` after an error, and
`deleteslot` in a `finally`. Hard: every one of these may fail, be executed
without an answer, or be executed late, and the exceptions replace one another.
Correct means: only whole dataframes are loaded, success means loaded, no slot
is left open needlessly, the last call that returned wins; in short, what the
abstract `LoadPromise` says.

**Avro stream.** `AvroStream` encodes record by record into one `BytesIO` that is
rewound and overwritten, not truncated, while httpx (or the local connection)
reads pieces of it. Hard: left-overs of a longer filling behind the new bytes,
the order of taking bytes and filling again, odd sizes. Correct means: the bytes
come in order, each once; an empty read means the end.

**Synchronous connection.** `ConnectionSync` runs the coroutines of any
connection on a loop in a daemon thread; `_run_sync` submits one and blocks,
`_sync_iterator` submits one `__anext__` per item, `__del__` stops the loop.
Hard: threads, the garbage collector and Ctrl-C in any order. Correct means:
nobody blocks on a loop that stopped, and the thread does not outlive its use.

**Paginated fetch.** `fetch_paginated_dm_data` asks for pages by offset, sorted
by the key fields, until one is empty; between two pages the generator is
suspended and others insert, delete or replace the table, its key fields included. A
table without keys has no order that pages could share. Correct means: exact when
undisturbed, nothing lost but to deletions.

**Attachments.** `attach_file` opens a slot, lists the attachments, edits the one
of its name or uploads a new one, deletes the slot. `get_by_name` gives a reader the
first attachment of a name, `pull_file` what its id holds later. Hard: the list is
stale when the upload is sent, for the writer and for the reader. Correct means:
success means attached, slots are freed on every path, a name is there twice only
after a race, and a reader's id keeps giving the newest content of its name.

**Queries.** A pipeline is a tree of pydantic objects: stages, selectables,
expressions of six families that differ in what they may refer to. The
constructors validate, once; the dump loses the classes, and parsing an answer finds
them again from kind, name and place. Hard: unions whose members share a kind, rules
that hold at any depth, objects that are edited after they were checked. Correct
means: a dump is parsed as what was dumped, aggregates do not nest, and no class lets
a program build what the backend refuses.

**Configuration.** `spec.py` is a small language of requirements with chained,
nested calls; `configuration/__init__.py` states with it what each section must
contain and then reads the section. Correct means: valid if and only if nothing
mandatory is unmet, and what is read was required.

**Local and composed connection.** `ConnectionLocal` keeps tables, attachments,
calculation items and job updates in files; `ConnectionComposed` sends each
kind of operation to the remote or the local one. Hard: the loggers of the
process outlive the connection, files outlive the process, some operations
empty a file before they write it. Correct means: what was written is read back
from the store it was sent to, once.

**Dataframe preparation.** The index of a frame becomes the key of a table,
columns get types, manual specs overwrite them, all of it possibly in place in
the caller's frame; `to_pandas` sets the index again from the fields of a table
object, which may be stale. A LOB column needs a backend with a fix that was
made in two majors at different patch levels.

### How they interact

* `TableLoad` and `AttachFile` stand on the session: a request is one step with
  the outcomes `RequestPromise` allows (executed and returned; failed and
  executed, not executed, executed later, or executed twice). That the session
  keeps this promise is checked (`KeepsPromise`) and proved (`ImplementsPromise`).
* `TableLoad` and `Connections` read an `AvroStream` to its end: "a whole
  dataframe" is what `AvroStream` promises.
* `SyncBridge` submits the coroutines that the other models are about; with it
  the program has one call open at a time per thread.
* `Connections` decides which connection the operations work on, by the language
  of `ConfigSpec` and its `Validation`.
* `TableFrames` says what the stream of a `TableLoad` carries and what becomes
  of a frame that goes to the backend and back.

## 2. Modules

| module | extends / instantiates | about |
|---|---|---|
| `RequestPromise` | | abstract: what a caller of a session may rely on |
| `PfxSession` | `INSTANCE RequestPromise` | session, auth, retries, network and backend |
| `PfxSession_proofs` | `PfxSession` | theorems |
| `LoadPromise` | | abstract: what a program that loads tables may rely on |
| `TableLoad` | `INSTANCE LoadPromise` | the load protocol and its retry |
| `TableLoad_proofs` | `TableLoad` | theorems |
| `AvroStream` | | the buffer |
| `SyncBridge`, `SyncBridge_proofs` | | threads, event loop, `__del__`; theorems |
| `PagedFetch`, `PagedFetch_proofs` | | pages by offset next to other clients; theorems |
| `AttachFile`, `AttachFile_proofs` | | concurrent `attach_file`, a reader; theorems |
| `Queries` | | the classes of the Query API: construction, edits, dump and parsing |
| `Payloads_proofs` | `AvroStream`, `Queries` | theorems about what is sent |
| `ConfigSpec` | | the spec language: specs, and the calls that build them |
| `Validation` | `ConfigSpec` | `diagnostic` and `is_valid`, recursive over nested specs |
| `SpecBuilder` | `Validation` | a program that builds specs call by call |
| `Connections` | `Validation` | configuration, local, remote and composed stores |
| `Configuration_proofs` | `Connections`, `SpecBuilder` | the recursions of `Validation`; theorems about both |
| `TableFrames`, `TableFrames_proofs` | | frames, fields specs, the version gate; theorems |
| `MC...` | the module they are named after | constants for TLC, nothing else |

An operator `Name_Fault` in a module is `Name` with one plausible mistake (a
dropped guard, a missing reset, an off-by-one). No specification uses them: each
property was seen to fail when the definition is replaced by such a variant, so
that none holds for want of something that could go wrong.

### PfxSession

`pc[r]` follows a call from `idle` to `returned` or `raised`; in between it waits
for the answer to a login (`login`) or to its request (`wait`), or for the delay of
a retry (`sleep`). A step goes from one point where the coroutine is suspended to
the next, because asyncio does not interrupt in between.

| action | code |
|---|---|
| `Call`, `BeforeRequest` | `get`, `post`, `post_simple`, `get_stream`; `before_request` of the auth method up to its first await: `Known` is the token it has, from a file, an argument or a login |
| `LoginAnswered` | the rest of `before_request`: `_check_for_pfx_error`, `_refresh_token`, `del self._credential`, then the request |
| `Answered` | checks of `SimplePfxSession`, `after_response`, return |
| `Raise` | the `except` of `async_retry` with `default_retry_predicate` |
| `WakeUp` | `async_retry` calls itself after the delay |
| `TimedOut`, `ConnectionBreaks` | what httpx raises |
| `HandleLogin`, `HandleRequest`, `Lose` | external: backend and network |
| `RewriteTokenFile` | external: another process empties, removes or renews the token file |

Data: a token is its number of issue, an answer its status, what its body is
(`ok`, an application error, not JSON) and its token. Statuses are those at which
the code decides: 200, 401, 409 and 503.

### TableLoad

`Calls` is the program, `LobCalls` its pushes with a LOB column, each try of which asks for
the backend's version first (`CheckBackend`). `pc` is the request `update_table` or `create_table` makes
next; `pending` the exception that leaves its `try` block; `drained` tells that
the stream of this try was read. `LoadFails`, `Progress` and `DeleteSlot` follow
the `except`, and `finally`, of `update_table`, including that what `deleteslot` raises
takes the place of what was pending and that `loadfc`'s HTTP error comes out as
a plain `Exception`, which `retry` does not know. `TryEnds` is `retry`. The backend
keeps `slots` and `table`; `late` holds loads it will execute after the client
gave up.

### AvroStream

A byte is its place in the whole encoding, so "in order, each once" is
`out = <<1, 2, 3, ...>>`. `Overwrite` is a write at position 0 that leaves what lies
behind. `Read(size)` is `read`: `_next_bytes_in_buffer`, the length, and
`_fill_buffer` when nothing is left.

### SyncBridge

A thread is `out`, in a blocking `call`, holds an `iterator`, or waits for its
`next` item. The loop takes callbacks first in, first out (`Run`, `StepEnds`,
`Arrives`, `LoopEnds`); `DelStop` and `DelClose` are `__del__`, which may run in a
program thread or, when the collector runs there, in the loop's own, where the
`join` raises. The object is finalized when nothing refers to it: a suspended
iterator and a call on the stack refer to `self`.

### PagedFetch, AttachFile

One action per request, others' edits in between. A page of a table that is not sorted
is any set of rows, as many as the page has. `AttachFile` has the retrying
`post` for its uploads, hence an upload may be executed twice, or late; a call
stands for its content. `LookUp` is `get_by_name`, `Downloaded` what `pull_file` gives
for an id at any later time.

### Queries

`Schema` writes down each class: kind, source and names of its dump, what its first
argument and the others may be (the unions of query.py), how many there are. It is
the whole of query.py: every stage, expression, reference and table, and the four
enumerations of operations as they are. `UsedClasses` and `UsedNames` bound what a run
builds; they take nothing from what a field names, and the theorems hold for all classes
and names. `Build` is a constructor: the members of the unions, the lengths, and
`_check_in_values_are_literals`; an object among the arguments is not looked into again.
`Edit` assigns the arguments of a function, which nothing checks. `Dump` is what is left
on the wire, `ParsedAs` the classes pydantic finds for it.

### ConfigSpec, SpecBuilder, Connections

`ConfigSpec` defines the spec classes as records, the chained calls as operators
that return the extended spec; `Validation` has `diagnostic` and `is_valid` as recursive
functions over a spec and all in it, as the two methods call themselves on `_spec` and
`_specs`. `SpecBuilder` makes these calls one by one and keeps
in `mandates` whether something mandatory is unmet. `Connections` writes down the
specs of `configuration/__init__.py` with the same operators, decides with them
what `conn_from_config` returns or raises, and lets a program work through it: `Connect` again, `Restart` (files stay, loggers go), `UpdateStatus`, `PushCalcitem`,
`CreateTable`, `UpdateTable`, `AttachFile`, `OpenPull` and `PullChunk`.

### TableFrames

`frame`, `table` and `object` are the caller's dataframe, the backend's table and
the fields the program's table object was listed with. `PushPandas`,
`UpdatePandas` and `ToPandas` are `push_pandas`, `update_pandas` and `to_pandas` with
every option that changes what happens to index, keys and types; `Source` is
what an in-place preparation leaves in the caller's frame, also when it fails.
A column is its dtype and what data it holds. The index levels are counted from 0, each
with a name or none: `KeyName` is what the fields spec calls a level, `ColumnName` what
`reset_index` does (`index`, or `level_0`, `level_1`, ... when there are several, or when a
column is called `index`). `given` remembers the index and the names a frame had before calls
worked on it in place.

## 3. Runs

States are distinct states found; times are for two workers.

| run | module | instance | states |
|---|---|---|---|
| `SessionGateway` | `MCPfxSession` | a post, a post_simple and a stream, two at a time; password, token or token file; one retry | 1,037,695, 3.5 min |
| `TableLoad` | `MCTableLoad` | create, update, replace with a LOB; one retry; every request faulty, late execution | 1.4 million, 35 s |
| `AttachFile` | `MCAttachFile` | three calls on two names, two at a time, a reader; everything faulty | 8.0 million, 2 min |
| `SyncBridge` | `SyncBridge` | two threads, three coroutines, one await each, interrupts | 594,071, 40 s |
| `PagedFetch` | `PagedFetch` | tables of up to four rows, keyed or not, pages of two, two edits | 350,455, 1 min |
| `Queries` | `Queries` | up to four objects of 27 classes, two arguments, one edited; `in` and an operation of each kind | 2.1 million, 1.5 min |
| `AvroReads` | `MCAvroStream` | seven records of uneven length, buffer of four bytes, six read sizes | 132, 1 s |
| `TableFrames` | `MCTableFrames` | three frames, three manual specs, two backend versions, four calls | 89,711, 1 min |
| `SpecBuilder` | `SpecBuilder` | one section, one key, two values, two specs per section | 342,264, 5 s |
| `Connections` | `MCConnections` | 1,334 configurations, four calls, two connections | 167,145, 7 s |
| `SessionLoginRace` | `MCPfxSession` | two first calls | violation |
| `FrameNames` | `MCTableFrames` | a column `b` whose name is no identifier | violation |

### What they show

* `SessionGateway`: however messages are lost, delayed and reordered and whatever
  logins answer, the backend executes a call only once per try it has a budget
  for (`ExecutionsWithinBudget`) and a call that returned in the try that returned
  (`ReturnedMeansExecuted`); token and password never coexist
  (`TokenReplacesPassword`); each try leaves with the token of the moment, the file's
  included (`TokenIsFresh`); a session with a token keeps one (`TokenIsKept`); every
  call ends (`CallsEnd`); all of it implements `RequestPromise` (`KeepsPromise`).
* `TableLoad`: `KeepsLoadPromise`: with its retries, slots and faults it implements
  `LoadPromise`, by which the backend takes whole dataframes only (retries start the
  dataframe anew), each try's once, only from the call under way or late, and a call that
  returns was written. `NoSlotLeft` (but those whose opening or deletion was not
  answered), `ConfirmedLoadEndsCall` (a load that was answered with success ends its call, which
  returns, unless that load's own `deleteslot` was not answered: then the call may load again,
  section 5), `LastReturnedWins` (but for loads executed late), `ProgramEnds`.
* `AvroReads`: `InOrder`, `EmptyMeansEnd`, `AllIsRead`.
* `SyncBridge`: `BlockedMeansLoopRuns`; `EveryCoroutineIsAwaited` (coroutines
  overlap only as the program's calls do, after an interrupt, or to close an abandoned iterator);
  `EveryWaitEnds`: every blocking call ends, and the loop's thread once nothing refers to
  the object.
* `PagedFetch`: `QuietFetchIsExact`: exact for a table with keys, for one without as many
  rows as there are, and the right ones if they fit one page; `MissesOnlyAfterDelete`,
  since inserts only push rows to later pages; `FetchEnds`, also when the table is
  replaced meanwhile.
* `AttachFile`: `SlotsHaveOwners`; `AttachedOnce`: who returned is attached, and a name is
  there twice only after a race or a repeated upload; `DownloadIsNewest`: an id that was
  looked up keeps giving the newest content of its name, but after such a race.
* `Queries`: `ParsesBackAsItself`, `AggregatesDoNotNest`, `BackendTakesWhatIsBuilt`, all
  of objects that hold nothing edited.
* `SpecBuilder`: `ValidMeansMandatesMet`.
* `TableFrames`: `IndexBecomesKey`: an index whose levels can be key fields (`Keyable`: names
  that are identifiers, types the backend has, no column called like the index without a
  name) are the key fields; and the data of an index that earlier calls took apart in
  place, whether they failed or not, still arrives if all of the frame can be sent.
  `FetchedFrameFitsTable`: a frame that was fetched with a key goes back with exactly the columns it
  was fetched with, all of them fields of the table, through a stale object, too; through
  one that is not, its index is the table's key. `LobNeedsTheFix`.
* `Connections`: `ConfigurationDecides` (validation and the code that reads the
  section after it agree, but for `logformat`), `WrittenOnce`, `PulledIsAttached`.

Two runs find a disagreement between the code and what it says of itself; the
counterexample is the point of the run:

* `SessionLoginRace`, `NoCallLacksCredential`: two calls of a fresh session both find
  no token and log in; the second executes `del self._credential` (session.py:619)
  on an attribute that is gone and dies on an `AttributeError`, which is not retried.
* `FrameNames`, `ValuesArrive`: `_as_records` (avro.py:133) takes its records from
  `itertuples`, which renames columns whose names are no identifiers (`my col`,
  `class`, `_x`); the schema keeps the name, the record lacks it, the column
  arrives as nulls.

### Bounds, and why they are enough

* One retry (`MaxRetries = 1`) gives a first, a repeated and a last try, the three
  that `async_retry` and `retry` treat differently; the proofs cover any number.
* Three calls, two at a time: a race takes two, the third begins with what they
  left behind. Each mode of call is there once.
* `MaxRefreshed = 1`: as long as one token at most was issued, the answer to a request may
  bring the next one, or the token file may be renewed (empty or absent before). So the token
  of a login, an argument or a file is replaced once, and a late answer can bring back the
  older one; the proofs cover any bound.
* Three calls on a table cover each pair of successive calls of different kinds
  that the backend treats differently; the table starts absent or present.
* Read sizes -1, 0, 1, 2, 3 and 7 are below, at and beyond what a filling has left;
  records are shorter than, as long as and longer than the buffer; the third
  filling is shorter than the second, so that left-overs exist. The reader is the only
  actor, hence few states.
* Four rows in pages of two end in a full, a partial and an empty page, for every
  initial table; two edits may be a deletion and an insertion, or a replacement that takes
  the keys away and one that brings them back.
* Two calls of `AttachFile` share a name, which is a race; the third has its own, so that
  the list of attachments has others in it. TLC takes the first two as symmetric.
* Four objects with two arguments are a pipeline, a stage, a function and its argument,
  or three nested functions: every union is entered by each of its members, and every rule
  is about a parent and a child, or a child at any depth of those. Argument lists of two
  have a first and another, which is what the classes tell apart. One edit suffices to
  see what an edit can reach. A pipeline that another one joins takes five objects; the
  proofs are about any number.
* The 27 classes of `UsedClasses` leave out four references of a table, 33 tables and four stages
  (`SelectColumns`, `RemoveColumns`, `RetainColumns`, `Take`): each differs from one that is there
  only in its kind, source or name. `UsedNames` has one operation of each enumeration and `in`,
  which the constructors treat like `notIn` and all others alike. That no two of the classes or
  operations left out are mistaken for each other is not left to that choice:
  `ParsingTheorem` is about all of them.
* Two threads are the least that can race a finalizer; three coroutines let one
  thread iterate twice while the other calls.
* One await per coroutine: further ones lead through the same states of the loop.
* Two specs per section spec, nested once: `when` nests at most once in the program's
  specs, and a spec list is judged member by member. Specs are nested at most four deep
  (`Within`): a key, in an `OptionalSpec`, in a conditional section, in a section, in
  what wraps it.
* Configurations: every subset of the keys of each section, good and bad values of
  each enumerated key, every dispatch; sections are judged one by one, so bad ones
  are not combined with each other.
* Four calls of `Connections` are a connection's write, a second connection's write
  and a pull; `MaxStarts = 2` allows a second connection or one after a restart.
* `TableFrames` needs push, fetch, update and one disturbance: four calls. The frames
  have an index with a name, without one, and of two levels without names, and a column type
  that has no counterpart in the backend.

`CHECK_DEADLOCK FALSE` stands where a program may be over: all calls made, the fetch
ended, the object finalized. `SessionGateway` and `SessionLoginRace` are of this
kind; a reader of `AvroStream` can always read again, so there deadlock is checked.

### Fairness

* `PfxSession`: weak fairness of each call's continuation, including the timeout,
  and of the backend's handling. The event loop resumes a coroutine whose answer or
  timer is there; httpx raises when its timeout passes. `AsyncClient(timeout=None)`
  (session.py:415) has no such timer: `CallsEnd` is claimed only with `Timeouts`.
  `ConnectionBreaks` and `Lose` are not fair.
* `TableLoad`: the program makes its next call, and each request is answered or
  fails, which is what `CallsEnd` says of the session. Late loads need not come.
* `AvroStream`: the reader goes on with some non-zero size.
* `PagedFetch`: the program asks for the next page and each request is answered.
* `SyncBridge`: the loop's thread is scheduled, the network answers or httpx gives up,
  a thread whose result is there goes on, an unreferenced object is finalized. Nothing
  is assumed of what the program does next: it may hold an object for ever, so
  what `EveryWaitEnds` says of the thread is conditional on its being out of use.
* The other modules claim no liveness.

## 4. Proofs

Eight modules hold theorems: `PfxSession_proofs`, `TableLoad_proofs`, `SyncBridge_proofs`,
`AttachFile_proofs`, `PagedFetch_proofs`, `TableFrames_proofs`, `Payloads_proofs` (of
`AvroStream` and `Queries`) and `Configuration_proofs` (of `Connections` and `SpecBuilder`).
Each is about all values of the constants that satisfy the named assumptions of its
modules. Every invariant and every action property that a run checks is proved, and so are
both refinements; what is only model-checked is liveness. The type invariants are
proved, too; for `TableFrames` and `Connections` the type invariant is proved only, no run
checks it. In `Queries` and `SpecBuilder` the specification is `QuerySpec` and `BuilderSpec`.

| theorem | says | argument |
|---|---|---|
| `TypeCorrect` | `Spec => []TypeOK` | part of `IInv` |
| `ReturnedIsExecuted` | `Spec => []ReturnedMeansExecuted` | part of `IInv` |
| `ExecutionBudget` | `Spec => []ExecutionsWithinBudget` | follows from `IInv` |
| `ImplementsPromise` | `Spec => KeepsPromise` | every step under `IInv` maps to a step of `RequestPromise` or a stutter |
| `TokenStays` | `Spec => TokenIsKept` | tokens issued are never `NoToken`, and `RefreshToken` ignores an answer without |
| `PasswordIsForgotten` | `Spec => []TokenReplacesPassword` | `PasswordInv`: a call waits for its own answer, which may bring a token, only after a login deleted the credential |
| `FreshToken` | `Spec => TokenIsFresh` | the only steps that send a request read `Known` or bring a login's token in the same step |
| `HeaderFollowsToken` | `Spec => []HeaderIsToken` | both are assigned together |
| `TokenReplacesCredential` | without blank logins: `CredentialOrToken` and `RequestsCarryToken` | `TokenInv`: an accepted login brings a token |
| `TypeCorrect` (of `TableLoad`) | `Spec => []TypeOK` | part of its `IInv` |
| `SlotsAreFreed` | `Spec => []NoSlotLeft` | the open slots are lost ones and the one of the try under way, which the try cannot end without deleting |
| `LastReturned` | `Spec => []LastReturnedWins` | a call returns only by a confirmed load, and then only late loads write |
| `ConfirmedEndsCall` | `Spec => []ConfirmedLoadEndsCall` | part of `IInv`: a confirmed load leaves its `try` block with nothing pending, so that only `deleteslot` can raise |
| `ImplementsLoadPromise` | `Spec => KeepsLoadPromise` | each step under `IInv` maps to a step of `LoadPromise` or a stutter |
| `BufferHoldsUnread` | `Spec => []TypeOK` of `AvroStream` | with the next two, part of one invariant |
| `StreamInOrder` | `Spec => []InOrder` | invariant: the unread bytes at `pos` continue `out` |
| `StreamEnds` | `Spec => []EmptyMeansEnd` | the buffer is empty after a read only when the records are used up |
| `NobodyBlocksOnAStoppedLoop` | `Spec => []BlockedMeansLoopRuns` | `StopInv`: whoever blocks refers to the object, and the loop is told to stop only when nothing does |
| `CoroutinesAreAwaited` | `Spec => []EveryCoroutineIsAwaited` | inductive with `ReadyInv`: a coroutine is queued once, and only while it is ready |
| `SlotsAreOwned` | `Spec => []SlotsHaveOwners` | inductive with `OpenInv` |
| `FilesAreAttachedOnce` | `Spec => []AttachedOnce` | `RaceInv`, `WrittenInv` |
| `DownloadsAreNewest` | `Spec => []DownloadIsNewest` | `ReferInv`: an id once listed stays attached under its name |
| `QuietFetches` | `Spec => []QuietFetchIsExact` | `QuietInv`: what was yielded is the sorted table up to `startRow` |
| `LoadsLoseNothing` | `Spec => []MissesOnlyAfterDelete` | `SeenInv`: an insertion only raises the rank of a row |
| `TablesNeedTheFix` | `Spec => []LobNeedsTheFix` | the gate is the only way a LOB field gets into a table |
| `GateIsMonotonicPerMajor`, `GateOfOtherMajors` | on `SupportsLob` | arithmetic on versions |
| `IndexIsKey` | `Spec => []IndexBecomesKey` | `reset_index` gives each level a column of its own, and of these the preparation drops and renames none; `IndexKept`: what was done in place left the data of the first index in the frame |
| `FetchedFrameFits` | `Spec => []FetchedFrameFitsTable` | `FetchedInv`: a fetched frame has the columns and levels it was fetched with, fields of the table that can all be sent; through a fresh object its levels are the key |
| `ConfigurationIsDecided` | `Spec => []ConfigurationDecides` | the members of each section's spec, one call of the builder after another, and what each asks |
| `UpdatesAreWrittenOnce` | `Spec => []WrittenOnce` | `StatusInv`: the store is a function of the configuration; the logger has one handler by then |
| `AttachmentsAreKept` | `Spec => []PulledIsAttached` | `FileInv`, `PullInv` |
| `ValidityTheorem` | if no optional spec is put into a `ConditionalSpec`: `BuilderSpec => []ValidMeansMandatesMet` | `BuilderInv`: a section spec is valid as far as it is built, part by part |
| `NeverValidByMistake` | without that condition: what is valid fails nothing mandatory | `BuilderInv` |
| `RejectionsAreExplained` | what is not valid has a diagnostic | `NothingFound`: the two recursions agree part by part |
| `ParsingTheorem` | `QuerySpec => []ParsesBackAsItself` | each object after those it holds; `FieldsDiscriminate`: no two classes of a field have a dump in common, of all tables (`TableKindsDiffer`) and operations (`NamesDiffer`) |
| `AggregatesTheorem` | `QuerySpec => []AggregatesDoNotNest` | `Closed`: what expressions of the stage before may hold, at any depth, has no aggregate |
| `BackendTheorem` | `QuerySpec => []BackendTakesWhatIsBuilt` | `StageArguments`, `HeldClasses`: which classes are found below each stage |

None of the session's invariants is inductive alone. `IInv` adds to them `ModeInv`
(only a `post` has tries beyond the first), `TryInv` (no message and no execution
belongs to a try that was not begun: without it a late message could execute a try
outside the budget) and `ReplyInv` (an accepted reply belongs to a try that was
executed: without it `Answered` could return a call nobody executed). `IInv` was
checked by TLC before it was proved.

The `IInv` of `TableLoad_proofs` relates the request a call is at (`pc`) to what it holds: its
slot, the exception pending, whether the stream was read, which of its tries the backend
may have taken or will take late, and whether it was confirmed. Without these parts a
try could end with success that loaded nothing, or two tries be taken for one.

For the stream, the lemmas are about `FilledUpTo` (that the minimum its CHOOSE asks
for exists, by the well-foundedness of the naturals), about `Bytes`, and about
`Overwrite` (a prefix of what it returns is the new filling). The proof uses only
`EndsAssumption`: the header is not empty and each record takes some bytes.

`SyncBridge_proofs`: that nobody blocks on a stopped loop is inductive only with `StopInv`:
once the stop is queued, or `__del__` has begun, no reference is left from which
another call could be made. `ReadyInv` says that the loop's queue holds a coroutine at most
once; two entries would let one of them run after its thread went on.

`AttachFile_proofs`: `CountInv` bounds the attachments by two for each call that is past
its upload (one executed, one late), so that ids are finite in number and never given
twice. `RaceInv` says what holds of a name as long as nobody raced for it: one open
call, one attachment, nothing late, and a list that is not stale. `WrittenInv` carries the
content from the upload to the return.

`PagedFetch_proofs`: the lemmas are about `Sorted` (an increasing enumeration of any finite
table exists, by a least counterexample, and is determined by the rank of each row), about
`Page` and about `Lesser`. `SeenInv` is on ranks in the table as it is now: an insertion
moves a row to a later place, never to an earlier one.

`TableFrames_proofs`: the lemmas follow a frame through `to_field_collection_spec` and
`_update_fields_spec`: names stay distinct, data goes with its column, and a level that
is `Keyable` is neither dropped nor renamed. `reset_index` inserts level by level and stops at a
name that is taken; either way no data of the frame goes (`InsertedColumns`, `SourceIsFrame`),
so `IndexKept` holds of a frame that a refused push left half taken apart, and the next push
finds the data among its columns. `FetchedInv` carries the names a frame was fetched with from
`to_pandas` to `update_pandas`.

`Configuration_proofs` begins with `diagnostic` and `is_valid` themselves. A recursive
function is defined by a CHOOSE; that there is one to choose is shown layer by layer, from
the specs that hold nothing up to those that are nested four deep (`DiagnosticsEquation`,
`ValiditiesEquation`), and that what is found of a spec does not depend on what it is part
of (`DiagnosticsAgree`, `ValiditiesAgree`). So both obey the equations of `spec.py`
(`DiagnosticIsRecursive`, `IsValidIsRecursive`). `with_spec` adds one member to a spec and
changes nothing else; with it `RemoteSpec`, `LocalSpec` and `DispatchSpec` are taken apart, and
what they ask for is compared with `KeysRead` and `Usable`. `PullInv` says that what was pulled
is the beginning of what was opened, until it is disturbed. `BuilderInv` relates `mandates` to the
section spec and to the conditional one that is not yet part of it: each call makes both
sides of the equivalence false at once, or neither (`SectionGrows`, `ConditionalGrows`), and
a conditional section starts valid, since its condition asks for its section
(`ConditionalStarts`).

`Payloads_proofs`, of `Queries`: the invariant says that an object refers to earlier ones and,
if it was not edited, still satisfies what its constructor checked, its arguments having
kept their classes. As objects refer to earlier ones, the recursions `ParsedAs` and `Inside` have
solutions (`ParsedAsEquation`, `InsideEquation`), and what holds of an object if it holds of
what it holds, holds of all (`FromEarlierOnes`). The rest is about the schema: which
classes have a dump in common, and which sets of classes are closed under what they may hold.
`AggregatesDoNotNest` was first stated of everything in a stage. Its proof failed at
`JoinPipeline`: the pipeline that is joined may aggregate in a stage of its own, as it should, in
a pipeline of five objects, one more than the run builds. The property now says so.

Each inductive invariant was checked by TLC on the instance of its run before it was proved.

### Assumptions

Bounds are natural numbers. Beyond these:

* `AttachFile`: finitely many calls (`CallsAssumption`), as many as a program made.
* `TableFrames`: column names of a frame are distinct, its dtypes are those the code
  knows, its levels are counted from 0, and pandas has a name for each level without one
  (`FramesAssumption`, `LevelNameAssumption`); a manual spec has a name, and a type of
  `FieldSpecs`, if any (`ManualsAssumption`). Levels may share names with each other and with
  columns, and any number of them may have none. pandas also allows a frame with two columns of one
  name, and a `MultiIndex` of a single level: those are left out.
* `Queries`: the bounds are natural numbers, `UsedClasses` and `UsedNames` anything at all.
* `PagedFetch`: rows are numbers in the order of their key, finitely many.
* `Connections`: an attachment has some content (`ContentsAssumption`). Validation is not
  assumed to be anything: the theorems are about `is_valid`.
* `SpecBuilder`: only `ValidityTheorem` has a hypothesis, `~WrapsOptional`, which the run has, too:
  a `ConditionalSpec` around an optional spec refuses by mistake (section 5). No spec of the
  library is built so.

### Only model-checked

* Liveness (`CallsEnd`, `ProgramEnds`, `AllIsRead`, `FetchEnds`, `EveryWaitEnds`): fairness
  and ENABLED are beyond the prover.

Beyond both: specs nested more than four deep. `Within` unfolds four levels, in the runs and
in the proofs.

## 5. Met on the way

Behaviour of the code that the models have and that no run is about:

* An answer that comes late may bring back an older token (session.py:606): whoever
  answers last wins. `TokenIsKept` says only that there is one.
* A login answered by a page that is not JSON passes `_check_for_pfx_error`
  (501-504); without a cookie there is no token, but the credential is deleted
  (619), and every later call of the session fails with an `AttributeError`.
* A load that timed out may be executed after its retry, or after the program's
  next call (session.py:372), and then the older rows win. Nothing on the client can
  tell; hence the exception in `LastReturnedWins`.
* `update_table` turns the `HTTPStatusError` of `loadfc` into a plain `Exception`
  (connection.py:856), so that a 409 or 5xx answer to a load is not retried, although
  the same answer to a `post` is (tests/unit/test_session.py:116, tests/integration/test_domain.py:900).
* `deleteslot` in the `finally` block may replace the exception on its way out; a
  timeout there makes `retry` send a load again that was confirmed.
* `attach_file` of two concurrent calls under one name makes two attachments
  (connection.py:997).
* `AvroStream.read(-1)` returns one filling, not the rest of the stream (avro.py:73);
  both readers in the code read until nothing comes.
* A `ConditionalSpec` around an optional spec is invalid when the option is absent:
  it inherits `is_valid`, which looks at the diagnostics (spec.py:71, 85, 90). No spec
  of the library is built so; `WrapsOptional = TRUE` in `SpecBuilder.cfg` shows it.
* `ConnectionLocal.create_table` reads from the file it has opened for writing: it
  always raises and leaves the file empty (connection.py:1338, against 279).
* `ConnectionLocal.update_table` appends whole Avro streams, headers included.
* `ConnectionLocal.get_calcitems` opens a directory (1406).
* `ConnectionLocal.attach_file` empties the file before it reads the content (1486); an
  attach in the middle of a `pull_file` tears what is pulled (1496-1498).
* A second `ConnectionLocal` of one process keeps the first one's log format, as the
  logger of a job has its handler already (1515).
* `ConnectionComposed.get_fc` drops its parameters (1680).
* An index without name and a column called `index` collide: pandas names the level
  `level_0`, the key is looked for under `index`, and the column becomes the key. `Keyable`
  says so.
* An in-place push that failed leaves a frame whose index is a column (pandasutil.py:108-110). If
  the frame is pushed again, its position is the key and its former index is not (or they
  collide as above, if it had no name); `IndexBecomesKey` claims that no data is lost. A `reset_index` that is refused in place leaves the
  levels it has already inserted as columns, next to the index.
* A manual spec for the index has `key` false by default and takes the key away.
* A session created with `timeout=None` waits for ever for a lost answer.
* A local section without `logformat`, declared with `may_contains`, passes its validation and
  then raises a `KeyError` (configuration/__init__.py:129, against spec.py:229).
* A token file that is read while it is rewritten may be empty: the request leaves with an
  empty token and its 401 is not retried (session.py:566, 248).
* `attach_file` that raced leaves two attachments of one name, of which `get_by_name` takes
  the first, against its comment "names are uniques" (domain.py:486).
* A table that is replaced in the middle of a paginated fetch is sorted by the key fields
  of the one before (connection.py:891); its criteria are dumped again for each page (899).
* A field of a query object that is assigned later is not validated: an `in` may get values
  that are no literals, and only the backend objects (query.py:869).
* `PasswordProviderCommand` waits for its command before it reads from the pipe (session.py:723): a
  command that writes more than the pipe holds never ends.
* `list_objects` reads `max_rows` as at most 200 (connection.py:730) and does not tell.
* `ConnectionSync` switches keep-alive off on `conn.session` only (connection.py:1886), which a
  `ConnectionComposed` does not have.

## 6. Not modelled

Password providers (one call each), calls that only read (one request each, whose behaviour
is the session's), the schemas without validators, the user parameters, model and job that
a configuration holds, logging, hooks, tests and scripts. Of modelled parts: the encoding
of a record (fastavro's), contents beyond what tells them apart, formats of messages, the
columns' order; of the queries the filter trees of `AdvancedCriteria`, window frames, join
types, aliases and what an answer becomes as a dataframe. In `SyncBridge` no hook calls back
into the object: it would wait for itself.

## 7. Plan

Done, in this order: session and its promise; table loads; stream; synchronous
connection; fetch; attachments; specs; frames; connections; proofs of session, stream
and the version gate; the auth methods without password; the promise of table loads and
its proof; replaced and unsorted tables in the fetch; the reader of attachments; queries;
proofs of the synchronous connection, attachments, fetch, frames and connections; the recursions
of validation, and with them the proofs of specs and queries.

Next:

1. Action properties of modules that have invariants only: an attachment keeps its id, what
   a fetch has yielded stays yielded.
2. The filter of a paginated fetch that its caller changes (connection.py:899), and the
   window of `list_objects` (719-745) next to others' edits.
