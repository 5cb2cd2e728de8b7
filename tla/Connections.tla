---------------------------- MODULE Connections -----------------------------
(***************************************************************************)
(* A program that takes its connection from a configuration                *)
(* (lowlevel/configuration/__init__.py) and works through it: a            *)
(* ConnectionRemote, a ConnectionLocal, or a ConnectionComposed that sends *)
(* each kind of operation to one of the two (lowlevel/connection.py).      *)
(*                                                                         *)
(* There is one owner, one attachment name, one table name, one job and    *)
(* one item list; the two stores are the partition and the local path.     *)
(* The partition does what it is asked: how its requests fail is the       *)
(* subject of PfxSession, TableLoad and AttachFile.  The operations that   *)
(* ConnectionComposed sends to its default connection are stubs without    *)
(* state in ConnectionLocal and are left out, as is what only reads.       *)
(*                                                                         *)
(* An operator Name_Fault is Name with one plausible mistake.              *)
(***************************************************************************)
EXTENDS Validation

CONSTANTS
  Configs,   \* configurations: functions from sections to functions from keys
  Chunks,    \* pieces of attachments, each what one read of pull_file returns
  Contents,  \* attachments: sequences of chunks
  MaxCalls,  \* bound: calls of a behaviour
  MaxStarts  \* bound: connections made, restarts of the program included

ASSUME BoundsAssumption == MaxCalls \in Nat /\ MaxStarts \in Nat

VARIABLES
  config,    \* the configuration
  conn,      \* what conn_from_config returned, or the exception it raised
  handlers,  \* handlers of the job's logger: logging keeps them for the whole process
  lines,     \* lines[store]: status updates recorded
  file,      \* file[store]: the attachment, or NoFile
  table,     \* table[store]: the data loads in the table, or NoFile
  items,     \* items[store]: the lines of the item list
  pull,      \* the pull_file under way
  updates,   \* history: calls of update_status that returned
  last,      \* history: the content of the last attach_file, if it returned
  calls, starts

stores == <<lines, file, table, items>>
vars == <<config, conn, handlers, stores, pull, updates, last, calls, starts>>

Stores == {"partition", "local"}
NoFile == <<"no file">>
ASSUME ContentsAssumption == Contents \subseteq Seq(Chunks) \ {<< >>, NoFile}

NoPull == [state |-> "idle", store |-> "local", pos |-> 0, got |-> << >>, opened |-> << >>,
           disturbed |-> FALSE]

Remote == "connection"
Local == "connection.local"
Dispatch == "connection.dispatch"
Kinds == {"model_attachments", "model_parameters", "model_tables", "pa_tables", "job_updates"}

-----------------------------------------------------------------------------
(* From a configuration to a connection. *)

must_contain_one(s, key, values) == with_values(must_contains(s, key), key, values)

RemoteSpec_NoCommand ==
  LET s == must_contain_one(must_contains(optional_section(Remote), "endpoint"),
                            "auth", {"token", "login"})
      token == must_contains(when_key_value_is(s, "auth", "token"), "jwttoken")
      login == must_contain_one(
                 must_contains(must_contains(must_contains(
                   when_key_value_is(s, "auth", "login"),
                   "instance"), "partition"), "account"),
                 "passwordmethod", {"prompt", "keyring", "command"})
  IN with_spec(with_spec(s, token), login)
RemoteSpec ==
  LET s == must_contain_one(must_contains(optional_section(Remote), "endpoint"),
                            "auth", {"token", "login"})
      token == must_contains(when_key_value_is(s, "auth", "token"), "jwttoken")
      login == must_contain_one(
                 must_contains(must_contains(must_contains(
                   when_key_value_is(s, "auth", "login"),
                   "instance"), "partition"), "account"),
                 "passwordmethod", {"prompt", "keyring", "command"})
      command == must_contains(when_key_value_is(s, "passwordmethod", "command"), "passcmd")
  IN with_spec(with_spec(with_spec(s, token), login), command)

LocalSpec == may_contains(must_contains(optional_section(Local), "path"), "logformat")

\* One round of the loop over expected_keys for each.
DispatchSpec ==
  LET one_of_stores(s, key) == must_contain_one(s, key, Stores) IN
  one_of_stores(one_of_stores(one_of_stores(one_of_stores(one_of_stores(
    required_section(Dispatch), "model_attachments"), "model_parameters"),
    "model_tables"), "pa_tables"), "job_updates")

\* The keys that _remote_conn_from_config reads.
KeysRead(section) ==
  {"endpoint", "auth"} \cup
  IF "auth" \notin DOMAIN section THEN {}
  ELSE IF section["auth"] = "token" THEN {"jwttoken"}
  ELSE {"instance", "partition", "account", "passwordmethod"} \cup
       IF /\ "passwordmethod" \in DOMAIN section
          /\ section["passwordmethod"] = "command"
       THEN {"passcmd"} ELSE {}

\* Validated, absent, or read with section[key].
FromSection(spec, section, keys) ==
  IF ~is_valid(spec, config) THEN "SpecError"
  ELSE IF section \notin DOMAIN config THEN "none"
  ELSE IF ~(keys \subseteq DOMAIN config[section]) THEN "KeyError"
  ELSE "connection"

remote_conn_from_config ==
  FromSection(RemoteSpec, Remote, IF Remote \in DOMAIN config THEN KeysRead(config[Remote]) ELSE {})
local_conn_from_config == FromSection(LocalSpec, Local, {"path", "logformat"})

Exceptions == {"SpecError", "KeyError", "RuntimeError"}

conn_from_config ==
  LET remote == remote_conn_from_config
      local == local_conn_from_config
  IN IF remote \in Exceptions THEN remote
     ELSE IF local \in Exceptions THEN local
     ELSE IF remote = "connection" /\ local = "connection"
          THEN IF is_valid(DispatchSpec, config) THEN "composed" ELSE "SpecError"
     ELSE IF remote = "connection" THEN "remote"
     ELSE IF local = "connection" THEN "local"
     ELSE "RuntimeError"

\* Where an operation of a kind goes.
Store(kind) ==
  IF conn = "composed"
  THEN IF config[Dispatch][kind] = "partition" THEN "partition" ELSE "local"
  ELSE IF conn = "remote" THEN "partition" ELSE "local"

Connected == conn \in {"remote", "local", "composed"}

\* The program makes a connection: its first, or one more on the same path.
Connect ==
  /\ starts < MaxStarts
  /\ conn \notin Exceptions
  /\ conn' = conn_from_config
  /\ starts' = starts + 1
  /\ pull' = NoPull
  /\ UNCHANGED <<config, handlers, stores, updates, last, calls>>

\* The process ends, perhaps in a pull: its loggers are gone, its files are not.
Restart ==
  /\ Connected
  /\ conn' = "none"
  /\ handlers' = 0
  /\ pull' = NoPull
  /\ UNCHANGED <<config, stores, updates, last, calls, starts>>

-----------------------------------------------------------------------------
(* The operations. *)

Called ==
  /\ Connected
  /\ calls < MaxCalls
  /\ calls' = calls + 1
  /\ UNCHANGED <<config, conn, starts>>

\* update_status: the logger of the job's file gets a handler if it has none.
UpdateStatus_AlwaysAdds ==
  LET store == Store("job_updates") IN
  /\ Called
  /\ handlers' = IF store = "local" THEN handlers + 1 ELSE handlers
  /\ lines' = [lines EXCEPT ![store] = @ + IF store = "local" THEN handlers' ELSE 1]
  /\ updates' = updates + 1
  /\ UNCHANGED <<file, table, items, pull, last>>
UpdateStatus ==
  LET store == Store("job_updates") IN
  /\ Called
  /\ handlers' = IF store = "local" /\ handlers = 0 THEN 1 ELSE handlers
  /\ lines' = [lines EXCEPT ![store] = @ + IF store = "local" THEN handlers' ELSE 1]
  /\ updates' = updates + 1
  /\ UNCHANGED <<file, table, items, pull, last>>

\* push_calcitem: a new file begins with its header.
PushCalcitem_AlwaysHeader ==
  LET store == Store("model_parameters") IN
  /\ Called
  /\ items' = [items EXCEPT ![store] = @ \o IF store = "local" THEN <<"header", "row">>
                                                                ELSE <<"row">>]
  /\ UNCHANGED <<handlers, lines, file, table, pull, updates, last>>
PushCalcitem ==
  LET store == Store("model_parameters") IN
  /\ Called
  /\ items' = [items EXCEPT ![store] =
                 @ \o IF store = "local" /\ @ = << >> THEN <<"header", "row">> ELSE <<"row">>]
  /\ UNCHANGED <<handlers, lines, file, table, pull, updates, last>>

\* create_table: ConnectionLocal empties the file and reads from it instead of
\* from the content, which raises, whoever owns the table; only a table without
\* an owner is where update_table looks for it.
CreateTable(owned) ==
  LET store == Store("model_tables") IN
  /\ Called
  /\ table' = [table EXCEPT ![store] =
                 IF store = "partition" THEN <<"load">> ELSE IF owned THEN @ ELSE << >>]
  /\ UNCHANGED <<handlers, lines, file, items, pull, updates, last>>

\* update_table: ConnectionLocal raises when there is no file.
UpdateTable ==
  LET store == Store("model_tables") IN
  /\ Called
  /\ table' = [table EXCEPT ![store] = IF @ = NoFile THEN NoFile ELSE Append(@, "load")]
  /\ UNCHANGED <<handlers, lines, file, items, pull, updates, last>>

\* attach_file: ConnectionLocal has emptied the file when it reads the content.
AttachFile(content) ==
  LET store == Store("model_attachments") IN
  /\ Called
  /\ \/ /\ file' = [file EXCEPT ![store] = content]
        /\ last' = content
     \/ /\ file' = IF store = "local" THEN [file EXCEPT ![store] = << >>] ELSE file
        /\ last' = NoFile                              \* content.read() raises
  /\ pull' = IF pull.state = "idle" THEN pull ELSE [pull EXCEPT !.disturbed = TRUE]
  /\ UNCHANGED <<handlers, lines, table, items, updates>>

\* The first item asked of pull_file opens the file, or the download.
OpenPull_AsTable ==
  LET store == Store("model_tables") IN
  /\ Called
  /\ pull' = [NoPull EXCEPT !.state = IF file[store] = NoFile THEN "failed" ELSE "open",
                            !.store = store, !.opened = file[store]]
  /\ UNCHANGED <<handlers, stores, updates, last>>
OpenPull ==
  LET store == Store("model_attachments") IN
  /\ Called
  /\ pull' = [NoPull EXCEPT !.state = IF file[store] = NoFile THEN "failed" ELSE "open",
                            !.store = store, !.opened = file[store]]
  /\ UNCHANGED <<handlers, stores, updates, last>>

\* A chunk: of the download that was opened, or of the file as it is now.
PullChunk ==
  LET source == IF pull.store = "partition" THEN pull.opened ELSE file["local"] IN
  /\ pull.state = "open"
  /\ pull' = IF pull.pos < Len(source)
             THEN [pull EXCEPT !.pos = @ + 1, !.got = Append(@, source[pull.pos + 1])]
             ELSE [pull EXCEPT !.state = "done"]
  /\ UNCHANGED <<config, conn, handlers, stores, updates, last, calls, starts>>

-----------------------------------------------------------------------------
Init ==
  /\ config \in Configs
  /\ conn = "none"
  /\ handlers = 0
  /\ lines = [s \in Stores |-> 0]
  /\ file = [s \in Stores |-> NoFile]
  /\ table = [s \in Stores |-> NoFile]
  /\ items = [s \in Stores |-> << >>]
  /\ pull = NoPull
  /\ updates = 0 /\ last = NoFile
  /\ calls = 0 /\ starts = 0

Next ==
  \/ Connect \/ Restart
  \/ UpdateStatus \/ PushCalcitem \/ UpdateTable \/ OpenPull \/ PullChunk
  \/ \E owned \in BOOLEAN : CreateTable(owned)
  \/ \E content \in Contents : AttachFile(content)

Spec == Init /\ [][Next]_vars

-----------------------------------------------------------------------------
(* Properties. *)

\* The stores hold what their operations write.
TypeOK ==
  /\ config \in Configs
  /\ conn \in {"none", "remote", "local", "composed"} \cup Exceptions
  /\ handlers \in {0, 1}
  /\ lines \in [Stores -> Nat]
  /\ file \in [Stores -> Contents \cup {<< >>, NoFile}]
  /\ table \in [Stores -> Seq({"load"}) \cup {NoFile}]
  /\ items \in [Stores -> Seq({"header", "row"})]
  /\ pull \in [state : {"idle", "open", "done", "failed"}, store : Stores, pos : Nat,
              got : Seq(Chunks), opened : Contents \cup {<< >>, NoFile}, disturbed : BOOLEAN]
  /\ updates \in Nat /\ last \in Contents \cup {NoFile}
  /\ calls \in 0..MaxCalls /\ starts \in 0..MaxStarts

Sections == DOMAIN config
Value(section, key) == IF Has(config, section, key) THEN config[section][key] ELSE "missing"
Given(section, keys) == \A key \in keys : Has(config, section, key)

\* What a configuration must say to be used, spelled out section by section.
RemoteUsable ==
  /\ Given(Remote, {"endpoint"})
  /\ \/ Value(Remote, "auth") = "token" /\ Given(Remote, {"jwttoken"})
     \/ /\ Value(Remote, "auth") = "login"
        /\ Given(Remote, {"instance", "partition", "account"})
        /\ \/ Value(Remote, "passwordmethod") \in {"prompt", "keyring"}
           \/ Value(Remote, "passwordmethod") = "command" /\ Given(Remote, {"passcmd"})
  /\ Value(Remote, "passwordmethod") = "command" => Given(Remote, {"passcmd"})
Usable ==
  /\ Sections \cap {Remote, Local} # {}
  /\ Remote \in Sections => RemoteUsable
  /\ Local \in Sections => Given(Local, {"path"})
  /\ {Remote, Local} \subseteq Sections => \A k \in Kinds : Value(Dispatch, k) \in Stores

\* The specs and the code that reads the sections after them agree: a usable
\* configuration is refused only for want of the logformat, a configuration that
\* connects is usable, and a validated one lacks no other key that the code reads.
ConfigurationDecides ==
  /\ conn = "KeyError" => Given(Local, {"path"}) /\ ~Given(Local, {"logformat"})
  /\ conn \in {"SpecError", "RuntimeError"} => ~Usable
  /\ Connected => Usable

\* Where the configuration puts a kind of operations.
Wanted(kind) ==
  IF Remote \notin Sections THEN "local"
  ELSE IF Local \notin Sections \/ Value(Dispatch, kind) = "partition" THEN "partition"
  ELSE "local"

\* Every update_status that returned is one line where the configuration wants it,
\* and the items on disk are the rows that were pushed below one header, however
\* many connections the program made and whenever it was restarted.
WrittenOnce ==
  /\ Connected => lines = [s \in Stores |-> IF s = Wanted("job_updates") THEN updates ELSE 0]
  /\ items["local"] # << >> =>
       Head(items["local"]) = "header" /\ Tail(items["local"]) \in Seq({"row"})

\* What pull_file yields to a caller nobody disturbs is what the last attach_file
\* stored, in whatever store, before a restart or after.
PulledIsAttached ==
  pull.state \in {"done", "failed"} /\ ~pull.disturbed /\ last # NoFile
    => pull.state = "done" /\ pull.got = last
=============================================================================
