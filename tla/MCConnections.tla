--------------------------- MODULE MCConnections ----------------------------
(* Instances of Connections for TLC. *)
EXTENDS Connections, TLC, FiniteSets

Some(keys) == UNION {[K -> {"x"}] : K \in SUBSET keys}
OneOf(key, values) == {<< >>} \cup {key :> v : v \in values}

\* Every subset of the keys of each section, with good and bad values.
RemoteSections ==
  {a @@ p @@ s : a \in OneOf("auth", {"token", "login", "basic"}),
                 p \in OneOf("passwordmethod", {"prompt", "keyring", "command", "guess"}),
                 s \in Some({"endpoint", "jwttoken", "instance", "partition", "account", "passcmd"})}
LocalSections == Some({"path", "logformat"})
GoodRemote == [k \in {"endpoint", "jwttoken"} |-> "x"] @@ ("auth" :> "token")
GoodLocal == [k \in {"path", "logformat"} |-> "x"]
DispatchSections ==
  [Kinds -> Stores]
  \cup {[k \in Kinds |-> IF k = bad THEN "cloud" ELSE "local"] : bad \in Kinds}
  \cup {[k \in Kinds \ {missing} |-> "partition"] : missing \in Kinds}

SmallConfigs ==
  {<< >>}
  \cup {Remote :> r : r \in RemoteSections}
  \cup {Local :> l : l \in LocalSections}
  \cup {(Remote :> GoodRemote) @@ (Local :> GoodLocal) @@ (Dispatch :> d) : d \in DispatchSections}
  \cup {(Remote :> GoodRemote) @@ (Local :> l) @@ d :
          l \in LocalSections, d \in {<< >>, Dispatch :> [k \in Kinds |-> "local"]}}

\* One chunk, and two.
ShortAndLong == {<<"a">>, <<"b1", "b2">>}
=============================================================================
