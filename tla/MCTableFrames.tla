--------------------------- MODULE MCTableFrames ----------------------------
(* Dataframes and manual specs, for TLC. *)
EXTENDS TableFrames, TLC

\* Indexed by "k", with a column of lists; not indexed; with two levels without name.
SmallFrames ==
  { Frame(0 :> Level("k", Column("int", "K")),
          "a" :> Column("str", "A") @@ "b" :> Column("list", "B")),
    Frame(RangeIndex, "a" :> Column("str", "A")),
    Frame(0 :> Level(NoName, Column("int", "L")) @@ 1 :> Level(NoName, Column("str", "M")),
          "a" :> Column("str", "A")) }

Manual(name, key, type) == [name |-> name, key |-> key, type |-> type]

\* A large text; a key with another name; a spec for the index, by default no key.
SmallManuals ==
  { "a" :> Manual("a", FALSE, "LOB"), "a" :> Manual("c", TRUE, NoType),
    "k" :> Manual("k", FALSE, NoType) }

Names == 0 :> "level_0" @@ 1 :> "level_1"
AllNames == {"a", "b", "c", "k", "index", "level_0", "level_1"}
NotB == AllNames \ {"b"}

OldAndNew == {<<17, 0, 3>>, <<18, 0, 0>>}
=============================================================================
