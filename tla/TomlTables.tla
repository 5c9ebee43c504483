----------------------------- MODULE TomlTables -----------------------------
(***************************************************************************)
(* The TOML plugin (plugins/toml): every table a node that the table it    *)
(* stands in CONTAINS, every element of an array of tables one of its own. *)
(*                                                                         *)
(* Abstractions.  A file is its path, `state` and its `tables`; an item is *)
(* [name, is, tables], `is` "table", "array" or "value": the tables of an  *)
(* array are those of its elements, a sequence of sequences.  A key        *)
(* `path::a.b[0]` is <<path, "a", "b", "0">>; pairs ride nodes, left out.    *)
(***************************************************************************)
EXTENDS SimpleOutput

CONSTANT Nesting    \* how deeply tables stand in tables at most

(* What the parser hands over, by how deeply it is nested.                 *)
Item[n \in 0..Nesting] ==
    IF n = 0 THEN {}
    ELSE [name : STRING, is : {"value", "table"}, tables : Seq(Item[n - 1])]
         \cup [name : STRING, is : {"array"}, tables : Seq(Seq(Item[n - 1]))]

(* The tables of an item, each ahead of those in it: its key and that of   *)
(* the table it stands in, under the key of the table the item stands in.  *)
Tables[n \in 0..Nesting] ==
    IF n = 0 THEN <<>>
    ELSE [item \in Item[n] |->
             LET In(key, inner) ==
                     [j \in DOMAIN inner |-> [key |-> key \o inner[j].key, above |-> key \o inner[j].above]]
                 Table(key, items) ==
                     <<[key |-> key, above |-> <<>>]>>
                     \o FlattenSeq([i \in DOMAIN items |-> In(key, Tables[n - 1][items[i]])])
             IN CASE item.is = "value" -> <<>>
                  [] item.is = "table" -> Table(<<item.name>>, item.tables)
                  [] item.is = "array" ->
                        FlattenSeq([i \in DOMAIN item.tables |-> Table(<<item.name, ToString(i - 1)>>, item.tables[i])])]
Walk(parent, item) ==
    LET One(t) == Linked(Node(parent \o t.key, "Table"), Edge(parent \o t.above, "CONTAINS", parent \o t.key))
    IN Each(Tables[Nesting][item], One)

Process(file) ==
    LET key == <<file.path>> IN
    CASE file.state = "unreadable" -> Declined(file, "unreadable")
      [] file.state = "invalid" -> Merge(Mint(Node(key, "Manifest")), Note(file.path, "invalid"))
      [] file.state = "read" ->
            Merge(Mint(Node(key, "Manifest")), MergeAll([i \in DOMAIN file.tables |-> Walk(key, file.tables[i])]))
=============================================================================
