------------------------------ MODULE Mybatis -------------------------------
(***************************************************************************)
(* The XML plugin (plugins/xml): which dialect a file's first element      *)
(* declares, the MyBatis mapper's statements as facts, and of a            *)
(* statement's SQL (src/sql.rs) which tables it reads and writes, which    *)
(* columns belong to which of them, and which it cannot place.             *)
(*                                                                         *)
(* Abstractions. A file is its path, `state` and the events the parser     *)
(* delivers up to the end or to an error: [ev |-> "start" | "empty", name, *)
(* attrs] with the attributes that are written, [ev |-> "end", name] and   *)
(* [ev |-> "text", text]. Lines and the attributes that only ride the node *)
(* are left out. SQL is its tokens [t, word]: t is "keyword" for a name    *)
(* that is one of SQL's own words, "name", "quoted" for a lone "..." name, *)
(* or the kind of a token that is no name; a word is the sequence of the   *)
(* parts that dots separate. Columns come out as sets.                     *)
(***************************************************************************)
EXTENDS SimpleOutput

Kind(toks, i) == IF i \in DOMAIN toks THEN toks[i].t ELSE "end"
IsWord(toks, i, word) == Kind(toks, i) = "keyword" /\ toks[i].word = <<word>>
IsAny(toks, i, words) == Kind(toks, i) = "keyword" /\ toks[i].word[1] \in words

(* What a name stands for is settled by its first mention.                 *)
Remember(names, name, table) ==
    IF \E i \in DOMAIN names : names[i][1] = name THEN names ELSE Append(names, <<name, table>>)
Table(scan, table, access) ==
    [scan EXCEPT !.tables = IF Contains(@, <<table, access>>) THEN @ ELSE Append(@, <<table, access>>),
                 !.names = Remember(@, table, table)]

AliasedToFirst(toks, i, table, scan) ==
    LET at == IF IsWord(toks, i, "as") THEN i + 1 ELSE i
        alias == Kind(toks, at) = "quoted" \/ (Kind(toks, at) = "name" /\ Len(toks[at].word) = 1)
    IN IF alias THEN <<at + 1, [scan EXCEPT !.names = Remember(@, toks[at].word, scan.tables[1][1])]>> ELSE <<at, scan>>
(* A table's alias, with or without AS: where to carry on, and the scan.   *)
Aliased(toks, i, table, scan) ==
    LET at == IF IsWord(toks, i, "as") THEN i + 1 ELSE i
        alias == Kind(toks, at) = "quoted" \/ (Kind(toks, at) = "name" /\ Len(toks[at].word) = 1)
    IN IF alias THEN <<at + 1, [scan EXCEPT !.names = Remember(@, toks[at].word, table)]>> ELSE <<at, scan>>

(* The list of tables that starts at a token, up to the first non-comma:   *)
(* one turn of the loop takes in a table, or a hole, and a comma behind it. *)
OneTable(toks, access, s) ==
    LET i == s.at
        quotes == [s.scan EXCEPT !.quotedIds = @ \/ Kind(toks, i) = "quoted"]
        Behind(next) ==
            LET comma == Kind(toks, next[1]) = "comma"
            IN [s EXCEPT !.at = IF comma THEN next[1] + 1 ELSE next[1], !.scan = next[2], !.more = comma]
    IN CASE ~s.more -> s
         [] s.more /\ Kind(toks, i) = "open" -> [s EXCEPT !.at = i + 1, !.more = FALSE]
         [] s.more /\ Kind(toks, i) = "interp" -> Behind(<<i + 1, [s.scan EXCEPT !.interpolated = TRUE]>>)
         [] s.more /\ Kind(toks, i) \in {"name", "quoted"} ->
               Behind(Aliased(toks, i + 1, toks[i].word, Table(quotes, toks[i].word, access)))
         [] OTHER -> [s EXCEPT !.more = FALSE]
TablesAt(toks, access, s) ==
    FoldLeft(LAMBDA r, tok : OneTable(toks, access, r), [s EXCEPT !.at = @ + 1, !.more = TRUE], toks)

(* The walk that finds the tables, and what FROM means behind a DELETE.    *)
AccessOf(toks, i, writing) ==
    CASE IsWord(toks, i, "from") -> Some(IF writing THEN "WRITES" ELSE "READS")
      [] IsAny(toks, i, {"join", "using"}) -> Some("READS")
      [] IsAny(toks, i, {"into", "update", "merge"}) -> Some("WRITES")
      [] OTHER -> None
Turn(toks, s) ==
    LET verb == IsAny(toks, s.at, {"delete", "insert"})
        target == verb /\ Kind(toks, s.at + 1) = "name"
        access == IF target THEN Some("WRITES") ELSE AccessOf(toks, s.at, s.writing)
    IN CASE s.at > Len(toks) -> s
         [] s.at <= Len(toks) /\ access # None -> TablesAt(toks, access[1], [s EXCEPT !.writing = @ \/ target])
         [] OTHER -> [s EXCEPT !.at = @ + 1, !.writing = verb \/ (@ /\ Kind(toks, s.at) # "keyword")]
Unread == [tables |-> <<>>, names |-> <<>>, interpolated |-> FALSE, quotedIds |-> FALSE]
Walk(toks) ==
    FoldLeft(LAMBDA s, tok : Turn(toks, s), [at |-> 1, writing |-> FALSE, more |-> FALSE, scan |-> Unread], toks).scan

(* The columns: a bare one is the only table's, a qualified one is that of *)
(* the table its qualifier stands for, any other is nobody's.              *)
Nameable(toks, i, scan) ==
    /\ Kind(toks, i) \in {"name", "quoted"}
    /\ Kind(toks, i + 1) # "open"
    /\ Kind(toks, i - 1) # "cast" /\ ~IsWord(toks, i - 1, "as")
    /\ ~\E n \in DOMAIN scan.names : scan.names[n][1] = toks[i].word
FirstTable(scan) == IF scan.tables = <<>> THEN None ELSE Some(scan.tables[1][1])
Sole(scan) == IF Len(scan.tables) = 1 /\ ~scan.interpolated THEN Some(scan.tables[1][1]) ELSE None
OwnerOf(word, scan) ==
    IF Len(word) = 1 THEN Sole(scan)
    ELSE Get(FirstMap(scan.names), Front(word))
Touched(toks) ==
    LET scan == Walk(toks)
        columns == {i \in DOMAIN toks : Nameable(toks, i, scan)}
        Owner(i) == IF Kind(toks, i) = "quoted" /\ ~scan.quotedIds THEN None ELSE OwnerOf(toks[i].word, scan)
        Name(i) == IF Kind(toks, i) = "quoted" /\ ~scan.quotedIds THEN toks[i].word ELSE <<Last(toks[i].word)>>
    IN [tables |-> scan.tables, interpolated |-> scan.interpolated,
        bound |-> {<<Owner(i)[1], Name(i)[1]>> : i \in {i \in columns : Owner(i) # None}},
        unbound |-> {Name(i) : i \in {i \in columns : Owner(i) = None}}]
----------------------------------------------------------------------------
Has(e, attr) == attr \in DOMAIN e.attrs
AttrOr(e, attr, default) == IF Has(e, attr) THEN e.attrs[attr] ELSE default

Root(events) == SelectInSeq(events, LAMBDA e : e.ev \in {"start", "empty"})
Dialect(events) ==
    LET n == Root(events) IN
    CASE n = 0 -> "malformed"
      [] n # 0 -> IF events[n].name = "mapper" /\ Has(events[n], "namespace") THEN "mapper" ELSE "unknown"

Kinds == {"select", "insert", "update", "delete"}
Mappings == {"id", "result", "idArg", "arg", "association", "collection", "discriminator"}
Dynamic == {"where", "set", "trim", "foreach"}
----------------------------------------------------------------------------
(***************************************************************************)
(* The walk over the events: what is parsed so far, and what is open.  An  *)
(* element that is written empty opens and is not closed.                  *)
(***************************************************************************)
Fresh == [namespace |-> "", fragments |-> <<>>, statements |-> <<>>, maps |-> <<>>,
          statement |-> None, fragment |-> None, map |-> None, closers |-> <<>>]

(* Text belongs to the open statement, else to the open fragment.          *)
AddPart(p, part) ==
    CASE p.statement # None -> [p EXCEPT !.statement[1].parts = Append(@, part)]
      [] p.statement = None /\ p.fragment # None -> [p EXCEPT !.fragment[1].parts = Append(@, part)]
      [] OTHER -> p
Collect(p, text) == AddPart(p, [is |-> "text", text |-> text])
CollectAny(p, text) == IF text = <<>> THEN p ELSE Collect(p, text)

(* What a dynamic tag contributes where it opens, and where it closes.     *)
Word(w) == <<[t |-> "keyword", word |-> <<w>>]>>
OpeningOf(e) ==
    CASE e.name = "where" -> Word("where") [] e.name = "set" -> Word("set")
      [] e.name = "trim" -> AttrOr(e, "prefix", <<>>) [] e.name = "foreach" -> AttrOr(e, "open", <<>>)
ClosingOf(e) ==
    CASE e.name \in {"where", "set"} -> <<>>
      [] e.name = "trim" -> AttrOr(e, "suffix", <<>>) [] e.name = "foreach" -> AttrOr(e, "close", <<>>)

Started(p, e) ==
    CASE e.name = "mapper" /\ p.namespace = "" -> [p EXCEPT !.namespace = AttrOr(e, "namespace", "")]
      [] e.name = "sql" /\ Has(e, "id") -> [p EXCEPT !.fragment = Some([id |-> e.attrs.id, parts |-> <<>>])]
      [] e.name = "resultMap" /\ Has(e, "id") ->
            [p EXCEPT !.map = Some([id |-> e.attrs.id, columns |-> <<>>,
                                    extends |-> IF Has(e, "extends") THEN Some(e.attrs.extends) ELSE None])]
      [] e.name \in Mappings /\ p.map # None /\ Has(e, "column") ->
            [p EXCEPT !.map[1].columns = Append(@, e.attrs.column)]
      [] e.name \in Dynamic ->
            [CollectAny(p, OpeningOf(e)) EXCEPT !.closers = Append(@, <<e.name, ClosingOf(e)>>)]
      [] e.name = "include" ->
            AddPart(p, IF Has(e, "refid") THEN [is |-> "include", refid |-> e.attrs.refid] ELSE [is |-> "text", text |-> <<>>])
      [] e.name \in Kinds /\ Has(e, "id") ->
            [p EXCEPT !.statement = Some([id |-> e.attrs.id, parts |-> <<>>, maps |-> AttrOr(e, "resultMap", <<>>),
                                          database |-> AttrOr(e, "databaseId", "")])]
      [] OTHER -> p

Close(p, done, open) ==
    IF p[open] = None THEN p ELSE [p EXCEPT ![done] = Append(@, p[open][1]), ![open] = None]
Ended(p, name) ==
    LET n == SelectLastInSeq(p.closers, LAMBDA c : c[1] = name) IN
    CASE n # 0 -> CollectAny([p EXCEPT !.closers = RemoveAt(@, n)], p.closers[n][2])
      [] n = 0 /\ name = "sql" -> Close(p, "fragments", "fragment")
      [] n = 0 /\ name = "resultMap" -> Close(p, "maps", "map")
      [] n = 0 /\ name \in Kinds -> Close(p, "statements", "statement")
      [] OTHER -> p

Event(p, e) ==
    CASE e.ev \in {"start", "empty"} -> Started(p, e)
      [] e.ev = "end" -> Ended(p, e.name)
      [] e.ev = "text" -> Collect(p, e.text)
Parsed(events) == FoldLeft(Event, Fresh, events)
----------------------------------------------------------------------------
(* A statement's text: each include replaced by the text of the fragment   *)
(* it names in this file, one level deep; a foreign one is counted.        *)
Foreign(p, part) == part.is = "include" /\ \A i \in DOMAIN p.fragments : p.fragments[i].id # part.refid
Texts(parts) ==
    FlattenSeq([i \in DOMAIN parts |-> IF parts[i].is = "text" THEN parts[i].text ELSE <<>>])
Spliced(p, part) ==
    CASE part.is = "text" -> part.text
      [] Foreign(p, part) -> <<>>
      [] part.is = "include" /\ ~Foreign(p, part) ->
            Texts(p.fragments[SelectInSeq(p.fragments, LAMBDA f : f.id = part.refid)].parts)
Assemble(p, s) == FlattenSeq([i \in DOMAIN s.parts |-> Spliced(p, s.parts[i])])

(* The columns a result map names, with those of the map it extends.       *)
MaxExtends == 8
Extended(p, s) ==
    LET n == SelectInSeq(p.maps, LAMBDA m : <<m.id>> = s.map) IN
    IF n = 0 THEN [s EXCEPT !.map = None]
    ELSE [columns |-> s.columns \cup ToSet(p.maps[n].columns), map |-> p.maps[n].extends]
ColumnsOf(p, id) ==
    FoldLeft(LAMBDA s, depth : Extended(p, s), [columns |-> {}, map |-> Some(id)], [depth \in 1..(MaxExtends + 1) |-> depth]).columns

(* They count as the statement's: those of its only table, or nobody's.    *)
WithMapped(p, s, touched) ==
    LET mapped == UNION {ColumnsOf(p, s.maps[i]) : i \in DOMAIN s.maps} IN
    IF Len(touched.tables) = 1
    THEN [touched EXCEPT !.bound = @ \cup {<<touched.tables[1][1], c>> : c \in mapped}]
    ELSE [touched EXCEPT !.unbound = @ \cup {<<c>> : c \in mapped}]

Emit(path, p, s) ==
    LET key == <<path, "#", s.id>> \o IF s.database = "" THEN <<>> ELSE <<"@", s.database>>
        touched == WithMapped(p, s, Touched(Assemble(p, s)))
        bound == SetToSeq(touched.bound)
        method == <<p.namespace, s.id>>
        Access(t) == Linked(External(t[1], "Table"), Edge(key, t[2], t[1]))
        Column(b) == MergeAll(<<Mint(External(Append(b[1], b[2]), "Column")),
                                Link(Edge(b[1], "HAS_COLUMN", Append(b[1], b[2]))),
                                Link(Edge(key, "USES_COLUMN", Append(b[1], b[2])))>>)
    IN MergeAll(<<Linked([key |-> key, label |-> "Statement", external |-> FALSE, unbound |-> touched.unbound],
                         Edge(<<path>>, "CONTAINS", key)),
                  When(p.namespace # "",
                       Linked(External(method, "Method"), EdgeBy(key, "IMPLEMENTS", method, "mybatis-namespace"))),
                  Each(touched.tables, Access), Each(bound, Column)>>)

(* What the reader could not do, said in numbers: one note for each kind.  *)
Bounds(p) ==
    LET all == [i \in DOMAIN p.statements |-> WithMapped(p, p.statements[i], Touched(Assemble(p, p.statements[i])))]
        Sum(Of(_)) == FoldFunction(+, 0, [i \in DOMAIN p.statements |-> Of(i)])
        Includes(i) == Len(SelectSeq(p.statements[i].parts, LAMBDA part : Foreign(p, part)))
        Holes(i) == Len(SelectSeq(Assemble(p, p.statements[i]), LAMBDA tok : tok.t = "interp"))
        Unbound(i) == Cardinality(all[i].unbound)
        Unknown(i) == IF all[i].interpolated THEN 1 ELSE 0
    IN [statements |-> Len(p.statements), unbound |-> Sum(Unbound), interpolatedTables |-> Sum(Unknown),
        foreignIncludes |-> Sum(Includes), interpolations |-> Sum(Holes)]
Remarks(path, bounds) ==
    LET Remark(what) == When(what = "statements" \/ bounds[what] > 0, Note(path, <<what, bounds[what]>>))
    IN Each(<<"statements", "unbound", "interpolatedTables", "foreignIncludes", "interpolations">>, Remark)

Mapper(path, p) ==
    LET One(s) == Emit(path, p, s) IN
    MergeAll(<<Mint(Node(<<path>>, "Mapper")), Each(p.statements, One), Remarks(path, Bounds(p))>>)
Extract(file) ==
    LET dialect == Dialect(file.events) IN
    CASE dialect = "mapper" -> Mapper(file.path, Parsed(file.events))
      [] dialect = "unknown" -> Prose(file.path)
      [] dialect = "malformed" -> Declined(file, "no root element")
Process(file) == IF file.state = "unreadable" THEN Declined(file, "unreadable") ELSE Extract(file)
=============================================================================
