------------------------------ MODULE Expansion ------------------------------
(***************************************************************************)
(* What becomes of the references in a document, node by node: expand_vars *)
(* puts clones in their place, flatten_vars joins the texts, reparse_vars  *)
(* reads names of files out of them, expand_filtervars lists libraries;    *)
(* and the table of all nodes, whose indices expand_vars marks             *)
(* (node.cpp, util/unique_visitor.h, phases/audit.cpp).  Variables is      *)
(* about scopes and circles; here all variables but $(TARGET) are global,  *)
(* and none refers to itself.                                              *)
(*                                                                         *)
(* A text is a row of pieces: parts of words, "/" and blanks.              *)
(***************************************************************************)
EXTENDS Integers, FiniteSets, SequencesExt

CONSTANT Documents   \* [items, links, base]: declarations, lines of code and names of files,
                     \* [kind, name, rows], where a row is of parts [kind, text], literal or
                     \* $(X), $(f $(X)), $(target.link : template); what each target links
                     \* to; the base of each library, "" for none

References(d, i) == {p.text[IF p.kind = "callvar" THEN 2 ELSE 1] :
                       p \in {q \in Range(d.items[i].rows[1]) : q.kind \in {"roundvar", "callvar"}}}
ASSUME NoCircles ==
    \A d \in Documents :
      LET decls == {i \in DOMAIN d.items : d.items[i].kind = "vardecl"}
      IN  \E rank \in [decls -> 1..Cardinality(decls)] :
            \A i, j \in decls : d.items[j].name \in References(d, i) => rank[j] < rank[i]

VARIABLES
    doc,     \* the document as it was written
    h,       \* the nodes and what the phases know of them
    phase,   \* how many phases have begun
    at,      \* where the visitor is in the document
    status
vars == <<doc, h, phase, at, status>>

(* The tokens among the nodes; the others are lists. *)
Tokens == {"code", "name", "id", "{", "}", "error"}

----------------------------------------------------------------------------
(* Nodes, and the table of them.  A node is known here by when it was      *)
(* made, in the program by its place in memory; its index is its place in  *)
(* the table.                                                              *)
Kids(g, n) == g.nodes[n].kids
Kind(g, n) == g.nodes[n].kind
Parent(g, n) == g.nodes[n].up
Place(g, n) == CHOOSE i \in DOMAIN Kids(g, Parent(g, n)) : Kids(g, Parent(g, n))[i] = n
Newest(g) == Len(g.nodes)

(* Mutant of NewIndex: an index that has become free is taken again. *)
FreeIndex(g) == LET free == {i \in DOMAIN g.table : g.table[i] = 0}
                IN  IF free = {} THEN Len(g.table) + 1 ELSE CHOOSE i \in free : \A j \in free : i <= j
NewIndex(g) == Len(g.table) + 1

Adopt(g, list, ns) ==
    [g EXCEPT !.nodes = [i \in DOMAIN @ |-> IF i = list THEN [@[i] EXCEPT !.kids = ns]
                                           ELSE IF i \in Range(ns) THEN [@[i] EXCEPT !.up = list] ELSE @[i]]]
New(g, kind, text, ns) ==
    LET i == NewIndex(g)
        node == [kind |-> kind, text |-> text, kids |-> <<>>, up |-> 0, index |-> i]
    IN  Adopt([g EXCEPT !.nodes = Append(@, node),
                        !.table = IF i > Len(@) THEN Append(@, Newest(g) + 1) ELSE [@ EXCEPT ![i] = Newest(g) + 1]],
              Newest(g) + 1, ns)
Token(g, kind, text) == New(g, kind, text, <<>>)

(* node::~node *)
Release(g, n) ==
    [g EXCEPT !.nodes[n].index = 0,
              !.table = IF Last(@) = n THEN Front(@) ELSE [@ EXCEPT ![g.nodes[n].index] = 0]]

(* A list is gone before what is in it, but its index is given back after. *)
RECURSIVE Destroy(_, _)
Destroy(g, n) == Release(FoldLeft(LAMBDA f, k : Destroy(f, k), g, Kids(g, n)), n)

(* node_list::clone_list *)
RECURSIVE Clone(_, _)
Clone(g, n) ==
    LET c == Newest(g) + 1
        AddClone(f, k) == LET e == Clone(f, k) IN Adopt(e, c, Append(Kids(e, c), Newest(f) + 1))
    IN  FoldLeft(AddClone, New(g, Kind(g, n), g.nodes[n].text, <<>>), Kids(g, n))

(* node_list::replace: a list for a node, which is taken out.  It cannot   *)
(* be an empty list.                                                       *)
Stopped(g, why) == [g EXCEPT !.stop = why]
(* Mutant of Splice: what comes for it is put at the end. *)
SpliceAtEnd(ns, i, list) == RemoveAt(ns, i) \o list
Splice(ns, i, list) == SubSeq(ns, 1, i - 1) \o list \o SubSeq(ns, i + 1, Len(ns))
Replace(g, n, list) ==
    LET p == Parent(g, n)
        from == IF list = <<>> THEN n ELSE Parent(g, list[1])
    IN  IF list = <<>> THEN Stopped(g, "replaced by nothing")
        ELSE LET f == Adopt(IF from = 0 THEN g ELSE Adopt(g, from, <<>>), p, Splice(Kids(g, p), Place(g, n), list))
             IN  [f EXCEPT !.nodes[n].up = 0]
(* One node for another, which is released. *)
Put(g, n, m) == Destroy(Replace(g, n, <<m>>), n)

----------------------------------------------------------------------------
(* expand_vars.  sym is what a reference has been found to refer to.       *)
Marked(g, n) == g.nodes[n].index \in g.seen
Mark(g, n) == [g EXCEPT !.seen = @ \union {g.nodes[n].index}, !.visited = @ \union {n}]
Name(g, n) == g.nodes[Kids(g, n)[1]].text[1]
Lookup(g, x) == IF x \in DOMAIN g.symtab THEN g.symtab[x] ELSE 0

(* The functions of paths. *)
LastSlash(t) == CHOOSE i \in 0..Len(t) : /\ i > 0 => t[i] = "/"
                                         /\ \A j \in (i + 1)..Len(t) : t[j] # "/"
Functions == {"dir", "notdir", "empty"}
Result(f, t) == CASE f = "dir"    -> SubSeq(t, 1, LastSlash(t) - 1)
                  [] f = "notdir" -> SubSeq(t, LastSlash(t) + 1, Len(t))
                  [] f = "empty"  -> IF t = <<>> THEN <<"1">> ELSE <<"0">>

MakeVar(g, t) == LET f == Token(g, "code", t) IN New(f, "body", <<>>, <<Newest(f)>>)
Call(g, n) ==
    LET arg == Kids(g, n)[2]
        plain == Kids(g, arg)[1]
    IN  CASE Name(g, n) \notin Functions -> Stopped(g, "unknown function")
          [] Name(g, n) \in Functions /\ Kind(g, arg) # "body" -> g
          [] Name(g, n) \in Functions /\ Kind(g, arg) = "body" ->
               IF Len(Kids(g, arg)) # 1 THEN Stopped(g, "argument in parts")
               ELSE IF Kind(g, plain) \notin Tokens THEN Stopped(g, "bad cast")
               ELSE LET f == MakeVar(g, Result(Name(g, n), g.nodes[plain].text)) IN [f EXCEPT !.sym = Newest(f)]

RECURSIVE Accept(_, _), OverrideFrom(_, _, _)
Override(g, n) == IF Marked(g, n) THEN g ELSE OverrideFrom(Mark(g, n), n, 1)
Accept(g, n) ==
    CASE Kind(g, n) \in Tokens -> g
      [] Kind(g, n) = "roundvar" -> [g EXCEPT !.sym = Lookup(g, Name(g, n))]
      [] Kind(g, n) = "callvar" -> LET f == Override(g, n) IN IF f.stop = "" THEN Call(f, n) ELSE f
      [] OTHER -> Override(g, n)

(* The reference n is replaced by a clone of sym; the value of a function  *)
(* is then released.                                                       *)
Substitute(g, n, sym) ==
    LET f == IF Marked(g, sym) THEN g ELSE Accept(g, sym)
        c == Put(Clone(f, sym), n, Newest(f) + 1)
    IN  IF f.stop # "" THEN f ELSE IF sym \in Range(f.symtab) THEN c ELSE Destroy(c, sym)

OverrideFrom(g, n, i) ==
    IF g.stop # "" \/ i > Len(Kids(g, n)) THEN [g EXCEPT !.sym = 0]
    ELSE LET k == Kids(g, n)[i]
             f == Accept([g EXCEPT !.sym = 0], k)
         IN  OverrideFrom(IF f.stop # "" \/ f.sym = 0 THEN f ELSE Substitute(f, k, f.sym), n, i + 1)

----------------------------------------------------------------------------
(* A visitor without an override: each node below n, where the list may    *)
(* change while the visitor is in it.                                      *)
RECURSIVE Walk(_, _, _, _)
Walk(Visit(_, _), g, n, i) ==
    IF g.stop # "" \/ i > Len(Kids(g, n)) THEN g
    ELSE Walk(Visit, IF Kind(g, Kids(g, n)[i]) \in Tokens THEN g ELSE Visit(g, Kids(g, n)[i]), n, i + 1)

(* flatten_vars.  Texts next to each other become one; a reference needs a *)
(* text before it.                                                         *)
Joined(m, k) ==
    IF Kind(m.g, k) \in Tokens
    THEN IF ~m.open /\ m.code # <<>> THEN [m EXCEPT !.g.stop = "text left over"]
         ELSE [m EXCEPT !.open = TRUE, !.code = @ \o m.g.nodes[k].text]
    ELSE IF ~m.open THEN [m EXCEPT !.g.stop = "no text before"]
    ELSE LET f == Token(m.g, "code", m.code)
         IN  [g |-> f, out |-> m.out \o <<Newest(f), k>>, code |-> <<>>, open |-> FALSE]
Merge(g, n) ==
    LET m == FoldLeft(LAMBDA a, k : IF a.g.stop # "" THEN a ELSE Joined(a, k),
                      [g |-> g, out |-> <<>>, code |-> <<>>, open |-> FALSE], Kids(g, n))
        f == IF m.open THEN Token(m.g, "code", m.code) ELSE m.g
        out == IF m.open THEN Append(m.out, Newest(f)) ELSE m.out
        old == SelectSeq(Kids(g, n), LAMBDA k : Kind(g, k) \in Tokens)
    IN  IF m.g.stop # "" THEN m.g
        ELSE IF m.open /\ m.code = <<>> THEN Stopped(m.g, "no text")
        ELSE FoldLeft(Release, Adopt(f, n, out), old)

RECURSIVE Flatten(_, _)
Flatten(g, n) ==
    LET f == Walk(Flatten, g, n, 1)
    IN  IF f.stop # "" \/ Kind(f, n) # "body" THEN f
        ELSE IF Kind(f, Parent(f, n)) # "body" THEN Merge(f, n)
        ELSE LET e == Replace(f, n, Kids(f, n)) IN IF e.stop # "" THEN e ELSE Destroy(e, n)

----------------------------------------------------------------------------
(* reparse_vars.  Parser shows what the lexer and the parser make of such  *)
(* a text.                                                                 *)
Words(t) == SelectSeq(FoldLeft(LAMBDA ws, x : IF x = " " THEN Append(ws, <<>>)
                                             ELSE Append(Front(ws), Append(Last(ws), x)), <<<<>>>>, t),
                      LAMBDA w : w # <<>>)
NewFilename(g, w) == LET f == Token(g, "name", w) IN New(f, "filename", <<>>, <<Newest(f)>>)
AddTo(g, list, n) == Adopt(g, list, Append(Kids(g, list), n))
Report(g) == [Token(g, "error", <<>>) EXCEPT !.errors = @ + 1]

(* MULTIFILE: the names between braces.  The result is released. *)
ReparseParts(g, n, words) ==
    LET first == NewFilename(g, words[1])
        result == Newest(first)
        all == FoldLeft(LAMBDA f, w : LET e == Token(f, "name", w) IN AddTo(e, result, Newest(e)), first, Tail(words))
    IN  Destroy(Release(Replace(all, n, Kids(all, result)), result), n)

(* FILENAME: a part of a name.  Behind a blank there is an error, but what *)
(* came before is returned and put into the name.                          *)
ReparsePart(g, n, words) ==
    LET f == NewFilename(g, words[1])
        e == IF Len(words) > 1 THEN Report(f) ELSE f
    IN  Destroy(Release(Replace(e, n, Kids(e, Newest(f))), Newest(f)), n)

(* R_SOURCES: a list of names, in place of the name. *)
ReparseList(g, n, words) ==
    LET first == NewFilename(g, words[1])
        list == New(first, "members", <<>>, <<Newest(first)>>)
        result == Newest(list)
        all == FoldLeft(LAMBDA f, w : LET e == NewFilename(f, w) IN AddTo(e, result, Newest(e)), list, Tail(words))
    IN  Destroy(Release(Replace(all, Parent(g, n), Kids(all, result)), result), Parent(g, n))

InBraces(g, n) == Place(g, n) > 1 /\ Kind(g, Kids(g, Parent(g, n))[Place(g, n) - 1]) = "{"
(* Mutant of HasSibling: only what comes behind counts. *)
HasNext(g, n) == Place(g, n) < Len(Kids(g, Parent(g, n)))
HasSibling(g, n) == Len(Kids(g, Parent(g, n))) > 1
ReparseBody(g, n) ==
    LET words == Words(FlattenSeq([i \in DOMAIN Kids(g, n) |-> g.nodes[Kids(g, n)[i]].text]))
    IN  IF Kind(g, Parent(g, n)) = "line" THEN Destroy(Replace(g, n, Kids(g, n)), n)
        ELSE IF Kind(g, Parent(g, n)) # "filename" THEN g
        ELSE IF \E i \in DOMAIN Kids(g, n) : Kind(g, Kids(g, n)[i]) \notin Tokens THEN Stopped(g, "bad cast")
        ELSE IF words = <<>> THEN Report(g)
        ELSE IF InBraces(g, n) THEN ReparseParts(g, n, words)
        ELSE IF HasSibling(g, n) THEN ReparsePart(g, n, words)
        ELSE ReparseList(g, n, words)

RECURSIVE Reparse(_, _)
Reparse(g, n) == IF Kind(g, n) = "body" THEN ReparseBody(g, n) ELSE Walk(Reparse, g, n, 1)

----------------------------------------------------------------------------
(* expand_filtervars::inherits: base after base; in a circle for ever. *)
RECURSIVE Inherits(_, _, _, _)
Inherits(base, lib, tmpl, before) ==
    IF lib \in before THEN "endless"
    ELSE IF lib \notin DOMAIN base THEN "not declared"
    ELSE IF base[lib] = "" THEN "no"
    ELSE IF base[lib] = tmpl THEN "yes"
    ELSE Inherits(base, base[lib], tmpl, before \union {lib})

(* The libraries of a target that come from a template; libraries of the   *)
(* system are passed over.                                                 *)
Links(d, target, tmpl) ==
    LET internal == SelectSeq(d.links[target], LAMBDA l : l.internal)
        answers == [i \in DOMAIN internal |-> Inherits(d.base, internal[i].name, tmpl, {})]
        bad == SelectSeq(answers, LAMBDA a : a \notin {"yes", "no"})
        good == SelectSeq(internal, LAMBDA l : Inherits(d.base, l.name, tmpl, {}) = "yes")
    IN  [stop |-> IF bad = <<>> THEN "" ELSE bad[1],
         text |-> FoldLeft(LAMBDA t, l : IF t = <<>> THEN <<l.name>> ELSE t \o <<" ", l.name>>, <<>>, good)]

FilterVar(g, n) ==
    LET args == [i \in 1..3 |-> g.nodes[Kids(g, n)[i]].text[1]]
        links == Links(doc, args[1], args[3])
    IN  IF args[1] \notin DOMAIN doc.links THEN g
        ELSE IF args[2] # "link" THEN Stopped(g, "not links")
        ELSE IF links.stop # "" THEN Stopped(g, links.stop)
        ELSE IF Kind(g, Parent(g, n)) # "line" THEN Stopped(g, "not in a line")
        ELSE Put(Token(g, "code", links.text), n, Newest(g) + 1)

RECURSIVE ExpandFilters(_, _)
ExpandFilters(g, n) == IF Kind(g, n) = "filtervar" THEN FilterVar(g, n) ELSE Walk(ExpandFilters, g, n, 1)

----------------------------------------------------------------------------
(* The document as the parser leaves it, nodes below others first. *)
IdToken(g, x) == Token(g, "id", <<x>>)
PartNode(g, part, kind) ==
    LET a == IdToken(g, part.text[1])
        b == IdToken(a, part.text[2])
        c == New(b, "roundvar", <<>>, <<Newest(b)>>)
        e == IdToken(b, part.text[3])
    IN  CASE part.kind = "text" -> Token(g, kind, part.text)
          [] part.kind \in {"{", "}"} -> Token(g, part.kind, part.text)
          [] part.kind = "roundvar" -> New(a, "roundvar", <<>>, <<Newest(a)>>)
          [] part.kind = "callvar" -> New(c, "callvar", <<>>, <<Newest(a), Newest(c)>>)
          [] part.kind = "filtervar" -> New(e, "filtervar", <<>>, <<Newest(a), Newest(b), Newest(e)>>)

(* A node with one below it for each of xs. *)
List(Build(_, _), g, kind, xs) ==
    LET m == FoldLeft(LAMBDA a, x : LET f == Build(a.g, x) IN [g |-> f, out |-> Append(a.out, Newest(f))],
                      [g |-> g, out |-> <<>>], xs)
    IN  New(m.g, kind, <<>>, m.out)

Row(g, kind, parts) ==
    List(LAMBDA f, p : PartNode(f, p, IF kind = "filename" THEN "name" ELSE "code"), g, kind, parts)
Item(g, item) ==
    CASE item.kind = "lines" -> List(LAMBDA f, r : Row(f, "line", r), g, "lines", item.rows)
      [] item.kind = "members" -> List(LAMBDA f, r : Row(f, "filename", r), g, "members", item.rows)
      [] item.kind = "vardecl" -> LET a == IdToken(g, item.name)
                                      b == Row(a, "body", item.rows[1])
                                  IN  New(b, "vardecl", <<>>, <<Newest(a), Newest(b)>>)

Empty == [nodes |-> <<>>, table |-> <<>>, symtab |-> <<>>, seen |-> {}, visited |-> {}, sym |-> 0,
          stop |-> "", errors |-> 0]
Root(g) == CHOOSE n \in DOMAIN g.nodes : Kind(g, n) = "document"
Parsed(d) == List(Item, Empty, "document", d.items)

(* insert_vardecl_syms: each variable's name stands for its body. *)
Declared(g) ==
    LET decls == {n \in DOMAIN g.nodes : Kind(g, n) = "vardecl"}
    IN  [x \in {Name(g, n) : n \in decls} |-> Kids(g, CHOOSE n \in decls : Name(g, n) = x)[2]]

----------------------------------------------------------------------------
(* The phases, in the order of main.cpp; those between the two rounds are  *)
(* about other things, or are in Sources and Rules.                        *)
Phases == <<"expand_vars", "flatten_vars", "reparse_vars", "insert_target_syms",
            "expand_filtervars", "expand_vars", "flatten_vars", "reparse_vars">>
Running(p) == status = "running" /\ at <= Len(Kids(h, Root(h))) /\ Phases[phase] = p
Child == Kids(h, Root(h))[at]

Init ==
    /\ doc \in Documents
    /\ h = [Parsed(doc) EXCEPT !.symtab = Declared(Parsed(doc))]
    /\ phase = 0 /\ at = 1
    /\ status = "between phases"

(* A phase begins with a new visitor, which has marked nothing yet.        *)
(* $(TARGET) is inserted without a look at what is in the document.        *)
BeginPhase ==
    /\ status = "between phases" /\ phase < Len(Phases)
    /\ phase' = phase + 1 /\ at' = 1
    /\ LET g == [h EXCEPT !.seen = {}, !.visited = {}]
           t == MakeVar(g, <<"p">>)
       IN  CASE Phases[phase + 1] = "expand_vars" -> h' = Mark(g, Root(g)) /\ status' = "running"
             [] Phases[phase + 1] = "insert_target_syms" ->
                  h' = [t EXCEPT !.symtab = [x \in DOMAIN @ \union {"TARGET"} |->
                                               IF x = "TARGET" THEN Newest(t) ELSE @[x]]]
                  /\ UNCHANGED status
             [] OTHER -> h' = g /\ status' = "running"
    /\ UNCHANGED doc

(* One child of the document is visited; an assertion that fails, or an    *)
(* exception, ends the program.                                            *)
Visited(p, g) ==
    /\ Running(p)
    /\ h' = g /\ at' = at + 1
    /\ status' = IF g.stop = "" THEN status ELSE "aborted"
    /\ UNCHANGED <<doc, phase>>
ExpandVars == Visited("expand_vars", Accept(h, Child))
FlattenVars == Visited("flatten_vars", Flatten(h, Child))
ReparseVars == Visited("reparse_vars", Reparse(h, Child))
ExpandFiltervars == Visited("expand_filtervars", ExpandFilters(h, Child))

(* After each phase main looks for errors. *)
EndPhase ==
    /\ status = "running" /\ at > Len(Kids(h, Root(h)))
    /\ status' = IF h.errors > 0 THEN "failed" ELSE "between phases"
    /\ UNCHANGED <<doc, h, phase, at>>

Next == BeginPhase \/ ExpandVars \/ FlattenVars \/ ReparseVars \/ ExpandFiltervars \/ EndPhase
Spec == Init /\ [][Next]_vars

----------------------------------------------------------------------------
(* What the document means, as it was written.  In the second round, late, *)
(* $(TARGET) has a value.                                                  *)
Part(kind, text) == [kind |-> kind, text |-> text]
IsText(p) == p.kind = "text"
Declares(x, i) == doc.items[i].kind = "vardecl" /\ doc.items[i].name = x
Decl(x) == doc.items[CHOOSE i \in DOMAIN doc.items : Declares(x, i)].rows[1]
IsDeclared(x) == \E i \in DOMAIN doc.items : Declares(x, i)

RECURSIVE Resolved(_, _)
Resolved(parts, late) ==
    LET One(p) ==
          CASE p.kind = "roundvar" /\ IsDeclared(p.text[1]) -> Resolved(Decl(p.text[1]), late)
            [] p.kind = "roundvar" /\ p.text[1] = "TARGET" /\ late -> <<Part("text", <<"p">>)>>
            [] p.kind = "callvar" /\ IsDeclared(p.text[2]) ->
                 <<Part("text", Result(p.text[1], Decl(p.text[2])[1].text))>>
            [] p.kind = "callvar" /\ p.text[2] = "TARGET" /\ late -> <<Part("text", Result(p.text[1], <<"p">>))>>
            [] p.kind = "filtervar" /\ late /\ p.text[1] \in DOMAIN doc.links ->
                 <<Part("text", Links(doc, p.text[1], p.text[3]).text)>>
            [] OTHER -> <<p>>
    IN  FlattenSeq([i \in DOMAIN parts |-> One(parts[i])])

(* What is left of a reference, and the text of parts. *)
Shown(p) == CASE p.kind \in {"text", "{", "}"} -> p.text
              [] p.kind = "roundvar" -> <<"$">> \o p.text
              [] p.kind = "callvar" -> <<"$", p.text[1], "$", p.text[2]>>
              [] p.kind = "filtervar" -> <<"$">> \o p.text
TextOf(parts) == FlattenSeq([i \in DOMAIN parts |-> Shown(parts[i])])

(* A row of code is one text.  A name of a file is one text, too; it is    *)
(* words when it has braces, and many names when it is a reference.        *)
IsReference(parts) == Len(parts) = 1 /\ parts[1].kind = "roundvar"
HasBraces(parts) == \E i \in DOMAIN parts : parts[i].kind = "{"
Names(parts) ==
    LET late == Resolved(parts, TRUE)
        Each(p) == LET r == Resolved(<<p>>, TRUE)
                   IN  IF \A q \in Range(r) : q.kind \in {"text", "{", "}"} THEN Words(TextOf(r)) ELSE <<TextOf(r)>>
        PerPart == FlattenSeq([i \in DOMAIN parts |-> Each(parts[i])])
    IN  IF HasBraces(parts) THEN <<PerPart>>
        ELSE IF IsReference(parts) /\ IsText(late[1])
             THEN LET ws == Words(TextOf(late)) IN [i \in DOMAIN ws |-> <<ws[i]>>]
        ELSE <<<<TextOf(late)>>>>

(* What a line of code may say: some of the references to what the         *)
(* document declares are left as they are.                                 *)
OfUser(parts) == {i \in DOMAIN parts : \/ parts[i].kind = "roundvar" /\ IsDeclared(parts[i].text[1])
                                       \/ parts[i].kind = "callvar" /\ IsDeclared(parts[i].text[2])}
LineTexts(parts) ==
    {TextOf(FlattenSeq([i \in DOMAIN parts |-> IF i \in left THEN <<parts[i]>> ELSE Resolved(<<parts[i]>>, TRUE)])) :
       left \in SUBSET OfUser(parts)}

(* What an item may have become. *)
Says(item, rows) ==
    CASE item.kind = "lines" -> /\ Len(rows) = Len(item.rows)
                                /\ \A i \in DOMAIN rows : rows[i] \in {<<t>> : t \in LineTexts(item.rows[i])}
      [] item.kind = "members" -> rows = FlattenSeq([i \in DOMAIN item.rows |-> Names(item.rows[i])])

(* The same of the nodes. *)
RECURSIVE NodeText(_)
NodeText(n) == CASE Kind(h, n) \in Tokens -> h.nodes[n].text
                 [] Kind(h, n) = "callvar" -> <<"$">> \o FlattenSeq([i \in DOMAIN Kids(h, n) |-> NodeText(Kids(h, n)[i])])
                 [] OTHER -> (IF Kind(h, n) \in {"line", "filename"} THEN <<>> ELSE <<"$">>)
                             \o FlattenSeq([i \in DOMAIN Kids(h, n) |-> NodeText(Kids(h, n)[i])])
NodeWords(n) == IF \E i \in DOMAIN Kids(h, n) : Kind(h, Kids(h, n)[i]) = "{"
                THEN [i \in DOMAIN Kids(h, n) |-> NodeText(Kids(h, n)[i])] ELSE <<NodeText(n)>>
Rows(list) == [i \in DOMAIN Kids(h, list) |-> NodeWords(Kids(h, list)[i])]

Done == status = "between phases" /\ phase = Len(Phases)

(* Every line of code and every name of a file has in the end the text     *)
(* that is meant by what was written, each reference in its place, and     *)
(* what nobody declares is left as it was.  It is left open whether the    *)
(* user's own variables stay references in lines of code, as in            *)
(* variables.pod:51, or have their values there, as in the code: one of    *)
(* the two stands where the reference stood, and nothing else is touched.  *)
(* (expand_vars.cpp, flatten_vars.cpp, reparse_vars.cpp)                   *)
TextKept ==
    Done => \A i \in DOMAIN doc.items :
              doc.items[i].kind # "vardecl" => Says(doc.items[i], Rows(Kids(h, Root(h))[i]))

(* An index stands for one node.  At any time every node of the document   *)
(* is where its index says and in the list that it says, and what          *)
(* expand_vars takes for done is exactly what it has visited: no node has  *)
(* the index of one that is gone.  (audit.cpp, unique_visitor.h:8)         *)
RECURSIVE Below(_)
Below(n) == {n} \union UNION {Below(k) : k \in Range(Kids(h, n))}
Agrees(n) == /\ h.nodes[n].index \in DOMAIN h.table /\ h.table[h.nodes[n].index] = n
             /\ \A i \in DOMAIN Kids(h, n) : Parent(h, Kids(h, n)[i]) = n
             /\ IsInjective(Kids(h, n))
IndexStandsForNode ==
    h.stop = "" => \A n \in Below(Root(h)) \union Range(h.symtab) :
                     Agrees(n) /\ (Marked(h, n) <=> n \in h.visited)

(* Why a document cannot be expanded.  A function nobody knows, or of a    *)
(* variable that is more than one text; texts that cannot be joined, where *)
(* a reference that is left has none before it or where all at the end are *)
(* empty; a filter of something else than the libraries a target links to, *)
(* or for which there is no last base.                                     *)
BadCall(p) == /\ p.kind = "callvar"
              /\ \/ p.text[1] \notin Functions
                 \/ IsDeclared(p.text[2]) /\ (Len(Decl(p.text[2])) # 1 \/ ~IsText(Decl(p.text[2])[1]))
BadText(parts) ==
    LET tail == {i \in DOMAIN parts : \A j \in i..Len(parts) : IsText(parts[j])}
    IN  \/ \E i \in DOMAIN parts : ~IsText(parts[i]) /\ (i = 1 \/ ~IsText(parts[i - 1]))
        \/ tail # {} /\ \A i \in tail : parts[i].text = <<>>
BadFilter(p) ==
    /\ p.kind = "filtervar" /\ p.text[1] \in DOMAIN doc.links
    /\ p.text[2] # "link" \/ Links(doc, p.text[1], p.text[3]).stop # ""
BadBody(p, late) ==
    /\ p.kind \in {"roundvar", "callvar"} /\ Resolved(<<p>>, late) # <<p>>
    /\ BadText(Resolved(<<p>>, late))
BadRow(kind, parts) ==
    LET early == Resolved(parts, FALSE)
    IN  \/ \E p \in Range(early) : BadFilter(p)
        \/ kind = "vardecl" /\ (BadText(early) \/ BadText(Resolved(parts, TRUE)))
        \/ kind # "vardecl" /\ \E p \in Range(parts) : BadBody(p, FALSE)
        \/ kind # "vardecl" /\ \E p \in Range(early) : BadBody(p, TRUE)

(* A name of a file: a value with something unresolved in it, which the    *)
(* program cannot bear; and one without a word, or with more than one in   *)
(* the middle of a name, which is reported.                                *)
Values(parts, i) == Resolved(<<parts[i]>>, FALSE)
IsExpanded(parts, i) == parts[i].kind \in {"roundvar", "callvar"} /\ Values(parts, i) # <<parts[i]>>
UnresolvedName(parts) ==
    \E i \in DOMAIN parts : IsExpanded(parts, i) /\ \E p \in Range(Values(parts, i)) : ~IsText(p)
BadName(parts) ==
    \E i \in DOMAIN parts :
      LET words == Words(TextOf(Values(parts, i)))
      IN  /\ IsExpanded(parts, i)
          /\ \/ words = <<>>
             \/ Len(words) > 1 /\ Len(parts) > 1 /\ ~(i > 1 /\ parts[i - 1].kind = "{")

RowsOf(item) == {<<item.kind, r>> : r \in Range(item.rows)}
Written == UNION {RowsOf(item) : item \in Range(doc.items)}
Asserts == \/ \E w \in Written : \E p \in Range(w[2]) : BadCall(p)
           \/ \E w \in Written : BadRow(w[1], w[2]) \/ (w[1] = "members" /\ UnresolvedName(w[2]))
Reports == \E w \in Written : w[1] = "members" /\ BadName(w[2])

FiltersInLines == \A w \in Written : w[1] # "lines" => \A p \in Range(w[2]) : p.kind # "filtervar"

(* The phases give up a document only for what is written in it, and never *)
(* pass over such a thing: an assertion ends the program, or an error is   *)
(* reported.  Nothing is said of documents that have a filter elsewhere    *)
(* than in a line of code: the manual has one in a variable and says what  *)
(* it expands to (variables.pod:72-78), and the code has an assertion      *)
(* against it.  (flatten_vars.cpp:41, reparse_vars.cpp:47,                 *)
(* expand_vars.cpp:40, expand_filtervars.cpp:16)                           *)
StopsForAReason ==
    FiltersInLines =>
      /\ status = "aborted" => Asserts
      /\ status = "failed" => Reports
      /\ Done => ~Asserts /\ ~Reports
=============================================================================
