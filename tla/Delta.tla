-------------------------------- MODULE Delta --------------------------------
(* Page trees, the delta between two of them, and both as response lines.   *)
(* A tree is a sequence of nodes [r, label, attrs, kids]; label stands for  *)
(* role, label and ops, which the code compares together.  A label or value *)
(* is a pair: its text, and whether that text holds a double quote.         *)
EXTENDS Naturals, Sequences, SequencesExt, FiniteSets

CONSTANT Lost    \* an apply or a parse that failed

Root == 0        \* Ref::ROOT, the parent of the top level

leaf(r, label) == [r |-> r, label |-> label, attrs |-> <<"", FALSE>>, kids |-> <<>>]

RefsOf(nodes) == {nodes[i].r : i \in DOMAIN nodes}
Position(nodes, r) == CHOOSE i \in DOMAIN nodes :
    nodes[i].r = r /\ \A j \in 1..(i - 1) : nodes[j].r # r

RECURSIVE Refs(_)
Refs(tree) == UNION {{tree[i].r} \cup Refs(tree[i].kids) : i \in DOMAIN tree}

-----------------------------------------------------------------------------
(* diff_children: removals, insertions with their subtrees, what changed in *)
(* the nodes that stay, and the moves of those whose rank changed.          *)
OpAdd(n, parent, pos) == [op |-> "+", r |-> n.r, parent |-> parent, pos |-> pos,
                        label |-> n.label, attrs |-> n.attrs]
OpMove(r, parent, pos) == [op |-> ">", r |-> r, parent |-> parent, pos |-> pos]
OpRemove(r) == [op |-> "-", r |-> r]
OpUpdate(n) == [op |-> "~", r |-> n.r, attrs |-> n.attrs]
OpReplace(n) == [op |-> "*", r |-> n.r, subtree |-> <<n>>]

(* A diff that leaves a changed label to the attributes.                    *)
UpdateOnly(a, b) == IF a # b THEN <<OpUpdate(b)>> ELSE <<>>

NodeOps(a, b) == IF a.label # b.label THEN <<OpReplace(b)>>
                 ELSE IF a.attrs # b.attrs THEN <<OpUpdate(b)>> ELSE <<>>

RECURSIVE diff_children(_, _, _)
diff_children(a, b, parent) ==
    LET kept(n) == n.r \in RefsOf(a) /\ n.r \in RefsOf(b)
        rank(nodes, r) == Position(SelectSeq(nodes, kept), r)
        removes == FlattenSeq([i \in DOMAIN a |->
                     IF kept(a[i]) THEN <<>> ELSE <<OpRemove(a[i].r)>>])
        adds == FlattenSeq([i \in DOMAIN b |->
                  IF kept(b[i]) THEN <<>>
                  ELSE <<OpAdd(b[i], parent, i - 1)>>
                       \o diff_children(<<>>, b[i].kids, b[i].r)])
        changes == FlattenSeq([i \in DOMAIN b |->
                     IF ~kept(b[i]) THEN <<>>
                     ELSE LET old == a[Position(a, b[i].r)] IN
                          NodeOps(old, b[i])
                          \o IF old.label # b[i].label THEN <<>>
                             ELSE diff_children(old.kids, b[i].kids, b[i].r)])
        moves == FlattenSeq([i \in DOMAIN b |->
                   IF kept(b[i]) /\ rank(a, b[i].r) # rank(b, b[i].r)
                   THEN <<OpMove(b[i].r, parent, i - 1)>> ELSE <<>>])
    IN removes \o adds \o changes \o moves

diff(a, b) == diff_children(a, b, Root)

-----------------------------------------------------------------------------
(* Applying a delta.                                                        *)
(* take_subtree: a match on this level first, then below the first node.    *)
RECURSIVE take_subtree(_, _)
take_subtree(tree, r) ==
    IF r \in RefsOf(tree) THEN RemoveAt(tree, Position(tree, r))
    ELSE IF r \notin Refs(tree) THEN tree
    ELSE LET below == SelectInSeq(tree, LAMBDA n : r \in Refs(n.kids)) IN
         [tree EXCEPT ![below].kids = take_subtree(@, r)]

RECURSIVE Taken(_, _)
Taken(tree, r) ==
    IF r \in RefsOf(tree) THEN tree[Position(tree, r)]
    ELSE Taken(tree[SelectInSeq(tree, LAMBDA n : r \in Refs(n.kids))].kids, r)

Clamp(pos, nodes) == IF pos < Len(nodes) THEN pos ELSE Len(nodes)

(* insert_at: a position past the end is the end.                           *)
RECURSIVE InsertBelow(_, _, _, _)
InsertBelow(nodes, parent, pos, n) ==
    LET i == SelectInSeq(nodes, LAMBDA m : parent \in {m.r} \cup Refs(m.kids))
        kids == nodes[i].kids
    IN [nodes EXCEPT ![i].kids =
          IF nodes[i].r = parent THEN InsertAt(kids, Clamp(pos, kids) + 1, n)
          ELSE InsertBelow(kids, parent, pos, n)]

insert_at(tree, parent, pos, n) ==
    IF parent = Root THEN InsertAt(tree, Clamp(pos, tree) + 1, n)
    ELSE IF parent \in Refs(tree) THEN InsertBelow(tree, parent, pos, n)
    ELSE Lost

(* find_mut: the first node in pre-order.                                   *)
RECURSIVE SetAttrs(_, _, _)
SetAttrs(tree, r, attrs) ==
    LET i == SelectInSeq(tree, LAMBDA n : r \in {n.r} \cup Refs(n.kids)) IN
    IF tree[i].r = r THEN [tree EXCEPT ![i].attrs = attrs]
    ELSE [tree EXCEPT ![i].kids = SetAttrs(@, r, attrs)]

(* locate: the parent of r and its position below it.                       *)
RECURSIVE locate_in_subtree(_, _, _)
locate_in_subtree(nodes, at, r) ==
    LET i == SelectInSeq(nodes, LAMBDA n : r \in {n.r} \cup Refs(n.kids)) IN
    IF nodes[i].r = r THEN <<at, i - 1>>
    ELSE locate_in_subtree(nodes[i].kids, nodes[i].r, r)

locate(tree, r) == IF r \in RefsOf(tree) THEN <<Root, Position(tree, r) - 1>>
                   ELSE locate_in_subtree(tree, Root, r)

apply_one(tree, o) ==
    IF tree = Lost \/ (o.op \notin {"-", "+"} /\ o.r \notin Refs(tree)) THEN Lost
    ELSE CASE o.op = "-" -> take_subtree(tree, o.r)
           [] o.op = "+" ->
                IF o.r \in Refs(tree) THEN Lost
                ELSE insert_at(tree, o.parent, o.pos,
                               [leaf(o.r, o.label) EXCEPT !.attrs = o.attrs])
           [] o.op = "~" -> SetAttrs(tree, o.r, o.attrs)
           [] o.op = ">" -> insert_at(take_subtree(tree, o.r), o.parent, o.pos,
                                      Taken(tree, o.r))
           [] o.op = "*" -> LET loc == locate(tree, o.r) IN
                            insert_at(take_subtree(tree, o.r), loc[1], loc[2],
                                      o.subtree[1])

apply(tree, ops) == FoldLeft(apply_one, tree, ops)

-----------------------------------------------------------------------------
(* Lines.  quote_label and quote_value write a double quote as a single     *)
(* one, so the reader gets a label back without it.                         *)
quote_label(label) == <<label[1], FALSE>>

RECURSIVE encode_node(_, _)
encode_node(n, depth) ==
    <<[s |-> "node", d |-> depth, r |-> n.r, label |-> quote_label(n.label),
       attrs |-> quote_label(n.attrs)]>>
    \o FlattenSeq([i \in DOMAIN n.kids |-> encode_node(n.kids[i], depth + 1)])

encode_tree(tree) == FlattenSeq([i \in DOMAIN tree |-> encode_node(tree[i], 0)])

encode_one(o) ==
    IF o.op = "*" THEN <<[s |-> "*", d |-> 0, r |-> o.r]>> \o encode_node(o.subtree[1], 1)
    ELSE <<[f \in (DOMAIN o \ {"op"}) \cup {"s", "d"} |->
              CASE f = "s" -> o.op
                [] f = "d" -> 0
                [] f \in {"label", "attrs"} -> quote_label(o[f])
                [] OTHER -> o[f]]>>

encode(ops) == FlattenSeq([i \in DOMAIN ops |-> encode_one(ops[i])])

(* How many of the lines after the first are indented deeper than d.        *)
Deeper(lines, d) == LET i == SelectInSeq(Tail(lines), LAMBDA l : l.d <= d) IN
                    IF i = 0 THEN Len(lines) - 1 ELSE i - 1

(* assemble: a node's children are the deeper lines that follow it.         *)
RECURSIVE assemble(_)
assemble(lines) ==
    IF lines = <<>> THEN <<>>
    ELSE LET n == Deeper(lines, Head(lines).d) IN
         <<[leaf(Head(lines).r, Head(lines).label) EXCEPT
              !.attrs = Head(lines).attrs,
              !.kids = assemble(SubSeq(lines, 2, n + 1))]>>
         \o assemble(SubSeq(lines, n + 2, Len(lines)))

(* parse_replace: the indented lines under the header.                      *)
Replaced(lines) == Deeper(lines, 0)

(* parse: a line that starts with none of the sigils is an error.           *)
RECURSIVE parse(_)
parse(lines) ==
    IF lines = <<>> THEN <<>>
    ELSE LET l == Head(lines)
             n == IF l.s = "*" THEN Replaced(lines) ELSE 0
             op == IF l.s = "*"
                   THEN [op |-> "*", r |-> l.r,
                         subtree |-> assemble(SubSeq(lines, 2, n + 1))]
                   ELSE [f \in (DOMAIN l \ {"s", "d"}) \cup {"op"} |->
                           IF f = "op" THEN l.s ELSE l[f]]
         IN <<op>> \o parse(SubSeq(lines, n + 2, Len(lines)))

(* The tree a reader of the lines can have.                                 *)
Shown(tree) == assemble(encode_tree(tree))
=============================================================================
