------------------------------ MODULE Requests ------------------------------
(* Request lines: how a request is written as one line of text and read     *)
(* back.  Text is a sequence of characters; the characters the code tells   *)
(* apart are themselves, every other run of text (a page id, a flag's name) *)
(* is one character of its own.                                             *)
EXTENDS Naturals, Sequences, SequencesExt, FiniteSets

CONSTANTS
    Primitives,   \* the names is_valid_primitive accepts
    Malformed     \* a line that is no request

Space == " "
Tab == "\t"
Newline == "\n"
Wide == "nbsp"    \* white space that is neither a space nor a tab
Quote == "\""
Back == "\\"

Special == {Space, Tab, Newline, Wide, Quote, Back, "=", "-"}

(* is_valid_primitive takes lower case letters, digits and underscores.     *)
ASSUME PrimitivesAssumption == Primitives \cap Special = {}

-----------------------------------------------------------------------------
(* Writing.                                                                 *)
Escaped(c) == CASE c = Back -> <<Back, Back>>
                [] c = Quote -> <<Back, Quote>>
                [] c = Newline -> <<Back, "n">>
                [] c = Tab -> <<Back, "t">>
                [] OTHER -> <<c>>

escape_wire(s) == FlattenSeq([i \in DOMAIN s |-> Escaped(s[i])])

(* An argument quoted only for its blanks.                                  *)
QuoteBlanks(s) == IF Contains(s, Space) THEN <<Quote>> \o s \o <<Quote>> ELSE s

quote_arg(s) == IF s = <<>> \/ Contains(s, Space) \/ Contains(s, Tab)
                THEN <<Quote>> \o s \o <<Quote>> ELSE s

Word(s) == quote_arg(escape_wire(s))

(* A flag's value is none, <<>>, or some text, <<text>>.                    *)
FlagWord(name, value) ==
    <<"-", "-">> \o name \o IF value = <<>> THEN <<>> ELSE <<"=">> \o Word(value[1])

(* A request: a primitive, arguments, and a map from names to values, which *)
(* is written in an order of its own.                                       *)
encode_request(q) ==
    LET names == SetToSeq(DOMAIN q.flags) IN
    <<q.primitive>>
      \o FlattenSeq([i \in DOMAIN q.args |-> <<Space>> \o Word(q.args[i])])
      \o FlattenSeq([i \in DOMAIN names |->
                       <<Space>> \o FlagWord(names[i], q.flags[names[i]])])

-----------------------------------------------------------------------------
(* Reading.                                                                 *)
(* The splitter after some characters: the tokens it has cut, the one it    *)
(* reads, and whether it is inside quotes or just behind a backslash.       *)
Unread == [done |-> <<>>, open |-> <<>>, quoted |-> FALSE, escaped |-> FALSE]

Cut(t) == [done |-> IF t.open = <<>> THEN t.done ELSE Append(t.done, t.open),
           open |-> <<>>, quoted |-> t.quoted, escaped |-> t.escaped]

Scanned(t, c) ==
    IF ~t.quoted /\ ~t.escaped /\ c \in {Space, Tab} THEN Cut(t)
    ELSE [done |-> t.done, open |-> Append(t.open, c),
          quoted |-> IF ~t.escaped /\ c = Quote THEN ~t.quoted ELSE t.quoted,
          escaped |-> ~t.escaped /\ c = Back]

raw_tokens(s) == Cut(FoldLeft(Scanned, Unread, s)).done

strip_quotes(s) == IF Len(s) >= 2 /\ Head(s) = Quote /\ Last(s) = Quote
                   THEN SubSeq(s, 2, Len(s) - 1) ELSE s

(* What stands behind a backslash; an unknown escape stays as it is.        *)
Unescaped(c) == CASE c \in {Back, Quote} -> <<c>>
                  [] c = "n" -> <<Newline>>
                  [] c = "t" -> <<Tab>>
                  [] OTHER -> <<Back, c>>

Copied(u, c) == IF u.escaped THEN [out |-> u.out \o Unescaped(c), escaped |-> FALSE]
                ELSE IF c = Back THEN [out |-> u.out, escaped |-> TRUE]
                ELSE [out |-> Append(u.out, c), escaped |-> FALSE]

unescape_wire(s) ==
    LET u == FoldLeft(Copied, [out |-> <<>>, escaped |-> FALSE], s)
    IN IF u.escaped THEN Append(u.out, Back) ELSE u.out

(* str::trim at the end of the line takes any white space; the first        *)
(* character is the primitive's.                                            *)
White == {Space, Tab, Wide, Newline}

trim(s) == SubSeq(s, 1, SelectLastInSeq(s, LAMBDA c : c \notin White))

(* split_once at the first equals sign.                                     *)
FlagOf(rest) ==
    LET eq == SelectInSeq(rest, LAMBDA c : c = "=") IN
    IF eq = 0 THEN [name |-> rest, value |-> <<>>]
    ELSE [name |-> SubSeq(rest, 1, eq - 1),
          value |-> <<unescape_wire(strip_quotes(SubSeq(rest, eq + 1, Len(rest))))>>]

IsFlag(token) == Len(token) >= 2 /\ token[1] = "-" /\ token[2] = "-"

insert(map, name, value) ==
    [n \in DOMAIN map \cup {name} |-> IF n = name THEN value ELSE map[n]]

(* One more token: an argument, or a flag, of whose values the last counts. *)
Parsed(q, token) ==
    IF IsFlag(token)
    THEN LET f == FlagOf(SubSeq(token, 3, Len(token)))
         IN [q EXCEPT !.flags = insert(@, f.name, f.value)]
    ELSE [q EXCEPT !.args = Append(@, unescape_wire(strip_quotes(token)))]

NoFlags == [name \in {} |-> <<>>]

parse_request(line) ==
    LET tokens == raw_tokens(trim(line)) IN
    IF tokens = <<>> \/ \A p \in Primitives : Head(tokens) # <<p>> THEN Malformed
    ELSE LET q == FoldLeft(Parsed, [primitive |-> Head(tokens)[1], args |-> <<>>,
                                    flags |-> NoFlags], Tail(tokens))
         IN IF <<>> \in DOMAIN q.flags THEN Malformed ELSE q
=============================================================================
