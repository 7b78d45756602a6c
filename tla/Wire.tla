-------------------------------- MODULE Wire --------------------------------
(* A page and an agent at the two ends of a connection: the page changes on *)
(* its own, the daemon answers with views and deltas against the tree it    *)
(* took last, and the agent keeps a copy of the page's tree from them.      *)
EXTENDS Delta, Connection

CONSTANT MaxEdits     \* bound: how often the page changes

ASSUME WireAssumption == MaxEdits \in Nat

VARIABLES
    page,      \* the page's tree
    edits,     \* how often it changed
    seen,      \* PageState.last_tree, Lost before the first snapshot
    full,      \* PageState.force_full
    since,     \* the kinds of edit since seen was taken, in order
    shown,     \* the lines of the view or delta on its way
    mirror,    \* the agent's copy, Lost if it has none
    synced     \* no change was kept from the agent since its last full view,
               \* and no delta had to express what diff cannot

agentVars == <<mirror, synced>>
baseVars == <<seen, full, since>>
pageVars == <<page, edits>>
vars == <<pageVars, baseVars, shown, agentVars, connectionVars>>

Plain == <<"a", FALSE>>
Quoted == <<"a", TRUE>>
FirstPage == <<[leaf(1, Plain) EXCEPT !.kids = <<leaf(2, Quoted),
                 [leaf(3, Plain) EXCEPT !.kids = <<leaf(4, Plain)>>]>>]>>

NextPage == <<leaf(1, Quoted), leaf(2, Plain)>>

Init == /\ ConnectionInit
        /\ page = FirstPage /\ edits = 0
        /\ seen = Lost /\ full = TRUE /\ since = <<>>
        /\ shown = <<>> /\ mirror = Lost /\ synced = FALSE

-----------------------------------------------------------------------------
(* The page changes: nodes keep their refs for as long as they exist, and   *)
(* the document may be replaced, by a click on a link or by itself, by one  *)
(* whose refs start from 1 again and which is compared with the old tree    *)
(* all the same.  Before the first request, and on a connection out of      *)
(* step, a change would show nothing new.                                   *)
Below(tree, r) == {r} \cup Refs(Taken(tree, r).kids)

(* A new node has the label that is harder to carry.                        *)
Inserted == {insert_at(page, p, i, leaf(edits + 5, Quoted)) :
               p \in Refs(page), i \in 0..2}

Removed == {take_subtree(page, r) : r \in Refs(page) \ {1}}

RECURSIVE Relabel(_, _)
Relabel(tree, r) == [i \in DOMAIN tree |->
    IF tree[i].r = r THEN [tree[i] EXCEPT !.label = IF @ = Plain THEN <<"b", FALSE>> ELSE Plain]
    ELSE [tree[i] EXCEPT !.kids = Relabel(@, r)]]

Relabelled == {Relabel(page, r) : r \in Refs(page)}

Reattributed == {SetAttrs(page, r, <<"v", TRUE>>) : r \in Refs(page)}

Parent(r) == locate(page, r)[1]

Placed(r, p, i) == insert_at(take_subtree(page, r), p, i, Taken(page, r))

Reordered == {Placed(r, Parent(r), i) : r \in Refs(page) \ {1}, i \in 0..2}

Reparented == UNION {{Placed(r, p, 0) : p \in Refs(page) \ (Below(page, r) \cup {Parent(r)})} :
                       r \in Refs(page) \ {1}}

Documents == {FirstPage, NextPage}

Edit(kind, pages) == /\ phase = "idle" /\ edits < MaxEdits
                     /\ ~torn /\ calls > 0
                     /\ page' \in pages \ {page}
                     /\ edits' = edits + 1
                     /\ since' = Append(since, kind)
                     /\ UNCHANGED <<seen, full, shown, agentVars, connectionVars>>

PageChanges == \/ Edit("insert", Inserted) \/ Edit("remove", Removed)
               \/ Edit("label", Relabelled) \/ Edit("attrs", Reattributed)
               \/ Edit("order", Reordered) \/ Edit("parent", Reparented)
               \/ Edit("document", Documents)

-----------------------------------------------------------------------------
(* Requests, of which those that do not look at the page are sent before it *)
(* changes.                                                                 *)
Views == {q \in PageRequests : q.primitive = "vs_view"}

Quietly == UNCHANGED <<pageVars, baseVars, shown, agentVars>>

SendView == Quietly /\ \E q \in Views : Send(q, <<>>)
SendOther == /\ Quietly /\ edits = 0
             /\ \E q \in CommandRequests \ Views : \E text \in Sayable(q) : Send(q, text)

-----------------------------------------------------------------------------
(* PageState::apply_snapshot: nothing new, all of the page, or a delta.     *)
ViewForm(force) ==
    IF ~force /\ seen = page THEN <<>>
    ELSE IF force \/ seen = Lost THEN encode_tree(page)
    ELSE encode(diff(seen, page))

(* What a request does to the page's baseline.                              *)
Kept == UNCHANGED <<pageVars, baseVars, synced>>

(* A delta can say what was inserted, removed, relabelled and given new     *)
(* attributes, and a single change of order; not that a ref is another      *)
(* document's.                                                              *)
Expressible == \/ \A i \in DOMAIN since : since[i] \notin {"order", "parent", "document"}
               \/ since = <<"order">>

(* view, act and the cursor operations answer with what they took.          *)
Shows(force) == /\ seen' = page /\ full' = FALSE /\ since' = <<>>
                /\ synced' = (force \/ (synced /\ Expressible))
                /\ UNCHANGED pageVars

(* wait, and the fills of a prompt, take a snapshot and answer without it.  *)
Swallows == /\ seen' = page /\ full' = FALSE /\ since' = <<>>
            /\ synced' = (synced /\ ~full /\ seen = page)
            /\ UNCHANGED pageVars

(* A goto that leaves the next view a delta.                                *)
GoesQuietly == /\ page' \in Documents /\ seen' = page' /\ since' = <<>>
               /\ UNCHANGED <<edits, full, synced>>

(* navigate: another document, and the next view is a full one.             *)
Goes == /\ page' \in Documents /\ seen' = page' /\ since' = <<>>
        /\ full' = TRUE
        /\ UNCHANGED <<edits, synced>>

(* set_viewport; auth load, whose page the next view shows in full.         *)
Resizes == seen' = page /\ full' = TRUE /\ since' = <<>> /\ UNCHANGED <<pageVars, synced>>
Invalidates == full' = TRUE /\ UNCHANGED <<pageVars, seen, since, synced>>

Swallowing == {"vs_wait", "vs_prompt_input_queue", "vs_prompt_form_wait"}

Rebases(q, body, force) ==
    CASE body = "form" -> Shows(force)
      [] q.primitive \in Swallowing -> Swallows
      [] q.primitive = "vs_goto" -> Goes
      [] q.primitive = "vs_viewport" -> Resizes
      [] q.primitive = "vs_auth" /\ "load" \in ToSet(q.args) -> Invalidates
      [] OTHER -> Kept

(* A view, a delta or no change: as many lines of form as it takes, or more *)
(* if one of its labels is broken over lines.                               *)
Unbroken(body) == \A i \in DOMAIN body : body[i].k = "form"

Answers(q, need) ==
    LET force == full \/ (q.primitive = "vs_view" /\ "full" \in q.flags)
        lines == IF need.body = "form" THEN ViewForm(force) ELSE <<>>
    IN /\ \E body \in Bodies(need.body) :
            /\ need.body = "form" =>
                 IF Unbroken(body) THEN Len(body) = Len(lines) ELSE lines # <<>>
            /\ Succeeds(need, body)
       /\ Rebases(q, need.body, force)
       /\ shown' = lines
       /\ UNCHANGED mirror

RefusesPage == Refuses /\ Kept /\ UNCHANGED <<shown, mirror>>

ServePage == /\ Arrives
             /\ RefusesPage \/ \E need \in Understood : Answers(ShapeOf(got'), need)

-----------------------------------------------------------------------------
HasForm(q) == \E need \in dispatch[q.primitive] : need.body = "form"

(* The agent's copy after a body: a full view, a delta, or no change.  A    *)
(* broken line is none of a view or a delta.                                *)
Updated(body) ==
    CASE body = <<>> -> mirror
      [] \E i \in DOMAIN body : body[i] # Line("form") -> Lost
      [] OTHER -> IF shown[1].s = "node" THEN assemble(shown)
                  ELSE apply(mirror, parse(shown))

(* A call: what it read is what the agent goes by.                          *)
ReceivePage ==
    /\ Receive
    /\ mirror' = IF HasForm(asked) /\ Reading.result = "ok"
                 THEN Updated(Reading.body) ELSE mirror
    /\ synced' = (synced /\ ~(HasForm(asked) /\ (torn \/ ~Unbroken(Reading.body))))
    /\ UNCHANGED <<pageVars, baseVars, shown>>

(* The next call, on this connection or another.                            *)
NextCall == /\ GoesOn \/ Disconnect
            /\ shown' = <<>>
            /\ UNCHANGED <<pageVars, baseVars, agentVars>>

LosePage == /\ Lose
            /\ synced' = (synced /\ ~HasForm(asked))
            /\ UNCHANGED <<pageVars, baseVars, shown, mirror>>

(* The daemon comes back with the page dormant.                             *)
RestartPage == /\ Restart
               /\ seen' = Lost /\ full' = TRUE /\ since' = <<>> /\ shown' = <<>>
               /\ synced' = (synced /\ ~(phase = "served" /\ HasForm(asked)))
               /\ UNCHANGED <<pageVars, mirror>>

Next == PageChanges \/ SendView \/ SendOther \/ ServePage \/ ReceivePage
        \/ NextCall \/ LosePage \/ RestartPage

Spec == Init /\ [][Next]_vars

-----------------------------------------------------------------------------
PageTypeOK ==
    /\ edits \in 0..MaxEdits
    /\ {full, synced} \subseteq BOOLEAN
    /\ seen = Lost \/ Refs(seen) \subseteq 1..(MaxEdits + 4)
    /\ Len(since) <= MaxEdits

(* An agent that is shown the page has it: after the answer to a view, an   *)
(* act or a cursor operation, the copy it keeps from full views and deltas  *)
(* is the tree the daemon compares the next snapshot with, except for the   *)
(* double quotes the format does not carry.  That is, until the next full   *)
(* view, unless an answer was lost or had a label broken over lines, a wait *)
(* or a prompt took a change away, nodes changed places in a way diff does  *)
(* not express, or a click or a script replaced the document, whose refs    *)
(* are then taken for those of the old one.                                 *)
MirrorFollows ==
    /\ PageTypeOK
    /\ phase = "done" /\ synced /\ answer.result = "ok" /\ HasForm(asked)
       => mirror = Shown(seen)

(* delta/diff.rs 8-9: applying diff(a, b) to a gives b, "modulo position    *)
(* resolution": the same nodes, each below the same parent; here for two    *)
(* trees of one document.                                                   *)
DeltaExact ==
    seen # Lost /\ "document" \notin ToSet(since) =>
      LET copy == apply(seen, diff(seen, page)) IN
      /\ copy # Lost /\ Refs(copy) = Refs(page)
      /\ \A r \in Refs(page) : locate(copy, r)[1] = locate(page, r)[1]
=============================================================================
