------------------------------- MODULE WebInput ------------------------------
(***************************************************************************)
(* Input the engine backends synthesize: clicks on elements, the pointer   *)
(* primitives and typing.  The macOS backend hands events to the view, the *)
(* Windows one to the controller (mouse) and DevTools (keys), the Linux    *)
(* one to the X server, whose keymap it borrows a keycode of.  A native    *)
(* call may fail at any step, and the job then returns where it is.        *)
(***************************************************************************)
EXTENDS Naturals, Sequences, Backend

CONSTANTS
    Points,      \* where the pointer can be
    Chars,       \* characters to type; 0 is no character
    MaxText,     \* bound: characters per type_text
    MaxInputs    \* bound: input jobs

ASSUME WebInputAssumption ==
    MaxText \in Nat /\ MaxInputs \in Nat /\ Points # {} /\ 0 \notin Chars

VARIABLES
    act,      \* the input job
    ptr,      \* where the page last saw the pointer
    last,     \* last_mouse
    btn,      \* the left button is down
    keymap,   \* what the borrowed keycode means to the X server; 0: nothing
    scratch,  \* XtestDispatcher.scratch: 0 none, else what it is bound to
    typed,    \* the characters the page was sent by the current type_text
    clicked,  \* where the last click on a ref went, and whether it answered Ok
    broken,   \* native calls that failed: "mouse", "keymap"
    ninputs

inputVars == <<act, ptr, last, btn, keymap, scratch, typed, clicked, broken, ninputs>>

(* Elements a ref can name: in the document and to be seen, under another   *)
(* one, or of no size; in a shadow root, or gone.                           *)
Elements == {"plain", "covered", "hidden", "shadow", "gone"}

(* A click on a ref has an element el.  It is what lies topmost where its   *)
(* centre was (top) or something else is; something else was at some time   *)
(* of the click (veiled); the events hit it so far (hit).                   *)
Resting == [pc |-> "idle", kind |-> "", from |-> 0, to |-> 0, text |-> <<>>, want |-> <<>>,
            el |-> "none", top |-> FALSE, veiled |-> FALSE, hit |-> FALSE]

Texts == UNION {[1..n -> Chars] : n \in 0..MaxText}

InitInput ==
    /\ act = Resting
    /\ ptr \in Points /\ last = ptr
    /\ btn = FALSE /\ keymap = 0 /\ scratch = 0
    /\ typed = <<>> /\ clicked = <<>> /\ broken = {} /\ ninputs = 0

StartInput == act = Resting /\ ninputs < MaxInputs /\ ninputs' = ninputs + 1

(* The job returns an error; what it did stays done.                        *)
Give(what) == act' = Resting /\ broken' = broken \cup {what}

-----------------------------------------------------------------------------
(* click on a ref.  The script finds a ref inside shadow roots too.         *)
run_act(el) == IF el = "gone" THEN "gone" ELSE el

(* A click that is over at once.                                            *)
ByScript(el, ok) ==
    /\ clicked' = [on |-> run_act(el), ok |-> ok, want |-> el, veiled |-> FALSE]
    /\ UNCHANGED <<act, ptr, last, btn, keymap, scratch, typed, broken>>

(* A click of the pointer, on where the element's centre is.                *)
ByPointer(el) ==
    /\ clicked' = <<>>
    /\ \E centre \in Points :
         act' = [Resting EXCEPT !.pc = "path", !.kind = "ref", !.to = centre, !.el = el,
                                !.top = (el = "plain"), !.veiled = (el = "covered")]
    /\ UNCHANGED <<ptr, last, btn, keymap, scratch, typed, broken>>

(* Mutant: an element without a box is clicked natively all the same.       *)
ActWkBlind(el) ==
    /\ platform = "webkit" /\ StartInput
    /\ IF el \in {"shadow", "gone"} THEN ByScript(el, FALSE) ELSE ByPointer(el)

(* macOS looks the element up in the document alone, clicks where it is,    *)
(* and leaves an element without a box to the script, which may fail.       *)
ActWk(el) ==
    /\ platform = "webkit" /\ StartInput
    /\ \/ el \in {"shadow", "gone"} /\ ByScript("gone", FALSE)
       \/ el = "hidden" /\ \E ok \in BOOLEAN : ByScript(el, ok)
       \/ el \in {"plain", "covered"} /\ ByPointer(el)

ActJs(el) ==
    /\ platform # "webkit" /\ StartInput
    /\ \E ok \in BOOLEAN : ByScript(el, ok /\ el # "gone")

(* The page lays out anew while the engine pumps its loop between events.   *)
LayoutShift ==
    /\ act.kind = "ref" /\ act.pc \in {"path", "press", "release"}
    /\ \E top \in BOOLEAN :
         top # act.top /\ act' = [act EXCEPT !.top = top, !.veiled = @ \/ ~top]
    /\ UNCHANGED <<ptr, last, btn, keymap, scratch, typed, clicked, broken, ninputs>>

(* click_at_rect: moves towards the centre, then both events are made       *)
(* before the first is sent.                                                *)
click_at_rect ==
    /\ act.kind = "ref" /\ act.pc = "path"
    /\ \/ ptr' \in Points /\ act' = [act EXCEPT !.pc = "press"] /\ UNCHANGED broken
       \/ ptr' \in Points /\ Give("mouse")
    /\ UNCHANGED <<last, btn, keymap, scratch, typed, clicked, ninputs>>

-----------------------------------------------------------------------------
(* The pointer: a move, a click at a point, a drag.  macOS presses where a  *)
(* drag starts; the others move there first.                                *)
cursor_op ==
    /\ StartInput
    /\ \E k \in {"move", "click", "drag"}, a \in Points, b \in Points :
         /\ k # "drag" => a = last
         /\ act' = [Resting EXCEPT !.kind = k, !.from = a, !.to = b,
                                   !.pc = IF k = "drag" /\ platform # "webkit" THEN "lead"
                                          ELSE IF k = "drag" THEN "press" ELSE "path"]
    /\ UNCHANGED <<ptr, last, btn, keymap, scratch, typed, clicked, broken>>

(* A path of moves to p; it may stop anywhere on the way.                   *)
Path(p, next) ==
    \/ ptr' = p /\ act' = [act EXCEPT !.pc = next] /\ UNCHANGED broken
    \/ ptr' \in Points /\ Give("mouse")

AfterPath == IF act.kind = "move" THEN "landed" ELSE IF act.kind = "drag" THEN "release" ELSE "press"

move_along_path ==
    /\ platform = "webkit" /\ act.pc = "path" /\ act.kind # "ref"
    /\ Path(act.to, AfterPath)
    /\ UNCHANGED <<last, btn, keymap, scratch, typed, clicked, ninputs>>

cursor_move_along_path ==
    /\ platform = "wpe"
    /\ \/ act.pc = "lead" /\ Path(act.from, "press")
       \/ act.pc = "path" /\ Path(act.to, AfterPath)
    /\ UNCHANGED <<last, btn, keymap, scratch, typed, clicked, ninputs>>

wv2_move_along_path ==
    /\ platform = "webview2"
    /\ \/ act.pc = "lead" /\ Path(act.from, "press")
       \/ act.pc = "path" /\ Path(act.to, AfterPath)
    /\ UNCHANGED <<last, btn, keymap, scratch, typed, clicked, ninputs>>

(* Down at the start of a drag or at a click's target, on what lies there.  *)
Press(p) ==
    /\ platform = p /\ act.pc = "press"
    /\ \/ /\ btn' = TRUE
          /\ ptr' = IF act.kind = "drag" THEN act.from ELSE act.to
          /\ act' = [act EXCEPT !.pc = IF act.kind = "drag" THEN "path" ELSE "release",
                                !.hit = act.top]
          /\ UNCHANGED broken
       \/ Give("mouse") /\ UNCHANGED <<btn, ptr>>
    /\ UNCHANGED <<last, keymap, scratch, typed, clicked, ninputs>>

PressWk == Press("webkit")
PressWpe == Press("wpe")
PressW2 == Press("webview2")

(* Mutant: a drag ends without letting go.                                  *)
ReleaseForgotten(p) ==
    /\ platform = p /\ act.pc = "release"
    /\ btn' = (act.kind = "drag")
    /\ act' = [act EXCEPT !.pc = "landed", !.hit = @ /\ act.top]
    /\ UNCHANGED <<broken, ptr, last, keymap, scratch, typed, clicked, ninputs>>

(* A click goes to what both its events hit.  The release of a click on a   *)
(* ref was made with its press and does not fail.                           *)
Release(p) ==
    /\ platform = p /\ act.pc = "release"
    /\ \/ /\ btn' = FALSE /\ UNCHANGED broken
          /\ act' = [act EXCEPT !.pc = "landed", !.hit = @ /\ act.top]
       \/ act.kind # "ref" /\ Give("mouse") /\ UNCHANGED btn
    /\ UNCHANGED <<ptr, last, keymap, scratch, typed, clicked, ninputs>>

ReleaseWk == Release("webkit")
ReleaseWpe == Release("wpe")
ReleaseW2 == Release("webview2")

(* The HTML5 drag events, and where the next path starts.                   *)
Landed ==
    /\ act.pc = "landed"
    /\ last' = act.to
    /\ act' = Resting
    /\ clicked' = IF act.kind # "ref" THEN clicked
                  ELSE [on |-> IF act.hit THEN act.el ELSE "other", ok |-> TRUE,
                        want |-> act.el, veiled |-> act.veiled]
    /\ UNCHANGED <<ptr, btn, keymap, scratch, typed, broken, ninputs>>

-----------------------------------------------------------------------------
type_text ==
    /\ StartInput
    /\ \E t \in Texts : act' = [Resting EXCEPT !.pc = "down", !.kind = "type", !.text = t, !.want = t]
    /\ typed' = <<>>
    /\ UNCHANGED <<ptr, last, btn, keymap, scratch, clicked, broken>>

(* Mutant: once a keycode is borrowed it is not bound again.                *)
bindOnce ==
    /\ platform = "wpe" /\ act.pc = "down" /\ act.text # <<>>
    /\ scratch # Head(act.text)
    /\ keymap' = (IF keymap = 0 THEN Head(act.text) ELSE keymap)
    /\ scratch' = Head(act.text)
    /\ UNCHANGED <<act, broken, ptr, last, btn, typed, clicked, ninputs>>

(* On Linux a character first takes the borrowed keycode.  The change is    *)
(* made before the dispatcher notes it.                                     *)
bind ==
    /\ platform = "wpe" /\ act.pc = "down" /\ act.text # <<>>
    /\ scratch # Head(act.text)
    /\ \/ /\ keymap' = Head(act.text) /\ scratch' = Head(act.text)
          /\ UNCHANGED <<act, broken>>
       \/ /\ keymap' \in {keymap, Head(act.text)}
          /\ act' = [act EXCEPT !.pc = "end", !.text = <<>>]
          /\ broken' = broken \cup (IF keymap' = keymap THEN {"key"} ELSE {"keymap"})
          /\ UNCHANGED scratch
    /\ UNCHANGED <<ptr, last, btn, typed, clicked, ninputs>>

(* One character, down and up; or the call fails and the rest is not typed. *)
Key(p) ==
    /\ platform = p /\ act.pc = "down"
    /\ p = "wpe" /\ act.text # <<>> => scratch = Head(act.text)
    /\ IF act.text = <<>>
       THEN act' = [act EXCEPT !.pc = "end"] /\ UNCHANGED <<typed, broken>>
       ELSE \/ /\ typed' = Append(typed, IF platform = "wpe" THEN keymap ELSE Head(act.text))
               /\ act' = [act EXCEPT !.text = Tail(@)]
               /\ UNCHANGED broken
            \/ /\ act' = [act EXCEPT !.pc = "end", !.text = <<>>]
               /\ broken' = broken \cup {"key"}
               /\ UNCHANGED typed
    /\ UNCHANGED <<ptr, last, btn, keymap, scratch, clicked, ninputs>>

KeyWk == Key("webkit")
KeyWpe == Key("wpe")
KeyW2 == Key("webview2")

(* Mutant: a failed run returns before the keycode is handed back.          *)
end_typingOnlyOk ==
    /\ act.pc = "end"
    /\ act' = Resting
    /\ IF "key" \in broken THEN UNCHANGED <<keymap, scratch>>
       ELSE keymap' = 0 /\ scratch' = 0
    /\ UNCHANGED <<broken, ptr, last, btn, typed, clicked, ninputs>>

(* The keycode goes back whether typing ended or failed.                    *)
end_typing ==
    /\ act.pc = "end"
    /\ scratch' = 0
    /\ act' = Resting
    /\ \/ keymap' = (IF scratch # 0 THEN 0 ELSE keymap) /\ UNCHANGED broken
       \/ scratch # 0 /\ UNCHANGED keymap /\ broken' = broken \cup {"keymap"}
    /\ UNCHANGED <<ptr, last, btn, typed, clicked, ninputs>>

NextInput ==
    \/ \E el \in Elements : ActWk(el) \/ ActJs(el)
    \/ LayoutShift \/ click_at_rect
    \/ cursor_op \/ move_along_path \/ cursor_move_along_path \/ wv2_move_along_path
    \/ PressWk \/ PressWpe \/ PressW2 \/ ReleaseWk \/ ReleaseWpe \/ ReleaseW2 \/ Landed
    \/ type_text \/ bind \/ KeyWk \/ KeyWpe \/ KeyW2 \/ end_typing

-----------------------------------------------------------------------------
(* Inductive invariants.  Types: a job that rests is the resting job, and   *)
(* only type_text types.                                                    *)
InputJobs ==
    [pc : {"idle", "lead", "path", "press", "release", "landed", "down", "end"},
     kind : {"", "move", "click", "drag", "type", "ref"}, from : Points \cup {0},
     to : Points \cup {0}, text : Seq(Chars), want : Seq(Chars),
     el : Elements \cup {"none"}, top : BOOLEAN, veiled : BOOLEAN, hit : BOOLEAN]

TypeInput ==
    /\ act \in InputJobs
    /\ act.pc = "idle" => act = Resting
    /\ act.pc \in {"down", "end"} <=> act.kind = "type"
    /\ btn \in BOOLEAN /\ typed \in Seq(Chars)

(* Unless a call failed the button is down from the press to the release,   *)
(* and a job lands where it was sent.                                       *)
PointerInv == "mouse" \notin broken =>
    /\ act.pc = "path" => (btn <=> act.kind = "drag")
    /\ act.pc = "release" => ptr = act.to
    /\ act.pc = "landed" => ~btn /\ ptr = act.to
    /\ act.pc \in {"lead", "press"} => ~btn
    /\ act.pc \in {"idle", "down", "end"} => ~btn /\ last = ptr

(* An element that nothing else was over so far is topmost, and was hit.    *)
HitInv == act.kind = "ref" /\ ~act.veiled =>
    act.top /\ (act.pc \in {"release", "landed"} => act.hit)

(* Only macOS clicks a ref with the pointer.                                *)
RefInv == act.kind = "ref" => platform = "webkit"

(* The dispatcher knows what it borrowed: between texts nothing, within one *)
(* what the keycode means, and it is right unless a change of it failed.    *)
KeycodeInv ==
    /\ act.pc \notin {"down", "end"} => scratch = 0
    /\ act.pc = "down" /\ scratch # 0 => keymap = scratch
    /\ "keymap" \notin broken => keymap = scratch

(* What was typed is the beginning of the text, and what is left to type is *)
(* the rest, or nothing once a call has failed.                             *)
TypedInv == act.kind = "type" =>
    /\ Len(typed) + Len(act.text) <= Len(act.want)
    /\ \A i \in 1..Len(typed) : typed[i] = act.want[i]
    /\ \A i \in 1..Len(act.text) : act.text[i] = act.want[Len(typed) + i]

(* Paths start and end at points.                                           *)
InputLimits ==
    /\ ptr \in Points /\ ninputs \in 0..MaxInputs
    /\ act.pc \in {"lead", "path", "press", "release", "landed"} =>
         act.to \in Points /\ (act.kind # "ref" => act.from \in Points)

=============================================================================
