---------------------------- MODULE WebPageProofs ----------------------------
(***************************************************************************)
(* What holds of WebPage, the engine backends below a job, for any number  *)
(* of web views, navigations, documents, databases, cookies and            *)
(* characters, on every platform.                                          *)
(***************************************************************************)
EXTENDS WebPage, TLAPS, FiniteSetTheorems, WellFoundedInduction

-----------------------------------------------------------------------------
(* Input.                                                                   *)

(* The job that rests.                                                      *)
LEMMA RestingJob ==
  /\ Resting \in InputJobs
  /\ Resting.pc = "idle" /\ Resting.kind = "" /\ Resting.text = <<>>
  <1>1. <<>> \in Seq(Chars)
    OBVIOUS
  <1> QED BY <1>1 DEF Resting, InputJobs

(* The fields of a job.                                                     *)
LEMMA JobFields ==
  ASSUME act \in InputJobs
  PROVE  /\ act.kind \in {"", "move", "click", "drag", "type", "ref"}
         /\ act.text \in Seq(Chars) /\ act.want \in Seq(Chars)
  BY DEF InputJobs

(* A job goes on.                                                           *)
LEMMA PcChanges ==
  ASSUME act \in InputJobs, NEW pc \in {"press", "path", "release", "landed", "end"},
         act' = [act EXCEPT !.pc = pc]
  PROVE  /\ act' \in InputJobs /\ act'.pc = pc /\ act'.kind = act.kind
         /\ act'.from = act.from /\ act'.to = act.to
         /\ act'.text = act.text /\ act'.want = act.want
         /\ act'.el = act.el /\ act'.top = act.top /\ act'.veiled = act.veiled
         /\ act'.hit = act.hit
  BY DEF InputJobs

(* A button goes down or up on what lies there.                             *)
LEMMA HitChanges ==
  ASSUME act \in InputJobs, NEW pc \in {"path", "release", "landed"}, NEW h \in BOOLEAN,
         act' = [act EXCEPT !.pc = pc, !.hit = h]
  PROVE  /\ act' \in InputJobs /\ act'.pc = pc /\ act'.kind = act.kind
         /\ act'.from = act.from /\ act'.to = act.to
         /\ act'.text = act.text /\ act'.want = act.want
         /\ act'.el = act.el /\ act'.top = act.top /\ act'.veiled = act.veiled
         /\ act'.hit = h
  BY DEF InputJobs

(* A job has less text left, or none because a call failed.                 *)
LEMMA TextChanges ==
  ASSUME act \in InputJobs, NEW t \in Seq(Chars),
         \/ act' = [act EXCEPT !.text = t]
         \/ act' = [act EXCEPT !.pc = "end", !.text = t]
  PROVE  /\ act' \in InputJobs /\ act'.pc \in {act.pc, "end"} /\ act'.kind = act.kind
         /\ act'.text = t /\ act'.want = act.want
         /\ act' = [act EXCEPT !.pc = "end", !.text = t] => act'.pc = "end"
         /\ act' = [act EXCEPT !.text = t] => act'.pc = act.pc
  BY DEF InputJobs

(* Nothing has been done yet.                                               *)
LEMMA InputStarts == InitInput => InputInv
  <1> SUFFICES ASSUME InitInput PROVE InputInv
    OBVIOUS
  <1>1. TypeInput
    <2>1. <<>> \in Seq(Chars)
      OBVIOUS
    <2> QED BY <2>1, RestingJob DEF InitInput, TypeInput
  <1>2. PointerInv /\ KeycodeInv /\ TypedInv /\ HitInv /\ RefInv /\ ClickReaches
    BY RestingJob DEF InitInput, PointerInv, KeycodeInv, TypedInv, HitInv, RefInv, ClickReaches
  <1> QED BY <1>1, <1>2 DEF InputInv

(* A native call fails: whatever the pointer was at, the job rests.         *)
LEMMA GiveKeeps ==
  ASSUME InputInv, UNCHANGED platform, act.kind # "type", Give("mouse"),
         btn' \in BOOLEAN, UNCHANGED <<keymap, scratch, typed, clicked>>
  PROVE  InputInv'
  BY RestingJob DEF InputInv, Give, TypeInput, PointerInv, KeycodeInv, TypedInv, HitInv, RefInv, ClickReaches

(* A click by the script hits its element, one that finds none says so.     *)
LEMMA ScriptKeeps ==
  ASSUME InputInv, UNCHANGED platform, NEW el \in Elements, NEW ok \in BOOLEAN,
         ByScript(el, ok), ok => el # "gone"
  PROVE  InputInv'
  <1>1. clicked'.ok => clicked'.on = clicked'.want
    BY DEF ByScript, run_act
  <1>2. UNCHANGED <<act, ptr, last, btn, keymap, scratch, typed, broken>>
    BY DEF ByScript
  <1>3. TypeInput' /\ PointerInv' /\ HitInv' /\ RefInv' /\ KeycodeInv' /\ TypedInv'
    BY <1>2 DEF InputInv, TypeInput, PointerInv, HitInv, RefInv, KeycodeInv, TypedInv, Resting
  <1> QED BY <1>1, <1>3 DEF InputInv, ClickReaches

(* A click by the pointer starts with the button up.                        *)
LEMMA PointerClickKeeps ==
  ASSUME InputInv, UNCHANGED platform, NEW el \in {"plain", "covered"}, ByPointer(el),
         platform = "webkit", act = Resting
  PROVE  InputInv'
  <1>1. PICK centre \in Points :
             act' = [Resting EXCEPT !.pc = "path", !.kind = "ref", !.to = centre, !.el = el,
                                    !.top = (el = "plain"), !.veiled = (el = "covered")]
    BY DEF ByPointer
  <1>2. /\ act'.pc = "path" /\ act'.kind = "ref" /\ act'.top = (el = "plain")
        /\ act'.veiled = (el = "covered")
    BY <1>1 DEF Resting
  <1>3. act' \in InputJobs
    <2>1. ASSUME NEW t \in BOOLEAN, NEW v \in BOOLEAN, NEW e \in Elements
          PROVE  [Resting EXCEPT !.pc = "path", !.kind = "ref", !.to = centre, !.el = e,
                                 !.top = t, !.veiled = v] \in InputJobs
      BY RestingJob DEF InputJobs
    <2>2. (el = "plain") \in BOOLEAN /\ (el = "covered") \in BOOLEAN /\ el \in Elements
      BY DEF Elements
    <2> QED BY <1>1, <2>1, <2>2
  <1>4. /\ clicked' = <<>> /\ act.pc = "idle"
        /\ UNCHANGED <<ptr, last, btn, keymap, scratch, typed, broken>>
    BY RestingJob DEF ByPointer
  <1>5. TypeInput' /\ KeycodeInv' /\ TypedInv'
    BY <1>2, <1>3, <1>4 DEF InputInv, TypeInput, KeycodeInv, TypedInv
  <1>6. PointerInv' /\ HitInv' /\ RefInv' /\ ClickReaches'
    BY <1>2, <1>4 DEF InputInv, TypeInput, PointerInv, HitInv, RefInv, ClickReaches
  <1> QED BY <1>5, <1>6 DEF InputInv

(* Clicks on elements.                                                      *)
LEMMA ActKeeps ==
  ASSUME InputInv, UNCHANGED platform, NEW el \in Elements, ActWk(el) \/ ActJs(el)
  PROVE  InputInv'
  <1>1. act = Resting
    BY DEF ActWk, ActJs, StartInput
  <1>2. CASE ActWk(el)
    <2>1. "gone" \in Elements
      BY DEF Elements
    <2> QED BY <1>1, <1>2, <2>1, ScriptKeeps, PointerClickKeeps DEF ActWk
  <1>3. CASE ActJs(el)
    <2>1. PICK ok \in BOOLEAN : ByScript(el, ok /\ el # "gone")
      BY <1>3 DEF ActJs
    <2>2. (ok /\ el # "gone") \in BOOLEAN
      OBVIOUS
    <2> QED BY <2>1, <2>2, ScriptKeeps
  <1> QED BY <1>2, <1>3

(* While the pointer is on its way the page may lay out anew.               *)
LEMMA ShiftKeeps ==
  ASSUME InputInv, UNCHANGED platform, LayoutShift
  PROVE  InputInv'
  <1>1. PICK top \in BOOLEAN :
             act' = [act EXCEPT !.top = top, !.veiled = act.veiled \/ ~top]
    BY DEF LayoutShift
  <1>2. /\ act \in InputJobs /\ act.veiled \in BOOLEAN
        /\ UNCHANGED <<ptr, last, btn, keymap, scratch, typed, clicked, broken>>
    BY DEF LayoutShift, InputInv, TypeInput, InputJobs
  <1>3. (act.veiled \/ ~top) \in BOOLEAN
    OBVIOUS
  <1>4. /\ act' \in InputJobs /\ act'.pc = act.pc /\ act'.kind = act.kind
        /\ act'.from = act.from /\ act'.to = act.to /\ act'.hit = act.hit
        /\ act'.top = top /\ act'.veiled = (act.veiled \/ ~top)
    BY <1>1, <1>2, <1>3 DEF InputJobs
  <1>5. act.kind = "ref" /\ act.pc # "idle"
    BY DEF LayoutShift
  <1>6. TypeInput' /\ PointerInv' /\ KeycodeInv' /\ TypedInv'
    BY <1>2, <1>4, <1>5 DEF InputInv, TypeInput, PointerInv, KeycodeInv, TypedInv
  <1>7. HitInv' /\ RefInv' /\ ClickReaches'
    BY <1>2, <1>4, <1>5 DEF InputInv, HitInv, RefInv, ClickReaches
  <1> QED BY <1>6, <1>7 DEF InputInv

(* The moves towards an element's centre.                                   *)
LEMMA RefPathKeeps ==
  ASSUME InputInv, UNCHANGED platform, click_at_rect
  PROVE  InputInv'
  <1>1. /\ act.kind = "ref" /\ act.pc = "path" /\ btn \in BOOLEAN
        /\ UNCHANGED <<last, btn, keymap, scratch, typed, clicked>>
    BY DEF click_at_rect, InputInv, TypeInput
  <1>2. CASE Give("mouse")
    BY <1>1, <1>2, GiveKeeps
  <1>3. CASE act' = [act EXCEPT !.pc = "press"] /\ UNCHANGED broken
    <2>1. /\ act' \in InputJobs /\ act'.pc = "press" /\ act'.kind = act.kind
          /\ act'.to = act.to /\ act'.top = act.top /\ act'.veiled = act.veiled
      BY <1>3, PcChanges DEF InputInv, TypeInput
    <2>2. TypeInput' /\ PointerInv' /\ KeycodeInv' /\ TypedInv'
      BY <1>1, <1>3, <2>1 DEF InputInv, TypeInput, PointerInv, KeycodeInv, TypedInv
    <2>3. HitInv' /\ RefInv' /\ ClickReaches'
      BY <1>1, <2>1 DEF InputInv, HitInv, RefInv, ClickReaches
    <2> QED BY <2>2, <2>3 DEF InputInv
  <1> QED BY <1>2, <1>3 DEF click_at_rect

(* A pointer job starts with the button up.                                 *)
LEMMA CursorKeeps ==
  ASSUME InputInv, UNCHANGED platform, cursor_op
  PROVE  InputInv'
  <1>1. PICK k \in {"move", "click", "drag"}, a \in Points, b \in Points :
             act' = [Resting EXCEPT !.kind = k, !.from = a, !.to = b,
                                    !.pc = IF k = "drag" /\ platform # "webkit" THEN "lead"
                                           ELSE IF k = "drag" THEN "press" ELSE "path"]
    BY DEF cursor_op
  <1>2. /\ act' \in InputJobs /\ act'.kind = k
        /\ act'.pc \in {"lead", "press", "path"} /\ (act'.pc = "path" => k # "drag")
    BY <1>1, RestingJob DEF InputJobs
  <1>3. act.pc = "idle"
    BY RestingJob DEF cursor_op, StartInput
  <1>4. UNCHANGED <<ptr, last, btn, keymap, scratch, typed, clicked, broken>>
    BY DEF cursor_op
  <1>5. TypeInput'
    BY <1>2, <1>3, <1>4 DEF InputInv, TypeInput
  <1>6. btn \in BOOLEAN
    BY DEF InputInv, TypeInput
  <1>7. PointerInv' /\ KeycodeInv' /\ TypedInv' /\ HitInv' /\ RefInv' /\ ClickReaches'
    BY <1>2, <1>3, <1>4, <1>6 DEF InputInv, PointerInv, KeycodeInv, TypedInv, HitInv, RefInv, ClickReaches
  <1> QED BY <1>5, <1>7 DEF InputInv

(* A path ends at its point, or the job gives up.                           *)
LEMMA PathKeeps ==
  ASSUME InputInv, UNCHANGED platform,
         \/ act.pc = "lead" /\ Path(act.from, "press")
         \/ act.pc = "path" /\ Path(act.to, AfterPath), act.kind # "ref",
         UNCHANGED <<last, btn, keymap, scratch, typed, clicked>>
  PROVE  InputInv'
  <1>1. act.kind # "type" /\ btn' \in BOOLEAN
    BY DEF InputInv, TypeInput
  <1>2. CASE Give("mouse")
    BY <1>1, <1>2, GiveKeeps
  <1>3. CASE act.pc = "lead" /\ act' = [act EXCEPT !.pc = "press"] /\ UNCHANGED broken
    <2>1. act' \in InputJobs /\ act'.pc = "press" /\ act'.kind = act.kind
      BY <1>3, PcChanges DEF InputInv, TypeInput
    <2> QED BY <1>1, <1>3, <2>1
               DEF InputInv, TypeInput, PointerInv, KeycodeInv, TypedInv, HitInv, RefInv, ClickReaches
  <1>4. CASE act.pc = "path" /\ ptr' = act.to /\ act' = [act EXCEPT !.pc = AfterPath]
             /\ UNCHANGED broken
    <2>1. /\ act' \in InputJobs /\ act'.pc = AfterPath /\ act'.kind = act.kind
          /\ act'.to = act.to /\ act.kind # "ref"
      BY <1>4, PcChanges DEF AfterPath, InputInv, TypeInput
    <2> QED BY <1>1, <1>4, <2>1 DEF AfterPath, InputInv, TypeInput, PointerInv, KeycodeInv,
                                    TypedInv, HitInv, RefInv, ClickReaches
  <1> QED BY <1>2, <1>3, <1>4 DEF Path

(* The button goes down ...                                                 *)
LEMMA PressKeeps ==
  ASSUME InputInv, UNCHANGED platform, NEW p, Press(p)
  PROVE  InputInv'
  <1>1. act.kind # "type" /\ act.pc = "press" /\ btn \in BOOLEAN
    BY DEF Press, InputInv, TypeInput
  <1>2. CASE Give("mouse") /\ UNCHANGED <<btn, ptr>>
    BY <1>1, <1>2, GiveKeeps DEF Press
  <1>3. CASE /\ btn' = TRUE /\ UNCHANGED <<broken, keymap, scratch, typed, clicked>>
             /\ ptr' = IF act.kind = "drag" THEN act.from ELSE act.to
             /\ act' = [act EXCEPT !.pc = IF act.kind = "drag" THEN "path" ELSE "release",
                                   !.hit = act.top]
    <2> act.top \in BOOLEAN
      BY DEF InputInv, TypeInput, InputJobs
    <2>1. /\ act' \in InputJobs /\ act'.kind = act.kind /\ act'.to = act.to
          /\ act'.top = act.top /\ act'.veiled = act.veiled /\ act'.hit = act.top
          /\ act'.pc = IF act.kind = "drag" THEN "path" ELSE "release"
      <3>1. CASE act.kind = "drag"
        BY <1>3, <3>1, HitChanges DEF InputInv, TypeInput
      <3>2. CASE act.kind # "drag"
        BY <1>3, <3>2, HitChanges DEF InputInv, TypeInput
      <3> QED BY <3>1, <3>2
    <2>2. TypeInput' /\ KeycodeInv' /\ TypedInv' /\ HitInv' /\ RefInv' /\ ClickReaches'
      BY <1>1, <1>3, <2>1 DEF InputInv, TypeInput, KeycodeInv, TypedInv, HitInv, RefInv, ClickReaches
    <2>3. PointerInv'
      <3>1. CASE act.kind = "drag"
        BY <1>3, <2>1, <3>1 DEF PointerInv
      <3>2. CASE act.kind # "drag"
        BY <1>3, <2>1, <3>2 DEF PointerInv
      <3> QED BY <3>1, <3>2
    <2> QED BY <2>2, <2>3 DEF InputInv
  <1> QED BY <1>2, <1>3 DEF Press

(* ... and up.                                                              *)
LEMMA ReleaseKeeps ==
  ASSUME InputInv, UNCHANGED platform, NEW p, Release(p)
  PROVE  InputInv'
  <1>1. act.kind # "type" /\ act.pc = "release" /\ btn \in BOOLEAN
    BY DEF Release, InputInv, TypeInput
  <1>2. CASE Give("mouse") /\ UNCHANGED btn
    BY <1>1, <1>2, GiveKeeps DEF Release
  <1>3. CASE btn' = FALSE /\ act' = [act EXCEPT !.pc = "landed", !.hit = act.hit /\ act.top]
             /\ UNCHANGED <<broken, ptr, keymap, scratch, typed, clicked>>
    <2>1. /\ act' \in InputJobs /\ act'.kind = act.kind /\ act'.to = act.to
          /\ act'.pc = "landed" /\ act'.top = act.top /\ act'.veiled = act.veiled
          /\ act'.hit = (act.hit /\ act.top)
      <3>1. (act.hit /\ act.top) \in BOOLEAN
        OBVIOUS
      <3> QED BY <1>3, <3>1, HitChanges DEF InputInv, TypeInput
    <2> QED BY <1>1, <1>3, <2>1
               DEF InputInv, TypeInput, PointerInv, KeycodeInv, TypedInv, HitInv, RefInv, ClickReaches
  <1> QED BY <1>2, <1>3 DEF Release

(* The job ends where the pointer is.                                       *)
LEMMA LandedKeeps ==
  ASSUME InputInv, UNCHANGED platform, Landed
  PROVE  InputInv'
  <1>1. /\ act.pc = "landed" /\ act' = Resting /\ last' = act.to
        /\ UNCHANGED <<ptr, btn, keymap, scratch, typed, broken>>
    BY DEF Landed
  <1>2. TypeInput' /\ PointerInv' /\ HitInv' /\ RefInv' /\ KeycodeInv' /\ TypedInv'
    BY <1>1, RestingJob
       DEF InputInv, TypeInput, PointerInv, HitInv, RefInv, KeycodeInv, TypedInv
  <1>3. ClickReaches'
    <2>1. CASE act.kind # "ref"
      BY <2>1 DEF Landed, InputInv, ClickReaches
    <2>2. CASE act.kind = "ref"
      <3>1. /\ clicked'.on = (IF act.hit THEN act.el ELSE "other")
            /\ clicked'.want = act.el /\ clicked'.veiled = act.veiled
        BY <2>2 DEF Landed
      <3>2. platform = "webkit" /\ (act.veiled \/ act.hit)
        BY <1>1, <2>2 DEF InputInv, HitInv, RefInv
      <3> QED BY <3>1, <3>2 DEF ClickReaches
    <2> QED BY <2>1, <2>2
  <1> QED BY <1>2, <1>3 DEF InputInv

(* A text of no more than MaxText characters.                               *)
LEMMA TextTypes == \A t \in Texts : t \in Seq(Chars)
  <1> SUFFICES ASSUME NEW n \in Nat, NEW t \in [1..n -> Chars] PROVE t \in Seq(Chars)
    BY WebInputAssumption DEF Texts
  <1> QED OBVIOUS

(* Nothing of the text is typed when typing starts.                         *)
LEMMA TypeTextKeeps ==
  ASSUME InputInv, UNCHANGED platform, type_text
  PROVE  InputInv'
  <1>1. PICK t \in Texts :
             act' = [Resting EXCEPT !.pc = "down", !.kind = "type", !.text = t, !.want = t]
    BY DEF type_text
  <1>2. t \in Seq(Chars)
    BY TextTypes
  <1>3. /\ act' \in InputJobs /\ act'.pc = "down" /\ act'.kind = "type"
        /\ act'.text = t /\ act'.want = t
    BY <1>1, <1>2, RestingJob DEF InputJobs
  <1>4. act.pc = "idle" /\ typed' = <<>>
    BY RestingJob DEF type_text, StartInput
  <1>5. UNCHANGED <<ptr, last, btn, keymap, scratch, clicked, broken>>
    BY DEF type_text
  <1>6. TypeInput'
    BY <1>3, <1>4, <1>5 DEF InputInv, TypeInput
  <1>7. PointerInv' /\ KeycodeInv' /\ HitInv' /\ RefInv' /\ ClickReaches'
    BY <1>3, <1>4, <1>5 DEF InputInv, PointerInv, KeycodeInv, HitInv, RefInv, ClickReaches
  <1>8. TypedInv'
    BY <1>2, <1>3, <1>4 DEF TypedInv
  <1> QED BY <1>6, <1>7, <1>8 DEF InputInv

(* The keycode takes the next character, or the text is given up.           *)
LEMMA BindKeeps ==
  ASSUME InputInv, UNCHANGED platform, bind
  PROVE  InputInv'
  <1>1. /\ act.pc = "down" /\ act.kind = "type"
        /\ UNCHANGED <<ptr, last, btn, typed, clicked>>
    BY DEF bind, InputInv, TypeInput
  <1>2. CASE keymap' = Head(act.text) /\ scratch' = Head(act.text) /\ UNCHANGED <<act, broken>>
    BY <1>1, <1>2 DEF InputInv, TypeInput, PointerInv, KeycodeInv, TypedInv, HitInv, RefInv, ClickReaches
  <1>3. CASE /\ keymap' \in {keymap, Head(act.text)} /\ UNCHANGED scratch
             /\ act' = [act EXCEPT !.pc = "end", !.text = <<>>]
             /\ broken' = broken \cup (IF keymap' = keymap THEN {"key"} ELSE {"keymap"})
    <2>1. /\ act' \in InputJobs /\ act'.pc = "end" /\ act'.kind = act.kind
          /\ act'.text = <<>> /\ act'.want = act.want
      <3>1. <<>> \in Seq(Chars)
        OBVIOUS
      <3> QED BY <1>3, <3>1, TextChanges DEF InputInv, TypeInput
    <2>2. TypeInput'
      BY <1>1, <1>3, <2>1 DEF InputInv, TypeInput
    <2>3. PointerInv' /\ KeycodeInv' /\ HitInv' /\ RefInv' /\ ClickReaches'
      BY <1>1, <1>3, <2>1 DEF InputInv, PointerInv, KeycodeInv, HitInv, RefInv, ClickReaches
    <2>4. TypedInv'
      BY <1>1, <1>3, <2>1 DEF InputInv, TypeInput, TypedInv
    <2> QED BY <2>2, <2>3, <2>4 DEF InputInv
  <1> QED BY <1>1, <1>2, <1>3 DEF bind

(* One character more, the end of the text, or a failure.                   *)
LEMMA KeyKeeps ==
  ASSUME InputInv, UNCHANGED platform, NEW p, Key(p)
  PROVE  InputInv'
  <1>1. /\ act.pc = "down" /\ act.kind = "type"
        /\ UNCHANGED <<ptr, last, btn, keymap, scratch, clicked>>
    BY DEF Key, InputInv, TypeInput
  <1>2. CASE /\ act' = [act EXCEPT !.pc = "end", !.text = <<>>] /\ UNCHANGED typed
             /\ broken' = broken \cup {"key"}
    <2>1. /\ act' \in InputJobs /\ act'.pc = "end" /\ act'.kind = act.kind
          /\ act'.text = <<>> /\ act'.want = act.want
      <3>1. <<>> \in Seq(Chars)
        OBVIOUS
      <3> QED BY <1>2, <3>1, TextChanges DEF InputInv, TypeInput
    <2>2. TypeInput'
      BY <1>1, <1>2, <2>1 DEF InputInv, TypeInput
    <2>3. PointerInv' /\ KeycodeInv' /\ HitInv' /\ RefInv' /\ ClickReaches'
      BY <1>1, <1>2, <2>1 DEF InputInv, PointerInv, KeycodeInv, HitInv, RefInv, ClickReaches
    <2>4. TypedInv'
      BY <1>1, <1>2, <2>1 DEF InputInv, TypeInput, TypedInv
    <2> QED BY <2>2, <2>3, <2>4 DEF InputInv
  <1>3. CASE act.text = <<>> /\ act' = [act EXCEPT !.pc = "end"] /\ UNCHANGED <<typed, broken>>
    <2>1. /\ act' \in InputJobs /\ act'.pc = "end" /\ act'.kind = act.kind
          /\ act'.text = <<>> /\ act'.want = act.want
      BY <1>3, PcChanges DEF InputInv, TypeInput
    <2>2. TypeInput'
      BY <1>1, <1>3, <2>1 DEF InputInv, TypeInput
    <2>3. PointerInv' /\ KeycodeInv' /\ HitInv' /\ RefInv' /\ ClickReaches'
      BY <1>1, <1>3, <2>1 DEF InputInv, PointerInv, KeycodeInv, HitInv, RefInv, ClickReaches
    <2>4. TypedInv'
      BY <1>1, <1>3, <2>1 DEF InputInv, TypeInput, TypedInv
    <2> QED BY <2>2, <2>3, <2>4 DEF InputInv
  <1>4. CASE /\ act.text # <<>> /\ UNCHANGED broken
             /\ typed' = Append(typed, IF platform = "wpe" THEN keymap ELSE Head(act.text))
             /\ act' = [act EXCEPT !.text = Tail(@)]
    <2> DEFINE c == Head(act.text)
    <2>1. act.text \in Seq(Chars) /\ typed \in Seq(Chars) /\ act.text # <<>>
      BY <1>4, JobFields DEF InputInv, TypeInput
    <2>2. c \in Chars /\ c = act.text[1] /\ c # 0
      BY <2>1, WebInputAssumption
    <2>3. typed' = Append(typed, c)
      BY <1>1, <1>4, <2>2 DEF Key, InputInv, KeycodeInv
    <2>7. /\ act' \in InputJobs /\ act'.pc = "down" /\ act'.kind = "type"
          /\ act'.text = Tail(act.text) /\ act'.want = act.want
      <3>1. Tail(act.text) \in Seq(Chars)
        BY <2>1
      <3> QED BY <1>1, <1>4, <3>1, TextChanges DEF InputInv, TypeInput
    <2>4. TypeInput'
      <3>1. typed' \in Seq(Chars)
        BY <2>1, <2>2, <2>3
      <3> QED BY <1>1, <1>4, <2>7, <3>1 DEF InputInv, TypeInput
    <2>5. PointerInv' /\ KeycodeInv' /\ HitInv' /\ RefInv' /\ ClickReaches'
      BY <1>1, <1>4, <2>7 DEF InputInv, TypeInput, PointerInv, KeycodeInv, HitInv, RefInv, ClickReaches
    <2>6. TypedInv'
      <3>1. act'.want = act.want /\ act'.text = Tail(act.text) /\ act.want \in Seq(Chars)
        BY <2>7, JobFields DEF InputInv, TypeInput
      <3>2. /\ Len(act'.text) = Len(act.text) - 1 /\ Len(typed') = Len(typed) + 1
            /\ Len(act.text) \in Nat \ {0} /\ Len(typed) \in Nat
        BY <2>1, <2>3, <3>1
      <3>3. \A i \in 1..Len(typed) : typed'[i] = typed[i]
        BY <2>1, <2>3
      <3>4. typed'[Len(typed) + 1] = act.text[1]
        BY <2>1, <2>2, <2>3
      <3>5. \A i \in 1..Len(act'.text) : act'.text[i] = act.text[i + 1]
        BY <2>1, <3>1
      <3> HIDE DEF c
      <3>6. /\ Len(typed) + Len(act.text) <= Len(act.want) /\ Len(act.want) \in Nat
            /\ \A i \in 1..Len(typed) : typed[i] = act.want[i]
            /\ \A i \in 1..Len(act.text) : act.text[i] = act.want[Len(typed) + i]
        BY <1>1, <3>1 DEF InputInv, TypedInv
      <3>7. \A i \in 1..Len(typed') : typed'[i] = act.want[i]
        BY <3>2, <3>3, <3>4, <3>6
      <3>8. \A i \in 1..Len(act'.text) : act'.text[i] = act.want[Len(typed') + i]
        BY <3>2, <3>5, <3>6
      <3>9. Len(typed') + Len(act'.text) <= Len(act'.want)
        <4>1. Len(act'.want) = Len(act.want)
          BY <3>1
        <4>2. Len(typed') + Len(act'.text) = Len(typed) + Len(act.text)
          <5>1. ASSUME NEW m \in Nat, NEW n \in Nat \ {0} PROVE (m + 1) + (n - 1) = m + n
            OBVIOUS
          <5> QED BY <3>2, <5>1
        <4> QED BY <3>6, <4>1, <4>2
      <3> QED BY <3>1, <3>7, <3>8, <3>9 DEF TypedInv
    <2> QED BY <2>4, <2>5, <2>6 DEF InputInv
  <1> QED BY <1>1, <1>2, <1>3, <1>4 DEF Key

(* The keycode is handed back, or the server refuses.                       *)
LEMMA EndTypingKeeps ==
  ASSUME InputInv, UNCHANGED platform, end_typing
  PROVE  InputInv'
  <1>1. TypeInput' /\ TypedInv' /\ HitInv' /\ RefInv' /\ ClickReaches'
    BY RestingJob DEF end_typing, InputInv, TypeInput, TypedInv, HitInv, RefInv, ClickReaches
  <1>2. act.pc = "end" /\ act'.pc = "idle" /\ scratch' = 0 /\ UNCHANGED <<ptr, last, btn>>
    BY RestingJob DEF end_typing
  <1>3. PointerInv'
    BY <1>2 DEF end_typing, InputInv, PointerInv
  <1>4. KeycodeInv'
    BY <1>2 DEF end_typing, InputInv, KeycodeInv
  <1> QED BY <1>1, <1>3, <1>4 DEF InputInv

(* Every step of the input family keeps its invariant.                      *)
LEMMA InputStep == InputInv /\ NextInput /\ UNCHANGED platform => InputInv'
  <1> SUFFICES ASSUME InputInv, NextInput, UNCHANGED platform PROVE InputInv'
    OBVIOUS
  <1>1. CASE \E el \in Elements : ActWk(el) \/ ActJs(el)
    BY <1>1, ActKeeps
  <1>11. CASE LayoutShift \/ click_at_rect
    BY <1>11, ShiftKeeps, RefPathKeeps
  <1>2. CASE cursor_op
    BY <1>2, CursorKeeps
  <1>3. CASE move_along_path \/ cursor_move_along_path \/ wv2_move_along_path
    <2>1. act.kind = "ref" => platform = "webkit"
      BY DEF InputInv, RefInv
    <2> QED BY <1>3, <2>1, PathKeeps
               DEF move_along_path, cursor_move_along_path, wv2_move_along_path
  <1>4. CASE PressWk \/ PressWpe \/ PressW2
    BY <1>4, PressKeeps DEF PressWk, PressWpe, PressW2
  <1>5. CASE ReleaseWk \/ ReleaseWpe \/ ReleaseW2
    BY <1>5, ReleaseKeeps DEF ReleaseWk, ReleaseWpe, ReleaseW2
  <1>6. CASE Landed
    BY <1>6, LandedKeeps
  <1>7. CASE type_text
    BY <1>7, TypeTextKeeps
  <1>8. CASE bind
    BY <1>8, BindKeeps
  <1>9. CASE KeyWk \/ KeyWpe \/ KeyW2
    BY <1>9, KeyKeeps DEF KeyWk, KeyWpe, KeyW2
  <1>10. CASE end_typing
    BY <1>10, EndTypingKeeps
  <1> QED BY <1>1, <1>2, <1>3, <1>4, <1>5, <1>6, <1>7, <1>8, <1>9, <1>10, <1>11
         DEF NextInput

(* A job at rest left the pointer, the button and the keymap as it should,  *)
(* and what was typed is the beginning of the text.                         *)
LEMMA InputInvSettles == InputInv => InputSettles
  <1> SUFFICES ASSUME InputInv PROVE InputSettles
    OBVIOUS
  <1>1. ClickReaches /\ ButtonReleased /\ KeymapRestored
    BY RestingJob DEF InputInv, PointerInv, KeycodeInv, ButtonReleased, KeymapRestored
  <1>2. ASSUME act.kind = "type" PROVE typed = SubSeq(act.want, 1, Len(typed))
    <2>1. typed \in Seq(Chars) /\ act.want \in Seq(Chars) /\ Len(typed) <= Len(act.want)
      <3>1. typed \in Seq(Chars) /\ act.want \in Seq(Chars) /\ act.text \in Seq(Chars)
        BY JobFields DEF InputInv, TypeInput
      <3>2. Len(typed) + Len(act.text) <= Len(act.want)
        BY <1>2 DEF InputInv, TypedInv
      <3>3. Len(act.text) \in Nat /\ Len(typed) \in Nat /\ Len(act.want) \in Nat
        BY <3>1
      <3>4. Len(typed) <= Len(act.want)
        BY <3>2, <3>3
      <3> QED BY <3>1, <3>4
    <2>2. \A i \in 1..Len(typed) : typed[i] = act.want[i]
      BY <1>2 DEF InputInv, TypedInv
    <2> QED BY <2>1, <2>2
  <1> QED BY <1>1, <1>2 DEF InputSettles, TypesWhatWasAsked

-----------------------------------------------------------------------------
(* Web views.                                                               *)

(* The records of a navigation, of what was reported and of a job.          *)
LEMMA ViewRecords ==
  /\ NoLoad \in LoadRecords /\ NoLoad.n = 0 /\ NoLoad.ph = "none" /\ NoLoad.late = {}
  /\ NoSlot \in SlotRecords /\ NoSlot.done = "none" /\ NoSlot.committed = FALSE
  /\ NoOp \in OpRecords /\ NoOp.pc = "idle"
  BY DEF NoLoad, NoSlot, NoOp, LoadRecords, SlotRecords, OpRecords, Outcomes

(* Nothing has been opened yet.                                             *)
LEMMA ViewsStart == platform \in Platforms /\ InitViews => ViewsInv
  <1> SUFFICES ASSUME InitViews PROVE ViewsInv
    OBVIOUS
  <1> USE ViewRecords
  <1>1. op.pc = "idle" /\ verdict.ok = FALSE
    BY DEF InitViews, NoVerdict
  <1>2. TypeViews
    <2>1. NoVerdict \in VerdictRecords
      BY DEF NoVerdict, VerdictRecords
    <2>2. 0 \in 0..MaxViews /\ Views \subseteq Nat
      BY WebViewsAssumption DEF Views
    <2> QED BY <1>1, <2>1, <2>2 DEF InitViews, TypeViews
  <1>3. HandleInv
    <2>1. \A v \in Views : v \in Nat /\ 1 <= v
      BY WebViewsAssumption DEF Views
    <2> QED BY <1>1, <2>1 DEF InitViews, HandleInv, Live, Opening
  <1>4. LostInv /\ LoadInv /\ OkShowsPage
    BY <1>1 DEF InitViews, LostInv, LoadInv, OkShowsPage
  <1> QED BY <1>2, <1>3, <1>4 DEF ViewsInv

(* A new navigation of a view is the only one, if no other was unsettled or *)
(* had yet to report.                                                       *)
LEMMA StartLoadEffect ==
  ASSUME TypeViews, NEW v \in Views, StartLoad(v)
  PROVE  /\ nloads' = nloads + 1 /\ nloads' \in Nat /\ load' \in [Views -> LoadRecords]
         /\ load'[v].n = nloads + 1 /\ load'[v].ph = "asked"
         /\ ~Unsettled(v) /\ load[v].late = {} => load'[v].late = {}
         /\ \A w \in Views \ {v} : load'[w] = load[w]
  <1>1. PICK o \in Outcomes :
             load' = [load EXCEPT ![v] = [n |-> nloads + 1, ph |-> "asked",
                                          late |-> IF Unsettled(v) THEN @.late \cup {o}
                                                   ELSE @.late]]
    BY DEF StartLoad, Outcomes
  <1>2. nloads' = nloads + 1 /\ nloads \in Nat /\ load \in [Views -> LoadRecords]
    BY DEF StartLoad, TypeViews
  <1> DEFINE l == [n |-> nloads + 1, ph |-> "asked",
                   late |-> IF Unsettled(v) THEN load[v].late \cup {o} ELSE load[v].late]
  <1>3. load[v].late \subseteq Outcomes
    BY <1>2 DEF LoadRecords
  <1>4. l \in LoadRecords
    BY <1>2, <1>3 DEF LoadRecords
  <1>5. load' = [load EXCEPT ![v] = l]
    BY <1>1
  <1>6. load'[v] = l /\ \A w \in Views \ {v} : load'[w] = load[w]
    BY <1>2, <1>5
  <1>7. load' \in [Views -> LoadRecords]
    BY <1>2, <1>4, <1>5
  <1> QED BY <1>2, <1>6, <1>7

(* ... and no view shows more than it was asked for.                        *)
LEMMA StartLoaded ==
  ASSUME ViewsInv, NEW v \in Views, StartLoad(v), UNCHANGED shown
  PROVE  \A w \in Views : /\ shown'[w] <= load'[w].n /\ load'[w].n <= nloads'
                          /\ load'[w].ph \in {"committed", "settled"} => shown'[w] = load'[w].n
  <1>1. TypeViews
    BY DEF ViewsInv
  <1>2. \A w \in Views : load[w].n \in Nat /\ shown[w] \in Nat /\ nloads \in Nat
    BY <1>1 DEF TypeViews, LoadRecords
  <1>3. \A w \in Views : /\ shown[w] <= load[w].n /\ load[w].n <= nloads
                         /\ load[w].ph \in {"committed", "settled"} => shown[w] = load[w].n
    BY DEF ViewsInv, LoadInv
  <1> QED BY <1>1, <1>2, <1>3, StartLoadEffect

(* The job of an open or navigate, just begun.                              *)
LEMMA BeginEffect ==
  ASSUME TypeViews, NEW v \in Views, NEW h \in {0} \cup Views, Begin(v, h)
  PROVE  /\ op' \in OpRecords /\ op'.pc # "idle" /\ op'.h = h /\ op'.v = v
         /\ op'.n = load'[v].n /\ (op'.clean => load'[v].late = {})
         /\ slot' \in [Views -> SlotRecords]
         /\ slot'[v].done = "none" /\ ~slot'[v].committed
  <1>1. StartLoad(v)
    BY DEF Begin
  <1>2. op' = [pc |-> IF platform = "webkit" THEN "launch" ELSE "wait", h |-> h, v |-> v,
               n |-> nloads + 1, clean |-> ~Unsettled(v) /\ load[v].late = {}]
    BY DEF Begin
  <1>3. nloads + 1 \in Nat
    BY DEF TypeViews
  <1>4. (~Unsettled(v) /\ load[v].late = {}) \in BOOLEAN
    OBVIOUS
  <1>5. op' \in OpRecords
    BY <1>2, <1>3, <1>4 DEF OpRecords
  <1>6. slot' = [slot EXCEPT ![v] = NoSlot] /\ slot \in [Views -> SlotRecords]
    BY DEF Begin, TypeViews
  <1>7. slot' \in [Views -> SlotRecords] /\ slot'[v] = NoSlot
    BY <1>6, ViewRecords
  <1> QED BY <1>1, <1>2, <1>5, <1>7, StartLoadEffect, ViewRecords

(* What a report of a view's web process may change, and what not.          *)
LEMMA ReportKeeps ==
  ASSUME ViewsInv, NEW v \in Views, Live(v), NEW l \in LoadRecords,
         UNCHANGED <<platform, views, pages, nextHandle, op, nloads, verdict>>,
         load' = [load EXCEPT ![v] = l], l.n = load[v].n, l.late \subseteq load[v].late,
         shown' \in [Views -> Nat], \A w \in Views \ {v} : shown'[w] = shown[w],
         shown'[v] \in {shown[v], l.n}, l.ph \in {"committed", "settled"} => shown'[v] = l.n,
         l.ph = load[v].ph \/ load[v].ph # "failed",
         slot' \in [Views -> SlotRecords], \A w \in Views \ {v} : slot'[w] = slot[w],
         slot'[v].done = "ok" \/ slot'[v].committed =>
             \/ slot[v].done = "ok" \/ slot[v].committed \/ shown'[v] = l.n
             \/ (platform # "webkit" /\ l.ph = "failed") \/ load[v].late # {}
  PROVE  ViewsInv'
  <1>1. load \in [Views -> LoadRecords] /\ shown \in [Views -> Nat] /\ nloads \in Nat
    BY DEF ViewsInv, TypeViews
  <1>2. /\ load' \in [Views -> LoadRecords] /\ load'[v] = l
        /\ \A w \in Views \ {v} : load'[w] = load[w]
    BY <1>1
  <1>3. \A w \in Views : load'[w].n = load[w].n /\ load[w].n \in Nat /\ shown[w] \in Nat
    BY <1>1, <1>2 DEF LoadRecords
  <1>4. TypeViews'
    BY <1>2 DEF ViewsInv, TypeViews
  <1>5. HandleInv'
    BY <1>2 DEF ViewsInv, HandleInv, Live, Opening
  <1>6. LostInv'
    BY <1>3 DEF ViewsInv, LostInv
  <1>7. \A w \in Views : /\ shown[w] <= load[w].n /\ load[w].n <= nloads
                         /\ load[w].ph \in {"committed", "settled"} => shown[w] = load[w].n
    BY DEF ViewsInv, LoadInv
  <1>8. \A w \in Views : shown'[w] <= load'[w].n /\ shown'[w] >= shown[w]
    BY <1>2, <1>3, <1>7
  <1>9. LoadInv'
    <2>1. \A w \in Views : load'[w].ph \in {"committed", "settled"} => shown'[w] = load'[w].n
      BY <1>2, <1>7
    <2>2. op.pc # "idle" => op.v \in Views /\ op.n = load'[op.v].n
      BY <1>3 DEF ViewsInv, TypeViews, LoadInv
    <2>3. ASSUME op.pc # "idle", op.clean
          PROVE  /\ load[op.v].late = {} /\ load'[op.v].late = {}
                 /\ slot[op.v].done = "ok" \/ slot[op.v].committed => Told
      BY <1>2, <2>2, <2>3 DEF ViewsInv, LoadInv
    <2>4. ASSUME op.pc # "idle", op.clean,
                 slot'[op.v].done = "ok" \/ slot'[op.v].committed
          PROVE  shown'[op.v] = op.n \/ (platform # "webkit" /\ load'[op.v].ph = "failed")
      <3>1. ASSUME shown[op.v] = op.n PROVE shown'[op.v] = op.n
        BY <1>1, <1>3, <1>8, <2>2, <2>4, <3>1
      <3>2. ASSUME op.v = v, shown'[v] = l.n PROVE shown'[op.v] = op.n
        BY <1>2, <2>2, <2>4, <3>2
      <3>3. CASE platform # "webkit" /\ load[op.v].ph = "failed"
        BY <1>2, <2>2, <2>4, <3>3
      <3>4. CASE slot[op.v].done = "ok" \/ slot[op.v].committed
        BY <2>3, <2>4, <3>1, <3>3, <3>4 DEF Told
      <3>5. ASSUME l.ph = "failed", op.v = v PROVE load'[op.v].ph = "failed"
        BY <1>2, <2>2, <2>4, <3>5
      <3>6. op.v \in Views /\ (op.v # v => slot'[op.v] = slot[op.v]) /\ load[op.v].late = {}
        BY <2>2, <2>3, <2>4
      <3> QED BY <2>4, <3>2, <3>4, <3>5, <3>6
    <2>5. \A w \in Views : shown'[w] <= load'[w].n /\ load'[w].n <= nloads'
      BY <1>3, <1>7, <1>8
    <2>6. op.pc # "idle" /\ op.clean /\ (slot'[op.v].done = "ok" \/ slot'[op.v].committed) => Told'
      BY <2>4 DEF Told
    <2> HIDE DEF Told
    <2> QED BY <2>1, <2>2, <2>3, <2>5, <2>6 DEF LoadInv
  <1>10. OkShowsPage'
    <2>1. ASSUME verdict.ok, verdict.clean, ~(platform # "webkit" /\ verdict.failed)
          PROVE  shown'[verdict.v] >= verdict.n
      <3>1. verdict.v \in Views /\ verdict.n \in Nat /\ shown[verdict.v] >= verdict.n
        BY <2>1 DEF ViewsInv, TypeViews, VerdictRecords, OkShowsPage
      <3> QED BY <1>1, <1>8, <3>1
    <2> QED BY <2>1 DEF OkShowsPage
  <1> QED BY <1>4, <1>5, <1>6, <1>9, <1>10 DEF ViewsInv

(* What the backend is told of the end of a navigation.                     *)
LEMMA DeliverEffect ==
  ASSUME TypeViews, NEW v \in Views, NEW outcome \in Outcomes, Deliver(v, outcome)
  PROVE  /\ slot' \in [Views -> SlotRecords] /\ \A w \in Views \ {v} : slot'[w] = slot[w]
         /\ slot'[v].done = "ok" \/ slot'[v].committed =>
              \/ slot[v].done = "ok" \/ slot[v].committed
              \/ platform # "webkit" \/ outcome = "ok"
  <1> DEFINE s == [started |-> slot[v].started \/ (platform = "webkit" /\ outcome = "ok"),
                   committed |-> slot[v].committed \/ (platform = "webkit" /\ outcome = "ok"),
                   done |-> Reported(outcome)]
  <1>1. slot \in [Views -> SlotRecords]
    BY DEF TypeViews
  <1>2. CASE Listening(v)
    <2>1. slot' = [slot EXCEPT ![v] = s]
      BY <1>2 DEF Deliver
    <2>2. s \in SlotRecords
      BY <1>1 DEF SlotRecords, Reported, Outcomes
    <2>3. s.done = "ok" => platform # "webkit" \/ outcome = "ok"
      BY DEF Reported
    <2>4. slot'[v] = s /\ \A w \in Views \ {v} : slot'[w] = slot[w]
      BY <1>1, <2>1
    <2> QED BY <1>1, <2>1, <2>2, <2>3, <2>4
  <1>3. CASE ~Listening(v)
    BY <1>1, <1>3 DEF Deliver
  <1> QED BY <1>2, <1>3

(* The five reports.                                                        *)
LEMMA ReportsKeep ==
  ASSUME ViewsInv, UNCHANGED platform, NEW v \in Views,
         didStart(v) \/ didCommit(v) \/ didFinish(v) \/ didFail(v) \/ LateReport(v)
  PROVE  ViewsInv'
  <1>1. /\ load \in [Views -> LoadRecords] /\ slot \in [Views -> SlotRecords]
        /\ shown \in [Views -> Nat] /\ TypeViews
    BY DEF ViewsInv, TypeViews
  <1>2. load[v].n \in Nat /\ load[v].late \subseteq Outcomes
    BY <1>1 DEF LoadRecords
  <1>3. \A ph \in {"started", "committed", "settled", "failed"} :
          /\ [load[v] EXCEPT !.ph = ph] \in LoadRecords
          /\ [load[v] EXCEPT !.ph = ph].ph = ph
          /\ [load[v] EXCEPT !.ph = ph].n = load[v].n
          /\ [load[v] EXCEPT !.ph = ph].late = load[v].late
    BY <1>1 DEF LoadRecords
  <1>4. CASE didStart(v)
    <2>1. /\ slot' \in [Views -> SlotRecords] /\ \A w \in Views \ {v} : slot'[w] = slot[w]
          /\ slot'[v].done = slot[v].done /\ slot'[v].committed = slot[v].committed
      BY <1>1, <1>4 DEF didStart, SlotRecords
    <2>2. load' = [load EXCEPT ![v] = [load[v] EXCEPT !.ph = "started"]]
      BY <1>1, <1>4 DEF didStart
    <2>3. /\ Live(v) /\ load[v].ph = "asked"
          /\ UNCHANGED <<views, pages, nextHandle, shown, op, nloads, verdict>>
      BY <1>4 DEF didStart
    <2> DEFINE l == [load[v] EXCEPT !.ph = "started"]
    <2>4. l \in LoadRecords /\ l.n = load[v].n /\ l.late = load[v].late /\ l.ph = "started"
      BY <1>3
    <2> HIDE DEF l
    <2> QED BY <1>1, <2>1, <2>2, <2>3, <2>4, ReportKeeps DEF l
  <1>5. CASE didCommit(v)
    <2>1. slot' \in [Views -> SlotRecords] /\ \A w \in Views \ {v} : slot'[w] = slot[w]
      BY <1>1, <1>5 DEF didCommit, SlotRecords
    <2>2. load' = [load EXCEPT ![v] = [load[v] EXCEPT !.ph = "committed"]]
      BY <1>1, <1>5 DEF didCommit
    <2>3. /\ shown' \in [Views -> Nat] /\ shown'[v] = load[v].n
          /\ \A w \in Views \ {v} : shown'[w] = shown[w]
      BY <1>1, <1>2, <1>5 DEF didCommit
    <2> QED BY <1>1, <1>3, <1>5, <2>1, <2>2, <2>3, ReportKeeps DEF didCommit
  <1>6. CASE didFinish(v)
    <2>1. load' = [load EXCEPT ![v] = [load[v] EXCEPT !.ph = "settled"]]
      BY <1>1, <1>6 DEF didFinish
    <2>2. shown[v] = load[v].n
      BY <1>6 DEF didFinish, ViewsInv, LoadInv
    <2>3. "ok" \in Outcomes /\ Deliver(v, "ok")
      BY <1>6 DEF didFinish, Outcomes
    <2>4. /\ slot' \in [Views -> SlotRecords] /\ \A w \in Views \ {v} : slot'[w] = slot[w]
      BY <1>1, <2>3, DeliverEffect
    <2>5. /\ Live(v) /\ load[v].ph = "committed"
          /\ UNCHANGED <<views, pages, nextHandle, shown, op, nloads, verdict>>
      BY <1>6 DEF didFinish
    <2> DEFINE l == [load[v] EXCEPT !.ph = "settled"]
    <2>6. l \in LoadRecords /\ l.n = load[v].n /\ l.late = load[v].late /\ l.ph = "settled"
      BY <1>3
    <2> HIDE DEF l
    <2> QED BY <1>1, <2>1, <2>2, <2>4, <2>5, <2>6, ReportKeeps DEF l
  <1>7. CASE didFail(v)
    <2>1. load' = [load EXCEPT ![v] = [load[v] EXCEPT !.ph = "failed"]]
      BY <1>1, <1>7 DEF didFail
    <2>2. "err" \in Outcomes /\ Deliver(v, "err")
      BY <1>7 DEF didFail, Outcomes
    <2>3. /\ Live(v) /\ load[v].ph # "failed"
          /\ UNCHANGED <<views, pages, nextHandle, shown, op, nloads, verdict>>
      BY <1>7 DEF didFail, Unsettled
    <2> DEFINE l == [load[v] EXCEPT !.ph = "failed"]
    <2>4. l \in LoadRecords /\ l.n = load[v].n /\ l.late = load[v].late /\ l.ph = "failed"
      BY <1>3
    <2>5. /\ slot' \in [Views -> SlotRecords] /\ \A w \in Views \ {v} : slot'[w] = slot[w]
          /\ slot'[v].done = "ok" \/ slot'[v].committed =>
               slot[v].done = "ok" \/ slot[v].committed \/ platform # "webkit"
      BY <1>1, <2>2, DeliverEffect
    <2> HIDE DEF l
    <2> QED BY <1>1, <2>1, <2>3, <2>4, <2>5, ReportKeeps DEF l
  <1>8. CASE LateReport(v)
    <2>1. PICK o \in load[v].late :
               load' = [load EXCEPT ![v].late = @ \ {o}] /\ Deliver(v, o)
      BY <1>8 DEF LateReport
    <2> DEFINE l == [load[v] EXCEPT !.late = load[v].late \ {o}]
    <2>2. /\ l \in LoadRecords /\ l.n = load[v].n /\ l.ph = load[v].ph
          /\ l.late = load[v].late \ {o}
      BY <1>1, <1>2 DEF LoadRecords
    <2>3. load' = [load EXCEPT ![v] = l]
      BY <1>1, <2>1
    <2>4. o \in Outcomes /\ load[v].late # {}
      BY <1>2
    <2>5. l.ph \in {"committed", "settled"} => shown[v] = l.n
      BY <2>2 DEF ViewsInv, LoadInv
    <2>6. slot' \in [Views -> SlotRecords] /\ \A w \in Views \ {v} : slot'[w] = slot[w]
      BY <1>1, <2>1, <2>4, DeliverEffect
    <2>7. Live(v) /\ UNCHANGED <<views, pages, nextHandle, shown, op, nloads, verdict>>
      BY <1>8 DEF LateReport
    <2> HIDE DEF l
    <2> QED BY <1>1, <2>2, <2>3, <2>4, <2>5, <2>6, <2>7, ReportKeeps
  <1> QED BY <1>4, <1>5, <1>6, <1>7, <1>8

-----------------------------------------------------------------------------
(* A navigation of a view that is live, whoever asks for it.                *)

(* The page itself does only while no job waits.                            *)
LEMMA PageNavigatesKeeps ==
  ASSUME ViewsInv, UNCHANGED platform, NEW v \in Views, PageNavigates(v)
  PROVE  ViewsInv'
  <1>1. StartLoad(v) /\ TypeViews /\ Live(v) /\ op.pc = "idle"
    BY DEF PageNavigates, ViewsInv
  <1>2. UNCHANGED <<views, pages, nextHandle, shown, slot, op, verdict>>
    BY DEF PageNavigates
  <1>3. TypeViews'
    BY <1>1, <1>2, StartLoadEffect DEF TypeViews
  <1>4. HandleInv'
    BY <1>1, <1>2, StartLoadEffect DEF ViewsInv, HandleInv, Live, Opening
  <1>5. LostInv' /\ OkShowsPage'
    BY <1>1, <1>2, StartLoadEffect DEF ViewsInv, LostInv, OkShowsPage, Live
  <1>6. LoadInv'
    BY <1>1, <1>2, StartLoaded DEF ViewsInv, LoadInv
  <1> QED BY <1>3, <1>4, <1>5, <1>6 DEF ViewsInv

(* A navigate, or an open whose view is up, waits for its navigation.       *)
LEMMA BeginKeeps ==
  ASSUME ViewsInv, UNCHANGED <<platform, pages, nextHandle, shown, verdict>>, op.pc = "idle",
         NEW v \in Views, NEW h \in {0} \cup Views, Begin(v, h),
         \/ h # 0 /\ pages[h] = v /\ UNCHANGED views
         \/ h = 0 /\ NewView(v) /\ views' = [views EXCEPT ![v] = "live"]
  PROVE  ViewsInv'
  <1>1. StartLoad(v) /\ TypeViews
    BY DEF Begin, ViewsInv
  <1>2. \A w \in Views \ {v} : slot'[w] = slot[w] /\ load'[w] = load[w]
    BY <1>1, StartLoadEffect DEF Begin, TypeViews
  <1>3. \A w \in Views : w \in Nat /\ w # 0
    BY WebViewsAssumption DEF Views
  <1>4. /\ views \in [Views -> {"none", "live", "torn", "lost"}]
        /\ views' \in [Views -> {"none", "live", "torn", "lost"}]
        /\ views'[v] = "live" /\ \A w \in Views \ {v} : views'[w] = views[w]
        /\ pages \in [Views -> 0..MaxViews] /\ nextHandle \in Nat \ {0}
    BY <1>1, <1>3 DEF TypeViews, ViewsInv, HandleInv, Live
  <1>5. TypeViews'
    BY <1>1, <1>4, StartLoadEffect, BeginEffect DEF TypeViews
  <1>6. HandleInv'
    <2>1. CASE h # 0 /\ pages[h] = v /\ UNCHANGED views
      <3>1. \A w \in Views : ~Opening(w) /\ ~Opening(w)'
        BY <1>1, <2>1, BeginEffect DEF Opening
      <3>2. Live(v)
        BY <1>3, <2>1 DEF ViewsInv, HandleInv
      <3> QED BY <1>1, <1>2, <2>1, <3>1, <3>2, BeginEffect DEF ViewsInv, HandleInv, Live
    <2>2. CASE h = 0 /\ NewView(v) /\ views' = [views EXCEPT ![v] = "live"]
      <3>1. /\ \A w \in Views : ~Opening(w)
            /\ Opening(v)' /\ \A w \in Views \ {v} : ~Opening(w)'
        BY <1>1, <2>2, BeginEffect DEF Opening
      <3>2. /\ views[v] = "none" /\ nextHandle <= v
            /\ \A w \in Views : w < v => views[w] # "none"
        BY <2>2 DEF NewView, ViewsInv, HandleInv
      <3>3. \A k \in Views : pages[k] # v
        BY <1>3, <3>2 DEF ViewsInv, HandleInv, Live
      <3>4. \A w \in Views : views'[w] = "none" => v < w
        BY <1>3, <1>4, <3>2
      <3>5. \A w \in Views : views'[w] = "none" => nextHandle <= w /\ load'[w] = NoLoad
        BY <1>2, <1>4 DEF ViewsInv, HandleInv
      <3>6. \A k \in Views : pages[k] # 0 => views'[pages[k]] = "live" /\ k < nextHandle
        <4>1. \A k \in Views : pages[k] # 0 => pages[k] \in Views
          BY <1>4, WebViewsAssumption DEF Views
        <4> QED BY <1>4, <4>1 DEF ViewsInv, HandleInv, Live
      <3>7. \A w \in Views : views'[w] = "live" => w = v \/ \E k \in Views : pages[k] = w
        BY <1>4, <3>1 DEF ViewsInv, HandleInv, Live
      <3>8. \A j, k \in Views : pages[j] # 0 /\ pages[j] = pages[k] => j = k
        BY DEF ViewsInv, HandleInv
      <3> QED BY <1>1, <1>4, <2>2, <3>1, <3>2, <3>3, <3>4, <3>5, <3>6, <3>7, <3>8, BeginEffect
                 DEF HandleInv, Live
    <2> QED BY <2>1, <2>2
  <1>7. LostInv'
    BY <1>2, <1>4 DEF ViewsInv, LostInv
  <1>8. LoadInv'
    <2>1. /\ op'.pc # "idle" /\ op'.v = v /\ op'.n = load'[v].n
          /\ op'.clean => load'[v].late = {}
          /\ slot'[v].done = "none" /\ ~slot'[v].committed
      BY <1>1, BeginEffect
    <2> QED BY <1>1, <2>1, StartLoaded DEF LoadInv
  <1> QED BY <1>5, <1>6, <1>7, <1>8 DEF ViewsInv, OkShowsPage

(* A view is made and forgotten before it had a navigation.                 *)
LEMMA ForgottenKeeps ==
  ASSUME ViewsInv, UNCHANGED <<platform, pages, nextHandle, shown, verdict>>, op.pc = "idle",
         NEW v \in Views, NewView(v), Forgotten(v)
  PROVE  ViewsInv'
  <1>1. /\ views' = [views EXCEPT ![v] = "lost"] /\ UNCHANGED <<load, slot, nloads, op>>
        /\ views \in [Views -> {"none", "live", "torn", "lost"}] /\ views[v] = "none"
    BY DEF Forgotten, NewView, ViewsInv, TypeViews
  <1>2. views'[v] = "lost" /\ \A w \in Views \ {v} : views'[w] = views[w]
    BY <1>1
  <1>3. TypeViews'
    BY <1>1 DEF ViewsInv, TypeViews
  <1>4. \A h \in Views : pages[h] # 0 => pages[h] \in Views
    BY WebViewsAssumption DEF Views, ViewsInv, TypeViews
  <1>5. HandleInv'
    BY <1>1, <1>2, <1>4 DEF ViewsInv, HandleInv, Live, Opening
  <1>6. load[v].n = 0
    BY <1>1, ViewRecords DEF ViewsInv, HandleInv
  <1>7. LostInv'
    BY <1>1, <1>2, <1>6 DEF ViewsInv, LostInv
  <1>8. LoadInv' /\ OkShowsPage'
    BY <1>1 DEF ViewsInv, LoadInv, OkShowsPage
  <1> QED BY <1>3, <1>5, <1>7, <1>8 DEF ViewsInv

(* The opens.                                                               *)
LEMMA OpenKeeps ==
  ASSUME ViewsInv, UNCHANGED platform, NEW v \in Views, OpenWk(v) \/ OpenWpe(v) \/ OpenW2(v)
  PROVE  ViewsInv'
  <1>1. /\ op.pc = "idle" /\ NewView(v) /\ UNCHANGED <<pages, nextHandle, shown, verdict>>
        /\ \/ Begin(v, 0) /\ views' = [views EXCEPT ![v] = "live"]
           \/ Forgotten(v)
    BY DEF OpenWk, OpenWpe, OpenW2
  <1> QED BY <1>1, BeginKeeps, ForgottenKeeps

(* A refused URL resets the slot and nothing else.                          *)
LEMMA RefusedKeeps ==
  ASSUME ViewsInv, op.pc = "idle", NEW v \in Views, slot' = [slot EXCEPT ![v] = NoSlot],
         UNCHANGED <<platform, views, pages, nextHandle, load, shown, op, nloads, verdict>>
  PROVE  ViewsInv'
  <1>1. TypeViews'
    BY ViewRecords DEF ViewsInv, TypeViews
  <1>2. HandleInv' /\ LostInv' /\ LoadInv' /\ OkShowsPage'
    BY DEF ViewsInv, HandleInv, LostInv, LoadInv, Told, OkShowsPage, Live, Opening
  <1> QED BY <1>1, <1>2 DEF ViewsInv

(* The navigates.                                                           *)
LEMMA NavigateKeeps ==
  ASSUME ViewsInv, UNCHANGED platform, NEW h \in Views,
         NavigateWk(h) \/ NavigateWpe(h) \/ NavigateW2(h)
  PROVE  ViewsInv'
  <1>1. pages[h] \in Views /\ h # 0
    BY WebViewsAssumption DEF NavigateWk, NavigateWpe, NavigateW2, Views, ViewsInv, TypeViews
  <1>2. CASE Begin(pages[h], h)
    BY <1>1, <1>2, BeginKeeps DEF NavigateWk, NavigateWpe, NavigateW2
  <1>3. CASE NavigateWk(h) /\ slot' = [slot EXCEPT ![pages[h]] = NoSlot]
             /\ UNCHANGED <<load, nloads, op>>
    BY <1>1, <1>3, RefusedKeeps DEF NavigateWk
  <1> QED BY <1>2, <1>3 DEF NavigateWk, NavigateWpe, NavigateW2

-----------------------------------------------------------------------------
(* The wait for a navigation ends.                                          *)

(* An open that ended well gets the handle of its view, one that did not    *)
(* gives its view up; if it says Ok, the view shows what was asked for.     *)
LEMMA EndedKeeps ==
  ASSUME ViewsInv, UNCHANGED platform, op.pc # "idle", NEW ok \in BOOLEAN,
         NEW fate \in {"torn", "lost"}, Ended(ok, fate), platform = "webkit" => fate = "torn",
         ok => slot[op.v].done = "ok" \/ slot[op.v].committed
  PROVE  ViewsInv'
  <1> DEFINE v == op.v
  <1>1. /\ v \in Views /\ TypeViews /\ HandleInv /\ LostInv /\ LoadInv
        /\ views \in [Views -> {"none", "live", "torn", "lost"}]
        /\ pages \in [Views -> 0..MaxViews] /\ nextHandle \in Nat \ {0}
    BY DEF ViewsInv, TypeViews
  <1>2. /\ op' = NoOp /\ UNCHANGED <<load, shown, slot, nloads>>
        /\ verdict' = [ok |-> ok, v |-> v, n |-> op.n, open |-> op.h = 0, clean |-> op.clean,
                        failed |-> load[v].ph = "failed"]
    BY DEF Ended, Answer
  <1>3. op'.pc = "idle" /\ \A w \in Views : ~Opening(w)'
    BY <1>2, ViewRecords DEF Opening
  <1>4. Views = 1..MaxViews /\ MaxViews \in Nat
    BY WebViewsAssumption DEF Views
  <1>5. \A h \in Views : pages[h] # 0 => pages[h] \in Views
    BY <1>1, <1>4
  <1>6. TypeViews'
    <2>1. verdict' \in VerdictRecords
      <3>1. /\ op.n \in Nat /\ op.clean \in BOOLEAN /\ (op.h = 0) \in BOOLEAN
            /\ (load[v].ph = "failed") \in BOOLEAN
        BY <1>1 DEF TypeViews, OpRecords
      <3> QED BY <1>1, <1>2, <3>1 DEF VerdictRecords
    <2>2. views' \in [Views -> {"none", "live", "torn", "lost"}]
      BY <1>1 DEF Ended
    <2>3. pages' \in [Views -> 0..MaxViews] /\ nextHandle' \in Nat \ {0}
      <3>1. v \in 0..MaxViews /\ nextHandle + 1 \in Nat \ {0}
        BY <1>1, <1>4
      <3>2. CASE alloc_handle
        BY <1>1, <3>1, <3>2 DEF alloc_handle
      <3>3. CASE UNCHANGED <<pages, nextHandle>>
        BY <1>1, <3>3
      <3> QED BY <3>2, <3>3 DEF Ended
    <2>4. verdict'.v = v
      BY <1>2
    <2> QED BY <1>1, <1>2, <1>3, <2>1, <2>2, <2>3, <2>4, ViewRecords DEF TypeViews
  <1>7. HandleInv'
    <2>1. CASE op.h = 0 /\ ok
      <3>1. /\ pages' = [pages EXCEPT ![nextHandle] = v] /\ nextHandle' = nextHandle + 1
            /\ UNCHANGED views
        BY <2>1 DEF Ended, alloc_handle
      <3>2. /\ Live(v) /\ nextHandle <= v /\ \A h \in Views : pages[h] # v
            /\ \A w \in Views : views[w] = "none" => v < w
        BY <1>1, <2>1 DEF HandleInv, Opening
      <3>3. nextHandle \in Views /\ v # 0
        BY <1>1, <1>4, <3>2
      <3>4. /\ pages'[nextHandle] = v
            /\ \A h \in Views \ {nextHandle} : pages'[h] = pages[h]
        BY <1>1, <3>1, <3>3
      <3>5. ASSUME NEW h \in Views, pages'[h] # 0
            PROVE  views'[pages'[h]] = "live" /\ h < nextHandle'
        <4>1. CASE h = nextHandle
          BY <1>1, <3>1, <3>2, <3>4, <4>1 DEF Live
        <4>2. CASE h # nextHandle
          <5>1. pages'[h] = pages[h] /\ Live(pages[h]) /\ h < nextHandle
            BY <1>1, <3>4, <3>5, <4>2 DEF HandleInv
          <5> QED BY <1>1, <1>4, <3>1, <5>1 DEF Live
        <4> QED BY <4>1, <4>2
      <3>6. \A h, k \in Views : pages'[h] # 0 /\ pages'[h] = pages'[k] => h = k
        BY <1>1, <3>2, <3>4 DEF HandleInv
      <3>7. \A w \in Views : Live(w)' => \E h \in Views : pages'[h] = w
        <4>1. \A h \in Views : pages[h] = 0 \/ h # nextHandle
          BY <1>1, <1>4 DEF HandleInv
        <4> QED BY <1>1, <3>1, <3>3, <3>4, <4>1, <1>4 DEF HandleInv, Live, Opening
      <3>8. \A w \in Views : views'[w] = "none" => nextHandle' <= w /\ load'[w] = NoLoad
        BY <1>1, <1>2, <1>4, <3>1, <3>2 DEF HandleInv
      <3> QED BY <1>3, <3>5, <3>6, <3>7, <3>8 DEF HandleInv, Live
    <2>2. CASE op.h = 0 /\ ~ok
      <3>1. views' = [views EXCEPT ![v] = fate] /\ UNCHANGED <<pages, nextHandle>>
        BY <2>2 DEF Ended
      <3>2. /\ views'[v] \in {"torn", "lost"}
            /\ \A w \in Views \ {v} : views'[w] = views[w]
        BY <1>1, <3>1
      <3>3. \A h \in Views : pages[h] # v
        BY <1>1, <2>2 DEF HandleInv, Opening
      <3> QED BY <1>1, <1>2, <1>3, <1>5, <3>1, <3>2, <3>3 DEF HandleInv, Live, Opening
    <2>3. CASE op.h # 0
      <3>1. UNCHANGED <<views, pages, nextHandle>>
        BY <2>3 DEF Ended
      <3> QED BY <1>1, <1>2, <1>3, <2>3, <3>1 DEF HandleInv, Live, Opening
    <2> QED BY <2>1, <2>2, <2>3
  <1>8. LostInv'
    <2>1. platform = "webkit" => \A w \in Views : views'[w] = "lost" => views[w] = "lost"
      BY <1>1 DEF Ended
    <2> QED BY <1>1, <1>2, <2>1 DEF LostInv
  <1>9. LoadInv'
    BY <1>1, <1>2, <1>3 DEF LoadInv
  <1>10. OkShowsPage'
    <2>1. ASSUME ok, op.clean, ~(platform # "webkit" /\ load[v].ph = "failed")
          PROVE  shown[v] >= op.n
      <3>1. shown[v] = op.n /\ shown[v] \in Nat
        BY <1>1, <2>1 DEF LoadInv, TypeViews, Told
      <3> QED BY <3>1
    <2>2. /\ verdict'.ok = ok /\ verdict'.clean = op.clean /\ verdict'.v = v /\ verdict'.n = op.n
          /\ verdict'.failed = (load[v].ph = "failed")
      BY <1>2
    <2> QED BY <1>2, <2>1, <2>2 DEF OkShowsPage
  <1> QED BY <1>6, <1>7, <1>8, <1>9, <1>10 DEF ViewsInv

(* A launch that succeeded goes on to wait for the document.                *)
LEMMA LaunchedKeeps ==
  ASSUME ViewsInv, op.pc = "launch", op' = [op EXCEPT !.pc = "wait"],
         UNCHANGED <<platform, views, pages, nextHandle, load, shown, slot, nloads, verdict>>
  PROVE  ViewsInv'
  <1>1. op \in OpRecords
    BY DEF ViewsInv, TypeViews
  <1>2. /\ op' \in OpRecords /\ op'.pc = "wait" /\ op'.v = op.v /\ op'.h = op.h
        /\ op'.n = op.n /\ op'.clean = op.clean
    BY <1>1 DEF OpRecords
  <1>3. TypeViews'
    BY <1>2 DEF ViewsInv, TypeViews
  <1>4. HandleInv' /\ LostInv' /\ LoadInv' /\ OkShowsPage'
    BY <1>2 DEF ViewsInv, HandleInv, LostInv, LoadInv, Told, OkShowsPage, Live, Opening
  <1> QED BY <1>3, <1>4 DEF ViewsInv

(* The four waits.                                                          *)
LEMMA WaitsKeep ==
  ASSUME ViewsInv, UNCHANGED platform, Launch \/ WaitWk \/ WaitWpe \/ WaitW2
  PROVE  ViewsInv'
  <1> DEFINE s == slot[op.v]
  <1>1. CASE Launch
    <2>1. CASE s.done # "none" /\ Ended(s.done = "ok", "torn")
      BY <1>1, <2>1, EndedKeeps DEF Launch
    <2> QED BY <1>1, <2>1, EndedKeeps, LaunchedKeeps DEF Launch
  <1>2. CASE WaitWk
    <2>1. (s.done = "ok" \/ (s.done = "none" /\ s.committed)) \in BOOLEAN
      OBVIOUS
    <2> QED BY <1>2, <2>1, EndedKeeps DEF WaitWk
  <1>3. CASE WaitWpe
    BY <1>3, EndedKeeps DEF WaitWpe
  <1>4. CASE WaitW2
    BY <1>4, EndedKeeps DEF WaitW2
  <1> QED BY <1>1, <1>2, <1>3, <1>4

-----------------------------------------------------------------------------
(* The last calls: close, shutdown and the passkey shim.                    *)

(* A closed page's view is torn down.                                       *)
LEMMA CloseKeeps ==
  ASSUME ViewsInv, UNCHANGED platform, NEW h \in Views, NEW p, Close(h, p)
  PROVE  ViewsInv'
  <1>1. /\ op.pc = "idle" /\ pages[h] # 0 /\ views' = [views EXCEPT ![pages[h]] = "torn"]
        /\ pages' = [pages EXCEPT ![h] = 0]
        /\ UNCHANGED <<nextHandle, load, shown, slot, op, nloads, verdict>>
        /\ views \in [Views -> {"none", "live", "torn", "lost"}]
        /\ pages \in [Views -> 0..MaxViews]
    BY DEF Close, ViewsInv, TypeViews
  <1>2. \A k \in Views : pages[k] # 0 => pages[k] \in Views
    BY <1>1, WebViewsAssumption DEF Views
  <1>3. /\ views'[pages[h]] = "torn" /\ \A w \in Views \ {pages[h]} : views'[w] = views[w]
        /\ pages'[h] = 0 /\ \A k \in Views \ {h} : pages'[k] = pages[k]
    BY <1>1, <1>2
  <1>4. TypeViews'
    <2>1. 0 \in 0..MaxViews
      BY WebViewsAssumption
    <2>2. pages' \in [Views -> 0..MaxViews]
      BY <1>1, <2>1
    <2> QED BY <1>1, <2>2 DEF ViewsInv, TypeViews
  <1>5. HandleInv'
    <2>1. \A k \in Views \ {h} : pages[k] # pages[h]
      BY <1>1 DEF ViewsInv, HandleInv
    <2> QED BY <1>1, <1>2, <1>3, <2>1 DEF ViewsInv, HandleInv, Live, Opening
  <1>6. LostInv'
    BY <1>1, <1>2, <1>3 DEF ViewsInv, LostInv
  <1>7. LoadInv' /\ OkShowsPage'
    BY <1>1 DEF ViewsInv, LoadInv, OkShowsPage
  <1> QED BY <1>4, <1>5, <1>6, <1>7 DEF ViewsInv

(* At shutdown every page is closed.                                        *)
LEMMA DropKeeps ==
  ASSUME ViewsInv, UNCHANGED platform, DropWk
  PROVE  ViewsInv'
  <1>1. /\ op.pc = "idle" /\ pages' = [h \in Views |-> 0]
        /\ views' = [v \in Views |-> IF \E h \in Views : pages[h] = v THEN "torn" ELSE views[v]]
        /\ UNCHANGED <<nextHandle, load, shown, slot, op, nloads, verdict>>
    BY DEF DropWk
  <1>2. /\ \A v \in Views : views'[v] # "live"
        /\ \A v \in Views : views'[v] # "torn" => views'[v] = views[v]
    BY <1>1 DEF ViewsInv, HandleInv, Live, Opening
  <1>3. TypeViews'
    BY <1>1, WebViewsAssumption DEF ViewsInv, TypeViews
  <1>4. HandleInv'
    BY <1>1, <1>2 DEF ViewsInv, HandleInv, Live, Opening
  <1>5. LostInv' /\ LoadInv' /\ OkShowsPage'
    BY <1>1, <1>2 DEF ViewsInv, LostInv, LoadInv, OkShowsPage
  <1> QED BY <1>3, <1>4, <1>5 DEF ViewsInv

(* The shim is no business of the views.                                    *)
LEMMA ViewsIdle ==
  ASSUME ViewsInv,
         UNCHANGED <<platform, views, pages, nextHandle, load, shown, slot, op, nloads, verdict>>
  PROVE  ViewsInv'
  BY DEF ViewsInv, TypeViews, HandleInv, LostInv, LoadInv, Told, OkShowsPage, Live, Opening, Listening

(* Every step of the views family keeps its invariant.                      *)
LEMMA ViewsStep == ViewsInv /\ NextViews /\ UNCHANGED platform => ViewsInv'
  <1> SUFFICES ASSUME ViewsInv, NextViews, UNCHANGED platform PROVE ViewsInv'
    OBVIOUS
  <1>1. ASSUME NEW v \in Views,
               \/ didStart(v) \/ didCommit(v) \/ didFinish(v) \/ didFail(v)
               \/ LateReport(v) \/ PageNavigates(v) \/ OpenWk(v) \/ OpenWpe(v) \/ OpenW2(v)
        PROVE  ViewsInv'
    BY <1>1, ReportsKeep, PageNavigatesKeeps, OpenKeeps
  <1>2. ASSUME NEW h \in Views, NavigateWk(h) \/ NavigateWpe(h) \/ NavigateW2(h)
        PROVE  ViewsInv'
    BY <1>2, NavigateKeeps
  <1>3. ASSUME NEW h \in Views, CloseWk(h) \/ CloseWpe(h) \/ CloseW2(h) PROVE ViewsInv'
    BY <1>3, CloseKeeps DEF CloseWk, CloseWpe, CloseW2
  <1>4. ASSUME NEW h \in Views, enable_webauthn(h) PROVE ViewsInv'
    BY <1>4, ViewsIdle DEF enable_webauthn
  <1>5. CASE Launch \/ WaitWk \/ WaitWpe \/ WaitW2
    BY <1>5, WaitsKeep
  <1>6. CASE DropWk
    BY <1>6, DropKeeps
  <1> QED BY <1>1, <1>2, <1>3, <1>4, <1>5, <1>6 DEF NextViews

(* A live view belongs to one handle or to its open.                        *)
LEMMA HandlesOwn == ViewsInv => ViewsOwned
  <1> SUFFICES ASSUME ViewsInv PROVE ViewsOwned
    OBVIOUS
  <1>1. ASSUME NEW v \in Views, Live(v), ~(op.pc # "idle" /\ op.v = v /\ op.h = 0)
        PROVE  Cardinality({h \in Views : pages[h] = v}) = 1
    <2>1. PICK k \in Views : pages[k] = v
      BY <1>1 DEF ViewsInv, HandleInv, Opening
    <2>2. v # 0
      BY WebViewsAssumption DEF Views
    <2>3. {h \in Views : pages[h] = v} = {k}
      BY <2>1, <2>2 DEF ViewsInv, HandleInv
    <2> QED BY <2>3, FS_Singleton
  <1>2. ASSUME NEW v \in Views, op.pc # "idle", op.v = v, op.h = 0
        PROVE  \A h \in Views : pages[h] # v
    BY <1>2 DEF ViewsInv, HandleInv, Opening
  <1> QED BY <1>1, <1>2 DEF ViewsInv, LostInv, ViewsOwned

-----------------------------------------------------------------------------
(* Snapshots and waits.                                                     *)

(* The page has one document, which no script has touched.                  *)
LEMMA TreeStarts == InitScripts => TreeInv
  <1> SUFFICES ASSUME InitScripts PROVE TreeInv
    OBVIOUS
  <1>1. dom \in Trees /\ doc \in Nat /\ walker.on = FALSE /\ watch.changed = FALSE
    BY DEF InitScripts, Trees, NoWalker, NoWatch
  <1>2. TypeTree
    <2>1. NoWalker \in WalkerRecords /\ NoWatch \in WatchRecords
      BY DEF NoWalker, NoWatch, WalkerRecords, WatchRecords
    <2> QED BY <1>1, <2>1 DEF InitScripts, TypeTree
  <1>3. CacheInv /\ WatchInv
    BY <1>1 DEF InitScripts, CacheInv, WatchInv
  <1> QED BY <1>2, <1>3 DEF InitScripts, TreeInv, ReadsCurrent, SnapshotFresh, FirstWaitSawChange

(* What a wait in progress is.                                              *)
LEMMA WaitTypes ==
  /\ Idle.pc = "idle"
  /\ \A cond \in {"token", "net", "now"} : doc \in Nat =>
       LET j == [pc |-> "wait", cond |-> cond, base |-> -1, doc |-> doc] IN
       j \in WaitJobs /\ j.base = -1
  /\ TypeTree /\ job.pc = "wait" => job # Idle /\ job \in WaitJobs
  BY DEF Idle, WaitJobs, TypeTree

(* The parts of the tree's invariant follow what they speak of.             *)
LEMMA TreeParts ==
  /\ UNCHANGED <<dom, walker>> /\ CacheInv => CacheInv'
  /\ UNCHANGED <<dom, watch, job>> /\ WatchInv => WatchInv'
  /\ UNCHANGED <<seen, waited>> /\ ReadsCurrent => ReadsCurrent'
  BY DEF CacheInv, WatchInv, ReadsCurrent, SnapshotFresh, FirstWaitSawChange

(* A mutation marks the cache dirty and tells the watcher.                  *)
LEMMA MutateKeeps ==
  ASSUME TypeTree, CacheInv, WatchInv, ReadsCurrent, Mutate
  PROVE  TypeTree' /\ CacheInv' /\ WatchInv' /\ ReadsCurrent'
  <1>1. /\ dom' = [dom EXCEPT !.seen = @ + 1] /\ UNCHANGED <<doc, job, seen, waited>>
        /\ watch' = [watch EXCEPT !.changed = watch.tok]
    BY DEF Mutate, Noticed
  <1>2. PICK bare \in BOOLEAN :
             walker' = [[walker EXCEPT !.dirty = TRUE] EXCEPT !.bare = walker.bare \/ bare]
    BY DEF Mutate, Mutated
  <1>3. dom' \in Trees /\ dom'.seen = dom.seen + 1 /\ dom.seen \in Nat
    BY <1>1 DEF TypeTree, Trees
  <1>4. /\ watch' \in WatchRecords /\ watch'.changed = watch.tok /\ watch'.tok = watch.tok
    BY <1>1 DEF TypeTree, WatchRecords
  <1>5. walker' \in WalkerRecords /\ walker'.dirty = TRUE
    BY <1>2 DEF TypeTree, WalkerRecords
  <1>6. TypeTree'
    BY <1>1, <1>3, <1>4, <1>5 DEF TypeTree
  <1>7. CacheInv'
    BY <1>5 DEF CacheInv
  <1>8. WatchInv'
    <2>1. job # Idle => job.base \in Int
      BY DEF TypeTree, WaitJobs
    <2> QED BY <1>1, <1>3, <1>4, <2>1 DEF WatchInv
  <1> QED BY <1>1, <1>6, <1>7, <1>8, TreeParts

(* A value the user types marks the cache dirty.                            *)
LEMMA TypeValueKeeps ==
  ASSUME TypeTree, CacheInv, WatchInv, ReadsCurrent, TypeValue
  PROVE  TypeTree' /\ CacheInv' /\ WatchInv' /\ ReadsCurrent'
  <1>1. /\ dom' = [dom EXCEPT !.typed = @ + 1] /\ UNCHANGED <<doc, job, watch, seen, waited>>
        /\ walker' = IF walker.on THEN [walker EXCEPT !.dirty = TRUE] ELSE walker
    BY DEF TypeValue, Mutated
  <1>2. dom' \in Trees /\ dom'.seen = dom.seen
    BY <1>1 DEF TypeTree, Trees
  <1>3. walker' \in WalkerRecords /\ (walker'.on => walker'.dirty)
    BY <1>1 DEF TypeTree, WalkerRecords
  <1>4. TypeTree' /\ CacheInv' /\ WatchInv'
    BY <1>1, <1>2, <1>3 DEF TypeTree, CacheInv, WatchInv
  <1> QED BY <1>1, <1>4, TreeParts

(* What nobody hears of is in neither.                                      *)
LEMMA QuietChangeKeeps ==
  ASSUME TypeTree, CacheInv, WatchInv, ReadsCurrent, QuietChange
  PROVE  TypeTree' /\ CacheInv' /\ WatchInv' /\ ReadsCurrent'
  <1>1. /\ dom' = [dom EXCEPT !.quiet = @ + 1]
        /\ UNCHANGED <<doc, job, walker, watch, seen, waited>>
    BY DEF QuietChange
  <1>2. dom' \in Trees /\ dom'.seen = dom.seen /\ dom'.typed = dom.typed
    BY <1>1 DEF TypeTree, Trees
  <1>3. TypeTree' /\ CacheInv' /\ WatchInv'
    BY <1>1, <1>2 DEF TypeTree, CacheInv, WatchInv
  <1> QED BY <1>1, <1>3, TreeParts

(* A snapshot is the clean cache or a walk, whose own marks make it dirty.  *)
LEMMA SnapshotKeeps ==
  ASSUME TypeTree, CacheInv, WatchInv, ReadsCurrent, Snapshot
  PROVE  TypeTree' /\ CacheInv' /\ WatchInv' /\ ReadsCurrent'
  <1> DEFINE cached == walker.on /\ ~walker.dirty
             tree == IF cached THEN walker.cache ELSE dom
             marks == ~cached /\ walker.bare
             walked == [on |-> TRUE, dirty |-> marks, cache |-> dom, bare |-> FALSE]
  <1>1. /\ seen' = [tree |-> tree, dom |-> dom]
        /\ walker' = IF cached THEN walker ELSE walked
        /\ watch' = IF marks THEN [watch EXCEPT !.changed = watch.tok] ELSE watch
        /\ job = Idle /\ UNCHANGED <<doc, job, dom, waited>>
    BY DEF Snapshot, Noticed, docVars
  <1>2. watch' \in WatchRecords /\ (watch'.changed => watch'.tok)
    BY <1>1 DEF TypeTree, WatchRecords, WatchInv
  <1>3. walked \in WalkerRecords /\ walked.cache = dom
    BY DEF TypeTree, WalkerRecords
  <1>4. TypeTree'
    BY <1>1, <1>2, <1>3 DEF TypeTree
  <1>5. CacheInv'
    BY <1>1, <1>3 DEF CacheInv
  <1>6. WatchInv'
    BY <1>1, <1>2 DEF WatchInv
  <1>7. tree.seen = dom.seen /\ tree.typed = dom.typed
    BY DEF CacheInv
  <1>8. ReadsCurrent'
    BY <1>1, <1>7 DEF ReadsCurrent, SnapshotFresh, FirstWaitSawChange
  <1> QED BY <1>4, <1>5, <1>6, <1>8

(* A wait begins without a base.                                            *)
LEMMA StartWaitKeeps ==
  ASSUME TypeTree, CacheInv, WatchInv, ReadsCurrent,
         NEW cond \in {"token", "net", "now"}, StartWait(cond)
  PROVE  TypeTree' /\ CacheInv' /\ WatchInv' /\ ReadsCurrent'
  <1>1. /\ job' = [pc |-> "wait", cond |-> cond, base |-> -1, doc |-> doc]
        /\ UNCHANGED <<doc, dom, walker, watch, seen, waited>>
    BY DEF StartWait, StartJob, docVars, treeVars
  <1>2. job' \in WaitJobs /\ job'.base = -1
    BY <1>1, WaitTypes DEF TypeTree
  <1> QED BY <1>1, <1>2, TreeParts DEF TypeTree, WatchInv

(* A poll that installs its watcher notes where the document is; one that   *)
(* succeeds had its watcher told of a later change.                         *)
LEMMA PollWaitKeeps ==
  ASSUME TypeTree, CacheInv, WatchInv, ReadsCurrent, PollWait
  PROVE  TypeTree' /\ CacheInv' /\ WatchInv' /\ ReadsCurrent'
  <1>1. /\ job.pc = "wait" /\ watch' = Installed /\ UNCHANGED <<doc, dom, walker, seen>>
    BY DEF PollWait, docVars
  <1>2. job # Idle /\ job \in WaitJobs /\ job.base \in Int /\ doc \in Nat /\ dom.seen \in Nat
    BY <1>1, WaitTypes DEF WaitJobs, TypeTree, Trees
  <1>3. /\ watch' \in WatchRecords /\ watch'.changed = watch.changed
        /\ watch'.tok = (watch.tok \/ job.cond = "token")
    BY <1>1 DEF Installed, TypeTree, WatchRecords
  <1>4. CacheInv'
    BY <1>1, TreeParts
  <1>5. CASE /\ Satisfied /\ job' = Idle
             /\ waited' = [cond |-> job.cond, base |-> job.base, doc |-> job.doc,
                           now |-> dom.seen, at |-> doc]
    <2>1. TypeTree' /\ WatchInv'
      BY <1>1, <1>3, <1>5 DEF TypeTree, WatchInv
    <2>2. job.cond = "token" /\ job.base >= 0 => dom.seen > job.base
      BY <1>2, <1>5 DEF Satisfied, WatchInv
    <2>3. ReadsCurrent'
      BY <1>1, <1>5, <2>2 DEF ReadsCurrent, SnapshotFresh, FirstWaitSawChange
    <2> QED BY <1>4, <2>1, <2>3
  <1>6. CASE Installed = watch /\ UNCHANGED <<job, waited>>
    BY <1>1, <1>4, <1>6, TreeParts DEF TypeTree
  <1>7. CASE Installed # watch /\ job' = [job EXCEPT !.base = dom.seen, !.doc = doc]
             /\ UNCHANGED waited
    <2>1. job' \in WaitJobs /\ job'.cond = job.cond /\ job'.base = dom.seen
      <3>1. job \in WaitJobs /\ dom.seen \in Int /\ doc \in Nat
        BY <1>2
      <3>2. job' = [job EXCEPT !.base = dom.seen, !.doc = doc]
        BY <1>7
      <3> QED BY <3>1, <3>2 DEF WaitJobs
    <2>2. job.cond = "token" => ~watch.changed
      BY <1>7 DEF Installed, TypeTree, WatchRecords, WatchInv
    <2>3. TypeTree'
      BY <1>1, <1>3, <2>1 DEF TypeTree
    <2>4. watch.changed => watch.tok
      BY DEF WatchInv
    <2>5. WatchInv'
      <3>1. watch'.changed => watch'.tok
        BY <1>3, <2>4
      <3>2. job'.cond = "token" => ~watch'.changed
        BY <1>3, <2>1, <2>2
      <3>3. job'.base <= dom'.seen
        BY <1>1, <1>2, <2>1
      <3> QED BY <3>1, <3>2, <3>3 DEF WatchInv
    <2> QED BY <1>1, <1>4, <1>7, <2>3, <2>5, TreeParts
  <1> QED BY <1>5, <1>6, <1>7 DEF PollWait, EndJob

(* A wait that fails, and the network's quiet.                              *)
LEMMA OtherTreeKeeps ==
  ASSUME TypeTree, CacheInv, WatchInv, ReadsCurrent, FailWait \/ NetTick
  PROVE  TypeTree' /\ CacheInv' /\ WatchInv' /\ ReadsCurrent'
  <1>1. CASE FailWait
    BY <1>1, TreeParts DEF FailWait, EndJob, docVars, treeVars, TypeTree, WatchInv
  <1>2. CASE NetTick
    <2>1. /\ watch' \in WatchRecords /\ watch'.tok = watch.tok
          /\ watch'.changed = watch.changed
      BY <1>2 DEF NetTick, TypeTree, WatchRecords
    <2> QED BY <1>2, <2>1, TreeParts DEF NetTick, docVars, TypeTree, WatchInv
  <1> QED BY <1>1, <1>2

(* A new document has neither a cache nor a watcher.                        *)
LEMMA DocumentKeepsTree ==
  ASSUME TypeTree, CacheInv, WatchInv, ReadsCurrent, NewDocument
  PROVE  TypeTree' /\ CacheInv' /\ WatchInv' /\ ReadsCurrent'
  <1>1. /\ dom' = [dom EXCEPT !.seen = @ + 1] /\ doc' = doc + 1
        /\ walker' = NoWalker /\ watch' = NoWatch /\ UNCHANGED <<job, seen, waited>>
    BY DEF NewDocument
  <1>2. dom' \in Trees /\ dom'.seen = dom.seen + 1 /\ dom.seen \in Nat /\ doc' \in Nat
    BY <1>1 DEF TypeTree, Trees
  <1>3. /\ walker' \in WalkerRecords /\ watch' \in WatchRecords
        /\ walker'.on = FALSE /\ watch'.changed = FALSE
    BY <1>1 DEF WalkerRecords, WatchRecords, NoWalker, NoWatch
  <1>4. TypeTree'
    BY <1>1, <1>2, <1>3 DEF TypeTree
  <1>5. CacheInv'
    BY <1>3 DEF CacheInv
  <1>6. WatchInv'
    <2>1. job # Idle => job.base \in Int
      BY DEF TypeTree, WaitJobs
    <2> QED BY <1>1, <1>2, <1>3, <2>1 DEF WatchInv
  <1> QED BY <1>1, <1>4, <1>5, <1>6, TreeParts

(* Every step of the scripts keeps the tree's invariant.                    *)
LEMMA TreeStep == TreeInv /\ Scripted /\ UNCHANGED family => TreeInv'
  <1> SUFFICES ASSUME TreeInv, Scripted, UNCHANGED family PROVE TreeInv'
    OBVIOUS
  <1>1. CASE family # "tree"
    BY <1>1 DEF Scripted, treeVars, NewDocument, TreeInv
  <1>2. CASE family = "tree"
    <2>1. TypeTree /\ CacheInv /\ WatchInv /\ ReadsCurrent
      BY <1>2 DEF TreeInv
    <2>2. NextTree \/ NewDocument
      BY <1>2 DEF Scripted
    <2>3. TypeTree' /\ CacheInv' /\ WatchInv' /\ ReadsCurrent'
      BY <2>1, <2>2, MutateKeeps, TypeValueKeeps, QuietChangeKeeps, SnapshotKeeps,
         StartWaitKeeps, PollWaitKeeps, OtherTreeKeeps, DocumentKeepsTree DEF NextTree
    <2> QED BY <1>2, <2>3 DEF TreeInv
  <1> QED BY <1>1, <1>2

-----------------------------------------------------------------------------
(* Save and load.                                                           *)

(* The scripts' first states.                                               *)
LEMMA ScriptTypes ==
  /\ NoScript \in DumpRecords /\ NoScript \in RestoreRecords
  /\ NoScript.st = "none" /\ NoScript.dbs = {}
  /\ \A dbs \in SUBSET Dbs :
       /\ Kickoff(dbs) \in DumpRecords /\ Kickoff(dbs) \in RestoreRecords
       /\ Kickoff(dbs).st = "pending" /\ Kickoff(dbs).left = dbs
       /\ Kickoff(dbs).dbs = {} /\ Kickoff(dbs).failed = {}
  BY DEF NoScript, Kickoff, DumpRecords, RestoreRecords, ScriptStates

(* A job's label tells what kind of job it is.                              *)
LEMMA AuthJobs ==
  /\ Idle.pc = "idle"
  /\ TypeAuth /\ job.pc \in {"storage", "save"} => job \in SaveJobs
  /\ TypeAuth /\ job.pc \in {"cookies", "load"} => job \in LoadJobs
  BY DEF Idle, TypeAuth, SaveJobs, LoadJobs

(* What a site sets can be stored, and none of it is without a domain.      *)
LEMMA CookieTypes == Cookies \subseteq Stored /\ \A c \in Stored : c \notin Legacy
  <1>1. Cookies \subseteq [id : {c.id : c \in Cookies}, http : BOOLEAN,
                           site : {c.site : c \in Cookies}]
    BY PageScriptsAssumption
  <1>2. \A c \in Stored : c.id \in CookieIds
    BY DEF Stored
  <1>3. \A c \in Cookies, d \in Legacy : c.id # d.id
    BY PageScriptsAssumption
  <1> QED BY <1>1, <1>2, <1>3 DEF Stored, CookieIds

(* What a backend reads of the store: of each cookie its name and HttpOnly, *)
(* and SameSite except on macOS; only on macOS surely all of them.          *)
LEMMA CookiesRead ==
  ASSUME jar \subseteq Stored, NEW C \in get_all_cookies
  PROVE  /\ C \subseteq Stored
         /\ \A c \in C : \E k \in jar :
              c.id = k.id /\ c.http = k.http /\ (platform # "webkit" => c.site = k.site)
         /\ platform = "webkit" => {c.id : c \in C} = {k.id : k \in jar}
  <1>1. \A c \in Stored : /\ SerializeWk(c) \in Stored
                          /\ SerializeWk(c).id = c.id /\ SerializeWk(c).http = c.http
    BY DEF SerializeWk, Stored
  <1>2. CASE platform = "webkit" /\ C = {SerializeWk(c) : c \in jar}
    BY <1>1, <1>2
  <1>3. CASE platform # "webkit" /\ C \subseteq jar
    BY <1>3
  <1>4. \/ platform = "webkit" /\ C = {SerializeWk(c) : c \in jar}
        \/ platform # "webkit" /\ C \subseteq jar
    BY DEF get_all_cookies, GetWk, GetWpe, GetW2, SerializeWpe, SerializeW2
  <1> QED BY <1>2, <1>3, <1>4

(* The parts of save and load follow what they speak of.                    *)
AuthAll == TypeAuth /\ DumpInv /\ RestoreInv /\ AuthRoundTrip

LEMMA AuthParts ==
  /\ UNCHANGED <<dump, job, idb>> /\ DumpInv => DumpInv'
  /\ UNCHANGED <<platform, restore, job>> /\ RestoreInv => RestoreInv'
  /\ UNCHANGED <<platform, blob>> /\ BlobComplete /\ LoadRestores => BlobComplete' /\ LoadRestores'
  /\ blob' = <<>> => BlobComplete' /\ LoadRestores'
  /\ UNCHANGED <<platform, saved>> /\ CookiesKeepFlags => CookiesKeepFlags'
  /\ UNCHANGED <<replayed, baseline>> /\ CookieEventsAddUp => CookieEventsAddUp'
  BY DEF DumpInv, RestoreInv, BlobComplete, LoadRestores, CookiesKeepFlags, CookieEventsAddUp

(* The document writes to a database or gets a cookie.                      *)
LEMMA SiteKeeps ==
  ASSUME AuthAll, UNCHANGED platform, WriteDb \/ SiteCookie
  PROVE  AuthAll'
  <1> USE DEF AuthAll, AuthRoundTrip
  <1>1. CASE WriteDb
    <2>1. PICK d \in Dbs : idb' = [idb EXCEPT ![d] = @ + 1]
      BY <1>1 DEF WriteDb
    <2>2. idb' \in [Dbs -> Nat] /\ \A e \in Dbs : idb'[e] >= idb[e]
      BY <2>1 DEF TypeAuth
    <2>3. UNCHANGED <<job, dump, restore, blob, jar, baseline, replayed, saved>>
      BY <1>1 DEF WriteDb, cookieVars
    <2>4. TypeAuth'
      BY <2>2, <2>3 DEF TypeAuth
    <2>5. \A e \in Dbs : job.pc \in {"storage", "save"} => job.from[e] <= idb'[e]
      <3>1. job.pc \in {"storage", "save"} => job.from \in [Dbs -> Nat]
        BY AuthJobs DEF SaveJobs
      <3> QED BY <2>2, <3>1 DEF DumpInv, TypeAuth
    <2>6. DumpInv'
      BY <2>3, <2>5 DEF DumpInv
    <2> QED BY <2>3, <2>4, <2>6, AuthParts
  <1>2. CASE SiteCookie
    <2>1. PICK c \in Cookies :
               jar' = IF c \in jar THEN jar \ {c} ELSE {k \in jar : k.id # c.id} \cup {c}
      BY <1>2 DEF SiteCookie
    <2>2. jar' \subseteq Stored
      BY <2>1, CookieTypes DEF TypeAuth
    <2> QED BY <1>2, <2>2, AuthParts DEF SiteCookie, idbVars, TypeAuth
  <1> QED BY <1>1, <1>2

(* The events since the baseline take its names to those of now.            *)
LEMMA EventsKeep ==
  ASSUME AuthAll, UNCHANGED platform, cookie_events
  PROVE  AuthAll'
  <1> USE DEF AuthAll, AuthRoundTrip
  <1>1. PICK C \in get_all_cookies : replayed' = Diffed(baseline, C) /\ baseline' = C
    BY DEF cookie_events
  <1>2. replayed = {c.id : c \in baseline}
    BY DEF CookieEventsAddUp
  <1>3. CookieEventsAddUp'
    BY <1>1, <1>2 DEF Diffed, CookieEventsAddUp
  <1> QED BY <1>3, AuthParts DEF cookie_events, idbVars, TypeAuth

(* A save begins; it is `again' if it finds an earlier dump.                *)
LEMMA SaveCookiesKeeps ==
  ASSUME AuthAll, UNCHANGED platform, SaveCookies
  PROVE  AuthAll'
  <1> USE DEF AuthAll, AuthRoundTrip
  <1>1. PICK C \in get_all_cookies : saved' = [blob |-> C, jar |-> jar]
    BY DEF SaveCookies
  <1>2. /\ job' = [pc |-> "storage", from |-> idb, again |-> dump.st # "none"]
        /\ blob' = <<>> /\ UNCHANGED <<idb, dump, restore, jar, baseline, replayed>>
    BY DEF SaveCookies, StartJob
  <1>3. job' \in SaveJobs
    BY <1>2 DEF SaveJobs, TypeAuth
  <1>4. C \subseteq Stored
    BY CookiesRead DEF TypeAuth
  <1>5. TypeAuth'
    BY <1>1, <1>2, <1>3, <1>4 DEF TypeAuth
  <1>6. DumpInv'
    <2>1. job'.again => dump.st # "none"
      BY <1>2
    <2>2. ~job'.again => dump.st = "none" /\ dump.dbs = {}
      BY <1>2 DEF DumpInv
    <2>3. \A d \in Dbs : idb[d] <= idb[d]
      BY DEF TypeAuth
    <2> QED BY <1>2, <2>2, <2>3 DEF DumpInv
  <1>7. RestoreInv'
    BY <1>2 DEF RestoreInv
  <1>8. CookiesKeepFlags'
    BY <1>1, CookiesRead DEF CookiesKeepFlags, TypeAuth
  <1> QED BY <1>2, <1>5, <1>6, <1>7, <1>8, AuthParts

(* A job that ends leaves nothing to say of it.                             *)
LEMMA JobEnds ==
  ASSUME AuthAll, job' = Idle, UNCHANGED <<platform, idb, dump, saved>>, jar' \subseteq Stored,
         restore' \in {restore, NoScript}
  PROVE  TypeAuth' /\ DumpInv' /\ RestoreInv'
  <1>1. job'.pc = "idle"
    BY AuthJobs
  <1>2. restore' \in RestoreRecords /\ (restore'.st = "done" => restore' = restore)
    BY ScriptTypes DEF AuthAll, TypeAuth
  <1> QED BY <1>1, <1>2 DEF AuthAll, TypeAuth, DumpInv, RestoreInv

(* Nothing has been dumped when a dump starts.                              *)
LEMMA DumpStarts ==
  ASSUME AuthAll, dump.st = "none", dump' = Kickoff(Dbs), UNCHANGED idb,
         \/ job.pc = "save" /\ UNCHANGED job
         \/ job.pc = "storage" /\ job' = [job EXCEPT !.pc = "save"]
  PROVE  DumpInv'
  <1> USE DEF AuthAll, AuthRoundTrip
  <1>1. /\ job'.pc \in {"storage", "save"} => job.pc \in {"storage", "save"}
        /\ job.pc \in {"storage", "save"} => job'.from = job.from /\ job'.again = job.again
        /\ job'.pc # "storage"
    BY AuthJobs DEF SaveJobs
  <1> QED BY <1>1, ScriptTypes DEF DumpInv

(* The storage script ran; the dump runs or was found.                      *)
LEMMA SaveStorageKeeps ==
  ASSUME AuthAll, UNCHANGED platform, run_save_storage_only
  PROVE  AuthAll'
  <1> USE DEF AuthAll, AuthRoundTrip
  <1>1. job.pc = "storage" /\ UNCHANGED <<idb, restore, blob, jar, baseline, replayed, saved>>
    BY DEF run_save_storage_only, cookieVars
  <1>2. CASE /\ job' = [job EXCEPT !.pc = "save"]
             /\ dump' = (IF dump.st = "none" THEN Kickoff(Dbs) ELSE dump)
    <2>1. job \in SaveJobs
      BY <1>1, AuthJobs
    <2>2. /\ job' \in SaveJobs /\ job'.pc = "save" /\ job'.from = job.from
          /\ job'.again = job.again
      BY <1>2, <2>1 DEF SaveJobs
    <2>3. TypeAuth'
      BY <1>1, <1>2, <2>2, ScriptTypes DEF TypeAuth
    <2>4. DumpInv'
      BY <1>1, <1>2, <2>2, DumpStarts DEF DumpInv
    <2>5. RestoreInv'
      BY <1>1, <2>2 DEF RestoreInv
    <2> QED BY <1>1, <2>3, <2>4, <2>5, AuthParts
  <1>3. CASE job' = Idle /\ UNCHANGED dump
    <2>1. TypeAuth' /\ DumpInv' /\ RestoreInv'
      <3>1. jar' \subseteq Stored
        BY <1>1 DEF TypeAuth
      <3> QED BY <1>1, <1>3, <3>1, JobEnds
    <2> QED BY <1>1, <1>3, <2>1, AuthParts
  <1> QED BY <1>2, <1>3 DEF run_save_storage_only, EndJob

(* A database is read as it is now, or not at all.                          *)
LEMMA DumpDbKeeps ==
  ASSUME AuthAll, UNCHANGED platform, NEW d \in Dbs, DumpDb(d)
  PROVE  AuthAll'
  <1> USE DEF AuthAll, AuthRoundTrip
  <1>1. /\ dump.st = "pending" /\ d \in dump.left
        /\ UNCHANGED <<job, idb, restore, blob, jar, baseline, replayed, saved>>
    BY DEF DumpDb, cookieVars
  <1>2. dump \in DumpRecords /\ idb \in [Dbs -> Nat]
    BY DEF TypeAuth
  <1>3. PICK read \in SUBSET {<<d, idb[d]>>, <<d, 0>>}, part \in SUBSET {d}, bad \in SUBSET {d} :
             /\ dump'.dbs = dump.dbs \cup read /\ dump'.part = dump.part \cup part
             /\ dump'.failed = dump.failed \cup bad
             /\ read = {} => bad = {d}
             /\ <<d, 0>> \in read => part = {d} \/ idb[d] = 0
             /\ dump'.left = dump.left \ {d}
             /\ dump'.st = IF dump.left = {d} THEN "done" ELSE "pending"
             /\ dump' \in DumpRecords
    <2> DEFINE rest == [dump EXCEPT !.left = @ \ {d},
                                    !.st = IF dump.left = {d} THEN "done" ELSE "pending"]
    <2>1. /\ rest \in DumpRecords /\ rest.dbs = dump.dbs /\ rest.part = dump.part
          /\ rest.failed = dump.failed /\ rest.left = dump.left \ {d}
          /\ rest.st = IF dump.left = {d} THEN "done" ELSE "pending"
      <3>1. (IF dump.left = {d} THEN "done" ELSE "pending") \in ScriptStates
        BY DEF ScriptStates
      <3> QED BY <1>2, <3>1 DEF DumpRecords
    <2>2. \/ dump' = [rest EXCEPT !.dbs = @ \cup {<<d, idb[d]>>}]
          \/ dump' = [rest EXCEPT !.dbs = @ \cup {<<d, 0>>}, !.part = @ \cup {d}]
          \/ dump' = [rest EXCEPT !.failed = @ \cup {d}]
      BY DEF DumpDb
    <2> HIDE DEF rest
    <2>3. <<d, idb[d]>> \in Dbs \X Nat /\ <<d, 0>> \in Dbs \X Nat
      BY <1>2
    <2>4. CASE dump' = [rest EXCEPT !.dbs = @ \cup {<<d, idb[d]>>}]
      <3> WITNESS {<<d, idb[d]>>} \in SUBSET {<<d, idb[d]>>, <<d, 0>>}, {} \in SUBSET {d},
                  {} \in SUBSET {d}
      <3>1. /\ dump'.dbs = dump.dbs \cup {<<d, idb[d]>>} /\ dump'.part = dump.part
            /\ dump'.failed = dump.failed /\ dump'.left = rest.left /\ dump'.st = rest.st
            /\ dump' \in DumpRecords
        BY <2>1, <2>3, <2>4 DEF DumpRecords
      <3> QED BY <2>1, <3>1
    <2>5. CASE dump' = [rest EXCEPT !.dbs = @ \cup {<<d, 0>>}, !.part = @ \cup {d}]
      <3> WITNESS {<<d, 0>>} \in SUBSET {<<d, idb[d]>>, <<d, 0>>}, {d} \in SUBSET {d},
                  {} \in SUBSET {d}
      <3>1. /\ dump'.dbs = dump.dbs \cup {<<d, 0>>} /\ dump'.part = dump.part \cup {d}
            /\ dump'.failed = dump.failed /\ dump'.left = rest.left /\ dump'.st = rest.st
            /\ dump' \in DumpRecords
        BY <2>1, <2>3, <2>5 DEF DumpRecords
      <3> QED BY <2>1, <3>1
    <2>6. CASE dump' = [rest EXCEPT !.failed = @ \cup {d}]
      <3> WITNESS {} \in SUBSET {<<d, idb[d]>>, <<d, 0>>}, {} \in SUBSET {d},
                  {d} \in SUBSET {d}
      <3>1. /\ dump'.dbs = dump.dbs /\ dump'.part = dump.part
            /\ dump'.failed = dump.failed \cup {d} /\ dump'.left = rest.left
            /\ dump'.st = rest.st /\ dump' \in DumpRecords
        BY <2>1, <2>6 DEF DumpRecords
      <3> QED BY <2>1, <3>1
    <2> QED BY <2>2, <2>4, <2>5, <2>6
  <1>4. TypeAuth'
    BY <1>1, <1>3 DEF TypeAuth
  <1>5. DumpInv'
    <2>1. \A e \in Dbs : e \in dump'.left \cup dump'.failed \/ \E x \in dump'.dbs : x[1] = e
      <3>1. ASSUME NEW e \in Dbs
            PROVE  e \in dump.left \cup dump.failed \/ \E x \in dump.dbs : x[1] = e
        BY <1>1 DEF DumpInv
      <3>2. read # {} => \E x \in read : x[1] = d
        OBVIOUS
      <3> QED BY <1>3, <3>1, <3>2
    <2>2. dump'.st = "done" => dump'.left = {}
      BY <1>3
    <2>3. job.pc \in {"storage", "save"} /\ ~job.again =>
             \A x \in dump'.dbs : job.from[x[1]] <= x[2] \/ x[1] \in dump'.part
      <3>1. job.pc \in {"storage", "save"} => job.from[d] <= idb[d]
        BY DEF DumpInv
      <3>2. \A x \in read : x[1] = d /\ (x[2] = idb[d] \/ part = {d})
        BY <1>3
      <3>3. job.pc \in {"storage", "save"} /\ ~job.again =>
               \A x \in dump.dbs : job.from[x[1]] <= x[2] \/ x[1] \in dump.part
        BY DEF DumpInv
      <3> QED BY <1>3, <3>1, <3>2, <3>3
    <2> QED BY <1>1, <1>3, <2>1, <2>2, <2>3 DEF DumpInv
  <1> QED BY <1>1, <1>4, <1>5, AuthParts

(* An origin without IndexedDB.                                             *)
LEMMA DumpDeniedKeeps ==
  ASSUME AuthAll, UNCHANGED platform, DumpDenied
  PROVE  AuthAll'
  <1> USE DEF AuthAll, AuthRoundTrip
  <1>1. /\ dump.st = "pending"
        /\ UNCHANGED <<job, idb, restore, blob, jar, baseline, replayed, saved>>
    BY DEF DumpDenied, cookieVars
  <1>2. /\ dump' \in DumpRecords /\ dump'.st \in {"done", "error"} /\ dump'.dbs = dump.dbs
        /\ dump'.left = {} /\ dump'.failed = Dbs /\ dump'.part = dump.part
    BY DEF DumpDenied, AuthAll, TypeAuth, DumpRecords, ScriptStates
  <1>3. TypeAuth' /\ DumpInv'
    BY <1>1, <1>2 DEF TypeAuth, DumpInv
  <1> QED BY <1>1, <1>3, AuthParts

(* A save ends with every database the dump could read, or says that it is  *)
(* incomplete; in a new document it starts over.                            *)
LEMMA SaveEndKeeps ==
  ASSUME AuthAll, UNCHANGED platform, run_save_indexed_db
  PROVE  AuthAll'
  <1> USE DEF AuthAll, AuthRoundTrip
  <1>1. job.pc = "save" /\ UNCHANGED <<idb, restore, jar, baseline, replayed, saved>>
    BY DEF run_save_indexed_db, cookieVars
  <1>2. CASE dump.st = "none" /\ dump' = Kickoff(Dbs) /\ UNCHANGED <<job, blob>>
    <2>1. TypeAuth'
      BY <1>1, <1>2, ScriptTypes DEF TypeAuth
    <2>2. DumpInv'
      BY <1>1, <1>2, DumpStarts
    <2> QED BY <1>1, <1>2, <2>1, <2>2, AuthParts
  <1>3. CASE /\ job' = Idle /\ UNCHANGED dump
             /\ \/ dump.st = "done" /\ blob' = Saved(dump.dbs, FALSE)
                \/ dump.st = "error" /\ blob' = Saved({}, FALSE)
                \/ dump.st = "pending" /\ blob' = Saved({}, TRUE)
                \/ blob' = [Saved({}, FALSE) EXCEPT !.sure = FALSE]
    <2>1. TypeAuth' /\ DumpInv' /\ RestoreInv'
      <3>1. jar' \subseteq Stored
        BY <1>1 DEF TypeAuth
      <3> QED BY <1>1, <1>3, <3>1, JobEnds
    <2>2. LoadRestores'
      <3>1. \A dbs, inc : Saved(dbs, inc).kind = "save"
                          /\ [Saved(dbs, inc) EXCEPT !.sure = FALSE].kind = "save"
        BY DEF Saved
      <3>2. blob'.kind = "save"
        BY <1>3, <3>1
      <3> QED BY <3>2 DEF LoadRestores
    <2>3. ASSUME dump.st = "done", ~job.again, dump.failed = {}, NEW d \in Dbs
          PROVE  \E e \in dump.dbs : e[1] = d /\ (e[2] >= job.from[d] \/ d \in dump.part)
      <3>1. PICK e \in dump.dbs : e[1] = d
        BY <2>3 DEF DumpInv
      <3>2. /\ job.from[d] <= e[2] \/ d \in dump.part
            /\ job.from[d] \in Nat /\ e[2] \in Nat
        BY <1>1, <2>3, <3>1, AuthJobs DEF DumpInv, TypeAuth, SaveJobs, DumpRecords
      <3> QED BY <3>1, <3>2
    <2>4. BlobComplete'
      <3>1. CASE dump.st = "done" /\ blob' = Saved(dump.dbs, FALSE)
        <4>1. /\ blob'.dbs = dump.dbs /\ blob'.from = job.from /\ blob'.part = dump.part
              /\ blob'.sure => ~job.again /\ dump.failed = {}
          BY <3>1 DEF Saved
        <4>2. blob'.sure => \A d \in Dbs : \E e \in dump.dbs :
                               e[1] = d /\ (e[2] >= job.from[d] \/ d \in dump.part)
          BY <2>3, <3>1, <4>1
        <4> QED BY <4>1, <4>2 DEF BlobComplete
      <3>2. CASE dump.st = "error" /\ blob' = Saved({}, FALSE)
        <4>1. /\ blob'.sure => dump.failed = {}
              /\ dump.failed = Dbs
          BY <3>2 DEF Saved, DumpInv
        <4> QED BY <4>1 DEF BlobComplete
      <3>3. CASE dump.st = "pending" /\ blob' = Saved({}, TRUE)
        BY <3>3 DEF Saved, BlobComplete
      <3>4. CASE blob' = [Saved({}, FALSE) EXCEPT !.sure = FALSE]
        BY <3>4 DEF Saved, BlobComplete
      <3> QED BY <1>3, <3>1, <3>2, <3>3, <3>4
    <2> QED BY <1>1, <2>1, <2>2, <2>4, AuthParts
  <1>4. CASE job' = Idle /\ UNCHANGED <<dump, blob>>
    <2>1. TypeAuth' /\ DumpInv' /\ RestoreInv'
      BY <1>1, <1>4, JobEnds DEF TypeAuth
    <2> QED BY <1>1, <1>4, <2>1, AuthParts
  <1> QED BY <1>2, <1>3, <1>4 DEF run_save_indexed_db, EndJob

(* A load begins with the blob's cookies and any a version 1 blob may have. *)
LEMMA StartRestoreKeeps ==
  ASSUME AuthAll, UNCHANGED platform, StartRestore
  PROVE  AuthAll'
  <1> USE DEF AuthAll, AuthRoundTrip
  <1>1. PICK dbs \in {{}, Dbs} :
             job' = [pc |-> "cookies", left |-> saved.blob \cup Legacy, dbs |-> dbs,
                     want |-> saved.blob, tried |-> {}, set |-> {}]
    BY DEF StartRestore, StartJob
  <1>2. blob' = <<>> /\ UNCHANGED <<idb, dump, restore, jar, baseline, replayed, saved>>
    BY DEF StartRestore, cookieVars
  <1>3. job' \in LoadJobs
    BY <1>1 DEF LoadJobs, TypeAuth
  <1>4. TypeAuth'
    BY <1>2, <1>3 DEF TypeAuth
  <1>5. job'.pc = "cookies"
    BY <1>1
  <1>6. DumpInv'
    BY <1>2, <1>5 DEF DumpInv
  <1>7. job'.tried \cup (job'.left \ Legacy) = job'.want /\ job'.set = job'.tried
    BY <1>1, CookieTypes DEF TypeAuth
  <1>8. RestoreInv'
    BY <1>2, <1>5, <1>7 DEF RestoreInv
  <1> QED BY <1>2, <1>4, <1>6, <1>8, AuthParts

(* A load that fails says so.                                               *)
LEMMA FailLoadKeeps ==
  ASSUME AuthAll, UNCHANGED <<platform, idb, dump, baseline, replayed, saved>>,
         FailLoad, jar' \subseteq Stored
  PROVE  AuthAll'
  <1> USE DEF AuthAll, AuthRoundTrip
  <1>1. TypeAuth' /\ DumpInv' /\ RestoreInv'
    BY JobEnds DEF FailLoad, EndLoad, EndJob
  <1>2. BlobComplete' /\ LoadRestores'
    BY DEF FailLoad, EndLoad, Loaded, BlobComplete, LoadRestores
  <1> QED BY <1>1, <1>2, AuthParts

(* A load whose databases were all written, and whose cookies were tried.   *)
LEMMA OkLoadKeeps ==
  ASSUME AuthAll, UNCHANGED <<platform, idb, dump, jar, baseline, replayed, saved>>,
         NEW part, EndLoad(Loaded(TRUE, job.dbs, part)),
         job.tried = job.want, platform = "webview2" => job.set = job.want
  PROVE  AuthAll'
  <1> USE DEF AuthAll, AuthRoundTrip
  <1>1. TypeAuth' /\ DumpInv' /\ RestoreInv'
    BY JobEnds DEF EndLoad, EndJob, TypeAuth
  <1>2. BlobComplete' /\ LoadRestores'
    BY DEF EndLoad, Loaded, BlobComplete, LoadRestores
  <1> QED BY <1>1, <1>2, AuthParts

(* The job of a load goes on: its cookies left are fewer, those tried more. *)
LEMMA LoadJobChanges ==
  ASSUME job \in LoadJobs, NEW c, c \in Legacy \/ c \in Stored,
         NEW t \in SUBSET Stored, NEW s \in SUBSET Stored,
         job' = [job EXCEPT !.left = @ \ {c}, !.tried = t, !.set = s]
  PROVE  /\ job' \in LoadJobs /\ job'.pc = job.pc /\ job'.left = job.left \ {c}
         /\ job'.dbs = job.dbs /\ job'.want = job.want /\ job'.tried = t /\ job'.set = s
  BY DEF LoadJobs

(* A cookie is stored, refused or passed over, or ends the load.            *)
LEMMA SetCookieKeeps ==
  ASSUME AuthAll, UNCHANGED platform, NEW c, NEW p, SetCookie(c, p)
  PROVE  AuthAll'
  <1> USE DEF AuthAll, AuthRoundTrip
  <1>1. /\ job.pc = "cookies" /\ c \in job.left /\ platform = p
        /\ UNCHANGED <<idb, dump, baseline, replayed, saved>>
    BY DEF SetCookie
  <1>2. /\ job \in LoadJobs /\ jar \subseteq Stored
        /\ job.tried \subseteq Stored /\ job.set \subseteq Stored
        /\ c \in Legacy \/ c \in Stored
    BY <1>1, AuthJobs DEF TypeAuth, LoadJobs
  <1>3. /\ job.tried \cup (job.left \ Legacy) = job.want
        /\ platform = "webview2" => job.set = job.tried
    BY <1>1 DEF RestoreInv
  <1>4. ASSUME NEW t \in SUBSET Stored, NEW s \in SUBSET Stored,
               job' = [job EXCEPT !.left = @ \ {c}, !.tried = t, !.set = s],
               t \cup ((job.left \ {c}) \ Legacy) = job.want,
               platform = "webview2" => s = t,
               jar' \subseteq Stored, UNCHANGED <<blob, restore>>
        PROVE  AuthAll'
    <2>1. /\ job' \in LoadJobs /\ job'.pc = "cookies" /\ job'.left = job.left \ {c}
          /\ job'.want = job.want /\ job'.tried = t /\ job'.set = s
      BY <1>1, <1>2, <1>4, LoadJobChanges
    <2>2. TypeAuth' /\ DumpInv'
      BY <1>1, <1>4, <2>1 DEF TypeAuth, DumpInv
    <2>3. RestoreInv'
      BY <1>1, <1>4, <2>1 DEF RestoreInv
    <2> QED BY <1>1, <1>4, <2>2, <2>3, AuthParts
  <1>5. CASE /\ c \in Legacy /\ job' = [job EXCEPT !.left = @ \ {c}]
             /\ UNCHANGED <<jar, blob, restore>>
    <2>1. job' = [job EXCEPT !.left = @ \ {c}, !.tried = job.tried, !.set = job.set]
      BY <1>2, <1>5 DEF LoadJobs
    <2>2. job.tried \cup ((job.left \ {c}) \ Legacy) = job.want
      BY <1>3, <1>5
    <2>3. jar' \subseteq Stored
      BY <1>2, <1>5
    <2> QED BY <1>2, <1>3, <1>4, <1>5, <2>1, <2>2, <2>3
  <1>6. CASE /\ c \notin Legacy /\ Stores(c)
             /\ job' = [job EXCEPT !.left = @ \ {c}, !.tried = @ \cup {c}, !.set = @ \cup {c}]
             /\ UNCHANGED <<blob, restore>>
    <2>1. job' = [job EXCEPT !.left = @ \ {c}, !.tried = job.tried \cup {c},
                             !.set = job.set \cup {c}]
      BY <1>6
    <2>2. jar' \subseteq Stored
      BY <1>2, <1>6 DEF Stores
    <2>3. job.tried \cup {c} \in SUBSET Stored /\ job.set \cup {c} \in SUBSET Stored
      BY <1>2, <1>6
    <2>4. (job.tried \cup {c}) \cup ((job.left \ {c}) \ Legacy) = job.want
      BY <1>1, <1>3, <1>6
    <2> QED BY <1>3, <1>4, <1>6, <2>1, <2>2, <2>3, <2>4
  <1>7. CASE /\ c \notin Legacy /\ p # "webview2"
             /\ job' = [job EXCEPT !.left = @ \ {c}, !.tried = @ \cup {c}]
             /\ UNCHANGED <<jar, blob, restore>>
    <2>1. job' = [job EXCEPT !.left = @ \ {c}, !.tried = job.tried \cup {c}, !.set = job.set]
      BY <1>2, <1>7 DEF LoadJobs
    <2>2. job.tried \cup {c} \in SUBSET Stored
      BY <1>2, <1>7
    <2>3. (job.tried \cup {c}) \cup ((job.left \ {c}) \ Legacy) = job.want
      BY <1>1, <1>3, <1>7
    <2> QED BY <1>1, <1>2, <1>4, <1>7, <2>1, <2>2, <2>3
  <1>8. CASE c \notin Legacy /\ FailLoad /\ (UNCHANGED jar \/ Stores(c))
    <2>1. jar' \subseteq Stored
      BY <1>2, <1>8 DEF Stores
    <2> QED BY <1>1, <1>8, <2>1, FailLoadKeeps
  <1> QED BY <1>5, <1>6, <1>7, <1>8 DEF SetCookie

(* The restore begins once every cookie has been seen to.                   *)
LEMMA LoadStorageKeeps ==
  ASSUME AuthAll, UNCHANGED platform, run_load_storage_only
  PROVE  AuthAll'
  <1> USE DEF AuthAll, AuthRoundTrip
  <1>1. /\ job.pc = "cookies" /\ job.left = {}
        /\ UNCHANGED <<idb, dump, jar, baseline, replayed, saved>>
    BY DEF run_load_storage_only, cookieVars
  <1>2. job \in LoadJobs /\ jar \subseteq Stored /\ job.dbs \in SUBSET Dbs
    BY <1>1, AuthJobs DEF TypeAuth, LoadJobs
  <1>3. job.tried = job.want /\ (platform = "webview2" => job.set = job.want)
    BY <1>1 DEF RestoreInv
  <1>4. CASE /\ job' = [job EXCEPT !.pc = "load"] /\ UNCHANGED blob
             /\ \/ restore' = Kickoff(job.dbs)
                \/ restore' = [NoScript EXCEPT !.st = "done", !.dbs = job.dbs, !.part = job.dbs]
    <2>1. /\ job' \in LoadJobs /\ job'.pc = "load" /\ job'.left = job.left
          /\ job'.set = job.set /\ job'.want = job.want /\ job'.tried = job.tried
          /\ job'.dbs = job.dbs
      BY <1>1, <1>2, <1>4 DEF LoadJobs
    <2>2. /\ restore' \in RestoreRecords
          /\ restore'.left \cup restore'.dbs \cup restore'.failed = job.dbs
          /\ restore'.st = "done" => restore'.left = {} /\ restore'.failed = {}
      <3>1. CASE restore' = Kickoff(job.dbs)
        BY <1>2, <3>1, ScriptTypes
      <3>2. CASE restore' = [NoScript EXCEPT !.st = "done", !.dbs = job.dbs, !.part = job.dbs]
        BY <1>2, <3>2 DEF NoScript, RestoreRecords, ScriptStates
      <3> QED BY <1>4, <3>1, <3>2
    <2>3. TypeAuth' /\ DumpInv'
      BY <1>1, <1>4, <2>1, <2>2 DEF TypeAuth, DumpInv
    <2>4. RestoreInv'
      BY <1>1, <1>3, <2>1, <2>2 DEF RestoreInv
    <2> QED BY <1>1, <1>4, <2>3, <2>4, AuthParts
  <1>5. CASE job.dbs = {} /\ EndLoad(Loaded(TRUE, {}, {}))
    BY <1>1, <1>3, <1>5, OkLoadKeeps
  <1>6. CASE FailLoad
    BY <1>1, <1>2, <1>6, FailLoadKeeps
  <1> QED BY <1>4, <1>5, <1>6 DEF run_load_storage_only

(* A database is written or fails; one that failed is not forgotten.        *)
LEMMA RestoreDbKeeps ==
  ASSUME AuthAll, UNCHANGED platform, NEW d \in Dbs, RestoreDb(d)
  PROVE  AuthAll'
  <1> USE DEF AuthAll, AuthRoundTrip
  <1>1. /\ restore.st = "pending" /\ d \in restore.left
        /\ UNCHANGED <<job, idb, dump, blob, jar, baseline, replayed, saved>>
    BY DEF RestoreDb, cookieVars
  <1>2. restore \in RestoreRecords
    BY DEF TypeAuth
  <1>3. PICK ok \in BOOLEAN, part \in SUBSET {d} :
             LET failed == IF ok THEN restore.failed ELSE restore.failed \cup {d} IN
             restore' = [st |-> IF restore.left # {d} THEN "pending"
                                ELSE IF failed = {} THEN "done" ELSE "error",
                         left |-> restore.left \ {d},
                         dbs |-> IF ok THEN restore.dbs \cup {d} ELSE restore.dbs,
                         part |-> IF ok THEN restore.part \cup part ELSE restore.part,
                         failed |-> failed]
    BY DEF RestoreDb
  <1>4. restore' \in RestoreRecords
    BY <1>2, <1>3 DEF RestoreRecords, ScriptStates
  <1>5. TypeAuth'
    BY <1>1, <1>4 DEF TypeAuth
  <1>6. /\ restore'.left = restore.left \ {d}
        /\ restore'.dbs = IF ok THEN restore.dbs \cup {d} ELSE restore.dbs
        /\ restore'.failed = IF ok THEN restore.failed ELSE restore.failed \cup {d}
        /\ restore'.st = "done" => restore.left = {d} /\ restore'.failed = {}
    BY <1>3
  <1>7. restore'.left \cup restore'.dbs \cup restore'.failed =
          restore.left \cup restore.dbs \cup restore.failed
    BY <1>1, <1>6
  <1>8. RestoreInv'
    BY <1>1, <1>6, <1>7 DEF RestoreInv
  <1> QED BY <1>1, <1>5, <1>8, AuthParts

(* A load is Ok when no database failed.                                    *)
LEMMA LoadEndKeeps ==
  ASSUME AuthAll, UNCHANGED platform, run_load_indexed_db
  PROVE  AuthAll'
  <1> USE DEF AuthAll, AuthRoundTrip
  <1>1. /\ job.pc = "load" /\ UNCHANGED <<idb, dump, jar, baseline, replayed, saved>>
        /\ jar \subseteq Stored /\ job \in LoadJobs /\ job.dbs \in SUBSET Dbs
    BY AuthJobs DEF run_load_indexed_db, cookieVars, TypeAuth, LoadJobs
  <1>2. CASE restore' = Kickoff(job.dbs) /\ UNCHANGED <<job, blob>>
    <2>1. TypeAuth' /\ RestoreInv'
      BY <1>1, <1>2, ScriptTypes DEF TypeAuth, RestoreInv
    <2> QED BY <1>1, <1>2, <2>1, AuthParts
  <1>3. CASE restore.st = "done" /\ EndLoad(Loaded(TRUE, restore.dbs, restore.part))
    <2>1. restore.dbs = job.dbs
      BY <1>1, <1>3 DEF RestoreInv
    <2>2. job.tried = job.want /\ (platform = "webview2" => job.set = job.want)
      BY <1>1 DEF RestoreInv
    <2> QED BY <1>1, <1>3, <2>1, <2>2, OkLoadKeeps
  <1>4. CASE FailLoad
    BY <1>1, <1>4, FailLoadKeeps
  <1> QED BY <1>2, <1>3, <1>4 DEF run_load_indexed_db

(* A new document has neither a dump nor a restore.                         *)
LEMMA DocumentKeepsAuth ==
  ASSUME AuthAll, UNCHANGED platform, NewDocument
  PROVE  AuthAll'
  <1> USE DEF AuthAll, AuthRoundTrip
  <1>1. /\ dump' = NoScript /\ restore' = NoScript
        /\ UNCHANGED <<job, idb, blob, jar, baseline, replayed, saved>>
    BY DEF NewDocument, cookieVars
  <1>2. TypeAuth' /\ DumpInv' /\ RestoreInv'
    BY <1>1, ScriptTypes DEF TypeAuth, DumpInv, RestoreInv
  <1> QED BY <1>1, <1>2, AuthParts

(* Nothing has been saved, loaded or reported yet.                          *)
LEMMA AuthStarts == InitScripts => AuthInv
  <1> SUFFICES ASSUME InitScripts PROVE AuthInv
    OBVIOUS
  <1>1. TypeAuth
    BY ScriptTypes DEF InitScripts, TypeAuth
  <1>2. DumpInv /\ RestoreInv
    BY ScriptTypes, AuthJobs DEF InitScripts, DumpInv, RestoreInv
  <1>3. AuthRoundTrip
    BY DEF InitScripts, AuthRoundTrip, BlobComplete, LoadRestores, CookiesKeepFlags,
           CookieEventsAddUp
  <1> QED BY <1>1, <1>2, <1>3 DEF InitScripts, AuthInv

(* Every step of the scripts keeps what save and load stand on.             *)
LEMMA AuthStep == AuthInv /\ Scripted /\ UNCHANGED <<platform, family>> => AuthInv'
  <1> SUFFICES ASSUME AuthInv, Scripted, UNCHANGED <<platform, family>> PROVE AuthInv'
    OBVIOUS
  <1>1. CASE family # "auth"
    BY <1>1 DEF Scripted, idbVars, cookieVars, NewDocument, AuthInv
  <1>2. CASE family = "auth"
    <2>1. AuthAll
      BY <1>2 DEF AuthInv, AuthAll
    <2>2. NextAuth \/ NewDocument
      BY <1>2 DEF Scripted
    <2>3. AuthAll'
      BY <2>1, <2>2, SiteKeeps, EventsKeep, SaveCookiesKeeps, SaveStorageKeeps, DumpDbKeeps,
         DumpDeniedKeeps, SaveEndKeeps, StartRestoreKeeps, SetCookieKeeps, LoadStorageKeeps,
         RestoreDbKeeps, LoadEndKeeps, DocumentKeepsAuth
         DEF NextAuth, SetCookieWk, SetCookieWpe, SetCookieW2
    <2> QED BY <1>2, <2>3 DEF AuthInv, AuthAll
  <1> QED BY <1>1, <1>2

-----------------------------------------------------------------------------
(* Downloads.                                                               *)

(* A table that is not empty has an oldest entry: the sets of the entries   *)
(* not newer than one of them cannot shrink for ever.                       *)
LEMMA OldestExists ==
  ASSUME dl \subseteq Entries, IsFiniteSet(dl), dl # {}
  PROVE  \E o \in dl : \A e \in dl : o.id <= e.id
  <1> DEFINE Until(e) == {d \in dl : d.id <= e.id}
             Untils == {Until(e) : e \in dl}
  <1>1. \A e \in dl : e.id \in Nat
    BY DEF Entries
  <1>2. Untils \subseteq FiniteSubsetsOf(dl) /\ Untils # {}
    <2>1. ASSUME NEW e \in dl PROVE Until(e) \in FiniteSubsetsOf(dl)
      <3>1. Until(e) \in SUBSET dl
        OBVIOUS
      <3> HIDE DEF Until
      <3> QED BY <3>1, FS_Subset DEF FiniteSubsetsOf
    <2> QED BY <2>1
  <1>3. PICK U \in Untils : \A T \in Untils : <<T, U>> \notin StrictSubsetOrdering(dl)
    <2> HIDE DEF Untils
    <2> QED BY <1>2, FS_StrictSubsetOrderingWellFounded, WFMin
  <1>4. PICK o \in dl : U = Until(o)
    OBVIOUS
  <1>5. ASSUME NEW e \in dl, e.id < o.id PROVE FALSE
    <2>1. Until(e) \in Untils
      OBVIOUS
    <2>2. \A d \in dl : d.id <= e.id => d.id <= o.id
      BY <1>1, <1>5
    <2>3. Until(e) \subseteq Until(o)
      BY <2>2
    <2>4. o \in Until(o) /\ o \notin Until(e)
      BY <1>1, <1>5
    <2> QED BY <1>2, <1>3, <1>4, <2>1, <2>3, <2>4 DEF StrictSubsetOrdering, FiniteSubsetsOf
  <1> QED BY <1>1, <1>5

(* From the oldest entry's id on there are ids for all.                     *)
LEMMA OldestId ==
  ASSUME TypeDownload, TableInv, NEW o \in dl, \A e \in dl : o.id <= e.id
  PROVE  Cardinality(dl) <= dlSeq - o.id + 1
  <1> DEFINE ids == [e \in dl |-> e.id]
  <1>1. dlSeq \in Nat /\ \A e \in dl : e.id \in Nat /\ e.id \in o.id..dlSeq
    BY DEF TypeDownload, Entries, TableInv
  <1>2. ids \in [dl -> o.id..dlSeq]
    BY <1>1
  <1>3. ASSUME NEW d \in dl, NEW e \in dl, d.id = e.id PROVE d = e
    BY <1>3 DEF TableInv, Entry
  <1>4. ids \in Injection(dl, o.id..dlSeq)
    BY <1>2, <1>3 DEF Injection, IsInjective
  <1>5. o.id \in Int /\ dlSeq \in Int /\ o.id <= dlSeq
    BY <1>1
  <1>6. IsFiniteSet(o.id..dlSeq) /\ Cardinality(o.id..dlSeq) = dlSeq - o.id + 1
    BY <1>5, FS_Interval
  <1> HIDE DEF ids
  <1> QED BY <1>4, <1>6, FS_Injection

(* push keeps the table, and lets go only of what MAX_ENTRIES newer ones    *)
(* have come after.                                                         *)
LEMMA PushEffect ==
  ASSUME TypeDownload, TableInv, NEW e \in Entries, e.id = dlSeq + 1,
         dl' = Pushed(e), dlSeq' = dlSeq + 1
  PROVE  /\ dl' \subseteq Entries /\ IsFiniteSet(dl') /\ Cardinality(dl') <= MAX_ENTRIES
         /\ \A d \in dl' : d.id \in 1..dlSeq' /\ (d = e \/ d \in dl)
         /\ \A d \in dl : d \in dl' \/ dlSeq' - d.id >= MAX_ENTRIES
         /\ e \in dl'
  <1>1. /\ dlSeq \in Nat /\ IsFiniteSet(dl) /\ dl \subseteq Entries
        /\ Cardinality(dl) \in Nat /\ Cardinality(dl) <= MAX_ENTRIES
        /\ \A d \in dl : d.id \in 1..dlSeq
        /\ MAX_ENTRIES \in Nat \ {0}
    BY FS_CardinalityType, PageScriptsAssumption DEF TypeDownload, TableInv
  <1>2. e \notin dl
    BY <1>1
  <1>3. CASE Cardinality(dl) # MAX_ENTRIES
    <2>1. dl' = dl \cup {e}
      BY <1>3 DEF Pushed
    <2>2. IsFiniteSet(dl') /\ Cardinality(dl') = Cardinality(dl) + 1
      BY <1>1, <1>2, <2>1, FS_AddElement
    <2> QED BY <1>1, <1>3, <2>1, <2>2
  <1>4. CASE Cardinality(dl) = MAX_ENTRIES
    <2>1. PICK o \in dl : \A d \in dl : o.id <= d.id
      BY <1>1, <1>4, FS_EmptySet, OldestExists
    <2>2. Oldest = {o}
      <3>1. \A d \in dl : d.id \in Int /\ (d.id = o.id => d = o)
        BY <1>1, <2>1 DEF TableInv, Entry
      <3>2. \A d \in Oldest : d = o
        BY <2>1, <3>1 DEF Oldest
      <3> QED BY <2>1, <3>2 DEF Oldest
    <2>3. dl' = (dl \ {o}) \cup {e}
      BY <1>4, <2>2 DEF Pushed
    <2>4. IsFiniteSet(dl \ {o}) /\ Cardinality(dl \ {o}) = Cardinality(dl) - 1
      BY <1>1, <2>1, FS_RemoveElement
    <2>5. IsFiniteSet(dl') /\ Cardinality(dl') = Cardinality(dl \ {o}) + 1
      BY <1>2, <2>3, <2>4, FS_AddElement
    <2>6. dlSeq' - o.id >= MAX_ENTRIES
      BY <1>1, <1>4, <2>1, OldestId
    <2> QED BY <1>1, <1>4, <2>3, <2>4, <2>5, <2>6
  <1> QED BY <1>3, <1>4

DownloadAll == TypeDownload /\ TableInv /\ ReadInv /\ DownloadsHonest

(* What the last download was is not undone.                                *)
LEMMA GotParts == UNCHANGED got /\ DownloadsHonest => DownloadsHonest'
  BY DEF DownloadsHonest, DownloadWhole, ShortMeansEvicted

(* The fields of a job that downloads.                                      *)
LEMMA DownloadFields ==
  ASSUME job \in DownloadJobs
  PROVE  /\ job.pc \in {"poll", "read", "drop", "verdict"} /\ job.id \in Nat /\ job.doc \in Nat
         /\ job.key \in Nat /\ job.size \in Nat /\ job.bytes \in Seq(Nat) /\ job # Idle
  BY DEF DownloadJobs, Idle

(* Other entries may come and what was to be filled may be, and the oldest  *)
(* may go: what is being read stays the entry it is, or is evicted.         *)
LEMMA ReadParts ==
  ASSUME TypeDownload, TableInv, ReadInv, UNCHANGED <<doc, job>>,
         dlSeq' \in Nat, dlSeq <= dlSeq',
         \A e \in dl' : \/ e \in dl \/ e.id > dlSeq
                        \/ \E d \in dl : d.id = e.id /\ d.st = "run",
         \A d \in dl : d.st = "run" \/ d \in dl' \/ dlSeq' - d.id >= MAX_ENTRIES
  PROVE  ReadInv'
  <1> SUFFICES ASSUME job.pc \in {"read", "drop", "verdict"}, job.doc = doc
               PROVE  /\ job.id \in 1..dlSeq'
                      /\ \A e \in dl' : e.id = job.id =>
                           e.st = "ok" /\ e.key = job.key /\ e.size = job.size
                      /\ \/ job.pc = "read" /\ \E e \in dl' : e.id = job.id
                         \/ job.pc # "read" /\ Len(job.bytes) = job.size
                         \/ dlSeq' - job.id >= MAX_ENTRIES
    BY DEF ReadInv, Entry
  <1>1. /\ job.id \in 1..dlSeq /\ dlSeq \in Nat /\ MAX_ENTRIES \in Nat
        /\ \A e \in dl : e.id = job.id => e.st = "ok" /\ e.key = job.key /\ e.size = job.size
        /\ \/ job.pc = "read" /\ \E e \in dl : e.id = job.id
           \/ job.pc # "read" /\ Len(job.bytes) = job.size
           \/ dlSeq - job.id >= MAX_ENTRIES
    BY PageScriptsAssumption DEF ReadInv, Entry, TypeDownload
  <1>2. \A e \in dl' : e.id = job.id => e \in dl
    BY <1>1
  <1>3. (\E e \in dl : e.id = job.id) =>
          (\E e \in dl' : e.id = job.id) \/ dlSeq' - job.id >= MAX_ENTRIES
    BY <1>1
  <1>4. dlSeq - job.id >= MAX_ENTRIES => dlSeq' - job.id >= MAX_ENTRIES
    BY <1>1
  <1> QED BY <1>1, <1>2, <1>3, <1>4

(* A read starts that fills nothing.                                        *)
LEMMA InterceptKeeps ==
  ASSUME DownloadAll, intercept
  PROVE  DownloadAll'
  <1> USE DEF DownloadAll
  <1>1. /\ grabs' = grabs \cup {[id |-> 0, key |-> nchanges + 1]} /\ nchanges' = nchanges + 1
        /\ UNCHANGED <<doc, job, dl, dlSeq, got>>
    BY DEF intercept, Changes
  <1>2. TypeDownload'
    BY <1>1 DEF TypeDownload
  <1>3. TableInv'
    BY <1>1 DEF TableInv, Entry
  <1>4. ReadInv'
    BY <1>1 DEF ReadInv, Entry
  <1> QED BY <1>1, <1>2, <1>3, <1>4, GotParts

(* A read ends: nobody reads the entry it fills, and no other will fill it. *)
LEMMA GrabKeeps ==
  ASSUME DownloadAll, NEW g \in grabs, grab(g)
  PROVE  DownloadAll'
  <1> USE DEF DownloadAll
  <1>1. /\ grabs' = grabs \ {g} /\ UNCHANGED <<doc, nchanges, job, got>>
        /\ g.id \in Nat /\ g.key \in Nat /\ dlSeq \in Nat
    BY DEF grab, docVars, TypeDownload
  <1>2. PICK st \in {"ok", "err"}, size \in 0..2 :
          LET e == [id |-> g.id, key |-> g.key, st |-> st,
                    size |-> IF st = "ok" THEN size ELSE 0]
          IN  IF g.id # 0 /\ Entry(g.id) # {}
              THEN dl' = (dl \ Entry(g.id)) \cup {e} /\ UNCHANGED dlSeq
              ELSE dl' = Pushed([e EXCEPT !.id = dlSeq + 1]) /\ dlSeq' = dlSeq + 1
    BY DEF grab
  <1> DEFINE e == [id |-> g.id, key |-> g.key, st |-> st,
                   size |-> IF st = "ok" THEN size ELSE 0]
  <1>3. e \in Entries /\ e.id = g.id
    BY <1>1 DEF Entries
  <1>4. CASE g.id # 0 /\ Entry(g.id) # {}
    <2>1. dl' = (dl \ Entry(g.id)) \cup {e} /\ UNCHANGED dlSeq
      BY <1>2, <1>4
    <2>2. PICK d \in dl : d.id = g.id /\ Entry(g.id) = {d} /\ d.st = "run"
      BY <1>4 DEF Entry, TableInv
    <2>3. g.id \in 1..dlSeq
      BY <2>2 DEF TableInv
    <2> HIDE DEF e
    <2>4. IsFiniteSet(dl \ {d}) /\ Cardinality(dl \ {d}) = Cardinality(dl) - 1
      BY <2>2, FS_RemoveElement DEF TypeDownload
    <2>5. e \notin dl \ {d}
      BY <1>3, <2>2 DEF Entry
    <2>6. IsFiniteSet(dl') /\ Cardinality(dl') = Cardinality(dl \ {d}) + 1
      BY <2>1, <2>2, <2>4, <2>5, FS_AddElement
    <2>7. Cardinality(dl) \in Nat
      BY FS_CardinalityType DEF TypeDownload
    <2>8. TypeDownload'
      BY <1>1, <1>3, <2>1, <2>6 DEF TypeDownload
    <2>9. \A x \in dl' : x = e \/ (x \in dl /\ x.id # g.id)
      BY <2>1 DEF Entry
    <2>10. TableInv'
      <3>1. Cardinality(dl') <= MAX_ENTRIES
        BY <2>4, <2>6, <2>7 DEF TableInv
      <3>2. \A x, y \in dl' : x.id = y.id => x = y
        BY <1>3, <2>9 DEF TableInv, Entry
      <3>3. \A x \in dl' : x.id \in 1..dlSeq'
        BY <1>3, <2>1, <2>3, <2>9 DEF TableInv
      <3>4. \A h \in grabs' : h.id # 0 => h.id # g.id
        BY <1>1 DEF TableInv
      <3>5. \A h \in grabs' : h.id # 0 => \A x \in dl' : x.id = h.id => x.st = "run"
        BY <1>1, <1>3, <2>9, <3>4 DEF TableInv, Entry
      <3>6. \A h \in grabs' : h.id # 0 =>
              h.id <= dlSeq' /\ \A k \in grabs' : k.id = h.id => k = h
        BY <1>1, <2>1 DEF TableInv
      <3> QED BY <3>1, <3>2, <3>3, <3>5, <3>6 DEF TableInv, Entry
    <2>11. ReadInv'
      BY <1>1, <1>3, <2>1, <2>2, <2>9, ReadParts
    <2> QED BY <1>1, <2>8, <2>10, <2>11, GotParts
  <1>5. CASE ~(g.id # 0 /\ Entry(g.id) # {})
    <2> DEFINE n == [e EXCEPT !.id = dlSeq + 1]
    <2>1. dl' = Pushed(n) /\ dlSeq' = dlSeq + 1
      BY <1>2, <1>5
    <2>2. n \in Entries /\ n.id = dlSeq + 1
      BY <1>1 DEF Entries
    <2> HIDE DEF n
    <2>3. /\ dl' \subseteq Entries /\ IsFiniteSet(dl') /\ Cardinality(dl') <= MAX_ENTRIES
          /\ \A d \in dl' : d.id \in 1..dlSeq' /\ (d = n \/ d \in dl)
          /\ \A d \in dl : d \in dl' \/ dlSeq' - d.id >= MAX_ENTRIES
      BY <2>1, <2>2, PushEffect
    <2>4. TypeDownload'
      BY <1>1, <2>1, <2>3 DEF TypeDownload
    <2>5. TableInv'
      <3>1. \A x \in dl : x.id \in 1..dlSeq
        BY DEF TableInv
      <3>2. \A x, y \in dl' : x.id = y.id => x = y
        BY <1>1, <2>2, <2>3, <3>1 DEF TableInv, Entry
      <3>3. \A h \in grabs' : h.id # 0 =>
              /\ h.id <= dlSeq /\ h \in grabs
              /\ \A k \in grabs' : k.id = h.id => k = h
        BY <1>1 DEF TableInv
      <3>4. \A h \in grabs' : h.id \in Nat
        BY <1>1 DEF TypeDownload
      <3>5. \A h \in grabs' : h.id # 0 => \A x \in dl' : x.id = h.id => x.st = "run"
        BY <1>1, <2>2, <2>3, <3>3, <3>4 DEF TableInv, Entry
      <3> QED BY <1>1, <2>1, <2>3, <3>2, <3>3, <3>4, <3>5 DEF TableInv, Entry
    <2>6. ReadInv'
      BY <1>1, <2>1, <2>2, <2>3, ReadParts
    <2> QED BY <1>1, <2>4, <2>5, <2>6, GotParts
  <1> QED BY <1>4, <1>5

(* vs_download with a URL: a new entry, and the one read that will fill it. *)
LEMMA DownloadUrlKeeps ==
  ASSUME DownloadAll, DownloadUrl
  PROVE  DownloadAll'
  <1> USE DEF DownloadAll
  <1> DEFINE e == [id |-> dlSeq + 1, key |-> 0, st |-> "run", size |-> 0]
             g == [id |-> dlSeq + 1, key |-> nchanges + 1]
  <1>1. /\ job' = DownloadJob(dlSeq + 1) /\ dl' = Pushed(e) /\ dlSeq' = dlSeq + 1
        /\ grabs' = grabs \cup {g} /\ nchanges' = nchanges + 1 /\ UNCHANGED <<doc, got>>
        /\ dlSeq \in Nat /\ nchanges \in Nat /\ doc \in Nat
    BY DEF DownloadUrl, StartJob, Changes, TypeDownload
  <1>2. /\ e \in Entries /\ e.id = dlSeq + 1 /\ e.st = "run"
        /\ g \in [id : Nat, key : Nat] /\ g.id = dlSeq + 1
    BY <1>1 DEF Entries
  <1> HIDE DEF e, g
  <1>3. /\ dl' \subseteq Entries /\ IsFiniteSet(dl') /\ Cardinality(dl') <= MAX_ENTRIES
        /\ \A d \in dl' : d.id \in 1..dlSeq' /\ (d = e \/ d \in dl)
    BY <1>1, <1>2, PushEffect
  <1>4. job' \in DownloadJobs /\ job'.pc = "poll"
    <2>1. <<>> \in Seq(Nat)
      OBVIOUS
    <2> QED BY <1>1, <2>1 DEF DownloadJob, DownloadJobs
  <1>5. TypeDownload'
    BY <1>1, <1>2, <1>3, <1>4 DEF TypeDownload
  <1>6. TableInv'
    <2>1. \A x \in dl : x.id \in 1..dlSeq
      BY DEF TableInv
    <2>2. \A x, y \in dl' : x.id = y.id => x = y
      BY <1>1, <1>2, <1>3, <2>1 DEF TableInv, Entry
    <2>3. \A h \in grabs : h.id \in Nat /\ h.id <= dlSeq
      BY <1>1 DEF TypeDownload, TableInv
    <2>4. \A h \in grabs' : h.id # 0 => h.id <= dlSeq' /\ \A k \in grabs' : k.id = h.id => k = h
      BY <1>1, <1>2, <2>3 DEF TableInv
    <2>5. \A h \in grabs' : h.id # 0 => \A x \in dl' : x.id = h.id => x.st = "run"
      BY <1>1, <1>2, <1>3, <2>1, <2>3 DEF TableInv, Entry
    <2> QED BY <1>3, <2>2, <2>4, <2>5 DEF TableInv, Entry
  <1>7. ReadInv'
    BY <1>1, <1>4 DEF ReadInv, DownloadJob
  <1> QED BY <1>1, <1>5, <1>6, <1>7, GotParts

(* A captured entry is asked for, or a download is given up.                *)
LEMMA AskKeeps ==
  ASSUME DownloadAll, DownloadCaptured \/ DownloadTimeout
  PROVE  DownloadAll'
  <1> USE DEF DownloadAll
  <1>1. UNCHANGED <<doc, nchanges, dl, dlSeq, grabs, got>>
    BY DEF DownloadCaptured, DownloadTimeout, docVars, dlVars
  <1>2. TableInv'
    BY <1>1 DEF TableInv, Entry
  <1>3. CASE DownloadCaptured
    <2>1. PICK id \in 0..dlSeq : job' = DownloadJob(id)
      BY <1>3 DEF DownloadCaptured, StartJob
    <2>2. <<>> \in Seq(Nat)
      OBVIOUS
    <2>3. job' \in DownloadJobs /\ job'.pc = "poll"
      BY <2>1, <2>2 DEF DownloadJob, DownloadJobs, TypeDownload
    <2> QED BY <1>1, <1>2, <2>1, <2>3, GotParts DEF DownloadJob, TypeDownload, ReadInv
  <1>4. CASE DownloadTimeout
    BY <1>1, <1>2, <1>4, GotParts DEF DownloadTimeout, EndJob, Idle, TypeDownload, ReadInv
  <1> QED BY <1>3, <1>4

(* What meta tells of an entry is what is read of it from here on.          *)
LEMMA PollMetaKeeps ==
  ASSUME DownloadAll, PollMeta
  PROVE  DownloadAll'
  <1> USE DEF DownloadAll
  <1>1. job.pc = "poll" /\ UNCHANGED <<doc, nchanges, dl, dlSeq, grabs, got>>
    BY DEF PollMeta, docVars, dlVars
  <1>2. TableInv'
    BY <1>1 DEF TableInv, Entry
  <1>3. PICK e \in Wanted : \/ e.st = "err" /\ EndJob
                            \/ e.st = "ok" /\ job' = Reading(e)
    BY DEF PollMeta
  <1>4. CASE e.st = "err" /\ EndJob
    BY <1>1, <1>2, <1>4, GotParts DEF EndJob, Idle, TypeDownload, ReadInv
  <1>5. CASE e.st = "ok" /\ job' = Reading(e)
    <2>1. e \in dl /\ e \in Entries /\ doc \in Nat /\ dlSeq \in Nat
      BY DEF Wanted, Newest, Entry, TypeDownload
    <2>2. job \in DownloadJobs
      BY <1>1 DEF TypeDownload, Idle
    <2>3. /\ job' \in DownloadJobs /\ job'.pc = "read" /\ job'.id = e.id /\ job'.doc = doc
          /\ job'.key = e.key /\ job'.size = e.size /\ job'.bytes = job.bytes
      BY <1>5, <2>1, <2>2 DEF Reading, DownloadJobs, Entries
    <2>4. TypeDownload'
      BY <1>1, <2>3 DEF TypeDownload
    <2>5. /\ e.id \in 1..dlSeq /\ Entry(e.id) = {e} /\ e.size \in Nat
          /\ job.bytes = <<>> /\ Len(<<>>) = 0
      BY <1>1, <2>1 DEF TableInv, ReadInv, Entries
    <2>6. ReadInv'
      BY <1>1, <1>5, <2>1, <2>3, <2>5 DEF ReadInv, Entry
    <2> QED BY <1>1, <1>2, <2>4, <2>6, GotParts
  <1> QED BY <1>3, <1>4, <1>5

(* The next chunk is the entry's; if it is gone, newer ones have come.      *)
LEMMA ReadChunkKeeps ==
  ASSUME DownloadAll, ReadChunk
  PROVE  DownloadAll'
  <1> USE DEF DownloadAll
  <1>1. job.pc = "read" /\ UNCHANGED <<doc, nchanges, dl, dlSeq, grabs, got>>
    BY DEF ReadChunk, docVars, dlVars
  <1>2. TableInv'
    BY <1>1 DEF TableInv, Entry
  <1>3. /\ job \in DownloadJobs /\ job.id \in Nat /\ job.size \in Nat /\ job.key \in Nat
        /\ job.bytes \in Seq(Nat) /\ doc \in Nat /\ dlSeq \in Nat
    BY <1>1, DownloadFields DEF TypeDownload, Idle
  <1>4. CASE \E e \in Entry(job.id) : /\ Len(job.bytes) < job.size /\ Len(job.bytes) < e.size
                                      /\ job' = [job EXCEPT !.bytes = Append(@, e.key)]
    <2>1. PICK e \in Entry(job.id) : /\ Len(job.bytes) < job.size
                                     /\ job' = [job EXCEPT !.bytes = Append(@, e.key)]
      BY <1>4
    <2>2. e.key \in Nat
      BY DEF Entry, TypeDownload, Entries
    <2> DEFINE more == Append(job.bytes, e.key)
    <2>3. /\ more \in Seq(Nat) /\ Len(more) = Len(job.bytes) + 1
          /\ more[Len(job.bytes) + 1] = e.key
          /\ \A i \in 1..Len(job.bytes) : more[i] = job.bytes[i]
      BY <1>3, <2>2
    <2> HIDE DEF more
    <2>4. /\ job' \in DownloadJobs /\ job'.pc = "read" /\ job'.id = job.id /\ job'.doc = job.doc
          /\ job'.key = job.key /\ job'.size = job.size /\ job'.bytes = more
      BY <1>1, <1>3, <2>1, <2>3 DEF DownloadJobs, more
    <2>5. TypeDownload'
      BY <1>1, <2>4 DEF TypeDownload
    <2>6. ReadInv'
      <3> SUFFICES ASSUME job.doc = doc
                   PROVE  /\ Len(more) <= job.size
                          /\ \A i \in 1..Len(more) : more[i] = job.key
        BY <1>1, <2>4 DEF ReadInv, Entry
      <3>1. e.key = job.key /\ \A i \in 1..Len(job.bytes) : job.bytes[i] = job.key
        BY <1>1 DEF ReadInv
      <3>2. Len(job.bytes) \in Nat
        BY <1>3
      <3>3. Len(more) <= job.size
        BY <1>3, <2>1, <2>3, <3>2
      <3>4. \A i \in 1..Len(more) : i \in 1..Len(job.bytes) \/ i = Len(job.bytes) + 1
        BY <2>3, <3>2
      <3> QED BY <2>3, <3>1, <3>3, <3>4
    <2> QED BY <1>1, <1>2, <2>5, <2>6, GotParts
  <1>5. CASE /\ \A e \in Entry(job.id) : ~(Len(job.bytes) < job.size /\ Len(job.bytes) < e.size)
             /\ job' = [job EXCEPT !.pc = "drop"]
    <2>1. /\ job' \in DownloadJobs /\ job'.pc = "drop" /\ job'.id = job.id /\ job'.doc = job.doc
          /\ job'.key = job.key /\ job'.size = job.size /\ job'.bytes = job.bytes
      BY <1>1, <1>3, <1>5 DEF DownloadJobs
    <2>2. TypeDownload'
      BY <1>1, <2>1 DEF TypeDownload
    <2>3. ReadInv'
      <3> SUFFICES ASSUME job.doc = doc, ~(dlSeq - job.id >= MAX_ENTRIES)
                   PROVE  Len(job.bytes) = job.size
        BY <1>1, <2>1 DEF ReadInv, Entry
      <3>1. /\ Len(job.bytes) <= job.size
            /\ \E e \in Entry(job.id) : e.size = job.size
        BY <1>1 DEF ReadInv
      <3>2. Len(job.bytes) \in Nat
        BY <1>3
      <3> QED BY <1>3, <1>5, <3>1, <3>2
    <2> QED BY <1>1, <1>2, <2>2, <2>3, GotParts
  <1> QED BY <1>4, <1>5 DEF ReadChunk

(* The entry is let go after it was read.                                   *)
LEMMA DropEntryKeeps ==
  ASSUME DownloadAll, DropEntry
  PROVE  DownloadAll'
  <1> USE DEF DownloadAll
  <1>1. /\ job.pc = "drop" /\ dl' = dl \ Entry(job.id) /\ job' = [job EXCEPT !.pc = "verdict"]
        /\ UNCHANGED <<doc, nchanges, dlSeq, grabs, got>>
    BY DEF DropEntry, docVars
  <1>2. job \in DownloadJobs
    BY <1>1 DEF TypeDownload, Idle
  <1>3. /\ job' \in DownloadJobs /\ job'.pc = "verdict" /\ job'.id = job.id /\ job'.doc = job.doc
        /\ job'.key = job.key /\ job'.size = job.size /\ job'.bytes = job.bytes
    BY <1>1, <1>2 DEF DownloadJobs
  <1>4. /\ dl' \subseteq dl /\ IsFiniteSet(dl') /\ Cardinality(dl') <= Cardinality(dl)
        /\ Cardinality(dl') \in Nat /\ Cardinality(dl) \in Nat
    BY <1>1, FS_Subset, FS_CardinalityType DEF TypeDownload
  <1>5. TypeDownload'
    BY <1>1, <1>3, <1>4 DEF TypeDownload
  <1>6. TableInv'
    <2>1. Cardinality(dl') <= MAX_ENTRIES
      BY <1>4, PageScriptsAssumption DEF TableInv
    <2> QED BY <1>1, <1>4, <2>1 DEF TableInv, Entry
  <1>7. ReadInv'
    BY <1>1, <1>3, <1>4 DEF ReadInv, Entry
  <1> QED BY <1>1, <1>5, <1>6, <1>7, GotParts

(* As many bytes as meta promised are all of them, and fewer mean eviction. *)
LEMMA DownloadVerdictKeeps ==
  ASSUME DownloadAll, DownloadVerdict
  PROVE  DownloadAll'
  <1> USE DEF DownloadAll
  <1>1. /\ job.pc = "verdict" /\ job' = Idle /\ UNCHANGED <<doc, nchanges, dl, dlSeq, grabs>>
        /\ got' = [ok |-> Len(job.bytes) = job.size, key |-> job.key, size |-> job.size,
                   bytes |-> job.bytes, moved |-> doc # job.doc, newer |-> dlSeq - job.id]
    BY DEF DownloadVerdict, EndJob, docVars
  <1>2. job \in DownloadJobs /\ job.bytes \in Seq(Nat)
    BY <1>1, DownloadFields DEF TypeDownload, Idle
  <1>3. TypeDownload' /\ TableInv' /\ ReadInv'
    BY <1>1 DEF TypeDownload, TableInv, Entry, ReadInv, Idle
  <1>4. job.doc = doc =>
          /\ \A i \in 1..Len(job.bytes) : job.bytes[i] = job.key
          /\ Len(job.bytes) = job.size \/ dlSeq - job.id >= MAX_ENTRIES
    BY <1>1 DEF ReadInv
  <1>5. ASSUME job.doc = doc, Len(job.bytes) = job.size
        PROVE  job.bytes = [i \in 1..job.size |-> job.key]
    <2>1. job.bytes \in [1..Len(job.bytes) -> Nat]
      BY <1>2
    <2> QED BY <1>4, <1>5, <2>1
  <1>6. DownloadsHonest'
    BY <1>1, <1>4, <1>5 DEF DownloadsHonest, DownloadWhole, ShortMeansEvicted
  <1> QED BY <1>3, <1>6

(* What was captured goes with the document; what is being read moved.      *)
LEMMA DocumentKeepsDownload ==
  ASSUME DownloadAll, NewDocument
  PROVE  DownloadAll'
  <1> USE DEF DownloadAll
  <1>1. /\ doc' = doc + 1 /\ dl' = {} /\ dlSeq' = 0 /\ grabs' = {}
        /\ doc \in Nat /\ UNCHANGED <<nchanges, job, got>>
    BY DEF NewDocument, TypeDownload
  <1>2. IsFiniteSet({}) /\ Cardinality({}) = 0
    BY FS_EmptySet
  <1>3. TypeDownload'
    BY <1>1, <1>2 DEF TypeDownload
  <1>4. TableInv'
    BY <1>1, <1>2, PageScriptsAssumption DEF TableInv
  <1>5. ReadInv'
    <2>1. job # Idle => job.doc \in Nat
      BY DownloadFields DEF TypeDownload
    <2>2. job.pc \in {"read", "drop", "verdict"} => job # Idle
      BY DEF Idle
    <2> QED BY <1>1, <2>1, <2>2 DEF ReadInv
  <1> QED BY <1>1, <1>3, <1>4, <1>5, GotParts

(* Nothing was captured yet.                                                *)
LEMMA DownloadStarts == InitScripts => DownloadInv
  <1> SUFFICES ASSUME InitScripts PROVE DownloadInv
    OBVIOUS
  <1>1. TypeDownload /\ TableInv
    BY FS_EmptySet, PageScriptsAssumption DEF InitScripts, TypeDownload, TableInv
  <1>2. ReadInv /\ DownloadsHonest
    BY DEF InitScripts, ReadInv, Idle, DownloadsHonest, DownloadWhole, ShortMeansEvicted
  <1> QED BY <1>1, <1>2 DEF DownloadInv, InitScripts

(* Every step of the scripts keeps the table and the download that reads.   *)
LEMMA DownloadStep == DownloadInv /\ Scripted /\ UNCHANGED family => DownloadInv'
  <1> SUFFICES ASSUME DownloadInv, Scripted, UNCHANGED family PROVE DownloadInv'
    OBVIOUS
  <1>1. CASE family # "download"
    BY <1>1 DEF Scripted, dlVars, NewDocument, DownloadInv
  <1>2. CASE family = "download"
    <2>1. DownloadAll
      BY <1>2 DEF DownloadInv, DownloadAll
    <2>2. NextDownload \/ NewDocument
      BY <1>2 DEF Scripted
    <2>3. DownloadAll'
      BY <2>1, <2>2, InterceptKeeps, GrabKeeps, DownloadUrlKeeps, AskKeeps, PollMetaKeeps,
         ReadChunkKeeps, DropEntryKeeps, DownloadVerdictKeeps, DocumentKeepsDownload
         DEF NextDownload
    <2> QED BY <1>2, <2>3 DEF DownloadInv, DownloadAll
  <1> QED BY <1>1, <1>2

-----------------------------------------------------------------------------
(* The inspector's buffers.                                                 *)

(* A sequence with an element less has no others.                           *)
LEMMA RemoveEffect ==
  ASSUME NEW S, NEW s \in Seq(S), NEW i \in 1..Len(s)
  PROVE  /\ RemoveAt(s, i) \in Seq(S)
         /\ Len(RemoveAt(s, i)) = Len(s) - 1
         /\ \A k \in 1..(Len(s) - 1) : \E j \in 1..Len(s) : RemoveAt(s, i)[k] = s[j]
  <1> DEFINE a == SubSeq(s, 1, i - 1)
             b == SubSeq(s, i + 1, Len(s))
  <1>1. a \in Seq(S) /\ Len(a) = i - 1
    OBVIOUS
  <1>2. b \in Seq(S) /\ Len(b) = Len(s) - i
    OBVIOUS
  <1>3. \A k \in 1..(i - 1) : a[k] = s[k]
    OBVIOUS
  <1>4. \A k \in 1..(Len(s) - i) : b[k] = s[i + k]
    OBVIOUS
  <1>5. RemoveAt(s, i) = a \o b
    BY DEF RemoveAt
  <1> HIDE DEF a, b
  <1>6. a \o b \in Seq(S) /\ Len(a \o b) = Len(s) - 1
    BY <1>1, <1>2
  <1>7. ASSUME NEW k \in 1..(Len(s) - 1) PROVE \E j \in 1..Len(s) : (a \o b)[k] = s[j]
    <2>1. CASE k < i
      <3>1. (a \o b)[k] = a[k]
        BY <1>1, <1>2, <2>1
      <3> QED BY <1>3, <2>1, <3>1
    <2>2. CASE k >= i
      <3> DEFINE m == k - i + 1
      <3>1. m \in 1..(Len(s) - i) /\ i + m \in 1..Len(s)
        BY <2>2
      <3>2. (a \o b)[k] = b[m]
        BY <1>1, <1>2, <2>2
      <3>3. b[m] = s[i + m]
        BY <1>4, <3>1
      <3> HIDE DEF m
      <3> QED BY <3>1, <3>2, <3>3
    <2>3. i \in Int /\ k \in Int
      OBVIOUS
    <2>4. k < i \/ k >= i
      BY <2>3
    <2> QED BY <2>1, <2>2, <2>4
  <1> QED BY <1>5, <1>6, <1>7

(* How many elements of a store go when one is pushed.                      *)
Evicted(store) == IF Len(store) = Capacity THEN 1 ELSE 0

(* A pushed element is the last one; those before it moved up if the oldest *)
(* went.                                                                    *)
LEMMA PushOne ==
  ASSUME NEW S, NEW store \in Seq(S), Len(store) <= Capacity, NEW e \in S
  PROVE  /\ Push(store, e) \in Seq(S)
         /\ Len(Push(store, e)) <= Capacity
         /\ Len(Push(store, e)) = Len(store) + 1 - Evicted(store)
         /\ Push(store, e)[Len(Push(store, e))] = e
         /\ \A i \in 1..(Len(Push(store, e)) - 1) :
              /\ i + Evicted(store) \in 1..Len(store)
              /\ Push(store, e)[i] = store[i + Evicted(store)]
  <1>1. Capacity \in Nat \ {0} /\ Len(store) \in Nat
    BY PageScriptsAssumption
  <1>2. CASE Len(store) = Capacity
    <2>1. store # <<>>
      BY <1>1, <1>2
    <2>2. /\ Tail(store) \in Seq(S) /\ Len(Tail(store)) = Len(store) - 1
          /\ \A i \in 1..(Len(store) - 1) : Tail(store)[i] = store[i + 1]
      BY <2>1
    <2>3. Push(store, e) = Append(Tail(store), e) /\ Evicted(store) = 1
      BY <1>2 DEF Push, Evicted
    <2>4. /\ Append(Tail(store), e) \in Seq(S) /\ Len(Append(Tail(store), e)) = Len(store)
          /\ Append(Tail(store), e)[Len(store)] = e
          /\ \A i \in 1..(Len(store) - 1) : Append(Tail(store), e)[i] = Tail(store)[i]
      BY <1>1, <2>2
    <2> QED BY <1>1, <1>2, <2>2, <2>3, <2>4
  <1>3. CASE Len(store) # Capacity
    <2>1. Push(store, e) = Append(store, e) /\ Evicted(store) = 0
      BY <1>3 DEF Push, Evicted
    <2>2. /\ Append(store, e) \in Seq(S) /\ Len(Append(store, e)) = Len(store) + 1
          /\ Append(store, e)[Len(store) + 1] = e
          /\ \A i \in 1..Len(store) : Append(store, e)[i] = store[i]
      OBVIOUS
    <2> QED BY <1>1, <1>3, <2>1, <2>2
  <1> QED BY <1>2, <1>3

(* What is put under a number no other has is pushed; under one it has, it  *)
(* takes the other's place.                                                 *)
LEMMA PutOne ==
  ASSUME NEW S, NEW store \in Seq(S), Len(store) <= Capacity, NEW e \in S
  PROVE  /\ Put(store, e) \in Seq(S) /\ Len(Put(store, e)) <= Capacity
         /\ \A i \in DOMAIN Put(store, e) :
              Put(store, e)[i] = e \/ \E j \in DOMAIN store : Put(store, e)[i] = store[j]
         /\ (\A i \in DOMAIN store : store[i].seq # e.seq) => Put(store, e) = Push(store, e)
  <1>1. CASE \E i \in DOMAIN store : store[i].seq = e.seq
    <2> DEFINE new == [i \in DOMAIN store |-> IF store[i].seq = e.seq THEN e ELSE store[i]]
    <2>1. Put(store, e) = new
      BY <1>1 DEF Put
    <2>2. DOMAIN store = 1..Len(store) /\ Len(store) \in Nat
      OBVIOUS
    <2>3. new \in [1..Len(store) -> S]
      BY <2>2
    <2>4. new \in Seq(S) /\ Len(new) = Len(store) /\ DOMAIN new = DOMAIN store
      BY <2>2, <2>3
    <2> QED BY <1>1, <2>1, <2>4
  <1>2. CASE \A i \in DOMAIN store : store[i].seq # e.seq
    <2>1. Put(store, e) = Push(store, e)
      BY <1>2 DEF Put, Push
    <2>2. DOMAIN store = 1..Len(store) /\ Len(store) \in Nat
      OBVIOUS
    <2> DEFINE new == Push(store, e)
    <2>3. /\ new \in Seq(S) /\ Len(new) <= Capacity /\ new[Len(new)] = e
          /\ \A i \in 1..(Len(new) - 1) :
               i + Evicted(store) \in 1..Len(store) /\ new[i] = store[i + Evicted(store)]
      <3>1. new = Push(store, e)
        OBVIOUS
      <3> HIDE DEF new
      <3>2. /\ Push(store, e) \in Seq(S)
            /\ Len(Push(store, e)) <= Capacity
            /\ Push(store, e)[Len(Push(store, e))] = e
            /\ \A i \in 1..(Len(Push(store, e)) - 1) :
                 /\ i + Evicted(store) \in 1..Len(store)
                 /\ Push(store, e)[i] = store[i + Evicted(store)]
        BY PushOne, ZenonT(30)
      <3> QED BY <3>1, <3>2
    <2> HIDE DEF new
    <2>4. ASSUME NEW i \in DOMAIN new
          PROVE  new[i] = e \/ \E j \in DOMAIN store : new[i] = store[j]
      <3>1. Len(new) \in Nat /\ i \in 1..Len(new)
        BY <2>3
      <3>2. i = Len(new) \/ i \in 1..(Len(new) - 1)
        BY <3>1
      <3> QED BY <2>2, <2>3, <3>2
    <2> QED BY <2>1, <2>3, <2>4 DEF new
  <1> QED BY <1>1, <1>2

(* A frame numbers a request with what it has not used before.              *)
LEMMA StartsKeep ==
  ASSUME TypeNet, MatchInv, NEW h \in Frames, RequestStarts(h)
  PROVE  TypeNet' /\ MatchInv'
  <1> DEFINE r == [seq |-> frameSeq[h] + 1, req |-> nchanges + 1]
  <1>1. /\ frameSeq' = [frameSeq EXCEPT ![h] = @ + 1] /\ nchanges' = nchanges + 1
        /\ open' = open \cup {r} /\ pending' = Put(pending, r)
        /\ UNCHANGED <<doc, ring, details>>
    BY DEF RequestStarts, Changes
  <1>2. r \in Started /\ frameSeq[h] \in Nat /\ r.seq = frameSeq[h] + 1
    BY DEF TypeNet, Started
  <1> HIDE DEF r
  <1>3. /\ pending' \in Seq(Started) /\ Len(pending') <= Capacity
        /\ \A i \in DOMAIN pending' :
             pending'[i] = r \/ \E j \in DOMAIN pending : pending'[i] = pending[j]
    BY <1>1, <1>2, PutOne DEF TypeNet
  <1>4. TypeNet'
    BY <1>1, <1>2, <1>3 DEF TypeNet
  <1>5. ASSUME NEW f \in Frames, OnlyFrame(f)'
        PROVE  /\ f = h /\ frameSeq'[f] = frameSeq[f] + 1 /\ OnlyFrame(f)
    BY <1>1, <1>2, <1>5 DEF OnlyFrame, TypeNet
  <1>6. MatchInv'
    <2> SUFFICES ASSUME NEW f \in Frames, OnlyFrame(f)' PROVE InStep(f)'
      BY DEF MatchInv
    <2>1. /\ f = h /\ frameSeq'[f] = frameSeq[f] + 1 /\ OnlyFrame(f) /\ frameSeq[f] \in Nat
          /\ r.seq = frameSeq[f] + 1
      BY <1>2, <1>5
    <2>2. InStep(f)
      BY <2>1 DEF MatchInv
    <2>3. /\ \A q \in open : q.seq \in Nat
          /\ \A i \in DOMAIN ring : ring[i].seq \in Nat
          /\ \A i \in DOMAIN pending : pending[i].seq \in Nat
      <3>1. \A q \in Started : q.seq \in Nat
        BY DEF Started
      <3>2. /\ \A i \in DOMAIN ring : ring[i] \in Started
            /\ \A i \in DOMAIN pending : pending[i] \in Started
        BY DEF TypeNet
      <3> QED BY <3>1, <3>2 DEF TypeNet
    <2>4. \A i \in DOMAIN ring' : ring'[i].seq <= frameSeq'[f] /\ ring'[i].seq # r.seq
      BY <1>1, <2>1, <2>2, <2>3 DEF InStep
    <2>5. \A i \in DOMAIN pending' : pending'[i].seq <= frameSeq'[f]
      BY <1>3, <2>1, <2>2, <2>3 DEF InStep
    <2>6. \A q \in open' : q.seq <= frameSeq'[f] /\ \A p \in open' : p.seq = q.seq => p = q
      BY <1>1, <2>1, <2>2, <2>3 DEF InStep
    <2>7. \A q \in open' : \A i \in DOMAIN ring' : ring'[i].seq # q.seq
      BY <1>1, <2>2, <2>4 DEF InStep
    <2>8. \A q \in open', i \in DOMAIN pending' :
            pending'[i].seq = q.seq => pending'[i].req = q.req
      BY <1>1, <1>3, <2>1, <2>2, <2>3 DEF InStep
    <2> QED BY <1>1, <2>2, <2>4, <2>5, <2>6, <2>7, <2>8 DEF InStep
  <1> QED BY <1>4, <1>6

(* Entry and detail are pushed together, and the detail's request side is   *)
(* the start of the request itself, or nothing.                             *)
LEMMA EndsKeep ==
  ASSUME TypeNet, MatchInv, NEW r \in open, RequestEnds(r)
  PROVE  TypeNet' /\ MatchInv'
  <1>1. /\ open' = open \ {r} /\ ring' = Push(ring, r)
        /\ UNCHANGED <<doc, nchanges, frameSeq>>
        /\ r \in Started /\ ring \in Seq(Started) /\ Len(ring) <= Capacity
        /\ pending \in Seq(Started) /\ Len(pending) <= Capacity
        /\ details \in Seq(Described) /\ Len(details) <= Capacity
    BY DEF RequestEnds, docVars, TypeNet
  <1>2. PICK sent :
          /\ details' = Put(details, [seq |-> r.seq, req |-> r.req, sent |-> sent])
          /\ sent = 0 \/ \E i \in DOMAIN pending : pending[i].seq = r.seq /\ sent = pending[i].req
    BY DEF RequestEnds
  <1>3. UNCHANGED pending \/ \E i \in DOMAIN pending : pending' = RemoveAt(pending, i)
    BY DEF RequestEnds
  <1> DEFINE d == [seq |-> r.seq, req |-> r.req, sent |-> sent]
  <1>4. d \in Described /\ d.seq = r.seq /\ d.req = r.req /\ d.sent = sent
    <2>1. \A i \in DOMAIN pending : pending[i] \in Started
      BY <1>1
    <2>2. \A q \in Started : q.req \in Nat
      BY DEF Started
    <2>3. sent \in Nat
      BY <1>2, <2>1, <2>2
    <2> QED BY <1>1, <2>3 DEF Started, Described
  <1>5. details' = Put(details, d)
    BY <1>2
  <1> HIDE DEF d
  <1>6. /\ pending' \in Seq(Started) /\ Len(pending') <= Capacity
        /\ \A i \in DOMAIN pending' : \E j \in DOMAIN pending : pending'[i] = pending[j]
    <2>1. CASE UNCHANGED pending
      BY <1>1, <2>1
    <2>2. ASSUME NEW i \in DOMAIN pending, pending' = RemoveAt(pending, i)
          PROVE  /\ pending' \in Seq(Started) /\ Len(pending') <= Capacity
                 /\ \A k \in DOMAIN pending' : \E j \in DOMAIN pending : pending'[k] = pending[j]
      <3>1. DOMAIN pending = 1..Len(pending) /\ Len(pending) \in Nat /\ Capacity \in Nat
        BY <1>1, PageScriptsAssumption
      <3> DEFINE left == RemoveAt(pending, i)
      <3>2. /\ left \in Seq(Started) /\ Len(left) = Len(pending) - 1
            /\ \A k \in 1..(Len(pending) - 1) : \E j \in 1..Len(pending) : left[k] = pending[j]
        <4>1. i \in 1..Len(pending) /\ pending \in Seq(Started)
          BY <1>1, <3>1
        <4> QED BY <4>1, RemoveEffect, ZenonT(30)
      <3> HIDE DEF left
      <3>3. DOMAIN left = 1..(Len(pending) - 1)
        BY <3>2
      <3>4. pending' = left
        BY <2>2 DEF left
      <3>5. pending' \in Seq(Started) /\ Len(pending') <= Capacity
        BY <1>1, <3>1, <3>2, <3>4
      <3>6. \A k \in DOMAIN pending' : \E j \in DOMAIN pending : pending'[k] = pending[j]
        BY <3>1, <3>2, <3>3, <3>4
      <3> QED BY <3>5, <3>6
    <2> QED BY <1>3, <2>1, <2>2
  <1>7. /\ ring' \in Seq(Started) /\ Len(ring') <= Capacity
        /\ Len(ring') = Len(ring) + 1 - Evicted(ring) /\ ring'[Len(ring')] = r
        /\ \A i \in 1..(Len(ring') - 1) :
             i + Evicted(ring) \in 1..Len(ring) /\ ring'[i] = ring[i + Evicted(ring)]
    <2> DEFINE new == Push(ring, r)
    <2>1. /\ new \in Seq(Started) /\ Len(new) <= Capacity
          /\ Len(new) = Len(ring) + 1 - Evicted(ring) /\ new[Len(new)] = r
          /\ \A i \in 1..(Len(new) - 1) :
               i + Evicted(ring) \in 1..Len(ring) /\ new[i] = ring[i + Evicted(ring)]
      <3>1. ring \in Seq(Started) /\ Len(ring) <= Capacity /\ r \in Started
        BY <1>1
      <3> QED BY <3>1, PushOne, ZenonT(60)
    <2>2. ring' = new
      BY <1>1
    <2> HIDE DEF new
    <2> QED BY <2>1, <2>2
  <1>8. details' \in Seq(Described) /\ Len(details') <= Capacity
    BY <1>1, <1>4, <1>5, PutOne
  <1>9. TypeNet'
    BY <1>1, <1>6, <1>7, <1>8 DEF TypeNet
  <1>10. MatchInv'
    <2> SUFFICES ASSUME NEW f \in Frames, OnlyFrame(f)' PROVE InStep(f)'
      BY DEF MatchInv
    <2>1. OnlyFrame(f) /\ frameSeq' = frameSeq
      BY <1>1 DEF OnlyFrame
    <2>2. InStep(f)
      BY <2>1 DEF MatchInv
    <2>3. /\ DOMAIN ring = 1..Len(ring) /\ DOMAIN details = 1..Len(details)
          /\ DOMAIN ring' = 1..Len(ring') /\ DOMAIN details' = 1..Len(details')
          /\ Len(ring') \in Nat /\ Len(ring) \in Nat
      BY <1>1, <1>7, <1>8
    <2>4. details' = Push(details, d)
      <3>1. \A i \in DOMAIN details : details[i].seq # d.seq
        BY <1>4, <2>2, <2>3 DEF InStep
      <3> QED BY <1>1, <1>4, <1>5, <3>1, PutOne
    <2>5. /\ Len(details') = Len(ring') /\ details'[Len(ring')] = d
          /\ \A i \in 1..(Len(ring') - 1) : details'[i] = details[i + Evicted(ring)]
      <3> DEFINE new == Push(details, d)
      <3>1. Len(details) = Len(ring) /\ Evicted(details) = Evicted(ring)
        BY <2>2 DEF Evicted, InStep
      <3>2. /\ Len(new) = Len(details) + 1 - Evicted(details) /\ new[Len(new)] = d
            /\ \A i \in 1..(Len(new) - 1) : new[i] = details[i + Evicted(details)]
        BY <1>1, <1>4, PushOne
      <3>3. details' = new
        BY <2>4
      <3> HIDE DEF new
      <3> QED BY <1>7, <3>1, <3>2, <3>3
    <2>6. sent \in {0, r.req}
      BY <1>2, <2>2 DEF InStep
    <2>7. ASSUME NEW i \in DOMAIN ring'
          PROVE  \/ i = Len(ring') /\ ring'[i] = r /\ details'[i] = d
                 \/ \E j \in DOMAIN ring : ring'[i] = ring[j] /\ details'[i] = details[j]
      <3>1. i = Len(ring') \/ i \in 1..(Len(ring') - 1)
        BY <2>3
      <3>2. CASE i = Len(ring')
        BY <1>7, <2>5, <3>2
      <3>3. CASE i \in 1..(Len(ring') - 1)
        <4>1. i + Evicted(ring) \in DOMAIN ring /\ ring'[i] = ring[i + Evicted(ring)]
          BY <1>7, <2>3, <3>3
        <4>2. details'[i] = details[i + Evicted(ring)]
          BY <2>5, <3>3
        <4> QED BY <4>1, <4>2
      <3> QED BY <3>1, <3>2, <3>3
    <2>8. \A i \in DOMAIN ring' : ring'[i].seq <= frameSeq[f]
      BY <2>2, <2>7 DEF InStep
    <2>9. \A i \in DOMAIN pending' : pending'[i].seq <= frameSeq[f]
      BY <1>6, <2>2 DEF InStep
    <2>10. \A q \in open', i \in DOMAIN ring' : ring'[i].seq # q.seq
      BY <1>1, <2>2, <2>7 DEF InStep
    <2>11. \A q \in open', i \in DOMAIN pending' :
             pending'[i].seq = q.seq => pending'[i].req = q.req
      BY <1>1, <1>6, <2>2 DEF InStep
    <2>12. \A i \in DOMAIN ring' :
             /\ details'[i].seq = ring'[i].seq /\ details'[i].req = ring'[i].req
             /\ details'[i].sent \in {0, details'[i].req}
      BY <1>4, <2>2, <2>6, <2>7 DEF InStep
    <2> QED BY <1>1, <2>1, <2>2, <2>5, <2>8, <2>9, <2>10, <2>11, <2>12 DEF InStep
  <1> QED BY <1>9, <1>10

(* A new document is not the first.                                         *)
LEMMA DocumentKeepsNet ==
  ASSUME TypeNet, MatchInv, NewDocument
  PROVE  TypeNet' /\ MatchInv'
  <1>1. /\ doc' = doc + 1 /\ doc \in Nat \ {0} /\ frameSeq' = [f \in Frames |-> 0] /\ open' = {}
        /\ UNCHANGED <<nchanges, ring, details, pending>>
    BY DEF NewDocument, TypeNet
  <1>2. TypeNet'
    BY <1>1 DEF TypeNet
  <1>3. doc' # 1
    BY <1>1
  <1> QED BY <1>2, <1>3 DEF MatchInv, OnlyFrame

(* Nothing has been requested yet.                                          *)
LEMMA NetStarts == InitScripts => NetInv
  <1> SUFFICES ASSUME InitScripts PROVE NetInv
    OBVIOUS
  <1>1. <<>> \in Seq(Started) /\ <<>> \in Seq(Described) /\ Len(<<>>) = 0
    OBVIOUS
  <1>2. TypeNet
    BY <1>1, PageScriptsAssumption DEF InitScripts, TypeNet
  <1>3. MatchInv
    BY DEF InitScripts, MatchInv, InStep
  <1> QED BY <1>2, <1>3 DEF NetInv, InitScripts

(* Every step of the scripts keeps the buffers in step.                     *)
LEMMA NetStep == NetInv /\ Scripted /\ UNCHANGED family => NetInv'
  <1> SUFFICES ASSUME NetInv, Scripted, UNCHANGED family PROVE NetInv'
    OBVIOUS
  <1>1. CASE family # "net"
    BY <1>1 DEF Scripted, netVars, NewDocument, NetInv
  <1>2. CASE family = "net"
    <2>1. TypeNet /\ MatchInv
      BY <1>2 DEF NetInv
    <2>2. NextNet \/ NewDocument
      BY <1>2 DEF Scripted
    <2>3. TypeNet' /\ MatchInv'
      BY <2>1, <2>2, StartsKeep, EndsKeep, DocumentKeepsNet DEF NextNet
    <2> QED BY <1>2, <2>3 DEF NetInv
  <1> QED BY <1>1, <1>2

-----------------------------------------------------------------------------
(* The limits.                                                              *)

(* Only the open that ends takes a handle, and it has one left to take.     *)
LEMMA ViewLimitsStep ==
  ViewsInv /\ ViewLimits /\ NextViews /\ UNCHANGED platform => ViewLimits'
  <1> SUFFICES ASSUME ViewsInv, ViewLimits, NextViews PROVE ViewLimits'
    OBVIOUS
  <1> USE DEF ViewLimits
  <1>1. ASSUME NEW v \in Views,
               \/ didStart(v) \/ didCommit(v) \/ didFinish(v) \/ didFail(v)
               \/ LateReport(v) \/ PageNavigates(v) \/ OpenWk(v) \/ OpenWpe(v) \/ OpenW2(v)
        PROVE  ViewLimits'
    BY <1>1 DEF didStart, didCommit, didFinish, didFail, LateReport, PageNavigates, OpenWk,
                OpenWpe, OpenW2
  <1>2. ASSUME NEW h \in Views, NavigateWk(h) \/ NavigateWpe(h) \/ NavigateW2(h)
        PROVE  ViewLimits'
    BY <1>2 DEF NavigateWk, NavigateWpe, NavigateW2
  <1>3. ASSUME NEW h \in Views, CloseWk(h) \/ CloseWpe(h) \/ CloseW2(h) \/ DropWk
        PROVE  ViewLimits'
    BY <1>3 DEF CloseWk, CloseWpe, CloseW2, Close, DropWk
  <1>4. ASSUME NEW h \in Views, enable_webauthn(h) PROVE ViewLimits'
    <2>1. pages[h] \in Views
      BY <1>4, WebViewsAssumption DEF enable_webauthn, ViewsInv, TypeViews, Views
    <2> QED BY <1>4, <2>1 DEF enable_webauthn
  <1>5. CASE Launch \/ WaitWk \/ WaitWpe \/ WaitW2
    <2>1. op.pc # "idle" /\ UNCHANGED <<scripted, shimmed>>
      BY <1>5 DEF Launch, WaitWk, WaitWpe, WaitW2, Ended
    <2>2. UNCHANGED nextHandle \/ (op.h = 0 /\ nextHandle' = nextHandle + 1)
      BY <1>5 DEF Launch, WaitWk, WaitWpe, WaitW2, Ended, alloc_handle
    <2>3. nextHandle \in Nat /\ MaxViews \in Nat /\ op.v \in 1..MaxViews
      BY <2>1, WebViewsAssumption DEF ViewsInv, TypeViews, Views
    <2>4. op.h = 0 => nextHandle <= op.v
      BY <2>1 DEF ViewsInv, TypeViews, HandleInv, Opening
    <2> QED BY <2>1, <2>2, <2>3, <2>4
  <1>6. CASE DropWk
    BY <1>6 DEF DropWk
  <1> QED BY <1>1, <1>2, <1>3, <1>4, <1>5, <1>6 DEF NextViews

(* What a document, a page and a job may do to the counters.                *)
LEMMA CountersStep ==
  ASSUME ScriptLimits,
         doc' = doc \/ (doc < MaxDocs /\ doc' = doc + 1),
         nchanges' = nchanges \/ Changes,
         njobs' = njobs \/ (njobs < MaxJobs /\ njobs' = njobs + 1)
  PROVE  ScriptLimits'
  BY PageScriptsAssumption DEF ScriptLimits, Changes

(* Every step of the scripts is counted.                                    *)
LEMMA ScriptLimitsStep == ScriptLimits /\ Scripted => ScriptLimits'
  <1> SUFFICES ASSUME ScriptLimits, Scripted PROVE ScriptLimits'
    OBVIOUS
  <1> DEFINE Counted == /\ doc' = doc \/ (doc < MaxDocs /\ doc' = doc + 1)
                        /\ nchanges' = nchanges \/ Changes
                        /\ njobs' = njobs \/ (njobs < MaxJobs /\ njobs' = njobs + 1)
  <1>1. NewDocument => Counted
    BY DEF NewDocument
  <1>2. NextTree => Counted
    BY DEF NextTree, Mutate, TypeValue, QuietChange, Snapshot, StartWait, PollWait,
                FailWait, NetTick, StartJob, EndJob, Changes, docVars
  <1>3. NextDownload => Counted
    BY DEF NextDownload, intercept, grab, DownloadUrl, DownloadCaptured, PollMeta,
                DownloadTimeout, ReadChunk, DropEntry, DownloadVerdict, StartJob, EndJob,
                Changes, docVars
  <1>4. NextAuth => Counted
    <2>1. WriteDb \/ SiteCookie \/ cookie_events => Counted
      BY DEF WriteDb, SiteCookie, cookie_events, StartJob, EndJob, Changes, docVars
    <2>2. SaveCookies \/ run_save_storage_only \/ DumpDenied \/ run_save_indexed_db => Counted
      BY DEF SaveCookies, run_save_storage_only, DumpDenied, run_save_indexed_db, StartJob,
             EndJob, docVars
    <2>3. StartRestore \/ run_load_storage_only \/ run_load_indexed_db => Counted
      BY DEF StartRestore, run_load_storage_only, run_load_indexed_db, FailLoad, EndLoad,
             StartJob, EndJob, docVars
    <2>4. ASSUME NEW c, SetCookieWk(c) \/ SetCookieWpe(c) \/ SetCookieW2(c) PROVE Counted
      BY <2>4 DEF SetCookieWk, SetCookieWpe, SetCookieW2, SetCookie, FailLoad, EndLoad,
                  EndJob, docVars
    <2>5. ASSUME NEW d \in Dbs, DumpDb(d) \/ RestoreDb(d) PROVE Counted
      BY <2>5 DEF DumpDb, RestoreDb, docVars
    <2> HIDE DEF Counted
    <2> QED BY <2>1, <2>2, <2>3, <2>4, <2>5 DEF NextAuth
  <1>5. NextNet => Counted
    BY DEF NextNet, RequestStarts, RequestEnds, Changes, docVars
  <1>6. Counted
    BY <1>1, <1>2, <1>3, <1>4, <1>5 DEF Scripted
  <1> QED BY <1>6, CountersStep

(* The pointer stays among the points a job was given.                      *)
LEMMA InputLimitsStep == InputInv /\ InputLimits /\ NextInput => InputLimits'
  <1> SUFFICES ASSUME InputInv, InputLimits, NextInput PROVE InputLimits'
    OBVIOUS
  <1> USE DEF InputLimits
  <1> DEFINE Pointing == {"lead", "path", "press", "release", "landed"}
  <1>1. act \in InputJobs /\ ninputs \in 0..MaxInputs /\ MaxInputs \in Nat
    BY WebInputAssumption DEF InputInv, TypeInput
  <1>2. Resting.pc \notin Pointing
    BY DEF Resting
  <1>3. ASSUME NEW el \in Elements, ActWk(el) \/ ActJs(el) PROVE InputLimits'
    <2>1. ptr' = ptr /\ act = Resting /\ ninputs < MaxInputs /\ ninputs' = ninputs + 1
      BY <1>3 DEF ActWk, ActJs, StartInput, ByScript, ByPointer
    <2>2. ninputs' \in 0..MaxInputs /\ ptr' = ptr /\ act = Resting
      BY <1>1, <2>1
    <2>3. ByScript("gone", FALSE) \/ (\E ok : ByScript(el, ok)) \/ ByPointer(el)
      BY <1>3 DEF ActWk, ActJs
    <2>4. CASE ByPointer(el)
      <3>1. PICK centre \in Points :
                 act' = [Resting EXCEPT !.pc = "path", !.kind = "ref", !.to = centre, !.el = el,
                                        !.top = (el = "plain"), !.veiled = (el = "covered")]
        BY <2>4 DEF ByPointer
      <3>2. act'.kind = "ref" /\ act'.to = centre
        BY <3>1 DEF Resting
      <3> QED BY <2>2, <3>2
    <2>5. CASE act' = act
      BY <1>2, <2>2, <2>5
    <2> QED BY <2>3, <2>4, <2>5 DEF ByScript
  <1>4. CASE cursor_op
    <2>1. PICK k \in {"move", "click", "drag"}, a \in Points, b \in Points :
               act' = [Resting EXCEPT !.kind = k, !.from = a, !.to = b,
                                      !.pc = IF k = "drag" /\ platform # "webkit" THEN "lead"
                                             ELSE IF k = "drag" THEN "press" ELSE "path"]
      BY <1>4 DEF cursor_op
    <2>2. act'.from = a /\ act'.to = b
      BY <2>1 DEF Resting
    <2>3. ptr' = ptr /\ ninputs' \in 0..MaxInputs
      BY <1>1, <1>4 DEF cursor_op, StartInput
    <2> QED BY <2>2, <2>3
  <1>5. ASSUME act.pc \in Pointing, act' = Resting, ptr' \in Points, ninputs' = ninputs
        PROVE  InputLimits'
    BY <1>2, <1>5
  <1>6. ASSUME act.pc \in Pointing, NEW pc \in {"press", "path", "release", "landed"},
               act' = [act EXCEPT !.pc = pc], ptr' \in Points, ninputs' = ninputs
        PROVE  InputLimits'
    <2>1. act'.from = act.from /\ act'.to = act.to /\ act'.kind = act.kind
      BY <1>1, <1>6, PcChanges
    <2> QED BY <1>6, <2>1
  <1>13. ASSUME act.pc \in Pointing, NEW pc \in {"path", "release", "landed"}, NEW h \in BOOLEAN,
                act' = [act EXCEPT !.pc = pc, !.hit = h], ptr' \in Points, ninputs' = ninputs
         PROVE  InputLimits'
    <2>1. act'.from = act.from /\ act'.to = act.to /\ act'.kind = act.kind
      BY <1>1, <1>13, HitChanges
    <2> QED BY <1>13, <2>1
  <1>14. act.top \in BOOLEAN /\ act.hit \in BOOLEAN
    BY <1>1 DEF InputJobs
  <1>15. CASE LayoutShift
    <2>1. PICK top \in BOOLEAN : act' = [act EXCEPT !.top = top, !.veiled = @ \/ ~top]
      BY <1>15 DEF LayoutShift
    <2>2. act'.from = act.from /\ act'.to = act.to /\ act'.kind = act.kind /\ act'.pc = act.pc
      BY <1>1, <2>1 DEF InputJobs
    <2> QED BY <1>15, <2>2 DEF LayoutShift
  <1>16. CASE click_at_rect
    <2>1. act.pc = "path" /\ ptr' \in Points /\ ninputs' = ninputs
      BY <1>16 DEF click_at_rect
    <2>2. act' = Resting \/ act' = [act EXCEPT !.pc = "press"]
      BY <1>16 DEF click_at_rect, Give
    <2> QED BY <1>5, <1>6, <2>1, <2>2
  <1>7. CASE move_along_path \/ cursor_move_along_path \/ wv2_move_along_path
    <2>3. act.kind # "ref"
      BY <1>7 DEF move_along_path, cursor_move_along_path, wv2_move_along_path, InputInv, RefInv
    <2>1. PICK p \in {act.from, act.to}, pc \in {"press", "release", "landed"} :
            act.pc \in Pointing /\ Path(p, pc) /\ ninputs' = ninputs
      BY <1>7 DEF move_along_path, cursor_move_along_path, wv2_move_along_path, AfterPath
    <2>2. p \in Points
      BY <2>1, <2>3
    <2> QED BY <1>5, <1>6, <2>1, <2>2 DEF Path, Give
  <1>8. CASE PressWk \/ PressWpe \/ PressW2
    <2>1. /\ act.pc = "press" /\ ninputs' = ninputs
          /\ ptr' \in {ptr, act.to} \/ (act.kind = "drag" /\ ptr' = act.from)
      BY <1>8 DEF PressWk, PressWpe, PressW2, Press
    <2>2. \/ act' = Resting
          \/ \E pc \in {"path", "release"} : act' = [act EXCEPT !.pc = pc, !.hit = act.top]
      BY <1>8 DEF PressWk, PressWpe, PressW2, Press, Give
    <2>3. ptr' \in Points
      BY <2>1
    <2> QED BY <1>5, <1>13, <1>14, <2>1, <2>2, <2>3
  <1>9. CASE ReleaseWk \/ ReleaseWpe \/ ReleaseW2 \/ Landed
    <2>1. act.pc \in {"release", "landed"} /\ ninputs' = ninputs /\ ptr' = ptr
      BY <1>9 DEF ReleaseWk, ReleaseWpe, ReleaseW2, Release, Landed
    <2>2. \/ act' = Resting
          \/ act' = [act EXCEPT !.pc = "landed", !.hit = act.hit /\ act.top]
      BY <1>9 DEF ReleaseWk, ReleaseWpe, ReleaseW2, Release, Landed, Give
    <2>3. (act.hit /\ act.top) \in BOOLEAN
      BY <1>14
    <2> QED BY <1>5, <1>13, <2>1, <2>2, <2>3
  <1>10. CASE type_text
    <2>1. ptr' = ptr /\ ninputs' \in 0..MaxInputs
      BY <1>1, <1>10 DEF type_text, StartInput
    <2>2. act'.pc = "down"
      BY <1>10 DEF type_text, Resting
    <2> QED BY <2>1, <2>2
  <1>11. CASE end_typing
    BY <1>2, <1>11 DEF end_typing
  <1>12. CASE bind \/ KeyWk \/ KeyWpe \/ KeyW2
    <2>1. act.pc = "down" /\ ptr' = ptr /\ ninputs' = ninputs
      BY <1>12 DEF bind, KeyWk, KeyWpe, KeyW2, Key
    <2>2. \/ act' = act \/ act' = [act EXCEPT !.pc = "end"]
          \/ \E t \in {<<>>, Tail(act.text)} : \/ act' = [act EXCEPT !.pc = "end", !.text = t]
                                              \/ act' = [act EXCEPT !.text = t]
      BY <1>12 DEF bind, KeyWk, KeyWpe, KeyW2, Key
    <2>3. ASSUME NEW t, NEW pc
          PROVE  /\ [act EXCEPT !.pc = pc].pc = pc
                 /\ [act EXCEPT !.pc = pc, !.text = t].pc = pc
                 /\ [act EXCEPT !.text = t].pc = act.pc
      BY <1>1, Zenon DEF InputJobs
    <2>4. act'.pc \in {"down", "end"}
      <3>1. CASE act' = act
        BY <2>1, <3>1
      <3>2. CASE act' = [act EXCEPT !.pc = "end"]
        BY <2>3, <3>2
      <3>3. ASSUME NEW t, act' = [act EXCEPT !.pc = "end", !.text = t]
            PROVE  act'.pc = "end"
        BY <2>3, <3>3
      <3>4. ASSUME NEW t, act' = [act EXCEPT !.text = t] PROVE act'.pc = "down"
        BY <2>1, <2>3, <3>4
      <3> QED BY <2>2, <3>1, <3>2, <3>3, <3>4
    <2> QED BY <1>1, <2>1, <2>4
  <1> HIDE DEF InputLimits, Pointing
  <1> QED BY <1>3, <1>4, <1>7, <1>8, <1>9, <1>10, <1>11, <1>12, <1>15, <1>16
         DEF NextInput

LEMMA LimitsStart == InitViews /\ InitScripts /\ InitInput => LimitInv
  <1> SUFFICES ASSUME InitViews, InitScripts, InitInput PROVE LimitInv
    OBVIOUS
  <1>1. ViewLimits
    BY WebViewsAssumption DEF InitViews, ViewLimits
  <1>2. ScriptLimits
    BY PageScriptsAssumption DEF InitScripts, ScriptLimits
  <1>3. InputLimits
    <2>1. act.pc = "idle"
      BY RestingJob DEF InitInput
    <2>2. ptr \in Points /\ ninputs = 0
      BY DEF InitInput
    <2> QED BY <2>1, <2>2, WebInputAssumption DEF InputLimits
  <1> QED BY <1>1, <1>2, <1>3 DEF LimitInv

-----------------------------------------------------------------------------
(* The theorems.                                                            *)

(* All families together.                                                   *)
WebInv == /\ platform \in Platforms /\ family \in Families
          /\ ViewsInv /\ InputInv /\ TreeInv /\ AuthInv /\ DownloadInv /\ NetInv /\ LimitInv

(* The invariants of the scripts of a family speak of its own state alone.  *)
LEMMA ScriptsIdle ==
  ASSUME UNCHANGED <<platform, family, scriptVars>>
  PROVE  /\ TreeInv => TreeInv'
         /\ AuthInv => AuthInv'
         /\ DownloadInv => DownloadInv'
         /\ NetInv => NetInv'
         /\ ScriptLimits => ScriptLimits'
  <1>1. /\ UNCHANGED <<platform, family, doc, nchanges, job, njobs>>
        /\ UNCHANGED <<dom, walker, watch, seen, waited, dl, dlSeq, grabs, got>>
        /\ UNCHANGED <<idb, dump, restore, blob, jar, baseline, replayed, saved>>
        /\ UNCHANGED <<ring, details, pending, frameSeq, open>>
    BY DEF scriptVars, docVars, treeVars, dlVars, idbVars, cookieVars, netVars
  <1>2. TreeInv => TreeInv'
    BY <1>1, TreeParts DEF TreeInv, TypeTree
  <1>3. AuthInv => AuthInv'
    BY <1>1, AuthParts DEF AuthInv, TypeAuth, AuthRoundTrip
  <1>4. DownloadInv => DownloadInv'
    BY <1>1, GotParts DEF DownloadInv, TypeDownload, TableInv, ReadInv, Entry
  <1>5. NetInv => NetInv'
    BY <1>1 DEF NetInv, TypeNet, MatchInv, OnlyFrame, InStep
  <1>6. ScriptLimits => ScriptLimits'
    BY <1>1 DEF ScriptLimits
  <1> QED BY <1>2, <1>3, <1>4, <1>5, <1>6

LEMMA WebInvariant == Spec => []WebInv
  <1>1. Init => WebInv
    BY ViewsStart, InputStarts, TreeStarts, AuthStarts, DownloadStarts, NetStarts, LimitsStart
       DEF Init, WebInv
  <1>2. WebInv /\ [Next]_vars => WebInv'
    <2> SUFFICES ASSUME WebInv, [Next]_vars PROVE WebInv'
      OBVIOUS
    <2>1. UNCHANGED <<platform, family>>
      BY DEF Next, vars
    <2>2. UNCHANGED viewVars => ViewsInv' /\ ViewLimits'
      BY <2>1, ViewsIdle DEF WebInv, viewVars, LimitInv, ViewLimits
    <2>3. UNCHANGED inputVars => InputInv' /\ InputLimits'
      BY <2>1 DEF WebInv, inputVars, InputInv, TypeInput, PointerInv, HitInv, RefInv, KeycodeInv,
                  TypedInv, ClickReaches, LimitInv, InputLimits
    <2>4. UNCHANGED scriptVars =>
            TreeInv' /\ AuthInv' /\ DownloadInv' /\ NetInv' /\ ScriptLimits'
      BY <2>1, ScriptsIdle DEF WebInv, LimitInv
    <2>5. CASE family = "views" /\ NextViews /\ UNCHANGED <<scriptVars, inputVars>>
      BY <2>1, <2>3, <2>4, <2>5, ViewsStep, ViewLimitsStep DEF WebInv, LimitInv
    <2>6. CASE Scripted /\ UNCHANGED <<viewVars, inputVars>>
      BY <2>1, <2>2, <2>3, <2>6, TreeStep, AuthStep, DownloadStep, NetStep, ScriptLimitsStep
         DEF WebInv, LimitInv
    <2>7. CASE family = "input" /\ NextInput /\ UNCHANGED <<viewVars, scriptVars>>
      BY <2>1, <2>2, <2>4, <2>7, InputStep, InputLimitsStep DEF WebInv, LimitInv
    <2>8. CASE UNCHANGED vars
      BY <2>1, <2>2, <2>3, <2>4, <2>8 DEF vars, WebInv, LimitInv
    <2> QED BY <2>5, <2>6, <2>7, <2>8 DEF Next
  <1> QED BY <1>1, <1>2, PTL DEF Spec

(* The invariant of the parts gives the types and the limits of the whole.  *)
LEMMA WebTypes == WebInv => TypeOK
  <1> SUFFICES ASSUME WebInv PROVE TypeOK
    OBVIOUS
  <1>1. platform \in Platforms /\ family \in Families
    BY DEF WebInv
  <1>2. /\ views \in [Views -> {"none", "live", "torn", "lost"}]
        /\ pages \in [Views -> 0..MaxViews] /\ nextHandle \in 1..(MaxViews + 1)
        /\ scripted \subseteq Views /\ shimmed \subseteq Views
    BY WebViewsAssumption DEF WebInv, ViewsInv, TypeViews, LimitInv, ViewLimits
  <1>3. \A v \in Views : shown[v] <= load[v].n /\ load[v].n <= nloads
    BY DEF WebInv, ViewsInv, LoadInv
  <1>4. doc \in 1..MaxDocs /\ nchanges \in 0..MaxChanges /\ njobs \in 0..MaxJobs
    BY DEF WebInv, LimitInv, ScriptLimits
  <1>5. Cardinality(dl) <= MAX_ENTRIES /\ \A e \in dl : e.id \in 1..dlSeq
    <2>1. CASE family = "download"
      BY <2>1 DEF WebInv, DownloadInv, TableInv
    <2>2. CASE family # "download"
      <3>1. dl = {}
        BY <2>2 DEF WebInv, DownloadInv
      <3>2. Cardinality({}) = 0
        BY FS_EmptySet
      <3> QED BY <3>1, <3>2, PageScriptsAssumption
    <2> QED BY <2>1, <2>2
  <1>6. Len(ring) <= Capacity /\ Len(pending) <= Capacity
    BY PageScriptsAssumption DEF WebInv, NetInv, TypeNet
  <1>7. dump.left \subseteq Dbs /\ restore.left \subseteq Dbs
    BY DEF WebInv, AuthInv, TypeAuth, DumpRecords, RestoreRecords, NoScript
  <1>8. btn \in BOOLEAN /\ ptr \in Points /\ ninputs \in 0..MaxInputs
    BY DEF WebInv, InputInv, TypeInput, LimitInv, InputLimits
  <1> QED BY <1>1, <1>2, <1>3, <1>4, <1>5, <1>6, <1>7, <1>8 DEF TypeOK

(* Buffers in step for every frame that is alone are so if one is alone.    *)
LEMMA BuffersMatch == NetInv => DetailsMatch
  <1> SUFFICES ASSUME NetInv, doc = 1, NEW f \in Frames,
                      \A g \in Frames \ {f} : frameSeq[g] = 0
               PROVE  /\ Len(details) = Len(ring)
                      /\ \A i \in DOMAIN ring : /\ details[i].seq = ring[i].seq
                                                /\ details[i].req = ring[i].req
                      /\ \A i \in DOMAIN details : details[i].sent \in {0, details[i].req}
    BY DEF DetailsMatch
  <1>1. CASE family = "net"
    <2>1. InStep(f)
      BY <1>1 DEF NetInv, MatchInv, OnlyFrame
    <2>2. ring \in Seq(Started) /\ details \in Seq(Described) /\ Len(details) = Len(ring)
      BY <1>1, <2>1 DEF NetInv, TypeNet, InStep
    <2>3. DOMAIN details = DOMAIN ring
      BY <2>2
    <2> QED BY <2>1, <2>2, <2>3 DEF InStep
  <1>2. CASE family # "net"
    BY <1>2 DEF NetInv
  <1> QED BY <1>1, <1>2

(* Every live web view belongs to exactly one handle or to the open that    *)
(* waits for it, and macOS forgets a view only when its URL was refused     *)
(* (webkit/mod.rs, wpe.rs, webview2.rs: open, close).                       *)
THEOREM ViewsAreOwned == Spec => []ViewsOwned
  BY WebInvariant, HandlesOwn, PTL DEF WebInv

(* An open or navigate that answers Ok shows what was asked for, if nothing *)
(* earlier had yet to report and, on Linux and Windows, whose backends      *)
(* answer Ok for a load that failed too, it did not fail (webkit/mod.rs,    *)
(* wpe.rs, webview2.rs: wait_for_navigation).                               *)
THEOREM OkIsShown == Spec => []OkShowsPage
  <1>1. WebInv => OkShowsPage
    BY DEF WebInv, ViewsInv
  <1> QED BY <1>1, WebInvariant, PTL

(* Snapshots show the tree as it is, and a wait for a change that installed *)
(* its own watcher saw one (snapshot_dom_walker.js, common.rs: run_wait).   *)
THEOREM ReadsAreCurrent == Spec => []ReadsCurrent
  <1>1. WebInv => ReadsCurrent
    BY DEF WebInv, TreeInv, ReadsCurrent, SnapshotFresh, FirstWaitSawChange
  <1> QED BY <1>1, WebInvariant, PTL

(* A blob that is not marked incomplete has every database but for records  *)
(* a getAll failed to read; a load that is Ok left out no database and no   *)
(* cookie, though Linux, macOS and the restore script may have dropped what *)
(* the store refused; cookies keep their flags and the events add up        *)
(* (common.rs: run_save_indexed_db, run_load_indexed_db, diff_cookies).     *)
THEOREM AuthIsCarriedOver == Spec => []AuthRoundTrip
  <1>1. WebInv => AuthRoundTrip
    BY DEF WebInv, AuthInv, AuthRoundTrip, BlobComplete, LoadRestores, CookiesKeepFlags,
           CookieEventsAddUp
  <1> QED BY <1>1, WebInvariant, PTL

(* A click that is Ok reached its element unless, on macOS, something else  *)
(* lay over it meanwhile; a text is typed in order, and unless a call       *)
(* failed the button is up and the borrowed keycode handed back             *)
(* (webkit/input.rs, webkit/mod.rs, wpe.rs, webview2.rs).                   *)
THEOREM InputIsSettled == Spec => []InputSettles
  BY WebInvariant, InputInvSettles, PTL DEF WebInv

(* A download that answers Ok has all the bytes of one entry, and within a  *)
(* document one fails for want of bytes only if MAX_ENTRIES newer entries   *)
(* came (common.rs: run_download; download_shim.js: push, drop).            *)
THEOREM DownloadsAreHonest == Spec => []DownloadsHonest
  <1>1. WebInv => DownloadsHonest
    BY DEF WebInv, DownloadInv, DownloadsHonest, DownloadWhole, ShortMeansEvicted
  <1> QED BY <1>1, WebInvariant, PTL

(* The handle table, the download table and the inspector's buffers stay    *)
(* within their limits, and while one frame makes requests every listed     *)
(* request has its own detail (inspector_bridge.rs: ingest_network;         *)
(* download_shim.js: push; webkit/mod.rs: alloc_handle).                    *)
THEOREM BuffersAreSound == Spec => []BuffersSound
  <1>1. WebInv => BuffersSound
    BY WebTypes, BuffersMatch DEF WebInv, BuffersSound
  <1> QED BY <1>1, WebInvariant, PTL

=============================================================================
