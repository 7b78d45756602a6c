----------------------------- MODULE EngineCalls -----------------------------
(* What the engine facade promises its callers, without a channel or a      *)
(* thread: the engine is one atomic object.  A call is performed exactly    *)
(* once, at one moment between being made and returning, and returns what   *)
(* it did at that moment; no call is lost, repeated, answered with another  *)
(* call's result, or refused because the engine thread is gone.             *)
EXTENDS Naturals

CONSTANTS
    Callers,     \* the threads that call the engine
    Recordings   \* the recordings, numbered from 1

VARIABLES
    inline,      \* whether the backend records inside its input primitives
    asked,       \* asked[c]: the operation caller c waits for
    got,         \* got[c]: its result, "none" until it was performed
    page,        \* whether the web view of the page exists
    sink,        \* the recording whose sender the engine holds, 0 for none
    frames       \* frames[r]: frames sent to recording r, not yet taken

vars == <<inline, asked, got, page, sink, frames>>

NoOp == [kind |-> "none", rec |-> 0]

Ops == [kind : {"input", "close", "capture", "end"}, rec : {0}]
          \cup [kind : {"begin"}, rec : Recordings]

(* What the engine does for one operation.  An operation on the page may    *)
(* fail, or panic and be turned into an error, without an effect on the     *)
(* recording; begin fails only without inline support or page, end never.   *)
(* An input step grabs a frame for the sink (a failed grab is dropped); a   *)
(* second begin replaces the sink of the first; end removes whatever sink   *)
(* is there; close leaves it.                                               *)
Fails(op) == /\ op.kind # "end"
             /\ op.kind = "begin" => ~(inline /\ page)
             /\ UNCHANGED <<page, sink, frames>>

Input == /\ page
         /\ UNCHANGED <<page, sink>>
         /\ \/ sink # 0 /\ frames' = [frames EXCEPT ![sink] = @ + 1]
            \/ UNCHANGED frames

capture_live == page /\ UNCHANGED <<page, sink, frames>>

record_begin(r) == /\ inline /\ page
                   /\ sink' = r
                   /\ UNCHANGED <<page, frames>>

record_end == sink' = 0 /\ UNCHANGED <<page, frames>>

close == page /\ page' = FALSE /\ UNCHANGED <<sink, frames>>

Does(op) == \/ op.kind = "input" /\ Input
            \/ op.kind = "capture" /\ capture_live
            \/ op.kind = "begin" /\ record_begin(op.rec)
            \/ op.kind = "end" /\ record_end
            \/ op.kind = "close" /\ close

Performs(op, result) == \/ result = "ok" /\ Does(op)
                        \/ result = "err" /\ Fails(op)

Init == /\ inline \in BOOLEAN
        /\ asked = [c \in Callers |-> NoOp]
        /\ got = [c \in Callers |-> "none"]
        /\ page = TRUE
        /\ sink = 0
        /\ frames = [r \in Recordings |-> 0]

Ask(c) == /\ asked[c] = NoOp
          /\ \E op \in Ops : asked' = [asked EXCEPT ![c] = op]
          /\ UNCHANGED <<inline, got, page, sink, frames>>

Perform(c) == /\ asked[c] # NoOp /\ got[c] = "none"
              /\ \E res \in {"ok", "err"} :
                   /\ Performs(asked[c], res)
                   /\ got' = [got EXCEPT ![c] = res]
              /\ UNCHANGED <<inline, asked>>

Return(c) == /\ got[c] # "none"
             /\ asked' = [asked EXCEPT ![c] = NoOp]
             /\ got' = [got EXCEPT ![c] = "none"]
             /\ UNCHANGED <<inline, page, sink, frames>>

Take(r) == /\ frames[r] > 0
           /\ frames' = [frames EXCEPT ![r] = @ - 1]
           /\ UNCHANGED <<inline, asked, got, page, sink>>

Next == \/ \E c \in Callers : Ask(c) \/ Perform(c) \/ Return(c)
        \/ \E r \in Recordings : Take(r)

Spec == Init /\ [][Next]_vars
=============================================================================
