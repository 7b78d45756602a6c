---------------------------- MODULE EngineRuntime ----------------------------
(* The engine runtime: threads of the daemon send jobs over a channel to    *)
(* the one thread that may touch the web engine, wake its run loop, and     *)
(* block on a reply.  That host thread drains the queue and then sleeps in  *)
(* the platform's event loop with a 250 ms backstop; it exits when the last *)
(* sender is gone.                                                          *)
EXTENDS Backend, Naturals, Sequences

CONSTANTS
    Workers,      \* the daemon's blocking threads, one request each
    MaxRecordings \* bound: recordings that may be started

ASSUME RuntimeAssumption == /\ MaxRecordings \in Nat
                            /\ Workers \cap (1..MaxRecordings) = {}

Recordings == 1..MaxRecordings

Callers == Workers \cup Recordings

VARIABLES
    call,     \* call[c]: the job caller c has in flight
    reply,    \* reply[c]: what its reply channel holds
    woke,     \* woke[c]: it has called the waker for this job
    queue,    \* the callers whose jobs are queued, in order
    host,     \* the main thread: draining, about to sleep, asleep, exited
    wake,     \* a latched wake-up: signalled source, eventfd or WM_NULL
    page, sink, frames   \* the engine's state, see EngineCalls

channel == <<call, reply, woke, queue>>
engine == <<page, sink, frames>>

(* Only the Cocoa backend records inside its input primitives; the others   *)
(* keep the trait's default, an error.                                      *)
inline == platform = "webkit"

E == INSTANCE EngineCalls WITH asked <- call, got <- reply

InitRuntime == /\ platform \in Platforms
               /\ call = [c \in Callers |-> E!NoOp]
               /\ reply = [c \in Callers |-> "none"]
               /\ woke = [c \in Callers |-> FALSE]
               /\ queue = <<>>
               /\ host = "drain"
               /\ wake = FALSE
               /\ page = TRUE
               /\ sink = 0
               /\ frames = [r \in Recordings |-> 0]

Quiet(c) == call[c] = E!NoOp

(* A dispatch whose wake-up went out before the job was in the queue.        *)
DispatchWokeFirst(c, op) == /\ Quiet(c)
                            /\ call' = [call EXCEPT ![c] = op]
                            /\ woke' = [woke EXCEPT ![c] = TRUE]
                            /\ queue' = Append(queue, c)
                            /\ UNCHANGED <<reply, host, wake, engine, platform>>

(* dispatch: queue the job first, wake the host after, then block.          *)
dispatch(c, op) == /\ Quiet(c)
                   /\ call' = [call EXCEPT ![c] = op]
                   /\ queue' = Append(queue, c)
                   /\ UNCHANGED <<reply, woke, host, wake, engine, platform>>

Wake(c) == /\ ~Quiet(c) /\ ~woke[c]
           /\ woke' = [woke EXCEPT ![c] = TRUE]
           /\ wake' = TRUE
           /\ UNCHANGED <<call, reply, queue, host, engine, platform>>

(* The caller picks its reply up; res is what it gets.                      *)
Received(c, res) == /\ woke[c] /\ reply[c] # "none" /\ res = reply[c]
                    /\ call' = [call EXCEPT ![c] = E!NoOp]
                    /\ reply' = [reply EXCEPT ![c] = "none"]
                    /\ woke' = [woke EXCEPT ![c] = FALSE]
                    /\ UNCHANGED <<queue, host, wake, engine, platform>>

(* A tick without catch_unwind: the panic takes the host thread along.      *)
TickUnwinds == /\ host = "drain" /\ queue # <<>>
               /\ \/ /\ E!Performs(call[Head(queue)], "ok")
                     /\ reply' = [reply EXCEPT ![Head(queue)] = "ok"]
                     /\ queue' = Tail(queue)
                     /\ UNCHANGED host
                  \/ /\ host' = "exited"
                     /\ queue' = <<>>
                     /\ reply' = [c \in Callers |-> IF Quiet(c) THEN "none"
                                                   ELSE "Crashed"]
                     /\ UNCHANGED engine
               /\ UNCHANGED <<call, woke, wake, platform>>

(* A tick that leaves a failed job in the queue to try it again.            *)
TickRetries == /\ host = "drain" /\ queue # <<>>
               /\ \E res \in {"ok", "err"} :
                    /\ E!Performs(call[Head(queue)], res)
                    /\ reply' = [reply EXCEPT ![Head(queue)] = res]
                    /\ queue' = IF res = "ok" THEN Tail(queue) ELSE queue
               /\ wake' \in {wake, FALSE}
               /\ UNCHANGED <<call, woke, host, platform>>

(* tick with a job: it runs inside catch_unwind, so a panic is an error     *)
(* like any other.  A job that pumps the event loop while it waits for the  *)
(* page swallows a pending wake-up.                                         *)
tick == /\ host = "drain" /\ queue # <<>>
        /\ \E res \in {"ok", "err"} :
             /\ E!Performs(call[Head(queue)], res)
             /\ reply' = [reply EXCEPT ![Head(queue)] = res]
        /\ queue' = Tail(queue)
        /\ wake' \in {wake, FALSE}
        /\ UNCHANGED <<call, woke, host, platform>>

(* tick on an empty queue: the loop falls through to the event loop's wait, *)
(* or ends when no sender is left.                                          *)
TickEmpty(senders) == /\ host = "drain" /\ queue = <<>>
                      /\ host' = IF ~senders THEN "exited"
                                 ELSE IF platform = "webview2" THEN "gap"
                                 ELSE "asleep"
                      /\ UNCHANGED <<channel, wake, engine, platform>>

(* Before it waits, the Windows loop dispatches every message in the        *)
(* thread's queue, a worker's WM_NULL with them.                            *)
Pump == /\ host = "gap"
        /\ host' = "asleep"
        /\ wake' = FALSE
        /\ UNCHANGED <<channel, engine, platform>>

(* The wait returns for a wake-up, which CFRunLoop and GLib consume with it *)
(* and the Windows wait leaves in the message queue.                        *)
Woken == /\ host = "asleep" /\ wake
         /\ host' = "drain"
         /\ wake' = (platform = "webview2")
         /\ UNCHANGED <<channel, engine, platform>>

(* A wait without the 250 ms bound.                                         *)
NoBackstop == FALSE

(* The wait times out, or the page's own events end it.                     *)
Backstop == /\ host = "asleep"
            /\ host' = "drain"
            /\ UNCHANGED <<channel, wake, engine, platform>>
=============================================================================
