------------------------------- MODULE Recorder -------------------------------
(* Session video recording over the engine runtime: record_start and        *)
(* record_stop on the daemon's worker threads, the recorder threads they    *)
(* start and join, and the daemon's shutdown, which ends the host loop when *)
(* the last thread that holds a Daemon is gone: never, unless VS_REAP=0,    *)
(* for the reaper's thread holds one.  One page is recorded.                *)
EXTENDS EngineRuntime

CONSTANTS
    MaxRequests,   \* bound: requests the server accepts
    cap_limit,     \* frames after which a recording ends by itself
    give_up_after  \* consecutive misses after which it gives up

ASSUME RecorderAssumption == /\ MaxRequests \in Nat
                             /\ cap_limit \in Nat \ {0}
                             /\ give_up_after \in Nat

VARIABLES
    task,       \* task[w]: how far worker w is in its request
    arg,        \* arg[w]: the recording a start or a stop is about
    requests,   \* how many requests were accepted
    server,     \* "up", "stopping" after SIGTERM; once it is dropped,
                \* "reaping" if there is a reaper and "gone" if not
    recorders,  \* the handle the recorders map has for the page, 0 for none
    started,    \* how many recordings were given a number
    rec,        \* rec[r]: the recorder thread
    raced       \* two record_starts were between their check and insert

threads == <<task, arg, requests, server, recorders, started, rec, raced>>
vars == <<platform, host, wake, channel, engine, threads>>

Off == [at |-> "off", inline |-> FALSE, stop |-> FALSE, caps |-> 0,
        misses |-> 0]
Done == [Off EXCEPT !.at = "done"]

Init == /\ InitRuntime
        /\ task = [w \in Workers |-> "idle"]
        /\ arg = [w \in Workers |-> 0]
        /\ requests = 0
        /\ server = "up"
        /\ recorders = 0
        /\ started = 0
        /\ rec = [r \in Recordings |-> Off]
        /\ raced = FALSE

Starting(w) == task[w] \in {"begin", "insert"}
Running(r) == rec[r].at \notin {"off", "done"}

(* A channel that recorder threads do not keep open.                        *)
ServerOnly == server # "gone"

(* The threads that keep the engine channel open: the server until it is    *)
(* dropped, the reaper for ever, and every recorder thread through its      *)
(* clone of the daemon.                                                     *)
Senders == server # "gone" \/ \E r \in Recordings : Running(r)

(* An idle worker takes the next request.  Which one makes no difference,   *)
(* so it is always the same.                                                *)
Takes(w) == /\ task[w] = "idle"
            /\ w = CHOOSE v \in Workers : task[v] = "idle"
            /\ requests < MaxRequests
            /\ requests' = requests + 1

(* A request reaches it while the server accepts.                           *)
Accept(w) == server = "up" /\ Takes(w)

(* What is one engine call: an input step or closing the page.              *)
EngineCall(w, kind) == /\ task' = [task EXCEPT ![w] = "op"]
                       /\ dispatch(w, [kind |-> kind, rec |-> 0])
                       /\ UNCHANGED <<arg, server, recorders, started, rec, raced>>

EngineOp(w, kind) == Accept(w) /\ EngineCall(w, kind)

OpDone(w) == /\ task[w] = "op"
             /\ \E res \in {"ok", "err"} : Received(w, res)
             /\ task' = [task EXCEPT ![w] = "idle"]
             /\ UNCHANGED <<arg, requests, server, recorders, started, rec, raced>>

(* The reaper goes on closing idle pages of a process that serves nobody    *)
(* (before that its sweeps are among the requests, as any call is).  It has *)
(* a thread of its own, for which an idle worker stands.                    *)
Sweep(w) == server = "reaping" /\ Takes(w) /\ EngineCall(w, "close")

(* A start that does not look into the map.                                 *)
StartUnchecked(w) ==
    /\ Accept(w)
    /\ page /\ started < MaxRecordings
    /\ started' = started + 1
    /\ task' = [task EXCEPT ![w] = "begin"]
    /\ arg' = [arg EXCEPT ![w] = started + 1]
    /\ raced' = (raced \/ \E o \in Workers \ {w} : Starting(o))
    /\ dispatch(w, [kind |-> "begin", rec |-> started + 1])
    /\ UNCHANGED <<server, recorders, rec>>

(* record_start up to record_begin: the page is known, and the map has no   *)
(* handle for it.                                                           *)
record_start(w) ==
    /\ Accept(w)
    /\ page /\ recorders = 0 /\ started < MaxRecordings
    /\ started' = started + 1
    /\ task' = [task EXCEPT ![w] = "begin"]
    /\ arg' = [arg EXCEPT ![w] = started + 1]
    /\ raced' = (raced \/ \E o \in Workers \ {w} : Starting(o))
    /\ dispatch(w, [kind |-> "begin", rec |-> started + 1])
    /\ UNCHANGED <<server, recorders, rec>>

(* record_begin returned: the recorder thread starts, inline if the engine  *)
(* took the sender ...                                                      *)
SpawnRecorder(w) ==
    /\ task[w] = "begin"
    /\ \E res \in {"ok", "err"} :
         /\ Received(w, res)
         /\ rec' = [rec EXCEPT ![arg[w]] =
                      [Off EXCEPT !.at = IF res = "ok" THEN "seed" ELSE "loop",
                                  !.inline = (res = "ok")]]
    /\ task' = [task EXCEPT ![w] = "insert"]
    /\ UNCHANGED <<arg, requests, server, recorders, started, raced>>

(* ... and its handle goes into the map, over whatever is there.            *)
InsertHandle(w) ==
    /\ task[w] = "insert"
    /\ recorders' = arg[w]
    /\ task' = [task EXCEPT ![w] = "idle"]
    /\ arg' = [arg EXCEPT ![w] = 0]
    /\ UNCHANGED <<platform, host, wake, channel, engine>>
    /\ UNCHANGED <<requests, server, started, rec, raced>>

(* record_stop: take the handle out, raise its stop flag, join the thread.  *)
record_stop(w) ==
    /\ Accept(w) /\ recorders # 0
    /\ recorders' = 0
    /\ arg' = [arg EXCEPT ![w] = recorders]
    /\ rec' = [rec EXCEPT ![recorders].stop = TRUE]
    /\ task' = [task EXCEPT ![w] = "join"]
    /\ UNCHANGED <<platform, host, wake, channel, engine>>
    /\ UNCHANGED <<server, started, raced>>

Joined(w) ==
    /\ task[w] = "join" /\ rec[arg[w]].at = "done"
    /\ task' = [task EXCEPT ![w] = "idle"]
    /\ arg' = [arg EXCEPT ![w] = 0]
    /\ UNCHANGED <<platform, host, wake, channel, engine>>
    /\ UNCHANGED <<requests, server, recorders, started, rec, raced>>

-----------------------------------------------------------------------------
(* The recorder thread.  Becomes(r, t): only r's thread moves, to state t.   *)
Becomes(r, t) == /\ rec' = [rec EXCEPT ![r] = t]
                 /\ UNCHANGED <<task, arg, requests, server, recorders,
                                started, raced>>

Still == UNCHANGED <<platform, host, wake, channel, engine>>

(* live_frame: no engine call when the page is no longer in any session.    *)
live_frame(r, waiting, missed) ==
    \/ /\ page
       /\ dispatch(r, [kind |-> "capture", rec |-> 0])
       /\ Becomes(r, [rec[r] EXCEPT !.at = waiting])
    \/ ~page /\ Still /\ Becomes(r, missed)

Missed(r) == [rec[r] EXCEPT !.misses = @ + 1,
                            !.at = IF rec[r].misses >= give_up_after
                                   THEN "encode" ELSE "loop"]

(* Frames that the cap does not count.                                      *)
CapturedUncounted(r) == [rec[r] EXCEPT !.caps = 1, !.misses = 0, !.at = "loop"]

Captured(r) == [rec[r] EXCEPT !.caps = @ + 1, !.misses = 0, !.at = "loop"]

(* The frame the recording opens on; a failed seed is not a miss.           *)
Seed(r) == /\ rec[r].at = "seed"
           /\ live_frame(r, "seeding", [rec[r] EXCEPT !.at = "loop"])

Seeded(r) == /\ rec[r].at = "seeding"
             /\ \E res \in {"ok", "err"} :
                  /\ Received(r, res)
                  /\ Becomes(r, IF res = "ok" THEN Captured(r)
                                ELSE [rec[r] EXCEPT !.at = "loop"])

(* The loop condition, read before every wait.                              *)
LoopEnds(r) == rec[r].stop \/ rec[r].caps >= cap_limit

LeaveLoop(r) == /\ rec[r].at = "loop" /\ LoopEnds(r)
                /\ Still
                /\ Becomes(r, [rec[r] EXCEPT !.at = "encode"])

(* An input step sent a frame.                                              *)
TakeFrame(r) == /\ rec[r].at = "loop" /\ ~LoopEnds(r)
                /\ rec[r].inline /\ frames[r] > 0
                /\ frames' = [frames EXCEPT ![r] = @ - 1]
                /\ Becomes(r, Captured(r))
                /\ UNCHANGED <<platform, host, wake, channel, page, sink>>

(* The engine dropped the sender: another begin replaced it, or an end.     *)
Disconnected(r) == /\ rec[r].at = "loop" /\ ~LoopEnds(r)
                   /\ rec[r].inline /\ frames[r] = 0 /\ sink # r
                   /\ Still
                   /\ Becomes(r, [rec[r] EXCEPT !.at = "encode"])

(* Nothing came for long enough, or it is the poller's next turn.           *)
Idle(r) == /\ rec[r].at = "loop" /\ ~LoopEnds(r)
           /\ rec[r].inline => frames[r] = 0 /\ sink = r
           /\ live_frame(r, "grab", Missed(r))

Grabbed(r) == /\ rec[r].at = "grab"
              /\ \E res \in {"ok", "err"} :
                   /\ Received(r, res)
                   /\ Becomes(r, IF res = "ok" THEN Captured(r) ELSE Missed(r))

(* A thread that returns early when it has captured nothing.                *)
EncodeOrBail(r) == /\ rec[r].at = "encode"
                   /\ IF rec[r].inline /\ rec[r].caps > 0
                      THEN /\ dispatch(r, [kind |-> "end", rec |-> 0])
                           /\ Becomes(r, [rec[r] EXCEPT !.at = "ending"])
                      ELSE Still /\ Becomes(r, Done)

(* Resample and encode what was captured, or report that nothing was; an    *)
(* inline recording then takes its sink out of the engine either way.       *)
Encode(r) == /\ rec[r].at = "encode"
             /\ IF rec[r].inline
                THEN /\ dispatch(r, [kind |-> "end", rec |-> 0])
                     /\ Becomes(r, [rec[r] EXCEPT !.at = "ending"])
                ELSE Still /\ Becomes(r, Done)

Ended(r) == /\ rec[r].at = "ending"
            /\ \E res \in {"ok", "err"} : Received(r, res)
            /\ Becomes(r, Done)

-----------------------------------------------------------------------------
(* SIGTERM or ctrl-c: no more requests; the server thread then waits for    *)
(* the blocking threads and drops the daemon.                               *)
Terminate == /\ server = "up"
             /\ server' = "stopping"
             /\ Still
             /\ UNCHANGED <<task, arg, requests, recorders, started, rec, raced>>

(* With VS_REAP=0 there is no reaper, and the daemon is gone with it.       *)
DropDaemon == /\ server = "stopping"
              /\ \A w \in Workers : task[w] = "idle"
              /\ server' \in {"reaping", "gone"}
              /\ Still
              /\ UNCHANGED <<task, arg, requests, recorders, started, rec, raced>>

WakeHost(c) == Wake(c) /\ UNCHANGED threads

HostStep == /\ tick \/ TickEmpty(Senders) \/ Pump \/ Woken \/ Backstop
            /\ UNCHANGED threads

WorkerStep(w) == \/ OpDone(w) \/ SpawnRecorder(w) \/ InsertHandle(w)
                 \/ Joined(w) \/ WakeHost(w)

RecorderStep(r) == \/ Seed(r) \/ Seeded(r) \/ LeaveLoop(r) \/ TakeFrame(r)
                   \/ Disconnected(r) \/ Idle(r) \/ Grabbed(r) \/ Encode(r)
                   \/ Ended(r) \/ WakeHost(r)

Request(w) == \/ \E kind \in {"input", "close"} : EngineOp(w, kind)
              \/ record_start(w) \/ record_stop(w) \/ Sweep(w)

Next == \/ \E w \in Workers : Request(w) \/ WorkerStep(w)
        \/ \E r \in Recordings : RecorderStep(r)
        \/ HostStep
        \/ Terminate \/ DropDaemon

(* Every thread that can run is scheduled, and the host loop's waits time   *)
(* out; nobody has to send a request or a signal.                           *)
Fairness == /\ WF_vars(HostStep)
            /\ WF_vars(DropDaemon)
            /\ \A w \in Workers : WF_vars(WorkerStep(w))
            /\ \A r \in Recordings : WF_vars(RecorderStep(r))

Spec == Init /\ [][Next]_vars /\ Fairness

-----------------------------------------------------------------------------
TypeChannel == /\ call \in [Callers -> E!Ops \cup {E!NoOp}]
               /\ reply \in [Callers -> {"none", "ok", "err"}]
               /\ woke \in [Callers -> BOOLEAN]
               /\ queue \in Seq(Callers)

TypeEngine == /\ platform \in Platforms
              /\ host \in {"drain", "gap", "asleep", "exited"}
              /\ wake \in BOOLEAN /\ page \in BOOLEAN
              /\ sink \in Recordings \cup {0}
              /\ frames \in [Recordings -> Nat]

TypeTasks == /\ task \in [Workers -> {"idle", "op", "begin", "insert", "join"}]
             /\ arg \in [Workers -> Recordings \cup {0}]
             /\ requests \in 0..MaxRequests
             /\ server \in {"up", "stopping", "reaping", "gone"}
             /\ recorders \in Recordings \cup {0}
             /\ started \in Recordings \cup {0}
             /\ raced \in BOOLEAN

RecorderStates ==
    [at : {"off", "seed", "seeding", "loop", "grab", "encode", "ending", "done"},
     inline : BOOLEAN, stop : BOOLEAN, caps : Nat, misses : Nat]

TypeOK == TypeChannel /\ TypeEngine /\ TypeTasks /\ rec \in [Recordings -> RecorderStates]

(* A queued job never waits for the backstop: while the host sleeps on a    *)
(* non-empty queue, a wake-up is latched or the job's sender is about to    *)
(* send one.  (Not so on Windows, whose loop discards wake-ups posted       *)
(* between its last look at the queue and its wait.)                        *)
WakeupNotLost == platform # "webview2" /\ host = "asleep" =>
                   \A i \in 1..Len(queue) : wake \/ ~woke[queue[i]]

(* Every recorder thread that runs can be stopped: its handle is in the     *)
(* map, or about to go in, or a record_stop has it.  Two record_starts that *)
(* overlap lose the first one's handle; otherwise no handle is lost.        *)
RecorderReachable ==
    ~raced => \A r \in Recordings : Running(r) =>
        \/ recorders = r
        \/ \E w \in Workers : arg[w] = r /\ task[w] \in {"insert", "join"}

(* The engine grabs frames for no recording that has ended: an ended        *)
(* recording left no sink behind, even if starts overlapped.                *)
SinkIsLive == sink # 0 =>
    \/ Running(sink)
    \/ \E w \in Workers : task[w] = "begin" /\ arg[w] = sink

(* Nothing is left to do: no recording runs, no caller waits.               *)
AllDone == /\ \A r \in Recordings : ~Running(r)
           /\ \A c \in Callers : Quiet(c)

(* The process exits only after every recording has flushed its file and    *)
(* every request has been answered, and not while a reaper might still      *)
(* call the engine.                                                         *)
ExitIsClean == host = "exited" => server = "gone" /\ AllDone

-----------------------------------------------------------------------------
(* Why they hold.  A caller without a job has nothing in the channel; the   *)
(* job of one that waits is in the queue once, or is answered.              *)
Queued(c) == \E i \in 1..Len(queue) : queue[i] = c

JobInv ==
    /\ \A i, j \in 1..Len(queue) : queue[i] = queue[j] => i = j
    /\ \A c \in Callers : Queued(c) => ~Quiet(c) /\ reply[c] = "none"
    /\ \A c \in Callers : Quiet(c) => reply[c] = "none" /\ ~woke[c]

(* A thread waits for the engine exactly where its code calls it, for the   *)
(* call that is made there.                                                 *)
WorkerInv ==
    \A w \in Workers :
      /\ ~Quiet(w) <=> task[w] \in {"op", "begin"}
      /\ task[w] = "op" => call[w].kind \in {"input", "close"}
      /\ task[w] = "begin" => call[w] = [kind |-> "begin", rec |-> arg[w]]

ThreadInv ==
    \A r \in Recordings :
      /\ ~Quiet(r) <=> rec[r].at \in {"seeding", "grab", "ending"}
      /\ rec[r].at \in {"seeding", "grab"} => call[r].kind = "capture"
      /\ rec[r].at = "ending" => call[r].kind = "end"

(* Every recording has one number, and a handle is of a thread that was     *)
(* started.                                                                 *)
NumberInv ==
    /\ \A w \in Workers :
         /\ task[w] \in {"idle", "op"} <=> arg[w] = 0
         /\ arg[w] <= started
         /\ task[w] = "begin" => rec[arg[w]].at = "off"
         /\ task[w] \in {"insert", "join"} => rec[arg[w]].at # "off"
    /\ \A v, w \in Workers : task[v] = "begin" /\ arg[v] = arg[w] => v = w
    /\ \A r \in Recordings : r > started => rec[r].at = "off"
    /\ recorders <= started
    /\ recorders # 0 => rec[recorders].at # "off"

(* One start at a time finds the map empty and still empty when it inserts. *)
StartInv ==
    ~raced => \A w \in Workers : Starting(w) =>
        /\ recorders = 0
        /\ \A v \in Workers : Starting(v) => v = w

(* The engine has the sender of a recording from its begin, which makes it  *)
(* an inline one, to its end.                                               *)
SinkInv ==
    /\ \A w \in Workers :
         task[w] = "begin" /\ sink = arg[w] => reply[w] = "ok"
    /\ \A r \in Recordings : sink = r /\ rec[r].at # "off" =>
         /\ rec[r].inline
         /\ rec[r].at = "ending" => reply[r] = "none"

(* The server is dropped when no worker is busy; only then the loop ends.   *)
ExitInv ==
    /\ server = "gone" => \A w \in Workers : task[w] = "idle"
    /\ host = "exited" => server = "gone" /\ \A r \in Recordings : ~Running(r)
    /\ host = "gap" => platform = "webview2"

RecordInv ==
    /\ JobInv /\ WorkerInv /\ ThreadInv /\ NumberInv /\ StartInv /\ SinkInv /\ ExitInv
    /\ RecorderReachable /\ SinkIsLive

(* The channel, the host loop and the waker together implement the atomic   *)
(* engine: every call is performed once and gets its own result, and none   *)
(* ever sees Closed or Crashed.                                             *)
EngineIsAtomic == E!Spec

(* record_stop returns: the thread it joins sees the flag at its next loop  *)
(* test and every engine call on the way is answered.                       *)
StopReturns == \A w \in Workers : task[w] = "join" ~> task[w] = "idle"

(* A terminated daemon winds down, even if a recording is running that      *)
(* nobody will stop: its frame cap or its misses end it, every call is      *)
(* answered, and if there is no reaper the backstop notices the closed      *)
(* channel, for which no wake-up is sent, and the process exits.            *)
TerminateWindsDown ==
    server = "stopping" ~> AllDone /\ (host = "exited" \/ server = "reaping")

(* What the comment at the host loop says: the daemon drops, taking the     *)
(* last handle of the engine with it, so the loop exits.  The reaper's      *)
(* clone of the daemon keeps it from that.                                  *)
TerminateExits == server = "stopping" ~> host = "exited"

(* Recordings are sound from start to exit: each one that runs can be       *)
(* stopped, each one that ended has left the engine, and the process, if it *)
(* exits at all, outlives them.                                             *)
RecordingsSound == TypeOK /\ RecorderReachable /\ SinkIsLive /\ ExitIsClean

(* Every wait for a recording ends: record_stop's and the shutdown's.       *)
RecordingsEnd == StopReturns /\ TerminateWindsDown

=============================================================================
