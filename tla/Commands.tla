------------------------------ MODULE Commands ------------------------------
(* `vs` command processes over the daemons of one home: resolving the       *)
(* caller's session, finding or starting a daemon, opening a session on the *)
(* way, and the caller bindings they leave in callers/<key>.                *)
EXTENDS Daemons

CONSTANTS
    Procs,         \* the processes that may run at the same time
    Keys,          \* caller keys: terminals or agents
    MaxCommands,   \* bound: commands run
    MaxAges        \* bound: how often CALLER_TTL (30 days) passes

ASSUME CommandAssumption == MaxCommands \in Nat /\ MaxAges \in Nat

VARIABLES
    at,        \* at[p]: how far process p is
    cmd,       \* cmd[p]: its command
    key,       \* key[p]: its caller key
    sid,       \* sid[p]: the session it resolved, 0 for none
    conn,      \* conn[p]: the daemon it is connected to
    bound,     \* bound[k]: what callers/k holds
    old,       \* the bindings last written more than CALLER_TTL ago
    commands,  \* how many commands were run
    ages,      \* how often CALLER_TTL passed
    mixed      \* the keys two of whose commands overlapped

procVars == <<at, cmd, key, sid, conn, commands, ages, mixed>>
vars == <<daemonVars, procVars, bound, old>>

None == 0
Closed == MaxSessions + 1    \* CLOSED_SENTINEL

Idle == [p \in Procs |-> "idle"]

Init == /\ InitDaemons
        /\ at = Idle /\ cmd = Idle
        /\ key = Idle
        /\ sid = [p \in Procs |-> None]
        /\ conn = [p \in Procs |-> 0]
        /\ bound = [k \in Keys |-> None]
        /\ old = {}
        /\ commands = 0 /\ ages = 0
        /\ mixed = {}

Goes(p, to) == at' = [at EXCEPT ![p] = to]

(* The process ends; nothing it held matters any more.                      *)
Ends(p) == /\ Goes(p, "idle")
           /\ cmd' = [cmd EXCEPT ![p] = "idle"]
           /\ key' = [key EXCEPT ![p] = "idle"]
           /\ sid' = [sid EXCEPT ![p] = None]
           /\ conn' = [conn EXCEPT ![p] = 0]
           /\ UNCHANGED <<commands, ages, mixed>>

Stays == UNCHANGED <<cmd, key, sid, conn, commands, ages, mixed>>
Bindings == UNCHANGED <<bound, old>>

-----------------------------------------------------------------------------
(* resolve_session reads the binding once, when the command starts; without *)
(* one, a command that needs a session will open one for the caller, unless *)
(* the caller closed its session.                                           *)
run(p, k, c) ==
    /\ at[p] = "idle" /\ commands < MaxCommands
    /\ commands' = commands + 1
    /\ cmd' = [cmd EXCEPT ![p] = c]
    /\ key' = [key EXCEPT ![p] = k]
    /\ sid' = [sid EXCEPT ![p] = bound[k]]
    /\ mixed' = IF \E q \in Procs : at[q] # "idle" /\ key[q] = k
                THEN mixed \cup {k} ELSE mixed
    /\ Goes(p, IF c = "stop" THEN "readpid" ELSE "connect")
    /\ UNCHANGED <<daemonVars, conn, ages>> /\ Bindings

(* connect: use the daemon that listens, or start one and wait for it; a    *)
(* process that cannot be started ends the command.                         *)
ProbeFound(p) == /\ at[p] = "connect" /\ is_listening
                 /\ Goes(p, "attach")
                 /\ Stays /\ Bindings /\ UNCHANGED daemonVars

spawn_daemon(p) == /\ at[p] = "connect" /\ ~is_listening
                   /\ \/ /\ \E d \in Daemon : Spawned(d)
                         /\ Goes(p, "wait") /\ Stays
                      \/ Ends(p) /\ UNCHANGED daemonVars
                   /\ Bindings

(* wait_for_socket polls for ten seconds.                                   *)
wait_for_socket(p) == /\ at[p] = "wait"
                      /\ \/ is_listening /\ Goes(p, "attach") /\ Stays
                         \/ ~is_listening /\ Ends(p)
                      /\ Bindings /\ UNCHANGED daemonVars

(* Client::connect reaches the listener of that moment, or fails.           *)
Attach(p) == /\ at[p] = "attach"
             /\ \/ /\ is_listening
                   /\ Goes(p, "call")
                   /\ conn' = [conn EXCEPT ![p] = sock]
                   /\ UNCHANGED <<cmd, key, sid, commands, ages, mixed>>
                \/ ~is_listening /\ Ends(p)
             /\ Bindings /\ UNCHANGED daemonVars

(* "daemon closed connection".                                              *)
ConnectionLost(p) == /\ at[p] \in {"call", "act"} /\ ~Serving(conn[p])
                     /\ Ends(p)
                     /\ Bindings /\ UNCHANGED daemonVars

(* A command that takes the closed mark for "no session yet".               *)
OpensAnyway(p) == \/ cmd[p] = "open"
                  \/ cmd[p] \in {"use", "close"} /\ sid[p] \in {None, Closed}

(* session-open, and any command that needs a session and resolved none:    *)
(* session-close is one of them.                                            *)
OpensSession(p) == \/ cmd[p] = "open"
                   \/ cmd[p] \in {"use", "close"} /\ sid[p] = None

(* The session_open call, asked for or automatic.                           *)
OpenCall(p) == /\ at[p] = "call" /\ OpensSession(p) /\ Answers(conn[p])
               /\ session_open(conn[p])
               /\ sid' = [sid EXCEPT ![p] = opened + 1]
               /\ Goes(p, "save")
               /\ UNCHANGED <<state, files, ghosts>>
               /\ UNCHANGED <<cmd, key, conn, commands, ages, mixed>> /\ Bindings

(* The daemon refuses to open one: the command ends with that answer.       *)
OpenRefused(p) == /\ at[p] = "call" /\ OpensSession(p) /\ Answers(conn[p])
                  /\ Ends(p) /\ Bindings /\ UNCHANGED daemonVars

(* One pointer for every caller, as the legacy active-session file was.     *)
SaveShared(k, s) == /\ bound' = [j \in Keys |-> s]
                    /\ old' = {}

(* save_caller_session: bindings older than the TTL are pruned first, the   *)
(* caller's own with them; reading a binding never makes it younger.        *)
save_caller_session(k, s) == /\ bound' = [j \in Keys |->
                                            IF j = k THEN s
                                            ELSE IF j \in old THEN None
                                            ELSE bound[j]]
                             /\ old' = {}

SaveOpened(p) == /\ at[p] = "save"
                 /\ save_caller_session(key[p], sid[p])
                 /\ IF cmd[p] = "open" THEN Ends(p) ELSE Goes(p, "act") /\ Stays
                 /\ UNCHANGED daemonVars

(* A command with a session in hand goes on to its own request.             *)
Proceed(p) == /\ at[p] = "call" /\ ~OpensSession(p)
              /\ Goes(p, "act")
              /\ Stays /\ Bindings /\ UNCHANGED daemonVars

(* The request: refused without a session, or one the daemon does not have. *)
Refused(p) == /\ at[p] = "act" /\ Answers(conn[p])
              /\ sid[p] \notin held[conn[p]]
              /\ Ends(p) /\ Bindings /\ UNCHANGED daemonVars

Use(p) == /\ at[p] = "act" /\ cmd[p] = "use" /\ Answers(conn[p])
          /\ open(conn[p], sid[p])
          /\ Ends(p) /\ Bindings
          /\ UNCHANGED <<state, files, ghosts>>

Close(p) == /\ at[p] = "act" /\ cmd[p] = "close" /\ Answers(conn[p])
            /\ session_close(conn[p], sid[p])
            /\ Goes(p, "mark") /\ Stays /\ Bindings
            /\ UNCHANGED <<state, files, ghosts>>

(* mark_caller_closed, after a session_close that succeeded.                *)
mark_caller_closed(p) == /\ at[p] = "mark"
                         /\ save_caller_session(key[p], Closed)
                         /\ Ends(p) /\ UNCHANGED daemonVars

(* A stop that takes a missing pid file for process 0.                      *)
StopUnparsed(p) == /\ at[p] = "readpid"
                   /\ Signal(pid)
                   /\ Goes(p, "waitgone")
                   /\ conn' = [conn EXCEPT ![p] = pid]
                   /\ UNCHANGED <<cmd, key, sid, commands, ages, mixed>>
                   /\ Bindings

(* run_stop: no pid file, or the pid of a process that is gone, means no    *)
(* daemon is running; otherwise it is signalled and the socket file's       *)
(* disappearance awaited for five seconds.                                  *)
StopReads(p) == /\ at[p] = "readpid"
                /\ \/ pid = 0 /\ Goes(p, "none") /\ Stays /\ UNCHANGED daemonVars
                   \/ /\ pid # 0 /\ ~Alive(pid)
                      /\ pid' = 0
                      /\ Goes(p, "none") /\ Stays
                      /\ UNCHANGED <<state, sock, sessions, ghosts>>
                   \/ /\ pid # 0 /\ Alive(pid)
                      /\ Signal(pid)
                      /\ Goes(p, "waitgone")
                      /\ conn' = [conn EXCEPT ![p] = pid]
                      /\ UNCHANGED <<cmd, key, sid, commands, ages, mixed>>
                /\ Bindings

(* A stop that does not wait.                                               *)
StopBlind(p) == /\ at[p] = "waitgone"
                /\ Goes(p, "stopped") /\ Stays
                /\ Bindings /\ UNCHANGED daemonVars

StopWaits(p) == /\ at[p] = "waitgone"
                /\ \/ sock = 0 /\ Goes(p, "stopped") /\ Stays
                   \/ sock # 0 /\ Ends(p)
                /\ Bindings /\ UNCHANGED daemonVars

StopReports(p) == /\ at[p] \in {"none", "stopped"}
                  /\ Ends(p) /\ Bindings /\ UNCHANGED daemonVars

-----------------------------------------------------------------------------
(* A daemon's own steps, a crash, and thirty days going by.                 *)
DaemonMoves(d) == DaemonStep(d) /\ UNCHANGED <<procVars, bound, old>>

DaemonCrashes(d) == Crash(d) /\ UNCHANGED <<procVars, bound, old>>

MonthPasses == /\ ages < MaxAges /\ at = Idle
               /\ ages' = ages + 1
               /\ old' = {k \in Keys : bound[k] # None}
               /\ UNCHANGED <<daemonVars, at, cmd, key, sid, conn, commands,
                              mixed, bound>>

Step(p) == \/ ProbeFound(p) \/ spawn_daemon(p) \/ wait_for_socket(p)
           \/ Attach(p) \/ ConnectionLost(p) \/ OpenCall(p) \/ OpenRefused(p)
           \/ SaveOpened(p)
           \/ Proceed(p) \/ Refused(p) \/ Use(p) \/ Close(p)
           \/ mark_caller_closed(p) \/ StopReads(p) \/ StopWaits(p)
           \/ StopReports(p)

Next == \/ \E p \in Procs :
             \/ \E k \in Keys, c \in {"open", "use", "close", "stop"} : run(p, k, c)
             \/ Step(p)
        \/ \E d \in Daemon : DaemonMoves(d) \/ DaemonCrashes(d)
        \/ MonthPasses

Spec == Init /\ [][Next]_vars

-----------------------------------------------------------------------------
TypeDaemons ==
    /\ state \in [Daemon -> {"off", "boot", "pid", "clear", "bind", "up",
                            "failed", "unbind", "unpid", "drain", "linger",
                            "gone"}]
    /\ sock \in Daemon \cup {0} /\ pid \in Daemon \cup {0}
    /\ held \in [Daemon -> SUBSET Session]
    /\ rows \subseteq Session /\ pages \subseteq Session
    /\ opened \in 0..MaxSessions
    /\ alone \in BOOLEAN /\ steady \in BOOLEAN
    /\ term \subseteq Daemon /\ crashes \in 0..MaxCrashes

TypeProcs ==
    /\ at \in [Procs -> {"idle", "connect", "wait", "attach", "call", "save", "act",
                         "mark", "readpid", "waitgone", "none", "stopped"}]
    /\ cmd \in [Procs -> {"idle", "open", "use", "close", "stop"}]
    /\ key \in [Procs -> Keys \cup {"idle"}]
    /\ sid \in [Procs -> Session \cup {None, Closed}]
    /\ conn \in [Procs -> Daemon \cup {0}]
    /\ commands \in 0..MaxCommands /\ ages \in 0..MaxAges
    /\ mixed \subseteq Keys

TypeBindings ==
    /\ bound \in [Keys -> Session \cup {None, Closed}]
    /\ old \subseteq Keys

TypeOK == TypeDaemons /\ TypeProcs /\ TypeBindings

(* After any number of crashes, a daemon that serves and never shared the   *)
(* home with another one is the one the socket path reaches and the pid     *)
(* file names.                                                              *)
ServerOwnsFiles == alone => \A d \in Daemon : Serving(d) => sock = d /\ pid = d

(* Two daemons started at once: as long as nobody stops or kills one, a     *)
(* daemon listens at the path once all of them have started, though others  *)
(* may serve that nobody can reach.                                         *)
RaceLeavesListener ==
    /\ steady
    /\ \E d \in Daemon : state[d] # "off"
    /\ \A d \in Daemon : ~Booting(d) /\ state[d] # "failed"
    => is_listening

(* `vs serve --stop` says "no daemon running" or "daemon stopped" only at a *)
(* moment when no daemon serves, if daemons never overlapped.               *)
StopTellsTruth == [][\A p \in Procs :
    alone /\ at[p] # at'[p] /\ at'[p] \in {"none", "stopped"} =>
      \A d \in Daemon : ~Serving(d)]_vars

(* Two callers are never bound to the same session.                         *)
CallersIsolated == \A j, k \in Keys :
    j # k /\ bound[j] \in Session => bound[j] # bound[k]

(* A caller bound to a session with a page finds it in the daemon that      *)
(* listens, across crashes and restarts, while daemons do not overlap: the  *)
(* row and the restored memory agree.                                       *)
BoundSessionLives == alone => \A k \in Keys, d \in Daemon :
    Serving(d) /\ bound[k] \in rows \cap pages => bound[k] \in held[d]

(* A session of the daemon that serves has an open row.  Not so: the reaper *)
(* of a process that was stopped and lingers closes rows its successor      *)
(* restored from.                                                           *)
HeldSessionHasRow == alone => \A d \in Daemon : Serving(d) => held[d] \subseteq rows

(* Once a caller's session-close has succeeded, only its session-open gives *)
(* it a session again, unless commands of that caller overlapped or the     *)
(* binding was pruned after thirty days.                                    *)
CloseSticks == [][\A k \in Keys \ mixed :
    bound[k] = Closed /\ bound'[k] \in Session =>
      \E p \in Procs : key[p] = k /\ cmd[p] = "open" /\ at[p] = "save"]_vars

(* The files of the home lead to a daemon: the one that serves alone, and   *)
(* one of those that were started at once.                                  *)
FilesLeadToServer == TypeOK /\ ServerOwnsFiles /\ RaceLeavesListener

(* A caller's binding is to a session of its own, and one with a page lives *)
(* as long as the binding.                                                  *)
BindingsSound == CallersIsolated /\ BoundSessionLives

-----------------------------------------------------------------------------
(* The inductive form.  A daemon that never shared the home is the only one *)
(* at work, the pid file is its own once it wrote it, the path once it      *)
(* bound it, and what has a row and a page is in its memory once it         *)
(* restored.                                                                *)
AloneInv == alone => \A d \in Daemon : Active(d) =>
    /\ \A e \in Daemon : Active(e) => e = d
    /\ state[d] \in {"clear", "bind", "up"} => pid = d
    /\ state[d] = "bind" => sock = 0
    /\ state[d] \in {"up", "unbind"} => sock = d
    /\ state[d] # "boot" => rows \cap pages \subseteq held[d]

(* While nobody stops or kills a daemon, a path that was taken stays taken, *)
(* but for a daemon that has removed the file and is about to bind it.      *)
RaceInv == steady =>
    /\ term = {}
    /\ \A d \in Daemon : state[d] \notin {"unbind", "unpid", "drain", "linger"}
    /\ sock # 0 => Serving(sock)
    /\ (\E d \in Daemon : state[d] \in {"up", "failed", "gone"})
         => sock # 0 \/ \E e \in Daemon : state[e] = "bind"

ConnInv == \A p \in Procs :
    at[p] \in {"call", "save", "act", "mark", "waitgone"} => conn[p] # 0

(* A session is in one binding or in the hands of the one process that      *)
(* opened it and has not saved it.                                          *)
OwnerInv ==
    /\ \A k \in Keys : bound[k] \in Session => bound[k] <= opened
    /\ \A p \in Procs : at[p] = "save" =>
         /\ sid[p] \in 1..opened
         /\ \A k \in Keys : bound[k] # sid[p]
         /\ \A q \in Procs : at[q] = "save" /\ sid[q] = sid[p] => q = p

(* A process of a key with no overlapping commands is alone with the        *)
(* binding: the one it did not find is still missing.                       *)
LoneInv == \A p \in Procs : at[p] # "idle" =>
    /\ key[p] \in Keys
    /\ key[p] \notin mixed =>
         /\ \A q \in Procs : at[q] # "idle" /\ key[q] = key[p] => q = p
         /\ /\ cmd[p] \in {"use", "close"}
            /\ \/ at[p] = "save"
               \/ at[p] \in {"connect", "wait", "attach", "call"} /\ sid[p] = None
            => bound[key[p]] = None

(* "stop" asks no daemon for a session.                                     *)
StopInv == \A p \in Procs :
    at[p] \in {"connect", "wait", "attach", "call", "save"}
      => cmd[p] \in {"open", "use", "close"}

CommandInv == /\ TypeOK /\ AloneInv /\ RaceInv /\ ConnInv /\ OwnerInv
              /\ LoneInv /\ StopInv

=============================================================================
