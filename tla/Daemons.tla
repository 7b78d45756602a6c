------------------------------- MODULE Daemons -------------------------------
(* Daemon processes of one home directory on Unix: how `vs serve` takes the *)
(* socket path and the pid file, gives them back, and fails or crashes in   *)
(* between.  Nothing but those two files tells one daemon of another; the   *)
(* sessions they restore come from the state.db they share.                 *)
EXTENDS Naturals, FiniteSets

CONSTANTS
    MaxDaemons,    \* bound: daemon processes started
    MaxSessions,   \* bound: sessions opened
    MaxCrashes     \* bound: daemons that crash

ASSUME DaemonAssumption == {MaxDaemons, MaxSessions, MaxCrashes} \subseteq Nat

Daemon == 1..MaxDaemons
Session == 1..MaxSessions

VARIABLES
    state,    \* state[d]: how far daemon d is
    sock,     \* the daemon that bound the file at the socket path, 0: no file
    pid,      \* the daemon the pid file names, 0: no file
    held,     \* held[d]: the sessions in daemon d's memory
    rows,     \* the sessions state.db has open
    pages,    \* those of them with an open page row
    opened,   \* how many sessions were opened
    alone,    \* no daemon was started while another one served or was about to
    steady,   \* no daemon was stopped or killed so far
    term,     \* the daemons that were sent SIGTERM
    crashes   \* how many daemons crashed

files == <<sock, pid>>
sessions == <<held, rows, pages, opened>>
ghosts == <<alone, steady, term, crashes>>
daemonVars == <<state, files, sessions, ghosts>>

Unstarted(d) == state[d] = "off" /\ \A e \in 1..(d - 1) : state[e] # "off"
Alive(d) == state[d] \notin {"off", "gone"}
Active(d) == Alive(d) /\ state[d] # "linger"
Booting(d) == state[d] \in {"boot", "pid", "clear", "bind"}
Serving(d) == state[d] = "up"

(* is_listening: connect to whatever the path names.                        *)
is_listening == sock # 0 /\ Serving(sock)

InitDaemons == /\ state = [d \in Daemon |-> "off"]
               /\ sock = 0 /\ pid = 0
               /\ held = [d \in Daemon |-> {}]
               /\ rows = {} /\ pages = {}
               /\ opened = 0
               /\ alone = TRUE /\ steady = TRUE
               /\ term = {} /\ crashes = 0

At(d, from, to) == state[d] = from /\ state' = [state EXCEPT ![d] = to]

(* A daemon process is started: by a command, or `vs serve` by hand.        *)
Spawned(d) == /\ Unstarted(d)
              /\ state' = [state EXCEPT ![d] = "boot"]
              /\ alone' = (alone /\ \A e \in Daemon : ~Active(e))
              /\ UNCHANGED <<files, sessions, steady, term, crashes>>

(* A start that serves without the sessions of before.                      *)
ResurrectNone(d) == /\ At(d, "boot", "pid")
                    /\ UNCHANGED <<files, sessions, ghosts>>

(* resurrect_sessions, before anything is served: sessions with a page.     *)
Resurrect(d) == /\ At(d, "boot", "pid")
                /\ held' = [held EXCEPT ![d] = rows \cap pages]
                /\ UNCHANGED <<files, rows, pages, opened, ghosts>>

(* A pid file that is kept if there is one.                                 *)
WritePidIfAbsent(d) == /\ At(d, "pid", "clear")
                       /\ pid' = IF pid = 0 THEN d ELSE pid
                       /\ UNCHANGED <<sock, sessions, ghosts>>

(* The pid file is written before the socket is bound, over what is there.  *)
WritePid(d) == /\ At(d, "pid", "clear")
               /\ pid' = d
               /\ UNCHANGED <<sock, sessions, ghosts>>

(* serve: a file at the path is removed, whoever listens on it ...          *)
ClearPath(d) == /\ At(d, "clear", "bind")
                /\ sock' = 0
                /\ UNCHANGED <<pid, sessions, ghosts>>

(* A failed bind that cleans the path up on its way out.                    *)
BindOrClean(d) == \/ /\ sock = 0
                     /\ At(d, "bind", "up")
                     /\ sock' = d
                     /\ UNCHANGED <<pid, sessions, ghosts>>
                  \/ /\ sock # 0
                     /\ At(d, "bind", "failed")
                     /\ sock' = 0
                     /\ UNCHANGED <<pid, sessions, ghosts>>

(* ... and the path is bound, which fails if another daemon was faster; the *)
(* one that failed has no reaper: it removes the pid file and exits.        *)
Bind(d) == \/ /\ sock = 0
              /\ At(d, "bind", "up")
              /\ sock' = d
              /\ UNCHANGED <<pid, sessions, ghosts>>
           \/ /\ sock # 0
              /\ At(d, "bind", "failed")
              /\ UNCHANGED <<files, sessions, ghosts>>

(* SIGTERM ends the accept loop of a serving daemon; before the handler is  *)
(* installed, some time before that, it kills the process.                  *)
Signal(d) == /\ term' = term \cup {d}
             /\ steady' = FALSE
             /\ UNCHANGED <<state, files, sessions, alone, crashes>>

Terminate(d) == /\ d \in term
                /\ \/ Serving(d) /\ At(d, "up", "unbind") /\ UNCHANGED held
                   \/ /\ Booting(d)
                      /\ state' = [state EXCEPT ![d] = "gone"]
                      /\ held' = [held EXCEPT ![d] = {}]
                /\ UNCHANGED <<files, rows, pages, opened, ghosts>>

(* The end of serve: the file at the path is removed, whoever bound it.     *)
Unbind(d) == /\ At(d, "unbind", "unpid")
             /\ sock' = 0
             /\ UNCHANGED <<pid, sessions, ghosts>>

(* The pid file is removed, whoever wrote it.                               *)
RemovePid(d) == /\ \/ At(d, "unpid", "drain") /\ UNCHANGED held
                   \/ At(d, "failed", "gone") /\ held' = [held EXCEPT ![d] = {}]
                /\ pid' = 0
                /\ UNCHANGED <<sock, rows, pages, opened, ghosts>>

(* The runtime is dropped once running requests have ended.  The process    *)
(* exits with its last recording if VS_REAP=0; otherwise the reaper's       *)
(* thread keeps the engine, and with it the process and its sessions, but   *)
(* for a kill, for ever.                                                    *)
Exit(d) == /\ At(d, "drain", "gone")
           /\ held' = [held EXCEPT ![d] = {}]
           /\ UNCHANGED <<files, rows, pages, opened, ghosts>>

Linger(d) == /\ At(d, "drain", "linger")
             /\ UNCHANGED <<files, sessions, ghosts>>

session_close(d, s) == /\ s \in held[d]
                       /\ held' = [held EXCEPT ![d] = @ \ {s}]
                       /\ rows' = rows \ {s}
                       /\ pages' = pages \ {s}
                       /\ UNCHANGED opened

(* The reaper closes an idle session, also long after its daemon stopped    *)
(* serving, and in the state.db that a later daemon uses.                   *)
Reap(d) == /\ state[d] \in {"up", "unbind", "unpid", "drain", "linger"}
           /\ \E s \in Session : session_close(d, s)
           /\ UNCHANGED <<state, files, ghosts>>

(* A daemon is killed or crashes: its files stay.                           *)
Crash(d) == /\ Alive(d) /\ crashes < MaxCrashes
            /\ crashes' = crashes + 1
            /\ state' = [state EXCEPT ![d] = "gone"]
            /\ held' = [held EXCEPT ![d] = {}]
            /\ steady' = FALSE
            /\ UNCHANGED <<files, rows, pages, opened, alone, term>>

DaemonStep(d) == \/ Resurrect(d) \/ WritePid(d) \/ ClearPath(d) \/ Bind(d)
                 \/ Terminate(d) \/ Unbind(d) \/ RemovePid(d) \/ Exit(d)
                 \/ Linger(d) \/ Reap(d)

-----------------------------------------------------------------------------
(* Requests a daemon answers while it serves or drains.                     *)
Answers(d) == state[d] \in {"up", "unbind", "unpid", "drain"}

session_open(d) == /\ opened < MaxSessions
                   /\ opened' = opened + 1
                   /\ held' = [held EXCEPT ![d] = @ \cup {opened + 1}]
                   /\ rows' = rows \cup {opened + 1}
                   /\ UNCHANGED pages

(* A command that opens a page in session s.                                *)
open(d, s) == /\ s \in held[d]
              /\ pages' = pages \cup {s}
              /\ UNCHANGED <<held, rows, opened>>
=============================================================================
