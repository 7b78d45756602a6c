--------------------------- MODULE CommandsProofs ---------------------------
(***************************************************************************)
(* What holds of Commands for any number of processes, caller keys,        *)
(* commands, daemons, sessions and crashes.                                *)
(***************************************************************************)
EXTENDS Commands, TLAPS

USE DEF None, Closed

-----------------------------------------------------------------------------
(* What a step does to the daemons and their files: nothing, a step of one  *)
(* daemon, a request one of them answers, or what "stop" does.              *)
Request(d) ==
    /\ Answers(d)
    /\ session_open(d) \/ \E s \in Session : open(d, s) \/ session_close(d, s)
    /\ UNCHANGED <<state, files, ghosts>>

RemovesStalePid ==
    /\ pid \in Daemon /\ ~Alive(pid) /\ pid' = 0
    /\ UNCHANGED <<state, sock, sessions, ghosts>>

DaemonEffect ==
    \/ UNCHANGED daemonVars
    \/ \E d \in Daemon : \/ Spawned(d) \/ DaemonStep(d) \/ Crash(d)
                         \/ Request(d) \/ Signal(d)
    \/ RemovesStalePid

(* What a step does to the process that takes it: it goes on, it is         *)
(* connected to a daemon, or it ends.                                       *)
Walks(p) == \E to :
    /\ Goes(p, to) /\ Stays /\ Bindings
    /\ \/ at[p] \in {"connect", "wait"} /\ to \in {"wait", "attach"}
       \/ at[p] \in {"call", "act"} /\ to \in {"act", "mark"}
       \/ at[p] \in {"readpid", "waitgone"} /\ to \in {"none", "stopped"}

Connects(p) == \E d \in Daemon, to \in {"call", "waitgone"} :
    /\ Goes(p, to)
    /\ conn' = [conn EXCEPT ![p] = d]
    /\ UNCHANGED <<cmd, key, sid, commands, ages, mixed>> /\ Bindings
    /\ \/ at[p] = "attach" /\ to = "call"
       \/ at[p] = "readpid" /\ to = "waitgone"

Quits(p) == Ends(p) /\ Bindings

(* Every step of a process is one of these, or touches its binding.         *)
LEMMA ProcEffects ==
  ASSUME TypeOK, NEW p \in Procs, Step(p)
  PROVE  \/ Walks(p) \/ Connects(p) \/ Quits(p)
         \/ OpenCall(p) \/ SaveOpened(p) \/ mark_caller_closed(p)
  <1>1. CASE \/ ProbeFound(p) \/ Proceed(p) \/ Close(p)
    BY <1>1 DEF ProbeFound, Proceed, Close, Walks
  <1>2. CASE spawn_daemon(p) \/ wait_for_socket(p) \/ StopWaits(p)
    BY <1>2 DEF spawn_daemon, wait_for_socket, StopWaits, Walks, Quits
  <1>3. CASE Attach(p)
    <2>1. is_listening => sock \in Daemon
      BY DEF is_listening, TypeOK, TypeDaemons
    <2> QED BY <1>3, <2>1 DEF Attach, Connects, Quits
  <1>4. CASE ConnectionLost(p) \/ OpenRefused(p) \/ Refused(p) \/ Use(p) \/ StopReports(p)
    BY <1>4 DEF ConnectionLost, OpenRefused, Refused, Use, StopReports, Quits
  <1>5. CASE StopReads(p)
    <2>1. pid # 0 => pid \in Daemon
      BY DEF TypeOK, TypeDaemons
    <2> QED BY <1>5, <2>1 DEF StopReads, Walks, Connects
  <1> QED BY <1>1, <1>2, <1>3, <1>4, <1>5 DEF Step

(* Every step does one of those things to the daemons.                      *)
LEMMA DaemonEffects ==
  ASSUME TypeOK, ConnInv, [Next]_vars
  PROVE  DaemonEffect
  <1>1. ASSUME NEW p \in Procs, Step(p) PROVE DaemonEffect
    <2>1. conn[p] # 0 => conn[p] \in Daemon
      BY DEF TypeOK, TypeProcs
    <2>2. at[p] \in {"call", "act"} => conn[p] \in Daemon
      BY <2>1 DEF ConnInv
    <2>3. \A s : conn[p] \in Daemon /\ s \in held[conn[p]] => s \in Session
      BY DEF TypeOK, TypeDaemons
    <2>4. CASE OpenCall(p)
      BY <2>2, <2>4 DEF OpenCall, DaemonEffect, Request
    <2>5. CASE Use(p)
      BY <2>2, <2>3, <2>5 DEF Use, open, DaemonEffect, Request
    <2>6. CASE Close(p)
      BY <2>2, <2>3, <2>6 DEF Close, session_close, DaemonEffect, Request
    <2>7. CASE StopReads(p)
      <3>1. pid # 0 => pid \in Daemon
        BY DEF TypeOK, TypeDaemons
      <3> QED BY <2>7, <3>1 DEF StopReads, DaemonEffect, RemovesStalePid
    <2>8. CASE spawn_daemon(p)
      BY <2>8 DEF spawn_daemon, DaemonEffect
    <2>9. CASE \/ ProbeFound(p) \/ wait_for_socket(p) \/ Attach(p) \/ ConnectionLost(p)
               \/ OpenRefused(p) \/ SaveOpened(p) \/ Proceed(p) \/ Refused(p)
               \/ mark_caller_closed(p) \/ StopWaits(p) \/ StopReports(p)
      BY <2>9
      DEF ProbeFound, wait_for_socket, Attach, ConnectionLost, OpenRefused, SaveOpened,
          Proceed, Refused, mark_caller_closed, StopWaits, StopReports, DaemonEffect
    <2> QED BY <1>1, <2>4, <2>5, <2>6, <2>7, <2>8, <2>9 DEF Step
  <1>2. ASSUME NEW p \in Procs, NEW k \in Keys, NEW c, run(p, k, c) PROVE DaemonEffect
    BY <1>2 DEF run, DaemonEffect
  <1>3. ASSUME NEW d \in Daemon, DaemonMoves(d) \/ DaemonCrashes(d) PROVE DaemonEffect
    BY <1>3 DEF DaemonMoves, DaemonCrashes, DaemonEffect
  <1>4. CASE MonthPasses \/ UNCHANGED vars
    BY <1>4 DEF MonthPasses, vars, DaemonEffect
  <1> QED BY <1>1, <1>2, <1>3, <1>4 DEF Next

-----------------------------------------------------------------------------
(* Types.                                                                   *)

(* Every step keeps the types of the daemons' variables.                    *)
LEMMA DaemonTypes ==
  ASSUME TypeDaemons, DaemonEffect
  PROVE  TypeDaemons' /\ opened <= opened'
  <1> USE DEF TypeDaemons, files, sessions, ghosts, daemonVars
  <1>1. CASE UNCHANGED daemonVars
    BY <1>1
  <1>2. ASSUME NEW d \in Daemon, Spawned(d) PROVE TypeDaemons' /\ opened <= opened'
    BY <1>2 DEF Spawned
  <1>3. ASSUME NEW d \in Daemon, DaemonStep(d) PROVE TypeDaemons' /\ opened <= opened'
    <2>1. CASE Resurrect(d)
      BY <2>1 DEF Resurrect, At
    <2>2. CASE WritePid(d) \/ RemovePid(d)
      BY <2>2 DEF WritePid, RemovePid, At
    <2>3. CASE ClearPath(d) \/ Bind(d) \/ Unbind(d)
      BY <2>3 DEF ClearPath, Bind, Unbind, At
    <2>4. CASE Terminate(d) \/ Exit(d) \/ Linger(d)
      BY <2>4 DEF Terminate, Exit, Linger, At
    <2>5. CASE Reap(d)
      BY <2>5 DEF Reap, session_close
    <2> QED BY <1>3, <2>1, <2>2, <2>3, <2>4, <2>5 DEF DaemonStep
  <1>4. ASSUME NEW d \in Daemon, Crash(d) PROVE TypeDaemons' /\ opened <= opened'
    <2>1. MaxCrashes \in Nat
      BY DaemonAssumption
    <2>2. crashes' \in 0..MaxCrashes
      BY <1>4, <2>1 DEF Crash
    <2>3. held' \in [Daemon -> SUBSET Session] /\ opened <= opened'
      BY <1>4 DEF Crash
    <2>4. alone' \in BOOLEAN /\ steady' \in BOOLEAN
      BY <1>4 DEF Crash
    <2> QED BY <1>4, <2>2, <2>3, <2>4 DEF Crash
  <1>5. ASSUME NEW d \in Daemon, Request(d) PROVE TypeDaemons' /\ opened <= opened'
    <2>1. UNCHANGED <<state, sock, pid, alone, steady, term, crashes>>
      BY <1>5 DEF Request
    <2>2. CASE session_open(d)
      <3>1. opened + 1 \in Session /\ opened + 1 \in 0..MaxSessions
        BY <2>2, DaemonAssumption DEF session_open, Session
      <3> QED BY <2>1, <2>2, <3>1 DEF session_open
    <2>3. ASSUME NEW s \in Session, open(d, s) \/ session_close(d, s)
          PROVE  TypeDaemons' /\ opened <= opened'
      BY <2>1, <2>3 DEF open, session_close
    <2> QED BY <1>5, <2>2, <2>3 DEF Request
  <1>6. ASSUME NEW d \in Daemon, Signal(d) PROVE TypeDaemons' /\ opened <= opened'
    <2>1. alone' \in BOOLEAN /\ steady' \in BOOLEAN
      BY <1>6 DEF Signal
    <2>2. term' \subseteq Daemon
      BY <1>6 DEF Signal
    <2>3. UNCHANGED <<state, sock, pid, held, rows, pages, opened, crashes>>
      BY <1>6 DEF Signal
    <2>4. opened <= opened'
      BY <2>3
    <2> QED BY <2>1, <2>2, <2>3, <2>4
  <1>7. CASE RemovesStalePid
    BY <1>7 DEF RemovesStalePid
  <1> QED BY <1>1, <1>2, <1>3, <1>4, <1>5, <1>6, <1>7 DEF DaemonEffect

(* What the processes and their bindings must keep.                         *)
ProcOK == TypeProcs /\ TypeBindings /\ ConnInv /\ StopInv

(* Every step keeps the types of the processes and the bindings, and the    *)
(* connections.                                                             *)
LEMMA ProcTypes ==
  ASSUME TypeOK, ConnInv, StopInv, [Next]_vars
  PROVE  ProcOK'
  <1> USE DEF TypeOK, TypeProcs, TypeBindings, Bindings, Stays, Goes
  <1>1. ASSUME NEW p \in Procs, Walks(p) PROVE ProcOK'
    <2>1. PICK to : /\ Goes(p, to) /\ Stays /\ Bindings
                    /\ \/ at[p] \in {"connect", "wait"} /\ to \in {"wait", "attach"}
                       \/ at[p] \in {"call", "act"} /\ to \in {"act", "mark"}
                       \/ at[p] \in {"readpid", "waitgone"} /\ to \in {"none", "stopped"}
      BY <1>1 DEF Walks
    <2>2. TypeProcs' /\ TypeBindings'
      BY <2>1
    <2>3. ConnInv'
      BY <2>1 DEF ConnInv
    <2>4. StopInv'
      BY <2>1 DEF StopInv
    <2> QED BY <2>2, <2>3, <2>4 DEF ProcOK
  <1>2. ASSUME NEW p \in Procs, Connects(p) PROVE ProcOK'
    <2>1. PICK d \in Daemon, to \in {"call", "waitgone"} :
            /\ Goes(p, to) /\ conn' = [conn EXCEPT ![p] = d]
            /\ UNCHANGED <<cmd, key, sid, commands, ages, mixed>> /\ Bindings
            /\ \/ at[p] = "attach" /\ to = "call"
               \/ at[p] = "readpid" /\ to = "waitgone"
      BY <1>2 DEF Connects
    <2>2. TypeProcs' /\ TypeBindings'
      BY <2>1
    <2>3. ConnInv'
      BY <2>1 DEF ConnInv, Daemon
    <2>4. StopInv'
      BY <2>1 DEF StopInv
    <2> QED BY <2>2, <2>3, <2>4 DEF ProcOK
  <1>3. ASSUME NEW p \in Procs, Ends(p) PROVE TypeProcs' /\ ConnInv' /\ StopInv'
    <2>1. TypeProcs'
      BY <1>3 DEF Ends
    <2>2. ConnInv'
      BY <1>3 DEF Ends, ConnInv
    <2>3. StopInv'
      BY <1>3 DEF Ends, StopInv
    <2> QED BY <2>1, <2>2, <2>3
  <1>4. ASSUME NEW p \in Procs, OpenCall(p) PROVE ProcOK'
    <2>1. opened + 1 \in Session
      BY <1>4, DaemonAssumption DEF OpenCall, session_open, TypeDaemons, Session
    <2>2. /\ at[p] = "call" /\ at' = [at EXCEPT ![p] = "save"]
          /\ sid' = [sid EXCEPT ![p] = opened + 1]
          /\ UNCHANGED <<cmd, key, conn, commands, ages, mixed, bound, old>>
      BY <1>4 DEF OpenCall
    <2>3. TypeProcs' /\ TypeBindings'
      BY <2>1, <2>2
    <2>4. ConnInv'
      BY <2>2 DEF ConnInv
    <2>5. StopInv'
      BY <2>2 DEF StopInv
    <2> QED BY <2>3, <2>4, <2>5 DEF ProcOK
  <1>5. ASSUME NEW k, NEW s \in Session \cup {None, Closed}, save_caller_session(k, s)
        PROVE  TypeBindings'
    BY <1>5 DEF save_caller_session
  <1>6. ASSUME NEW p \in Procs, SaveOpened(p) PROVE ProcOK'
    <2>1. TypeBindings'
      BY <1>5, <1>6 DEF SaveOpened
    <2>2. CASE cmd[p] = "open"
      BY <1>3, <1>6, <2>1, <2>2 DEF SaveOpened, ProcOK
    <2>3. CASE cmd[p] # "open"
      <3>1. at[p] = "save" /\ at' = [at EXCEPT ![p] = "act"] /\ Stays
        BY <1>6, <2>3 DEF SaveOpened
      <3>2. TypeProcs'
        BY <3>1
      <3>3. ConnInv'
        BY <3>1 DEF ConnInv
      <3>4. StopInv'
        BY <3>1 DEF StopInv
      <3> QED BY <2>1, <3>2, <3>3, <3>4 DEF ProcOK
    <2> QED BY <2>2, <2>3
  <1>7. ASSUME NEW p \in Procs, mark_caller_closed(p) PROVE ProcOK'
    BY <1>3, <1>5, <1>7 DEF mark_caller_closed, ProcOK
  <1>8. ASSUME NEW p \in Procs, NEW k \in Keys, NEW c \in {"open", "use", "close", "stop"},
               run(p, k, c)
        PROVE  ProcOK'
    <2>1. /\ cmd' = [cmd EXCEPT ![p] = c] /\ key' = [key EXCEPT ![p] = k]
          /\ sid' = [sid EXCEPT ![p] = bound[k]]
          /\ at' = [at EXCEPT ![p] = IF c = "stop" THEN "readpid" ELSE "connect"]
          /\ UNCHANGED <<conn, ages, bound, old>>
          /\ mixed' \in {mixed, mixed \cup {k}}
      BY <1>8 DEF run
    <2>2. commands' \in 0..MaxCommands
      BY <1>8, CommandAssumption DEF run
    <2>3. TypeProcs' /\ TypeBindings'
      BY <2>1, <2>2
    <2>4. ConnInv'
      BY <2>1 DEF ConnInv
    <2>5. StopInv'
      BY <2>1 DEF StopInv
    <2> QED BY <2>3, <2>4, <2>5 DEF ProcOK
  <1>9. CASE MonthPasses
    <2>1. ages' \in 0..MaxAges
      BY <1>9, CommandAssumption DEF MonthPasses
    <2>2. TypeProcs' /\ TypeBindings'
      BY <1>9, <2>1 DEF MonthPasses
    <2> QED BY <1>9, <2>2 DEF MonthPasses, ProcOK, ConnInv, StopInv
  <1>10. ASSUME UNCHANGED <<procVars, bound, old>> PROVE ProcOK'
    BY <1>10 DEF procVars, ProcOK, ConnInv, StopInv
  <1>11. ASSUME NEW p \in Procs, Quits(p) PROVE ProcOK'
    BY <1>3, <1>11 DEF Quits, ProcOK
  <1>12. ASSUME NEW p \in Procs, Step(p) PROVE ProcOK'
    BY <1>1, <1>2, <1>4, <1>6, <1>7, <1>11, <1>12, ProcEffects
  <1> QED
    BY <1>8, <1>9, <1>10, <1>12 DEF Next, DaemonMoves, DaemonCrashes, vars
-----------------------------------------------------------------------------
(* Daemons that do not overlap.                                             *)

(* Every step keeps what holds of a daemon alone in its home.               *)
LEMMA AloneStep ==
  ASSUME TypeDaemons, AloneInv, DaemonEffect
  PROVE  AloneInv'
  <1> SUFFICES ASSUME alone', NEW f \in Daemon, Active(f)'
               PROVE  /\ \A e \in Daemon : Active(e)' => e = f
                      /\ state'[f] \in {"clear", "bind", "up"} => pid' = f
                      /\ state'[f] = "bind" => sock' = 0
                      /\ state'[f] \in {"up", "unbind"} => sock' = f
                      /\ state'[f] # "boot" => rows' \cap pages' \subseteq held'[f]
    BY DEF AloneInv
  <1> DEFINE Goal == /\ \A e \in Daemon : Active(e)' => e = f
                     /\ state'[f] \in {"clear", "bind", "up"} => pid' = f
                     /\ state'[f] = "bind" => sock' = 0
                     /\ state'[f] \in {"up", "unbind"} => sock' = f
                     /\ state'[f] # "boot" => rows' \cap pages' \subseteq held'[f]
  <1> USE DEF TypeDaemons, AloneInv, Active, Alive, files, sessions, ghosts, daemonVars
  <1>1. CASE UNCHANGED daemonVars
    BY <1>1
  <1>2. ASSUME NEW d \in Daemon, Spawned(d) PROVE Goal
    <2>1. alone /\ (\A e \in Daemon : ~Active(e)) /\ state' = [state EXCEPT ![d] = "boot"]
      BY <1>2 DEF Spawned
    <2> QED BY <2>1
  <1>3. ASSUME NEW d \in Daemon, NEW from, NEW to, At(d, from, to), from \notin {"off", "linger", "gone"},
               alone
        PROVE  /\ state[d] = from /\ Active(d)
               /\ f = d
               /\ \A e \in Daemon : Active(e)' => e = f
               /\ state'[f] = to
    BY <1>3 DEF At
  <1>4. ASSUME NEW d \in Daemon, DaemonStep(d) PROVE Goal
    <2>1. CASE Resurrect(d)
      <3>1. At(d, "boot", "pid") /\ held' = [held EXCEPT ![d] = rows \cap pages]
            /\ UNCHANGED <<sock, pid, rows, pages, alone>>
        BY <2>1 DEF Resurrect
      <3> QED BY <1>3, <3>1
    <2>2. CASE WritePid(d)
      <3>1. At(d, "pid", "clear") /\ pid' = d /\ UNCHANGED <<sock, held, rows, pages, alone>>
        BY <2>2 DEF WritePid
      <3> QED BY <1>3, <3>1
    <2>3. CASE ClearPath(d)
      <3>1. At(d, "clear", "bind") /\ sock' = 0 /\ UNCHANGED <<pid, held, rows, pages, alone>>
        BY <2>3 DEF ClearPath
      <3> QED BY <1>3, <3>1
    <2>4. CASE Bind(d)
      <3>1. CASE sock = 0
        <4>1. At(d, "bind", "up") /\ sock' = d /\ UNCHANGED <<pid, held, rows, pages, alone>>
          BY <2>4, <3>1 DEF Bind
        <4> QED BY <1>3, <4>1
      <3>2. CASE sock # 0
        <4>1. At(d, "bind", "failed") /\ UNCHANGED <<sock, pid, held, rows, pages, alone>>
          BY <2>4, <3>2 DEF Bind
        <4> QED BY <1>3, <4>1
      <3> QED BY <3>1, <3>2
    <2>5. CASE Unbind(d)
      <3>1. At(d, "unbind", "unpid") /\ UNCHANGED <<pid, held, rows, pages, alone>>
        BY <2>5 DEF Unbind
      <3> QED BY <1>3, <3>1
    <2>6. CASE RemovePid(d)
      <3>1. CASE At(d, "unpid", "drain")
        <4>1. UNCHANGED <<sock, held, rows, pages, alone>>
          BY <2>6, <3>1 DEF RemovePid, At
        <4> QED BY <1>3, <3>1, <4>1
      <3>2. CASE At(d, "failed", "gone")
        <4>1. alone
          BY <2>6 DEF RemovePid
        <4>2. FALSE
          BY <1>3, <3>2, <4>1
        <4> QED BY <4>2
      <3> QED BY <2>6, <3>1, <3>2 DEF RemovePid
    <2>7. CASE Exit(d) \/ Linger(d)
      <3>1. (At(d, "drain", "gone") \/ At(d, "drain", "linger")) /\ alone
        BY <2>7 DEF Exit, Linger
      <3>2. FALSE
        BY <1>3, <3>1
      <3> QED BY <3>2
    <2>8. CASE Terminate(d)
      <3>1. CASE Serving(d)
        <4>1. At(d, "up", "unbind") /\ UNCHANGED <<sock, pid, held, rows, pages, alone>>
          BY <2>8, <3>1 DEF Terminate, Serving, Booting
        <4> QED BY <1>3, <4>1
      <3>2. CASE Booting(d)
        <4>1. state' = [state EXCEPT ![d] = "gone"] /\ alone /\ Active(d)
          BY <2>8, <3>2 DEF Terminate, Serving, Booting, At
        <4>2. FALSE
          BY <4>1
        <4> QED BY <4>2
      <3> QED BY <2>8, <3>1, <3>2 DEF Terminate
    <2>9. CASE Reap(d)
      <3>1. UNCHANGED <<state, sock, pid, alone>> /\ \E s \in Session : session_close(d, s)
        BY <2>9 DEF Reap
      <3>2. Active(f) /\ (state[f] # "boot" => rows \cap pages \subseteq held[f])
        BY <3>1
      <3>3. state'[f] # "boot" => rows' \cap pages' \subseteq held'[f]
        BY <3>1, <3>2 DEF session_close
      <3> QED BY <3>1, <3>3
    <2> QED BY <1>4, <2>1, <2>2, <2>3, <2>4, <2>5, <2>6, <2>7, <2>8, <2>9 DEF DaemonStep
  <1>5. ASSUME NEW d \in Daemon, Crash(d) PROVE Goal
    <2>1. /\ state' = [state EXCEPT ![d] = "gone"] /\ held' = [held EXCEPT ![d] = {}]
          /\ UNCHANGED <<sock, pid, rows, pages, alone>>
      BY <1>5 DEF Crash
    <2>2. f # d /\ state'[f] = state[f] /\ held'[f] = held[f] /\ Active(f)
      BY <2>1
    <2> QED BY <2>1, <2>2
  <1>6. ASSUME NEW d \in Daemon, Request(d) PROVE Goal
    <2>1. /\ UNCHANGED <<state, sock, pid, alone>>
          /\ Active(d) /\ state[d] # "boot"
      BY <1>6 DEF Request, Answers
    <2>2. f = d /\ rows \cap pages \subseteq held[f]
      BY <2>1
    <2>3. rows' \cap pages' \subseteq held'[f]
      <3>1. CASE session_open(d)
        BY <2>2, <3>1 DEF session_open
      <3>2. ASSUME NEW s \in Session, open(d, s) PROVE rows' \cap pages' \subseteq held'[f]
        BY <2>2, <3>2 DEF open
      <3>3. ASSUME NEW s \in Session, session_close(d, s)
            PROVE  rows' \cap pages' \subseteq held'[f]
        BY <2>2, <3>3 DEF session_close
      <3> QED BY <1>6, <3>1, <3>2, <3>3 DEF Request
    <2> QED BY <2>1, <2>3
  <1>7. ASSUME NEW d \in Daemon, Signal(d) PROVE Goal
    <2>1. UNCHANGED <<state, sock, pid, held, rows, pages, alone>>
      BY <1>7 DEF Signal
    <2> QED BY <2>1
  <1>8. CASE RemovesStalePid
    <2>1. UNCHANGED <<state, sock, held, rows, pages, alone>> /\ pid \in Daemon /\ ~Alive(pid)
      BY <1>8 DEF RemovesStalePid
    <2>2. pid # f
      BY <2>1
    <2> QED BY <2>1, <2>2
  <1> QED BY <1>1, <1>2, <1>4, <1>5, <1>6, <1>7, <1>8 DEF DaemonEffect

(* Every step keeps what holds of daemons started at once and never stopped.*)
LEMMA RaceStep ==
  ASSUME TypeDaemons, RaceInv, DaemonEffect
  PROVE  RaceInv'
  <1> DEFINE Stopped == {"unbind", "unpid", "drain", "linger"}
             Started == {"up", "failed", "gone"}
  <1> SUFFICES ASSUME steady'
               PROVE  /\ term' = {}
                      /\ \A e \in Daemon : state'[e] \notin Stopped
                      /\ sock' # 0 => Serving(sock)'
                      /\ (\E e \in Daemon : state'[e] \in Started)
                           => sock' # 0 \/ \E e \in Daemon : state'[e] = "bind"
    BY DEF RaceInv
  <1> DEFINE Goal == /\ term' = {}
                     /\ \A e \in Daemon : state'[e] \notin Stopped
                     /\ sock' # 0 => Serving(sock)'
                     /\ (\E e \in Daemon : state'[e] \in Started)
                          => sock' # 0 \/ \E e \in Daemon : state'[e] = "bind"
  <1> USE DEF TypeDaemons, RaceInv, Serving, files, sessions, ghosts, daemonVars
  <1>1. ASSUME NEW d \in Daemon, NEW from, NEW to, At(d, from, to), steady, UNCHANGED term,
               \/ /\ from \notin {"up", "bind"} /\ UNCHANGED sock
                  /\ to \notin Stopped \cup Started
               \/ from = "failed" /\ to = "gone" /\ UNCHANGED sock
               \/ to = "bind" /\ sock' = 0
               \/ from = "bind" /\ to = "up" /\ sock' = d
               \/ from = "bind" /\ to = "failed" /\ sock # 0 /\ UNCHANGED sock
        PROVE  Goal
    <2>1. state[d] = from /\ state'[d] = to /\ \A e \in Daemon \ {d} : state'[e] = state[e]
      BY <1>1 DEF At
    <2>2. d # 0 /\ term' = {} /\ \A e \in Daemon : state[e] \notin Stopped
      BY <1>1 DEF Daemon
    <2>3. \A e \in Daemon : state'[e] \notin Stopped
      BY <1>1, <2>1, <2>2
    <2>4. sock' # 0 => Serving(sock)'
      <3>1. sock' = sock /\ sock # 0 => sock \in Daemon \ {d}
        BY <1>1, <2>1
      <3> QED BY <1>1, <2>1, <3>1
    <2>5. ASSUME NEW e \in Daemon, state'[e] \in Started
          PROVE  sock' # 0 \/ \E g \in Daemon : state'[g] = "bind"
      <3>1. CASE to = "bind"
        BY <2>1, <3>1
      <3>2. CASE sock' = d
        BY <2>2, <3>2
      <3>3. CASE to # "bind" /\ sock' # d
        <4>1. sock' = sock
          BY <1>1, <3>3
        <4>2. \/ sock # 0
              \/ from \notin {"up", "bind"} /\ to \notin Started
              \/ from = "failed" /\ to = "gone"
          BY <1>1, <3>3
        <4>3. CASE sock = 0 /\ to # "up"
          <5>1. \E g \in Daemon : state[g] \in Started
            BY <2>1, <2>5, <4>2, <4>3
          <5>2. PICK g \in Daemon : state[g] = "bind"
            BY <1>1, <4>3, <5>1
          <5> QED BY <2>1, <4>2, <4>3, <5>2
        <4>4. CASE to = "up"
          BY <1>1, <3>3, <4>4
        <4> QED BY <4>1, <4>3, <4>4
      <3> QED BY <3>1, <3>2, <3>3
    <2> QED BY <2>2, <2>3, <2>4, <2>5
  <1>2. CASE UNCHANGED daemonVars
    BY <1>2
  <1>3. ASSUME NEW d \in Daemon, Spawned(d) PROVE Goal
    <2>1. At(d, "off", "boot") /\ UNCHANGED <<sock, term, steady>>
      BY <1>3 DEF Spawned, Unstarted, At
    <2> QED BY <1>1, <2>1
  <1>4. ASSUME NEW d \in Daemon, DaemonStep(d) PROVE Goal
    <2>1. CASE Resurrect(d)
      <3>1. At(d, "boot", "pid") /\ UNCHANGED <<sock, term, steady>>
        BY <2>1 DEF Resurrect
      <3> QED BY <1>1, <3>1
    <2>2. CASE WritePid(d)
      <3>1. At(d, "pid", "clear") /\ UNCHANGED <<sock, term, steady>>
        BY <2>2 DEF WritePid
      <3> QED BY <1>1, <3>1
    <2>3. CASE ClearPath(d)
      <3>1. At(d, "clear", "bind") /\ sock' = 0 /\ UNCHANGED <<term, steady>>
        BY <2>3 DEF ClearPath
      <3> QED BY <1>1, <3>1
    <2>4. CASE Bind(d)
      <3>1. UNCHANGED <<term, steady>>
        BY <2>4 DEF Bind
      <3>2. \/ At(d, "bind", "up") /\ sock' = d
            \/ At(d, "bind", "failed") /\ sock # 0 /\ UNCHANGED sock
        BY <2>4 DEF Bind
      <3> QED BY <1>1, <3>1, <3>2
    <2>5. CASE Unbind(d) \/ Terminate(d) \/ Exit(d) \/ Linger(d)
      <3>1. steady /\ (d \in term \/ state[d] \in Stopped)
        BY <2>5 DEF Unbind, Terminate, Exit, Linger, At
      <3>2. FALSE
        BY <3>1
      <3> QED BY <3>2
    <2>6. CASE RemovePid(d)
      <3>1. (state[d] \in Stopped \/ At(d, "failed", "gone")) /\ UNCHANGED <<sock, term, steady>>
        BY <2>6 DEF RemovePid, At
      <3> QED BY <1>1, <3>1
    <2>7. CASE Reap(d)
      <3>1. UNCHANGED <<state, sock, term, steady>>
        BY <2>7 DEF Reap
      <3> QED BY <3>1
    <2> QED BY <1>4, <2>1, <2>2, <2>3, <2>4, <2>5, <2>6, <2>7 DEF DaemonStep
  <1>5. ASSUME NEW d \in Daemon, Crash(d) \/ Signal(d) PROVE Goal
    BY <1>5 DEF Crash, Signal
  <1>6. ASSUME UNCHANGED <<state, sock, term, steady>> PROVE Goal
    BY <1>6
  <1>7. ASSUME NEW d \in Daemon, Request(d) PROVE Goal
    BY <1>6, <1>7 DEF Request
  <1>8. CASE RemovesStalePid
    BY <1>6, <1>8 DEF RemovesStalePid
  <1> QED BY <1>2, <1>3, <1>4, <1>5, <1>7, <1>8 DEF DaemonEffect
-----------------------------------------------------------------------------
(* The bindings.                                                            *)

(* A step of one process leaves the others where they are.                  *)
Others(p) == \A q \in Procs \ {p} :
    /\ at'[q] = at[q] /\ cmd'[q] = cmd[q] /\ key'[q] = key[q] /\ sid'[q] = sid[q]

(* A process that goes on, is connected or ends opens no session, and       *)
(* leaves the bindings alone.                                               *)
LEMMA QuietEffects ==
  ASSUME TypeProcs, NEW p \in Procs, Walks(p) \/ Connects(p) \/ Quits(p)
  PROVE  /\ Others(p) /\ UNCHANGED <<bound, mixed>>
         /\ \/ at'[p] = "idle"
            \/ /\ at'[p] # "save" /\ at[p] # "idle"
               /\ cmd'[p] = cmd[p] /\ key'[p] = key[p] /\ sid'[p] = sid[p]
               /\ at'[p] \in {"connect", "wait", "attach", "call"} =>
                    at[p] \in {"connect", "wait", "attach", "call"}
  <1> USE DEF TypeProcs, Goes, Stays, Bindings, Others
  <1>1. CASE Walks(p)
    <2>1. PICK to : /\ Goes(p, to) /\ Stays /\ Bindings
                    /\ \/ at[p] \in {"connect", "wait"} /\ to \in {"wait", "attach"}
                       \/ at[p] \in {"call", "act"} /\ to \in {"act", "mark"}
                       \/ at[p] \in {"readpid", "waitgone"} /\ to \in {"none", "stopped"}
      BY <1>1 DEF Walks
    <2> QED BY <2>1
  <1>2. CASE Connects(p)
    <2>1. PICK to : /\ Goes(p, to)
                    /\ UNCHANGED <<cmd, key, sid, commands, ages, mixed>> /\ Bindings
                    /\ \/ at[p] = "attach" /\ to = "call"
                       \/ at[p] = "readpid" /\ to = "waitgone"
      BY <1>2 DEF Connects
    <2> QED BY <2>1
  <1>3. CASE Quits(p)
    BY <1>3 DEF Quits, Ends
  <1> QED BY <1>1, <1>2, <1>3

(* session_open makes one more session, for the process that asked for it.  *)
LEMMA OpenCallEffect ==
  ASSUME TypeOK, NEW p \in Procs, OpenCall(p)
  PROVE  /\ Others(p) /\ UNCHANGED <<bound, mixed>>
         /\ opened \in Nat /\ opened' = opened + 1 /\ sid'[p] = opened + 1
         /\ at[p] = "call" /\ at'[p] = "save"
         /\ cmd'[p] = cmd[p] /\ key'[p] = key[p]
         /\ OpensSession(p)
  BY DaemonAssumption
  DEF OpenCall, session_open, Goes, Bindings, Others, TypeOK, TypeProcs, TypeDaemons

(* What is saved goes into the caller's binding; others are pruned or stay. *)
LEMMA SaveEffect ==
  ASSUME TypeBindings, NEW k \in Keys, NEW s \in Session \cup {None, Closed},
         save_caller_session(k, s)
  PROVE  bound'[k] = s /\ \A j \in Keys \ {k} : bound'[j] \in {None, bound[j]}
  BY DEF TypeBindings, save_caller_session

(* A save of the session just opened.                                       *)
LEMMA SaveOpenedEffect ==
  ASSUME TypeOK, LoneInv, NEW p \in Procs, SaveOpened(p)
  PROVE  /\ Others(p) /\ UNCHANGED <<mixed, opened>>
         /\ at[p] = "save" /\ key[p] \in Keys
         /\ bound'[key[p]] = sid[p]
         /\ \A j \in Keys \ {key[p]} : bound'[j] \in {None, bound[j]}
         /\ \/ at'[p] = "idle"
            \/ at'[p] = "act" /\ cmd'[p] = cmd[p] /\ key'[p] = key[p] /\ sid'[p] = sid[p]
  <1>1. at[p] = "save" /\ key[p] \in Keys /\ UNCHANGED opened
    BY DEF SaveOpened, LoneInv, daemonVars, sessions
  <1>2. /\ bound'[key[p]] = sid[p]
        /\ \A j \in Keys \ {key[p]} : bound'[j] \in {None, bound[j]}
    BY <1>1, SaveEffect DEF SaveOpened, TypeOK, TypeProcs
  <1>3. CASE cmd[p] = "open"
    BY <1>1, <1>2, <1>3 DEF SaveOpened, Ends, Goes, Others, TypeOK, TypeProcs
  <1>4. CASE cmd[p] # "open"
    BY <1>1, <1>2, <1>4 DEF SaveOpened, Stays, Goes, Others, TypeOK, TypeProcs
  <1> QED BY <1>3, <1>4

(* A save of the closed mark.                                               *)
LEMMA MarkEffect ==
  ASSUME TypeOK, LoneInv, NEW p \in Procs, mark_caller_closed(p)
  PROVE  /\ Others(p) /\ UNCHANGED <<mixed, opened>>
         /\ at[p] = "mark" /\ at'[p] = "idle" /\ key[p] \in Keys
         /\ bound'[key[p]] = Closed
         /\ \A j \in Keys \ {key[p]} : bound'[j] \in {None, bound[j]}
  <1>1. at[p] = "mark" /\ key[p] \in Keys /\ UNCHANGED opened
    BY DEF mark_caller_closed, LoneInv, daemonVars, sessions
  <1>2. /\ bound'[key[p]] = Closed
        /\ \A j \in Keys \ {key[p]} : bound'[j] \in {None, bound[j]}
    BY <1>1, SaveEffect DEF mark_caller_closed, TypeOK
  <1> QED BY <1>1, <1>2 DEF mark_caller_closed, Ends, Goes, Others, TypeOK, TypeProcs

(* A command starts: with the binding it read.                              *)
LEMMA RunEffect ==
  ASSUME TypeOK, NEW p \in Procs, NEW k \in Keys, NEW c, run(p, k, c)
  PROVE  /\ Others(p) /\ UNCHANGED <<bound, opened>>
         /\ at[p] = "idle" /\ at'[p] \in {"readpid", "connect"}
         /\ key'[p] = k /\ sid'[p] = bound[k]
         /\ mixed \subseteq mixed'
         /\ k \notin mixed' => \A q \in Procs : at[q] # "idle" => key[q] # k
  BY DEF run, Goes, Bindings, Others, TypeOK, TypeProcs, daemonVars, sessions

(* What a step that is no process's leaves alone.                           *)
LEMMA OtherSteps ==
  ASSUME \/ \E d \in Daemon : DaemonMoves(d) \/ DaemonCrashes(d)
         \/ MonthPasses \/ UNCHANGED vars
  PROVE  UNCHANGED <<at, cmd, key, sid, bound, mixed>>
  BY DEF DaemonMoves, DaemonCrashes, MonthPasses, vars, procVars

(* Every step keeps every session in one pair of hands.                     *)
LEMMA OwnerStep ==
  ASSUME TypeOK, ConnInv, LoneInv, OwnerInv, [Next]_vars
  PROVE  OwnerInv'
  <1>0. opened \in Nat /\ opened' \in Nat /\ opened <= opened'
    BY DaemonAssumption, DaemonEffects, DaemonTypes DEF TypeOK, TypeDaemons
  <1>1. ASSUME NEW p \in Procs, Others(p), UNCHANGED bound, at'[p] # "save"
        PROVE  OwnerInv'
    <2>1. \A q \in Procs : at'[q] = "save" => at[q] = "save" /\ sid'[q] = sid[q]
      BY <1>1 DEF Others
    <2>2. \A k \in Keys : bound'[k] \in Session => bound'[k] <= opened'
      BY <1>0, <1>1 DEF OwnerInv, Session
    <2>3. \A q \in Procs : at'[q] = "save" => sid'[q] \in 1..opened'
      BY <1>0, <2>1 DEF OwnerInv
    <2> QED BY <1>1, <2>1, <2>2, <2>3 DEF OwnerInv
  <1>2. ASSUME NEW p \in Procs, OpenCall(p) PROVE OwnerInv'
    <2>1. /\ Others(p) /\ UNCHANGED bound /\ opened' = opened + 1
          /\ sid'[p] = opened + 1 /\ at'[p] = "save"
      BY <1>2, OpenCallEffect
    <2>2. opened + 1 \in Session /\ 0 \notin Session
      BY <1>2, DaemonAssumption DEF OpenCall, session_open, TypeOK, TypeDaemons, Session
    <2>3. \A q \in Procs \ {p} : at'[q] = "save" =>
            /\ at[q] = "save" /\ sid'[q] = sid[q] /\ sid[q] \in 1..opened
      BY <2>1 DEF Others, OwnerInv
    <2>4. \A k \in Keys : bound[k] # opened + 1
      BY <1>0, <2>2 DEF OwnerInv
    <2>5. \A k \in Keys : bound'[k] \in Session => bound'[k] <= opened'
      BY <1>0, <2>1 DEF OwnerInv, Session
    <2>6. \A q \in Procs : at'[q] = "save" => sid'[q] \in 1..opened'
      BY <1>0, <2>1, <2>3
    <2>7. \A q \in Procs \ {p} : at'[q] = "save" => sid'[q] # opened + 1
      BY <1>0, <2>3
    <2>8. \A q \in Procs : at'[q] = "save" => \A k \in Keys : bound'[k] # sid'[q]
      BY <2>1, <2>3, <2>4 DEF OwnerInv
    <2>9. \A q, r \in Procs : at'[q] = "save" /\ at'[r] = "save" /\ sid'[q] = sid'[r] => q = r
      BY <2>1, <2>3, <2>7 DEF OwnerInv
    <2> QED BY <2>5, <2>6, <2>8, <2>9 DEF OwnerInv
  <1>3. ASSUME NEW p \in Procs, Others(p), UNCHANGED opened, at'[p] # "save",
               NEW k \in Keys, bound'[k] = Closed \/ (at[p] = "save" /\ bound'[k] = sid[p]),
               \A j \in Keys \ {k} : bound'[j] \in {None, bound[j]}
        PROVE  OwnerInv'
    <2>1. \A q \in Procs : at'[q] = "save" => q # p /\ at[q] = "save" /\ sid'[q] = sid[q]
      BY <1>3 DEF Others
    <2>2. \A q \in Procs : at'[q] = "save" => sid'[q] \in 1..opened' /\ sid'[q] # 0
      BY <1>0, <1>3, <2>1 DEF OwnerInv
    <2>3. Closed \notin Session /\ 0 \notin Session
      BY DaemonAssumption DEF Session
    <2>4. \A j \in Keys : bound'[j] \in Session => bound'[j] <= opened'
      <3>1. ASSUME NEW j \in Keys \ {k}, bound'[j] \in Session PROVE bound'[j] <= opened'
        BY <1>3, <2>3, <3>1 DEF OwnerInv
      <3>2. bound'[k] \in Session => bound'[k] <= opened'
        <4>1. at[p] = "save" => sid[p] <= opened
          BY <1>0 DEF OwnerInv
        <4> QED BY <1>3, <2>3, <4>1
      <3> QED BY <3>1, <3>2
    <2>5. \A q \in Procs : at'[q] = "save" => sid'[q] # Closed
      <3>1. \A q \in Procs : at[q] = "save" => sid[q] \in 1..opened
        BY DEF OwnerInv
      <3>2. opened < Closed
        BY DaemonAssumption DEF TypeOK, TypeDaemons
      <3> QED BY <1>0, <2>1, <3>1, <3>2, DaemonAssumption
    <2>6. ASSUME NEW q \in Procs, at'[q] = "save", NEW j \in Keys
          PROVE  bound'[j] # sid'[q]
      <3>1. q # p /\ at[q] = "save" /\ sid'[q] = sid[q] /\ sid[q] # 0 /\ sid[q] # Closed
        BY <2>1, <2>2, <2>5, <2>6
      <3>2. bound[j] # sid[q] /\ (at[p] = "save" => sid[p] # sid[q])
        BY <3>1 DEF OwnerInv
      <3> QED BY <1>3, <3>1, <3>2
    <2>7. \A q, r \in Procs : at'[q] = "save" /\ at'[r] = "save" /\ sid'[q] = sid'[r] => q = r
      BY <2>1 DEF OwnerInv
    <2> QED BY <2>2, <2>4, <2>6, <2>7 DEF OwnerInv
  <1>4. ASSUME NEW p \in Procs, Step(p) PROVE OwnerInv'
    <2>1. CASE Walks(p) \/ Connects(p) \/ Quits(p)
      BY <1>1, <2>1, QuietEffects DEF TypeOK
    <2>2. CASE SaveOpened(p)
      BY <1>3, <2>2, SaveOpenedEffect
    <2>3. CASE mark_caller_closed(p)
      BY <1>3, <2>3, MarkEffect
    <2> QED BY <1>2, <1>4, <2>1, <2>2, <2>3, ProcEffects
  <1>5. ASSUME NEW p \in Procs, NEW k \in Keys, NEW c, run(p, k, c) PROVE OwnerInv'
    BY <1>1, <1>5, RunEffect
  <1>6. ASSUME UNCHANGED <<at, cmd, key, sid, bound, mixed>> PROVE OwnerInv'
    <2>1. \A k \in Keys : bound'[k] \in Session => bound'[k] <= opened'
      BY <1>0, <1>6 DEF OwnerInv, Session
    <2>2. \A q \in Procs : at'[q] = "save" => sid'[q] \in 1..opened'
      BY <1>0, <1>6 DEF OwnerInv
    <2> QED BY <1>6, <2>1, <2>2 DEF OwnerInv
  <1> QED BY <1>4, <1>5, <1>6, OtherSteps DEF Next

(* Every step keeps a process whose key has no overlapping commands alone   *)
(* with its binding.                                                        *)
LEMMA LoneStep ==
  ASSUME TypeOK, ConnInv, LoneInv, [Next]_vars
  PROVE  LoneInv'
  <1> DEFINE Waits(p) == /\ cmd[p] \in {"use", "close"}
                         /\ \/ at[p] = "save"
                            \/ at[p] \in {"connect", "wait", "attach", "call"} /\ sid[p] = None
             WaitsNext(p) == /\ cmd'[p] \in {"use", "close"}
                             /\ \/ at'[p] = "save"
                                \/ /\ at'[p] \in {"connect", "wait", "attach", "call"}
                                   /\ sid'[p] = None
  <1>1. SUFFICES /\ \A p \in Procs : at'[p] # "idle" => key'[p] \in Keys
                 /\ \A p, q \in Procs : /\ at'[p] # "idle" /\ at'[q] # "idle"
                                        /\ key'[p] \notin mixed' /\ key'[q] = key'[p]
                                        => q = p
                 /\ \A p \in Procs : at'[p] # "idle" /\ key'[p] \notin mixed' /\ WaitsNext(p)
                                       => bound'[key'[p]] = None
    BY DEF LoneInv
  <1>2. /\ \A p \in Procs : at[p] # "idle" => key[p] \in Keys
        /\ \A p, q \in Procs : /\ at[p] # "idle" /\ at[q] # "idle"
                               /\ key[p] \notin mixed /\ key[q] = key[p]
                               => q = p
        /\ \A p \in Procs : at[p] # "idle" /\ key[p] \notin mixed /\ Waits(p)
                              => bound[key[p]] = None
    BY DEF LoneInv
  <1> DEFINE Goal == /\ \A p \in Procs : at'[p] # "idle" => key'[p] \in Keys
                     /\ \A p, q \in Procs : /\ at'[p] # "idle" /\ at'[q] # "idle"
                                            /\ key'[p] \notin mixed' /\ key'[q] = key'[p]
                                            => q = p
                     /\ \A p \in Procs : /\ at'[p] # "idle" /\ key'[p] \notin mixed'
                                         /\ WaitsNext(p)
                                         => bound'[key'[p]] = None
  <1>3. ASSUME NEW p \in Procs, Others(p), UNCHANGED mixed,
               at'[p] = "idle" \/ (key'[p] = key[p] /\ at[p] # "idle"),
               \A q \in Procs : at[q] # "idle" /\ key[q] \notin mixed /\ bound[key[q]] = None /\ q # p
                                  => bound'[key[q]] = None,
               at'[p] # "idle" /\ WaitsNext(p) => Waits(p) /\ bound' = bound
        PROVE  Goal
    BY <1>2, <1>3 DEF Others
  <1>4. ASSUME NEW p \in Procs, Step(p) PROVE Goal
    <2>1. CASE Walks(p) \/ Connects(p) \/ Quits(p)
      <3>1. /\ Others(p) /\ UNCHANGED <<bound, mixed>>
            /\ \/ at'[p] = "idle"
               \/ /\ at'[p] # "save" /\ at[p] # "idle"
                  /\ cmd'[p] = cmd[p] /\ key'[p] = key[p] /\ sid'[p] = sid[p]
                  /\ at'[p] \in {"connect", "wait", "attach", "call"} =>
                       at[p] \in {"connect", "wait", "attach", "call"}
        BY <2>1, QuietEffects DEF TypeOK
      <3>2. at'[p] # "idle" /\ WaitsNext(p) => Waits(p) /\ bound' = bound
        BY <3>1
      <3> HIDE DEF Goal, Waits, WaitsNext
      <3> QED BY <1>3, <3>1, <3>2
    <2>2. CASE OpenCall(p)
      <3>1. /\ Others(p) /\ UNCHANGED <<bound, mixed>>
            /\ at[p] = "call" /\ at'[p] = "save" /\ cmd'[p] = cmd[p] /\ key'[p] = key[p]
            /\ OpensSession(p)
        BY <2>2, OpenCallEffect
      <3>2. at'[p] # "idle" /\ WaitsNext(p) => Waits(p) /\ bound' = bound
        BY <3>1 DEF OpensSession
      <3> HIDE DEF Goal, Waits, WaitsNext
      <3> QED BY <1>3, <3>1, <3>2
    <2>3. CASE SaveOpened(p) \/ mark_caller_closed(p)
      <3>1. /\ Others(p) /\ UNCHANGED mixed
            /\ at[p] # "idle"
            /\ \/ at'[p] = "idle"
               \/ at'[p] = "act" /\ key'[p] = key[p]
            /\ \A j \in Keys \ {key[p]} : bound'[j] \in {None, bound[j]}
        BY <2>3, SaveOpenedEffect, MarkEffect
      <3>2. at'[p] # "idle" /\ WaitsNext(p) => Waits(p) /\ bound' = bound
        BY <3>1
      <3>3. ASSUME NEW q \in Procs, at[q] # "idle", key[q] \notin mixed, bound[key[q]] = None,
                   q # p
            PROVE  bound'[key[q]] = None
        <4>1. key[q] \in Keys \ {key[p]}
          BY <1>2, <3>1, <3>3
        <4> QED BY <3>1, <3>3, <4>1
      <3> HIDE DEF Goal, Waits, WaitsNext
      <3> QED BY <1>3, <3>1, <3>2, <3>3
    <2> HIDE DEF Goal, Waits, WaitsNext
    <2> QED BY <1>4, <2>1, <2>2, <2>3, ProcEffects
  <1>5. ASSUME NEW p \in Procs, NEW k \in Keys, NEW c, run(p, k, c) PROVE Goal
    <2>1. /\ Others(p) /\ UNCHANGED bound
          /\ at[p] = "idle" /\ at'[p] \in {"readpid", "connect"}
          /\ key'[p] = k /\ sid'[p] = bound[k] /\ mixed \subseteq mixed'
          /\ k \notin mixed' => \A q \in Procs : at[q] # "idle" => key[q] # k
      BY <1>5, RunEffect
    <2>2. \A q \in Procs \ {p} : at'[q] = at[q] /\ cmd'[q] = cmd[q] /\ key'[q] = key[q]
                                   /\ sid'[q] = sid[q]
      BY <2>1 DEF Others
    <2>3. \A q \in Procs : at'[q] # "idle" => key'[q] \in Keys
      BY <1>2, <2>1, <2>2
    <2>4. ASSUME NEW q \in Procs, NEW r \in Procs, at'[q] # "idle", at'[r] # "idle",
                 key'[q] \notin mixed', key'[r] = key'[q]
          PROVE  r = q
      BY <1>2, <2>1, <2>2, <2>4
    <2>5. ASSUME NEW q \in Procs, at'[q] # "idle", key'[q] \notin mixed', WaitsNext(q)
          PROVE  bound'[key'[q]] = None
      <3>1. CASE q = p
        BY <2>1, <2>5, <3>1
      <3>2. CASE q # p
        BY <1>2, <2>1, <2>2, <2>5, <3>2
      <3> QED BY <3>1, <3>2
    <2> QED BY <2>3, <2>4, <2>5
  <1>6. ASSUME UNCHANGED <<at, cmd, key, sid, bound, mixed>> PROVE Goal
    BY <1>2, <1>6
  <1> HIDE DEF Goal
  <1>7. Goal
    BY <1>4, <1>5, <1>6, OtherSteps DEF Next
  <1> QED BY <1>7 DEF Goal
-----------------------------------------------------------------------------
(* The invariant, and what follows from it.                                 *)

(* Nothing runs and nothing is bound at first.                              *)
LEMMA InitInv == Init => CommandInv
  <1> SUFFICES ASSUME Init PROVE CommandInv
    OBVIOUS
  <1> USE DEF Init, InitDaemons, Idle
  <1>1. MaxDaemons \in Nat /\ MaxSessions \in Nat /\ MaxCrashes \in Nat
    BY DaemonAssumption
  <1>2. TypeDaemons
    BY <1>1 DEF TypeDaemons
  <1>3. TypeProcs /\ TypeBindings
    BY <1>1, CommandAssumption DEF TypeProcs, TypeBindings
  <1>4. AloneInv /\ RaceInv
    BY DEF AloneInv, RaceInv, Active, Alive
  <1>5. ConnInv /\ StopInv /\ LoneInv
    BY DEF ConnInv, StopInv, LoneInv
  <1>6. OwnerInv
    BY DEF OwnerInv, Session
  <1> QED BY <1>2, <1>3, <1>4, <1>5, <1>6 DEF CommandInv, TypeOK

(* Every step keeps the invariant.                                          *)
LEMMA CommandStep == CommandInv /\ [Next]_vars => CommandInv'
  <1> SUFFICES ASSUME CommandInv, [Next]_vars PROVE CommandInv'
    OBVIOUS
  <1> USE DEF CommandInv
  <1>1. DaemonEffect
    BY DaemonEffects
  <1>2. TypeDaemons' /\ AloneInv' /\ RaceInv'
    BY <1>1, DaemonTypes, AloneStep, RaceStep DEF TypeOK
  <1>3. ProcOK'
    BY ProcTypes
  <1>4. OwnerInv' /\ LoneInv'
    BY OwnerStep, LoneStep
  <1> QED BY <1>2, <1>3, <1>4 DEF ProcOK, TypeOK

(* The invariant holds throughout.                                          *)
LEMMA CommandInvariant == Spec => []CommandInv
  BY InitInv, CommandStep, PTL DEF Spec

(* A daemon that serves and never shared the home is the one the socket     *)
(* path reaches and the pid file names.                                     *)
LEMMA OwnsFiles == ASSUME CommandInv PROVE ServerOwnsFiles
  BY DEF CommandInv, AloneInv, ServerOwnsFiles, Serving, Active, Alive

(* The files of the home lead to a daemon: to the one that serves alone,    *)
(* and, of daemons started at once, to one of them.                         *)
THEOREM FilesLeadToAServer == Spec => []FilesLeadToServer
  <1>1. CommandInv => FilesLeadToServer
    <2> SUFFICES ASSUME CommandInv PROVE RaceLeavesListener
      BY OwnsFiles DEF FilesLeadToServer, CommandInv
    <2> SUFFICES ASSUME steady, NEW d \in Daemon, state[d] # "off",
                        \A e \in Daemon : ~Booting(e) /\ state[e] # "failed"
                 PROVE  is_listening
      BY DEF RaceLeavesListener
    <2>1. state[d] \in {"up", "gone"}
      BY DEF CommandInv, TypeOK, TypeDaemons, RaceInv, Booting
    <2>2. \A e \in Daemon : state[e] # "bind"
      BY DEF Booting
    <2> QED BY <2>1, <2>2 DEF CommandInv, RaceInv, is_listening
  <1> QED BY <1>1, CommandInvariant, PTL

(* A caller's binding is to a session of its own, and one with a page lives *)
(* as long as the binding, across crashes, restarts and other callers.      *)
THEOREM BindingsAreSound == Spec => []BindingsSound
  <1>1. [Next]_vars /\ CommandInv /\ CallersIsolated => CallersIsolated'
    <2> SUFFICES ASSUME [Next]_vars, CommandInv, CallersIsolated PROVE CallersIsolated'
      OBVIOUS
    <2> USE DEF CommandInv
    <2>1. ASSUME UNCHANGED bound PROVE CallersIsolated'
      BY <2>1 DEF CallersIsolated
    <2>2. Closed \notin Session /\ None \notin Session
      BY DaemonAssumption DEF Session
    <2>3. ASSUME NEW k \in Keys,
                 bound'[k] \notin Session \/ \A j \in Keys : bound[j] # bound'[k],
                 \A j \in Keys \ {k} : bound'[j] \in {None, bound[j]}
          PROVE  CallersIsolated'
      <3> SUFFICES ASSUME NEW i \in Keys, NEW j \in Keys, i # j, bound'[i] \in Session,
                          bound'[i] = bound'[j]
                   PROVE  FALSE
        BY DEF CallersIsolated
      <3>1. CASE i = k
        BY <2>2, <2>3, <3>1
      <3>2. CASE j = k
        BY <2>2, <2>3, <3>2
      <3>3. CASE i # k /\ j # k
        <4>1. bound'[i] = bound[i] /\ bound'[j] = bound[j]
          BY <2>2, <2>3, <3>3
        <4> QED BY <4>1 DEF CallersIsolated
      <3> QED BY <3>1, <3>2, <3>3
    <2>4. ASSUME NEW p \in Procs, Step(p) PROVE CallersIsolated'
      <3>1. CASE Walks(p) \/ Connects(p) \/ Quits(p) \/ OpenCall(p)
        BY <2>1, <3>1, QuietEffects, OpenCallEffect DEF TypeOK
      <3>2. CASE SaveOpened(p)
        BY <2>3, <3>2, SaveOpenedEffect DEF OwnerInv
      <3>3. CASE mark_caller_closed(p)
        BY <2>2, <2>3, <3>3, MarkEffect
      <3> QED BY <2>4, <3>1, <3>2, <3>3, ProcEffects
    <2>5. ASSUME NEW p \in Procs, NEW k \in Keys, NEW c, run(p, k, c) PROVE CallersIsolated'
      BY <2>1, <2>5, RunEffect
    <2> QED BY <2>1, <2>4, <2>5, OtherSteps DEF Next
  <1>2. Init => CallersIsolated
    BY DEF Init, CallersIsolated, Session
  <1>3. CommandInv => BoundSessionLives
    BY DEF CommandInv, AloneInv, BoundSessionLives, Serving, Active, Alive
  <1> QED BY <1>1, <1>2, <1>3, CommandInvariant, PTL DEF Spec, BindingsSound

(* "vs serve --stop" says "no daemon running" or "daemon stopped" only at a *)
(* moment when no daemon serves, if daemons never overlapped.               *)
THEOREM StopIsTruthful == Spec => StopTellsTruth
  <1> DEFINE Truth == \A p \in Procs :
                        alone /\ at[p] # at'[p] /\ at'[p] \in {"none", "stopped"} =>
                          \A d \in Daemon : ~Serving(d)
  <1>1. CommandInv /\ [Next]_vars => [Truth]_vars
    <2> SUFFICES ASSUME CommandInv, Next, NEW p \in Procs, alone, at[p] # at'[p],
                        at'[p] \in {"none", "stopped"}
                 PROVE  \A d \in Daemon : ~Serving(d)
      BY DEF vars, procVars
    <2>1. \A d \in Daemon : Serving(d) => sock = d /\ pid = d /\ d # 0 /\ Alive(d)
      BY OwnsFiles DEF ServerOwnsFiles, Daemon, Serving, Alive
    <2>2. ASSUME NEW q \in Procs, Step(q) PROVE StopReads(q) \/ StopWaits(q)
      <3>1. ASSUME NEW l \in {"wait", "attach", "call", "save", "act", "mark", "idle"}, Goes(q, l)
            PROVE  FALSE
        BY <3>1 DEF Goes, CommandInv, TypeOK, TypeProcs
      <3>2. ~Ends(q)
        BY <3>1 DEF Ends
      <3> QED BY <2>2, <3>1, <3>2
        DEF Step, ProbeFound, spawn_daemon, wait_for_socket, Attach, ConnectionLost, OpenCall,
            OpenRefused, SaveOpened, Proceed, Refused, Use, Close, mark_caller_closed,
            StopReports
    <2>3. ASSUME NEW q \in Procs, StopReads(q) PROVE pid = 0 \/ ~Alive(pid)
      <3>1. ~Goes(q, "waitgone")
        BY DEF Goes, CommandInv, TypeOK, TypeProcs
      <3> QED BY <2>3, <3>1 DEF StopReads
    <2>4. ASSUME NEW q \in Procs, StopWaits(q) PROVE sock = 0
      <3>1. ~Ends(q)
        BY DEF Ends, Goes, CommandInv, TypeOK, TypeProcs
      <3> QED BY <2>4, <3>1 DEF StopWaits
    <2>5. ASSUME NEW q \in Procs, NEW k \in Keys, NEW c, run(q, k, c) PROVE FALSE
      BY <2>5 DEF run, Goes, CommandInv, TypeOK, TypeProcs
    <2>6. CASE MonthPasses \/ \E d \in Daemon : DaemonMoves(d) \/ DaemonCrashes(d)
      BY <2>6 DEF MonthPasses, DaemonMoves, DaemonCrashes, procVars
    <2> QED BY <2>1, <2>2, <2>3, <2>4, <2>5, <2>6 DEF Next
  <1> QED BY <1>1, CommandInvariant, PTL DEF Spec, StopTellsTruth

(* Once a caller's session-close has succeeded, only its session-open gives *)
(* it a session again, unless commands of that caller overlapped or the     *)
(* binding was pruned.                                                      *)
THEOREM ClosedSticks == Spec => CloseSticks
  <1> DEFINE Sticks == \A k \in Keys \ mixed :
                         bound[k] = Closed /\ bound'[k] \in Session =>
                           \E p \in Procs : key[p] = k /\ cmd[p] = "open" /\ at[p] = "save"
  <1>1. CommandInv /\ [Next]_vars => [Sticks]_vars
    <2> SUFFICES ASSUME CommandInv, Next, NEW k \in Keys \ mixed, bound[k] = Closed,
                        bound'[k] \in Session
                 PROVE  \E p \in Procs : key[p] = k /\ cmd[p] = "open" /\ at[p] = "save"
      OBVIOUS
    <2> USE DEF CommandInv
    <2>1. Closed \notin Session /\ None \notin Session /\ None # Closed
      BY DaemonAssumption DEF Session
    <2>2. bound' # bound
      BY <2>1
    <2>3. PICK p \in Procs : Step(p)
      BY <2>2, RunEffect, OtherSteps DEF Next
    <2>4. SaveOpened(p)
      <3>1. ~mark_caller_closed(p)
        BY <2>1, MarkEffect
      <3> QED BY <2>2, <2>3, <3>1, ProcEffects, QuietEffects, OpenCallEffect DEF TypeOK
    <2>5. key[p] = k /\ at[p] = "save"
      BY <2>1, <2>4, SaveOpenedEffect
    <2>6. cmd[p] \in {"open", "use", "close"}
      BY <2>5 DEF StopInv
    <2>7. cmd[p] \notin {"use", "close"}
      BY <2>1, <2>5 DEF LoneInv
    <2> QED BY <2>5, <2>6, <2>7
  <1> QED BY <1>1, CommandInvariant, PTL DEF Spec, CloseSticks

=============================================================================
