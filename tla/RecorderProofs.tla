--------------------------- MODULE RecorderProofs ---------------------------
(***************************************************************************)
(* What holds of Recorder, and of the engine runtime below it, for any     *)
(* number of worker threads, recordings and requests, any frame cap and    *)
(* any set of platforms.                                                   *)
(***************************************************************************)
EXTENDS Recorder, TLAPS

-----------------------------------------------------------------------------
(* Types.                                                                   *)

(* Workers and recorder threads are different callers.                      *)
LEMMA CallerTypes ==
  /\ Workers \subseteq Callers /\ Recordings \subseteq Callers
  /\ \A w \in Workers : w \notin Recordings
  /\ Recordings \subseteq Nat /\ 0 \notin Recordings
  BY RuntimeAssumption DEF Callers, Recordings

(* Having no job is not a job.                                              *)
LEMMA NoOpIsNoJob == E!NoOp \notin E!Ops
  BY DEF E!NoOp, E!Ops

(* The operations the threads ask for are the engine's.                     *)
LEMMA OpTypes ==
  /\ \A k \in {"input", "close", "capture", "end"} : [kind |-> k, rec |-> 0] \in E!Ops
  /\ \A r \in Recordings : [kind |-> "begin", rec |-> r] \in E!Ops
  BY DEF E!Ops

(* A daemon that has just been started is well typed.                       *)
LEMMA InitType == Init => TypeOK
  <1> SUFFICES ASSUME Init PROVE TypeOK
    OBVIOUS
  <1> USE DEF Init, InitRuntime
  <1>1. TypeChannel
    BY DEF TypeChannel
  <1>2. TypeEngine
    BY DEF TypeEngine
  <1>3. raced \in BOOLEAN
    OBVIOUS
  <1>4. TypeTasks
    BY <1>3, RecorderAssumption, SMT DEF TypeTasks
  <1>5. rec \in [Recordings -> RecorderStates]
    BY DEF RecorderStates, Off
  <1> QED BY <1>1, <1>2, <1>4, <1>5 DEF TypeOK

(* A call to the engine puts the caller's job at the end of the queue.      *)
LEMMA DispatchType ==
  ASSUME TypeChannel, NEW c \in Callers, NEW op \in E!Ops, dispatch(c, op)
  PROVE  TypeChannel'
  BY DEF TypeChannel, dispatch

(* Picking up a reply leaves the caller without a job.                      *)
LEMMA ReceivedType ==
  ASSUME TypeChannel, NEW c \in Callers, NEW res, Received(c, res)
  PROVE  TypeChannel' /\ res \in {"ok", "err"}
  BY DEF TypeChannel, Received

(* The job the host performs next is that of a caller.                      *)
LEMMA HeadType ==
  ASSUME TypeChannel, queue # <<>>
  PROVE  /\ Head(queue) \in Callers /\ Head(queue) = queue[1]
         /\ Len(queue) \in Nat /\ 1 \in 1..Len(queue)
         /\ Tail(queue) \in Seq(Callers) /\ Len(Tail(queue)) = Len(queue) - 1
         /\ \A i \in 1..Len(Tail(queue)) : Tail(queue)[i] = queue[i + 1]
  BY DEF TypeChannel

(* What the engine does keeps its types.                                    *)
LEMMA PerformsType ==
  ASSUME TypeEngine, NEW op \in E!Ops \cup {E!NoOp}, NEW res, E!Performs(op, res)
  PROVE  page' \in BOOLEAN /\ sink' \in Recordings \cup {0} /\ frames' \in [Recordings -> Nat]
  <1> USE DEF TypeEngine
  <1>1. CASE E!Fails(op)
    BY <1>1 DEF E!Fails
  <1>2. CASE op.kind = "input" /\ E!Input
    BY <1>2 DEF E!Input
  <1>3. CASE op.kind = "capture" /\ E!capture_live
    BY <1>3 DEF E!capture_live
  <1>4. CASE op.kind = "begin" /\ E!record_begin(op.rec)
    <2>1. op.rec \in Recordings
      BY <1>4 DEF E!Ops, E!NoOp
    <2> QED BY <1>4, <2>1 DEF E!record_begin
  <1>5. CASE op.kind = "end" /\ E!record_end
    BY <1>5 DEF E!record_end
  <1>6. CASE op.kind = "close" /\ E!close
    BY <1>6 DEF E!close
  <1> QED BY <1>1, <1>2, <1>3, <1>4, <1>5, <1>6 DEF E!Performs, E!Does

-----------------------------------------------------------------------------
(* The channel.                                                             *)

(* A call to the engine: the job joins the queue, once.                     *)
LEMMA DispatchJob ==
  ASSUME TypeChannel, JobInv, NEW c \in Callers, NEW op \in E!Ops, dispatch(c, op)
  PROVE  JobInv'
  <1>1. /\ call' = [call EXCEPT ![c] = op] /\ queue' = Append(queue, c)
        /\ reply' = reply /\ woke' = woke /\ Quiet(c)
    BY DEF dispatch
  <1>2. /\ Len(queue) \in Nat /\ Len(queue') = Len(queue) + 1
        /\ \A i \in 1..Len(queue) : queue'[i] = queue[i] /\ queue[i] \in Callers
        /\ queue'[Len(queue) + 1] = c
    BY <1>1 DEF TypeChannel
  <1>3. ~Queued(c)
    BY <1>1 DEF JobInv
  <1>4. \A d \in Callers : Queued(d)' => d = c \/ Queued(d)
    BY <1>2 DEF Queued
  <1>5. \A d \in Callers : d # c => (Quiet(d)' <=> Quiet(d))
    BY <1>1 DEF TypeChannel, Quiet
  <1>6. ~Quiet(c)'
    BY <1>1, NoOpIsNoJob DEF TypeChannel, Quiet
  <1>7. \A i, j \in 1..Len(queue') : queue'[i] = queue'[j] => i = j
    BY <1>2, <1>3 DEF JobInv, Queued
  <1>8. \A d \in Callers : Queued(d)' => ~Quiet(d)' /\ reply'[d] = "none"
    BY <1>1, <1>4, <1>5, <1>6 DEF JobInv
  <1>9. \A d \in Callers : Quiet(d)' => reply'[d] = "none" /\ ~woke'[d]
    BY <1>1, <1>5, <1>6 DEF JobInv
  <1> QED BY <1>7, <1>8, <1>9 DEF JobInv

(* A reply picked up: its job has left the queue before.                    *)
LEMMA ReceivedJob ==
  ASSUME TypeChannel, JobInv, NEW c \in Callers, NEW res, Received(c, res)
  PROVE  JobInv' /\ Quiet(c)'
  <1>1. /\ call' = [call EXCEPT ![c] = E!NoOp] /\ reply' = [reply EXCEPT ![c] = "none"]
        /\ woke' = [woke EXCEPT ![c] = FALSE] /\ queue' = queue /\ reply[c] # "none"
    BY DEF Received
  <1>2. ~Queued(c) /\ \A d \in Callers : Queued(d)' <=> Queued(d)
    BY <1>1 DEF JobInv, Queued
  <1>3. Quiet(c)' /\ reply'[c] = "none" /\ ~woke'[c]
    BY <1>1 DEF TypeChannel, Quiet
  <1>4. \A d \in Callers : d # c => (Quiet(d)' <=> Quiet(d)) /\ reply'[d] = reply[d]
    BY <1>1 DEF TypeChannel, Quiet
  <1>5. \A d \in Callers : d # c => (woke'[d] <=> woke[d])
    BY <1>1 DEF TypeChannel
  <1>6. \A i, j \in 1..Len(queue') : queue'[i] = queue'[j] => i = j
    BY <1>1 DEF JobInv
  <1> QED BY <1>2, <1>3, <1>4, <1>5, <1>6 DEF JobInv

(* The waker called: only of callers that wait.                             *)
LEMMA WakeJob ==
  ASSUME TypeChannel, JobInv, NEW c \in Callers, Wake(c)
  PROVE  JobInv' /\ TypeChannel'
  <1>1. /\ woke' = [woke EXCEPT ![c] = TRUE] /\ ~Quiet(c)
        /\ call' = call /\ reply' = reply /\ queue' = queue
    BY DEF Wake
  <1>2. \A d \in Callers : d # c => (woke'[d] <=> woke[d])
    BY <1>1 DEF TypeChannel
  <1>3. \A d \in Callers : (Queued(d)' <=> Queued(d)) /\ (Quiet(d)' <=> Quiet(d))
    BY <1>1 DEF Queued, Quiet
  <1>4. TypeChannel'
    BY <1>1 DEF TypeChannel
  <1> QED BY <1>1, <1>2, <1>3, <1>4 DEF JobInv

(* A job performed: it leaves the queue and is answered.                    *)
LEMMA TickJob ==
  ASSUME TypeChannel, JobInv, tick
  PROVE  JobInv' /\ TypeChannel'
  <1> DEFINE h == Head(queue)
  <1>1. PICK res \in {"ok", "err"} : reply' = [reply EXCEPT ![h] = res]
    BY DEF tick
  <1>2. call' = call /\ woke' = woke /\ queue' = Tail(queue) /\ queue # <<>>
    BY DEF tick
  <1>3. /\ h \in Callers /\ h = queue[1] /\ Len(queue) \in Nat /\ 1 \in 1..Len(queue)
        /\ queue' \in Seq(Callers) /\ Len(queue') = Len(queue) - 1
        /\ \A i \in 1..Len(queue') : queue'[i] = queue[i + 1]
    BY <1>2, HeadType
  <1> HIDE DEF h
  <1>4. TypeChannel'
    BY <1>1, <1>2, <1>3 DEF TypeChannel
  <1>5. \A d \in Callers : Queued(d)' => Queued(d) /\ d # h
    BY <1>3 DEF Queued, JobInv
  <1>6. \A i, j \in 1..Len(queue') : queue'[i] = queue'[j] => i = j
    BY <1>3 DEF JobInv
  <1>7. ~Quiet(h)
    BY <1>3 DEF JobInv, Queued
  <1>8. \A d \in Callers : d # h => reply'[d] = reply[d]
    BY <1>1, <1>3 DEF TypeChannel
  <1>9. \A d \in Callers : Quiet(d)' <=> Quiet(d)
    BY <1>2 DEF Quiet
  <1> QED BY <1>2, <1>4, <1>5, <1>6, <1>7, <1>8, <1>9 DEF JobInv

-----------------------------------------------------------------------------
(* The steps.                                                               *)
(* What is one engine call, of a request or of the reaper.                  *)
LEMMA EngineCallKeeps ==
  ASSUME TypeOK, RecordInv, NEW w \in Workers, NEW kind \in {"input", "close"},
         server # "gone", Takes(w), EngineCall(w, kind)
  PROVE  TypeOK' /\ RecordInv'
  <1> USE CallerTypes, NoOpIsNoJob DEF TypeOK, RecordInv
  <1>1. TypeChannel' /\ JobInv'
    <2>1. [kind |-> kind, rec |-> 0] \in E!Ops
      BY OpTypes
    <2>2. dispatch(w, [kind |-> kind, rec |-> 0])
      BY DEF EngineCall
    <2> QED BY <2>1, <2>2, DispatchType, DispatchJob
  <1>2. TypeEngine'
    BY DEF TypeEngine, EngineCall, Takes, dispatch, engine
  <1>3. TypeTasks'
    BY RuntimeAssumption, RecorderAssumption DEF TypeTasks, Recordings, EngineCall, Takes, dispatch, engine
  <1>4. rec' \in [Recordings -> RecorderStates]
    BY DEF RecorderStates, TypeTasks, Off, EngineCall, Takes, dispatch, engine
  <1>5. WorkerInv'
    BY OpTypes DEF WorkerInv, Quiet, TypeTasks, TypeChannel, EngineCall, Takes, dispatch, engine
  <1>6. ThreadInv'
    BY DEF ThreadInv, NumberInv, Quiet, RecorderStates, TypeTasks, TypeChannel, Off, EngineCall, Takes, dispatch, engine
  <1>7. NumberInv'
    BY RuntimeAssumption DEF NumberInv, Recordings, RecorderStates, TypeTasks, Off, EngineCall, Takes, dispatch, engine
  <1>8. StartInv'
    BY DEF StartInv, Starting, TypeTasks, EngineCall, Takes, dispatch, engine
  <1>9. SinkInv'
    BY DEF SinkInv, NumberInv, WorkerInv, JobInv, Quiet, RecorderStates, TypeTasks, TypeEngine, TypeChannel, Off, EngineCall, Takes, dispatch, engine
  <1>10. ExitInv'
    BY DEF ExitInv, Running, RecorderStates, TypeTasks, Off, EngineCall, Takes, dispatch, engine
  <1>11. RecorderReachable'
    BY DEF RecorderReachable, StartInv, NumberInv, Starting, Running, RecorderStates, TypeTasks, Off, EngineCall, Takes, dispatch, engine
  <1>12. SinkIsLive'
    BY DEF SinkIsLive, SinkInv, NumberInv, Running, RecorderStates, TypeTasks, Off, EngineCall, Takes, dispatch, engine
  <1> QED BY <1>1, <1>2, <1>3, <1>4, <1>5, <1>6, <1>7, <1>8, <1>9, <1>10, <1>11, <1>12

(* Its answer.                                                              *)
LEMMA OpDoneKeeps ==
  ASSUME TypeOK, RecordInv, NEW w \in Workers, OpDone(w)
  PROVE  TypeOK' /\ RecordInv'
  <1> USE CallerTypes, NoOpIsNoJob DEF TypeOK, RecordInv
  <1>1. TypeChannel' /\ JobInv'
    <2>1. PICK res \in {"ok", "err"} : Received(w, res)
      BY DEF OpDone
    <2> QED BY <2>1, ReceivedType, ReceivedJob
  <1>2. TypeEngine'
    BY DEF TypeEngine, OpDone, Received, engine
  <1>3. TypeTasks'
    BY RuntimeAssumption, RecorderAssumption DEF TypeTasks, Recordings, OpDone, Received, engine
  <1>4. rec' \in [Recordings -> RecorderStates]
    BY DEF RecorderStates, TypeTasks, Off, OpDone, Received, engine
  <1>5. WorkerInv'
    BY DEF WorkerInv, Quiet, TypeTasks, TypeChannel, OpDone, Received, engine
  <1>6. ThreadInv'
    BY DEF ThreadInv, NumberInv, Quiet, RecorderStates, TypeTasks, TypeChannel, Off, OpDone, Received, engine
  <1>7. NumberInv'
    BY RuntimeAssumption DEF NumberInv, Recordings, RecorderStates, TypeTasks, Off, OpDone, Received, engine
  <1>8. StartInv'
    BY DEF StartInv, Starting, TypeTasks, OpDone, Received, engine
  <1>9. SinkInv'
    BY DEF SinkInv, NumberInv, WorkerInv, JobInv, Quiet, RecorderStates, TypeTasks, TypeEngine, TypeChannel, Off, OpDone, Received, engine
  <1>10. ExitInv'
    BY DEF ExitInv, Running, RecorderStates, TypeTasks, Off, OpDone, Received, engine
  <1>11. RecorderReachable'
    BY DEF RecorderReachable, StartInv, NumberInv, Starting, Running, RecorderStates, TypeTasks, Off, OpDone, Received, engine
  <1>12. SinkIsLive'
    BY DEF SinkIsLive, SinkInv, NumberInv, Running, RecorderStates, TypeTasks, Off, OpDone, Received, engine
  <1> QED BY <1>1, <1>2, <1>3, <1>4, <1>5, <1>6, <1>7, <1>8, <1>9, <1>10, <1>11, <1>12

(* record_start asks the engine for a sink.                                 *)
LEMMA Record_startKeeps ==
  ASSUME TypeOK, RecordInv, NEW w \in Workers, record_start(w)
  PROVE  TypeOK' /\ RecordInv'
  <1> USE CallerTypes, NoOpIsNoJob DEF TypeOK, RecordInv
  <1>1. TypeChannel' /\ JobInv'
    <2>1. [kind |-> "begin", rec |-> started + 1] \in E!Ops
      BY OpTypes, RuntimeAssumption DEF record_start, TypeTasks, Recordings
    <2>2. dispatch(w, [kind |-> "begin", rec |-> started + 1])
      BY DEF record_start
    <2> QED BY <2>1, <2>2, DispatchType, DispatchJob
  <1>2. TypeEngine'
    BY DEF TypeEngine, record_start, Accept, Takes, dispatch, engine
  <1>3. TypeTasks'
    BY RuntimeAssumption, RecorderAssumption DEF TypeTasks, Recordings, record_start, Accept, Takes, dispatch, engine
  <1>4. rec' \in [Recordings -> RecorderStates]
    BY DEF RecorderStates, TypeTasks, Off, record_start, Accept, Takes, dispatch, engine
  <1>5. WorkerInv'
    <2>1. started + 1 \in Recordings
      BY RuntimeAssumption DEF record_start, TypeTasks, Recordings
    <2>2. /\ call' = [call EXCEPT ![w] = [kind |-> "begin", rec |-> started + 1]]
          /\ [kind |-> "begin", rec |-> started + 1] # E!NoOp
          /\ task' = [task EXCEPT ![w] = "begin"] /\ arg' = [arg EXCEPT ![w] = started + 1]
      BY <2>1, OpTypes DEF record_start, dispatch
    <2> QED BY <2>2 DEF WorkerInv, Quiet, TypeTasks, TypeChannel
  <1>6. ThreadInv'
    BY DEF ThreadInv, NumberInv, Quiet, RecorderStates, TypeTasks, TypeChannel, Off, record_start, Accept, Takes, dispatch, engine
  <1>7. NumberInv'
    <2>1. /\ started \in Nat /\ started + 1 \in Recordings /\ started' = started + 1
          /\ task' = [task EXCEPT ![w] = "begin"] /\ arg' = [arg EXCEPT ![w] = started + 1]
          /\ recorders' = recorders /\ rec' = rec
      BY RuntimeAssumption DEF record_start, TypeTasks, Recordings
    <2>2. \A v \in Workers : arg[v] \in Nat /\ arg[v] <= started
      <3>1. \A v \in Workers : arg[v] \in Recordings \cup {0}
        BY DEF TypeTasks
      <3>2. \A v \in Workers : arg[v] \in Nat
        BY <3>1, RuntimeAssumption DEF Recordings
      <3>3. \A v \in Workers : arg[v] <= started
        BY DEF NumberInv
      <3> QED BY <3>2, <3>3
    <2>3. rec[started + 1].at = "off"
      BY <2>1 DEF NumberInv
    <2>4. recorders \in Nat /\ recorders <= started
      BY DEF NumberInv, TypeTasks
    <2> QED BY <2>1, <2>2, <2>3, <2>4 DEF NumberInv, TypeTasks
  <1>8. StartInv'
    BY DEF StartInv, Starting, TypeTasks, record_start, Accept, Takes, dispatch, engine
  <1>9. SinkInv'
    <2>1. /\ started \in Nat /\ task' = [task EXCEPT ![w] = "begin"]
          /\ arg' = [arg EXCEPT ![w] = started + 1]
          /\ sink' = sink /\ rec' = rec /\ reply' = reply
      BY DEF record_start, dispatch, engine, TypeTasks
    <2>2. sink \in Nat /\ sink <= started
      BY <2>1 DEF SinkIsLive, Running, NumberInv, TypeEngine, TypeTasks
    <2>3. sink # started + 1
      BY <2>1, <2>2
    <2> QED BY <2>1, <2>3 DEF SinkInv, TypeTasks
  <1>10. ExitInv'
    BY DEF ExitInv, Running, RecorderStates, TypeTasks, Off, record_start, Accept, Takes, dispatch, engine
  <1>11. RecorderReachable'
    BY DEF RecorderReachable, StartInv, NumberInv, Starting, Running, RecorderStates, TypeTasks, Off, record_start, Accept, Takes, dispatch, engine
  <1>12. SinkIsLive'
    BY DEF SinkIsLive, SinkInv, NumberInv, Running, RecorderStates, TypeTasks, Off, record_start, Accept, Takes, dispatch, engine
  <1> QED BY <1>1, <1>2, <1>3, <1>4, <1>5, <1>6, <1>7, <1>8, <1>9, <1>10, <1>11, <1>12

(* The engine has answered and the recorder thread starts.                  *)
LEMMA SpawnRecorderKeeps ==
  ASSUME TypeOK, RecordInv, NEW w \in Workers, SpawnRecorder(w)
  PROVE  TypeOK' /\ RecordInv'
  <1> USE CallerTypes, NoOpIsNoJob DEF TypeOK, RecordInv
  <1>1. TypeChannel' /\ JobInv'
    <2>1. PICK res \in {"ok", "err"} : Received(w, res)
      BY DEF SpawnRecorder
    <2> QED BY <2>1, ReceivedType, ReceivedJob
  <1>2. TypeEngine'
    BY DEF TypeEngine, SpawnRecorder, Received, engine
  <1>3. TypeTasks'
    BY RuntimeAssumption, RecorderAssumption DEF TypeTasks, Recordings, SpawnRecorder, Received, engine
  <1>4. rec' \in [Recordings -> RecorderStates]
    <2>1. PICK a \in {"seed", "loop"}, i \in BOOLEAN :
            rec' = [rec EXCEPT ![arg[w]] = [Off EXCEPT !.at = a, !.inline = i]]
      BY DEF SpawnRecorder
    <2>2. [Off EXCEPT !.at = a, !.inline = i] \in RecorderStates
      BY DEF RecorderStates, Off
    <2> QED BY <2>1, <2>2
  <1>5. WorkerInv'
    BY DEF WorkerInv, Quiet, TypeTasks, TypeChannel, SpawnRecorder, Received, engine
  <1>6. ThreadInv'
    BY DEF ThreadInv, NumberInv, Quiet, RecorderStates, TypeTasks, TypeChannel, Off, SpawnRecorder, Received, engine
  <1>7. NumberInv'
    BY RuntimeAssumption DEF NumberInv, Recordings, RecorderStates, TypeTasks, Off, SpawnRecorder, Received, engine
  <1>8. StartInv'
    BY DEF StartInv, Starting, TypeTasks, SpawnRecorder, Received, engine
  <1>9. SinkInv'
    BY DEF SinkInv, NumberInv, WorkerInv, JobInv, Quiet, RecorderStates, TypeTasks, TypeEngine, TypeChannel, Off, SpawnRecorder, Received, engine
  <1>10. ExitInv'
    BY DEF ExitInv, Running, RecorderStates, TypeTasks, Off, SpawnRecorder, Received, engine
  <1>11. RecorderReachable'
    BY DEF RecorderReachable, StartInv, NumberInv, Starting, Running, RecorderStates, TypeTasks, Off, SpawnRecorder, Received, engine
  <1>12. SinkIsLive'
    BY DEF SinkIsLive, SinkInv, NumberInv, Running, RecorderStates, TypeTasks, Off, SpawnRecorder, Received, engine
  <1> QED BY <1>1, <1>2, <1>3, <1>4, <1>5, <1>6, <1>7, <1>8, <1>9, <1>10, <1>11, <1>12

(* Its handle goes into the map.                                            *)
LEMMA InsertHandleKeeps ==
  ASSUME TypeOK, RecordInv, NEW w \in Workers, InsertHandle(w)
  PROVE  TypeOK' /\ RecordInv'
  <1> USE CallerTypes, NoOpIsNoJob DEF TypeOK, RecordInv
  <1>1. TypeChannel' /\ JobInv'
    BY DEF InsertHandle, channel, TypeChannel, JobInv, Queued, Quiet
  <1>2. TypeEngine'
    BY DEF TypeEngine, InsertHandle, channel, engine
  <1>3. TypeTasks'
    BY RuntimeAssumption, RecorderAssumption DEF TypeTasks, Recordings, InsertHandle, channel, engine
  <1>4. rec' \in [Recordings -> RecorderStates]
    BY DEF RecorderStates, TypeTasks, Off, InsertHandle, channel, engine
  <1>5. WorkerInv'
    BY DEF WorkerInv, Quiet, TypeTasks, TypeChannel, InsertHandle, channel, engine
  <1>6. ThreadInv'
    BY DEF ThreadInv, NumberInv, Quiet, RecorderStates, TypeTasks, TypeChannel, Off, InsertHandle, channel, engine
  <1>7. NumberInv'
    <2>1. /\ task' = [task EXCEPT ![w] = "idle"] /\ arg' = [arg EXCEPT ![w] = 0]
          /\ task[w] = "insert" /\ recorders' = arg[w]
          /\ started' = started /\ rec' = rec /\ started \in Nat
      BY DEF InsertHandle, TypeTasks
    <2> QED BY <2>1 DEF NumberInv, TypeTasks
  <1>8. StartInv'
    BY DEF StartInv, Starting, TypeTasks, InsertHandle, channel, engine
  <1>9. SinkInv'
    BY DEF SinkInv, NumberInv, WorkerInv, JobInv, Quiet, RecorderStates, TypeTasks, TypeEngine, TypeChannel, Off, InsertHandle, channel, engine
  <1>10. ExitInv'
    BY DEF ExitInv, Running, RecorderStates, TypeTasks, Off, InsertHandle, channel, engine
  <1>11. RecorderReachable'
    BY DEF RecorderReachable, StartInv, NumberInv, Starting, Running, RecorderStates, TypeTasks, Off, InsertHandle, channel, engine
  <1>12. SinkIsLive'
    BY DEF SinkIsLive, SinkInv, NumberInv, Running, RecorderStates, TypeTasks, Off, InsertHandle, channel, engine
  <1> QED BY <1>1, <1>2, <1>3, <1>4, <1>5, <1>6, <1>7, <1>8, <1>9, <1>10, <1>11, <1>12

(* record_stop takes the handle out of the map.                             *)
LEMMA Record_stopKeeps ==
  ASSUME TypeOK, RecordInv, NEW w \in Workers, record_stop(w)
  PROVE  TypeOK' /\ RecordInv'
  <1> USE CallerTypes, NoOpIsNoJob DEF TypeOK, RecordInv
  <1>1. TypeChannel' /\ JobInv'
    BY DEF record_stop, channel, TypeChannel, JobInv, Queued, Quiet
  <1>2. TypeEngine'
    BY DEF TypeEngine, record_stop, Accept, Takes, channel, engine
  <1>3. TypeTasks'
    BY RuntimeAssumption, RecorderAssumption DEF TypeTasks, Recordings, record_stop, Accept, Takes, channel, engine
  <1>4. rec' \in [Recordings -> RecorderStates]
    BY DEF RecorderStates, TypeTasks, Off, record_stop, Accept, Takes, channel, engine
  <1>5. WorkerInv'
    BY DEF WorkerInv, Quiet, TypeTasks, TypeChannel, record_stop, Accept, Takes, channel, engine
  <1>6. ThreadInv'
    BY DEF ThreadInv, NumberInv, Quiet, RecorderStates, TypeTasks, TypeChannel, Off, record_stop, Accept, Takes, channel, engine
  <1>7. NumberInv'
    BY RuntimeAssumption DEF NumberInv, Recordings, RecorderStates, TypeTasks, Off, record_stop, Accept, Takes, channel, engine
  <1>8. StartInv'
    BY DEF StartInv, Starting, TypeTasks, record_stop, Accept, Takes, channel, engine
  <1>9. SinkInv'
    BY DEF SinkInv, NumberInv, WorkerInv, JobInv, Quiet, RecorderStates, TypeTasks, TypeEngine, TypeChannel, Off, record_stop, Accept, Takes, channel, engine
  <1>10. ExitInv'
    BY DEF ExitInv, Running, RecorderStates, TypeTasks, Off, record_stop, Accept, Takes, channel, engine
  <1>11. RecorderReachable'
    BY DEF RecorderReachable, StartInv, NumberInv, Starting, Running, RecorderStates, TypeTasks, Off, record_stop, Accept, Takes, channel, engine
  <1>12. SinkIsLive'
    BY DEF SinkIsLive, SinkInv, NumberInv, Running, RecorderStates, TypeTasks, Off, record_stop, Accept, Takes, channel, engine
  <1> QED BY <1>1, <1>2, <1>3, <1>4, <1>5, <1>6, <1>7, <1>8, <1>9, <1>10, <1>11, <1>12

(* The thread has ended.                                                    *)
LEMMA JoinedKeeps ==
  ASSUME TypeOK, RecordInv, NEW w \in Workers, Joined(w)
  PROVE  TypeOK' /\ RecordInv'
  <1> USE CallerTypes, NoOpIsNoJob DEF TypeOK, RecordInv
  <1>1. TypeChannel' /\ JobInv'
    BY DEF Joined, channel, TypeChannel, JobInv, Queued, Quiet
  <1>2. TypeEngine'
    BY DEF TypeEngine, Joined, channel, engine
  <1>3. TypeTasks'
    BY RuntimeAssumption, RecorderAssumption DEF TypeTasks, Recordings, Joined, channel, engine
  <1>4. rec' \in [Recordings -> RecorderStates]
    BY DEF RecorderStates, TypeTasks, Off, Joined, channel, engine
  <1>5. WorkerInv'
    BY DEF WorkerInv, Quiet, TypeTasks, TypeChannel, Joined, channel, engine
  <1>6. ThreadInv'
    BY DEF ThreadInv, NumberInv, Quiet, RecorderStates, TypeTasks, TypeChannel, Off, Joined, channel, engine
  <1>7. NumberInv'
    <2>1. /\ task' = [task EXCEPT ![w] = "idle"] /\ arg' = [arg EXCEPT ![w] = 0]
          /\ recorders' = recorders /\ started' = started /\ rec' = rec /\ started \in Nat
      BY DEF Joined, TypeTasks
    <2> QED BY <2>1 DEF NumberInv, TypeTasks
  <1>8. StartInv'
    BY DEF StartInv, Starting, TypeTasks, Joined, channel, engine
  <1>9. SinkInv'
    BY DEF SinkInv, NumberInv, WorkerInv, JobInv, Quiet, RecorderStates, TypeTasks, TypeEngine, TypeChannel, Off, Joined, channel, engine
  <1>10. ExitInv'
    BY DEF ExitInv, Running, RecorderStates, TypeTasks, Off, Joined, channel, engine
  <1>11. RecorderReachable'
    BY DEF RecorderReachable, StartInv, NumberInv, Starting, Running, RecorderStates, TypeTasks, Off, Joined, channel, engine
  <1>12. SinkIsLive'
    BY DEF SinkIsLive, SinkInv, NumberInv, Running, RecorderStates, TypeTasks, Off, Joined, channel, engine
  <1> QED BY <1>1, <1>2, <1>3, <1>4, <1>5, <1>6, <1>7, <1>8, <1>9, <1>10, <1>11, <1>12

-----------------------------------------------------------------------------
(* The recorder threads.                                                    *)

(* A recorder thread that moves on disturbs neither the numbers and handles *)
(* nor the exit.                                                            *)
LEMMA ThreadMoves ==
  ASSUME TypeOK, RecordInv, NEW r \in Recordings, NEW t \in RecorderStates, Becomes(r, t),
         Running(r), t.at # "off", host' = host, platform' = platform
  PROVE  /\ TypeTasks' /\ rec' \in [Recordings -> RecorderStates]
         /\ NumberInv' /\ StartInv' /\ ExitInv' /\ RecorderReachable'
  <1> USE CallerTypes DEF TypeOK, RecordInv
  <1>1. /\ rec' = [rec EXCEPT ![r] = t] /\ task' = task /\ arg' = arg /\ requests' = requests
        /\ server' = server /\ recorders' = recorders /\ started' = started /\ raced' = raced
    BY DEF Becomes
  <1>2. TypeTasks' /\ rec' \in [Recordings -> RecorderStates]
    BY <1>1 DEF TypeTasks
  <1>3. rec[r].at # "off"
    BY DEF Running
  <1>4. NumberInv'
    BY <1>1, <1>3 DEF NumberInv, TypeTasks
  <1>5. StartInv'
    BY <1>1 DEF StartInv, Starting
  <1>6. ExitInv'
    BY <1>1 DEF ExitInv, Running
  <1>7. RecorderReachable'
    BY <1>1 DEF RecorderReachable, Running
  <1> QED BY <1>2, <1>4, <1>5, <1>6, <1>7

(* It calls the engine: for a frame, or to end.                             *)
LEMMA ThreadAsks ==
  ASSUME TypeOK, RecordInv, NEW r \in Recordings, NEW op \in E!Ops, NEW a,
         dispatch(r, op), Becomes(r, [rec[r] EXCEPT !.at = a]),
         rec[r].at \in {"seed", "loop", "encode"},
         \/ op.kind = "capture" /\ a \in {"seeding", "grab"}
         \/ op.kind = "end" /\ a = "ending"
  PROVE  TypeOK' /\ RecordInv'
  <1> DEFINE t == [rec[r] EXCEPT !.at = a]
  <1> USE CallerTypes, NoOpIsNoJob DEF TypeOK, RecordInv
  <1>1. TypeChannel' /\ JobInv'
    BY DispatchType, DispatchJob
  <1>2. TypeEngine'
    BY DEF TypeEngine, dispatch, engine
  <1>3. t \in RecorderStates /\ t.at = a /\ t.inline = rec[r].inline
    BY DEF RecorderStates
  <1>4. Running(r)
    BY DEF Running
  <1>5. host' = host /\ platform' = platform
    BY DEF dispatch
  <1>6. /\ TypeTasks' /\ rec' \in [Recordings -> RecorderStates]
        /\ NumberInv' /\ StartInv' /\ ExitInv' /\ RecorderReachable'
    BY <1>3, <1>4, <1>5, ThreadMoves
  <1>7. /\ rec' = [rec EXCEPT ![r] = t] /\ task' = task /\ arg' = arg
        /\ call' = [call EXCEPT ![r] = op] /\ reply' = reply /\ sink' = sink
    BY DEF Becomes, dispatch, engine
  <1> HIDE DEF t
  <1>8. WorkerInv'
    BY <1>7 DEF WorkerInv, Quiet, TypeChannel
  <1>9. ThreadInv'
    BY <1>3, <1>7 DEF ThreadInv, Quiet, TypeChannel
  <1>10. reply[r] = "none"
    BY DEF JobInv, dispatch
  <1>11. SinkInv'
    BY <1>3, <1>7, <1>10 DEF SinkInv, RecorderStates
  <1>12. SinkIsLive'
    BY <1>3, <1>7 DEF SinkIsLive, Running
  <1> QED BY <1>1, <1>2, <1>6, <1>8, <1>9, <1>11, <1>12

(* It goes on without the engine: only a recording that is not inline may   *)
(* end that way.                                                            *)
LEMMA ThreadGoesOn ==
  ASSUME TypeOK, RecordInv, NEW r \in Recordings, NEW t \in RecorderStates,
         Still, Becomes(r, t), rec[r].at \in {"seed", "loop", "encode"},
         t.at \in {"loop", "encode", "done"}, t.inline = rec[r].inline,
         t.at = "done" => ~rec[r].inline
  PROVE  TypeOK' /\ RecordInv'
  <1> USE CallerTypes DEF TypeOK, RecordInv
  <1>1. TypeChannel' /\ JobInv' /\ TypeEngine'
    BY DEF Still, channel, engine, TypeChannel, TypeEngine, JobInv, Queued, Quiet
  <1>2. Running(r)
    BY DEF Running
  <1>3. host' = host /\ platform' = platform
    BY DEF Still
  <1>4. /\ TypeTasks' /\ rec' \in [Recordings -> RecorderStates]
        /\ NumberInv' /\ StartInv' /\ ExitInv' /\ RecorderReachable'
    BY <1>2, <1>3, ThreadMoves
  <1>5. /\ rec' = [rec EXCEPT ![r] = t] /\ task' = task /\ arg' = arg
        /\ call' = call /\ reply' = reply /\ sink' = sink
    BY DEF Becomes, Still, channel, engine
  <1>6. WorkerInv'
    BY <1>5 DEF WorkerInv, Quiet
  <1>7. ThreadInv'
    BY <1>5 DEF ThreadInv, Quiet
  <1>8. SinkInv'
    BY <1>5 DEF SinkInv
  <1>9. SinkIsLive'
    BY <1>5 DEF SinkIsLive, SinkInv, Running
  <1> QED BY <1>1, <1>4, <1>6, <1>7, <1>8, <1>9

(* It picks a reply up: after the one to its end the engine has no sink of  *)
(* this recording.                                                          *)
LEMMA ThreadAnswered ==
  ASSUME TypeOK, RecordInv, NEW r \in Recordings, NEW t \in RecorderStates, NEW res,
         Received(r, res), Becomes(r, t),
         \/ /\ rec[r].at \in {"seeding", "grab"}
            /\ t.at \in {"loop", "encode"} /\ t.inline = rec[r].inline
         \/ rec[r].at = "ending" /\ t.at = "done"
  PROVE  TypeOK' /\ RecordInv'
  <1> USE CallerTypes DEF TypeOK, RecordInv
  <1>1. TypeChannel' /\ JobInv'
    BY ReceivedType, ReceivedJob
  <1>2. TypeEngine'
    BY DEF TypeEngine, Received, engine
  <1>3. Running(r)
    BY DEF Running
  <1>4. host' = host /\ platform' = platform
    BY DEF Received
  <1>5. /\ TypeTasks' /\ rec' \in [Recordings -> RecorderStates]
        /\ NumberInv' /\ StartInv' /\ ExitInv' /\ RecorderReachable'
    BY <1>3, <1>4, ThreadMoves
  <1>6. /\ rec' = [rec EXCEPT ![r] = t] /\ task' = task /\ arg' = arg
        /\ call' = [call EXCEPT ![r] = E!NoOp] /\ reply' = [reply EXCEPT ![r] = "none"]
        /\ sink' = sink /\ reply[r] # "none"
    BY DEF Becomes, Received, engine
  <1>7. WorkerInv'
    BY <1>6 DEF WorkerInv, Quiet, TypeChannel
  <1>8. ThreadInv'
    BY <1>6 DEF ThreadInv, Quiet, TypeChannel
  <1>9. SinkInv'
    BY <1>6 DEF SinkInv, TypeChannel
  <1>10. SinkIsLive'
    BY <1>6 DEF SinkIsLive, SinkInv, Running
  <1> QED BY <1>1, <1>2, <1>5, <1>7, <1>8, <1>9, <1>10

(* The states a recorder thread goes on to are well typed.                  *)
LEMMA ThreadStates ==
  ASSUME TypeOK, NEW r \in Recordings
  PROVE  /\ Captured(r) \in RecorderStates /\ Captured(r).at = "loop"
         /\ Captured(r).inline = rec[r].inline
         /\ Missed(r) \in RecorderStates /\ Missed(r).at \in {"loop", "encode"}
         /\ Missed(r).inline = rec[r].inline
         /\ Done \in RecorderStates /\ Done.at = "done" /\ Done.inline = FALSE
         /\ \A a \in {"loop", "encode"} :
              /\ [rec[r] EXCEPT !.at = a] \in RecorderStates
              /\ [rec[r] EXCEPT !.at = a].at = a
              /\ [rec[r] EXCEPT !.at = a].inline = rec[r].inline
  <1> USE DEF TypeOK, RecorderStates
  <1>0. /\ rec[r] \in RecorderStates /\ rec[r].caps \in Nat /\ rec[r].misses \in Nat
        /\ rec[r].caps + 1 \in Nat /\ rec[r].misses + 1 \in Nat
    OBVIOUS
  <1>1. /\ Captured(r) \in RecorderStates /\ Captured(r).at = "loop"
        /\ Captured(r).inline = rec[r].inline
    <2> DEFINE n == rec[r].caps + 1
    <2>1. Captured(r) = [rec[r] EXCEPT !.caps = n, !.misses = 0, !.at = "loop"]
      BY DEF Captured
    <2>2. n \in Nat /\ 0 \in Nat
      BY <1>0
    <2> HIDE DEF n
    <2> QED BY <1>0, <2>1, <2>2
  <1>2. /\ Missed(r) \in RecorderStates /\ Missed(r).at \in {"loop", "encode"}
        /\ Missed(r).inline = rec[r].inline
    <2> DEFINE n == rec[r].misses + 1
               a == IF rec[r].misses >= give_up_after THEN "encode" ELSE "loop"
    <2>1. Missed(r) = [rec[r] EXCEPT !.misses = n, !.at = a]
      BY DEF Missed
    <2>2. n \in Nat /\ a \in {"loop", "encode"}
      BY <1>0
    <2> HIDE DEF n, a
    <2> QED BY <1>0, <2>1, <2>2
  <1>3. Done \in RecorderStates /\ Done.at = "done" /\ Done.inline = FALSE
    BY DEF Done, Off
  <1>4. \A a \in {"loop", "encode"} :
              /\ [rec[r] EXCEPT !.at = a] \in RecorderStates
              /\ [rec[r] EXCEPT !.at = a].at = a
              /\ [rec[r] EXCEPT !.at = a].inline = rec[r].inline
    OBVIOUS
  <1> QED BY <1>1, <1>2, <1>3, <1>4

(* It takes a frame the engine sent.                                        *)
LEMMA TakeFrameKeeps ==
  ASSUME TypeOK, RecordInv, NEW r \in Recordings, TakeFrame(r)
  PROVE  TypeOK' /\ RecordInv'
  <1> DEFINE t == Captured(r)
  <1> USE CallerTypes DEF TypeOK, RecordInv
  <1>1. TypeChannel' /\ JobInv'
    BY DEF TakeFrame, channel, TypeChannel, JobInv, Queued, Quiet
  <1>2. TypeEngine'
    BY DEF TakeFrame, TypeEngine
  <1>3. t \in RecorderStates /\ t.at = "loop" /\ t.inline = rec[r].inline
    BY ThreadStates
  <1>4. Running(r) /\ host' = host /\ platform' = platform
    BY DEF Running, TakeFrame
  <1>5. Becomes(r, t)
    BY DEF TakeFrame
  <1>6. /\ TypeTasks' /\ rec' \in [Recordings -> RecorderStates]
        /\ NumberInv' /\ StartInv' /\ ExitInv' /\ RecorderReachable'
    BY <1>3, <1>4, <1>5, ThreadMoves
  <1>7. /\ rec' = [rec EXCEPT ![r] = t] /\ task' = task /\ arg' = arg /\ rec[r].at = "loop"
        /\ call' = call /\ reply' = reply /\ sink' = sink
    BY DEF Becomes, TakeFrame, channel
  <1> HIDE DEF t
  <1>8. WorkerInv' /\ ThreadInv'
    BY <1>3, <1>7 DEF WorkerInv, ThreadInv, Quiet
  <1>9. SinkInv' /\ SinkIsLive'
    BY <1>3, <1>7 DEF SinkInv, SinkIsLive, Running
  <1> QED BY <1>1, <1>2, <1>6, <1>8, <1>9

(* Every step of a recorder thread.                                         *)
LEMMA RecorderStepKeeps ==
  ASSUME TypeOK, RecordInv, NEW r \in Recordings, RecorderStep(r), ~WakeHost(r)
  PROVE  TypeOK' /\ RecordInv'
  <1>1. CASE Seed(r)
    <2>1. CASE page
      BY <1>1, <2>1, OpTypes, ThreadAsks DEF Seed, live_frame
    <2>2. CASE ~page
      BY <1>1, <2>2, ThreadStates, ThreadGoesOn DEF Seed, live_frame
    <2> QED BY <2>1, <2>2
  <1>2. CASE Seeded(r)
    <2>1. PICK res : Received(r, res) /\ Becomes(r, IF res = "ok" THEN Captured(r)
                                                   ELSE [rec[r] EXCEPT !.at = "loop"])
      BY <1>2 DEF Seeded
    <2> QED BY <1>2, <2>1, ThreadStates, ThreadAnswered DEF Seeded
  <1>3. CASE LeaveLoop(r)
    BY <1>3, ThreadStates, ThreadGoesOn DEF LeaveLoop
  <1>4. CASE TakeFrame(r)
    BY <1>4, TakeFrameKeeps
  <1>5. CASE Disconnected(r)
    BY <1>5, ThreadStates, ThreadGoesOn DEF Disconnected
  <1>6. CASE Idle(r)
    <2>1. CASE page
      BY <1>6, <2>1, OpTypes, ThreadAsks DEF Idle, live_frame
    <2>2. CASE ~page
      BY <1>6, <2>2, ThreadStates, ThreadGoesOn DEF Idle, live_frame
    <2> QED BY <2>1, <2>2
  <1>7. CASE Grabbed(r)
    <2>1. PICK res : Received(r, res) /\ Becomes(r, IF res = "ok" THEN Captured(r)
                                                   ELSE Missed(r))
      BY <1>7 DEF Grabbed
    <2> QED BY <1>7, <2>1, ThreadStates, ThreadAnswered DEF Grabbed
  <1>8. CASE Encode(r)
    <2>1. CASE rec[r].inline
      BY <1>8, <2>1, OpTypes, ThreadAsks DEF Encode
    <2>2. CASE ~rec[r].inline
      BY <1>8, <2>2, ThreadStates, ThreadGoesOn DEF Encode, TypeOK, RecorderStates
    <2> QED BY <2>1, <2>2
  <1>9. CASE Ended(r)
    <2>1. PICK res : Received(r, res)
      BY <1>9 DEF Ended
    <2> QED BY <1>9, <2>1, ThreadStates, ThreadAnswered DEF Ended
  <1> QED BY <1>1, <1>2, <1>3, <1>4, <1>5, <1>6, <1>7, <1>8, <1>9 DEF RecorderStep

-----------------------------------------------------------------------------
(* The host loop and the shutdown.                                          *)

(* The engine performs the job at the head of the queue: a begin makes its  *)
(* recording the sink and is answered with ok, an end leaves no sink.       *)
LEMMA TickKeeps ==
  ASSUME TypeOK, RecordInv, tick, UNCHANGED threads
  PROVE  TypeOK' /\ RecordInv'
  <1> USE CallerTypes DEF TypeOK, RecordInv
  <1>1. TypeChannel' /\ JobInv'
    BY TickJob
  <1>2. PICK h \in Callers, res \in {"ok", "err"} :
          /\ Queued(h) /\ E!Performs(call[h], res) /\ reply' = [reply EXCEPT ![h] = res]
    <2>1. Head(queue) \in Callers /\ Queued(Head(queue))
      BY HeadType DEF tick, Queued
    <2> QED BY <2>1 DEF tick
  <1>3. /\ call' = call /\ host' = host /\ platform' = platform /\ wake' \in BOOLEAN
        /\ host = "drain"
    BY DEF tick, TypeEngine
  <1>4. call[h] \in E!Ops \cup {E!NoOp} /\ ~Quiet(h) /\ reply[h] = "none"
    BY <1>2 DEF TypeChannel, JobInv
  <1>5. page' \in BOOLEAN /\ sink' \in Recordings \cup {0} /\ frames' \in [Recordings -> Nat]
    BY <1>2, <1>4, PerformsType
  <1>6. TypeEngine'
    BY <1>3, <1>5 DEF TypeEngine
  <1>7. /\ task' = task /\ arg' = arg /\ requests' = requests /\ server' = server
        /\ recorders' = recorders /\ started' = started /\ rec' = rec /\ raced' = raced
    BY DEF threads
  <1>8. TypeTasks' /\ rec' \in [Recordings -> RecorderStates]
    BY <1>7 DEF TypeTasks
  <1>9. WorkerInv' /\ ThreadInv'
    BY <1>3, <1>7 DEF WorkerInv, ThreadInv, Quiet
  <1>10. NumberInv' /\ StartInv' /\ RecorderReachable'
    BY <1>7 DEF NumberInv, StartInv, RecorderReachable, Starting, Running
  <1>11. ExitInv'
    BY <1>3, <1>7 DEF ExitInv, Running
  <1>12. \/ sink' = sink
         \/ sink' = 0
         \/ /\ res = "ok" /\ call[h].kind = "begin" /\ sink' = call[h].rec
    BY <1>2 DEF E!Performs, E!Fails, E!Does, E!Input, E!capture_live, E!record_begin,
                E!record_end, E!close
  <1>13. call[h].kind = "end" => sink' = 0
    BY <1>2 DEF E!Performs, E!Fails, E!Does, E!record_end
  <1>14. \A d \in Callers : d # h => reply'[d] = reply[d]
    BY <1>2 DEF TypeChannel
  <1>15. call[h].kind = "begin" => /\ h \in Workers /\ task[h] = "begin"
                                   /\ call[h].rec = arg[h] /\ rec[arg[h]].at = "off"
    <2>1. h \in Recordings => call[h].kind \in {"capture", "end"}
      BY <1>4 DEF ThreadInv
    <2>2. h \in Workers => task[h] = "begin" \/ call[h].kind \in {"input", "close"}
      BY <1>4 DEF WorkerInv
    <2>3. h \in Workers /\ task[h] = "begin" => call[h] = [kind |-> "begin", rec |-> arg[h]]
      BY DEF WorkerInv
    <2>4. h \in Workers /\ task[h] = "begin" => rec[arg[h]].at = "off"
      BY DEF NumberInv
    <2> QED BY <2>1, <2>2, <2>3, <2>4 DEF Callers
  <1>16. reply'[h] = res
    BY <1>2 DEF TypeChannel
  <1>17. CASE sink' = 0
    <2>1. \A w \in Workers : task[w] = "begin" => arg[w] # 0
      BY DEF NumberInv
    <2> QED BY <1>1, <1>6, <1>7, <1>8, <1>9, <1>10, <1>11, <1>17, <2>1 DEF SinkInv, SinkIsLive
  <1>18. CASE sink' = sink /\ sink' # 0
    <2>1. \A w \in Workers : task[w] = "begin" /\ sink = arg[w] => w # h
      BY <1>4 DEF SinkInv
    <2>2. sink' = h => rec[h].at # "ending"
      <3>1. sink' \in Recordings
        BY <1>5, <1>18 DEF Recordings
      <3>2. \A r \in Recordings : rec[r].at = "ending" => call[r].kind = "end"
        BY DEF ThreadInv
      <3> QED BY <1>13, <1>18, <3>1, <3>2
    <2>3. SinkInv'
      BY <1>7, <1>14, <1>18, <2>1, <2>2 DEF SinkInv
    <2>4. SinkIsLive'
      BY <1>7, <1>18 DEF SinkIsLive, Running
    <2> QED BY <1>1, <1>6, <1>8, <1>9, <1>10, <1>11, <2>3, <2>4
  <1>19. CASE res = "ok" /\ call[h].kind = "begin" /\ sink' = call[h].rec
    <2>1. SinkInv'
      BY <1>7, <1>15, <1>16, <1>19 DEF SinkInv, NumberInv
    <2>2. SinkIsLive'
      BY <1>7, <1>15, <1>19 DEF SinkIsLive
    <2> QED BY <1>1, <1>6, <1>8, <1>9, <1>10, <1>11, <2>1, <2>2
  <1> QED BY <1>12, <1>17, <1>18, <1>19

(* The loop falls asleep, wakes up, or ends: it ends when the server is     *)
(* gone and no recorder thread has a Daemon any more.                       *)
LEMMA LoopKeeps ==
  ASSUME TypeOK, RecordInv, TickEmpty(Senders) \/ Pump \/ Woken \/ Backstop, UNCHANGED threads
  PROVE  TypeOK' /\ RecordInv'
  <1> USE DEF TypeOK, RecordInv
  <1>1. /\ call' = call /\ reply' = reply /\ woke' = woke /\ queue' = queue
        /\ page' = page /\ sink' = sink /\ frames' = frames /\ platform' = platform
    BY DEF TickEmpty, Pump, Woken, Backstop, channel, engine
  <1>2. /\ task' = task /\ arg' = arg /\ requests' = requests /\ server' = server
        /\ recorders' = recorders /\ started' = started /\ rec' = rec /\ raced' = raced
    BY DEF threads
  <1>3. TypeChannel' /\ JobInv'
    BY <1>1 DEF TypeChannel, JobInv, Queued, Quiet
  <1>4. host' \in {"drain", "gap", "asleep", "exited"} /\ wake' \in BOOLEAN
    BY DEF TickEmpty, Pump, Woken, Backstop, TypeEngine
  <1>5. TypeEngine' /\ TypeTasks' /\ rec' \in [Recordings -> RecorderStates]
    BY <1>1, <1>2, <1>4 DEF TypeEngine, TypeTasks
  <1>6. WorkerInv' /\ ThreadInv' /\ NumberInv' /\ StartInv' /\ RecorderReachable'
    BY <1>1, <1>2 DEF WorkerInv, ThreadInv, NumberInv, StartInv, RecorderReachable, Quiet,
                      Starting, Running
  <1>7. SinkInv' /\ SinkIsLive'
    BY <1>1, <1>2 DEF SinkInv, SinkIsLive, Running
  <1>8. host' = "exited" => server = "gone" /\ \A r \in Recordings : ~Running(r)
    BY DEF TickEmpty, Pump, Woken, Backstop, Senders, TypeTasks, ExitInv
  <1>9. host' = "gap" => platform = "webview2"
    BY DEF TickEmpty, Pump, Woken, Backstop
  <1>10. ExitInv'
    BY <1>1, <1>2, <1>8, <1>9 DEF ExitInv, Running
  <1> QED BY <1>3, <1>5, <1>6, <1>7, <1>10

(* A thread wakes the loop up.                                              *)
LEMMA WakeKeeps ==
  ASSUME TypeOK, RecordInv, NEW c \in Callers, WakeHost(c)
  PROVE  TypeOK' /\ RecordInv'
  <1> USE DEF TypeOK, RecordInv
  <1>1. TypeChannel' /\ JobInv'
    BY WakeJob DEF WakeHost
  <1>2. /\ call' = call /\ reply' = reply /\ host' = host /\ wake' = TRUE
        /\ page' = page /\ sink' = sink /\ frames' = frames /\ platform' = platform
    BY DEF WakeHost, Wake, engine
  <1>3. /\ task' = task /\ arg' = arg /\ requests' = requests /\ server' = server
        /\ recorders' = recorders /\ started' = started /\ rec' = rec /\ raced' = raced
    BY DEF WakeHost, threads
  <1>4. TypeEngine' /\ TypeTasks' /\ rec' \in [Recordings -> RecorderStates]
    BY <1>2, <1>3 DEF TypeEngine, TypeTasks
  <1>5. WorkerInv' /\ ThreadInv' /\ NumberInv' /\ StartInv' /\ RecorderReachable'
    BY <1>2, <1>3 DEF WorkerInv, ThreadInv, NumberInv, StartInv, RecorderReachable, Quiet,
                      Starting, Running
  <1>6. SinkInv' /\ SinkIsLive' /\ ExitInv'
    BY <1>2, <1>3 DEF SinkInv, SinkIsLive, ExitInv, Running
  <1> QED BY <1>1, <1>4, <1>5, <1>6

(* SIGTERM, and the server's end once no worker is busy.                    *)
LEMMA ShutdownKeeps ==
  ASSUME TypeOK, RecordInv, Terminate \/ DropDaemon
  PROVE  TypeOK' /\ RecordInv'
  <1> USE DEF TypeOK, RecordInv
  <1>1. /\ call' = call /\ reply' = reply /\ woke' = woke /\ queue' = queue /\ host' = host
        /\ page' = page /\ sink' = sink /\ frames' = frames /\ platform' = platform
        /\ wake' = wake
    BY DEF Terminate, DropDaemon, Still, channel, engine
  <1>2. /\ task' = task /\ arg' = arg /\ requests' = requests
        /\ recorders' = recorders /\ started' = started /\ rec' = rec /\ raced' = raced
    BY DEF Terminate, DropDaemon
  <1>3. TypeChannel' /\ JobInv'
    BY <1>1 DEF TypeChannel, JobInv, Queued, Quiet
  <1>4. server' \in {"stopping", "reaping", "gone"}
    BY DEF Terminate, DropDaemon
  <1>5. TypeEngine' /\ TypeTasks' /\ rec' \in [Recordings -> RecorderStates]
    BY <1>1, <1>2, <1>4 DEF TypeEngine, TypeTasks
  <1>6. WorkerInv' /\ ThreadInv' /\ NumberInv' /\ StartInv' /\ RecorderReachable'
    BY <1>1, <1>2 DEF WorkerInv, ThreadInv, NumberInv, StartInv, RecorderReachable, Quiet,
                      Starting, Running
  <1>7. SinkInv' /\ SinkIsLive'
    BY <1>1, <1>2 DEF SinkInv, SinkIsLive, Running
  <1>8. ExitInv'
    BY <1>1, <1>2 DEF ExitInv, Running, Terminate, DropDaemon
  <1> QED BY <1>3, <1>5, <1>6, <1>7, <1>8

(* Every step keeps the invariant.                                          *)
LEMMA RecordStep == TypeOK /\ RecordInv /\ [Next]_vars => TypeOK' /\ RecordInv'
  <1> SUFFICES ASSUME TypeOK, RecordInv, [Next]_vars PROVE TypeOK' /\ RecordInv'
    OBVIOUS
  <1>1. ASSUME NEW w \in Workers, Request(w) PROVE TypeOK' /\ RecordInv'
    <2>1. ASSUME NEW kind \in {"input", "close"}, EngineOp(w, kind) PROVE TypeOK' /\ RecordInv'
      BY <2>1, EngineCallKeeps DEF EngineOp, Accept
    <2>2. CASE Sweep(w)
      BY <2>2, EngineCallKeeps DEF Sweep
    <2> QED BY <1>1, <2>1, <2>2, Record_startKeeps, Record_stopKeeps DEF Request
  <1>2. ASSUME NEW w \in Workers, WorkerStep(w) PROVE TypeOK' /\ RecordInv'
    BY <1>2, CallerTypes, OpDoneKeeps, SpawnRecorderKeeps, InsertHandleKeeps, JoinedKeeps,
       WakeKeeps DEF WorkerStep
  <1>3. ASSUME NEW r \in Recordings, RecorderStep(r) PROVE TypeOK' /\ RecordInv'
    BY <1>3, CallerTypes, RecorderStepKeeps, WakeKeeps
  <1>4. CASE HostStep
    BY <1>4, TickKeeps, LoopKeeps DEF HostStep
  <1>5. CASE Terminate \/ DropDaemon
    BY <1>5, ShutdownKeeps
  <1>6. CASE UNCHANGED vars
    <2>1. TypeOK'
      BY <1>6 DEF vars, channel, engine, threads, TypeOK, TypeChannel, TypeEngine, TypeTasks
    <2>2. JobInv' /\ WorkerInv' /\ ThreadInv' /\ NumberInv' /\ StartInv'
      BY <1>6 DEF vars, channel, engine, threads, RecordInv, JobInv, WorkerInv, ThreadInv,
                  NumberInv, StartInv, Queued, Quiet, Starting
    <2>3. SinkInv' /\ ExitInv' /\ RecorderReachable' /\ SinkIsLive'
      BY <1>6 DEF vars, channel, engine, threads, RecordInv, SinkInv, ExitInv,
                  RecorderReachable, SinkIsLive, Running
    <2> QED BY <2>1, <2>2, <2>3 DEF RecordInv
  <1> QED BY <1>1, <1>2, <1>3, <1>4, <1>5, <1>6 DEF Next

(* It holds at the start.                                                   *)
LEMMA InitRecord == Init => RecordInv
  <1> SUFFICES ASSUME Init PROVE RecordInv
    OBVIOUS
  <1> USE CallerTypes DEF Init, InitRuntime
  <1>1. Len(queue) = 0
    OBVIOUS
  <1>2. JobInv
    BY <1>1 DEF JobInv, Queued
  <1>3. WorkerInv /\ ThreadInv
    BY DEF WorkerInv, ThreadInv, Quiet, Off
  <1>4. NumberInv /\ StartInv
    BY DEF NumberInv, StartInv, Starting, Off
  <1>5. SinkInv /\ ExitInv /\ RecorderReachable /\ SinkIsLive
    BY DEF SinkInv, ExitInv, RecorderReachable, SinkIsLive, Running, Off
  <1> QED BY <1>2, <1>3, <1>4, <1>5 DEF RecordInv

(* The invariant always holds.                                              *)
LEMMA RecordInvariant == Spec => [](TypeOK /\ RecordInv)
  <1>1. Init => TypeOK /\ RecordInv
    BY InitType, InitRecord
  <1> QED BY <1>1, RecordStep, PTL DEF Spec

-----------------------------------------------------------------------------
(* Recordings can be stopped (record_start, record_stop), leave no sink in  *)
(* the engine (record_end), and have ended, with every engine call          *)
(* answered, if the host loop exits, which it does only with VS_REAP=0.     *)
THEOREM RecordingsAreSound == Spec => []RecordingsSound
  <1>1. TypeOK /\ RecordInv => RecordingsSound
    <2> SUFFICES ASSUME TypeOK, RecordInv PROVE RecordingsSound
      OBVIOUS
    <2>1. host = "exited" => \A w \in Workers : Quiet(w)
      BY DEF RecordInv, ExitInv, WorkerInv
    <2>2. host = "exited" => \A r \in Recordings : Quiet(r)
      BY DEF RecordInv, ExitInv, ThreadInv, Running
    <2>3. ExitIsClean
      BY <2>1, <2>2 DEF RecordInv, ExitInv, ExitIsClean, AllDone, Callers
    <2> QED BY <2>3 DEF RecordInv, RecordingsSound
  <1> QED BY <1>1, RecordInvariant, PTL

(* Off Windows no job in the channel waits for the 250 ms backstop: the     *)
(* job is queued before its sender wakes the host (dispatch), and only an   *)
(* empty queue lets the host sleep.                                         *)
THEOREM NoWakeupIsLost == Spec => []WakeupNotLost
  <1>1. Init => WakeupNotLost
    BY DEF Init, InitRuntime, WakeupNotLost
  <1>2. TypeOK /\ RecordInv /\ WakeupNotLost /\ [Next]_vars => WakeupNotLost'
    <2> SUFFICES ASSUME TypeOK, RecordInv, WakeupNotLost, [Next]_vars,
                        platform' # "webview2", host' = "asleep"
                 PROVE  \A i \in 1..Len(queue') : wake' \/ ~woke'[queue'[i]]
      BY DEF WakeupNotLost
    <2> USE CallerTypes DEF TypeOK, RecordInv
    <2>1. ASSUME NEW c \in Callers, NEW op, dispatch(c, op)
          PROVE  \A i \in 1..Len(queue') : wake' \/ ~woke'[queue'[i]]
      <3>1. /\ host = "asleep" /\ platform # "webview2" /\ wake' = wake /\ woke' = woke
            /\ queue' = Append(queue, c) /\ ~woke[c]
        BY <2>1 DEF dispatch, JobInv
      <3>2. /\ Len(queue) \in Nat /\ Len(queue') = Len(queue) + 1
            /\ \A i \in 1..Len(queue) : queue'[i] = queue[i]
            /\ queue'[Len(queue) + 1] = c
        BY <3>1 DEF TypeChannel
      <3> QED BY <3>1, <3>2 DEF WakeupNotLost
    <2>2. ASSUME NEW c \in Callers, NEW res, Received(c, res)
          PROVE  \A i \in 1..Len(queue') : wake' \/ ~woke'[queue'[i]]
      <3>1. /\ host = "asleep" /\ platform # "webview2" /\ wake' = wake
            /\ woke' = [woke EXCEPT ![c] = FALSE] /\ queue' = queue
        BY <2>2 DEF Received
      <3>2. \A i \in 1..Len(queue) : queue[i] \in Callers
        BY DEF TypeChannel
      <3>3. \A d \in Callers : ~woke[d] => ~woke'[d]
        BY <3>1 DEF TypeChannel
      <3> QED BY <3>1, <3>2, <3>3 DEF WakeupNotLost
    <2>3. ASSUME NEW c \in Callers, Wake(c)
          PROVE  wake'
      BY <2>3 DEF Wake
    <2>4. CASE tick \/ Woken \/ Backstop
      BY <2>4 DEF tick, Woken, Backstop
    <2>5. CASE TickEmpty(Senders)
      BY <2>5 DEF TickEmpty, channel
    <2>6. CASE Pump
      BY <2>6 DEF Pump, ExitInv
    <2>7. CASE UNCHANGED <<platform, host, wake, channel>>
      BY <2>7 DEF WakeupNotLost, channel
    <2>8. ASSUME NEW w \in Workers, Request(w)
          PROVE  \A i \in 1..Len(queue') : wake' \/ ~woke'[queue'[i]]
      <3>1. CASE \E op : dispatch(w, op)
        BY <2>1, <3>1
      <3>2. CASE record_stop(w)
        BY <2>7, <3>2 DEF record_stop
      <3> QED BY <2>8, <3>1, <3>2 DEF Request, EngineOp, EngineCall, Sweep, record_start
    <2>9. ASSUME NEW w \in Workers, WorkerStep(w)
          PROVE  \A i \in 1..Len(queue') : wake' \/ ~woke'[queue'[i]]
      <3>1. CASE \E res : Received(w, res)
        BY <2>2, <3>1
      <3>2. CASE InsertHandle(w) \/ Joined(w)
        BY <2>7, <3>2 DEF InsertHandle, Joined
      <3>3. CASE WakeHost(w)
        BY <2>3, <3>3 DEF WakeHost
      <3> QED BY <2>9, <3>1, <3>2, <3>3 DEF WorkerStep, OpDone, SpawnRecorder
    <2>10. ASSUME NEW r \in Recordings, RecorderStep(r)
           PROVE  \A i \in 1..Len(queue') : wake' \/ ~woke'[queue'[i]]
      <3>1. CASE \E op : dispatch(r, op)
        BY <2>1, <3>1
      <3>2. CASE \E res : Received(r, res)
        BY <2>2, <3>2
      <3>3. CASE Still \/ TakeFrame(r)
        BY <2>7, <3>3 DEF Still, TakeFrame
      <3>4. CASE WakeHost(r)
        BY <2>3, <3>4 DEF WakeHost
      <3> QED BY <2>10, <3>1, <3>2, <3>3, <3>4 DEF RecorderStep, Seed, Seeded, LeaveLoop,
                 Disconnected, Idle, Grabbed, Encode, Ended, live_frame
    <2>11. CASE Terminate \/ DropDaemon
      BY <2>7, <2>11 DEF Terminate, DropDaemon, Still
    <2>12. CASE UNCHANGED vars
      BY <2>7, <2>12 DEF vars
    <2> QED BY <2>4, <2>5, <2>6, <2>8, <2>9, <2>10, <2>11, <2>12 DEF Next, HostStep
  <1> QED BY <1>1, <1>2, RecordInvariant, PTL DEF Spec

-----------------------------------------------------------------------------
(* The job channel, the waker and the host loop implement the atomic engine *)
(* of EngineCalls: dispatch asks, tick performs, picking up the reply       *)
(* returns, and every other step of the daemon leaves the engine alone.     *)
THEOREM ChannelImplementsEngine == Spec => EngineIsAtomic
  <1>1. Init => E!Init
    BY DEF Init, InitRuntime, E!Init, inline
  <1>2. TypeOK /\ RecordInv /\ [Next]_vars => [E!Next]_(E!vars)
    <2> SUFFICES ASSUME TypeOK, RecordInv, [Next]_vars PROVE E!Next \/ UNCHANGED E!vars
      OBVIOUS
    <2> USE CallerTypes DEF TypeOK, RecordInv
    <2>1. ASSUME NEW c \in Callers, NEW op \in E!Ops, dispatch(c, op)
          PROVE  E!Next
      BY <2>1 DEF dispatch, Quiet, engine, inline, E!Next, E!Ask
    <2>2. ASSUME NEW c \in Callers, NEW res, Received(c, res)
          PROVE  E!Next
      BY <2>2 DEF Received, engine, inline, E!Next, E!Return
    <2>3. CASE tick
      <3>1. PICK res \in {"ok", "err"} : /\ E!Performs(call[Head(queue)], res)
                                         /\ reply' = [reply EXCEPT ![Head(queue)] = res]
        BY <2>3 DEF tick
      <3>2. Head(queue) \in Callers /\ Queued(Head(queue))
        BY <2>3, HeadType DEF tick, Queued
      <3>3. call[Head(queue)] # E!NoOp /\ reply[Head(queue)] = "none"
        BY <3>2 DEF JobInv, Quiet
      <3>4. call' = call /\ platform' = platform
        BY <2>3 DEF tick
      <3>5. E!Perform(Head(queue))
        BY <3>1, <3>3, <3>4 DEF E!Perform, inline
      <3> QED BY <3>2, <3>5 DEF E!Next
    <2>4. CASE UNCHANGED <<platform, channel, engine>>
      BY <2>4 DEF channel, engine, inline, E!vars
    <2>5. CASE TickEmpty(Senders) \/ Pump \/ Woken \/ Backstop
      BY <2>4, <2>5 DEF TickEmpty, Pump, Woken, Backstop
    <2>6. ASSUME NEW c \in Callers, Wake(c)
          PROVE  UNCHANGED E!vars
      BY <2>6 DEF Wake, engine, inline, E!vars
    <2>7. ASSUME NEW w \in Workers, Request(w)
          PROVE  E!Next \/ UNCHANGED E!vars
      <3>1. ASSUME NEW kind \in {"input", "close"}, EngineCall(w, kind) PROVE E!Next
        BY <2>1, <3>1, OpTypes DEF EngineCall
      <3>2. CASE record_start(w)
        <4>1. started + 1 \in Recordings
          BY <3>2, RuntimeAssumption DEF record_start, TypeTasks, Recordings
        <4> QED BY <2>1, <3>2, <4>1, OpTypes DEF record_start
      <3>3. CASE record_stop(w)
        BY <2>4, <3>3 DEF record_stop
      <3> QED BY <2>7, <3>1, <3>2, <3>3 DEF Request, EngineOp, Sweep
    <2>8. ASSUME NEW w \in Workers, WorkerStep(w)
          PROVE  E!Next \/ UNCHANGED E!vars
      <3>1. CASE \E res : Received(w, res)
        BY <2>2, <3>1
      <3>2. CASE InsertHandle(w) \/ Joined(w)
        BY <2>4, <3>2 DEF InsertHandle, Joined
      <3>3. CASE WakeHost(w)
        BY <2>6, <3>3 DEF WakeHost
      <3> QED BY <2>8, <3>1, <3>2, <3>3 DEF WorkerStep, OpDone, SpawnRecorder
    <2>9. ASSUME NEW r \in Recordings, RecorderStep(r)
          PROVE  E!Next \/ UNCHANGED E!vars
      <3>1. CASE \E k \in {"capture", "end"} : dispatch(r, [kind |-> k, rec |-> 0])
        BY <2>1, <3>1, OpTypes
      <3>2. CASE \E res : Received(r, res)
        BY <2>2, <3>2
      <3>3. CASE Still
        BY <2>4, <3>3 DEF Still
      <3>4. CASE TakeFrame(r)
        BY <3>4 DEF TakeFrame, channel, inline, E!Next, E!Take
      <3>5. CASE WakeHost(r)
        BY <2>6, <3>5 DEF WakeHost
      <3> QED BY <2>9, <3>1, <3>2, <3>3, <3>4, <3>5 DEF RecorderStep, Seed, Seeded, LeaveLoop,
                 Disconnected, Idle, Grabbed, Encode, Ended, live_frame
    <2>10. CASE Terminate \/ DropDaemon
      BY <2>4, <2>10 DEF Terminate, DropDaemon, Still
    <2>11. CASE UNCHANGED vars
      BY <2>4, <2>11 DEF vars
    <2> QED BY <2>3, <2>5, <2>7, <2>8, <2>9, <2>10, <2>11 DEF Next, HostStep
  <1> QED BY <1>1, <1>2, RecordInvariant, PTL DEF Spec, EngineIsAtomic, E!Spec

=============================================================================
