-------------------------- MODULE ModelRunnerProofs --------------------------
(***************************************************************************)
(* Proofs about tt-explorer's ModelRunner, for any number of runs, models  *)
(* and polling requests: with one request thread that starts runs, a status *)
(* is honest, and the artifacts of a model are its run's until a later run *)
(* of a model with the same file name takes them away.                     *)
(***************************************************************************)
EXTENDS ModelRunner, TLAPS

\* One request thread starts runs, and handles one request at a time.
SingleExecutor == \A c, d \in Executors : c = d

-----------------------------------------------------------------------------
(* The invariant                                                           *)

\* The program counters of a request to execute, in the order they are
\* passed: after the check for busy, before its ModelState, before its thread, and all of them.
Checked == {"reset", "resetAlive", "clear"}
BeforeState == Checked \cup {"run", "runAlive", "resetError", "resetProgress", "clearLogs",
                             "delState", "newState"}
BeforeThread == BeforeState \cup {"newThread"}
Executing == BeforeThread \cup {"start"}
\* After reset_state has cleared the field and before the next thread is made.
Cleared == {"resetError", "resetProgress", "clearLogs", "delState", "newState", "newThread"}
Polling == {"alive", "logs", "get", "progress", "error", "replied"}

Unstarted == {"new", "created"}
Working == {"compile", "translate", "perf"}
\* The optimized model is made or the error is set.
Ended == {"optimized", "logError", "finally", "exit", "dead"}

Errors == Runs \cup {NoError, EmptyError}
Reply == [run : 0 .. MaxRuns, done : BOOLEAN, progress : Nat, error : Errors]
SomeModel == Models \cup {AnyModel}

TypeInv ==
    /\ runner_thread \in 0 .. MaxRuns
    /\ runner_error \in Errors
    /\ progress \in Nat
    /\ model_state \in [Models -> 0 .. MaxRuns]
    /\ thread \in [Runs -> [pc : Unstarted \cup {"begin"} \cup Raised \cup Working \cup Ended,
                            model : SomeModel, state : 0 .. MaxRuns]]
    /\ optimized \subseteq Runs
    /\ artifacts \in [{OutputDir[m] : m \in Models} -> 0 .. MaxRuns]
    /\ client \in [Clients -> [pc : Executing \cup Polling \cup {"idle"}, model : SomeModel,
                               run : 0 .. MaxRuns, reply : Reply]]
    /\ nextRun \in 1 .. MaxRuns + 1

\* A run belongs to one request, and nothing has happened to it before the
\* request makes its thread.
Fresh ==
    /\ \A c \in Clients : client[c].pc \in Executing =>
          /\ c \in Executors
          /\ client[c].run \in Runs /\ client[c].run < nextRun
          /\ client[c].model \in Models
    /\ \A r \in Runs : r >= nextRun => thread[r].pc = "new"
    /\ \A m \in Models : model_state[m] < nextRun
    /\ \A c \in Clients : client[c].pc \in BeforeThread => thread[client[c].run].pc = "new"
    /\ \A c \in Clients : client[c].pc \in BeforeState =>
          \A m \in Models : model_state[m] < client[c].run

\* The request that passed the check for busy is the only one that changes
\* the runner's fields.
Exclusive ==
    \A c \in Clients :
        /\ client[c].pc \in Checked => ~is_busy
        /\ client[c].pc \in Cleared => runner_thread = 0
        /\ client[c].pc = "newThread" =>
              /\ model_state[client[c].model] = client[c].run
              /\ \A m \in Models : model_state[m] <= client[c].run
        /\ client[c].pc = "start" => /\ runner_thread = client[c].run
                                     /\ thread[runner_thread].pc = "created"

\* The only thread alive is the one in the field, and it has its ModelState,
\* which is the latest.
OnlyRunner ==
    /\ \A r \in Runs : is_alive(r) => r = runner_thread
    /\ runner_thread # 0 => /\ thread[runner_thread].pc # "new"
                            /\ thread[runner_thread].model \in Models
                            /\ model_state[thread[runner_thread].model] = runner_thread
                            /\ \A m \in Models : model_state[m] <= runner_thread
    /\ \A m, n \in Models : model_state[m] = model_state[n] /\ model_state[m] # 0 => m = n

\* What a run has done when it is over.
Outcome ==
    /\ \A r \in Runs : thread[r].pc \in Working => thread[r].state = r
    /\ \A r \in Runs : r \in optimized => thread[r].pc \in Ended
    /\ runner_thread # 0 /\ thread[runner_thread].pc \in Ended =>
          runner_thread \in optimized \/ runner_error # NoError
    /\ runner_thread # 0 /\ thread[runner_thread].pc \in {"exit", "dead"} => progress = 100

\* A status that says that a run is done is about a dead thread, and what it
\* has read so far is the outcome of that run, unless the runner was reset.
Replies ==
    \A c \in Clients :
        client[c].pc \in Polling /\ client[c].reply.done /\ client[c].reply.run # 0 =>
            /\ thread[client[c].reply.run].pc = "dead"
            /\ client[c].pc \in {"error", "replied"} /\ runner_thread = client[c].reply.run =>
                  client[c].reply.progress = 100
            /\ client[c].pc = "replied" /\ runner_thread = client[c].reply.run =>
                  (client[c].reply.error = NoError => client[c].reply.run \in optimized)

RunnerInv == TypeInv /\ Fresh /\ Exclusive /\ OnlyRunner /\ Outcome /\ Replies

\* A directory has the artifacts of the run that is writing them, and only
\* runs that have begun have touched one.
ArtifactsInv ==
    /\ ArtifactsMatch
    /\ \A r \in Runs : thread[r].pc \in Working => artifacts[OutputDir[thread[r].model]] = r
    /\ \A m \in Models : artifacts[OutputDir[m]] # 0 =>
          thread[artifacts[OutputDir[m]]].pc \notin Unstarted

-----------------------------------------------------------------------------
(* The steps of the requests and of the runner thread                      *)

ClientPcs == Executing \cup Polling \cup {"idle"}
ThreadPcs == Unstarted \cup {"begin"} \cup Raised \cup Working \cup Ended

\* Client c goes to p, and nothing else of the clients changes.
Moves(c, p) ==
    /\ client' \in [Clients -> [pc : ClientPcs, model : SomeModel, run : 0 .. MaxRuns,
                                reply : Reply]]
    /\ \A d \in Clients : /\ client'[d].pc = IF d = c THEN p ELSE client[d].pc
                          /\ client'[d].model = client[d].model
                          /\ client'[d].run = client[d].run
                          /\ client'[d].reply = client[d].reply

\* The next step of a handler.
LEMMA GotoMoves ==
  ASSUME TypeInv, NEW c \in Clients, NEW p \in ClientPcs, Goto(c, p)
  PROVE  Moves(c, p)
<1>. DEFINE C == [pc : ClientPcs, model : SomeModel, run : 0 .. MaxRuns, reply : Reply]
<1>1. client \in [Clients -> C] /\ client' = [client EXCEPT ![c].pc = p]
  BY DEF TypeInv, Goto, ClientPcs
<1>2. client[c] \in C
  BY <1>1
<1>3. client' = [client EXCEPT ![c] = [client[c] EXCEPT !.pc = p]]
  BY <1>1
<1>4. [client[c] EXCEPT !.pc = p] \in C
  BY <1>2
<1>. QED
  BY <1>1, <1>2, <1>3, <1>4 DEF Moves

\* Thread r goes to p, and nothing else of the threads changes.
Advances(r, p) ==
    /\ thread' \in [Runs -> [pc : ThreadPcs, model : SomeModel, state : 0 .. MaxRuns]]
    /\ \A q \in Runs : /\ thread'[q].pc = IF q = r THEN p ELSE thread[q].pc
                       /\ thread'[q].model = thread[q].model
                       /\ thread'[q].state = thread[q].state

\* The next step of a run's thread.
LEMMA ThreadAdvances ==
  ASSUME TypeInv, NEW r \in Runs, NEW p \in ThreadPcs,
         thread' = [thread EXCEPT ![r].pc = p]
  PROVE  Advances(r, p)
<1>. DEFINE T == [pc : ThreadPcs, model : SomeModel, state : 0 .. MaxRuns]
<1>1. thread \in [Runs -> T]
  BY DEF TypeInv, ThreadPcs
<1>2. thread[r] \in T
  BY <1>1
<1>3. [thread[r] EXCEPT !.pc = p] \in T
  BY <1>2
<1>. QED
  BY <1>1, <1>2, <1>3 DEF Advances

\* A request that has not made its ModelState goes on or ends.
LEMMA RequestKeeps ==
  ASSUME RunnerInv, SingleExecutor, NEW c \in Clients, client[c].pc \in BeforeState,
         NEW p \in BeforeState \cup {"idle"}, Goto(c, p),
         UNCHANGED <<model_state, optimized, thread, nextRun, artifacts>>,
         runner_thread' = runner_thread \/ (runner_thread' = 0 /\ ~is_busy),
         runner_thread' = 0 \/ UNCHANGED <<runner_error, progress>>,
         runner_error' \in Errors, progress' \in Nat,
         p \in Checked => ~is_busy,
         p \in Cleared => runner_thread' = 0
  PROVE  RunnerInv'
<1>1. Moves(c, p)
  BY GotoMoves DEF RunnerInv, ClientPcs, Executing, BeforeThread
<1>2. \A d \in Clients : client[d].pc \in Executing => d = c
  BY DEF RunnerInv, Fresh, SingleExecutor, Executing, BeforeThread
<1>3. runner_thread' # runner_thread => \A r \in Runs : ~is_alive(r)
  BY DEF RunnerInv, OnlyRunner, is_busy, Runs
<1>4. p # "newThread" /\ p # "start" /\ p \notin Polling
  BY DEF BeforeState, Checked, Polling
<1>. USE <1>1, <1>2, <1>3, <1>4 DEF RunnerInv, Moves
<1>5. TypeInv'
  BY RunsAssumption DEF TypeInv, ClientPcs
<1>6. Fresh'
  <2>1. \A d \in Clients : client'[d].pc \in Executing =>
          client[d].pc \in BeforeState /\ client'[d].pc \in BeforeState
    BY DEF Executing, BeforeThread, BeforeState, Checked
  <2>. QED
    BY <2>1 DEF Fresh, Executing, BeforeThread
<1>7. Exclusive'
  <2>1. \A d \in Clients : client'[d].pc \in Checked \cup Cleared \cup {"start"} => d = c
    BY DEF Executing, BeforeThread, BeforeState, Checked, Cleared
  <2>. QED
    BY <2>1 DEF Exclusive, is_busy, is_alive, Checked, Cleared
<1>8. OnlyRunner'
  BY DEF OnlyRunner, is_alive
<1>9. Outcome'
  BY DEF Outcome
<1>10. Replies'
  <2>1. c \in Clients /\ client'[c].pc \notin Polling
    OBVIOUS
  <2>. SUFFICES ASSUME NEW d \in Clients, d # c, client[d].pc \in Polling,
                       client[d].reply.done, client[d].reply.run # 0
                PROVE  /\ thread[client[d].reply.run].pc = "dead"
                       /\ client[d].pc \in {"error", "replied"}
                            /\ runner_thread' = client[d].reply.run =>
                              client[d].reply.progress = 100
                       /\ client[d].pc = "replied" /\ runner_thread' = client[d].reply.run =>
                            (client[d].reply.error = NoError =>
                               client[d].reply.run \in optimized)
    BY <2>1 DEF Replies
  <2>. QED
    BY DEF Replies
<1>. QED
  BY <1>5, <1>6, <1>7, <1>8, <1>9, <1>10

\* The first read of is_busy, and the check that a run is alive.
LEMMA checkKeeps ==
  ASSUME RunnerInv, SingleExecutor, NEW c \in Clients, checkThread(c) \/ checkAlive(c)
  PROVE  RunnerInv'
<1>. DEFINE p == IF checkThread(c) THEN IF runner_thread = 0 THEN "reset" ELSE "runAlive"
                 ELSE IF runner_thread = 0 \/ is_busy THEN "idle" ELSE "reset"
<1>1. /\ client[c].pc \in {"run", "runAlive"} /\ Goto(c, p)
      /\ UNCHANGED <<runner_thread, runner_error, progress, model_state, optimized, thread,
                     nextRun, artifacts>>
  BY DEF checkThread, checkAlive, At, fields, results
<1>2. /\ p \in BeforeState \cup {"idle"} /\ p \notin Cleared
      /\ p \in Checked => ~is_busy
  BY DEF BeforeState, Checked, Cleared, is_busy
<1>. HIDE DEF p
<1>3. runner_error' \in Errors /\ progress' \in Nat
  BY <1>1 DEF RunnerInv, TypeInv
<1>. QED
  BY <1>1, <1>2, <1>3, RequestKeeps DEF BeforeState

\* The assertion of reset_state does not fail.
LEMMA resetKeeps ==
  ASSUME RunnerInv, SingleExecutor, NEW c \in Clients, reset_state(c) \/ assertAlive(c)
  PROVE  RunnerInv'
<1>. DEFINE p == IF reset_state(c) THEN IF runner_thread = 0 THEN "clear" ELSE "resetAlive"
                 ELSE IF runner_thread = 0 \/ is_busy THEN "idle" ELSE "clear"
<1>1. /\ client[c].pc \in {"reset", "resetAlive"} /\ Goto(c, p)
      /\ UNCHANGED <<runner_thread, runner_error, progress, model_state, optimized, thread,
                     nextRun, artifacts>>
  BY DEF reset_state, assertAlive, At, fields, results
<1>2. /\ p \in BeforeState \cup {"idle"} /\ p \notin Cleared
      /\ client[c].pc \in BeforeState
  BY <1>1 DEF BeforeState, Checked, Cleared
<1>3. ~is_busy
  BY <1>1 DEF RunnerInv, Exclusive, Checked
<1>. HIDE DEF p
<1>4. runner_error' \in Errors /\ progress' \in Nat
  BY <1>1 DEF RunnerInv, TypeInv
<1>. QED
  BY <1>1, <1>2, <1>3, <1>4, RequestKeeps

\* The field is cleared while no run is alive.
LEMMA clearThreadKeeps ==
  ASSUME RunnerInv, SingleExecutor, NEW c \in Clients, clearThread(c)
  PROVE  RunnerInv'
<1>1. /\ client[c].pc = "clear" /\ Goto(c, "resetError") /\ runner_thread' = 0
      /\ UNCHANGED <<runner_error, progress, model_state, optimized, thread, nextRun,
                     artifacts>>
  BY DEF clearThread, At, results
<1>2. ~is_busy
  BY <1>1 DEF RunnerInv, Exclusive, Checked
<1>3. runner_error' \in Errors /\ progress' \in Nat
  BY <1>1 DEF RunnerInv, TypeInv
<1>4. "clear" \in BeforeState /\ "resetError" \in BeforeState /\ "resetError" \notin Checked
  BY DEF BeforeState, Checked
<1>. QED
  BY <1>1, <1>2, <1>3, <1>4, RequestKeeps

\* The other fields are reset while the runner has no thread.
LEMMA resetFieldsKeep ==
  ASSUME RunnerInv, SingleExecutor, NEW c \in Clients,
         resetError(c) \/ resetProgress(c) \/ clearLogs(c)
  PROVE  RunnerInv'
<1>. DEFINE p == IF resetError(c) THEN "resetProgress"
                 ELSE IF resetProgress(c) THEN "clearLogs" ELSE "delState"
<1>1. /\ client[c].pc \in {"resetError", "resetProgress", "clearLogs"} /\ Goto(c, p)
      /\ UNCHANGED <<runner_thread, model_state, optimized, thread, nextRun, artifacts>>
      /\ runner_error' \in {runner_error, NoError} /\ progress' \in {progress, 0}
  BY DEF resetError, resetProgress, clearLogs, At, results
<1>2. runner_thread = 0
  BY <1>1 DEF RunnerInv, Exclusive, Cleared
<1>3. runner_error' \in Errors /\ progress' \in Nat
  BY <1>1 DEF RunnerInv, TypeInv, Errors
<1>4. p \in BeforeState /\ p \notin Checked /\ client[c].pc \in BeforeState
  BY <1>1 DEF BeforeState, Checked
<1>. HIDE DEF p
<1>. QED
  BY <1>1, <1>2, <1>3, <1>4, RequestKeeps

\* The old ModelState is deleted, and a new one made for the run.
LEMMA delStateKeeps ==
  ASSUME RunnerInv, SingleExecutor, NEW c \in Clients, delState(c)
  PROVE  RunnerInv'
<1>1. /\ client[c].pc = "delState"
      /\ model_state' = [model_state EXCEPT ![client[c].model] = 0]
      /\ UNCHANGED <<runner_thread, runner_error, progress, optimized, thread, nextRun, artifacts>> /\ Goto(c, "newState")
  BY DEF delState, At, Goto, fields, results
<1>2. Moves(c, "newState")
  BY <1>1, GotoMoves DEF RunnerInv, ClientPcs, Executing, BeforeThread, BeforeState, Checked, Polling
<1>9. /\ client[c].run \in Runs /\ client[c].run # 0 /\ client[c].model \in Models
      /\ model_state' \in [Models -> 0 .. MaxRuns]
      /\ \A m \in Models : model_state'[m] = IF m = client[c].model THEN 0 ELSE model_state[m]
  <2>1. client[c].run \in Runs /\ client[c].run # 0 /\ client[c].model \in Models
    BY <1>1 DEF RunnerInv, Fresh, Executing, BeforeThread, BeforeState, Checked, Runs
  <2>. QED
    BY <1>1, <2>1, RunsAssumption DEF RunnerInv, TypeInv, Runs
<1>10. \A d \in Clients : client[d].pc \in Executing => d = c /\ client[d].run # 0
  BY <1>1 DEF RunnerInv, Fresh, SingleExecutor, Executing, BeforeThread, BeforeState, Checked, Runs
<1>. USE <1>1, <1>2, <1>9, <1>10 DEF RunnerInv, Moves, is_busy, is_alive, Executing, BeforeThread,
             BeforeState, Checked, Cleared, Polling
<1>3. TypeInv'
  BY DEF TypeInv, ClientPcs
<1>4. Fresh'
  <2>1. \A d \in Clients : client'[d].pc \in Executing =>
          /\ d \in Executors
          /\ client'[d].run \in Runs /\ client'[d].run < nextRun'
          /\ client'[d].model \in Models
    BY DEF Fresh
  <2>2. /\ \A r \in Runs : r >= nextRun' => thread'[r].pc = "new"
        /\ \A m \in Models : model_state'[m] < nextRun'
    BY DEF Fresh, TypeInv
  <2>3. /\ \A d \in Clients : client'[d].pc \in BeforeThread => thread'[client'[d].run].pc = "new"
        /\ \A d \in Clients : client'[d].pc \in BeforeState =>
              \A m \in Models : model_state'[m] < client'[d].run
    BY DEF Fresh
  <2>. QED
    BY <2>1, <2>2, <2>3 DEF Fresh
<1>5. Exclusive'
  BY DEF Exclusive, Fresh, TypeInv, SingleExecutor
<1>6. OnlyRunner'
  BY DEF OnlyRunner, Fresh, Exclusive, TypeInv
<1>7. Outcome'
  BY DEF Outcome, Exclusive, TypeInv
<1>8. Replies'
  BY DEF Replies
<1>. QED
  BY <1>3, <1>4, <1>5, <1>6, <1>7, <1>8


\* execute makes a new model state for its run.
LEMMA newModelStateKeeps ==
  ASSUME RunnerInv, SingleExecutor, NEW c \in Clients, newModelState(c)
  PROVE  RunnerInv'
<1>1. /\ client[c].pc = "newState"
      /\ model_state' = [model_state EXCEPT ![client[c].model] = client[c].run]
      /\ UNCHANGED <<runner_thread, runner_error, progress, optimized, thread, nextRun, artifacts>> /\ Goto(c, "newThread")
  BY DEF newModelState, At, Goto, fields, results
<1>2. Moves(c, "newThread")
  BY <1>1, GotoMoves DEF RunnerInv, ClientPcs, Executing, BeforeThread, BeforeState, Checked, Polling
<1>9. /\ client[c].run \in Runs /\ client[c].run # 0 /\ client[c].model \in Models
      /\ model_state' \in [Models -> 0 .. MaxRuns]
      /\ \A m \in Models : model_state'[m] = IF m = client[c].model THEN client[c].run ELSE model_state[m]
  <2>1. client[c].run \in Runs /\ client[c].run # 0 /\ client[c].model \in Models
    BY <1>1 DEF RunnerInv, Fresh, Executing, BeforeThread, BeforeState, Checked, Runs
  <2>. QED
    BY <1>1, <2>1, RunsAssumption DEF RunnerInv, TypeInv, Runs
<1>10. \A d \in Clients : client[d].pc \in Executing => d = c /\ client[d].run # 0
  BY <1>1 DEF RunnerInv, Fresh, SingleExecutor, Executing, BeforeThread, BeforeState, Checked, Runs
<1>. USE <1>1, <1>2, <1>9, <1>10 DEF RunnerInv, Moves, is_busy, is_alive, Executing, BeforeThread,
             BeforeState, Checked, Cleared, Polling
<1>3. TypeInv'
  BY DEF TypeInv, ClientPcs
<1>4. Fresh'
  <2>1. \A d \in Clients : client'[d].pc \in Executing =>
          /\ d \in Executors
          /\ client'[d].run \in Runs /\ client'[d].run < nextRun'
          /\ client'[d].model \in Models
    BY DEF Fresh
  <2>2. /\ \A r \in Runs : r >= nextRun' => thread'[r].pc = "new"
        /\ \A m \in Models : model_state'[m] < nextRun'
    BY DEF Fresh, TypeInv
  <2>3. /\ \A d \in Clients : client'[d].pc \in BeforeThread => thread'[client'[d].run].pc = "new"
        /\ \A d \in Clients : client'[d].pc \in BeforeState =>
              \A m \in Models : model_state'[m] < client'[d].run
    BY DEF Fresh
  <2>. QED
    BY <2>1, <2>2, <2>3 DEF Fresh
<1>5. Exclusive'
  BY DEF Exclusive, Fresh, TypeInv, SingleExecutor
<1>6. OnlyRunner'
  BY DEF OnlyRunner, Fresh, Exclusive, TypeInv
<1>7. Outcome'
  BY DEF Outcome, Exclusive, TypeInv
<1>8. Replies'
  BY DEF Replies
<1>. QED
  BY <1>3, <1>4, <1>5, <1>6, <1>7, <1>8

\* What the steps of a run have in common: the run is the runner's, and only
\* its own thread, the progress, the error and the results change.
RunSteps(r, p) ==
    /\ thread[r].pc \notin Unstarted \cup {"dead"}
    /\ p \in ThreadPcs \ Unstarted
    /\ UNCHANGED <<runner_thread, model_state, client, nextRun>>
    /\ thread' \in [Runs -> [pc : ThreadPcs, model : SomeModel, state : 0 .. MaxRuns]]
    /\ \A q \in Runs : /\ thread'[q].pc = IF q = r THEN p ELSE thread[q].pc
                       /\ thread'[q].model = thread[q].model
                       /\ q # r => thread'[q].state = thread[q].state
    /\ p \in Working => thread'[r].state = r
    /\ optimized' \subseteq optimized \cup {r}
    /\ optimized \subseteq optimized'
    /\ r \in optimized' => p \in Ended
    /\ p \in Ended => r \in optimized' \/ runner_error' # NoError
    /\ p \in {"exit", "dead"} => progress' = 100
    /\ progress' \in Nat
    /\ runner_error' \in Errors
    /\ artifacts' \in [{OutputDir[m] : m \in Models} -> 0 .. MaxRuns]

\* Each step of the run's thread.
LEMMA RunStepsKeep ==
  ASSUME RunnerInv, NEW r \in Runs, NEW p, RunSteps(r, p)
  PROVE  RunnerInv'
<1>1. r = runner_thread /\ r # 0 /\ is_busy
  BY DEF RunnerInv, OnlyRunner, RunSteps, is_busy, is_alive, Unstarted, Runs
<1>2. \A c \in Clients : client[c].pc \notin {"start"} \cup Checked \cup Cleared
  BY <1>1 DEF RunnerInv, Exclusive, RunSteps, Unstarted
<1>. USE DEF RunnerInv
<1>3. TypeInv'
  BY DEF TypeInv, RunSteps, ThreadPcs
<1>4. Fresh'
  <2>1. \A q \in Runs : thread[q].pc = "new" => thread'[q].pc = "new"
    BY DEF RunSteps, Unstarted
  <2>2. \A c \in Clients : client[c].pc \in Executing => client[c].run \in Runs
    BY DEF Fresh
  <2>. QED
    BY <2>1, <2>2 DEF Fresh, RunSteps, Executing
<1>5. Exclusive'
  BY <1>2 DEF Exclusive, RunSteps, Cleared, BeforeThread
<1>6. OnlyRunner'
  BY <1>1 DEF OnlyRunner, RunSteps, is_alive, Unstarted
<1>7. Outcome'
  <2>1. \A q \in Runs : thread'[q].pc \in Working => thread'[q].state = q
    BY DEF Outcome, RunSteps
  <2>2. \A q \in Runs : q \in optimized' => thread'[q].pc \in Ended
    BY DEF Outcome, RunSteps
  <2>3. thread'[runner_thread'].pc = p /\ runner_thread' = r
    BY <1>1 DEF RunSteps
  <2>. QED
    BY <2>1, <2>2, <2>3 DEF Outcome, RunSteps
<1>8. Replies'
  <2>. SUFFICES ASSUME NEW c \in Clients, client[c].pc \in Polling, client[c].reply.done,
                       client[c].reply.run # 0
                PROVE  /\ thread'[client[c].reply.run].pc = "dead"
                       /\ client[c].reply.run # runner_thread
    BY DEF Replies, RunSteps
  <2>1. thread[client[c].reply.run].pc = "dead"
    BY DEF Replies
  <2>2. client[c].reply.run \in Runs
    BY DEF TypeInv, Runs, Reply
  <2>. QED
    BY <1>1, <2>1, <2>2 DEF RunSteps
<1>. QED
  BY <1>3, <1>4, <1>5, <1>6, <1>7, <1>8

\* The steps of a run, each with the stage that follows.
LEMMA StepKeeps ==
  ASSUME RunnerInv, NEW r \in Runs, Step(r)
  PROVE  RunnerInv'
<1>. USE DEF Stage, ThreadPcs, Unstarted, Working, Raised, Ended, results, fields
<1>0. r \in optimized => thread[r].pc \in Ended
  BY DEF RunnerInv, Outcome
<1>1. /\ thread[r].pc \in Working => thread[r].state = r
      /\ thread[r].pc \notin Unstarted \cup {"dead"} =>
            /\ r = runner_thread
            /\ thread[r].model \in Models /\ model_state[thread[r].model] = r
  BY DEF RunnerInv, Outcome, OnlyRunner, is_alive, Runs
<1>2. /\ progress \in Nat /\ runner_error \in Errors
      /\ artifacts \in [{OutputDir[m] : m \in Models} -> 0 .. MaxRuns]
      /\ thread \in [Runs -> [pc : ThreadPcs, model : SomeModel, state : 0 .. MaxRuns]]
      /\ TypeInv
  BY DEF RunnerInv, TypeInv
<1>3. CASE prepare(r)
  <2>1. CASE /\ Raise(r, "exceptOther")
             /\ artifacts' \in {artifacts,
                               [artifacts EXCEPT ![OutputDir[thread[r].model]] = r]}
    <3>1. Advances(r, "exceptOther")
      BY <1>2, <2>1, ThreadAdvances DEF Raise
    <3>2. artifacts' \in [{OutputDir[m] : m \in Models} -> 0 .. MaxRuns]
      <4>1. r \in 0 .. MaxRuns
        BY DEF Runs
      <4>. QED
        BY <1>2, <2>1, <4>1
    <3>3. thread[r].pc = "begin" /\ UNCHANGED <<optimized, client, nextRun>>
      BY <1>3 DEF prepare
    <3>4. RunSteps(r, "exceptOther")
      BY <1>0, <1>2, <2>1, <3>1, <3>2, <3>3 DEF Raise, Advances, RunSteps
    <3>. QED
      BY <3>4, RunStepsKeep
  <2>2. CASE /\ thread' = [thread EXCEPT ![r].pc = "compile",
                                         ![r].state = model_state[thread[r].model]]
             /\ progress' = 10
             /\ artifacts' = [artifacts EXCEPT ![OutputDir[thread[r].model]] = r]
             /\ UNCHANGED <<runner_thread, runner_error, model_state>>
    <3>1. thread[r].pc = "begin" /\ UNCHANGED <<optimized, client, nextRun>>
      BY <1>3 DEF prepare
    <3>2. thread' = [thread EXCEPT ![r] = [@ EXCEPT !.pc = "compile", !.state = r]]
      BY <1>1, <2>2, <3>1
    <3>3. [thread[r] EXCEPT !.pc = "compile", !.state = r]
            \in [pc : ThreadPcs, model : SomeModel, state : 0 .. MaxRuns]
      <4>1. thread[r] \in [pc : ThreadPcs, model : SomeModel, state : 0 .. MaxRuns]
        BY <1>2
      <4>2. r \in 0 .. MaxRuns
        BY DEF Runs
      <4>. QED
        BY <4>1, <4>2
    <3>4. artifacts' \in [{OutputDir[m] : m \in Models} -> 0 .. MaxRuns]
      <4>1. r \in 0 .. MaxRuns
        BY DEF Runs
      <4>. QED
        BY <1>2, <2>2, <4>1
    <3>5. /\ thread' \in [Runs -> [pc : ThreadPcs, model : SomeModel, state : 0 .. MaxRuns]]
          /\ \A q \in Runs : /\ thread'[q].pc = IF q = r THEN "compile" ELSE thread[q].pc
                             /\ thread'[q].model = thread[q].model
                             /\ thread'[q].state = IF q = r THEN r ELSE thread[q].state
      BY <1>2, <3>2, <3>3
    <3>6. RunSteps(r, "compile")
      BY <1>0, <1>2, <2>2, <3>1, <3>4, <3>5 DEF RunSteps
    <3>. QED
      BY <3>6, RunStepsKeep
  <2>. QED
    BY <1>3, <2>1, <2>2 DEF prepare
<1>4. CASE compile(r)
  <2>1. CASE \E x \in Raised : Raise(r, x)
    <3>. PICK x \in Raised : Raise(r, x)
      BY <2>1
    <3>1. Advances(r, x)
      BY <1>2, ThreadAdvances DEF Raise
    <3>2. RunSteps(r, x)
      BY <1>0, <1>2, <1>4, <3>1 DEF compile, Raise, Advances, RunSteps
    <3>. QED
      BY <3>2, RunStepsKeep
  <2>2. CASE Pass(r, "translate", 20)
    <3>1. Advances(r, "translate")
      BY <1>2, <2>2, ThreadAdvances DEF Pass
    <3>2. RunSteps(r, "translate")
      BY <1>0, <1>1, <1>2, <1>4, <2>2, <3>1 DEF compile, Pass, Advances, RunSteps
    <3>. QED
      BY <3>2, RunStepsKeep
  <2>. QED
    BY <1>4, <2>1, <2>2 DEF compile
<1>5. CASE translate(r)
  <2>1. CASE \E x \in Raised : Raise(r, x)
    <3>. PICK x \in Raised : Raise(r, x)
      BY <2>1
    <3>1. Advances(r, x)
      BY <1>2, ThreadAdvances DEF Raise
    <3>2. RunSteps(r, x)
      BY <1>0, <1>2, <1>5, <3>1 DEF translate, Raise, Advances, RunSteps
    <3>. QED
      BY <3>2, RunStepsKeep
  <2>2. CASE Pass(r, "perf", 30)
    <3>1. Advances(r, "perf")
      BY <1>2, <2>2, ThreadAdvances DEF Pass
    <3>2. RunSteps(r, "perf")
      BY <1>0, <1>1, <1>2, <1>5, <2>2, <3>1 DEF translate, Pass, Advances, RunSteps
    <3>. QED
      BY <3>2, RunStepsKeep
  <2>. QED
    BY <1>5, <2>1, <2>2 DEF translate
<1>6. CASE perf(r)
  <2>1. CASE (\E x \in Raised : Raise(r, x)) /\ UNCHANGED optimized
    <3>. PICK x \in Raised : Raise(r, x)
      BY <2>1
    <3>1. Advances(r, x)
      BY <1>2, ThreadAdvances DEF Raise
    <3>2. RunSteps(r, x)
      BY <1>0, <1>2, <1>6, <2>1, <3>1 DEF perf, Raise, Advances, RunSteps
    <3>. QED
      BY <3>2, RunStepsKeep
  <2>2. CASE Pass(r, "optimized", progress) /\ optimized' = optimized \cup {thread[r].state}
    <3>1. Advances(r, "optimized")
      BY <1>2, <2>2, ThreadAdvances DEF Pass
    <3>2. RunSteps(r, "optimized")
      BY <1>0, <1>1, <1>2, <1>6, <2>2, <3>1 DEF perf, Pass, Advances, RunSteps
    <3>. QED
      BY <3>2, RunStepsKeep
  <2>. QED
    BY <1>6, <2>1, <2>2 DEF perf
<1>7. CASE setError(r)
  <2>. DEFINE p == IF thread[r].pc = "exceptOther" THEN "logError" ELSE "finally"
  <2>1. /\ thread[r].pc \in Raised /\ thread' = [thread EXCEPT ![r].pc = p]
        /\ runner_error' \in {EmptyError, r}
        /\ UNCHANGED <<runner_thread, progress, model_state, optimized, artifacts, client,
                       nextRun>>
    BY <1>7 DEF setError
  <2>2. p \in {"logError", "finally"}
    OBVIOUS
  <2>. HIDE DEF p
  <2>3. Advances(r, p)
    BY <1>2, <2>1, <2>2, ThreadAdvances
  <2>4. runner_error' \in Errors /\ runner_error' # NoError
    BY <2>1, ErrorAssumption DEF Errors
  <2>5. RunSteps(r, p)
    BY <1>0, <1>2, <2>1, <2>2, <2>3, <2>4 DEF Advances, RunSteps
  <2>. QED
    BY <2>5, RunStepsKeep
<1>10. CASE fullProgress(r) \/ logError(r)
  <2>1. /\ thread[r].pc \in {"optimized", "logError"}
        /\ thread' = [thread EXCEPT ![r].pc = "finally"] /\ progress' \in {progress, 100}
        /\ UNCHANGED <<runner_thread, runner_error, model_state, optimized, artifacts, client,
                       nextRun>>
    BY <1>10 DEF fullProgress, logError, Pass
  <2>2. Advances(r, "finally")
    BY <1>2, <2>1, ThreadAdvances
  <2>3. r \in optimized \/ runner_error # NoError
    BY <1>1, <2>1 DEF RunnerInv, Outcome, Runs
  <2>4. RunSteps(r, "finally")
    BY <1>0, <1>2, <2>1, <2>2, <2>3 DEF Advances, RunSteps
  <2>. QED
    BY <2>4, RunStepsKeep
<1>8. CASE finally(r)
  <2>1. Advances(r, "exit")
    BY <1>2, <1>8, ThreadAdvances DEF finally
  <2>2. r \in optimized \/ runner_error # NoError
    BY <1>1, <1>8 DEF finally, RunnerInv, Outcome, Runs
  <2>3. RunSteps(r, "exit")
    BY <1>0, <1>2, <1>8, <2>1, <2>2 DEF finally, Advances, RunSteps
  <2>. QED
    BY <2>3, RunStepsKeep
<1>9. CASE exit(r)
  <2>1. Advances(r, "dead")
    BY <1>2, <1>9, ThreadAdvances DEF exit
  <2>2. (r \in optimized \/ runner_error # NoError) /\ progress = 100
    BY <1>1, <1>9 DEF exit, RunnerInv, Outcome, Runs
  <2>3. RunSteps(r, "dead")
    BY <1>0, <1>2, <1>9, <2>1, <2>2 DEF exit, Advances, RunSteps
  <2>. QED
    BY <2>3, RunStepsKeep
<1>. QED
  BY <1>3, <1>4, <1>5, <1>6, <1>7, <1>8, <1>9, <1>10 DEF Step

\* A request of client c, with all that changes of it.
Becomes(c, p, m, r, y) ==
    /\ client' \in [Clients -> [pc : ClientPcs, model : SomeModel, run : 0 .. MaxRuns,
                                reply : Reply]]
    /\ \A d \in Clients : d # c => client'[d] = client[d]
    /\ client'[c].pc = p
    /\ client'[c].model = m
    /\ client'[c].run = r
    /\ client'[c].reply = y

\* A client whose whole record is replaced.
LEMMA ClientBecomes ==
  ASSUME TypeInv, NEW c \in Clients,
         NEW x \in [pc : ClientPcs, model : SomeModel, run : 0 .. MaxRuns, reply : Reply],
         client' = [client EXCEPT ![c] = x]
  PROVE  Becomes(c, x.pc, x.model, x.run, x.reply)
<1>1. client \in [Clients -> [pc : ClientPcs, model : SomeModel, run : 0 .. MaxRuns,
                              reply : Reply]]
  BY DEF TypeInv, ClientPcs
<1>. QED
  BY <1>1 DEF Becomes

\* A request to execute gets a run of its own.
LEMMA executeKeeps ==
  ASSUME RunnerInv, SingleExecutor, NEW c \in Executors, NEW m \in Models, execute(c, m)
  PROVE  RunnerInv'
<1>1. /\ client[c].pc = "idle" /\ nextRun \in Runs /\ nextRun' = nextRun + 1
      /\ client' = [client EXCEPT ![c].pc = "run", ![c].model = m, ![c].run = nextRun]
      /\ UNCHANGED <<runner_thread, runner_error, progress, model_state, optimized, artifacts,
                     thread>>
  BY DEF execute, At, fields, results
<1>2. c \in Clients /\ client[c] \in [pc : ClientPcs, model : SomeModel, run : 0 .. MaxRuns,
                                      reply : Reply]
  BY DEF Clients, RunnerInv, TypeInv, ClientPcs
<1>. DEFINE x == [client[c] EXCEPT !.pc = "run", !.model = m, !.run = nextRun]
<1>3. nextRun \in 0 .. MaxRuns /\ nextRun \in Nat /\ nextRun # 0 /\ nextRun' \in 1 .. MaxRuns + 1
  BY <1>1, RunsAssumption DEF Runs
<1>4. /\ x \in [pc : ClientPcs, model : SomeModel, run : 0 .. MaxRuns, reply : Reply]
      /\ x.pc = "run" /\ x.model = m /\ x.run = nextRun /\ x.reply = client[c].reply
  BY <1>2, <1>3 DEF SomeModel, ClientPcs, Executing, BeforeThread, BeforeState, Checked
<1>5. Becomes(c, "run", m, nextRun, client[c].reply)
  <2>1. client' = [client EXCEPT ![c] = x]
    BY <1>1
  <2>. HIDE DEF x
  <2>2. Becomes(c, x.pc, x.model, x.run, x.reply)
    BY <1>2, <1>4, <2>1, ClientBecomes DEF RunnerInv
  <2>. QED
    BY <1>4, <2>2
<1>6. \A d \in Clients : client[d].pc \notin Executing
  BY <1>1 DEF RunnerInv, Fresh, SingleExecutor, Executing, BeforeThread, BeforeState, Checked
<1>. HIDE DEF x
<1>. USE <1>1, <1>2, <1>3, <1>5, <1>6 DEF RunnerInv, Becomes
<1>7. TypeInv'
  BY DEF TypeInv, ClientPcs
<1>8. Fresh'
  <2>1. thread[nextRun].pc = "new" /\ \A n \in Models : model_state[n] < nextRun
    BY DEF Fresh
  <2>2. \A d \in Clients : d # c => client'[d].pc \notin Executing
    OBVIOUS
  <2>3. \A d \in Clients : client'[d].pc \in Executing => d = c
    BY <2>2
  <2>4. \A n \in Models : model_state[n] \in Int
    BY <2>1 DEF TypeInv
  <2>5. \A q \in Runs : q >= nextRun' => thread[q].pc = "new"
    BY DEF Fresh, Runs
  <2>6. \A n \in Models : model_state[n] < nextRun'
    BY <2>1, <2>4
  <2>. QED
    BY <2>1, <2>3, <2>4, <2>5, <2>6 DEF Fresh, Executing, BeforeThread
<1>9. Exclusive'
  BY DEF Exclusive, Executing, BeforeThread, BeforeState, Checked, Cleared
<1>10. OnlyRunner'
  BY DEF OnlyRunner, is_alive
<1>11. Outcome'
  BY DEF Outcome
<1>12. Replies'
  BY DEF Replies, Polling
<1>. QED
  BY <1>7, <1>8, <1>9, <1>10, <1>11, <1>12

\* The runner's thread is made for the run.
LEMMA newThreadKeeps ==
  ASSUME RunnerInv, SingleExecutor, NEW c \in Clients, newThread(c)
  PROVE  RunnerInv'
<1>. DEFINE r == client[c].run
            m == client[c].model
<1>1. /\ client[c].pc = "newThread" /\ runner_thread' = r /\ Goto(c, "start")
      /\ thread' = [thread EXCEPT ![r].pc = "created", ![r].model = m]
      /\ UNCHANGED <<runner_error, progress, model_state, optimized, artifacts, nextRun>>
  BY DEF newThread, At, results
<1>2. Moves(c, "start")
  BY <1>1, GotoMoves DEF RunnerInv, ClientPcs, Executing, BeforeThread, BeforeState, Checked
<1>3. /\ r \in Runs /\ r # 0 /\ r < nextRun /\ m \in Models /\ thread[r].pc = "new"
      /\ model_state[m] = r /\ runner_thread = 0
  BY <1>1 DEF RunnerInv, Fresh, Exclusive, Executing, BeforeThread, BeforeState, Checked, Runs, Cleared
<1>4. /\ thread' \in [Runs -> [pc : ThreadPcs, model : SomeModel, state : 0 .. MaxRuns]]
      /\ \A q \in Runs : /\ q # r => thread'[q] = thread[q]
                         /\ thread'[r].pc = "created" /\ thread'[r].model = m
  <2>1. thread \in [Runs -> [pc : ThreadPcs, model : SomeModel, state : 0 .. MaxRuns]]
    BY DEF RunnerInv, TypeInv, ThreadPcs
  <2>2. thread[r] \in [pc : ThreadPcs, model : SomeModel, state : 0 .. MaxRuns]
    BY <1>3, <2>1
  <2>3. [thread[r] EXCEPT !.pc = "created", !.model = m] \in
            [pc : ThreadPcs, model : SomeModel, state : 0 .. MaxRuns]
    BY <1>3, <2>2 DEF ThreadPcs, Unstarted, SomeModel
  <2>4. thread' = [thread EXCEPT ![r] = [thread[r] EXCEPT !.pc = "created", !.model = m]]
    BY <1>1
  <2>. QED
    BY <1>3, <2>1, <2>2, <2>3, <2>4
<1>5. \A d \in Clients : client[d].pc \in Executing => d = c
  BY <1>1 DEF RunnerInv, Fresh, SingleExecutor, Executing, BeforeThread
<1>6. \A q \in Runs : ~is_alive(q)
  BY <1>3 DEF RunnerInv, OnlyRunner, Runs
<1>7. \A d \in Clients : client[d].reply.run \in 0 .. MaxRuns
  BY DEF RunnerInv, TypeInv, Reply
<1>. HIDE DEF r, m
<1>. USE <1>1, <1>2, <1>3, <1>4, <1>5 DEF RunnerInv, Moves
<1>8. TypeInv'
  BY DEF TypeInv, ClientPcs, ThreadPcs, Runs
<1>9. Fresh'
  <2>1. \A d \in Clients : client'[d].pc \in Executing => d = c /\ client'[d].pc = "start"
    BY DEF Executing, BeforeThread
  <2>2. client'[c].run = r /\ client'[c].model = m
    BY DEF r, m
  <2>3. \A q \in Runs : q >= nextRun' => thread'[q].pc = "new"
    <3>1. nextRun \in Int /\ r \in Int
      BY DEF TypeInv, Runs
    <3>. QED
      BY <3>1 DEF Fresh, Runs
  <2>. QED
    BY <2>1, <2>2, <2>3 DEF Fresh, Executing, BeforeThread, BeforeState, Checked
<1>10. Exclusive'
  <2>1. client'[c].run = r
    BY DEF r
  <2>. QED
    BY <2>1 DEF Exclusive, Executing, BeforeThread, BeforeState, Checked, Cleared
<1>11. OnlyRunner'
  <2>1. \A n \in Models : model_state[n] <= r
    BY DEF Exclusive, r
  <2>. QED
    BY <1>6, <2>1 DEF OnlyRunner, is_alive
<1>12. Outcome'
  BY DEF Outcome, Working, Ended
<1>13. Replies'
  <2>. SUFFICES ASSUME NEW d \in Clients, client'[d].pc \in Polling, client'[d].reply.done,
                       client'[d].reply.run # 0
                PROVE  /\ thread'[client'[d].reply.run].pc = "dead"
                       /\ client'[d].reply.run # r
    BY DEF Replies
  <2>1. d # c
    BY DEF Polling
  <2>2. client'[d] = client[d] \/ client'[d].reply = client[d].reply
    OBVIOUS
  <2>3. thread[client[d].reply.run].pc = "dead" /\ client[d].reply.run # 0
    BY <2>1 DEF Replies
  <2>4. client[d].reply.run \in Runs
    BY <1>7, <2>3 DEF Runs
  <2>. QED
    BY <2>3, <2>4
<1>. QED
  BY <1>8, <1>9, <1>10, <1>11, <1>12, <1>13

\* The thread that is started is the request's own.
LEMMA startThreadKeeps ==
  ASSUME RunnerInv, SingleExecutor, NEW c \in Clients, startThread(c)
  PROVE  RunnerInv'
<1>. DEFINE r == runner_thread
<1>1. /\ client[c].pc = "start" /\ r = client[c].run /\ r \in Runs /\ r # 0
      /\ thread[r].pc = "created"
  BY DEF startThread, At, RunnerInv, Exclusive, Fresh, Executing, Runs
<1>2. /\ thread' = [thread EXCEPT ![r].pc = "begin"] /\ Goto(c, "idle")
      /\ UNCHANGED <<runner_thread, runner_error, progress, model_state, optimized, artifacts,
                     nextRun>>
  BY <1>1 DEF startThread, fields, results
<1>3. Moves(c, "idle")
  BY <1>2, GotoMoves DEF RunnerInv, ClientPcs
<1>4. Advances(r, "begin")
  BY <1>1, <1>2, ThreadAdvances DEF RunnerInv, ThreadPcs
<1>5. \A d \in Clients : client[d].pc \in Executing => d = c
  BY <1>1 DEF RunnerInv, Fresh, SingleExecutor, Executing
<1>. HIDE DEF r
<1>. USE <1>1, <1>2, <1>3, <1>4, <1>5 DEF RunnerInv, Moves, Advances
<1>6. TypeInv'
  BY DEF TypeInv, ClientPcs, ThreadPcs
<1>7. Fresh'
  <2>1. \A d \in Clients : client'[d].pc \notin Executing
    BY DEF Executing, BeforeThread, BeforeState, Checked
  <2>. QED
    BY <2>1 DEF Fresh, Executing, BeforeThread
<1>8. Exclusive'
  BY DEF Exclusive, Executing, BeforeThread, BeforeState, Checked, Cleared
<1>9. OnlyRunner'
  <2>1. r = runner_thread
    BY DEF r
  <2>. QED
    BY <2>1 DEF OnlyRunner, is_alive
<1>10. Outcome'
  <2>1. r = runner_thread
    BY DEF r
  <2>. QED
    BY <2>1 DEF Outcome, Working, Ended
<1>11. Replies'
  <2>. SUFFICES ASSUME NEW d \in Clients, client'[d].pc \in Polling, client'[d].reply.done,
                       client'[d].reply.run # 0
                PROVE  /\ thread'[client'[d].reply.run].pc = "dead"
                       /\ client'[d].reply.run # runner_thread
    BY DEF Replies
  <2>1. d # c /\ client'[d].reply = client[d].reply
    BY DEF Polling
  <2>2. thread[client[d].reply.run].pc = "dead" /\ client[d].reply.run # 0
    BY <2>1 DEF Replies
  <2>3. client[d].reply.run \in Runs
    BY <2>2 DEF TypeInv, Reply, Runs
  <2>. QED
    BY <2>1, <2>2, <2>3 DEF r
<1>. QED
  BY <1>6, <1>7, <1>8, <1>9, <1>10, <1>11

\* What reply y says of the runner when its request is at p.
Says(p, y) ==
    p \in Polling /\ y.done /\ y.run # 0 =>
        /\ thread[y.run].pc = "dead"
        /\ p \in {"error", "replied"} /\ runner_thread = y.run => y.progress = 100
        /\ p = "replied" /\ runner_thread = y.run => (y.error = NoError => y.run \in optimized)

\* A status check changes nothing but its own reply.
LEMMA ReplyKeeps ==
  ASSUME RunnerInv, NEW c \in Clients, client[c].pc \in Polling \cup {"idle"},
         NEW p \in Polling \cup {"idle"}, NEW y \in Reply,
         Becomes(c, p, client[c].model, client[c].run, y), Says(p, y),
         UNCHANGED <<runner_thread, runner_error, progress, model_state, optimized, artifacts,
                     thread, nextRun>>
  PROVE  RunnerInv'
<1>. USE DEF RunnerInv, Becomes
<1>1. /\ client[c].pc \notin Executing /\ client'[c].pc \notin Executing
      /\ \A d \in Clients : d # c => client'[d] = client[d]
  BY DEF Executing, BeforeThread, BeforeState, Checked, Polling
<1>2. TypeInv'
  BY DEF TypeInv, ClientPcs
<1>3. Fresh'
  BY <1>1 DEF Fresh, Executing, BeforeThread
<1>4. Exclusive'
  <2>1. \A d \in Clients : client'[d].pc \in Executing => client'[d] = client[d]
    BY <1>1
  <2>. QED
    BY <2>1 DEF Exclusive, is_busy, is_alive, Executing, BeforeThread, BeforeState, Checked, Cleared
<1>5. OnlyRunner'
  BY DEF OnlyRunner, is_alive
<1>6. Outcome'
  BY DEF Outcome
<1>7. Replies'
  BY <1>1 DEF Replies, Says
<1>. QED
  BY <1>2, <1>3, <1>4, <1>5, <1>6, <1>7

\* A status check waits for the lines of the queue.
LEMMA WaitKeeps ==
  ASSUME RunnerInv, NEW c \in Clients, client[c].pc \in Polling,
         NEW p \in {"logs", "get", "progress"}, Goto(c, p),
         UNCHANGED <<runner_thread, runner_error, progress, model_state, optimized, artifacts,
                     thread, nextRun>>
  PROVE  RunnerInv'
<1>1. client[c] \in [pc : ClientPcs, model : SomeModel, run : 0 .. MaxRuns, reply : Reply]
  BY DEF RunnerInv, TypeInv, ClientPcs
<1>2. client[c].reply \in Reply
  BY <1>1
<1>. DEFINE x == [client[c] EXCEPT !.pc = p]
<1>3. client' = [client EXCEPT ![c] = x]
  BY <1>1 DEF Goto
<1>4. /\ x \in [pc : ClientPcs, model : SomeModel, run : 0 .. MaxRuns, reply : Reply]
      /\ x.pc = p /\ x.model = client[c].model /\ x.run = client[c].run
      /\ x.reply = client[c].reply
  BY <1>1 DEF ClientPcs, Polling
<1>. HIDE DEF x
<1>5. Becomes(c, p, client[c].model, client[c].run, client[c].reply)
  <2>1. Becomes(c, x.pc, x.model, x.run, x.reply)
    BY <1>3, <1>4, ClientBecomes DEF RunnerInv
  <2>. QED
    BY <1>4, <2>1
<1>6. Says(p, client[c].reply)
  BY DEF Says, RunnerInv, Replies
<1>. QED
  BY <1>2, <1>5, <1>6, ReplyKeeps DEF Polling

\* get_logs.
LEMMA logsKeep ==
  ASSUME RunnerInv, NEW c \in Clients, logsNotEmpty(c) \/ getLog(c) \/ logsEmpty(c)
  PROVE  RunnerInv'
<1>1. /\ client[c].pc \in Polling
      /\ \E p \in {"logs", "get", "progress"} : Goto(c, p)
      /\ UNCHANGED <<runner_thread, runner_error, progress, model_state, optimized, artifacts,
                     thread, nextRun>>
  BY DEF logsNotEmpty, getLog, logsEmpty, At, fields, results, Polling
<1>. QED
  BY <1>1, WaitKeeps

\* Without a thread the status is done, and is about no run.
LEMMA status_checkKeeps ==
  ASSUME RunnerInv, NEW c \in Pollers, status_check(c)
  PROVE  RunnerInv'
<1>. DEFINE p == IF runner_thread = 0 THEN "logs" ELSE "alive"
            y == [NoReply EXCEPT !.done = (runner_thread = 0)]
<1>1. /\ client[c].pc = "idle"
      /\ client' = [client EXCEPT ![c].pc = p, ![c].reply = y]
      /\ UNCHANGED <<runner_thread, runner_error, progress, model_state, optimized, artifacts,
                     thread, nextRun>>
  BY DEF status_check, At, fields, results
<1>2. c \in Clients /\ client[c] \in [pc : ClientPcs, model : SomeModel, run : 0 .. MaxRuns,
                                      reply : Reply]
  BY DEF Clients, RunnerInv, TypeInv, ClientPcs
<1>3. p \in Polling
  BY DEF Polling
<1>4. y \in Reply /\ y.run = 0
  <2>. DEFINE none == runner_thread = 0
  <2>1. y = [run |-> 0, done |-> none, progress |-> 0, error |-> NoError]
    BY DEF NoReply
  <2>2. none \in BOOLEAN /\ 0 \in 0 .. MaxRuns /\ NoError \in Errors
    BY RunsAssumption DEF Errors
  <2>. HIDE DEF none, y
  <2>. QED
    BY <2>1, <2>2 DEF Reply
<1>. HIDE DEF p, y
<1>. DEFINE x == [client[c] EXCEPT !.pc = p, !.reply = y]
<1>5. client' = [client EXCEPT ![c] = x]
  BY <1>1, <1>2
<1>6. /\ x \in [pc : ClientPcs, model : SomeModel, run : 0 .. MaxRuns, reply : Reply]
      /\ x.pc = p /\ x.model = client[c].model /\ x.run = client[c].run /\ x.reply = y
  BY <1>2, <1>3, <1>4 DEF ClientPcs
<1>. HIDE DEF x
<1>7. Becomes(c, p, client[c].model, client[c].run, y)
  <2>1. Becomes(c, x.pc, x.model, x.run, x.reply)
    BY <1>2, <1>5, <1>6, ClientBecomes DEF RunnerInv
  <2>. QED
    BY <1>6, <2>1
<1>8. Says(p, y)
  BY <1>4 DEF Says
<1>. QED
  BY <1>1, <1>2, <1>3, <1>4, <1>7, <1>8, ReplyKeeps

\* A run that was started and is not alive is dead.
LEMMA checkDoneKeeps ==
  ASSUME RunnerInv, NEW c \in Clients, checkDone(c)
  PROVE  RunnerInv'
<1>. DEFINE gone == runner_thread = 0
            p == IF gone THEN "idle" ELSE "logs"
            z == [client[c].reply EXCEPT !.run = startedRun, !.done = ~is_busy]
            y == IF gone THEN NoReply ELSE z
            x == [client[c] EXCEPT !.pc = p, !.reply = y]
<1>1. client[c].pc = "alive" /\ p \in Polling \cup {"idle"}
  BY DEF checkDone, At, Polling
<1>2. client[c] \in [pc : ClientPcs, model : SomeModel, run : 0 .. MaxRuns, reply : Reply]
  BY DEF RunnerInv, TypeInv, ClientPcs
<1>3. startedRun \in 0 .. MaxRuns /\ is_busy \in BOOLEAN
  BY RunsAssumption DEF RunnerInv, TypeInv, startedRun, is_busy, is_alive
<1>4. z \in Reply /\ z.run = startedRun /\ z.done = ~is_busy
  BY <1>2, <1>3 DEF Reply
<1>. HIDE DEF z
<1>5. y \in Reply
  BY <1>4, RunsAssumption DEF Reply, NoReply, Errors
<1>6. /\ client' = [client EXCEPT ![c] = x]
      /\ UNCHANGED <<runner_thread, runner_error, progress, model_state, optimized, artifacts,
                     thread, nextRun>>
  <2>1. CASE gone
    <3>1. client' = [client EXCEPT ![c].pc = "idle", ![c].reply = NoReply]
      BY <2>1 DEF checkDone
    <3>. QED
      BY <1>2, <2>1, <3>1 DEF checkDone, fields, results
  <2>2. CASE ~gone
    <3>1. client' = [client EXCEPT ![c].pc = "logs", ![c].reply.run = startedRun,
                                   ![c].reply.done = ~is_busy]
      BY <2>2 DEF checkDone
    <3>2. UNCHANGED <<runner_thread, runner_error, progress, model_state, optimized, artifacts,
                      thread, nextRun>>
      BY DEF checkDone, fields, results
    <3>. QED
      BY <1>2, <2>2, <3>1, <3>2 DEF z
  <2>. QED
    BY <2>1, <2>2
<1>7. Says(p, y)
  <2>. SUFFICES ASSUME ~gone, ~is_busy, startedRun # 0
                PROVE  thread[startedRun].pc = "dead"
    BY <1>4 DEF Says, Polling
  <2>1. /\ startedRun = runner_thread /\ runner_thread # 0
        /\ thread[runner_thread].pc \in {"new", "dead"}
    BY DEF startedRun, is_busy, is_alive
  <2>. QED
    BY <2>1 DEF RunnerInv, OnlyRunner
<1>. HIDE DEF p, y
<1>8. /\ x \in [pc : ClientPcs, model : SomeModel, run : 0 .. MaxRuns, reply : Reply]
      /\ x.pc = p /\ x.model = client[c].model /\ x.run = client[c].run /\ x.reply = y
  BY <1>1, <1>2, <1>5 DEF ClientPcs
<1>. HIDE DEF x
<1>9. Becomes(c, p, client[c].model, client[c].run, y)
  <2>1. Becomes(c, x.pc, x.model, x.run, x.reply)
    BY <1>6, <1>8, ClientBecomes DEF RunnerInv
  <2>. QED
    BY <1>8, <2>1
<1>. QED
  BY <1>1, <1>5, <1>6, <1>7, <1>9, ReplyKeeps DEF Polling

\* The progress is read after the check for done.
LEMMA getProgressKeeps ==
  ASSUME RunnerInv, NEW c \in Clients, getProgress(c)
  PROVE  RunnerInv'
<1>1. /\ client[c].pc = "progress"
      /\ client' = [client EXCEPT ![c].pc = "error", ![c].reply.progress = progress]
      /\ UNCHANGED <<runner_thread, runner_error, progress, model_state, optimized, artifacts,
                     thread, nextRun>>
  BY DEF getProgress, At, fields, results
<1>2. client[c] \in [pc : ClientPcs, model : SomeModel, run : 0 .. MaxRuns, reply : Reply]
  BY DEF RunnerInv, TypeInv, ClientPcs
<1>. DEFINE y == [client[c].reply EXCEPT !.progress = progress]
            x == [client[c] EXCEPT !.pc = "error", !.reply = y]
<1>4. /\ y \in Reply /\ y.run = client[c].reply.run /\ y.done = client[c].reply.done
      /\ y.progress = progress
  BY <1>2 DEF Reply, RunnerInv, TypeInv
<1>5. client' = [client EXCEPT ![c] = x]
  BY <1>1, <1>2
<1>. HIDE DEF y
<1>6. /\ x \in [pc : ClientPcs, model : SomeModel, run : 0 .. MaxRuns, reply : Reply]
      /\ x.pc = "error" /\ x.model = client[c].model /\ x.run = client[c].run /\ x.reply = y
  BY <1>2, <1>4 DEF ClientPcs, Polling
<1>. HIDE DEF x
<1>7. Becomes(c, "error", client[c].model, client[c].run, y)
  <2>1. Becomes(c, x.pc, x.model, x.run, x.reply)
    BY <1>5, <1>6, ClientBecomes DEF RunnerInv
  <2>. QED
    BY <1>6, <2>1
<1>8. Says("error", y)
  <2>. SUFFICES ASSUME y.done, y.run # 0
                PROVE  /\ thread[y.run].pc = "dead"
                       /\ runner_thread = y.run => progress = 100
    BY <1>4 DEF Says
  <2>1. thread[y.run].pc = "dead"
    BY <1>1, <1>4 DEF RunnerInv, Replies, Polling
  <2>. QED
    BY <2>1 DEF RunnerInv, Outcome
<1>. QED
  BY <1>1, <1>4, <1>7, <1>8, ReplyKeeps DEF Polling

\* The error is read last.
LEMMA getErrorKeeps ==
  ASSUME RunnerInv, NEW c \in Clients, getError(c)
  PROVE  RunnerInv'
<1>1. /\ client[c].pc = "error"
      /\ client' = [client EXCEPT ![c].pc = "replied", ![c].reply.error = runner_error]
      /\ UNCHANGED <<runner_thread, runner_error, progress, model_state, optimized, artifacts,
                     thread, nextRun>>
  BY DEF getError, At, fields, results
<1>2. client[c] \in [pc : ClientPcs, model : SomeModel, run : 0 .. MaxRuns, reply : Reply]
  BY DEF RunnerInv, TypeInv, ClientPcs
<1>. DEFINE y == [client[c].reply EXCEPT !.error = runner_error]
            x == [client[c] EXCEPT !.pc = "replied", !.reply = y]
<1>4. /\ y \in Reply /\ y.run = client[c].reply.run /\ y.done = client[c].reply.done
      /\ y.progress = client[c].reply.progress /\ y.error = runner_error
  BY <1>2 DEF Reply, RunnerInv, TypeInv
<1>5. client' = [client EXCEPT ![c] = x]
  BY <1>1, <1>2
<1>. HIDE DEF y
<1>6. /\ x \in [pc : ClientPcs, model : SomeModel, run : 0 .. MaxRuns, reply : Reply]
      /\ x.pc = "replied" /\ x.model = client[c].model /\ x.run = client[c].run /\ x.reply = y
  BY <1>2, <1>4 DEF ClientPcs, Polling
<1>. HIDE DEF x
<1>7. Becomes(c, "replied", client[c].model, client[c].run, y)
  <2>1. Becomes(c, x.pc, x.model, x.run, x.reply)
    BY <1>5, <1>6, ClientBecomes DEF RunnerInv
  <2>. QED
    BY <1>6, <2>1
<1>8. Says("replied", y)
  <2>. SUFFICES ASSUME y.done, y.run # 0
                PROVE  /\ thread[y.run].pc = "dead"
                       /\ runner_thread = y.run => y.progress = 100
                       /\ runner_thread = y.run => (runner_error = NoError => y.run \in optimized)
    BY <1>4 DEF Says
  <2>1. /\ thread[y.run].pc = "dead"
        /\ runner_thread = y.run => y.progress = 100
    BY <1>1, <1>4 DEF RunnerInv, Replies, Polling
  <2>2. y.run \in Runs
    BY <1>4 DEF Reply, Runs
  <2>3. runner_thread = y.run => y.run \in optimized \/ runner_error # NoError
    BY <2>1 DEF RunnerInv, Outcome, Ended
  <2>. QED
    BY <2>1, <2>2, <2>3
<1>. QED
  BY <1>1, <1>4, <1>7, <1>8, ReplyKeeps DEF Polling

\* The reply reaches the client.
LEMMA sendReplyKeeps ==
  ASSUME RunnerInv, NEW c \in Clients, sendReply(c)
  PROVE  RunnerInv'
<1>1. /\ client[c].pc = "replied"
      /\ client' = [client EXCEPT ![c].pc = "idle", ![c].reply = NoReply]
      /\ UNCHANGED <<runner_thread, runner_error, progress, model_state, optimized, artifacts,
                     thread, nextRun>>
  BY DEF sendReply, At, fields, results
<1>2. client[c] \in [pc : ClientPcs, model : SomeModel, run : 0 .. MaxRuns, reply : Reply]
  BY DEF RunnerInv, TypeInv, ClientPcs
<1>3. NoReply \in Reply
  BY RunsAssumption DEF NoReply, Reply, Errors
<1>. DEFINE x == [client[c] EXCEPT !.pc = "idle", !.reply = NoReply]
<1>5. client' = [client EXCEPT ![c] = x]
  BY <1>1, <1>2
<1>6. /\ x \in [pc : ClientPcs, model : SomeModel, run : 0 .. MaxRuns, reply : Reply]
      /\ x.pc = "idle" /\ x.model = client[c].model /\ x.run = client[c].run
      /\ x.reply = NoReply
  BY <1>2, <1>3 DEF ClientPcs
<1>. HIDE DEF x
<1>7. Becomes(c, "idle", client[c].model, client[c].run, NoReply)
  <2>1. Becomes(c, x.pc, x.model, x.run, x.reply)
    BY <1>5, <1>6, ClientBecomes DEF RunnerInv
  <2>. QED
    BY <1>6, <2>1
<1>8. Says("idle", NoReply)
  BY DEF Says, Polling
<1>. QED
  BY <1>1, <1>3, <1>7, <1>8, ReplyKeeps DEF Polling

-----------------------------------------------------------------------------
(* The theorems                                                            *)

\* The server when it starts.
LEMMA RunnerInit == Init => RunnerInv
<1>. SUFFICES ASSUME Init PROVE RunnerInv
  OBVIOUS
<1>. USE DEF Init
<1>1. NoReply \in Reply /\ 0 \in 0 .. MaxRuns /\ AnyModel \in SomeModel
  BY RunsAssumption DEF NoReply, Reply, Errors, SomeModel
<1>0. /\ "new" \in Unstarted \cup {"begin"} \cup Raised \cup Working \cup Ended
      /\ "idle" \in Executing \cup Polling \cup {"idle"}
      /\ NoError \in Errors
  BY DEF Unstarted, Errors
<1>2. TypeInv
  BY <1>0, <1>1, RunsAssumption DEF TypeInv
<1>3. Fresh
  BY DEF Fresh, Executing, BeforeThread, BeforeState, Checked
<1>4. Exclusive
  BY DEF Exclusive, Checked, Cleared
<1>5. OnlyRunner
  BY DEF OnlyRunner, is_alive
<1>6. Outcome
  BY DEF Outcome, Working
<1>7. Replies
  BY DEF Replies, Polling
<1>. QED
  BY <1>2, <1>3, <1>4, <1>5, <1>6, <1>7 DEF RunnerInv

\* A stuttering step.
LEMMA RunnerUnchanged ==
  ASSUME RunnerInv, UNCHANGED vars
  PROVE  RunnerInv'
<1>1. UNCHANGED <<runner_thread, runner_error, progress, model_state, thread, optimized,
                  artifacts, client, nextRun>>
  BY DEF vars
<1>. QED
  BY <1>1 DEF RunnerInv, TypeInv, Fresh, Exclusive, OnlyRunner, Outcome, Replies, is_busy,
     is_alive

\* Every step keeps RunnerInv.
LEMMA RunnerNext ==
  ASSUME RunnerInv, SingleExecutor, [Next]_vars
  PROVE  RunnerInv'
<1>1. CASE \E c \in Clients : Handle(c)
  <2>. PICK c \in Clients : Handle(c)
    BY <1>1
  <2>. QED
    BY checkKeeps, resetKeeps, clearThreadKeeps, resetFieldsKeep, delStateKeeps,
       newModelStateKeeps, newThreadKeeps, startThreadKeeps, checkDoneKeeps, logsKeep,
       getProgressKeeps, getErrorKeeps, sendReplyKeeps DEF Handle
<1>2. CASE \E r \in Runs : Step(r)
  BY <1>2, StepKeeps
<1>3. CASE \E c \in Executors, m \in Models : execute(c, m)
  BY <1>3, executeKeeps
<1>4. CASE \E c \in Pollers : status_check(c)
  BY <1>4, status_checkKeeps
<1>. QED
  BY <1>1, <1>2, <1>3, <1>4, RunnerUnchanged DEF Next

\* RunnerInv holds in every state.
LEMMA RunnerInductive == SingleExecutor => (Spec => []RunnerInv)
<1>. SUFFICES ASSUME SingleExecutor PROVE Spec => []RunnerInv
  OBVIOUS
<1>1. RunnerInv /\ [Next]_vars => RunnerInv'
  BY RunnerNext
<1>. QED
  BY <1>1, RunnerInit, PTL DEF Spec

\* A status that says that a run is done has its full progress, and its error
\* if it made no optimized model.
THEOREM HonestStatus == SingleExecutor => (Spec => []StatusHonest)
<1>. SUFFICES ASSUME SingleExecutor PROVE Spec => []StatusHonest
  OBVIOUS
<1>1. RunnerInv => StatusHonest
  <2>. SUFFICES ASSUME RunnerInv, NEW c \in Clients, NEW r \in Runs, Reports(c, r),
                       client[c].reply.done
                PROVE  /\ client[c].reply.progress = 100
                       /\ client[c].reply.error = NoError => r \in optimized
    BY DEF StatusHonest
  <2>. QED
    BY DEF RunnerInv, Replies, Reports, At, Polling
<1>. QED
  BY <1>1, RunnerInductive, PTL

\* Where neither the ModelStates nor the results change, no thread begins to
\* work, and those that have begun keep their model, the artifacts stay right.
LEMMA ArtifactsSame ==
  ASSUME TypeInv, ArtifactsInv, UNCHANGED <<model_state, optimized, artifacts>>,
         \A q \in Runs : /\ thread'[q].pc \in Working => thread[q].pc \in Working
                         /\ thread[q].pc \notin Unstarted =>
                              /\ thread'[q].pc \notin Unstarted
                              /\ thread'[q].model = thread[q].model
  PROVE  ArtifactsInv'
<1>1. \A m \in Models : artifacts[OutputDir[m]] \in Runs =>
        /\ thread'[artifacts[OutputDir[m]]].pc \notin Unstarted
        /\ thread'[artifacts[OutputDir[m]]].model = thread[artifacts[OutputDir[m]]].model
  BY DEF ArtifactsInv, Runs
<1>2. ArtifactsMatch'
  BY <1>1 DEF ArtifactsInv, ArtifactsMatch, Overwritten
<1>3. \A r \in Runs : thread'[r].pc \in Working => artifacts[OutputDir[thread'[r].model]] = r
  BY DEF ArtifactsInv, Working, Unstarted
<1>4. \A m \in Models : artifacts[OutputDir[m]] # 0 => artifacts[OutputDir[m]] \in Runs
  BY DEF TypeInv, Runs
<1>. QED
  BY <1>1, <1>2, <1>3, <1>4 DEF ArtifactsInv

\* The requests that touch the ModelStates do so before their run is optimized.
LEMMA ArtifactsHandle ==
  ASSUME RunnerInv, ArtifactsInv, NEW c \in Clients, Handle(c)
  PROVE  ArtifactsInv'
<1>1. CASE delState(c)
  <2>1. /\ model_state' = [model_state EXCEPT ![client[c].model] = 0]
        /\ UNCHANGED <<optimized, artifacts, thread>>
    BY <1>1 DEF delState, results
  <2>2. \A m \in Models : model_state'[m] \in {0, model_state[m]}
    BY <2>1 DEF RunnerInv, TypeInv
  <2>3. 0 \notin optimized
    BY DEF RunnerInv, TypeInv, Runs
  <2>. QED
    BY <2>1, <2>2, <2>3 DEF ArtifactsInv, ArtifactsMatch, Overwritten
<1>2. CASE newModelState(c)
  <2>1. /\ model_state' = [model_state EXCEPT ![client[c].model] = client[c].run]
        /\ UNCHANGED <<optimized, artifacts, thread>> /\ client[c].pc = "newState"
    BY <1>2 DEF newModelState, results, At
  <2>2. \A m \in Models : model_state'[m] \in {client[c].run, model_state[m]}
    BY <2>1 DEF RunnerInv, TypeInv
  <2>3. client[c].run \in Runs /\ thread[client[c].run].pc = "new"
    BY <2>1 DEF RunnerInv, Fresh, Executing, BeforeThread, BeforeState, Checked
  <2>4. client[c].run \notin optimized
    BY <2>3 DEF RunnerInv, Outcome, Ended
  <2>. QED
    BY <2>1, <2>2, <2>4 DEF ArtifactsInv, ArtifactsMatch, Overwritten
<1>3. CASE newThread(c)
  <2>. DEFINE r == client[c].run
  <2>1. /\ thread' = [thread EXCEPT ![r].pc = "created", ![r].model = client[c].model]
        /\ UNCHANGED <<model_state, optimized, artifacts>> /\ client[c].pc = "newThread"
    BY <1>3 DEF newThread, results, At
  <2>2. r \in Runs
    BY <2>1 DEF RunnerInv, Fresh, Executing, BeforeThread
  <2>3. thread'[r].pc = "created" /\ \A q \in Runs : q # r => thread'[q] = thread[q]
    BY <2>1, <2>2 DEF RunnerInv, TypeInv
  <2>4. thread[r].pc = "new"
    BY <2>1 DEF RunnerInv, Fresh, BeforeThread
  <2>. QED
    BY <2>1, <2>2, <2>3, <2>4, ArtifactsSame DEF RunnerInv, Working, Unstarted
<1>4. CASE startThread(c)
  <2>1. /\ \/ UNCHANGED thread
           \/ runner_thread # 0 /\ thread' = [thread EXCEPT ![runner_thread].pc = "begin"]
        /\ UNCHANGED <<model_state, optimized, artifacts>>
    BY <1>4 DEF startThread, fields, results
  <2>2. CASE UNCHANGED thread
    BY <2>1, <2>2, ArtifactsSame DEF RunnerInv
  <2>3. CASE runner_thread # 0 /\ thread' = [thread EXCEPT ![runner_thread].pc = "begin"]
    <3>1. runner_thread \in Runs
      BY <2>3 DEF RunnerInv, TypeInv, Runs
    <3>2. Advances(runner_thread, "begin")
      BY <2>3, <3>1, ThreadAdvances DEF RunnerInv, ThreadPcs
    <3>. QED
      BY <2>1, <3>1, <3>2, ArtifactsSame DEF RunnerInv, Advances, Working, Unstarted
  <2>. QED
    BY <2>1, <2>2, <2>3
<1>5. CASE \/ checkThread(c) \/ checkAlive(c) \/ reset_state(c) \/ assertAlive(c)
           \/ clearThread(c) \/ resetError(c) \/ resetProgress(c) \/ clearLogs(c)
           \/ checkDone(c) \/ logsNotEmpty(c) \/ getLog(c) \/ logsEmpty(c)
           \/ getProgress(c) \/ getError(c) \/ sendReply(c)
  <2>1. UNCHANGED <<model_state, optimized, artifacts, thread>>
    BY <1>5 DEF checkThread, checkAlive, reset_state, assertAlive, clearThread, resetError,
       resetProgress, clearLogs, checkDone, logsNotEmpty, getLog, logsEmpty, getProgress,
       getError, sendReply, fields, results
  <2>. QED
    BY <2>1, ArtifactsSame DEF RunnerInv
<1>. QED
  BY <1>1, <1>2, <1>3, <1>4, <1>5 DEF Handle

\* A run touches the directory of its own model, as the latest one.
LEMMA ArtifactsTouch ==
  ASSUME RunnerInv, ArtifactsInv, NEW r \in Runs, thread[r].pc = "begin", r = runner_thread,
         NEW p \in {"compile", "exceptOther"},
         artifacts' = [artifacts EXCEPT ![OutputDir[thread[r].model]] = r],
         UNCHANGED <<model_state, optimized>>,
         \A q \in Runs : /\ thread'[q].pc = IF q = r THEN p ELSE thread[q].pc
                         /\ thread'[q].model = thread[q].model
  PROVE  ArtifactsInv'
<1>. DEFINE m == thread[r].model
            dir == OutputDir[m]
<1>0. TypeInv
  BY DEF RunnerInv
<1>1. /\ m \in Models /\ model_state[m] = r /\ r # 0
      /\ \A n \in Models : model_state[n] = r => n = m
      /\ \A n \in Models : model_state[n] <= r
  BY DEF RunnerInv, OnlyRunner, Runs
<1>2. r \notin optimized
  BY DEF RunnerInv, Outcome, Ended
<1>3. \A q \in Runs : thread[q].pc \in Working => q = r
  BY DEF RunnerInv, OnlyRunner, is_alive, Working
<1>. HIDE DEF m
<1>4. /\ artifacts'[dir] = r
      /\ \A n \in Models : OutputDir[n] # dir => artifacts'[OutputDir[n]] = artifacts[OutputDir[n]]
  BY <1>0, <1>1 DEF TypeInv, m
<1>5. \A n \in Models : artifacts[OutputDir[n]] \in 0 .. MaxRuns /\ model_state[n] \in 0 .. MaxRuns
  BY <1>0 DEF TypeInv
<1>6. ArtifactsMatch'
  <2>. SUFFICES ASSUME NEW n \in Models, model_state[n] \in optimized
                PROVE  artifacts'[OutputDir[n]] = model_state[n] \/ Overwritten(n, model_state[n])'
    BY DEF ArtifactsMatch
  <2>1. model_state[n] < r /\ n # m
    BY <1>1, <1>2, <1>5 DEF Runs
  <2>2. CASE OutputDir[n] = dir
    BY <1>4, <2>1, <2>2 DEF Overwritten, m
  <2>3. CASE OutputDir[n] # dir
    BY <1>4, <2>3 DEF Overwritten, ArtifactsInv, ArtifactsMatch
  <2>. QED
    BY <2>2, <2>3
<1>7. \A q \in Runs : thread'[q].pc \in Working => q = r
  BY <1>3
<1>8. \A n \in Models : artifacts'[OutputDir[n]] # 0 =>
        thread'[artifacts'[OutputDir[n]]].pc \notin Unstarted
  <2>. SUFFICES ASSUME NEW n \in Models, OutputDir[n] # dir, artifacts[OutputDir[n]] # 0
                PROVE  thread'[artifacts[OutputDir[n]]].pc \notin Unstarted
    BY <1>4 DEF Unstarted
  <2>1. artifacts[OutputDir[n]] \in Runs
    BY <1>5 DEF Runs
  <2>. QED
    BY <2>1 DEF ArtifactsInv, Unstarted
<1>. QED
  BY <1>4, <1>6, <1>7, <1>8 DEF ArtifactsInv, m

\* A run is optimized when it has filled the directory of its model.
LEMMA ArtifactsStep ==
  ASSUME RunnerInv, ArtifactsInv, NEW r \in Runs, Step(r)
  PROVE  ArtifactsInv'
<1>. DEFINE m == thread[r].model
<1>0. TypeInv
  BY DEF RunnerInv
<1>1. thread[r].pc \notin Unstarted \cup {"dead"}
  BY DEF Step, prepare, compile, translate, perf, fullProgress, setError, logError, finally, exit,
     Stage, Unstarted, Raised
<1>2. m \in Models /\ model_state[m] = r /\ runner_thread = r /\ r # 0
  BY <1>1 DEF RunnerInv, OnlyRunner, is_alive, Unstarted, Runs
<1>3. \A n \in Models : model_state[n] = r => n = m
  BY <1>2 DEF RunnerInv, OnlyRunner
<1>4. \A q \in Runs : thread[q].pc \in Working => q = r
  BY <1>2 DEF RunnerInv, OnlyRunner, is_alive, Working
<1>. HIDE DEF m
<1>5. CASE prepare(r)
  <2>. DEFINE touched == artifacts' = [artifacts EXCEPT ![OutputDir[thread[r].model]] = r]
  <2>1. thread[r].pc = "begin" /\ UNCHANGED <<optimized, model_state>>
    BY <1>5 DEF prepare, Raise, Stage
  <2>2. CASE Raise(r, "exceptOther") /\ (touched \/ UNCHANGED artifacts)
    <3>1. Advances(r, "exceptOther")
      BY <1>0, <2>2, ThreadAdvances DEF Raise, ThreadPcs, Raised
    <3>2. CASE touched
      BY <1>2, <2>1, <3>1, <3>2, ArtifactsTouch DEF Advances
    <3>3. CASE UNCHANGED artifacts
      BY <1>0, <2>1, <3>1, <3>3, ArtifactsSame DEF Advances, Working, Unstarted
    <3>. QED
      BY <2>2, <3>2, <3>3
  <2>3. CASE /\ thread' = [thread EXCEPT ![r].pc = "compile", ![r].state = model_state[m]]
             /\ touched
    <3>1. \A q \in Runs : /\ thread'[q].pc = IF q = r THEN "compile" ELSE thread[q].pc
                          /\ thread'[q].model = thread[q].model
      BY <1>0, <2>3 DEF TypeInv
    <3>. QED
      BY <1>2, <2>1, <2>3, <3>1, ArtifactsTouch
  <2>. QED
    BY <1>5, <2>2, <2>3 DEF prepare, m
<1>6. CASE compile(r) \/ translate(r)
  <2>1. /\ thread[r].pc \in Working
        /\ \E p \in {"translate", "perf"} \cup Raised : thread' = [thread EXCEPT ![r].pc = p]
        /\ UNCHANGED <<model_state, optimized, artifacts>>
    BY <1>6 DEF compile, translate, Pass, Raise, results, Stage, Working, Raised
  <2>2. PICK p \in {"translate", "perf"} \cup Raised : thread' = [thread EXCEPT ![r].pc = p]
    BY <2>1
  <2>3. Advances(r, p)
    BY <1>0, <2>2, ThreadAdvances DEF ThreadPcs, Working
  <2>. QED
    BY <1>0, <2>1, <2>3, ArtifactsSame DEF Advances, Unstarted, Raised
<1>7. CASE perf(r)
  <2>1. thread[r].pc = "perf" /\ UNCHANGED <<model_state, artifacts>>
    BY <1>7 DEF perf, Pass, Raise, Stage
  <2>2. thread[r].state = r /\ artifacts[OutputDir[m]] = r
    BY <2>1 DEF RunnerInv, Outcome, Working, ArtifactsInv, m
  <2>3. optimized' \subseteq optimized \cup {r}
    BY <1>7, <2>2 DEF perf
  <2>4. \E p \in {"optimized"} \cup Raised : thread' = [thread EXCEPT ![r].pc = p]
    BY <1>7 DEF perf, Pass, Raise, Raised
  <2>5. PICK p \in {"optimized"} \cup Raised : thread' = [thread EXCEPT ![r].pc = p]
    BY <2>4
  <2>6. Advances(r, p)
    BY <1>0, <2>5, ThreadAdvances DEF ThreadPcs, Ended
  <2>7. \A q \in Runs : thread[q].pc \notin Unstarted => thread'[q].pc \notin Unstarted
    BY <2>6 DEF Advances, Unstarted, Raised
  <2>8. ArtifactsMatch'
    <3>1. \A n \in Models, q \in Nat : Overwritten(n, q) => Overwritten(n, q)'
      BY <2>1, <2>6 DEF Overwritten, Advances
    <3>2. \A n \in Models : model_state[n] \in Nat
      BY <1>0, RunsAssumption DEF TypeInv
    <3>. QED
      BY <1>3, <2>1, <2>2, <2>3, <3>1, <3>2 DEF ArtifactsInv, ArtifactsMatch
  <2>9. \A q \in Runs : thread'[q].pc \notin Working
    BY <1>4, <2>6 DEF Advances, Working, Raised
  <2>10. \A n \in Models : artifacts[OutputDir[n]] # 0 => artifacts[OutputDir[n]] \in Runs
    BY <1>0 DEF TypeInv, Runs
  <2>. QED
    BY <2>1, <2>7, <2>8, <2>9, <2>10 DEF ArtifactsInv
<1>8. CASE fullProgress(r) \/ setError(r) \/ logError(r) \/ finally(r) \/ exit(r)
  <2>1. /\ \E p \in Ended : thread' = [thread EXCEPT ![r].pc = p]
        /\ UNCHANGED <<model_state, optimized, artifacts>>
    BY <1>8 DEF fullProgress, setError, logError, Pass, finally, exit, fields, results, Ended
  <2>2. PICK p \in Ended : thread' = [thread EXCEPT ![r].pc = p]
    BY <2>1
  <2>3. Advances(r, p)
    BY <1>0, <2>2, ThreadAdvances DEF ThreadPcs
  <2>. QED
    BY <1>0, <2>1, <2>3, ArtifactsSame DEF Advances, Working, Ended, Unstarted
<1>. QED
  BY <1>5, <1>6, <1>7, <1>8 DEF Step

\* Every step keeps ArtifactsInv.
LEMMA ArtifactsNext ==
  ASSUME RunnerInv, ArtifactsInv, [Next]_vars
  PROVE  ArtifactsInv'
<1>1. CASE \E c \in Executors, n \in Models : execute(c, n)
  <2>1. UNCHANGED <<model_state, optimized, artifacts, thread>>
    BY <1>1 DEF execute, fields, results
  <2>. QED
    BY <2>1, ArtifactsSame DEF RunnerInv
<1>2. CASE \E c \in Pollers : status_check(c)
  <2>1. UNCHANGED <<model_state, optimized, artifacts, thread>>
    BY <1>2 DEF status_check, fields, results
  <2>. QED
    BY <2>1, ArtifactsSame DEF RunnerInv
<1>3. CASE UNCHANGED vars
  <2>1. UNCHANGED <<model_state, optimized, artifacts, thread>>
    BY <1>3 DEF vars
  <2>. QED
    BY <2>1, ArtifactsSame DEF RunnerInv
<1>. QED
  BY <1>1, <1>2, <1>3, ArtifactsHandle, ArtifactsStep DEF Next

\* With one request thread that starts runs, convert finds the artifacts of
\* the run that optimized the model, unless a later run of another model with
\* the same file name has replaced them.
THEOREM ArtifactsOfTheRun == SingleExecutor => (Spec => []ArtifactsMatch)
<1>. SUFFICES ASSUME SingleExecutor PROVE Spec => []ArtifactsMatch
  OBVIOUS
<1>1. Init => ArtifactsInv
  <2>. SUFFICES ASSUME Init PROVE ArtifactsInv
    OBVIOUS
  <2>1. \A r \in Runs : thread[r].pc \notin Working
    BY DEF Init, Working
  <2>. QED
    BY <2>1 DEF Init, ArtifactsInv, ArtifactsMatch
<1>2. RunnerInv /\ ArtifactsInv /\ [Next]_vars => ArtifactsInv'
  BY ArtifactsNext
<1>3. ArtifactsInv => ArtifactsMatch
  BY DEF ArtifactsInv
<1>4. Spec => []RunnerInv
  BY RunnerInductive
<1>. QED
  BY <1>1, <1>2, <1>3, <1>4, PTL DEF Spec
=============================================================================
