----------------------------- MODULE ModelRunner -----------------------------
(***************************************************************************)
(* tt-explorer's ModelRunner (tools/explorer/tt_adapter runner.py, main.py):*)
(* a singleton that compiles and runs one model at a time in a thread of   *)
(* its own, while requests of the frontend start runs and poll for status. *)
(*                                                                         *)
(* A client is a request thread of the server; each handles one request at *)
(* a time, and steps of different clients and of the runner thread         *)
(* interleave between any two reads or writes of the runner's fields.      *)
(***************************************************************************)
EXTENDS Integers

CONSTANTS
    Executors,      \* request threads that start runs
    Pollers,        \* request threads that check the status
    Models,         \* model paths
    OutputDir,      \* model path -> its directory under the artifacts
    Flatbuffers,    \* the model paths that end in .ttnn
    NoError,        \* the value None of runner_error
    EmptyError,     \* the error string of an exception without a message
    MaxRuns,        \* bound on the runs that are started
    MaxPolls        \* bound on the status checks

ASSUME RunsAssumption ==
    /\ MaxRuns \in Nat
    /\ MaxPolls \in Nat
    /\ Flatbuffers \subseteq Models
    /\ OutputDir \in [Models -> {OutputDir[m] : m \in Models}]

Clients == Executors \cup Pollers
Runs == 1 .. MaxRuns

\* The message of a run, here the run, and the empty string are not None.
ASSUME ErrorAssumption == NoError \notin Runs \cup {EmptyError}

VARIABLES
    runner_thread,  \* the run whose thread the field holds, or 0
    runner_error,
    progress,
    log_queue,      \* number of lines in the queue
    model_state,    \* model path -> the run whose ModelState it has, or 0
    thread,         \* run -> [pc, model, state]: its thread
    optimized,      \* the runs whose ModelState has an optimized_model_path
    artifacts,      \* directory -> the run that removed or made it last, or 0
    client,         \* client -> [pc, model, run, reply]
    nextRun,
    polls

vars == <<runner_thread, runner_error, progress, log_queue, model_state, thread,
          optimized, artifacts, client, nextRun, polls>>

fields == <<runner_thread, runner_error, progress, log_queue, model_state>>
results == <<optimized, artifacts>>

NoReply == [run |-> 0, done |-> FALSE, progress |-> 0, error |-> NoError]

AnyModel == CHOOSE m \in Models : TRUE

Init ==
    /\ runner_thread = 0
    /\ runner_error = NoError
    /\ progress = 0
    /\ log_queue = 0
    /\ model_state = [m \in Models |-> 0]
    /\ thread = [r \in Runs |-> [pc |-> "new", model |-> AnyModel, state |-> 0]]
    /\ optimized = {}
    /\ artifacts = [d \in {OutputDir[m] : m \in Models} |-> 0]
    /\ client = [c \in Clients |-> [pc |-> "idle", model |-> AnyModel, run |-> 0,
                                    reply |-> NoReply]]
    /\ nextRun = 1
    /\ polls = 0

is_alive(r) == thread[r].pc \notin {"new", "created", "dead"}

is_busy == runner_thread # 0 /\ is_alive(runner_thread)

At(c, p) == client[c].pc = p
Goto(c, p) == client' = [client EXCEPT ![c].pc = p]

-----------------------------------------------------------------------------
(* TTAdapter.execute: ModelRunner.run                                      *)

execute(c, m) ==
    /\ At(c, "idle")
    /\ nextRun \in Runs
    /\ client' = [client EXCEPT ![c].pc = "run", ![c].model = m, ![c].run = nextRun]
    /\ nextRun' = nextRun + 1
    /\ UNCHANGED <<fields, results, thread, polls>>

\* is_busy() reads the field twice: without a thread it is not busy, and
\* otherwise the thread is asked.  When another request has cleared the field
\* in between, None is asked, and the exception ends the request.
checkThread(c) ==
    /\ At(c, "run")
    /\ Goto(c, IF runner_thread = 0 THEN "reset" ELSE "runAlive")
    /\ UNCHANGED <<fields, results, thread, nextRun, polls>>

\* "A model is already being processed.  Please wait for it to finish."
checkAlive(c) ==
    /\ At(c, "runAlive")
    /\ Goto(c, IF runner_thread = 0 \/ is_busy THEN "idle" ELSE "reset")
    /\ UNCHANGED <<fields, results, thread, nextRun, polls>>

\* reset_state, whose assertion ends the request when it fails, and then the
\* fields one after the other.
reset_state(c) ==
    /\ At(c, "reset")
    /\ Goto(c, IF runner_thread = 0 THEN "clear" ELSE "resetAlive")
    /\ UNCHANGED <<fields, results, thread, nextRun, polls>>

assertAlive(c) ==
    /\ At(c, "resetAlive")
    /\ Goto(c, IF runner_thread = 0 \/ is_busy THEN "idle" ELSE "clear")
    /\ UNCHANGED <<fields, results, thread, nextRun, polls>>

clearThread(c) ==
    /\ At(c, "clear")
    /\ runner_thread' = 0
    /\ Goto(c, "resetError")
    /\ UNCHANGED <<runner_error, progress, log_queue, model_state, results,
                   thread, nextRun, polls>>

resetError(c) ==
    /\ At(c, "resetError")
    /\ runner_error' = NoError
    /\ Goto(c, "resetProgress")
    /\ UNCHANGED <<runner_thread, progress, log_queue, model_state, results,
                   thread, nextRun, polls>>

resetProgress(c) ==
    /\ At(c, "resetProgress")
    /\ progress' = 0
    /\ Goto(c, "clearLogs")
    /\ UNCHANGED <<runner_thread, runner_error, log_queue, model_state, results,
                   thread, nextRun, polls>>

clearLogs(c) ==
    /\ At(c, "clearLogs")
    /\ log_queue' = 0
    /\ Goto(c, "delState")
    /\ UNCHANGED <<runner_thread, runner_error, progress, model_state, results,
                   thread, nextRun, polls>>

delState(c) ==
    /\ At(c, "delState")
    /\ model_state' = [model_state EXCEPT ![client[c].model] = 0]
    /\ Goto(c, "newState")
    /\ UNCHANGED <<runner_thread, runner_error, progress, log_queue, results,
                   thread, nextRun, polls>>

newModelState(c) ==
    /\ At(c, "newState")
    /\ model_state' = [model_state EXCEPT ![client[c].model] = client[c].run]
    /\ Goto(c, "newThread")
    /\ UNCHANGED <<runner_thread, runner_error, progress, log_queue, results,
                   thread, nextRun, polls>>

newThread(c) ==
    LET r == client[c].run
    IN  /\ At(c, "newThread")
        /\ runner_thread' = r
        /\ thread' = [thread EXCEPT ![r].pc = "created", ![r].model = client[c].model]
        /\ Goto(c, "start")
        /\ UNCHANGED <<runner_error, progress, log_queue, model_state, results,
                       nextRun, polls>>

\* self.runner_thread.start() reads the field again; it raises when another
\* request has cleared it or has started that thread.
startThread(c) ==
    /\ At(c, "start")
    /\ thread' = IF runner_thread # 0 /\ thread[runner_thread].pc = "created"
                 THEN [thread EXCEPT ![runner_thread].pc = "begin"]
                 ELSE thread
    /\ Goto(c, "idle")
    /\ UNCHANGED <<fields, results, nextRun, polls>>

-----------------------------------------------------------------------------
(* TTAdapter.status_check: four reads of the runner, in this order         *)

\* The run that the check for done is about: the runner's, once started.
\* Between newThread and startThread a status also says that it is done.
startedRun ==
    IF runner_thread # 0 /\ thread[runner_thread].pc # "created"
    THEN runner_thread ELSE 0

\* The first read of is_busy.
status_check(c) ==
    /\ At(c, "idle")
    /\ polls < MaxPolls
    /\ polls' = polls + 1
    /\ client' = [client EXCEPT
                    ![c].pc = IF runner_thread = 0 THEN "logs" ELSE "alive",
                    ![c].reply = [NoReply EXCEPT !.done = (runner_thread = 0)]]
    /\ UNCHANGED <<fields, results, thread, nextRun>>

\* The second read, which raises when the field was cleared.
checkDone(c) ==
    /\ At(c, "alive")
    /\ IF runner_thread = 0
       THEN client' = [client EXCEPT ![c].pc = "idle", ![c].reply = NoReply]
       ELSE client' = [client EXCEPT ![c].pc = "logs", ![c].reply.run = startedRun,
                                     ![c].reply.done = ~is_busy]
    /\ UNCHANGED <<fields, results, thread, nextRun, polls>>

\* A mutant of logsNotEmpty: a line is taken without looking.
logsUnchecked(c) ==
    /\ At(c, "logs")
    /\ Goto(c, "get")
    /\ UNCHANGED <<fields, results, thread, nextRun, polls>>

\* get_logs: while not empty(): get()
logsNotEmpty(c) ==
    /\ At(c, "logs")
    /\ log_queue > 0
    /\ Goto(c, "get")
    /\ UNCHANGED <<fields, results, thread, nextRun, polls>>

\* get() blocks on an empty queue.
getLog(c) ==
    /\ At(c, "get")
    /\ log_queue > 0
    /\ log_queue' = log_queue - 1
    /\ Goto(c, "logs")
    /\ UNCHANGED <<runner_thread, runner_error, progress, model_state, results,
                   thread, nextRun, polls>>

logsEmpty(c) ==
    /\ At(c, "logs")
    /\ log_queue = 0
    /\ Goto(c, "progress")
    /\ UNCHANGED <<fields, results, thread, nextRun, polls>>

getProgress(c) ==
    /\ At(c, "progress")
    /\ client' = [client EXCEPT ![c].pc = "error", ![c].reply.progress = progress]
    /\ UNCHANGED <<fields, results, thread, nextRun, polls>>

getError(c) ==
    /\ At(c, "error")
    /\ client' = [client EXCEPT ![c].pc = "replied", ![c].reply.error = runner_error]
    /\ UNCHANGED <<fields, results, thread, nextRun, polls>>

sendReply(c) ==
    /\ At(c, "replied")
    /\ client' = [client EXCEPT ![c].pc = "idle", ![c].reply = NoReply]
    /\ UNCHANGED <<fields, results, thread, nextRun, polls>>

-----------------------------------------------------------------------------
(* The runner thread: compile_and_run_wrapper and compile_and_run          *)

Stage(r, p) == thread[r].pc = p

\* The stage ends with its progress and its log, and the next one follows.
Pass(r, next, value) ==
    /\ thread' = [thread EXCEPT ![r].pc = next]
    /\ progress' = value
    /\ log_queue' = log_queue + 1
    /\ UNCHANGED <<runner_thread, runner_error, model_state>>

\* An exception leaves compile_and_run, after the lines that were logged: an
\* ExplorerRunException with a message ("except") or without one
\* ("exceptEmpty"), or any other ("exceptOther").
Raise(r, exception) ==
    /\ thread' = [thread EXCEPT ![r].pc = exception]
    /\ log_queue' = log_queue + 1
    /\ UNCHANGED <<runner_thread, runner_error, progress, model_state>>

\* A mutant of prepare: all the artifacts are removed.
prepareRemovesAll(r) ==
    LET m == thread[r].model
    IN  /\ Stage(r, "begin")
        /\ model_state[m] # 0
        /\ thread' = [thread EXCEPT ![r].pc = "compile", ![r].state = model_state[m]]
        /\ progress' = 10
        /\ artifacts' = [d \in DOMAIN artifacts |-> IF d = OutputDir[m] THEN r ELSE 0]
        /\ log_queue' = log_queue + 1
        /\ UNCHANGED <<runner_thread, runner_error, model_state, optimized, client,
                       nextRun, polls>>

\* The thread takes its ModelState, and makes a new output directory; reading
\* the model, the lookup or making the directory may raise, the last when the
\* old directory is gone.
prepare(r) ==
    LET m == thread[r].model
    IN  /\ Stage(r, "begin")
        /\ \/ /\ Raise(r, "exceptOther")
              /\ artifacts' \in {artifacts, [artifacts EXCEPT ![OutputDir[m]] = r]}
           \/ /\ model_state[m] # 0
              /\ thread' = [thread EXCEPT ![r].pc = "compile", ![r].state = model_state[m]]
              /\ progress' = 10
              /\ artifacts' = [artifacts EXCEPT ![OutputDir[m]] = r]
              /\ log_queue' = log_queue + 1
              /\ UNCHANGED <<runner_thread, runner_error, model_state>>
        /\ UNCHANGED <<optimized, client, nextRun, polls>>

compile(r) ==
    /\ Stage(r, "compile")
    /\ Pass(r, "translate", 20) \/ Raise(r, "except") \/ Raise(r, "exceptOther")
    /\ UNCHANGED <<results, client, nextRun, polls>>

\* A flatbuffer is translated in this process, and when that fails the
\* exception has no message.
translate(r) ==
    /\ Stage(r, "translate")
    /\ \/ Pass(r, "perf", 30)
       \/ Raise(r, IF thread[r].model \in Flatbuffers THEN "exceptEmpty" ELSE "except")
       \/ Raise(r, "exceptOther")
    /\ UNCHANGED <<results, client, nextRun, polls>>

\* ttrt perf succeeds, or ends with the code 42 of a failed test, and its
\* trace is read through model_state; or it fails.
perf(r) ==
    /\ Stage(r, "perf")
    /\ \/ /\ model_state[thread[r].model] # 0
          /\ optimized' = optimized \cup {thread[r].state}
          /\ Pass(r, "optimized", progress)
       \/ /\ Raise(r, "except") \/ Raise(r, "exceptOther")
          /\ UNCHANGED optimized
    /\ UNCHANGED <<artifacts, client, nextRun, polls>>

fullProgress(r) ==
    /\ Stage(r, "optimized")
    /\ progress' = 100
    /\ thread' = [thread EXCEPT ![r].pc = "finally"]
    /\ UNCHANGED <<runner_thread, runner_error, log_queue, model_state, results,
                   client, nextRun, polls>>

Raised == {"except", "exceptEmpty", "exceptOther"}

\* A mutant of setError: the finally clause runs first.
setErrorLate(r) ==
    /\ thread[r].pc \in Raised
    /\ progress' = 100
    /\ thread' = [thread EXCEPT ![r].pc = "dead"]
    /\ UNCHANGED <<runner_thread, runner_error, log_queue, model_state,
                   results, client, nextRun, polls>>

\* The error is the message of the exception, which another exception than
\* an ExplorerRunException also logs.
setError(r) ==
    /\ thread[r].pc \in Raised
    /\ runner_error' = IF Stage(r, "exceptEmpty") THEN EmptyError ELSE r
    /\ thread' = [thread EXCEPT ![r].pc = IF Stage(r, "exceptOther") THEN "logError"
                                                                     ELSE "finally"]
    /\ UNCHANGED <<runner_thread, progress, log_queue, model_state, results,
                   client, nextRun, polls>>

logError(r) ==
    /\ Stage(r, "logError")
    /\ Pass(r, "finally", progress)
    /\ UNCHANGED <<results, client, nextRun, polls>>

finally(r) ==
    /\ Stage(r, "finally")
    /\ progress' = 100
    /\ thread' = [thread EXCEPT ![r].pc = "exit"]
    /\ UNCHANGED <<runner_thread, runner_error, log_queue, model_state, results,
                   client, nextRun, polls>>

exit(r) ==
    /\ Stage(r, "exit")
    /\ thread' = [thread EXCEPT ![r].pc = "dead"]
    /\ UNCHANGED <<fields, results, client, nextRun, polls>>

Handle(c) ==
    \/ checkThread(c) \/ checkAlive(c) \/ reset_state(c) \/ assertAlive(c)
    \/ clearThread(c) \/ resetError(c) \/ resetProgress(c) \/ clearLogs(c)
    \/ delState(c) \/ newModelState(c) \/ newThread(c) \/ startThread(c)
    \/ checkDone(c) \/ logsNotEmpty(c) \/ getLog(c) \/ logsEmpty(c)
    \/ getProgress(c) \/ getError(c) \/ sendReply(c)

Step(r) ==
    \/ prepare(r) \/ compile(r) \/ translate(r) \/ perf(r) \/ fullProgress(r)
    \/ setError(r) \/ logError(r) \/ finally(r) \/ exit(r)

Next ==
    \/ \E c \in Executors, m \in Models : execute(c, m)
    \/ \E c \in Pollers : status_check(c)
    \/ \E c \in Clients : Handle(c)
    \/ \E r \in Runs : Step(r)

\* The interpreter schedules every request thread and the runner thread, and
\* the subprocesses of a run end.
Fairness ==
    /\ \A c \in Clients : WF_vars(Handle(c))
    /\ \A r \in Runs : WF_vars(Step(r))

Spec == Init /\ [][Next]_vars /\ Fairness

-----------------------------------------------------------------------------
(* Properties                                                              *)

\* "Ensuring only one can be run at a time": no two runner threads are alive.
OneRunAtATime == \A q, r \in Runs : is_alive(q) /\ is_alive(r) => q = r

\* Client c sends the status of the started run r, and the runner has not
\* been reset since the check for done.
Reports(c, r) ==
    At(c, "replied") /\ client[c].reply.run = r /\ runner_thread = r /\ r # 0

\* A status that says a started run is done is sent after the run's last
\* step, so that it has full progress, and it has no error only if the run
\* made an optimized model.
StatusHonest ==
    \A c \in Clients, r \in Runs :
        Reports(c, r) /\ client[c].reply.done =>
            /\ client[c].reply.progress = 100
            /\ client[c].reply.error = NoError => r \in optimized

\* The directory of m holds what run r left there, or has since been taken
\* by a later run of another model with the same file name.
Overwritten(m, r) ==
    LET q == artifacts[OutputDir[m]]
    IN  q \in Runs /\ q > r /\ thread[q].model # m
           /\ OutputDir[thread[q].model] = OutputDir[m]

\* convert finds what it shows: the directory of a model with an optimized
\* model is the one that the same run filled, and only a later run of a model
\* with the same file name takes it away.
ArtifactsMatch ==
    \A m \in Models :
        model_state[m] \in optimized =>
            artifacts[OutputDir[m]] = model_state[m] \/ Overwritten(m, model_state[m])

\* Every run that is started ends with an optimized model or with its error.
RunsEnd ==
    \A r \in Runs : is_alive(r) ~>
        thread[r].pc = "dead" /\ (runner_error \in {r, EmptyError} \/ r \in optimized)

\* A status check is answered, or raises: it does not wait for a line that is
\* not there.
PollsReturn == \A c \in Clients : ~At(c, "idle") ~> At(c, "idle")
=============================================================================
