------------------------------- MODULE Server -------------------------------
(***************************************************************************)
(* The life of the HTTP server: the console thread that obeys `start`,     *)
(* `stop` and `exit` (CommandManager.cs), the HttpListener it creates,     *)
(* starts and closes, and the tasks that loop over GetContext, handle a    *)
(* request and close its response (Server.cs).                             *)
(*                                                                         *)
(* The k-th successful `start` creates listener k and task k.  Listener 0  *)
(* is the one of the field initialiser, which is never started.  What a    *)
(* handler does to the data is left to the managers' modules: here a       *)
(* handler returns or throws.                                              *)
(***************************************************************************)
EXTENDS Naturals, Sequences

CONSTANTS
    Requests,     \* the HTTP requests clients may send, each at most once
    Gets,         \* those whose handler writes the answer: the GET requests
    NoRequest,    \* the task is not handling a request
    MaxStarts     \* bound: the number of listeners `start` may create

ASSUME ServerAssumption ==
    /\ NoRequest \notin Requests
    /\ Gets \subseteq Requests
    /\ MaxStarts \in Nat

VARIABLES
    process,       \* the operating system's view of the program
    stdin,         \* standard input: open, or at its end
    isWorking,     \* CommandManager.isWorking
    console,       \* where the console thread is
    command,       \* the command it is executing
    httpListener,  \* the field Server.httpListener: the index of a listener
    listener,      \* the state of every HttpListener object
    contextQueue,  \* the contexts waiting in the started listener
    pc,            \* where every listener task is
    taskListener,  \* the listener a task last called GetContext on
    taskRequest,   \* the request of the context a task holds
    requestState,  \* what has become of every request
    hurried        \* history: the server has been stopped while a task was busy

consoleVars == <<process, stdin, isWorking, console, command, hurried>>
listenerVars == <<httpListener, listener, contextQueue>>
taskVars == <<pc, taskListener, taskRequest>>
vars == <<process, stdin, isWorking, console, command, httpListener, listener,
          contextQueue, pc, taskListener, taskRequest, requestState, hurried>>

Listeners == 0 .. MaxStarts
Tasks == 1 .. MaxStarts

(***************************************************************************)
(* GetContext and the handlers throw, and nothing in the task catches: the *)
(* task ends for good.  The two ends are told apart by where it happened.  *)
(***************************************************************************)
Ended == {"getContextThrew", "handlerThrew"}
Handling == {"handle", "close"}
TaskStates == {"none", "loop", "get"} \cup Handling \cup Ended
ConsoleStates == {"read", "sync", "startServer", "spawn", "closeListener", "leave"}
RequestStates == {"unsent", "queued", "handling", "answered", "dropped", "abandoned"}

TypeOK ==
    /\ process \in {"running", "exited", "crashed"}
    /\ stdin \in {"open", "ended"}
    /\ isWorking \in BOOLEAN
    /\ console \in ConsoleStates
    /\ command \in {"none", "start", "stop", "exit"}
    /\ httpListener \in Listeners
    /\ listener \in [Listeners -> {"none", "new", "started", "stopped", "closed"}]
    /\ contextQueue \in Seq(Requests)
    /\ pc \in [Tasks -> TaskStates]
    /\ taskListener \in [Tasks -> Listeners]
    /\ taskRequest \in [Tasks -> Requests \cup {NoRequest}]
    /\ requestState \in [Requests -> RequestStates]
    /\ hurried \in BOOLEAN

Init ==
    /\ process = "running"
    /\ stdin = "open"
    /\ isWorking = TRUE
    /\ console = "read"
    /\ command = "none"
    /\ httpListener = 0
    /\ listener = [l \in Listeners |-> IF l = 0 THEN "new" ELSE "none"]
    /\ contextQueue = <<>>
    /\ pc = [t \in Tasks |-> "none"]
    /\ taskListener = [t \in Tasks |-> 0]
    /\ taskRequest = [t \in Tasks |-> NoRequest]
    /\ requestState = [r \in Requests |-> "unsent"]
    /\ hurried = FALSE

IsListening == listener[httpListener] = "started"
Idle == \A t \in Tasks : pc[t] \in {"none", "get"} \cup Ended
Live(t) == pc[t] \notin {"none"} \cup Ended

-----------------------------------------------------------------------------
(***************************************************************************)
(* The console thread                                                      *)
(***************************************************************************)
ConsoleGoes(from, to) ==
    /\ process = "running"
    /\ console = from
    /\ console' = to

\* The loop reads a line only while isWorking.
Reads(cmd, to) ==
    /\ ConsoleGoes("read", to)
    /\ stdin = "open"
    /\ isWorking
    /\ command' = cmd

\* The terminal hangs up, or the file the commands come from ends.
InputEnds ==
    /\ stdin = "open" /\ stdin' = "ended"
    /\ process = "running"
    /\ UNCHANGED <<process, isWorking, console, command, hurried, listenerVars,
                   taskVars, requestState>>

\* Deviation: the null of ReadLine ends the loop.
NullEndsLoop ==
    /\ ConsoleGoes("read", "read")
    /\ stdin = "ended"
    /\ isWorking
    /\ isWorking' = FALSE
    /\ UNCHANGED <<stdin, hurried, process, command, listenerVars, taskVars, requestState>>

\* No command, and also what the null at the end of the input becomes by
\* `+ ""`: the loop reads on, at the end of the input without a pause.
WrongCommand ==
    /\ ConsoleGoes("read", "read")
    /\ isWorking
    /\ command' = "none"
    /\ UNCHANGED <<stdin, hurried, process, isWorking, listenerVars, taskVars, requestState>>

CreatesListener ==
    /\ httpListener < MaxStarts
    /\ httpListener' = httpListener + 1
    /\ listener' = [listener EXCEPT ![httpListener + 1] = "new"]
    /\ UNCHANGED contextQueue

\* Deviation: serverInit without its test of IsListening.
ServerInitUnguarded ==
    /\ Reads("start", "sync")
    /\ CreatesListener
    /\ UNCHANGED <<stdin, hurried, process, isWorking, taskVars, requestState>>

\* `start`: serverInit replaces the listener unless it is listening.
ServerInit ==
    /\ \/ /\ IsListening
          /\ Reads("start", "startServer")
          /\ UNCHANGED listenerVars
       \/ /\ ~IsListening
          /\ Reads("start", "sync")
          /\ CreatesListener
    /\ UNCHANGED <<stdin, hurried, process, isWorking, taskVars, requestState>>

\* syncDBToDictionary, on the console thread: nothing catches what it throws.
SyncReturns ==
    /\ ConsoleGoes("sync", "startServer")
    /\ UNCHANGED <<stdin, hurried, process, isWorking, command, listenerVars, taskVars, requestState>>

SyncThrows ==
    /\ ConsoleGoes("sync", "sync")
    /\ process' = "crashed"
    /\ UNCHANGED <<stdin, hurried, isWorking, command, listenerVars, taskVars, requestState>>

\* startServer: a listener that is already listening is left as it is.
StartListener ==
    /\ \/ /\ IsListening
          /\ ConsoleGoes("startServer", "read")
          /\ UNCHANGED listener
       \/ /\ ~IsListening
          /\ ConsoleGoes("startServer", "spawn")
          /\ listener' = [listener EXCEPT ![httpListener] = "started"]
    /\ UNCHANGED <<stdin, hurried, process, isWorking, command, httpListener, contextQueue,
                   taskVars, requestState>>

\* HttpListener.Start throws, for instance because the port is taken.
StartThrows ==
    /\ ~IsListening
    /\ ConsoleGoes("startServer", "startServer")
    /\ process' = "crashed"
    /\ UNCHANGED <<stdin, hurried, isWorking, command, listenerVars, taskVars, requestState>>

\* Deviation: only the first `start` creates a task.
SpawnTaskOnce ==
    /\ ConsoleGoes("spawn", "read")
    /\ pc' = IF \A t \in Tasks : pc[t] = "none"
             THEN [pc EXCEPT ![httpListener] = "loop"] ELSE pc
    /\ UNCHANGED <<stdin, hurried, process, isWorking, command, listenerVars, taskListener,
                   taskRequest, requestState>>

\* Task.Factory.StartNew: the task begins at the head of its loop.
SpawnTask ==
    /\ ConsoleGoes("spawn", "read")
    /\ pc' = [pc EXCEPT ![httpListener] = "loop"]
    /\ UNCHANGED <<stdin, hurried, process, isWorking, command, listenerVars, taskListener,
                   taskRequest, requestState>>

\* Every connection of the listener is closed: those of the contexts that wait,
\* and those of the contexts the tasks have taken.
DropsConnections ==
    requestState' = [r \in Requests |->
        IF requestState[r] \in {"queued", "handling"} THEN "dropped" ELSE requestState[r]]

\* Deviation: Stop forgets the contexts in its queue without closing them.
StopsForgetting ==
    /\ listener' = [listener EXCEPT ![httpListener] = "stopped"]
    /\ contextQueue' = <<>>
    /\ UNCHANGED <<httpListener, requestState>>

\* HttpListener.Stop
Stops ==
    /\ listener' = [listener EXCEPT ![httpListener] = "stopped"]
    /\ contextQueue' = <<>>
    /\ DropsConnections
    /\ UNCHANGED httpListener

\* stopServer, called by `stop` and by `exit`, up to the call of Stop.
StopServer ==
    /\ IsListening
    /\ hurried' = (hurried \/ ~Idle)
    /\ \E cmd \in {"stop", "exit"} : Reads(cmd, "closeListener")
    /\ Stops
    /\ UNCHANGED <<stdin, process, isWorking, taskVars>>

\* Deviation: the listener is stopped but never closed.
CloseForgotten ==
    /\ ConsoleGoes("closeListener", IF command = "exit" THEN "leave" ELSE "read")
    /\ UNCHANGED <<stdin, hurried, process, isWorking, command, listenerVars, taskVars, requestState>>

\* HttpListener.Close; `exit` then leaves the switch to end the loop.
CloseListener ==
    /\ ConsoleGoes("closeListener", IF command = "exit" THEN "leave" ELSE "read")
    /\ listener' = [listener EXCEPT ![httpListener] = "closed"]
    /\ UNCHANGED <<stdin, hurried, process, isWorking, command, httpListener, contextQueue,
                   taskVars, requestState>>

\* `exit` of a server that is not listening: stopServer does nothing.
ExitStopped ==
    /\ ~IsListening
    /\ Reads("exit", "leave")
    /\ UNCHANGED <<stdin, hurried, process, isWorking, listenerVars, taskVars, requestState>>

\* Deviation: `exit` does not end the command loop.
KeepsWorking ==
    /\ ConsoleGoes("leave", "read")
    /\ UNCHANGED <<stdin, hurried, process, isWorking, command, listenerVars, taskVars, requestState>>

\* isWorking = false, and the loop tests it next.
StopsWorking ==
    /\ ConsoleGoes("leave", "read")
    /\ isWorking' = FALSE
    /\ UNCHANGED <<stdin, hurried, process, command, listenerVars, taskVars, requestState>>

\* The command thread was the last foreground thread: the process ends with
\* it and takes the listener tasks, wherever they are, down.
ProcessExits ==
    /\ ConsoleGoes("read", "read")
    /\ ~isWorking
    /\ process' = "exited"
    /\ UNCHANGED <<stdin, hurried, isWorking, command, listenerVars, taskVars, requestState>>

\* syncWP or `send query` throws (the database is down): nothing catches.
CommandThrows ==
    /\ ConsoleGoes("read", "read")
    /\ stdin = "open"
    /\ isWorking
    /\ process' = "crashed"
    /\ UNCHANGED <<stdin, hurried, isWorking, command, listenerVars, taskVars, requestState>>

-----------------------------------------------------------------------------
(***************************************************************************)
(* The clients and the listener tasks                                      *)
(***************************************************************************)
Arrives(r) ==
    /\ process = "running"
    /\ IsListening
    /\ requestState[r] = "unsent"
    /\ requestState' = [requestState EXCEPT ![r] = "queued"]
    /\ contextQueue' = Append(contextQueue, r)
    /\ UNCHANGED <<consoleVars, httpListener, listener, taskVars>>

TaskGoes(t, from, to) ==
    /\ process = "running"
    /\ pc[t] = from
    /\ pc' = [pc EXCEPT ![t] = to]

\* The task reads the field: after stop and start it is another listener.
CallsGetContext(t) ==
    /\ TaskGoes(t, "loop", "get")
    /\ taskListener' = [taskListener EXCEPT ![t] = httpListener]
    /\ UNCHANGED <<consoleVars, listenerVars, taskRequest, requestState>>

\* Deviation: GetContext leaves the context in the queue.
GetContextPeeks(t) ==
    /\ TaskGoes(t, "get", "handle")
    /\ listener[taskListener[t]] = "started"
    /\ contextQueue # <<>>
    /\ taskRequest' = [taskRequest EXCEPT ![t] = Head(contextQueue)]
    /\ requestState' = [requestState EXCEPT ![Head(contextQueue)] = "handling"]
    /\ UNCHANGED <<consoleVars, listenerVars, taskListener>>

GetContextReturns(t) ==
    /\ TaskGoes(t, "get", "handle")
    /\ listener[taskListener[t]] = "started"
    /\ contextQueue # <<>>
    /\ taskRequest' = [taskRequest EXCEPT ![t] = Head(contextQueue)]
    /\ requestState' = [requestState EXCEPT ![Head(contextQueue)] = "handling"]
    /\ contextQueue' = Tail(contextQueue)
    /\ UNCHANGED <<consoleVars, httpListener, listener, taskListener>>

\* Deviation: the loop swallows the exception and goes round again.
GetContextRetried(t) ==
    /\ TaskGoes(t, "get", "loop")
    /\ listener[taskListener[t]] # "started"
    /\ UNCHANGED <<consoleVars, listenerVars, taskListener, taskRequest, requestState>>

\* GetContext of a listener that is not, or no longer, started.
GetContextThrows(t) ==
    /\ TaskGoes(t, "get", "getContextThrew")
    /\ listener[taskListener[t]] # "started"
    /\ UNCHANGED <<consoleVars, listenerVars, taskListener, taskRequest, requestState>>

\* What the end of its handling means to a client: nothing any more once its
\* connection has been closed, or its answer sent.
Ends(r, end) ==
    requestState' = [requestState EXCEPT ![r] = IF @ = "handling" THEN end ELSE @]

\* Deviation: a write to a connection that has been closed is ignored.
HandlerReturnsIgnoring(t) ==
    /\ TaskGoes(t, "handle", "close")
    /\ Ends(taskRequest[t], "answered")
    /\ UNCHANGED <<consoleVars, listenerVars, taskListener, taskRequest>>

\* dataReceived returns.  A GET has been answered by then: its write needs the
\* connection.  The others need none: POST /imageupload closes its response
\* itself, silently if the connection is gone, the rest leave it to the loop.
HandlerReturns(t) ==
    /\ TaskGoes(t, "handle", "close")
    /\ \/ requestState[taskRequest[t]] = "handling" /\ Ends(taskRequest[t], "answered")
       \/ taskRequest[t] \notin Gets /\ UNCHANGED requestState
    /\ UNCHANGED <<consoleVars, listenerVars, taskListener, taskRequest>>

Releases(t, end) ==
    /\ Ends(taskRequest[t], end)
    /\ taskRequest' = [taskRequest EXCEPT ![t] = NoRequest]
    /\ UNCHANGED <<consoleVars, listenerVars, taskListener>>

\* context.Response.Close(), which says nothing of a connection that is gone: the
\* task of a stopped listener goes on.
CloseReturns(t) == TaskGoes(t, "close", "loop") /\ Releases(t, "answered")

\* Deviation: a handler that throws puts its request in a state of its own.
HandlerThrowsRetrying(t) ==
    \E from \in Handling : TaskGoes(t, from, "handlerThrew") /\ Releases(t, "retry")

\* dataReceived throws (no database connection, a value of the wrong JSON type, a
\* client that is gone or was cut off by a stop), or closing the response does.
HandlerThrows(t) ==
    \E from \in Handling : TaskGoes(t, from, "handlerThrew") /\ Releases(t, "abandoned")

-----------------------------------------------------------------------------
\* What the console thread does by itself once a command has been read.
ConsoleStep ==
    \/ SyncReturns \/ SyncThrows
    \/ StartListener \/ StartThrows \/ SpawnTask
    \/ CloseListener \/ StopsWorking \/ ProcessExits

TaskStep(t) ==
    \/ CallsGetContext(t) \/ GetContextReturns(t) \/ GetContextThrows(t)
    \/ HandlerReturns(t) \/ CloseReturns(t) \/ HandlerThrows(t)

\* A process that is gone does nothing.
Terminated == process # "running" /\ UNCHANGED vars

Next ==
    \/ ServerInit \/ StopServer \/ ExitStopped \/ CommandThrows
    \/ InputEnds \/ WrongCommand
    \/ ConsoleStep
    \/ \E r \in Requests : Arrives(r)
    \/ \E t \in Tasks : TaskStep(t)
    \/ Terminated

Spec == Init /\ [][Next]_vars

LoopStep(t) ==
    \/ CallsGetContext(t) \/ GetContextReturns(t) \/ GetContextThrows(t)
    \/ CloseReturns(t) \/ (pc[t] = "close" /\ HandlerThrows(t))

HandlerEnds(t) == pc[t] = "handle" /\ (HandlerReturns(t) \/ HandlerThrows(t))

\* The threads run; database calls end (MySql.Data times them out).  A handler
\* may wait for its client, for the rest of a body or for an answer to be taken,
\* with no timeout: it has to end only once its connection is closed.
FairSpec ==
    /\ Spec
    /\ WF_vars(ConsoleStep)
    /\ \A t \in Tasks :
        /\ WF_vars(LoopStep(t))
        /\ WF_vars(HandlerEnds(t) /\ requestState[taskRequest[t]] # "handling")

\* No client keeps its handler waiting for ever.  Nothing in the program sees to it.
Cooperative == \A t \in Tasks : WF_vars(HandlerEnds(t))

-----------------------------------------------------------------------------
(***************************************************************************)
(* Properties                                                              *)
(***************************************************************************)

\* A listener that serverInit has replaced holds no port: whatever has been
\* started has been stopped and closed before the field forgot it.
NoLeakedListener ==
    \A l \in Listeners :
        listener[l] \in {"started", "stopped"} => l = httpListener

\* A request waits in the queue once, or is handled by exactly one task: two
\* tasks on one listener never get the same context.  A task may hold a request
\* whose connection has been closed, or answered, under its hands.
RequestOwnership ==
    /\ \A i, j \in DOMAIN contextQueue : contextQueue[i] = contextQueue[j] => i = j
    /\ \A r \in Requests :
        requestState[r] = "queued" <=> \E i \in DOMAIN contextQueue : contextQueue[i] = r
    /\ \A r \in Requests :
        requestState[r] = "handling" => \E t \in Tasks : taskRequest[t] = r
    /\ \A t \in Tasks : taskRequest[t] # NoRequest =>
        requestState[taskRequest[t]] \in {"handling", "answered", "dropped"}
    /\ \A t, u \in Tasks : taskRequest[t] = taskRequest[u] /\ taskRequest[t] # NoRequest => t = u

\* A server that is listening, and not just starting, has the task of its
\* own `start`, unless a handler of that task threw: GetContext never ends
\* the task of a listener that is still listening, and no `start` is answered
\* by an older task alone.
StartedListenerHasItsTask ==
    IsListening /\ console # "spawn" =>
        pc[httpListener] \notin {"none", "getContextThrew"}

\* As long as only an idle server is stopped, handlers never overlap, however
\* often it is restarted: what the managers' check-then-act relies on.
SerialHandling ==
    ~hurried => \A t, u \in Tasks : pc[t] \in Handling /\ pc[u] \in Handling => t = u

\* What became of a request is final, and nobody is answered by a stopped server,
\* although tasks and handlers outlive the stop: not by a task that finishes what
\* it had taken, and not by one that has joined the listener of the next start.
RequestLifecycle ==
    [][\A r \in Requests :
        /\ requestState[r] \in {"answered", "dropped", "abandoned"} =>
            requestState'[r] = requestState[r]
        /\ requestState[r] # "answered" /\ requestState'[r] = "answered" =>
            IsListening]_vars

\* `exit` ends the program, even with requests in progress.
ExitEndsProcess == command = "exit" ~> process # "running"

\* Once the server is stopped and not started again, every task ends: also one
\* that was in a handler when its listener was closed.
StopEndsTasks ==
    <>[](~IsListening) => <>[](process # "running" \/ \A t \in Tasks : ~Live(t))

\* If clients take part, every accepted request is answered, dropped by a stop or
\* abandoned by a handler that threw.  Only an exception in the handler of the
\* newest task can leave a request waiting: older tasks may fail as they like.
RequestsResolved == Cooperative =>
    \A r \in Requests :
        requestState[r] = "queued" ~>
            \/ requestState[r] \in {"answered", "dropped", "abandoned"}
            \/ process # "running"
            \/ IsListening /\ pc[httpListener] = "handlerThrew"

\* A server whose console is gone goes on: what it has accepted when the command
\* loop finds the end of its input is neither dropped nor lost with the process,
\* if clients take part.
ServesWithoutConsole == Cooperative =>
    \A r \in Requests :
        stdin = "ended" /\ console = "read" /\ requestState[r] = "queued" ~>
            \/ requestState[r] \in {"answered", "abandoned"}
            \/ process = "running" /\ IsListening /\ pc[httpListener] = "handlerThrew"

\* Program.cs:19 offers "start" as the command that runs the server: when it
\* has been obeyed, a task serves the listener.
StartRunsServer ==
    [][command = "start" /\ console # "read" /\ console' = "read" =>
        \E t \in Tasks : Live(t)']_vars
=============================================================================
