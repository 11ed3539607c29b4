---------------------------- MODULE ServerProofs ----------------------------
(***************************************************************************)
(* Proofs about Server, for every set of requests and every number of      *)
(* starts.                                                                 *)
(***************************************************************************)
EXTENDS Server, TLAPS

(***************************************************************************)
(* Where the console thread is determines what the field's listener is.    *)
(***************************************************************************)
ConsoleInv ==
    /\ listener[0] = "new"
    /\ console \in {"sync", "startServer", "spawn"} => httpListener > 0
    /\ console = "sync" => listener[httpListener] = "new"
    /\ console = "startServer" => listener[httpListener] \in {"new", "started"}
    /\ console = "spawn" => listener[httpListener] = "started"
    /\ console = "closeListener" => listener[httpListener] = "stopped"
    /\ console \in {"read", "leave"} =>
        listener[httpListener] \in {"new", "started", "closed"}

\* `start` is under way and has not yet created its task.
Starting ==
    \/ console \in {"sync", "spawn"}
    \/ console = "startServer" /\ ~IsListening

(***************************************************************************)
(* Task t is created by the t-th start and only ever meets the listeners   *)
(* from t on; it holds a context exactly while it is handling one.         *)
(***************************************************************************)
TaskOK(t) ==
    /\ pc[t] # "none" => t <= httpListener
    /\ t = httpListener /\ Starting => pc[t] = "none"
    /\ pc[t] = "get" => taskListener[t] \in t .. httpListener
    /\ pc[t] \in Handling <=> taskRequest[t] # NoRequest

TaskInv == \A t \in Tasks : TaskOK(t)

\* A client is connected only to a listener that is listening: the field's.
OpenInv ==
    \A r \in Requests : requestState[r] \in {"queued", "handling"} => IsListening

IInv ==
    /\ TypeOK
    /\ ConsoleInv
    /\ NoLeakedListener
    /\ TaskInv
    /\ RequestOwnership
    /\ OpenInv
    /\ StartedListenerHasItsTask

(***************************************************************************)
(* Type correctness.                                                       *)
(***************************************************************************)

\* The initial state of the program is well typed.
LEMMA InitType == Init => TypeOK
  <1> SUFFICES ASSUME Init PROVE TypeOK
    OBVIOUS
  <1>1. hurried \in BOOLEAN /\ isWorking \in BOOLEAN
    BY DEF Init
  <1>2. contextQueue \in Seq(Requests)
    BY DEF Init
  <1>3. /\ process = "running" /\ stdin = "open" /\ console = "read" /\ command = "none"
        /\ httpListener \in Listeners
        /\ listener \in [Listeners -> {"none", "new", "started", "stopped", "closed"}]
    BY ServerAssumption DEF Init, Listeners
  <1>4. /\ pc \in [Tasks -> TaskStates]
        /\ taskListener \in [Tasks -> Listeners]
        /\ taskRequest \in [Tasks -> Requests \cup {NoRequest}]
        /\ requestState \in [Requests -> RequestStates]
    BY ServerAssumption DEF Init, Listeners, TaskStates, RequestStates
  <1>5. QED
    BY <1>1, <1>2, <1>3, <1>4 DEF TypeOK, ConsoleStates

\* Every step of the console thread, the clients and the tasks keeps the types.
LEMMA NextType == TypeOK /\ [Next]_vars => TypeOK'
  <1> SUFFICES ASSUME TypeOK, [Next]_vars PROVE TypeOK'
    OBVIOUS
  <1> USE ServerAssumption DEF TypeOK, ConsoleGoes, consoleVars, listenerVars, taskVars,
        Listeners, Tasks, ConsoleStates, RequestStates
  <1>1. CASE ServerInit
    <2>1. hurried' \in BOOLEAN /\ isWorking' \in BOOLEAN
      BY <1>1 DEF ServerInit
    <2>2. console' \in ConsoleStates /\ command' = "start"
      BY <1>1 DEF ServerInit, Reads
    <2>3. /\ httpListener' \in Listeners /\ contextQueue' = contextQueue
          /\ listener' \in [Listeners -> {"none", "new", "started", "stopped", "closed"}]
      <3>1. UNCHANGED listenerVars \/ CreatesListener
        BY <1>1 DEF ServerInit
      <3>2. CASE UNCHANGED listenerVars
        BY <3>2
      <3>3. CASE CreatesListener
        BY <3>3 DEF CreatesListener
      <3>4. QED
        BY <3>1, <3>2, <3>3
    <2>4. UNCHANGED <<process, stdin, pc, taskListener, taskRequest, requestState>>
      BY <1>1 DEF ServerInit
    <2>5. QED
      BY <2>1, <2>2, <2>3, <2>4
  <1>2. CASE StopServer
    <2>1. contextQueue' \in Seq(Requests)
      BY <1>2 DEF StopServer, Stops
    <2>2. QED
      BY <1>2, <2>1 DEF StopServer, Stops, DropsConnections, Reads
  <1>3. CASE ExitStopped
    BY <1>3 DEF ExitStopped, Reads
  <1>4. CASE CommandThrows \/ InputEnds \/ WrongCommand
    BY <1>4 DEF CommandThrows, InputEnds, WrongCommand
  <1>5. CASE ConsoleStep
    <2>1. CASE SyncReturns \/ SyncThrows \/ StartListener \/ StartThrows
      BY <2>1 DEF SyncReturns, SyncThrows, StartListener, StartThrows
    <2>2. CASE SpawnTask
      BY <2>2 DEF SpawnTask, TaskStates
    <2>3. CASE CloseListener \/ StopsWorking \/ ProcessExits
      BY <2>3 DEF CloseListener, StopsWorking, ProcessExits
    <2>4. QED
      BY <1>5, <2>1, <2>2, <2>3 DEF ConsoleStep
  <1>6. ASSUME NEW r \in Requests, Arrives(r) PROVE TypeOK'
    BY <1>6 DEF Arrives
  <1>7. ASSUME NEW t \in Tasks, TaskStep(t) PROVE TypeOK'
    <2> USE DEF TaskGoes, TaskStates, Handling, Ended
    <2>1. CASE CallsGetContext(t)
      BY <2>1 DEF CallsGetContext
    <2>2. CASE GetContextReturns(t)
      <3>1. Head(contextQueue) \in Requests /\ Tail(contextQueue) \in Seq(Requests)
        BY <2>2 DEF GetContextReturns
      <3>2. QED
        BY <2>2, <3>1 DEF GetContextReturns
    <2>3. CASE GetContextThrows(t)
      BY <2>3 DEF GetContextThrows
    <2>4. CASE HandlerReturns(t) \/ CloseReturns(t) \/ HandlerThrows(t)
      <3>1. requestState' = requestState \/ \E end \in {"answered", "abandoned"} : Ends(taskRequest[t], end)
        BY <2>4 DEF HandlerReturns, CloseReturns, HandlerThrows, Releases
      <3>2. requestState' \in [Requests -> RequestStates]
        BY <3>1 DEF Ends
      <3>3. /\ pc' \in [Tasks -> TaskStates]
            /\ taskRequest' \in [Tasks -> Requests \cup {NoRequest}]
            /\ UNCHANGED <<process, stdin, isWorking, console, command, hurried, httpListener,
                           listener, contextQueue, taskListener>>
        BY <2>4 DEF HandlerReturns, CloseReturns, HandlerThrows, Releases
      <3>4. QED
        BY <3>2, <3>3
    <2>5. QED
      BY <1>7, <2>1, <2>2, <2>3, <2>4 DEF TaskStep
  <1>8. CASE UNCHANGED vars
    BY <1>8 DEF vars
  <1>9. QED
    BY <1>1, <1>2, <1>3, <1>4, <1>5, <1>6, <1>7, <1>8 DEF Next, Terminated

\* Every variable of the server keeps its type.
THEOREM TypeCorrect == Spec => []TypeOK
  BY InitType, NextType, PTL DEF Spec

-----------------------------------------------------------------------------
(***************************************************************************)
(* The listeners.                                                          *)
(***************************************************************************)

\* The inductive invariant holds when the program starts.
LEMMA InitInv == Init => IInv
  <1> SUFFICES ASSUME Init PROVE IInv
    OBVIOUS
  <1>1. TypeOK
    BY InitType
  <1>2. ConsoleInv /\ NoLeakedListener /\ TaskInv /\ StartedListenerHasItsTask
    BY ServerAssumption DEF Init, ConsoleInv, NoLeakedListener, TaskInv, TaskOK, Starting, Handling,
       StartedListenerHasItsTask, IsListening, Listeners, Tasks
  <1>3. RequestOwnership /\ OpenInv
    BY ServerAssumption DEF Init, RequestOwnership, OpenInv
  <1>4. QED
    BY <1>1, <1>2, <1>3 DEF IInv

\* Only the console thread touches the listeners, and it opens a new one only
\* after closing the last.
LEMMA ListenerStep ==
  ASSUME IInv, [Next]_vars
  PROVE  ConsoleInv' /\ NoLeakedListener'
  <1> USE ServerAssumption DEF IInv, TypeOK, ConsoleInv, NoLeakedListener, ConsoleGoes,
        consoleVars, listenerVars, Listeners, ConsoleStates, IsListening
  <1>1. CASE ServerInit
    BY <1>1 DEF ServerInit, Reads, CreatesListener
  <1>2. CASE StopServer
    BY <1>2 DEF StopServer, Stops, Reads
  <1>3. CASE ExitStopped \/ CommandThrows \/ InputEnds \/ WrongCommand
    BY <1>3 DEF ExitStopped, CommandThrows, InputEnds, WrongCommand, Reads
  <1>4. CASE ConsoleStep
    <2>1. CASE SyncReturns \/ SyncThrows \/ StartThrows \/ SpawnTask
      BY <2>1 DEF SyncReturns, SyncThrows, StartThrows, SpawnTask
    <2>2. CASE StartListener
      BY <2>2 DEF StartListener
    <2>3. CASE CloseListener
      BY <2>3 DEF CloseListener
    <2>4. CASE StopsWorking \/ ProcessExits
      BY <2>4 DEF StopsWorking, ProcessExits
    <2>5. QED
      BY <1>4, <2>1, <2>2, <2>3, <2>4 DEF ConsoleStep
  <1>5. ASSUME NEW r \in Requests, Arrives(r) PROVE ConsoleInv' /\ NoLeakedListener'
    BY <1>5 DEF Arrives
  <1>6. ASSUME NEW t \in Tasks, TaskStep(t) PROVE ConsoleInv' /\ NoLeakedListener'
    BY <1>6 DEF TaskStep, CallsGetContext, GetContextReturns, GetContextThrows,
       HandlerReturns, CloseReturns, HandlerThrows, Releases
  <1>7. CASE UNCHANGED vars
    BY <1>7 DEF vars
  <1>8. QED
    BY <1>1, <1>2, <1>3, <1>4, <1>5, <1>6, <1>7 DEF Next, Terminated

-----------------------------------------------------------------------------
(***************************************************************************)
(* The tasks.                                                              *)
(***************************************************************************)

\* A task meets no listener older than itself and holds a context exactly
\* while it handles one.
LEMMA TaskInvStep ==
  ASSUME IInv, [Next]_vars
  PROVE  TaskInv'
  <1> SUFFICES ASSUME NEW u \in Tasks PROVE TaskOK(u)'
    BY DEF TaskInv
  <1>0. TypeOK /\ TaskOK(u) /\ ConsoleInv
    BY DEF IInv, TaskInv
  <1> USE <1>0, ServerAssumption DEF TypeOK, TaskOK, Starting, IsListening, ConsoleGoes,
        consoleVars, listenerVars, taskVars, Listeners, Tasks, TaskStates, Handling, Ended
  <1>1. CASE ServerInit
    BY <1>1 DEF ServerInit, Reads, CreatesListener
  <1>2. CASE StopServer \/ ExitStopped \/ CommandThrows \/ InputEnds \/ WrongCommand
    BY <1>2 DEF StopServer, Stops, ExitStopped, CommandThrows, InputEnds, WrongCommand, Reads
  <1>3. CASE ConsoleStep
    <2>1. CASE SpawnTask
      BY <2>1 DEF SpawnTask, ConsoleInv
    <2>2. CASE SyncReturns \/ SyncThrows \/ StartThrows \/ StopsWorking \/ ProcessExits
      BY <2>2 DEF ConsoleInv, SyncReturns, SyncThrows, StartThrows, StopsWorking, ProcessExits
    <2>3. CASE StartListener
      BY <2>3 DEF StartListener
    <2>4. CASE CloseListener
      BY <2>4 DEF CloseListener
    <2>5. QED
      BY <1>3, <2>1, <2>2, <2>3, <2>4 DEF ConsoleStep
  <1>4. ASSUME NEW r \in Requests, Arrives(r) PROVE TaskOK(u)'
    BY <1>4 DEF Arrives
  <1>5. ASSUME NEW t \in Tasks, TaskStep(t) PROVE TaskOK(u)'
    <2> USE DEF TaskGoes
    <2>1. CASE CallsGetContext(t)
      BY <2>1 DEF CallsGetContext
    <2>2. CASE GetContextReturns(t)
      <3>1. Head(contextQueue) \in Requests
        BY <2>2 DEF GetContextReturns
      <3>2. QED
        BY <2>2, <3>1 DEF GetContextReturns
    <2>3. CASE GetContextThrows(t) \/ HandlerReturns(t)
      BY <2>3 DEF GetContextThrows, HandlerReturns
    <2>4. CASE CloseReturns(t) \/ HandlerThrows(t)
      <3>1. /\ taskRequest' = [taskRequest EXCEPT ![t] = NoRequest]
            /\ UNCHANGED <<console, httpListener, listener, taskListener>>
        BY <2>4 DEF CloseReturns, HandlerThrows, Releases
      <3>2. /\ pc[t] \in Handling
            /\ pc' = [pc EXCEPT ![t] = "loop"] \/ pc' = [pc EXCEPT ![t] = "handlerThrew"]
        BY <2>4 DEF CloseReturns, HandlerThrows
      <3>3. QED
        BY <3>1, <3>2
    <2>5. QED
      BY <1>5, <2>1, <2>2, <2>3, <2>4 DEF TaskStep
  <1>6. CASE UNCHANGED vars
    BY <1>6 DEF vars
  <1>7. QED
    BY <1>1, <1>2, <1>3, <1>4, <1>5, <1>6 DEF Next, Terminated

\* The task of a listening server has not been lost in GetContext.
LEMMA StartedStep ==
  ASSUME IInv, [Next]_vars
  PROVE  StartedListenerHasItsTask'
  <1> USE ServerAssumption DEF IInv, TypeOK, ConsoleInv, TaskInv, TaskOK, StartedListenerHasItsTask,
        IsListening, ConsoleGoes, consoleVars, listenerVars, taskVars, Listeners, Tasks,
        TaskStates, Handling, Ended
  <1>1. CASE ServerInit
    BY <1>1 DEF ServerInit, Reads, CreatesListener
  <1>2. CASE StopServer \/ ExitStopped \/ CommandThrows \/ InputEnds \/ WrongCommand
    BY <1>2 DEF StopServer, Stops, ExitStopped, CommandThrows, InputEnds, WrongCommand, Reads
  <1>3. CASE ConsoleStep
    <2>1. CASE SpawnTask
      BY <2>1 DEF SpawnTask
    <2>2. CASE StartListener \/ CloseListener
      BY <2>2 DEF StartListener, CloseListener
    <2>3. CASE SyncReturns \/ SyncThrows \/ StartThrows \/ StopsWorking \/ ProcessExits
      BY <2>3 DEF SyncReturns, SyncThrows, StartThrows, StopsWorking, ProcessExits
    <2>4. QED
      BY <1>3, <2>1, <2>2, <2>3 DEF ConsoleStep
  <1>4. ASSUME NEW r \in Requests, Arrives(r) PROVE StartedListenerHasItsTask'
    BY <1>4 DEF Arrives
  <1>5. ASSUME NEW t \in Tasks, TaskStep(t) PROVE StartedListenerHasItsTask'
    <2> USE DEF TaskGoes
    <2>1. CASE GetContextThrows(t)
      \* t is not the newest task: that one waits on the field's listener.
      BY <2>1 DEF GetContextThrows
    <2>2. CASE CallsGetContext(t) \/ GetContextReturns(t)
      BY <2>2 DEF CallsGetContext, GetContextReturns
    <2>3. CASE HandlerReturns(t) \/ CloseReturns(t) \/ HandlerThrows(t)
      BY <2>3 DEF HandlerReturns, CloseReturns, HandlerThrows, Releases
    <2>4. QED
      BY <1>5, <2>1, <2>2, <2>3 DEF TaskStep
  <1>6. CASE UNCHANGED vars
    BY <1>6 DEF vars
  <1>7. QED
    BY <1>1, <1>2, <1>3, <1>4, <1>5, <1>6 DEF Next, Terminated

-----------------------------------------------------------------------------
(***************************************************************************)
(* The requests.                                                           *)
(***************************************************************************)

\* A context is in the queue once or in the hands of one task, after any step.
LEMMA OwnershipStep ==
  ASSUME IInv, [Next]_vars
  PROVE  RequestOwnership'
  <1>0. TypeOK /\ RequestOwnership /\ TaskInv
    BY DEF IInv
  <1>1. CASE UNCHANGED <<contextQueue, requestState, taskRequest>>
    BY <1>0, <1>1 DEF RequestOwnership
  <1>2. CASE StopServer
    <2>1. contextQueue' = <<>> /\ DropsConnections /\ taskRequest' = taskRequest
      BY <1>2 DEF StopServer, Stops, taskVars
    <2>2. QED
      BY <1>0, <2>1 DEF RequestOwnership, DropsConnections, TypeOK
  <1>3. ASSUME NEW r \in Requests, Arrives(r) PROVE RequestOwnership'
    <2>1. /\ requestState[r] = "unsent"
          /\ requestState' = [requestState EXCEPT ![r] = "queued"]
          /\ contextQueue' = Append(contextQueue, r)
          /\ taskRequest' = taskRequest
      BY <1>3 DEF Arrives, taskVars
    <2>2. contextQueue \in Seq(Requests) /\ requestState \in [Requests -> RequestStates]
      BY <1>0 DEF TypeOK
    <2>3. \A i \in DOMAIN contextQueue : contextQueue[i] # r
      BY <1>0, <2>1 DEF RequestOwnership
    <2>4. /\ DOMAIN contextQueue = 1 .. Len(contextQueue)
          /\ DOMAIN contextQueue' = 1 .. Len(contextQueue) + 1
          /\ contextQueue'[Len(contextQueue) + 1] = r
          /\ \A i \in DOMAIN contextQueue : contextQueue'[i] = contextQueue[i]
          /\ Len(contextQueue) \in Nat
      BY <2>1, <2>2
    <2>5. \A i, j \in DOMAIN contextQueue' : contextQueue'[i] = contextQueue'[j] => i = j
      BY <1>0, <2>3, <2>4 DEF RequestOwnership
    <2>6. ASSUME NEW q \in Requests
          PROVE  (\E i \in DOMAIN contextQueue' : contextQueue'[i] = q)
                  <=> q = r \/ \E i \in DOMAIN contextQueue : contextQueue[i] = q
      BY <2>4
    <2>7. \A q \in Requests :
            requestState'[q] = "queued" <=> \E i \in DOMAIN contextQueue' : contextQueue'[i] = q
      BY <1>0, <2>1, <2>2, <2>6 DEF RequestOwnership
    <2>8. \A q \in Requests : requestState'[q] = "handling" <=> requestState[q] = "handling"
      BY <2>1, <2>2
    <2>9. QED
      BY <1>0, <2>1, <2>5, <2>7, <2>8 DEF RequestOwnership
  <1>4. ASSUME NEW t \in Tasks, GetContextReturns(t) PROVE RequestOwnership'
    <2> DEFINE r == Head(contextQueue)
    <2>1. /\ contextQueue # <<>>
          /\ taskRequest' = [taskRequest EXCEPT ![t] = r]
          /\ requestState' = [requestState EXCEPT ![r] = "handling"]
          /\ contextQueue' = Tail(contextQueue)
          /\ pc[t] = "get"
      BY <1>4 DEF GetContextReturns, TaskGoes
    <2>2. /\ contextQueue \in Seq(Requests)
          /\ requestState \in [Requests -> RequestStates]
          /\ taskRequest \in [Tasks -> Requests \cup {NoRequest}]
      BY <1>0 DEF TypeOK
    <2>3. taskRequest[t] = NoRequest
      BY <1>0, <2>1 DEF TaskInv, TaskOK, Handling
    <2>4. /\ Len(contextQueue) \in Nat \ {0}
          /\ DOMAIN contextQueue = 1 .. Len(contextQueue)
          /\ DOMAIN contextQueue' = 1 .. Len(contextQueue) - 1
          /\ r \in Requests /\ r = contextQueue[1]
          /\ \A i \in DOMAIN contextQueue' : contextQueue'[i] = contextQueue[i + 1]
      BY <2>1, <2>2
    <2> HIDE DEF r
    <2>5. \A i, j \in DOMAIN contextQueue' : contextQueue'[i] = contextQueue'[j] => i = j
      BY <1>0, <2>4 DEF RequestOwnership
    <2>6. ASSUME NEW q \in Requests
          PROVE  (\E i \in DOMAIN contextQueue' : contextQueue'[i] = q)
                  <=> q # r /\ \E i \in DOMAIN contextQueue : contextQueue[i] = q
      <3>1. ASSUME NEW i \in DOMAIN contextQueue' PROVE contextQueue'[i] # r
        BY <1>0, <2>4 DEF RequestOwnership
      <3>2. ASSUME NEW i \in DOMAIN contextQueue, contextQueue[i] # r
            PROVE  i - 1 \in DOMAIN contextQueue' /\ contextQueue'[i - 1] = contextQueue[i]
        BY <2>4, <3>2
      <3>3. QED
        BY <2>4, <3>1, <3>2
    <2>7. \A q \in Requests :
            requestState'[q] = "queued" <=> \E i \in DOMAIN contextQueue' : contextQueue'[i] = q
      BY <1>0, <2>1, <2>2, <2>6 DEF RequestOwnership
    <2>8. requestState[r] = "queued"
      BY <1>0, <2>4 DEF RequestOwnership
    <2>9. \A u \in Tasks : taskRequest[u] # r
      BY <1>0, <2>4, <2>8, ServerAssumption DEF RequestOwnership
    <2>10. \A q \in Requests :
            requestState'[q] = "handling" => \E u \in Tasks : taskRequest'[u] = q
      <3>1. SUFFICES ASSUME NEW q \in Requests, requestState'[q] = "handling"
                     PROVE  \E u \in Tasks : taskRequest'[u] = q
        OBVIOUS
      <3>2. CASE q = r
        BY <2>1, <2>2, <3>2
      <3>3. CASE q # r
        <4>1. requestState[q] = "handling"
          BY <2>1, <2>2, <3>1, <3>3
        <4>2. PICK u \in Tasks : taskRequest[u] = q
          BY <1>0, <4>1 DEF RequestOwnership
        <4>3. u # t
          BY <2>3, <4>2, ServerAssumption
        <4>4. QED
          BY <2>1, <2>2, <4>2, <4>3
      <3>4. QED
        BY <3>2, <3>3
    <2>11. \A u \in Tasks : taskRequest'[u] # NoRequest =>
            requestState'[taskRequest'[u]] \in {"handling", "answered", "dropped"}
      <3>1. SUFFICES ASSUME NEW u \in Tasks, taskRequest'[u] # NoRequest
                     PROVE  requestState'[taskRequest'[u]] \in {"handling", "answered", "dropped"}
        OBVIOUS
      <3>2. CASE u = t
        BY <2>1, <2>2, <2>4, <3>2
      <3>3. CASE u # t
        <4>1. taskRequest'[u] = taskRequest[u] /\ taskRequest[u] \in Requests
          BY <2>1, <2>2, <3>1, <3>3
        <4>2. requestState[taskRequest[u]] \in {"handling", "answered", "dropped"}
          BY <1>0, <3>1, <4>1 DEF RequestOwnership
        <4>3. QED
          BY <2>1, <2>2, <2>9, <4>1, <4>2
      <3>4. QED
        BY <3>2, <3>3
    <2>12. \A u, v \in Tasks :
            taskRequest'[u] = taskRequest'[v] /\ taskRequest'[u] # NoRequest => u = v
      BY <1>0, <2>1, <2>2, <2>9 DEF RequestOwnership
    <2>13. QED
      BY <2>5, <2>7, <2>10, <2>11, <2>12 DEF RequestOwnership
  <1>5. ASSUME NEW t \in Tasks, HandlerReturns(t) \/ CloseReturns(t) \/ HandlerThrows(t)
        PROVE  RequestOwnership'
    <2>1. /\ taskRequest' \in {taskRequest, [taskRequest EXCEPT ![t] = NoRequest]}
          /\ contextQueue' = contextQueue
          /\ pc[t] \in Handling
      BY <1>5 DEF HandlerReturns, CloseReturns, HandlerThrows, Releases, TaskGoes, taskVars,
         listenerVars, Handling
    <2>2. /\ requestState \in [Requests -> RequestStates]
          /\ taskRequest \in [Tasks -> Requests \cup {NoRequest}]
      BY <1>0 DEF TypeOK
    <2>3. taskRequest[t] \in Requests
      BY <1>0, <2>1, <2>2 DEF TaskInv, TaskOK
    <2>4. /\ \A q \in Requests \ {taskRequest[t]} : requestState'[q] = requestState[q]
          /\ requestState[taskRequest[t]] \in {"handling", "answered", "dropped"}
          /\ requestState[taskRequest[t]] # "handling" =>
                requestState'[taskRequest[t]] = requestState[taskRequest[t]]
          /\ requestState[taskRequest[t]] = "handling" =>
                requestState'[taskRequest[t]] \in {"handling", "answered", "abandoned"}
      <3>1. requestState[taskRequest[t]] \in {"handling", "answered", "dropped"}
        BY <1>0, <2>3, ServerAssumption DEF RequestOwnership
      <3>2. QED
        BY <1>5, <2>2, <2>3, <3>1
           DEF HandlerReturns, CloseReturns, HandlerThrows, Releases, Ends
    <2>5. taskRequest' = taskRequest => requestState'[taskRequest[t]] \in {"handling", "answered", "dropped"}
      <3>1. CASE HandlerReturns(t)
        BY <2>2, <2>3, <2>4, <3>1 DEF HandlerReturns, Ends
      <3>2. CASE CloseReturns(t) \/ HandlerThrows(t)
        BY <2>2, <2>3, <3>2, ServerAssumption DEF CloseReturns, HandlerThrows, Releases
      <3>3. QED
        BY <1>5, <3>1, <3>2
    <2>6. taskRequest' # taskRequest => requestState'[taskRequest[t]] # "handling"
      BY <1>5, <2>2, <2>3, <2>4 DEF HandlerReturns, CloseReturns, HandlerThrows, Releases, Ends, taskVars
    <2>7. \A q \in Requests : requestState'[q] = "queued" <=> requestState[q] = "queued"
      BY <2>4
    <2>8. \A q \in Requests :
            requestState'[q] = "handling" => \E u \in Tasks : taskRequest'[u] = q
      <3>1. SUFFICES ASSUME NEW q \in Requests, requestState'[q] = "handling"
                     PROVE  \E u \in Tasks : taskRequest'[u] = q
        OBVIOUS
      <3>2. requestState[q] = "handling"
        BY <2>4, <3>1
      <3>3. PICK u \in Tasks : taskRequest[u] = q
        BY <1>0, <3>2 DEF RequestOwnership
      <3>4. CASE taskRequest' = taskRequest
        BY <3>3, <3>4
      <3>5. CASE taskRequest' # taskRequest
        BY <2>1, <2>2, <2>6, <3>1, <3>3, <3>5
      <3>6. QED
        BY <3>4, <3>5
    <2>9. \A u \in Tasks : taskRequest'[u] # NoRequest =>
            requestState'[taskRequest'[u]] \in {"handling", "answered", "dropped"}
      <3>1. SUFFICES ASSUME NEW u \in Tasks, taskRequest'[u] # NoRequest
                     PROVE  requestState'[taskRequest'[u]] \in {"handling", "answered", "dropped"}
        OBVIOUS
      <3>2. taskRequest'[u] = taskRequest[u]
        BY <2>1, <2>2, <3>1
      <3>3. taskRequest[u] \in Requests
        BY <2>2, <3>1, <3>2
      <3>4. requestState[taskRequest[u]] \in {"handling", "answered", "dropped"}
        BY <1>0, <3>1, <3>2 DEF RequestOwnership
      <3>5. CASE u = t
        <4>1. taskRequest' = taskRequest
          BY <2>1, <2>2, <3>1, <3>5
        <4>2. QED
          BY <2>5, <3>5, <4>1
      <3>6. CASE u # t
        <4>1. taskRequest[u] # taskRequest[t]
          BY <1>0, <3>1, <3>2, <3>6 DEF RequestOwnership
        <4>2. QED
          BY <2>4, <3>2, <3>3, <3>4, <4>1
      <3>7. QED
        BY <3>5, <3>6
    <2>10. \A u, v \in Tasks :
            taskRequest'[u] = taskRequest'[v] /\ taskRequest'[u] # NoRequest => u = v
      BY <1>0, <2>1, <2>2 DEF RequestOwnership
    <2>11. QED
      BY <1>0, <2>1, <2>7, <2>8, <2>9, <2>10 DEF RequestOwnership
  <1>6. QED
    <2> USE <1>1 DEF taskVars, listenerVars
    <2>1. CASE ServerInit \/ ExitStopped \/ CommandThrows \/ InputEnds \/ WrongCommand
      BY <2>1 DEF ServerInit, CreatesListener, ExitStopped, CommandThrows, InputEnds, WrongCommand
    <2>2. CASE ConsoleStep
      BY <2>2 DEF ConsoleStep, SyncReturns, SyncThrows, StartListener, StartThrows, SpawnTask,
         CloseListener, StopsWorking, ProcessExits
    <2>3. ASSUME NEW t \in Tasks, TaskStep(t) PROVE RequestOwnership'
      BY <2>3, <1>4, <1>5 DEF TaskStep, CallsGetContext, GetContextThrows
    <2>4. CASE UNCHANGED vars
      BY <2>4 DEF vars
    <2>5. QED
      BY <1>2, <1>3, <2>1, <2>2, <2>3, <2>4 DEF Next, Terminated

\* A step of a task opens no connection.
LEMMA TaskOpensNone ==
  ASSUME IInv, NEW t \in Tasks, TaskStep(t), NEW r \in Requests,
         requestState'[r] \in {"queued", "handling"}
  PROVE  requestState[r] \in {"queued", "handling"}
  <1>0. TypeOK /\ RequestOwnership /\ TaskInv
    BY DEF IInv
  <1>1. CASE CallsGetContext(t) \/ GetContextThrows(t)
    BY <1>1 DEF CallsGetContext, GetContextThrows
  <1>2. CASE GetContextReturns(t)
    <2>1. /\ requestState' = [requestState EXCEPT ![contextQueue[1]] = "handling"]
          /\ 1 \in DOMAIN contextQueue /\ contextQueue[1] \in Requests
      BY <1>0, <1>2 DEF GetContextReturns, TypeOK
    <2>2. requestState[contextQueue[1]] = "queued"
      BY <1>0, <2>1 DEF RequestOwnership
    <2>3. QED
      BY <1>0, <2>1, <2>2 DEF TypeOK
  <1>3. CASE HandlerReturns(t) \/ CloseReturns(t) \/ HandlerThrows(t)
    BY <1>0, <1>3 DEF TypeOK, HandlerReturns, CloseReturns, HandlerThrows, Releases, Ends
  <1>4. QED
    BY <1>1, <1>2, <1>3 DEF TaskStep

\* When the field's listener stops listening, its clients are cut off.
LEMMA OpenStep ==
  ASSUME IInv, [Next]_vars
  PROVE  OpenInv'
  <1> SUFFICES ASSUME NEW r \in Requests, requestState'[r] \in {"queued", "handling"}
               PROVE  IsListening'
    BY DEF OpenInv
  <1>0. TypeOK /\ ConsoleInv /\ OpenInv
    BY DEF IInv
  <1> USE DEF IsListening, ConsoleGoes, listenerVars
  <1>1. CASE ServerInit \/ ExitStopped \/ CommandThrows \/ InputEnds \/ WrongCommand
    BY <1>0, <1>1 DEF OpenInv, ServerInit, ExitStopped, CommandThrows, InputEnds, WrongCommand
  <1>2. CASE StopServer
    BY <1>0, <1>2 DEF TypeOK, StopServer, Stops, DropsConnections
  <1>3. CASE ConsoleStep
    <2>1. CASE StartListener
      BY <1>0, <2>1 DEF OpenInv, TypeOK, StartListener
    <2>2. CASE CloseListener
      BY <1>0, <2>2 DEF OpenInv, ConsoleInv, CloseListener
    <2>3. CASE SyncReturns \/ SyncThrows \/ StartThrows \/ SpawnTask \/ StopsWorking \/ ProcessExits
      BY <1>0, <2>3 DEF OpenInv, SyncReturns, SyncThrows, StartThrows, SpawnTask, StopsWorking,
         ProcessExits
    <2>4. QED
      BY <1>3, <2>1, <2>2, <2>3 DEF ConsoleStep
  <1>4. ASSUME NEW q \in Requests, Arrives(q) PROVE IsListening'
    BY <1>4 DEF Arrives
  <1>5. ASSUME NEW t \in Tasks, TaskStep(t) PROVE IsListening'
    <2>1. UNCHANGED <<httpListener, listener>>
      BY <1>5 DEF TaskStep, CallsGetContext, GetContextReturns, GetContextThrows, HandlerReturns,
         CloseReturns, HandlerThrows, Releases
    <2>2. IsListening
      BY <1>0, <1>5, TaskOpensNone DEF OpenInv
    <2>3. QED
      BY <2>1, <2>2
  <1>6. CASE UNCHANGED vars
    BY <1>0, <1>6 DEF OpenInv, vars
  <1>7. QED
    BY <1>1, <1>2, <1>3, <1>4, <1>5, <1>6 DEF Next, Terminated

\* The inductive invariant is an invariant.
LEMMA Inductive == Spec => []IInv
  <1>1. IInv /\ [Next]_vars => IInv'
    <2>1. IInv => TypeOK
      BY DEF IInv
    <2>2. QED
      BY <2>1, NextType, ListenerStep, TaskInvStep, OwnershipStep, OpenStep, StartedStep DEF IInv
  <1>2. QED
    BY InitInv, <1>1, PTL DEF Spec

\* serverInit never forgets a listener that still holds its ports, however
\* start, stop and the tasks interleave.
THEOREM ListenersClosed == Spec => []NoLeakedListener
  <1>1. IInv => NoLeakedListener
    BY DEF IInv
  <1>2. QED
    BY Inductive, <1>1, PTL

\* Two tasks that a restart has put on one listener never share a context.
THEOREM RequestsOwned == Spec => []RequestOwnership
  <1>1. IInv => RequestOwnership
    BY DEF IInv
  <1>2. QED
    BY Inductive, <1>1, PTL

\* Only an exception in a handler can take the task of a listening server.
THEOREM TaskOfListener == Spec => []StartedListenerHasItsTask
  <1>1. IInv => StartedListenerHasItsTask
    BY DEF IInv
  <1>2. QED
    BY Inductive, <1>1, PTL

-----------------------------------------------------------------------------
(***************************************************************************)
(* The life of a request.                                                  *)
(***************************************************************************)

\* A step of a task ends the handling of its request, and no other's, and answers
\* it only while the client is connected.
LEMMA TaskLifecycle ==
  ASSUME IInv, NEW t \in Tasks, TaskStep(t), NEW r \in Requests, requestState'[r] # requestState[r]
  PROVE  requestState[r] \in {"queued", "handling"}
  <1>0. TypeOK /\ RequestOwnership
    BY DEF IInv
  <1>1. CASE CallsGetContext(t) \/ GetContextThrows(t)
    BY <1>1 DEF CallsGetContext, GetContextThrows
  <1>2. CASE GetContextReturns(t)
    <2>1. /\ requestState' = [requestState EXCEPT ![contextQueue[1]] = "handling"]
          /\ 1 \in DOMAIN contextQueue /\ contextQueue[1] \in Requests
      BY <1>0, <1>2 DEF GetContextReturns, TypeOK
    <2>2. requestState[contextQueue[1]] = "queued"
      BY <1>0, <2>1 DEF RequestOwnership
    <2>3. QED
      BY <1>0, <2>1, <2>2 DEF TypeOK
  <1>3. CASE HandlerReturns(t) \/ CloseReturns(t) \/ HandlerThrows(t)
    BY <1>0, <1>3 DEF TypeOK, HandlerReturns, CloseReturns, HandlerThrows, Releases, Ends
  <1>4. QED
    BY <1>1, <1>2, <1>3 DEF TaskStep

\* No step changes what has become of a request, or answers one of a listener that
\* has been stopped.
LEMMA LifecycleStep ==
  ASSUME IInv, [Next]_vars, NEW r \in Requests
  PROVE  /\ requestState[r] \in {"answered", "dropped", "abandoned"} =>
                requestState'[r] = requestState[r]
         /\ requestState[r] # "answered" /\ requestState'[r] = "answered" => IsListening
  <1>0. TypeOK /\ OpenInv
    BY DEF IInv
  <1>1. CASE requestState' = requestState
    BY <1>1
  <1>2. CASE StopServer
    BY <1>0, <1>2 DEF TypeOK, StopServer, Stops, DropsConnections
  <1>3. ASSUME NEW q \in Requests, Arrives(q)
        PROVE  requestState'[r] = requestState[r] \/ (requestState[r] = "unsent" /\ requestState'[r] = "queued")
    <2>1. /\ requestState[q] = "unsent"
          /\ requestState' = [requestState EXCEPT ![q] = "queued"]
      BY <1>3 DEF Arrives
    <2>2. QED
      BY <1>0, <2>1 DEF TypeOK
  <1>4. ASSUME NEW t \in Tasks, TaskStep(t)
        PROVE  requestState'[r] = requestState[r] \/ requestState[r] \in {"queued", "handling"}
    BY <1>4, TaskLifecycle
  <1>5. CASE ServerInit \/ ExitStopped \/ CommandThrows \/ InputEnds \/ WrongCommand
    BY <1>1, <1>5 DEF ServerInit, ExitStopped, CommandThrows, InputEnds, WrongCommand
  <1>6. CASE ConsoleStep
    BY <1>1, <1>6 DEF ConsoleStep, SyncReturns, SyncThrows, StartListener, StartThrows,
       SpawnTask, CloseListener, StopsWorking, ProcessExits
  <1>7. CASE UNCHANGED vars
    BY <1>1, <1>7 DEF vars
  <1>8. QED
    BY <1>0, <1>2, <1>3, <1>4, <1>5, <1>6, <1>7 DEF OpenInv, Next, Terminated

\* What became of a request is final, and no request is answered once its listener
\* has been stopped, whatever the tasks that outlive the stop go on to do.
THEOREM LifecycleKept == Spec => RequestLifecycle
  <1>1. IInv /\ [Next]_vars =>
          [\A r \in Requests :
            /\ requestState[r] \in {"answered", "dropped", "abandoned"} =>
                requestState'[r] = requestState[r]
            /\ requestState[r] # "answered" /\ requestState'[r] = "answered" => IsListening]_vars
    BY LifecycleStep
  <1>2. QED
    BY Inductive, <1>1, PTL DEF Spec, RequestLifecycle

-----------------------------------------------------------------------------
(***************************************************************************)
(* One handler at a time, if only an idle server is stopped.               *)
(***************************************************************************)

\* The tasks of earlier starts are over or wait on a listener that is closed,
\* and no task is busy while nothing is listening.
OthersIdle(t) ==
    /\ t # httpListener /\ Live(t) => pc[t] = "get" /\ taskListener[t] # httpListener
    /\ ~IsListening /\ Live(t) => pc[t] = "get"

SerialInv == ~hurried => \A t \in Tasks : OthersIdle(t)

\* A stop of a busy server is remembered.
LEMMA HurriedStays ==
  ASSUME TypeOK, [Next]_vars, ~hurried'
  PROVE  ~hurried
  <1>1. CASE StopServer
    BY <1>1 DEF StopServer, TypeOK
  <1>2. CASE ~StopServer
    BY <1>2 DEF Next, ServerInit, ExitStopped, CommandThrows, InputEnds, WrongCommand, ConsoleStep, SyncReturns,
       SyncThrows, StartListener, StartThrows, SpawnTask, CloseListener, StopsWorking,
       ProcessExits, Arrives, TaskStep, CallsGetContext, GetContextReturns, GetContextThrows,
       HandlerReturns, CloseReturns, HandlerThrows, Releases, Terminated, vars, consoleVars
  <1>3. QED
    BY <1>1, <1>2

\* No step lets a second task become busy.
LEMMA SerialStep ==
  ASSUME IInv, SerialInv, [Next]_vars
  PROVE  SerialInv'
  <1> SUFFICES ASSUME ~hurried', NEW u \in Tasks PROVE OthersIdle(u)'
    BY DEF SerialInv
  <1>a. ~hurried
    BY HurriedStays DEF IInv
  <1>0. TypeOK /\ ConsoleInv /\ NoLeakedListener /\ TaskOK(u) /\ OthersIdle(u)
    BY <1>a DEF IInv, SerialInv, TaskInv
  <1> USE <1>0, ServerAssumption DEF TypeOK, ConsoleInv, OthersIdle, Live, IsListening,
        ConsoleGoes, consoleVars, listenerVars, taskVars, Listeners, Tasks, TaskStates,
        Handling, Ended
  <1>1. CASE ServerInit
    BY <1>1 DEF ServerInit, Reads, CreatesListener, TaskOK
  <1>2. CASE StopServer
    BY <1>2 DEF StopServer, Stops, Reads, Idle
  <1>3. CASE ExitStopped \/ CommandThrows \/ InputEnds \/ WrongCommand
    BY <1>3 DEF ExitStopped, CommandThrows, InputEnds, WrongCommand, Reads
  <1>4. CASE ConsoleStep
    <2>1. CASE SpawnTask
      BY <2>1 DEF SpawnTask
    <2>2. CASE StartListener \/ CloseListener
      BY <2>2 DEF StartListener, CloseListener
    <2>3. CASE SyncReturns \/ SyncThrows \/ StartThrows \/ StopsWorking \/ ProcessExits
      BY <2>3 DEF SyncReturns, SyncThrows, StartThrows, StopsWorking, ProcessExits
    <2>4. QED
      BY <1>4, <2>1, <2>2, <2>3 DEF ConsoleStep
  <1>5. ASSUME NEW r \in Requests, Arrives(r) PROVE OthersIdle(u)'
    BY <1>5 DEF Arrives
  <1>6. ASSUME NEW t \in Tasks, TaskStep(t) PROVE OthersIdle(u)'
    <2> USE DEF TaskGoes
    <2>0. OthersIdle(t)
      BY <1>a DEF SerialInv
    <2>1. CASE CallsGetContext(t)
      BY <2>0, <2>1 DEF CallsGetContext
    <2>2. CASE GetContextReturns(t)
      \* t waits on the started listener, which is the field's: t is the newest.
      BY <2>0, <2>2 DEF GetContextReturns, NoLeakedListener
    <2>3. CASE GetContextThrows(t) \/ HandlerReturns(t)
      BY <2>0, <2>3 DEF GetContextThrows, HandlerReturns
    <2>4. CASE CloseReturns(t) \/ HandlerThrows(t)
      BY <2>0, <2>4 DEF CloseReturns, HandlerThrows, Releases
    <2>5. QED
      BY <1>6, <2>1, <2>2, <2>3, <2>4 DEF TaskStep
  <1>7. CASE UNCHANGED vars
    BY <1>7 DEF vars
  <1>8. QED
    BY <1>1, <1>2, <1>3, <1>4, <1>5, <1>6, <1>7 DEF Next, Terminated

\* As long as the operator stops only a server whose tasks are all waiting, no
\* two handlers run at once, however often it is started and stopped.
THEOREM GracefulIsSerial == Spec => []SerialHandling
  <1>1. Init => SerialInv
    BY DEF Init, SerialInv, OthersIdle, Live
  <1>2. IInv /\ SerialInv /\ [Next]_vars => SerialInv'
    BY SerialStep
  <1>3. TypeOK /\ SerialInv => SerialHandling
    BY DEF TypeOK, SerialInv, OthersIdle, Live, SerialHandling, Handling, Ended
  <1>4. IInv => TypeOK
    BY DEF IInv
  <1>5. QED
    BY Inductive, <1>1, <1>2, <1>3, <1>4, PTL DEF Spec
=============================================================================
