-------------------------- MODULE TfUServerProofs --------------------------
(***************************************************************************)
(* Proofs about TfUServer, for any requests and any number of starts.      *)
(* Every step of the whole is a step of Server and a step of ImageManager, *)
(* so that the inductive invariants proved of the two hold here, and what  *)
(* one component takes for granted is proved from the other.               *)
(***************************************************************************)
EXTENDS TfUServer, TLAPS

SP == INSTANCE ServerProofs WITH pc <- taskPc, NoRequest <- None

IP == INSTANCE ImageManagerProofs WITH pc <- handlerPc, Workers <- Tasks, Requests <- Gets

\* The assumptions of the components.
LEMMA Assumptions == SP!ServerAssumption /\ IP!ImageAssumption /\ IP!FaultsAssumption
  BY TfUServerAssumption DEF SP!ServerAssumption, IP!ImageAssumption, IP!FaultsAssumption,
     Requests, Tasks

-----------------------------------------------------------------------------
(***************************************************************************)
(* The steps of the server                                                 *)
(***************************************************************************)
\* The two instances of Server are the same.
LEMMA SameConsole ==
  /\ S!ServerInit => SP!ServerInit
  /\ S!StopServer => SP!StopServer
  /\ S!ExitStopped => SP!ExitStopped
  /\ S!CommandThrows => SP!CommandThrows
  /\ S!InputEnds => SP!InputEnds
  /\ S!WrongCommand => SP!WrongCommand
  /\ S!ConsoleStep => SP!ConsoleStep
  <1> USE DEF S!Reads, SP!Reads, S!ConsoleGoes, SP!ConsoleGoes, S!IsListening, SP!IsListening,
       S!listenerVars, SP!listenerVars, S!taskVars, SP!taskVars
  <1>1. S!ServerInit => SP!ServerInit
    BY DEF S!ServerInit, SP!ServerInit, S!CreatesListener, SP!CreatesListener
  <1>2. S!StopServer => SP!StopServer
    BY DEF S!StopServer, SP!StopServer, S!Stops, SP!Stops, S!DropsConnections, SP!DropsConnections,
       S!Idle, SP!Idle, S!Ended, SP!Ended, S!Tasks, SP!Tasks
  <1>3. S!ExitStopped => SP!ExitStopped
    BY DEF S!ExitStopped, SP!ExitStopped
  <1>4. S!CommandThrows => SP!CommandThrows
    BY DEF S!CommandThrows, SP!CommandThrows
  <1>5. S!InputEnds => SP!InputEnds
    BY DEF S!InputEnds, SP!InputEnds
  <1>6. S!WrongCommand => SP!WrongCommand
    BY DEF S!WrongCommand, SP!WrongCommand
  <1>7. S!ConsoleStep => SP!ConsoleStep
    BY DEF S!ConsoleStep, SP!ConsoleStep, S!SyncReturns, SP!SyncReturns, S!SyncThrows,
       SP!SyncThrows, S!StartListener, SP!StartListener, S!StartThrows, SP!StartThrows,
       S!SpawnTask, SP!SpawnTask, S!CloseListener, SP!CloseListener, S!StopsWorking,
       SP!StopsWorking, S!ProcessExits, SP!ProcessExits
  <1>8. QED
    BY <1>1, <1>2, <1>3, <1>4, <1>5, <1>6, <1>7

LEMMA SameTasks ==
  /\ \A r \in Requests : S!Arrives(r) => SP!Arrives(r)
  /\ \A t \in Tasks :
        /\ S!CallsGetContext(t) => SP!CallsGetContext(t)
        /\ S!GetContextReturns(t) => SP!GetContextReturns(t)
        /\ S!GetContextThrows(t) => SP!GetContextThrows(t)
        /\ S!HandlerReturns(t) => SP!HandlerReturns(t)
        /\ S!CloseReturns(t) => SP!CloseReturns(t)
        /\ S!HandlerThrows(t) => SP!HandlerThrows(t)
  BY DEF S!TaskGoes, SP!TaskGoes, S!consoleVars, SP!consoleVars, S!listenerVars, SP!listenerVars,
       S!taskVars, SP!taskVars, S!IsListening, SP!IsListening, S!Releases, SP!Releases, S!Ends, SP!Ends,
       S!Handling, SP!Handling, S!Arrives, SP!Arrives, S!CallsGetContext, SP!CallsGetContext,
       S!GetContextReturns, SP!GetContextReturns, S!GetContextThrows, SP!GetContextThrows,
       S!HandlerReturns, SP!HandlerReturns, S!CloseReturns, SP!CloseReturns,
       S!HandlerThrows, SP!HandlerThrows

\* Every step is a step of Server.
LEMMA ServerSteps == [Next]_vars => [SP!Next]_(SP!vars)
  <1> SUFFICES ASSUME [Next]_vars PROVE [SP!Next]_(SP!vars)
    OBVIOUS
  <1>1. CASE Commands \/ ConsoleStep
    BY <1>1, SameConsole DEF Commands, ConsoleStep, SP!Next
  <1>2. CASE SendsQuery \/ Terminated \/ UNCHANGED vars \/ \E t \in Tasks : Handles(t)
    BY <1>2 DEF SendsQuery, Terminated, Handles, vars, serverVars, SP!vars
  <1>3. ASSUME NEW r \in Requests, Arrives(r) PROVE SP!Next
    BY <1>3, SameTasks DEF Arrives, SP!Next
  <1>4. ASSUME NEW t \in Tasks, Loops(t) \/ Takes(t) \/ Returns(t) \/ Throws(t) PROVE SP!Next
    <2>1. SP!TaskStep(t)
      BY <1>4, SameTasks DEF Loops, Takes, Returns, Throws, SP!TaskStep
    <2>2. QED
      BY <2>1 DEF SP!Next, SP!Tasks, Tasks
  <1>5. QED
    BY <1>1, <1>2, <1>3, <1>4 DEF Next, TaskStep

-----------------------------------------------------------------------------
(***************************************************************************)
(* The steps of the handlers                                               *)
(***************************************************************************)
\* The two instances of ImageManager are the same.
LEMMA SameHandlers ==
  ASSUME NEW t \in Tasks
  PROVE  /\ I!Constructs(t) => IP!Constructs(t)
         /\ I!Publishes(t) => IP!Publishes(t)
         /\ I!ReadsInstance(t) => IP!ReadsInstance(t)
         /\ I!SelectsFree(t) => IP!SelectsFree(t)
         /\ I!CountsUsed(t) => IP!CountsUsed(t)
         /\ I!SelectsRow(t) => IP!SelectsRow(t)
         /\ I!Updates(t) => IP!Updates(t)
         /\ I!Inserts(t) => IP!Inserts(t)
         /\ I!Replies(t) => IP!Replies(t)
         /\ I!ReplyThrows(t) => IP!ReplyThrows(t)
  <1> USE DEF I!Goes, IP!Goes, I!Finishes, IP!Finishes, I!HandlerThrows, IP!HandlerThrows,
       I!table, IP!table, I!memory, IP!memory, I!locals, IP!locals, I!clients, IP!clients,
       I!Outcomes, IP!Outcomes, I!HasTable, IP!HasTable, I!Throws, IP!Throws,
       I!ExecuteQuery, IP!ExecuteQuery
  <1>1. I!Constructs(t) => IP!Constructs(t)
    BY DEF I!Constructs, IP!Constructs
  <1>2. I!Publishes(t) => IP!Publishes(t)
    BY DEF I!Publishes, IP!Publishes
  <1>3. I!ReadsInstance(t) => IP!ReadsInstance(t)
    BY DEF I!ReadsInstance, IP!ReadsInstance
  <1>4. I!SelectsFree(t) => IP!SelectsFree(t)
    BY DEF I!SelectsFree, IP!SelectsFree
  <1>5. I!CountsUsed(t) => IP!CountsUsed(t)
    <2>1. I!Cardinality(used) = IP!Cardinality(used)
      BY DEF I!Cardinality, IP!Cardinality
    <2>2. QED
      BY <2>1 DEF I!CountsUsed, IP!CountsUsed
  <1>6. I!SelectsRow(t) => IP!SelectsRow(t)
    BY DEF I!SelectsRow, IP!SelectsRow
  <1>7. I!Updates(t) => IP!Updates(t)
    BY DEF I!Updates, IP!Updates, I!Executed, IP!Executed
  <1>8. I!Inserts(t) => IP!Inserts(t)
    BY DEF I!Inserts, IP!Inserts, I!Executed, IP!Executed
  <1>9. I!Replies(t) => IP!Replies(t)
    BY DEF I!Replies, IP!Replies
  <1>10. I!ReplyThrows(t) => IP!ReplyThrows(t)
    BY DEF I!ReplyThrows, IP!ReplyThrows
  <1>11. QED
    BY <1>1, <1>2, <1>3, <1>4, <1>5, <1>6, <1>7, <1>8, <1>9, <1>10

LEMMA SameRequests ==
  /\ \A t \in Tasks, r \in Gets : I!GetImage(t, r) => IP!GetImage(t, r)
  /\ \A t \in Tasks : \A k : I!PostImageUpload(t, k) => IP!PostImageUpload(t, k)
  /\ \A k : I!FreesRow(k) => IP!FreesRow(k)
  /\ \A k : I!DeletesRow(k) => IP!DeletesRow(k)
  /\ I!Restarts => IP!Restarts
  /\ I!HeldKeys = IP!HeldKeys
  <1> USE DEF I!Goes, IP!Goes, I!Acts, IP!Acts, I!Quiet, IP!Quiet, I!Forgets, IP!Forgets,
       I!table, IP!table, I!memory, IP!memory, I!locals, IP!locals, I!clients, IP!clients
  <1>1. \A t \in Tasks, r \in Gets : I!GetImage(t, r) => IP!GetImage(t, r)
    BY DEF I!GetImage, IP!GetImage
  <1>2. \A t \in Tasks : \A k : I!PostImageUpload(t, k) => IP!PostImageUpload(t, k)
    BY DEF I!PostImageUpload, IP!PostImageUpload
  <1>3. \A k : I!FreesRow(k) => IP!FreesRow(k)
    BY DEF I!FreesRow, IP!FreesRow
  <1>4. \A k : I!DeletesRow(k) => IP!DeletesRow(k)
    BY DEF I!DeletesRow, IP!DeletesRow
  <1>5. I!Restarts => IP!Restarts
    BY DEF I!Restarts, IP!Restarts
  <1>6. I!HeldKeys = IP!HeldKeys
    BY DEF I!HeldKeys, IP!HeldKeys
  <1>7. QED
    BY <1>1, <1>2, <1>3, <1>4, <1>5, <1>6

\* Every step is a step of ImageManager.
LEMMA ImageSteps == [Next]_vars => [IP!Next]_(IP!vars)
  <1> SUFFICES ASSUME [Next]_vars PROVE [IP!Next]_(IP!vars)
    OBVIOUS
  <1>1. ASSUME UNCHANGED imageVars PROVE UNCHANGED IP!vars
    BY <1>1 DEF imageVars, IP!vars
  <1>2. CASE Commands \/ ConsoleStep
    BY <1>1, <1>2, SameRequests DEF Commands, ConsoleStep, MemoryKept, IP!Next
  <1>3. CASE SendsQuery
    BY <1>3, SameRequests DEF SendsQuery, IP!Next
  <1>4. CASE Terminated \/ UNCHANGED vars \/ \E r \in Requests : Arrives(r)
    BY <1>1, <1>4 DEF Terminated, Arrives, vars
  <1>5. ASSUME NEW t \in Tasks, Takes(t) PROVE [IP!Next]_(IP!vars)
    BY <1>1, <1>5, SameRequests DEF Takes, IP!Next
  <1>6. ASSUME NEW t \in Tasks, Loops(t) \/ Handles(t) \/ Returns(t) \/ Throws(t)
        PROVE  [IP!Next]_(IP!vars)
    <2>1. UNCHANGED imageVars \/ IP!Handles(t)
      BY <1>6, SameHandlers DEF Loops, Handles, Returns, Throws, I!Handles, IP!Handles
    <2>2. QED
      BY <1>1, <2>1 DEF IP!Next
  <1>7. QED
    BY <1>2, <1>3, <1>4, <1>5, <1>6 DEF Next, TaskStep

-----------------------------------------------------------------------------
(***************************************************************************)
(* The invariant of the whole                                              *)
(***************************************************************************)
\* The invariants of the two components.
ServerInv == SP!IInv /\ SP!SerialInv

\* A worker without a handler has no request.
Resting == \A t \in Tasks : handlerPc[t] = "idle" => request[t] = None

WholeInv ==
    /\ ServerInv
    /\ IP!TypeInv
    /\ Coupled
    /\ Resting
    /\ HandlersTakeTurns

LEMMA WholeInit == Init => WholeInv
  <1> SUFFICES ASSUME Init PROVE WholeInv
    OBVIOUS
  <1>1. SP!Init
    BY DEF Init, S!Init, SP!Init, S!Listeners, SP!Listeners, S!Tasks, SP!Tasks
  <1>2. SP!IInv
    BY <1>1, Assumptions, SP!InitInv
  <1>3. SP!SerialInv
    BY <1>1 DEF SP!Init, SP!SerialInv, SP!OthersIdle, SP!Live
  <1>4. IP!Init
    BY DEF Init, I!Init, IP!Init
  <1>5. IP!TypeInv
    BY <1>4, Assumptions, IP!TypeInit
  <1>6. Coupled /\ Resting /\ HandlersTakeTurns
    BY DEF Init, S!Init, I!Init, S!Tasks, Tasks, Coupled, Resting, HandlersTakeTurns
  <1>7. QED
    BY <1>2, <1>3, <1>5, <1>6 DEF WholeInv, ServerInv

\* Whatever the handlers do, the server keeps its invariant.
LEMMA ServerInvStep == ServerInv /\ [Next]_vars => ServerInv'
  <1> SUFFICES ASSUME ServerInv, [Next]_vars PROVE ServerInv'
    OBVIOUS
  <1>1. SP!IInv /\ SP!SerialInv /\ [SP!Next]_(SP!vars)
    BY ServerSteps DEF ServerInv
  <1>2. SP!TypeOK'
    <2>1. SP!TypeOK
      BY <1>1 DEF SP!IInv
    <2>2. QED
      BY <1>1, <2>1, Assumptions, SP!NextType
  <1>3. SP!ConsoleInv' /\ SP!NoLeakedListener'
    BY <1>1, Assumptions, SP!ListenerStep
  <1>4. SP!TaskInv'
    BY <1>1, Assumptions, SP!TaskInvStep
  <1>5. SP!StartedListenerHasItsTask'
    BY <1>1, Assumptions, SP!StartedStep
  <1>6. SP!RequestOwnership'
    BY <1>1, Assumptions, SP!OwnershipStep
  <1>7. SP!OpenInv'
    BY <1>1, Assumptions, SP!OpenStep
  <1>8. SP!SerialInv'
    BY <1>1, Assumptions, SP!SerialStep
  <1>9. QED
    BY <1>2, <1>3, <1>4, <1>5, <1>6, <1>7, <1>8 DEF ServerInv, SP!IInv

LEMMA ImageTypeStep == IP!TypeInv /\ [Next]_vars => IP!TypeInv'
  BY ImageSteps, Assumptions, IP!TypeStep

-----------------------------------------------------------------------------
(***************************************************************************)
(* Handlers and tasks                                                      *)
(***************************************************************************)
\* What a statement of a handler changes of where handlers are.
HandlerMoves(t) ==
    /\ handlerPc[t] # "idle"
    /\ UNCHANGED overlaps
    /\ \A u \in Tasks \ {t} : handlerPc'[u] = handlerPc[u] /\ request'[u] = request[u]
    /\ \/ handlerPc'[t] # "idle" /\ request'[t] = request[t]
       \/ handlerPc'[t] = "idle" /\ request'[t] = None

LEMMA FinishesMoves ==
  ASSUME IP!TypeInv, NEW t \in Tasks, NEW from, from # "idle", I!Finishes(t, from),
         UNCHANGED overlaps
  PROVE  HandlerMoves(t) /\ handlerPc'[t] = "idle"
  BY DEF IP!TypeInv, IP!TypeOK, I!Finishes, I!Goes, HandlerMoves

LEMMA GoesMoves ==
  ASSUME IP!TypeInv, NEW t \in Tasks, NEW from, from # "idle", NEW to, to # "idle",
         I!Goes(t, from, to), UNCHANGED <<request, overlaps>>
  PROVE  HandlerMoves(t)
  BY DEF IP!TypeInv, IP!TypeOK, I!Goes, HandlerMoves

LEMMA HandlesMoves ==
  ASSUME IP!TypeInv, NEW t \in Tasks, I!Handles(t)
  PROVE  HandlerMoves(t)
  <1> USE DEF I!locals, I!clients
  <1>1. CASE I!Constructs(t) \/ I!SelectsFree(t) \/ I!CountsUsed(t)
    BY <1>1, FinishesMoves, GoesMoves
       DEF I!Constructs, I!SelectsFree, I!CountsUsed, I!HandlerThrows
  <1>2. CASE I!Publishes(t) \/ I!ReadsInstance(t)
    BY <1>2, GoesMoves DEF I!Publishes, I!ReadsInstance
  <1>3. CASE I!SelectsRow(t)
    BY <1>3, FinishesMoves, GoesMoves DEF I!SelectsRow
  <1>4. CASE I!Updates(t) \/ I!Inserts(t)
    BY <1>4, FinishesMoves, GoesMoves DEF I!Updates, I!Inserts, I!Executed
  <1>5. CASE I!Replies(t) \/ I!ReplyThrows(t)
    BY <1>5, FinishesMoves DEF I!Replies, I!ReplyThrows
  <1>6. QED
    BY <1>1, <1>2, <1>3, <1>4, <1>5 DEF I!Handles

\* What a step of a task changes of where tasks are.
TaskMoves(t, from, to) ==
    /\ process = "running" /\ process' = "running"
    /\ taskPc[t] = from /\ taskPc'[t] = to
    /\ \A u \in Tasks \ {t} : taskPc'[u] = taskPc[u] /\ taskRequest'[u] = taskRequest[u]

LEMMA StepMoves ==
  ASSUME SP!TypeOK, NEW t \in Tasks
  PROVE  /\ S!CallsGetContext(t) => TaskMoves(t, "loop", "get")
         /\ S!GetContextThrows(t) => TaskMoves(t, "get", "getContextThrew")
         /\ S!CloseReturns(t) => TaskMoves(t, "close", "loop")
         /\ S!HandlerReturns(t) => TaskMoves(t, "handle", "close")
         /\ S!GetContextReturns(t) => TaskMoves(t, "get", "handle")
         /\ S!HandlerThrows(t) => TaskMoves(t, taskPc[t], "handlerThrew")
  BY DEF SP!TypeOK, SP!Tasks, Tasks, TaskMoves, S!TaskGoes, S!consoleVars, S!Releases,
     S!CallsGetContext, S!GetContextThrows, S!CloseReturns, S!HandlerReturns,
     S!GetContextReturns, S!HandlerThrows

\* GetContext returns a request to the task, and nothing else changes there.
LEMMA TakesRequest ==
  ASSUME SP!TypeOK, NEW t \in Tasks, S!GetContextReturns(t)
  PROVE  Head(contextQueue) \in Requests /\ taskRequest'[t] = Head(contextQueue)
  <1>1. contextQueue \in Seq(Requests) /\ contextQueue # <<>>
    BY DEF SP!TypeOK, S!GetContextReturns
  <1>2. taskRequest' = [taskRequest EXCEPT ![t] = Head(contextQueue)]
    BY DEF S!GetContextReturns
  <1>3. taskRequest'[t] = Head(contextQueue)
    BY <1>2 DEF SP!TypeOK, SP!Tasks, Tasks
  <1>4. QED
    BY <1>1, <1>3

\* The handlers stay in the tasks that took their requests.
LEMMA CoupledStep ==
  ASSUME ServerInv, IP!TypeInv, Coupled, Resting, [Next]_vars
  PROVE  Coupled' /\ Resting'
  <1> DEFINE Placed(t) ==
        /\ handlerPc[t] # "idle" => taskPc[t] = "handle" /\ request[t] \in {taskRequest[t], None}
        /\ taskPc[t] = "handle" /\ taskRequest[t] \in Gets => request[t] = taskRequest[t]
  <1>0. SP!TypeOK /\ SP!TaskInv
    BY DEF ServerInv, SP!IInv
  <1>a. process = "running" => \A u \in Tasks : Placed(u)
    BY DEF Coupled
  <1>b. ASSUME NEW t \in Tasks, process = "running", Placed(t)',
               handlerPc'[t] = "idle" => request'[t] = None,
               \A u \in Tasks \ {t} :
                   /\ taskPc'[u] = taskPc[u] /\ taskRequest'[u] = taskRequest[u]
                   /\ handlerPc'[u] = handlerPc[u] /\ request'[u] = request[u]
        PROVE  Coupled' /\ Resting'
    <2>1. ASSUME NEW u \in Tasks PROVE Placed(u)'
      BY <1>a, <1>b, <2>1
    <2>2. ASSUME NEW u \in Tasks PROVE handlerPc'[u] = "idle" => request'[u] = None
      BY <1>b, <2>2 DEF Resting
    <2>3. QED
      BY <2>1, <2>2 DEF Coupled, Resting
  <1>c. ASSUME NEW t \in Tasks, process = "running", taskPc[t] # "handle"
        PROVE  handlerPc[t] = "idle" /\ request[t] = None
    BY <1>a, <1>c DEF Resting
  <1>1. CASE Commands \/ ConsoleStep
    <2>1. CASE process' = "running"
      <3>1. UNCHANGED imageVars /\ process = "running"
        BY <1>1, <2>1 DEF Commands, ConsoleStep, MemoryKept, S!ServerInit, S!StopServer,
           S!ExitStopped, S!CommandThrows, S!InputEnds, S!WrongCommand, S!ConsoleStep,
           S!SyncReturns, S!SyncThrows, S!StartListener, S!StartThrows, S!SpawnTask,
           S!CloseListener, S!StopsWorking, S!ProcessExits, S!Reads, S!ConsoleGoes
      <3>2. taskRequest' = taskRequest /\ (taskPc' = taskPc \/ S!SpawnTask)
        BY <1>1 DEF Commands, ConsoleStep, S!ServerInit, S!StopServer,
           S!ExitStopped, S!CommandThrows, S!InputEnds, S!WrongCommand, S!ConsoleStep,
           S!SyncReturns, S!SyncThrows, S!StartListener, S!StartThrows, S!SpawnTask,
           S!CloseListener, S!StopsWorking, S!ProcessExits, S!taskVars
      <3>3. ASSUME NEW u \in Tasks PROVE Placed(u)'
        <4>1. UNCHANGED <<handlerPc, request>>
          BY <3>1 DEF imageVars
        <4>2. CASE taskPc' = taskPc
          BY <1>a, <3>1, <3>2, <4>1, <4>2
        <4>3. CASE S!SpawnTask
          <5>1. taskPc' = [taskPc EXCEPT ![httpListener] = "loop"] /\ console = "spawn"
            BY <4>3 DEF S!SpawnTask, S!ConsoleGoes
          <5>2. CASE u = httpListener
            <6>1. taskPc[u] = "none"
              BY <1>0, <5>1, <5>2 DEF SP!TaskInv, SP!TaskOK, SP!Starting, SP!Tasks, Tasks
            <6>2. handlerPc[u] = "idle" /\ taskPc'[u] = "loop"
              BY <1>c, <3>1, <5>1, <5>2, <6>1, <1>0 DEF SP!TypeOK, SP!Tasks, Tasks
            <6>3. QED
              BY <4>1, <6>2
          <5>3. CASE u # httpListener
            <6>1. taskPc'[u] = taskPc[u]
              BY <5>1, <5>3, <1>0 DEF SP!TypeOK, SP!Tasks, Tasks
            <6>2. QED
              BY <1>a, <3>1, <3>2, <4>1, <6>1
          <5>4. QED
            BY <5>2, <5>3
        <4>4. QED
          BY <3>2, <4>2, <4>3
      <3>4. Resting'
        BY <3>1 DEF Resting, imageVars
      <3>5. QED
        BY <3>3, <3>4 DEF Coupled
    <2>2. CASE process' # "running"
      <3>1. I!Restarts
        BY <1>1, <2>2 DEF Commands, ConsoleStep, MemoryKept
      <3>2. Resting'
        BY <3>1 DEF I!Restarts, Resting
      <3>3. QED
        BY <2>2, <3>2 DEF Coupled
    <2>3. QED
      BY <2>1, <2>2
  <1>2. CASE UNCHANGED <<process, taskPc, taskRequest, handlerPc, request>>
    BY <1>2 DEF Coupled, Resting
  <1>3. CASE SendsQuery \/ Terminated \/ UNCHANGED vars \/ \E r \in Requests : Arrives(r)
    BY <1>2, <1>3 DEF SendsQuery, Terminated, Arrives, vars, serverVars, imageVars,
       I!FreesRow, I!DeletesRow, I!locals, S!Arrives, S!consoleVars, S!taskVars
  <1>4. ASSUME NEW t \in Tasks, Loops(t) PROVE Coupled' /\ Resting'
    <2>1. PICK from, to : TaskMoves(t, from, to) /\ from # "handle" /\ to # "handle"
      BY <1>0, <1>4, StepMoves DEF Loops
    <2>2. UNCHANGED <<handlerPc, request>>
      BY <1>4 DEF Loops, imageVars
    <2>3. handlerPc[t] = "idle" /\ request[t] = None
      BY <1>c, <2>1 DEF TaskMoves
    <2>4. QED
      BY <1>b, <2>1, <2>2, <2>3 DEF TaskMoves
  <1>5. ASSUME NEW t \in Tasks, Takes(t) PROVE Coupled' /\ Resting'
    <2>1. TaskMoves(t, "get", "handle")
      BY <1>0, <1>5, StepMoves DEF Takes
    <2>2. handlerPc[t] = "idle" /\ request[t] = None
      BY <1>c, <2>1 DEF TaskMoves
    <2> DEFINE r == Head(contextQueue)
    <2>3. r \in Requests /\ taskRequest'[t] = r
      BY <1>0, <1>5, TakesRequest DEF Takes
    <2> HIDE DEF r
    <2>4. \/ /\ r \in Gets
             /\ handlerPc' = [handlerPc EXCEPT ![t] = "instance"]
             /\ request' = [request EXCEPT ![t] = r]
          \/ /\ r \in Posts
             /\ handlerPc' = [handlerPc EXCEPT ![t] = "instance"] \/ UNCHANGED handlerPc
             /\ UNCHANGED request
      BY <1>5 DEF Takes, r, I!GetImage, I!PostImageUpload, I!Goes, imageVars
    <2>5. DOMAIN handlerPc = Tasks /\ DOMAIN request = Tasks
      BY DEF IP!TypeInv, IP!TypeOK
    <2>6. r \in Posts => r \notin Gets
      BY TfUServerAssumption
    <2>7. Placed(t)'
      BY <2>1, <2>2, <2>3, <2>4, <2>5, <2>6 DEF TaskMoves
    <2>8. handlerPc'[t] = "idle" => request'[t] = None
      BY <2>2, <2>4, <2>5
    <2>9. \A u \in Tasks \ {t} : handlerPc'[u] = handlerPc[u] /\ request'[u] = request[u]
      BY <2>4, <2>5
    <2>10. QED
      BY <1>b, <2>1, <2>7, <2>8, <2>9 DEF TaskMoves
  <1>6. ASSUME NEW t \in Tasks, Handles(t) PROVE Coupled' /\ Resting'
    <2>1. HandlerMoves(t)
      BY <1>6, HandlesMoves DEF Handles
    <2>2. process = "running" /\ UNCHANGED <<taskPc, taskRequest>> /\ handlerPc'[t] # "idle"
      BY <1>6 DEF Handles, serverVars
    <2>3. Placed(t) /\ request'[t] = request[t]
      BY <1>a, <2>1, <2>2 DEF HandlerMoves
    <2>4. Placed(t)'
      BY <2>1, <2>2, <2>3 DEF HandlerMoves
    <2>5. QED
      BY <1>b, <2>1, <2>2, <2>4 DEF HandlerMoves
  <1>7. ASSUME NEW t \in Tasks, Returns(t) \/ Throws(t) PROVE Coupled' /\ Resting'
    <2>1. PICK to \in {"close", "handlerThrew"} : TaskMoves(t, "handle", to)
      BY <1>0, <1>7, StepMoves DEF Returns, Throws
    <2>2. CASE handlerPc[t] = "idle" /\ UNCHANGED imageVars
      BY <1>b, <2>1, <2>2 DEF TaskMoves, imageVars, Resting
    <2>3. CASE I!Handles(t)
      <3>1. HandlerMoves(t)
        BY <2>3, HandlesMoves
      <3>2. handlerPc'[t] = "idle"
        <4>1. CASE Throws(t)
          BY <3>1, <4>1, FinishesMoves DEF Throws, I!ReplyThrows, I!Finishes, I!Goes, HandlerMoves,
             IP!TypeInv, IP!TypeOK
        <4>2. CASE Returns(t) /\ I!Replies(t)
          BY <4>2 DEF I!Replies, I!Finishes, I!Goes, IP!TypeInv, IP!TypeOK
        <4>3. CASE taskRequest[t] \in Posts /\ (I!Updates(t) \/ I!Inserts(t))
          <5>1. request[t] \in {taskRequest[t], None} /\ request[t] \in Gets \cup {None}
            BY <1>a, <2>1, <3>1 DEF HandlerMoves, TaskMoves, IP!TypeInv, IP!TypeOK
          <5>2. request[t] = None
            BY <4>3, <5>1, TfUServerAssumption
          <5>3. \E from : I!Finishes(t, from)
            BY <4>3, <5>2 DEF I!Updates, I!Inserts, I!Executed
          <5>4. QED
            BY <5>3 DEF I!Finishes, I!Goes, IP!TypeInv, IP!TypeOK
        <4>4. QED
          BY <1>7, <3>1, <4>1, <4>2, <4>3 DEF Returns, HandlerMoves
      <3>3. QED
        BY <1>b, <2>1, <3>1, <3>2 DEF TaskMoves, HandlerMoves
    <2>4. QED
      BY <1>7, <2>2, <2>3 DEF Returns, Throws, I!Handles
  <1>8. QED
    BY <1>1, <1>3, <1>4, <1>5, <1>6, <1>7 DEF Next, TaskStep

-----------------------------------------------------------------------------
(***************************************************************************)
(* Handlers take turns                                                     *)
(***************************************************************************)
\* A task that is given a request of an orderly server is the only busy one.
LEMMA TakesAlone ==
  ASSUME ServerInv, Coupled, ~hurried, NEW t \in Tasks, S!GetContextReturns(t)
  PROVE  I!Quiet
  <1>1. /\ process = "running" /\ taskPc[t] = "get"
        /\ listener[taskListener[t]] = "started"
    BY DEF S!GetContextReturns, S!TaskGoes
  <1>2. /\ SP!TypeOK /\ SP!NoLeakedListener
        /\ \A u \in Tasks : SP!OthersIdle(u)
    BY DEF ServerInv, SP!IInv, SP!SerialInv, SP!Tasks, Tasks
  <1>3. taskListener[t] = httpListener
    BY <1>1, <1>2 DEF SP!TypeOK, SP!NoLeakedListener, SP!Tasks, Tasks
  <1>4. t = httpListener
    BY <1>1, <1>2, <1>3 DEF SP!OthersIdle, SP!Live, SP!Ended
  <1>5. ASSUME NEW u \in Tasks PROVE taskPc[u] # "handle"
    BY <1>1, <1>2, <1>4, <1>5 DEF SP!OthersIdle, SP!Live, SP!Ended
  <1>6. QED
    BY <1>1, <1>5 DEF Coupled, I!Quiet

LEMMA TurnsStep ==
  ASSUME ServerInv, IP!TypeInv, Coupled, HandlersTakeTurns, [Next]_vars
  PROVE  HandlersTakeTurns'
  <1> SUFFICES ASSUME ~hurried' PROVE "handler" \notin overlaps'
    BY DEF HandlersTakeTurns
  <1>1. ~hurried /\ "handler" \notin overlaps
    <2>1. SP!TypeOK /\ [SP!Next]_(SP!vars)
      BY ServerSteps DEF ServerInv, SP!IInv
    <2>2. ~hurried
      BY <2>1, Assumptions, SP!HurriedStays
    <2>3. QED
      BY <2>2 DEF HandlersTakeTurns
  <1>2. CASE UNCHANGED overlaps
    BY <1>1, <1>2
  <1>3. CASE Commands \/ ConsoleStep
    BY <1>2, <1>3 DEF Commands, ConsoleStep, MemoryKept, imageVars, I!Restarts, I!clients
  <1>4. CASE SendsQuery
    BY <1>1, <1>4 DEF SendsQuery, I!FreesRow, I!DeletesRow, I!Acts
  <1>5. CASE Terminated \/ UNCHANGED vars \/ \E r \in Requests : Arrives(r)
    BY <1>2, <1>5 DEF Terminated, Arrives, vars, imageVars
  <1>6. ASSUME NEW t \in Tasks, Takes(t) PROVE "handler" \notin overlaps'
    <2>1. I!Quiet
      BY <1>1, <1>6, TakesAlone DEF Takes
    <2>2. QED
      BY <1>1, <1>6, <2>1 DEF Takes, I!GetImage, I!PostImageUpload, I!Acts, imageVars
  <1>7. ASSUME NEW t \in Tasks, Loops(t) \/ Handles(t) \/ Returns(t) \/ Throws(t)
        PROVE  "handler" \notin overlaps'
    <2>1. UNCHANGED imageVars \/ I!Handles(t)
      BY <1>7 DEF Loops, Handles, Returns, Throws, I!Handles
    <2>2. UNCHANGED overlaps
      BY <2>1, HandlesMoves DEF imageVars, HandlerMoves
    <2>3. QED
      BY <1>2, <2>2
  <1>8. QED
    BY <1>3, <1>4, <1>5, <1>6, <1>7 DEF Next, TaskStep

LEMMA WholeStep == WholeInv /\ [Next]_vars => WholeInv'
  BY ServerInvStep, ImageTypeStep, CoupledStep, TurnsStep DEF WholeInv

LEMMA WholeInductive == Spec => []WholeInv
  BY WholeInit, WholeStep, PTL DEF Spec

\* The server as a whole keeps its types, and every handler runs in the task that
\* took its request from GetContext.
THEOREM WholeTypeCorrect == Spec => []TypeOK
  <1>1. WholeInv => TypeOK
    BY DEF WholeInv, ServerInv, SP!IInv, SP!TypeOK, S!TypeOK, SP!Listeners, S!Listeners,
       SP!Tasks, S!Tasks, SP!TaskStates, S!TaskStates, SP!Handling, S!Handling, SP!Ended, S!Ended,
       SP!ConsoleStates, S!ConsoleStates, SP!RequestStates, S!RequestStates,
       IP!TypeInv, IP!TypeOK, I!TypeOK, IP!Statements, I!Statements, TypeOK
  <1>2. QED
    BY WholeInductive, <1>1, PTL

\* As long as the operator stops only a server whose tasks are all waiting, no
\* two handlers overlap: what the managers take for granted, Server grants.
THEOREM TurnsTaken == Spec => []HandlersTakeTurns
  <1>1. WholeInv => HandlersTakeTurns
    BY DEF WholeInv
  <1>2. QED
    BY WholeInductive, <1>1, PTL

-----------------------------------------------------------------------------
(***************************************************************************)
(* Who is given a key                                                      *)
(***************************************************************************)
\* Only the answer to a request adds to the holders, in the task that took it.
LEMMA NewHolders ==
  ASSUME WholeInv, WholeInv', [Next]_vars, NEW h \in holders', h \notin holders
  PROVE  \E t \in Tasks : S!HandlerReturns(t) /\ taskRequest[t] = h[2] /\ h[2] \in Gets
  <1>1. IP!TypeOK /\ IP!TypeOK' /\ Coupled
    BY DEF WholeInv, IP!TypeInv
  <1>2. ASSUME UNCHANGED holders PROVE FALSE
    BY <1>2
  <1>3. CASE Commands \/ ConsoleStep
    BY <1>2, <1>3 DEF Commands, ConsoleStep, MemoryKept, imageVars, I!Restarts, I!clients
  <1>4. CASE SendsQuery
    BY <1>4 DEF SendsQuery, I!FreesRow, I!DeletesRow, I!Forgets
  <1>5. CASE Terminated \/ UNCHANGED vars \/ \E r \in Requests : Arrives(r)
    BY <1>2, <1>5 DEF Terminated, Arrives, vars, imageVars
  <1>6. ASSUME NEW t \in Tasks, Loops(t) \/ Takes(t) PROVE FALSE
    BY <1>2, <1>6 DEF Loops, Takes, imageVars, I!GetImage, I!PostImageUpload
  <1>7. ASSUME NEW t \in Tasks, I!Handles(t), ~I!Replies(t) PROVE FALSE
    BY <1>2, <1>7 DEF I!Handles, I!Constructs, I!Publishes, I!ReadsInstance, I!SelectsFree,
       I!CountsUsed, I!SelectsRow, I!Updates, I!Inserts, I!Executed, I!ReplyThrows,
       I!HandlerThrows, I!clients
  <1>8. ASSUME NEW t \in Tasks, Handles(t) \/ Throws(t) PROVE FALSE
    <2>1. I!Replies(t) => handlerPc[t] = "reply" /\ handlerPc'[t] = "idle"
      BY <1>1 DEF I!Replies, I!Finishes, I!Goes, IP!TypeOK
    <2>2. CASE Handles(t)
      BY <1>7, <2>1, <2>2 DEF Handles
    <2>3. CASE Throws(t)
      BY <1>2, <2>3 DEF Throws, imageVars, I!ReplyThrows, I!Constructs, I!SelectsFree,
         I!CountsUsed, I!SelectsRow, I!Updates, I!Inserts, I!Executed, I!HandlerThrows, I!clients
    <2>4. QED
      BY <1>8, <2>2, <2>3
  <1>9. ASSUME NEW t \in Tasks, Returns(t)
        PROVE  S!HandlerReturns(t) /\ taskRequest[t] = h[2] /\ h[2] \in Gets
    <2>1. I!Replies(t)
      BY <1>2, <1>7, <1>9 DEF Returns, imageVars, I!Handles
    <2>2. h = <<key[t], request[t]>> /\ handlerPc[t] = "reply"
      BY <2>1 DEF I!Replies, I!Finishes, I!Goes
    <2>3. h[2] = request[t] /\ h[2] \in Gets
      BY <1>1, <2>2 DEF IP!TypeOK
    <2>4. process = "running"
      BY <1>9 DEF Returns, S!HandlerReturns, S!TaskGoes
    <2>5. request[t] \in {taskRequest[t], None} /\ None \notin Gets
      BY <1>1, <2>2, <2>4, TfUServerAssumption DEF Coupled, Requests
    <2>6. S!HandlerReturns(t)
      BY <1>9 DEF Returns
    <2>7. QED
      BY <2>3, <2>5, <2>6
  <1>10. QED
    BY <1>3, <1>4, <1>5, <1>6, <1>8, <1>9 DEF Next, TaskStep

\* The step that adds a holder answers its request, which is still connected, and
\* what has become of the request of a holder stays.
LEMMA HoldersStep ==
  ASSUME WholeInv, WholeInv', HoldersAnswered, [Next]_vars
  PROVE  HoldersAnswered'
  <1>1. SP!IInv /\ SP!TypeOK /\ [SP!Next]_(SP!vars)
    BY ServerSteps DEF WholeInv, ServerInv, SP!IInv
  <1>2. holders' \subseteq Nat \X Gets
    BY DEF WholeInv, IP!TypeInv, IP!TypeOK
  <1> SUFFICES ASSUME NEW h \in holders'
               PROVE  requestState'[h[2]] = "answered"
    BY DEF HoldersAnswered
  <1>3. h[2] \in Requests
    BY <1>2 DEF Requests
  <1>4. CASE h \in holders
    <2>1. requestState[h[2]] = "answered"
      BY <1>4 DEF HoldersAnswered
    <2>2. requestState'[h[2]] = requestState[h[2]]
      BY <1>1, <1>3, <2>1, Assumptions, SP!LifecycleStep
    <2>3. QED
      BY <2>1, <2>2
  <1>5. CASE h \notin holders
    <2>1. PICK t \in Tasks : S!HandlerReturns(t) /\ taskRequest[t] = h[2] /\ h[2] \in Gets
      BY <1>5, NewHolders
    <2>2. requestState[h[2]] = "handling" /\ S!Ends(h[2], "answered")
      BY <2>1 DEF S!HandlerReturns
    <2>3. requestState \in [Requests -> SP!RequestStates]
      BY <1>1 DEF SP!TypeOK
    <2>4. QED
      BY <1>3, <2>2, <2>3 DEF S!Ends
  <1>6. QED
    BY <1>4, <1>5

\* A key only ever goes to a request that was answered while its listener was
\* listening: no stop leaves a key with a client it has cut off.
THEOREM KeysGoToTheAnswered == Spec => []HoldersAnswered
  <1>1. Init => HoldersAnswered
    BY DEF Init, I!Init, HoldersAnswered
  <1>2. WholeInv /\ WholeInv' /\ HoldersAnswered /\ [Next]_vars => HoldersAnswered'
    BY HoldersStep
  <1>3. QED
    BY WholeInductive, <1>1, <1>2, PTL DEF Spec

-----------------------------------------------------------------------------
(***************************************************************************)
(* The server as an allocator of keys                                      *)
(***************************************************************************)
LEMMA AllocatorStep ==
  ASSUME IP!Orderly, WholeInv, WholeInv', IP!KeyInv, [Next]_vars
  PROVE  /\ IP!KeyInv'
         /\ Patient' => IP!Implements
  <1>1. [IP!Next]_(IP!vars)
    BY ImageSteps
  <1>2. overlaps' = {} => IP!IInv
    BY <1>1, Assumptions, IP!NoOverlap DEF IP!KeyInv
  <1>3. overlaps' = {} => IP!IInv'
    BY <1>1, <1>2, Assumptions, IP!InvStep
  <1>4. overlaps' = {} => IP!Implements
    BY <1>1, <1>2, Assumptions, IP!StepImplements
  <1>5. Patient' => overlaps' = {}
    BY DEF Patient, WholeInv, HandlersTakeTurns, IP!TypeInv, IP!TypeOK
  <1>6. QED
    BY <1>3, <1>4, <1>5 DEF IP!KeyInv, WholeInv

\* The two views of the allocator are the same.
LEMMA SameAllocator == IP!Implements => [I!Allocator!Next]_(I!Allocator!vars)
  <1>1. I!HeldKeys = IP!HeldKeys /\ I!Reserved = IP!Reserved
    BY DEF I!HeldKeys, IP!HeldKeys, I!Reserved, IP!Reserved
  <1>2. (I!HeldKeys)' = (IP!HeldKeys)' /\ (I!Reserved)' = (IP!Reserved)'
    BY DEF I!HeldKeys, IP!HeldKeys, I!Reserved, IP!Reserved
  <1>3. QED
    BY <1>1, <1>2 DEF IP!Implements, IP!Allocator!Next, I!Allocator!Next, IP!Allocator!vars,
       I!Allocator!vars, IP!Allocator!Reserve, I!Allocator!Reserve, IP!Allocator!Hand,
       I!Allocator!Hand, IP!Allocator!Lose, I!Allocator!Lose, IP!Allocator!Release,
       I!Allocator!Release, IP!Allocator!Taken, I!Allocator!Taken

\* Under the conditions of KeysUnique, the server as a whole is an allocator of
\* keys, as long as the operator stops and queries an idle server only: through
\* every stop and start, and whatever handlers throw.
THEOREM ServerAllocates == ASSUME IP!Orderly PROVE Spec => ServerAllocatesKeys
  <1>1. Init => WholeInv /\ IP!KeyInv
    <2>1. Init => IP!Init
      BY DEF Init, I!Init, IP!Init
    <2>2. IP!Init => IP!IInv
      BY Assumptions, IP!InitInv
    <2>3. QED
      BY <2>1, <2>2, WholeInit DEF IP!KeyInv, WholeInv
  <1>2. WholeInv /\ IP!KeyInv /\ [Next]_vars => WholeInv' /\ IP!KeyInv'
    BY WholeStep, AllocatorStep
  <1>3. Init => I!Allocator!Init
    BY DEF Init, I!Init, I!Allocator!Init, I!Reserved, I!HeldKeys
  <1>4. WholeInv /\ WholeInv' /\ IP!KeyInv /\ [Next]_vars =>
          [Patient' => [I!Allocator!Next]_(I!Allocator!vars)]_vars
    BY AllocatorStep, SameAllocator
  <1>5. QED
    BY <1>1, <1>2, <1>3, <1>4, PTL DEF Spec, ServerAllocatesKeys
=============================================================================
