----------------------------- MODULE TfUServer -----------------------------
(***************************************************************************)
(* The server as a whole, as far as pictures go: the life cycle of Server  *)
(* decides which listener tasks there are and when one takes a request,    *)
(* and the handlers of ImageManager run inside them.  ImageManager lets    *)
(* any number of handlers overlap; here they do so only if the commands of *)
(* the operator bring it about.                                            *)
(*                                                                         *)
(* This is one life of the process: its end loses the memory of the        *)
(* managers and nothing follows.                                           *)
(***************************************************************************)
EXTENDS Naturals, Sequences

CONSTANTS
    Gets,          \* the GET /image requests
    Posts,         \* POST requests: uploads, and what does not concern pictures
    None,          \* no request, and no instance of the manager
    MaxStarts,     \* bound: the number of listeners `start` may create
    Faults,        \* what may go wrong in a call of the database
    OperatorDoes,  \* the queries the operator types
    StrayIds,      \* ids clients report without having been given them
    StatusIsText   \* TRUE: the column `status` has a text type

Requests == Gets \cup Posts

ASSUME TfUServerAssumption ==
    /\ None \notin Requests \cup Nat
    /\ Gets \cap Posts = {}
    /\ MaxStarts \in Nat
    /\ Faults \subseteq {"noConnection", "sqlError"}
    /\ OperatorDoes \subseteq {"free", "delete"}
    /\ StrayIds \subseteq Nat
    /\ StatusIsText \in BOOLEAN

VARIABLES
    \* the variables of Server; taskPc is its pc
    process, stdin, isWorking, console, command, httpListener, listener, contextQueue,
    taskPc, taskListener, taskRequest, requestState, hurried,
    \* the variables of ImageManager; handlerPc is its pc
    used, free, instance, dictionary, handlerPc, request, self, key, asked, holders, overlaps

serverVars == <<process, stdin, isWorking, console, command, httpListener, listener,
                contextQueue, taskPc, taskListener, taskRequest, requestState, hurried>>
imageVars == <<used, free, instance, dictionary, handlerPc, request, self, key, asked,
               holders, overlaps>>
vars == <<serverVars, imageVars>>

Tasks == 1 .. MaxStarts

S == INSTANCE Server WITH pc <- taskPc, NoRequest <- None

I == INSTANCE ImageManager WITH pc <- handlerPc, Workers <- Tasks, Requests <- Gets

Init == S!Init /\ I!Init

-----------------------------------------------------------------------------
(***************************************************************************)
(* The console thread                                                      *)
(***************************************************************************)
\* The end of the process takes the memory of the managers with it.
MemoryKept == IF process' = "running" THEN UNCHANGED imageVars ELSE I!Restarts

Commands ==
    /\ \/ S!ServerInit \/ S!StopServer \/ S!ExitStopped \/ S!CommandThrows
       \/ S!InputEnds \/ S!WrongCommand
    /\ MemoryKept

ConsoleStep == S!ConsoleStep /\ MemoryKept

\* `send query`: obeyed between two commands, while the tasks go on.
SendsQuery ==
    /\ process = "running" /\ console = "read" /\ stdin = "open" /\ isWorking
    /\ \E k \in used : I!FreesRow(k) \/ I!DeletesRow(k)
    /\ UNCHANGED serverVars

-----------------------------------------------------------------------------
(***************************************************************************)
(* The tasks                                                               *)
(***************************************************************************)
Arrives(r) == S!Arrives(r) /\ UNCHANGED imageVars

\* The loop of a task around the handlers.
Loops(t) ==
    /\ \/ S!CallsGetContext(t) \/ S!GetContextThrows(t) \/ S!CloseReturns(t)
       \/ taskPc[t] = "close" /\ S!HandlerThrows(t)
    /\ UNCHANGED imageVars

\* dataReceived dispatches the request the task has been given.
Takes(t) ==
    /\ S!GetContextReturns(t)
    /\ LET r == Head(contextQueue)
       IN  \/ r \in Gets /\ I!GetImage(t, r)
           \/ r \in Posts /\ \E k \in I!HeldKeys \cup StrayIds : I!PostImageUpload(t, k)
           \/ r \in Posts /\ UNCHANGED imageVars

\* A statement of the handler, after which it goes on.
Handles(t) ==
    /\ process = "running"
    /\ I!Handles(t)
    /\ handlerPc'[t] # "idle"
    /\ UNCHANGED serverVars

\* GET /image returns when it has answered a client that is connected, POST
\* /imageupload from its statement, or at once when the upload failed.
Returns(t) ==
    /\ S!HandlerReturns(t)
    /\ \/ I!Replies(t)
       \/ /\ taskRequest[t] \in Posts
          /\ I!Updates(t) \/ I!Inserts(t)
       \/ handlerPc[t] = "idle" /\ UNCHANGED imageVars

\* Deviation: a handler that throws is forgotten where it was.
ThrowsAside(t) ==
    /\ taskPc[t] = "handle"
    /\ S!HandlerThrows(t)
    /\ UNCHANGED imageVars

\* An exception of the handler ends the handler and the task: the answer cannot be
\* written, the manager indexed a DataSet without tables, or had no connection.
Throws(t) ==
    /\ taskPc[t] = "handle"
    /\ S!HandlerThrows(t)
    /\ \/ I!ReplyThrows(t)
       \/ /\ I!Constructs(t) \/ I!SelectsFree(t) \/ I!CountsUsed(t) \/ I!SelectsRow(t)
          /\ handlerPc'[t] = "idle"
       \/ /\ "noConnection" \in Faults /\ UNCHANGED <<used, free>>
          /\ I!Updates(t) \/ I!Inserts(t)
          /\ handlerPc'[t] = "idle"
       \/ handlerPc[t] = "idle" /\ UNCHANGED imageVars

TaskStep(t) == Loops(t) \/ Takes(t) \/ Handles(t) \/ Returns(t) \/ Throws(t)

-----------------------------------------------------------------------------
Terminated == process # "running" /\ UNCHANGED vars

Next ==
    \/ Commands \/ ConsoleStep \/ SendsQuery
    \/ \E r \in Requests : Arrives(r)
    \/ \E t \in Tasks : TaskStep(t)
    \/ Terminated

Spec == Init /\ [][Next]_vars

-----------------------------------------------------------------------------
(***************************************************************************)
(* Properties                                                              *)
(***************************************************************************)

\* A handler of ImageManager runs in the task that has taken its request.
Coupled ==
    process = "running" => \A t \in Tasks :
        /\ handlerPc[t] # "idle" => taskPc[t] = "handle" /\ request[t] \in {taskRequest[t], None}
        /\ taskPc[t] = "handle" /\ taskRequest[t] \in Gets => request[t] = taskRequest[t]

TypeOK == S!TypeOK /\ I!TypeOK /\ Coupled

\* What ImageManager takes for granted, Server grants: as long as the operator
\* only stops an idle server, no two handlers overlap, however often the server
\* is stopped and started and whatever handlers do.
HandlersTakeTurns == ~hurried => "handler" \notin overlaps

\* A key is only held by a client that was answered while its listener was
\* listening: a stop in the middle of getEmptyKey leaves a row behind, and gives
\* its key to nobody.
HoldersAnswered ==
    \A h \in holders : requestState[h[2]] = "answered"

\* As long as the operator stops and queries an idle server only, the server as a
\* whole is an allocator of keys.
Patient == ~hurried /\ "operator" \notin overlaps

ServerAllocatesKeys ==
    I!Allocator!Init /\ [][Patient' => [I!Allocator!Next]_(I!Allocator!vars)]_vars

\* Server.cs:87 has GET /image answer with an "empty key": no two requests that were
\* answered have the same key, as long as the operator frees none.
AnsweredKeysDiffer ==
    \A g, h \in holders : g[1] = h[1] => g = h
=============================================================================
