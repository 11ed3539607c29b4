# TfU-server in TLA+

TfU-server is the backend of a travel-planning app: a C# console program that
answers HTTP requests of the app from a MariaDB database and a few in-memory
dictionaries. This directory models the program (`src/*.cs`) in TLA+, checks the
models with TLC on small instances, and proves the central properties with TLAPS
for every value of the constants.

The program has no tests and almost no comments, so the code is the reference
throughout: 1032 lines of C# in `src/*.cs`. Nearly all other files of the repository
are an unpacked copy of OpenSSL 1.1.0e; no file of the server refers to it, builds
it or links it, and it is not modelled, nor are certificates and build output.

## 1. The system

### Components, their state and operations

| component | state | operations |
|---|---|---|
| **Console** (`CommandManager`, `Program`) | `isWorking`, the line being obeyed | `start`, `stop`, `exit`, `syncWP`, `send query ...`, anything else: "wrong command" |
| **Server** (`Server.cs`) | `httpListener`, one endless task per successful `start` | `serverInit`, `startServer`, `stopServer`; in the task: `GetContext`, `dataReceived`, `Response.Close` |
| **Handlers** (`clientGet`, `clientPost`) | none of their own | GET `/image`, `/recommend`, `/waypoints`; POST `/users`, `/schedule`, `/sharedschedule`, `/imageupload` |
| **DBManager** | none: a connection per call | `Select`, `ExecuteQuery`, `ExecuteQueryNoSpace`, `insertWaypointIntoDB` |
| **ImageManager** | `instance`, `imageDictionary`; table S3(id, status) | the getter `Instance`, `getEmptyKey`, `imageAdded`, `syncStorageToDictionary` |
| **ScheduleManager** | `scheduleDic`, `sharedScheduleDic`; tables SCHEDULE, SHAREDSCHEDULE | `addSchedule`, `addSharedSchedule`, `syncDBToDictionary`, `convertDataRowToSharedSchedule` |
| **ClientManager** | `clientDictionary`; table USER | `addClient` |
| data classes (`Schedule`, `SharedSchedule`, `Waypoint`, `Client`) | records | none |

### How they interact

The command loop runs on a foreground thread. `start` runs `serverInit` on it,
which creates an `HttpListener` and reloads the schedules
(`syncDBToDictionary`), and then `startServer`, which starts the listener and a
task. The task calls `GetContext`, runs the handler of the request and closes the
response, for ever; it reads the field `httpListener` again in every round.
`stop` stops and closes the listener. It does not wait for the task and does not
tell it anything: the task ends when `GetContext` throws. Stop and Close close the
connections of all requests of the listener, those of requests in handlers too; a
handler notices when it writes.

The handlers call the managers. A manager writes its dictionary and one row with
statements of their own connections: there are no transactions, no locks and no
shared connection. The tables outlive the process, the dictionaries do not.

### What is hard here

* *Interleaving.* The program is meant to handle one request at a time, and no manager
  takes a lock. But a task that is in a handler or between two rounds of its loop while
  `stop` and `start` come calls `GetContext` on the *new* listener, and from then on two
  tasks serve it. Each check-then-act of the managers (`getEmptyKey`,
  Select-then-INSERT, the getter of `Instance`) is then a race.
* *Failure.* Opening a connection throws to the caller; an SQL error of a Select
  comes back as a DataSet without tables, which some callers index and others
  test; an SQL error of a statement is swallowed. An exception in a handler ends
  the task while the listener goes on accepting; on the console thread it ends
  the process. Only POST `/sharedschedule` catches.
* *Order.* Dictionaries are written before the statement that may fail, keys are
  chosen before they are marked.
* *Clients.* The body of a POST is read, and an answer written, without a timeout, by
  the one task that serves everybody.
* *Restart.* At any statement the process may end. Schedules are reloaded by
  `start`, image keys by the constructor, shared schedules and users never.
* *Boundaries.* New image keys are counts of rows; `count++ > 20` is not 20.
* *Text.* What a client sends goes through a literal of MySQL and one or two JSON
  libraries, with `u0027` replaced by an apostrophe, or the other way round, at some of
  the places. Statements are concatenated: a text that leaves its literal is SQL.

### What makes each component correct

* Server: no listener is forgotten while it holds its ports; a request is in the queue
  once or with one task; what became of it is final, and a stopped server answers
  nobody; `exit` ends the program and `stop` the tasks; an accepted request is resolved
  if clients take part; handlers do not overlap if the operator only stops an idle
  server; a server that has lost its console goes on serving.
* ImageManager: two requests never get the same key; only a client that is still
  connected is given one; a key that was given out is
  marked in the table; the dictionary is not behind the table.
* ScheduleManager and ClientManager: what was answered is stored, is not replaced
  by something older, and the dictionary agrees with the table as far as the
  faults that occurred allow.
* `/recommend`: the answer has the number of entries the loop allows, what is
  recommended is what was posted, and no ordinary text makes a row that ends the
  task of everyone who is recommended it.
* The import: at any moment the table is the old one under the items imported so
  far; an import without a fault is complete, whatever cut off earlier ones;
  searches are sent the names of the file, apostrophes included.

`PROJECT.json` lists the hazards one by one with their lines and the properties
that cover them.

## 2. Modules

| module | models | kind |
|---|---|---|
| `Server` | `Server.cs` 14-79, `CommandManager.cs`, `Program.cs` | state machine |
| `DBManager` | `DBManager.cs` 14-105: what a caller sees of a statement | operators |
| `KeyAllocator` | the promise of GET `/image` | abstract state machine |
| `ImageManager` | `ImageManager.cs`, `/image`, `/imageupload` | state machine, implements `KeyAllocator` |
| `TfUServer` | `Server` and `ImageManager` together | composition, implements `KeyAllocator` |
| `ScheduleManager` | `ScheduleManager.cs` 9-179, `/schedule`, `/sharedschedule` | state machine |
| `ClientManager` | `ClientManager.cs`, `/users` | state machine |
| `TextPath` | `u0027`, literals, encoders, readers | operators |
| `Recommend` | `/recommend`, `ScheduleManager.cs` 116-220 as far as texts go | state machine |
| `WaypointSync` | `DBManager.cs` 83-159, `/waypoints`, `Waypoint.cs` | state machine |
| `MC...` | instances for TLC: model values, texts and files, symmetry | |
| `ServerProofs`, `ImageManagerProofs`, `TfUServerProofs`, `ScheduleManagerProofs`, `ClientManagerProofs`, `TextPathProofs`, `RecommendProofs`, `WaypointSyncProofs` | theorems | proofs |

`ImageManager`, `ScheduleManager`, `ClientManager`, `Recommend` and `WaypointSync`
extend `DBManager`; the last two extend `TextPath`. `TfUServer` instantiates `Server`
and `ImageManager`. A module of proofs extends the module it is about;
`RecommendProofs` and `WaypointSyncProofs` extend `TextPathProofs` too, and
`TfUServerProofs` instantiates `ServerProofs` and `ImageManagerProofs`.

### Server

`process`, `stdin`, `isWorking`, `console`, `command` are the console thread: `console` is
the statement it is at (`read`, `sync` inside `serverInit`, `startServer`, `spawn`
between `Start()` and `StartNew`, `closeListener`, `leave`). `httpListener` is the
field; `listener[l]` the state of the l-th `HttpListener`; `pc[t]` the place of
the t-th task in its loop; `taskListener[t]` the listener it called `GetContext`
on. The k-th successful `start` creates listener k and task k. Where the code can
throw there is an action of its own (`SyncThrows`, `StartThrows`, `CommandThrows`,
`GetContextThrows`, `HandlerThrows`). `InputEnds` is the end of standard input: from
then on `ReadLine() + ""` is an empty command, and the loop goes round `WrongCommand`
without a pause. What handlers do to the data is left to the
managers' modules.

`HttpListener` itself is modelled from its use. `Stop` makes `GetContext` throw and
closes the connections of all requests of the listener, those that wait and those in
handlers (`DropsConnections`; the code calls `Close` next, which does so at the latest):
they are `dropped`. A handler does not notice by itself. The write of a GET (the
constant `Gets`) to a closed connection throws, so that `HandlerReturns` is not enabled
for it and `HandlerThrows` is what is left; the handlers of the other methods write
nothing and go on, `Response.Close` says nothing, and their task goes round its loop.
A stop can also come when a task has closed its response and has not yet read the field
again. In both ways it can join the listener of the next `start`.

### DBManager

An outcome is `"ok"`, `"noConnection"` (`OpenMariaDB` throws, outside the `try`) or
`"sqlError"` (inside). `Throws`, `HasTable` and `ExecuteQuery` say what each is to
the caller. The constant `Faults` says which can happen.

### ImageManager

The table S3 is the sets `used` (status 1) and `free` (status 0). Every handler is
cut at each access to shared state: the test of `instance`, its assignment, each
Select, the statement, the answer. `dictionary[w]` is the `imageDictionary` of the
manager worker `w` made: the unsynchronised getter can make several. `StatusIsText`
says which type the column `status` has: `row[1].Equals("0")` is false for a
number. The operator's `send query` frees or deletes a row; `Restarts` is the end
and new start of the process, at any point.

`overlaps` is a history variable: who has started (a request) or acted (a query of
the operator) while a handler was running. A property that holds for handlers in
turn has `overlaps = {}` as its condition; so one model has the serial behaviours
and the racing ones, and the properties say which they are about.

### ScheduleManager and ClientManager

A post is a number, counted in the order of arrival; it stands for all the post
contains, so that "older" and "newer" can be compared across dictionary, table and
answers. 0 is no row and no entry. Again each statement is an action. `troubles`
is the history of the faults that occurred and of overlapping handlers.
`blank` is the set of entries whose waypoints were lost by `syncDBToDictionary`,
which looks attributes up under names other than those they were stored under.

### TfUServer

Its variables are those of `Server` (`taskPc` is its `pc`) and of `ImageManager`
(`handlerPc`), with the tasks of the first as the workers of the second. A step is a
step of one, or of both where they meet: `Takes` is `GetContextReturns` together with
`GetImage` or `PostImageUpload`; `Returns` and `Throws` are the end of a handler in
both; a command that ends the process loses the memory of the manager (`MemoryKept`).
`Handles` is a statement inside a handler and `SendsQuery` a query of the operator
between two commands. Handlers that do not concern pictures return or throw at any
time. It is one life of the process; `ImageManager` alone has the lives that follow.

### TextPath, Recommend and WaypointSync

A text is a sequence of characters, reduced to those some step treats in its own way:
an apostrophe, a quotation mark, a backslash, a line end, an `n` (which a backslash
turns into a line end), a `special` character, the five characters `u0027` and `u0022`,
`uXXXX` for the same with other digits, and any other word. Special are the characters
that System.Text.Json writes as escapes also with the encoder for all Unicode ranges:
`<`, `>`, `&`, `+`, the grave accent, and what lies outside these ranges, such as emoji
(which it writes as two escapes; nothing here tells one from two).
`Units` cuts a literal into its escapes and single characters; what each stands for
(`SqlMeaning`, `JsonMeaning`) and which cannot be read (`SqlUnreadable`,
`JsonUnreadable`) is said once for MySQL and once for JSON, and `Escape` is the encoder.
The order of the steps is that of the code: a body is changed and then parsed
(Server.cs:143), the file of waypoints is changed and then parsed (`ParsedName`,
DBManager.cs:111-112), a response is serialized and then changed (Server.cs:133).
That an order does no harm is proved (section 4), not assumed; where it does, for an
apostrophe that the file has as `\u0027`, it is in the model.
`SqlLiteral`, `Serialize` and `JsonRead` are MySQL's literals and the two JSON
libraries, as the program uses them. The columns are compositions of these, and so is
what a client reads of a response. A reader that accepts `\'` inside a string, as
Newtonsoft.Json does, is assumed of clients: that is what the `Replace` of
Server.cs:133 leaves of an apostrophe. Strings that look like dates, which
Newtonsoft.Json parses as such, are left out.

A text that leaves its literal, by an unpaired apostrophe or a last backslash, is
`Rejected` by `SqlLiteral`, and what follows it is read as SQL. Mostly that is an error,
and nothing is stored. It may as well be a statement that writes the row with other
texts, or other rows, or deletes some: `Strays` lets any rows become `OtherRow`, or go.
What is in such a row is not followed: it may convert or may not (`MayConvert`,
`MayThrow`). SQL that changes the tables themselves, or other tables, is left out. The
columns are assumed to take every character (utf8mb4) and texts of any length.

In `Recommend` a post to `/sharedschedule` is one step, since its statements are in
`ScheduleManager`: it has a title, for the columns that take a text as it is, and a
content, for the one in JSON. GET `/recommend` is cut at its two Selects and at every
row of its loop. A row that does not convert ends the task (`VisitThrows`).

In `WaypointSync` the name of an item is the text the file has between its quotation
marks, escapes and all (`Names` has those that parse). A row of the table is the file
and the index of the item it came from, so that "the last item of that id" can be said.
`progress` is the loop. A lost connection, an item that is no object, a file that does
not parse and `Crashes` end the process where it is; an SQL error skips the row. `base`
and `skipped` are history: the table when the import started, and the statements that
met a fault. A task searches in the meantime. Files may be replaced at any time; one
import reads one file.

## 3. Runs

All runs are of `MC` modules with two or three requests, posts or files and one or two
tasks. Two tasks are enough for every race: each of the shared decisions
(test and assign, Select and INSERT, count and mark) is between two parties. Three
starts, posts or rows give a first, an interfering and a later one that sees
what they left behind. Symmetry is used only with invariants and formulas about a
single step.

| run | question | bounds | result |
|---|---|---|---|
| `Server_restart` | Do restarts leak listeners, share or lose requests, overlap handlers? Do `exit`, `stop` and requests come to an end, also without a console? | 3 starts, a GET and a POST | holds under `FairSpec` |
| `Server_start` | Does `start` leave a task that serves? | 2 starts, 2 requests | **violated** |
| `ImageManager_keys` | Is a key issued once, is it marked, is the allocator implemented? | 2 tasks, 3 requests, `noConnection`, frees | holds |
| `ImageManager_dictionary` | Is the dictionary ever behind the table? | 2 tasks, 2 requests, all faults, frees, deletes, an upload of id 1 | holds |
| `ImageManager_deleted` | Is the issued key empty? | 1 task, 3 requests, deletes | **violated** |
| `TfUServer_restart` | Does the server as a whole hand every key out once? | 2 starts, 2 GET `/image`, 1 other request, `noConnection`, frees | holds |
| `TfUServer_hurried` | The same, of a server that is stopped while it is busy | 2 starts, 2 GET `/image`, no faults | **violated** |
| `ScheduleManager_posts` | What do dictionary and table say of posts? | 2 tasks, 2 ids, 3 posts, all faults | holds |
| `ScheduleManager_reload` | Does loading read back what was stored? | 2 ids, 2 posts, no faults | **violated** |
| `ClientManager_posts` | The same for users | 2 tasks, 2 users, 3 posts, all faults | holds |
| `Recommend_texts` | How many rows are recommended, are they what was posted, and which end the task? | 3 ids, every character, and every pair that begins with a backslash, a word or is two apostrophes, in either place, a limit of 0 for the 20, all faults, SQL in texts | holds |
| `WaypointSync_import` | What is in the table during and after imports, and what is found? | 2 ids, 3 files of 3 or 4 items and one that does not parse, all faults, crashes, SQL in names | holds under `FairSpec` |

What the passing runs show, property by property:

* `NoLeakedListener`, `RequestOwnership`, `RequestLifecycle`: through any order of
  commands, requests, exceptions and ends of tasks. `RequestOwnership` includes the
  states with two tasks on one listener, which the runs do reach. `RequestLifecycle`
  says that nobody is answered by a stopped server, although handlers go on after a
  stop: a task that joins the next listener brings no old request with it.
* `SerialHandling`: as long as no `stop` came while a task was busy, handlers never
  overlap. This is the condition the managers silently rely on; the code does not
  enforce it.
* `StartedListenerHasItsTask`: a listening server has lost its task only to an
  exception in a handler.
* `ExitEndsProcess`, `StopEndsTasks`, `RequestsResolved`, `ServesWithoutConsole`: see
  fairness below. The last says that the end of standard input, at which the command
  loop spins, neither stops the server nor loses what it has accepted. The last two
  have `Cooperative` as a hypothesis: one client that does not send its body keeps all
  others waiting.
* `NoDoubleIssue`, `HeldKeysMarked`, `AllocatesKeys`: `HeldKeysMarked` holds with
  racing tasks; the other two for handlers and queries in turn, with frees, lost
  connections, lost answers and restarts at every statement.
* `DictionaryCoversTable`: with all faults, because the dictionary is written first.
* `HandlersTakeTurns`, `ServerAllocatesKeys`: what `ImageManager` has as a condition
  follows from the commands: if only an idle server is stopped, handlers do not
  overlap, and if queries come between requests too, the whole is an allocator of
  keys. `HoldersAnswered`, whatever the operator does: a key is only held by a client
  that was answered by a listening server. A stop in the middle of `getEmptyKey` leaves
  a row behind and gives its key to nobody.
* `NotBehind`: answered <= table <= dictionary with lost connections; `WriteThrough`:
  equality when nothing failed; `DatabaseFollowsDictionary`: what remains under all
  faults; `AnsweredIsStored`: what remains under races.
* `NeverAhead` and `AnsweredIsStored` of `ClientManager`, likewise.
* `RecommendsUpTo`: `count++ > n` lets n + 2 rows through; with fewer in the table all
  are sent. The number 20 is only compared with, so that a limit of 0 shows it.
* `SharedReadsBack`, `OrdinaryTextsConvert`: every character is tried in either place. A
  text survives, unless it is a title with an apostrophe or with `u0027` (it leaves its
  literal), a content with a character that the encoder escapes (MySQL drops the
  backslash of `\u0022`, `\u0026`, `\uD83D`, and no `Replace` puts it right) or has a
  backslash. Of the rows of posts only those of the last kind, in a content, can end the
  tasks that read them; what SQL in a text has written may end them as well.
* `ImportedPrefix`: at every row, for duplicate ids, skipped rows and imports cut off;
  only the SQL of a name that has left its literal may have come over a row, and only
  over rows of items before it. `ImportComplete`: upserts make an import independent of
  those before it, for items whose own and later names are `Plain`. `SearchReadsBack`: in
  the table every apostrophe of a plain name is `u0027`; the `Replace` of every answer
  turns it back, between two rows of an import as well. Plain names may have
  apostrophes, quotation marks and line ends, but not the escapes `\\`, `\u0027` and
  `\'`: those are there after the file has been parsed, when nothing replaces them.

### Disagreements met

* `start` after a handler has thrown (`Server_start`). The listener listens, so
  neither `serverInit` nor `startServer` does anything, and no task serves it until
  `stop` and `start`. Program.cs:19 offers `start` as the command that runs the server.
* The "empty key" (`ImageManager_deleted`). `getEmptyKey` counts rows. After a row
  has been deleted the count is the id of another picture. Server.cs:87 promises an
  empty key of `imageDictionary`.
* Reloaded schedules (`ScheduleManager_reload`). `syncDBToDictionary` looks up `"id"`,
  `"name"`, ... where `JsonSerializer` stored `"ID"`, `"Name"`, ...: every attribute of
  every waypoint becomes its default, and the load is reported complete.
* One key for two requests (`TfUServer_hurried`). `stop` and `start` come while the task
  is between two rounds of its loop, at Server.cs:33: it reads the field after them and
  serves the new listener together with the new task. Both run `getEmptyKey`, and the
  second counts before the first has marked its key. Server.cs:87 promises an empty key.
  (A task that is inside `getEmptyKey` at the stop does not get that far: its connection
  is closed, and its write throws.)

Seen while reading, and not worth a run: `convertDataRowToSharedSchedule` fills
`SharedCount` from the column `likes` (ScheduleManager.cs:187).

### Fairness

`FairSpec` has weak fairness of what the console thread does by itself once a
command has been read (`ConsoleStep`), of the loop of every task (`LoopStep`), and of the
end of a handler whose connection is closed. Threads of the process are scheduled by the
operating system, and the database calls they block in come to an end: MySql.Data times
out connections and commands. `GetContext` may block for ever: `LoopStep` is not enabled
then. A handler may wait for its client, without a timeout: for the rest of a body
(Server.cs:143), or for an answer to be taken (Server.cs:137). It is only sure to end
once a stop has closed its connection, which ends these waits with an exception. Nothing
is assumed of the operator, and `CommandThrows`, a command of the operator, has no
fairness. `HandlerThrows` is one way a handler ends; fairness does not prefer it.

`Cooperative` is fairness of the end of every handler: no client keeps its handler
waiting for ever. The code does not see to it, so it is no part of `FairSpec` but the
hypothesis of the two properties that do not hold without it, `RequestsResolved` and
`ServesWithoutConsole`. `ExitEndsProcess` and `StopEndsTasks` hold whatever clients do.

`FairSpec` of `WaypointSync` has weak fairness of the import's own steps
(`ConsoleGoesOn`): the thread runs and its statements return. That a connection fails is
not forced.

`RequestsResolved` has an exception that the code needs: the newest task died in a
handler while the listener was listening. `StopEndsTasks` says that a server that
stays stopped ends all its tasks, including those in a handler at the time.

### Bounds

`MaxStarts` (listeners that `start` may create), `Requests` (each sent at most once)
and `MaxPosts` bound what the environment does. They are guards of the operator's
and the clients' actions only; no action of the program's own is cut off by them.
The operator frees and deletes rows, and clients report uploads, without bound.
`Server` and `TfUServer` deadlock nowhere: a process that has ended stutters in
`Terminated`; in the other modules `Restarts`, a post or another file is always
possible.

Files and texts are sets given by the `MC` modules: a file for every thing the import
distinguishes (an id twice with another between, names that leave their literal by a
backslash and by an escaped apostrophe, one that is stored as another, an item that is
no object after one that is). Posts have every character alone, which is what the
columns and the encoder look at, and after a backslash, which makes an escape of two
characters; an apostrophe is doubled as well. `RecommendLimit` stands for the constant
20.

## 4. Proofs

TLAPS checks every theorem for all values of the constants (any sets of requests,
workers and ids, any number of starts, files and texts of any length) from the
`ASSUME`s of the modules, which fix types and that the table of shared schedules is
finite. Every invariant and every action property of the passing runs is the subject of
a theorem.

**`ServerProofs`**: type correctness and the four safety properties of `Server_restart`
and its action property. The inductive invariant `IInv` adds to the properties where the
console thread may be with its listener (`ConsoleInv`) and what a task knows (`TaskOK`):
task t is unborn until the t-th start has finished, it only ever waits on listeners from
t on, and it holds a request exactly while it handles one. That is what makes "a task
the listener's own start created" a fact about indices. `LifecycleKept` rests on
`OpenInv`, that only a listening server has open requests: a task that outlives a stop
can do nothing more for the one it holds, and `OpenStep` shows that no task opens one
again. `SerialHandling` needs `SerialInv` on top: as long as no stop was hurried, the
tasks of earlier starts are over or wait on a listener that is not the current one, so
that they can only end, and no task is busy while nothing is listening.

**`ImageManagerProofs`**: `ImageTypeCorrect`, and `KeysUnique` under `Orderly`: no
statement fails half-way, no row is deleted, clients report only keys they were
given, and the status is a text. Each is needed; TLC finds a violation without it.
`NoDoubleIssue` is not inductive: why is the key of the next request new? `IInv`
says the ids of the table are 0 .. n-1 (`Contiguous`), so the number of used rows is
a new id if there are no free ones; that all held keys are used rows (`Marked`); that
one handler runs; and, for each of its statements, what it knows of its key
(`HandlerOK`: at `row`, `update` and `insert` it is a free row or the next id; at
`reply` a used row nobody holds). `KeyInv` makes this conditional on `overlaps = {}`:
`overlaps` only grows, so that a step to a state without overlaps comes from one.

The table (same module): `KeysMarked` needs only that statements do not fail half-way.
With any number of racing tasks, a row seen by a Select does not go away and no row
becomes free before the statement (`MarkOK`), unless the operator interferes.
`DictionaryCovers` needs only that the status is a text: one handler runs, the
manager it calls is the one in use, and the key is in its dictionary before the
statement is sent (`CoverOK`).

The refinement (same module): `KeysAllocated`. Under `IInv` each step is
mapped: the statement of `imageAdded` reserves, `Replies` hands, `ReplyThrows` and
`Restarts` lose, the operator's queries release, all else stutters. A reserved key is
one of a handler about to answer; a lost one is a used row that nobody holds and no
handler is about to hand out.

**`TfUServerProofs`**: every step of the whole is a step of `Server` (`ServerSteps`) and
a step of `ImageManager` (`ImageSteps`), so that the invariants proved of each hold of
the whole. What is new is where they meet. `Coupled` says that a handler runs in the
task that took its request. A task that is given a request by an orderly server is, by
`NoLeakedListener` and `SerialInv`, the newest and the only busy one (`TakesAlone`): so all
handlers are idle, and `TurnsTaken` follows. With it the condition `overlaps = {}` of
`KeysAllocated` becomes one about the operator, and `ServerAllocates` is that refinement
for the server as a whole, under the same `Orderly`. `KeysGoToTheAnswered` (`HoldersAnswered`)
needs both components: `Coupled` makes the request an answer is for the one its task
took, `HandlerReturns` says that a GET returns only with its connection open
(`NewHolders`), and `LifecycleStep` that an answered request remains one.

**`ScheduleManagerProofs`**: the four properties of `ScheduleManager_posts` and its types.
`SchedulesNotBehind` and `SchedulesWrittenThrough` have to carry the order between
answer, row and dictionary through a reload, which empties the dictionary and fills it
row by row from what its Select has read: the places that are loaded agree with rows
that no handler changes meanwhile. `RowsFollowDictionary` holds whatever fails, since
the entry is made before the statement; `SchedulesStored` for racing tasks, since rows
never go away.

**`TextPathProofs`**: what the operators of `TextPath` do to a text of any length.
`Units` and the `FlattenSeq` of `Serialize` are recursive functions, and a theorem about
them needs an induction. The library's induction theorems take a predicate as a
parameter, which the provers cannot instantiate; its theorem that a well-founded set has
minimal elements (`WFMin`) takes sets only. Applied to the intervals `1 .. k`, it gives
that every set of numbers has a least one (`LeastNumber`), hence induction for a set of
numbers (`Induction`), and from that the recursive functions are shown to exist and to
satisfy their equations (`UnitsFromDef`, `FlattenSeqDef`). A cut of a text into pieces is
described by where its pieces begin (`IsCutAt`); there is only one that agrees with
`IsPair` (`CutsInto`), so the escapes the encoder writes are the units a reader finds
(`SerializedUnits`). A `Replace` leaves the cut of any text where it is
(`ReplacedUnits`), since it neither makes nor removes a backslash. From these follow
`SerializedReadsBack`: JSON by itself loses nothing; `BodiesRead`: to replace `u0027` in a
body or a response before it is parsed comes to the same as to replace it in the parsed
texts, escapes included; `ResponseReads`, its case for what the encoder has written;
`NamesParsed`: the file of waypoints parses or not whatever its apostrophes, with the same
names but for apostrophes that are now `u0027`; and `JsonStored`: MySQL takes every text
the encoder writes, but drops the backslash of `\u0027`, `\u0022` and all other escapes of
a special character.

**`RecommendProofs`**: `RecommendsAll` counts: the list has one entry for every row the
loop has visited (`CountInv`), up to two more than the limit. `RecommendsWhatWasPosted`
carries from the post to the row and to the list which post a row is of (`SharedInv`),
and there only has to know what the columns make of a text without the named characters,
which is `JsonStored`, `ResponseReads` and, for the columns that take a text as it is,
`PlainSql`; rows that `Strays` has written are told from it by `OtherRow` (`PostEffect`).
`RecommendThrows` is the same the other way round: the row of a post that does not
convert has a content that `JsonStored` leaves unreadable only if there is a backslash.
The table has to be finite: the count of an infinite one is no number.

**`WaypointSyncProofs`**: types, and `RowsImported` for files of any length. The prefix is
split by id (`PrefixById`): an upsert is the last item of its id up to now, and all other
ids are left alone, unless the name has left its literal; then every row is one it was
before or astray, and the name is a later one than those of the rows it came over.
`ImportsComplete` adds that an item which is skipped met a fault (`LoopInv`) and, from
`TextPathProofs`, that a plain name never breaks its literal (`PlainNames`): after `Quote`,
by `ReplacedUnits`, none of its units is read as an apostrophe or a backslash
(`PlainUnit`). `SearchesRead` combines that with `NamesParsed` and `ResponseReads`: the rows
a search has found hold the names of items of the file as `ParsedName` has them
(`NamesInv`), and the response turns every `u0027` back.

**`ClientManagerProofs`**: `UsersNeverAhead` holds with all faults. While handlers take
turns, the post being handled is newer than everything stored about its user, and in
the dictionary before the first query (`Newest`). `UsersStored` needs that rows never go
away (`RowOK`): so an UPDATE finds its row, and an INSERT that loses a race leaves one.
That the row is as new as the answer needs `Newest` as well: an INSERT of a handler
that is alone finds no row.

Only model-checked are the liveness properties (`ExitEndsProcess`, `StopEndsTasks`,
`RequestsResolved`, `ServesWithoutConsole`, `ImportEnds`): they rest on fairness, and with
it on ENABLED, which the prover cannot reason about. The theorems about
keys that need more than the `ASSUME`s name it in their statements (`Orderly`, no
`"sqlError"`, a status that is a text), and the runs are of instances that meet it. The four
violations are shown by TLC.

## 5. Not modelled

* OpenSSL's sources, certificates and build output: third-party code that the server
  neither refers to nor links. The program is the C# files, and every one of them that
  has behaviour is modelled.
* Console output, `ToPrettyString`, `drawTextProgressBar`, `ConnectionTest`: no state.
* The data classes as such, and the numbers in posts and rows: no decision of the
  program depends on them but on ids. Ids of posts that do not parse are one of the ids
  (the handlers go on with defaults).
* The texts of SCHEDULE and USER. Those of SCHEDULE are damaged twice, by the encoder that
  the UPDATE lacks (ScheduleManager.cs:102) and by the names under which they are read
  back, and no request reads them.
* Queries of the operator about tables other than S3.
* The other managers inside `TfUServer`: `ScheduleManager` and `ClientManager` share
  nothing with pictures but the tasks, and their conditions are the same: `troubles`
  without `"overlap"`. `SerialHandling` grants it for any handlers, and a reload by `start`
  can meet a handler only after a hurried stop.
