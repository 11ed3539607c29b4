---------------------------- MODULE ImageManager ----------------------------
(***************************************************************************)
(* The image keys (ImageManager.cs, and the two handlers of Server.cs that *)
(* use it).  GET /image hands out the key under which a client may store a *)
(* picture in the S3 bucket, POST /imageupload reports the upload, and the *)
(* operator frees or deletes rows with `send query`.                       *)
(*                                                                         *)
(* The table S3(id, status) is two sets of ids: `used` has the rows of     *)
(* status 1, `free` those of status 0.  A worker is a listener task, in a  *)
(* handler or idle; more than one exists after stop and start (Server).    *)
(***************************************************************************)
EXTENDS Naturals, FiniteSets, DBManager

CONSTANTS
    Workers,       \* the listener tasks that may be handling a request
    Requests,      \* the GET /image requests, each sent at most once
    None,          \* no request, and no instance of the manager
    OperatorDoes,  \* the queries the operator types: "free", "delete"
    StrayIds,      \* ids clients report without having been given them
    StatusIsText   \* TRUE: the column `status` has a text type

ASSUME ImageAssumption ==
    /\ None \notin Requests \cup Workers
    /\ OperatorDoes \subseteq {"free", "delete"}
    /\ StrayIds \subseteq Nat
    /\ StatusIsText \in BOOLEAN

VARIABLES
    used, free,  \* the table S3
    instance,    \* ImageManager.instance: None, or the worker that made it
    dictionary,  \* the keys of the imageDictionary of the manager a worker made
    pc,          \* the next statement of every worker
    request,     \* the request it handles; None for an upload
    self,        \* the manager it calls
    key,         \* the local emptyKey, or the id of the upload
    asked,       \* the requests that have been sent
    holders,     \* history: <<k, r>> if request r was answered with key k
    overlaps     \* history: who has acted while a handler was running

table == <<used, free>>
memory == <<instance, dictionary>>
locals == <<request, self, key>>
clients == <<asked, holders, overlaps>>
vars == <<used, free, instance, dictionary, pc, request, self, key, asked, holders, overlaps>>

Statements == {"instance", "publish", "return", "selectFree", "count", "row", "update", "insert", "reply"}

TypeOK ==
    /\ used \subseteq Nat
    /\ free \subseteq Nat
    /\ instance \in Workers \cup {None}
    /\ dictionary \in [Workers -> SUBSET Nat]
    /\ pc \in [Workers -> Statements \cup {"idle"}]
    /\ request \in [Workers -> Requests \cup {None}]
    /\ self \in [Workers -> Workers \cup {None}]
    /\ key \in [Workers -> Nat]
    /\ asked \subseteq Requests
    /\ holders \subseteq Nat \X Requests
    /\ overlaps \subseteq {"handler", "operator"}

Init ==
    /\ used = {} /\ free = {}
    /\ instance = None
    /\ dictionary = [w \in Workers |-> {}]
    /\ pc = [w \in Workers |-> "idle"]
    /\ request = [w \in Workers |-> None]
    /\ self = [w \in Workers |-> None]
    /\ key = [w \in Workers |-> 0]
    /\ asked = {}
    /\ holders = {}
    /\ overlaps = {}

Quiet == \A w \in Workers : pc[w] = "idle"
Acts(who) == overlaps' = IF Quiet THEN overlaps ELSE overlaps \cup {who}
HeldKeys == {h[1] : h \in holders}
Goes(w, from, to) == pc[w] = from /\ pc' = [pc EXCEPT ![w] = to]

\* The handler returns, or an exception ends it where it is.
Finishes(w, from) ==
    /\ Goes(w, from, "idle")
    /\ request' = [request EXCEPT ![w] = None]
    /\ self' = [self EXCEPT ![w] = None]
    /\ key' = [key EXCEPT ![w] = 0]

HandlerThrows(w, from) == Finishes(w, from) /\ UNCHANGED <<table, memory, clients>>

-----------------------------------------------------------------------------
(***************************************************************************)
(* Requests                                                                *)
(***************************************************************************)
\* GET /image
GetImage(w, r) ==
    /\ Acts("handler")
    /\ r \notin asked
    /\ Goes(w, "idle", "instance")
    /\ request' = [request EXCEPT ![w] = r]
    /\ asked' = asked \cup {r}
    /\ UNCHANGED <<table, memory, self, key, holders>>

\* POST /imageupload with "result": "success"; other uploads change nothing.
PostImageUpload(w, k) ==
    /\ Acts("handler")
    /\ Goes(w, "idle", "instance")
    /\ key' = [key EXCEPT ![w] = k]
    /\ UNCHANGED <<table, memory, request, self, asked, holders>>

-----------------------------------------------------------------------------
(***************************************************************************)
(* The getter Instance                                                     *)
(***************************************************************************)
\* syncStorageToDictionary, in the constructor; Equals("1") compares text.
Constructs(w) ==
    /\ instance = None
    /\ \E outcome \in Outcomes :
        \/ /\ HasTable(outcome)
           /\ Goes(w, "instance", "publish")
           /\ dictionary' = [dictionary EXCEPT ![w] = IF StatusIsText THEN used ELSE {}]
           /\ UNCHANGED <<table, instance, locals, clients>>
        \/ ~HasTable(outcome) /\ HandlerThrows(w, "instance")

\* The assignment: nothing tests again that the field is null.
Publishes(w) ==
    /\ Goes(w, "publish", "return")
    /\ instance' = w
    /\ UNCHANGED <<table, dictionary, locals, clients>>

\* The getter returns what the field holds now, which after an assignment of its
\* own may be the manager of another task.
ReadsInstance(w) ==
    /\ instance # None
    /\ \E from \in {"instance", "return"} :
        Goes(w, from, IF request[w] = None THEN "row" ELSE "selectFree")
    /\ self' = [self EXCEPT ![w] = instance]
    /\ UNCHANGED <<table, memory, request, key, clients>>

-----------------------------------------------------------------------------
(***************************************************************************)
(* getEmptyKey                                                             *)
(***************************************************************************)
\* The first row of status 0, in the order the database likes; Equals("0")
\* never accepts a number.
SelectsFree(w) ==
    \E outcome \in Outcomes :
        \/ /\ HasTable(outcome) /\ StatusIsText
           /\ Goes(w, "selectFree", "row")
           /\ \E k \in free : key' = [key EXCEPT ![w] = k]
           /\ UNCHANGED <<table, memory, request, self, clients>>
        \/ /\ HasTable(outcome) /\ (StatusIsText => free = {})
           /\ Goes(w, "selectFree", "count")
           /\ UNCHANGED <<table, memory, locals, clients>>
        \/ ~HasTable(outcome) /\ HandlerThrows(w, "selectFree")

\* Deviation: the new key is the highest id in use, not the next one.
CountsFromZero(w) ==
    /\ Goes(w, "count", "row")
    /\ key' = [key EXCEPT ![w] = Cardinality(used) - 1]
    /\ UNCHANGED <<table, memory, request, self, clients>>

\* Deviation: the second query counts the rows of status 0.
CountsFree(w) ==
    /\ Goes(w, "count", "row")
    /\ key' = [key EXCEPT ![w] = Cardinality(free)]
    /\ UNCHANGED <<table, memory, request, self, clients>>

\* No free row: the new key is the number of rows of status 1.
CountsUsed(w) ==
    \E outcome \in Outcomes :
        \/ /\ HasTable(outcome)
           /\ Goes(w, "count", "row")
           /\ key' = [key EXCEPT ![w] = Cardinality(used)]
           /\ UNCHANGED <<table, memory, request, self, clients>>
        \/ ~HasTable(outcome) /\ HandlerThrows(w, "count")

-----------------------------------------------------------------------------
(***************************************************************************)
(* imageAdded                                                              *)
(***************************************************************************)
\* Deviation: imageAdded does not enter the key in the dictionary.
SelectsRowOnly(w) ==
    /\ \E outcome \in Outcomes :
        \/ /\ HasTable(outcome)
           /\ Goes(w, "row", IF key[w] \in used \cup free THEN "update" ELSE "insert")
           /\ UNCHANGED locals
        \/ ~HasTable(outcome) /\ Finishes(w, "row")
    /\ UNCHANGED <<table, memory, clients>>

\* The dictionary is written before the first query, whatever comes of it.
SelectsRow(w) ==
    /\ \E outcome \in Outcomes :
        \/ /\ HasTable(outcome)
           /\ Goes(w, "row", IF key[w] \in used \cup free THEN "update" ELSE "insert")
           /\ UNCHANGED locals
        \/ ~HasTable(outcome) /\ Finishes(w, "row")
    /\ dictionary' = [dictionary EXCEPT ![self[w]] = @ \cup {key[w]}]
    /\ UNCHANGED <<table, instance, clients>>

\* Deviation: the connection is opened inside the try block.
ExecutedSwallowing(w, from, outcome) ==
    /\ UNCHANGED <<memory, clients>>
    /\ \/ request[w] = None /\ Finishes(w, from)
       \/ request[w] # None /\ Goes(w, from, "reply") /\ UNCHANGED locals

\* ExecuteQuery throws or returns: GET /image then answers, POST /imageupload
\* is done.
Executed(w, from, outcome) ==
    /\ UNCHANGED <<memory, clients>>
    /\ \/ /\ Throws(outcome) \/ request[w] = None
          /\ Finishes(w, from)
       \/ /\ ~Throws(outcome) /\ request[w] # None
          /\ Goes(w, from, "reply")
          /\ UNCHANGED locals

\* Deviation: the UPDATE sets the status to 0 again.
UpdatesToFree(w) ==
    \E outcome \in Outcomes :
        /\ Executed(w, "update", outcome)
        /\ UNCHANGED table

\* A row that is gone by now is not updated.
Updates(w) ==
    \E outcome \in Outcomes :
        LET row == {key[w]} \cap (used \cup free)
        IN  /\ Executed(w, "update", outcome)
            /\ used' = ExecuteQuery(outcome, used, used \cup row)
            /\ free' = ExecuteQuery(outcome, free, free \ row)

\* id is the key of the table: a row that exists by now is an SQL error.
Inserts(w) ==
    \E outcome \in Outcomes :
        /\ Executed(w, "insert", outcome)
        /\ used' = ExecuteQuery(outcome, used, used \cup ({key[w]} \ free))
        /\ UNCHANGED free

\* clientGet writes the dictionary of the manager again and sends the key.
Replies(w) ==
    /\ Finishes(w, "reply")
    /\ dictionary' = [dictionary EXCEPT ![instance] = @ \cup {key[w]}]
    /\ holders' = holders \cup {<<key[w], request[w]>>}
    /\ UNCHANGED <<table, instance, asked, overlaps>>

\* The client is gone: output.Write throws and nobody has the key.
ReplyThrows(w) ==
    /\ Finishes(w, "reply")
    /\ dictionary' = [dictionary EXCEPT ![instance] = @ \cup {key[w]}]
    /\ UNCHANGED <<table, instance, clients>>

-----------------------------------------------------------------------------
(***************************************************************************)
(* The operator                                                            *)
(***************************************************************************)
Forgets(k) == holders' = {h \in holders : h[1] # k}

\* send query update S3 set status = 0 where id = k
FreesRow(k) ==
    /\ "free" \in OperatorDoes
    /\ Acts("operator")
    /\ k \in used
    /\ used' = used \ {k} /\ free' = free \cup {k}
    /\ Forgets(k)
    /\ UNCHANGED <<memory, pc, locals, asked>>

\* send query delete from S3 where id = k
DeletesRow(k) ==
    /\ "delete" \in OperatorDoes
    /\ Acts("operator")
    /\ k \in used
    /\ used' = used \ {k}
    /\ Forgets(k)
    /\ UNCHANGED <<free, memory, pc, locals, asked>>

\* The process ends, by `exit` or an exception on the console thread, and is
\* started again: the memory is lost wherever the handlers were.
Restarts ==
    /\ instance' = None
    /\ dictionary' = [w \in Workers |-> {}]
    /\ pc' = [w \in Workers |-> "idle"]
    /\ request' = [w \in Workers |-> None]
    /\ self' = [w \in Workers |-> None]
    /\ key' = [w \in Workers |-> 0]
    /\ UNCHANGED <<table, clients>>

-----------------------------------------------------------------------------
Handles(w) ==
    \/ Constructs(w) \/ Publishes(w) \/ ReadsInstance(w)
    \/ SelectsFree(w) \/ CountsUsed(w)
    \/ SelectsRow(w) \/ Updates(w) \/ Inserts(w)
    \/ Replies(w) \/ ReplyThrows(w)

Next ==
    \/ \E w \in Workers, r \in Requests : GetImage(w, r)
    \/ \E w \in Workers, k \in HeldKeys \cup StrayIds : PostImageUpload(w, k)
    \/ \E w \in Workers : Handles(w)
    \/ \E k \in used : FreesRow(k) \/ DeletesRow(k)
    \/ Restarts

Spec == Init /\ [][Next]_vars

-----------------------------------------------------------------------------
(***************************************************************************)
(* Properties                                                              *)
(***************************************************************************)

\* As long as nobody acts while a handler is running, no two GET /image
\* requests are answered with the same key: nobody's picture overwrites
\* another one's.
NoDoubleIssue == overlaps = {} => \A g, h \in holders : g[1] = h[1] => g = h

\* A key is not given out before the table says so, also by two tasks that race
\* for it: a crash or a failing query between the two leaks the key.
HeldKeysMarked == "operator" \notin overlaps => HeldKeys \subseteq used

\* The dictionary of the manager in use is never behind the table, after
\* failed queries, lost answers and restarts alike, as long as no two handlers
\* overlap: two managers can be made then, and the entries of one are lost.
DictionaryCoversTable ==
    "handler" \notin overlaps /\ instance # None => used \subseteq dictionary[instance]

\* Server.cs:87 has GET /image answer with an "empty key" of imageDictionary:
\* the key getEmptyKey chooses is not known, to both the dictionary and the
\* table, as the key of a picture.
IssuedKeyIsEmpty ==
    [][\A w \in Workers :
        pc[w] \in {"selectFree", "count"} /\ pc'[w] = "row" =>
            key'[w] \notin dictionary[self[w]] \cap used]_vars

\* As long as nobody acts while a handler is running, getEmptyKey and its
\* callers implement the allocator of KeyAllocator.
Reserved == {key[w] : w \in {v \in Workers : pc[v] = "reply"}}

Allocator == INSTANCE KeyAllocator WITH
    reserved <- Reserved,
    held <- HeldKeys,
    lost <- used \ (Reserved \cup HeldKeys)

AllocatesKeys ==
    Allocator!Init /\ [][overlaps' = {} => [Allocator!Next]_(Allocator!vars)]_vars
=============================================================================
