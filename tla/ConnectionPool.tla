--------------------------- MODULE ConnectionPool ---------------------------
(***************************************************************************)
(* The database sessions of the web application (db_connection.py,         *)
(* dependencies.get_db) and the requests that hold them.                   *)
(*                                                                         *)
(* Each worker process has a pool of its own.  Endpoints are coroutines    *)
(* that query synchronously: a session takes a connection at its first     *)
(* query, in the event loop's thread, and a query that finds none blocks   *)
(* the whole loop.  When the endpoint has returned or raised, the loop     *)
(* hands the close of its session to a thread.  Some endpoints await       *)
(* something else while their session has a connection: change_ip the      *)
(* socket server, modems_list_page the answer to a request to this very    *)
(* application, and those that check CSRF tokens, after the query for the  *)
(* caller, a thread: to the pool the last ones are like the first, and     *)
(* share their kind.                                                       *)
(***************************************************************************)
EXTENDS Integers, FiniteSets

CONSTANTS
    Workers,     \* worker processes (web_server runserver --workers)
    Requests,    \* every request, those the application sends itself included
    Kind,        \* Kind[r]: "plain", "list" or "socket"
    Asks,        \* Asks[r]: the request that the list page r sends
    PoolSize,    \* pool_size + max_overflow of the engine
    Nobody       \* no request, no worker

Lists == {r \in Requests : Kind[r] = "list"}
Asked == {Asks[r] : r \in Lists}

ASSUME KindAssumption == Kind \in [Requests -> {"plain", "list", "socket"}]
ASSUME AsksAssumption ==
    /\ Asks \in [Lists -> {r \in Requests : Kind[r] = "plain"}]
    /\ \A r, q \in Lists : Asks[r] = Asks[q] => r = q
ASSUME RequestsAssumption == IsFiniteSet(Requests)
ASSUME PoolAssumption == PoolSize \in Nat \ {0}
ASSUME NobodyAssumption == Nobody \notin Requests \cup Workers

VARIABLES
    stage,     \* stage[r]: how far the request r has come
    at,        \* at[r]: the worker that serves it now
    holds,     \* the requests whose session has a connection
    out,       \* out[w]: connections that the pool of w counts as checked out
    waiting    \* waiting[w]: the request whose query waits for the pool of w

vars == <<stage, at, holds, out, waiting>>

Init ==
    /\ stage = [r \in Requests |-> "none"]
    /\ at = [r \in Requests |-> Nobody]
    /\ holds = {}
    /\ out = [w \in Workers |-> 0]
    /\ waiting = [w \in Workers |-> Nobody]

Move(r, from, to) == stage[r] = from /\ stage' = [stage EXCEPT ![r] = to]

\* The event loop that serves r runs.
Runs(r) == at[r] \in Workers /\ waiting[at[r]] = Nobody

(***************************************************************************)
(* A request up to its first query.                                        *)
(***************************************************************************)

\* A worker takes it from the backlog of the port, which the workers share.
\* get_db opens a session; it has no connection yet.
Opens(r, w) ==
    /\ waiting[w] = Nobody
    /\ \/ Move(r, "none", "opened") /\ r \notin Asked
       \/ Move(r, "queued", "opened")
    /\ at' = [at EXCEPT ![r] = w]
    /\ UNCHANGED <<holds, out, waiting>>

\* What the endpoint does next, up to its end or to an await.  (A commit gives
\* the connection back; the refresh after it finds one, for nobody else runs.)
\* modems_list_page knows the user from its query and asks an endpoint of this
\* application.
Proceeds(r) ==
    \/ Move(r, "opened", "returned")
    \/ Kind[r] = "socket" /\ Move(r, "opened", "awaiting")
    \/ /\ r \in Lists /\ stage[r] = "opened"
       /\ stage' = [stage EXCEPT ![r] = "awaiting", ![Asks[r]] = "queued"]

TakesConnection(r) ==
    /\ out[at[r]] < PoolSize
    /\ out' = [out EXCEPT ![at[r]] = @ + 1]
    /\ holds' = holds \cup {r}
    /\ Proceeds(r)

\* The first query; that of a socket comes when its client has sent the id.
Queries(r) ==
    /\ Runs(r)
    /\ \/ TakesConnection(r) /\ UNCHANGED waiting
       \/ /\ out[at[r]] = PoolSize /\ stage[r] = "opened"
          /\ waiting' = [waiting EXCEPT ![at[r]] = r]
          /\ UNCHANGED <<stage, holds, out>>
    /\ UNCHANGED at

\* A request that is refused before it queries, a client that hangs up first.
NeverQueries(r) ==
    /\ Runs(r)
    /\ Move(r, "opened", "returned")
    /\ UNCHANGED <<at, holds, out, waiting>>

(***************************************************************************)
(* The pool.                                                               *)
(***************************************************************************)

GetsConnection(r) ==
    /\ at[r] \in Workers /\ waiting[at[r]] = r
    /\ TakesConnection(r)
    /\ waiting' = [waiting EXCEPT ![at[r]] = Nobody]
    /\ UNCHANGED at

WaitsForEver(r) == FALSE /\ UNCHANGED vars

\* TimeoutError after thirty seconds, the default of the engine.  The health
\* check catches it and reports it; the other endpoints fail.
TimesOut(r) ==
    /\ at[r] \in Workers /\ waiting[at[r]] = r
    /\ waiting' = [waiting EXCEPT ![at[r]] = Nobody]
    /\ Move(r, "opened", "returned")
    /\ UNCHANGED <<at, holds, out>>

\* r gives the connection back, if it has one.
GivesBack(r) ==
    /\ holds' = holds \ {r}
    /\ out' = IF r \in holds THEN [out EXCEPT ![at[r]] = @ - 1] ELSE out

(***************************************************************************)
(* A request that awaits.                                                  *)
(***************************************************************************)

\* The answer: a list to show, or a text that is no JSON.
IsAnswered(r) ==
    /\ Runs(r) /\ r \in Lists /\ stage[Asks[r]] = "ended"
    /\ Move(r, "awaiting", "returned")
    /\ UNCHANGED <<at, holds, out, waiting>>

\* httpx gives up after five seconds, or the worker that serves it dies.  (What
\* a dead worker had lent dies with it: the pool belongs to the process.)
AskFails(r) ==
    /\ Runs(r) /\ r \in Lists
    /\ Move(r, "awaiting", "returned")
    /\ UNCHANGED <<at, holds, out, waiting>>

\* The socket server, or the thread.  A success is recorded and committed;
\* otherwise the endpoint returns or raises.  The client reads the server's
\* answer without a timeout: there may never be one.
ServerAnswers(r) ==
    /\ Runs(r) /\ Kind[r] = "socket"
    /\ Move(r, "awaiting", "returned")
    /\ GivesBack(r) \/ UNCHANGED <<holds, out>>
    /\ UNCHANGED <<at, waiting>>

(***************************************************************************)
(* The end of a request.                                                   *)
(***************************************************************************)

ForgetsSession(r) ==
    /\ Move(r, "closing", "closed")
    /\ UNCHANGED <<at, holds, out, waiting>>

\* The event loop hands the exit of get_db to a thread ...
Exits(r) ==
    /\ Runs(r)
    /\ Move(r, "returned", "closing")
    /\ UNCHANGED <<at, holds, out, waiting>>

\* ... in which its `with` block ends, however the endpoint has ended: by now
\* the loop need not run.
Closes(r) ==
    /\ Move(r, "closing", "closed")
    /\ GivesBack(r)
    /\ UNCHANGED <<at, waiting>>

\* The response goes out only now.
Responds(r) ==
    /\ Runs(r)
    /\ Move(r, "closed", "ended")
    /\ at' = [at EXCEPT ![r] = Nobody]
    /\ UNCHANGED <<holds, out, waiting>>

(***************************************************************************)
(* The specification.                                                      *)
(***************************************************************************)

\* What the web worker does once the request has queried, or has been refused.
GoesOn(r) == IsAnswered(r) \/ Exits(r) \/ Closes(r) \/ Responds(r)

Starts(r) == Queries(r) \/ NeverQueries(r)

Next ==
    \E r \in Requests :
        \/ \E w \in Workers : Opens(r, w)
        \/ Starts(r) \/ GetsConnection(r) \/ TimesOut(r)
        \/ GoesOn(r) \/ AskFails(r) \/ ServerAnswers(r)

Safety == Init /\ [][Next]_vars

\* Event loops and threads run what they can; the wait for the pool ends.
\* Nothing makes a client send the id of a modem, nor the socket server answer.
Spec ==
    /\ Safety
    /\ \A r \in Requests :
        WF_vars(\/ stage[r] = "queued" /\ \E w \in Workers : Opens(r, w)
                \/ Kind[r] # "socket" /\ Starts(r)
                \/ GetsConnection(r) \/ TimesOut(r)
                \/ GoesOn(r))

(***************************************************************************)
(* What the sessions guarantee.                                            *)
(***************************************************************************)

Stages == {"none", "queued", "opened", "awaiting", "returned", "closing", "closed", "ended"}

PoolTypeOK ==
    /\ stage \in [Requests -> Stages]
    /\ at \in [Requests -> Workers \cup {Nobody}]
    /\ holds \subseteq Requests
    /\ out \in [Workers -> 0 .. PoolSize]
    /\ waiting \in [Workers -> Requests \cup {Nobody}]

\* Nothing is leaked, whichever way an endpoint ends: the connections a pool
\* has lent are held by sessions of its own worker's requests that are still
\* being served, and the one that blocks the event loop is not among them.
NothingLeaks ==
    /\ PoolTypeOK
    /\ \A w \in Workers :
        LET holders == {r \in holds : at[r] = w}
        IN /\ out[w] = Cardinality(holders)
           /\ \A r \in holders : stage[r] \in {"awaiting", "returned", "closing"}
           /\ waiting[w] \notin holders

\* Taken by a worker or sent by this application itself, a WebSocket apart that
\* still waits for its client or for the socket server.
UnderWay(r) ==
    \/ stage[r] \in {"queued", "opened", "awaiting"} /\ Kind[r] # "socket"
    \/ stage[r] \in {"returned", "closing", "closed"}

\* A request that a worker has taken, or that this application sends itself, is
\* answered, if only by a failure, and an endpoint that has ended in any way
\* gives its connection back: even when what blocks the event loop is the query
\* of the very request it waits for, and even if WebSockets wait for the socket
\* server for ever and keep every connection of the pools.  Of a WebSocket
\* nothing is promised before its own wait is over.
EveryRequestIsAnswered == \A r \in Requests : UnderWay(r) ~> stage[r] = "ended"
=============================================================================
