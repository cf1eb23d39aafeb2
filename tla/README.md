# Verification of ProxyManagement

ProxyManagement lets the customers of a mobile-proxy operator change the address of their modem: they open
a link, press a button, and the modem is rebooted so that the radio network leases it another address. Around this
stand an administrators' API for users and modems, registration with mailed one-time codes, sessions kept in cookies
(with Google's OAuth beside passwords), and a command line for the file of proxy credentials and for the socket server.

This directory holds TLA+ models of the program's own logic, the TLC runs that check them and TLAPS proofs about
them. Paths below are relative to `src/proxy_management/` in the repository. `PROJECT.json` maps every definition
that models code to its lines, and lists the runs, findings, hazards and theorems.

    tlasany RebootServer.tla                                    # parse
    tlc -workers 2 -config reboot_server.cfg MCRebootServer     # check a run
    tlapm RebootServerProofs.tla                                # check proofs

## 1. Inventory

| Component | State it keeps | Operations | Hard parts | What makes it correct |
|---|---|---|---|---|
| **Socket server** (`sockets/async_server.py`, `modem_api.py`) | per connection: registry entry, buffers, position in the handler; counter and count file | accept, read, fetch the address (curl), reboot through the modem's API, poll for another address, reply, clean up | one handler per connection in one event loop, interleaved at each await; retries; resets; a modem shared by connections; death of the process | one reboot at most per request, true replies, a registry that adds up, every request ends |
| **Change-IP endpoint and socket client** (`modems/router_ws.py`, `sockets/async_client.py`, `conn_utils.py`) | the WebSocket, the connection, `modems.rebooted` | take the modem's id, send the request, await the reply, show it, record the time | the row read before the await is used after it; browser, worker or server vanish; a transport timeout looks like a refused connection | what is shown and recorded is true, no connection is left to the server for ever |
| **Accounts and codes** (`auth/router_api.py`, `auth/otp`, `users`) | tables `users`, `otp` | register, create, Google login, verify, new code, update, delete | several workers between any two statements; two commits in one request; cascade; expiry | unique addresses, no code without an account, verified only through one's own code, a code used once |
| **Email sender** (`common/sending_email.py`, `auth/tasks.py`) | one dictionary per process, shared by threads | compose, attach, send | threads between compose and attach | a mail carries its own document |
| **Modems and link pages** (`modems/router.py`, `modems/router_templates.py`) | table `modems` with address, owner, hash | create, update, delete, list the links of a user, open a link | check and insert in two statements without a constraint; old hashes; old links | one modem per address, a link leads to a modem with the address it was listed with |
| **Proxy credentials file** (`cli/proxy_userlist.py`, `cli/utils.py`) | a text file | create, insert, delete, get | commands without locks that read, ask and write; text with blank lines | the file holds what was inserted and not deleted |
| **Life of the socket server** (`cli/socket_server.py`) | PID file, count file | run, stop, logs, count | commands that overlap, a stale PID, stop without permission, a server that drains while the next one starts | the files tell of the server that runs; stop ends the server it finds |
| **Authentication and sessions** (`auth`, `dependencies.py`, `users/router.py`, `main.py`) | cookies, tokens, `hashed_password`; nothing on the server | both logins, logout, disconnecting Google, home page, deletion, update, password reset | overlapping requests of several tabs, replies in any order, checks and statements apart, Google between two steps | the cookies are of one login; the page deletes its own account; a reset link dies with its token |
| **Database sessions and pool** (`db_connection.py`, `dependencies.py`) | pool of 5 + 10 connections per worker | one session per request | a WebSocket holds its connection for a whole reboot; a page that requests itself; a query that blocks the event loop | nothing is leaked, every request is answered in the end |
| **Change-IP page** (`static/js/change_ip.js`) | the current WebSocket, the spinner | click, open, message, error, close | clicks at any moment, several sockets one after the other, a network that fails | one reboot at a time, and only after a click |

Left aside: rendering of pages, the other browser scripts, the health check (reads only), the `web_server` command,
configuration, validators, logging, migrations, deployment. `PROJECT.json` gives a reason for each.

How they interact:

    page ─────WebSocket──> endpoint ──TCP──> socket server ──HTTP──> modem ──radio──> operator
                              │                    └── curl through the modem's proxy
    administrators ──REST──> modems, users ──SQL──> PostgreSQL <──SQL── commands ──> credentials file
                                 └── background tasks ──> email_sender ──> SMTP ──> reader ──> verify

* The web server runs several **workers** (processes), each with one event loop. The endpoints are `async def` and call
  the database synchronously, so within a worker nothing happens between two awaits; *between workers* anything
  may happen between two statements. PostgreSQL runs at READ COMMITTED.
* **Background tasks** are synchronous functions and run in a thread pool of the worker that answered the request.
* The **socket server** is one process with one event loop. Its call of the modem's API is synchronous.
* A query that finds no free connection **blocks the event loop** of its worker, since it is made in the loop's own thread.
* The **browser** keeps the session: the server only verifies tokens and looks up the address they name.
* The commands of the command line are processes of their own and take no locks.

## 2. Modules

| Module | Role |
|---|---|
| `RebootPromise` | abstract specification: what a client of the socket server may rely on |
| `RebootServer` | the socket server, the modems and the peers |
| `ChangeIp` | EXTENDS `RebootServer`: endpoint, socket client, database row |
| `EmailSender` | the shared sender, one task per mail |
| `Accounts` | EXTENDS `EmailSender`: accounts, codes, workers |
| `Modems` | table of modems, administrators' requests, list of links, page |
| `UserList` | credentials file and its commands |
| `ChangeIpPage` | EXTENDS `ChangeIp`: the page whose sockets are its requests |
| `ServerProcess` | the commands `run` and `stop`, PID and count file |
| `Sessions` | logins, cookies, home page, updates and password resets |
| `ConnectionPool` | database sessions of requests, and the pools they take connections from |
| `MC*` | model values, lease functions and symmetry for TLC |
| `*Proofs` | theorems and their proofs |

In every module, the operators that nothing in `Next` mentions and that stand just before a definition of similar shape
(`MissesEof`, `AnswersTwice`, `InsertsOrphan`, ...) are *mutants*: what a plausible slip of the code would make of
that definition. `PROJECT.json` pairs every property with the mutant that breaks it. They take no part in any run.

### RebootPromise and RebootServer

| Model | Code |
|---|---|
| `pc[c]` | where the coroutine `accept_connection` of connection `c` awaits: `reading`; `fetchBefore` / `fetchAfter` (`fetch_ip` before and after the reboot); `reboot` (the loop over attempts); `respond` (write and drain); `closing` (the finally block); `closed`; `dead` with the process |
| `fetchLeft`, `tries` | the loop counters of `fetch_ip` and of `handle_modem_rebooting` |
| `ipBefore`, `ipAfter`, `outb` | local variables and `data.outb`, which is never cleared |
| `sent` | the reply written |
| `counter`, `tracked`, `countFile` | `_conn_id_counter`, the keys of `_connection_data`, the content of the count file |
| `link`, `ip`, `drops` | the modem: link state, address; the times a link went down by itself |
| `peer`, `inbox` | the other end: open, has asked, closed, reset; whether a request is in the buffer |
| `reboots`, `held` | history: reboots made for `c`; addresses its modem has had since |

`reboot_modem` ends in one of four ways (`ApiResults`): accepted; `False`; the truthy string `"Error: ..."` of a caught
exception; an exception that is not caught, which may come *after* the modem has taken the reboot. A run of curl is one
step with the wait that follows: it fetches the address (only if the link is up), fails and is retried, or fails for good;
curl can fail on a working link too. A link that comes back gets any address of `Leases[old]`. `wait_closed()`
raises if the peer has reset the connection (`CloseRaises`), and then the registry keeps its entry.

The client writes a request as several messages (`sockets/async_client.py:107`), which arrive in one or more reads. The server
collects them and acts once the marks of start and stop are there, so that `inbox` says only whether all of it has arrived;
a client that is gone before that is `eof` or `reset` without a request. `ParseRaises` is a comma in a field that is not the last one,
as the login or password of the proxy, which shifts the action. The model does not send a second request on a connection; that the
client never does is part of `ServerSafety`, checked and proved of `ChangeIp`.

`RegistryIsConsistent`: counter and registry agree, and so does the count file, except after a death of the process until the next
connection comes. An entry whose connection has ended stays only where `wait_closed()` has raised.

`KeepsPromise` is `RebootPromise!PromiseSpec` under the mapping `outcome <- OutcomeOf(c)`, `rebootsDone <- reboots`:
at most one reboot, success only after it, failure only without it, and an outcome that is final.

### ChangeIp

`ws[r]` is the line at which the endpoint awaits or stands: `accepted` (receive_text), `connecting`, `sending`, `waiting`
(the three awaits of the socket client), `answering` (send_json), `stamping` (the commit), or one of the ends. The
socket client's steps are joined with the server's view of the peer: `Connects` is `Accept`, `Sends` is `PeerSends`,
`ReceivesReply` includes `PeerCloses`. `row[w]` tells what the endpoint tells apart: a row it can use, one it cannot (no
bound user, or one without proxy credentials: an exception), or none. A row is found by its id (`RowOf[r]`) and leads to the modem
that has its address (`address`, `ModemOf`); a request that reads another address there is another member of `Conns`. Administrators
change a row at any time, during an await included: the body of a PUT replaces the address, which may be that of another modem from then
on, and writes into `rebooted` what was there, nothing, or any time at all (`Given`). `stale` are the requests whose row has got another
address since they read it. Workers die with what they do, and their connections are closed or reset. `ServerSafety` (the
specification of the socket server alone) is checked in `change_ip_page` and proved of `ChangeIp` as a whole: whatever endpoint, client
and their deaths do to a connection is what `RebootServer` assumes of its peers.

### EmailSender and Accounts

A mail goes through `Queue` (bg_tasks.add_task), `Composes` (the document goes into `email_sender._attachments_data`),
`Attaches` (it is read back), `Arrives` or `SmtpFails`. A document is named by its mail; `during[m]` remembers which documents were
stored between the two middle steps of `m`.

In `Accounts`, `op[w]` is the next statement of the request that worker `w` handles and `who`, `code`, `addr`, `tok`, `seen` are its
local variables. A statement with its commit is an action: `register_user` is `BeginsCreation` (lookup), `InsertsUser`,
then `send_otp_email_handler` as `LooksUp` and `InsertsOtp`, which queues the mail. `compare_codes` is
`FindsCode`, `MarksVerified` (first commit), `ReloadsOtp` (the commit expired the object, reading `.id` loads it again), `DeletesOtp`
(second commit). A code is entered by somebody who reads a mailbox: `entered` records `<<code, mailbox>>`.
The token is a version number, `NullToken` for administrators, for whom `token == None` becomes `IS NULL` and meets
any administrator. `compare_codes` never compares the token of its body: `FindsCode` accepts a code by its value, the id of its account and its
expiry, an administrator's code included. Another code can be asked for by whoever has a token out of a mail, of verification or of a
password reset. Requests that validation refuses change nothing and are left out; codes are never guessed.

### Modems

`pc`, `op`, `found`, `to`, `binds`, `refresh`, `who` are a request of an administrator: method, the modem it has found, its body
and the user it has found. `create_modem` is `BeginsCreate` (no modem has the address), `FindsUser`, `InsertsModem`;
`update_modem` is `BeginsUpdate`, `FindsUser`, `UpdatesModem`. The foreign key makes a write fail if the user is gone
(`WriteFails`). A hash is only compared, so it is the pair of email and address; the token of a user is a
counter, since it is new each time. `ListsUser` and `ListsModem` are the two statements of `get_change_ip_urls`; `OpensPage` is the query of
`change_ip_page`, at any later time. Three history variables record what excuses twins: a move to an
address that was taken (`moved`), two requests writing one address at a time (`overlapped`), an address changed without its
hash (`kept`).

### UserList

A command goes through `fetch` (the query), `read` (the file, kept in `seen`), `write` (after the operator's confirmation). A creation empties
the file (`OpensNew`, then `emptied`) and then writes it (`Creates`), a deletion writes the lines that stay (`Overwrites`, then
`overwritten`) and then cuts off what is behind them (`Deletes`, then `deleted`, the report): two system calls each, while an
insertion appends with one. A line is a pair of login and hash; `Blank` is the empty line. `Duplicate` includes the blank line because the
text to insert ends with a newline; `Targets` is the set `{cred[index] ...}` as the code builds it, columns
and all; `Found` has the rows in the order of the emails (`Ascending`), and `Remaining` keeps that of the lines.

`torn`: a command has read or written the file between the two calls of another, or has died between its own. The lines are then cut at
any byte, and the model stops there: `EveryLineWasTrue` promises true lines only for the races that do not meet half a write.
`raced`: a command has written over what it had not read. `ListAddsUp` says what the file holds otherwise: every line that was inserted
and not named for deletion since, and besides these only lines in `doubtful`, which were named for deletion behind another user. Those
may be there or not, so that the property holds of the code, which leaves them, and of a program that deletes all that was named;
that the code leaves them is the finding of `user_list_delete`.

Left out: repeats among the emails of a command line (the count of rows then differs from the count of names, which only
changes the error message, or drops a user from the output of `get`), and file system errors other than a refused write. A list longer than
the 8 KiB of the file object's buffer is written in more than two calls; what could come between those is as in `torn`.

### ChangeIpPage

The requests of `ChangeIp` are the WebSockets of one page: `sock[r]` is the `readyState` of socket `r`, `current` the variable `ws` of
the script. `ClickReopens` and `ClickSends` are the branches of the click handler, a click while the socket is connecting
included (it only shows the spinner); `OnOpen`, `OnMessage`, `OnClose`, `HandshakeFails` are its events. `idSent` is what is on its
way to an endpoint that still receives: `change_ip` receives once, so that a second id is read by nobody. `PageReceives`,
`PageEndpoint` and `PageHappens` restrict the actions of `ChangeIp` to what this page and its network cause: an id only if the page
has sent one, a failing send only on a network that has failed. `NetworkFails` closes the socket at the browser alone; the endpoint learns
of it when it sends its answer. A socket is *cut off* (`CutOff`) when browser, endpoint and socket server have parted
company, through the network, the worker's death or the transport's timeout: only then may two reboots run at once, and
`MaxCuts` bounds their number.

### ServerProcess

`pc[x]` is the next system call of a process or of a `stop`: `run` is `Runs`, `Binds`, `OpensPidFile` and `WritesPid` (the two halves of
`write_text`), connections that count (`Counts` and `WritesCount`, the two halves of writing the count file), Ctrl+C
(`Interrupted`: the port is closed and `wait_closed` waits for the connections; `InterruptedAgain` is an exception wherever the
server is, so that a half-written count stays so, and cancels them) and the finally block; `stop` is `FindsPidFile`, `ReadsPid` or `ReadFails`, `Kills` or
`KillFails`, and the same finally block. In it `exists` and `remove` are steps of their own, and a `remove` that finds nothing
raises. PIDs are used again, by servers and by processes of others (`TakenByAnother`); `ours` are those the user of `stop` may
signal. A file that has been removed while it was open takes what is written to it along (`pidOpen`, `counting`). `conns` are the connections
a server has, `lost` those that ended uncounted because `wait_closed` raised (`EndsUncounted`): the count file shows their sum.
`alone` is the server that no other command has overlapped, `abandoned` records a kill from outside or a finally block cut short.

### Sessions

A token, and the CSRF token issued with it, is the number of its login; `sess[n]` tells its kind, the address it names and
whether it has expired. `req[r]` is a request under way with the cookies of the moment it was sent, its next statement and, once it is
`done`, the cookies its reply sets or deletes; `Arrives` applies them, `IsLost` loses them. `page` is the home page in a tab, with
the login and address it was rendered for and the CSRF cookie that its scripts have read (`RunsScript`, later than the rendering).
`Exchanges`, `KnowsAddress` / `LacksAddress`, `Creates` are `google_login`; `ChecksIdToken`, `GoogleRevokes` / `RevokeFails` are
`revoke_google_auth`; `FindsForDelete`, `Deletes` are `delete_user`; `FindsForUpdate`, `Updates` / `UpdateFails` are `update_user`; `FindsByLink`,
`SetsPassword` are `reset_password_confirm`. A password is what set it: `Own`, or the version of the token in the reset link; the
comparison with an old password is that there is one, and wrong passwords change nothing. A client of the API makes its CSRF pair itself,
as `verify_csrf_token` lets it, and may send an update or a deletion with it; the deletion needs no login (`FindsForApiDelete`,
`ApiDeletes`). A logout answered in one tab takes the cookies away and leaves the page open in another. `DeletesItsOwn` speaks of
what the page deletes; it excuses a page whose script ran after another login was answered, and a login whose account has given up
its address since. A request that is refused is over at once, since its reply changes nothing.

### ConnectionPool

A request is `opened` by a worker (`get_db`), has no connection before its first query (`Queries`), may await with the
connection in hand (`ServerAnswers`: the socket server, or the thread that compares CSRF tokens; `IsAnswered`: the list page's request to
this same application, which any worker may take), has `returned` when the endpoint has ended in whatever way, is `closing` once the event
loop has handed the exit of `get_db` to a thread, `closed` when that is done, and only then answered: FastAPI 0.112 leaves the dependency
before it sends the response. `waiting[w]` is the query that blocks the event loop of `w`, until it gets a connection or the pool's
timeout. Durations are not modelled: the pool may time out at any moment, and so may httpx. The socket server need not answer at all: a
WebSocket may keep its connection for ever, and a few of them exhaust the pool for good. `EveryRequestIsAnswered` promises the others an
answer all the same, if only the pool's failure, and promises a WebSocket one only after its own wait.

## 3. Runs

All finish on two workers within the five minutes given to a run.

| Run | Shows | Bounds |
|---|---|---|
| `reboot_server` | the six properties of the socket server | two connections, one modem, two addresses that may repeat, two attempts at everything, every API result, one crash, one outage |
| `change_ip` | the four properties of the whole chain | two requests of one row, two modems it may lead to, two addresses, one crash, one change of the row |
| `change_ip_page` | `OneRebootAtATime`, `RebootsUnderSpinner`; liveness of the chain: `EveryRequestEnds`, `ReleasedAfterHangup`; `ServerSafety` | one page with two sockets, one of which may be cut off; an API that accepts, a new address each time; no crash of the server, no change of the row |
| `no_answer` | *finding*: `EveryRequestEnds` fails when the API answers with an error | one request |
| `accounts` | the six properties of accounts, codes and mails | two workers, two accounts, addresses and codes; one update, removal or death |
| `mixed_mail` | *finding*: `DocumentsReachTheirAddressee` fails | two accounts, one worker |
| `modems` | the four properties of modems and links | two of everything, three requests, three changes of users |
| `user_list` | `EveryLineWasTrue` and `ListAddsUp` | two operators, two users, three commands, two changes of the database |
| `user_list_delete` | *finding*: `DeletesAllThatWereNamed` fails | one operator, two users |
| `server_process` | what PID file and count file are good for: `FilesTellOfTheServer`, `LeftoverHasAReason`, `StopEndsTheServer` | two PIDs, two ports, two stops, one connection at a time, four events (commands, signals, foreign processes, connections reset) |
| `sessions` | `CookiesOfOneLogin`, `DisconnectedMeansRevoked`, `DeletesItsOwn`, `LinkDiesWithItsToken` | two addresses, accounts, logins and requests at a time; four requests, mailed links and expiries in all |
| `connection_pool` | `NothingLeaks`, `EveryRequestIsAnswered` | two workers with a pool of one, two list pages with the requests they send, one WebSocket |

**Why the bounds are enough.** The properties relate at most two requests, or a request and one other actor, and two of each
is the least number with which their interference happens: a second connection that reboots the same modem, a
second thread that stores its document, a second worker that enters the same code. Two modems would not interact in
`RebootServer`; one that is shared does. Two addresses that may repeat give the case that a modem gets its old
address again; `FreshLeases` leaves that out where the outcome is to be decided (below). Attempts are two where the count matters (the
last and one before), one where `ChangeIp` is composed with the server, whose loops are checked alone. A pool of one is exhausted by one request, as
the real one of fifteen is by fifteen, and two list pages in two workers can each wait for a request that the other's worker has
taken. Two PIDs and two stops give the second `run`, the PID used again and two finally blocks in each other's way;
four events suffice for a stale file, a new server and the command that meets both. In `sessions` four requests are, for instance, two logins, a
home page and what it deletes. Three commands are create,
insert and delete; three requests about modems are two creations and the move of one. The proofs below remove the bounds for the
safety of every module. Symmetry is used for safety only, over sets of model values that the modules
treat alike. `CHECK_DEADLOCK FALSE`: every run ends when the bounded requests have been served.

**Fairness** (`ServerSpec`, `Spec` of `ChangeIp`). asyncio runs every coroutine that can go on: weak fairness of `Handler(c)`
and `Endpoint(r)`. Of the outside world (`RadioNetwork`) it is assumed that a modem that went down comes back, and that curl,
run over and over on a working link, succeeds (strong fairness of `FetchedAfter`: it is enabled now and then).
Nothing is assumed of the browser, nor that anybody clicks. `change_ip_page` also assumes that the operator never leases an old
address again and that the API accepts the reboot: without the first the loop `while True` does not end, without
the second there is `no_answer`. `EveryRequestEnds` starts at `connecting`: before that the endpoint waits for the browser.
In `ServerProcess` a `stop` that has begun goes on; nobody has to begin one, and no server has to end by itself. In `ConnectionPool` event loops and
threads run what they can and the wait for the pool ends (SQLAlchemy's timeout of thirty seconds); a client need not send
the id of its modem, the socket server need not answer, and a worker takes the application's own requests from the backlog. A request that is
awaited need not time out by itself: `AskFails` has no fairness.

### Findings

1. `no_answer`: an API error is a truthy string, which is neither success nor failure for the code: no answer, ever.
2. `mixed_mail`: two background tasks of a worker mix their documents, so that a reader gets another account's code.
3. `user_list_delete`: deleting several users from the file deletes the first one only.

Seen while modelling, with no run of their own:

* The endpoint closes the WebSocket without the message its docstring promises (`modems/router_ws.py:38`) if the modem is unknown or the
  socket server closes without a reply.
* A code entered in two workers at the same time may be accepted by both; `AcceptedOncePerWorker` is what remains of "one-time".
* A modem that was moved without renewing its hash shares it with the next one at its old address (`TwinsHaveAReason` names this case).
* `create_modem` does not store the `external_server_port` it is given: a new modem has the default 65000 (`modems/models.py:26`) until it
  is updated; ids of connections repeat, being a count; a user of Google is never stored as verified; an update
  without an email is an error of the database; `build_credentials_for_config` raises only if
  login *and* password are missing where its docstring says *or* (`cli/utils.py:150`).
* A click while the WebSocket is still connecting loses the id and leaves the spinner turning; the page's element for errors is
  removed at the first success.
* `stop` is described as graceful, but SIGTERM ends the server without its finally block; a `stop` between the two halves of
  `_save_pid` finds no number, ends nothing, and removes the file of the server that is starting.
* A login with a password after one through Google leaves the old access token's cookie: the home page then offers to disconnect
  Google, and the request is refused. If the answer of Google to a revocation is lost, each retry fails, since Google no longer knows the token.
* The address to delete is the one written into the page: it is deleted whoever has it by then. `DeletesItsOwn` states when that is
  the page's own account. A deletion needs no login, only a CSRF pair, which any client can make for itself.
* The line that an insertion compares with the file includes the empty one behind the last newline, so that a blank line in the file, which
  the insertion of nobody's credentials writes, makes every later insertion end as a duplicate (docstring: `cli/proxy_userlist.py:158`).
* A connection whose peer has reset it can leave its registry entry behind, and is counted from then on.
* The finally block of one server, or of a `stop`, removes the files of another that runs.
* Two creations of modems, or a creation and a move, may both find an address free and both write it.
* A WebSocket whose request is never answered keeps its database connection; `count` fails on a count file that is being written.

## 4. Proofs

The theorems hold for every value of the constants under the assumptions of the modules, which TLC evaluates on each
run: sets that exclude `None` or `Nobody`, bounds that are natural numbers, addresses and leases of the right type, finite sets
of connections, of workers, of requests and, in `UserList`, of users (for what is counted or sorted). No theorem assumes anything of how
many there are. Each action property and invariant below is a theorem of the specification its run checks, or of that without its
fairness, which only leaves out behaviours.

| Module | Proved | Argument |
|---|---|---|
| `RebootServerProofs` | `ServerTypeOK`, `RebootedAtMostOnce`, `FailureMeansNotRebooted`, `ReportIsTruthful`, `RegistryIsConsistent`, `KeepsPromise` | `ReplyInv`: types and, per connection, what `pc`, `outb`, `sent`, `reboots`, `ipBefore`, `ipAfter` and `held` say of one another (`ConnInv`). The properties are not inductive: that no reboot follows one needs to know that `pc = "reboot"` and `"fetchBefore"` exclude an earlier reboot and reply. The registry is inductive with types; its counter needs the cardinality of `tracked` with one element more or less. The refinement maps each action to a step of the promise or a stutter |
| `ChangeIpProofs` | `ServerSafety`, `ChangeIpTypeOK`, `WhatIsShownIsTrue`, `StampMeansRebooted`, `NoOrphanConnection`; of the page: `Safety` of `ChangeIp`, `KeepsPromise`, `WhatIsShownIsTrue`, `OneRebootAtATime`, `RebootsUnderSpinner` | every action of `ChangeIp` is a step of the server or leaves it alone, so `ReplyInv` carries over; `AddressInv` adds that a row of which a request still makes use has that request's address unless it is `stale`; `ClientInv` adds, per request, that the client's state fits the peer's and that `answer` is what was sent. Every action of the page is an action of `ChangeIp` or leaves it alone (`ImplementsChain`), so all this carries over again, down to the promise of the socket server; `SocketInv` adds, per socket, that only the current one is not closed, that the server is at rest for one whose endpoint has answered, and that the spinner turns while one awaits an answer. Two requests in work would both be of the current socket |
| `AccountsProofs` | `TypeOK`, `OwnDocumentUnlessOverlapped`, `EmailsAreUnique`, `NoOrphanOtp`, `VerifiedByItsReader`, `AcceptedOncePerWorker` | `RowInv`: rows, codes and mails (a code in use has its mail, a document in the slot belongs to a mail of that process that was stored). On top `EnteredInv` (a code entered was in the mailbox named), `VerifiedInv`, and `CountInv`: acceptances of a code and workers still about to accept it are together at most the number of workers, by the cardinality of the set of those workers |
| `ModemsProofs` | `TypeOK`, `BoundToSomebody`, `TwinsHaveAReason`, `LinkOpensListedIp` | `ApartInv`: without `moved` and `overlapped` the addresses of modems *and* of requests about to write differ; `SignedInv`: without `kept` a hash has the address of its modem; and so has a link |
| `ConnectionPoolProofs` | `NothingLeaks` | `HolderOK`: who holds a connection awaits or closes, and is not the request whose query blocks its worker; `Balanced`: a pool counts the holders it has lent to, by the cardinality of their set with one element more or less; `NotYetAsked`: a page that has not queried has not asked, so that its asking moves no holder |
| `ServerProcessProofs` | `ProcessTypeOK`, `FilesTellOfTheServer`, `LeftoverHasAReason` | `CountInv`: the counter of a server is its connections and its lost ones. `AloneOK`: nobody else is at work beside a server that is alone, it has the PID file open from emptying to writing it, and has counted nothing before it serves. `RemovalInv`: as long as nothing was `abandoned`, for each file that is there some command at work still has the removal before it; the property is its case of nobody at work |
| `SessionsProofs` | `SessionsTypeOK`, `CookiesOfOneLogin`, `DisconnectedMeansRevoked`, `DeletesItsOwn`, `LinkDiesWithItsToken` | `ReplyOK`: a reply under way sets the cookies of one login, all three if it is Google's, or deletes; that is what keeps `JarOK` in any order of arrival. `ReqInv` says for each kind of request what its copies of cookies, page and link are worth by now; `OwnerInv`: an account that has logged in has its address or is in `moved`; `IdInv`: ids are not given twice and a link has no newer token than its account; `TokenInv`: tokens and updates still to be made are together at most the events, by the cardinality of the set of those requests |
| `UserListProofs` | `TypeOK`, `EveryLineWasTrue`, `ListAddsUp` | `CredInv`: what a user has had nobody else has; `CommandInv`: the rows and lines that a command has in hand were true once, are distinct, and an insertion has found none of its lines in the file. Half a write is followed too: as long as nothing is `torn` one command at most is between its two calls (`OneMid`), and `MidInv` says what the file is then and will be. The lemmas about `Ascending` give each number its rank, which makes the sorted sequence exist and be one to one: so a row comes from one user, and the lines left by a deletion keep their order and number |

**Only model-checked:** liveness, which is out of reach of the prover: `EveryRequestEnds`, `ReleasedAfterHangup`, `StopEndsTheServer` and
`EveryRequestIsAnswered`. Every other property that a run checks and finds to hold is a theorem. The three findings are counterexamples
and have nothing to prove.

## 5. What is not modelled

* Formats: the text of requests, replies, mails and lines. A request either parses or not (`ParseRaises`); a line is a
  pair; a hash is the pair it is made of; tokens and codes never collide.
* The time: expiry of a code may come at any moment, timeouts may fire at any moment.
* Authentication: the captcha, the redirect to Google with its state, the verification of signatures, an administrator's own token. A token
  is issued by a login and by nothing else.
* The pool's surroundings: the limit of the thread pool in which sessions are opened and closed, and the synchronous fetch
  of Google's certificates in `jwt_verification`, which blocks the event loop but ends by itself. The commit and refresh of an
  endpoint give its connection back and take one again in the same turn of the event loop, in which nobody else can take it.
* The death of a web worker in `ConnectionPool`: its pool, sessions and requests go with it; for a page that waits for such a
  request it is `AskFails`.
* Several browsers with one session, and the two sockets of different pages in `ChangeIpPage`: pages that share a modem are the two
  requests of `change_ip`.
* `get` of the credentials file, `logs` and `count`, which only print; the other browser scripts, which send one request and show its answer.
* The email of a user that changes between the check of a token and the page's request to its own server.

## 6. Plan

Done: all modules of section 2, with the safety of each proved. Next, in this order:

1. **More abstract specifications.** `RebootPromise` is the only one. The credentials file promises a set of lines with insertion and deletion
   for as long as nothing is `raced`; accounts promise their readers a table in which an address is verified by a code that was mailed to it.
2. **`get` of the credentials file**, whose printed pairing of lines and users has a hazard that no property covers.
3. **`ChangeIpPage`** with two pages of one modem, each with its own sockets.
