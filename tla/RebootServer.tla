---------------------------- MODULE RebootServer ----------------------------
(***************************************************************************)
(* The socket server: AsyncSocketServer.accept_connection and the reboot   *)
(* handler it awaits (sockets/async_server.py), one instance of the        *)
(* handler per connection, all of them in one asyncio event loop, so that  *)
(* they interleave at every await.                                         *)
(*                                                                         *)
(* Around the server stand the modems it reboots and the peers that        *)
(* connect to it.  A peer sends one complete START .. STOP request, may    *)
(* close its end (the server reads the end of the stream) or may vanish    *)
(* (the server gets a connection reset).                                   *)
(***************************************************************************)
EXTENDS Integers, FiniteSets

CONSTANTS
    Conns,            \* connections, one request each
    Modems,           \* the modems of the installation
    ModemOf,          \* ModemOf[c]: the modem whose data the request of c carries
    IPs, NoIP,        \* external addresses; NoIP is Python's None
    FirstIP,          \* FirstIP[m]: the address modem m starts with
    Leases,           \* Leases[a]: the addresses a modem may get after it had a
    FetchAttempts,    \* settings.fetch_ip_attempts
    RebootAttempts,   \* settings.reboot_attempts
    ApiOutcomes,      \* how modem_api.reboot_modem may end (see ApiResults)
    MaxCrashes,       \* bound: crashes of the server process
    MaxDrops          \* bound: times a link goes down by itself

\* reboot_modem returns True, returns False, returns the truthy string
\* "Error: ...", or lets an exception of the HTTP client through.
ApiResults == {"accepted", "notOK", "errorString", "raises"}

ASSUME ModemAssumption == ModemOf \in [Conns -> Modems]
ASSUME AddressAssumption == /\ NoIP \notin IPs
                            /\ FirstIP \in [Modems -> IPs]
                            /\ Leases \in [IPs -> SUBSET IPs]
ASSUME AttemptsAssumption == FetchAttempts \in Nat /\ RebootAttempts \in Nat
ASSUME ApiAssumption == ApiOutcomes \subseteq ApiResults
ASSUME BoundAssumption == MaxCrashes \in Nat /\ MaxDrops \in Nat
ASSUME ConnsAssumption == IsFiniteSet(Conns)

VARIABLES
    link, ip, drops,            \* the modems: link state, external address
    peer, inbox,                \* the peers' end, and whether a request is buffered
    up, crashes,                \* the server process
    pc, fetchLeft, tries,       \* accept_connection / handle_modem_rebooting
    ipBefore, ipAfter, outb,    \*   and its local variables
    sent,                       \* the reply written to the connection
    counter, connid, tracked,   \* _conn_id_counter, connid, keys of _connection_data
    countFile,                  \* contents of CONN_COUNT_FILE
    reboots, held               \* history: reboots made for c; addresses its modem
                                \*   has held since the reboot

modemVars == <<link, ip, drops>>
peerVars == <<peer, inbox>>
processVars == <<up, crashes>>
localVars == <<fetchLeft, tries, ipBefore, ipAfter, outb>>
registryVars == <<counter, connid, tracked, countFile>>
historyVars == <<reboots, held>>
serverVars == <<modemVars, peerVars, processVars, pc, localVars, sent,
                registryVars, historyVars>>

Serving == {"reading", "fetchBefore", "reboot", "fetchAfter", "respond", "closing"}
PcValues == Serving \cup {"absent", "closed", "dead"}
Replies == {"ok", "fetchFailed", "rebootFailed"}
Failures == {"fetchFailed", "rebootFailed"}

ServerTypeOK ==
    /\ link \in [Modems -> {"up", "down"}]
    /\ ip \in [Modems -> IPs]
    /\ drops \in 0 .. MaxDrops
    /\ peer \in [Conns -> {"none", "open", "asked", "eof", "reset"}]
    /\ inbox \in [Conns -> BOOLEAN]
    /\ up \in BOOLEAN
    /\ crashes \in 0 .. MaxCrashes
    /\ pc \in [Conns -> PcValues]
    /\ fetchLeft \in [Conns -> 0 .. FetchAttempts]
    /\ tries \in [Conns -> 0 .. RebootAttempts]
    /\ ipBefore \in [Conns -> IPs \cup {NoIP}]
    /\ ipAfter \in [Conns -> IPs \cup {NoIP}]
    /\ outb \in [Conns -> Replies \cup {"empty"}]
    /\ sent \in [Conns -> Replies \cup {"nothing"}]
    /\ counter \in Int
    /\ connid \in [Conns -> Int]
    /\ tracked \in SUBSET Conns
    /\ countFile \in Int
    /\ reboots \in [Conns -> Nat]
    /\ held \in [Conns -> SUBSET IPs]

ServerInit ==
    /\ link = [m \in Modems |-> "up"]
    /\ ip = FirstIP
    /\ drops = 0
    /\ peer = [c \in Conns |-> "none"]
    /\ inbox = [c \in Conns |-> FALSE]
    /\ up = TRUE
    /\ crashes = 0
    /\ pc = [c \in Conns |-> "absent"]
    /\ fetchLeft = [c \in Conns |-> 0]
    /\ tries = [c \in Conns |-> 0]
    /\ ipBefore = [c \in Conns |-> NoIP]
    /\ ipAfter = [c \in Conns |-> NoIP]
    /\ outb = [c \in Conns |-> "empty"]
    /\ sent = [c \in Conns |-> "nothing"]
    /\ counter = 0
    /\ connid = [c \in Conns |-> 0]
    /\ tracked = {}
    /\ countFile = 0
    /\ reboots = [c \in Conns |-> 0]
    /\ held = [c \in Conns |-> {}]

Goto(c, label) == pc' = [pc EXCEPT ![c] = label]

(***************************************************************************)
(* The peers.                                                              *)
(***************************************************************************)

\* The bytes of one request, START to STOP, have reached the server's socket.
PeerSends(c) ==
    /\ peer[c] = "open" /\ pc[c] = "reading"
    /\ peer' = [peer EXCEPT ![c] = "asked"]
    /\ inbox' = [inbox EXCEPT ![c] = TRUE]
    /\ UNCHANGED <<modemVars, processVars, pc, localVars, sent,
                   registryVars, historyVars>>

\* What the peer sent before closing can still be read.
PeerCloses(c) ==
    /\ peer[c] \in {"open", "asked"}
    /\ peer' = [peer EXCEPT ![c] = "eof"]
    /\ UNCHANGED <<modemVars, inbox, processVars, pc, localVars, sent,
                   registryVars, historyVars>>

\* A reset discards what has not been read yet.
PeerResets(c) ==
    /\ peer[c] \in {"open", "asked"}
    /\ peer' = [peer EXCEPT ![c] = "reset"]
    /\ inbox' = [inbox EXCEPT ![c] = FALSE]
    /\ UNCHANGED <<modemVars, processVars, pc, localVars, sent,
                   registryVars, historyVars>>

(***************************************************************************)
(* The modems: the radio link and the address the operator leases.         *)
(***************************************************************************)

LinkBack(m) ==
    /\ link[m] = "down"
    /\ link' = [link EXCEPT ![m] = "up"]
    /\ \E a \in Leases[ip[m]] :
          /\ ip' = [ip EXCEPT ![m] = a]
          /\ held' = [c \in Conns |-> IF ModemOf[c] = m /\ reboots[c] > 0
                                      THEN held[c] \cup {a} ELSE held[c]]
    /\ UNCHANGED <<drops, peerVars, processVars, pc, localVars, sent,
                   registryVars, reboots>>

LinkDrops(m) ==
    /\ link[m] = "up" /\ drops < MaxDrops
    /\ link' = [link EXCEPT ![m] = "down"]
    /\ drops' = drops + 1
    /\ UNCHANGED <<ip, peerVars, processVars, pc, localVars, sent,
                   registryVars, historyVars>>

\* The modem goes down for the reboot it has just been asked for by c.
TakesReboot(c) ==
    /\ link' = [link EXCEPT ![ModemOf[c]] = "down"]
    /\ reboots' = [reboots EXCEPT ![c] = @ + 1]
    /\ held' = [held EXCEPT ![c] = {}]
    /\ UNCHANGED <<ip, drops>>

(***************************************************************************)
(* accept_connection: registration, reading, clean-up.                     *)
(***************************************************************************)

Accept(c) ==
    /\ up /\ pc[c] = "absent"
    /\ peer' = [peer EXCEPT ![c] = "open"]
    /\ counter' = counter + 1
    /\ countFile' = counter + 1
    /\ connid' = [connid EXCEPT ![c] = counter + 1]
    /\ tracked' = tracked \cup {c}
    /\ Goto(c, "reading")
    /\ UNCHANGED <<modemVars, inbox, processVars, localVars, sent, historyVars>>

\* Both markers are in the buffer: handle_modem_rebooting begins with fetch_ip.
Receive(c) ==
    /\ pc[c] = "reading" /\ inbox[c]
    /\ inbox' = [inbox EXCEPT ![c] = FALSE]
    /\ fetchLeft' = [fetchLeft EXCEPT ![c] = FetchAttempts]
    /\ Goto(c, "fetchBefore")
    /\ UNCHANGED <<modemVars, peer, processVars, tries, ipBefore, ipAfter, outb,
                   sent, registryVars, historyVars>>

\* ValueError in parse_modem_data_to_reboot: a comma in the proxy's login or
\* password has shifted the fields after it, and the action is none.
ParseRaises(c) ==
    /\ pc[c] = "reading" /\ inbox[c]
    /\ inbox' = [inbox EXCEPT ![c] = FALSE]
    /\ Goto(c, "closing")
    /\ UNCHANGED <<modemVars, peer, processVars, localVars, sent,
                   registryVars, historyVars>>

MissesEof(c) ==
    /\ pc[c] = "reading" /\ ~inbox[c] /\ peer[c] = "reset"
    /\ Goto(c, "closing")
    /\ UNCHANGED <<modemVars, peerVars, processVars, localVars, sent,
                   registryVars, historyVars>>

\* read() returns b"" or raises; either way the finally block is entered.
ReadEnds(c) ==
    /\ pc[c] = "reading" /\ ~inbox[c] /\ peer[c] \in {"eof", "reset"}
    /\ Goto(c, "closing")
    /\ UNCHANGED <<modemVars, peerVars, processVars, localVars, sent,
                   registryVars, historyVars>>

ForgetfulCleanUp(c) ==
    /\ pc[c] = "closing" /\ peer[c] # "reset"
    /\ counter' = counter - 1
    /\ countFile' = counter - 1
    /\ UNCHANGED tracked
    /\ Goto(c, "closed")
    /\ UNCHANGED <<modemVars, peerVars, processVars, localVars, sent, connid,
                   historyVars>>

\* wait_closed() returns and _clean_up runs.
CleanUp(c) ==
    /\ pc[c] = "closing" /\ peer[c] # "reset"
    /\ counter' = counter - 1
    /\ countFile' = counter - 1
    /\ tracked' = tracked \ {c}
    /\ Goto(c, "closed")
    /\ UNCHANGED <<modemVars, peerVars, processVars, localVars, sent, connid,
                   historyVars>>

\* wait_closed() raises the reset of the connection: _clean_up is not reached.
CloseRaises(c) ==
    /\ pc[c] = "closing" /\ peer[c] = "reset"
    /\ Goto(c, "closed")
    /\ UNCHANGED <<modemVars, peerVars, processVars, localVars, sent,
                   registryVars, historyVars>>

(***************************************************************************)
(* fetch_ip: at most FetchAttempts runs of curl through the modem's proxy. *)
(* A step of these actions is one run of curl with the wait that follows.  *)
(***************************************************************************)

Fetching(c) == pc[c] \in {"fetchBefore", "fetchAfter"} /\ fetchLeft[c] > 0

\* Exit code 22: the proxy answered with an HTTP error, try again.
CurlRetries(c) ==
    /\ Fetching(c)
    /\ fetchLeft' = [fetchLeft EXCEPT ![c] = @ - 1]
    /\ UNCHANGED <<modemVars, peerVars, processVars, pc, tries, ipBefore, ipAfter,
                   outb, sent, registryVars, historyVars>>

\* Any other exit code, or an exception: fetch_ip gives up and returns None.
CurlGivesUp(c) ==
    /\ Fetching(c) /\ fetchLeft[c] > 1
    /\ fetchLeft' = [fetchLeft EXCEPT ![c] = 0]
    /\ UNCHANGED <<modemVars, peerVars, processVars, pc, tries, ipBefore, ipAfter,
                   outb, sent, registryVars, historyVars>>

FetchedBefore(c) ==
    /\ pc[c] = "fetchBefore" /\ Fetching(c) /\ link[ModemOf[c]] = "up"
    /\ ipBefore' = [ipBefore EXCEPT ![c] = ip[ModemOf[c]]]
    /\ fetchLeft' = [fetchLeft EXCEPT ![c] = 0]
    /\ Goto(c, "reboot")
    /\ UNCHANGED <<modemVars, peerVars, processVars, tries, ipAfter, outb, sent,
                   registryVars, historyVars>>

SilentNone(c) ==
    /\ pc[c] = "fetchBefore" /\ fetchLeft[c] = 0
    /\ Goto(c, "reading")
    /\ UNCHANGED <<modemVars, peerVars, processVars, localVars, sent,
                   registryVars, historyVars>>

\* fetch_ip has returned None: the modem is not touched.
NoneBefore(c) ==
    /\ pc[c] = "fetchBefore" /\ fetchLeft[c] = 0
    /\ outb' = [outb EXCEPT ![c] = "fetchFailed"]
    /\ Goto(c, "respond")
    /\ UNCHANGED <<modemVars, peerVars, processVars, fetchLeft, tries, ipBefore,
                   ipAfter, sent, registryVars, historyVars>>

UncheckedAfter(c) ==
    /\ pc[c] = "fetchAfter" /\ Fetching(c) /\ link[ModemOf[c]] = "up"
    /\ ipAfter' = [ipAfter EXCEPT ![c] = ip[ModemOf[c]]]
    /\ outb' = [outb EXCEPT ![c] = "ok"]
    /\ fetchLeft' = [fetchLeft EXCEPT ![c] = 0]
    /\ Goto(c, "respond")
    /\ UNCHANGED <<modemVars, peerVars, processVars, tries, ipBefore, sent,
                   registryVars, historyVars>>

RebootsAgain(c) ==
    /\ pc[c] = "fetchAfter" /\ Fetching(c) /\ link[ModemOf[c]] = "up"
    /\ ip[ModemOf[c]] # ipBefore[c]
    /\ ipAfter' = [ipAfter EXCEPT ![c] = ip[ModemOf[c]]]
    /\ outb' = [outb EXCEPT ![c] = "ok"]
    /\ fetchLeft' = [fetchLeft EXCEPT ![c] = 0]
    /\ Goto(c, "reboot")
    /\ UNCHANGED <<modemVars, peerVars, processVars, tries, ipBefore, sent,
                   registryVars, historyVars>>

\* The address has changed: both addresses and OK go to outb.
FetchedAfter(c) ==
    /\ pc[c] = "fetchAfter" /\ Fetching(c) /\ link[ModemOf[c]] = "up"
    /\ ip[ModemOf[c]] # ipBefore[c]
    /\ ipAfter' = [ipAfter EXCEPT ![c] = ip[ModemOf[c]]]
    /\ outb' = [outb EXCEPT ![c] = "ok"]
    /\ fetchLeft' = [fetchLeft EXCEPT ![c] = 0]
    /\ Goto(c, "respond")
    /\ UNCHANGED <<modemVars, peerVars, processVars, tries, ipBefore, sent,
                   registryVars, historyVars>>

\* while True: the same address again, or None, and fetch_ip is called anew.
FetchedSame(c) ==
    /\ pc[c] = "fetchAfter" /\ Fetching(c) /\ link[ModemOf[c]] = "up"
    /\ ip[ModemOf[c]] = ipBefore[c]
    /\ ipAfter' = [ipAfter EXCEPT ![c] = ip[ModemOf[c]]]
    /\ fetchLeft' = [fetchLeft EXCEPT ![c] = FetchAttempts]
    /\ UNCHANGED <<modemVars, peerVars, processVars, pc, tries, ipBefore, outb,
                   sent, registryVars, historyVars>>

NoneAfter(c) ==
    /\ pc[c] = "fetchAfter" /\ fetchLeft[c] = 0
    /\ ipAfter' = [ipAfter EXCEPT ![c] = NoIP]
    /\ fetchLeft' = [fetchLeft EXCEPT ![c] = FetchAttempts]
    /\ UNCHANGED <<modemVars, peerVars, processVars, pc, tries, ipBefore, outb,
                   sent, registryVars, historyVars>>

(***************************************************************************)
(* The loop over reboot_modem.  The call is synchronous: it blocks the     *)
(* event loop, so call and result are one step.                            *)
(***************************************************************************)

CallsOnceMore(c, result) ==
    /\ pc[c] = "reboot" /\ tries[c] <= RebootAttempts /\ result \in ApiOutcomes
    /\ tries' = [tries EXCEPT ![c] = @ + 1]
    /\ UNCHANGED <<peerVars, processVars, ipBefore, ipAfter, sent, registryVars>>

\* One call of reboot_modem within the attempts.
Calls(c, result) ==
    /\ pc[c] = "reboot" /\ tries[c] < RebootAttempts /\ result \in ApiOutcomes
    /\ tries' = [tries EXCEPT ![c] = @ + 1]
    /\ UNCHANGED <<peerVars, processVars, ipBefore, ipAfter, sent, registryVars>>

RebootAccepted(c) ==
    /\ Calls(c, "accepted")
    /\ TakesReboot(c)
    /\ fetchLeft' = [fetchLeft EXCEPT ![c] = FetchAttempts]
    /\ Goto(c, "fetchAfter")
    /\ UNCHANGED outb

RebootNotOK(c) ==
    /\ Calls(c, "notOK")
    /\ UNCHANGED <<modemVars, pc, fetchLeft, outb, historyVars>>

\* The truthy string ends the loop, and neither test after the loop matches
\* it: nothing is put into outb and the handler goes back to reading.
RebootErrorString(c) ==
    /\ Calls(c, "errorString")
    /\ Goto(c, "reading")
    /\ UNCHANGED <<modemVars, fetchLeft, outb, historyVars>>

SwallowsException(c) ==
    /\ Calls(c, "raises")
    /\ TakesReboot(c) \/ UNCHANGED <<modemVars, historyVars>>
    /\ UNCHANGED <<pc, fetchLeft, outb>>

\* The exception leaves accept_connection through its finally block.  The
\* modem may have gone down before it could answer the call.
RebootRaises(c) ==
    /\ Calls(c, "raises")
    /\ TakesReboot(c) \/ UNCHANGED <<modemVars, historyVars>>
    /\ Goto(c, "closing")
    /\ UNCHANGED <<fetchLeft, outb>>

RebootsExhausted(c) ==
    /\ pc[c] = "reboot" /\ tries[c] = RebootAttempts
    /\ outb' = [outb EXCEPT ![c] = "rebootFailed"]
    /\ Goto(c, "respond")
    /\ UNCHANGED <<modemVars, peerVars, processVars, fetchLeft, tries, ipBefore,
                   ipAfter, sent, registryVars, historyVars>>

AnswersTwice(c) ==
    /\ pc[c] = "respond" /\ outb[c] # "empty" /\ peer[c] # "reset"
    /\ sent' = [sent EXCEPT ![c] = outb[c]]
    /\ Goto(c, "fetchBefore")
    /\ UNCHANGED <<modemVars, peerVars, processVars, localVars, registryVars,
                   historyVars>>

\* if data.outb: write and drain, then the next read().
Respond(c) ==
    /\ pc[c] = "respond" /\ outb[c] # "empty" /\ peer[c] # "reset"
    /\ sent' = [sent EXCEPT ![c] = outb[c]]
    /\ Goto(c, "reading")
    /\ UNCHANGED <<modemVars, peerVars, processVars, localVars, registryVars,
                   historyVars>>

DrainRaises(c) ==
    /\ pc[c] = "respond" /\ peer[c] = "reset"
    /\ Goto(c, "closing")
    /\ UNCHANGED <<modemVars, peerVars, processVars, localVars, sent,
                   registryVars, historyVars>>

(***************************************************************************)
(* The server process dies (a crash, or the SIGTERM of `stop`, which runs  *)
(* no finally block) and is started again.                                 *)
(***************************************************************************)

ServerDies ==
    /\ up /\ crashes < MaxCrashes
    /\ up' = FALSE
    /\ crashes' = crashes + 1
    /\ pc' = [c \in Conns |-> IF pc[c] \in Serving THEN "dead" ELSE pc[c]]
    /\ inbox' = [c \in Conns |-> FALSE]
    /\ counter' = 0
    /\ tracked' = {}
    /\ UNCHANGED <<modemVars, peer, localVars, sent, connid, countFile, historyVars>>

ServerStarts ==
    /\ ~up
    /\ up' = TRUE
    /\ UNCHANGED <<modemVars, peerVars, crashes, pc, localVars, sent,
                   registryVars, historyVars>>

(***************************************************************************)
(* The specification.  Handler(c) is all that the event loop does for c.   *)
(***************************************************************************)

Handler(c) ==
    \/ Receive(c) \/ ParseRaises(c) \/ ReadEnds(c) \/ CleanUp(c) \/ CloseRaises(c)
    \/ CurlRetries(c) \/ CurlGivesUp(c)
    \/ FetchedBefore(c) \/ NoneBefore(c)
    \/ FetchedAfter(c) \/ FetchedSame(c) \/ NoneAfter(c)
    \/ RebootAccepted(c) \/ RebootNotOK(c) \/ RebootErrorString(c)
    \/ RebootRaises(c) \/ RebootsExhausted(c)
    \/ Respond(c) \/ DrainRaises(c)

Peer(c) == Accept(c) \/ PeerSends(c) \/ PeerCloses(c) \/ PeerResets(c)

Environment ==
    \/ \E m \in Modems : LinkBack(m) \/ LinkDrops(m)
    \/ ServerDies \/ ServerStarts

ServerNext ==
    \/ \E c \in Conns : Peer(c) \/ Handler(c)
    \/ Environment

ServerSafety == ServerInit /\ [][ServerNext]_serverVars

\* asyncio runs every handler that can go on.
Scheduling == \A c \in Conns : WF_serverVars(Handler(c))

\* Assumed of the outside world: a modem that has gone down comes back, and
\* curl, run again and again through a working link, succeeds in the end.
RadioNetwork ==
    /\ \A m \in Modems : WF_serverVars(LinkBack(m))
    /\ \A c \in Conns : SF_serverVars(FetchedAfter(c))

ServerSpec == ServerSafety /\ Scheduling /\ RadioNetwork

(***************************************************************************)
(* What the server guarantees.                                             *)
(***************************************************************************)

\* However many attempts and retries it takes, and whatever the modem's API
\* answers, the modem is rebooted at most once for one connection.
RebootedAtMostOnce == \A c \in Conns : reboots[c] <= 1

\* A client that is told "Failed to fetch IP." or "Failed to reboot modem."
\* can rely on it: its modem was not rebooted on its behalf.
FailureMeansNotRebooted ==
    \A c \in Conns : sent[c] \in Failures => reboots[c] = 0

\* The pair of addresses in a success report: the new one differs from the
\* old one and was held by the modem after the reboot made for this client.
ReportIsTruthful ==
    \A c \in Conns : sent[c] = "ok" =>
        /\ reboots[c] = 1
        /\ ipBefore[c] \in IPs
        /\ ipAfter[c] \in held[c] \ {ipBefore[c]}

\* The counter behind the connection ids counts exactly the entries of
\* _connection_data: every connection being served, and apart from those only
\* connections whose peer vanished during the clean-up, which nothing removes.
\* CONN_COUNT_FILE says the same, except after a death of the server, until the
\* next connection: starting the server does not write it.
RegistryIsConsistent ==
    /\ counter = Cardinality(tracked)
    /\ tracked # {} \/ crashes = 0 => countFile = counter
    /\ \A c \in Conns : pc[c] \in Serving => c \in tracked
    /\ \A c \in tracked : pc[c] \in Serving \/ (pc[c] = "closed" /\ peer[c] = "reset")

\* A connection whose client hangs up in good order, at whatever point of the
\* reboot, is eventually cleaned up.
ReleasedAfterHangup == \A c \in Conns : peer[c] = "eof" ~> c \notin tracked

\* Each connection's outcome as the client side may rely on it.
OutcomeOf(c) ==
    CASE sent[c] = "ok" -> "succeeded"
      [] sent[c] \in Failures -> "refused"
      [] sent[c] = "nothing" /\ pc[c] \in {"closing", "closed", "dead"} -> "lost"
      [] sent[c] = "nothing" /\ pc[c] \notin {"closing", "closed", "dead"}
            /\ reboots[c] > 0 -> "rebooted"
      [] OTHER -> "open"

Promise == INSTANCE RebootPromise
             WITH outcome <- [c \in Conns |-> OutcomeOf(c)], rebootsDone <- reboots

\* The server keeps the promise of RebootPromise.
KeepsPromise == Promise!PromiseSpec
=============================================================================
