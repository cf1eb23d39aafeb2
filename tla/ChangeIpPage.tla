---------------------------- MODULE ChangeIpPage ----------------------------
(***************************************************************************)
(* The page with the button "Change IP" (static/js/change_ip.js) in front  *)
(* of the chain of ChangeIp.  The page opens a WebSocket when it loads, and*)
(* another one when the button is clicked and the last one is closed; the  *)
(* requests of ChangeIp are the sockets of one page.  The link is valid: on*)
(* the page of another link the button stays disabled.                     *)
(*                                                                         *)
(* The network between browser and web server may fail.  The browser then  *)
(* sees the socket closed; the endpoint, which awaits the socket server,   *)
(* does not notice before it next uses the WebSocket.                      *)
(***************************************************************************)
EXTENDS ChangeIp

CONSTANT MaxCuts        \* bound: sockets cut off from the socket server

ASSUME CutsAssumption == MaxCuts \in Nat

VARIABLES
    sock,       \* sock[r]: readyState of the socket r; "none" before it is created
    current,    \* the variable ws of the script
    reopened,   \* the sockets that a click has created: they send on opening
    idSent,     \* the sockets on which an id is on its way to an endpoint that receives
    handled,    \* the open sockets whose message the page has shown
    lost,       \* the sockets the network has failed
    spinner     \* #loading-spinner is visible

pageVars == <<sock, current, reopened, idSent, handled, lost, spinner>>
chainVars == <<serverVars, wsVars, dbVars>>
allVars == <<chainVars, pageVars>>

PageInit ==
    /\ Init
    /\ current = CHOOSE r \in Conns : TRUE
    /\ sock = [r \in Conns |-> IF r = current THEN "connecting" ELSE "none"]
    /\ reopened = {} /\ idSent = {} /\ handled = {} /\ lost = {}
    /\ spinner = FALSE

\* The sockets whose endpoint awaits the id: it receives once.
Receiving == {r \in Conns : ws[r] = "accepted"}

\* The endpoint and the socket server, or the browser, have parted: the network
\* failed, the web worker died, or the transport of the socket client gave up.
CutOff(r) == r \in lost \/ ws[r] = "raised" \/ answer[r] = "connectFailed"

MayBeCut(r) == Cardinality({q \in Conns \ {r} : CutOff(q)}) < MaxCuts

Ready(r, from, to) == sock[r] \in from /\ sock' = [sock EXCEPT ![r] = to]

(***************************************************************************)
(* The button.                                                             *)
(***************************************************************************)

ClickAlwaysOpens ==
    /\ spinner' = TRUE
    /\ \E q \in Conns :
        /\ Ready(q, {"none"}, "connecting")
        /\ current' = q
        /\ reopened' = reopened \cup {q}
    /\ UNCHANGED <<chainVars, idSent, handled, lost>>

\* The last socket is closed: a new one, which sends the id when it opens.
ClickReopens ==
    /\ spinner' = TRUE
    /\ sock[current] = "closed"
    /\ \E q \in Conns :
        /\ Ready(q, {"none"}, "connecting")
        /\ current' = q
        /\ reopened' = reopened \cup {q}
    /\ UNCHANGED <<chainVars, idSent, handled, lost>>

\* It is open: the id is sent, a second one in vain, for the endpoint receives
\* once.  It is still connecting: nothing is sent, and the spinner turns.
ClickSends ==
    /\ spinner' = TRUE
    /\ sock[current] \in {"connecting", "open"}
    /\ idSent' = idSent \cup {r \in {current} \cap Receiving : sock[r] = "open"}
    /\ UNCHANGED <<chainVars, sock, current, reopened, handled, lost>>

(***************************************************************************)
(* The events of a socket.                                                 *)
(***************************************************************************)

SendsUnasked(r) ==
    /\ ws[r] # "none"
    /\ Ready(r, {"connecting"}, "open")
    /\ idSent' = idSent \cup ({r} \cap Receiving)
    /\ UNCHANGED <<chainVars, current, reopened, handled, lost, spinner>>

\* onopen, once the endpoint has accepted.
OnOpen(r) ==
    /\ ws[r] # "none"
    /\ Ready(r, {"connecting"}, "open")
    /\ idSent' = idSent \cup ({r} \cap reopened \cap Receiving)
    /\ UNCHANGED <<chainVars, current, reopened, handled, lost, spinner>>

\* onmessage: addresses or an error; either way the spinner stops.
OnMessage(r) ==
    /\ sock[r] = "open" /\ shown[r] # "none" /\ r \notin handled
    /\ handled' = handled \cup {r}
    /\ spinner' = FALSE
    /\ UNCHANGED <<chainVars, sock, current, reopened, idSent, lost>>

\* onclose, after the messages before it: the spinner is left as it is, unless
\* the end was no clean one and the browser fires an error first.
OnClose(r) ==
    /\ ws[r] \in Ended /\ (shown[r] # "none" => r \in handled)
    /\ Ready(r, {"connecting", "open"}, "closed")
    /\ spinner' \in IF ws[r] = "raised" THEN {spinner, FALSE} ELSE {spinner}
    /\ handled' = handled \ {r}
    /\ UNCHANGED <<chainVars, current, reopened, idSent, lost>>

\* The web server cannot be reached: onerror.
HandshakeFails(r) ==
    /\ ws[r] = "none"
    /\ Ready(r, {"connecting"}, "closed")
    /\ spinner' = FALSE
    /\ UNCHANGED <<chainVars, current, reopened, idSent, handled, lost>>

NetworkFails(r) ==
    /\ ws[r] # "none" /\ MayBeCut(r)
    /\ Ready(r, {"connecting", "open"}, "closed")
    /\ lost' = lost \cup {r}
    /\ handled' = handled \ {r}
    /\ spinner' \in {spinner, FALSE}
    /\ UNCHANGED <<chainVars, current, reopened, idSent>>

(***************************************************************************)
(* The chain, as this page and its network drive it.                       *)
(***************************************************************************)

PageReceives(r) ==
    /\ \/ ReceivesId(r) /\ r \in idSent
       \/ NoId(r) /\ r \in lost
    /\ idSent' = idSent \ {r}
    /\ UNCHANGED <<sock, current, reopened, handled, lost, spinner>>

PageEndpoint(r) ==
    /\ \/ Connects(r) \/ ConnectFails(r) \/ Sends(r)
       \/ ReceivesReply(r) \/ ReceivesEof(r) \/ ReceivesReset(r)
       \/ SendsAnswer(r) /\ r \notin lost
       \/ (SendRaises(r) \/ SendsToNobody(r)) /\ r \in lost
       \/ Stamps(r)
    /\ UNCHANGED pageVars

PageHappens(r) ==
    /\ \/ Opens(r) /\ sock[r] = "connecting"
       \/ (TransportTimesOut(r) \/ WorkerDies(r)) /\ MayBeCut(r)
    /\ idSent' = idSent \ {r}
    /\ UNCHANGED <<sock, current, reopened, handled, lost, spinner>>

PageNext ==
    \/ ClickReopens \/ ClickSends
    \/ \E r \in Conns :
        \/ OnOpen(r) \/ OnMessage(r) \/ OnClose(r)
        \/ HandshakeFails(r) \/ NetworkFails(r)
        \/ PageReceives(r) \/ PageEndpoint(r) \/ PageHappens(r)
    \/ (Serves \/ Surroundings \/ Administration) /\ UNCHANGED pageVars

PageSafety == PageInit /\ [][PageNext]_allVars

PageSpec ==
    /\ PageSafety
    /\ \A r \in Conns : WF_allVars(PageReceives(r) \/ PageEndpoint(r))
    /\ Scheduling
    /\ RadioNetwork

(***************************************************************************)
(* What the page promises.                                                 *)
(***************************************************************************)

\* However often the button is clicked, the socket server works on one request
\* of the page at a time, unless one of two has been cut off from it.
OneRebootAtATime ==
    \A r, q \in Conns :
        r # q /\ {pc[r], pc[q]} \subseteq {"fetchBefore", "reboot", "fetchAfter", "respond"}
            => CutOff(r) \/ CutOff(q)

\* The modem is rebooted for the page only while its spinner turns: after a
\* click, and before the answer.
RebootsUnderSpinner ==
    [][\A r \in Conns : reboots'[r] > reboots[r] => spinner \/ CutOff(r)]_allVars
=============================================================================
