------------------------------ MODULE ChangeIp ------------------------------
(***************************************************************************)
(* Changing a modem's address end to end: the WebSocket endpoint change_ip *)
(* (modems/router_ws.py), the socket client it awaits                      *)
(* (conn_utils.send_data_to_socket_server, sockets/async_client.py), the   *)
(* modem's row in the database, and the socket server of RebootServer.     *)
(*                                                                         *)
(* A request is one WebSocket; it uses the connection of the same name.    *)
(* Requests run concurrently in the event loops of the web workers, so     *)
(* they interleave at every await; what administrators do to the row comes *)
(* from other requests, of this or of another worker.                      *)
(*                                                                         *)
(* The row is found by its id, the modem by the address in the row, and an *)
(* administrator may replace the address: ModemOf[r] is the modem whose    *)
(* address the request r reads.  One that reads another address is another *)
(* member of Conns.                                                        *)
(***************************************************************************)
EXTENDS RebootServer

CONSTANTS
    Rows,        \* the ids of the table modems
    RowOf,       \* RowOf[r]: the id that the request r receives
    Null,        \* SQL NULL
    Given,       \* a time of reboot that an administrator has made up
    MaxEdits     \* bound: what administrators do to the rows

ASSUME EditsAssumption == MaxEdits \in Nat
ASSUME RowsAssumption == RowOf \in [Conns -> Rows] /\ {Null, Given} \cap Conns = {}

VARIABLES
    ws,         \* ws[r]: where the endpoint of request r is
    answer,     \* answer[r]: received_data
    shown,      \* shown[r]: the JSON message that has reached the browser
    row,        \* row[w]: what the row is good for
    address,    \* address[w]: the modem that has the address in the row
    rebooted,   \* rebooted[w]: column `rebooted`, as the request that wrote it
    edits,      \* the administrators' requests so far
    stale       \* history: requests whose row has got another address since

wsVars == <<ws, answer, shown>>
dbVars == <<row, address, rebooted, edits, stale>>
vars == <<serverVars, wsVars, dbVars>>

Running == {"accepted", "connecting", "sending", "waiting", "answering", "stamping"}

\* The endpoint has closed the WebSocket, has found it disconnected, or has
\* ended in an exception.
Ended == {"closed", "disconnected", "raised"}
Answers == Replies \cup {"connectFailed"}

\* A row is usable when the modem is bound to a user that has a proxy login
\* and password; without them the endpoint raises before it connects.
RowStates == {"usable", "unusable", "absent"}

ChangeIpTypeOK ==
    /\ ServerTypeOK
    /\ ws \in [Conns -> {"none"} \cup Running \cup Ended]
    /\ answer \in [Conns -> Answers \cup {"none"}]
    /\ shown \in [Conns -> Answers \cup {"none"}]
    /\ row \in [Rows -> RowStates]
    /\ address \in [Rows -> Modems]
    /\ rebooted \in [Rows -> Conns \cup {Null, Given}]
    /\ edits \in 0 .. MaxEdits
    /\ stale \subseteq Conns

Init ==
    /\ ServerInit
    /\ ws = [r \in Conns |-> "none"]
    /\ answer = [r \in Conns |-> "none"]
    /\ shown = [r \in Conns |-> "none"]
    /\ row \in [Rows -> {"usable", "unusable"}]
    /\ address \in [Rows -> Modems]
    /\ rebooted = [w \in Rows |-> Null]
    /\ edits = 0
    /\ stale = {}

Move(r, from, to) == ws[r] \in from /\ ws' = [ws EXCEPT ![r] = to]

(***************************************************************************)
(* The browser.                                                            *)
(***************************************************************************)

Opens(r) ==
    /\ Move(r, {"none"}, "accepted")
    /\ UNCHANGED <<serverVars, answer, shown, dbVars>>

(***************************************************************************)
(* The endpoint up to its await on the socket server.                      *)
(***************************************************************************)

\* receive_text, the query, and the modem's data: one step, for there is no
\* await between them.
ReceivesId(r) ==
    /\ \/ /\ row[RowOf[r]] = "usable" /\ address[RowOf[r]] = ModemOf[r]
          /\ Move(r, {"accepted"}, "connecting")
       \/ row[RowOf[r]] = "unusable" /\ Move(r, {"accepted"}, "raised")
       \/ row[RowOf[r]] = "absent" /\ Move(r, {"accepted"}, "closed")
    /\ UNCHANGED <<serverVars, answer, shown, dbVars>>

\* The browser goes away first: WebSocketDisconnect from receive_text.
NoId(r) ==
    /\ Move(r, {"accepted"}, "disconnected")
    /\ UNCHANGED <<serverVars, answer, shown, dbVars>>

(***************************************************************************)
(* The socket client.                                                      *)
(***************************************************************************)

Connects(r) ==
    /\ Move(r, {"connecting"}, "sending")
    /\ Accept(r)
    /\ UNCHANGED <<answer, shown, dbVars>>

\* Refused, or no answer within ten seconds.
ConnectFails(r) ==
    /\ Move(r, {"connecting"}, "answering")
    /\ answer' = [answer EXCEPT ![r] = "connectFailed"]
    /\ UNCHANGED <<serverVars, shown, dbVars>>

Sends(r) ==
    /\ Move(r, {"sending"}, "waiting")
    /\ PeerSends(r)
    /\ UNCHANGED <<answer, shown, dbVars>>

LeavesOpen(r) ==
    /\ sent[r] # "nothing"
    /\ Move(r, {"waiting"}, "answering")
    /\ answer' = [answer EXCEPT ![r] = sent[r]]
    /\ UNCHANGED <<serverVars, shown, dbVars>>

AsksAgain(r) ==
    /\ sent[r] \in Failures
    /\ ws[r] = "waiting"
    /\ inbox' = [inbox EXCEPT ![r] = TRUE]
    /\ UNCHANGED <<modemVars, peer, processVars, pc, localVars, sent, registryVars,
                   historyVars, wsVars, dbVars>>

ReadsTooEarly(r) ==
    /\ Move(r, {"waiting"}, "answering")
    /\ answer' = [answer EXCEPT ![r] = sent[r]]
    /\ PeerCloses(r)
    /\ UNCHANGED <<shown, dbVars>>

\* OK or Failed in what was read: the client closes its end and returns it.
ReceivesReply(r) ==
    /\ sent[r] # "nothing"
    /\ Move(r, {"waiting"}, "answering")
    /\ answer' = [answer EXCEPT ![r] = sent[r]]
    /\ PeerCloses(r)
    /\ UNCHANGED <<shown, dbVars>>

EofIsFailure(r) ==
    /\ pc[r] \in {"closing", "closed", "dead"} /\ sent[r] = "nothing"
    /\ Move(r, {"sending", "waiting"}, "answering")
    /\ answer' = [answer EXCEPT ![r] = "rebootFailed"]
    /\ UNCHANGED <<serverVars, shown, dbVars>>

\* End of the stream with nothing read: received_data stays None, the
\* endpoint sends nothing and closes the WebSocket.
ReceivesEof(r) ==
    /\ pc[r] \in {"closing", "closed", "dead"} /\ sent[r] = "nothing"
    /\ Move(r, {"sending", "waiting"}, "closed")
    /\ UNCHANGED <<serverVars, answer, shown, dbVars>>

\* The server's host reset the connection when its process died: the error
\* is not one that send_data_to_socket_server catches.
ReceivesReset(r) ==
    /\ pc[r] = "dead"
    /\ Move(r, {"sending", "waiting"}, "raised")
    /\ UNCHANGED <<serverVars, answer, shown, dbVars>>

\* The transport gives up on the connection (ETIMEDOUT).  It surfaces as the
\* TimeoutError that send_data_to_socket_server takes for a failed connect.
TransportTimesOut(r) ==
    /\ Move(r, {"waiting"}, "answering")
    /\ answer' = [answer EXCEPT ![r] = "connectFailed"]
    /\ PeerResets(r)
    /\ UNCHANGED <<shown, dbVars>>

(***************************************************************************)
(* The endpoint after the await.                                           *)
(***************************************************************************)

StampsAlways(r) ==
    /\ Move(r, {"answering"}, "stamping")
    /\ shown' = [shown EXCEPT ![r] = answer[r]]
    /\ UNCHANGED <<serverVars, answer, dbVars>>

\* A failure is sent and the WebSocket closed; a success is sent and the
\* time of the reboot is recorded next.
SendsAnswer(r) ==
    /\ Move(r, {"answering"}, IF answer[r] = "ok" THEN "stamping" ELSE "closed")
    /\ shown' = [shown EXCEPT ![r] = answer[r]]
    /\ UNCHANGED <<serverVars, answer, dbVars>>

\* The browser has gone away: send_json raises WebSocketDisconnect ...
SendRaises(r) ==
    /\ Move(r, {"answering"}, "disconnected")
    /\ UNCHANGED <<serverVars, answer, shown, dbVars>>

\* ... or the worker has not noticed yet, and the message is lost.
SendsToNobody(r) ==
    /\ answer[r] = "ok"
    /\ Move(r, {"answering"}, "stamping")
    /\ UNCHANGED <<serverVars, answer, shown, dbVars>>

\* setattr and commit: an UPDATE by the id that writes this column only.
\* Without the row the flush raises StaleDataError.
Stamps(r) ==
    /\ \/ /\ row[RowOf[r]] # "absent"
          /\ rebooted' = [rebooted EXCEPT ![RowOf[r]] = r]
          /\ Move(r, {"stamping"}, "closed")
       \/ /\ row[RowOf[r]] = "absent"
          /\ Move(r, {"stamping"}, "raised")
          /\ UNCHANGED rebooted
    /\ UNCHANGED <<serverVars, answer, shown, row, address, edits, stale>>

\* The web worker is killed: its end of the connection closes or resets.
WorkerDies(r) ==
    /\ Move(r, Running, "raised")
    /\ \/ PeerCloses(r)
       \/ PeerResets(r)
       \/ peer[r] \notin {"open", "asked"} /\ UNCHANGED serverVars
    /\ UNCHANGED <<answer, shown, dbVars>>

(***************************************************************************)
(* Administrators.                                                         *)
(***************************************************************************)

Edit(w) ==
    /\ row[w] # "absent" /\ edits < MaxEdits
    /\ edits' = edits + 1
    /\ UNCHANGED <<serverVars, wsVars>>

\* The requests that have read w, or have ended without.
HaveRead(w) == {r \in Conns : RowOf[r] = w /\ ws[r] \notin {"none", "accepted"}}

\* PUT /modems/{ip}: the body replaces every column.  The address may be that
\* of another modem; `rebooted` is None if the caller leaves it out, may repeat
\* what was there, and may be any other time.
UpdatesModem(w) ==
    /\ Edit(w)
    /\ row' \in {[row EXCEPT ![w] = s] : s \in {"usable", "unusable"}}
    /\ rebooted' \in {[rebooted EXCEPT ![w] = t] : t \in {rebooted[w], Null, Given}}
    /\ \E m \in Modems :
        /\ address' = [address EXCEPT ![w] = m]
        /\ stale' = IF m = address[w] THEN stale ELSE stale \cup HaveRead(w)

\* The bound user is deleted: bind_user_id becomes NULL.
UnbindsModem(w) ==
    /\ Edit(w)
    /\ row[w] = "usable"
    /\ row' = [row EXCEPT ![w] = "unusable"]
    /\ UNCHANGED <<address, rebooted, stale>>

DeletesModem(w) ==
    /\ Edit(w)
    /\ row' = [row EXCEPT ![w] = "absent"]
    /\ rebooted' = [rebooted EXCEPT ![w] = Null]
    /\ UNCHANGED <<address, stale>>

(***************************************************************************)
(* The specification.                                                      *)
(***************************************************************************)

\* What the code of the endpoint and of the socket client does for r.
Endpoint(r) ==
    \/ ReceivesId(r) \/ NoId(r)
    \/ Connects(r) \/ ConnectFails(r) \/ Sends(r)
    \/ ReceivesReply(r) \/ ReceivesEof(r) \/ ReceivesReset(r)
    \/ SendsAnswer(r) \/ SendRaises(r) \/ SendsToNobody(r) \/ Stamps(r)

Happens(r) == Opens(r) \/ TransportTimesOut(r) \/ WorkerDies(r)

Administration ==
    \E w \in Rows : UpdatesModem(w) \/ UnbindsModem(w) \/ DeletesModem(w)

Serves == (\E c \in Conns : Handler(c)) /\ UNCHANGED <<wsVars, dbVars>>

Surroundings == Environment /\ UNCHANGED <<wsVars, dbVars>>

Next ==
    \/ \E r \in Conns : Endpoint(r) \/ Happens(r)
    \/ Serves
    \/ Surroundings
    \/ Administration

Safety == Init /\ [][Next]_vars

\* Both event loops run what can go on; the outside world is as in RebootServer.
Spec ==
    /\ Safety
    /\ \A r \in Conns : WF_vars(Endpoint(r))
    /\ Scheduling
    /\ RadioNetwork

(***************************************************************************)
(* What the whole chain guarantees.                                        *)
(***************************************************************************)

\* What the browser shows is true of the modem: a failure reported by the
\* socket server means it was not rebooted for this request, and a success
\* means it was, once, and got the address that is shown.
WhatIsShownIsTrue ==
    \A r \in Conns :
        /\ shown[r] \in Failures => reboots[r] = 0
        /\ shown[r] = "ok" => /\ reboots[r] = 1
                              /\ ipAfter[r] \in held[r] \ {ipBefore[r]}

\* Unless an administrator has made it up, a time in the column `rebooted` goes
\* back to a request that has rebooted a modem and has obtained its new address.
\* The row is that modem's, or has been given another address since the request
\* read it: during the await, or after.
StampMeansRebooted ==
    \A w \in Rows : rebooted[w] \in Conns =>
        LET r == rebooted[w] IN /\ reboots[r] = 1
                                /\ ipAfter[r] \in held[r]
                                /\ address[w] = ModemOf[r] \/ r \in stale

\* No endpoint ends, whichever way, leaving behind a connection that the
\* socket server would keep serving for ever.
NoOrphanConnection ==
    \A r \in Conns : ws[r] \in Ended /\ pc[r] \in Serving \ {"closing"}
                         => peer[r] \in {"eof", "reset"}

\* Every request that reaches the socket client is brought to an end.
EveryRequestEnds == \A r \in Conns : ws[r] = "connecting" ~> ws[r] \in Ended
=============================================================================
