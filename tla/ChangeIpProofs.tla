--------------------------- MODULE ChangeIpProofs ---------------------------
(***************************************************************************)
(* Theorems about ChangeIp, for any number of requests and modems: the     *)
(* composition implements the socket server's specification, and with what *)
(* RebootServerProofs shows of the server, what a browser is shown is true,*)
(* recorded reboot times are those of real reboots, and no endpoint leaves *)
(* a connection behind.                                                    *)
(*                                                                         *)
(* And about ChangeIpPage, for any number of sockets that a page may open, *)
(* and of failures of the network: the page and its network use the        *)
(* endpoint only as ChangeIp allows, so that what is shown of the chain    *)
(* holds behind the page too; OneRebootAtATime and RebootsUnderSpinner.    *)
(***************************************************************************)
EXTENDS ChangeIpPage, RebootServerProofs

LEMMA ServerStep ==
    ASSUME [Next]_vars
    PROVE  [ServerNext]_serverVars
  BY DEF Next, vars, Endpoint, Happens, Serves, Surroundings, Administration,
      ServerNext, Peer, Environment, Opens, ReceivesId, NoId, Connects, ConnectFails,
      Sends, ReceivesReply, ReceivesEof, ReceivesReset, TransportTimesOut, SendsAnswer,
      SendRaises, SendsToNobody, Stamps, WorkerDies, Edit, UpdatesModem, UnbindsModem,
      DeletesModem

\* The endpoints and their socket clients use the socket server only as the
\* server's own specification allows its peers to.
THEOREM ImplementsServer == Safety => ServerSafety
  <1>1. Init => ServerInit
    BY DEF Init
  <1>2. QED
    BY <1>1, ServerStep, PTL DEF Safety, ServerSafety

(***************************************************************************)
(* The inductive invariant of one request.                                 *)
(***************************************************************************)

\* The server will find the end of r's connection, or never had it.
Detached(r) ==
    pc[r] \in {"absent", "closing", "closed", "dead"} \/ peer[r] \in {"eof", "reset"}

RequestInv(r) ==
    /\ ws[r] \in {"none", "accepted", "connecting"} => pc[r] = "absent"
    /\ ws[r] \in {"sending", "waiting"} => peer[r] # "none"
    /\ ws[r] \in {"answering", "stamping"} \cup Ended => Detached(r)
    /\ answer[r] \in Replies => answer[r] = sent[r]
    /\ shown[r] # "none" => shown[r] = answer[r]
    /\ ws[r] \notin {"answering", "stamping"} \cup Ended => answer[r] = "none"
    /\ ws[r] \notin {"stamping"} \cup Ended => shown[r] = "none"
    /\ ws[r] = "stamping" => answer[r] = "ok"

\* The row of r has the address that r has read, unless it was replaced since.
HasAddress(r) == address[RowOf[r]] = ModemOf[r] \/ r \in stale

AddressInv == \A r \in Conns : ws[r] \in Running \ {"accepted"} => HasAddress(r)

StampInv ==
    \A w \in Rows : rebooted[w] \in Conns =>
        /\ ws[rebooted[w]] \in Ended
        /\ answer[rebooted[w]] = "ok"
        /\ RowOf[rebooted[w]] = w
        /\ HasAddress(rebooted[w])

ClientInv ==
    /\ ChangeIpTypeOK
    /\ \A r \in Conns : RequestInv(r)
    /\ AddressInv
    /\ StampInv

LEMMA ClientTypeInit == Init => ChangeIpTypeOK
  BY ServerTypeInit, EditsAssumption DEF Init, ChangeIpTypeOK, RowStates

LEMMA ClientTypeStep == ChangeIpTypeOK /\ [Next]_vars => ChangeIpTypeOK'
  <1> SUFFICES ASSUME ChangeIpTypeOK, [Next]_vars PROVE ChangeIpTypeOK'
    OBVIOUS
  <1>1. ServerTypeOK'
    BY ServerStep, ServerTypeStep DEF ChangeIpTypeOK
  <1> USE <1>1, EditsAssumption, ModemAssumption
      DEF ChangeIpTypeOK, Answers, RowStates, Running, Ended, Move, wsVars, dbVars
  <1>2. ASSUME NEW r \in Conns, Endpoint(r) PROVE ChangeIpTypeOK'
    <2> USE DEF ReceivesId, NoId, Connects, ConnectFails, Sends, ReceivesReply,
        ReceivesEof, ReceivesReset, SendsAnswer, SendRaises, SendsToNobody
    <2>1. sent[r] \in Answers \cup {"nothing"}
      BY DEF ServerTypeOK
    <2>2. CASE Stamps(r)
      BY <2>2 DEF Stamps
    <2>3. CASE ReceivesId(r)
      BY <2>3
    <2>4. CASE NoId(r) \/ Connects(r) \/ Sends(r) \/ ReceivesEof(r) \/ ReceivesReset(r)
      BY <2>4
    <2>5. CASE ConnectFails(r)
      BY <2>5
    <2>6. CASE ReceivesReply(r)
      BY <2>1, <2>6
    <2>7. CASE SendsAnswer(r)
      BY <2>7
    <2>8. CASE SendRaises(r) \/ SendsToNobody(r)
      BY <2>8
    <2> HIDE DEF ChangeIpTypeOK
    <2>9. QED
      BY <1>2, <2>2, <2>3, <2>4, <2>5, <2>6, <2>7, <2>8 DEF Endpoint
  <1>3. ASSUME NEW r \in Conns, Happens(r) PROVE ChangeIpTypeOK'
    BY <1>3 DEF Happens, Opens, TransportTimesOut, WorkerDies
  <1>4. CASE Serves \/ Surroundings
    BY <1>4 DEF Serves, Surroundings
  <1>5. CASE Administration
    <2>1. ASSUME NEW w \in Rows, UpdatesModem(w) PROVE ChangeIpTypeOK'
      BY <2>1 DEF Edit, UpdatesModem, HaveRead
    <2>2. ASSUME NEW w \in Rows, UnbindsModem(w) \/ DeletesModem(w) PROVE ChangeIpTypeOK'
      BY <2>2 DEF Edit, UnbindsModem, DeletesModem
    <2> HIDE DEF ChangeIpTypeOK
    <2>3. QED
      BY <1>5, <2>1, <2>2 DEF Administration
  <1>6. CASE UNCHANGED vars
    BY <1>6 DEF vars
  <1> HIDE DEF ChangeIpTypeOK
  <1>7. QED
    BY <1>2, <1>3, <1>4, <1>5, <1>6 DEF Next

-----------------------------------------------------------------------------

\* What a step of the server leaves alone: a reply once sent, and the end of
\* a connection once found, for every connection that is not being accepted.
Undisturbed(r) ==
    /\ sent[r] # "nothing" => sent'[r] = sent[r]
    /\ pc[r] = "absent" => pc'[r] = "absent"
    /\ peer[r] # "none" => peer'[r] # "none"
    /\ Detached(r) => Detached(r)'

LEMMA HandlersDisturbNothing ==
    ASSUME ReplyInv, NEW c \in Conns, Handler(c)
    PROVE  \A r \in Conns : Undisturbed(r)
  <1> USE DEF ReplyInv, ServerTypeOK, Goto, Undisturbed, Detached, peerVars
  <1>1. CASE Respond(c)
    BY <1>1 DEF Respond, ConnInv, Reporting
  <1>2. CASE Receive(c) \/ ParseRaises(c) \/ ReadEnds(c) \/ CleanUp(c) \/ CloseRaises(c)
    BY <1>2 DEF Receive, ParseRaises, ReadEnds, CleanUp, CloseRaises
  <1>3. CASE CurlRetries(c) \/ CurlGivesUp(c) \/ FetchedBefore(c) \/ NoneBefore(c)
             \/ FetchedAfter(c) \/ FetchedSame(c) \/ NoneAfter(c)
    BY <1>3 DEF CurlRetries, CurlGivesUp, FetchedBefore, NoneBefore, FetchedAfter,
        FetchedSame, NoneAfter
  <1>4. CASE RebootAccepted(c) \/ RebootNotOK(c) \/ RebootErrorString(c)
             \/ RebootRaises(c) \/ RebootsExhausted(c) \/ DrainRaises(c)
    BY <1>4 DEF RebootAccepted, RebootNotOK, RebootErrorString, RebootRaises, Calls,
        RebootsExhausted, DrainRaises
  <1>5. QED
    BY <1>1, <1>2, <1>3, <1>4 DEF Handler

LEMMA OthersDisturbNothing ==
    ASSUME ReplyInv,
           \/ Environment
           \/ UNCHANGED serverVars
           \/ \E c \in Conns : PeerSends(c) \/ PeerCloses(c) \/ PeerResets(c)
    PROVE  \A r \in Conns : Undisturbed(r)
  BY DEF ReplyInv, ServerTypeOK, Undisturbed, Detached, Environment, LinkBack, LinkDrops,
      ServerDies, ServerStarts, PeerSends, PeerCloses, PeerResets, peerVars, serverVars,
      Serving

LEMMA AcceptDisturbsOne ==
    ASSUME ReplyInv, NEW c \in Conns, Accept(c)
    PROVE  /\ UNCHANGED sent
           /\ \A r \in Conns \ {c} : Undisturbed(r)
  BY DEF ReplyInv, ServerTypeOK, Undisturbed, Detached, Accept, Goto

-----------------------------------------------------------------------------

LEMMA ClientInit == Init => ClientInv
  BY ClientTypeInit, RowsAssumption
  DEF Init, ServerInit, ClientInv, RequestInv, AddressInv, StampInv, Detached, Replies,
      Running, Ended

\* What one step of the system does to the requests other than r.
LEMMA Frame ==
    ASSUME ClientInv, NEW r \in Conns, Undisturbed(r),
           UNCHANGED <<ws[r], answer[r], shown[r]>>
    PROVE  RequestInv(r)'
  <1> SUFFICES ASSUME RequestInv(r) PROVE RequestInv(r)'
    BY DEF ClientInv
  <1>1. (answer[r] \in Replies => answer[r] = sent[r])'
    BY DEF Undisturbed, RequestInv, Replies
  <1>2. QED
    BY <1>1 DEF Undisturbed, RequestInv

LEMMA AddressStep == ClientInv /\ [Next]_vars => AddressInv'
  <1> SUFFICES ASSUME ClientInv, [Next]_vars PROVE AddressInv'
    OBVIOUS
  <1>0. ChangeIpTypeOK /\ AddressInv
    BY DEF ClientInv
  <1> USE <1>0 DEF AddressInv, HasAddress, Running, Move
  <1>1. ASSUME NEW r \in Conns, Endpoint(r) \/ Happens(r) PROVE AddressInv'
    <2>1. UNCHANGED <<address, stale>>
      BY <1>1 DEF Endpoint, Happens, Opens, ReceivesId, NoId, Connects, ConnectFails,
          Sends, ReceivesReply, ReceivesEof, ReceivesReset, TransportTimesOut,
          SendsAnswer, SendRaises, SendsToNobody, Stamps, WorkerDies, dbVars
    <2>2. \A q \in Conns : ws'[q] = ws[q] \/ q = r
      BY <1>1 DEF ChangeIpTypeOK, Endpoint, Happens, Opens, ReceivesId, NoId, Connects,
          ConnectFails, Sends, ReceivesReply, ReceivesEof, ReceivesReset,
          TransportTimesOut, SendsAnswer, SendRaises, SendsToNobody, Stamps, WorkerDies
    <2>3. ws'[r] \in Running \ {"accepted"} =>
              ws[r] \in Running \ {"accepted"} \/ address[RowOf[r]] = ModemOf[r]
      BY <1>1 DEF ChangeIpTypeOK, Endpoint, Happens, Opens, ReceivesId, NoId, Connects,
          ConnectFails, Sends, ReceivesReply, ReceivesEof, ReceivesReset,
          TransportTimesOut, SendsAnswer, SendRaises, SendsToNobody, Stamps, WorkerDies
    <2>4. QED
      BY <2>1, <2>2, <2>3
  <1>2. CASE Serves \/ Surroundings \/ UNCHANGED vars
    BY <1>2 DEF Serves, Surroundings, vars, wsVars, dbVars
  <1>3. ASSUME NEW w \in Rows, UpdatesModem(w) PROVE AddressInv'
    BY <1>3, RowsAssumption DEF UpdatesModem, Edit, HaveRead, ChangeIpTypeOK, wsVars
  <1>4. ASSUME NEW w \in Rows, UnbindsModem(w) \/ DeletesModem(w) PROVE AddressInv'
    BY <1>4 DEF UnbindsModem, DeletesModem, Edit, wsVars
  <1>5. QED
    BY <1>1, <1>2, <1>3, <1>4 DEF Next, Administration

LEMMA EndpointStep ==
    ASSUME ClientInv, ReplyInv, NEW r \in Conns, Endpoint(r) \/ Happens(r)
    PROVE  /\ \A q \in Conns : RequestInv(q)'
           /\ StampInv'
  <1> USE DEF Move
  <1>0. ChangeIpTypeOK /\ ServerTypeOK /\ RequestInv(r) /\ AddressInv /\ StampInv
    BY DEF ClientInv, ReplyInv
  <1>1. \A q \in Conns \ {r} : UNCHANGED <<ws[q], answer[q], shown[q]>>
    BY <1>0 DEF Endpoint, Happens, Opens, ReceivesId, NoId, Connects, ConnectFails, Sends,
        ReceivesReply, ReceivesEof, ReceivesReset, TransportTimesOut, SendsAnswer,
        SendRaises, SendsToNobody, Stamps, WorkerDies, ChangeIpTypeOK, wsVars
  <1>2. /\ \A q \in Conns \ {r} : Undisturbed(q)
        /\ ~Connects(r) => Undisturbed(r)
    <2>1. CASE Connects(r)
      BY <2>1, AcceptDisturbsOne DEF Connects
    <2>2. CASE ~Connects(r)
      <3>1. \/ UNCHANGED serverVars
            \/ PeerSends(r) \/ PeerCloses(r) \/ PeerResets(r)
        BY <2>2 DEF Endpoint, Happens, Opens, ReceivesId, NoId, ConnectFails, Sends,
            ReceivesReply, ReceivesEof, ReceivesReset, TransportTimesOut, SendsAnswer,
            SendRaises, SendsToNobody, Stamps, WorkerDies
      <3>2. QED
        BY <3>1, OthersDisturbNothing
    <2>3. QED
      BY <2>1, <2>2
  <1>3. \A q \in Conns \ {r} : RequestInv(q)'
    BY <1>1, <1>2, Frame
  <1> USE DEF RequestInv, Detached, Ended, Running, Replies
  <1>4. CASE Connects(r)
    <2>1. RequestInv(r)'
      BY <1>0, <1>4 DEF Connects, Accept, ChangeIpTypeOK, ServerTypeOK
    <2>2. UNCHANGED <<rebooted, answer, address, stale>> /\ ws[r] = "connecting"
      BY <1>4 DEF Connects, dbVars
    <2>3. StampInv'
      BY <1>0, <1>1, <2>2 DEF StampInv, HasAddress, ChangeIpTypeOK
    <2>4. QED
      BY <1>3, <2>1, <2>3
  <1>5. CASE Stamps(r)
    <2>1. RequestInv(r)'
      BY <1>0, <1>2, <1>5 DEF Stamps, Connects, Undisturbed, ChangeIpTypeOK, serverVars
    <2>2. StampInv'
      BY <1>0, <1>5, RowsAssumption
      DEF Stamps, AddressInv, StampInv, HasAddress, ChangeIpTypeOK
    <2>3. QED
      BY <1>3, <2>1, <2>2
  <1>6. CASE ~Connects(r) /\ ~Stamps(r)
    <2>1. UNCHANGED <<rebooted, address, stale>> /\ ws[r] \notin Ended
      BY <1>6 DEF Endpoint, Happens, Opens, ReceivesId, NoId, ConnectFails, Sends,
            ReceivesReply, ReceivesEof, ReceivesReset, TransportTimesOut, SendsAnswer,
            SendRaises, SendsToNobody, WorkerDies, dbVars
    <2>2. StampInv'
      BY <1>0, <1>1, <2>1 DEF StampInv, HasAddress, ChangeIpTypeOK
    <2>3. RequestInv(r)'
      <3> USE <1>0, <1>2, <1>6 DEF Undisturbed, ChangeIpTypeOK
      <3>1. CASE Opens(r) \/ ReceivesId(r) \/ NoId(r) \/ Sends(r)
        BY <3>1 DEF Opens, ReceivesId, NoId, Sends, PeerSends
      <3>2. CASE ConnectFails(r)
        BY <3>2 DEF ConnectFails
      <3>3. CASE ReceivesReply(r)
        BY <3>3 DEF ReceivesReply, PeerCloses, ServerTypeOK
      <3>4. CASE ReceivesEof(r) \/ ReceivesReset(r)
        BY <3>4 DEF ReceivesEof, ReceivesReset
      <3>5. CASE TransportTimesOut(r)
        BY <3>5 DEF TransportTimesOut, PeerResets, ServerTypeOK
      <3>6. CASE SendsAnswer(r)
        BY <3>6 DEF SendsAnswer
      <3>7. CASE SendRaises(r) \/ SendsToNobody(r)
        BY <3>7 DEF SendRaises, SendsToNobody
      <3>8. CASE WorkerDies(r)
        BY <3>8 DEF WorkerDies, PeerCloses, PeerResets, ServerTypeOK
      <3>9. QED
        BY <3>1, <3>2, <3>3, <3>4, <3>5, <3>6, <3>7, <3>8 DEF Endpoint, Happens
    <2>4. QED
      BY <1>3, <2>2, <2>3
  <1>7. QED
    BY <1>4, <1>5, <1>6

LEMMA ClientStep == ClientInv /\ ReplyInv /\ [Next]_vars => ClientInv'
  <1> SUFFICES ASSUME ClientInv, ReplyInv, [Next]_vars
               PROVE  (\A q \in Conns : RequestInv(q)') /\ StampInv'
    BY ClientTypeStep, AddressStep DEF ClientInv
  <1>1. ASSUME NEW r \in Conns, Endpoint(r) \/ Happens(r)
        PROVE  (\A q \in Conns : RequestInv(q)') /\ StampInv'
    BY <1>1, EndpointStep
  <1>2. CASE Serves \/ Surroundings \/ UNCHANGED vars
    <2>1. UNCHANGED wsVars /\ UNCHANGED dbVars
      BY <1>2 DEF Serves, Surroundings, vars, dbVars
    <2>2. \A q \in Conns : Undisturbed(q)
      BY <1>2, HandlersDisturbNothing, OthersDisturbNothing
      DEF Serves, Surroundings, vars
    <2>3. \A q \in Conns : RequestInv(q)'
      BY <2>1, <2>2, Frame DEF wsVars
    <2>4. QED
      BY <2>1, <2>3 DEF ClientInv, StampInv, HasAddress, wsVars, dbVars
  <1>3. CASE Administration
    <2>1. UNCHANGED <<serverVars, wsVars>>
      BY <1>3 DEF Administration, Edit, UpdatesModem, UnbindsModem, DeletesModem
    <2>2. \A q \in Conns : RequestInv(q)'
      BY <2>1, OthersDisturbNothing, Frame DEF wsVars
    <2>3. StampInv'
      <3> USE RowsAssumption
          DEF ClientInv, StampInv, HasAddress, ChangeIpTypeOK, wsVars, Ended
      <3>1. ASSUME NEW w \in Rows, UpdatesModem(w) PROVE StampInv'
        BY <3>1 DEF UpdatesModem, Edit, HaveRead
      <3>2. ASSUME NEW w \in Rows, UnbindsModem(w) \/ DeletesModem(w) PROVE StampInv'
        BY <3>2 DEF UnbindsModem, DeletesModem, Edit
      <3>3. QED
        BY <1>3, <3>1, <3>2 DEF Administration
    <2>4. QED
      BY <2>2, <2>3
  <1>4. QED
    BY <1>1, <1>2, <1>3 DEF Next

LEMMA ClientInvariant == Safety => [](ClientInv /\ ReplyInv)
  <1>1. Safety => []ReplyInv
    BY ImplementsServer, ReplyInvariant, PTL
  <1>2. QED
    BY <1>1, ClientInit, ClientStep, PTL DEF Safety

\* Type correctness of the composition.
THEOREM ChangeIpTypeCorrect == Safety => []ChangeIpTypeOK
  <1>1. ClientInv => ChangeIpTypeOK
    BY DEF ClientInv
  <1>2. QED
    BY <1>1, ClientInvariant, PTL

\* What change_ip sends to the browser is true of the modem: a failure the
\* socket server reported means it was not rebooted for this request, and a
\* success that it was, once, and that it held the address that is shown.
THEOREM BrowserIsToldTheTruth == Safety => []WhatIsShownIsTrue
  <1>1. ClientInv /\ ReplyInv => WhatIsShownIsTrue
    BY DEF ClientInv, ReplyInv, RequestInv, ConnInv, Reporting, WhatIsShownIsTrue,
        Replies, Failures
  <1>2. QED
    BY <1>1, ClientInvariant, PTL

\* A time in the column `rebooted` is made up by an administrator, or goes back
\* to a request that has rebooted the modem whose address it read in the row and
\* has obtained its new address; the row has that modem's address still, unless
\* an administrator has replaced it since.
THEOREM StampsAreReal == Safety => []StampMeansRebooted
  <1>1. ClientInv /\ ReplyInv => StampMeansRebooted
    <2> SUFFICES ASSUME ClientInv, ReplyInv, NEW w \in Rows, NEW r \in Conns,
                        rebooted[w] = r
                 PROVE  /\ reboots[r] = 1
                        /\ ipAfter[r] \in held[r]
                        /\ address[w] = ModemOf[r] \/ r \in stale
      BY DEF StampMeansRebooted
    <2>1. answer[r] = "ok" /\ RowOf[r] = w /\ HasAddress(r)
      BY DEF ClientInv, StampInv
    <2>2. sent[r] = "ok"
      BY <2>1 DEF ClientInv, RequestInv, Replies
    <2>3. QED
      BY <2>1, <2>2 DEF ReplyInv, ConnInv, Reporting, HasAddress
  <1>2. QED
    BY <1>1, ClientInvariant, PTL

\* An endpoint that has ended, whatever ended it, has left no connection that
\* the socket server would go on serving.
THEOREM NoConnectionLeftBehind == Safety => []NoOrphanConnection
  <1>1. ClientInv /\ ReplyInv => NoOrphanConnection
    BY DEF ClientInv, RequestInv, Detached, NoOrphanConnection, Serving
  <1>2. QED
    BY <1>1, ClientInvariant, PTL

(***************************************************************************)
(* The page.                                                               *)
(***************************************************************************)

LEMMA ChainStep ==
    ASSUME [PageNext]_allVars
    PROVE  [Next]_vars
  BY DEF PageNext, allVars, chainVars, vars, Next, Endpoint, Happens, ClickReopens,
      ClickSends, OnOpen, OnMessage, OnClose, HandshakeFails, NetworkFails,
      PageReceives, PageEndpoint, PageHappens

\* The page in front of the endpoint, and the network between them, only do
\* what ChangeIp lets any browser do.
THEOREM ImplementsChain == PageSafety => Safety
  <1>1. PageInit => Init
    BY DEF PageInit
  <1>2. QED
    BY <1>1, ChainStep, PTL DEF PageSafety, Safety

\* Whatever is clicked, and whoever fails or vanishes between the page and the
\* socket server, each connection of the page gets what RebootPromise says.
THEOREM PageKeepsPromise == PageSafety => KeepsPromise
  BY ImplementsChain, ImplementsServer, ServerKeepsPromise, PTL

\* On the page, too, an address or an error that the browser is shown is true
\* of the modem.
THEOREM PageIsToldTheTruth == PageSafety => []WhatIsShownIsTrue
  BY ImplementsChain, BrowserIsToldTheTruth, PTL

(***************************************************************************)
(* The inductive invariant of one socket.                                  *)
(***************************************************************************)

Working == {"fetchBefore", "reboot", "fetchAfter", "respond"}

\* The server does nothing more for r than to wait for its end.
AtRest(r) ==
    pc[r] \in {"absent", "closing", "closed", "dead"} \/ (pc[r] = "reading" /\ ~inbox[r])

\* An id is to be sent on r, is on its way, or has not been answered.
Awaits(r) ==
    \/ sock[r] = "connecting" /\ r \in reopened
    \/ r \in idSent
    \/ ws[r] \in {"connecting", "sending", "waiting"}

SocketInv(r) ==
    /\ sock[r] = "none" => ws[r] = "none"
    /\ sock[r] \in {"connecting", "open"} => r = current
    /\ sock[r] = "closed" => ws[r] \in {"none"} \cup Ended \/ r \in lost
    /\ r \in idSent => ws[r] = "accepted"
    /\ ~CutOff(r) /\ ws[r] \in {"answering", "stamping"} \cup Ended => AtRest(r)
    /\ ~CutOff(r) /\ Awaits(r) => spinner

PageTypeOK ==
    /\ sock \in [Conns -> {"none", "connecting", "open", "closed"}]
    /\ reopened \subseteq Conns
    /\ idSent \subseteq Conns
    /\ lost \subseteq Conns
    /\ spinner \in BOOLEAN

PageInv == PageTypeOK /\ \A r \in Conns : SocketInv(r)

LEMMA PageInvInit == PageInit => PageInv
  <1> SUFFICES ASSUME PageInit PROVE PageInv
    OBVIOUS
  <1>1. PageTypeOK
    BY DEF PageInit, PageTypeOK
  <1>2. ASSUME NEW r \in Conns PROVE SocketInv(r)
    <2>1. ws[r] = "none" /\ sock[r] \in {"connecting", "none"} /\ idSent = {}
      BY DEF PageInit, Init
    <2>2. sock[r] = "connecting" => r = current /\ r \notin reopened
      BY DEF PageInit
    <2>3. QED
      BY <2>1, <2>2 DEF SocketInv, Awaits, Ended
  <1>3. QED
    BY <1>1, <1>2 DEF PageInv

LEMMA PageTypeStep == PageTypeOK /\ [PageNext]_allVars => PageTypeOK'
  <1> SUFFICES ASSUME PageTypeOK, [PageNext]_allVars PROVE PageTypeOK'
    OBVIOUS
  <1> USE DEF PageTypeOK, Ready, pageVars
  <1>1. CASE ClickReopens \/ ClickSends
    BY <1>1 DEF ClickReopens, ClickSends, Receiving
  <1>2. ASSUME NEW r \in Conns, OnOpen(r) \/ OnMessage(r) \/ OnClose(r)
        PROVE  PageTypeOK'
    BY <1>2 DEF OnOpen, OnMessage, OnClose
  <1>3. ASSUME NEW r \in Conns, HandshakeFails(r) \/ NetworkFails(r)
        PROVE  PageTypeOK'
    BY <1>3 DEF HandshakeFails, NetworkFails
  <1>4. ASSUME NEW r \in Conns, PageReceives(r) \/ PageEndpoint(r) \/ PageHappens(r)
        PROVE  PageTypeOK'
    BY <1>4 DEF PageReceives, PageEndpoint, PageHappens
  <1>5. CASE UNCHANGED pageVars
    BY <1>5
  <1> HIDE DEF PageTypeOK
  <1>6. QED
    BY <1>1, <1>2, <1>3, <1>4, <1>5 DEF PageNext, allVars

-----------------------------------------------------------------------------

\* What the page does by itself: the chain does not move.
LEMMA PageMoves ==
    ASSUME PageInv, ClientInv, UNCHANGED chainVars,
           \/ ClickReopens \/ ClickSends
           \/ \E r \in Conns : OnOpen(r) \/ OnMessage(r) \/ OnClose(r)
                               \/ HandshakeFails(r) \/ NetworkFails(r)
    PROVE  \A q \in Conns : SocketInv(q)'
  <1> SUFFICES ASSUME NEW q \in Conns PROVE SocketInv(q)'
    OBVIOUS
  <1>1. UNCHANGED <<ws, answer, shown, pc, inbox>>
    BY DEF chainVars, serverVars, wsVars, peerVars
  <1>2. SocketInv(q) /\ PageTypeOK
    BY DEF PageInv
  <1> USE <1>1, <1>2 DEF SocketInv, CutOff, AtRest, Awaits, Ended, Ready, PageTypeOK
  <1>3. CASE ClickReopens
    BY <1>3 DEF ClickReopens, PageInv
  <1>4. CASE ClickSends
    BY <1>4 DEF ClickSends, Receiving
  <1>5. ASSUME NEW r \in Conns, OnOpen(r) PROVE SocketInv(q)'
    BY <1>5 DEF OnOpen, Receiving
  <1>6. ASSUME NEW r \in Conns, OnMessage(r) PROVE SocketInv(q)'
    <2>1. r = current /\ ws[r] \in {"stamping"} \cup Ended
      BY <1>6 DEF OnMessage, PageInv, ClientInv, RequestInv
    <2>2. ~CutOff(q) => ~Awaits(q)
      BY <1>6, <2>1 DEF OnMessage
    <2>3. QED
      BY <1>6, <2>2 DEF OnMessage
  <1>7. ASSUME NEW r \in Conns, OnClose(r) PROVE SocketInv(q)'
    <2>1. r = current
      BY <1>7 DEF OnClose, PageInv
    <2>2. CASE q = r
      BY <1>7, <2>2 DEF OnClose
    <2>3. CASE q # r
      BY <1>7, <2>1, <2>3 DEF OnClose
    <2>4. QED
      BY <2>2, <2>3
  <1>8. ASSUME NEW r \in Conns, HandshakeFails(r) PROVE SocketInv(q)'
    <2>1. r = current
      BY <1>8 DEF HandshakeFails, PageInv
    <2>2. QED
      BY <1>8, <2>1 DEF HandshakeFails
  <1>9. ASSUME NEW r \in Conns, NetworkFails(r) PROVE SocketInv(q)'
    <2>1. r = current
      BY <1>9 DEF NetworkFails, PageInv
    <2>2. QED
      BY <1>9, <2>1 DEF NetworkFails
  <1>10. QED
    BY <1>3, <1>4, <1>5, <1>6, <1>7, <1>8, <1>9

\* A request that is at rest stays so, unless its peer accepts or asks anew.
StaysAtRest(r) == AtRest(r) => AtRest(r)'

LEMMA ServerLeavesAtRest ==
    ASSUME ReplyInv, Serves \/ Surroundings, NEW r \in Conns
    PROVE  StaysAtRest(r)
  <1> USE DEF StaysAtRest, AtRest, ReplyInv, ServerTypeOK, Goto, peerVars, Serving
  <1>1. ASSUME NEW c \in Conns, Handler(c) PROVE StaysAtRest(r)
    <2>1. CASE Receive(c) \/ ParseRaises(c) \/ ReadEnds(c) \/ CleanUp(c) \/ CloseRaises(c)
      BY <2>1 DEF Receive, ParseRaises, ReadEnds, CleanUp, CloseRaises
    <2>2. CASE CurlRetries(c) \/ CurlGivesUp(c) \/ FetchedBefore(c) \/ NoneBefore(c)
               \/ FetchedAfter(c) \/ FetchedSame(c) \/ NoneAfter(c)
      BY <2>2 DEF CurlRetries, CurlGivesUp, FetchedBefore, NoneBefore, FetchedAfter,
          FetchedSame, NoneAfter, Fetching
    <2>3. CASE RebootAccepted(c) \/ RebootNotOK(c) \/ RebootErrorString(c)
               \/ RebootRaises(c) \/ RebootsExhausted(c) \/ Respond(c) \/ DrainRaises(c)
      BY <2>3 DEF RebootAccepted, RebootNotOK, RebootErrorString, RebootRaises, Calls,
          RebootsExhausted, Respond, DrainRaises
    <2>4. QED
      BY <1>1, <2>1, <2>2, <2>3 DEF Handler
  <1>2. CASE Environment
    BY <1>2 DEF Environment, LinkBack, LinkDrops, ServerDies, ServerStarts
  <1>3. QED
    BY <1>1, <1>2 DEF Serves, Surroundings

LEMMA PeersLeaveAtRest ==
    ASSUME ReplyInv, NEW c \in Conns,
           UNCHANGED serverVars \/ PeerCloses(c) \/ PeerResets(c),
           NEW r \in Conns
    PROVE  StaysAtRest(r)
  BY DEF StaysAtRest, AtRest, ReplyInv, ServerTypeOK, PeerCloses, PeerResets, serverVars,
      peerVars

-----------------------------------------------------------------------------

\* What a step of the chain does to the sockets other than its own.
LEMMA OtherSockets ==
    ASSUME PageInv, NEW q \in Conns, StaysAtRest(q),
           UNCHANGED <<ws[q], answer[q], sock, current, reopened, lost, spinner>>,
           idSent' \subseteq idSent
    PROVE  SocketInv(q)'
  <1>1. SocketInv(q)
    BY DEF PageInv
  <1>2. CutOff(q)' = CutOff(q)
    BY DEF CutOff
  <1>3. Awaits(q)' => Awaits(q)
    BY DEF Awaits
  <1>4. QED
    BY <1>1, <1>2, <1>3 DEF SocketInv, StaysAtRest

\* A step of the chain for the request r, with what the page has to do with it.
ChainActs(r) ==
    \/ ReceivesId(r) /\ r \in idSent
    \/ (NoId(r) \/ SendRaises(r) \/ SendsToNobody(r)) /\ r \in lost
    \/ Opens(r) /\ sock[r] = "connecting"
    \/ Connects(r) \/ ConnectFails(r) \/ Sends(r)
    \/ ReceivesReply(r) \/ ReceivesEof(r) \/ ReceivesReset(r)
    \/ SendsAnswer(r) \/ Stamps(r)
    \/ TransportTimesOut(r) \/ WorkerDies(r)

LEMMA StepsOfTheChain ==
    ASSUME NEW r \in Conns, PageTypeOK,
           PageReceives(r) \/ PageEndpoint(r) \/ PageHappens(r)
    PROVE  /\ ChainActs(r)
           /\ UNCHANGED <<sock, current, reopened, lost, spinner>>
           /\ idSent' \subseteq idSent
           /\ ws[r] = "accepted" => r \notin idSent'
  <1>1. CASE PageReceives(r)
    BY <1>1 DEF PageReceives, ChainActs
  <1>2. CASE PageEndpoint(r)
    <2>1. ws[r] # "accepted"
      BY <1>2 DEF PageEndpoint, Move, Connects, ConnectFails, Sends, ReceivesReply,
          ReceivesEof, ReceivesReset, SendsAnswer, SendRaises, SendsToNobody, Stamps
    <2>2. QED
      BY <1>2, <2>1 DEF PageEndpoint, ChainActs, pageVars
  <1>3. CASE PageHappens(r)
    BY <1>3 DEF PageHappens, ChainActs
  <1>4. QED
    BY <1>1, <1>2, <1>3

\* Once the endpoint and the socket server have parted, they have for good.
LEMMA CutOffForGood ==
    ASSUME NEW r \in Conns, ClientInv, ChainActs(r), UNCHANGED lost, CutOff(r)
    PROVE  CutOff(r)'
  <1>1. RequestInv(r) /\ ChangeIpTypeOK
    BY DEF ClientInv
  <1>2. CASE r \in lost
    BY <1>2 DEF CutOff
  <1>3. CASE ws[r] = "raised"
    BY <1>3 DEF ChainActs, Move, ReceivesId, NoId, SendRaises, SendsToNobody, Opens,
        Connects, ConnectFails, Sends, ReceivesReply, ReceivesEof, ReceivesReset,
        SendsAnswer, Stamps, TransportTimesOut, WorkerDies, Running
  <1>4. CASE answer[r] = "connectFailed"
    <2>1. ws[r] \in {"answering", "stamping"} \cup Ended
      BY <1>1, <1>4 DEF RequestInv
    <2>2. UNCHANGED answer
      BY <2>1 DEF ChainActs, Move, ReceivesId, NoId, SendRaises, SendsToNobody, Opens,
        Connects, ConnectFails, Sends, ReceivesReply, ReceivesEof, ReceivesReset,
        SendsAnswer, Stamps, TransportTimesOut, WorkerDies, Running, Ended
    <2>3. QED
      BY <1>4, <2>2 DEF CutOff
  <1>5. QED
    BY <1>2, <1>3, <1>4 DEF CutOff

\* Once the server has sent a reply it has nothing more to do for r.
LEMMA AnsweredIsAtRest ==
    ASSUME NEW r \in Conns, ReplyInv, sent[r] # "nothing"
    PROVE  AtRest(r)
  BY DEF ReplyInv, ServerTypeOK, ConnInv, BeforeReboot, AfterReboot, Reporting, Quiet,
      Untouched, AtRest, PcValues, Serving

LEMMA OnlyRebootsReboot ==
    ASSUME ReplyInv, [ServerNext]_serverVars, NEW r \in Conns, reboots'[r] > reboots[r]
    PROVE  pc[r] = "reboot"
  <1> USE DEF ReplyInv, ServerTypeOK, historyVars
  <1>1. CASE UNCHANGED reboots
    BY <1>1
  <1>2. ASSUME NEW c \in Conns, RebootAccepted(c) \/ RebootRaises(c)
        PROVE  pc[r] = "reboot"
    BY <1>2, <1>1 DEF RebootAccepted, RebootRaises, Calls, TakesReboot
  <1>3. QED
    BY <1>1, <1>2 DEF ServerNext, serverVars, Peer, Environment, Accept, PeerSends,
        PeerCloses, PeerResets, LinkBack, LinkDrops, ServerDies, ServerStarts, Handler,
        Receive, ParseRaises, ReadEnds, CleanUp, CloseRaises, CurlRetries, CurlGivesUp,
        FetchedBefore, NoneBefore, FetchedAfter, FetchedSame, NoneAfter, RebootNotOK,
        RebootErrorString, RebootsExhausted, Respond, DrainRaises

LEMMA OwnSocket ==
    ASSUME NEW r \in Conns, PageInv, ClientInv, ReplyInv, ChainActs(r),
           UNCHANGED <<sock, current, reopened, lost, spinner>>,
           idSent' \subseteq idSent, ws[r] = "accepted" => r \notin idSent'
    PROVE  SocketInv(r)'
  <1>1. SocketInv(r) /\ PageTypeOK /\ RequestInv(r) /\ ChangeIpTypeOK
    BY DEF PageInv, ClientInv
  <1>2. CutOff(r) => CutOff(r)'
    BY CutOffForGood
  <1>3. ~Connects(r) /\ ~Sends(r) => StaysAtRest(r)
    <2>1. CASE UNCHANGED serverVars \/ PeerCloses(r) \/ PeerResets(r)
      BY <2>1, PeersLeaveAtRest
    <2>2. QED
      BY <2>1 DEF ChainActs, ReceivesId, NoId, SendRaises, SendsToNobody, Opens,
          ConnectFails, ReceivesReply, ReceivesEof, ReceivesReset, SendsAnswer, Stamps,
          TransportTimesOut, WorkerDies
  <1>4. r \notin idSent'
    BY <1>1 DEF SocketInv
  <1> USE <1>1, <1>2, <1>3, <1>4
      DEF SocketInv, Awaits, Move, Ended, ChangeIpTypeOK, PageTypeOK
  <1>5. CASE ReceivesId(r) /\ r \in idSent
    <2>1. spinner \/ CutOff(r)
      BY <1>5
    <2>2. AtRest(r)'
      BY <1>5 DEF ReceivesId, RequestInv, AtRest, serverVars
    <2>3. QED
      BY <1>5, <2>1, <2>2 DEF ReceivesId
  <1>6. CASE (NoId(r) \/ SendRaises(r) \/ SendsToNobody(r)) /\ r \in lost
    <2>1. CutOff(r)'
      BY <1>6 DEF CutOff
    <2>2. QED
      BY <1>6, <2>1 DEF NoId, SendRaises, SendsToNobody
  <1>7. CASE Opens(r) /\ sock[r] = "connecting"
    BY <1>7 DEF Opens
  <1>8. CASE Connects(r) \/ Sends(r)
    BY <1>8 DEF Connects, Sends
  <1>9. CASE ConnectFails(r) \/ TransportTimesOut(r)
    <2>1. CutOff(r)'
      BY <1>9 DEF CutOff, ConnectFails, TransportTimesOut
    <2>2. QED
      BY <1>9, <2>1 DEF ConnectFails, TransportTimesOut
  <1>10. CASE ReceivesReply(r)
    <2>1. AtRest(r)'
      BY <1>10, AnsweredIsAtRest DEF ReceivesReply, StaysAtRest, Connects, Sends
    <2>2. QED
      BY <1>10, <2>1 DEF ReceivesReply
  <1>11. CASE ReceivesEof(r)
    BY <1>11 DEF ReceivesEof, AtRest, serverVars
  <1>12. CASE ReceivesReset(r) \/ WorkerDies(r)
    <2>1. CutOff(r)'
      BY <1>12 DEF CutOff, ReceivesReset, WorkerDies
    <2>2. QED
      BY <1>12, <2>1 DEF ReceivesReset, WorkerDies, Running
  <1>13. CASE SendsAnswer(r)
    BY <1>13 DEF SendsAnswer, StaysAtRest, Connects, Sends
  <1>14. CASE Stamps(r)
    BY <1>14 DEF Stamps, StaysAtRest, Connects, Sends
  <1>15. QED
    BY <1>5, <1>6, <1>7, <1>8, <1>9, <1>10, <1>11, <1>12, <1>13, <1>14 DEF ChainActs

-----------------------------------------------------------------------------

LEMMA PageInvStep ==
    ASSUME PageInv, ClientInv, ReplyInv, [PageNext]_allVars
    PROVE  PageInv'
  <1> SUFFICES ASSUME NEW q \in Conns PROVE SocketInv(q)'
    BY PageTypeStep DEF PageInv
  <1>1. CASE \/ ClickReopens \/ ClickSends
             \/ \E r \in Conns : OnOpen(r) \/ OnMessage(r) \/ OnClose(r)
                                 \/ HandshakeFails(r) \/ NetworkFails(r)
    <2>1. UNCHANGED chainVars
      BY <1>1 DEF ClickReopens, ClickSends, OnOpen, OnMessage, OnClose, HandshakeFails,
          NetworkFails
    <2>2. QED
      BY <1>1, <2>1, PageMoves
  <1>2. ASSUME NEW r \in Conns, PageReceives(r) \/ PageEndpoint(r) \/ PageHappens(r)
        PROVE  SocketInv(q)'
    <2>1. /\ ChainActs(r)
          /\ UNCHANGED <<sock, current, reopened, lost, spinner>>
          /\ idSent' \subseteq idSent
          /\ ws[r] = "accepted" => r \notin idSent'
      BY <1>2, StepsOfTheChain DEF PageInv
    <2>2. CASE q = r
      BY <2>1, <2>2, OwnSocket
    <2>3. CASE q # r
      <3>1. StaysAtRest(q)
        <4>1. \/ UNCHANGED serverVars \/ PeerCloses(r) \/ PeerResets(r)
              \/ Accept(r) \/ PeerSends(r)
          BY <2>1 DEF ChainActs, ReceivesId, NoId, SendRaises, SendsToNobody, Opens,
              Connects, ConnectFails, Sends, ReceivesReply, ReceivesEof, ReceivesReset,
              SendsAnswer, Stamps, TransportTimesOut, WorkerDies
        <4>2. CASE Accept(r) \/ PeerSends(r)
          BY <2>3, <4>2 DEF Accept, PeerSends, Goto, StaysAtRest, AtRest, ReplyInv,
              ServerTypeOK
        <4>3. QED
          BY <4>1, <4>2, PeersLeaveAtRest
      <3>2. UNCHANGED <<ws[q], answer[q]>>
        BY <2>1, <2>3 DEF ChainActs, Move, ReceivesId, NoId, SendRaises, SendsToNobody,
            Opens, Connects, ConnectFails, Sends, ReceivesReply, ReceivesEof,
            ReceivesReset, SendsAnswer, Stamps, TransportTimesOut, WorkerDies, ClientInv,
            ChangeIpTypeOK
      <3>3. QED
        BY <2>1, <3>1, <3>2, OtherSockets
    <2>4. QED
      BY <2>2, <2>3
  <1>3. CASE (Serves \/ Surroundings \/ Administration) /\ UNCHANGED pageVars
    <2>1. StaysAtRest(q)
      <3>1. CASE Serves \/ Surroundings
        BY <3>1, ServerLeavesAtRest
      <3>2. CASE Administration
        BY <3>2, PeersLeaveAtRest DEF Administration, Edit, UpdatesModem, UnbindsModem,
            DeletesModem
      <3>3. QED
        BY <1>3, <3>1, <3>2
    <2>2. UNCHANGED wsVars
      BY <1>3 DEF Serves, Surroundings, Administration, Edit, UpdatesModem, UnbindsModem,
          DeletesModem
    <2>3. QED
      BY <1>3, <2>1, <2>2, OtherSockets DEF wsVars, pageVars
  <1>4. CASE UNCHANGED allVars
    <2>1. StaysAtRest(q)
      BY <1>4, PeersLeaveAtRest DEF allVars, chainVars
    <2>2. QED
      BY <1>4, <2>1, OtherSockets DEF allVars, chainVars, wsVars, pageVars
  <1>5. QED
    BY <1>1, <1>2, <1>3, <1>4 DEF PageNext

LEMMA PageInvariant == PageSafety => [](PageInv /\ ClientInv /\ ReplyInv)
  <1>1. PageSafety => [](ClientInv /\ ReplyInv)
    BY ImplementsChain, ClientInvariant, PTL
  <1>2. PageInv /\ (ClientInv /\ ReplyInv) /\ [PageNext]_allVars => PageInv'
    BY PageInvStep
  <1>3. QED
    BY <1>1, <1>2, PageInvInit, PTL DEF PageSafety

\* A request that has neither been answered nor cut off is the one of the
\* page's last socket.
LEMMA WorkingIsCurrent ==
    ASSUME PageInv, ClientInv, NEW r \in Conns, pc[r] \in Working, ~CutOff(r)
    PROVE  r = current /\ ws[r] \in {"sending", "waiting"}
  <1>1. SocketInv(r) /\ RequestInv(r) /\ PageTypeOK /\ ChangeIpTypeOK
    BY DEF PageInv, ClientInv
  <1>2. ws[r] \in {"sending", "waiting"}
    BY <1>1 DEF SocketInv, RequestInv, AtRest, Working, ChangeIpTypeOK, Running, Ended
  <1>3. r = current
    BY <1>1, <1>2 DEF SocketInv, PageTypeOK, CutOff, Ended
  <1>4. QED
    BY <1>2, <1>3

\* Clicking again and again never puts the socket server to work on two
\* requests of one page at once, unless the browser or the web worker has lost
\* one of them.
THEOREM PageRebootsOneAtATime == PageSafety => []OneRebootAtATime
  <1>1. PageInv /\ ClientInv => OneRebootAtATime
    BY WorkingIsCurrent DEF OneRebootAtATime, Working
  <1>2. QED
    BY <1>1, PageInvariant, PTL

\* A modem is rebooted for the page only while the spinner turns: after a click
\* and before the answer to it is shown.
THEOREM PageShowsThatItReboots == PageSafety => RebootsUnderSpinner
  <1>1. ASSUME PageInv, ClientInv, ReplyInv, [PageNext]_allVars,
               NEW r \in Conns, reboots'[r] > reboots[r]
        PROVE  spinner \/ CutOff(r)
    <2>1. pc[r] = "reboot"
      <3>1. [Next]_vars
        BY <1>1, ChainStep
      <3>2. [ServerNext]_serverVars
        BY <3>1, ServerStep
      <3>3. QED
        BY <1>1, <3>2, OnlyRebootsReboot
    <2>2. CASE ~CutOff(r)
      BY <1>1, <2>1, <2>2, WorkingIsCurrent DEF PageInv, SocketInv, Awaits, Working
    <2>3. QED
      BY <2>2
  <1>2. PageInv /\ ClientInv /\ ReplyInv /\ [PageNext]_allVars =>
            [\A r \in Conns : reboots'[r] > reboots[r] => spinner \/ CutOff(r)]_allVars
    BY <1>1
  <1>3. QED
    BY <1>2, PageInvariant, PTL DEF PageSafety, RebootsUnderSpinner
=============================================================================
