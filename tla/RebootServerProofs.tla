------------------------- MODULE RebootServerProofs -------------------------
(***************************************************************************)
(* Theorems about RebootServer, for any number of connections and modems,  *)
(* any leases, any numbers of attempts and any number of crashes:          *)
(*   - type correctness,                                                   *)
(*   - RebootedAtMostOnce, FailureMeansNotRebooted and ReportIsTruthful,   *)
(*     from the inductive invariant ConnInv of each connection,            *)
(*   - RegistryIsConsistent,                                               *)
(*   - that the server implements RebootPromise.                           *)
(***************************************************************************)
EXTENDS RebootServer, FiniteSetTheorems, TLAPS

(***************************************************************************)
(* The inductive invariant of one connection: how far the handler has got  *)
(* determines what has been put into outb, sent, and done to the modem.    *)
(***************************************************************************)

Quiet(c) == outb[c] = "empty" /\ sent[c] = "nothing"

Untouched(c) == Quiet(c) /\ reboots[c] = 0

BeforeReboot(c) ==
    /\ pc[c] = "absent" => Untouched(c) /\ peer[c] = "none" /\ ~inbox[c]
    /\ peer[c] = "open" \/ inbox[c] => Untouched(c)
    /\ inbox[c] => pc[c] = "reading" /\ peer[c] # "open"
    /\ pc[c] \in {"fetchBefore", "reboot"} => Untouched(c) /\ peer[c] # "open"

AfterReboot(c) ==
    /\ pc[c] = "fetchAfter" => Quiet(c) /\ reboots[c] = 1
    /\ pc[c] \in {"reboot", "fetchAfter"} => ipBefore[c] \in IPs
    /\ reboots[c] = 1 /\ link[ModemOf[c]] = "up" => ip[ModemOf[c]] \in held[c]

Reporting(c) ==
    /\ pc[c] = "respond" => outb[c] # "empty" /\ sent[c] = "nothing"
    /\ sent[c] # "nothing" => sent[c] = outb[c]
    /\ outb[c] = "ok" => /\ reboots[c] = 1
                         /\ ipBefore[c] \in IPs
                         /\ ipAfter[c] \in held[c] \ {ipBefore[c]}
    /\ outb[c] \in Failures => reboots[c] = 0

ConnInv(c) ==
    /\ reboots[c] \in {0, 1}
    /\ BeforeReboot(c)
    /\ AfterReboot(c)
    /\ Reporting(c)

ReplyInv == ServerTypeOK /\ \A c \in Conns : ConnInv(c)

-----------------------------------------------------------------------------

LEMMA ServerTypeInit == ServerInit => ServerTypeOK
  BY ModemAssumption, AddressAssumption, AttemptsAssumption, BoundAssumption
  DEF ServerInit, ServerTypeOK, PcValues, Serving, Replies

LEMMA ServerTypeStep == ServerTypeOK /\ [ServerNext]_serverVars => ServerTypeOK'
  <1> SUFFICES ASSUME ServerTypeOK, [ServerNext]_serverVars PROVE ServerTypeOK'
    OBVIOUS
  <1> USE ModemAssumption, AddressAssumption, AttemptsAssumption, BoundAssumption
      DEF ServerTypeOK, PcValues, Serving, Replies, Goto, modemVars, peerVars,
          processVars, localVars, registryVars, historyVars
  <1>1. ASSUME NEW c \in Conns, Accept(c) PROVE ServerTypeOK'
    BY <1>1 DEF Accept
  <1>2. ASSUME NEW c \in Conns, PeerSends(c) PROVE ServerTypeOK'
    BY <1>2 DEF PeerSends
  <1>3. ASSUME NEW c \in Conns, PeerCloses(c) PROVE ServerTypeOK'
    BY <1>3 DEF PeerCloses
  <1>4. ASSUME NEW c \in Conns, PeerResets(c) PROVE ServerTypeOK'
    BY <1>4 DEF PeerResets
  <1>5. ASSUME NEW c \in Conns, Receive(c) PROVE ServerTypeOK'
    BY <1>5 DEF Receive
  <1>6. ASSUME NEW c \in Conns, ReadEnds(c) \/ ParseRaises(c) PROVE ServerTypeOK'
    BY <1>6 DEF ReadEnds, ParseRaises
  <1>7. ASSUME NEW c \in Conns, CleanUp(c) PROVE ServerTypeOK'
    BY <1>7 DEF CleanUp
  <1>8. ASSUME NEW c \in Conns, CloseRaises(c) PROVE ServerTypeOK'
    BY <1>8 DEF CloseRaises
  <1>9. ASSUME NEW c \in Conns, CurlRetries(c) PROVE ServerTypeOK'
    BY <1>9 DEF CurlRetries, Fetching
  <1>10. ASSUME NEW c \in Conns, CurlGivesUp(c) PROVE ServerTypeOK'
    BY <1>10 DEF CurlGivesUp, Fetching
  <1>11. ASSUME NEW c \in Conns, FetchedBefore(c) PROVE ServerTypeOK'
    BY <1>11 DEF FetchedBefore, Fetching
  <1>12. ASSUME NEW c \in Conns, NoneBefore(c) PROVE ServerTypeOK'
    BY <1>12 DEF NoneBefore
  <1>13. ASSUME NEW c \in Conns, FetchedAfter(c) PROVE ServerTypeOK'
    BY <1>13 DEF FetchedAfter, Fetching
  <1>14. ASSUME NEW c \in Conns, FetchedSame(c) PROVE ServerTypeOK'
    BY <1>14 DEF FetchedSame, Fetching
  <1>15. ASSUME NEW c \in Conns, NoneAfter(c) PROVE ServerTypeOK'
    BY <1>15 DEF NoneAfter
  <1>16. ASSUME NEW c \in Conns, RebootAccepted(c) PROVE ServerTypeOK'
    BY <1>16 DEF RebootAccepted, Calls, TakesReboot
  <1>17. ASSUME NEW c \in Conns, RebootNotOK(c) PROVE ServerTypeOK'
    BY <1>17 DEF RebootNotOK, Calls
  <1>18. ASSUME NEW c \in Conns, RebootErrorString(c) PROVE ServerTypeOK'
    BY <1>18 DEF RebootErrorString, Calls
  <1>19. ASSUME NEW c \in Conns, RebootRaises(c) PROVE ServerTypeOK'
    BY <1>19 DEF RebootRaises, Calls, TakesReboot
  <1>20. ASSUME NEW c \in Conns, RebootsExhausted(c) PROVE ServerTypeOK'
    BY <1>20 DEF RebootsExhausted
  <1>21. ASSUME NEW c \in Conns, Respond(c) PROVE ServerTypeOK'
    BY <1>21 DEF Respond
  <1>22. ASSUME NEW c \in Conns, DrainRaises(c) PROVE ServerTypeOK'
    BY <1>22 DEF DrainRaises
  <1>23. ASSUME NEW m \in Modems, LinkBack(m) PROVE ServerTypeOK'
    BY <1>23 DEF LinkBack
  <1>24. ASSUME NEW m \in Modems, LinkDrops(m) PROVE ServerTypeOK'
    BY <1>24 DEF LinkDrops
  <1>25. CASE ServerDies
    <2>1. pc' \in [Conns -> PcValues]
      BY <1>25 DEF ServerDies
    <2>2. inbox' \in [Conns -> BOOLEAN] /\ up' \in BOOLEAN
      BY <1>25 DEF ServerDies
    <2>3. crashes' \in 0 .. MaxCrashes
      BY <1>25 DEF ServerDies
    <2>4. counter' \in Int /\ tracked' \in SUBSET Conns
      BY <1>25 DEF ServerDies
    <2>5. QED
      BY <1>25, <2>1, <2>2, <2>3, <2>4 DEF ServerDies
  <1>26. CASE ServerStarts
    BY <1>26 DEF ServerStarts
  <1>27. CASE UNCHANGED serverVars
    BY <1>27 DEF serverVars
  <1> HIDE DEF ServerTypeOK
  <1>28. QED
    BY <1>1, <1>2, <1>3, <1>4, <1>5, <1>6, <1>7, <1>8, <1>9, <1>10, <1>11, <1>12, <1>13,
        <1>14, <1>15, <1>16, <1>17, <1>18, <1>19, <1>20, <1>21, <1>22, <1>23, <1>24, <1>25, <1>26, <1>27
    DEF ServerNext, Peer, Handler, Environment

\* Type correctness: every variable keeps its type, under every interleaving
\* of the handlers of sockets/async_server.py.
THEOREM ServerTypeCorrect == ServerSafety => []ServerTypeOK
  BY ServerTypeInit, ServerTypeStep, PTL DEF ServerSafety

-----------------------------------------------------------------------------

LEMMA ReplyInit == ServerInit => ReplyInv
  BY ServerTypeInit
  DEF ServerInit, ReplyInv, ConnInv, BeforeReboot, AfterReboot, Reporting, Quiet,
      Untouched, Failures

LEMMA ReplyStep == ReplyInv /\ [ServerNext]_serverVars => ReplyInv'
  <1> SUFFICES ASSUME ReplyInv, [ServerNext]_serverVars
               PROVE  \A d \in Conns : ConnInv(d)'
    BY ServerTypeStep DEF ReplyInv
  <1> USE ModemAssumption, AddressAssumption DEF ReplyInv, ServerTypeOK, PcValues,
      Serving, Replies, Goto, ConnInv, BeforeReboot, AfterReboot, Reporting, Quiet,
      Untouched, Failures, modemVars, peerVars, processVars, localVars,
      registryVars, historyVars
  <1>1. ASSUME NEW c \in Conns, Accept(c) PROVE \A d \in Conns : ConnInv(d)'
    BY <1>1 DEF Accept
  <1>2. ASSUME NEW c \in Conns, PeerSends(c) PROVE \A d \in Conns : ConnInv(d)'
    BY <1>2 DEF PeerSends
  <1>3. ASSUME NEW c \in Conns, PeerCloses(c) PROVE \A d \in Conns : ConnInv(d)'
    BY <1>3 DEF PeerCloses
  <1>4. ASSUME NEW c \in Conns, PeerResets(c) PROVE \A d \in Conns : ConnInv(d)'
    BY <1>4 DEF PeerResets
  <1>5. ASSUME NEW c \in Conns, Receive(c) PROVE \A d \in Conns : ConnInv(d)'
    BY <1>5 DEF Receive
  <1>6. ASSUME NEW c \in Conns, ReadEnds(c) \/ ParseRaises(c) PROVE \A d \in Conns : ConnInv(d)'
    BY <1>6 DEF ReadEnds, ParseRaises
  <1>7. ASSUME NEW c \in Conns, CleanUp(c) PROVE \A d \in Conns : ConnInv(d)'
    BY <1>7 DEF CleanUp
  <1>8. ASSUME NEW c \in Conns, CloseRaises(c) PROVE \A d \in Conns : ConnInv(d)'
    BY <1>8 DEF CloseRaises
  <1>9. ASSUME NEW c \in Conns, CurlRetries(c) PROVE \A d \in Conns : ConnInv(d)'
    BY <1>9 DEF CurlRetries, Fetching
  <1>10. ASSUME NEW c \in Conns, CurlGivesUp(c) PROVE \A d \in Conns : ConnInv(d)'
    BY <1>10 DEF CurlGivesUp, Fetching
  <1>11. ASSUME NEW c \in Conns, FetchedBefore(c) PROVE \A d \in Conns : ConnInv(d)'
    BY <1>11 DEF FetchedBefore, Fetching
  <1>12. ASSUME NEW c \in Conns, NoneBefore(c) PROVE \A d \in Conns : ConnInv(d)'
    BY <1>12 DEF NoneBefore
  <1>13. ASSUME NEW c \in Conns, FetchedAfter(c) PROVE \A d \in Conns : ConnInv(d)'
    BY <1>13 DEF FetchedAfter, Fetching
  <1>14. ASSUME NEW c \in Conns, FetchedSame(c) PROVE \A d \in Conns : ConnInv(d)'
    BY <1>14 DEF FetchedSame, Fetching
  <1>15. ASSUME NEW c \in Conns, NoneAfter(c) PROVE \A d \in Conns : ConnInv(d)'
    BY <1>15 DEF NoneAfter
  <1>16. ASSUME NEW c \in Conns, RebootAccepted(c) PROVE \A d \in Conns : ConnInv(d)'
    BY <1>16 DEF RebootAccepted, Calls, TakesReboot
  <1>17. ASSUME NEW c \in Conns, RebootNotOK(c) PROVE \A d \in Conns : ConnInv(d)'
    BY <1>17 DEF RebootNotOK, Calls
  <1>18. ASSUME NEW c \in Conns, RebootErrorString(c) PROVE \A d \in Conns : ConnInv(d)'
    BY <1>18 DEF RebootErrorString, Calls
  <1>19. ASSUME NEW c \in Conns, RebootRaises(c) PROVE \A d \in Conns : ConnInv(d)'
    BY <1>19 DEF RebootRaises, Calls, TakesReboot
  <1>20. ASSUME NEW c \in Conns, RebootsExhausted(c) PROVE \A d \in Conns : ConnInv(d)'
    BY <1>20 DEF RebootsExhausted
  <1>21. ASSUME NEW c \in Conns, Respond(c) PROVE \A d \in Conns : ConnInv(d)'
    BY <1>21 DEF Respond
  <1>22. ASSUME NEW c \in Conns, DrainRaises(c) PROVE \A d \in Conns : ConnInv(d)'
    BY <1>22 DEF DrainRaises
  <1>23. ASSUME NEW m \in Modems, LinkBack(m) PROVE \A d \in Conns : ConnInv(d)'
    BY <1>23 DEF LinkBack
  <1>24. ASSUME NEW m \in Modems, LinkDrops(m) PROVE \A d \in Conns : ConnInv(d)'
    BY <1>24 DEF LinkDrops
  <1>25. CASE ServerDies
    BY <1>25 DEF ServerDies
  <1>26. CASE ServerStarts
    BY <1>26 DEF ServerStarts
  <1>27. CASE UNCHANGED serverVars
    BY <1>27 DEF serverVars
  <1> HIDE DEF ReplyInv, ConnInv
  <1>28. QED
    BY <1>1, <1>2, <1>3, <1>4, <1>5, <1>6, <1>7, <1>8, <1>9, <1>10, <1>11, <1>12, <1>13,
        <1>14, <1>15, <1>16, <1>17, <1>18, <1>19, <1>20, <1>21, <1>22, <1>23, <1>24, <1>25, <1>26, <1>27
    DEF ServerNext, Peer, Handler, Environment

LEMMA ReplyInvariant == ServerSafety => []ReplyInv
  BY ReplyInit, ReplyStep, PTL DEF ServerSafety

\* handle_modem_rebooting reboots the modem at most once per connection: the
\* loop over reboot_modem cannot be entered again after an accepted call.
THEOREM AtMostOneReboot == ServerSafety => []RebootedAtMostOnce
  <1>1. ReplyInv => RebootedAtMostOnce
    BY DEF ReplyInv, ConnInv, RebootedAtMostOnce
  <1>2. QED
    BY <1>1, ReplyInvariant, PTL

\* A failure the server reports means that no call of reboot_modem made for
\* this connection has rebooted the modem.
THEOREM FailureIsHonest == ServerSafety => []FailureMeansNotRebooted
  <1>1. ReplyInv => FailureMeansNotRebooted
    BY DEF ReplyInv, ConnInv, Reporting, FailureMeansNotRebooted, Failures
  <1>2. QED
    BY <1>1, ReplyInvariant, PTL

\* The two addresses of a success report differ, and the second one was the
\* modem's address after the reboot made for this connection.
THEOREM SuccessIsHonest == ServerSafety => []ReportIsTruthful
  <1>1. ReplyInv => ReportIsTruthful
    BY DEF ReplyInv, ConnInv, Reporting, ReportIsTruthful
  <1>2. QED
    BY <1>1, ReplyInvariant, PTL

-----------------------------------------------------------------------------
(***************************************************************************)
(* The registry: the counter counts the entries of _connection_data.       *)
(***************************************************************************)

RegistryInv == ServerTypeOK /\ RegistryIsConsistent

LEMMA RegistryInit == ServerInit => RegistryInv
  BY ServerTypeInit, FS_EmptySet
  DEF ServerInit, RegistryInv, RegistryIsConsistent, Serving

LEMMA RegistryStep == RegistryInv /\ [ServerNext]_serverVars => RegistryInv'
  <1> SUFFICES ASSUME RegistryInv, [ServerNext]_serverVars PROVE RegistryIsConsistent'
    BY ServerTypeStep DEF RegistryInv
  <1> USE DEF RegistryInv, RegistryIsConsistent, ServerTypeOK, PcValues, Serving, Goto
  <1>0. IsFiniteSet(tracked)
    BY ConnsAssumption, FS_Subset
  <1>1. ASSUME NEW c \in Conns, Accept(c) PROVE RegistryIsConsistent'
    <2>1. c \notin tracked
      BY <1>1 DEF Accept
    <2>2. Cardinality(tracked') = Cardinality(tracked) + 1
      BY <1>0, <1>1, <2>1, FS_AddElement DEF Accept
    <2>3. QED
      BY <1>1, <2>2 DEF Accept
  <1>2. ASSUME NEW c \in Conns, CleanUp(c) PROVE RegistryIsConsistent'
    <2>1. c \in tracked
      BY <1>2 DEF CleanUp
    <2>2. Cardinality(tracked') = Cardinality(tracked) - 1
      BY <1>0, <1>2, <2>1, FS_RemoveElement DEF CleanUp
    <2>3. QED
      BY <1>2, <2>2 DEF CleanUp, peerVars
  <1>3. CASE ServerDies
    BY <1>3, FS_EmptySet DEF ServerDies
  <1>4. ASSUME NEW c \in Conns, PeerSends(c) \/ PeerCloses(c) \/ PeerResets(c)
        PROVE  RegistryIsConsistent'
    BY <1>4 DEF PeerSends, PeerCloses, PeerResets, processVars, registryVars
  <1>5. ASSUME NEW c \in Conns, Handler(c), ~CleanUp(c) PROVE RegistryIsConsistent'
    <2>1. UNCHANGED registryVars
      BY <1>5 DEF Handler, Receive, ParseRaises, ReadEnds, CloseRaises, CurlRetries, CurlGivesUp,
          FetchedBefore, NoneBefore, FetchedAfter, FetchedSame, NoneAfter,
          RebootAccepted, RebootNotOK, RebootErrorString, RebootRaises, Calls,
          RebootsExhausted, Respond, DrainRaises
    <2>2. UNCHANGED peer
      BY <1>5 DEF Handler, Receive, ParseRaises, ReadEnds, CloseRaises, CurlRetries, CurlGivesUp,
          FetchedBefore, NoneBefore, FetchedAfter, FetchedSame, NoneAfter,
          RebootAccepted, RebootNotOK, RebootErrorString, RebootRaises, Calls,
          RebootsExhausted, Respond, DrainRaises, peerVars
    <2>3. pc[c] \in Serving /\ \E label \in PcValues : 
             /\ pc' = [pc EXCEPT ![c] = label]
             /\ label \in Serving \/ (label = "closed" /\ peer[c] = "reset")
      BY <1>5 DEF Handler, Receive, ParseRaises, ReadEnds, CloseRaises, CurlRetries, CurlGivesUp,
          Fetching, FetchedBefore, NoneBefore, FetchedAfter, FetchedSame, NoneAfter,
          RebootAccepted, RebootNotOK, RebootErrorString, RebootRaises, Calls,
          RebootsExhausted, Respond, DrainRaises
    <2>4. QED
      BY <2>1, <2>2, <2>3 DEF registryVars
  <1>6. CASE ServerStarts \/ \E m \in Modems : LinkBack(m) \/ LinkDrops(m)
    BY <1>6 DEF ServerStarts, LinkBack, LinkDrops, processVars, registryVars, peerVars
  <1>7. CASE UNCHANGED serverVars
    BY <1>7 DEF serverVars, processVars, registryVars, peerVars
  <1> HIDE DEF RegistryInv, RegistryIsConsistent
  <1>8. QED
    BY <1>1, <1>2, <1>3, <1>4, <1>5, <1>6, <1>7 DEF ServerNext, Peer, Environment

\* _conn_id_counter always equals the number of entries of _connection_data,
\* and an entry outlives its connection only if the peer reset it.  The count
\* file holds the same number, but for a server that has died and has not
\* accepted a connection since.
THEOREM RegistryCorrect == ServerSafety => []RegistryIsConsistent
  <1>1. RegistryInv => RegistryIsConsistent
    BY DEF RegistryInv
  <1>2. QED
    BY <1>1, RegistryInit, RegistryStep, PTL DEF ServerSafety

-----------------------------------------------------------------------------
(***************************************************************************)
(* The server implements RebootPromise.                                    *)
(***************************************************************************)

Lost == {"closing", "closed", "dead"}

Bar == [c \in Conns |-> OutcomeOf(c)]

\* OutcomeOf, one case at a time.
LEMMA OutcomeCases ==
    ASSUME NEW c \in Conns, ServerTypeOK
    PROVE  /\ sent[c] = "ok" <=> OutcomeOf(c) = "succeeded"
           /\ sent[c] \in Failures <=> OutcomeOf(c) = "refused"
           /\ sent[c] = "nothing" /\ pc[c] \in Lost <=> OutcomeOf(c) = "lost"
           /\ sent[c] = "nothing" /\ pc[c] \notin Lost /\ reboots[c] > 0
                 <=> OutcomeOf(c) = "rebooted"
           /\ sent[c] = "nothing" /\ pc[c] \notin Lost /\ reboots[c] = 0
                 <=> OutcomeOf(c) = "open"
  BY DEF ServerTypeOK, OutcomeOf, Replies, Failures, Lost

SameOutcome(d) ==
    sent'[d] = sent[d] /\ reboots'[d] = reboots[d] /\ (pc'[d] \in Lost <=> pc[d] \in Lost)

LEMMA SameOutcomeSuffices ==
    ASSUME NEW d \in Conns, SameOutcome(d)
    PROVE  OutcomeOf(d)' = OutcomeOf(d)
  BY DEF SameOutcome, OutcomeOf, Lost

\* A step that changes no outcome is a stuttering step of the promise ...
LEMMA NoneMoves ==
    ASSUME \A d \in Conns : SameOutcome(d), UNCHANGED reboots
    PROVE  UNCHANGED Promise!promiseVars
  BY SameOutcomeSuffices DEF Promise!promiseVars

\* ... and one that changes the outcome of c is a step of c.
LEMMA OneMoves ==
    ASSUME NEW c \in Conns, \A d \in Conns \ {c} : SameOutcome(d)
    PROVE  Bar' = [Bar EXCEPT ![c] = OutcomeOf(c)']
  BY SameOutcomeSuffices DEF Bar

\* The actions that leave every outcome as it is.
SilentStep(c) ==
    \/ Accept(c) \/ PeerSends(c) \/ PeerCloses(c) \/ PeerResets(c)
    \/ Receive(c) \/ CleanUp(c) \/ CloseRaises(c) \/ CurlRetries(c) \/ CurlGivesUp(c)
    \/ FetchedBefore(c) \/ NoneBefore(c) \/ FetchedAfter(c) \/ FetchedSame(c)
    \/ NoneAfter(c) \/ RebootNotOK(c) \/ RebootErrorString(c) \/ RebootsExhausted(c)

LEMMA SilentSteps ==
    ASSUME ReplyInv, NEW c \in Conns, SilentStep(c)
    PROVE  UNCHANGED Promise!promiseVars
  <1> USE DEF Goto, SameOutcome, Lost, ReplyInv, ServerTypeOK, historyVars
  <1>1. UNCHANGED <<sent, reboots>>
    BY DEF SilentStep, Accept, PeerSends, PeerCloses, PeerResets, Receive, CleanUp,
        CloseRaises, CurlRetries, CurlGivesUp, FetchedBefore, NoneBefore, FetchedAfter,
        FetchedSame, NoneAfter, RebootNotOK, RebootErrorString, RebootsExhausted, Calls
  <1>2. \A d \in Conns : pc'[d] \in Lost <=> pc[d] \in Lost
    BY DEF SilentStep, Accept, PeerSends, PeerCloses, PeerResets, Receive, CleanUp,
        CloseRaises, CurlRetries, CurlGivesUp, FetchedBefore, NoneBefore, FetchedAfter,
        FetchedSame, NoneAfter, RebootNotOK, RebootErrorString, RebootsExhausted, Calls,
        Fetching
  <1>3. QED
    BY <1>1, <1>2, NoneMoves

LEMMA PromiseStep ==
    ASSUME ReplyInv, ServerTypeOK', [ServerNext]_serverVars
    PROVE  [Promise!PromiseNext]_(Promise!promiseVars)
  <1> DEFINE PNext == [Promise!PromiseNext]_(Promise!promiseVars)
  <1>0. ServerTypeOK /\ \A d \in Conns : ConnInv(d)
    BY DEF ReplyInv
  <1>1. ASSUME NEW c \in Conns, SilentStep(c) PROVE PNext
    BY <1>1, SilentSteps
  <1>2. ASSUME NEW c \in Conns, ReadEnds(c) \/ ParseRaises(c) \/ DrainRaises(c) PROVE PNext
    <2>1. UNCHANGED <<sent, reboots>> /\ pc' = [pc EXCEPT ![c] = "closing"]
            /\ pc[c] \notin Lost
      BY <1>2 DEF ReadEnds, ParseRaises, DrainRaises, Goto, historyVars, Lost
    <2>2. \A d \in Conns \ {c} : SameOutcome(d)
      BY <1>0, <2>1 DEF SameOutcome, ServerTypeOK
    <2>3. pc'[c] \in Lost /\ sent'[c] = sent[c]
      BY <1>0, <2>1 DEF ServerTypeOK, Lost
    <2>4. CASE sent[c] = "nothing"
      <3>1. OutcomeOf(c)' = "lost" /\ OutcomeOf(c) \in {"open", "rebooted"}
        BY <1>0, <2>1, <2>3, <2>4, OutcomeCases DEF OutcomeOf, Lost, ServerTypeOK
      <3>2. Promise!Lose(c)
        BY <2>1, <2>2, <3>1, OneMoves DEF Promise!Lose, Promise!Becomes, Bar
      <3>3. QED
        BY <3>2 DEF Promise!PromiseNext
    <2>5. CASE sent[c] # "nothing"
      <3>1. OutcomeOf(c)' = OutcomeOf(c)
        BY <1>0, <2>1, <2>3, <2>5 DEF OutcomeOf, Lost, ServerTypeOK, Replies, Failures
      <3>2. Bar' = Bar
        BY <2>2, <3>1, SameOutcomeSuffices DEF Bar
      <3>3. QED
        BY <2>1, <3>2 DEF Promise!promiseVars, Bar
    <2>6. QED
      BY <2>4, <2>5
  <1>3. ASSUME NEW c \in Conns, RebootAccepted(c) PROVE PNext
    <2>1. /\ UNCHANGED sent /\ pc' = [pc EXCEPT ![c] = "fetchAfter"]
          /\ reboots' = [reboots EXCEPT ![c] = @ + 1] /\ pc[c] = "reboot"
      BY <1>3 DEF RebootAccepted, Calls, TakesReboot, Goto
    <2>2. \A d \in Conns \ {c} : SameOutcome(d)
      BY <1>0, <2>1 DEF SameOutcome, ServerTypeOK
    <2>3. sent[c] = "nothing" /\ reboots[c] = 0
      BY <1>0, <2>1 DEF ConnInv, BeforeReboot, Untouched, Quiet
    <2>4. OutcomeOf(c) = "open" /\ OutcomeOf(c)' = "rebooted"
      BY <1>0, <2>1, <2>3 DEF OutcomeOf, Lost, ServerTypeOK, Failures
    <2>5. Promise!DoReboot(c)
      BY <2>1, <2>2, <2>4, OneMoves
      DEF Promise!DoReboot, Promise!Becomes, Promise!Reboots, Bar
    <2>6. QED
      BY <2>5 DEF Promise!PromiseNext
  <1>4. ASSUME NEW c \in Conns, RebootRaises(c) PROVE PNext
    <2>1. UNCHANGED sent /\ pc' = [pc EXCEPT ![c] = "closing"] /\ pc[c] = "reboot"
      BY <1>4 DEF RebootRaises, Calls, Goto
    <2>2. reboots' = [reboots EXCEPT ![c] = @ + 1] \/ UNCHANGED reboots
      BY <1>4 DEF RebootRaises, TakesReboot, historyVars
    <2>3. \A d \in Conns \ {c} : SameOutcome(d)
      BY <1>0, <2>1, <2>2 DEF SameOutcome, ServerTypeOK
    <2>4. sent[c] = "nothing" /\ reboots[c] = 0
      BY <1>0, <2>1 DEF ConnInv, BeforeReboot, Untouched, Quiet
    <2>5. OutcomeOf(c) = "open" /\ OutcomeOf(c)' = "lost"
      BY <1>0, <2>1, <2>4 DEF OutcomeOf, Lost, ServerTypeOK, Failures
    <2>6. Promise!LoseRebooting(c) \/ Promise!Lose(c)
      BY <2>1, <2>2, <2>3, <2>5, OneMoves
      DEF Promise!LoseRebooting, Promise!Lose, Promise!Becomes, Promise!Reboots, Bar
    <2>7. QED
      BY <2>6 DEF Promise!PromiseNext
  <1>5. ASSUME NEW c \in Conns, Respond(c) PROVE PNext
    <2>1. /\ sent' = [sent EXCEPT ![c] = outb[c]] /\ pc[c] = "respond"
          /\ pc' = [pc EXCEPT ![c] = "reading"] /\ UNCHANGED reboots
      BY <1>5 DEF Respond, Goto, historyVars
    <2>2. \A d \in Conns \ {c} : SameOutcome(d)
      BY <1>0, <2>1 DEF SameOutcome, ServerTypeOK
    <2>3. sent[c] = "nothing" /\ sent'[c] = outb[c] /\ outb[c] \in Replies
      BY <1>0, <2>1 DEF ConnInv, Reporting, ServerTypeOK
    <2>4. CASE outb[c] = "ok"
      <3>1. OutcomeOf(c) = "rebooted" /\ OutcomeOf(c)' = "succeeded"
        BY <1>0, <2>1, <2>3, <2>4
        DEF OutcomeOf, Lost, ConnInv, Reporting, Failures, ServerTypeOK
      <3>2. Promise!Succeed(c)
        BY <2>1, <2>2, <3>1, OneMoves DEF Promise!Succeed, Promise!Becomes, Bar
      <3>3. QED
        BY <3>2 DEF Promise!PromiseNext
    <2>5. CASE outb[c] \in Failures
      <3>1. OutcomeOf(c) = "open" /\ OutcomeOf(c)' = "refused"
        BY <1>0, <2>1, <2>3, <2>5
        DEF OutcomeOf, Lost, ConnInv, Reporting, Failures, ServerTypeOK
      <3>2. Promise!Refuse(c)
        BY <2>1, <2>2, <3>1, OneMoves DEF Promise!Refuse, Promise!Becomes, Bar
      <3>3. QED
        BY <3>2 DEF Promise!PromiseNext
    <2>6. QED
      BY <2>3, <2>4, <2>5 DEF Replies, Failures
  <1>6. CASE ServerDies
    <2> DEFINE S == {c \in Conns : pc[c] \in Serving \ {"closing"} /\ sent[c] = "nothing"}
    <2>1. /\ UNCHANGED <<sent, reboots>>
          /\ \A c \in Conns : pc'[c] = IF pc[c] \in Serving THEN "dead" ELSE pc[c]
      BY <1>6 DEF ServerDies, historyVars
    <2>2. \A c \in S : OutcomeOf(c) \in {"open", "rebooted"}
      BY <1>0, OutcomeCases DEF Serving, Lost, ServerTypeOK
    <2>3. \A c \in S : OutcomeOf(c)' = "lost"
      BY <2>1 DEF OutcomeOf, Failures
    <2>4. \A c \in Conns \ S : OutcomeOf(c)' = OutcomeOf(c)
      <3> SUFFICES ASSUME NEW c \in Conns \ S PROVE OutcomeOf(c)' = OutcomeOf(c)
        OBVIOUS
      <3>1. CASE sent[c] = "nothing"
        <4>1. pc'[c] \in Lost <=> pc[c] \in Lost
          BY <1>0, <2>1, <3>1 DEF Lost, Serving, ServerTypeOK, PcValues
        <4>2. QED
          BY <2>1, <4>1, SameOutcomeSuffices DEF SameOutcome
      <3>2. CASE sent[c] # "nothing"
        BY <1>0, <2>1, <3>2 DEF OutcomeOf, ServerTypeOK, Replies, Failures
      <3>3. QED
        BY <3>1, <3>2
    <2>5. Promise!LoseAll(S)
      BY <2>1, <2>2, <2>3, <2>4 DEF Promise!LoseAll
    <2>6. QED
      BY <2>5 DEF Promise!PromiseNext
  <1>7. CASE ServerStarts \/ \E m \in Modems : LinkBack(m) \/ LinkDrops(m)
    <2>1. UNCHANGED <<pc, sent, reboots>>
      BY <1>7 DEF ServerStarts, LinkBack, LinkDrops, historyVars
    <2>2. QED
      BY <2>1, NoneMoves DEF SameOutcome
  <1>8. CASE UNCHANGED serverVars
    <2>1. UNCHANGED <<pc, sent, reboots>>
      BY <1>8 DEF serverVars, historyVars
    <2>2. QED
      BY <2>1, NoneMoves DEF SameOutcome
  <1>9. QED
    BY <1>1, <1>2, <1>3, <1>4, <1>5, <1>6, <1>7, <1>8
    DEF ServerNext, Peer, Handler, Environment, SilentStep

\* The socket server implements RebootPromise: at most one reboot per
\* connection, success only after it, failure only without it, and an outcome
\* that is final.
THEOREM ServerKeepsPromise == ServerSafety => KeepsPromise
  <1>1. ServerInit => Promise!PromiseInit
    BY DEF ServerInit, Promise!PromiseInit, OutcomeOf, Failures
  <1>2. ReplyInv /\ ReplyInv' /\ [ServerNext]_serverVars
          => [Promise!PromiseNext]_(Promise!promiseVars)
    BY PromiseStep DEF ReplyInv
  <1>3. QED
    BY <1>1, <1>2, ReplyInvariant, PTL
    DEF ServerSafety, KeepsPromise, Promise!PromiseSpec
=============================================================================
