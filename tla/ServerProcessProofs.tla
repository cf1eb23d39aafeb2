------------------------ MODULE ServerProcessProofs ------------------------
(***************************************************************************)
(* Theorems about ServerProcess, for any number of processes, commands and *)
(* ports: what the PID file and the count file are good for.               *)
(***************************************************************************)
EXTENDS ServerProcess, TLAPS

(***************************************************************************)
(* The inductive invariants.                                               *)
(***************************************************************************)

Idle(x) == pc[x] \in {"free", "foreign"}

\* A server that no other command has overlapped is the only one at work: it
\* has the PID file open until it has written it, and nobody else has touched
\* the files since; it counts only once it serves.
AloneOK(p) ==
    /\ \A y \in Actors \ {p} : Idle(y)
    /\ pc[p] = "opened" => p \in pidOpen
    /\ pc[p] \in {"starting", "bound", "opened"} => p \notin counted
    /\ pc[p] \in Serving => pidFile = p
    /\ pc[p] \in Serving /\ p \in counted \ counting
           => countFile = conns[p] + lost[p]

AloneInv == \A p \in alone : AloneOK(p)

\* The counter stands for the connections there are and those that ended uncounted.
CountInv == \A p \in Pids : counter[p] = conns[p] + lost[p]

\* The command x has the removal of the file still before it.
WillSeekPid(x) == ~Idle(x)
WillSeekCount(x) == ~Idle(x) /\ pc[x] \notin {"seekPid", "removePid"}

\* As long as nothing has ended without removing the files, a file that is
\* there will be removed by somebody at work.
RemovalInv ==
    ~abandoned =>
        /\ pidFile # Absent => \E x \in Actors : WillSeekPid(x)
        /\ countFile # Absent => \E x \in Actors : WillSeekCount(x)

IInv == ProcessTypeOK /\ CountInv /\ AloneInv /\ RemovalInv

-----------------------------------------------------------------------------

LEMMA IInit == Init => IInv
  <1> SUFFICES ASSUME Init PROVE IInv
    OBVIOUS
  <1>1. ProcessTypeOK
    <2>1. pc \in [Actors -> Running \cup {"free", "foreign", "found", "kill"}]
      BY DEF Init
    <2>2. /\ counter \in [Pids -> 0 .. MaxConns] /\ conns \in [Pids -> 0 .. MaxConns]
          /\ lost \in [Pids -> 0 .. MaxConns] /\ events \in 0 .. MaxEvents
      BY LimitsAssumption DEF Init
    <2> QED
      BY <2>1, <2>2 DEF Init, ProcessTypeOK
  <1>2. CountInv /\ AloneInv /\ RemovalInv
    BY DEF Init, CountInv, AloneInv, RemovalInv
  <1> QED
    BY <1>1, <1>2 DEF IInv

LEMMA TypeStep == ProcessTypeOK /\ CountInv /\ [Next]_vars => ProcessTypeOK'
  <1> SUFFICES ASSUME ProcessTypeOK, CountInv, [Next]_vars PROVE ProcessTypeOK'
    OBVIOUS
  <1> USE LimitsAssumption
      DEF ProcessTypeOK, Actors, Running, Serving, Finally, Goto, Event, Overlaps,
          pidVars, fileVars, connVars, historyVars
  <1>1. ASSUME NEW p \in Pids, Runs(p) \/ BindFails(p) \/ TakenByAnother(p)
        PROVE  ProcessTypeOK'
    BY <1>1 DEF Runs, BindFails, TakenByAnother
  <1>2. ASSUME NEW p \in Pids, NEW n \in Ports, Binds(p, n) PROVE ProcessTypeOK'
    BY <1>2 DEF Binds
  <1>3. ASSUME NEW p \in Pids, OpensPidFile(p) \/ WritesPid(p) PROVE ProcessTypeOK'
    BY <1>3 DEF OpensPidFile, WritesPid
  <1>4. ASSUME NEW p \in Pids, \/ AcceptsConnection(p) \/ EndsConnection(p)
                               \/ EndsUncounted(p) \/ WritesCount(p)
        PROVE  ProcessTypeOK'
    <2>1. /\ counter[p] \in 0 .. MaxConns /\ conns[p] \in 0 .. MaxConns
          /\ lost[p] \in 0 .. MaxConns /\ counter[p] = conns[p] + lost[p]
      BY DEF CountInv
    <2>2. CASE AcceptsConnection(p)
      BY <2>1, <2>2 DEF AcceptsConnection, Counts
    <2>3. CASE EndsConnection(p)
      BY <2>1, <2>3 DEF EndsConnection, Leaves, Counts
    <2>4. CASE EndsUncounted(p)
      BY <2>1, <2>4 DEF EndsUncounted, Leaves
    <2>5. CASE WritesCount(p)
      BY <2>1, <2>5 DEF WritesCount
    <2> QED
      BY <1>4, <2>2, <2>3, <2>4, <2>5
  <1>5. ASSUME NEW p \in Pids, Interrupted(p) \/ Drained(p) \/ InterruptedAgain(p)
        PROVE  ProcessTypeOK'
    BY <1>5 DEF Interrupted, Drained, InterruptedAgain
  <1>6. ASSUME NEW p \in Pids, Dies(p) PROVE ProcessTypeOK'
    BY <1>6 DEF Dies, Vanishes
  <1>7. ASSUME NEW x \in Actors, FinallyBlock(x) PROVE ProcessTypeOK'
    BY <1>7 DEF FinallyBlock, SeeksCount, SeeksPid, Seeks, RemovesCount,
        RemovesPidFile, RemoveRaises
  <1>8. ASSUME NEW s \in Stops, FindsPidFile(s) \/ ReadsPid(s) \/ ReadFails(s)
        PROVE  ProcessTypeOK'
    BY <1>8, NamesAssumption DEF FindsPidFile, ReadsPid, ReadFails
  <1>9. ASSUME NEW s \in Stops, Kills(s) \/ KillFails(s) PROVE ProcessTypeOK'
    BY <1>9 DEF Kills, KillFails, Vanishes
  <1>10. CASE UNCHANGED vars
    BY <1>10 DEF vars
  <1> HIDE DEF ProcessTypeOK
  <1> QED
    BY <1>1, <1>2, <1>3, <1>4, <1>5, <1>6, <1>7, <1>8, <1>9, <1>10
    DEF Next, Server, StopSteps

LEMMA CountStep == ProcessTypeOK /\ CountInv /\ [Next]_vars => CountInv'
  <1> SUFFICES ASSUME ProcessTypeOK, CountInv, [Next]_vars PROVE CountInv'
    OBVIOUS
  <1> USE LimitsAssumption DEF CountInv
  <1>1. \A p \in Pids : counter[p] \in Int /\ conns[p] \in Int /\ lost[p] \in Int
    BY DEF ProcessTypeOK
  <1>2. CASE UNCHANGED connVars
    BY <1>2 DEF connVars
  <1>3. ASSUME NEW p \in Pids, \/ AcceptsConnection(p) \/ EndsConnection(p)
                               \/ EndsUncounted(p) \/ Drained(p)
        PROVE  CountInv'
    BY <1>1, <1>3 DEF AcceptsConnection, EndsConnection, EndsUncounted, Drained, Leaves,
        Counts, ProcessTypeOK
  <1>4. ASSUME NEW p, Vanishes(p) PROVE CountInv'
    BY <1>4 DEF Vanishes, ProcessTypeOK
  <1>5. ASSUME NEW x, FinallyBlock(x) PROVE UNCHANGED connVars
    BY <1>5 DEF FinallyBlock, SeeksCount, SeeksPid, Seeks, RemovesCount, RemovesPidFile,
        RemoveRaises
  <1> QED
    BY <1>2, <1>3, <1>4, <1>5
    DEF Next, Server, StopSteps, Runs, Binds, BindFails, OpensPidFile, WritesPid, WritesCount,
        Interrupted, InterruptedAgain, Dies, TakenByAnother, FindsPidFile, ReadsPid, ReadFails,
        Kills, KillFails, vars

-----------------------------------------------------------------------------
(***************************************************************************)
(* The server that is alone.                                               *)
(***************************************************************************)

LEMMA AloneStep == ProcessTypeOK /\ CountInv /\ AloneInv /\ [Next]_vars => AloneInv'
  <1> SUFFICES ASSUME ProcessTypeOK, CountInv, AloneInv, [Next]_vars PROVE AloneInv'
    OBVIOUS
  <1> USE DEF Goto, Serving
  <1>1. ASSUME NEW q \in Pids, Runs(q) PROVE AloneInv'
    <2> SUFFICES ASSUME NEW p \in alone' PROVE AloneOK(p)'
      BY DEF AloneInv
    <2>1. /\ p = q /\ \A y \in Actors \ {p} : Idle(y)
          /\ pc' = [pc EXCEPT ![p] = "starting"] /\ p \notin counted'
      BY <1>1 DEF Runs, Overlaps, Idle
    <2> QED
      BY <2>1 DEF AloneOK, Idle, Actors, ProcessTypeOK
  <1>2. ASSUME NEW s \in Stops, FindsPidFile(s) PROVE AloneInv'
    <2>1. alone' = {}
      BY <1>2, NamesAssumption DEF FindsPidFile, Overlaps
    <2> QED
      BY <2>1 DEF AloneInv
  <1>3. ASSUME NEW q \in Pids, TakenByAnother(q) PROVE AloneInv'
    BY <1>3 DEF TakenByAnother, AloneInv, AloneOK, Idle, Actors, ProcessTypeOK,
        pidVars, fileVars, connVars, historyVars
  <1>4. ASSUME NEW s \in Stops, StopSteps(s) PROVE AloneInv'
    <2>1. alone' = alone /\ ~Idle(s)
      BY <1>4 DEF StopSteps, ReadsPid, ReadFails, Kills, KillFails, FinallyBlock, SeeksCount,
          SeeksPid, Seeks, RemovesCount, RemovesPidFile, RemoveRaises, historyVars, Idle
    <2>2. alone = {}
      BY <2>1, NamesAssumption DEF AloneInv, AloneOK, Actors, ProcessTypeOK
    <2> QED
      BY <2>1, <2>2 DEF AloneInv
  <1>5. ASSUME NEW q \in Pids, Dies(q) \/ (Server(q) /\ ~Runs(q)) PROVE AloneInv'
    <2> SUFFICES ASSUME NEW p \in alone' PROVE AloneOK(p)'
      BY DEF AloneInv
    <2>1. alone' = alone /\ ~Idle(q)
      BY <1>5 DEF Dies, Server, Binds, BindFails, OpensPidFile, WritesPid, AcceptsConnection,
          EndsConnection, EndsUncounted, WritesCount, Leaves, Counts, Interrupted, Drained,
          InterruptedAgain, FinallyBlock,
          SeeksCount, SeeksPid, Seeks, RemovesCount, RemovesPidFile, RemoveRaises,
          historyVars, Idle, Running, Finally
    <2>2. q = p /\ AloneOK(p) /\ p \in Actors
      BY <2>1 DEF AloneInv, AloneOK, Actors, ProcessTypeOK
    <2> USE <2>2 DEF AloneOK, Idle, ProcessTypeOK
    <2>3. CASE Dies(p)
      BY <2>3 DEF Dies
    <2>4. CASE BindFails(p) \/ (\E n \in Ports : Binds(p, n))
      BY <2>4 DEF BindFails, Binds, pidVars, fileVars, historyVars
    <2>5. CASE OpensPidFile(p) \/ WritesPid(p)
      BY <2>5 DEF OpensPidFile, WritesPid, historyVars
    <2>6. CASE \/ AcceptsConnection(p) \/ EndsConnection(p)
               \/ EndsUncounted(p) \/ WritesCount(p)
      <3>1. CASE AcceptsConnection(p) \/ EndsConnection(p)
        BY <3>1 DEF AcceptsConnection, EndsConnection, Leaves, Counts, pidVars
      <3>2. CASE EndsUncounted(p)
        <4>1. conns'[p] + lost'[p] = conns[p] + lost[p]
          BY <3>2 DEF EndsUncounted, Leaves
        <4> QED
          BY <3>2, <4>1 DEF EndsUncounted, pidVars, fileVars, historyVars
      <3>3. CASE WritesCount(p)
        BY <3>3 DEF WritesCount, CountInv, pidVars, connVars, historyVars
      <3> QED
        BY <2>6, <3>1, <3>2, <3>3
    <2>7. CASE Interrupted(p) \/ Drained(p) \/ InterruptedAgain(p)
      BY <2>7 DEF Interrupted, Drained, InterruptedAgain, pidVars, fileVars, connVars,
          historyVars
    <2>8. CASE FinallyBlock(p)
      BY <2>8 DEF FinallyBlock, SeeksCount, SeeksPid, Seeks, RemovesCount, RemovesPidFile,
          RemoveRaises, pidVars, fileVars, connVars, historyVars
    <2> QED
      BY <1>5, <2>3, <2>4, <2>5, <2>6, <2>7, <2>8 DEF Server
  <1>6. CASE UNCHANGED vars
    BY <1>6 DEF vars, pidVars, fileVars, connVars, historyVars, AloneInv, AloneOK, Idle
  <1> QED
    BY <1>1, <1>2, <1>3, <1>4, <1>5, <1>6 DEF Next

-----------------------------------------------------------------------------
(***************************************************************************)
(* The files that are left.                                                *)
(***************************************************************************)

\* Whoever is at work and stays at work, with the removal of the count file
\* still to come, keeps the invariant; so do others, for all they do to him.
LEMMA SomebodyRemoves ==
    ASSUME ProcessTypeOK, NEW x \in Actors, ~Idle(x)',
           pc'[x] \notin {"seekPid", "removePid"} \/ countFile' = Absent
    PROVE  RemovalInv'
  BY DEF RemovalInv, WillSeekPid, WillSeekCount, Idle

LEMMA RemovalStep == ProcessTypeOK /\ RemovalInv /\ [Next]_vars => RemovalInv'
  <1> SUFFICES ASSUME ProcessTypeOK, RemovalInv, [Next]_vars PROVE RemovalInv'
    OBVIOUS
  <1> USE DEF Goto, Idle
  <1>1. ASSUME NEW p \in Pids,
               \/ Runs(p) \/ BindFails(p) \/ (\E n \in Ports : Binds(p, n))
               \/ OpensPidFile(p) \/ WritesPid(p)
               \/ AcceptsConnection(p) \/ EndsConnection(p) \/ EndsUncounted(p)
               \/ WritesCount(p)
               \/ Interrupted(p) \/ Drained(p) \/ InterruptedAgain(p)
        PROVE  RemovalInv'
    <2>1. ~Idle(p)' /\ pc'[p] \notin {"seekPid", "removePid"} /\ p \in Actors
      BY <1>1 DEF Runs, BindFails, Binds, OpensPidFile, WritesPid, AcceptsConnection,
          EndsConnection, EndsUncounted, WritesCount, Leaves, Counts, Serving, Interrupted,
          Drained, InterruptedAgain, ProcessTypeOK, Actors
    <2> QED
      BY <2>1, SomebodyRemoves
  <1>2. ASSUME NEW s \in Stops,
               FindsPidFile(s) \/ ReadsPid(s) \/ ReadFails(s) \/ Kills(s) \/ KillFails(s)
        PROVE  RemovalInv'
    <2>1. s \in Actors /\ s \notin Pids
      BY NamesAssumption DEF Actors
    <2>2. ~Idle(s)' /\ pc'[s] \notin {"seekPid", "removePid"}
      BY <1>2, <2>1, NamesAssumption DEF FindsPidFile, ReadsPid, ReadFails, Kills, KillFails,
          ProcessTypeOK
    <2> QED
      BY <2>1, <2>2, SomebodyRemoves
  <1>3. ASSUME NEW x \in Actors, FinallyBlock(x) PROVE RemovalInv'
    <2> USE DEF ProcessTypeOK, WillSeekPid, WillSeekCount
    <2>1. CASE RemoveRaises(x)
      BY <2>1 DEF RemoveRaises, RemovalInv
    <2>2. CASE SeeksCount(x) \/ RemovesCount(x)
      <3>1. ~Idle(x)' /\ (pc'[x] \notin {"seekPid", "removePid"} \/ countFile' = Absent)
        BY <2>2 DEF SeeksCount, Seeks, RemovesCount, pidVars, fileVars
      <3> QED
        BY <3>1, SomebodyRemoves
    <2>3. CASE SeeksPid(x) \/ RemovesPidFile(x)
      <3>1. /\ countFile' = countFile /\ abandoned' = abandoned
            /\ \A y \in Actors : WillSeekCount(y) => WillSeekCount(y)'
        BY <2>3 DEF SeeksPid, Seeks, RemovesPidFile, pidVars, fileVars, historyVars
      <3>2. pidFile' # Absent => pidFile' = pidFile /\ WillSeekPid(x)'
        BY <2>3 DEF SeeksPid, Seeks, RemovesPidFile, pidVars, fileVars
      <3> QED
        BY <3>1, <3>2 DEF RemovalInv
    <2> QED
      BY <1>3, <2>1, <2>2, <2>3 DEF FinallyBlock
  <1>4. ASSUME NEW p \in Pids, Dies(p) PROVE RemovalInv'
    BY <1>4 DEF Dies, RemovalInv
  <1>5. ASSUME NEW p \in Pids, TakenByAnother(p) PROVE RemovalInv'
    <2>1. \A y \in Actors : /\ WillSeekCount(y) => WillSeekCount(y)'
                            /\ WillSeekPid(y) => WillSeekPid(y)'
      BY <1>5 DEF TakenByAnother, ProcessTypeOK, WillSeekCount, WillSeekPid
    <2> QED
      BY <1>5, <2>1 DEF TakenByAnother, RemovalInv, pidVars, fileVars, historyVars
  <1>6. CASE UNCHANGED vars
    BY <1>6 DEF vars, pidVars, fileVars, historyVars, RemovalInv, WillSeekPid, WillSeekCount
  <1>7. Pids \subseteq Actors /\ Stops \subseteq Actors
    BY DEF Actors
  <1> QED
    BY <1>1, <1>2, <1>3, <1>4, <1>5, <1>6, <1>7 DEF Next, Server, StopSteps

LEMMA Invariant == Spec => []IInv
  <1>1. IInv /\ [Next]_vars => IInv'
    BY TypeStep, CountStep, AloneStep, RemovalStep DEF IInv
  <1> QED
    BY <1>1, IInit, PTL DEF Spec, Safety

-----------------------------------------------------------------------------

\* Processes, files and commands keep their types.
THEOREM ProcessTypeCorrect == Spec => []ProcessTypeOK
  <1>1. IInv => ProcessTypeOK
    BY DEF IInv
  <1> QED
    BY <1>1, Invariant, PTL

\* The PID file and the count file are right about a server that no other
\* command has overlapped, whatever was left behind before it.
THEOREM FilesAreRight == Spec => []FilesTellOfTheServer
  <1>1. IInv => FilesTellOfTheServer
    BY DEF IInv, AloneInv, AloneOK, FilesTellOfTheServer
  <1> QED
    BY <1>1, Invariant, PTL

\* Files are left behind only by a process killed from outside, or by a finally
\* block that another one got in the way of.
THEOREM FilesAreRemoved == Spec => []LeftoverHasAReason
  <1>1. IInv => LeftoverHasAReason
    BY DEF IInv, RemovalInv, LeftoverHasAReason, WillSeekPid, WillSeekCount, Idle
  <1> QED
    BY <1>1, Invariant, PTL
=============================================================================
