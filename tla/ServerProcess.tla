--------------------------- MODULE ServerProcess ---------------------------
(***************************************************************************)
(* The commands `run` and `stop` of the socket server as processes of the  *)
(* operating system (cli/socket_server.py), with the two files through     *)
(* which they find one another: the PID file and the count file.           *)
(*                                                                         *)
(* Nothing excludes two of these commands.  Processes interleave at every  *)
(* system call that reads or changes a file, a port or a process.  What    *)
(* the server does for its connections is in RebootServer; here they are   *)
(* only counted, for the count file.  The numbers in a file are taken to be*)
(* of the same length: of two writers, what the later one writes is there. *)
(***************************************************************************)
EXTENDS Integers

CONSTANTS
    Pids,           \* process ids, used again when a process has ended
    Stops,          \* invocations of `stop`
    Ports,          \* the ports given to `run`
    Absent, Empty,  \* a file that is not there; one opened but not yet written
    Nobody,         \* no process id
    MaxConns,       \* bound: connections of a server at a time
    MaxEvents       \* bound: commands, signals, foreign processes, connections reset

ASSUME NamesAssumption ==
    /\ Absent # Empty
    /\ {Absent, Empty, Nobody} \cap (Pids \cup Stops) = {}
    /\ {Absent, Empty} \cap Nat = {}
    /\ Nobody \notin Ports
    /\ Pids \cap Stops = {}
ASSUME LimitsAssumption == MaxConns \in Nat /\ MaxEvents \in Nat

VARIABLES
    pc,         \* pc[x]: where the process or the command x is
    port,       \* port[p]: the port p listens on, or Nobody
    ours,       \* the processes the user of `stop` may send signals to
    pidFile,    \* content of PID_FILE
    pidOpen,    \* the servers that have the present PID_FILE open for writing
    countFile,  \* content of CONN_COUNT_FILE
    counting,   \* the servers that have it open for writing
    counter,    \* counter[p]: _conn_id_counter
    conns,      \* conns[p]: the connections that p serves
    pid,        \* pid[s]: the local variable of `stop`
    events,     \* counts what MaxEvents bounds
    alone,      \* history: the server that no other command has overlapped
    counted,    \* history: servers that have opened the count file
    lost,       \* history: lost[p], connections of p that ended uncounted
    abandoned   \* history: something ended without removing the files

pidVars == <<pidFile, pidOpen>>
fileVars == <<pidVars, countFile, counting>>
connVars == <<counter, conns, lost>>
historyVars == <<alone, counted, abandoned>>
vars == <<pc, port, ours, fileVars, connVars, pid, events, historyVars>>

Actors == Pids \cup Stops

\* The finally blocks of `run` and `stop`, which are the same: look for the
\* count file, remove it, look for the PID file, remove it.
Finally == {"seekCount", "removeCount", "seekPid", "removePid"}
Serving == {"serving", "draining"}
Running == {"starting", "bound", "opened", "cancelled"} \cup Serving \cup Finally

ProcessTypeOK ==
    /\ pc \in [Actors -> Running \cup {"free", "foreign", "found", "kill"}]
    /\ port \in [Pids -> Ports \cup {Nobody}]
    /\ ours \subseteq Pids
    /\ pidFile \in Pids \cup {Absent, Empty}
    /\ pidOpen \subseteq Pids
    /\ countFile \in Nat \cup {Absent, Empty}
    /\ counting \subseteq Pids
    /\ counter \in [Pids -> 0 .. MaxConns]
    /\ conns \in [Pids -> 0 .. MaxConns] /\ lost \in [Pids -> 0 .. MaxConns]
    /\ pid \in [Stops -> Pids \cup {Nobody}]
    /\ events \in 0 .. MaxEvents
    /\ alone \subseteq Pids /\ counted \subseteq Pids
    /\ abandoned \in BOOLEAN

Init ==
    /\ pc = [x \in Actors |-> "free"]
    /\ port = [p \in Pids |-> Nobody]
    /\ ours = {}
    /\ pidFile = Absent
    /\ pidOpen = {}
    /\ countFile = Absent
    /\ counting = {}
    /\ counter = [p \in Pids |-> 0]
    /\ conns = [p \in Pids |-> 0] /\ lost = [p \in Pids |-> 0]
    /\ pid = [s \in Stops |-> Nobody]
    /\ events = 0
    /\ alone = {} /\ counted = {}
    /\ abandoned = FALSE

Goto(x, from, to) == pc[x] \in from /\ pc' = [pc EXCEPT ![x] = to]

Event == events < MaxEvents /\ events' = events + 1

\* A command begins: no server is alone any more, and a new one is if nothing
\* else is going on.
Overlaps(x) ==
    alone' = IF \A y \in Actors \ {x} : pc[y] \in {"free", "foreign"}
             THEN {x} \cap Pids ELSE {}

(***************************************************************************)
(* `run`.                                                                  *)
(***************************************************************************)

\* The process exists, on a PID that is free.
Runs(p) ==
    /\ Event
    /\ Goto(p, {"free"}, "starting")
    /\ ours' \in {ours, ours \cup {p}}
    /\ counted' = counted \ {p}
    /\ Overlaps(p)
    /\ UNCHANGED <<port, fileVars, connVars, pid, abandoned>>

\* asyncio.start_server.
Binds(p, n) ==
    /\ \A q \in Pids : port[q] # n
    /\ Goto(p, {"starting"}, "bound")
    /\ port' = [port EXCEPT ![p] = n]
    /\ UNCHANGED <<ours, fileVars, connVars, pid, events, historyVars>>

\* The port is taken, the host is unknown, or Ctrl+C came: on to finally.
BindFails(p) ==
    /\ Goto(p, {"starting"}, "seekCount")
    /\ UNCHANGED <<port, ours, fileVars, connVars, pid, events, historyVars>>

\* _save_pid: write_text opens the file, which empties it, ...
OpensPidFile(p) ==
    /\ Goto(p, {"bound"}, "opened")
    /\ pidFile' = Empty
    /\ pidOpen' = pidOpen \cup {p}
    /\ UNCHANGED <<port, ours, countFile, counting, connVars, pid, events, historyVars>>

\* ... and writes.  If the file has been removed in between, what is written
\* is lost with it.
WritesPid(p) ==
    /\ Goto(p, {"opened"}, "serving")
    /\ pidFile' = IF p \in pidOpen THEN p ELSE pidFile
    /\ pidOpen' = pidOpen \ {p}
    /\ UNCHANGED <<port, ours, countFile, counting, connVars, pid, events, historyVars>>

\* _get_conn_id: the counter changes, and write_text empties the file ...
Counts(p, n) ==
    /\ p \notin counting
    /\ counter' = [counter EXCEPT ![p] = n]
    /\ countFile' = Empty
    /\ counting' = counting \cup {p}
    /\ counted' = counted \cup {p}
    /\ UNCHANGED <<pc, port, ours, pidVars, lost, pid, events, alone, abandoned>>

\* ... and writes it.
WritesCount(p) ==
    /\ p \in counting /\ pc[p] \in Serving \cup {"cancelled"}
    /\ countFile' = counter[p]
    /\ counting' = counting \ {p}
    /\ UNCHANGED <<pc, port, ours, pidVars, connVars, pid, events, historyVars>>

AcceptsConnection(p) ==
    /\ pc[p] = "serving" /\ counter[p] < MaxConns
    /\ Counts(p, counter[p] + 1)
    /\ conns' = [conns EXCEPT ![p] = @ + 1]

\* A connection ends.
Leaves(p) ==
    /\ pc[p] \in Serving \cup {"cancelled"} /\ conns[p] > 0
    /\ conns' = [conns EXCEPT ![p] = @ - 1]

CountsUpOnly(p) ==
    /\ Leaves(p) /\ p \notin counting
    /\ counter' = [counter EXCEPT ![p] = @ - 1]
    /\ UNCHANGED <<pc, port, ours, fileVars, lost, pid, events, historyVars>>

CleansUpTwice(p) == Leaves(p) /\ Counts(p, counter[p] - 2)

EndsConnection(p) == Leaves(p) /\ Counts(p, counter[p] - 1)

\* wait_closed raises, for a connection that was reset: no _clean_up.
EndsUncounted(p) ==
    /\ Event
    /\ Leaves(p) /\ p \notin counting
    /\ lost' = [lost EXCEPT ![p] = @ + 1]
    /\ UNCHANGED <<pc, port, ours, fileVars, counter, pid, historyVars>>

\* Ctrl+C cancels the main task, which goes on when the handlers let it: the
\* port is closed, and wait_closed waits for the connections.
Interrupted(p) ==
    /\ Event
    /\ p \notin counting
    /\ Goto(p, {"serving"}, "draining")
    /\ port' = [port EXCEPT ![p] = Nobody]
    /\ UNCHANGED <<ours, fileVars, connVars, pid, historyVars>>

\* Ctrl+C again is a KeyboardInterrupt, wherever the server is: a count that is
\* not written yet never is.  The handlers are cancelled, and each cleans up.
InterruptedAgain(p) ==
    /\ Event
    /\ Goto(p, {"draining"}, "cancelled")
    /\ counting' = counting \ {p}
    /\ UNCHANGED <<port, ours, pidVars, countFile, connVars, pid, historyVars>>

\* All handlers have ended, and the event loop with them; nobody counts any more.
Drained(p) ==
    /\ conns[p] = 0 /\ p \notin counting
    /\ Goto(p, {"draining", "cancelled"}, "seekCount")
    /\ counter' = [counter EXCEPT ![p] = 0]
    /\ lost' = [lost EXCEPT ![p] = 0]
    /\ UNCHANGED <<port, ours, fileVars, conns, pid, events, historyVars>>

(***************************************************************************)
(* `stop`.                                                                 *)
(***************************************************************************)

\* Without a PID file, `stop` says so and returns: nothing changes.
FindsPidFile(s) ==
    /\ Event
    /\ pidFile # Absent
    /\ Goto(s, {"free"}, "found")
    /\ Overlaps(s)
    /\ UNCHANGED <<port, ours, fileVars, connVars, pid, counted, abandoned>>

ReadsPid(s) ==
    /\ pidFile \in Pids
    /\ Goto(s, {"found"}, "kill")
    /\ pid' = [pid EXCEPT ![s] = pidFile]
    /\ UNCHANGED <<port, ours, fileVars, connVars, events, historyVars>>

\* No number in it (ValueError), or no file any more: on to finally.
ReadFails(s) ==
    /\ pidFile \notin Pids
    /\ Goto(s, {"found"}, "seekCount")
    /\ UNCHANGED <<port, ours, fileVars, connVars, pid, events, historyVars>>

Exists(p) == pc[p] # "free"

\* A process ends, wherever it is: its memory, files and ports go with it.
Vanishes(p) ==
    /\ port' = [port EXCEPT ![p] = Nobody]
    /\ ours' = ours \ {p}
    /\ pidOpen' = pidOpen \ {p}
    /\ counting' = counting \ {p}
    /\ counter' = [counter EXCEPT ![p] = 0]
    /\ conns' = [conns EXCEPT ![p] = 0]
    /\ lost' = [lost EXCEPT ![p] = 0]

SendsNothing(s) ==
    /\ Goto(s, {"kill"}, "seekCount")
    /\ UNCHANGED <<port, ours, fileVars, connVars, pid, events, historyVars>>

\* os.kill: SIGTERM ends whatever has that PID, a server without its finally.
Kills(s) ==
    /\ pc[s] = "kill" /\ Exists(pid[s]) /\ pid[s] \in ours
    /\ pc' = [pc EXCEPT ![s] = "seekCount", ![pid[s]] = "free"]
    /\ Vanishes(pid[s])
    /\ UNCHANGED <<pidFile, countFile, pid, events, historyVars>>

\* ProcessLookupError or PermissionError, both only logged.
KillFails(s) ==
    /\ pc[s] = "kill" /\ (~Exists(pid[s]) \/ pid[s] \notin ours)
    /\ Goto(s, {"kill"}, "seekCount")
    /\ UNCHANGED <<port, ours, fileVars, connVars, pid, events, historyVars>>

(***************************************************************************)
(* The finally blocks.                                                     *)
(***************************************************************************)

Seeks(x, at, file, remove, next) ==
    /\ Goto(x, {at}, IF file = Absent THEN next ELSE remove)
    /\ ours' = IF pc'[x] = "free" THEN ours \ {x} ELSE ours
    /\ UNCHANGED <<port, fileVars, connVars, pid, events, historyVars>>

SeeksCount(x) == Seeks(x, "seekCount", countFile, "removeCount", "seekPid")
SeeksPid(x) == Seeks(x, "seekPid", pidFile, "removePid", "free")

\* What is still written to the file is lost with it.
RemovesCount(x) ==
    /\ countFile # Absent
    /\ Goto(x, {"removeCount"}, "seekPid")
    /\ countFile' = Absent
    /\ counting' = {}
    /\ UNCHANGED <<port, ours, pidVars, connVars, pid, events, historyVars>>

KeepsPidFile(x) ==
    /\ pidFile # Absent
    /\ Goto(x, {"removePid"}, "free")
    /\ ours' = ours \ {x}
    /\ UNCHANGED <<port, fileVars, connVars, pid, events, historyVars>>

RemovesPidFile(x) ==
    /\ pidFile # Absent
    /\ Goto(x, {"removePid"}, "free")
    /\ pidFile' = Absent
    /\ pidOpen' = {}
    /\ ours' = ours \ {x}
    /\ UNCHANGED <<port, countFile, counting, connVars, pid, events, historyVars>>

\* Another command has removed the file since it was seen: os.remove raises
\* FileNotFoundError, and the rest of the block is skipped.
RemoveRaises(x) ==
    /\ \/ pc[x] = "removeCount" /\ countFile = Absent
       \/ pc[x] = "removePid" /\ pidFile = Absent
    /\ Goto(x, {"removeCount", "removePid"}, "free")
    /\ ours' = ours \ {x}
    /\ abandoned' = TRUE
    /\ UNCHANGED <<port, fileVars, connVars, pid, events, alone, counted>>

(***************************************************************************)
(* The rest of the system.                                                 *)
(***************************************************************************)

\* The server is killed from outside: out of memory, the end of its container.
Dies(p) ==
    /\ Event
    /\ Goto(p, Running, "free")
    /\ Vanishes(p)
    /\ abandoned' = TRUE
    /\ UNCHANGED <<pidFile, countFile, pid, alone, counted>>

\* The PID goes to a process that has nothing to do with the server.
TakenByAnother(p) ==
    /\ Event
    /\ Goto(p, {"free"}, "foreign")
    /\ ours' \in {ours, ours \cup {p}}
    /\ UNCHANGED <<port, fileVars, connVars, pid, historyVars>>

(***************************************************************************)
(* The specification.                                                      *)
(***************************************************************************)

FinallyBlock(x) ==
    \/ SeeksCount(x) \/ RemovesCount(x) \/ SeeksPid(x) \/ RemovesPidFile(x)
    \/ RemoveRaises(x)

Server(p) ==
    \/ Runs(p) \/ (\E n \in Ports : Binds(p, n)) \/ BindFails(p) \/ OpensPidFile(p) \/ WritesPid(p)
    \/ AcceptsConnection(p) \/ EndsConnection(p) \/ EndsUncounted(p) \/ WritesCount(p)
    \/ Interrupted(p) \/ InterruptedAgain(p) \/ Drained(p)
    \/ FinallyBlock(p)

StopSteps(s) ==
    \/ ReadsPid(s) \/ ReadFails(s) \/ Kills(s) \/ KillFails(s) \/ FinallyBlock(s)

Next ==
    \/ \E p \in Pids : Server(p) \/ Dies(p) \/ TakenByAnother(p)
    \/ \E s \in Stops : FindsPidFile(s) \/ StopSteps(s)

Safety == Init /\ [][Next]_vars

\* A `stop` that has begun goes on; nobody has to begin one.
Spec == Safety /\ \A s \in Stops : WF_vars(StopSteps(s))

(***************************************************************************)
(* What the files are good for.                                            *)
(***************************************************************************)

\* A server that no other command has overlapped can be found and stopped: the
\* PID file is its own.  Once it has counted, and but for the moments of writing,
\* the count file is the number of its connections and of those that ended with
\* an error, which are counted for ever.  This holds whatever files earlier
\* servers and commands have left behind.
FilesTellOfTheServer ==
    \A p \in alone :
        /\ pc[p] \in Serving => pidFile = p
        /\ pc[p] \in Serving /\ p \in counted \ counting
               => countFile = conns[p] + lost[p]

\* When no command is at work, no file is left, unless a server was killed from
\* outside or the finally blocks of two commands got in each other's way.
LeftoverHasAReason ==
    /\ \A x \in Actors : pc[x] \in {"free", "foreign"}
    /\ ~abandoned
    => pidFile = Absent /\ countFile = Absent

\* A `stop` that has found the file of a server of its user ends that server,
\* unless the file has changed by the time `stop` reads it.
StopEndsTheServer ==
    \A s \in Stops, p \in Pids :
        pc[s] = "found" /\ pidFile = p /\ pc[p] \in Running /\ p \in ours
            ~> pc[p] \notin Running \/ (pc[s] = "found" /\ pidFile # p)
=============================================================================
