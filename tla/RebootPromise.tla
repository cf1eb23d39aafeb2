--------------------------- MODULE RebootPromise ---------------------------
(***************************************************************************)
(* What the socket server promises to the client of one connection, with   *)
(* nothing of how it gets there: the modem is rebooted at most once, it is *)
(* rebooted before success is reported, it is never rebooted once failure  *)
(* has been reported, and the outcome of a connection is final.            *)
(*                                                                         *)
(* RebootServer implements this specification.                             *)
(***************************************************************************)
EXTENDS Naturals

CONSTANT Conns

VARIABLES outcome,      \* outcome[c]: how far the request of connection c has got
          rebootsDone   \* rebootsDone[c]: reboots performed on behalf of c

promiseVars == <<outcome, rebootsDone>>

Outcomes == {"open", "rebooted", "succeeded", "refused", "lost"}

PromiseInit ==
    /\ outcome = [c \in Conns |-> "open"]
    /\ rebootsDone = [c \in Conns |-> 0]

Becomes(c, before, after) ==
    /\ outcome[c] \in before
    /\ outcome' = [outcome EXCEPT ![c] = after]

Reboots(c) == rebootsDone' = [rebootsDone EXCEPT ![c] = @ + 1]

\* The modem has accepted the reboot of connection c.
DoReboot(c) == Becomes(c, {"open"}, "rebooted") /\ Reboots(c)

\* The old and the new address have been reported.
Succeed(c) == Becomes(c, {"rebooted"}, "succeeded") /\ UNCHANGED rebootsDone

\* A failure has been reported: nothing was rebooted.
Refuse(c) == Becomes(c, {"open"}, "refused") /\ UNCHANGED rebootsDone

\* The connection ends without a report, before or after a reboot ...
Lose(c) == Becomes(c, {"open", "rebooted"}, "lost") /\ UNCHANGED rebootsDone

\* ... or because the very call that rebooted the modem has failed.
LoseRebooting(c) == Becomes(c, {"open"}, "lost") /\ Reboots(c)

\* The process serving every connection dies: all that are not settled are lost.
LoseAll(S) ==
    /\ \A c \in S : outcome[c] \in {"open", "rebooted"}
    /\ outcome' = [c \in Conns |-> IF c \in S THEN "lost" ELSE outcome[c]]
    /\ UNCHANGED rebootsDone

PromiseNext ==
    \/ \E c \in Conns : \/ DoReboot(c)
                        \/ Succeed(c)
                        \/ Refuse(c)
                        \/ Lose(c)
                        \/ LoseRebooting(c)
    \/ \E S \in SUBSET Conns : LoseAll(S)

PromiseSpec == PromiseInit /\ [][PromiseNext]_promiseVars
============================================================================
