------------------------------ MODULE UserList ------------------------------
(***************************************************************************)
(* The file of proxy credentials and the commands that write it            *)
(* (cli/proxy_userlist.py): create_user_list, insert_into_user_list and    *)
(* delete_from_user_list.                                                  *)
(*                                                                         *)
(* A command is a process of its own, run by an operator.  It fetches the  *)
(* credentials from the database, reads the file, asks for confirmation    *)
(* and writes the file, with no lock: other commands, and requests to the  *)
(* users' API, may come between any two of these steps.                    *)
(*                                                                         *)
(* Creating the list and deleting from it take two system calls each.  A   *)
(* command that reads or writes the list between the two calls of another, *)
(* and a command that dies there, leave lines cut at any byte: the list is *)
(* torn, and the model does not follow it any further.                     *)
(***************************************************************************)
EXTENDS Integers, SequencesExt

CONSTANTS
    Users,          \* the users by the rank of their email addresses
    Operators,      \* who may run a command, one at a time each
    None,           \* Python's None, NULL, and "not in the database"
    MaxEdits,       \* bound: changes of the table users
    MaxCommands     \* bound: commands

ASSUME UsersAssumption == Users \subseteq Nat /\ IsFiniteSet(Users) /\ None \notin Nat
ASSUME BoundsAssumption == MaxEdits \in Nat /\ MaxCommands \in Nat

VARIABLES
    cred,           \* cred[u]: proxy login and hashed password of u
    exists, file,   \* whether the file exists, and its lines
    pc, command,    \* the step and the command of each operator
    asked,          \* the users named on the command line
    rows,           \* db_users_proxy_credentials
    seen,           \* the lines of the file as the command read them
    edits, commands,
    ever,           \* history: the credentials that users have had
    kept,           \* history: the lines inserted and not named for deletion since
    doubtful,       \* history: the lines named for deletion behind another user's
    raced,          \* history: some command has written over what it had not read
    torn            \* history: a write was met or left between its two system calls

dbVars == <<cred, edits, ever>>
fileVars == <<exists, file, kept, doubtful, raced, torn>>
commandVars == <<command, asked, commands>>
vars == <<dbVars, fileVars, commandVars, pc, rows, seen>>

\* A login or a password is new whenever it is made: it is named by its user
\* and the number of the change that made it.
Login(u, n) == <<"login", u, n>>
Hash(u, n) == <<"hash", u, n>>

Logins == {Login(u, n) : u \in Users, n \in 0 .. MaxEdits} \cup {None}
Hashes == {Hash(u, n) : u \in Users, n \in 0 .. MaxEdits} \cup {None}

\* The two columns.  proxy_password_hash_type is NULL with the password.
Creds == [login : Logins, hash : Hashes]

\* A line is "login:CR:password", or login:CL:None if there is no password.
Blank == [login |-> None, hash |-> None]

TypeOK ==
    /\ cred \in [Users -> Creds \cup {None}]
    /\ exists \in BOOLEAN
    /\ file \in Seq(Creds)
    /\ pc \in [Operators -> {"idle", "fetch", "read", "write",
                             "emptied", "overwritten", "deleted"}]
    /\ command \in [Operators -> {"none", "create", "insert", "delete"}]
    /\ asked \in [Operators -> SUBSET Users]
    /\ rows \in [Operators -> Seq(Creds)]
    /\ seen \in [Operators -> Seq(Creds)]
    /\ edits \in 0 .. MaxEdits
    /\ commands \in 0 .. MaxCommands
    /\ ever \subseteq Creds
    /\ kept \subseteq Creds
    /\ doubtful \subseteq Creds
    /\ raced \in BOOLEAN
    /\ torn \in BOOLEAN
    /\ \A o \in Operators : command[o] = "create" => pc[o] # "read"

\* Administrators and users who registered themselves have no credentials, a
\* regular user created by an administrator has a login, with or without
\* a password.
NewCreds(u, n) == {Blank, [login |-> Login(u, n), hash |-> None],
                   [login |-> Login(u, n), hash |-> Hash(u, n)]}

Init ==
    /\ cred \in [Users -> Creds \cup {None}]
    /\ \A u \in Users : cred[u] \in NewCreds(u, 0) \cup {None}
    /\ exists = FALSE
    /\ file = <<>>
    /\ pc = [o \in Operators |-> "idle"]
    /\ command = [o \in Operators |-> "none"]
    /\ asked = [o \in Operators |-> {}]
    /\ rows = [o \in Operators |-> <<>>]
    /\ seen = [o \in Operators |-> <<>>]
    /\ edits = 0
    /\ commands = 0
    /\ ever = {cred[u] : u \in Users} \ {None}
    /\ kept = {}
    /\ doubtful = {}
    /\ raced = FALSE
    /\ torn = FALSE

(***************************************************************************)
(* The users' API: create_user, update_user and delete_user.               *)
(***************************************************************************)

SetsCred(u, c) ==
    /\ edits < MaxEdits /\ ~torn
    /\ edits' = edits + 1
    /\ cred' = [cred EXCEPT ![u] = c]
    /\ ever' = ever \cup ({c} \ {None})
    /\ UNCHANGED <<fileVars, commandVars, pc, rows, seen>>

CreatesUser(u) == cred[u] = None /\ \E c \in NewCreds(u, edits + 1) : SetsCred(u, c)

\* update_proxy_login and update_proxy_password, alone or together.
UpdatesUser(u) ==
    /\ cred[u] # None
    /\ \E login \in {cred[u].login, Login(u, edits + 1)},
          hash \in {cred[u].hash, Hash(u, edits + 1)} :
             SetsCred(u, [login |-> login, hash |-> hash])

DeletesUser(u) == cred[u] # None /\ SetsCred(u, None)

(***************************************************************************)
(* The commands.                                                           *)
(***************************************************************************)

\* Between the two system calls of a write.
Mid(o) == pc[o] \in {"emptied", "overwritten"}

\* The file may be opened, read or written without meeting half a write.
Whole(o) == \A p \in Operators \ {o} : ~Mid(p)

Ends(o) ==
    /\ pc' = [pc EXCEPT ![o] = "idle"]
    /\ rows' = [rows EXCEPT ![o] = <<>>]
    /\ seen' = [seen EXCEPT ![o] = <<>>]
    /\ command' = [command EXCEPT ![o] = "none"]
    /\ asked' = [asked EXCEPT ![o] = {}]
    /\ UNCHANGED <<dbVars, commands>>

\* create_user_list goes on only without the file, the others only with it.
Begins(o, c, U) ==
    /\ pc[o] = "idle" /\ commands < MaxCommands
    /\ U # {} /\ (exists <=> c # "create")
    /\ commands' = commands + 1
    /\ command' = [command EXCEPT ![o] = c]
    /\ asked' = [asked EXCEPT ![o] = U]
    /\ pc' = [pc EXCEPT ![o] = "fetch"]
    /\ UNCHANGED <<dbVars, fileVars, rows, seen>>

\* The numbers in S from the least to the greatest.
Ascending(S) == CHOOSE s \in [1 .. Cardinality(S) -> S] :
                    \A i, j \in DOMAIN s : i < j => s[i] < s[j]

\* get_proxy_credentials_from_db: a row for every user found, by email.
Found(U) == LET known == Ascending({u \in U : cred[u] # None})
            IN  [i \in DOMAIN known |-> cred[known[i]]]

\* The columns of a row, in the order of the query.
Columns(row) == <<row.login, row.hash, IF row.hash = None THEN None ELSE <<"type">> >>

\* build_credentials_for_config raises ValueError for a user with nothing.
Refused(c, U) ==
    \/ c # "insert" /\ Len(Found(U)) # Cardinality(U)
    \/ c # "delete" /\ Blank \in Range(Found(U))
    \/ c = "delete" /\ Len(Found(U)) > Len(Columns(Blank))

MixesRows(o) ==
    LET found == Found(asked[o]) IN
    /\ pc[o] = "fetch" /\ ~Refused(command[o], asked[o])
    /\ rows' = [rows EXCEPT ![o] = [i \in DOMAIN found |->
                    [login |-> found[1].login, hash |-> found[i].hash]]]
    /\ pc' = [pc EXCEPT ![o] = IF command[o] = "create" THEN "write" ELSE "read"]
    /\ UNCHANGED <<dbVars, fileVars, commandVars, seen>>

AlwaysReads(o) ==
    /\ pc[o] = "fetch" /\ ~Refused(command[o], asked[o])
    /\ rows' = [rows EXCEPT ![o] = Found(asked[o])]
    /\ pc' = [pc EXCEPT ![o] = "read"]
    /\ UNCHANGED <<dbVars, fileVars, commandVars, seen>>

Fetches(o) ==
    /\ pc[o] = "fetch" /\ ~Refused(command[o], asked[o])
    /\ rows' = [rows EXCEPT ![o] = Found(asked[o])]
    /\ pc' = [pc EXCEPT ![o] = IF command[o] = "create" THEN "write" ELSE "read"]
    /\ UNCHANGED <<dbVars, fileVars, commandVars, seen>>

FetchFails(o) ==
    /\ pc[o] = "fetch" /\ Refused(command[o], asked[o])
    /\ Ends(o) /\ UNCHANGED fileVars

\* The text built of the rows: without rows it is an empty line.
Lines(rs) == IF rs = <<>> THEN <<Blank>> ELSE rs

DuplicateLines(o) == Range(Lines(rows[o]))

\* The text ends with a newline, so that its last piece is always empty: a
\* blank line anywhere in the file counts as a duplicate.
Duplicate(o) == Range(Lines(rows[o])) \cup {Blank}

\* {cred[index] for index, cred in enumerate(...)}: the login of the first
\* user, the password of the second and the hash type of the third.
Targets(o) == {Columns(rows[o][i])[i] : i \in DOMAIN rows[o]}

\* A line with the text None for a login is nobody's.
Matches(line, targets) == line.login # None /\ line.login \in targets

Reads(o) ==
    /\ pc[o] = "read" /\ Whole(o)
    /\ command[o] = "insert" => Range(file) \cap Duplicate(o) = {}
    /\ command[o] = "delete" => \E line \in Range(file) : Matches(line, Targets(o))
    /\ seen' = [seen EXCEPT ![o] = file]
    /\ pc' = [pc EXCEPT ![o] = "write"]
    /\ UNCHANGED <<dbVars, fileVars, commandVars, rows>>

\* "Config line is already exists", or "No credentials were found".
NothingToDo(o) ==
    /\ pc[o] = "read" /\ Whole(o)
    /\ \/ command[o] = "insert" /\ Range(file) \cap Duplicate(o) # {}
       \/ command[o] = "delete" /\ ~ \E line \in Range(file) : Matches(line, Targets(o))
    /\ Ends(o) /\ UNCHANGED fileVars

\* The operator answers no, or interrupts the command, or it may not write.
Declines(o) == pc[o] = "write" /\ Ends(o) /\ UNCHANGED fileVars

Writes(o, c, lines) ==
    /\ pc[o] = "write" /\ command[o] = c /\ Whole(o)
    /\ file' = lines
    /\ exists' = TRUE
    /\ raced' = (raced \/ file # seen[o])
    /\ UNCHANGED torn

\* write_text opens the file, which empties it, and then writes.
OpensNew(o) ==
    /\ Writes(o, "create", <<>>)
    /\ kept' = Range(rows[o]) /\ doubtful' = {}
    /\ pc' = [pc EXCEPT ![o] = "emptied"]
    /\ UNCHANGED <<dbVars, commandVars, rows, seen>>

Creates(o) ==
    /\ pc[o] = "emptied"
    /\ file' = rows[o]
    /\ Ends(o) /\ UNCHANGED <<exists, kept, doubtful, raced, torn>>

\* The file is opened again, for appending.
Inserts(o) ==
    /\ Writes(o, "insert", file \o Lines(rows[o]))
    /\ kept' = kept \cup Range(rows[o]) /\ UNCHANGED doubtful
    /\ Ends(o)

Remaining(o) ==
    LET left == Ascending({i \in DOMAIN seen[o] : ~Matches(seen[o][i], Targets(o))})
    IN  [i \in DOMAIN left |-> seen[o][left[i]]]

\* The lines that the user deletes, by the logins of the users named, and of
\* these the ones of the first of them.
Named(o, lines) == {line \in lines : line.login # None /\ \E i \in DOMAIN rows[o] : rows[o][i].login = line.login}
NamedFirst(o, lines) == {line \in lines : line.login # None /\ rows[o][1].login = line.login}

\* The file is overwritten with the lines read before, but for those to go;
\* behind them the rest of a longer file is still there.
Overwrites(o) ==
    /\ Writes(o, "delete", Remaining(o) \o SubSeq(file, Len(Remaining(o)) + 1, Len(file)))
    /\ kept' = kept \ Named(o, kept)
    /\ doubtful' = (doubtful \cup Named(o, kept)) \ NamedFirst(o, doubtful \cup kept)
    /\ pc' = [pc EXCEPT ![o] = "overwritten"]
    /\ UNCHANGED <<dbVars, commandVars, rows, seen>>

DeletesUntruncated(o) ==
    /\ pc[o] = "overwritten"
    /\ pc' = [pc EXCEPT ![o] = "deleted"]
    /\ UNCHANGED <<dbVars, fileVars, commandVars, rows, seen>>

\* truncate cuts the file off at the end of what was written.
Deletes(o) ==
    /\ pc[o] = "overwritten"
    /\ file' = SubSeq(file, 1, Len(Remaining(o)))
    /\ pc' = [pc EXCEPT ![o] = "deleted"]
    /\ UNCHANGED <<dbVars, commandVars, rows, seen, exists, kept, doubtful, raced, torn>>

\* A command opens the list, to read or to write it, between the two system
\* calls of another.
Tears(o) ==
    /\ pc[o] \in {"read", "write"} /\ ~Whole(o)
    /\ torn' = TRUE
    /\ UNCHANGED <<dbVars, commandVars, pc, rows, seen, exists, file, kept, doubtful, raced>>

\* A command dies between its two system calls, or the second one fails.
Interrupted(o) ==
    /\ Mid(o)
    /\ torn' = TRUE
    /\ Ends(o) /\ UNCHANGED <<exists, file, kept, doubtful, raced>>

\* "... credential(s) have been deleted."
Reports(o) == pc[o] = "deleted" /\ Ends(o) /\ UNCHANGED fileVars

Commands == {"create", "insert", "delete"}

Command(o) ==
    /\ ~torn
    /\ \/ \E c \in Commands, U \in SUBSET Users : Begins(o, c, U)
       \/ Fetches(o) \/ FetchFails(o)
       \/ Reads(o) \/ NothingToDo(o) \/ Declines(o)
       \/ OpensNew(o) \/ Creates(o) \/ Inserts(o)
       \/ Overwrites(o) \/ Deletes(o) \/ Reports(o)
       \/ Tears(o) \/ Interrupted(o)

Next ==
    \/ \E u \in Users : CreatesUser(u) \/ UpdatesUser(u) \/ DeletesUser(u)
    \/ \E o \in Operators : Command(o)

Spec == Init /\ [][Next]_vars

(***************************************************************************)
(* What holds of the list.                                                 *)
(***************************************************************************)

\* No write is half done, and none was met or left so.
Settled == ~torn /\ \A o \in Operators : ~Mid(o)

\* Commands may overwrite one another's work and users may change under them:
\* as long as no command meets or leaves half a write, each line of the file
\* but a blank one is the login and the password one user has had at one time.
EveryLineWasTrue == Settled => Range(file) \subseteq ever \cup {Blank}

\* The file holds each line that was inserted and that nobody has named for
\* deletion since; what it holds besides was named behind another user; and
\* no line but a blank one is there twice.
AddsUp(lines) ==
    /\ kept \subseteq Range(lines)
    /\ Range(lines) \ {Blank} \subseteq kept \cup doubtful
    /\ \A i, j \in DOMAIN lines : i # j /\ lines[i] = lines[j] => lines[i] = Blank

\* If no command has written over what it had not read, the list is the sum
\* of what the commands were asked to insert and to delete, whatever they
\* declined or refused and whatever became of the users; only a user named
\* for deletion behind another may still have a line.
ListAddsUp == Settled /\ ~raced => AddsUp(file)

\* "users (str): Comma-separated list of user emails for which credentials
\* should be deleted." (cli/proxy_userlist.py:304): when the command has
\* reported success, no line is left for any of them.
DeletesAllThatWereNamed ==
    \A o \in Operators : pc[o] = "deleted" /\ ~raced /\ ~torn =>
        \A i \in DOMAIN rows[o] : \A line \in Range(file) :
            line.login # None => line.login # rows[o][i].login
=============================================================================
