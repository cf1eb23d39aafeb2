------------------------------- MODULE Modems -------------------------------
(***************************************************************************)
(* The table of modems: the administrators' requests (modems/router.py),   *)
(* the list of links that a user is shown (get_change_ip_urls) and the     *)
(* page that a link opens (change_ip_page in modems/router_templates.py).  *)
(*                                                                         *)
(* A request sends a few statements to the database and commits once, with *)
(* the last one.  Within a worker nothing comes in between, but all the    *)
(* workers share the database, at READ COMMITTED: a statement sees what    *)
(* has been committed by then.  Every action is one statement.             *)
(***************************************************************************)
EXTENDS Integers

CONSTANTS
    Workers,         \* the web workers
    Modems, Users,   \* the ids of the two tables, each of them used once
    Ips, Emails,
    None,            \* Python's None and NULL
    MaxRequests,     \* bound: the administrators' requests about modems
    MaxEdits         \* bound: changes of the table users

ASSUME NoneAssumption ==
    None \notin Workers \cup Modems \cup Users \cup Ips \cup Emails
ASSUME LimitsAssumption == MaxRequests \in Nat /\ MaxEdits \in Nat

VARIABLES
    row, ip, owner, hash,     \* table modems; owner is bind_user_id
    user, email, token,       \* table users; token[u] counts u's tokens
    pc, op, found, to, binds, refresh, who,
                              \* a request: next step, method, db_modem, body.ip,
                              \* body.bind_user_email, body.update_hashed_value
                              \* and bind_db_user
    listing,                  \* db_user of get_change_ip_urls, as it was read
    link, opened,             \* a link shown to a user, the address of the page it opened
    requests, edits,
    moved,                    \* history: a modem was given another one's address
    overlapped,               \* history: two requests wrote one address at a time
    kept                      \* history: an address changed and the hash did not

modemVars == <<row, ip, owner, hash>>
userVars == <<user, email, token, edits>>
requestVars == <<pc, op, found, to, binds, refresh, who, requests, moved, overlapped>>
pageVars == <<listing, link, opened>>
vars == <<modemVars, userVars, requestVars, pageVars, kept>>

RowStates == {"unused", "present", "deleted"}

HashesEmail(e, i) == <<e, None>>

\* The hash of an address and an email is only ever compared: it is the pair.
HashOf(e, i) == <<e, i>>
Hashes == {HashOf(e, i) : e \in Emails, i \in Ips} \cup {None}

\* The token of user u is random: nobody else has it, and it is new each time.
Readings == [user : Users, token : Nat]
Links == [user : Users, token : Nat, ip : Ips, hash : Hashes]

Init ==
    /\ row = [m \in Modems |-> "unused"]
    /\ ip = [m \in Modems |-> None]
    /\ owner = [m \in Modems |-> None]
    /\ hash = [m \in Modems |-> None]
    /\ user = [u \in Users |-> "unused"]
    /\ email = [u \in Users |-> None]
    /\ token = [u \in Users |-> 0]
    /\ pc = [w \in Workers |-> "idle"]
    /\ op = [w \in Workers |-> "none"]
    /\ found = [w \in Workers |-> None]
    /\ to = [w \in Workers |-> None]
    /\ binds = [w \in Workers |-> None]
    /\ refresh = [w \in Workers |-> FALSE]
    /\ who = [w \in Workers |-> None]
    /\ listing = None /\ link = None /\ opened = None
    /\ requests = 0 /\ edits = 0
    /\ moved = FALSE /\ overlapped = FALSE /\ kept = FALSE

HasIp(m, i) == row[m] = "present" /\ ip[m] = i
HasEmail(u, e) == user[u] = "present" /\ email[u] = e

(***************************************************************************)
(* The users' API, as far as modems depend on it.                          *)
(***************************************************************************)

EditsUsers ==
    /\ edits < MaxEdits /\ edits' = edits + 1
    /\ UNCHANGED <<row, ip, hash, requestVars, pageVars, kept>>

\* The column email is unique.
CreatesUser(u, e) ==
    /\ user[u] = "unused" /\ \A v \in Users : ~HasEmail(v, e)
    /\ user' = [user EXCEPT ![u] = "present"]
    /\ email' = [email EXCEPT ![u] = e]
    /\ UNCHANGED <<token, owner>>
    /\ EditsUsers

UpdatesUser(u, e, renew) ==
    /\ user[u] = "present" /\ \A v \in Users \ {u} : ~HasEmail(v, e)
    /\ email' = [email EXCEPT ![u] = e]
    /\ token' = [token EXCEPT ![u] = IF renew THEN @ + 1 ELSE @]
    /\ UNCHANGED <<user, owner>>
    /\ EditsUsers

\* ON DELETE SET NULL.
DeletesUser(u) ==
    /\ user[u] = "present"
    /\ user' = [user EXCEPT ![u] = "deleted"]
    /\ owner' = [m \in Modems |-> IF owner[m] = u THEN None ELSE owner[m]]
    /\ UNCHANGED <<email, token>>
    /\ EditsUsers

(***************************************************************************)
(* The administrators' requests: the first statement.  A request that its  *)
(* first statement refuses is left out.                                    *)
(***************************************************************************)

Writing(w) == pc[w] # "idle" /\ op[w] # "delete"

\* body: the method, the modem found, the new address, the email to bind,
\* and whether to renew the hash.
Begins(w, o, m, i, e, r) ==
    /\ pc[w] = "idle" /\ requests < MaxRequests
    /\ requests' = requests + 1
    /\ pc' = [pc EXCEPT ![w] = IF e = None THEN "writes" ELSE "finds"]
    /\ op' = [op EXCEPT ![w] = o]
    /\ found' = [found EXCEPT ![w] = m]
    /\ to' = [to EXCEPT ![w] = i]
    /\ binds' = [binds EXCEPT ![w] = e]
    /\ refresh' = [refresh EXCEPT ![w] = r]
    /\ who' = [who EXCEPT ![w] = None]
    /\ overlapped' = (overlapped \/ (o # "delete" /\ \E v \in Workers : Writing(v) /\ to[v] = i))
    /\ moved' = (moved \/ (o = "update" /\ \E n \in Modems \ {m} : HasIp(n, i)))
    /\ UNCHANGED <<modemVars, userVars, pageVars, kept>>

CreatesUnchecked(w, i, e) == Begins(w, "create", None, i, e, TRUE)

\* "Modem with the given IP is already exists."
BeginsCreate(w, i, e) ==
    /\ \A m \in Modems : ~HasIp(m, i)
    /\ Begins(w, "create", None, i, e, TRUE)

\* first(): one of the modems with the address in the URL.
BeginsUpdate(w, m, i, e, r) == row[m] = "present" /\ Begins(w, "update", m, i, e, r)

BeginsDelete(w, m) == row[m] = "present" /\ Begins(w, "delete", m, ip[m], None, FALSE)

(***************************************************************************)
(* The statements that follow.                                             *)
(***************************************************************************)

Continues(w, step, u) ==
    /\ pc' = [pc EXCEPT ![w] = step]
    /\ who' = [who EXCEPT ![w] = u]
    /\ UNCHANGED <<op, found, to, binds, refresh, requests, moved, overlapped>>

Ends(w) == Continues(w, "idle", None) /\ UNCHANGED <<userVars, pageVars>>

FindsUser(w, u) ==
    /\ pc[w] = "finds" /\ HasEmail(u, binds[w])
    /\ Continues(w, "writes", u)
    /\ UNCHANGED <<modemVars, userVars, pageVars, kept>>

GoesOnWithNobody(w) ==
    /\ pc[w] = "finds" /\ \A u \in Users : ~HasEmail(u, binds[w])
    /\ Continues(w, "writes", None)
    /\ UNCHANGED <<modemVars, userVars, pageVars, kept>>

FindsNobody(w) ==
    /\ pc[w] = "finds" /\ \A u \in Users : ~HasEmail(u, binds[w])
    /\ Ends(w) /\ UNCHANGED <<modemVars, kept>>

\* The foreign key: the user may have been deleted since.
MayBind(w) == who[w] # None => user[who[w]] = "present"

InsertsDangling(w, m) ==
    /\ pc[w] = "writes" /\ op[w] = "create" /\ row[m] = "unused"
    /\ row' = [row EXCEPT ![m] = "present"]
    /\ ip' = [ip EXCEPT ![m] = to[w]]
    /\ owner' = [owner EXCEPT ![m] = who[w]]
    /\ hash' = [hash EXCEPT ![m] = IF who[w] = None THEN None ELSE HashOf(binds[w], to[w])]
    /\ Ends(w) /\ UNCHANGED kept

InsertsModem(w, m) ==
    /\ pc[w] = "writes" /\ op[w] = "create" /\ row[m] = "unused" /\ MayBind(w)
    /\ row' = [row EXCEPT ![m] = "present"]
    /\ ip' = [ip EXCEPT ![m] = to[w]]
    /\ owner' = [owner EXCEPT ![m] = who[w]]
    /\ hash' = [hash EXCEPT ![m] = IF who[w] = None THEN None ELSE HashOf(binds[w], to[w])]
    /\ Ends(w) /\ UNCHANGED kept

Renews(w) == who[w] # None /\ refresh[w]

\* UPDATE ... WHERE id = ...: the row may have changed since it was read.
UpdatesModem(w) ==
    LET m == found[w] IN
    /\ pc[w] = "writes" /\ op[w] = "update" /\ row[m] = "present" /\ MayBind(w)
    /\ ip' = [ip EXCEPT ![m] = to[w]]
    /\ owner' = [owner EXCEPT ![m] = who[w]]
    /\ hash' = [hash EXCEPT ![m] = IF Renews(w) THEN HashOf(binds[w], to[w]) ELSE @]
    /\ kept' = (kept \/ (~Renews(w) /\ hash[m] # None /\ ip[m] # to[w]))
    /\ Ends(w) /\ UNCHANGED row

\* IntegrityError; or the row was deleted, and it cannot be refreshed.
WriteFails(w) ==
    /\ pc[w] = "writes"
    /\ \/ op[w] # "delete" /\ ~MayBind(w)
       \/ op[w] = "update" /\ row[found[w]] # "present"
    /\ Ends(w) /\ UNCHANGED <<modemVars, kept>>

\* DELETE ... WHERE ip = ...: every modem with the address by then.
DeletesModems(w) ==
    /\ pc[w] = "writes" /\ op[w] = "delete"
    /\ row' = [m \in Modems |-> IF HasIp(m, to[w]) THEN "deleted" ELSE row[m]]
    /\ Ends(w) /\ UNCHANGED <<ip, owner, hash, kept>>

(***************************************************************************)
(* The list of links and the page.                                         *)
(***************************************************************************)

\* The user is read, then user.user_modems by a statement of its own.
ListsUser(u) ==
    /\ user[u] = "present"
    /\ listing' = [user |-> u, token |-> token[u]]
    /\ UNCHANGED <<modemVars, userVars, requestVars, link, opened, kept>>

\* Without a hash the link ends in "None", which no page accepts.
ListsModem(m) ==
    /\ listing # None /\ row[m] = "present" /\ owner[m] = listing.user /\ hash[m] # None
    /\ link' = [user |-> listing.user, token |-> listing.token, ip |-> ip[m], hash |-> hash[m]]
    /\ listing' = None /\ opened' = None
    /\ UNCHANGED <<modemVars, userVars, requestVars, kept>>

\* The modems that the page's query can find; it takes the first.
Matches(l, m) ==
    /\ row[m] = "present" /\ owner[m] = l.user
    /\ token[l.user] = l.token /\ hash[m] = l.hash

OpensPage(m) ==
    /\ link # None /\ Matches(link, m)
    /\ opened' = ip[m]
    /\ UNCHANGED <<modemVars, userVars, requestVars, listing, link, kept>>

Administrator ==
    \E w \in Workers :
        \/ \E i \in Ips, e \in Emails \cup {None} :
               \/ BeginsCreate(w, i, e)
               \/ \E m \in Modems, r \in BOOLEAN : BeginsUpdate(w, m, i, e, r)
        \/ \E m \in Modems : BeginsDelete(w, m) \/ InsertsModem(w, m)
        \/ \E u \in Users : FindsUser(w, u)
        \/ FindsNobody(w) \/ UpdatesModem(w) \/ WriteFails(w) \/ DeletesModems(w)

UsersApi ==
    \E u \in Users :
        \/ \E e \in Emails : CreatesUser(u, e) \/ \E r \in BOOLEAN : UpdatesUser(u, e, r)
        \/ DeletesUser(u)

Browser ==
    \/ \E u \in Users : ListsUser(u)
    \/ \E m \in Modems : ListsModem(m) \/ OpensPage(m)

Next == Administrator \/ UsersApi \/ Browser

Spec == Init /\ [][Next]_vars

(***************************************************************************)
(* What holds of the modems.                                               *)
(***************************************************************************)

\* The local variables of a request.  A statement that uses db_modem or
\* bind_db_user comes after the one that has found it.
RequestOK(w) ==
    /\ op[w] = "create" => found[w] = None
    /\ op[w] \in {"update", "delete"} => found[w] \in Modems
    /\ pc[w] = "finds" => binds[w] # None
    /\ pc[w] = "writes" => (who[w] = None <=> binds[w] = None)
    /\ pc[w] # "idle" => op[w] # "none" /\ to[w] \in Ips

\* Types, and no request uses a local variable that it has not assigned.
TypeOK ==
    /\ row \in [Modems -> RowStates]
    /\ ip \in [Modems -> Ips \cup {None}]
    /\ \A m \in Modems : row[m] = "present" => ip[m] \in Ips
    /\ owner \in [Modems -> Users \cup {None}]
    /\ hash \in [Modems -> Hashes]
    /\ user \in [Users -> RowStates]
    /\ email \in [Users -> Emails \cup {None}]
    /\ token \in [Users -> Nat]
    /\ pc \in [Workers -> {"idle", "finds", "writes"}]
    /\ op \in [Workers -> {"none", "create", "update", "delete"}]
    /\ found \in [Workers -> Modems \cup {None}]
    /\ to \in [Workers -> Ips \cup {None}]
    /\ binds \in [Workers -> Emails \cup {None}]
    /\ refresh \in [Workers -> BOOLEAN]
    /\ who \in [Workers -> Users \cup {None}]
    /\ listing \in Readings \cup {None}
    /\ link \in Links \cup {None}
    /\ opened \in Ips \cup {None}
    /\ requests \in 0 .. MaxRequests /\ edits \in 0 .. MaxEdits
    /\ moved \in BOOLEAN /\ overlapped \in BOOLEAN /\ kept \in BOOLEAN
    /\ \A w \in Workers : RequestOK(w)

\* A modem is bound to a user that is there, whoever is deleted while a
\* request that has looked the user up is about to write the modem.
BoundToSomebody ==
    \A m \in Modems : row[m] = "present" /\ owner[m] # None => user[owner[m]] = "present"

\* Two modems with one address, which no statement of the database forbids,
\* go back to an administrator who gave a modem another one's address, or to
\* two requests at the same time.  Without them and without an update that
\* changed an address and not the hash, the hashes differ too.
TwinsHaveAReason ==
    ~moved /\ ~overlapped =>
        \A m, n \in Modems :
            m # n /\ row[m] = "present" /\ row[n] = "present" =>
                /\ ip[m] # ip[n]
                /\ ~kept => hash[m] = None \/ hash[m] # hash[n]

\* However old a link is, and whatever has happened to the modems since, the
\* page it opens is that of a modem with the address shown with the link, as
\* long as no update has changed an address without the hash.
LinkOpensListedIp == ~kept /\ opened # None => opened = link.ip
=============================================================================
