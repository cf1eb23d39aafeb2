------------------------------ MODULE Accounts ------------------------------
(***************************************************************************)
(* The life of an account: registration, the administrators' creation of   *)
(* users, Google's login, verification of the address by a mailed code,    *)
(* change and removal (auth/router_api.py, auth/otp, users/router.py).     *)
(*                                                                         *)
(* Every worker process of the web server handles one request at a time:   *)
(* the handlers modelled here do not await anything between their first    *)
(* and their last statement to the database.  Requests in different        *)
(* workers interleave between those statements.  Every action below is one *)
(* statement with its commit, the first one of a request also its          *)
(* validation.  Requests that are refused by that validation change        *)
(* nothing and are left out.                                               *)
(***************************************************************************)
EXTENDS EmailSender, FiniteSets

CONSTANTS
    Ids,           \* primary keys of the table users, never used again
    MaxEvents      \* bound: updates and removals of accounts, deaths of workers

ASSUME AccountsAssumption ==
    /\ None \notin Ids
    /\ IsFiniteSet(Processes)
    /\ MaxEvents \in Nat

\* A code is identified with the mail that carries it: the row of table otp
\* and the mail are made by the same call of send_otp_email_handler.
Otps == Mails
Workers == Processes
Emails == Addresses

\* The token of an account by its version.  Administrators have NULL.
NullToken == 0
Versions == Nat

VARIABLES
    row,         \* row[u]: whether the row of u is in the table
    email,       \* email[u]: its column email, unique
    token,       \* token[u]: its column token
    verified,    \* verified[u]: its column is_verified
    otp,         \* otp[o]: the row of o, and whether its time has run out
    owner,       \* owner[o]: its column user_id
    op,          \* op[w]: the next statement of worker w
    who, code,   \* its local variables: user, db_otp_hashed,
    addr, tok,   \*   email, token,
    seen,        \*   and is_verified as it was read
    events,      \* counts what MaxEvents bounds
    entered,     \* history: <<o, e>>, the code o entered by the reader of e
    accepted     \* history: how often the answer to code o was "success"

tableVars == <<row, email, token, verified>>
otpVars == <<otp, owner>>
localVars == <<who, code, addr, tok, seen>>
historyVars == <<entered, accepted>>
vars == <<mailVars, tableVars, otpVars, op, localVars, events, historyVars>>

Ops == {"idle", "insertUser", "lookUp", "insertOtp", "markVerified", "reload",
        "deleteOtp", "deleteExpired", "update", "delete"}

Confirming == {"markVerified", "reload", "deleteOtp"}

\* What the next statement of a worker uses has been assigned.
LocalsAreBound(w) ==
    /\ op[w] \in Confirming \cup {"deleteExpired"} => code[w] \in Otps
    /\ op[w] \in Confirming \cup {"insertOtp", "update"} => who[w] \in Ids
    /\ op[w] \in {"insertUser", "insertOtp", "delete"} => addr[w] \in Emails

TableTypeOK ==
    /\ row \in [Ids -> {"unused", "present", "deleted"}]
    /\ email \in [Ids -> Emails \cup {None}]
    /\ token \in [Ids -> Versions]
    /\ verified \in [Ids -> BOOLEAN]
    /\ \A u \in Ids : row[u] = "present" => email[u] \in Emails

OtpTypeOK ==
    /\ otp \in [Otps -> {"unused", "valid", "expired", "deleted"}]
    /\ owner \in [Otps -> Ids \cup {None}]

LocalTypeOK ==
    /\ op \in [Workers -> Ops]
    /\ who \in [Workers -> Ids \cup {None}]
    /\ code \in [Workers -> Otps \cup {None}]
    /\ addr \in [Workers -> Emails \cup {None}]
    /\ tok \in [Workers -> Versions]
    /\ seen \in [Workers -> BOOLEAN]
    /\ \A w \in Workers : LocalsAreBound(w)

TypeOK ==
    /\ MailTypeOK /\ TableTypeOK /\ OtpTypeOK /\ LocalTypeOK
    /\ events \in 0 .. MaxEvents
    /\ entered \subseteq Otps \X Emails
    /\ accepted \in [Otps -> Nat]

Init ==
    /\ MailInit
    /\ row = [u \in Ids |-> "unused"]
    /\ email = [u \in Ids |-> None]
    /\ token = [u \in Ids |-> NullToken]
    /\ verified = [u \in Ids |-> FALSE]
    /\ otp = [o \in Otps |-> "unused"]
    /\ owner = [o \in Otps |-> None]
    /\ op = [w \in Workers |-> "idle"]
    /\ who = [w \in Workers |-> None]
    /\ code = [w \in Workers |-> None]
    /\ addr = [w \in Workers |-> None]
    /\ tok = [w \in Workers |-> NullToken]
    /\ seen = [w \in Workers |-> FALSE]
    /\ events = 0
    /\ entered = {}
    /\ accepted = [o \in Otps |-> 0]

Present == {u \in Ids : row[u] = "present"}
Taken(e) == \E u \in Present : email[u] = e

Step(w, from, next) == op[w] = from /\ op' = [op EXCEPT ![w] = next]

\* The local variables of a request that has been answered are forgotten.
Answer(w, from) ==
    /\ op[w] \in from
    /\ op' = [op EXCEPT ![w] = "idle"]
    /\ who' = [who EXCEPT ![w] = None]
    /\ code' = [code EXCEPT ![w] = None]
    /\ addr' = [addr EXCEPT ![w] = None]
    /\ tok' = [tok EXCEPT ![w] = NullToken]
    /\ seen' = [seen EXCEPT ![w] = FALSE]

(***************************************************************************)
(* Creation: register_user, create_user, and google_login with             *)
(* create_user_from_google.                                                *)
(***************************************************************************)

\* get_user_by_email has found nobody.  The three begin alike; what they insert
\* tells which it was.
BeginsCreation(w, e) ==
    /\ ~Taken(e)
    /\ Step(w, "idle", "insertUser")
    /\ addr' = [addr EXCEPT ![w] = e]
    /\ UNCHANGED <<mailVars, tableVars, otpVars, who, code, tok, seen, events,
                   historyVars>>

\* The row as it is committed: never verified, because create_user_from_google
\* sets is_verified after the commit and nobody commits again.
NewRow(w, u, t) ==
    /\ row[u] = "unused"
    /\ row' = [row EXCEPT ![u] = "present"]
    /\ email' = [email EXCEPT ![u] = addr[w]]
    /\ token' = [token EXCEPT ![u] = t]
    /\ UNCHANGED verified

UncheckedInsert(w, u) ==
    /\ NewRow(w, u, 1)
    /\ Step(w, "insertUser", "lookUp")
    /\ who' = [who EXCEPT ![w] = u]
    /\ tok' = [tok EXCEPT ![w] = 1]
    /\ UNCHANGED <<mailVars, otpVars, code, addr, seen, events, historyVars>>

InsertsUser(w, u) ==
    /\ ~Taken(addr[w])
    /\ NewRow(w, u, 1)
    /\ Step(w, "insertUser", "lookUp")
    /\ who' = [who EXCEPT ![w] = u]
    /\ tok' = [tok EXCEPT ![w] = 1]
    /\ UNCHANGED <<mailVars, otpVars, code, addr, seen, events, historyVars>>

InsertsAdmin(w, u) ==
    /\ ~Taken(addr[w])
    /\ NewRow(w, u, NullToken)
    /\ Step(w, "insertUser", "lookUp")
    /\ who' = [who EXCEPT ![w] = u]
    /\ tok' = [tok EXCEPT ![w] = NullToken]
    /\ UNCHANGED <<mailVars, otpVars, code, addr, seen, events, historyVars>>

InsertsGoogleUser(w, u) ==
    /\ ~Taken(addr[w])
    /\ NewRow(w, u, 1)
    /\ Answer(w, {"insertUser"})
    /\ UNCHANGED <<mailVars, otpVars, events, historyVars>>

\* The address has been taken since it was looked up: the unique constraint
\* raises IntegrityError.
InsertFails(w) ==
    /\ op[w] = "insertUser" /\ Taken(addr[w])
    /\ Answer(w, {"insertUser"})
    /\ UNCHANGED <<mailVars, tableVars, otpVars, events, historyVars>>

(***************************************************************************)
(* send_otp_email_handler: called by the two creations above, and by       *)
(* send_otp_email with a token that has arrived somewhere.                 *)
(***************************************************************************)

\* The token has come with a verification mail, or with one of reset_password,
\* to whoever reads it.  The schema of the request wants 32 characters: the
\* link of an administrator, which says None, is refused.  A token that has
\* been renewed since, or whose account is gone, has no effect.
AsksForAnotherCode(w, u) ==
    /\ u \in Present /\ token[u] # NullToken
    /\ Step(w, "idle", "lookUp")
    /\ who' = [who EXCEPT ![w] = u]
    /\ tok' = [tok EXCEPT ![w] = token[u]]
    /\ UNCHANGED <<mailVars, tableVars, otpVars, code, addr, seen, events,
                   historyVars>>

\* User.token == user_token.  With None it is "token IS NULL", which any
\* administrator meets.
Meets(w, u) ==
    /\ u \in Present /\ token[u] = tok[w]
    /\ tok[w] # NullToken => u = who[w]

\* The address is read now, unless the session of the request still holds the
\* object it has inserted: create_user's does, with the address of that moment.
\* The token is not looked at again.
LooksUp(w, u) ==
    /\ Meets(w, u)
    /\ Step(w, "lookUp", "insertOtp")
    /\ who' = [who EXCEPT ![w] = u]
    /\ \/ addr' = [addr EXCEPT ![w] = email[u]]
       \/ u = who[w] /\ addr[w] # None /\ UNCHANGED addr
    /\ tok' = [tok EXCEPT ![w] = NullToken]
    /\ UNCHANGED <<mailVars, tableVars, otpVars, code, seen, events, historyVars>>

\* Nobody has that token any more: the answer is 200 all the same.
LooksUpNobody(w) ==
    /\ \A u \in Ids : ~Meets(w, u)
    /\ Answer(w, {"lookUp"})
    /\ UNCHANGED <<mailVars, tableVars, otpVars, events, historyVars>>

InsertsOrphan(w, o) ==
    /\ otp[o] = "unused"
    /\ otp' = [otp EXCEPT ![o] = "valid"]
    /\ owner' = [owner EXCEPT ![o] = who[w]]
    /\ Queue(o, w, addr[w])
    /\ Answer(w, {"insertOtp"})
    /\ UNCHANGED <<tableVars, events, historyVars>>

\* create_otp commits the code, and the mail becomes a background task.
InsertsOtp(w, o) ==
    /\ who[w] \in Present
    /\ otp[o] = "unused"
    /\ otp' = [otp EXCEPT ![o] = "valid"]
    /\ owner' = [owner EXCEPT ![o] = who[w]]
    /\ Queue(o, w, addr[w])
    /\ Answer(w, {"insertOtp"})
    /\ UNCHANGED <<tableVars, events, historyVars>>

\* The user has been deleted since: the foreign key raises IntegrityError.
InsertOtpFails(w) ==
    /\ op[w] = "insertOtp" /\ who[w] \notin Present
    /\ Answer(w, {"insertOtp"})
    /\ UNCHANGED <<mailVars, tableVars, otpVars, events, historyVars>>

(***************************************************************************)
(* compare_codes, called by the reader of address e with the code and the  *)
(* id of a mail.  The token of the body is compared with nothing, so that  *)
(* of an administrator's mail need not be the one it says.                 *)
(***************************************************************************)

Expires(o) ==
    /\ otp[o] = "valid"
    /\ otp' = [otp EXCEPT ![o] = "expired"]
    /\ UNCHANGED <<mailVars, tableVars, owner, op, localVars, events,
                   historyVars>>

IgnoresExpiry(w, o, e) ==
    /\ o \in inbox[e]
    /\ otp[o] \in {"valid", "expired"}
    /\ Step(w, "idle", "markVerified")
    /\ who' = [who EXCEPT ![w] = owner[o]]
    /\ code' = [code EXCEPT ![w] = o]
    /\ seen' = [seen EXCEPT ![w] = verified[owner[o]]]
    /\ entered' = IF otp[o] = "valid" THEN entered \cup {<<o, e>>} ELSE entered
    /\ UNCHANGED <<mailVars, tableVars, otpVars, addr, tok, events, accepted>>

\* The row is there and its time has not run out.
FindsCode(w, o, e) ==
    /\ o \in inbox[e]
    /\ otp[o] = "valid"
    /\ Step(w, "idle", "markVerified")
    /\ who' = [who EXCEPT ![w] = owner[o]]
    /\ code' = [code EXCEPT ![w] = o]
    /\ seen' = [seen EXCEPT ![w] = verified[owner[o]]]
    /\ entered' = entered \cup {<<o, e>>}
    /\ UNCHANGED <<mailVars, tableVars, otpVars, addr, tok, events, accepted>>

FindsExpiredCode(w, o, e) ==
    /\ o \in inbox[e]
    /\ otp[o] = "expired"
    /\ Step(w, "idle", "deleteExpired")
    /\ code' = [code EXCEPT ![w] = o]
    /\ UNCHANGED <<mailVars, tableVars, otpVars, who, addr, tok, seen, events,
                   historyVars>>

RemoveOtp(w) ==
    /\ otp' = [otp EXCEPT ![code[w]] = "deleted"]
    /\ UNCHANGED owner

DeletesExpired(w) ==
    /\ op[w] = "deleteExpired"
    /\ RemoveOtp(w)
    /\ Answer(w, {"deleteExpired"})
    /\ UNCHANGED <<mailVars, tableVars, events, historyVars>>

\* setattr and commit.  If is_verified was read as True nothing is written.
MarksVerified(w) ==
    /\ Step(w, "markVerified", "reload")
    /\ \/ seen[w] /\ UNCHANGED verified
       \/ /\ ~seen[w] /\ who[w] \in Present
          /\ verified' = [verified EXCEPT ![who[w]] = TRUE]
    /\ UNCHANGED <<mailVars, row, email, token, otpVars, localVars, events,
                   historyVars>>

\* The update finds no row: StaleDataError.
MarkFails(w) ==
    /\ op[w] = "markVerified" /\ ~seen[w] /\ who[w] \notin Present
    /\ Answer(w, {"markVerified"})
    /\ UNCHANGED <<mailVars, tableVars, otpVars, events, historyVars>>

\* The commit has expired db_otp_hashed: reading its id loads it again.
ReloadsOtp(w) ==
    /\ op[w] = "reload" /\ otp[code[w]] \in {"valid", "expired"}
    /\ Step(w, "reload", "deleteOtp")
    /\ UNCHANGED <<mailVars, tableVars, otpVars, localVars, events, historyVars>>

\* Somebody else has deleted it: ObjectDeletedError.
ReloadFails(w) ==
    /\ op[w] = "reload" /\ otp[code[w]] = "deleted"
    /\ Answer(w, {"reload"})
    /\ UNCHANGED <<mailVars, tableVars, otpVars, events, historyVars>>

LeavesOtp(w) ==
    /\ op[w] = "deleteOtp"
    /\ accepted' = [accepted EXCEPT ![code[w]] = @ + 1]
    /\ Answer(w, {"deleteOtp"})
    /\ UNCHANGED <<mailVars, tableVars, otpVars, events, entered>>

\* DELETE and the answer "success", whether or not the row was still there.
DeletesOtp(w) ==
    /\ op[w] = "deleteOtp"
    /\ RemoveOtp(w)
    /\ accepted' = [accepted EXCEPT ![code[w]] = @ + 1]
    /\ Answer(w, {"deleteOtp"})
    /\ UNCHANGED <<mailVars, tableVars, events, entered>>

(***************************************************************************)
(* update_user and delete_user.                                            *)
(***************************************************************************)

UpdatesNobody(w, u) ==
    /\ events < MaxEvents
    /\ events' = events + 1
    /\ Step(w, "idle", "update")
    /\ UNCHANGED <<mailVars, tableVars, otpVars, localVars, historyVars>>

\* get_user has found the row to change, whoever has it.
BeginsUpdate(w, u) ==
    /\ u \in Present /\ events < MaxEvents
    /\ events' = events + 1
    /\ Step(w, "idle", "update")
    /\ who' = [who EXCEPT ![w] = u]
    /\ UNCHANGED <<mailVars, tableVars, otpVars, code, addr, tok, seen,
                   historyVars>>

\* The row gets the address of the body, the old one or another, and a new
\* token if the body asks for it.  is_verified stays as it is.
Updates(w, e) ==
    /\ op[w] = "update" /\ who[w] \in Present
    /\ \A u \in Present \ {who[w]} : email[u] # e
    /\ email' = [email EXCEPT ![who[w]] = e]
    /\ token' \in {token, [token EXCEPT ![who[w]] = @ + 1]}
    /\ Answer(w, {"update"})
    /\ UNCHANGED <<mailVars, row, verified, otpVars, events, historyVars>>

\* The body has no address, or one that is taken (IntegrityError), or the row
\* is gone (the refresh after the commit raises).
UpdateFails(w) ==
    /\ Answer(w, {"update"})
    /\ UNCHANGED <<mailVars, tableVars, otpVars, events, historyVars>>

BeginsDeletion(w, e) ==
    /\ Taken(e) /\ events < MaxEvents
    /\ events' = events + 1
    /\ Step(w, "idle", "delete")
    /\ addr' = [addr EXCEPT ![w] = e]
    /\ UNCHANGED <<mailVars, tableVars, otpVars, who, code, tok, seen,
                   historyVars>>

DeletesOnlyRow(w) ==
    /\ op[w] = "delete"
    /\ row' = [u \in Ids |-> IF u \in Present /\ email[u] = addr[w] THEN "deleted"
                                                                    ELSE row[u]]
    /\ Answer(w, {"delete"})
    /\ UNCHANGED <<mailVars, email, token, verified, otpVars, events, historyVars>>

\* DELETE ... WHERE email = ..., whoever has the address by now, with the
\* codes of that account (ON DELETE CASCADE).
Deletes(w) ==
    LET gone == {u \in Present : email[u] = addr[w]} IN
    /\ op[w] = "delete"
    /\ row' = [u \in Ids |-> IF u \in gone THEN "deleted" ELSE row[u]]
    /\ otp' = [o \in Otps |-> IF owner[o] \in gone THEN "deleted" ELSE otp[o]]
    /\ Answer(w, {"delete"})
    /\ UNCHANGED <<mailVars, email, token, verified, owner, events,
                   historyVars>>

\* A worker process is killed, with its request and its background tasks.
WorkerDies(w) ==
    /\ events < MaxEvents
    /\ events' = events + 1
    /\ Answer(w, Ops)
    /\ MailsDie(w)
    /\ UNCHANGED <<tableVars, otpVars, historyVars>>

(***************************************************************************)
(* The specification.                                                      *)
(***************************************************************************)

Requests(w) ==
    \/ \E e \in Emails : BeginsCreation(w, e) \/ BeginsDeletion(w, e)
    \/ \E u \in Ids : BeginsUpdate(w, u) \/ AsksForAnotherCode(w, u)
    \/ \E o \in Otps, e \in Emails : FindsCode(w, o, e) \/ FindsExpiredCode(w, o, e)

Statements(w) ==
    \/ \E u \in Ids : \/ InsertsUser(w, u)
                      \/ InsertsAdmin(w, u)
                      \/ InsertsGoogleUser(w, u)
                      \/ LooksUp(w, u)
    \/ InsertFails(w) \/ LooksUpNobody(w)
    \/ (\E o \in Otps : InsertsOtp(w, o)) \/ InsertOtpFails(w)
    \/ DeletesExpired(w) \/ MarksVerified(w) \/ MarkFails(w)
    \/ ReloadsOtp(w) \/ ReloadFails(w) \/ DeletesOtp(w)
    \/ (\E e \in Emails : Updates(w, e)) \/ UpdateFails(w)
    \/ Deletes(w)

SendsMail(m) ==
    MailTask(m) /\ UNCHANGED <<tableVars, otpVars, op, localVars, events, historyVars>>

Next ==
    \/ \E w \in Workers : Requests(w) \/ Statements(w) \/ WorkerDies(w)
    \/ \E o \in Otps : Expires(o) \/ SendsMail(o)

Spec == Init /\ [][Next]_vars

(***************************************************************************)
(* What holds of the accounts.                                             *)
(***************************************************************************)

\* No two accounts have the same address, although every creation and every
\* change looks the address up in one statement and takes it in another.
EmailsAreUnique ==
    \A u, v \in Present : u # v => email[u] # email[v]

\* A code in the table belongs to an account that is there, whatever is
\* deleted while the code is being made.
NoOrphanOtp ==
    \A o \in Otps : otp[o] \in {"valid", "expired"} => owner[o] \in Present

\* An account is verified only after one of its own codes was entered in
\* time, by the reader of the address the code was mailed to, or of an
\* address whose mail was being built in the same process just then.
VerifiedByItsReader ==
    \A u \in Ids : verified[u] =>
        \E o \in Otps, e \in Emails :
            /\ <<o, e>> \in entered /\ owner[o] = u
            /\ e = to[o] \/ \E m \in Otps : to[m] = e /\ o \in during[m]

\* A code is accepted at most once by every worker process: when it has been
\* accepted, only requests that had already read it can succeed with it.
AcceptedOncePerWorker ==
    \A o \in Otps : accepted[o] <= Cardinality(Workers)
=============================================================================
