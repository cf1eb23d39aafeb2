--------------------------- MODULE SessionsProofs ---------------------------
(***************************************************************************)
(* Theorems about Sessions, for any number of accounts, logins, requests   *)
(* and addresses.                                                          *)
(***************************************************************************)
EXTENDS Sessions, FiniteSetTheorems, SequenceTheorems, TLAPS

(***************************************************************************)
(* The inductive invariant, in parts.                                      *)
(***************************************************************************)

\* A login whose cookies have been sent: its account is known, or Google has
\* told no address.
Known(n) == n \in DOMAIN sess /\ (sess[n].owner # Nobody \/ sess[n].sub = Nobody)

\* The cookies that a browser may hold at a time.
JarOK(j) ==
    /\ j \in Jars
    /\ \A c \in Cookies : j[c] # 0 => Known(j[c])
    /\ j["jwt"] # 0 /\ j["csrf"] # 0 => j["jwt"] = j["csrf"]
    /\ j["jwt"] # 0 /\ sess[j["jwt"]].google => j["gat"] = j["jwt"]

\* The cookies that a reply may set or delete together: all of one login with a
\* password, all of one login through Google, or none left of any login.
ReplyOK(a) ==
    \/ \E n \in DOMAIN sess :
        /\ Known(n) /\ ~sess[n].google
        /\ a = [c \in {"jwt", "csrf"} |-> n]
    \/ \E n \in DOMAIN sess : Known(n) /\ a = [c \in Cookies |-> n]
    \/ a = [c \in Cookies |-> 0]
    \/ a = [c \in {"jwt", "csrf"} |-> 0]
    \/ DOMAIN a = {}

\* What the page and a request to delete the account say of the login.
OfLogin(n, e) == Known(n) /\ e = sess[n].sub /\ e \in Emails

\* The link with the token t for the account i sets no password any more.
Dead(i, t) == i \in 1 .. last /\ (i \in Users => t < row[i].token)

Fields == {"op", "at", "jar", "arg", "id", "reply"}
Is(r, op) == req[r] # Nobody /\ req[r].op = op

ShapeOK(r) == req[r] # Nobody => DOMAIN req[r] = Fields /\ JarOK(req[r].jar)

GoogleOK(r) ==
    Is(r, "google") =>
        \/ req[r].at = "sent" /\ req[r].arg \in Emails \cup {Nobody}
        \/ /\ req[r].at # "sent"
           /\ req[r].arg \in DOMAIN sess /\ sess[req[r].arg].google
           /\ req[r].at = "create" => sess[req[r].arg].sub \in Emails

LoadOK(r) ==
    /\ Is(r, "load") => DOMAIN req[r].reply = {}
    /\ At(r, "load", "done") => OfLogin(req[r].jar["jwt"], req[r].arg)

RevokeOK(r) ==
    /\ At(r, "revoke", "asking") =>
        req[r].jar["jwt"] # 0 /\ sess[req[r].jar["jwt"]].google
    /\ At(r, "revoke", "done") => 
        req[r].jar["jwt"] # 0 /\ sess[req[r].jar["jwt"]].revoked

DeleteOK(r) ==
    /\ Is(r, "delete") => OfLogin(req[r].arg.login, req[r].arg.email)
    /\ At(r, "delete", "found") => req[r].arg.csrf = req[r].jar["csrf"]

UpdateOK(r) ==
    At(r, "update", "found") => req[r].id \in Ids /\ req[r].arg.new \in Emails

ConfirmOK(r) ==
    /\ Is(r, "confirm") =>
        /\ req[r].arg.link \in (1 .. last) \X Tokens
        /\ ~req[r].arg.live => Dead(req[r].arg.link[1], req[r].arg.link[2])
    /\ At(r, "confirm", "found") =>
        req[r].arg.live /\ req[r].id = req[r].arg.link[1]

ReqOK(r) ==
    /\ ShapeOK(r) /\ GoogleOK(r) /\ LoadOK(r) /\ RevokeOK(r) /\ DeleteOK(r)
    /\ UpdateOK(r) /\ ConfirmOK(r)
    /\ req[r] # Nobody /\ req[r].at = "done" => ReplyOK(req[r].reply)

ReqInv == DOMAIN req = Reqs /\ \A r \in Reqs : ReqOK(r)

BrowserInv ==
    /\ JarOK(jar)
    /\ page # Nobody =>
        /\ DOMAIN page = {"email", "login", "gat", "script", "csrf"}
        /\ OfLogin(page.login, page.email)

\* An account that has logged in keeps its address, or is known to have given it up.
OwnerInv ==
    \A n \in DOMAIN sess :
        sess[n].owner # Nobody =>
            sess[n].owner \in moved \/ Has(sess[n].owner, sess[n].sub)

\* An id is given out once, and a link has the token of its account or an older one.
IdInv ==
    /\ \A i \in Users : i <= last
    /\ \A l \in links : l[1] \in 1 .. last /\ (l[1] \in Users => l[2] <= row[l[1]].token)

\* A token is renewed at most once for each request to update.
Pending == {r \in Reqs : At(r, "update", "found")}
TokenInv ==
    /\ Cardinality(Pending) <= events
    /\ \A i \in Users : row[i].token + Cardinality(Pending) <= events

IInv == SessionsTypeOK /\ ReqInv /\ BrowserInv /\ OwnerInv /\ IdInv /\ TokenInv

-----------------------------------------------------------------------------
(***************************************************************************)
(* The table of logins.                                                    *)
(***************************************************************************)

Login == [google : BOOLEAN, sub : Emails \cup {Nobody}, owner : Ids \cup {Nobody},
          live : BOOLEAN, revoked : BOOLEAN]

SessType == sess \in Seq(Login) /\ Len(sess) \in Logins

\* What a step may do to the logins that there are.
SessKeeps ==
    \A n \in DOMAIN sess :
        /\ n \in DOMAIN sess'
        /\ sess'[n].google = sess[n].google /\ sess'[n].sub = sess[n].sub
        /\ sess[n].revoked => sess'[n].revoked
        /\ Known(n) => Known(n)'

OwnersSame ==
    \A n \in DOMAIN sess' : n \in DOMAIN sess /\ sess'[n].owner = sess[n].owner

LEMMA SessDomain == SessType => /\ DOMAIN sess = 1 .. Len(sess)
                                /\ \A n \in DOMAIN sess : sess[n] \in Login /\ n # 0
  BY LenProperties, ElementOfSeq DEF SessType

\* A login is added, and the others stay as they are.
LEMMA Begun ==
    ASSUME SessType, NEW g \in BOOLEAN, NEW e \in Emails \cup {Nobody},
           NEW i \in Ids \cup {Nobody}, Begins(g, e, i)
    PROVE  /\ SessType'
           /\ DOMAIN sess' = 1 .. Len(sess) + 1 /\ Len(sess) + 1 \in DOMAIN sess'
           /\ sess'[Len(sess) + 1] = [google |-> g, sub |-> e, owner |-> i,
                                      live |-> TRUE, revoked |-> FALSE]
           /\ \A n \in DOMAIN sess : n \in DOMAIN sess' /\ sess'[n] = sess[n]
           /\ SessKeeps
  <1> DEFINE new == [google |-> g, sub |-> e, owner |-> i, live |-> TRUE, revoked |-> FALSE]
  <1>1. new \in Login
    BY DEF Login
  <1>2. sess' = Append(sess, new) /\ Len(sess) < MaxLogins
    BY DEF Begins
  <1> HIDE DEF new
  <1>3. /\ sess' \in Seq(Login) /\ Len(sess') = Len(sess) + 1
        /\ sess'[Len(sess) + 1] = new /\ \A n \in 1 .. Len(sess) : sess'[n] = sess[n]
    BY <1>1, <1>2, AppendProperties DEF SessType
  <1>4. Len(sess) \in Nat /\ DOMAIN sess' = 1 .. Len(sess) + 1 /\ DOMAIN sess = 1 .. Len(sess)
    BY <1>3, LenProperties DEF SessType
  <1>5. SessType'
    BY <1>2, <1>3, <1>4, BoundsAssumption DEF SessType, Logins
  <1>6. \A n \in DOMAIN sess : n \in DOMAIN sess' /\ sess'[n] = sess[n]
    BY <1>3, <1>4
  <1>7. SessKeeps
    BY <1>6 DEF SessKeeps, Known
  <1> QED
    BY <1>3, <1>4, <1>5, <1>6, <1>7 DEF new

\* One login is changed.
LEMMA Changed ==
    ASSUME SessType, NEW n \in DOMAIN sess, NEW v \in Login, sess' = [sess EXCEPT ![n] = v],
           v.google = sess[n].google, v.sub = sess[n].sub, sess[n].revoked => v.revoked,
           v.owner # Nobody \/ v.sub = Nobody \/ v.owner = sess[n].owner
    PROVE  /\ SessType' /\ DOMAIN sess' = DOMAIN sess /\ SessKeeps
           /\ sess'[n] = v /\ \A m \in DOMAIN sess \ {n} : sess'[m] = sess[m]
  <1>1. DOMAIN sess = 1 .. Len(sess)
    BY SessDomain
  <1>2. /\ sess' \in Seq(Login) /\ Len(sess') = Len(sess)
        /\ \A m \in 1 .. Len(sess) : sess'[m] = IF m = n THEN v ELSE sess[m]
    BY <1>1, ExceptSeq DEF SessType
  <1>3. DOMAIN sess' = DOMAIN sess
    BY <1>1, <1>2, LenProperties
  <1>4. SessKeeps
    BY <1>1, <1>2, <1>3 DEF SessKeeps, Known
  <1> QED
    BY <1>1, <1>2, <1>3, <1>4 DEF SessType

\* An answer of Google sets the account of its login.
LEMMA Answered ==
    ASSUME SessType, NEW r \in Reqs, Is(r, "google"), req[r].at # "sent", GoogleOK(r),
           NEW i \in Ids \cup {Nobody}, GoogleReplies(r, i),
           i = Nobody => sess[req[r].arg].sub = Nobody
    PROVE  /\ SessType' /\ DOMAIN sess' = DOMAIN sess /\ SessKeeps
           /\ req[r].arg \in DOMAIN sess
           /\ sess'[req[r].arg] = [sess[req[r].arg] EXCEPT !.owner = i]
           /\ \A m \in DOMAIN sess \ {req[r].arg} : sess'[m] = sess[m]
           /\ \A m \in DOMAIN sess : m = req[r].arg => Known(m)'
  <1> DEFINE n == req[r].arg
  <1>1. n \in DOMAIN sess
    BY DEF GoogleOK, Is
  <1> DEFINE v == [sess[n] EXCEPT !.owner = i]
  <1>2. sess[n] \in Login
    BY <1>1, SessDomain
  <1>3. /\ v \in Login /\ v.google = sess[n].google /\ v.sub = sess[n].sub
        /\ v.revoked = sess[n].revoked /\ v.owner = i
    BY <1>2 DEF Login
  <1>4. sess' = [sess EXCEPT ![n] = v]
    BY DEF GoogleReplies
  <1> HIDE DEF v
  <1>5. /\ SessType' /\ DOMAIN sess' = DOMAIN sess /\ SessKeeps
        /\ sess'[n] = v /\ \A m \in DOMAIN sess \ {n} : sess'[m] = sess[m]
    BY <1>1, <1>3, <1>4, Changed
  <1>6. \A m \in DOMAIN sess : m = n => Known(m)'
    BY <1>1, <1>3, <1>5 DEF Known
  <1> QED
    BY <1>1, <1>5, <1>6 DEF v

\* Google has told the address of an account, new or old, or none.
LEMMA GoogleAnswers ==
    ASSUME last \in 0 .. MaxIds, NEW r \in Reqs, KnowsAddress(r) \/ Creates(r)
    PROVE  \E i \in Ids \cup {Nobody} :
              GoogleReplies(r, i) /\ (i = Nobody => sess[req[r].arg].sub = Nobody)
  <1>1. CASE KnowsAddress(r)
    <2>1. CASE sess[req[r].arg].sub = Nobody /\ GoogleReplies(r, Nobody)
      BY <2>1
    <2>2. ASSUME NEW i \in Holder(sess[req[r].arg].sub), GoogleReplies(r, i)
          PROVE  i \in Ids /\ i # Nobody
      BY NobodyAssumption DEF Holder, Ids
    <2> QED
      BY <1>1, <2>1, <2>2 DEF KnowsAddress
  <1>2. CASE Creates(r)
    <2>1. GoogleReplies(r, last + 1) /\ last < MaxIds
      BY <1>2 DEF Creates, Inserts
    <2>2. last + 1 \in Ids /\ last + 1 # Nobody
      BY <2>1, BoundsAssumption, NobodyAssumption DEF Ids
    <2> QED
      BY <2>1, <2>2
  <1> QED
    BY <1>1, <1>2

LEMMA Exchanged ==
    ASSUME SessType, NEW r \in Reqs, GoogleOK(r), Exchanges(r)
    PROVE  /\ SessType' /\ SessKeeps
           /\ Len(sess) + 1 \in DOMAIN sess' /\ sess'[Len(sess) + 1].google
  <1>1. req[r].arg \in Emails \cup {Nobody} /\ Begins(TRUE, req[r].arg, Nobody)
    BY DEF Exchanges, At, Is, GoogleOK
  <1>2. /\ SessType' /\ SessKeeps /\ Len(sess) + 1 \in DOMAIN sess'
        /\ sess'[Len(sess) + 1] = [google |-> TRUE, sub |-> req[r].arg, owner |-> Nobody,
                                   live |-> TRUE, revoked |-> FALSE]
    BY <1>1, Begun
  <1> QED
    BY <1>2

\* A token expires, or Google takes one back.
LEMMA Flagged ==
    ASSUME SessType, NEW n \in DOMAIN sess,
           \/ sess' = [sess EXCEPT ![n].live = FALSE]
           \/ sess' = [sess EXCEPT ![n].revoked = TRUE]
    PROVE  SessType' /\ SessKeeps /\ OwnersSame
  <1>1. ASSUME NEW v \in Login, sess' = [sess EXCEPT ![n] = v],
               v.google = sess[n].google, v.sub = sess[n].sub, v.owner = sess[n].owner,
               sess[n].revoked => v.revoked
        PROVE  SessType' /\ SessKeeps /\ OwnersSame
    BY <1>1, Changed DEF OwnersSame
  <1>2. sess[n] \in Login
    BY SessDomain
  <1>3. CASE sess' = [sess EXCEPT ![n].live = FALSE]
    <2> DEFINE v == [sess[n] EXCEPT !.live = FALSE]
    <2>1. /\ v \in Login /\ v.revoked = sess[n].revoked /\ v.google = sess[n].google
          /\ v.sub = sess[n].sub /\ v.owner = sess[n].owner
      BY <1>2 DEF Login
    <2>2. sess' = [sess EXCEPT ![n] = v]
      BY <1>3
    <2> HIDE DEF v
    <2> QED
      BY <1>1, <2>1, <2>2
  <1>4. CASE sess' = [sess EXCEPT ![n].revoked = TRUE]
    <2> DEFINE v == [sess[n] EXCEPT !.revoked = TRUE]
    <2>1. /\ v \in Login /\ v.revoked /\ v.google = sess[n].google
          /\ v.sub = sess[n].sub /\ v.owner = sess[n].owner
      BY <1>2 DEF Login
    <2>2. sess' = [sess EXCEPT ![n] = v]
      BY <1>4
    <2> HIDE DEF v
    <2> QED
      BY <1>1, <2>1, <2>2
  <1> QED
    BY <1>3, <1>4

\* The steps that add a login or set its account; no other does.
Entering == \E r \in Reqs : \/ \E e \in Emails : LogsIn(r, e)
                            \/ Exchanges(r) \/ KnowsAddress(r) \/ Creates(r)

\* Every step keeps the logins that there are, as far as it has to.
LEMMA SessStep ==
    ASSUME SessionsTypeOK, ReqInv, [Next]_vars
    PROVE  SessType' /\ SessKeeps /\ (OwnersSame \/ Entering)
  <1> DEFINE Goal == SessType' /\ SessKeeps /\ (OwnersSame \/ Entering)
  <1>1. SessType
    BY DEF SessionsTypeOK, SessType, Login
  <1>2. CASE sess' = sess
    BY <1>1, <1>2 DEF SessType, SessKeeps, Known, OwnersSame
  <1>3. ASSUME NEW r \in Reqs, NEW e \in Emails, LogsIn(r, e) PROVE Goal
    <2>1. PICK i \in Ids : Begins(FALSE, e, i)
      BY <1>3 DEF LogsIn, Holder
    <2> QED
      BY <1>1, <1>3, <2>1, Begun DEF Entering
  <1>4. ASSUME NEW r \in Reqs, Exchanges(r) PROVE Goal
    BY <1>1, <1>4, Exchanged DEF ReqInv, ReqOK, Entering
  <1>5. ASSUME NEW r \in Reqs, KnowsAddress(r) \/ Creates(r) PROVE Goal
    <2>1. Is(r, "google") /\ req[r].at # "sent" /\ GoogleOK(r)
      BY <1>5 DEF KnowsAddress, Creates, At, Is, ReqInv, ReqOK
    <2>2. last \in 0 .. MaxIds
      BY DEF SessionsTypeOK
    <2>3. SessType' /\ SessKeeps
      BY <1>1, <1>5, <2>1, <2>2, GoogleAnswers, Answered
    <2> QED
      BY <1>5, <2>3 DEF Entering
  <1>6. ASSUME NEW r \in Reqs, GoogleRevokes(r) PROVE Goal
    <2>1. req[r].jar["gat"] # 0 /\ JarOK(req[r].jar)
      BY <1>6 DEF GoogleRevokes, At, ReqInv, ReqOK, ShapeOK
    <2>2. req[r].jar["gat"] \in DOMAIN sess
      BY <2>1 DEF JarOK, Cookies, Known
    <2> QED
      BY <1>1, <1>6, <2>2, Flagged DEF GoogleRevokes
  <1>7. ASSUME NEW r \in Reqs, RevokeFails(r) PROVE Goal
    BY <1>1, <1>2, <1>7, Flagged DEF RevokeFails
  <1>8. ASSUME NEW n \in DOMAIN sess, Expires(n) PROVE Goal
    BY <1>1, <1>8, Flagged DEF Expires
  <1>9. ASSUME NEW r \in Reqs, Serves(r) PROVE Goal
    <2>1. CASE sess' = sess
      BY <2>1, <1>2
    <2> QED
      BY <1>4, <1>5, <1>6, <1>7, <1>9, <2>1
      DEF Serves, ExchangeFails, LacksAddress, CreateFails, LogsOut, ChecksIdToken, Renders,
          FindsForDelete, Deletes, Updates, UpdateFails, ApiDeletes, FindsByLink, SetsPassword
  <1>10. ASSUME NEW r \in Reqs, Asks(r) PROVE Goal
    BY <1>2, <1>3, <1>10 DEF Asks, Sends, AsksRevoke, AsksDelete, FindsForUpdate,
          FindsForApiDelete
  <1> QED
    BY <1>2, <1>8, <1>9, <1>10
    DEF Next, Registers, SendsLink, Arrives, IsLost, CsrfExpires, RunsScript, vars

-----------------------------------------------------------------------------
(***************************************************************************)
(* The tables of accounts and of what is pending.                          *)
(***************************************************************************)

RowType ==
    /\ row \in [Ids -> Rows \cup {Nobody}] /\ last \in 0 .. MaxIds /\ moved \subseteq Ids
    /\ \A i, j \in Users : row[i].email = row[j].email => i = j

\* What a step may do to the accounts: an address or an account is given up, a
\* token is renewed, and an account comes with a new id.
RowsKeep ==
    /\ last <= last' /\ moved \subseteq moved'
    /\ \A i \in Users : \/ i \in moved'
                        \/ i \in Users' /\ row'[i].email = row[i].email
    /\ \A i \in Users' : i \in Users \/ (last < i /\ i <= last' /\ row'[i].token = 0)
    /\ \A i \in Users : i \in Users' => row[i].token <= row'[i].token

LEMMA PendingFinite == IsFiniteSet(Pending) /\ Cardinality(Pending) \in Nat
  <1>1. Pending \in SUBSET Reqs
    BY DEF Pending
  <1>2. IsFiniteSet(Pending)
    BY <1>1, ReqsAssumption, FS_Subset
  <1> QED
    BY <1>2, FS_CardinalityType

LEMMA UsersHaveRows ==
    ASSUME RowType, NEW i \in Users PROVE i \in Ids /\ row[i] \in Rows /\ row[i] # Nobody
  BY DEF RowType, Users

\* A row is added.
LEMMA Inserted ==
    ASSUME RowType, IdInv, NEW new \in Rows, new.token = 0, Inserts(new)
    PROVE  RowType' /\ RowsKeep /\ \A i \in Users : row'[i] = row[i]
  <1>1. /\ last + 1 \in Ids /\ last \in Nat /\ last' = last + 1 /\ moved' = moved
        /\ row' = [row EXCEPT ![last + 1] = new] /\ last + 1 \notin Users
        /\ \A i \in Users : row[i].email # new.email
    BY BoundsAssumption DEF Inserts, RowType, IdInv, Ids, Users, Holder, Has
  <1>2. RowType'
    BY <1>1, BoundsAssumption DEF Inserts, RowType, Users, Ids
  <1>3. \A i \in Users : row'[i] = row[i] /\ i \in Users'
    BY <1>1 DEF RowType, Users
  <1>4. \A i \in Users' : i \in Users \/ i = last + 1
    BY <1>1 DEF RowType, Users
  <1>5. \A i \in Users : row[i].token <= row[i].token
    BY UsersHaveRows, BoundsAssumption DEF Rows, Tokens
  <1>6. last + 1 \in Users' => row'[last + 1] = new
    BY <1>1 DEF RowType
  <1> QED
    BY <1>1, <1>2, <1>3, <1>4, <1>5, <1>6 DEF RowsKeep

LEMMA Unwritten ==
    ASSUME RowType, UNCHANGED <<row, last, moved>>
    PROVE  RowType' /\ RowsKeep /\ \A i \in Users : row'[i] = row[i]
  <1>1. \A i \in Users : row[i].token <= row[i].token
    BY UsersHaveRows, BoundsAssumption DEF Rows, Tokens
  <1>2. last <= last
    BY BoundsAssumption DEF RowType
  <1> QED
    BY <1>1, <1>2 DEF RowType, RowsKeep, Users

\* An account has its address, its token or its password written.
LEMMA Written ==
    ASSUME RowType, NEW i \in Users, NEW new \in Rows, Free(i, new.email),
           row' = [row EXCEPT ![i] = new], last' = last,
           moved' = moved \/ moved' = moved \cup {i},
           i \in moved' \/ new.email = row[i].email, row[i].token <= new.token
    PROVE  RowType' /\ RowsKeep /\ \A j \in Users \ {i} : row'[j] = row[j]
  <1>1. i \in Ids /\ new # Nobody /\ Users' = Users
    BY RowsAssumption DEF Users, RowType
  <1>2. \A j \in Users \ {i} : row'[j] = row[j] /\ row[j].email # new.email
    BY DEF RowType, Users, Free, Holder, Has
  <1>3. row'[i] = new
    BY <1>1 DEF RowType
  <1>4. RowType'
    BY <1>1, <1>2, <1>3 DEF RowType
  <1>5. \A j \in Users : row[j].token <= row[j].token
    BY UsersHaveRows, BoundsAssumption DEF Rows, Tokens
  <1>6. last <= last
    BY BoundsAssumption DEF RowType
  <1> QED
    BY <1>1, <1>2, <1>3, <1>4, <1>5, <1>6 DEF RowsKeep

\* No step but an update writes a token.
SameTokens == \A i \in Users \cap Users' : row'[i].token = row[i].token
LEMMA NewAccount ==
    ASSUME NEW e \in Emails, NEW v \in BOOLEAN, NEW p \in {Nobody, Own}
    PROVE  [email |-> e, verified |-> v, token |-> 0, pw |-> p] \in Rows
  BY BoundsAssumption DEF Rows, Tokens

\* What an update writes.
LEMMA UpdateWrites ==
    ASSUME RowType, ReqInv, TokenInv, events \in 0 .. MaxEvents, NEW r \in Reqs, Updates(r)
    PROVE  /\ RowType' /\ RowsKeep
           /\ \A j \in Users \cap Users' : row'[j].token <= row[j].token + 1
           /\ \A j \in Users : \/ row'[j] = row[j]
                               \/ row'[j] \in Rows /\ row'[j].pw \in {row[j].pw, Own}
  <1> DEFINE i == req[r].id
             arg == req[r].arg
             t == IF "token" \in arg.set THEN row[i].token + 1 ELSE row[i].token
             new == [email |-> arg.new, verified |-> row[i].verified, token |-> t,
                     pw |-> IF "pw" \in arg.set THEN Own ELSE row[i].pw]
  <1>1. i \in Users /\ Free(i, arg.new) /\ arg.new \in Emails
    BY DEF Updates, At, ReqInv, ReqOK, UpdateOK
  <1>2. row[i] \in Rows /\ i \in Ids
    BY <1>1, UsersHaveRows
  <1>3. row[i].token + 1 \in Tokens
    <2>1. r \in Pending
      BY DEF Updates, Pending
    <2>2. Cardinality(Pending) >= 1
      BY <2>1, PendingFinite, FS_EmptySet
    <2>3. row[i].token + Cardinality(Pending) <= events
      BY <1>1 DEF TokenInv
    <2> QED
      BY <1>2, <2>2, <2>3, PendingFinite, BoundsAssumption DEF Rows, Tokens
  <1>4. t \in Tokens /\ row[i].token <= t /\ t <= row[i].token + 1
    BY <1>2, <1>3, BoundsAssumption DEF Rows, Tokens
  <1>5. row' = [row EXCEPT ![i] = new]
    BY DEF Updates
  <1>6. /\ new \in Rows /\ new.email = arg.new /\ new.token = t
        /\ new.pw \in {row[i].pw, Own}
        /\ moved' = IF row[i].email = new.email THEN moved ELSE moved \cup {i}
        /\ last' = last
    BY <1>1, <1>2, <1>4 DEF Rows, Updates
  <1> HIDE DEF new, t
  <1>7. RowType' /\ RowsKeep /\ \A j \in Users \ {i} : row'[j] = row[j]
    BY <1>1, <1>4, <1>5, <1>6, Written
  <1>8. row'[i] = new
    BY <1>2, <1>5 DEF RowType
  <1>9. \A j \in Users : row[j].token \in Nat
    BY UsersHaveRows, BoundsAssumption DEF Rows, Tokens
  <1> QED
    BY <1>4, <1>6, <1>7, <1>8, <1>9

\* What every step may do to the accounts.
LEMMA DbStep ==
    ASSUME SessionsTypeOK, ReqInv, IdInv, TokenInv, [Next]_vars
    PROVE  RowType' /\ RowsKeep /\ (SameTokens \/ \E r \in Reqs : Updates(r))
  <1>1. RowType
    BY DEF SessionsTypeOK, RowType
  <1>2. CASE UNCHANGED dbVars
    BY <1>1, <1>2, Unwritten DEF dbVars, SameTokens
  <1>3. ASSUME NEW e \in Emails, Registers(e) PROVE RowType' /\ RowsKeep /\ SameTokens
    BY <1>1, <1>3, Inserted, NewAccount DEF Registers, SameTokens
  <1>4. ASSUME NEW r \in Reqs, Creates(r) PROVE RowType' /\ RowsKeep /\ SameTokens
    <2>1. sess[req[r].arg].sub \in Emails
      BY <1>4 DEF Creates, At, ReqInv, ReqOK, GoogleOK, Is
    <2> QED
      BY <1>1, <1>4, <2>1, Inserted, NewAccount DEF Creates, SameTokens
  <1>5. ASSUME NEW e, Removes(e) PROVE RowType' /\ RowsKeep /\ SameTokens
    <2>1. /\ last' = last /\ moved' = moved \cup Holder(e)
          /\ row' = [i \in Ids |-> IF Has(i, e) THEN Nobody ELSE row[i]]
      BY <1>5 DEF Removes
    <2>2. \A i \in Ids : row'[i] = IF Has(i, e) THEN Nobody ELSE row[i]
      BY <2>1
    <2>3. \A i \in Users' : i \in Users /\ row'[i] = row[i]
      BY <2>2 DEF Users
    <2>4. \A i \in Users : i \in moved' \/ (i \in Users' /\ row'[i] = row[i])
      BY <2>1, <2>2 DEF Users, Holder
    <2>5. \A i \in Users : row[i].token <= row[i].token
      BY <1>1, UsersHaveRows, BoundsAssumption DEF Rows, Tokens
    <2>6. last <= last
      BY <1>1, BoundsAssumption DEF RowType
    <2>7. RowType'
      BY <1>1, <2>1, <2>3 DEF RowType, Holder
    <2> QED
      BY <2>1, <2>3, <2>4, <2>5, <2>6, <2>7 DEF RowsKeep, SameTokens
  <1>6. ASSUME NEW r \in Reqs, Updates(r) PROVE RowType' /\ RowsKeep
    BY <1>1, <1>6, UpdateWrites DEF SessionsTypeOK
  <1>7. ASSUME NEW r \in Reqs, SetsPassword(r) PROVE RowType' /\ RowsKeep /\ SameTokens
    <2> DEFINE i == req[r].id
               new == [row[i] EXCEPT !.pw = req[r].arg.link[2]]
    <2>1. UNCHANGED <<last, moved>> /\ req[r].arg.link[2] \in Tokens
      BY <1>7 DEF SetsPassword, At, ReqInv, ReqOK, ConfirmOK, Is
    <2>2. row' = [row EXCEPT ![i] = IF @ = Nobody THEN @ ELSE [@ EXCEPT !.pw = req[r].arg.link[2]]]
      BY <1>7 DEF SetsPassword
    <2>3. CASE i \in Users
      <3>1. row[i] \in Rows /\ i \in Ids /\ row[i] # Nobody
        BY <1>1, <2>3, UsersHaveRows
      <3>2. row' = [row EXCEPT ![i] = new]
        BY <2>2, <3>1
      <3>3. new \in Rows /\ new.email = row[i].email /\ new.token = row[i].token
        BY <2>1, <3>1 DEF Rows
      <3>4. Free(i, new.email) /\ row[i].token <= new.token
        BY <1>1, <2>3, <3>1, <3>3, BoundsAssumption
        DEF Free, Holder, Has, RowType, Rows, Tokens
      <3>5. row'[i] = new
        BY <1>1, <3>1, <3>2 DEF RowType
      <3> HIDE DEF new
      <3>6. RowType' /\ RowsKeep /\ \A j \in Users \ {i} : row'[j] = row[j]
        BY <1>1, <2>1, <2>3, <3>2, <3>3, <3>4, Written
      <3> QED
        BY <3>3, <3>5, <3>6 DEF SameTokens
    <2>4. CASE i \notin Users
      <3>1. row' = row
        BY <1>1, <2>2, <2>4 DEF RowType, Users
      <3> QED
        BY <1>1, <2>1, <3>1, Unwritten DEF SameTokens
    <2> QED
      BY <2>3, <2>4
  <1>8. ASSUME NEW r \in Reqs, Serves(r)
        PROVE  RowType' /\ RowsKeep /\ (SameTokens \/ \E q \in Reqs : Updates(q))
    <2>1. \/ Creates(r) \/ Deletes(r) \/ ApiDeletes(r) \/ Updates(r) \/ SetsPassword(r)
          \/ UNCHANGED dbVars
      BY <1>8
      DEF Serves, Exchanges, ExchangeFails, KnowsAddress, LacksAddress, CreateFails, LogsOut,
          ChecksIdToken, GoogleRevokes, RevokeFails, Renders, FindsForDelete, UpdateFails,
          FindsByLink
    <2> QED
      BY <1>2, <1>4, <1>5, <1>6, <1>7, <2>1 DEF Deletes, ApiDeletes
  <1>9. ASSUME NEW r \in Reqs, Asks(r) PROVE UNCHANGED dbVars
    BY <1>9 DEF Asks, LogsIn, Sends, AsksRevoke, AsksDelete, FindsForUpdate,
          FindsForApiDelete
  <1> QED
    BY <1>2, <1>3, <1>8, <1>9
    DEF Next, SendsLink, Arrives, IsLost, Expires, CsrfExpires, RunsScript, vars
-----------------------------------------------------------------------------
(***************************************************************************)
(* What has been true of a request, of cookies or of a link stays true.    *)
(***************************************************************************)

LEMMA JarKeeps ==
    ASSUME SessType, SessKeeps, NEW j, JarOK(j) PROVE JarOK(j)'
  <1>1. \A c \in Cookies : j[c] # 0 => j[c] \in DOMAIN sess /\ Known(j[c])'
    BY DEF JarOK, Known, SessKeeps
  <1>2. j["jwt"] # 0 => sess'[j["jwt"]].google = sess[j["jwt"]].google
    BY <1>1 DEF SessKeeps, Cookies
  <1> QED
    BY <1>1, <1>2 DEF JarOK, Jars, Logins

LEMMA ReplyKeeps ==
    ASSUME SessKeeps, NEW a, ReplyOK(a) PROVE ReplyOK(a)'
  BY DEF ReplyOK, SessKeeps

LEMMA LoginKeeps ==
    ASSUME SessKeeps, NEW n, NEW e, OfLogin(n, e) PROVE OfLogin(n, e)'
  BY DEF OfLogin, SessKeeps, Known

LEMMA DeadKeeps ==
    ASSUME RowType, RowType', RowsKeep, NEW i, NEW t \in Tokens, Dead(i, t)
    PROVE  Dead(i, t)'
  <1>1. last \in Int /\ last' \in Int /\ t \in Int
    BY BoundsAssumption DEF RowType, Tokens
  <1>2. i \in 1 .. last'
    BY <1>1 DEF Dead, RowsKeep
  <1>3. ASSUME i \in Users' PROVE t < row'[i].token
    <2>1. i \in Users
      BY <1>1, <1>3 DEF Dead, RowsKeep
    <2>2. row[i].token \in Int /\ row'[i].token \in Int
      <3>1. row[i] \in Rows
        BY <2>1, UsersHaveRows
      <3>2. row'[i] \in Rows
        BY <1>3 DEF RowType, Users
      <3> QED
        BY <3>1, <3>2, BoundsAssumption DEF Rows, Tokens
    <2> QED
      BY <1>1, <1>3, <2>1, <2>2 DEF Dead, RowsKeep
  <1> QED
    BY <1>2, <1>3 DEF Dead

LEMMA RequestKeeps ==
    ASSUME SessType, SessKeeps, RowType, RowType', RowsKeep, NEW p \in Reqs,
           ReqOK(p), req'[p] = req[p]
    PROVE  ReqOK(p)'
  <1>1. ShapeOK(p)'
    BY JarKeeps DEF ReqOK, ShapeOK
  <1>2. GoogleOK(p)'
    BY DEF ReqOK, GoogleOK, Is, SessKeeps
  <1>3. LoadOK(p)'
    BY LoginKeeps DEF ReqOK, LoadOK, At, Is
  <1>4. RevokeOK(p)'
    <2>1. ShapeOK(p) /\ RevokeOK(p)
      BY DEF ReqOK
    <2>2. req[p] # Nobody /\ req[p].jar["jwt"] # 0 => req[p].jar["jwt"] \in DOMAIN sess
      BY <2>1 DEF ShapeOK, JarOK, Cookies, Known
    <2> QED
      BY <2>1, <2>2 DEF RevokeOK, At, SessKeeps
  <1>5. DeleteOK(p)'
    BY LoginKeeps DEF ReqOK, DeleteOK, At, Is
  <1>6. UpdateOK(p)'
    BY DEF ReqOK, UpdateOK, At
  <1>7. ConfirmOK(p)'
    <2>1. ConfirmOK(p)
      BY DEF ReqOK
    <2>2. last \in Int /\ last' \in Int /\ last <= last'
      BY BoundsAssumption DEF RowType, RowsKeep
    <2>3. Is(p, "confirm") => req[p].arg.link[1] \in 1 .. last' /\ req[p].arg.link[2] \in Tokens
      BY <2>1, <2>2 DEF ConfirmOK
    <2>4. Is(p, "confirm") => req[p].arg.link \in (1 .. last') \X Tokens
      BY <2>1, <2>3 DEF ConfirmOK
    <2>5. ASSUME Is(p, "confirm"), ~req[p].arg.live
          PROVE  Dead(req[p].arg.link[1], req[p].arg.link[2])'
      <3> DEFINE i == req[p].arg.link[1]
                 t == req[p].arg.link[2]
      <3>1. \A j : \A u \in Tokens : Dead(j, u) => Dead(j, u)'
        BY DeadKeeps
      <3>2. Dead(i, t) /\ t \in Tokens /\ i' = i /\ t' = t
        BY <2>1, <2>3, <2>5 DEF ConfirmOK
      <3> QED
        BY <3>1, <3>2 DEF Dead
    <2> QED
      BY <2>1, <2>4, <2>5 DEF ConfirmOK, Is, At
  <1>8. req[p] # Nobody /\ req[p].at = "done" => ReplyOK(req[p].reply)'
    BY ReplyKeeps DEF ReqOK
  <1> QED
    BY <1>1, <1>2, <1>3, <1>4, <1>5, <1>6, <1>7, <1>8 DEF ReqOK
-----------------------------------------------------------------------------
(***************************************************************************)
(* The requests, one step at a time.                                       *)
(***************************************************************************)

\* All that a step keeps, whatever it is.
Kept == /\ SessType /\ SessType' /\ SessKeeps
        /\ RowType /\ RowType' /\ RowsKeep

Only(r) == DOMAIN req' = Reqs /\ \A p \in Reqs \ {r} : req'[p] = req[p]

LEMMA OneRequest ==
    ASSUME Kept, ReqInv, NEW r \in Reqs, Only(r), ReqOK(r)' PROVE ReqInv'
  <1>1. ASSUME NEW p \in Reqs \ {r} PROVE ReqOK(p)'
    BY RequestKeeps DEF Kept, Only, ReqInv
  <1> QED
    BY <1>1 DEF ReqInv, Only

LEMMA Opened ==
    ASSUME ReqInv, NEW r \in Reqs, NEW op, NEW at, NEW cookies, NEW arg, NEW id, NEW reply,
           Opens(r, op, at, cookies, arg, id, reply)
    PROVE  /\ Only(r) /\ req[r] = Nobody
           /\ req'[r] = [op |-> op, at |-> at, jar |-> cookies,
                         arg |-> arg, id |-> id, reply |-> reply]
  BY DEF Opens, ReqInv, Only

LEMMA Gone ==
    ASSUME ReqInv, NEW r \in Reqs, req[r] # Nobody, NEW at, NEW i, Goes(r, at, i)
    PROVE  /\ Only(r) /\ DOMAIN req'[r] = Fields
           /\ req'[r].op = req[r].op /\ req'[r].at = at /\ req'[r].jar = req[r].jar
           /\ req'[r].arg = req[r].arg /\ req'[r].id = i /\ req'[r].reply = req[r].reply
  BY DEF Goes, ReqInv, Only, ReqOK, ShapeOK, Fields

LEMMA Replied ==
    ASSUME ReqInv, NEW r \in Reqs, req[r] # Nobody, NEW n, NEW cookies, Replies(r, n, cookies)
    PROVE  /\ Only(r) /\ DOMAIN req'[r] = Fields
           /\ req'[r].op = req[r].op /\ req'[r].at = "done" /\ req'[r].jar = req[r].jar
           /\ req'[r].arg = req[r].arg /\ req'[r].id = req[r].id
           /\ req'[r].reply = [c \in cookies |-> n]
  BY DEF Replies, ReqInv, Only, ReqOK, ShapeOK, Fields

LEMMA Ended ==
    ASSUME ReqInv, NEW r \in Reqs, Ends(r) PROVE Only(r) /\ ReqOK(r)'
  <1>1. Only(r) /\ req'[r] = Nobody
    BY DEF Ends, ReqInv, Only
  <1> QED
    BY <1>1 DEF ReqOK, ShapeOK, GoogleOK, LoadOK, RevokeOK, DeleteOK, UpdateOK, ConfirmOK, Is, At

\* A request of the browser has the cookies of the browser.
LEMMA JarSent ==
    ASSUME BrowserInv, UNCHANGED <<sess, jar>> PROVE JarOK(jar)'
  BY DEF BrowserInv, JarOK, Known

LEMMA NoCookiesOK ==
    ASSUME NEW j, j = NoCookies PROVE JarOK(j)'
  BY BoundsAssumption DEF JarOK, NoCookies, Cookies, Jars, Logins

LEMMA AsksStep ==
    ASSUME SessionsTypeOK, ReqInv, BrowserInv, IdInv, Kept, NEW r \in Reqs, Asks(r)
    PROVE  ReqInv'
  <1> USE DEF ReqOK, ShapeOK, GoogleOK, LoadOK, RevokeOK, DeleteOK, UpdateOK, ConfirmOK, Is, At,
          Fields
  <1>1. ASSUME NEW e \in Emails, LogsIn(r, e) PROVE Only(r) /\ ReqOK(r)'
    <2> DEFINE a == [c \in {"jwt", "csrf"} |-> Len(sess) + 1]
    <2>1. Only(r) /\ req'[r] = [op |-> "login", at |-> "done", jar |-> NoCookies,
                                arg |-> Nobody, id |-> Nobody, reply |-> a]
      BY <1>1, Opened DEF LogsIn
    <2>2. PICK i \in Ids : Begins(FALSE, e, i)
      BY <1>1 DEF LogsIn, Holder
    <2>3. /\ Len(sess) + 1 \in DOMAIN sess'
          /\ sess'[Len(sess) + 1] = [google |-> FALSE, sub |-> e, owner |-> i,
                                     live |-> TRUE, revoked |-> FALSE]
      BY <2>2, Begun DEF Kept
    <2>4. i # Nobody
      BY NobodyAssumption DEF Ids
    <2>5. ReplyOK(req[r].reply)'
      BY <2>1, <2>3, <2>4 DEF ReplyOK, Known
    <2>6. JarOK(req[r].jar)'
      BY <2>1, NoCookiesOK
    <2> HIDE DEF a
    <2> QED
      BY <2>1, <2>5, <2>6
  <1>2. ASSUME NEW e \in Emails \cup {Nobody}, Sends(r, "google", NoCookies, e)
        PROVE  Only(r) /\ ReqOK(r)'
    <2>1. Only(r) /\ req'[r] = [op |-> "google", at |-> "sent", jar |-> NoCookies,
                                arg |-> e, id |-> Nobody, reply |-> <<>>]
      BY <1>2, Opened DEF Sends
    <2> QED
      BY <2>1, NoCookiesOK
  <1>3. ASSUME NEW op \in {"logout", "load"}, Sends(r, op, jar, Nobody)
        PROVE  Only(r) /\ ReqOK(r)'
    <2>1. Only(r) /\ req'[r] = [op |-> op, at |-> "sent", jar |-> jar,
                                arg |-> Nobody, id |-> Nobody, reply |-> <<>>]
      BY <1>3, Opened DEF Sends
    <2>2. JarOK(jar)' /\ jar' = jar
      BY <1>3, JarSent DEF Sends, browserVars
    <2> QED
      BY <2>1, <2>2
  <1>4. ASSUME AsksRevoke(r) PROVE Only(r) /\ ReqOK(r)'
    <2>1. Only(r) /\ req'[r] = [op |-> "revoke", at |-> "sent", jar |-> jar,
                                arg |-> page.csrf, id |-> Nobody, reply |-> <<>>]
      BY <1>4, Opened DEF AsksRevoke, Sends
    <2>2. JarOK(jar)' /\ jar' = jar
      BY <1>4, JarSent DEF AsksRevoke, Sends, browserVars
    <2> QED
      BY <2>1, <2>2
  <1>5. ASSUME AsksDelete(r) PROVE Only(r) /\ ReqOK(r)'
    <2> DEFINE a == [email |-> page.email, login |-> page.login, csrf |-> page.csrf]
    <2>1. Only(r) /\ req'[r] = [op |-> "delete", at |-> "sent", jar |-> jar,
                                arg |-> a, id |-> Nobody, reply |-> <<>>]
      BY <1>5, Opened DEF AsksDelete, Sends
    <2>2. JarOK(jar)' /\ jar' = jar
      BY <1>5, JarSent DEF AsksDelete, Sends, browserVars
    <2>3. OfLogin(page.login, page.email) /\ sess' = sess
      BY <1>5 DEF AsksDelete, Sends, BrowserInv
    <2>4. OfLogin(req[r].arg.login, req[r].arg.email)'
      BY <2>1, <2>3 DEF OfLogin, Known
    <2> QED
      BY <2>1, <2>2, <2>4
  <1>6. ASSUME NEW n \in DOMAIN sess, NEW e \in Emails, NEW new \in Emails,
               NEW set \in SUBSET {"token", "pw"}, FindsForUpdate(r, n, e, new, set)
        PROVE  Only(r) /\ ReqOK(r)'
    <2>1. PICK i \in Ids : Opens(r, "update", "found", NoCookies,
                                 [new |-> new, set |-> set], i, <<>>)
      BY <1>6 DEF FindsForUpdate, Holder
    <2>2. Only(r) /\ req'[r] = [op |-> "update", at |-> "found", jar |-> NoCookies,
                                arg |-> [new |-> new, set |-> set], id |-> i, reply |-> <<>>]
      BY <2>1, Opened
    <2> QED
      BY <2>2, NoCookiesOK
  <1>7. ASSUME NEW l \in links,
               Sends(r, "confirm", NoCookies,
                     [link |-> l, live |-> l[1] \in Users /\ row[l[1]].token = l[2]])
        PROVE  Only(r) /\ ReqOK(r)'
    <2> DEFINE live == l[1] \in Users /\ row[l[1]].token = l[2]
    <2>1. Only(r) /\ req'[r] = [op |-> "confirm", at |-> "sent", jar |-> NoCookies,
                                arg |-> [link |-> l, live |-> live],
                                id |-> Nobody, reply |-> <<>>]
      BY <1>7, Opened DEF Sends
    <2>2. /\ l \in Ids \X Tokens /\ l[1] \in 1 .. last
          /\ l[1] \in Users => l[2] <= row[l[1]].token
      BY DEF SessionsTypeOK, IdInv
    <2>3. l \in (1 .. last) \X Tokens
      BY <2>2
    <2>4. l[1] \in Users => row[l[1]].token \in Tokens
      BY UsersHaveRows DEF Kept, Rows
    <2>5. ~live => Dead(l[1], l[2])
      BY <2>2, <2>4, BoundsAssumption DEF Dead, Tokens
    <2>6. last' = last /\ row' = row
      BY <1>7 DEF Sends, dbVars
    <2>7. ~live => Dead(l[1], l[2])'
      BY <2>5, <2>6 DEF Dead, Users
    <2>8. /\ Only(r) /\ req'[r].arg.link = l /\ req'[r].arg.live = live
          /\ DOMAIN req'[r] = Fields /\ req'[r].jar = NoCookies
          /\ req'[r].op = "confirm" /\ req'[r].at = "sent"
      <3> HIDE DEF live
      <3> QED
        BY <2>1
    <2>9. /\ req'[r].arg.link \in (1 .. last') \X Tokens
          /\ ~req'[r].arg.live => Dead(req[r].arg.link[1], req[r].arg.link[2])'
      <3> HIDE DEF live
      <3> QED
        BY <2>3, <2>6, <2>7, <2>8 DEF Dead
    <2> HIDE DEF live
    <2> QED
      BY <2>8, <2>9, NoCookiesOK
  <1>8. ASSUME NEW e \in Emails, FindsForApiDelete(r, e) PROVE Only(r) /\ ReqOK(r)'
    <2>1. Only(r) /\ req'[r] = [op |-> "apiDelete", at |-> "found", jar |-> NoCookies,
                                arg |-> e, id |-> Nobody, reply |-> <<>>]
      BY <1>8, Opened DEF FindsForApiDelete
    <2> QED
      BY <2>1, NoCookiesOK
  <1> HIDE DEF ReqOK
  <1> QED
    BY <1>1, <1>2, <1>3, <1>4, <1>5, <1>6, <1>7, <1>8, OneRequest DEF Asks
\* The steps of a login through Google.
LEMMA GoogleStep ==
    ASSUME ReqInv, RowType, Kept, NEW r \in Reqs,
           \/ Exchanges(r) \/ KnowsAddress(r) \/ LacksAddress(r) \/ Creates(r)
    PROVE  Only(r) /\ ReqOK(r)'
  <1> USE DEF ReqOK, ShapeOK, LoadOK, RevokeOK, DeleteOK, UpdateOK, ConfirmOK, Is, At
  <1>1. /\ Is(r, "google") /\ ReqOK(r) /\ DOMAIN req[r] = Fields
        /\ JarOK(req[r].jar)
        /\ \A j : JarOK(j) => JarOK(j)'
    BY JarKeeps DEF Exchanges, KnowsAddress, LacksAddress, Creates, ReqInv, Kept
  <1>2. CASE Exchanges(r)
    <2>1. /\ Only(r) /\ DOMAIN req'[r] = Fields
          /\ req'[r].op = "google" /\ req'[r].at = "tokens" /\ req'[r].jar = req[r].jar
          /\ req'[r].arg = Len(sess) + 1
      <3>1. /\ DOMAIN req = Reqs /\ DOMAIN req[r] = Fields
            /\ req' = [req EXCEPT ![r].at = "tokens", ![r].arg = Len(sess) + 1]
            /\ req[r].op = "google"
        BY <1>1, <1>2 DEF Exchanges, ReqInv
      <3> QED
        BY <3>1 DEF Only, Fields
    <2>2. Len(sess) + 1 \in DOMAIN sess' /\ sess'[Len(sess) + 1].google
      BY <1>1, <1>2, Exchanged DEF Kept
    <2> QED
      BY <1>1, <2>1, <2>2 DEF GoogleOK
  <1>3. CASE LacksAddress(r)
    <2>1. sess' = sess /\ Goes(r, "create", Nobody)
      BY <1>3 DEF LacksAddress
    <2>2. req[r].arg \in DOMAIN sess /\ sess[req[r].arg].google
      BY <1>1, <1>3 DEF LacksAddress, GoogleOK
    <2>3. sess[req[r].arg].sub \in Emails
      <3>1. sess[req[r].arg].sub \in Emails \cup {Nobody}
        BY <2>2, SessDomain DEF Kept, Login
      <3> QED
        BY <1>3, <3>1 DEF LacksAddress
    <2>4. /\ Only(r) /\ DOMAIN req'[r] = Fields
          /\ req'[r].op = "google" /\ req'[r].at = "create" /\ req'[r].jar = req[r].jar
          /\ req'[r].arg = req[r].arg
      BY <1>1, <2>1, Gone
    <2> QED
      BY <1>1, <2>1, <2>2, <2>3, <2>4 DEF GoogleOK
  <1>4. CASE KnowsAddress(r) \/ Creates(r)
    <2>1. PICK i \in Ids \cup {Nobody} :
              GoogleReplies(r, i) /\ (i = Nobody => sess[req[r].arg].sub = Nobody)
      BY <1>4, GoogleAnswers DEF Kept, RowType
    <2>2. req[r].at # "sent"
      BY <1>4 DEF KnowsAddress, Creates
    <2>3. /\ req[r].arg \in DOMAIN sess /\ sess[req[r].arg].google
          /\ DOMAIN sess' = DOMAIN sess /\ SessKeeps
          /\ \A m \in DOMAIN sess : m = req[r].arg => Known(m)'
      <3>1. req[r].arg \in DOMAIN sess /\ sess[req[r].arg].google
        BY <1>1, <2>2 DEF GoogleOK
      <3> QED
        BY <1>1, <2>1, <2>2, <3>1, Answered DEF Kept
    <2>4. /\ Only(r) /\ DOMAIN req'[r] = Fields
          /\ req'[r].op = "google" /\ req'[r].at = "done" /\ req'[r].jar = req[r].jar
          /\ req'[r].arg = req[r].arg /\ req'[r].reply = [c \in Cookies |-> req[r].arg]
      BY <1>1, <2>1, Replied DEF GoogleReplies
    <2>5. ReplyOK(req[r].reply)'
      <3>1. PICK m \in DOMAIN sess : m = req[r].arg
        BY <2>3
      <3>2. m \in DOMAIN sess' /\ Known(m)' /\ req'[r].reply = [c \in Cookies |-> m]
        BY <2>3, <2>4, <3>1
      <3> QED
        BY <3>2 DEF ReplyOK
    <2>6. req[r].arg \in DOMAIN sess' /\ sess'[req[r].arg].google
      BY <2>3 DEF SessKeeps
    <2> QED
      BY <1>1, <2>4, <2>5, <2>6 DEF GoogleOK
  <1> QED
    BY <1>2, <1>3, <1>4
\* Logging out, and disconnecting Google.
LEMMA LeavingStep ==
    ASSUME ReqInv, Kept, NEW r \in Reqs,
           LogsOut(r) \/ ChecksIdToken(r) \/ GoogleRevokes(r)
    PROVE  Only(r) /\ ReqOK(r)'
  <1> USE DEF ReqOK, ShapeOK, GoogleOK, LoadOK, RevokeOK, DeleteOK, UpdateOK, ConfirmOK, Is, At
  <1>1. /\ req[r] # Nobody /\ ReqOK(r) /\ JarOK(req[r].jar)
        /\ \A j : JarOK(j) => JarOK(j)'
    BY JarKeeps DEF LogsOut, ChecksIdToken, GoogleRevokes, ReqInv, Kept
  <1>2. ASSUME Ends(r) PROVE Only(r) /\ ReqOK(r)'
    BY <1>2, Ended
  <1>3. CASE LogsOut(r)
    <2>1. ASSUME NEW cs, cs = {"jwt", "csrf"} \/ cs = Cookies, Replies(r, 0, cs)
          PROVE  Only(r) /\ ReqOK(r)'
      <3>1. /\ Only(r) /\ DOMAIN req'[r] = Fields
            /\ req'[r].op = "logout" /\ req'[r].at = "done" /\ req'[r].jar = req[r].jar
            /\ req'[r].reply = [c \in cs |-> 0]
        BY <1>1, <1>3, <2>1, Replied DEF LogsOut
      <3>2. ReplyOK(req[r].reply)'
        BY <2>1, <3>1 DEF ReplyOK
      <3> QED
        BY <1>1, <3>1, <3>2
    <2>2. {"jwt", "csrf"} \cup {"gat"} = Cookies /\ {"jwt", "csrf"} \cup {} = {"jwt", "csrf"}
      BY DEF Cookies
    <2> QED
      BY <1>2, <1>3, <2>1, <2>2 DEF LogsOut
  <1>4. CASE ChecksIdToken(r)
    <2>1. ASSUME IsIdToken(req[r].jar["jwt"]), Goes(r, "asking", Nobody)
          PROVE  Only(r) /\ ReqOK(r)'
      <3>1. /\ Only(r) /\ DOMAIN req'[r] = Fields
            /\ req'[r].op = "revoke" /\ req'[r].at = "asking" /\ req'[r].jar = req[r].jar
        BY <1>1, <1>4, <2>1, Gone DEF ChecksIdToken
      <3>2. sess' = sess /\ req[r].jar["jwt"] # 0 /\ sess[req[r].jar["jwt"]].google
        BY <1>4, <2>1 DEF ChecksIdToken, IsIdToken
      <3> QED
        BY <1>1, <3>1, <3>2
    <2> QED
      BY <1>2, <1>4, <2>1 DEF ChecksIdToken
  <1>5. CASE GoogleRevokes(r)
    <2> DEFINE n == req[r].jar["gat"]
    <2>1. /\ Only(r) /\ DOMAIN req'[r] = Fields
          /\ req'[r].op = "revoke" /\ req'[r].at = "done" /\ req'[r].jar = req[r].jar
          /\ req'[r].reply = [c \in Cookies |-> 0]
      BY <1>1, <1>5, Replied DEF GoogleRevokes
    <2>2. /\ req[r].jar["jwt"] # 0 /\ sess[req[r].jar["jwt"]].google
          /\ sess' = [sess EXCEPT ![n].revoked = TRUE]
      BY <1>1, <1>5 DEF GoogleRevokes
    <2>3. n = req[r].jar["jwt"] /\ n \in DOMAIN sess
      BY <1>1, <2>2 DEF JarOK, Cookies, Known
    <2>4. sess'[n].revoked
      <3>1. sess[n] \in Login /\ DOMAIN sess' = DOMAIN sess
        BY <2>2, <2>3, SessDomain DEF Kept
      <3>2. sess'[n] = [sess[n] EXCEPT !.revoked = TRUE]
        BY <2>2, <2>3
      <3> QED
        BY <3>1, <3>2 DEF Login
    <2>5. ReplyOK(req[r].reply)'
      BY <2>1 DEF ReplyOK
    <2> QED
      BY <1>1, <2>1, <2>2, <2>3, <2>4, <2>5
  <1> QED
    BY <1>3, <1>4, <1>5

\* The home page, the deletion of an account, and the link for a new password.
LEMMA PageStep ==
    ASSUME ReqInv, Kept, NEW r \in Reqs,
           Renders(r) \/ FindsForDelete(r) \/ Deletes(r) \/ FindsByLink(r)
    PROVE  Only(r) /\ ReqOK(r)'
  <1> USE DEF ReqOK, ShapeOK, GoogleOK, LoadOK, RevokeOK, DeleteOK, UpdateOK, ConfirmOK, Is, At
  <1>1. /\ req[r] # Nobody /\ ReqOK(r) /\ JarOK(req[r].jar) /\ DOMAIN req = Reqs
        /\ \A j : JarOK(j) => JarOK(j)'
    BY JarKeeps DEF Renders, FindsForDelete, Deletes, FindsByLink, ReqInv, Kept
  <1>2. ASSUME Ends(r) PROVE Only(r) /\ ReqOK(r)'
    BY <1>2, Ended
  <1>3. CASE Renders(r)
    <2> DEFINE n == req[r].jar["jwt"]
    <2>1. ASSUME NEW i \in Resolve(n),
                 req' = [req EXCEPT ![r].at = "done", ![r].arg = row[i].email]
          PROVE  Only(r) /\ ReqOK(r)'
      <3>1. n \in DOMAIN sess /\ i \in Users /\ row[i].email = sess[n].sub
        BY <2>1 DEF Resolve, Holder, Has
      <3>2. row[i].email \in Emails
        BY <3>1, UsersHaveRows DEF Kept, Rows
      <3>3. n # 0
        BY <3>1, SessDomain DEF Kept
      <3>4. OfLogin(n, row[i].email)
        BY <1>1, <3>1, <3>2, <3>3 DEF OfLogin, JarOK, Cookies
      <3> DEFINE e == row[i].email
      <3> HIDE DEF e
      <3>5. DOMAIN req = Reqs /\ DOMAIN req[r] = Fields /\ req[r].op = "load"
        BY <1>1, <1>3 DEF Renders
      <3>6. /\ Only(r) /\ DOMAIN req'[r] = Fields
            /\ req'[r].op = "load" /\ req'[r].at = "done" /\ req'[r].jar = req[r].jar
            /\ req'[r].arg = e /\ req'[r].reply = req[r].reply
        BY <2>1, <3>5 DEF e, Only, Fields
      <3>7. sess' = sess /\ OfLogin(n, e) /\ DOMAIN req[r].reply = {}
        BY <1>1, <1>3, <3>4, <3>5 DEF Renders, e
      <3>8. OfLogin(req[r].jar["jwt"], req[r].arg)'
        BY <3>6, <3>7 DEF OfLogin, Known
      <3>9. ReplyOK(req[r].reply)'
        BY <3>6, <3>7 DEF ReplyOK
      <3>10. JarOK(req[r].jar)'
        BY <1>1, <3>6
      <3> QED
        BY <3>6, <3>7, <3>8, <3>9, <3>10
    <2> QED
      BY <1>2, <1>3, <2>1 DEF Renders
  <1>4. CASE FindsForDelete(r)
    <2>1. ASSUME CsrfPasses(r, req[r].arg.csrf), Goes(r, "found", Nobody)
          PROVE  Only(r) /\ ReqOK(r)'
      <3>1. /\ Only(r) /\ DOMAIN req'[r] = Fields
            /\ req'[r].op = "delete" /\ req'[r].at = "found" /\ req'[r].jar = req[r].jar
            /\ req'[r].arg = req[r].arg
        BY <1>1, <1>4, <2>1, Gone DEF FindsForDelete
      <3>2. /\ sess' = sess /\ OfLogin(req[r].arg.login, req[r].arg.email)
            /\ req[r].arg.csrf = req[r].jar["csrf"]
        BY <1>1, <1>4, <2>1 DEF FindsForDelete, CsrfPasses
      <3>3. OfLogin(req[r].arg.login, req[r].arg.email)'
        BY <3>1, <3>2 DEF OfLogin, Known
      <3> QED
        BY <1>1, <3>1, <3>2, <3>3
    <2> QED
      BY <1>2, <1>4, <2>1 DEF FindsForDelete
  <1>5. CASE Deletes(r)
    <2>1. /\ Only(r) /\ DOMAIN req'[r] = Fields
          /\ req'[r].op = "delete" /\ req'[r].at = "done" /\ req'[r].jar = req[r].jar
          /\ req'[r].arg = req[r].arg /\ req'[r].reply = [c \in Cookies |-> 0]
      BY <1>1, <1>5, Replied DEF Deletes
    <2>2. sess' = sess /\ OfLogin(req[r].arg.login, req[r].arg.email)
      BY <1>1, <1>5 DEF Deletes
    <2>3. OfLogin(req[r].arg.login, req[r].arg.email)'
      BY <2>1, <2>2 DEF OfLogin, Known
    <2>4. ReplyOK(req[r].reply)'
      BY <2>1 DEF ReplyOK
    <2> QED
      BY <1>1, <2>1, <2>3, <2>4
  <1>6. CASE FindsByLink(r)
    <2> DEFINE i == req[r].arg.link[1]
               t == req[r].arg.link[2]
    <2>1. ASSUME i \in Users, row[i].token = t, Goes(r, "found", i)
          PROVE  Only(r) /\ ReqOK(r)'
      <3>1. /\ Only(r) /\ DOMAIN req'[r] = Fields
            /\ req'[r].op = "confirm" /\ req'[r].at = "found" /\ req'[r].jar = req[r].jar
            /\ req'[r].arg = req[r].arg /\ req'[r].id = i
        BY <1>1, <1>6, <2>1, Gone DEF FindsByLink
      <3>2. /\ last' = last /\ req[r].arg.link \in (1 .. last) \X Tokens
            /\ ~req[r].arg.live => Dead(i, t)
        BY <1>1, <1>6 DEF FindsByLink, dbVars
      <3>3. row[i].token \in Tokens
        BY <2>1, UsersHaveRows DEF Kept, Rows
      <3>4. req[r].arg.live
        BY <2>1, <3>2, <3>3, BoundsAssumption DEF Dead, Tokens
      <3> QED
        BY <1>1, <3>1, <3>2, <3>4
    <2> QED
      BY <1>2, <1>6, <2>1 DEF FindsByLink
  <1> QED
    BY <1>3, <1>4, <1>5, <1>6

LEMMA ReqStep ==
    ASSUME SessionsTypeOK, ReqInv, BrowserInv, IdInv, Kept, [Next]_vars
    PROVE  ReqInv'
  <1>1. ASSUME NEW r \in Reqs, Ends(r) PROVE ReqInv'
    BY <1>1, Ended, OneRequest
  <1>2. ASSUME NEW r \in Reqs, Serves(r) PROVE ReqInv'
    <2>1. Ends(r) \/ (Only(r) /\ ReqOK(r)')
      <3>1. Ends(r) \/ ~(\/ ExchangeFails(r) \/ CreateFails(r) \/ RevokeFails(r)
                         \/ Updates(r) \/ UpdateFails(r) \/ ApiDeletes(r) \/ SetsPassword(r))
        BY DEF ExchangeFails, CreateFails, RevokeFails, Updates, UpdateFails, ApiDeletes,
               SetsPassword
      <3> QED
        BY <1>2, <3>1, GoogleStep, LeavingStep, PageStep DEF Serves, Kept
    <2> QED
      BY <1>1, <2>1, OneRequest
  <1>3. CASE req' = req
    <2>1. ASSUME NEW p \in Reqs PROVE ReqOK(p)'
      BY <1>3, RequestKeeps DEF Kept, ReqInv
    <2> QED
      BY <1>3, <2>1 DEF ReqInv
  <1> QED
    BY <1>1, <1>2, <1>3, AsksStep
    DEF Next, Registers, SendsLink, Arrives, IsLost, Expires, CsrfExpires, RunsScript, vars

-----------------------------------------------------------------------------
(***************************************************************************)
(* The browser, the accounts of the logins, ids, links and tokens.         *)
(***************************************************************************)

\* Cookies that go together, put into the browser or taken out of it.
LEMMA JarTakes ==
    ASSUME BrowserInv, SessType, UNCHANGED sess, NEW a, ReplyOK(a),
           jar' = [c \in Cookies |-> IF c \in DOMAIN a THEN a[c] ELSE jar[c]]
    PROVE  JarOK(jar)'
  <1> USE SessDomain DEF BrowserInv, JarOK, Known, Cookies
  <1>1. jar' \in Jars
    BY BoundsAssumption DEF ReplyOK, SessType, Jars, Logins
  <1>2. ASSUME NEW n \in DOMAIN sess, Known(n), ~sess[n].google,
               a = [c \in {"jwt", "csrf"} |-> n]
        PROVE  JarOK(jar)'
    BY <1>1, <1>2
  <1>3. ASSUME NEW n \in DOMAIN sess, Known(n), a = [c \in Cookies |-> n]
        PROVE  JarOK(jar)'
    BY <1>1, <1>3
  <1>4. CASE a = [c \in Cookies |-> 0] \/ a = [c \in {"jwt", "csrf"} |-> 0]
    BY <1>1, <1>4
  <1>5. CASE DOMAIN a = {}
    BY <1>1, <1>5
  <1> QED
    BY <1>2, <1>3, <1>4, <1>5 DEF ReplyOK
LEMMA BrowserStep ==
    ASSUME ReqInv, BrowserInv, Kept, [Next]_vars PROVE BrowserInv'
  <1> DEFINE PageFields == {"email", "login", "gat", "script", "csrf"}
             PageOK == page # Nobody => DOMAIN page = PageFields /\ OfLogin(page.login, page.email)
  <1>1. JarOK(jar) /\ PageOK /\ (\A j : JarOK(j) => JarOK(j)')
        /\ (\A n, e : OfLogin(n, e) => OfLogin(n, e)')
    BY JarKeeps, LoginKeeps DEF BrowserInv, Kept
  <1>2. ASSUME jar' = jar PROVE JarOK(jar)'
    BY <1>1, <1>2
  <1>3. ASSUME page' = page PROVE PageOK'
    BY <1>1, <1>3
  <1>4. CASE UNCHANGED browserVars
    BY <1>2, <1>3, <1>4 DEF browserVars, BrowserInv
  <1>5. ASSUME NEW r \in Reqs, Arrives(r) PROVE BrowserInv'
    <2>1. ReqOK(r) /\ req[r] # Nobody /\ req[r].at = "done" /\ UNCHANGED sess
      BY <1>5 DEF Arrives, ReqInv
    <2>2. JarOK(jar)'
      <3> DEFINE a == req[r].reply
      <3>1. ReplyOK(a) /\ SessType
        BY <2>1 DEF ReqOK, Kept
      <3>2. jar' = [c \in Cookies |-> IF c \in DOMAIN a THEN a[c] ELSE jar[c]]
        BY <1>5 DEF Arrives
      <3> QED
        BY <2>1, <3>1, <3>2, JarTakes
    <2>3. PageOK'
      <3>1. CASE req[r].op = "load"
        <4>1. OfLogin(req[r].jar["jwt"], req[r].arg)
          BY <2>1, <3>1 DEF ReqOK, LoadOK, At
        <4>2. page' = [email |-> req[r].arg, login |-> req[r].jar["jwt"],
                       gat |-> req[r].jar["gat"] # 0, script |-> FALSE, csrf |-> 0]
          BY <1>5, <3>1 DEF Arrives
        <4>3. /\ DOMAIN page' = PageFields
              /\ page'.email = req[r].arg /\ page'.login = req[r].jar["jwt"]
          BY <4>2
        <4> QED
          BY <2>1, <4>1, <4>3 DEF OfLogin, Known
      <3>2. CASE req[r].op # "load"
        <4>1. page' = Nobody \/ page' = page
          BY <1>5, <3>2 DEF Arrives
        <4> QED
          BY <1>3, <4>1
      <3> QED
        BY <3>1, <3>2
    <2> QED
      BY <2>2, <2>3 DEF BrowserInv
  <1>6. ASSUME NEW n \in DOMAIN sess, Expires(n) PROVE BrowserInv'
    <2>1. JarOK(jar)'
      <3> DEFINE cut == [c \in Cookies |-> IF c # "csrf" /\ jar[c] = n THEN 0 ELSE jar[c]]
      <3>1. JarOK(cut)
        BY <1>1, BoundsAssumption DEF JarOK, Cookies, Jars, Logins
      <3>2. jar' = cut
        BY <1>6 DEF Expires
      <3> HIDE DEF cut
      <3> QED
        BY <1>1, <3>1, <3>2
    <2> QED
      BY <1>3, <1>6, <2>1 DEF Expires, BrowserInv
  <1>7. CASE CsrfExpires
    <2>1. JarOK(jar)'
      <3> DEFINE cut == [jar EXCEPT !["csrf"] = 0]
      <3>1. JarOK(cut)
        BY <1>1, BoundsAssumption DEF JarOK, Cookies, Jars, Logins
      <3>2. jar' = cut
        BY <1>7 DEF CsrfExpires
      <3> HIDE DEF cut
      <3> QED
        BY <1>1, <3>1, <3>2
    <2> QED
      BY <1>3, <1>7, <2>1 DEF CsrfExpires, BrowserInv
  <1>8. CASE RunsScript
    <2>1. /\ DOMAIN page = PageFields /\ OfLogin(page.login, page.email) /\ UNCHANGED <<sess, jar>>
          /\ page' = [page EXCEPT !.script = TRUE, !.csrf = jar["csrf"]]
      BY <1>1, <1>8 DEF RunsScript
    <2>2. DOMAIN page' = PageFields /\ page'.login = page.login /\ page'.email = page.email
      BY <2>1
    <2>3. OfLogin(page.login, page.email)'
      BY <2>1, <2>2 DEF OfLogin, Known
    <2> QED
      BY <1>2, <2>1, <2>2, <2>3 DEF BrowserInv
  <1>9. ASSUME NEW r \in Reqs, Asks(r) \/ Serves(r) \/ IsLost(r) PROVE UNCHANGED browserVars
    <2>1. CASE Asks(r)
      BY <2>1 DEF Asks, LogsIn, Sends, AsksRevoke, AsksDelete, FindsForUpdate,
          FindsForApiDelete
    <2>2. CASE Serves(r)
      BY <2>2 DEF Serves, Exchanges, ExchangeFails, KnowsAddress, LacksAddress, Creates,
          CreateFails, LogsOut, ChecksIdToken, GoogleRevokes, RevokeFails, Renders,
          FindsForDelete, Deletes, Updates, UpdateFails, ApiDeletes, FindsByLink, SetsPassword
    <2> QED
      BY <1>9, <2>1, <2>2 DEF IsLost
  <1> QED
    BY <1>4, <1>5, <1>6, <1>7, <1>8, <1>9 DEF Next, Registers, SendsLink, vars
OwnerOK(n) == sess[n].owner # Nobody => \/ sess[n].owner \in moved
                                        \/ Has(sess[n].owner, sess[n].sub)

LEMMA OwnerKeeps ==
    ASSUME Kept, OwnerInv, NEW n \in DOMAIN sess, sess'[n].owner = sess[n].owner
    PROVE  OwnerOK(n)'
  BY DEF Kept, OwnerInv, OwnerOK, SessKeeps, RowsKeep, Has

\* The account of a login has its address when the login is answered.
LEMMA AnsweredOwner ==
    ASSUME Kept, ReqInv, NEW r \in Reqs, KnowsAddress(r) \/ Creates(r), OwnerInv
    PROVE  OwnerInv'
  <1>m. PICK m : m = req[r].arg
    OBVIOUS
  <1>e. PICK e : e = sess[req[r].arg].sub
    OBVIOUS
  <1>1. Is(r, "google") /\ req[r].at # "sent" /\ GoogleOK(r)
    BY DEF KnowsAddress, Creates, At, Is, ReqInv, ReqOK
  <1>2. /\ SessType /\ SessKeeps /\ RowType /\ RowType' /\ last \in 0 .. MaxIds
        /\ m \in DOMAIN sess
    BY <1>1, <1>m DEF Kept, RowType, GoogleOK
  <1>3. ASSUME NEW i \in Ids \cup {Nobody}, GoogleReplies(r, i),
               i = Nobody => e = Nobody, i # Nobody => Has(i, e)'
        PROVE  OwnerInv'
    <2>1. /\ DOMAIN sess' = DOMAIN sess /\ sess'[m] = [sess[m] EXCEPT !.owner = i]
          /\ \A n \in DOMAIN sess \ {m} : sess'[n] = sess[n]
      BY <1>1, <1>2, <1>3, <1>m, <1>e, Answered
    <2>2. sess'[m].owner = i /\ sess'[m].sub = e
      <3>1. sess[m] \in Login
        BY <1>2, SessDomain
      <3> QED
        BY <2>1, <3>1, <1>m, <1>e DEF Login
    <2>3. ASSUME NEW n \in DOMAIN sess' PROVE OwnerOK(n)'
      <3>1. CASE n = m
        BY <1>3, <2>2, <3>1 DEF OwnerOK
      <3>2. CASE n # m
        BY <2>1, <3>2, OwnerKeeps
      <3> QED
        BY <3>1, <3>2
    <2> QED
      BY <2>3 DEF OwnerInv, OwnerOK
  <1>4. CASE KnowsAddress(r)
    <2>1. row' = row
      BY <1>4 DEF KnowsAddress, dbVars
    <2>2. ASSUME NEW i \in Holder(e), GoogleReplies(r, i)
          PROVE  i \in Ids /\ i # Nobody /\ Has(i, e)'
      <3>1. i \in Ids /\ Has(i, e)
        BY <2>2 DEF Holder
      <3>2. i # Nobody
        BY <3>1, NobodyAssumption DEF Ids
      <3> QED
        BY <2>1, <3>1, <3>2 DEF Has, Users
    <2> QED
      BY <1>3, <1>4, <1>m, <1>e, <2>2 DEF KnowsAddress
  <1>5. CASE Creates(r)
    <2>i. PICK i : i = last + 1
      OBVIOUS
    <2>1. GoogleReplies(r, i) /\ last < MaxIds
      BY <1>5, <2>i DEF Creates, Inserts
    <2>2. i \in Ids /\ i # Nobody
      BY <1>2, <2>i, <2>1, BoundsAssumption, NobodyAssumption DEF Ids
    <2> DEFINE new == [email |-> e, verified |-> FALSE, token |-> 0, pw |-> Nobody]
    <2>3. row' = [row EXCEPT ![i] = new]
      BY <1>5, <1>e, <2>i DEF Creates, Inserts
    <2>4. row'[i] = new /\ new \in Rows /\ new # Nobody
      <3>1. e \in Emails
        BY <1>1, <1>5, <1>e DEF Creates, At, GoogleOK, Is
      <3>2. new \in Rows
        BY <3>1, NewAccount
      <3> HIDE DEF new
      <3> QED
        BY <1>2, <2>2, <2>3, <3>2, RowsAssumption DEF RowType
    <2>5. /\ i \in Users' /\ row'[i].email = e
      BY <2>2, <2>4 DEF Users
    <2> QED
      BY <1>3, <2>1, <2>2, <2>5 DEF Has
  <1> QED
    BY <1>4, <1>5

LEMMA OwnerStep ==
    ASSUME Kept, ReqInv, OwnerInv, OwnersSame \/ Entering PROVE OwnerInv'
  <1>1. CASE OwnersSame
    BY <1>1, OwnerKeeps DEF OwnersSame, OwnerInv, OwnerOK
  <1>2. ASSUME NEW g \in BOOLEAN, NEW e \in Emails \cup {Nobody}, NEW i \in Ids \cup {Nobody},
               Begins(g, e, i), row' = row, i # Nobody => Has(i, e)
        PROVE  OwnerInv'
    <2>1. /\ DOMAIN sess' = 1 .. Len(sess) + 1 /\ DOMAIN sess = 1 .. Len(sess)
          /\ sess'[Len(sess) + 1] = [google |-> g, sub |-> e, owner |-> i,
                                     live |-> TRUE, revoked |-> FALSE]
          /\ \A n \in DOMAIN sess : sess'[n] = sess[n]
      BY <1>2, Begun, SessDomain DEF Kept
    <2>2. ASSUME NEW n \in DOMAIN sess' PROVE OwnerOK(n)'
      <3>1. n \in DOMAIN sess \/ n = Len(sess) + 1
        BY <2>1, BoundsAssumption DEF Kept, SessType, Logins
      <3>2. CASE n \in DOMAIN sess
        BY <2>1, <3>2, OwnerKeeps
      <3>3. CASE n = Len(sess) + 1
        <4>1. sess'[n].owner = i /\ sess'[n].sub = e
          BY <2>1, <3>3
        <4> QED
          BY <1>2, <4>1 DEF OwnerOK, Has, Users
      <3> QED
        BY <3>1, <3>2, <3>3
    <2> QED
      BY <2>2 DEF OwnerInv, OwnerOK
  <1>3. ASSUME NEW r \in Reqs, NEW e \in Emails, LogsIn(r, e) PROVE OwnerInv'
    <2>1. PICK i \in Ids : Has(i, e) /\ Begins(FALSE, e, i)
      BY <1>3 DEF LogsIn, Holder
    <2> QED
      BY <1>2, <1>3, <2>1 DEF LogsIn, dbVars
  <1>4. ASSUME NEW r \in Reqs, Exchanges(r) PROVE OwnerInv'
    <2>1. req[r].arg \in Emails \cup {Nobody} /\ Begins(TRUE, req[r].arg, Nobody) /\ row' = row
      BY <1>4 DEF Exchanges, At, Is, ReqInv, ReqOK, GoogleOK, dbVars
    <2> QED
      BY <1>2, <2>1
  <1> QED
    BY <1>1, <1>3, <1>4, AnsweredOwner DEF Entering

\* Only a mail adds a link.
LEMMA LinksStep ==
    ASSUME [Next]_vars PROVE links' = links \/ \E e \in Emails : SendsLink(e)
  <1>1. ASSUME NEW r \in Reqs, Asks(r) PROVE links' = links
    BY <1>1 DEF Asks, LogsIn, Sends, AsksRevoke, AsksDelete, FindsForUpdate,
          FindsForApiDelete
  <1>2. ASSUME NEW r \in Reqs, Serves(r) PROVE links' = links
    BY <1>2 DEF Serves, Exchanges, ExchangeFails, KnowsAddress, LacksAddress, Creates,
        CreateFails, LogsOut, ChecksIdToken, GoogleRevokes, RevokeFails, Renders,
        FindsForDelete, Deletes, Updates, UpdateFails, ApiDeletes, FindsByLink, SetsPassword
  <1> QED
    BY <1>1, <1>2 DEF Next, Registers, Arrives, IsLost, Expires, CsrfExpires, RunsScript, vars

LEMMA IdStep ==
    ASSUME SessionsTypeOK, ReqInv, IdInv, Kept, [Next]_vars PROVE IdInv'
  <1>1. last \in Int /\ last' \in Int /\ last <= last'
    BY BoundsAssumption DEF Kept, RowType, RowsKeep
  <1>2. \A i \in Users' : i <= last'
    <2> TAKE i \in Users'
    <2>1. i \in Int
      BY DEF Users, Ids
    <2> QED
      BY <1>1, <2>1 DEF Kept, RowsKeep, IdInv
  <1>3. ASSUME NEW l \in links
        PROVE  l[1] \in 1 .. last' /\ (l[1] \in Users' => l[2] <= row'[l[1]].token)
    <2> DEFINE i == l[1]
    <2>1. i \in 1 .. last /\ (i \in Users => l[2] <= row[i].token) /\ l[2] \in Tokens
      BY DEF IdInv, SessionsTypeOK
    <2>2. ASSUME i \in Users' PROVE l[2] <= row'[i].token
      <3>1. i \in Users /\ row[i].token <= row'[i].token
        BY <1>1, <2>1, <2>2 DEF Kept, RowsKeep
      <3>2. row[i].token \in Tokens
        BY <3>1, UsersHaveRows DEF Kept, Rows
      <3>3. row'[i].token \in Tokens
        <4>1. row'[i] \in Rows
          BY <2>2 DEF Kept, RowType, Users
        <4> QED
          BY <4>1 DEF Rows
      <3> QED
        BY <2>1, <3>1, <3>2, <3>3, BoundsAssumption DEF Tokens
    <2> QED
      BY <1>1, <2>1, <2>2
  <1>4. ASSUME NEW e \in Emails, SendsLink(e)
        PROVE  \A l \in links' : l \in links \/
                   (l[1] \in 1 .. last' /\ (l[1] \in Users' => l[2] <= row'[l[1]].token))
    <2>1. PICK i \in Ids : i \in Users /\ links' = links \cup {<<i, row[i].token>>}
      BY <1>4 DEF SendsLink, Holder, Has
    <2>2. row' = row /\ last' = last
      BY <1>4 DEF SendsLink, dbVars
    <2>3. i \in 1 .. last
      BY <2>1, <1>1 DEF IdInv, Ids
    <2>4. row[i].token <= row[i].token
      BY <2>1, UsersHaveRows, BoundsAssumption DEF Kept, Rows, Tokens
    <2> QED
      BY <2>1, <2>2, <2>3, <2>4
  <1>6. \A l \in links' : l[1] \in 1 .. last' /\ (l[1] \in Users' => l[2] <= row'[l[1]].token)
    BY <1>3, <1>4, LinksStep
  <1> QED
    BY <1>2, <1>6 DEF IdInv
\* Serving a request makes nothing pending; it may end what is pending.
LEMMA ServesPending ==
    ASSUME ReqInv, NEW r \in Reqs, Serves(r) \/ Arrives(r) \/ IsLost(r)
    PROVE  Pending' \subseteq Pending \ {r} /\ events' = events
  <1>1. ASSUME Only(r), req'[r] = Nobody \/ req'[r].op # "update"
        PROVE  Pending' \subseteq Pending \ {r}
    BY <1>1 DEF Pending, Only, At
  <1>2. ASSUME Ends(r) PROVE Pending' \subseteq Pending \ {r}
    <2>1. Only(r) /\ req'[r] = Nobody
      BY <1>2 DEF Ends, ReqInv, Only
    <2> QED
      BY <1>1, <2>1
  <1>3. ASSUME req[r] # Nobody, req[r].op # "update", NEW at, NEW i, Goes(r, at, i)
        PROVE  Pending' \subseteq Pending \ {r}
    <2>1. Only(r) /\ req'[r].op = req[r].op
      BY <1>3, Gone
    <2> QED
      BY <1>1, <1>3, <2>1
  <1>4. ASSUME req[r] # Nobody, req[r].op # "update", NEW n, NEW cs, Replies(r, n, cs)
        PROVE  Pending' \subseteq Pending \ {r}
    <2>1. Only(r) /\ req'[r].op = req[r].op
      BY <1>4, Replied
    <2> QED
      BY <1>1, <1>4, <2>1
  <1>5. ASSUME req[r] # Nobody, req[r].op # "update", NEW at, NEW a,
               req' = [req EXCEPT ![r].at = at, ![r].arg = a]
        PROVE  Pending' \subseteq Pending \ {r}
    <2>1. DOMAIN req = Reqs /\ DOMAIN req[r] = Fields
      BY <1>5 DEF ReqInv, ReqOK, ShapeOK
    <2>2. Only(r) /\ req'[r].op = req[r].op
      BY <1>5, <2>1 DEF Only, Fields
    <2> QED
      BY <1>1, <1>5, <2>2
  <1>6. CASE \/ ExchangeFails(r) \/ CreateFails(r) \/ RevokeFails(r) \/ Updates(r)
             \/ UpdateFails(r) \/ ApiDeletes(r) \/ SetsPassword(r) \/ Arrives(r) \/ IsLost(r)
    BY <1>2, <1>6 DEF ExchangeFails, CreateFails, RevokeFails, Updates, UpdateFails,
        ApiDeletes, SetsPassword, Arrives, IsLost
  <1>7. CASE Exchanges(r) \/ Renders(r)
    BY <1>2, <1>5, <1>7 DEF Exchanges, Renders, At
  <1>8. CASE KnowsAddress(r) \/ Creates(r)
    <2>1. /\ req[r] # Nobody /\ req[r].op # "update" /\ events' = events
          /\ \E i : GoogleReplies(r, i)
      BY <1>8 DEF KnowsAddress, Creates, At
    <2> QED
      BY <1>4, <2>1 DEF GoogleReplies
  <1>9. CASE LacksAddress(r) \/ ChecksIdToken(r) \/ FindsForDelete(r) \/ FindsByLink(r)
    BY <1>2, <1>3, <1>9 DEF LacksAddress, ChecksIdToken, FindsForDelete, FindsByLink, At
  <1>10. CASE LogsOut(r) \/ GoogleRevokes(r) \/ Deletes(r)
    BY <1>2, <1>4, <1>10 DEF LogsOut, GoogleRevokes, Deletes, At
  <1> QED
    BY <1>6, <1>7, <1>8, <1>9, <1>10 DEF Serves

LEMMA AsksPending ==
    ASSUME ReqInv, NEW r \in Reqs, Asks(r)
    PROVE  Pending' \subseteq Pending \cup {r} /\ events' = events + 1
  <1>1. Only(r) /\ events' = events + 1
    <2>1. \E op, at, cookies, arg, id, reply : Opens(r, op, at, cookies, arg, id, reply)
      BY DEF Asks, LogsIn, Sends, AsksRevoke, AsksDelete, FindsForUpdate,
          FindsForApiDelete
    <2>2. events' = events + 1
      BY <2>1 DEF Opens, Event
    <2> QED
      BY <2>1, <2>2, Opened
  <1> QED
    BY <1>1 DEF Only, Pending, At

\* Fewer are pending, or one more and it has been counted.
LEMMA PendingStep ==
    ASSUME ReqInv, events \in Nat, [Next]_vars
    PROVE  /\ events' \in Nat /\ events <= events'
           /\ Cardinality(Pending') + events <= Cardinality(Pending) + events'
  <1> DEFINE Goal == /\ events' \in Nat /\ events <= events'
                     /\ Cardinality(Pending') + events <= Cardinality(Pending) + events'
  <1>1. ASSUME Pending' \subseteq Pending, events' = events \/ events' = events + 1
        PROVE  Goal
    <2>1. Cardinality(Pending') <= Cardinality(Pending) /\ IsFiniteSet(Pending')
      BY <1>1, PendingFinite, FS_Subset
    <2>2. Cardinality(Pending') \in Nat
      BY <2>1, FS_CardinalityType
    <2> QED
      BY <1>1, <2>1, <2>2, PendingFinite
  <1>2. ASSUME NEW r \in Reqs, Asks(r) PROVE Goal
    <2>1. Pending' \subseteq Pending \cup {r} /\ events' = events + 1
      BY <1>2, AsksPending
    <2>2. /\ IsFiniteSet(Pending \cup {r})
          /\ Cardinality(Pending \cup {r}) <= Cardinality(Pending) + 1
      <3>1. /\ IsFiniteSet(Pending \cup {r})
            /\ \/ Cardinality(Pending \cup {r}) = Cardinality(Pending)
               \/ Cardinality(Pending \cup {r}) = Cardinality(Pending) + 1
        BY PendingFinite, FS_AddElement, Zenon
      <3> QED
        BY <3>1, PendingFinite
    <2>3. IsFiniteSet(Pending') /\ Cardinality(Pending') <= Cardinality(Pending \cup {r})
      BY <2>1, <2>2, FS_Subset
    <2>4. Cardinality(Pending') \in Nat /\ Cardinality(Pending \cup {r}) \in Nat
      BY <2>2, <2>3, FS_CardinalityType
    <2> QED
      BY <2>1, <2>2, <2>3, <2>4, PendingFinite
  <1>3. ASSUME NEW r \in Reqs, Serves(r) \/ Arrives(r) \/ IsLost(r) PROVE Goal
    <2>1. Pending' \subseteq Pending /\ events' = events
      BY <1>3, ServesPending
    <2> QED
      BY <1>1, <2>1
  <1>4. CASE req' = req /\ (events' = events \/ events' = events + 1)
    <2>1. Pending' = Pending
      BY <1>4 DEF Pending, At
    <2> QED
      BY <1>1, <1>4, <2>1
  <1>5. \/ \E r \in Reqs : Asks(r) \/ Serves(r) \/ Arrives(r) \/ IsLost(r)
        \/ req' = req /\ (events' = events \/ events' = events + 1)
    BY DEF Next, Registers, SendsLink, Expires, CsrfExpires, RunsScript, Event, vars
  <1> QED
    BY <1>2, <1>3, <1>4, <1>5

LEMMA TokenStep ==
    ASSUME SessionsTypeOK, ReqInv, TokenInv, Kept, [Next]_vars,
           SameTokens \/ \E r \in Reqs : Updates(r)
    PROVE  TokenInv'
  <1>1. events \in Nat
    BY BoundsAssumption DEF SessionsTypeOK
  <1>2. /\ events' \in Nat /\ events <= events'
        /\ Cardinality(Pending') + events <= Cardinality(Pending) + events'
    BY <1>1, PendingStep
  <1>3. Pending' \in SUBSET Reqs /\ IsFiniteSet(Pending') /\ Cardinality(Pending') \in Nat
    <2>1. Pending' \in SUBSET Reqs
      BY DEF Pending
    <2>2. IsFiniteSet(Pending')
      BY <2>1, ReqsAssumption, FS_Subset
    <2> QED
      BY <2>1, <2>2, FS_CardinalityType
  <1>4. Cardinality(Pending') <= events'
    BY <1>1, <1>2, <1>3, PendingFinite DEF TokenInv
  <1>5. ASSUME NEW i \in Users' PROVE row'[i].token + Cardinality(Pending') <= events'
    <2>1. CASE i \notin Users
      <3>1. row'[i].token = 0
        BY <1>5, <2>1 DEF Kept, RowsKeep
      <3> QED
        BY <1>3, <1>4, <1>2, <3>1
    <2>2. CASE i \in Users
      <3>1. row[i].token \in Nat /\ row'[i].token \in Nat
        <4>1. row[i] \in Rows /\ row'[i] \in Rows
          BY <1>5, <2>2 DEF Kept, RowType, Users
        <4> QED
          BY <4>1, BoundsAssumption DEF Rows, Tokens
      <3>2. row[i].token + Cardinality(Pending) <= events
        BY <2>2 DEF TokenInv
      <3>3. CASE SameTokens
        <4>1. row'[i].token = row[i].token
          BY <1>5, <2>2, <3>3 DEF SameTokens
        <4> QED
          BY <1>1, <1>2, <1>3, <3>1, <3>2, <4>1, PendingFinite
      <3>4. ASSUME NEW r \in Reqs, Updates(r)
            PROVE  row'[i].token + Cardinality(Pending') <= events'
        <4>1. row'[i].token <= row[i].token + 1
          BY <1>5, <2>2, <3>4, UpdateWrites DEF Kept, SessionsTypeOK
        <4>2. r \in Pending /\ Pending' \subseteq Pending \ {r} /\ events' = events
          <5>1. Serves(r) /\ r \in Pending
            BY <3>4 DEF Serves, Updates, Pending
          <5> QED
            BY <5>1, ServesPending
        <4>3. /\ IsFiniteSet(Pending \ {r})
              /\ Cardinality(Pending \ {r}) = Cardinality(Pending) - 1
          BY <4>2, PendingFinite, FS_RemoveElement
        <4>4. Cardinality(Pending') <= Cardinality(Pending) - 1
          BY <4>2, <4>3, FS_Subset
        <4> QED
          BY <1>1, <1>3, <3>1, <3>2, <4>1, <4>2, <4>4, PendingFinite
      <3> QED
        BY <3>3, <3>4
    <2> QED
      BY <2>1, <2>2
  <1> QED
    BY <1>4, <1>5 DEF TokenInv
-----------------------------------------------------------------------------
(***************************************************************************)
(* The invariant.                                                          *)
(***************************************************************************)

LEMMA IInit == Init => IInv
  <1> SUFFICES ASSUME Init PROVE IInv
    OBVIOUS
  <1>1. JarOK(jar)
    BY BoundsAssumption DEF Init, JarOK, Jars, Cookies, Logins
  <1>2. Users = {}
    BY DEF Init, Users
  <1>3. ReqInv /\ BrowserInv /\ OwnerInv /\ IdInv
    BY <1>1, <1>2 DEF Init, ReqInv, ReqOK, ShapeOK, GoogleOK, LoadOK, RevokeOK, DeleteOK,
        UpdateOK, ConfirmOK, Is, At, BrowserInv, OwnerInv, IdInv
  <1>4. TokenInv
    <2>1. Pending = {}
      BY DEF Init, Pending, At
    <2> QED
      BY <1>2, <2>1, FS_EmptySet DEF Init, TokenInv
  <1>5. SessionsTypeOK
    <2>1. sess \in Seq(Login) /\ Len(sess) = 0
      BY EmptySeq DEF Init
    <2>2. row \in [Ids -> Rows \cup {Nobody}]
      BY DEF Init
    <2> QED
      BY <1>1, <1>2, <2>1, <2>2, BoundsAssumption
      DEF Init, SessionsTypeOK, JarOK, Login, Logins, Ids
  <1> QED
    BY <1>3, <1>4, <1>5 DEF IInv

LEMMA TypeStep ==
    ASSUME SessionsTypeOK, Kept, ReqInv', BrowserInv', [Next]_vars PROVE SessionsTypeOK'
  <1>1. events' \in 0 .. MaxEvents
    <2>1. events' = events \/ Event
      <3>1. ASSUME NEW r \in Reqs, Asks(r) PROVE Event
        <4>1. \E op, at, cookies, arg, id, reply : Opens(r, op, at, cookies, arg, id, reply)
          BY <3>1 DEF Asks, LogsIn, Sends, AsksRevoke, AsksDelete, FindsForUpdate,
          FindsForApiDelete
        <4> QED
          BY <4>1 DEF Opens
      <3>2. ASSUME NEW r \in Reqs, Serves(r) \/ Arrives(r) \/ IsLost(r) PROVE events' = events
        BY <3>2 DEF Serves, Exchanges, ExchangeFails, KnowsAddress, LacksAddress, Creates,
            CreateFails, LogsOut, ChecksIdToken, GoogleRevokes, RevokeFails, Renders,
            FindsForDelete, Deletes, Updates, UpdateFails, ApiDeletes, FindsByLink, SetsPassword,
            Arrives, IsLost
      <3> QED
        BY <3>1, <3>2 DEF Next, Registers, SendsLink, Expires, CsrfExpires, RunsScript, vars
    <2> QED
      BY <2>1, BoundsAssumption DEF SessionsTypeOK, Event
  <1>2. links' \subseteq Ids \X Tokens
    <2>1. ASSUME NEW e \in Emails, SendsLink(e) PROVE links' \subseteq Ids \X Tokens
      <3>1. PICK i \in Ids : i \in Users /\ links' = links \cup {<<i, row[i].token>>}
        BY <2>1 DEF SendsLink, Holder, Has
      <3>2. row[i].token \in Tokens
        BY <3>1, UsersHaveRows DEF Kept, Rows
      <3> QED
        BY <3>1, <3>2 DEF SessionsTypeOK
    <2> QED
      BY <2>1, LinksStep DEF SessionsTypeOK
  <1>3. jar' \in Jars /\ (page' # Nobody => page'.login \in Logins /\ page'.email \in Emails)
    <2>1. \A n \in DOMAIN sess' : n \in Logins
      <3>1. DOMAIN sess' = 1 .. Len(sess') /\ Len(sess') \in Logins
        BY LenProperties DEF Kept, SessType
      <3> QED
        BY <3>1, BoundsAssumption DEF Logins
    <2> QED
      BY <2>1 DEF BrowserInv, JarOK, OfLogin, Known
  <1>4. \A r \in Reqs : req'[r] # Nobody => req'[r].jar \in Jars
    BY DEF ReqInv, ReqOK, ShapeOK, JarOK
  <1> QED
    BY <1>1, <1>2, <1>3, <1>4 DEF SessionsTypeOK, Kept, SessType, Login, RowType

LEMMA Preserved == IInv /\ [Next]_vars => IInv'
  <1> SUFFICES ASSUME IInv, [Next]_vars PROVE IInv'
    OBVIOUS
  <1> USE DEF IInv
  <1>1. SessType' /\ SessKeeps /\ (OwnersSame \/ Entering)
    BY SessStep
  <1>2. RowType' /\ RowsKeep /\ (SameTokens \/ \E r \in Reqs : Updates(r))
    BY DbStep
  <1>3. Kept
    BY <1>1, <1>2 DEF Kept, SessType, RowType, SessionsTypeOK, Login
  <1>4. ReqInv' /\ BrowserInv' /\ OwnerInv' /\ IdInv' /\ TokenInv'
    BY <1>1, <1>2, <1>3, ReqStep, BrowserStep, OwnerStep, IdStep, TokenStep
  <1> QED
    BY <1>3, <1>4, TypeStep

LEMMA Invariant == Spec => []IInv
  BY IInit, Preserved, PTL DEF Spec

-----------------------------------------------------------------------------

\* Accounts, logins, cookies and requests keep their types; in particular two
\* accounts never have one address.
THEOREM SessionsTypeCorrect == Spec => []SessionsTypeOK
  <1>1. IInv => SessionsTypeOK
    BY DEF IInv
  <1> QED
    BY <1>1, Invariant, PTL

\* However replies are reordered or lost, the cookies of the browser are of one
\* login.
THEOREM CookiesGoTogether == Spec => []CookiesOfOneLogin
  <1>1. IInv => CookiesOfOneLogin
    BY DEF IInv, BrowserInv, JarOK, CookiesOfOneLogin
  <1> QED
    BY <1>1, Invariant, PTL

\* Google is disconnected only for a login whose access has been revoked.
THEOREM DisconnectedIsRevoked == Spec => []DisconnectedMeansRevoked
  <1>1. IInv => DisconnectedMeansRevoked
    BY DEF IInv, ReqInv, ReqOK, RevokeOK, DisconnectedMeansRevoked
  <1> QED
    BY <1>1, Invariant, PTL
-----------------------------------------------------------------------------
(***************************************************************************)
(* What a step may do to an account that there is.                         *)
(***************************************************************************)

LEMMA RowChanges ==
    ASSUME IInv, [Next]_vars, NEW i \in Users, row'[i] # row[i]
    PROVE  \E r \in Reqs :
              \/ Deletes(r) /\ Has(i, req[r].arg.email)
              \/ ApiDeletes(r)
              \/ Updates(r) /\ row'[i] \in Rows /\ row'[i].pw \in {row[i].pw, Own}
              \/ SetsPassword(r) /\ row'[i] \in Rows
  <1>1. RowType /\ ReqInv /\ IdInv /\ TokenInv /\ events \in 0 .. MaxEvents
    BY DEF IInv, SessionsTypeOK, RowType
  <1>2. i \in Ids /\ row[i] \in Rows /\ row[i] # Nobody
    BY <1>1, UsersHaveRows
  <1>3. ASSUME NEW e \in Emails, Registers(e) PROVE row'[i] = row[i]
    BY <1>1, <1>3, Inserted, NewAccount DEF Registers
  <1>4. ASSUME NEW r \in Reqs, Creates(r) PROVE row'[i] = row[i]
    <2>1. sess[req[r].arg].sub \in Emails
      BY <1>1, <1>4 DEF Creates, At, ReqInv, ReqOK, GoogleOK, Is
    <2> QED
      BY <1>1, <1>4, <2>1, Inserted, NewAccount DEF Creates
  <1>5. ASSUME NEW r \in Reqs, Deletes(r) PROVE Has(i, req[r].arg.email)
    BY <1>2, <1>5 DEF Deletes, Removes
  <1>6. ASSUME NEW r \in Reqs, Updates(r)
        PROVE  row'[i] \in Rows /\ row'[i].pw \in {row[i].pw, Own}
    BY <1>1, <1>6, UpdateWrites
  <1>7. ASSUME NEW r \in Reqs, SetsPassword(r) PROVE row'[i] \in Rows
    <2>1. req[r].arg.link[2] \in Tokens
      BY <1>1, <1>7 DEF SetsPassword, At, ReqInv, ReqOK, ConfirmOK, Is
    <2>2. row'[i] = row[i] \/ row'[i] = [row[i] EXCEPT !.pw = req[r].arg.link[2]]
      BY <1>1, <1>2, <1>7 DEF SetsPassword, RowType
    <2> QED
      BY <1>2, <2>1, <2>2 DEF Rows
  <1>8. ASSUME NEW r \in Reqs, Asks(r) PROVE row' = row
    BY <1>8 DEF Asks, LogsIn, Sends, AsksRevoke, AsksDelete, FindsForUpdate,
          FindsForApiDelete, dbVars
  <1>9. ASSUME NEW r \in Reqs, Serves(r)
        PROVE  \/ row' = row
               \/ Creates(r) \/ Deletes(r) \/ ApiDeletes(r) \/ Updates(r) \/ SetsPassword(r)
    BY <1>9 DEF Serves, Exchanges, ExchangeFails, KnowsAddress, LacksAddress, CreateFails,
        LogsOut, ChecksIdToken, GoogleRevokes, RevokeFails, Renders, FindsForDelete,
        UpdateFails, FindsByLink, dbVars
  <1>10. ASSUME NEW r \in Reqs, Serves(r)
         PROVE  Deletes(r) \/ ApiDeletes(r) \/ Updates(r) \/ SetsPassword(r)
    BY <1>4, <1>9, <1>10
  <1>11. \E r \in Reqs : Serves(r)
    BY <1>3, <1>8
    DEF Next, SendsLink, Arrives, IsLost, Expires, CsrfExpires, RunsScript, dbVars, vars
  <1> QED
    BY <1>5, <1>6, <1>7, <1>10, <1>11

\* What the home page deletes is the account of its own login, or that account
\* has given up its address, or the script of the page ran after another login.
THEOREM DeletesOnlyItsOwn == Spec => DeletesItsOwn
  <1> DEFINE Deleted(i, r) ==
                LET login == req[r].arg.login IN
                    \/ req[r].arg.csrf # login
                    \/ /\ req[r].jar["csrf"] = login
                       /\ sess[login].owner \in {i} \cup moved
  <1>1. ASSUME IInv, [Next]_vars, NEW r \in Reqs, NEW i \in Ids,
               At(r, "delete", "found"), At(r, "delete", "done")', i \in Users, row'[i] = Nobody
        PROVE  Deleted(i, r)
    <2>1. row'[i] # row[i] /\ row'[i] \notin Rows
      BY <1>1, RowsAssumption DEF Users
    <2>2. PICK q \in Reqs : \/ Deletes(q) /\ Has(i, req[q].arg.email)
                            \/ ApiDeletes(q)
      BY <1>1, <2>1, RowChanges
    <2>3. Only(q)
      BY <1>1, <2>2, Replied, Ended DEF Deletes, ApiDeletes, At, IInv
    <2>4. q = r
      BY <1>1, <2>3 DEF At, Only
    <2>5. Has(i, req[r].arg.email)
      BY <1>1, <2>2, <2>4 DEF ApiDeletes, At
    <2> DEFINE login == req[r].arg.login
    <2>6. DeleteOK(r) /\ RowType /\ OwnerInv
      BY <1>1 DEF IInv, ReqInv, ReqOK, SessionsTypeOK, RowType
    <2>7. /\ login \in DOMAIN sess /\ req[r].arg.email = sess[login].sub
          /\ sess[login].owner # Nobody \/ sess[login].sub = Nobody
          /\ req[r].arg.email \in Emails /\ req[r].arg.csrf = req[r].jar["csrf"]
      BY <1>1, <2>6 DEF DeleteOK, OfLogin, Known, Is, At
    <2>8. sess[login].owner # Nobody
      BY <2>7, NobodyAssumption
    <2>9. sess[login].owner \in moved \/ Has(sess[login].owner, req[r].arg.email)
      BY <2>6, <2>7, <2>8 DEF OwnerInv
    <2>10. sess[login].owner \in {i} \cup moved
      BY <2>5, <2>6, <2>9 DEF Has, RowType
    <2> QED
      BY <2>7, <2>10
  <1>2. IInv /\ [Next]_vars =>
            [\A r \in Reqs, i \in Ids :
                /\ At(r, "delete", "found") /\ At(r, "delete", "done")'
                /\ i \in Users /\ row'[i] = Nobody
                => Deleted(i, r)]_vars
    BY <1>1
  <1> QED
    BY <1>2, Invariant, PTL DEF Spec, DeletesItsOwn

\* A link to reset a password sets none for a request sent after the token of
\* the account has been renewed.
THEOREM LinksDie == Spec => LinkDiesWithItsToken
  <1>1. ASSUME IInv, [Next]_vars, NEW i \in Ids, i \in Users, row'[i] # Nobody,
               row'[i].pw # row[i].pw
        PROVE  \/ row'[i].pw = Own
               \/ \E r \in Reqs : At(r, "confirm", "found") /\ req[r].arg.live
    <2>1. CASE \E r \in Reqs : Deletes(r) \/ ApiDeletes(r)
      BY <1>1, <2>1 DEF Deletes, ApiDeletes, Removes
    <2>2. ASSUME NEW r \in Reqs, SetsPassword(r)
          PROVE  At(r, "confirm", "found") /\ req[r].arg.live
      BY <1>1, <2>2 DEF SetsPassword, IInv, ReqInv, ReqOK, ConfirmOK
    <2> QED
      BY <1>1, <2>1, <2>2, RowChanges
  <1>2. IInv /\ [Next]_vars =>
            [\A i \in Ids : i \in Users /\ row'[i] # Nobody /\ row'[i].pw # row[i].pw =>
                \/ row'[i].pw = Own
                \/ \E r \in Reqs : At(r, "confirm", "found") /\ req[r].arg.live]_vars
    BY <1>1
  <1> QED
    BY <1>2, Invariant, PTL DEF Spec, LinkDiesWithItsToken
=============================================================================
