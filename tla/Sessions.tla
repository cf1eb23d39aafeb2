------------------------------ MODULE Sessions ------------------------------
(***************************************************************************)
(* Logins, the cookies they leave in a browser, and what is done with them *)
(* (auth/router_api.py, dependencies.py, users/router.py, main.py): logging*)
(* in with a password or through Google, logging out, disconnecting Google,*)
(* the home page and the deletion of an account from it, the update and    *)
(* the deletion of an account through the API, and the reset of a forgotten*)
(* password.                                                               *)
(*                                                                         *)
(* There is one browser with several tabs.  Requests overlap: each carries *)
(* the cookies of the moment it is sent, and its reply changes the cookies *)
(* at the moment it arrives, in whatever order.  A request that is refused *)
(* changes nothing, and its reply nothing in the browser: it is over.  The *)
(* server keeps nothing of a session: a token names an address, and whoever*)
(* has that address when the token is shown is the user.                   *)
(***************************************************************************)
EXTENDS Integers, Sequences, FiniteSets

CONSTANTS
    Emails,
    Reqs,       \* requests that are under way at a time
    Nobody,     \* no account, no address, no request, no page
    Own,        \* the origin of a password its owner has chosen
    MaxIds,     \* bound: accounts that are created
    MaxLogins,  \* bound: sessions that begin
    MaxEvents   \* bound: requests sent, links mailed and cookies expired

ASSUME NobodyAssumption ==
    /\ Nobody \notin Emails
    /\ {Own, Nobody} \cap Nat = {} /\ Own # Nobody
ASSUME BoundsAssumption == {MaxIds, MaxLogins, MaxEvents} \subseteq Nat
ASSUME ReqsAssumption == IsFiniteSet(Reqs)

VARIABLES
    row,        \* the table of users
    last,       \* the last id that the serial column has given out
    moved,      \* history: accounts that have given up an address
    sess,       \* the logins so far; a token, and a CSRF token, is the number of its login
    jar,        \* the cookies of the browser: numbers of logins, or 0
    page,       \* the home page, as it is open in a tab
    links,      \* the links sent to reset a password
    req,        \* req[r]: a request and what has become of it
    events      \* counts what MaxEvents bounds

dbVars == <<row, last, moved>>
browserVars == <<jar, page>>
vars == <<dbVars, sess, browserVars, links, req, events>>

Ids == 1 .. MaxIds
Cookies == {"jwt", "gat", "csrf"}
Logins == 0 .. MaxLogins
Tokens == 0 .. MaxEvents
Jars == [Cookies -> Logins]

Rows == [email : Emails, verified : BOOLEAN, token : Tokens,
         pw : {Nobody, Own} \cup Tokens]

ASSUME RowsAssumption == Nobody \notin Rows

Users == {i \in Ids : row[i] # Nobody}

SessionsTypeOK ==
    /\ row \in [Ids -> Rows \cup {Nobody}]
    /\ last \in 0 .. MaxIds
    /\ moved \subseteq Ids
    /\ sess \in Seq([google : BOOLEAN, sub : Emails \cup {Nobody},
                     owner : Ids \cup {Nobody}, live : BOOLEAN, revoked : BOOLEAN])
    /\ Len(sess) \in Logins
    /\ jar \in Jars
    /\ page # Nobody => page.login \in Logins /\ page.email \in Emails
    /\ links \subseteq Ids \X Tokens
    /\ \A r \in Reqs : req[r] # Nobody => req[r].jar \in Jars
    /\ events \in 0 .. MaxEvents
    /\ \A i, j \in Users : row[i].email = row[j].email => i = j

Init ==
    /\ row = [i \in Ids |-> Nobody]
    /\ last = 0
    /\ moved = {}
    /\ sess = <<>>
    /\ jar = [c \in Cookies |-> 0]
    /\ page = Nobody
    /\ links = {}
    /\ req = [r \in Reqs |-> Nobody]
    /\ events = 0

Event == events < MaxEvents /\ events' = events + 1

(***************************************************************************)
(* The database.                                                           *)
(***************************************************************************)

Has(i, e) == i \in Users /\ row[i].email = e
Holder(e) == {i \in Ids : Has(i, e)}

\* The unique index on users.email lets i have the address.
Free(i, e) == Holder(e) \subseteq {i}

Inserts(new) ==
    /\ last < MaxIds /\ Holder(new.email) = {}
    /\ row' = [row EXCEPT ![last + 1] = new]
    /\ last' = last + 1
    /\ UNCHANGED moved

\* An account of the registration form, verified with its code (see Accounts).
Registers(e) ==
    /\ Inserts([email |-> e, verified |-> TRUE, token |-> 0, pw |-> Own])
    /\ UNCHANGED <<sess, browserVars, links, req, events>>

(***************************************************************************)
(* Tokens.                                                                 *)
(***************************************************************************)

\* A token is issued; its number is also that of the CSRF token.
Begins(google, e, i) ==
    /\ Len(sess) < MaxLogins
    /\ sess' = Append(sess, [google |-> google, sub |-> e, owner |-> i,
                             live |-> TRUE, revoked |-> FALSE])

\* jwt_verification: the ID tokens of Google are tried first, then those of the
\* service; either names an address, which is looked up in the table.
Resolve(n) ==
    IF n \in DOMAIN sess /\ sess[n].live THEN Holder(sess[n].sub) ELSE {}

\* The lifetime of a token is that of its cookie, for both kinds of login.
Expires(n) ==
    /\ sess[n].live \/ n \in {jar["jwt"], jar["gat"]}
    /\ sess' = [sess EXCEPT ![n].live = FALSE]
    /\ jar' = [c \in Cookies |-> IF c # "csrf" /\ jar[c] = n THEN 0 ELSE jar[c]]
    /\ Event
    /\ UNCHANGED <<dbVars, page, links, req>>

\* The cookie of the CSRF token has a lifetime of its own.
CsrfExpires ==
    /\ jar["csrf"] # 0
    /\ jar' = [jar EXCEPT !["csrf"] = 0]
    /\ Event
    /\ UNCHANGED <<dbVars, sess, page, links, req>>

(***************************************************************************)
(* Requests.                                                               *)
(***************************************************************************)

\* A request comes to be: the endpoint has the cookies and its arguments.
Opens(r, op, at, cookies, arg, id, reply) ==
    /\ req[r] = Nobody
    /\ Event
    /\ req' = [req EXCEPT ![r] = [op |-> op, at |-> at, jar |-> cookies,
                                  arg |-> arg, id |-> id, reply |-> reply]]

NoCookies == [c \in Cookies |-> 0]

Sends(r, op, cookies, arg) ==
    /\ Opens(r, op, "sent", cookies, arg, Nobody, <<>>)
    /\ UNCHANGED <<dbVars, sess, browserVars, links>>

At(r, op, at) == req[r] # Nobody /\ req[r].op = op /\ req[r].at = at

\* The endpoint goes on to its next statement with the account i in hand.
Goes(r, at, i) == req' = [req EXCEPT ![r].at = at, ![r].id = i]

\* The answer of the endpoint, with the cookies it sets, or deletes with 0.
Replies(r, n, cookies) ==
    req' = [req EXCEPT ![r].at = "done", ![r].reply = [c \in cookies |-> n]]

\* Nothing comes of it that the browser would notice.
Ends(r) == req' = [req EXCEPT ![r] = Nobody]

\* The reply comes to the browser.  The tab that has logged out, disconnected
\* Google or deleted the account leaves its page; it may be another tab.
Arrives(r) ==
    /\ req[r] # Nobody /\ req[r].at = "done"
    /\ jar' = [c \in Cookies |-> IF c \in DOMAIN req[r].reply
                                 THEN req[r].reply[c] ELSE jar[c]]
    /\ page' \in CASE req[r].op \in {"logout", "revoke", "delete"} -> {page, Nobody}
                   [] req[r].op = "load" ->
                        {[email |-> req[r].arg, login |-> req[r].jar["jwt"],
                          gat |-> req[r].jar["gat"] # 0, script |-> FALSE, csrf |-> 0]}
                   [] OTHER -> {page}
    /\ Ends(r)
    /\ UNCHANGED <<dbVars, sess, links, events>>

\* The connection breaks: what the server has done stays, the reply is lost.
IsLost(r) ==
    /\ req[r] # Nobody /\ req[r].at = "done"
    /\ Ends(r)
    /\ UNCHANGED <<dbVars, sess, browserVars, links, events>>

\* verify_csrf_token: the header is there and equals the cookie.
CsrfPasses(r, header) == header # 0 /\ header = req[r].jar["csrf"]

(***************************************************************************)
(* Logging in with a password: basic_login reads no cookie and has no      *)
(* await, so sending and serving are one step.  The account may be unknown,*)
(* not verified or without a password, and the password typed wrong: then  *)
(* nothing changes.                                                        *)
(***************************************************************************)

MayLogIn(i) == row[i].verified /\ row[i].pw # Nobody

\* The browser keeps the CSRF cookie that the request came with.
LogsInWithOldCsrf(r, e) ==
    /\ \E i \in Holder(e) : MayLogIn(i) /\ Begins(FALSE, e, i)
    /\ Opens(r, "login", "done", NoCookies, Nobody, Nobody,
             [c \in IF jar["csrf"] = 0 THEN {"jwt", "csrf"} ELSE {"jwt"}
                |-> Len(sess) + 1])
    /\ UNCHANGED <<dbVars, browserVars, links>>

LogsIn(r, e) ==
    /\ \E i \in Holder(e) : MayLogIn(i) /\ Begins(FALSE, e, i)
    /\ Opens(r, "login", "done", NoCookies, Nobody, Nobody,
             [c \in {"jwt", "csrf"} |-> Len(sess) + 1])
    /\ UNCHANGED <<dbVars, browserVars, links>>

(***************************************************************************)
(* Logging in through Google: google_login asks Google for the tokens and  *)
(* for the address, then looks the address up, then inserts it.            *)
(***************************************************************************)

Exchanges(r) ==
    /\ At(r, "google", "sent")
    /\ Begins(TRUE, req[r].arg, Nobody)
    /\ req' = [req EXCEPT ![r].at = "tokens", ![r].arg = Len(sess) + 1]
    /\ UNCHANGED <<dbVars, browserVars, links, events>>

ExchangeFails(r) ==
    /\ At(r, "google", "sent")
    /\ Ends(r)
    /\ UNCHANGED <<dbVars, sess, browserVars, links, events>>

\* Logged in as the account i, or as nobody: the cookies are set all the same.
GoogleReplies(r, i) ==
    /\ sess' = [sess EXCEPT ![req[r].arg].owner = i]
    /\ Replies(r, req[r].arg, Cookies)

KnowsAddress(r) ==
    /\ At(r, "google", "tokens")
    /\ LET e == sess[req[r].arg].sub IN
        \/ e = Nobody /\ GoogleReplies(r, Nobody)
        \/ \E i \in Holder(e) : GoogleReplies(r, i)
    /\ UNCHANGED <<dbVars, browserVars, links, events>>

LacksAddress(r) ==
    /\ At(r, "google", "tokens")
    /\ LET e == sess[req[r].arg].sub IN e # Nobody /\ Holder(e) = {}
    /\ Goes(r, "create", Nobody)
    /\ UNCHANGED <<dbVars, sess, browserVars, links, events>>

CreatesWithoutIndex(r) ==
    /\ At(r, "google", "create")
    /\ last < MaxIds
    /\ row' = [row EXCEPT ![last + 1] = [email |-> sess[req[r].arg].sub,
                                         verified |-> FALSE, token |-> 0, pw |-> Nobody]]
    /\ last' = last + 1
    /\ GoogleReplies(r, last + 1)
    /\ UNCHANGED <<moved, browserVars, links, events>>

\* create_user_from_google: the row is committed before is_verified is set, and
\* not again, so the account stays unverified.
Creates(r) ==
    /\ At(r, "google", "create")
    /\ Inserts([email |-> sess[req[r].arg].sub, verified |-> FALSE,
                token |-> 0, pw |-> Nobody])
    /\ GoogleReplies(r, last + 1)
    /\ UNCHANGED <<browserVars, links, events>>

\* Somebody has taken the address in between: IntegrityError.
CreateFails(r) ==
    /\ At(r, "google", "create")
    /\ Holder(sess[req[r].arg].sub) # {}
    /\ Ends(r)
    /\ UNCHANGED <<dbVars, sess, browserVars, links, events>>

(***************************************************************************)
(* Logging out, and disconnecting Google.                                  *)
(***************************************************************************)

LogsOut(r) ==
    /\ At(r, "logout", "sent")
    /\ IF req[r].jar["jwt"] = 0
       THEN Ends(r)
       ELSE Replies(r, 0, {"jwt", "csrf"} \cup
                        (IF req[r].jar["gat"] # 0 THEN {"gat"} ELSE {}))
    /\ UNCHANGED <<dbVars, sess, browserVars, links, events>>

IsIdToken(n) == n # 0 /\ sess[n].google /\ sess[n].live

\* revoke_google_auth up to the request to Google: the CSRF tokens, and the
\* cookie of the session as an ID token.
ChecksIdToken(r) ==
    /\ At(r, "revoke", "sent")
    /\ IF CsrfPasses(r, req[r].arg) /\ IsIdToken(req[r].jar["jwt"])
       THEN Goes(r, "asking", Nobody) ELSE Ends(r)
    /\ UNCHANGED <<dbVars, sess, browserVars, links, events>>

RevokeIgnoresStatus(r) ==
    /\ At(r, "revoke", "asking")
    /\ Replies(r, 0, Cookies)
    /\ UNCHANGED <<dbVars, sess, browserVars, links, events>>

\* Google takes the access token back, unless it knows of no such token.
GoogleRevokes(r) ==
    /\ At(r, "revoke", "asking")
    /\ LET n == req[r].jar["gat"] IN
        /\ n # 0 /\ ~sess[n].revoked /\ sess[n].live
        /\ sess' = [sess EXCEPT ![n].revoked = TRUE]
    /\ Replies(r, 0, Cookies)
    /\ UNCHANGED <<dbVars, browserVars, links, events>>

\* raise_for_status: Google refuses the token, is out of reach, or its answer
\* is lost when it has revoked the token already.
RevokeFails(r) ==
    /\ At(r, "revoke", "asking")
    /\ LET n == req[r].jar["gat"] IN
        sess' \in {sess} \cup
            {[sess EXCEPT ![m].revoked = TRUE] : m \in {n} \cap DOMAIN sess}
    /\ Ends(r)
    /\ UNCHANGED <<dbVars, browserVars, links, events>>

(***************************************************************************)
(* The home page, and the deletion of the account from it.                 *)
(***************************************************************************)

\* index_page under template_jwt_verification: the address goes into the page,
\* in the link that deletes the account; without a user, on to the login page.
Renders(r) ==
    /\ At(r, "load", "sent")
    /\ LET who == Resolve(req[r].jar["jwt"]) IN
        \/ who = {} /\ Ends(r)
        \/ \E i \in who : req' = [req EXCEPT ![r].at = "done",
                                             ![r].arg = row[i].email]
    /\ UNCHANGED <<dbVars, sess, browserVars, links, events>>

\* The scripts of the page read the CSRF cookie once, when it has loaded.
RunsScript ==
    /\ page # Nobody /\ ~page.script
    /\ page' = [page EXCEPT !.script = TRUE, !.csrf = jar["csrf"]]
    /\ UNCHANGED <<dbVars, sess, jar, links, req, events>>

AsksDelete(r) ==
    /\ page # Nobody /\ page.script
    /\ Sends(r, "delete", jar,
             [email |-> page.email, login |-> page.login, csrf |-> page.csrf])

AsksRevoke(r) ==
    page # Nobody /\ page.script /\ page.gat /\ Sends(r, "revoke", jar, page.csrf)

FindsWithoutCsrf(r) ==
    /\ At(r, "delete", "sent")
    /\ IF Holder(req[r].arg.email) # {} THEN Goes(r, "found", Nobody) ELSE Ends(r)
    /\ UNCHANGED <<dbVars, sess, browserVars, links, events>>

\* delete_user: the CSRF tokens only, and a look whether the address is there.
FindsForDelete(r) ==
    /\ At(r, "delete", "sent")
    /\ IF CsrfPasses(r, req[r].arg.csrf) /\ Holder(req[r].arg.email) # {}
       THEN Goes(r, "found", Nobody) ELSE Ends(r)
    /\ UNCHANGED <<dbVars, sess, browserVars, links, events>>

\* DELETE ... WHERE email = ..., whoever has the address by now.
Removes(e) ==
    /\ row' = [i \in Ids |-> IF Has(i, e) THEN Nobody ELSE row[i]]
    /\ moved' = moved \cup Holder(e)
    /\ UNCHANGED last

Deletes(r) ==
    /\ At(r, "delete", "found")
    /\ Removes(req[r].arg.email)
    /\ Replies(r, 0, Cookies)
    /\ UNCHANGED <<sess, browserVars, links, events>>

(***************************************************************************)
(* The update of an account by a client of the API, which shows a token in *)
(* a header, and its deletion, for which a CSRF token of the client's own  *)
(* making in header and cookie is all that delete_user asks for.           *)
(***************************************************************************)

FindsForApiDelete(r, e) ==
    /\ Holder(e) # {}
    /\ Opens(r, "apiDelete", "found", NoCookies, e, Nobody, <<>>)
    /\ UNCHANGED <<dbVars, sess, browserVars, links>>

\* Its answer deletes cookies that this client does not have.
ApiDeletes(r) ==
    /\ At(r, "apiDelete", "found")
    /\ Removes(req[r].arg)
    /\ Ends(r)
    /\ UNCHANGED <<sess, browserVars, links, events>>

\* update_user up to the UPDATE: the token, the account of the address, and for
\* a new password the old one.
FindsForUpdate(r, n, e, new, set) ==
    /\ Resolve(n) # {}
    /\ \E i \in Holder(e) :
        /\ "pw" \in set => row[i].pw # Nobody
        /\ Opens(r, "update", "found", NoCookies, [new |-> new, set |-> set], i, <<>>)
    /\ UNCHANGED <<dbVars, sess, browserVars, links>>

\* update_user_info: the address given is always set, a new token or a new
\* password when asked for.
Updates(r) ==
    /\ At(r, "update", "found")
    /\ LET i == req[r].id  arg == req[r].arg IN
        /\ i \in Users /\ Free(i, arg.new)
        /\ row' = [row EXCEPT ![i] =
                    [email |-> arg.new, verified |-> @.verified,
                     token |-> IF "token" \in arg.set THEN @.token + 1 ELSE @.token,
                     pw |-> IF "pw" \in arg.set THEN Own ELSE @.pw]]
        /\ moved' = IF row[i].email = arg.new THEN moved ELSE moved \cup {i}
    /\ Ends(r)
    /\ UNCHANGED <<last, sess, browserVars, links, events>>

\* The account is gone (refresh raises), or the new address is taken.
UpdateFails(r) ==
    /\ At(r, "update", "found")
    /\ req[r].id \notin Users \/ ~Free(req[r].id, req[r].arg.new)
    /\ Ends(r)
    /\ UNCHANGED <<dbVars, sess, browserVars, links, events>>

(***************************************************************************)
(* A forgotten password.                                                   *)
(***************************************************************************)

\* reset_password: the link in the mail has the id and the token of the account.
SendsLink(e) ==
    /\ Event
    /\ \E i \in Holder(e) : links' = links \cup {<<i, row[i].token>>}
    /\ UNCHANGED <<dbVars, sess, browserVars, req>>

FindsById(r) ==
    /\ At(r, "confirm", "sent")
    /\ LET i == req[r].arg.link[1] IN
        IF i \in Users THEN Goes(r, "found", i) ELSE Ends(r)
    /\ UNCHANGED <<dbVars, sess, browserVars, links, events>>

\* reset_password_confirm: the account with the id and the token of the link ...
FindsByLink(r) ==
    /\ At(r, "confirm", "sent")
    /\ LET i == req[r].arg.link[1] IN
        IF i \in Users /\ row[i].token = req[r].arg.link[2]
        THEN Goes(r, "found", i) ELSE Ends(r)
    /\ UNCHANGED <<dbVars, sess, browserVars, links, events>>

\* ... then UPDATE by the id alone, whatever the token is by then.
SetsPassword(r) ==
    /\ At(r, "confirm", "found")
    /\ row' = [row EXCEPT ![req[r].id] =
                    IF @ = Nobody THEN @ ELSE [@ EXCEPT !.pw = req[r].arg.link[2]]]
    /\ Ends(r)
    /\ UNCHANGED <<last, moved, sess, browserVars, links, events>>

(***************************************************************************)
(* The specification.                                                      *)
(***************************************************************************)

Asks(r) ==
    \/ \E e \in Emails : LogsIn(r, e)
    \/ \E e \in Emails \cup {Nobody} : Sends(r, "google", NoCookies, e)
    \/ Sends(r, "logout", jar, Nobody)
    \/ Sends(r, "load", jar, Nobody)
    \/ AsksRevoke(r) \/ AsksDelete(r)
    \/ \E n \in DOMAIN sess, e, new \in Emails, set \in SUBSET {"token", "pw"} :
        FindsForUpdate(r, n, e, new, set)
    \/ \E e \in Emails : FindsForApiDelete(r, e)
    \/ \E l \in links :
        Sends(r, "confirm", NoCookies,
              [link |-> l, live |-> l[1] \in Users /\ row[l[1]].token = l[2]])

Serves(r) ==
    \/ Exchanges(r) \/ ExchangeFails(r) \/ KnowsAddress(r) \/ LacksAddress(r)
    \/ Creates(r) \/ CreateFails(r)
    \/ LogsOut(r) \/ ChecksIdToken(r) \/ GoogleRevokes(r) \/ RevokeFails(r)
    \/ Renders(r) \/ FindsForDelete(r) \/ Deletes(r)
    \/ Updates(r) \/ UpdateFails(r) \/ ApiDeletes(r)
    \/ FindsByLink(r) \/ SetsPassword(r)

Next ==
    \/ \E e \in Emails : Registers(e)
    \/ \E e \in Emails : SendsLink(e)
    \/ \E r \in Reqs : Asks(r) \/ Serves(r) \/ Arrives(r) \/ IsLost(r)
    \/ \E n \in DOMAIN sess : Expires(n)
    \/ CsrfExpires
    \/ RunsScript

Spec == Init /\ [][Next]_vars

(***************************************************************************)
(* Properties.                                                             *)
(***************************************************************************)

\* In whatever order replies arrive, the token and the CSRF token in the browser
\* are of one login; and if that was through Google, so is the access token.
CookiesOfOneLogin ==
    /\ jar["jwt"] # 0 /\ jar["csrf"] # 0 => jar["jwt"] = jar["csrf"]
    /\ jar["jwt"] # 0 /\ sess[jar["jwt"]].google => jar["gat"] = jar["jwt"]

\* Whoever is told that Google is disconnected has had the access of the very
\* login revoked that the browser was using.
DisconnectedMeansRevoked ==
    \A r \in Reqs : At(r, "revoke", "done") => sess[req[r].jar["jwt"]].revoked

\* What the home page deletes is the account of the login it was rendered for,
\* and only while the browser has that login's CSRF cookie.  Excused are a page
\* whose script ran after another login was answered, so that it has that one's
\* CSRF token, and a login whose account has given up its address since.  Of
\* clients of the API nothing is said: they delete without a login.
DeletesItsOwn ==
    [][\A r \in Reqs, i \in Ids :
        /\ At(r, "delete", "found") /\ At(r, "delete", "done")'
        /\ i \in Users /\ row'[i] = Nobody
        => LET login == req[r].arg.login IN
            \/ req[r].arg.csrf # login
            \/ /\ req[r].jar["csrf"] = login
               /\ sess[login].owner \in {i} \cup moved]_vars

\* A link to reset a password dies when the token of the account is renewed: it
\* sets a password only for a request sent before.
LinkDiesWithItsToken ==
    [][\A i \in Ids : i \in Users /\ row'[i] # Nobody /\ row'[i].pw # row[i].pw =>
        \/ row'[i].pw = Own
        \/ \E r \in Reqs : At(r, "confirm", "found") /\ req[r].arg.live]_vars
=============================================================================
