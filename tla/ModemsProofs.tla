---------------------------- MODULE ModemsProofs ----------------------------
(***************************************************************************)
(* Theorems about Modems, for any number of modems, users and workers.     *)
(***************************************************************************)
EXTENDS Modems, TLAPS

(***************************************************************************)
(* The inductive invariants.                                               *)
(***************************************************************************)

Present(m) == row[m] = "present"

\* Without a move onto a taken address, and without two requests that write
\* one address at a time, a request that is going to write an address is the
\* only one, and no modem but its own has the address.
ApartInv ==
    ~moved /\ ~overlapped =>
        /\ \A v, w \in Workers : v # w /\ Writing(v) /\ Writing(w) => to[v] # to[w]
        /\ \A w \in Workers, m \in Modems :
              Writing(w) /\ HasIp(m, to[w]) => op[w] = "update" /\ m = found[w]
        /\ \A m, n \in Modems : m # n /\ Present(m) /\ Present(n) => ip[m] # ip[n]

Signed(h, i) == h = None \/ \E e \in Emails : h = HashOf(e, i)

\* Unless an update has kept one, a hash is that of its modem's address, and
\* a link has the hash of the address that is shown with it.
SignedInv ==
    ~kept => /\ \A m \in Modems : Signed(hash[m], ip[m])
             /\ link # None => link.hash # None /\ Signed(link.hash, link.ip)

IInv ==
    /\ TypeOK /\ BoundToSomebody /\ ApartInv /\ SignedInv
    /\ LinkOpensListedIp

-----------------------------------------------------------------------------

LEMMA IInit == Init => IInv
  <1> SUFFICES ASSUME Init PROVE IInv
    OBVIOUS
  <1>1. TypeOK
    <2>1. \A w \in Workers : RequestOK(w)
      BY DEF Init, RequestOK
    <2>2. /\ requests \in 0 .. MaxRequests /\ edits \in 0 .. MaxEdits
          /\ token \in [Users -> Nat]
      BY LimitsAssumption DEF Init
    <2>3. hash \in [Modems -> Hashes] /\ link \in Links \cup {None}
      BY DEF Init, Hashes
    <2> QED
      BY <2>1, <2>2, <2>3 DEF Init, TypeOK, RowStates
  <1>2. BoundToSomebody /\ ApartInv /\ SignedInv
    BY DEF Init, BoundToSomebody, ApartInv, Writing, HasIp, Present, SignedInv, Signed
  <1>3. LinkOpensListedIp
    BY DEF Init, LinkOpensListedIp
  <1> QED
    BY <1>1, <1>2, <1>3 DEF IInv

LEMMA TypeStep == TypeOK /\ [Next]_vars => TypeOK'
  <1> SUFFICES ASSUME TypeOK, [Next]_vars PROVE TypeOK'
    OBVIOUS
  <1> USE NoneAssumption, LimitsAssumption
      DEF TypeOK, RequestOK, RowStates, Hashes, Readings, Links, modemVars, userVars,
          requestVars, pageVars
  <1>1. ASSUME NEW w \in Workers, NEW i \in Ips, NEW e \in Emails \cup {None}, BeginsCreate(w, i, e)
        PROVE  TypeOK'
    BY <1>1 DEF BeginsCreate, Begins
  <1>2. ASSUME NEW w \in Workers, NEW m \in Modems, NEW i \in Ips,
               NEW e \in Emails \cup {None}, NEW r \in BOOLEAN, BeginsUpdate(w, m, i, e, r)
        PROVE  TypeOK'
    BY <1>2 DEF BeginsUpdate, Begins
  <1>3. ASSUME NEW w \in Workers, NEW m \in Modems, BeginsDelete(w, m) PROVE TypeOK'
    BY <1>3 DEF BeginsDelete, Begins
  <1>4. ASSUME NEW w \in Workers, NEW u \in Users, FindsUser(w, u) PROVE TypeOK'
    BY <1>4 DEF FindsUser, Continues, HasEmail
  <1>5. ASSUME NEW w \in Workers, FindsNobody(w) PROVE TypeOK'
    BY <1>5 DEF FindsNobody, Ends, Continues
  <1>6. ASSUME NEW w \in Workers, NEW m \in Modems, InsertsModem(w, m) PROVE TypeOK'
    BY <1>6 DEF InsertsModem, Ends, Continues
  <1>7. ASSUME NEW w \in Workers, UpdatesModem(w) PROVE TypeOK'
    BY <1>7 DEF UpdatesModem, Ends, Continues, Renews
  <1>8. ASSUME NEW w \in Workers, WriteFails(w) PROVE TypeOK'
    BY <1>8 DEF WriteFails, Ends, Continues
  <1>9. ASSUME NEW w \in Workers, DeletesModems(w) PROVE TypeOK'
    BY <1>9 DEF DeletesModems, Ends, Continues, HasIp
  <1>10. ASSUME NEW u \in Users, NEW e \in Emails, CreatesUser(u, e) PROVE TypeOK'
    BY <1>10 DEF CreatesUser, EditsUsers
  <1>11. ASSUME NEW u \in Users, NEW e \in Emails, NEW r \in BOOLEAN, UpdatesUser(u, e, r)
        PROVE  TypeOK'
    BY <1>11 DEF UpdatesUser, EditsUsers
  <1>12. ASSUME NEW u \in Users, DeletesUser(u) PROVE TypeOK'
    BY <1>12 DEF DeletesUser, EditsUsers
  <1>13. ASSUME NEW u \in Users, ListsUser(u) PROVE TypeOK'
    BY <1>13 DEF ListsUser
  <1>14. ASSUME NEW m \in Modems, ListsModem(m) PROVE TypeOK'
    BY <1>14 DEF ListsModem
  <1>15. ASSUME NEW m \in Modems, OpensPage(m) PROVE TypeOK'
    BY <1>15 DEF OpensPage, Matches
  <1>16. CASE UNCHANGED vars
    BY <1>16 DEF vars
  <1> QED
    BY <1>1, <1>2, <1>3, <1>4, <1>5, <1>6, <1>7, <1>8,
       <1>9, <1>10, <1>11, <1>12, <1>13, <1>14, <1>15, <1>16
    DEF Next, Administrator, UsersApi, Browser

LEMMA BoundStep == TypeOK /\ BoundToSomebody /\ [Next]_vars => BoundToSomebody'
  <1> SUFFICES ASSUME TypeOK /\ BoundToSomebody, [Next]_vars PROVE BoundToSomebody'
    OBVIOUS
  <1> USE NoneAssumption
      DEF TypeOK, RequestOK, BoundToSomebody, modemVars, userVars,
          requestVars, pageVars
  <1>1. ASSUME NEW w \in Workers, NEW i \in Ips, NEW e \in Emails \cup {None}, BeginsCreate(w, i, e)
        PROVE  BoundToSomebody'
    BY <1>1 DEF BeginsCreate, Begins
  <1>2. ASSUME NEW w \in Workers, NEW m \in Modems, NEW i \in Ips,
               NEW e \in Emails \cup {None}, NEW r \in BOOLEAN, BeginsUpdate(w, m, i, e, r)
        PROVE  BoundToSomebody'
    BY <1>2 DEF BeginsUpdate, Begins
  <1>3. ASSUME NEW w \in Workers, NEW m \in Modems, BeginsDelete(w, m) PROVE BoundToSomebody'
    BY <1>3 DEF BeginsDelete, Begins
  <1>4. ASSUME NEW w \in Workers, NEW u \in Users, FindsUser(w, u) PROVE BoundToSomebody'
    BY <1>4 DEF FindsUser, Continues
  <1>5. ASSUME NEW w \in Workers, FindsNobody(w) PROVE BoundToSomebody'
    BY <1>5 DEF FindsNobody, Ends, Continues
  <1>6. ASSUME NEW w \in Workers, NEW m \in Modems, InsertsModem(w, m) PROVE BoundToSomebody'
    BY <1>6 DEF InsertsModem, Ends, Continues, MayBind
  <1>7. ASSUME NEW w \in Workers, UpdatesModem(w) PROVE BoundToSomebody'
    BY <1>7 DEF UpdatesModem, Ends, Continues, MayBind
  <1>8. ASSUME NEW w \in Workers, WriteFails(w) PROVE BoundToSomebody'
    BY <1>8 DEF WriteFails, Ends, Continues
  <1>9. ASSUME NEW w \in Workers, DeletesModems(w) PROVE BoundToSomebody'
    BY <1>9 DEF DeletesModems, Ends, Continues
  <1>10. ASSUME NEW u \in Users, NEW e \in Emails, CreatesUser(u, e) PROVE BoundToSomebody'
    BY <1>10 DEF CreatesUser, EditsUsers
  <1>11. ASSUME NEW u \in Users, NEW e \in Emails, NEW r \in BOOLEAN, UpdatesUser(u, e, r)
        PROVE  BoundToSomebody'
    BY <1>11 DEF UpdatesUser, EditsUsers
  <1>12. ASSUME NEW u \in Users, DeletesUser(u) PROVE BoundToSomebody'
    BY <1>12 DEF DeletesUser, EditsUsers
  <1>13. ASSUME NEW u \in Users, ListsUser(u) PROVE BoundToSomebody'
    BY <1>13 DEF ListsUser
  <1>14. ASSUME NEW m \in Modems, ListsModem(m) PROVE BoundToSomebody'
    BY <1>14 DEF ListsModem
  <1>15. ASSUME NEW m \in Modems, OpensPage(m) PROVE BoundToSomebody'
    BY <1>15 DEF OpensPage
  <1>16. CASE UNCHANGED vars
    BY <1>16 DEF vars
  <1> QED
    BY <1>1, <1>2, <1>3, <1>4, <1>5, <1>6, <1>7, <1>8,
       <1>9, <1>10, <1>11, <1>12, <1>13, <1>14, <1>15, <1>16
    DEF Next, Administrator, UsersApi, Browser

LEMMA ApartStep == TypeOK /\ ApartInv /\ [Next]_vars => ApartInv'
  <1> SUFFICES ASSUME TypeOK /\ ApartInv, [Next]_vars PROVE ApartInv'
    OBVIOUS
  <1> USE NoneAssumption
      DEF TypeOK, RequestOK, ApartInv, Writing, HasIp, Present, modemVars, userVars,
          requestVars, pageVars
  <1>1. ASSUME NEW w \in Workers, NEW i \in Ips, NEW e \in Emails \cup {None}, BeginsCreate(w, i, e)
        PROVE  ApartInv'
    <2> SUFFICES ASSUME ~moved', ~overlapped' PROVE ApartInv'
      BY DEF ApartInv
    <2>0. ~moved /\ ~overlapped /\ \A v \in Workers : Writing(v) => to[v] # i
      BY <1>1 DEF BeginsCreate, Begins
    <2>1. \A v \in Workers \ {w} : Writing(v)' => Writing(v) /\ to'[v] = to[v]
      BY <1>1 DEF BeginsCreate, Begins
    <2>2. to'[w] = i /\ UNCHANGED <<row, ip>>
      BY <1>1 DEF BeginsCreate, Begins
    <2>3. \A n \in Modems : HasIp(n, i) => op'[w] = "update" /\ n = found'[w]
      BY <1>1 DEF BeginsCreate, Begins
    <2>4. \A v \in Workers \ {w} : op'[v] = op[v] /\ found'[v] = found[v]
      BY <1>1 DEF BeginsCreate, Begins
    <2> QED
      BY <2>0, <2>1, <2>2, <2>3, <2>4
  <1>2. ASSUME NEW w \in Workers, NEW m \in Modems, NEW i \in Ips,
               NEW e \in Emails \cup {None}, NEW r \in BOOLEAN, BeginsUpdate(w, m, i, e, r)
        PROVE  ApartInv'
    <2> SUFFICES ASSUME ~moved', ~overlapped' PROVE ApartInv'
      BY DEF ApartInv
    <2>0. ~moved /\ ~overlapped /\ \A v \in Workers : Writing(v) => to[v] # i
      BY <1>2 DEF BeginsUpdate, Begins
    <2>1. \A v \in Workers \ {w} : Writing(v)' => Writing(v) /\ to'[v] = to[v]
      BY <1>2 DEF BeginsUpdate, Begins
    <2>2. to'[w] = i /\ UNCHANGED <<row, ip>>
      BY <1>2 DEF BeginsUpdate, Begins
    <2>3. \A n \in Modems : HasIp(n, i) => op'[w] = "update" /\ n = found'[w]
      BY <1>2 DEF BeginsUpdate, Begins
    <2>4. \A v \in Workers \ {w} : op'[v] = op[v] /\ found'[v] = found[v]
      BY <1>2 DEF BeginsUpdate, Begins
    <2> QED
      BY <2>0, <2>1, <2>2, <2>3, <2>4
  <1>3. ASSUME NEW w \in Workers, NEW m \in Modems, BeginsDelete(w, m) PROVE ApartInv'
    BY <1>3 DEF BeginsDelete, Begins
  <1>4. ASSUME NEW w \in Workers, NEW u \in Users, FindsUser(w, u) PROVE ApartInv'
    BY <1>4 DEF FindsUser, Continues
  <1>5. ASSUME NEW w \in Workers, FindsNobody(w) PROVE ApartInv'
    BY <1>5 DEF FindsNobody, Ends, Continues
  <1>6. ASSUME NEW w \in Workers, NEW m \in Modems, InsertsModem(w, m) PROVE ApartInv'
    BY <1>6 DEF InsertsModem, Ends, Continues
  <1>7. ASSUME NEW w \in Workers, UpdatesModem(w) PROVE ApartInv'
    BY <1>7 DEF UpdatesModem, Ends, Continues
  <1>8. ASSUME NEW w \in Workers, WriteFails(w) PROVE ApartInv'
    BY <1>8 DEF WriteFails, Ends, Continues
  <1>9. ASSUME NEW w \in Workers, DeletesModems(w) PROVE ApartInv'
    BY <1>9 DEF DeletesModems, Ends, Continues
  <1>10. ASSUME NEW u \in Users, NEW e \in Emails, CreatesUser(u, e) PROVE ApartInv'
    BY <1>10 DEF CreatesUser, EditsUsers
  <1>11. ASSUME NEW u \in Users, NEW e \in Emails, NEW r \in BOOLEAN, UpdatesUser(u, e, r)
        PROVE  ApartInv'
    BY <1>11 DEF UpdatesUser, EditsUsers
  <1>12. ASSUME NEW u \in Users, DeletesUser(u) PROVE ApartInv'
    BY <1>12 DEF DeletesUser, EditsUsers
  <1>13. ASSUME NEW u \in Users, ListsUser(u) PROVE ApartInv'
    BY <1>13 DEF ListsUser
  <1>14. ASSUME NEW m \in Modems, ListsModem(m) PROVE ApartInv'
    BY <1>14 DEF ListsModem
  <1>15. ASSUME NEW m \in Modems, OpensPage(m) PROVE ApartInv'
    BY <1>15 DEF OpensPage
  <1>16. CASE UNCHANGED vars
    BY <1>16 DEF vars
  <1> QED
    BY <1>1, <1>2, <1>3, <1>4, <1>5, <1>6, <1>7, <1>8,
       <1>9, <1>10, <1>11, <1>12, <1>13, <1>14, <1>15, <1>16
    DEF Next, Administrator, UsersApi, Browser

LEMMA SignedStep == TypeOK /\ SignedInv /\ [Next]_vars => SignedInv'
  <1> SUFFICES ASSUME TypeOK /\ SignedInv, [Next]_vars PROVE SignedInv'
    OBVIOUS
  <1> USE NoneAssumption
      DEF TypeOK, RequestOK, Hashes, Readings, Links, SignedInv, Signed, modemVars, userVars,
          requestVars, pageVars
  <1>1. ASSUME NEW w \in Workers, NEW i \in Ips, NEW e \in Emails \cup {None}, BeginsCreate(w, i, e)
        PROVE  SignedInv'
    BY <1>1 DEF BeginsCreate, Begins
  <1>2. ASSUME NEW w \in Workers, NEW m \in Modems, NEW i \in Ips,
               NEW e \in Emails \cup {None}, NEW r \in BOOLEAN, BeginsUpdate(w, m, i, e, r)
        PROVE  SignedInv'
    BY <1>2 DEF BeginsUpdate, Begins
  <1>3. ASSUME NEW w \in Workers, NEW m \in Modems, BeginsDelete(w, m) PROVE SignedInv'
    BY <1>3 DEF BeginsDelete, Begins
  <1>4. ASSUME NEW w \in Workers, NEW u \in Users, FindsUser(w, u) PROVE SignedInv'
    BY <1>4 DEF FindsUser, Continues
  <1>5. ASSUME NEW w \in Workers, FindsNobody(w) PROVE SignedInv'
    BY <1>5 DEF FindsNobody, Ends, Continues
  <1>6. ASSUME NEW w \in Workers, NEW m \in Modems, InsertsModem(w, m) PROVE SignedInv'
    BY <1>6 DEF InsertsModem, Ends, Continues
  <1>7. ASSUME NEW w \in Workers, UpdatesModem(w) PROVE SignedInv'
    <2> SUFFICES ASSUME ~kept' PROVE SignedInv'
      BY DEF SignedInv
    <2> DEFINE m == found[w]
    <2>1. ~kept /\ (Renews(w) \/ hash[m] = None \/ ip[m] = to[w]) /\ m \in Modems
      <3>1. kept' = (kept \/ (~Renews(w) /\ hash[m] # None /\ ip[m] # to[w]))
        BY <1>7 DEF UpdatesModem
      <3>2. m \in Modems
        BY <1>7 DEF UpdatesModem
      <3> QED
        BY <3>1, <3>2
    <2>2. \A n \in Modems \ {m} : hash'[n] = hash[n] /\ ip'[n] = ip[n]
      BY <1>7, <2>1 DEF UpdatesModem
    <2>3. ip'[m] = to[w] /\ (Renews(w) => hash'[m] = HashOf(binds[w], to[w]))
      BY <1>7, <2>1 DEF UpdatesModem, Renews
    <2>4. ~Renews(w) => hash'[m] = hash[m]
      BY <1>7, <2>1 DEF UpdatesModem, Renews
    <2>5. Renews(w) => binds[w] \in Emails
      BY <1>7 DEF UpdatesModem, Renews
    <2>6. Signed(hash'[m], ip'[m])
      <3>1. CASE Renews(w)
        BY <2>3, <2>5, <3>1
      <3>2. CASE ~Renews(w)
        BY <2>1, <2>3, <2>4, <3>2
      <3> QED
        BY <3>1, <3>2
    <2>7. UNCHANGED link
      BY <1>7 DEF UpdatesModem, Ends
    <2> QED
      BY <2>1, <2>2, <2>6, <2>7
  <1>8. ASSUME NEW w \in Workers, WriteFails(w) PROVE SignedInv'
    BY <1>8 DEF WriteFails, Ends, Continues
  <1>9. ASSUME NEW w \in Workers, DeletesModems(w) PROVE SignedInv'
    BY <1>9 DEF DeletesModems, Ends, Continues
  <1>10. ASSUME NEW u \in Users, NEW e \in Emails, CreatesUser(u, e) PROVE SignedInv'
    BY <1>10 DEF CreatesUser, EditsUsers
  <1>11. ASSUME NEW u \in Users, NEW e \in Emails, NEW r \in BOOLEAN, UpdatesUser(u, e, r)
        PROVE  SignedInv'
    BY <1>11 DEF UpdatesUser, EditsUsers
  <1>12. ASSUME NEW u \in Users, DeletesUser(u) PROVE SignedInv'
    BY <1>12 DEF DeletesUser, EditsUsers
  <1>13. ASSUME NEW u \in Users, ListsUser(u) PROVE SignedInv'
    BY <1>13 DEF ListsUser
  <1>14. ASSUME NEW m \in Modems, ListsModem(m) PROVE SignedInv'
    BY <1>14 DEF ListsModem
  <1>15. ASSUME NEW m \in Modems, OpensPage(m) PROVE SignedInv'
    BY <1>15 DEF OpensPage
  <1>16. CASE UNCHANGED vars
    BY <1>16 DEF vars
  <1> QED
    BY <1>1, <1>2, <1>3, <1>4, <1>5, <1>6, <1>7, <1>8,
       <1>9, <1>10, <1>11, <1>12, <1>13, <1>14, <1>15, <1>16
    DEF Next, Administrator, UsersApi, Browser

LEMMA PageStep == IInv /\ [Next]_vars => LinkOpensListedIp'
  <1> SUFFICES ASSUME IInv, [Next]_vars PROVE LinkOpensListedIp'
    OBVIOUS
  <1> USE NoneAssumption
      DEF IInv, TypeOK, Hashes, Links, SignedInv, Signed, HashOf, LinkOpensListedIp,
          modemVars, userVars,
          requestVars, pageVars
  <1>1. ASSUME NEW w \in Workers, NEW i \in Ips, NEW e \in Emails \cup {None}, BeginsCreate(w, i, e)
        PROVE  LinkOpensListedIp'
    BY <1>1 DEF BeginsCreate, Begins
  <1>2. ASSUME NEW w \in Workers, NEW m \in Modems, NEW i \in Ips,
               NEW e \in Emails \cup {None}, NEW r \in BOOLEAN, BeginsUpdate(w, m, i, e, r)
        PROVE  LinkOpensListedIp'
    BY <1>2 DEF BeginsUpdate, Begins
  <1>3. ASSUME NEW w \in Workers, NEW m \in Modems, BeginsDelete(w, m)
        PROVE  LinkOpensListedIp'
    BY <1>3 DEF BeginsDelete, Begins
  <1>4. ASSUME NEW w \in Workers, NEW u \in Users, FindsUser(w, u)
        PROVE  LinkOpensListedIp'
    BY <1>4 DEF FindsUser, Continues
  <1>5. ASSUME NEW w \in Workers, FindsNobody(w)
        PROVE  LinkOpensListedIp'
    BY <1>5 DEF FindsNobody, Ends, Continues
  <1>6. ASSUME NEW w \in Workers, NEW m \in Modems, InsertsModem(w, m)
        PROVE  LinkOpensListedIp'
    BY <1>6 DEF InsertsModem, Ends, Continues
  <1>7. ASSUME NEW w \in Workers, UpdatesModem(w)
        PROVE  LinkOpensListedIp'
    BY <1>7 DEF UpdatesModem, Ends, Continues
  <1>8. ASSUME NEW w \in Workers, WriteFails(w)
        PROVE  LinkOpensListedIp'
    BY <1>8 DEF WriteFails, Ends, Continues
  <1>9. ASSUME NEW w \in Workers, DeletesModems(w)
        PROVE  LinkOpensListedIp'
    BY <1>9 DEF DeletesModems, Ends, Continues
  <1>10. ASSUME NEW u \in Users, NEW e \in Emails, CreatesUser(u, e)
        PROVE  LinkOpensListedIp'
    BY <1>10 DEF CreatesUser, EditsUsers
  <1>11. ASSUME NEW u \in Users, NEW e \in Emails, NEW r \in BOOLEAN, UpdatesUser(u, e, r)
        PROVE  LinkOpensListedIp'
    BY <1>11 DEF UpdatesUser, EditsUsers
  <1>12. ASSUME NEW u \in Users, DeletesUser(u)
        PROVE  LinkOpensListedIp'
    BY <1>12 DEF DeletesUser, EditsUsers
  <1>13. ASSUME NEW u \in Users, ListsUser(u)
        PROVE  LinkOpensListedIp'
    BY <1>13 DEF ListsUser
  <1>14. ASSUME NEW m \in Modems, ListsModem(m)
        PROVE  LinkOpensListedIp'
    BY <1>14 DEF ListsModem
  <1>15. ASSUME NEW m \in Modems, OpensPage(m)
        PROVE  LinkOpensListedIp'
    BY <1>15 DEF OpensPage, Matches
  <1>16. CASE UNCHANGED vars
    BY <1>16 DEF vars
  <1> QED
    BY <1>1, <1>2, <1>3, <1>4, <1>5, <1>6, <1>7, <1>8,
       <1>9, <1>10, <1>11, <1>12, <1>13, <1>14, <1>15, <1>16
    DEF Next, Administrator, UsersApi, Browser

THEOREM Invariance == Spec => []IInv
  <1>1. IInv /\ [Next]_vars => IInv'
    BY TypeStep, BoundStep, ApartStep, SignedStep, PageStep DEF IInv
  <1> QED
    BY IInit, <1>1, PTL DEF Spec

(***************************************************************************)
(* The theorems.                                                           *)
(***************************************************************************)

\* The tables and the requests have their types, and no statement of a
\* request uses a local variable that has not been assigned.
THEOREM ModemsTypeCorrect == Spec => []TypeOK
  <1>1. IInv => TypeOK
    BY DEF IInv
  <1> QED
    BY Invariance, <1>1, PTL

\* A modem is bound to a user that is there.
THEOREM NoDanglingBinding == Spec => []BoundToSomebody
  <1>1. IInv => BoundToSomebody
    BY DEF IInv
  <1> QED
    BY Invariance, <1>1, PTL

\* Two modems with one address go back to a move onto a taken address or to
\* two requests at a time; and two with one hash to these or to a kept hash.
THEOREM TwinsAreExplained == Spec => []TwinsHaveAReason
  <1>1. IInv => TwinsHaveAReason
    <2> SUFFICES ASSUME IInv, ~moved, ~overlapped, NEW m \in Modems, NEW n \in Modems,
                        m # n, row[m] = "present", row[n] = "present"
                 PROVE  ip[m] # ip[n] /\ (~kept => hash[m] = None \/ hash[m] # hash[n])
      BY DEF TwinsHaveAReason
    <2>1. ip[m] # ip[n]
      BY DEF IInv, ApartInv, Present
    <2>2. ASSUME ~kept, hash[m] # None, hash[m] = hash[n] PROVE FALSE
      BY <2>1, <2>2 DEF IInv, SignedInv, Signed, HashOf
    <2> QED
      BY <2>1, <2>2
  <1> QED
    BY Invariance, <1>1, PTL

\* An old link opens a modem with the address that was shown with it.
THEOREM OldLinksOpenTheirIp == Spec => []LinkOpensListedIp
  <1>1. IInv => LinkOpensListedIp
    BY DEF IInv
  <1> QED
    BY Invariance, <1>1, PTL
=============================================================================
