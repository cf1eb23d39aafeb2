--------------------------- MODULE AccountsProofs ---------------------------
(***************************************************************************)
(* Theorems about Accounts and the EmailSender it extends, for any number  *)
(* of accounts, codes, addresses and workers.                              *)
(***************************************************************************)
EXTENDS Accounts, FiniteSetTheorems, TLAPS

(***************************************************************************)
(* The inductive invariants.                                               *)
(***************************************************************************)

Unbuilt(m) == stage[m] \in {"none", "queued", "composed"}

\* A document stored, attached or in an inbox belongs to a mail that has been
\* queued, and got to where it is through the dictionary of one process.
MailInv ==
    /\ \A m \in Mails :
          /\ stage[m] # "none" => process[m] \in Processes /\ to[m] \in Addresses
          /\ stage[m] = "composed" => slot[process[m]] \in {m} \cup during[m]
          /\ stage[m] = "attached" => body[m] # None
          /\ body[m] # None => body[m] \in {m} \cup during[m] /\ ~Unbuilt(m)
          /\ \A n \in during[m] : stage[m] # "none" /\ stage[n] # "none"
    /\ \A p \in Processes : slot[p] # None => stage[slot[p]] # "none"
    /\ \A a \in Addresses : \A o \in inbox[a] :
          \E m \in Mails : stage[m] # "none" /\ to[m] = a /\ body[m] = o

\* The mail and the row of a code come into being together.
CodeInv ==
    /\ \A o \in Otps : stage[o] = "none" <=> otp[o] = "unused"
    /\ \A o \in Otps : otp[o] = "unused" => owner[o] = None
    /\ \A w \in Workers :
          op[w] \in Confirming \cup {"deleteExpired"} => otp[code[w]] # "unused"

\* The reader of e got code o with a mail to e.
Reads(o, e) == e = to[o] \/ \E m \in Otps : to[m] = e /\ o \in during[m]

EnteredInv ==
    /\ \A x \in entered : otp[x[1]] # "unused" /\ Reads(x[1], x[2])
    /\ \A w \in Workers : op[w] = "markVerified" =>
          /\ who[w] = owner[code[w]]
          /\ \E e \in Emails : <<code[w], e>> \in entered

VerifiedInv == \A u \in Ids : verified[u] => \E x \in entered : owner[x[1]] = u

\* The workers that are about to answer "success" to code o.
Confirm(o) == {w \in Workers : op[w] = "deleteOtp" /\ code[w] = o}

CountInv ==
    \A o \in Otps :
        /\ otp[o] # "deleted" => accepted[o] = 0
        /\ accepted[o] + Cardinality(Confirm(o)) <= Cardinality(Workers)

RowInv == TypeOK /\ EmailsAreUnique /\ NoOrphanOtp /\ MailInv /\ CodeInv

-----------------------------------------------------------------------------

LEMMA RowInit == Init => RowInv
  BY MailAssumption, AccountsAssumption
  DEF Init, MailInit, RowInv, TypeOK, MailTypeOK, TableTypeOK, OtpTypeOK, LocalTypeOK,
      LocalsAreBound, Stages, Pending, Ops, Confirming, Versions, NullToken,
      Otps, Workers, Emails, EmailsAreUnique, Present, NoOrphanOtp, MailInv, Unbuilt, CodeInv

LEMMA TypeStep == RowInv /\ [Next]_vars => TypeOK'
  <1> SUFFICES ASSUME RowInv, [Next]_vars PROVE TypeOK'
    OBVIOUS
  <1> USE MailAssumption, AccountsAssumption
      DEF TypeOK, MailTypeOK, TableTypeOK, OtpTypeOK, LocalTypeOK, LocalsAreBound, Stages,
          Pending, Ops, Confirming, Versions, NullToken, Otps, Workers, Emails,
          Step, Answer, mailVars, tableVars, otpVars, localVars, historyVars
  <1>0. TypeOK /\ MailInv /\ NoOrphanOtp
    BY DEF RowInv
  <1>1. ASSUME NEW w \in Workers, NEW e \in Emails, BeginsCreation(w, e) PROVE TypeOK'
    BY <1>0, <1>1 DEF BeginsCreation
  <1>2. ASSUME NEW w \in Workers, NEW e \in Emails, BeginsDeletion(w, e) PROVE TypeOK'
    BY <1>0, <1>2 DEF BeginsDeletion
  <1>3. ASSUME NEW w \in Workers, NEW u \in Ids, BeginsUpdate(w, u) PROVE TypeOK'
    BY <1>0, <1>3 DEF BeginsUpdate
  <1>4. ASSUME NEW w \in Workers, NEW u \in Ids, AsksForAnotherCode(w, u) PROVE TypeOK'
    BY <1>0, <1>4 DEF AsksForAnotherCode
  <1>5. ASSUME NEW w \in Workers, NEW o \in Otps, NEW e \in Emails, FindsCode(w, o, e) PROVE TypeOK'
    BY <1>0, <1>5 DEF FindsCode, NoOrphanOtp, Present
  <1>6. ASSUME NEW w \in Workers, NEW o \in Otps, NEW e \in Emails, FindsExpiredCode(w, o, e) PROVE TypeOK'
    BY <1>0, <1>6 DEF FindsExpiredCode
  <1>7. ASSUME NEW w \in Workers, NEW u \in Ids, InsertsUser(w, u) PROVE TypeOK'
    BY <1>0, <1>7 DEF InsertsUser, NewRow
  <1>8. ASSUME NEW w \in Workers, NEW u \in Ids, InsertsAdmin(w, u) PROVE TypeOK'
    BY <1>0, <1>8 DEF InsertsAdmin, NewRow
  <1>9. ASSUME NEW w \in Workers, NEW u \in Ids, InsertsGoogleUser(w, u) PROVE TypeOK'
    BY <1>0, <1>9 DEF InsertsGoogleUser, NewRow
  <1>10. ASSUME NEW w \in Workers, NEW u \in Ids, LooksUp(w, u) PROVE TypeOK'
    BY <1>0, <1>10 DEF LooksUp, Meets, Present
  <1>11. ASSUME NEW w \in Workers, InsertFails(w) PROVE TypeOK'
    BY <1>0, <1>11 DEF InsertFails
  <1>12. ASSUME NEW w \in Workers, LooksUpNobody(w) PROVE TypeOK'
    BY <1>0, <1>12 DEF LooksUpNobody
  <1>13. ASSUME NEW w \in Workers, NEW o \in Otps, InsertsOtp(w, o) PROVE TypeOK'
    BY <1>0, <1>13 DEF InsertsOtp, Queue, Enters
  <1>14. ASSUME NEW w \in Workers, InsertOtpFails(w) PROVE TypeOK'
    BY <1>0, <1>14 DEF InsertOtpFails
  <1>15. ASSUME NEW w \in Workers, DeletesExpired(w) PROVE TypeOK'
    BY <1>0, <1>15 DEF DeletesExpired, RemoveOtp
  <1>16. ASSUME NEW w \in Workers, MarksVerified(w) PROVE TypeOK'
    BY <1>0, <1>16 DEF MarksVerified
  <1>17. ASSUME NEW w \in Workers, MarkFails(w) PROVE TypeOK'
    BY <1>0, <1>17 DEF MarkFails
  <1>18. ASSUME NEW w \in Workers, ReloadsOtp(w) PROVE TypeOK'
    BY <1>0, <1>18 DEF ReloadsOtp
  <1>19. ASSUME NEW w \in Workers, ReloadFails(w) PROVE TypeOK'
    BY <1>0, <1>19 DEF ReloadFails
  <1>20. ASSUME NEW w \in Workers, DeletesOtp(w) PROVE TypeOK'
    BY <1>0, <1>20 DEF DeletesOtp, RemoveOtp
  <1>21. ASSUME NEW w \in Workers, NEW e \in Emails, Updates(w, e) PROVE TypeOK'
    BY <1>0, <1>21 DEF Updates
  <1>22. ASSUME NEW w \in Workers, UpdateFails(w) PROVE TypeOK'
    BY <1>0, <1>22 DEF UpdateFails
  <1>23. ASSUME NEW w \in Workers, Deletes(w) PROVE TypeOK'
    BY <1>0, <1>23 DEF Deletes
  <1>24. ASSUME NEW w \in Workers, WorkerDies(w) PROVE TypeOK'
    BY <1>0, <1>24 DEF WorkerDies, MailsDie
  <1>25. ASSUME NEW o \in Otps, Expires(o) PROVE TypeOK'
    BY <1>0, <1>25 DEF Expires
  <1>26. ASSUME NEW m \in Mails, Composes(m),
               UNCHANGED <<tableVars, otpVars, op, localVars, events, historyVars>>
        PROVE  TypeOK'
    BY <1>0, <1>26 DEF Composes, Enters
  <1>27. ASSUME NEW m \in Mails, Attaches(m),
               UNCHANGED <<tableVars, otpVars, op, localVars, events, historyVars>>
        PROVE  TypeOK'
    BY <1>0, <1>27 DEF Attaches, Enters, MailInv
  <1>28. ASSUME NEW m \in Mails, Arrives(m),
               UNCHANGED <<tableVars, otpVars, op, localVars, events, historyVars>>
        PROVE  TypeOK'
    BY <1>0, <1>28 DEF Arrives, Enters, MailInv
  <1>29. ASSUME NEW m \in Mails, SmtpFails(m),
               UNCHANGED <<tableVars, otpVars, op, localVars, events, historyVars>>
        PROVE  TypeOK'
    BY <1>0, <1>29 DEF SmtpFails, Enters
  <1>30. CASE UNCHANGED vars
    BY <1>0, <1>30 DEF vars
  <1> HIDE DEF TypeOK
  <1>31. QED
    BY <1>1, <1>2, <1>3, <1>4, <1>5, <1>6, <1>7, <1>8, <1>9, <1>10, <1>11, <1>12, <1>13, <1>14, <1>15, <1>16, <1>17, <1>18, <1>19, <1>20, <1>21, <1>22, <1>23, <1>24, <1>25, <1>26, <1>27, <1>28, <1>29, <1>30
    DEF Next, Requests, Statements, SendsMail, MailTask

-----------------------------------------------------------------------------
(***************************************************************************)
(* Who changes what: the actions that touch the table users, the table     *)
(* otp and the mails.                                                      *)
(***************************************************************************)

LEMMA RowCases ==
  ASSUME [Next]_vars
  PROVE  \/ \E w \in Workers, u \in Ids, t \in Versions : ~Taken(addr[w]) /\ NewRow(w, u, t)
         \/ \E w \in Workers, e \in Emails : Updates(w, e)
         \/ \E w \in Workers : Deletes(w)
         \/ UNCHANGED <<row, email>>
  <1>1. ASSUME NEW w \in Workers, Requests(w) PROVE UNCHANGED <<row, email>>
    BY <1>1 DEF Requests, BeginsCreation, BeginsDeletion, BeginsUpdate, AsksForAnotherCode, FindsCode,
                FindsExpiredCode, tableVars
  <1>2. ASSUME NEW w \in Workers, NEW u \in Ids,
               InsertsUser(w, u) \/ InsertsAdmin(w, u) \/ InsertsGoogleUser(w, u)
        PROVE  \E t \in Versions : ~Taken(addr[w]) /\ NewRow(w, u, t)
    BY <1>2 DEF InsertsUser, InsertsAdmin, InsertsGoogleUser, Versions, NullToken
  <1>3. ASSUME NEW w \in Workers, Statements(w),
               ~ \E u \in Ids : InsertsUser(w, u) \/ InsertsAdmin(w, u) \/ InsertsGoogleUser(w, u),
               ~ \E e \in Emails : Updates(w, e),
               ~ Deletes(w)
        PROVE  UNCHANGED <<row, email>>
    BY <1>3 DEF Statements, LooksUp, InsertFails, LooksUpNobody, InsertsOtp, InsertOtpFails,
                DeletesExpired, MarksVerified, MarkFails, ReloadsOtp, ReloadFails, DeletesOtp,
                UpdateFails, tableVars
  <1>4. ASSUME NEW w \in Workers, WorkerDies(w) PROVE UNCHANGED <<row, email>>
    BY <1>4 DEF WorkerDies, tableVars
  <1>5. ASSUME NEW o \in Otps, Expires(o) \/ SendsMail(o) PROVE UNCHANGED <<row, email>>
    BY <1>5 DEF Expires, SendsMail, tableVars
  <1>6. CASE UNCHANGED vars
    BY <1>6 DEF vars, tableVars
  <1>7. QED
    BY <1>1, <1>2, <1>3, <1>4, <1>5, <1>6 DEF Next

LEMMA OtpCases ==
  ASSUME [Next]_vars
  PROVE  \/ \E w \in Workers, o \in Otps : InsertsOtp(w, o)
         \/ \E o \in Otps : Expires(o)
         \/ \E w \in Workers : /\ op[w] \in Confirming \cup {"deleteExpired"}
                               /\ RemoveOtp(w) /\ UNCHANGED tableVars
         \/ \E w \in Workers : Deletes(w)
         \/ UNCHANGED otpVars /\ ~ \E w \in Workers : Deletes(w)
  <1>1. ASSUME NEW w \in Workers, Requests(w) PROVE UNCHANGED otpVars
    BY <1>1 DEF Requests, BeginsCreation, BeginsDeletion, BeginsUpdate, AsksForAnotherCode, FindsCode,
                FindsExpiredCode, otpVars
  <1>2. ASSUME NEW w \in Workers, DeletesExpired(w) \/ DeletesOtp(w)
        PROVE  /\ op[w] \in Confirming \cup {"deleteExpired"}
               /\ RemoveOtp(w) /\ UNCHANGED tableVars
    BY <1>2 DEF DeletesExpired, DeletesOtp, Confirming
  <1>3. ASSUME NEW w \in Workers, Statements(w), ~ DeletesExpired(w), ~ DeletesOtp(w),
               ~ \E o \in Otps : InsertsOtp(w, o), ~ Deletes(w)
        PROVE  UNCHANGED otpVars
    BY <1>3 DEF Statements, InsertsUser, InsertsAdmin, InsertsGoogleUser, LooksUp, InsertFails,
                LooksUpNobody, InsertOtpFails, MarksVerified, MarkFails, ReloadsOtp,
                ReloadFails, Updates, UpdateFails, otpVars
  <1>4. ASSUME NEW w \in Workers, WorkerDies(w) PROVE UNCHANGED otpVars
    BY <1>4 DEF WorkerDies, otpVars
  <1>5. ASSUME NEW o \in Otps, SendsMail(o) PROVE UNCHANGED otpVars
    BY <1>5 DEF SendsMail, otpVars
  <1>6. CASE UNCHANGED vars
    BY <1>6 DEF vars, otpVars
  <1>7. QED
    BY <1>1, <1>2, <1>3, <1>4, <1>5, <1>6 DEF Next

LEMMA MailCases ==
  ASSUME [Next]_vars
  PROVE  \/ \E w \in Workers, o \in Otps : InsertsOtp(w, o)
         \/ \E w \in Workers : WorkerDies(w)
         \/ \E m \in Mails : MailTask(m) /\ UNCHANGED otpVars
         \/ UNCHANGED mailVars
  <1>1. ASSUME NEW w \in Workers, Requests(w) PROVE UNCHANGED mailVars
    BY <1>1 DEF Requests, BeginsCreation, BeginsDeletion, BeginsUpdate, AsksForAnotherCode, FindsCode,
                FindsExpiredCode, mailVars
  <1>2. ASSUME NEW w \in Workers, Statements(w), ~ \E o \in Otps : InsertsOtp(w, o)
        PROVE  UNCHANGED mailVars
    BY <1>2 DEF Statements, InsertsUser, InsertsAdmin, InsertsGoogleUser, LooksUp, InsertFails,
                LooksUpNobody, InsertOtpFails, DeletesExpired, MarksVerified, MarkFails,
                ReloadsOtp, ReloadFails, DeletesOtp, Updates, UpdateFails, Deletes, mailVars
  <1>3. ASSUME NEW o \in Otps, Expires(o) PROVE UNCHANGED mailVars
    BY <1>3 DEF Expires, mailVars
  <1>4. ASSUME NEW o \in Otps, SendsMail(o)
        PROVE  \E m \in Mails : MailTask(m) /\ UNCHANGED otpVars
    BY <1>4 DEF SendsMail, Otps
  <1>5. CASE UNCHANGED vars
    BY <1>5 DEF vars, mailVars
  <1>6. QED
    BY <1>1, <1>2, <1>3, <1>4, <1>5 DEF Next

LEMMA UniqueStep == RowInv /\ [Next]_vars => EmailsAreUnique'
  <1> SUFFICES ASSUME RowInv, [Next]_vars PROVE EmailsAreUnique'
    OBVIOUS
  <1> USE DEF RowInv, TypeOK, TableTypeOK, EmailsAreUnique, Present
  <1>1. ASSUME NEW w \in Workers, NEW u \in Ids, NEW t \in Versions,
               ~Taken(addr[w]), NewRow(w, u, t)
        PROVE  EmailsAreUnique'
    BY <1>1 DEF Taken, NewRow
  <1>2. ASSUME NEW w \in Workers, NEW e \in Emails, Updates(w, e) PROVE EmailsAreUnique'
    BY <1>2 DEF Updates
  <1>3. ASSUME NEW w \in Workers, Deletes(w) PROVE EmailsAreUnique'
    BY <1>3 DEF Deletes
  <1>4. CASE UNCHANGED <<row, email>>
    BY <1>4
  <1>5. QED
    BY <1>1, <1>2, <1>3, <1>4, RowCases

LEMMA OrphanStep == RowInv /\ [Next]_vars => NoOrphanOtp'
  <1> SUFFICES ASSUME RowInv, [Next]_vars PROVE NoOrphanOtp'
    OBVIOUS
  <1> USE AccountsAssumption
      DEF RowInv, TypeOK, TableTypeOK, OtpTypeOK, LocalTypeOK, NoOrphanOtp, Present
  <1>1. ASSUME NEW w \in Workers, NEW o \in Otps, InsertsOtp(w, o) PROVE NoOrphanOtp'
    BY <1>1 DEF InsertsOtp, tableVars
  <1>2. ASSUME NEW o \in Otps, Expires(o) PROVE NoOrphanOtp'
    BY <1>2 DEF Expires, tableVars
  <1>3. ASSUME NEW w \in Workers, RemoveOtp(w), UNCHANGED tableVars PROVE NoOrphanOtp'
    BY <1>3 DEF RemoveOtp, tableVars
  <1>4. ASSUME NEW w \in Workers, Deletes(w) PROVE NoOrphanOtp'
    BY <1>4 DEF Deletes
  <1>5. ASSUME UNCHANGED otpVars, ~ \E w \in Workers : Deletes(w) PROVE NoOrphanOtp'
    <2>1. \A u \in Present : row'[u] = "present"
      BY <1>5, RowCases DEF NewRow, Updates
    <2>2. QED
      BY <1>5, <2>1 DEF otpVars
  <1>6. QED
    BY <1>1, <1>2, <1>3, <1>4, <1>5, OtpCases

LEMMA MailStep == RowInv /\ [Next]_vars => MailInv'
  <1> SUFFICES ASSUME RowInv, [Next]_vars PROVE MailInv'
    OBVIOUS
  <1> USE MailAssumption
      DEF RowInv, TypeOK, MailTypeOK, MailInv, Unbuilt, Stages, Pending
  <1>1. ASSUME NEW w \in Workers, NEW o \in Otps, InsertsOtp(w, o) PROVE MailInv'
    BY <1>1 DEF InsertsOtp, Queue, Enters, LocalTypeOK, LocalsAreBound, Otps, Workers, Emails,
                Answer
  <1>2. ASSUME NEW w \in Workers, WorkerDies(w) PROVE MailInv'
    BY <1>2 DEF WorkerDies, MailsDie, Workers
  <1>3. ASSUME NEW m \in Mails, Composes(m) PROVE MailInv'
    <2>1. \A n \in Mails : stage[n] # "none" => stage'[n] # "none"
      BY <1>3 DEF Composes, Enters
    <2>2. \A n \in Mails : during[n] \subseteq during'[n] /\ during'[n] \subseteq during[n] \cup {m}
      BY <1>3 DEF Composes
    <2>3. stage'[m] # "none" /\ UNCHANGED <<process, to, body, inbox>>
      BY <1>3 DEF Composes, Enters
    <2>4. ASSUME NEW n \in Mails, stage'[n] = "composed"
          PROVE  slot'[process[n]] \in {n} \cup during'[n]
      <3>1. CASE n = m
        BY <1>3, <3>1 DEF Composes, Enters
      <3>2. CASE n # m /\ process[n] = process[m]
        BY <1>3, <2>4, <3>2 DEF Composes, Enters
      <3>3. CASE n # m /\ process[n] # process[m]
        BY <1>3, <2>2, <2>4, <3>3 DEF Composes, Enters
      <3>4. QED
        BY <3>1, <3>2, <3>3
    <2>5. \A n \in Mails : \A k \in during'[n] : stage'[n] # "none" /\ stage'[k] # "none"
      BY <1>3 DEF Composes, Enters
    <2>6. \A p \in Processes : slot'[p] # None => stage'[slot'[p]] # "none"
      BY <1>3 DEF Composes, Enters
    <2>7. \A n \in Mails : stage'[n] # "none" => stage[n] # "none"
      BY <1>3 DEF Composes, Enters
    <2>8. \A n \in Mails : stage'[n] = "attached" => body[n] # None
      BY <1>3 DEF Composes, Enters
    <2>9. \A n \in Mails : body[n] # None => ~Unbuilt(n)'
      BY <1>3 DEF Composes, Enters
    <2>10. ASSUME NEW n \in Mails
          PROVE  /\ stage'[n] # "none" => process'[n] \in Processes /\ to'[n] \in Addresses
                 /\ stage'[n] = "composed" => slot'[process'[n]] \in {n} \cup during'[n]
                 /\ stage'[n] = "attached" => body'[n] # None
                 /\ body'[n] # None => body'[n] \in {n} \cup during'[n] /\ ~Unbuilt(n)'
      <3>1. stage'[n] # "none" => process'[n] \in Processes /\ to'[n] \in Addresses
        BY <2>3, <2>7
      <3>2. stage'[n] = "composed" => slot'[process'[n]] \in {n} \cup during'[n]
        BY <2>3, <2>4
      <3>3. stage'[n] = "attached" => body'[n] # None
        BY <2>3, <2>8
      <3>4. body'[n] # None => body'[n] \in {n} \cup during'[n] /\ ~Unbuilt(n)'
        <4>1. body'[n] = body[n] /\ during[n] \subseteq during'[n]
          BY <2>2, <2>3
        <4>2. body[n] # None => body[n] \in {n} \cup during[n] /\ ~Unbuilt(n)'
          BY <2>9
        <4> HIDE DEF MailInv, Unbuilt, RowInv
        <4>3. QED
          BY <4>1, <4>2
      <3>5. QED
        BY <3>1, <3>2, <3>3, <3>4
    <2>11. \A a \in Addresses : \A o \in inbox'[a] :
              \E n \in Mails : stage'[n] # "none" /\ to'[n] = a /\ body'[n] = o
      BY <2>1, <2>3
    <2>12. QED
      BY <2>5, <2>6, <2>10, <2>11
  <1>4. ASSUME NEW m \in Mails, Attaches(m) PROVE MailInv'
    <2>1. stage[m] = "composed" /\ slot[process[m]] \in {m} \cup during[m]
      BY <1>4 DEF Attaches, Enters
    <2>2. UNCHANGED <<process, to, slot, during, inbox>>
      BY <1>4 DEF Attaches
    <2>3. \A n \in Mails : stage'[n] # "none" <=> stage[n] # "none"
      BY <1>4 DEF Attaches, Enters
    <2>4. ASSUME NEW n \in Mails
          PROVE  /\ stage'[n] = "composed" => stage[n] = "composed"
                 /\ stage'[n] = "attached" => body'[n] # None
                 /\ body'[n] # None => body'[n] \in {n} \cup during[n] /\ ~Unbuilt(n)'
      BY <1>4, <2>1 DEF Attaches, Enters
    <2>5. ASSUME NEW a \in Addresses, NEW o \in inbox[a]
          PROVE  \E n \in Mails : stage[n] # "none" /\ to[n] = a /\ body'[n] = o
      <3>1. PICK n \in Mails : stage[n] # "none" /\ to[n] = a /\ body[n] = o
        OBVIOUS
      <3>2. CASE n # m
        BY <1>4, <3>1, <3>2 DEF Attaches
      <3>3. CASE n = m
        BY <1>4, <2>1, <3>1, <3>3
      <3>4. QED
        BY <3>2, <3>3
    <2>6. QED
      BY <2>2, <2>3, <2>4, <2>5
  <1>5. ASSUME NEW m \in Mails, Arrives(m) PROVE MailInv'
    BY <1>5 DEF Arrives, Enters
  <1>6. ASSUME NEW m \in Mails, SmtpFails(m) PROVE MailInv'
    BY <1>6 DEF SmtpFails, Enters
  <1>7. CASE UNCHANGED mailVars
    BY <1>7 DEF mailVars
  <1>8. QED
    BY <1>1, <1>2, <1>3, <1>4, <1>5, <1>6, <1>7, MailCases DEF MailTask

-----------------------------------------------------------------------------
(***************************************************************************)
(* A code that exists keeps its owner and its addressee, and a worker only *)
(* confirms a code it has found.                                           *)
(***************************************************************************)

LEMMA CodesStay ==
  ASSUME RowInv, [Next]_vars, NEW o \in Otps, otp[o] # "unused"
  PROVE  /\ otp'[o] # "unused" /\ owner'[o] = owner[o]
         /\ to'[o] = to[o] /\ during[o] \subseteq during'[o]
  <1> USE DEF RowInv, TypeOK, OtpTypeOK, MailTypeOK
  <1>1. otp'[o] # "unused" /\ owner'[o] = owner[o]
    <2>1. ASSUME NEW w \in Workers, NEW n \in Otps, InsertsOtp(w, n)
          PROVE  otp'[o] # "unused" /\ owner'[o] = owner[o]
      BY <2>1 DEF InsertsOtp
    <2>2. ASSUME NEW n \in Otps, Expires(n)
          PROVE  otp'[o] # "unused" /\ owner'[o] = owner[o]
      BY <2>2 DEF Expires
    <2>3. ASSUME NEW w \in Workers, RemoveOtp(w)
          PROVE  otp'[o] # "unused" /\ owner'[o] = owner[o]
      BY <2>3 DEF RemoveOtp
    <2>4. ASSUME NEW w \in Workers, Deletes(w)
          PROVE  otp'[o] # "unused" /\ owner'[o] = owner[o]
      BY <2>4 DEF Deletes
    <2>5. QED
      BY <2>1, <2>2, <2>3, <2>4, OtpCases DEF otpVars
  <1>2. stage[o] # "none"
    BY DEF CodeInv
  <1>3. to'[o] = to[o] /\ during[o] \subseteq during'[o]
    <2>1. ASSUME NEW w \in Workers, NEW n \in Otps, InsertsOtp(w, n)
          PROVE  to'[o] = to[o] /\ during'[o] = during[o]
      BY <1>2, <2>1 DEF InsertsOtp, Queue, Enters, Otps
    <2>2. ASSUME NEW w \in Workers, WorkerDies(w)
          PROVE  to'[o] = to[o] /\ during'[o] = during[o]
      BY <2>2 DEF WorkerDies, MailsDie
    <2>3. ASSUME NEW m \in Mails, MailTask(m)
          PROVE  to'[o] = to[o] /\ during[o] \subseteq during'[o]
      BY <2>3 DEF MailTask, Composes, Attaches, Arrives, SmtpFails, Otps
    <2>4. QED
      BY <2>1, <2>2, <2>3, MailCases DEF mailVars
  <1>4. QED
    BY <1>1, <1>3

LEMMA OpCases ==
  ASSUME RowInv, [Next]_vars, NEW w \in Workers, op'[w] \in Confirming \cup {"deleteExpired"}
  PROVE  \/ \E o \in Otps, e \in Emails : FindsCode(w, o, e) \/ FindsExpiredCode(w, o, e)
         \/ /\ op[w] \in Confirming \cup {"deleteExpired"}
            /\ code'[w] = code[w] /\ who'[w] = who[w]
            /\ op'[w] = "markVerified" => op[w] = "markVerified"
            /\ op'[w] = "deleteOtp" => op[w] = "deleteOtp" \/ ReloadsOtp(w)
  <1> DEFINE Goes == /\ op[w] \in Confirming \cup {"deleteExpired"}
                     /\ code'[w] = code[w] /\ who'[w] = who[w]
                     /\ op'[w] = "markVerified" => op[w] = "markVerified"
                     /\ op'[w] = "deleteOtp" => op[w] = "deleteOtp" \/ ReloadsOtp(w)
  <1> USE DEF RowInv, TypeOK, LocalTypeOK, Confirming, Step, Answer
  <1>1. ASSUME NEW v \in Workers, Requests(v),
               ~ \E o \in Otps, e \in Emails : FindsCode(w, o, e) \/ FindsExpiredCode(w, o, e)
        PROVE  Goes
    <2>1. op'[v] \in {"insertUser", "lookUp", "update", "delete"} \/ v # w
      BY <1>1 DEF Requests, BeginsCreation, BeginsDeletion, BeginsUpdate, AsksForAnotherCode
    <2>2. v # w
      BY <2>1
    <2>3. op'[w] = op[w] /\ code'[w] = code[w] /\ who'[w] = who[w]
      BY <1>1, <2>2 DEF Requests, BeginsCreation, BeginsDeletion, BeginsUpdate, AsksForAnotherCode, FindsCode,
                  FindsExpiredCode
    <2>4. QED
      BY <2>3
  <1>2. ASSUME NEW v \in Workers, Statements(v), v # w PROVE Goes
    <2>1. op'[w] = op[w] /\ code'[w] = code[w] /\ who'[w] = who[w]
      BY <1>2 DEF Statements, InsertsUser, InsertsAdmin, InsertsGoogleUser, LooksUp,
                  InsertFails, LooksUpNobody, InsertsOtp, InsertOtpFails, DeletesExpired,
                  MarksVerified, MarkFails, ReloadsOtp, ReloadFails, DeletesOtp, Updates,
                  UpdateFails, Deletes, localVars
    <2>2. QED
      BY <2>1
  <1>3. ASSUME Statements(w) PROVE Goes
    <2>1. MarksVerified(w) \/ ReloadsOtp(w)
      BY <1>3 DEF Statements, InsertsUser, InsertsAdmin, InsertsGoogleUser, LooksUp,
                  InsertFails, LooksUpNobody, InsertsOtp, InsertOtpFails, DeletesExpired,
                  MarkFails, ReloadFails, DeletesOtp, Updates, UpdateFails, Deletes
    <2>2. CASE MarksVerified(w)
      BY <2>2 DEF MarksVerified, localVars
    <2>3. CASE ReloadsOtp(w)
      BY <2>3 DEF ReloadsOtp, localVars
    <2>4. QED
      BY <2>1, <2>2, <2>3
  <1>4. ASSUME NEW v \in Workers, WorkerDies(v) PROVE Goes
    BY <1>4 DEF WorkerDies
  <1>5. ASSUME NEW o \in Otps, Expires(o) \/ SendsMail(o) PROVE Goes
    BY <1>5 DEF Expires, SendsMail, localVars
  <1>6. CASE UNCHANGED vars
    BY <1>6 DEF vars, localVars
  <1>7. QED
    BY <1>1, <1>2, <1>3, <1>4, <1>5, <1>6 DEF Next

LEMMA CodeStep == RowInv /\ [Next]_vars => CodeInv'
  <1> SUFFICES ASSUME RowInv, [Next]_vars PROVE CodeInv'
    OBVIOUS
  <1> USE AccountsAssumption DEF RowInv, TypeOK, OtpTypeOK, MailTypeOK, CodeInv
  <1>1. ASSUME NEW o \in Otps PROVE /\ stage'[o] = "none" <=> otp'[o] = "unused"
                                    /\ otp'[o] = "unused" => owner'[o] = None
    <2>1. CASE \E w \in Workers, n \in Otps : InsertsOtp(w, n)
      BY <2>1 DEF InsertsOtp, Queue, Enters, Otps
    <2>2. CASE ~ \E w \in Workers, n \in Otps : InsertsOtp(w, n)
      <3>1. stage'[o] = "none" <=> stage[o] = "none"
        <4>1. ASSUME NEW w \in Workers, WorkerDies(w) PROVE stage'[o] = "none" <=> stage[o] = "none"
          BY <4>1 DEF WorkerDies, MailsDie, Pending, Otps
        <4>2. ASSUME NEW m \in Mails, MailTask(m) PROVE stage'[o] = "none" <=> stage[o] = "none"
          BY <4>2 DEF MailTask, Composes, Attaches, Arrives, SmtpFails, Enters, Otps
        <4>3. QED
          BY <2>2, <4>1, <4>2, MailCases DEF mailVars
      <3>2. otp[o] = "unused" => otp'[o] = "unused" /\ owner'[o] = owner[o]
        <4>1. ASSUME NEW n \in Otps, Expires(n), otp[o] = "unused"
              PROVE  otp'[o] = "unused" /\ owner'[o] = owner[o]
          BY <4>1 DEF Expires
        <4>2. ASSUME NEW w \in Workers, op[w] \in Confirming \cup {"deleteExpired"},
                     RemoveOtp(w), otp[o] = "unused"
              PROVE  otp'[o] = "unused" /\ owner'[o] = owner[o]
          BY <4>2 DEF RemoveOtp
        <4>3. ASSUME NEW w \in Workers, Deletes(w), otp[o] = "unused"
              PROVE  otp'[o] = "unused" /\ owner'[o] = owner[o]
          BY <4>3 DEF Deletes, Present
        <4>4. QED
          BY <2>2, <4>1, <4>2, <4>3, OtpCases DEF otpVars
      <3>3. QED
        BY <3>1, <3>2, CodesStay
    <2>3. QED
      BY <2>1, <2>2
  <1>2. ASSUME NEW w \in Workers, op'[w] \in Confirming \cup {"deleteExpired"}
        PROVE  otp'[code'[w]] # "unused"
    <2>1. code'[w] \in Otps /\ otp[code'[w]] # "unused"
      <3>1. ASSUME NEW o \in Otps, NEW e \in Emails, FindsCode(w, o, e) \/ FindsExpiredCode(w, o, e)
            PROVE  code'[w] = o /\ otp[o] # "unused"
        BY <3>1 DEF FindsCode, FindsExpiredCode, LocalTypeOK
      <3>2. QED
        BY <1>2, <3>1, OpCases DEF LocalTypeOK, LocalsAreBound
    <2>2. QED
      BY <2>1, CodesStay
  <1>3. QED
    BY <1>1, <1>2

LEMMA RowStep == RowInv /\ [Next]_vars => RowInv'
  BY TypeStep, UniqueStep, OrphanStep, MailStep, CodeStep DEF RowInv

LEMMA RowCorrect == Spec => []RowInv
  BY RowInit, RowStep, PTL DEF Spec

\* Type correctness: every variable keeps its type, and every statement of a
\* request finds what it uses assigned.
THEOREM AccountsTypeCorrect == Spec => []TypeOK
  BY RowCorrect, PTL DEF RowInv

\* No two accounts ever have the same address, however creations and changes
\* in different workers interleave (users/models.py, the unique constraint).
THEOREM NoSharedEmail == Spec => []EmailsAreUnique
  BY RowCorrect, PTL DEF RowInv

\* A code in the table always belongs to an account in the table, although an
\* account may be deleted at any point of send_otp_email_handler.
THEOREM NoOrphans == Spec => []NoOrphanOtp
  BY RowCorrect, PTL DEF RowInv

\* A mail is built from its own document or from one that another task of the
\* same process has stored while it was being built.
THEOREM OwnDocuments == Spec => []OwnDocumentUnlessOverlapped
  <1>1. RowInv => OwnDocumentUnlessOverlapped
    BY DEF RowInv, MailInv, OwnDocumentUnlessOverlapped
  <1>2. QED
    BY <1>1, RowCorrect, PTL

-----------------------------------------------------------------------------
(***************************************************************************)
(* What is confirmed, and how often.                                       *)
(***************************************************************************)

LEMMA HistoryCases ==
  ASSUME [Next]_vars
  PROVE  /\ entered' = entered \/ \E w \in Workers, o \in Otps, e \in Emails : FindsCode(w, o, e)
         /\ verified' = verified \/ \E w \in Workers : MarksVerified(w)
         /\ accepted' = accepted \/ \E w \in Workers : DeletesOtp(w)
  <1> USE DEF tableVars, historyVars
  <1>1. ASSUME NEW w \in Workers, Requests(w)
        PROVE  /\ UNCHANGED <<verified, accepted>>
               /\ entered' = entered \/ \E o \in Otps, e \in Emails : FindsCode(w, o, e)
    BY <1>1 DEF Requests, BeginsCreation, BeginsDeletion, BeginsUpdate, AsksForAnotherCode, FindsExpiredCode, FindsCode
  <1>2. ASSUME NEW w \in Workers, Statements(w)
        PROVE  /\ entered' = entered
               /\ verified' = verified \/ MarksVerified(w)
               /\ accepted' = accepted \/ DeletesOtp(w)
    <2>1. CASE MarksVerified(w) \/ DeletesOtp(w)
      BY <2>1 DEF MarksVerified, DeletesOtp
    <2>2. CASE ~ MarksVerified(w) /\ ~ DeletesOtp(w)
      BY <1>2, <2>2 DEF Statements, InsertsUser, InsertsAdmin, InsertsGoogleUser, NewRow, LooksUp,
                InsertFails, LooksUpNobody, InsertsOtp, InsertOtpFails, DeletesExpired,
                MarkFails, ReloadsOtp, ReloadFails, Updates, UpdateFails, Deletes
    <2>3. QED
      BY <2>1, <2>2
  <1>3. ASSUME NEW w \in Workers, WorkerDies(w) PROVE UNCHANGED <<entered, verified, accepted>>
    BY <1>3 DEF WorkerDies
  <1>4. ASSUME NEW o \in Otps, Expires(o) \/ SendsMail(o)
        PROVE  UNCHANGED <<entered, verified, accepted>>
    BY <1>4 DEF Expires, SendsMail
  <1>5. CASE UNCHANGED vars
    BY <1>5 DEF vars
  <1>6. QED
    BY <1>1, <1>2, <1>3, <1>4, <1>5 DEF Next

LEMMA EnteredStep == RowInv /\ EnteredInv /\ [Next]_vars => EnteredInv'
  <1> SUFFICES ASSUME RowInv, EnteredInv, [Next]_vars PROVE EnteredInv'
    OBVIOUS
  <1> USE DEF RowInv, TypeOK
  <1>1. entered \subseteq entered'
    BY HistoryCases DEF FindsCode
  <1>2. ASSUME NEW o \in Otps, NEW e \in Emails, otp[o] # "unused", Reads(o, e)
        PROVE  Reads(o, e)'
    <2>1. CASE e = to[o]
      BY <1>2, <2>1, CodesStay DEF Reads
    <2>2. CASE \E m \in Otps : to[m] = e /\ o \in during[m]
      <3>1. PICK m \in Otps : to[m] = e /\ o \in during[m]
        BY <2>2
      <3>2. otp[m] # "unused"
        BY <3>1 DEF MailInv, CodeInv, Otps
      <3>3. QED
        BY <3>1, <3>2, CodesStay DEF Reads
    <2>3. QED
      BY <1>2, <2>1, <2>2 DEF Reads
  <1>3. ASSUME NEW w \in Workers, NEW o \in Otps, NEW e \in Emails, FindsCode(w, o, e)
        PROVE  otp[o] # "unused" /\ Reads(o, e) /\ entered' = entered \cup {<<o, e>>}
    <2>1. PICK m \in Mails : to[m] = e /\ body[m] = o
      BY <1>3 DEF FindsCode, MailInv, Emails
    <2>2. o \in {m} \cup during[m]
      BY <2>1, MailAssumption DEF MailInv, Otps
    <2>3. Reads(o, e)
      BY <2>1, <2>2 DEF Reads, Otps
    <2>4. QED
      BY <1>3, <2>3 DEF FindsCode
  <1>4. ASSUME NEW x \in entered' PROVE otp'[x[1]] # "unused" /\ Reads(x[1], x[2])'
    <2>1. CASE x \in entered
      <3>1. x[1] \in Otps /\ x[2] \in Emails /\ otp[x[1]] # "unused" /\ Reads(x[1], x[2])
        BY <2>1 DEF EnteredInv
      <3>2. QED
        BY <1>2, <3>1, CodesStay
    <2>2. CASE x \notin entered
      <3>1. PICK w \in Workers, o \in Otps, e \in Emails : FindsCode(w, o, e)
        BY <2>2, HistoryCases
      <3>2. x[1] = o /\ x[2] = e
        BY <1>3, <2>2, <3>1
      <3>3. QED
        BY <1>2, <1>3, <3>1, <3>2, CodesStay
    <2>3. QED
      BY <2>1, <2>2
  <1>5. ASSUME NEW w \in Workers, op'[w] = "markVerified"
        PROVE  /\ who'[w] = owner'[code'[w]]
               /\ \E e \in Emails : <<code'[w], e>> \in entered'
    <2>1. CASE \E o \in Otps, e \in Emails : FindsCode(w, o, e)
      <3>1. PICK o \in Otps, e \in Emails : FindsCode(w, o, e)
        BY <2>1
      <3>2. who'[w] = owner[o] /\ code'[w] = o /\ owner'[o] = owner[o]
        BY <3>1 DEF FindsCode, LocalTypeOK, otpVars
      <3>3. <<o, e>> \in entered'
        BY <1>3, <3>1
      <3>4. QED
        BY <3>2, <3>3
    <2>2. CASE \E o \in Otps, e \in Emails : FindsExpiredCode(w, o, e)
      BY <1>5, <2>2 DEF FindsExpiredCode, Step, LocalTypeOK
    <2>3. CASE op[w] = "markVerified" /\ code'[w] = code[w] /\ who'[w] = who[w]
      <3>1. code[w] \in Otps /\ otp[code[w]] # "unused"
        BY <2>3 DEF LocalTypeOK, LocalsAreBound, Confirming, CodeInv
      <3>2. owner'[code[w]] = owner[code[w]]
        BY <3>1, CodesStay
      <3>3. QED
        BY <1>1, <2>3, <3>2 DEF EnteredInv
    <2>4. QED
      BY <1>5, <2>1, <2>2, <2>3, OpCases DEF Confirming
  <1>6. QED
    BY <1>4, <1>5 DEF EnteredInv

LEMMA VerifiedStep ==
  RowInv /\ EnteredInv /\ VerifiedInv /\ [Next]_vars => VerifiedInv'
  <1> SUFFICES ASSUME RowInv, EnteredInv, VerifiedInv, [Next]_vars,
                      NEW u \in Ids, verified'[u]
               PROVE  \E x \in entered' : owner'[x[1]] = u
    BY DEF VerifiedInv
  <1> USE DEF RowInv, TypeOK
  <1>1. \E x \in entered : owner[x[1]] = u
    <2>1. CASE verified[u]
      BY <2>1 DEF VerifiedInv
    <2>2. CASE ~verified[u]
      <3>1. PICK w \in Workers : MarksVerified(w)
        BY <2>2, HistoryCases
      <3>2. op[w] = "markVerified" /\ who[w] = u
        BY <2>2, <3>1 DEF MarksVerified, Step, TableTypeOK
      <3>3. QED
        BY <3>2 DEF EnteredInv
    <2>3. QED
      BY <2>1, <2>2
  <1>2. PICK x \in entered : owner[x[1]] = u
    BY <1>1
  <1>3. x[1] \in Otps /\ otp[x[1]] # "unused"
    BY DEF EnteredInv
  <1>4. owner'[x[1]] = u
    BY <1>2, <1>3, CodesStay
  <1>5. x \in entered'
    BY HistoryCases DEF FindsCode
  <1>6. QED
    BY <1>4, <1>5

LEMMA ConfirmFinite ==
  ASSUME NEW o \in Otps
  PROVE  IsFiniteSet(Confirm(o)) /\ Cardinality(Confirm(o)) <= Cardinality(Workers)
  <1>1. IsFiniteSet(Workers) /\ Confirm(o) \subseteq Workers
    BY AccountsAssumption DEF Confirm, Workers
  <1>2. QED
    BY <1>1, FS_Subset

LEMMA CountStep == RowInv /\ CountInv /\ [Next]_vars => CountInv'
  <1> SUFFICES ASSUME RowInv, CountInv, [Next]_vars, NEW o \in Otps
               PROVE  /\ otp'[o] # "deleted" => accepted'[o] = 0
                      /\ accepted'[o] + Cardinality(Confirm(o)') <= Cardinality(Workers)
    BY DEF CountInv, Workers
  <1> USE DEF RowInv, TypeOK, OtpTypeOK
  <1>1. otp[o] = "deleted" => otp'[o] = "deleted"
    <2>1. ASSUME NEW w \in Workers, NEW n \in Otps, InsertsOtp(w, n), otp[o] = "deleted"
          PROVE  otp'[o] = "deleted"
      BY <2>1 DEF InsertsOtp
    <2>2. ASSUME NEW n \in Otps, Expires(n), otp[o] = "deleted" PROVE otp'[o] = "deleted"
      BY <2>2 DEF Expires
    <2>3. ASSUME NEW w \in Workers, RemoveOtp(w), otp[o] = "deleted" PROVE otp'[o] = "deleted"
      BY <2>3 DEF RemoveOtp
    <2>4. ASSUME NEW w \in Workers, Deletes(w), otp[o] = "deleted" PROVE otp'[o] = "deleted"
      BY <2>4 DEF Deletes
    <2>5. QED
      BY <2>1, <2>2, <2>3, <2>4, OtpCases DEF otpVars
  <1>2. ASSUME NEW w \in Workers, op'[w] = "deleteOtp"
        PROVE  code'[w] = code[w] /\ (op[w] = "deleteOtp" \/ ReloadsOtp(w))
    <2>1. ASSUME NEW n \in Otps, NEW e \in Emails, FindsCode(w, n, e) \/ FindsExpiredCode(w, n, e)
          PROVE  FALSE
      BY <1>2, <2>1 DEF FindsCode, FindsExpiredCode, Step, LocalTypeOK
    <2>2. QED
      BY <1>2, <2>1, OpCases DEF Confirming
  <1>3. Cardinality(Confirm(o)) \in Nat /\ Cardinality(Confirm(o)') \in Nat
        /\ Cardinality(Workers) \in Nat /\ accepted[o] \in Nat
    <2>1. IsFiniteSet(Workers) /\ Confirm(o)' \subseteq Workers
      BY AccountsAssumption DEF Confirm, Workers
    <2>2. QED
      BY <2>1, ConfirmFinite, FS_Subset, FS_CardinalityType
  <1>4. CASE \E w \in Workers : ReloadsOtp(w) /\ code[w] = o
    <2>1. PICK w \in Workers : ReloadsOtp(w) /\ code[w] = o
      BY <1>4
    <2>2. accepted[o] = 0 /\ accepted' = accepted
      BY <2>1 DEF ReloadsOtp, CountInv, historyVars
    <2>3. IsFiniteSet(Workers) /\ Confirm(o)' \subseteq Workers
      BY AccountsAssumption DEF Confirm, Workers
    <2>4. Cardinality(Confirm(o)') <= Cardinality(Workers)
      BY <2>3, FS_Subset
    <2>5. QED
      BY <1>3, <2>2, <2>4
  <1>5. CASE ~ \E w \in Workers : ReloadsOtp(w) /\ code[w] = o
    <2>1. Confirm(o)' \subseteq Confirm(o)
      BY <1>2, <1>5 DEF Confirm
    <2>2. CASE \E w \in Workers : DeletesOtp(w) /\ code[w] = o
      <3>1. PICK w \in Workers : DeletesOtp(w) /\ code[w] = o
        BY <2>2
      <3>2. w \in Confirm(o) /\ w \notin Confirm(o)'
        BY <3>1 DEF DeletesOtp, Confirm, Answer, LocalTypeOK
      <3>3. Confirm(o)' \subseteq Confirm(o) \ {w}
        BY <2>1, <3>2
      <3>4. /\ IsFiniteSet(Confirm(o) \ {w})
            /\ Cardinality(Confirm(o) \ {w}) = Cardinality(Confirm(o)) - 1
        BY <3>2, ConfirmFinite, FS_RemoveElement
      <3>5. Cardinality(Confirm(o)') <= Cardinality(Confirm(o)) - 1
        BY <3>3, <3>4, FS_Subset
      <3>6. otp'[o] = "deleted" /\ accepted'[o] = accepted[o] + 1
        BY <3>1 DEF DeletesOtp, RemoveOtp
      <3>7. accepted[o] + Cardinality(Confirm(o)) <= Cardinality(Workers)
        BY DEF CountInv
      <3>8. QED
        BY <1>3, <3>5, <3>6, <3>7
    <2>3. CASE ~ \E w \in Workers : DeletesOtp(w) /\ code[w] = o
      <3>1. accepted'[o] = accepted[o]
        BY <2>3, HistoryCases DEF DeletesOtp
      <3>2. Cardinality(Confirm(o)') <= Cardinality(Confirm(o))
        BY <2>1, ConfirmFinite, FS_Subset
      <3>3. QED
        BY <1>1, <1>3, <3>1, <3>2 DEF CountInv
    <2>4. QED
      BY <2>2, <2>3
  <1>6. QED
    BY <1>4, <1>5

LEMMA ConfirmInit == Init => EnteredInv /\ VerifiedInv /\ CountInv
  <1> SUFFICES ASSUME Init PROVE EnteredInv /\ VerifiedInv /\ CountInv
    OBVIOUS
  <1>1. EnteredInv /\ VerifiedInv
    BY DEF Init, EnteredInv, VerifiedInv
  <1>2. ASSUME NEW o \in Otps PROVE accepted[o] = 0
    BY DEF Init
  <1>3. ASSUME NEW o \in Otps PROVE Cardinality(Confirm(o)) \in Nat
    BY ConfirmFinite, FS_CardinalityType
  <1>4. CountInv
    BY <1>2, <1>3, ConfirmFinite DEF CountInv
  <1>5. QED
    BY <1>1, <1>4

\* An account becomes verified only by one of its own codes, entered in time by
\* the reader of the address it was mailed to, or of the address of a mail that
\* was being built in the same process when the code's document was stored.
THEOREM VerifiedByReaders == Spec => []VerifiedByItsReader
  <1>1. Init => EnteredInv /\ VerifiedInv
    BY ConfirmInit
  <1>2. RowInv /\ EnteredInv /\ VerifiedInv /\ [Next]_vars => (EnteredInv /\ VerifiedInv)'
    BY EnteredStep, VerifiedStep
  <1>3. RowInv /\ EnteredInv /\ VerifiedInv => VerifiedByItsReader
    <2> SUFFICES ASSUME RowInv, EnteredInv, VerifiedInv, NEW u \in Ids, verified[u]
                 PROVE  \E o \in Otps, e \in Emails :
                            /\ <<o, e>> \in entered /\ owner[o] = u
                            /\ e = to[o] \/ \E m \in Otps : to[m] = e /\ o \in during[m]
      BY DEF VerifiedByItsReader
    <2>1. PICK x \in entered : owner[x[1]] = u
      BY DEF VerifiedInv
    <2>2. x[1] \in Otps /\ x[2] \in Emails /\ x = <<x[1], x[2]>>
      BY DEF RowInv, TypeOK
    <2>3. QED
      BY <2>1, <2>2 DEF EnteredInv, Reads
  <1>4. QED
    BY <1>1, <1>2, <1>3, RowCorrect, PTL DEF Spec

\* With any number of workers, a code is accepted at most once by each of them.
THEOREM OncePerWorker == Spec => []AcceptedOncePerWorker
  <1>1. Init => CountInv
    BY ConfirmInit
  <1>2. RowInv /\ CountInv => AcceptedOncePerWorker
    <2> SUFFICES ASSUME RowInv, CountInv, NEW o \in Otps
                 PROVE  accepted[o] <= Cardinality(Workers)
      BY DEF AcceptedOncePerWorker
    <2>1. accepted[o] \in Nat /\ Cardinality(Confirm(o)) \in Nat /\ Cardinality(Workers) \in Nat
      BY ConfirmFinite, FS_CardinalityType, AccountsAssumption DEF RowInv, TypeOK, Workers
    <2>2. QED
      BY <2>1 DEF CountInv
  <1>3. QED
    BY <1>1, <1>2, CountStep, RowCorrect, PTL DEF Spec

=============================================================================
