----------------------------- MODULE EmailSender -----------------------------
(***************************************************************************)
(* The object email_sender of common/sending_email.py, one per process of  *)
(* the web server, shared by every thread that runs a background task.     *)
(*                                                                         *)
(* The HTML document of a mail goes through a dictionary of that object    *)
(* (_attachments_data): a task stores its document there, then attaches    *)
(* what the dictionary holds to its own message.  The tasks of a process   *)
(* run in the threads of a pool and may be switched between the two.  The  *)
(* tasks of this system only ever use the "html" entry.                    *)
(***************************************************************************)
EXTENDS Integers

CONSTANTS
    Mails,        \* the mails, each with a document of its own
    Processes,    \* the web workers
    Addresses,    \* mail addresses
    None          \* Python's None

ASSUME MailAssumption == None \notin Mails \cup Processes \cup Addresses

VARIABLES
    stage,      \* stage[m]: how far the background task of mail m has got
    process,    \* process[m]: the process it runs in
    to,         \* to[m]: the address it goes to
    slot,       \* slot[p]: whose document _attachments_data["html"] holds
    body,       \* body[m]: whose document has been attached to m
    during,     \* history: documents stored between the two steps of m
    inbox       \* inbox[a]: the documents that have arrived at a

mailVars == <<stage, process, to, slot, body, during, inbox>>

\* The stages in which the task of a mail is waiting or running.
Pending == {"queued", "composed", "attached"}
Stages == Pending \cup {"none", "sent", "lost"}

MailTypeOK ==
    /\ stage \in [Mails -> Stages]
    /\ process \in [Mails -> Processes \cup {None}]
    /\ to \in [Mails -> Addresses \cup {None}]
    /\ slot \in [Processes -> Mails \cup {None}]
    /\ body \in [Mails -> Mails \cup {None}]
    /\ during \in [Mails -> SUBSET Mails]
    /\ inbox \in [Addresses -> SUBSET Mails]

MailInit ==
    /\ stage = [m \in Mails |-> "none"]
    /\ process = [m \in Mails |-> None]
    /\ to = [m \in Mails |-> None]
    /\ slot = [p \in Processes |-> None]
    /\ body = [m \in Mails |-> None]
    /\ during = [m \in Mails |-> {}]
    /\ inbox = [a \in Addresses |-> {}]

Enters(m, from, next) == stage[m] = from /\ stage' = [stage EXCEPT ![m] = next]

\* bg_tasks.add_task: the mail of a request that process p has answered.
Queue(m, p, a) ==
    /\ Enters(m, "none", "queued")
    /\ process' = [process EXCEPT ![m] = p]
    /\ to' = [to EXCEPT ![m] = a]
    /\ UNCHANGED <<slot, body, during, inbox>>

ComposesOnce(m) ==
    LET p == process[m] IN
    /\ Enters(m, "queued", "composed")
    /\ slot' = IF slot[p] = None THEN [slot EXCEPT ![p] = m] ELSE slot
    /\ UNCHANGED <<process, to, body, inbox, during>>

\* _compose_message_attachments stores the document of m in the dictionary.
Composes(m) ==
    LET p == process[m]
        waiting == {n \in Mails : stage[n] = "composed" /\ process[n] = p}
    IN  /\ Enters(m, "queued", "composed")
        /\ slot' = [slot EXCEPT ![p] = m]
        /\ during' = [n \in Mails |-> IF n \in waiting THEN during[n] \cup {m}
                                                       ELSE during[n]]
        /\ UNCHANGED <<process, to, body, inbox>>

\* _build_message attaches what the dictionary holds.
Attaches(m) ==
    /\ Enters(m, "composed", "attached")
    /\ body' = [body EXCEPT ![m] = slot[process[m]]]
    /\ UNCHANGED <<process, to, slot, during, inbox>>

\* send_mail addresses the message to the recipient of m, and it arrives.
Arrives(m) ==
    /\ Enters(m, "attached", "sent")
    /\ inbox' = [inbox EXCEPT ![to[m]] = @ \cup {body[m]}]
    /\ UNCHANGED <<process, to, slot, body, during>>

\* The SMTP server refuses or cannot be reached: the task ends in an exception.
SmtpFails(m) ==
    /\ Enters(m, "attached", "lost")
    /\ UNCHANGED <<process, to, slot, body, during, inbox>>

\* Process p is killed and a new one takes its place.
MailsDie(p) ==
    /\ stage' = [m \in Mails |-> IF process[m] = p /\ stage[m] \in Pending
                                 THEN "lost" ELSE stage[m]]
    /\ slot' = [slot EXCEPT ![p] = None]
    /\ UNCHANGED <<process, to, body, during, inbox>>

MailTask(m) == Composes(m) \/ Attaches(m) \/ Arrives(m) \/ SmtpFails(m)

\* A mail carries its own document, unless a task of the same process has
\* stored another one between the two steps of its own task: in particular
\* no mail that failed or was sent earlier ever leaks into a later one.
OwnDocumentUnlessOverlapped ==
    \A m \in Mails : body[m] # None => body[m] \in {m} \cup during[m]

\* "Send an email with the OTP to the user email." (auth/tasks.py:23): what
\* arrives at an address was written for a mail to that address.
DocumentsReachTheirAddressee ==
    \A a \in Addresses : \A m \in inbox[a] : to[m] = a
=============================================================================
