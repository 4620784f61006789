------------------------------- MODULE Consent --------------------------------
(***************************************************************************)
(* Who may be mailed: contacts, lists and their members, suppressions, the *)
(* recipients a mailing is created for, the gate each message passes       *)
(* before it is sent, and the unsubscribe links in the messages            *)
(* (src/apps/service/src: contacts, lists, mailings, suppressions,         *)
(* sending/policy.ts, unsubscribe).  A handler that only reads beside its  *)
(* one write is one action; the handler of an unsubscribe link reads in    *)
(* one statement and writes in a later transaction.                        *)
(***************************************************************************)
EXTENDS Suppressions

CONSTANTS
    Contacts,   \* the rows the table contacts may have; an id is never used again
    Mailings,
    Requests,   \* unsubscribe requests the service handles at a time
    ManualScopes,       \* bound: the scopes an operator uses
    FeedbackReasons,    \* bound: the reasons SES feedback has
    NoContact, NoList, NoMailing, NoEmail

ASSUME NullAssumption ==
    /\ NoContact \notin Contacts /\ NoMailing \notin Mailings
    /\ NoList \notin Lists /\ NoEmail \notin Emails
ASSUME EmailsAssumption == {"new", "deleted"} \cap Emails = {}
ASSUME BoundsAssumption ==
    ManualScopes \subseteq Scopes /\ FeedbackReasons \subseteq {"bounce", "complaint"}

VARIABLES
    list,       \* new, present or deleted
    contact,    \* the e-mail of each contact, or new or deleted
    member,     \* list_memberships: none, subscribed or unsubscribed
    mailing,    \* purpose, list_id and state of each mailing, and the list it was created for
    delivery,   \* the delivery of each mailing to each address: its status, its contact_id, and
                \* what the worker that has taken it is about to do
    mailed,     \* the messages SES has been given, so that their links are known
    request,    \* the memory of each unsubscribe request
    withdrawn   \* the addresses whose unsubscribe has been acknowledged

people == <<list, contact, member>>
sending == <<mailing, delivery, mailed>>
clicks == <<request, withdrawn>>
consentVars == <<suppression, people, sending, clicks>>

-------------------------------------------------------------------------------
Purposes == {"marketing", "transactional"}

MailingRow == [state: {"new", "active", "completed"}, purpose: Purposes,
               list: Lists \cup {NoList}, source: Lists \cup {NoList}]
NoMail == [state |-> "new", purpose |-> "transactional", list |-> NoList, source |-> NoList]

DeliveryRow == [status: {"none", "queued", "sending", "settled"},
                worker: {"none", "gate", "stop", "call"}, contact: Contacts \cup {NoContact}]
NoDelivery == [status |-> "none", worker |-> "none", contact |-> NoContact]

RequestMemory == [pc: {"idle", "load", "write", "answer"},
                  mailing: Mailings \cup {NoMailing}, email: Emails \cup {NoEmail},
                  contact: Contacts \cup {NoContact}, list: Lists \cup {NoList}]
NoRequest == [pc |-> "idle", mailing |-> NoMailing, email |-> NoEmail,
              contact |-> NoContact, list |-> NoList]

Exists(c) == contact[c] \in Emails

\* The unique index on contacts.email, and the foreign keys.
EmailsAreUnique ==
    \A c, d \in Contacts : Exists(c) /\ contact[c] = contact[d] => c = d

ReferencesHold ==
    /\ \A l \in Lists, c \in Contacts :
          member[l][c] # "none" => list[l] = "present" /\ Exists(c)
    /\ \A l \in Lists, e \in Emails : suppression[e][l] # "none" => list[l] = "present"
    /\ \A m \in Mailings : mailing[m].list \in Lists => list[mailing[m].list] = "present"
    /\ \A m \in Mailings, e \in Emails :
          delivery[m][e].contact \in Contacts => Exists(delivery[m][e].contact)

TypeOK ==
    /\ SuppressionsTypeOK
    /\ list \in [Lists -> {"new", "present", "deleted"}]
    /\ contact \in [Contacts -> Emails \cup {"new", "deleted"}]
    /\ member \in [Lists -> [Contacts -> {"none", "subscribed", "unsubscribed"}]]
    /\ mailing \in [Mailings -> MailingRow]
    /\ delivery \in [Mailings -> [Emails -> DeliveryRow]]
    /\ mailed \in SUBSET (Mailings \X Emails)
    /\ request \in [Requests -> RequestMemory]
    /\ withdrawn \in SUBSET Emails
    /\ EmailsAreUnique
    /\ ReferencesHold

Init ==
    /\ SuppressionsInit
    /\ list = [l \in Lists |-> "new"]
    /\ contact = [c \in Contacts |-> "new"]
    /\ member = [l \in Lists |-> [c \in Contacts |-> "none"]]
    /\ mailing = [m \in Mailings |-> NoMail]
    /\ delivery = [m \in Mailings |-> [e \in Emails |-> NoDelivery]]
    /\ mailed = {}
    /\ request = [r \in Requests |-> NoRequest]
    /\ withdrawn = {}

-------------------------------------------------------------------------------
(* Contacts and lists.                                                     *)

Taken(e) == \E c \in Contacts : contact[c] = e

ContactOf(e) == IF Taken(e) THEN CHOOSE c \in Contacts : contact[c] = e ELSE NoContact

CreateContact(c, e) ==
    /\ contact[c] = "new"
    /\ ~Taken(e)
    /\ contact' = [contact EXCEPT ![c] = e]
    /\ UNCHANGED <<suppression, list, member, sending, clicks>>

UpdateContactEmail(c, e) ==
    /\ Exists(c)
    /\ contact[c] # e
    /\ ~Taken(e)
    /\ contact' = [contact EXCEPT ![c] = e]
    /\ UNCHANGED <<suppression, list, member, sending, clicks>>

\* Slip: the memberships stay.
DeleteContactOnly(c) ==
    /\ Exists(c)
    /\ contact' = [contact EXCEPT ![c] = "deleted"]
    /\ UNCHANGED <<suppression, list, member, sending, clicks>>

\* Memberships go with the contact; deliveries forget it.
DeleteContact(c) ==
    /\ Exists(c)
    /\ contact' = [contact EXCEPT ![c] = "deleted"]
    /\ member' = [l \in Lists |-> [member[l] EXCEPT ![c] = "none"]]
    /\ delivery' = [m \in Mailings |-> [e \in Emails |->
          IF delivery[m][e].contact = c THEN [delivery[m][e] EXCEPT !.contact = NoContact]
          ELSE delivery[m][e]]]
    /\ UNCHANGED <<suppression, list, mailing, mailed, clicks>>

CreateList(l) ==
    /\ list[l] = "new"
    /\ list' = [list EXCEPT ![l] = "present"]
    /\ UNCHANGED <<suppression, contact, member, sending, clicks>>

\* Slip: the state of the mailings is not asked.
Unused(l) == TRUE

Unreferenced(l) == \A m \in Mailings : mailing[m].list = l => mailing[m].state = "completed"

\* Memberships and the list's suppressions go with it; mailings forget it.
DeleteList(l) ==
    /\ list[l] = "present"
    /\ Unreferenced(l)
    /\ list' = [list EXCEPT ![l] = "deleted"]
    /\ member' = [member EXCEPT ![l] = [c \in Contacts |-> "none"]]
    /\ suppression' = [e \in Emails |-> [suppression[e] EXCEPT ![l] = "none"]]
    /\ mailing' = [m \in Mailings |-> IF mailing[m].list = l
                                      THEN [mailing[m] EXCEPT !.list = NoList] ELSE mailing[m]]
    /\ UNCHANGED <<contact, delivery, mailed, clicks>>

\* The rows of contacts when each address that had none has been given one.
HaveContacts(rows, emails) ==
    /\ \A c \in Contacts : rows[c] # contact[c] => contact[c] = "new" /\ rows[c] \in emails
    /\ \A c, d \in Contacts : rows[c] \in Emails /\ rows[c] = rows[d] => c = d
    /\ \A e \in emails : \E c \in Contacts : rows[c] = e

\* One transaction.  An address that had left the list becomes a member again.
ImportListContacts(l, emails) ==
    /\ list[l] = "present"
    /\ \E rows \in [Contacts -> Emails \cup {"new", "deleted"}] :
          /\ HaveContacts(rows, emails)
          /\ contact' = rows
          /\ member' = [member EXCEPT ![l] = [c \in Contacts |->
                IF rows[c] \in emails THEN "subscribed" ELSE member[l][c]]]
    /\ UNCHANGED <<suppression, list, sending, clicks>>

\* COALESCE(unsubscribed_at, now) of an existing membership.
Leave(l, c) ==
    member' = [member EXCEPT ![l] = [d \in Contacts |->
        IF d = c /\ member[l][c] # "none" THEN "unsubscribed" ELSE member[l][d]]]

UnsubscribeListContact(l, c) ==
    /\ list[l] = "present"
    /\ member[l][c] = "subscribed"
    /\ Leave(l, c)
    /\ UNCHANGED <<suppression, list, contact, sending, clicks>>

OperatorSuppresses(e, s) ==
    /\ s \in Lists => list[s] = "present"
    /\ CreateManualSuppression(e, s)
    /\ UNCHANGED <<people, sending, clicks>>

OperatorLifts(e, s) ==
    /\ DeleteManualSuppression(e, s)
    /\ UNCHANGED <<people, sending, clicks>>

\* One transaction for all recipients of an event; module SesFeedback has the steps that
\* lead here.
FeedbackSuppresses(emails, reason) ==
    /\ UpsertAutomatedSuppression(emails, "all", reason)
    /\ UNCHANGED <<people, sending, clicks>>

-------------------------------------------------------------------------------
(* Mailings and the messages of their deliveries.  Modules SendAttempts    *)
(* and SendWorker have the steps of a delivery, and SendPromiseProofs that *)
(* each of them is one of these; here are those at which it matters who    *)
(* may be mailed, and what the others leave behind.  Every terminal status *)
(* of a delivery is 'settled'.                                             *)

Audience(l) == {contact[c] : c \in {d \in Contacts : member[l][d] = "subscribed"}}

\* l is NoList for explicit recipients; a mailing to a list goes to its audience.
CreateMailing(m, purpose, l, recipients) ==
    /\ mailing[m].state = "new"
    /\ l \in Lists => /\ list[l] = "present" /\ purpose = "marketing"
                      /\ recipients = Audience(l)
    /\ \E e \in recipients : ~Suppressed(e, purpose, l)
    /\ mailing' = [mailing EXCEPT ![m] =
          [state |-> "active", purpose |-> purpose, list |-> l, source |-> l]]
    /\ delivery' = [delivery EXCEPT ![m] = [e \in Emails |->
          IF e \notin recipients THEN NoDelivery
          ELSE [status |-> IF Suppressed(e, purpose, l) THEN "settled" ELSE "queued",
                worker |-> "none", contact |-> ContactOf(e)]]]
    /\ UNCHANGED <<suppression, people, mailed, clicks>>

WriteDelivery(m, e, status, worker) ==
    delivery' = [delivery EXCEPT ![m] = [delivery[m] EXCEPT ![e] =
        [status |-> status, worker |-> worker, contact |-> delivery[m][e].contact]]]

\* What becomes of a delivery's worker, and of its status while that is still 'sending':
\* a worker that has lost its lease no longer writes it.
Moves(m, e, worker, status) ==
    WriteDelivery(m, e, IF delivery[m][e].status = "sending" THEN status
                        ELSE delivery[m][e].status, worker)

\* A worker has read the delivery and its mailing; the mailing is not completed, so its
\* list_id is still that of its source.
StartDelivery(m, e) ==
    /\ delivery[m][e].status = "queued"
    /\ WriteDelivery(m, e, "sending", "gate")
    /\ UNCHANGED <<suppression, people, mailing, mailed, clicks>>

\* Slip: what was found when the mailing was created still counts.
GatesAtCreationOnly(m, e, suppressed) ==
    /\ delivery[m][e].worker = "gate"
    /\ \E worker \in {"stop", "call"} : Moves(m, e, worker, "sending")
    /\ UNCHANGED <<suppression, people, mailing, mailed, clicks>>

\* The reading of suppressions decides.  A failure of it, a missing configuration or a
\* message that cannot be rendered stops the worker too.
RunPolicyGates(m, e, suppressed) ==
    /\ delivery[m][e].worker = "gate"
    /\ \/ Moves(m, e, "stop", "sending")
       \/ ~suppressed /\ Moves(m, e, "call", "sending")
    /\ UNCHANGED <<suppression, people, mailing, mailed, clicks>>

\* The worker dies or cannot write, and the delivery stays as it is; or else why it does
\* not send, or that SES refused, is recorded, and the delivery is put back or has ended.
StopWithoutSending(m, e) ==
    /\ delivery[m][e].worker # "none"
    /\ \/ Moves(m, e, "none", "sending")
       \/ /\ delivery[m][e].worker \in {"stop", "call"}
          /\ \E status \in {"queued", "settled"} : Moves(m, e, "none", status)
    /\ UNCHANGED <<suppression, people, mailing, mailed, clicks>>

\* SES takes the message.
Send(m, e) ==
    /\ delivery[m][e].worker = "call"
    /\ mailed' = mailed \cup {<<m, e>>}
    /\ Moves(m, e, "none", "sending")
    /\ UNCHANGED <<suppression, people, mailing, clicks>>

\* The answer of SES is recorded; or the lease of the job has expired, or its attempts are
\* used up, whatever the worker is doing.
Settle(m, e) ==
    /\ delivery[m][e].status \in {"queued", "sending"}
    /\ WriteDelivery(m, e, "settled", delivery[m][e].worker)
    /\ UNCHANGED <<suppression, people, mailing, mailed, clicks>>

CompleteMailing(m) ==
    /\ mailing[m].state = "active"
    /\ \A e \in Emails : delivery[m][e].status \in {"none", "settled"}
    /\ mailing' = [mailing EXCEPT ![m] =
          [state |-> "completed", purpose |-> mailing[m].purpose,
           list |-> mailing[m].list, source |-> mailing[m].source]]
    /\ UNCHANGED <<suppression, people, delivery, mailed, clicks>>

-------------------------------------------------------------------------------
(* The unsubscribe link of a message.                                      *)

At(r, pc) == request[r].pc = pc

\* Marketing messages have a link whose token names the delivery; whoever has the message
\* may use it, at any time.
Click(r, m, e) ==
    /\ At(r, "idle")
    /\ <<m, e>> \in mailed /\ mailing[m].purpose = "marketing"
    /\ request' = [request EXCEPT ![r] =
          [pc |-> "load", mailing |-> m, email |-> e, contact |-> NoContact, list |-> NoList]]
    /\ UNCHANGED <<suppression, people, sending, withdrawn>>

LoadDelivery(r) ==
    LET m == request[r].mailing
        e == request[r].email
    IN
    /\ At(r, "load")
    /\ request' = [request EXCEPT ![r] =
          IF mailing[m].purpose # "marketing" THEN NoRequest
          ELSE [pc |-> "write", mailing |-> m, email |-> e,
                contact |-> delivery[m][e].contact, list |-> mailing[m].list]]
    /\ UNCHANGED <<suppression, people, sending, withdrawn>>

\* The contact to take off the list: the one read from the delivery, though it may have
\* another address by now, or else the one that has the address.
Leaver(r) ==
    IF request[r].contact # NoContact THEN request[r].contact ELSE ContactOf(request[r].email)

WriteMarketingUnsubscribe(r) ==
    /\ At(r, "write")
    /\ UpsertAutomatedSuppression({request[r].email}, "marketing", "unsubscribe")
    /\ IF request[r].list \in Lists THEN Leave(request[r].list, Leaver(r)) ELSE UNCHANGED member
    /\ request' = [request EXCEPT ![r] =
          [pc |-> "answer", mailing |-> request[r].mailing, email |-> request[r].email,
           contact |-> request[r].contact, list |-> request[r].list]]
    /\ UNCHANGED <<list, contact, sending, withdrawn>>

Acknowledge(r) ==
    /\ At(r, "answer")
    /\ withdrawn' = withdrawn \cup {request[r].email}
    /\ request' = [request EXCEPT ![r] = NoRequest]
    /\ UNCHANGED <<suppression, people, sending>>

\* A DatabaseError, or the end of the process.
FailRequest(r) ==
    /\ ~At(r, "idle")
    /\ request' = [request EXCEPT ![r] = NoRequest]
    /\ UNCHANGED <<suppression, people, sending, withdrawn>>

-------------------------------------------------------------------------------
PeopleStep ==
    \/ \E c \in Contacts, e \in Emails : CreateContact(c, e) \/ UpdateContactEmail(c, e)
    \/ \E c \in Contacts : DeleteContact(c)
    \/ \E l \in Lists : CreateList(l) \/ DeleteList(l)
    \/ \E l \in Lists, emails \in SUBSET Emails : ImportListContacts(l, emails)
    \/ \E l \in Lists, c \in Contacts : UnsubscribeListContact(l, c)
    \/ \E e \in Emails, s \in ManualScopes : OperatorSuppresses(e, s) \/ OperatorLifts(e, s)
    \/ \E emails \in SUBSET Emails, reason \in FeedbackReasons :
          FeedbackSuppresses(emails, reason)

DeliveryStep(m, e, suppressed) ==
    \/ StartDelivery(m, e)
    \/ RunPolicyGates(m, e, suppressed)
    \/ StopWithoutSending(m, e)
    \/ Send(m, e)
    \/ Settle(m, e)

SendingStep ==
    \/ \E m \in Mailings, purpose \in Purposes, l \in Lists \cup {NoList},
          recipients \in SUBSET Emails : CreateMailing(m, purpose, l, recipients)
    \/ \E m \in Mailings, e \in Emails :
          DeliveryStep(m, e, Suppressed(e, mailing[m].purpose, mailing[m].source))
    \/ \E m \in Mailings : CompleteMailing(m)

RequestStep(r) ==
    \/ \E m \in Mailings, e \in Emails : Click(r, m, e)
    \/ LoadDelivery(r)
    \/ WriteMarketingUnsubscribe(r)
    \/ Acknowledge(r)
    \/ FailRequest(r)

Next == PeopleStep \/ SendingStep \/ \E r \in Requests : RequestStep(r)

Spec == Init /\ [][Next]_consentVars

-------------------------------------------------------------------------------
(* Properties.                                                             *)

\* PROJECT.md: "Contact edits do not rewrite ... email-based suppressions", "Only rows still
\* classified as manual can be deleted": once an unsubscribe has been acknowledged, no
\* edit of contacts or lists, no import and no operator takes it back, whatever row the
\* address had before and whatever happened while the request was handled.
WithdrawalHolds == \A e \in withdrawn : suppression[e]["marketing"] = "unsubscribe"

\* PROJECT.md: "Marketing send-time policy rechecks ... current suppressions before
\* dispatch": after the acknowledgement no marketing message to the address is queued, put
\* past the gates or sent, except by workers that had passed them already.
NoMailAfterWithdrawal ==
    [][\A m \in Mailings, e \in withdrawn : mailing'[m].purpose = "marketing" =>
          /\ delivery'[m][e].status = "queued" =>
                delivery[m][e].status \in {"queued", "sending"}
          /\ delivery'[m][e].worker = "call" => delivery[m][e].worker = "call"
          /\ <<m, e>> \in mailed' => <<m, e>> \in mailed \/ delivery[m][e].worker = "call"
      ]_consentVars

\* PROJECT.md: "Lists referenced by active mailings cannot be deleted": however deletion,
\* creation and sending are interleaved, a mailing has the list it was created for until
\* nothing of it is left to send, and that list exists.
ActiveMailingKeepsList ==
    \A m \in Mailings :
        \/ \E e \in Emails : delivery[m][e].status \in {"queued", "sending"}
        \/ mailing[m].state = "active"
        => /\ mailing[m].state = "active" /\ mailing[m].list = mailing[m].source
           /\ mailing[m].source \in Lists => list[mailing[m].source] = "present"
===============================================================================
