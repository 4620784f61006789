------------------------------ MODULE SesFeedback ------------------------------
(***************************************************************************)
(* The SNS webhook (src/apps/service/src/ses/process-event.ts): what SES   *)
(* reports about messages is stored, correlated with deliveries and turned *)
(* into suppressions.  SNS delivers a notification until it is answered    *)
(* with 204, or gives it up when it is answered with a 4xx status; copies  *)
(* of one notification may be handled at the same time.  A request handler *)
(* makes one statement or one transaction per step.                        *)
(***************************************************************************)
EXTENDS Suppressions

CONSTANTS
    Notifications,  \* SNS messages, by MessageId
    Messages,       \* what their envelopes and payloads may say
    Requests,       \* webhook requests the service handles at a time
    Deliveries,     \* rows of the table deliveries
    EmailOf,        \* deliveries.email
    NoEmail, NoDelivery, NoNotification

ASSUME NullAssumption ==
    NoEmail \notin Emails /\ NoDelivery \notin Deliveries /\ NoNotification \notin Notifications
ASSUME EmailOfAssumption == EmailOf \in [Deliveries -> Emails]
ASSUME MessagesAssumption ==
    Messages \subseteq
      [kind: {"Notification", "SubscriptionConfirmation", "UnsubscribeConfirmation"},
       type: {"Bounce", "Complaint", "Delivery", "Reject", "Open", "Send"},
       hard: BOOLEAN,           \* a permanent bounce, a complaint that is not "not-spam"
       body: {"valid", "mismatched", "garbled"},
       recipients: Seq(Emails \cup {NoEmail}), destination: Seq(Emails),
       tag: Deliveries \cup {NoDelivery}, sent: Deliveries]
\* A message is tagged with the delivery it is sent for, or its tag is missing.
ASSUME TagsAssumption == \A m \in Messages : m.tag \in {m.sent, NoDelivery}

VARIABLES
    message,        \* what each notification says
    sns,            \* what SNS still has to do with it
    notification,   \* its row of ses_notifications: absent, stored or, with event_type, read
    events,         \* its rows of ses_events
    recorded,       \* the deliveries whose ses_message_id the worker has recorded
    confirmed,      \* the subscription confirmations answered to SNS
    request         \* the memory of each request

feedbackVars == <<suppression, message, sns, notification, events, recorded, confirmed, request>>

-------------------------------------------------------------------------------
(* What a payload says.  A click is reported like an open, a delay like a  *)
(* delivery, the rest like a sending.                                      *)

\* eventRowsForEvent: the recipients of the event rows, in order.
EventRows(m) ==
    CASE m.type \in {"Bounce", "Complaint", "Delivery"} -> m.recipients
      [] m.type = "Reject" -> m.destination
      [] m.type = "Open" -> IF m.destination = <<>> THEN <<NoEmail>> ELSE <<m.destination[1]>>
      [] OTHER -> IF m.destination = <<>> THEN <<NoEmail>> ELSE m.destination

\* Slip: a complaint is taken for an unsubscribe.
ComplaintUnsubscribes(m) ==
    IF ~m.hard \/ m.type \notin {"Bounce", "Complaint"} THEN "none"
    ELSE IF m.type = "Bounce" THEN "bounce" ELSE "unsubscribe"

SuppressReason(m) ==
    IF ~m.hard THEN "none"
    ELSE IF m.type = "Bounce" THEN "bounce"
    ELSE IF m.type = "Complaint" THEN "complaint"
    ELSE "none"

\* The addresses the event suppresses.
Suppresses(m) ==
    {e \in Emails : SuppressReason(m) # "none"
                    /\ \E i \in DOMAIN EventRows(m) : EventRows(m)[i] = e}

\* Slip: correlation by the MessageId alone.
ResolveByMessageId(m, e) == IF m.sent \in recorded THEN m.sent ELSE NoDelivery

\* resolveDelivery: by the tag if it names a delivery to this address, else by the
\* MessageId, which the worker may not have recorded yet.
ResolveDelivery(m, e) ==
    IF m.tag \in Deliveries /\ e # NoEmail /\ EmailOf[m.tag] = e THEN m.tag
    ELSE IF m.sent \in recorded THEN m.sent
    ELSE NoDelivery

EventRow(m, i) ==
    [index |-> i, email |-> EventRows(m)[i],
     action |-> IF EventRows(m)[i] \in Suppresses(m) THEN "suppressed" ELSE "recorded",
     delivery |-> ResolveDelivery(m, EventRows(m)[i])]

\* Slip: the rows are inserted without looking at their dedupe_key.
AllRows(n) == {EventRow(message[n], i) : i \in DOMAIN EventRows(message[n])}

\* dedupe_key: notification, type, address and position.
NewRows(n) ==
    {EventRow(message[n], i) :
        i \in {j \in DOMAIN EventRows(message[n]) : \A r \in events[n] : r.index # j}}

-------------------------------------------------------------------------------
RequestMemory == [pc: {"idle", "verify", "confirm", "insert", "find", "commit", "answer"},
                  notification: Notifications \cup {NoNotification},
                  status: {0, 204, 400, 403, 404, 500, 503}]
NoRequest == [pc |-> "idle", notification |-> NoNotification, status |-> 0]

EventRowType == [index: Nat, email: Emails \cup {NoEmail}, action: {"suppressed", "recorded"},
                 delivery: Deliveries \cup {NoDelivery}]

TypeOK ==
    /\ SuppressionsTypeOK
    /\ message \in [Notifications -> Messages]
    /\ sns \in [Notifications -> {"pending", "delivered", "dropped"}]
    /\ notification \in [Notifications -> {"absent", "stored", "read"}]
    /\ events \in [Notifications -> SUBSET EventRowType]
    /\ recorded \in SUBSET Deliveries
    /\ confirmed \in SUBSET Notifications
    /\ request \in [Requests -> RequestMemory]

Init ==
    /\ SuppressionsInit
    /\ message \in [Notifications -> Messages]
    /\ sns = [n \in Notifications |-> "pending"]
    /\ notification = [n \in Notifications |-> "absent"]
    /\ events = [n \in Notifications |-> {}]
    /\ recorded = {}
    /\ confirmed = {}
    /\ request = [r \in Requests |-> NoRequest]

At(r, pc) == request[r].pc = pc
Handled(r) == request[r].notification
Go(r, pc) == request' = [request EXCEPT ![r] = [@ EXCEPT !.pc = pc]]
AnswerWith(r, status) ==
    request' = [request EXCEPT ![r] =
        [pc |-> "answer", notification |-> Handled(r), status |-> status]]

-------------------------------------------------------------------------------
(* handleSesSnsRequest.                                                    *)

Receive(r, n) ==
    /\ At(r, "idle")
    /\ request' = [request EXCEPT ![r] = [pc |-> "verify", notification |-> n, status |-> 0]]
    /\ UNCHANGED <<suppression, message, sns, notification, events, recorded, confirmed>>

\* The webhook is switched off, the topic is not on the list, or the signature cannot
\* be verified, which includes a signing certificate that could not be fetched.
Reject(r) ==
    /\ At(r, "verify")
    /\ \E status \in {403, 404} : AnswerWith(r, status)
    /\ UNCHANGED <<suppression, message, sns, notification, events, recorded, confirmed>>

Accept(r) ==
    /\ At(r, "verify")
    /\ Go(r, IF message[Handled(r)].kind = "SubscriptionConfirmation"
             THEN "confirm" ELSE "insert")
    /\ UNCHANGED <<suppression, message, sns, notification, events, recorded, confirmed>>

\* handleSubscriptionConfirmation visits the SubscribeURL before it stores the message.
ConfirmSubscription(r) ==
    /\ At(r, "confirm")
    /\ confirmed' = confirmed \cup {Handled(r)}
    /\ Go(r, "insert")
    /\ UNCHANGED <<suppression, message, sns, notification, events, recorded>>

\* insertNotificationIfNew, the first commit: INSERT ... ON CONFLICT DO NOTHING.
InsertNotification(r) ==
    LET n == Handled(r)
        isNew == notification[n] = "absent"
    IN
    /\ At(r, "insert")
    /\ notification' = IF isNew THEN [notification EXCEPT ![n] = "stored"] ELSE notification
    /\ \/ message[n].kind # "Notification" /\ AnswerWith(r, 204)
       \/ message[n].kind = "Notification" /\ Go(r, IF isNew THEN "commit" ELSE "find")
    /\ UNCHANGED <<suppression, message, sns, events, recorded, confirmed>>

\* Slip: a notification that is stored has been dealt with.
StoredIsDone(n) == FALSE

Unprocessed(n) == notification[n] = "stored" /\ events[n] = {}

FindUnprocessedNotification(r) ==
    /\ At(r, "find")
    /\ \/ Unprocessed(Handled(r)) /\ Go(r, "commit")
       \/ ~Unprocessed(Handled(r)) /\ AnswerWith(r, 204)
    /\ UNCHANGED <<suppression, message, sns, notification, events, recorded, confirmed>>

\* decodeSesEvent fails: the stored notification stays unprocessed.
RejectPayload(r) ==
    LET m == message[Handled(r)] IN
    /\ At(r, "commit")
    /\ \/ m.body = "garbled" /\ AnswerWith(r, 400)
       \/ m.body = "mismatched" /\ AnswerWith(r, 503)
    /\ UNCHANGED <<suppression, message, sns, notification, events, recorded, confirmed>>

\* The second commit: event_type, the event rows and their suppressions.
RecordEvents(r) ==
    LET n == Handled(r) IN
    /\ At(r, "commit")
    /\ message[n].body = "valid"
    /\ notification' = [notification EXCEPT ![n] = "read"]
    /\ events' = [events EXCEPT ![n] = @ \cup NewRows(n)]
    /\ UpsertAutomatedSuppression(Suppresses(message[n]), "all", SuppressReason(message[n]))
    /\ AnswerWith(r, 204)
    /\ UNCHANGED <<message, sns, recorded, confirmed>>

\* A DatabaseError, or a confirmation SNS does not take.
Fail(r) ==
    /\ request[r].pc \in {"confirm", "insert", "find", "commit"}
    /\ AnswerWith(r, 500)
    /\ UNCHANGED <<suppression, message, sns, notification, events, recorded, confirmed>>

Answer(r) ==
    LET n == Handled(r)
        status == request[r].status
    IN
    /\ At(r, "answer")
    /\ sns' = IF status = 204 THEN [sns EXCEPT ![n] = "delivered"]
              ELSE IF status \in {400, 403, 404} /\ sns[n] = "pending"
              THEN [sns EXCEPT ![n] = "dropped"]
              ELSE sns
    /\ request' = [request EXCEPT ![r] = NoRequest]
    /\ UNCHANGED <<suppression, message, notification, events, recorded, confirmed>>

\* The service dies: no request is answered.
Crash ==
    /\ \E r \in Requests : ~At(r, "idle")
    /\ request' = [r \in Requests |-> NoRequest]
    /\ UNCHANGED <<suppression, message, sns, notification, events, recorded, confirmed>>

-------------------------------------------------------------------------------
(* The rest of the service: the worker learns a MessageId, an operator     *)
(* creates and deletes suppressions.                                       *)

RecordMessageId(d) ==
    /\ d \notin recorded
    /\ recorded' = recorded \cup {d}
    /\ UNCHANGED <<suppression, message, sns, notification, events, confirmed, request>>

OperatorSuppresses(e) ==
    /\ CreateManualSuppression(e, "all")
    /\ UNCHANGED <<message, sns, notification, events, recorded, confirmed, request>>

OperatorLifts(e) ==
    /\ DeleteManualSuppression(e, "all")
    /\ UNCHANGED <<message, sns, notification, events, recorded, confirmed, request>>

RequestStep(r) ==
    \/ Accept(r)
    \/ Reject(r)
    \/ ConfirmSubscription(r)
    \/ InsertNotification(r)
    \/ FindUnprocessedNotification(r)
    \/ RejectPayload(r)
    \/ RecordEvents(r)
    \/ Answer(r)

Next ==
    \/ \E r \in Requests, n \in Notifications : Receive(r, n)
    \/ \E r \in Requests : RequestStep(r) \/ Fail(r)
    \/ Crash
    \/ \E d \in Deliveries : RecordMessageId(d)
    \/ \E e \in Emails : OperatorSuppresses(e) \/ OperatorLifts(e)

Spec == Init /\ [][Next]_feedbackVars

-------------------------------------------------------------------------------
(* Fairness: SNS tries again until it is answered, the service answers,    *)
(* and it neither dies nor fails for ever.                                 *)
FailuresStop == <>[][~Crash /\ \A r \in Requests : ~Fail(r)]_feedbackVars

Retry(n) == sns[n] = "pending" /\ \E r \in Requests : Receive(r, n)

FairSpec ==
    /\ Spec /\ FailuresStop
    /\ \A n \in Notifications : SF_feedbackVars(Retry(n))
    /\ \A r \in Requests : WF_feedbackVars(RequestStep(r))

-------------------------------------------------------------------------------
(* Properties.                                                             *)

IsEvent(n) == message[n].kind = "Notification" /\ message[n].body = "valid"

\* What SNS has been told is handled is handled, whichever of its copies, before or
\* after a crash, did it: a confirmation has been confirmed, an event has all its rows,
\* and each address it condemns is suppressed by evidence at least as strong.
AcknowledgedIsHandled ==
    \A n \in Notifications : sns[n] = "delivered" =>
        /\ notification[n] # "absent"
        /\ message[n].kind = "SubscriptionConfirmation" => n \in confirmed
        /\ message[n].kind = "Notification" =>
              /\ {row.index : row \in events[n]} = DOMAIN EventRows(message[n])
              /\ \A row \in events[n] : row.action = "suppressed" =>
                    suppression[row.email]["all"] \in
                        (IF message[n].type = "Bounce" THEN {"bounce", "complaint"}
                         ELSE {"complaint"})

\* Copies of a notification handled at once, even with different knowledge of the
\* deliveries, record each of its events once; and all of them together with its
\* event_type, so that a stored notification without it is unfinished work.
RecordedOnceAndWhole ==
    \A n \in Notifications :
        /\ \A row, other \in events[n] : row.index = other.index => row = other
        /\ events[n] # {} => notification[n] = "read"
        /\ notification[n] = "read" =>
              {row.index : row \in events[n]} = DOMAIN EventRows(message[n])

\* What FeedbackLedger sees of the tables: an event is applied when it is read and has all its
\* rows; manual suppressions are the operator's business.
Says == [n \in Notifications |-> [event |-> message[n].kind = "Notification",
                                 recipients |-> Suppresses(message[n]),
                                 reason |-> SuppressReason(message[n])]]
Applied ==
    {n \in Notifications : /\ notification[n] = "read"
                           /\ {row.index : row \in events[n]} = DOMAIN EventRows(message[n])}
Condemned ==
    [e \in Emails |-> IF suppression[e]["all"] \in Automated THEN suppression[e]["all"]
                      ELSE "none"]
Acknowledged == {n \in Notifications : sns[n] = "delivered"}

Ledger == INSTANCE FeedbackLedger
    WITH says <- Says, applied <- Applied, condemned <- Condemned, acknowledged <- Acknowledged

\* However many copies of a notification are handled at once, and whatever dies or fails in
\* between, each event is applied as if at one instant: a copy that comes late, or a second
\* commit of the same event, changes nothing that was known, and nothing is acknowledged
\* before.
KeepsLedger == Ledger!Spec

\* Feedback on a tagged message is attributed to its delivery even when it overtakes the
\* worker's record of the MessageId, and no event to the delivery of another message.
FeedbackIsAttributed ==
    \A n \in Notifications : \A row \in events[n] :
        /\ row.delivery \in {message[n].sent, NoDelivery}
        /\ message[n].tag = message[n].sent /\ row.email = EmailOf[message[n].sent] =>
              row.delivery = message[n].sent

\* Every event is recorded in the end, unless SNS was told to give it up.
EveryEventIsRecorded ==
    \A n \in Notifications :
        IsEvent(n) ~> notification[n] = "read" \/ sns[n] = "dropped"

\* PROJECT.md: "Verified malformed Bounce/Complaint notifications keep one unprocessed
\* raw record and return retryable `503`".
MalformedFeedbackIsRetryable ==
    \A r \in Requests :
        At(r, "answer") /\ request[r].status = 400 =>
            message[Handled(r)].type \notin {"Bounce", "Complaint"}
===============================================================================
