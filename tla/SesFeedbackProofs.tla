--------------------------- MODULE SesFeedbackProofs ---------------------------
(***************************************************************************)
(* What SNS is told has been handled stays handled: the invariants of the  *)
(* webhook for any notifications, requests, deliveries and addresses.      *)
(***************************************************************************)
EXTENDS SesFeedback, SequenceTheorems, TLAPS

\* The reasons that are at least as strong as what the message reports.
Evidence(m) == IF m.type = "Bounce" THEN {"bounce", "complaint"} ELSE {"complaint"}

EvidenceBacksRows ==
    \A n \in Notifications : \A row \in events[n] :
        row.action = "suppressed" =>
            row.email \in Emails /\ suppression[row.email]["all"] \in Evidence(message[n])

\* What may be answered with 204.
Finished(n) ==
    /\ notification[n] # "absent"
    /\ message[n].kind = "SubscriptionConfirmation" => n \in confirmed
    /\ message[n].kind = "Notification" => notification[n] = "read"

\* What has been read has condemned its addresses, whatever its rows say.
ReadIsCondemned ==
    \A n \in Notifications : notification[n] = "read" =>
        \A e \in Suppresses(message[n]) : suppression[e]["all"] \in Evidence(message[n])

RequestKnows(r) ==
    /\ ~At(r, "idle") => Handled(r) \in Notifications
    /\ At(r, "insert") /\ message[Handled(r)].kind = "SubscriptionConfirmation" =>
          Handled(r) \in confirmed
    /\ At(r, "find") \/ At(r, "commit") =>
          notification[Handled(r)] # "absent" /\ message[Handled(r)].kind = "Notification"
    /\ At(r, "answer") /\ request[r].status = 204 => Finished(Handled(r))
    /\ At(r, "confirm") => message[Handled(r)].kind = "SubscriptionConfirmation"

AcknowledgedIsFinished == \A n \in Notifications : sns[n] = "delivered" => Finished(n)

IInv ==
    /\ TypeOK
    /\ RecordedOnceAndWhole
    /\ FeedbackIsAttributed
    /\ EvidenceBacksRows
    /\ ReadIsCondemned
    /\ \A r \in Requests : RequestKnows(r)
    /\ AcknowledgedIsFinished

-------------------------------------------------------------------------------
(* What a payload says.                                                    *)

LEMMA EventRowsType ==
    ASSUME NEW m \in Messages
    PROVE  /\ EventRows(m) \in Seq(Emails \cup {NoEmail})
           /\ DOMAIN EventRows(m) \subseteq Nat
           /\ \A i \in DOMAIN EventRows(m) : EventRows(m)[i] \in Emails \cup {NoEmail}
<1> DEFINE E == Emails \cup {NoEmail}
<1>1. m.recipients \in Seq(E) /\ m.destination \in Seq(Emails)
  BY MessagesAssumption
<1>2. m.destination \in Seq(E)
  BY <1>1
<1>3. <<NoEmail>> \in Seq(E)
  OBVIOUS
<1>4. m.destination # <<>> => <<m.destination[1]>> \in Seq(E)
  BY <1>1
<1>5. EventRows(m) \in Seq(E)
  BY <1>1, <1>2, <1>3, <1>4 DEF EventRows
<1> QED
  BY <1>5

LEMMA ReasonType ==
    ASSUME NEW m \in Messages
    PROVE  /\ SuppressReason(m) \in {"none", "bounce", "complaint"}
           /\ SuppressReason(m) # "none" => SuppressReason(m) \in Evidence(m)
           /\ SuppressReason(m) = "complaint" => m.type # "Bounce"
           /\ SuppressReason(m) = "none" => Suppresses(m) = {}
  BY DEF SuppressReason, Suppresses, Evidence

LEMMA RowType ==
    ASSUME NEW m \in Messages, NEW i \in DOMAIN EventRows(m), recorded \subseteq Deliveries
    PROVE  EventRow(m, i) \in EventRowType
<1>1. m.sent \in Deliveries
  BY MessagesAssumption
<1>2. ResolveDelivery(m, EventRows(m)[i]) \in Deliveries \cup {NoDelivery}
  BY <1>1 DEF ResolveDelivery
<1> QED
  BY <1>2, EventRowsType DEF EventRow, EventRowType

LEMMA RowAttributed ==
    ASSUME NEW m \in Messages, NEW e \in Emails \cup {NoEmail}
    PROVE  /\ ResolveDelivery(m, e) \in {m.sent, NoDelivery}
           /\ m.tag = m.sent /\ e = EmailOf[m.sent] => ResolveDelivery(m, e) = m.sent
<1>1. m.sent \in Deliveries /\ EmailOf[m.sent] \in Emails /\ m.tag \in {m.sent, NoDelivery}
  BY MessagesAssumption, EmailOfAssumption, TagsAssumption
<1> QED
  BY <1>1, NullAssumption DEF ResolveDelivery

-------------------------------------------------------------------------------
(* The table suppressions.                                                 *)

LEMMA UpsertKeeps ==
    ASSUME SuppressionsTypeOK, NEW emails \in SUBSET Emails, NEW reason,
           emails # {} => reason \in {"bounce", "complaint"},
           UpsertAutomatedSuppression(emails, "all", reason)
    PROVE  /\ SuppressionsTypeOK'
           /\ \A e \in Emails, s \in Scopes : suppression[e][s] \in Automated =>
                 \/ suppression'[e][s] = suppression[e][s]
                 \/ suppression[e][s] = "bounce" /\ suppression'[e][s] = "complaint"
           /\ \A e \in emails : suppression'[e]["all"] \in {reason, "complaint"}
<1> DEFINE new(e) == [suppression[e] EXCEPT !["all"] = Promoted(suppression[e]["all"], reason)]
           Reasons == {"none", "manual"} \cup Automated
<1>1. "all" \in Scopes
  BY DEF Scopes
<1>2. ASSUME NEW e \in emails
      PROVE  /\ Promoted(suppression[e]["all"], reason) \in {"bounce", "complaint"}
             /\ Promoted(suppression[e]["all"], reason) \in {reason, "complaint"}
             /\ suppression[e]["all"] \in Automated =>
                  \/ Promoted(suppression[e]["all"], reason) = suppression[e]["all"]
                  \/ /\ suppression[e]["all"] = "bounce"
                     /\ Promoted(suppression[e]["all"], reason) = "complaint"
  <2>1. suppression[e]["all"] \in {"none", "manual", "bounce", "complaint"}
    BY <1>1 DEF SuppressionsTypeOK, ReasonsIn
  <2> QED
    BY <2>1 DEF Promoted, Automated
<1>3. ASSUME NEW e \in emails
      PROVE  /\ new(e) \in [Scopes -> Reasons]
             /\ new(e)["all"] = Promoted(suppression[e]["all"], reason)
             /\ \A s \in Scopes \ {"all"} : new(e)[s] = suppression[e][s]
  BY <1>1, <1>2 DEF SuppressionsTypeOK, Automated
<1>4. \A e \in Emails : suppression'[e] = IF e \in emails THEN new(e) ELSE suppression[e]
  BY DEF UpsertAutomatedSuppression
<1>5. suppression' \in [Emails -> [Scopes -> Reasons]]
  BY <1>3 DEF UpsertAutomatedSuppression, SuppressionsTypeOK
<1>6. ASSUME NEW e \in Emails, NEW s \in Scopes
      PROVE  suppression'[e][s] \in ReasonsIn(s)
  <2>1. suppression[e][s] \in ReasonsIn(s)
    BY DEF SuppressionsTypeOK
  <2>2. CASE e \notin emails \/ s # "all"
    BY <1>3, <1>4, <2>1, <2>2
  <2>3. CASE e \in emails /\ s = "all"
    <3>1. suppression'[e][s] \in {"bounce", "complaint"}
      BY <1>2, <1>3, <1>4, <2>3
    <3> QED
      BY <2>3, <3>1 DEF ReasonsIn
  <2> QED
    BY <2>2, <2>3
<1> HIDE DEF new
<1> QED
  BY <1>1, <1>2, <1>3, <1>4, <1>5, <1>6 DEF SuppressionsTypeOK

LEMMA CreateKeeps ==
    ASSUME SuppressionsTypeOK, NEW e \in Emails, NEW s \in Scopes, CreateManualSuppression(e, s)
    PROVE  /\ SuppressionsTypeOK'
           /\ \A f \in Emails, t \in Scopes : suppression[f][t] \in Automated =>
                 suppression'[f][t] = suppression[f][t]
  BY DEF SuppressionsTypeOK, CreateManualSuppression, ReasonsIn, Automated, Scopes

LEMMA DeleteKeeps ==
    ASSUME SuppressionsTypeOK, NEW e \in Emails, NEW s \in Scopes, DeleteManualSuppression(e, s)
    PROVE  /\ SuppressionsTypeOK'
           /\ \A f \in Emails, t \in Scopes : suppression[f][t] \in Automated =>
                 suppression'[f][t] = suppression[f][t]
  BY DEF SuppressionsTypeOK, DeleteManualSuppression, Deletable, ReasonsIn, Automated, Scopes

-------------------------------------------------------------------------------
(* The second commit.                                                      *)

LEMMA RowsWritten ==
    ASSUME TypeOK, NEW r \in Requests, Handled(r) \in Notifications, RecordEvents(r)
    PROVE  LET n == Handled(r) IN
           /\ message[n] \in Messages
           /\ NewRows(n) \subseteq EventRowType
           /\ events' = [events EXCEPT ![n] = events[n] \cup NewRows(n)]
           /\ notification' = [notification EXCEPT ![n] = "read"]
           /\ SuppressionsTypeOK'
           /\ \A e \in Suppresses(message[n]) :
                 e \in Emails /\ suppression'[e]["all"] \in Evidence(message[n])
           /\ \A e \in Emails, s \in Scopes : suppression[e][s] \in Automated =>
                 \/ suppression'[e][s] = suppression[e][s]
                 \/ suppression[e][s] = "bounce" /\ suppression'[e][s] = "complaint"
<1> DEFINE n == Handled(r)
           m == message[n]
<1>1. m \in Messages
  BY DEF TypeOK
<1>2. NewRows(n) \subseteq EventRowType
  BY <1>1, RowType DEF NewRows, TypeOK
<1>3. Suppresses(m) \in SUBSET Emails
  BY DEF Suppresses
<1>4. Suppresses(m) # {} => SuppressReason(m) \in {"bounce", "complaint"} \cap Evidence(m)
  BY <1>1, ReasonType
<1>5. UpsertAutomatedSuppression(Suppresses(m), "all", SuppressReason(m))
  BY DEF RecordEvents
<1>6. "complaint" \in Evidence(m)
  BY DEF Evidence
<1>7. /\ SuppressionsTypeOK'
      /\ \A e \in Emails, s \in Scopes : suppression[e][s] \in Automated =>
            \/ suppression'[e][s] = suppression[e][s]
            \/ suppression[e][s] = "bounce" /\ suppression'[e][s] = "complaint"
      /\ \A e \in Suppresses(m) : suppression'[e]["all"] \in {SuppressReason(m), "complaint"}
  <2>1. SuppressionsTypeOK
    BY DEF TypeOK
  <2>2. Suppresses(m) # {} => SuppressReason(m) \in {"bounce", "complaint"}
    BY <1>4
  <2> HIDE DEF m
  <2> QED
    BY <1>3, <1>5, <2>1, <2>2, UpsertKeeps
<1>8. \A e \in Suppresses(m) : e \in Emails /\ suppression'[e]["all"] \in Evidence(m)
  BY <1>3, <1>4, <1>6, <1>7
<1> QED
  BY <1>1, <1>2, <1>7, <1>8 DEF RecordEvents

-------------------------------------------------------------------------------
(* What a step may do to the tables.                                       *)

EvidenceKept ==
    \A e \in Emails, s \in Scopes : suppression[e][s] \in Automated =>
        \/ suppression'[e][s] = suppression[e][s]
        \/ suppression[e][s] = "bounce" /\ suppression'[e][s] = "complaint"

\* Nothing is forgotten.
Progressed ==
    /\ message' = message
    /\ confirmed \subseteq confirmed'
    /\ \A n \in Notifications :
          /\ notification[n] # "absent" => notification'[n] # "absent"
          /\ notification[n] = "read" => notification'[n] = "read"

\* A step other than RecordEvents reads no payload.
NothingRead ==
    /\ events' = events
    /\ \A n \in Notifications : notification'[n] = "read" => notification[n] = "read"

\* Only the memory of one request changes.
LEMMA GoMemory ==
    ASSUME request \in [Requests -> RequestMemory], NEW r \in Requests,
           NEW pc \in {"confirm", "insert", "find", "commit"}, Go(r, pc)
    PROVE  /\ request' \in [Requests -> RequestMemory]
           /\ request'[r].pc = pc /\ request'[r].notification = request[r].notification
           /\ \A q \in Requests \ {r} : request'[q] = request[q]
<1> DEFINE memory == [request[r] EXCEPT !.pc = pc]
<1>1. memory \in RequestMemory
  BY DEF RequestMemory
<1>2. memory.pc = pc /\ memory.notification = request[r].notification
  BY DEF RequestMemory
<1>3. request' = [request EXCEPT ![r] = memory]
  BY DEF Go
<1> HIDE DEF memory
<1> QED
  BY <1>1, <1>2, <1>3

LEMMA AnswerMemory ==
    ASSUME request \in [Requests -> RequestMemory], NEW r \in Requests,
           NEW status \in {204, 400, 403, 404, 500, 503}, AnswerWith(r, status)
    PROVE  /\ request' \in [Requests -> RequestMemory]
           /\ request'[r].pc = "answer" /\ request'[r].status = status
           /\ request'[r].notification = request[r].notification
           /\ \A q \in Requests \ {r} : request'[q] = request[q]
  BY DEF AnswerWith, Handled, RequestMemory

LEMMA ReceiveMemory ==
    ASSUME request \in [Requests -> RequestMemory], NEW r \in Requests,
           NEW n \in Notifications, Receive(r, n)
    PROVE  /\ request' \in [Requests -> RequestMemory]
           /\ request'[r].pc = "verify" /\ request'[r].notification = n
           /\ \A q \in Requests \ {r} : request'[q] = request[q]
  BY DEF Receive, RequestMemory

LEMMA RecordEventsStep ==
    ASSUME IInv, NEW r \in Requests, RecordEvents(r)
    PROVE  TypeOK' /\ Progressed /\ EvidenceKept
<1>1. Handled(r) \in Notifications /\ TypeOK
  BY DEF IInv, RequestKnows, RecordEvents, At
<1>2. request' \in [Requests -> RequestMemory]
  BY <1>1, AnswerMemory DEF RecordEvents, TypeOK
<1>3. TypeOK'
  BY <1>1, <1>2, RowsWritten DEF RecordEvents, TypeOK
<1>4. EvidenceKept
  BY <1>1, RowsWritten DEF EvidenceKept
<1>5. notification' = [notification EXCEPT ![Handled(r)] = "read"]
  BY DEF RecordEvents
<1>6. \A n \in Notifications : notification'[n] = notification[n] \/ notification'[n] = "read"
  BY <1>1, <1>5 DEF TypeOK
<1>7. Progressed
  BY <1>6 DEF RecordEvents, Progressed
<1> QED
  BY <1>3, <1>4, <1>7

LEMMA OtherSteps ==
    ASSUME IInv, [Next]_feedbackVars, \A r \in Requests : ~RecordEvents(r)
    PROVE  TypeOK' /\ Progressed /\ EvidenceKept /\ NothingRead
<1> USE DEF Progressed, EvidenceKept, NothingRead
<1>1. TypeOK /\ SuppressionsTypeOK /\ \A r \in Requests : RequestKnows(r)
  BY DEF IInv, TypeOK
<1>2. ASSUME NEW r \in Requests, NEW n \in Notifications, Receive(r, n)
      PROVE  TypeOK' /\ Progressed /\ EvidenceKept /\ NothingRead
  <2>1. request' \in [Requests -> RequestMemory]
    BY <1>1, <1>2, ReceiveMemory DEF TypeOK
  <2> QED
    BY <1>1, <1>2, <2>1 DEF Receive, TypeOK, SuppressionsTypeOK
<1>3. ASSUME NEW r \in Requests, Reject(r) \/ Accept(r) \/ Fail(r) \/ RejectPayload(r)
      PROVE  TypeOK' /\ Progressed /\ EvidenceKept /\ NothingRead
  <2>1. request' \in [Requests -> RequestMemory]
    BY <1>1, <1>3, GoMemory, AnswerMemory DEF Reject, Accept, Fail, RejectPayload, TypeOK
  <2> QED
    BY <1>1, <1>3, <2>1 DEF Reject, Accept, Fail, RejectPayload, TypeOK, SuppressionsTypeOK
<1>4. ASSUME NEW r \in Requests, ConfirmSubscription(r)
      PROVE  TypeOK' /\ Progressed /\ EvidenceKept /\ NothingRead
  <2>1. Handled(r) \in Notifications
    BY <1>1, <1>4 DEF ConfirmSubscription, RequestKnows, At
  <2>2. request' \in [Requests -> RequestMemory]
    BY <1>1, <1>4, GoMemory DEF ConfirmSubscription, TypeOK
  <2> QED
    BY <1>1, <1>4, <2>1, <2>2 DEF ConfirmSubscription, TypeOK, SuppressionsTypeOK
<1>5. ASSUME NEW r \in Requests, InsertNotification(r)
      PROVE  TypeOK' /\ Progressed /\ EvidenceKept /\ NothingRead
  <2>1. Handled(r) \in Notifications
    BY <1>1, <1>5 DEF InsertNotification, RequestKnows, At
  <2>2. request' \in [Requests -> RequestMemory]
    BY <1>1, <1>5, GoMemory, AnswerMemory DEF InsertNotification, TypeOK
  <2> QED
    BY <1>1, <1>5, <2>1, <2>2 DEF InsertNotification, TypeOK, SuppressionsTypeOK
<1>6. ASSUME NEW r \in Requests, FindUnprocessedNotification(r)
      PROVE  TypeOK' /\ Progressed /\ EvidenceKept /\ NothingRead
  <2>1. request' \in [Requests -> RequestMemory]
    BY <1>1, <1>6, GoMemory, AnswerMemory DEF FindUnprocessedNotification, TypeOK
  <2> QED
    BY <1>1, <1>6, <2>1 DEF FindUnprocessedNotification, TypeOK, SuppressionsTypeOK
<1>7. ASSUME NEW r \in Requests, Answer(r)
      PROVE  TypeOK' /\ Progressed /\ EvidenceKept /\ NothingRead
  <2>1. Handled(r) \in Notifications
    BY <1>1, <1>7 DEF Answer, RequestKnows, At
  <2> QED
    BY <1>1, <1>7, <2>1 DEF Answer, NoRequest, TypeOK, SuppressionsTypeOK, RequestMemory
<1>8. ASSUME Crash
      PROVE  TypeOK' /\ Progressed /\ EvidenceKept /\ NothingRead
  BY <1>1, <1>8 DEF Crash, NoRequest, TypeOK, SuppressionsTypeOK, RequestMemory
<1>9. ASSUME NEW d \in Deliveries, RecordMessageId(d)
      PROVE  TypeOK' /\ Progressed /\ EvidenceKept /\ NothingRead
  BY <1>1, <1>9 DEF RecordMessageId, TypeOK, SuppressionsTypeOK
<1>10. ASSUME NEW e \in Emails, OperatorSuppresses(e) \/ OperatorLifts(e)
       PROVE  TypeOK' /\ Progressed /\ EvidenceKept /\ NothingRead
  <2>1. "all" \in Scopes
    BY DEF Scopes
  <2>2. SuppressionsTypeOK' /\ EvidenceKept
    BY <1>1, <1>10, <2>1, CreateKeeps, DeleteKeeps DEF OperatorSuppresses, OperatorLifts
  <2> QED
    BY <1>1, <1>10, <2>2 DEF OperatorSuppresses, OperatorLifts, TypeOK
<1>11. ASSUME UNCHANGED feedbackVars
       PROVE  TypeOK' /\ Progressed /\ EvidenceKept /\ NothingRead
  BY <1>1, <1>11 DEF feedbackVars, TypeOK, SuppressionsTypeOK
<1> QED
  BY <1>2, <1>3, <1>4, <1>5, <1>6, <1>7, <1>8, <1>9, <1>10, <1>11 DEF Next, RequestStep

LEMMA StepKeeps ==
    ASSUME IInv, [Next]_feedbackVars
    PROVE  TypeOK' /\ Progressed /\ EvidenceKept
  BY RecordEventsStep, OtherSteps

-------------------------------------------------------------------------------
(* The event rows.                                                         *)

LEMMA RecordEventsRows ==
    ASSUME IInv, NEW r \in Requests, RecordEvents(r)
    PROVE  RecordedOnceAndWhole' /\ FeedbackIsAttributed' /\ EvidenceBacksRows'
<1> DEFINE n == Handled(r)
           D == DOMAIN EventRows(message[n])
<1>1. /\ n \in Notifications
      /\ TypeOK /\ RecordedOnceAndWhole /\ FeedbackIsAttributed /\ EvidenceBacksRows
  BY DEF IInv, RequestKnows, RecordEvents, At
<1>2. /\ message[n] \in Messages /\ message' = message
      /\ events' = [events EXCEPT ![n] = events[n] \cup NewRows(n)]
      /\ notification' = [notification EXCEPT ![n] = "read"]
      /\ \A e \in Suppresses(message[n]) :
            e \in Emails /\ suppression'[e]["all"] \in Evidence(message[n])
      /\ EvidenceKept
  BY <1>1, RowsWritten DEF RecordEvents, EvidenceKept
<1>3. /\ \A k \in Notifications \ {n} :
            events'[k] = events[k] /\ notification'[k] = notification[k]
      /\ events'[n] = events[n] \cup NewRows(n) /\ notification'[n] = "read"
  BY <1>1, <1>2 DEF TypeOK
<1>4. \A row \in NewRows(n) : \E i \in D :
          row = EventRow(message[n], i) /\ \A old \in events[n] : old.index # i
  BY DEF NewRows
<1>5. \A i \in D : EventRow(message[n], i).index = i
  BY DEF EventRow
<1>6. RecordedOnceAndWhole'
  <2>1. ASSUME NEW row \in events'[n], NEW other \in events'[n], row.index = other.index
        PROVE  row = other
    <3>1. CASE row \in events[n] /\ other \in events[n]
      BY <1>1, <2>1, <3>1 DEF RecordedOnceAndWhole
    <3>2. CASE row \in NewRows(n) /\ other \in NewRows(n)
      BY <1>4, <1>5, <2>1, <3>2
    <3>3. CASE row \in NewRows(n) /\ other \in events[n]
      BY <1>4, <1>5, <2>1, <3>3
    <3>4. CASE row \in events[n] /\ other \in NewRows(n)
      BY <1>4, <1>5, <2>1, <3>4
    <3> QED
      BY <1>3, <2>1, <3>1, <3>2, <3>3, <3>4
  <2>2. \A row \in events'[n] : row.index \in D
    <3>1. \A row \in events[n] : row.index \in {old.index : old \in events[n]}
      OBVIOUS
    <3>2. \A row \in events[n] : row.index \in D
      BY <1>1, <3>1 DEF RecordedOnceAndWhole
    <3>3. \A row \in NewRows(n) : row.index \in D
      BY <1>4, <1>5
    <3> QED
      BY <1>3, <3>2, <3>3
  <2>3. ASSUME NEW i \in D
        PROVE  \E row \in events'[n] : row.index = i
    <3>1. CASE \E old \in events[n] : old.index = i
      BY <1>3, <3>1
    <3>2. CASE \A old \in events[n] : old.index # i
      <4>1. EventRow(message[n], i) \in NewRows(n)
        BY <3>2 DEF NewRows
      <4> QED
        BY <1>3, <1>5, <4>1
    <3> QED
      BY <3>1, <3>2
  <2>4. {row.index : row \in events'[n]} = D
    BY <2>2, <2>3
  <2>5. ASSUME NEW k \in Notifications \ {n}
        PROVE  /\ \A row, other \in events'[k] : row.index = other.index => row = other
               /\ events'[k] # {} => notification'[k] = "read"
               /\ notification'[k] = "read" =>
                     {row.index : row \in events'[k]} = DOMAIN EventRows(message'[k])
    BY <1>1, <1>2, <1>3 DEF RecordedOnceAndWhole
  <2> QED
    BY <1>2, <1>3, <2>1, <2>4, <2>5 DEF RecordedOnceAndWhole, EventRows
<1>7. FeedbackIsAttributed'
  <2>1. ASSUME NEW row \in NewRows(n)
        PROVE  /\ row.delivery \in {message[n].sent, NoDelivery}
               /\ message[n].tag = message[n].sent /\ row.email = EmailOf[message[n].sent] =>
                     row.delivery = message[n].sent
    <3>1. PICK i \in D : row = EventRow(message[n], i)
      BY <1>4
    <3>2. row.email = EventRows(message[n])[i] /\ row.email \in Emails \cup {NoEmail}
      BY <1>2, <3>1, EventRowsType DEF EventRow
    <3>3. row.delivery = ResolveDelivery(message[n], row.email)
      BY <3>1 DEF EventRow
    <3> QED
      BY <1>2, <3>2, <3>3, RowAttributed
  <2> QED
    BY <1>1, <1>2, <1>3, <2>1 DEF FeedbackIsAttributed
<1>8. EvidenceBacksRows'
  <2>1. ASSUME NEW row \in NewRows(n), row.action = "suppressed"
        PROVE  row.email \in Emails /\ suppression'[row.email]["all"] \in Evidence(message[n])
    <3>1. row.email \in Suppresses(message[n])
      BY <1>4, <2>1 DEF EventRow
    <3> QED
      BY <1>2, <3>1
  <2>2. ASSUME NEW k \in Notifications, NEW row \in events[k], row.action = "suppressed"
        PROVE  row.email \in Emails /\ suppression'[row.email]["all"] \in Evidence(message[k])
    <3>1. row.email \in Emails /\ suppression[row.email]["all"] \in Evidence(message[k])
      BY <1>1, <2>2 DEF EvidenceBacksRows
    <3> QED
      BY <1>2, <3>1 DEF EvidenceKept, Evidence, Automated, Scopes
  <2> QED
    BY <1>2, <1>3, <2>1, <2>2 DEF EvidenceBacksRows, Evidence
<1> QED
  BY <1>6, <1>7, <1>8

LEMMA OtherRows ==
    ASSUME IInv, TypeOK', Progressed, EvidenceKept, NothingRead
    PROVE  RecordedOnceAndWhole' /\ FeedbackIsAttributed' /\ EvidenceBacksRows'
<1> USE DEF IInv, Progressed, NothingRead
<1>1. RecordedOnceAndWhole'
  <2>1. \A n \in Notifications : notification'[n] = "read" <=> notification[n] = "read"
    OBVIOUS
  <2> QED
    BY <2>1 DEF RecordedOnceAndWhole, EventRows
<1>2. FeedbackIsAttributed'
  BY DEF FeedbackIsAttributed
<1>3. EvidenceBacksRows'
  BY DEF EvidenceBacksRows, Evidence, EvidenceKept, Automated, Scopes
<1> QED
  BY <1>1, <1>2, <1>3

LEMMA RecordEventsCondemns ==
    ASSUME IInv, NEW r \in Requests, RecordEvents(r)
    PROVE  ReadIsCondemned'
<1> DEFINE n == Handled(r)
<1>1. n \in Notifications /\ TypeOK /\ ReadIsCondemned
  BY DEF IInv, RequestKnows, RecordEvents, At
<1>2. message' = message
  BY DEF RecordEvents
<1>3. /\ notification' = [notification EXCEPT ![n] = "read"]
      /\ \A e \in Suppresses(message[n]) : suppression'[e]["all"] \in Evidence(message[n])
  BY <1>1, RowsWritten
<1>4. EvidenceKept
  BY RecordEventsStep
<1>5. \A k \in Notifications \ {n} : notification'[k] = notification[k]
  BY <1>1, <1>3 DEF TypeOK
<1>6. ASSUME NEW k \in Notifications \ {n}, notification[k] = "read",
             NEW e \in Suppresses(message[k])
      PROVE  suppression'[e]["all"] \in Evidence(message[k])
  <2>1. e \in Emails /\ suppression[e]["all"] \in Evidence(message[k])
    BY <1>1, <1>6 DEF ReadIsCondemned, Suppresses
  <2> QED
    BY <1>4, <2>1 DEF EvidenceKept, Evidence, Automated, Scopes
<1>7. \A k \in Notifications :
          Suppresses(message[k])' = Suppresses(message[k])
          /\ Evidence(message[k])' = Evidence(message[k])
  BY <1>2 DEF Suppresses, SuppressReason, EventRows, Evidence
<1> QED
  BY <1>3, <1>5, <1>6, <1>7 DEF ReadIsCondemned

LEMMA OtherCondemned ==
    ASSUME IInv, Progressed, EvidenceKept, NothingRead
    PROVE  ReadIsCondemned'
<1>1. ReadIsCondemned /\ message' = message
  BY DEF IInv, Progressed
<1>2. ASSUME NEW n \in Notifications, notification'[n] = "read",
             NEW e \in Suppresses(message[n])
      PROVE  suppression'[e]["all"] \in Evidence(message[n])
  <2>1. e \in Emails /\ suppression[e]["all"] \in Evidence(message[n])
    BY <1>1, <1>2 DEF ReadIsCondemned, Suppresses, NothingRead
  <2> QED
    BY <2>1 DEF EvidenceKept, Evidence, Automated, Scopes
<1>3. \A k \in Notifications :
          Suppresses(message[k])' = Suppresses(message[k])
          /\ Evidence(message[k])' = Evidence(message[k])
  BY <1>1 DEF Suppresses, SuppressReason, EventRows, Evidence
<1> QED
  BY <1>2, <1>3 DEF ReadIsCondemned

-------------------------------------------------------------------------------
(* What a request knows, and what SNS has been told.                       *)

LEMMA FinishedStays ==
    ASSUME NEW n \in Notifications, Progressed, Finished(n)
    PROVE  Finished(n)'
  BY DEF Finished, Progressed

LEMMA UntouchedRequest ==
    ASSUME IInv, Progressed, NEW q \in Requests, request'[q] = request[q]
    PROVE  RequestKnows(q)'
<1>1. RequestKnows(q)
  BY DEF IInv
<1>2. CASE At(q, "idle")
  BY <1>2 DEF RequestKnows, At
<1>3. CASE ~At(q, "idle")
  <2>1. Handled(q) \in Notifications /\ Handled(q)' = Handled(q)
    BY <1>1, <1>3 DEF RequestKnows, Handled
  <2> QED
    BY <1>1, <2>1, FinishedStays DEF RequestKnows, At, Handled, Progressed
<1> QED
  BY <1>2, <1>3

LEMMA StepRequests ==
    ASSUME IInv, [Next]_feedbackVars, Progressed
    PROVE  \A q \in Requests : RequestKnows(q)'
<1> DEFINE Known == \A q \in Requests : RequestKnows(q)'
<1>1. TypeOK /\ \A r \in Requests : RequestKnows(r)
  BY DEF IInv
<1>2. request \in [Requests -> RequestMemory]
  BY <1>1 DEF TypeOK
<1>3. ASSUME NEW r \in Requests, RequestKnows(r)',
             \A q \in Requests \ {r} : request'[q] = request[q]
      PROVE  Known
  BY <1>3, UntouchedRequest
<1>4. ASSUME NEW r \in Requests, NEW n \in Notifications, Receive(r, n)
      PROVE  Known
  BY <1>2, <1>3, <1>4, ReceiveMemory DEF RequestKnows, At, Handled
<1>5. ASSUME NEW r \in Requests, Reject(r) \/ Fail(r) \/ RejectPayload(r)
      PROVE  Known
  <2>1. Handled(r) \in Notifications
    BY <1>1, <1>5 DEF RequestKnows, Reject, Fail, RejectPayload, At
  <2>2. PICK status \in {400, 403, 404, 500, 503} : AnswerWith(r, status)
    BY <1>5 DEF Reject, Fail, RejectPayload
  <2> QED
    BY <1>2, <1>3, <2>1, <2>2, AnswerMemory DEF RequestKnows, At, Handled
<1>6. ASSUME NEW r \in Requests, Accept(r)
      PROVE  Known
  <2>1. Handled(r) \in Notifications
    BY <1>1, <1>6 DEF RequestKnows, Accept, At
  <2> QED
    BY <1>2, <1>3, <1>6, <2>1, GoMemory DEF Accept, RequestKnows, At, Handled
<1>7. ASSUME NEW r \in Requests, ConfirmSubscription(r)
      PROVE  Known
  <2>1. Handled(r) \in Notifications
    BY <1>1, <1>7 DEF RequestKnows, ConfirmSubscription, At
  <2> QED
    BY <1>2, <1>3, <1>7, <2>1, GoMemory DEF ConfirmSubscription, RequestKnows, At, Handled
<1>8. ASSUME NEW r \in Requests, InsertNotification(r)
      PROVE  Known
  <2>1. Handled(r) \in Notifications
    BY <1>1, <1>8 DEF RequestKnows, InsertNotification, At
  <2>2. notification'[Handled(r)] # "absent" /\ message' = message /\ confirmed' = confirmed
    BY <1>1, <1>8, <2>1 DEF InsertNotification, TypeOK
  <2>3. CASE message[Handled(r)].kind # "Notification" /\ AnswerWith(r, 204)
    <3>1. message[Handled(r)].kind = "SubscriptionConfirmation" => Handled(r) \in confirmed
      BY <1>1, <1>8 DEF InsertNotification, RequestKnows
    <3>2. Finished(Handled(r))'
      BY <1>2, <2>2, <2>3, <3>1, AnswerMemory DEF Finished, Handled
    <3>3. RequestKnows(r)'
      BY <1>2, <2>1, <2>3, <3>2, AnswerMemory DEF RequestKnows, At, Handled
    <3> QED
      BY <1>2, <1>3, <2>3, <3>3, AnswerMemory
  <2>4. CASE message[Handled(r)].kind = "Notification" /\ (Go(r, "commit") \/ Go(r, "find"))
    BY <1>2, <1>3, <2>1, <2>2, <2>4, GoMemory DEF RequestKnows, At, Handled
  <2> QED
    BY <1>8, <2>3, <2>4 DEF InsertNotification
<1>9. ASSUME NEW r \in Requests, FindUnprocessedNotification(r)
      PROVE  Known
  <2>1. /\ Handled(r) \in Notifications /\ notification[Handled(r)] # "absent"
        /\ message[Handled(r)].kind = "Notification"
    BY <1>1, <1>9 DEF RequestKnows, FindUnprocessedNotification, At
  <2>2. notification' = notification /\ message' = message
    BY <1>9 DEF FindUnprocessedNotification
  <2>3. CASE Go(r, "commit")
    BY <1>2, <1>3, <2>1, <2>2, <2>3, GoMemory DEF RequestKnows, At, Handled
  <2>4. CASE ~Unprocessed(Handled(r)) /\ AnswerWith(r, 204)
    <3>1. notification[Handled(r)] = "read"
      BY <1>1, <2>1, <2>4 DEF Unprocessed, IInv, RecordedOnceAndWhole, TypeOK
    <3> QED
      BY <1>2, <1>3, <2>1, <2>2, <2>4, <3>1, AnswerMemory
         DEF RequestKnows, At, Handled, Finished
  <2> QED
    BY <1>9, <2>3, <2>4 DEF FindUnprocessedNotification
<1>10. ASSUME NEW r \in Requests, RecordEvents(r)
       PROVE  Known
  <2>1. Handled(r) \in Notifications /\ message[Handled(r)].kind = "Notification"
    BY <1>1, <1>10 DEF RequestKnows, RecordEvents, At
  <2>2. notification'[Handled(r)] = "read" /\ message' = message
    BY <1>1, <1>10, <2>1 DEF RecordEvents, TypeOK
  <2>3. AnswerWith(r, 204)
    BY <1>10 DEF RecordEvents
  <2> QED
    BY <1>2, <1>3, <2>1, <2>2, <2>3, AnswerMemory DEF RequestKnows, At, Handled, Finished
<1>11. ASSUME NEW r \in Requests, Answer(r)
       PROVE  Known
  <2>1. request' = [request EXCEPT ![r] = NoRequest]
    BY <1>11 DEF Answer
  <2>2. request'[r].pc = "idle" /\ \A q \in Requests \ {r} : request'[q] = request[q]
    BY <1>2, <2>1 DEF NoRequest
  <2> QED
    BY <1>3, <2>2 DEF RequestKnows, At
<1>12. ASSUME Crash
       PROVE  Known
  BY <1>12 DEF Crash, NoRequest, RequestKnows, At
<1>13. ASSUME request' = request
       PROVE  Known
  BY <1>13, UntouchedRequest
<1> QED
  BY <1>4, <1>5, <1>6, <1>7, <1>8, <1>9, <1>10, <1>11, <1>12, <1>13
     DEF Next, RequestStep, RecordMessageId, OperatorSuppresses, OperatorLifts, feedbackVars

LEMMA StepAcknowledged ==
    ASSUME IInv, [Next]_feedbackVars, Progressed
    PROVE  AcknowledgedIsFinished'
<1>1. TypeOK /\ AcknowledgedIsFinished /\ \A r \in Requests : RequestKnows(r)
  BY DEF IInv
<1>2. SUFFICES ASSUME NEW n \in Notifications, sns'[n] = "delivered"
               PROVE  Finished(n)
  BY FinishedStays DEF AcknowledgedIsFinished
<1>3. CASE sns[n] = "delivered"
  BY <1>1, <1>3 DEF AcknowledgedIsFinished
<1>4. CASE sns[n] # "delivered"
  <2>1. PICK r \in Requests : Answer(r)
    BY <1>2, <1>4 DEF Next, RequestStep, feedbackVars, Receive, Reject, Accept, Fail,
         ConfirmSubscription, InsertNotification, FindUnprocessedNotification, RejectPayload,
         RecordEvents, Crash, RecordMessageId, OperatorSuppresses, OperatorLifts
  <2>2. Handled(r) = n /\ request[r].status = 204
    BY <1>1, <1>2, <1>4, <2>1 DEF Answer, TypeOK
  <2> QED
    BY <1>1, <2>1, <2>2 DEF Answer, RequestKnows
<1> QED
  BY <1>3, <1>4

-------------------------------------------------------------------------------
(* The theorems.                                                           *)

LEMMA InitInvariant ==
    ASSUME Init
    PROVE  IInv
<1>1. TypeOK
  BY DEF Init, SuppressionsInit, TypeOK, SuppressionsTypeOK, ReasonsIn, RequestMemory, NoRequest
<1>2. RecordedOnceAndWhole /\ FeedbackIsAttributed /\ EvidenceBacksRows /\ ReadIsCondemned
  BY DEF Init, RecordedOnceAndWhole, FeedbackIsAttributed, EvidenceBacksRows, ReadIsCondemned
<1>3. AcknowledgedIsFinished /\ \A r \in Requests : RequestKnows(r)
  BY DEF Init, AcknowledgedIsFinished, RequestKnows, At, NoRequest
<1> QED
  BY <1>1, <1>2, <1>3 DEF IInv

LEMMA StepInvariant ==
    ASSUME IInv, [Next]_feedbackVars
    PROVE  IInv'
<1>1. TypeOK' /\ Progressed /\ EvidenceKept
  BY StepKeeps
<1>2. CASE \E r \in Requests : RecordEvents(r)
  BY <1>1, <1>2, RecordEventsRows, RecordEventsCondemns, StepRequests, StepAcknowledged DEF IInv
<1>3. CASE \A r \in Requests : ~RecordEvents(r)
  <2>1. NothingRead
    BY <1>3, OtherSteps
  <2> QED
    BY <1>1, <2>1, OtherRows, OtherCondemned, StepRequests, StepAcknowledged DEF IInv
<1> QED
  BY <1>2, <1>3

\* The inductive invariant holds in every behaviour of the webhook.
THEOREM Invariance == Spec => []IInv
<1>1. Init => IInv
  BY InitInvariant
<1>2. IInv /\ [Next]_feedbackVars => IInv'
  BY StepInvariant
<1> QED
  BY <1>1, <1>2, PTL DEF Spec

\* Every variable keeps its type; in particular scope 'all' holds no unsubscribe.
THEOREM TypeCorrect == Spec => []TypeOK
<1>1. IInv => TypeOK
  BY DEF IInv
<1> QED
  BY <1>1, Invariance, PTL

\* Copies, overlaps and crashes record each event once, and a notification whole.
THEOREM EventsRecordedOnce == Spec => []RecordedOnceAndWhole
<1>1. IInv => RecordedOnceAndWhole
  BY DEF IInv
<1> QED
  BY <1>1, Invariance, PTL

\* Feedback on a tagged message is attributed to its delivery, however early it comes.
THEOREM FeedbackAttributed == Spec => []FeedbackIsAttributed
<1>1. IInv => FeedbackIsAttributed
  BY DEF IInv
<1> QED
  BY <1>1, Invariance, PTL

\* What SNS has been told is handled has been recorded and its addresses suppressed.
THEOREM AcknowledgedHandled == Spec => []AcknowledgedIsHandled
<1>1. IInv => AcknowledgedIsHandled
  BY DEF IInv, AcknowledgedIsFinished, Finished, RecordedOnceAndWhole, EvidenceBacksRows,
       Evidence, AcknowledgedIsHandled
<1> QED
  BY <1>1, Invariance, PTL

\* No step of feedback or operators loses automated evidence.
THEOREM EvidenceNeverLost == Spec => EvidenceIsKept
<1>1. IInv /\ [Next]_feedbackVars => [EvidenceKept]_suppression
  BY StepKeeps
<1>2. IInv /\ [Next]_feedbackVars =>
        [\A e \in Emails, s \in Scopes : suppression[e][s] \in Automated =>
          \/ suppression'[e][s] = suppression[e][s]
          \/ suppression[e][s] = "bounce" /\ suppression'[e][s] = "complaint"]_suppression
  BY <1>1 DEF EvidenceKept
<1> QED
  BY <1>2, Invariance, PTL DEF Spec, EvidenceIsKept
-------------------------------------------------------------------------------
(* The refinement: what a step means to FeedbackLedger.                    *)

LEMMA LedgerInit ==
    ASSUME Init
    PROVE  Ledger!Init
<1>1. message \in [Notifications -> Messages]
  BY DEF Init
<1>2. Says \in [Notifications -> [event: BOOLEAN, recipients: SUBSET Emails,
                                 reason: {"none", "bounce", "complaint"}]]
  <2>1. ASSUME NEW n \in Notifications
        PROVE  [event |-> message[n].kind = "Notification", recipients |-> Suppresses(message[n]),
                reason |-> SuppressReason(message[n])]
                  \in [event: BOOLEAN, recipients: SUBSET Emails,
                       reason: {"none", "bounce", "complaint"}]
    <3>1. Suppresses(message[n]) \in SUBSET Emails
      BY DEF Suppresses
    <3>2. SuppressReason(message[n]) \in {"none", "bounce", "complaint"}
      BY <1>1, ReasonType
    <3> QED
      BY <3>1, <3>2
  <2> QED
    BY <2>1 DEF Says
<1>3. Applied = {} /\ Acknowledged = {}
  BY DEF Init, Applied, Acknowledged
<1>4. Condemned = [e \in Emails |-> "none"]
  BY DEF Init, SuppressionsInit, Condemned, Scopes, Automated
<1> QED
  BY <1>2, <1>3, <1>4 DEF Ledger!Init

\* An event whose rows are all there is one that was read.
LEMMA AppliedIsRead ==
    ASSUME IInv, IInv'
    PROVE  /\ Applied = {n \in Notifications : notification[n] = "read"}
           /\ Applied' = {n \in Notifications : notification'[n] = "read"}
  BY DEF IInv, RecordedOnceAndWhole, Applied

LEMMA SaysSame ==
    ASSUME message' = message
    PROVE  Says' = Says
  BY DEF Says, Suppresses, SuppressReason, EventRows

\* What the upsert does to the evidence against an address.
LEMMA CondemnedAfter ==
    ASSUME SuppressionsTypeOK, NEW emails \in SUBSET Emails, NEW reason,
           emails # {} => reason \in {"bounce", "complaint"},
           UpsertAutomatedSuppression(emails, "all", reason)
    PROVE  Condemned' = [e \in Emails |-> IF e \in emails THEN Ledger!Stronger(Condemned[e], reason)
                                          ELSE Condemned[e]]
<1> DEFINE old(e) == suppression[e]["all"]
<1>1. "all" \in Scopes
  BY DEF Scopes
<1>2. ASSUME NEW e \in Emails
      PROVE  /\ suppression[e] \in [Scopes -> {"none", "manual"} \cup Automated]
             /\ old(e) \in {"none", "manual", "bounce", "complaint"}
  BY <1>1 DEF SuppressionsTypeOK, ReasonsIn
<1>3. ASSUME NEW e \in Emails
      PROVE  suppression'[e]["all"] = IF e \in emails THEN Promoted(old(e), reason) ELSE old(e)
  BY <1>1, <1>2 DEF UpsertAutomatedSuppression
<1>4. ASSUME NEW e \in emails
      PROVE  /\ Promoted(old(e), reason) \in Automated
             /\ Promoted(old(e), reason) = Ledger!Stronger(Condemned[e], reason)
  BY <1>2 DEF Promoted, Automated, Ledger!Stronger, Condemned
<1> QED
  BY <1>3, <1>4 DEF Condemned

LEMMA RecordEventsLedger ==
    ASSUME IInv, IInv', NEW r \in Requests, RecordEvents(r)
    PROVE  Ledger!Apply(Handled(r)) \/ UNCHANGED Ledger!ledgerVars
<1> DEFINE n == Handled(r)
           m == message[n]
<1>1. n \in Notifications /\ m.kind = "Notification"
  BY DEF IInv, RequestKnows, RecordEvents, At
<1>2. TypeOK /\ SuppressionsTypeOK /\ ReadIsCondemned /\ m \in Messages
  BY <1>1 DEF IInv, TypeOK
<1>3. UNCHANGED <<Says, Acknowledged>>
  BY SaysSame DEF RecordEvents, Acknowledged
<1>4. Applied' = Applied \cup {n}
  BY <1>1, <1>2, AppliedIsRead DEF RecordEvents, TypeOK
<1>5. Suppresses(m) \in SUBSET Emails
      /\ (Suppresses(m) # {} => SuppressReason(m) \in {"bounce", "complaint"} \cap Evidence(m))
  BY <1>2, ReasonType DEF Suppresses
<1>6. Condemned' = [e \in Emails |->
          IF e \in Suppresses(m) THEN Ledger!Stronger(Condemned[e], SuppressReason(m))
          ELSE Condemned[e]]
  <2>1. UpsertAutomatedSuppression(Suppresses(m), "all", SuppressReason(m))
    BY DEF RecordEvents
  <2> HIDE DEF m
  <2> QED
    BY <1>2, <1>5, <2>1, CondemnedAfter
<1>7. Says[n] = [event |-> TRUE, recipients |-> Suppresses(m), reason |-> SuppressReason(m)]
  BY <1>1 DEF Says
<1>8. CASE n \in Applied
  <2>1. \A e \in Suppresses(m) : suppression[e]["all"] \in Evidence(m)
    BY <1>1, <1>2, <1>8 DEF Applied, ReadIsCondemned
  <2>2. ASSUME NEW e \in Suppresses(m)
        PROVE  Ledger!Stronger(Condemned[e], SuppressReason(m)) = Condemned[e]
    BY <1>2, <1>5, <2>1, ReasonType DEF Evidence, Ledger!Stronger, Condemned, Automated
  <2>3. Condemned' = Condemned
    BY <1>6, <2>2 DEF Condemned
  <2> QED
    BY <1>3, <1>4, <1>8, <2>3 DEF Ledger!ledgerVars
<1>9. CASE n \notin Applied
  BY <1>3, <1>4, <1>6, <1>7, <1>9 DEF Ledger!Apply
<1> QED
  BY <1>8, <1>9

LEMMA CondemnedSame ==
    ASSUME IInv, [Next]_feedbackVars, \A r \in Requests : ~RecordEvents(r)
    PROVE  Condemned' = Condemned
<1>1. SuppressionsTypeOK /\ "all" \in Scopes
  BY DEF IInv, TypeOK, Scopes
<1>2. CASE suppression' = suppression
  BY <1>2 DEF Condemned
<1>3. ASSUME NEW e \in Emails, OperatorSuppresses(e) \/ OperatorLifts(e)
      PROVE  \A f \in Emails : \/ suppression'[f]["all"] = suppression[f]["all"]
                               \/ /\ suppression[f]["all"] \notin Automated
                                  /\ suppression'[f]["all"] \notin Automated
  BY <1>1, <1>3 DEF OperatorSuppresses, OperatorLifts, CreateManualSuppression,
       DeleteManualSuppression, Deletable, SuppressionsTypeOK, Automated
<1>4. ASSUME NEW e \in Emails, OperatorSuppresses(e) \/ OperatorLifts(e)
      PROVE  Condemned' = Condemned
  BY <1>3, <1>4 DEF Condemned
<1>5. suppression' = suppression
      \/ \E e \in Emails : OperatorSuppresses(e) \/ OperatorLifts(e)
  BY DEF Next, RequestStep, feedbackVars, Receive, Reject, Accept, Fail, ConfirmSubscription,
       InsertNotification, FindUnprocessedNotification, RejectPayload, Answer, Crash,
       RecordMessageId
<1> QED
  BY <1>2, <1>4, <1>5

LEMMA LedgerStep ==
    ASSUME IInv, IInv', [Next]_feedbackVars
    PROVE  Ledger!Next \/ UNCHANGED Ledger!ledgerVars
<1>1. TypeOK /\ \A r \in Requests : RequestKnows(r)
  BY DEF IInv
<1>2. ASSUME NEW r \in Requests, RecordEvents(r)
      PROVE  Ledger!Next \/ UNCHANGED Ledger!ledgerVars
  <2>1. Handled(r) \in Notifications
    BY <1>1, <1>2 DEF RequestKnows, RecordEvents, At
  <2> QED
    BY <1>2, <2>1, RecordEventsLedger DEF Ledger!Next
<1>3. CASE \A r \in Requests : ~RecordEvents(r)
  <2>1. Progressed /\ NothingRead
    BY <1>3, OtherSteps
  <2>2. Says' = Says /\ Condemned' = Condemned
    BY <1>3, <2>1, SaysSame, CondemnedSame DEF Progressed
  <2>3. Applied' = Applied
    BY <2>1, AppliedIsRead DEF Progressed, NothingRead
  <2>4. ASSUME NEW r \in Requests, Answer(r)
        PROVE  Ledger!Next \/ UNCHANGED Ledger!ledgerVars
    <3>1. Handled(r) \in Notifications
      BY <1>1, <2>4 DEF RequestKnows, Answer, At
    <3>2. CASE request[r].status = 204
      <4>1. Finished(Handled(r))
        BY <1>1, <2>4, <3>2 DEF RequestKnows, Answer
      <4>2. Says[Handled(r)].event => Handled(r) \in Applied
        BY <3>1, <4>1, AppliedIsRead DEF Finished, Says
      <4>3. Acknowledged' = Acknowledged \cup {Handled(r)}
        BY <1>1, <2>4, <3>1, <3>2 DEF Answer, Acknowledged, TypeOK
      <4>4. Ledger!Acknowledge(Handled(r))
        BY <2>2, <2>3, <4>2, <4>3 DEF Ledger!Acknowledge
      <4> QED
        BY <3>1, <4>4 DEF Ledger!Next
    <3>3. CASE request[r].status # 204
      <4>1. Acknowledged' = Acknowledged
        BY <1>1, <2>4, <3>1, <3>3 DEF Answer, Acknowledged, TypeOK
      <4> QED
        BY <2>2, <2>3, <4>1 DEF Ledger!ledgerVars
    <3> QED
      BY <3>2, <3>3
  <2>5. CASE sns' = sns
    BY <2>2, <2>3, <2>5 DEF Ledger!ledgerVars, Acknowledged
  <2>6. sns' = sns \/ \E r \in Requests : Answer(r)
    BY <1>3 DEF Next, RequestStep, feedbackVars, Receive, Reject, Accept, Fail,
         ConfirmSubscription, InsertNotification, FindUnprocessedNotification, RejectPayload,
         Crash, RecordMessageId, OperatorSuppresses, OperatorLifts
  <2> QED
    BY <2>4, <2>5, <2>6
<1> QED
  BY <1>2, <1>3

\* The webhook implements FeedbackLedger: every step applies one event, acknowledges one
\* notification, or is invisible.
THEOREM LedgerKept == Spec => KeepsLedger
<1>1. Init => Ledger!Init
  BY LedgerInit
<1>2. IInv /\ IInv' /\ [Next]_feedbackVars => [Ledger!Next]_Ledger!ledgerVars
  BY LedgerStep
<1> QED
  BY <1>1, <1>2, Invariance, PTL DEF Spec, KeepsLedger, Ledger!Spec

\* The steps of Consent that stand for feedback and operators: FeedbackSuppresses,
\* OperatorSuppresses, OperatorLifts.
SuppressionsChange ==
    \/ \E emails \in SUBSET Emails, reason \in {"bounce", "complaint"} :
          UpsertAutomatedSuppression(emails, "all", reason)
    \/ \E e \in Emails, s \in Scopes :
          CreateManualSuppression(e, s) \/ DeleteManualSuppression(e, s)

\* What Consent lets happen to the table of suppressions covers all that the webhook does
\* to it, so that what is proved of Consent holds beside it.
THEOREM SuppressionsAsInConsent == Spec => [][SuppressionsChange]_suppression
<1>1. ASSUME IInv, [Next]_feedbackVars
      PROVE  SuppressionsChange \/ UNCHANGED suppression
  <2>1. ASSUME NEW r \in Requests, RecordEvents(r)
        PROVE  SuppressionsChange \/ UNCHANGED suppression
    <3> DEFINE m == message[Handled(r)]
    <3>1. m \in Messages /\ SuppressionsTypeOK
      BY <1>1, <2>1 DEF IInv, RequestKnows, RecordEvents, At, TypeOK
    <3>2. UpsertAutomatedSuppression(Suppresses(m), "all", SuppressReason(m))
      BY <2>1 DEF RecordEvents
    <3>3. Suppresses(m) \in SUBSET Emails
      BY DEF Suppresses
    <3>4. CASE Suppresses(m) = {}
      BY <3>1, <3>2, <3>4 DEF UpsertAutomatedSuppression, SuppressionsTypeOK
    <3>5. CASE Suppresses(m) # {}
      <4>1. SuppressReason(m) \in {"bounce", "complaint"}
        BY <3>1, <3>5, ReasonType
      <4> HIDE DEF m
      <4> QED
        BY <3>2, <3>3, <4>1 DEF SuppressionsChange
    <3> QED
      BY <3>4, <3>5
  <2>2. ASSUME NEW e \in Emails, OperatorSuppresses(e) \/ OperatorLifts(e)
        PROVE  SuppressionsChange
    BY <2>2 DEF OperatorSuppresses, OperatorLifts, SuppressionsChange, Scopes
  <2>3. \/ suppression' = suppression
        \/ \E r \in Requests : RecordEvents(r)
        \/ \E e \in Emails : OperatorSuppresses(e) \/ OperatorLifts(e)
    BY <1>1 DEF Next, RequestStep, feedbackVars, Receive, Reject, Accept, Fail,
         ConfirmSubscription, InsertNotification, FindUnprocessedNotification, RejectPayload,
         Answer, Crash, RecordMessageId
  <2> QED
    BY <2>1, <2>2, <2>3
<1>2. IInv /\ [Next]_feedbackVars => [SuppressionsChange]_suppression
  BY <1>1
<1> QED
  BY <1>2, Invariance, PTL DEF Spec
===============================================================================
