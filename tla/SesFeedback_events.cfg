CONSTANTS
    e1 = e1
    e2 = e2
    d1 = d1
    d2 = d2
    Emails = {e1, e2}
    Lists = {}
    Deliveries = {d1, d2}
    EmailOf <- MCEmailOf
    NoEmail = NoEmail
    NoDelivery = NoDelivery
    NoNotification = NoNotification
    Requests = {r1, r2}
    Notifications = {n1}
    Messages <- MCMessages
SPECIFICATION FairSpec

INVARIANTS AcknowledgedIsHandled RecordedOnceAndWhole FeedbackIsAttributed
PROPERTIES EveryEventIsRecorded KeepsLedger
