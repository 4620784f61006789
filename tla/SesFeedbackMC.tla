----------------------------- MODULE SesFeedbackMC -----------------------------
EXTENDS SesFeedback, TLC

CONSTANTS e1, e2, d1, d2

\* Deliveries to e1, of two mailings; SES may report more addresses than it was sent to.
MCEmailOf == [d \in Deliveries |-> e1]

Message(kind, type, hard, body, recipients, destination, tag, sent) ==
    [kind |-> kind, type |-> type, hard |-> hard, body |-> body, recipients |-> recipients,
     destination |-> destination, tag |-> tag, sent |-> sent]

Event(type, hard, recipients, destination, tag, sent) ==
    Message("Notification", type, hard, "valid", recipients, destination, tag, sent)

\* What SNS may post: also what is no event, or does not decode.
MCEnvelopes == {
    Event("Bounce", TRUE, <<e1>>, <<e1>>, d1, d1),
    Event("Reject", FALSE, <<>>, <<e1>>, d1, d1),
    Event("Send", FALSE, <<>>, <<>>, d1, d1),
    Message("Notification", "Bounce", TRUE, "mismatched", <<>>, <<e1>>, d1, d1),
    Message("Notification", "Complaint", TRUE, "garbled", <<>>, <<e1>>, d1, d1),
    Message("SubscriptionConfirmation", "Send", FALSE, "valid", <<>>, <<>>, NoDelivery, d1),
    Message("UnsubscribeConfirmation", "Send", FALSE, "valid", <<>>, <<>>, NoDelivery, d1)}

MCMessages == MCEnvelopes \cup {
    Event("Bounce", TRUE, <<e1, e2>>, <<e1>>, d1, d1),
    Event("Bounce", TRUE, <<e1>>, <<e1>>, NoDelivery, d2),
    Event("Complaint", TRUE, <<e1>>, <<e1>>, d1, d1),
    Event("Complaint", FALSE, <<e1, e2>>, <<e1>>, d1, d1),
    Event("Delivery", FALSE, <<>>, <<e1>>, d1, d1),
    Event("Open", FALSE, <<>>, <<>>, NoDelivery, d1)}

Symmetry == Permutations(Notifications) \cup Permutations(Requests)
===============================================================================
