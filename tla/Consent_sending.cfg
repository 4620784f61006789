CONSTANTS
    l1 = l1
    Emails = {e1}
    Lists = {l1}
    Contacts = {c1}
    Mailings = {m1, m2}
    Requests = {r1, r2}
    ManualScopes = {"all", "marketing", l1}
    FeedbackReasons = {"bounce", "complaint"}
    NoContact = NoContact
    NoList = NoList
    NoMailing = NoMailing
    NoEmail = NoEmail
SPECIFICATION Spec
SYMMETRY Symmetry
PROPERTIES NoMailAfterWithdrawal EvidenceIsKept
