CONSTANTS
    l1 = l1
    Emails = {e1, e2}
    Lists = {l1}
    Contacts = {c1, c2}
    Mailings = {m1}
    Requests = {r1}
    ManualScopes = {"marketing"}
    FeedbackReasons = {"bounce"}
    NoContact = NoContact
    NoList = NoList
    NoMailing = NoMailing
    NoEmail = NoEmail
SPECIFICATION Spec
SYMMETRY Symmetry
INVARIANTS TypeOK WithdrawalHolds ActiveMailingKeepsList
