---------------------------- MODULE ConsentProofs -----------------------------
(***************************************************************************)
(* An unsubscribe that has been acknowledged holds, and a mailing keeps    *)
(* its list, for any contacts, lists, mailings and requests.               *)
(***************************************************************************)
EXTENDS Consent, TLAPS

Unsubscribed(e) == suppression[e]["marketing"] = "unsubscribe"

\* A request that is about to acknowledge has written; one that is at work knows for whom.
RequestsKnow ==
    \A r \in Requests :
        /\ ~At(r, "idle") => request[r].mailing \in Mailings /\ request[r].email \in Emails
        /\ At(r, "answer") => Unsubscribed(request[r].email)

IInv ==
    /\ TypeOK
    /\ WithdrawalHolds
    /\ ActiveMailingKeepsList
    /\ RequestsKnow

-------------------------------------------------------------------------------
(* The table suppressions.                                                 *)

LEMMA ScopesAre == "all" \in Scopes /\ "marketing" \in Scopes /\ Lists \subseteq Scopes
                   /\ "all" \notin Lists /\ "marketing" \notin Lists
  BY ListsAssumption DEF Scopes

\* What a write of one row of suppressions keeps.
SuppressionWritten(e, s) ==
    /\ SuppressionsTypeOK'
    /\ \A f \in Emails, t \in Scopes : f # e \/ t # s => suppression'[f][t] = suppression[f][t]
    /\ \A f \in Emails : Unsubscribed(f) => suppression'[f]["marketing"] = "unsubscribe"

LEMMA RowSet ==
    ASSUME SuppressionsTypeOK, NEW e \in Emails, NEW s \in Scopes, NEW reason \in ReasonsIn(s),
           suppression' = [suppression EXCEPT ![e] = [suppression[e] EXCEPT ![s] = reason]],
           s = "marketing" /\ Unsubscribed(e) => reason = "unsubscribe"
    PROVE  SuppressionWritten(e, s) /\ suppression'[e][s] = reason
<1> DEFINE Reasons == {"none", "manual"} \cup Automated
           row == [suppression[e] EXCEPT ![s] = reason]
<1>1. suppression \in [Emails -> [Scopes -> Reasons]]
  BY DEF SuppressionsTypeOK
<1>2. reason \in Reasons
  BY DEF ReasonsIn, Automated
<1>3. /\ row \in [Scopes -> Reasons]
      /\ \A t \in Scopes : row[t] = IF t = s THEN reason ELSE suppression[e][t]
  BY <1>1, <1>2
<1>4. /\ suppression' \in [Emails -> [Scopes -> Reasons]]
      /\ \A f \in Emails : suppression'[f] = IF f = e THEN row ELSE suppression[f]
  BY <1>1, <1>3
<1>5. \A f \in Emails, t \in Scopes :
          suppression'[f][t] = IF f = e /\ t = s THEN reason ELSE suppression[f][t]
  BY <1>3, <1>4
<1>6. \A f \in Emails, t \in Scopes : suppression'[f][t] \in ReasonsIn(t)
  BY <1>5 DEF SuppressionsTypeOK
<1>7. SuppressionsTypeOK'
  BY <1>4, <1>6 DEF SuppressionsTypeOK, ReasonsIn, Automated, Scopes
<1>8. \A f \in Emails : Unsubscribed(f) => suppression'[f]["marketing"] = "unsubscribe"
  BY <1>5, ScopesAre DEF Unsubscribed
<1> QED
  BY <1>5, <1>7, <1>8 DEF SuppressionWritten

LEMMA UpsertWrites ==
    ASSUME SuppressionsTypeOK, NEW e \in Emails, NEW s \in Scopes, NEW reason,
           \/ s = "all" /\ reason \in {"bounce", "complaint"}
           \/ s = "marketing" /\ reason = "unsubscribe",
           UpsertAutomatedSuppression({e}, s, reason)
    PROVE  /\ SuppressionWritten(e, s)
           /\ s = "marketing" => suppression'[e]["marketing"] = "unsubscribe"
<1>1. suppression' = [suppression EXCEPT ![e] =
                        [suppression[e] EXCEPT ![s] = Promoted(suppression[e][s], reason)]]
  BY DEF UpsertAutomatedSuppression, SuppressionsTypeOK
<1>2. suppression[e][s] \in ReasonsIn(s)
  BY DEF SuppressionsTypeOK
<1>3. /\ Promoted(suppression[e][s], reason) \in ReasonsIn(s)
      /\ s = "marketing" => Promoted(suppression[e][s], reason) = "unsubscribe"
  BY <1>2 DEF Promoted, ReasonsIn
<1> DEFINE new == Promoted(suppression[e][s], reason)
<1>4. SuppressionWritten(e, s) /\ suppression'[e][s] = new
  <2>1. new \in ReasonsIn(s) /\ (s = "marketing" /\ Unsubscribed(e) => new = "unsubscribe")
    BY <1>3
  <2>2. suppression' = [suppression EXCEPT ![e] = [suppression[e] EXCEPT ![s] = new]]
    BY <1>1
  <2> HIDE DEF new
  <2> QED
    BY <2>1, <2>2, RowSet
<1> QED
  BY <1>3, <1>4

LEMMA CreateWrites ==
    ASSUME SuppressionsTypeOK, NEW e \in Emails, NEW s \in Scopes, CreateManualSuppression(e, s)
    PROVE  SuppressionWritten(e, s)
<1> DEFINE new == IF suppression[e][s] = "none" THEN "manual" ELSE suppression[e][s]
<1>1. suppression' = [suppression EXCEPT ![e] = [suppression[e] EXCEPT ![s] = new]]
  BY DEF CreateManualSuppression, SuppressionsTypeOK
<1>2. suppression[e][s] \in ReasonsIn(s)
  BY DEF SuppressionsTypeOK
<1>3. new \in ReasonsIn(s) /\ (s = "marketing" /\ Unsubscribed(e) => new = "unsubscribe")
  BY <1>2 DEF ReasonsIn, Unsubscribed
<1> HIDE DEF new
<1> QED
  BY <1>1, <1>3, RowSet

LEMMA DeleteWrites ==
    ASSUME SuppressionsTypeOK, NEW e \in Emails, NEW s \in Scopes, DeleteManualSuppression(e, s)
    PROVE  SuppressionWritten(e, s) /\ suppression'[e][s] = "none"
<1>1. suppression' = [suppression EXCEPT ![e] = [suppression[e] EXCEPT ![s] = "none"]]
  BY DEF DeleteManualSuppression, SuppressionsTypeOK
<1>2. "none" \in ReasonsIn(s) /\ ~(s = "marketing" /\ Unsubscribed(e))
  BY DEF ReasonsIn, Unsubscribed, DeleteManualSuppression, Deletable
<1> QED
  BY <1>1, <1>2, RowSet

-------------------------------------------------------------------------------
(* What is left alone stays as it is.                                      *)

\* No mailing, delivery or request changes, and no unsubscribed address is lost.
Undisturbed ==
    /\ UNCHANGED <<mailed, request, withdrawn>>
    /\ \A e \in Emails : Unsubscribed(e) => suppression'[e]["marketing"] = "unsubscribe"

LEMMA StillUnsubscribed ==
    ASSUME IInv, Undisturbed
    PROVE  WithdrawalHolds' /\ RequestsKnow'
<1>1. withdrawn \in SUBSET Emails
  BY DEF IInv, TypeOK
<1>2. WithdrawalHolds'
  BY <1>1 DEF IInv, WithdrawalHolds, Undisturbed, Unsubscribed
<1>3. ASSUME NEW r \in Requests
      PROVE  /\ ~At(r, "idle")' => request'[r].mailing \in Mailings /\ request'[r].email \in Emails
             /\ At(r, "answer")' => Unsubscribed(request[r].email)'
  <2>1. At(r, "idle")' = At(r, "idle") /\ At(r, "answer")' = At(r, "answer")
    BY DEF At, Undisturbed
  <2>2. request' = request
    BY DEF Undisturbed
  <2>3. At(r, "answer") => ~At(r, "idle")
    BY DEF At
  <2> QED
    BY <2>1, <2>2, <2>3 DEF IInv, RequestsKnow, Undisturbed, Unsubscribed
<1> QED
  BY <1>2, <1>3 DEF RequestsKnow

\* Mailings and their messages are as before, but for the contacts of deliveries.
SameMail ==
    /\ mailing' = mailing
    /\ \A m \in Mailings, e \in Emails : delivery'[m][e].status = delivery[m][e].status

LEMMA StillKeepsList ==
    ASSUME ActiveMailingKeepsList, SameMail, TypeOK,
           \A l \in Lists : list[l] = "present" => list'[l] = "present"
    PROVE  ActiveMailingKeepsList'
<1>1. \A m \in Mailings : mailing[m].source \in Lists \cup {NoList}
  BY DEF TypeOK, MailingRow
<1> QED
  BY <1>1 DEF ActiveMailingKeepsList, SameMail

-------------------------------------------------------------------------------
(* Contacts and lists.                                                     *)

LEMMA ContactsKeep ==
    ASSUME IInv, NEW c \in Contacts, NEW e \in Emails,
           CreateContact(c, e) \/ UpdateContactEmail(c, e)
    PROVE  IInv'
<1>1. /\ contact' = [contact EXCEPT ![c] = e] /\ ~Taken(e)
      /\ UNCHANGED <<suppression, list, member, sending, clicks>>
  BY DEF CreateContact, UpdateContactEmail
<1>2. UNCHANGED <<suppression, list, member, mailing, delivery, mailed, request, withdrawn>>
  BY <1>1 DEF sending, clicks
<1>3. TypeOK
  BY DEF IInv
<1>4. contact' \in [Contacts -> Emails \cup {"new", "deleted"}]
  BY <1>1, <1>3 DEF TypeOK
<1>5. \A d \in Contacts : contact'[d] = IF d = c THEN e ELSE contact[d]
  BY <1>1, <1>3 DEF TypeOK
<1>6. EmailsAreUnique'
  <2>1. \A d \in Contacts : contact[d] # e
    BY <1>1 DEF Taken
  <2> QED
    BY <1>3, <1>5, <2>1 DEF TypeOK, EmailsAreUnique, Exists
<1>7. \A d \in Contacts : Exists(d) => Exists(d)'
  BY <1>5 DEF Exists
<1>8. ReferencesHold'
  BY <1>2, <1>3, <1>7 DEF TypeOK, ReferencesHold
<1>9. SuppressionsTypeOK'
  BY <1>2, <1>3 DEF TypeOK, SuppressionsTypeOK, Scopes
<1>10. TypeOK'
  BY <1>2, <1>3, <1>4, <1>6, <1>8, <1>9 DEF TypeOK
<1>11. Undisturbed /\ SameMail
  BY <1>2 DEF Undisturbed, SameMail, Unsubscribed
<1> QED
  BY <1>2, <1>10, <1>11, <1>3, StillUnsubscribed, StillKeepsList DEF IInv

LEMMA DeleteContactKeeps ==
    ASSUME IInv, NEW c \in Contacts, DeleteContact(c)
    PROVE  IInv'
<1>1. TypeOK
  BY DEF IInv
<1>2. UNCHANGED <<suppression, list, mailing, mailed, request, withdrawn>>
  BY DEF DeleteContact, clicks
<1>3. /\ contact' \in [Contacts -> Emails \cup {"new", "deleted"}]
      /\ \A d \in Contacts : contact'[d] = IF d = c THEN "deleted" ELSE contact[d]
  BY <1>1 DEF DeleteContact, TypeOK
<1>4. /\ member' \in [Lists -> [Contacts -> {"none", "subscribed", "unsubscribed"}]]
      /\ \A l \in Lists, d \in Contacts :
            member'[l][d] = IF d = c THEN "none" ELSE member[l][d]
  BY <1>1 DEF DeleteContact, TypeOK
<1>5. \A m \in Mailings, e \in Emails :
          /\ delivery'[m][e] \in DeliveryRow
          /\ delivery'[m][e].status = delivery[m][e].status
          /\ delivery'[m][e].contact =
                IF delivery[m][e].contact = c THEN NoContact ELSE delivery[m][e].contact
  <2> TAKE m \in Mailings, e \in Emails
  <2>1. delivery'[m][e] = IF delivery[m][e].contact = c
                          THEN [delivery[m][e] EXCEPT !.contact = NoContact]
                          ELSE delivery[m][e]
    BY DEF DeleteContact
  <2>2. delivery[m][e] \in DeliveryRow
    BY <1>1 DEF TypeOK
  <2> QED
    BY <2>1, <2>2 DEF DeliveryRow
<1>6. delivery' \in [Mailings -> [Emails -> DeliveryRow]]
  <2>1. delivery' = [m \in Mailings |-> [e \in Emails |-> delivery'[m][e]]]
    BY DEF DeleteContact
  <2> QED
    BY <1>5, <2>1
<1>7. \A d \in Contacts : Exists(d)' <=> Exists(d) /\ d # c
  BY <1>3, EmailsAssumption DEF Exists
<1>8. EmailsAreUnique'
  <2>1. \A d, f \in Contacts : Exists(d) /\ contact[d] = contact[f] => d = f
    BY <1>1 DEF TypeOK, EmailsAreUnique
  <2>2. ASSUME NEW d \in Contacts, NEW f \in Contacts, Exists(d)', contact'[d] = contact'[f]
        PROVE  d = f
    <3>1. Exists(d) /\ d # c /\ contact'[d] = contact[d]
      BY <1>3, <1>7, <2>2
    <3>2. f # c
      BY <1>3, <2>2, <3>1, EmailsAssumption DEF Exists
    <3> QED
      BY <1>3, <2>1, <2>2, <3>1, <3>2
  <2> QED
    BY <2>2 DEF EmailsAreUnique
<1>9. ReferencesHold'
  <2>1. \A l \in Lists, d \in Contacts :
            member'[l][d] # "none" => list'[l] = "present" /\ Exists(d)'
    BY <1>1, <1>2, <1>4, <1>7 DEF TypeOK, ReferencesHold
  <2>2. \A m \in Mailings, e \in Emails :
            delivery'[m][e].contact \in Contacts => contact'[delivery'[m][e].contact] \in Emails
    <3> TAKE m \in Mailings, e \in Emails
    <3> DEFINE d == delivery[m][e].contact
    <3>1. delivery[m][e] \in DeliveryRow
      BY <1>1 DEF TypeOK
    <3>2. d \in Contacts \cup {NoContact} /\ (d \in Contacts => Exists(d))
      BY <1>1, <3>1 DEF TypeOK, ReferencesHold, DeliveryRow
    <3>3. delivery'[m][e].contact = IF d = c THEN NoContact ELSE d
      BY <1>5
    <3> QED
      BY <1>3, <3>2, <3>3, NullAssumption DEF Exists
  <2>3. /\ \A l \in Lists, e \in Emails : suppression'[e][l] # "none" => list'[l] = "present"
        /\ \A m \in Mailings : mailing'[m].list \in Lists => list'[mailing'[m].list] = "present"
    BY <1>1, <1>2 DEF TypeOK, ReferencesHold
  <2> QED
    BY <2>1, <2>2, <2>3 DEF ReferencesHold, Exists
<1>10. SuppressionsTypeOK'
  BY <1>1, <1>2 DEF TypeOK, SuppressionsTypeOK, Scopes
<1>11. TypeOK'
  BY <1>1, <1>2, <1>3, <1>4, <1>6, <1>8, <1>9, <1>10 DEF TypeOK
<1>12. Undisturbed /\ SameMail
  BY <1>2, <1>5 DEF Undisturbed, SameMail, Unsubscribed
<1> QED
  BY <1>1, <1>2, <1>11, <1>12, StillUnsubscribed, StillKeepsList DEF IInv

LEMMA CreateListKeeps ==
    ASSUME IInv, NEW l \in Lists, CreateList(l)
    PROVE  IInv'
<1>1. TypeOK
  BY DEF IInv
<1>2. UNCHANGED <<suppression, contact, member, mailing, delivery, mailed, request, withdrawn>>
  BY DEF CreateList, sending, clicks
<1>3. /\ list' \in [Lists -> {"new", "present", "deleted"}]
      /\ \A k \in Lists : list[k] = "present" => list'[k] = "present"
  BY <1>1 DEF CreateList, TypeOK
<1>4. SuppressionsTypeOK'
  BY <1>1, <1>2 DEF TypeOK, SuppressionsTypeOK, Scopes
<1>5. EmailsAreUnique'
  BY <1>1, <1>2 DEF TypeOK, EmailsAreUnique, Exists
<1>6. ReferencesHold'
  <2>1. ReferencesHold
    BY <1>1 DEF TypeOK
  <2>2. \A m \in Mailings : mailing'[m].list \in Lists => list'[mailing'[m].list] = "present"
    BY <1>2, <1>3, <2>1 DEF ReferencesHold
  <2> QED
    BY <1>2, <1>3, <2>1, <2>2 DEF ReferencesHold, Exists
<1>7. TypeOK'
  BY <1>1, <1>2, <1>3, <1>4, <1>5, <1>6 DEF TypeOK
<1>8. Undisturbed /\ SameMail
  BY <1>2 DEF Undisturbed, SameMail, Unsubscribed
<1> QED
  BY <1>1, <1>3, <1>7, <1>8, StillUnsubscribed, StillKeepsList DEF IInv

LEMMA DeleteListKeeps ==
    ASSUME IInv, NEW l \in Lists, DeleteList(l)
    PROVE  IInv'
<1>1. TypeOK
  BY DEF IInv
<1>2. UNCHANGED <<contact, delivery, mailed, request, withdrawn>>
  BY DEF DeleteList, clicks
<1>3. /\ list' \in [Lists -> {"new", "present", "deleted"}]
      /\ \A k \in Lists : list'[k] = IF k = l THEN "deleted" ELSE list[k]
  BY <1>1 DEF DeleteList, TypeOK
<1>4. /\ member' \in [Lists -> [Contacts -> {"none", "subscribed", "unsubscribed"}]]
      /\ \A k \in Lists, c \in Contacts :
            member'[k][c] = IF k = l THEN "none" ELSE member[k][c]
  BY <1>1 DEF DeleteList, TypeOK
<1>5. /\ SuppressionsTypeOK'
      /\ \A e \in Emails : suppression'[e]["marketing"] = suppression[e]["marketing"]
      /\ \A k \in Lists, e \in Emails :
            suppression'[e][k] = IF k = l THEN "none" ELSE suppression[e][k]
  <2> DEFINE Reasons == {"none", "manual"} \cup Automated
  <2>1. suppression \in [Emails -> [Scopes -> Reasons]]
    BY <1>1 DEF TypeOK, SuppressionsTypeOK
  <2>2. suppression' = [e \in Emails |-> [suppression[e] EXCEPT ![l] = "none"]]
    BY DEF DeleteList
  <2>3. \A e \in Emails, s \in Scopes :
            suppression'[e][s] = IF s = l THEN "none" ELSE suppression[e][s]
    BY <2>1, <2>2
  <2>4. suppression' \in [Emails -> [Scopes -> Reasons]]
    BY <2>1, <2>2
  <2>5. \A e \in Emails, s \in Scopes : suppression'[e][s] \in ReasonsIn(s)
    BY <1>1, <2>3 DEF TypeOK, SuppressionsTypeOK, ReasonsIn
  <2>6. SuppressionsTypeOK'
    BY <2>4, <2>5 DEF SuppressionsTypeOK, ReasonsIn, Automated, Scopes
  <2> QED
    BY <2>3, <2>6, ScopesAre
<1>6. \A m \in Mailings :
          /\ mailing'[m] \in MailingRow
          /\ mailing'[m].state = mailing[m].state /\ mailing'[m].source = mailing[m].source
          /\ mailing'[m].list = IF mailing[m].list = l THEN NoList ELSE mailing[m].list
  <2> TAKE m \in Mailings
  <2>1. mailing'[m] = IF mailing[m].list = l THEN [mailing[m] EXCEPT !.list = NoList]
                      ELSE mailing[m]
    BY DEF DeleteList
  <2>2. mailing[m] \in MailingRow
    BY <1>1 DEF TypeOK
  <2> QED
    BY <2>1, <2>2 DEF MailingRow
<1>7. mailing' \in [Mailings -> MailingRow]
  <2>1. mailing' = [m \in Mailings |-> mailing'[m]]
    BY DEF DeleteList
  <2> QED
    BY <1>6, <2>1
<1>8. EmailsAreUnique'
  BY <1>1, <1>2 DEF TypeOK, EmailsAreUnique, Exists
<1>9. ReferencesHold'
  <2>1. ReferencesHold
    BY <1>1 DEF TypeOK
  <2>2. \A m \in Mailings : mailing'[m].list \in Lists => list'[mailing'[m].list] = "present"
    <3> TAKE m \in Mailings
    <3> DEFINE k == mailing[m].list
    <3>1. k \in Lists => list[k] = "present"
      BY <2>1 DEF ReferencesHold
    <3>2. mailing'[m].list = IF k = l THEN NoList ELSE k
      BY <1>6
    <3> HIDE DEF k
    <3> QED
      BY <1>3, <3>1, <3>2, NullAssumption
  <2>3. \A k \in Lists, c \in Contacts :
            member'[k][c] # "none" => list'[k] = "present" /\ Exists(c)'
    BY <1>2, <1>3, <1>4, <2>1 DEF ReferencesHold, Exists
  <2>4. \A k \in Lists, e \in Emails : suppression'[e][k] # "none" => list'[k] = "present"
    BY <1>3, <1>5, <2>1 DEF ReferencesHold
  <2> QED
    BY <1>2, <2>1, <2>2, <2>3, <2>4 DEF ReferencesHold, Exists
<1>10. TypeOK'
  BY <1>1, <1>2, <1>3, <1>4, <1>5, <1>7, <1>8, <1>9 DEF TypeOK
<1>11. Undisturbed
  BY <1>2, <1>5 DEF Undisturbed, Unsubscribed
<1>12. ActiveMailingKeepsList'
  <2> SUFFICES ASSUME NEW m \in Mailings,
                      \/ \E e \in Emails : delivery'[m][e].status \in {"queued", "sending"}
                      \/ mailing'[m].state = "active"
               PROVE  /\ mailing'[m].state = "active" /\ mailing'[m].list = mailing'[m].source
                      /\ mailing'[m].source \in Lists => list'[mailing'[m].source] = "present"
    BY DEF ActiveMailingKeepsList
  <2>1. /\ mailing[m].state = "active" /\ mailing[m].list = mailing[m].source
        /\ mailing[m].source \in Lists => list[mailing[m].source] = "present"
    BY <1>2, <1>6 DEF IInv, ActiveMailingKeepsList
  <2>2. mailing[m].list # l
    BY <2>1 DEF DeleteList, Unreferenced
  <2> QED
    BY <1>3, <1>6, <2>1, <2>2
<1> QED
  BY <1>10, <1>11, <1>12, StillUnsubscribed DEF IInv

LEMMA ImportKeeps ==
    ASSUME IInv, NEW l \in Lists, NEW emails \in SUBSET Emails, ImportListContacts(l, emails)
    PROVE  IInv'
<1>1. TypeOK
  BY DEF IInv
<1>2. UNCHANGED <<suppression, list, mailing, delivery, mailed, request, withdrawn>>
  BY DEF ImportListContacts, sending, clicks
<1>3. PICK rows \in [Contacts -> Emails \cup {"new", "deleted"}] :
          /\ HaveContacts(rows, emails)
          /\ contact' = rows
          /\ member' = [member EXCEPT ![l] = [c \in Contacts |->
                IF rows[c] \in emails THEN "subscribed" ELSE member[l][c]]]
  BY DEF ImportListContacts
<1>4. \A c \in Contacts : Exists(c) => contact'[c] = contact[c] /\ Exists(c)'
  BY <1>3, EmailsAssumption DEF HaveContacts, Exists
<1>5. /\ member' \in [Lists -> [Contacts -> {"none", "subscribed", "unsubscribed"}]]
      /\ \A k \in Lists, c \in Contacts :
            \/ member'[k][c] = member[k][c]
            \/ k = l /\ contact'[c] \in emails
  BY <1>1, <1>3 DEF TypeOK
<1>6. EmailsAreUnique'
  BY <1>3 DEF EmailsAreUnique, HaveContacts, Exists
<1>7. ReferencesHold'
  <2>1. ReferencesHold
    BY <1>1 DEF TypeOK
  <2>2. \A k \in Lists, c \in Contacts :
            member'[k][c] # "none" => list'[k] = "present" /\ Exists(c)'
    BY <1>2, <1>4, <1>5, <2>1 DEF ReferencesHold, ImportListContacts, Exists
  <2>3. \A m \in Mailings, e \in Emails :
            delivery'[m][e].contact \in Contacts => contact'[delivery'[m][e].contact] \in Emails
    BY <1>2, <1>4, <2>1 DEF ReferencesHold, Exists
  <2> QED
    BY <1>2, <2>1, <2>2, <2>3 DEF ReferencesHold, Exists
<1>8. SuppressionsTypeOK'
  BY <1>1, <1>2 DEF TypeOK, SuppressionsTypeOK, Scopes
<1>9. TypeOK'
  BY <1>1, <1>2, <1>3, <1>5, <1>6, <1>7, <1>8 DEF TypeOK
<1>10. Undisturbed /\ SameMail
  BY <1>2 DEF Undisturbed, SameMail, Unsubscribed
<1> QED
  BY <1>1, <1>2, <1>9, <1>10, StillUnsubscribed, StillKeepsList DEF IInv

\* A change of memberships and suppressions that keeps the references.
OnlyConsentChanges ==
    /\ UNCHANGED <<list, contact, sending>>
    /\ SuppressionsTypeOK'
    /\ member' \in [Lists -> [Contacts -> {"none", "subscribed", "unsubscribed"}]]
    /\ \A l \in Lists, c \in Contacts : member'[l][c] # "none" => member[l][c] # "none"
    /\ \A l \in Lists, e \in Emails :
          suppression'[e][l] # "none" => suppression[e][l] # "none" \/ list[l] = "present"

LEMMA ConsentChangesKeep ==
    ASSUME IInv, OnlyConsentChanges, request' \in [Requests -> RequestMemory],
           withdrawn' \in SUBSET Emails
    PROVE  TypeOK' /\ ActiveMailingKeepsList'
<1>1. TypeOK
  BY DEF IInv
<1>2. UNCHANGED <<list, contact, mailing, delivery, mailed>>
  BY DEF OnlyConsentChanges, sending
<1>3. EmailsAreUnique'
  BY <1>1, <1>2 DEF TypeOK, EmailsAreUnique, Exists
<1>4. ReferencesHold'
  BY <1>1, <1>2 DEF TypeOK, ReferencesHold, OnlyConsentChanges, Exists
<1>5. TypeOK'
  BY <1>1, <1>2, <1>3, <1>4 DEF TypeOK, OnlyConsentChanges
<1>6. SameMail
  BY <1>2 DEF SameMail
<1> QED
  BY <1>1, <1>2, <1>5, <1>6, StillKeepsList DEF IInv

LEMMA LeavesMembership ==
    ASSUME TypeOK, NEW l \in Lists, NEW c, Leave(l, c)
    PROVE  /\ member' \in [Lists -> [Contacts -> {"none", "subscribed", "unsubscribed"}]]
           /\ \A k \in Lists, d \in Contacts : member'[k][d] # "none" => member[k][d] # "none"
<1> DEFINE row == [d \in Contacts |->
                     IF d = c /\ member[l][c] # "none" THEN "unsubscribed" ELSE member[l][d]]
<1>1. row \in [Contacts -> {"none", "subscribed", "unsubscribed"}]
  BY DEF TypeOK
<1>2. \A d \in Contacts : row[d] # "none" => member[l][d] # "none"
  OBVIOUS
<1>3. member' = [member EXCEPT ![l] = row]
  BY DEF Leave
<1> HIDE DEF row
<1> QED
  BY <1>1, <1>2, <1>3 DEF TypeOK

LEMMA LeaveKeeps ==
    ASSUME IInv, NEW l \in Lists, NEW c \in Contacts, UnsubscribeListContact(l, c)
    PROVE  IInv'
<1>1. TypeOK
  BY DEF IInv
<1>2. UNCHANGED <<suppression, list, contact, sending, request, withdrawn>> /\ mailed' = mailed
  BY DEF UnsubscribeListContact, clicks, sending
<1>3. OnlyConsentChanges
  <2>1. SuppressionsTypeOK'
    BY <1>1, <1>2 DEF TypeOK, SuppressionsTypeOK, Scopes
  <2>2. Leave(l, c)
    BY DEF UnsubscribeListContact
  <2> QED
    BY <1>1, <1>2, <2>1, <2>2, LeavesMembership DEF OnlyConsentChanges
<1>4. TypeOK' /\ ActiveMailingKeepsList'
  BY <1>1, <1>2, <1>3, ConsentChangesKeep DEF TypeOK
<1>5. Undisturbed
  BY <1>2 DEF Undisturbed, Unsubscribed
<1> QED
  BY <1>4, <1>5, StillUnsubscribed DEF IInv

LEMMA SuppressionKeeps ==
    ASSUME IInv, NEW e \in Emails, NEW s \in Scopes, SuppressionWritten(e, s),
           UNCHANGED <<people, sending, clicks>>,
           s \in Lists => list[s] = "present" \/ suppression'[e][s] = "none"
    PROVE  IInv'
<1>1. TypeOK
  BY DEF IInv
<1>2. UNCHANGED <<list, contact, member, sending, request, withdrawn>> /\ mailed' = mailed
  BY DEF people, sending, clicks
<1>3. OnlyConsentChanges
  BY <1>1, <1>2, ScopesAre DEF OnlyConsentChanges, SuppressionWritten, TypeOK
<1>4. TypeOK' /\ ActiveMailingKeepsList'
  BY <1>1, <1>2, <1>3, ConsentChangesKeep DEF TypeOK
<1>5. Undisturbed
  BY <1>2 DEF Undisturbed, SuppressionWritten
<1> QED
  BY <1>4, <1>5, StillUnsubscribed DEF IInv

\* Feedback writes scope 'all' of any number of addresses.
LEMMA FeedbackKeeps ==
    ASSUME IInv, NEW emails \in SUBSET Emails, NEW reason \in {"bounce", "complaint"},
           FeedbackSuppresses(emails, reason)
    PROVE  IInv'
<1> DEFINE Reasons == {"none", "manual"} \cup Automated
           row(e) == [suppression[e] EXCEPT !["all"] = Promoted(suppression[e]["all"], reason)]
<1>1. TypeOK /\ SuppressionsTypeOK
  BY DEF IInv, TypeOK
<1>2. UNCHANGED <<list, contact, member, sending, request, withdrawn>> /\ mailed' = mailed
  BY DEF FeedbackSuppresses, people, sending, clicks
<1>3. suppression' = [e \in Emails |-> IF e \in emails THEN row(e) ELSE suppression[e]]
  BY DEF FeedbackSuppresses, UpsertAutomatedSuppression
<1>4. ASSUME NEW e \in Emails
      PROVE  /\ suppression[e] \in [Scopes -> Reasons]
             /\ \A s \in Scopes : suppression[e][s] \in ReasonsIn(s)
             /\ Promoted(suppression[e]["all"], reason) \in ReasonsIn("all") \cap Reasons
  BY <1>1, ScopesAre DEF SuppressionsTypeOK, Promoted, ReasonsIn, Automated
<1>5. ASSUME NEW e \in Emails
      PROVE  /\ row(e) \in [Scopes -> Reasons]
             /\ row(e)["all"] \in ReasonsIn("all")
             /\ \A s \in Scopes \ {"all"} : row(e)[s] = suppression[e][s]
  BY <1>4, ScopesAre
<1> HIDE DEF row
<1>6. suppression' \in [Emails -> [Scopes -> Reasons]]
  BY <1>3, <1>4, <1>5
<1>7. \A e \in Emails, s \in Scopes \ {"all"} : suppression'[e][s] = suppression[e][s]
  BY <1>3, <1>5
<1>8. \A e \in Emails, s \in Scopes : suppression'[e][s] \in ReasonsIn(s)
  BY <1>3, <1>4, <1>5
<1>9. SuppressionsTypeOK'
  BY <1>6, <1>8 DEF SuppressionsTypeOK, ReasonsIn, Automated, Scopes
<1>10. "all" \notin Lists /\ "marketing" # "all"
  BY ListsAssumption
<1>11. OnlyConsentChanges
  BY <1>1, <1>2, <1>7, <1>9, <1>10, ScopesAre DEF OnlyConsentChanges, TypeOK
<1>12. TypeOK' /\ ActiveMailingKeepsList'
  BY <1>1, <1>2, <1>11, ConsentChangesKeep DEF TypeOK
<1>13. Undisturbed
  BY <1>2, <1>7, <1>10, ScopesAre DEF Undisturbed, Unsubscribed
<1> QED
  BY <1>12, <1>13, StillUnsubscribed DEF IInv

LEMMA PeopleKeep ==
    ASSUME IInv, PeopleStep
    PROVE  IInv'
<1>1. SuppressionsTypeOK
  BY DEF IInv, TypeOK
<1>2. CASE \E c \in Contacts, e \in Emails : CreateContact(c, e) \/ UpdateContactEmail(c, e)
  BY <1>2, ContactsKeep
<1>3. CASE \E c \in Contacts : DeleteContact(c)
  BY <1>3, DeleteContactKeeps
<1>4. CASE \E l \in Lists : CreateList(l) \/ DeleteList(l)
  BY <1>4, CreateListKeeps, DeleteListKeeps
<1>5. CASE \E l \in Lists, emails \in SUBSET Emails : ImportListContacts(l, emails)
  BY <1>5, ImportKeeps
<1>6. CASE \E l \in Lists, c \in Contacts : UnsubscribeListContact(l, c)
  BY <1>6, LeaveKeeps
<1>7. ASSUME NEW e \in Emails, NEW s \in ManualScopes, OperatorSuppresses(e, s)
      PROVE  IInv'
  <2>1. s \in Scopes
    BY BoundsAssumption
  <2>2. /\ CreateManualSuppression(e, s) /\ UNCHANGED <<people, sending, clicks>>
        /\ s \in Lists => list[s] = "present"
    BY <1>7 DEF OperatorSuppresses
  <2>3. SuppressionWritten(e, s)
    BY <1>1, <2>1, <2>2, CreateWrites
  <2> QED
    BY <2>1, <2>2, <2>3, SuppressionKeeps
<1>8. ASSUME NEW e \in Emails, NEW s \in ManualScopes, OperatorLifts(e, s)
      PROVE  IInv'
  <2>1. s \in Scopes
    BY BoundsAssumption
  <2>2. DeleteManualSuppression(e, s) /\ UNCHANGED <<people, sending, clicks>>
    BY <1>8 DEF OperatorLifts
  <2>3. SuppressionWritten(e, s) /\ suppression'[e][s] = "none"
    BY <1>1, <2>1, <2>2, DeleteWrites
  <2> QED
    BY <2>1, <2>2, <2>3, SuppressionKeeps
<1>9. CASE \E emails \in SUBSET Emails, reason \in FeedbackReasons :
              FeedbackSuppresses(emails, reason)
  <2>1. FeedbackReasons \subseteq {"bounce", "complaint"}
    BY BoundsAssumption
  <2> QED
    BY <1>9, <2>1, FeedbackKeeps
<1> QED
  BY <1>2, <1>3, <1>4, <1>5, <1>6, <1>7, <1>8, <1>9 DEF PeopleStep

-------------------------------------------------------------------------------
(* Mailings and their messages.                                            *)

LEMMA ContactIs ==
    ASSUME NEW e \in Emails
    PROVE  /\ ContactOf(e) \in Contacts \cup {NoContact}
           /\ ContactOf(e) \in Contacts => contact[ContactOf(e)] = e
  BY NullAssumption DEF ContactOf, Taken

\* What sending changes, and that the references of its rows hold.
OnlySendingChanges ==
    /\ UNCHANGED <<suppression, people, clicks>>
    /\ mailing' \in [Mailings -> MailingRow]
    /\ delivery' \in [Mailings -> [Emails -> DeliveryRow]]
    /\ mailed' \in SUBSET (Mailings \X Emails)
    /\ \A m \in Mailings : mailing'[m].list \in Lists => list[mailing'[m].list] = "present"
    /\ \A m \in Mailings, e \in Emails :
          delivery'[m][e].contact \in Contacts => Exists(delivery'[m][e].contact)

LEMMA SendingKeepsTypes ==
    ASSUME IInv, OnlySendingChanges
    PROVE  TypeOK' /\ WithdrawalHolds' /\ RequestsKnow'
<1>1. TypeOK
  BY DEF IInv
<1>2. UNCHANGED <<suppression, list, contact, member, request, withdrawn>>
  BY DEF OnlySendingChanges, people, clicks
<1>3. SuppressionsTypeOK' /\ EmailsAreUnique'
  BY <1>1, <1>2 DEF TypeOK, SuppressionsTypeOK, Scopes, EmailsAreUnique, Exists
<1>4. ReferencesHold'
  BY <1>1, <1>2 DEF TypeOK, ReferencesHold, OnlySendingChanges, Exists
<1>5. TypeOK'
  BY <1>1, <1>2, <1>3, <1>4 DEF TypeOK, OnlySendingChanges
<1>6. WithdrawalHolds' /\ RequestsKnow'
  BY <1>2 DEF IInv, WithdrawalHolds, RequestsKnow, Unsubscribed, At
<1> QED
  BY <1>5, <1>6

LEMMA CreateMailingKeeps ==
    ASSUME IInv, NEW m \in Mailings, NEW purpose \in Purposes, NEW l \in Lists \cup {NoList},
           NEW recipients \in SUBSET Emails, CreateMailing(m, purpose, l, recipients)
    PROVE  IInv'
<1> DEFINE row == [state |-> "active", purpose |-> purpose, list |-> l, source |-> l]
           new(e) == IF e \notin recipients THEN NoDelivery
                     ELSE [status |-> IF Suppressed(e, purpose, l) THEN "settled" ELSE "queued",
                           worker |-> "none", contact |-> ContactOf(e)]
<1>1. TypeOK
  BY DEF IInv
<1>2. UNCHANGED <<suppression, people, mailed, clicks>> /\ list' = list
  BY DEF CreateMailing, people
<1>3. /\ mailing' \in [Mailings -> MailingRow]
      /\ \A n \in Mailings : mailing'[n] = IF n = m THEN row ELSE mailing[n]
  <2>1. row \in MailingRow
    BY DEF MailingRow
  <2> QED
    BY <1>1, <2>1 DEF CreateMailing, TypeOK
<1>4. ASSUME NEW e \in Emails
      PROVE  /\ new(e) \in DeliveryRow
             /\ new(e).contact \in Contacts => Exists(new(e).contact)
  BY ContactIs, NullAssumption DEF DeliveryRow, NoDelivery, Exists
<1>5. /\ delivery' \in [Mailings -> [Emails -> DeliveryRow]]
      /\ \A n \in Mailings, e \in Emails :
            delivery'[n][e] = IF n = m THEN new(e) ELSE delivery[n][e]
  <2>1. delivery' = [delivery EXCEPT ![m] = [e \in Emails |-> new(e)]]
    BY DEF CreateMailing
  <2> HIDE DEF new
  <2>2. [e \in Emails |-> new(e)] \in [Emails -> DeliveryRow]
    BY <1>4
  <2> QED
    BY <1>1, <2>1, <2>2 DEF TypeOK
<1>6. l \in Lists => list[l] = "present"
  BY DEF CreateMailing
<1>7. OnlySendingChanges
  <2>1. \A n \in Mailings : mailing'[n].list \in Lists => list[mailing'[n].list] = "present"
    BY <1>1, <1>3, <1>6 DEF TypeOK, ReferencesHold
  <2>2. \A n \in Mailings, e \in Emails :
            delivery'[n][e].contact \in Contacts => Exists(delivery'[n][e].contact)
    <3> HIDE DEF new
    <3> QED
      BY <1>1, <1>4, <1>5 DEF TypeOK, ReferencesHold
  <2>3. mailed' \in SUBSET (Mailings \X Emails)
    BY <1>1, <1>2 DEF TypeOK
  <2> QED
    BY <1>2, <1>3, <1>5, <2>1, <2>2, <2>3 DEF OnlySendingChanges
<1>8. ActiveMailingKeepsList'
  <2> HIDE DEF new
  <2>1. ASSUME NEW n \in Mailings, n # m,
               \/ \E e \in Emails : delivery'[n][e].status \in {"queued", "sending"}
               \/ mailing'[n].state = "active"
        PROVE  /\ mailing'[n].state = "active" /\ mailing'[n].list = mailing'[n].source
               /\ mailing'[n].source \in Lists => list'[mailing'[n].source] = "present"
    <3>1. mailing'[n] = mailing[n] /\ \A e \in Emails : delivery'[n][e] = delivery[n][e]
      BY <1>3, <1>5, <2>1
    <3> QED
      BY <1>2, <2>1, <3>1 DEF IInv, ActiveMailingKeepsList
  <2>2. /\ mailing'[m].state = "active" /\ mailing'[m].list = mailing'[m].source
        /\ mailing'[m].source \in Lists => list'[mailing'[m].source] = "present"
    BY <1>2, <1>3, <1>6
  <2> QED
    BY <2>1, <2>2 DEF ActiveMailingKeepsList
<1> QED
  BY <1>7, <1>8, SendingKeepsTypes DEF IInv

Statuses == {"none", "queued", "sending", "settled"}
Standings == {"none", "gate", "stop", "call"}

\* One delivery is written, and no other.
DeliveryWritten(m, e, status, worker) ==
    /\ delivery' \in [Mailings -> [Emails -> DeliveryRow]]
    /\ \A n \in Mailings, f \in Emails :
          /\ delivery'[n][f].contact = delivery[n][f].contact
          /\ n # m \/ f # e => delivery'[n][f] = delivery[n][f]
    /\ delivery'[m][e].status = status /\ delivery'[m][e].worker = worker

LEMMA WriteOne ==
    ASSUME TypeOK, NEW m \in Mailings, NEW e \in Emails,
           NEW status \in Statuses, NEW worker \in Standings, WriteDelivery(m, e, status, worker)
    PROVE  DeliveryWritten(m, e, status, worker)
<1> DEFINE row == [status |-> status, worker |-> worker, contact |-> delivery[m][e].contact]
<1>1. row \in DeliveryRow
  <2>1. delivery[m][e] \in DeliveryRow
    BY DEF TypeOK
  <2> QED
    BY <2>1 DEF DeliveryRow, Statuses, Standings
<1>2. delivery' = [delivery EXCEPT ![m] = [delivery[m] EXCEPT ![e] = row]]
  BY DEF WriteDelivery
<1>3. row.status = status /\ row.worker = worker /\ row.contact = delivery[m][e].contact
  OBVIOUS
<1> HIDE DEF row
<1>4. /\ delivery' \in [Mailings -> [Emails -> DeliveryRow]]
      /\ \A n \in Mailings, f \in Emails :
            delivery'[n][f] = IF n = m /\ f = e THEN row ELSE delivery[n][f]
  BY <1>1, <1>2 DEF TypeOK
<1> QED
  BY <1>3, <1>4 DEF DeliveryWritten

LEMMA DeliveryKeeps ==
    ASSUME IInv, NEW m \in Mailings, NEW e \in Emails, NEW status, NEW worker,
           DeliveryWritten(m, e, status, worker),
           status \in {"queued", "sending"} => delivery[m][e].status \in {"queued", "sending"},
           UNCHANGED <<suppression, people, mailing, clicks>>,
           mailed' \in SUBSET (Mailings \X Emails)
    PROVE  IInv'
<1>1. TypeOK
  BY DEF IInv
<1>2. list' = list /\ mailing' = mailing
  BY DEF people
<1>3. OnlySendingChanges
  <2>1. \A n \in Mailings, f \in Emails :
            delivery'[n][f].contact \in Contacts => Exists(delivery'[n][f].contact)
    <3> TAKE n \in Mailings, f \in Emails
    <3>1. delivery'[n][f].contact = delivery[n][f].contact
      BY DEF DeliveryWritten
    <3>2. delivery[n][f].contact \in Contacts => Exists(delivery[n][f].contact)
      BY <1>1 DEF TypeOK, ReferencesHold
    <3> QED
      BY <3>1, <3>2
  <2>2. mailing' \in [Mailings -> MailingRow]
    BY <1>1, <1>2 DEF TypeOK
  <2>3. \A n \in Mailings : mailing'[n].list \in Lists => list[mailing'[n].list] = "present"
    BY <1>1, <1>2 DEF TypeOK, ReferencesHold
  <2>4. delivery' \in [Mailings -> [Emails -> DeliveryRow]]
    BY DEF DeliveryWritten
  <2> QED
    BY <2>1, <2>2, <2>3, <2>4 DEF OnlySendingChanges
<1>4. \A n \in Mailings, f \in Emails :
          delivery'[n][f].status \in {"queued", "sending"} =>
              delivery[n][f].status \in {"queued", "sending"}
  BY DEF DeliveryWritten
<1>5. ActiveMailingKeepsList'
  BY <1>2, <1>4 DEF IInv, ActiveMailingKeepsList
<1> QED
  BY <1>3, <1>5, SendingKeepsTypes DEF IInv

\* What a step of a delivery writes, and what it read to write it.
LEMMA StepWrites ==
    ASSUME TypeOK, NEW m \in Mailings, NEW e \in Emails, NEW suppressed,
           DeliveryStep(m, e, suppressed)
    PROVE  \E status \in Statuses, worker \in Standings :
              /\ DeliveryWritten(m, e, status, worker)
              /\ status \in {"queued", "sending"} =>
                    delivery[m][e].status \in {"queued", "sending"}
              /\ worker = "call" => delivery[m][e].worker = "call" \/ ~suppressed
<1>1. delivery[m][e].status \in Statuses /\ delivery[m][e].worker \in Standings
  BY DEF TypeOK, DeliveryRow, Statuses, Standings
<1>2. CASE StartDelivery(m, e)
  <2>1. DeliveryWritten(m, e, "sending", "gate") /\ delivery[m][e].status = "queued"
    BY <1>2, WriteOne DEF StartDelivery, Statuses, Standings
  <2> QED
    BY <2>1 DEF Statuses, Standings
<1>3. CASE Settle(m, e)
  <2>1. DeliveryWritten(m, e, "settled", delivery[m][e].worker)
    BY <1>1, <1>3, WriteOne DEF Settle, Statuses
  <2> QED
    BY <1>1, <2>1 DEF Statuses
<1>4. CASE RunPolicyGates(m, e, suppressed) \/ StopWithoutSending(m, e) \/ Send(m, e)
  <2>1. PICK worker \in {"none", "stop", "call"}, after \in {"queued", "sending", "settled"} :
            Moves(m, e, worker, after) /\ (worker = "call" => ~suppressed)
    BY <1>4 DEF RunPolicyGates, StopWithoutSending, Send
  <2> DEFINE new == IF delivery[m][e].status = "sending" THEN after ELSE delivery[m][e].status
  <2>2. WriteDelivery(m, e, new, worker)
    BY <2>1 DEF Moves
  <2>3. /\ new \in Statuses
        /\ new \in {"queued", "sending"} => delivery[m][e].status \in {"queued", "sending"}
    BY <1>1 DEF Statuses
  <2>4. worker \in Standings
    BY DEF Standings
  <2> HIDE DEF new
  <2>5. DeliveryWritten(m, e, new, worker)
    BY <2>2, <2>3, <2>4, WriteOne
  <2> QED
    BY <2>1, <2>3, <2>4, <2>5
<1> QED
  BY <1>2, <1>3, <1>4 DEF DeliveryStep

LEMMA CompleteMailingKeeps ==
    ASSUME IInv, NEW m \in Mailings, CompleteMailing(m)
    PROVE  IInv'
<1>1. TypeOK
  BY DEF IInv
<1>2. UNCHANGED <<suppression, people, delivery, mailed, clicks>> /\ list' = list
  BY DEF CompleteMailing, people
<1> DEFINE row == [state |-> "completed", purpose |-> mailing[m].purpose,
                   list |-> mailing[m].list, source |-> mailing[m].source]
<1>3. /\ mailing' \in [Mailings -> MailingRow]
      /\ \A n \in Mailings : mailing'[n] = IF n = m THEN row ELSE mailing[n]
  <2>1. mailing[m] \in MailingRow
    BY <1>1 DEF TypeOK
  <2>2. row \in MailingRow
    BY <2>1 DEF MailingRow
  <2> QED
    BY <1>1, <2>2 DEF CompleteMailing, TypeOK
<1>4. OnlySendingChanges
  BY <1>1, <1>2, <1>3 DEF OnlySendingChanges, TypeOK, ReferencesHold
<1>5. \A e \in Emails : delivery[m][e].status \notin {"queued", "sending"}
  BY DEF CompleteMailing
<1>6. ActiveMailingKeepsList'
  BY <1>2, <1>3, <1>5 DEF IInv, ActiveMailingKeepsList
<1> QED
  BY <1>4, <1>6, SendingKeepsTypes DEF IInv

LEMMA SendingKeep ==
    ASSUME IInv, SendingStep
    PROVE  IInv'
<1>1. TypeOK
  BY DEF IInv
<1>2. CASE \E m \in Mailings, purpose \in Purposes, l \in Lists \cup {NoList},
              recipients \in SUBSET Emails : CreateMailing(m, purpose, l, recipients)
  BY <1>2, CreateMailingKeeps
<1>3. CASE \E m \in Mailings : CompleteMailing(m)
  BY <1>3, CompleteMailingKeeps
<1>4. ASSUME NEW m \in Mailings, NEW e \in Emails, NEW suppressed,
             DeliveryStep(m, e, suppressed)
      PROVE  IInv'
  <2>1. UNCHANGED <<suppression, people, mailing, clicks>>
    BY <1>4 DEF DeliveryStep, StartDelivery, RunPolicyGates, StopWithoutSending, Send, Settle
  <2>2. mailed' \in SUBSET (Mailings \X Emails)
    BY <1>1, <1>4
       DEF DeliveryStep, StartDelivery, RunPolicyGates, StopWithoutSending, Send, Settle, TypeOK
  <2>3. PICK status \in Statuses, worker \in Standings :
            /\ DeliveryWritten(m, e, status, worker)
            /\ status \in {"queued", "sending"} => delivery[m][e].status \in {"queued", "sending"}
    BY <1>1, <1>4, StepWrites
  <2> QED
    BY <2>1, <2>2, <2>3, DeliveryKeeps
<1> QED
  BY <1>2, <1>3, <1>4 DEF SendingStep

-------------------------------------------------------------------------------
(* Unsubscribe requests.                                                   *)

LEMMA RequestsKeep ==
    ASSUME IInv, NEW r \in Requests, RequestStep(r)
    PROVE  IInv'
<1>1. TypeOK /\ RequestsKnow /\ SuppressionsTypeOK
  BY DEF IInv, TypeOK
<1>2. /\ UNCHANGED <<list, contact, sending>> /\ mailed' = mailed
      /\ \E memory : request' = [request EXCEPT ![r] = memory]
  BY DEF RequestStep, Click, LoadDelivery, WriteMarketingUnsubscribe, Acknowledge, FailRequest,
         people, sending
<1>3. request[r] \in RequestMemory
  BY <1>1 DEF TypeOK
<1>4. request'[r] \in RequestMemory
  <2>1. CASE \E m \in Mailings, e \in Emails : Click(r, m, e)
    BY <1>1, <2>1 DEF Click, RequestMemory, TypeOK
  <2>2. CASE LoadDelivery(r)
    <3>1. request[r].mailing \in Mailings /\ request[r].email \in Emails
      BY <1>1, <2>2 DEF LoadDelivery, RequestsKnow, At
    <3>2. /\ mailing[request[r].mailing].list \in Lists \cup {NoList}
          /\ delivery[request[r].mailing][request[r].email].contact \in Contacts \cup {NoContact}
      BY <1>1, <3>1 DEF TypeOK, MailingRow, DeliveryRow
    <3> QED
      BY <1>1, <2>2, <3>1, <3>2 DEF LoadDelivery, RequestMemory, NoRequest, TypeOK
  <2>3. CASE WriteMarketingUnsubscribe(r)
    BY <1>1, <1>3, <2>3 DEF WriteMarketingUnsubscribe, RequestMemory, TypeOK
  <2>4. CASE Acknowledge(r) \/ FailRequest(r)
    BY <1>1, <2>4 DEF Acknowledge, FailRequest, RequestMemory, NoRequest, TypeOK
  <2> QED
    BY <2>1, <2>2, <2>3, <2>4 DEF RequestStep
<1>5. /\ request' \in [Requests -> RequestMemory]
      /\ \A q \in Requests \ {r} : request'[q] = request[q]
  BY <1>1, <1>2, <1>4 DEF TypeOK
<1>6. \A e \in Emails : Unsubscribed(e) => suppression'[e]["marketing"] = "unsubscribe"
  <2>1. CASE WriteMarketingUnsubscribe(r)
    <3>1. request[r].email \in Emails
      BY <1>1, <2>1 DEF WriteMarketingUnsubscribe, RequestsKnow, At
    <3>2. SuppressionWritten(request[r].email, "marketing")
      BY <1>1, <2>1, <3>1, UpsertWrites, ScopesAre DEF WriteMarketingUnsubscribe
    <3> QED
      BY <3>2 DEF SuppressionWritten
  <2>2. CASE ~WriteMarketingUnsubscribe(r)
    BY <2>2 DEF RequestStep, Click, LoadDelivery, Acknowledge, FailRequest, Unsubscribed
  <2> QED
    BY <2>1, <2>2
<1>7. /\ withdrawn' \in SUBSET Emails
      /\ \A e \in withdrawn' : suppression'[e]["marketing"] = "unsubscribe"
  <2>1. withdrawn \in SUBSET Emails /\ \A e \in withdrawn : Unsubscribed(e)
    BY <1>1 DEF TypeOK, IInv, WithdrawalHolds, Unsubscribed
  <2>2. CASE Acknowledge(r)
    <3>1. request[r].email \in Emails /\ Unsubscribed(request[r].email)
      BY <1>1, <2>2 DEF Acknowledge, RequestsKnow, At
    <3> QED
      BY <1>6, <2>1, <2>2, <3>1 DEF Acknowledge
  <2>3. CASE ~Acknowledge(r)
    <3>1. withdrawn' = withdrawn
      BY <2>3 DEF RequestStep, Click, LoadDelivery, WriteMarketingUnsubscribe, FailRequest
    <3> QED
      BY <1>6, <2>1, <3>1
  <2> QED
    BY <2>2, <2>3
<1>8. /\ ~At(r, "idle")' => request'[r].mailing \in Mailings /\ request'[r].email \in Emails
      /\ At(r, "answer")' => suppression'[request'[r].email]["marketing"] = "unsubscribe"
  <2>1. CASE \E m \in Mailings, e \in Emails : Click(r, m, e)
    BY <1>1, <2>1 DEF Click, At, TypeOK
  <2>2. CASE LoadDelivery(r)
    BY <1>1, <2>2 DEF LoadDelivery, NoRequest, RequestsKnow, At, TypeOK
  <2>3. CASE WriteMarketingUnsubscribe(r)
    <3>1. request[r].mailing \in Mailings /\ request[r].email \in Emails
      BY <1>1, <2>3 DEF WriteMarketingUnsubscribe, RequestsKnow, At
    <3>2. suppression'[request[r].email]["marketing"] = "unsubscribe"
      BY <1>1, <2>3, <3>1, UpsertWrites, ScopesAre DEF WriteMarketingUnsubscribe
    <3>3. request'[r].mailing = request[r].mailing /\ request'[r].email = request[r].email
      BY <1>1, <2>3 DEF WriteMarketingUnsubscribe, TypeOK
    <3> QED
      BY <3>1, <3>2, <3>3
  <2>4. CASE Acknowledge(r) \/ FailRequest(r)
    BY <1>1, <2>4 DEF Acknowledge, FailRequest, NoRequest, At, TypeOK
  <2> QED
    BY <2>1, <2>2, <2>3, <2>4 DEF RequestStep
<1>9. RequestsKnow'
  <2>1. ASSUME NEW q \in Requests \ {r}
        PROVE  /\ ~At(q, "idle")' => request'[q].mailing \in Mailings /\ request'[q].email \in Emails
               /\ At(q, "answer")' => suppression'[request'[q].email]["marketing"] = "unsubscribe"
    <3>1. request'[q] = request[q]
      BY <1>5
    <3>2. At(q, "answer") => ~At(q, "idle")
      BY DEF At
    <3> QED
      BY <1>1, <1>6, <3>1, <3>2 DEF RequestsKnow, At, Unsubscribed
  <2> QED
    BY <1>8, <2>1 DEF RequestsKnow, Unsubscribed, At
<1>10. OnlyConsentChanges
  <2>1. CASE WriteMarketingUnsubscribe(r)
    <3>1. request[r].email \in Emails
      BY <1>1, <2>1 DEF WriteMarketingUnsubscribe, RequestsKnow, At
    <3>2. SuppressionWritten(request[r].email, "marketing")
      BY <1>1, <2>1, <3>1, UpsertWrites, ScopesAre DEF WriteMarketingUnsubscribe
    <3>3. /\ member' \in [Lists -> [Contacts -> {"none", "subscribed", "unsubscribed"}]]
          /\ \A l \in Lists, c \in Contacts : member'[l][c] # "none" => member[l][c] # "none"
      <4>1. CASE request[r].list \in Lists
        <5>1. Leave(request[r].list, Leaver(r))
          BY <2>1, <4>1 DEF WriteMarketingUnsubscribe
        <5> QED
          BY <1>1, <4>1, <5>1, LeavesMembership
      <4>2. CASE request[r].list \notin Lists
        BY <1>1, <2>1, <4>2 DEF WriteMarketingUnsubscribe, TypeOK
      <4> QED
        BY <4>1, <4>2
    <3> QED
      BY <1>2, <3>2, <3>3, ScopesAre DEF OnlyConsentChanges, SuppressionWritten
  <2>2. CASE ~WriteMarketingUnsubscribe(r)
    <3>1. suppression' = suppression /\ member' = member
      BY <2>2 DEF RequestStep, Click, LoadDelivery, Acknowledge, FailRequest, people
    <3> QED
      BY <1>1, <1>2, <3>1 DEF OnlyConsentChanges, TypeOK, SuppressionsTypeOK, Scopes
  <2> QED
    BY <2>1, <2>2
<1>11. TypeOK' /\ ActiveMailingKeepsList'
  BY <1>5, <1>7, <1>10, ConsentChangesKeep
<1> QED
  BY <1>7, <1>9, <1>11 DEF IInv, WithdrawalHolds

-------------------------------------------------------------------------------
(* Messages after a withdrawal.                                            *)

\* What a step may do about the message of mailing m to address e, which has withdrawn.
NothingNew(m, e) ==
    mailing'[m].purpose = "marketing" =>
      /\ delivery'[m][e].status = "queued" => delivery[m][e].status \in {"queued", "sending"}
      /\ delivery'[m][e].worker = "call" => delivery[m][e].worker = "call"
      /\ <<m, e>> \in mailed' => <<m, e>> \in mailed \/ delivery[m][e].worker = "call"

LEMMA SameMessage ==
    ASSUME NEW m \in Mailings, NEW e \in Emails, mailed' = mailed,
           delivery'[m][e].status = delivery[m][e].status,
           delivery'[m][e].worker = delivery[m][e].worker
    PROVE  NothingNew(m, e)
  BY DEF NothingNew

LEMMA CreatesNothingNew ==
    ASSUME IInv, NEW n \in Mailings, NEW purpose \in Purposes, NEW l \in Lists \cup {NoList},
           NEW recipients \in SUBSET Emails, CreateMailing(n, purpose, l, recipients),
           NEW m \in Mailings, NEW e \in withdrawn
    PROVE  NothingNew(m, e)
<1>1. TypeOK /\ e \in Emails /\ Unsubscribed(e)
  BY DEF IInv, TypeOK, WithdrawalHolds, Unsubscribed
<1>2. mailed' = mailed
  BY DEF CreateMailing
<1>3. CASE m # n
  <2>1. delivery'[m] = delivery[m]
    BY <1>1, <1>3 DEF CreateMailing, TypeOK
  <2> QED
    BY <1>1, <1>2, <2>1, SameMessage
<1>4. CASE m = n
  <2>1. mailing'[m].purpose = purpose
    BY <1>1, <1>4 DEF CreateMailing, TypeOK
  <2>2. purpose = "marketing" => Suppressed(e, purpose, l)
    BY <1>1 DEF Suppressed, Unsubscribed
  <2>3. delivery'[m][e] =
          IF e \notin recipients THEN NoDelivery
          ELSE [status |-> IF Suppressed(e, purpose, l) THEN "settled" ELSE "queued",
                worker |-> "none", contact |-> ContactOf(e)]
    BY <1>1, <1>4 DEF CreateMailing, TypeOK
  <2> QED
    BY <1>2, <2>1, <2>2, <2>3 DEF NothingNew, NoDelivery
<1> QED
  BY <1>3, <1>4

LEMMA SendsNothingNew ==
    ASSUME IInv, NEW n \in Mailings, NEW f \in Emails,
           DeliveryStep(n, f, Suppressed(f, mailing[n].purpose, mailing[n].source)),
           NEW m \in Mailings, NEW e \in withdrawn
    PROVE  NothingNew(m, e)
<1>1. TypeOK /\ e \in Emails /\ Unsubscribed(e)
  BY DEF IInv, TypeOK, WithdrawalHolds, Unsubscribed
<1>2. mailing' = mailing /\ (mailed' = mailed \/ (Send(n, f) /\ mailed' = mailed \cup {<<n, f>>}))
  BY DEF DeliveryStep, StartDelivery, RunPolicyGates, StopWithoutSending, Send, Settle
<1>3. PICK status \in Statuses, worker \in Standings :
          /\ DeliveryWritten(n, f, status, worker)
          /\ status \in {"queued", "sending"} => delivery[n][f].status \in {"queued", "sending"}
          /\ \/ worker = "call" => delivery[n][f].worker = "call"
             \/ ~Suppressed(f, mailing[n].purpose, mailing[n].source)
  <2> DEFINE suppressed == Suppressed(f, mailing[n].purpose, mailing[n].source)
  <2>1. DeliveryStep(n, f, suppressed)
    OBVIOUS
  <2> HIDE DEF suppressed
  <2>2. \E status \in Statuses, worker \in Standings :
            /\ DeliveryWritten(n, f, status, worker)
            /\ status \in {"queued", "sending"} =>
                  delivery[n][f].status \in {"queued", "sending"}
            /\ worker = "call" => delivery[n][f].worker = "call" \/ ~suppressed
    BY <1>1, <2>1, StepWrites
  <2> QED
    BY <2>2 DEF suppressed
<1>4. CASE m # n \/ e # f
  <2>1. delivery'[m][e] = delivery[m][e]
    BY <1>1, <1>3, <1>4 DEF DeliveryWritten
  <2>2. <<m, e>> \in mailed' => <<m, e>> \in mailed
    BY <1>2, <1>4
  <2> QED
    BY <2>1, <2>2 DEF NothingNew
<1>5. CASE m = n /\ e = f
  <2>1. mailing[m].purpose = "marketing" => Suppressed(e, mailing[m].purpose, mailing[m].source)
    BY <1>1 DEF Suppressed, Unsubscribed
  <2>2. <<m, e>> \in mailed' => <<m, e>> \in mailed \/ delivery[m][e].worker = "call"
    BY <1>2, <1>5 DEF Send
  <2> QED
    BY <1>2, <1>3, <1>5, <2>1, <2>2 DEF NothingNew, DeliveryWritten
<1> QED
  BY <1>4, <1>5

LEMMA StepSendsNothingNew ==
    ASSUME IInv, Next, NEW m \in Mailings, NEW e \in withdrawn
    PROVE  NothingNew(m, e)
<1>1. TypeOK /\ e \in Emails
  BY DEF IInv, TypeOK
<1>2. CASE PeopleStep
  <2>1. mailed' = mailed
    BY <1>2 DEF PeopleStep, CreateContact, UpdateContactEmail, DeleteContact, CreateList,
                DeleteList, ImportListContacts, UnsubscribeListContact, OperatorSuppresses,
                OperatorLifts, FeedbackSuppresses, sending
  <2>2. CASE \E c \in Contacts : DeleteContact(c)
    <3>1. PICK c \in Contacts : DeleteContact(c)
      BY <2>2
    <3>2. delivery'[m][e] = IF delivery[m][e].contact = c
                            THEN [delivery[m][e] EXCEPT !.contact = NoContact]
                            ELSE delivery[m][e]
      BY <1>1, <3>1 DEF DeleteContact
    <3>3. delivery[m][e] \in DeliveryRow
      BY <1>1 DEF TypeOK
    <3>4. /\ delivery'[m][e].status = delivery[m][e].status
          /\ delivery'[m][e].worker = delivery[m][e].worker
      BY <3>2, <3>3 DEF DeliveryRow
    <3> QED
      BY <1>1, <2>1, <3>4, SameMessage
  <2>3. CASE ~ \E c \in Contacts : DeleteContact(c)
    <3>1. delivery' = delivery
      BY <1>2, <2>3 DEF PeopleStep, CreateContact, UpdateContactEmail, CreateList,
                DeleteList, ImportListContacts, UnsubscribeListContact, OperatorSuppresses,
                OperatorLifts, FeedbackSuppresses, sending
    <3> QED
      BY <1>1, <2>1, <3>1, SameMessage
  <2> QED
    BY <2>2, <2>3
<1>3. CASE SendingStep
  <2>1. CASE \E n \in Mailings, purpose \in Purposes, l \in Lists \cup {NoList},
                recipients \in SUBSET Emails : CreateMailing(n, purpose, l, recipients)
    BY <2>1, CreatesNothingNew
  <2>2. CASE \E n \in Mailings, f \in Emails :
                DeliveryStep(n, f, Suppressed(f, mailing[n].purpose, mailing[n].source))
    BY <2>2, SendsNothingNew
  <2>3. CASE \E n \in Mailings : CompleteMailing(n)
    BY <1>1, <2>3, SameMessage DEF CompleteMailing
  <2> QED
    BY <1>3, <2>1, <2>2, <2>3 DEF SendingStep
<1>4. CASE \E r \in Requests : RequestStep(r)
  <2>1. UNCHANGED sending
    BY <1>4 DEF RequestStep, Click, LoadDelivery, WriteMarketingUnsubscribe, Acknowledge, FailRequest
  <2> QED
    BY <1>1, <2>1, SameMessage DEF sending
<1> QED
  BY <1>2, <1>3, <1>4 DEF Next

-------------------------------------------------------------------------------
(* The theorems.                                                           *)

LEMMA StartsRight == Init => IInv
<1> SUFFICES ASSUME Init PROVE IInv
  OBVIOUS
<1>1. SuppressionsTypeOK
  BY DEF Init, SuppressionsInit, SuppressionsTypeOK, ReasonsIn
<1>2. /\ \A c \in Contacts : contact[c] = "new"
      /\ \A l \in Lists, c \in Contacts : member[l][c] = "none"
      /\ \A m \in Mailings : mailing[m] = NoMail
      /\ \A m \in Mailings, e \in Emails : delivery[m][e] = NoDelivery
      /\ \A r \in Requests : request[r] = NoRequest
      /\ \A l \in Lists, e \in Emails : suppression[e][l] = "none"
  BY ScopesAre DEF Init, SuppressionsInit
<1>3. EmailsAreUnique
  BY <1>2, EmailsAssumption DEF EmailsAreUnique, Exists
<1>4. ReferencesHold
  BY <1>2, NullAssumption DEF ReferencesHold, NoMail, NoDelivery
<1>5. TypeOK
  <2>1. NoMail \in MailingRow /\ NoDelivery \in DeliveryRow /\ NoRequest \in RequestMemory
    BY DEF NoMail, MailingRow, NoDelivery, DeliveryRow, NoRequest, RequestMemory, Purposes
  <2> QED
    BY <1>1, <1>3, <1>4, <2>1 DEF Init, TypeOK
<1>6. WithdrawalHolds
  BY DEF Init, WithdrawalHolds
<1>7. ActiveMailingKeepsList
  BY <1>2 DEF ActiveMailingKeepsList, NoMail, NoDelivery
<1>8. RequestsKnow
  BY <1>2 DEF RequestsKnow, At, NoRequest
<1> QED
  BY <1>5, <1>6, <1>7, <1>8 DEF IInv

LEMMA StepKeeps == IInv /\ [Next]_consentVars => IInv'
<1> SUFFICES ASSUME IInv, [Next]_consentVars PROVE IInv'
  OBVIOUS
<1>1. CASE Next
  BY <1>1, PeopleKeep, SendingKeep, RequestsKeep DEF Next
<1>2. CASE UNCHANGED consentVars
  <2>1. UNCHANGED <<suppression, list, contact, member, mailing, delivery, mailed, request, withdrawn>>
    BY <1>2 DEF consentVars, people, sending, clicks
  <2>2. TypeOK'
    BY <2>1 DEF IInv, TypeOK, SuppressionsTypeOK, EmailsAreUnique, ReferencesHold, Exists, Scopes
  <2>3. WithdrawalHolds' /\ ActiveMailingKeepsList' /\ RequestsKnow'
    BY <2>1 DEF IInv, WithdrawalHolds, ActiveMailingKeepsList, RequestsKnow, Unsubscribed, At
  <2> QED
    BY <2>2, <2>3 DEF IInv
<1> QED
  BY <1>1, <1>2

LEMMA Inductive == Spec => []IInv
  BY StartsRight, StepKeeps, PTL DEF Spec

\* The tables keep their types, their unique index and their foreign keys.
THEOREM TypeCorrect == Spec => []TypeOK
<1>1. IInv => TypeOK
  BY DEF IInv
<1> QED
  BY <1>1, Inductive, PTL

\* No edit, import, operator or feedback takes an acknowledged unsubscribe back
\* (unsubscribe.ts, suppressions/write.ts, contacts/write.ts, lists/write.ts).
THEOREM WithdrawalsHold == Spec => []WithdrawalHolds
<1>1. IInv => WithdrawalHolds
  BY DEF IInv
<1> QED
  BY <1>1, Inductive, PTL

\* A mailing has the list it was created for until it is completed
\* (lists/write.ts, mailings/create-mailing.ts).
THEOREM ActiveMailingsKeepLists == Spec => []ActiveMailingKeepsList
<1>1. IInv => ActiveMailingKeepsList
  BY DEF IInv
<1> QED
  BY <1>1, Inductive, PTL

\* After the acknowledgement of an unsubscribe only workers that had passed the gates
\* already send marketing messages to the address (create-mailing.ts, policy.ts).
THEOREM NoMailSent == Spec => NoMailAfterWithdrawal
<1> DEFINE Step == \A m \in Mailings, e \in withdrawn : mailing'[m].purpose = "marketing" =>
                     /\ delivery'[m][e].status = "queued" =>
                           delivery[m][e].status \in {"queued", "sending"}
                     /\ delivery'[m][e].worker = "call" => delivery[m][e].worker = "call"
                     /\ <<m, e>> \in mailed' =>
                           <<m, e>> \in mailed \/ delivery[m][e].worker = "call"
<1>1. IInv /\ [Next]_consentVars => [Step]_consentVars
  <2>1. IInv /\ Next => Step
    BY StepSendsNothingNew DEF NothingNew
  <2> QED
    BY <2>1
<1> QED
  BY <1>1, Inductive, PTL DEF Spec, NoMailAfterWithdrawal
===============================================================================
