-------------------------- MODULE ServiceAccessProofs --------------------------
(***************************************************************************)
(* What the service promises those who use it, for any number of keys,     *)
(* device authorizations, requests, polls, migrations and clients: keys    *)
(* descend without widening, an authorization yields one key, migrations   *)
(* and bootstraps at once leave one schema and one owner, an               *)
(* Idempotency-Key makes one mailing, the limiter allows what its limits   *)
(* leave room for, and a deployment that setup accepts is ready to send.   *)
(***************************************************************************)
EXTENDS ServiceAccess, FunctionTheorems, FiniteSetTheorems, SequenceTheorems, TLAPS

Actors == {Owner} \cup Made

\* Whoever made a key, and what it was rotated from, is known.
KeysAreKnown ==
    /\ \A k \in Made : keys.row[k].by \in Actors /\ keys.row[k].from \in {None} \cup Made
    /\ \A q \in Requests :
          /\ requests[q].actor \in Actors
          /\ Is(q, "found") => requests[q].key \in Made
    /\ local.key \in {None} \cup Made

KeysInv ==
    /\ KeysTypeOK /\ AuthTypeOK
    /\ KeysAreKnown /\ KeysDescend /\ OneKeyPerGrant

\* What a process that has migrated, or that is to serve, has brought about.
StarterKnows(s) ==
    /\ Now(s, "migrate") => Migrations \ starters[s].pending \subseteq schema.recorded
    /\ Now(s, "main") => users = {OwnerEmail}

StartInv ==
    /\ StartTypeOK
    /\ MigratedOnce
    /\ \A s \in Starters : StarterKnows(s)
    /\ \E email \in Emails : users \subseteq {email}
    /\ serving => users = {OwnerEmail}

\* The mailing and the row of the key are there together, and a request that is about to make
\* them holds the writer and has found neither.
MailingsInv ==
    /\ MailingsTypeOK
    /\ Len(mailings.made) <= 1 /\ Len(mailings.made) <= MaxMailings
    /\ mailings.row = Len(mailings.made)
    /\ \A c \in Clients :
          /\ Call(c, "create") => writer = c /\ mailings.row = NoRow /\ MaxMailings > 0
          /\ calls[c].answer \in {NoAnswer, Conflict}
                \/ (mailings.row = 1 /\ calls[c].answer = 1 /\ mailings.made[1] = Body[c])

-------------------------------------------------------------------------------
(* API keys and device authorizations                                      *)

\* Revoking a key leaves it a key and changes nothing else of it.
LEMMA RevokedKey ==
    ASSUME NEW r \in Key
    PROVE  LET revoked == [r EXCEPT !.revoked = TRUE]
           IN /\ revoked \in Key
              /\ revoked.wide = r.wide /\ revoked.by = r.by /\ revoked.from = r.from
              /\ revoked.grant = r.grant /\ revoked.revoked
BY DEF Key

\* A new key that holds no more than its maker, or as much as the live key it replaces.
LEMMA InsertKeepsKeys ==
    ASSUME KeysTypeOK, KeysAreKnown, KeysDescend,
           NEW wide \in BOOLEAN, NEW by \in Actors, NEW from \in {None} \cup Made,
           NEW grant \in 0..MaxGrants,
           by # Owner /\ wide => keys.row[by].wide,
           from # None => ~keys.row[from].revoked /\ keys.row[from].wide = wide,
           Insert(wide, by, from, grant)
    PROVE  /\ keys' \in [made: 0..MaxKeys, row: [Keys -> Key]]
           /\ KeysDescend'
           /\ keys'.made = keys.made + 1
           /\ Made' = Made \cup {keys.made + 1} /\ keys.made + 1 \notin Made
           /\ \A k \in Made : /\ keys'.row[k].by = keys.row[k].by
                              /\ keys'.row[k].from = keys.row[k].from
                              /\ keys'.row[k].grant = keys.row[k].grant
           /\ keys'.row[keys.made + 1].by = by
           /\ keys'.row[keys.made + 1].from = from
           /\ keys'.row[keys.made + 1].grant = grant
<1> DEFINE n == keys.made + 1
           new == [wide |-> wide, by |-> by, from |-> from, grant |-> grant,
                   revoked |-> FALSE]
<1>1. keys.made \in 0..MaxKeys /\ keys.made < MaxKeys /\ MaxKeys \in Nat
      /\ keys.row \in [Keys -> Key]
  BY KeyBoundsAssumption DEF KeysTypeOK, Insert
<1>2. n \in Keys /\ n \notin Made /\ Made \subseteq Keys /\ n # None
  BY <1>1 DEF Keys, Made, None
<1>3. Made' = Made \cup {n} /\ keys'.made = n /\ n \in 0..MaxKeys
  BY <1>1 DEF Made, Insert
<1>4. new \in Key
  BY <1>2 DEF Key, Actors
<1>5. \A k \in Keys : keys'.row[k] = IF k = n THEN new
                                     ELSE IF k = from THEN [keys.row[k] EXCEPT !.revoked = TRUE]
                                     ELSE keys.row[k]
  BY DEF Insert
<1>6. \A k \in Keys : keys.row[k] \in Key
  BY <1>1
<1>7. keys' \in [made: 0..MaxKeys, row: [Keys -> Key]]
  <2>1. \A k \in Keys : [keys.row[k] EXCEPT !.revoked = TRUE] \in Key
    BY <1>6, RevokedKey
  <2> QED
    BY <1>3, <1>4, <1>6, <2>1 DEF Insert
<1>8. \A k \in Made : /\ keys'.row[k].by = keys.row[k].by
                      /\ keys'.row[k].from = keys.row[k].from
                      /\ keys'.row[k].grant = keys.row[k].grant
                      /\ keys'.row[k].wide = keys.row[k].wide
                      /\ keys.row[k].revoked => keys'.row[k].revoked
                      /\ k = from => keys'.row[k].revoked
  <2> SUFFICES ASSUME NEW k \in Made
               PROVE  /\ keys'.row[k].by = keys.row[k].by
                      /\ keys'.row[k].from = keys.row[k].from
                      /\ keys'.row[k].grant = keys.row[k].grant
                      /\ keys'.row[k].wide = keys.row[k].wide
                      /\ keys.row[k].revoked => keys'.row[k].revoked
                      /\ k = from => keys'.row[k].revoked
    OBVIOUS
  <2>1. k \in Keys /\ k # n /\ keys.row[k] \in Key
    BY <1>2, <1>6
  <2>2. CASE k = from
    BY <1>5, <2>1, <2>2, RevokedKey
  <2>3. CASE k # from
    BY <1>5, <2>1, <2>3
  <2> QED
    BY <2>2, <2>3
<1>9. keys'.row[n] = new
  BY <1>2, <1>5
<1> HIDE DEF n, new
<1>10. new.wide = wide /\ new.by = by /\ new.from = from /\ new.grant = grant
  BY DEF new
<1>11. KeysDescend'
  <2> SUFFICES ASSUME NEW k \in Made'
               PROVE  /\ keys'.row[k].from # None =>
                            /\ keys'.row[k].from < k
                            /\ keys'.row[keys'.row[k].from].revoked
                            /\ keys'.row[keys'.row[k].from].wide = keys'.row[k].wide
                            /\ \A j \in Made' : keys'.row[j].from = keys'.row[k].from => j = k
                      /\ keys'.row[k].by # Owner /\ keys'.row[k].wide =>
                            keys'.row[keys'.row[k].by].wide
    BY DEF KeysDescend
  <2>1. CASE k = n
    <3>1. keys'.row[k].by # Owner /\ keys'.row[k].wide => keys'.row[keys'.row[k].by].wide
      BY <2>1, <1>8, <1>9, <1>10 DEF Actors
    <3>2. ASSUME from # None
          PROVE  /\ from \in Made /\ from < n
                 /\ keys'.row[from].revoked /\ keys'.row[from].wide = wide
                 /\ \A j \in Made : keys.row[j].from # from
      <4>1. from \in Made /\ from < n
        BY <3>2, <1>1 DEF Made, n
      <4>2. \A j \in Made : keys.row[j].from # from
        BY <3>2, <4>1 DEF KeysDescend
      <4> QED
        BY <3>2, <4>1, <4>2, <1>8
    <3> QED
      BY <2>1, <3>1, <3>2, <1>3, <1>8, <1>9, <1>10
  <2>2. CASE k \in Made
    <3>1. keys'.row[k].by # Owner /\ keys'.row[k].wide => keys'.row[keys'.row[k].by].wide
      BY <2>2, <1>8 DEF KeysDescend, KeysAreKnown, Actors
    <3>2. ASSUME keys.row[k].from # None
          PROVE  keys.row[k].from \in Made /\ keys.row[k].from # from
      BY <2>2, <3>2 DEF KeysDescend, KeysAreKnown
    <3>3. ASSUME keys'.row[k].from # None
          PROVE  /\ keys'.row[k].from < k
                 /\ keys'.row[keys'.row[k].from].revoked
                 /\ keys'.row[keys'.row[k].from].wide = keys'.row[k].wide
                 /\ \A j \in Made' : keys'.row[j].from = keys'.row[k].from => j = k
      BY <2>2, <3>2, <3>3, <1>3, <1>8, <1>9, <1>10 DEF KeysDescend
    <3> QED
      BY <3>1, <3>3
  <2> QED
    BY <2>1, <2>2, <1>3
<1> QED
  BY <1>2, <1>3, <1>7, <1>8, <1>9, <1>10, <1>11 DEF n

\* A key that is revoked keeps what it is.
LEMMA RevokeKeepsKeys ==
    ASSUME KeysTypeOK, KeysDescend, NEW k \in Made,
           keys' = [keys EXCEPT !.row[k].revoked = TRUE]
    PROVE  /\ keys' \in [made: 0..MaxKeys, row: [Keys -> Key]]
           /\ KeysDescend'
           /\ Made' = Made
           /\ \A j \in Made : /\ keys'.row[j].by = keys.row[j].by
                              /\ keys'.row[j].from = keys.row[j].from
                              /\ keys'.row[j].grant = keys.row[j].grant
<1>1. keys.made \in 0..MaxKeys /\ MaxKeys \in Nat /\ keys.row \in [Keys -> Key]
      /\ keys = [made |-> keys.made, row |-> keys.row]
  BY KeyBoundsAssumption DEF KeysTypeOK
<1>2. k \in Keys /\ Made \subseteq Keys
  BY <1>1 DEF Keys, Made
<1>3. keys'.made = keys.made
      /\ keys'.row = [keys.row EXCEPT ![k] = [keys.row[k] EXCEPT !.revoked = TRUE]]
      /\ keys' = [made |-> keys'.made, row |-> keys'.row]
  BY <1>1
<1>4. keys'.row \in [Keys -> Key] /\ Made' = Made
  BY <1>1, <1>2, <1>3, RevokedKey DEF Made
<1>5. \A j \in Made : /\ keys'.row[j].by = keys.row[j].by
                      /\ keys'.row[j].from = keys.row[j].from
                      /\ keys'.row[j].grant = keys.row[j].grant
                      /\ keys'.row[j].wide = keys.row[j].wide
                      /\ keys.row[j].revoked => keys'.row[j].revoked
  BY <1>1, <1>2, <1>3, RevokedKey
<1>6. KeysDescend'
  BY <1>4, <1>5 DEF KeysDescend
<1> QED
  BY <1>1, <1>3, <1>4, <1>5, <1>6

\* What keys descend from is known as long as the keys only grow.
LEMMA KnownStaysKnown ==
    ASSUME KeysAreKnown, Made \subseteq Made',
           \A k \in Made : /\ keys'.row[k].by = keys.row[k].by
                           /\ keys'.row[k].from = keys.row[k].from,
           \A k \in Made' \ Made : /\ keys'.row[k].by \in Actors'
                                   /\ keys'.row[k].from \in {None} \cup Made',
           \A q \in Requests : /\ requests'[q].actor \in Actors'
                               /\ requests'[q].pc = "found" => requests'[q].key \in Made',
           local'.key \in {None} \cup Made'
    PROVE  KeysAreKnown'
BY DEF KeysAreKnown, Actors, Is

\* Each step of a request with a key or a session.
LEMMA KeysNextKeepsKeys == KeysInv /\ KeysNext /\ UNCHANGED authVars => KeysInv'
<1> SUFFICES ASSUME KeysInv, UNCHANGED authVars, NEW q \in Requests,
                    \/ Verify(q) \/ CreateKey(q) \/ FindForRevoke(q) \/ Revoke(q)
                    \/ Rotate(q) \/ RequestFails(q)
             PROVE  KeysInv'
  BY DEF KeysNext
<1> USE DEF Is
<1> DEFINE Req == [pc: {"none", "verified", "found"}, actor: {Owner} \cup Keys,
                   key: {None} \cup Keys]
<1>1. /\ requests \in [Requests -> Req] /\ keys.made \in 0..MaxKeys /\ MaxKeys \in Nat
      /\ Made \subseteq Keys /\ Actors \subseteq {Owner} \cup Keys
  BY KeyBoundsAssumption DEF KeysInv, KeysTypeOK, Made, Keys, Actors
<1>2. AuthTypeOK' /\ UNCHANGED <<grants, polls, local>>
  BY DEF KeysInv, AuthTypeOK, authVars
<1>3. NoRequest \in Req
  BY DEF NoRequest, Owner, None
<1>4. requests[q].actor \in Actors /\ (requests[q].pc = "found" => requests[q].key \in Made)
  BY DEF KeysInv, KeysAreKnown
<1>5. ASSUME Ends(q)
      PROVE  /\ requests' \in [Requests -> Req]
             /\ \A r \in Requests : requests'[r] \in {NoRequest, requests[r]}
  BY <1>1, <1>3, <1>5 DEF Ends
<1>6. ASSUME UNCHANGED keys, requests' \in [Requests -> Req],
             \A r \in Requests : /\ requests'[r].actor \in Actors
                                 /\ requests'[r].pc = "found" => requests'[r].key \in Made
      PROVE  KeysInv'
  <2>1. Made' = Made /\ Actors' = Actors /\ KeysDescend' /\ OneKeyPerGrant' /\ KeysTypeOK'
    BY <1>2, <1>6 DEF KeysInv, KeysDescend, OneKeyPerGrant, KeysTypeOK, Made, Actors
  <2>2. KeysAreKnown'
    BY <1>2, <1>6, <2>1 DEF KeysInv, KeysAreKnown
  <2> QED
    BY <1>2, <2>1, <2>2 DEF KeysInv
<1>7. ASSUME NEW wide \in BOOLEAN, NEW from \in {None} \cup Made,
             requests[q].actor # Owner /\ wide => keys.row[requests[q].actor].wide,
             from # None => ~keys.row[from].revoked /\ keys.row[from].wide = wide,
             Insert(wide, requests[q].actor, from, None), Ends(q)
      PROVE  KeysInv'
  <2> DEFINE n == keys.made + 1
  <2>1. /\ keys' \in [made: 0..MaxKeys, row: [Keys -> Key]]
        /\ KeysDescend'
        /\ Made' = Made \cup {n} /\ n \notin Made
        /\ \A k \in Made : /\ keys'.row[k].by = keys.row[k].by
                           /\ keys'.row[k].from = keys.row[k].from
                           /\ keys'.row[k].grant = keys.row[k].grant
        /\ keys'.row[n].by = requests[q].actor
        /\ keys'.row[n].from = from
        /\ keys'.row[n].grant = None
    <3>1. PICK by \in Actors : by = requests[q].actor
      BY <1>4
    <3>2. PICK grant \in 0..MaxGrants : grant = None
      BY KeyBoundsAssumption DEF None
    <3>3. KeysTypeOK /\ KeysAreKnown /\ KeysDescend
      BY DEF KeysInv
    <3>4. /\ by # Owner /\ wide => keys.row[by].wide
          /\ from # None => ~keys.row[from].revoked /\ keys.row[from].wide = wide
          /\ Insert(wide, by, from, grant)
      BY <1>7, <3>1, <3>2
    <3>5. /\ keys' \in [made: 0..MaxKeys, row: [Keys -> Key]]
          /\ KeysDescend'
          /\ Made' = Made \cup {keys.made + 1} /\ keys.made + 1 \notin Made
          /\ \A k \in Made : /\ keys'.row[k].by = keys.row[k].by
                             /\ keys'.row[k].from = keys.row[k].from
                             /\ keys'.row[k].grant = keys.row[k].grant
          /\ keys'.row[keys.made + 1].by = by
          /\ keys'.row[keys.made + 1].from = from
          /\ keys'.row[keys.made + 1].grant = grant
      BY <3>3, <3>4, InsertKeepsKeys
    <3> QED
      BY <3>1, <3>2, <3>5
  <2> HIDE DEF n
  <2>2. KeysTypeOK'
    BY <1>5, <1>7, <2>1 DEF KeysTypeOK
  <2>3. OneKeyPerGrant'
    BY <1>2, <2>1 DEF KeysInv, OneKeyPerGrant
  <2>4. Actors' = Actors \cup {n}
    BY <2>1 DEF Actors
  <2>5. KeysAreKnown'
    <3>1. \A r \in Requests : /\ requests'[r].actor \in Actors'
                              /\ requests'[r].pc = "found" => requests'[r].key \in Made'
      BY <1>5, <1>7, <2>1, <2>4 DEF KeysInv, KeysAreKnown, NoRequest, Actors
    <3>2. local'.key \in {None} \cup Made'
      BY <1>2, <2>1 DEF KeysInv, KeysAreKnown
    <3> QED
      BY <1>4, <1>7, <2>1, <2>4, <3>1, <3>2, KnownStaysKnown DEF KeysInv
  <2> QED
    BY <1>2, <2>1, <2>2, <2>3, <2>5 DEF KeysInv
<1>8. CASE Verify(q)
  <2>1. PICK actor \in Actors :
            requests' = [requests EXCEPT ![q] = [pc |-> "verified", actor |-> actor,
                                                 key |-> None]]
    BY <1>8 DEF Verify, Actors
  <2>2. [pc |-> "verified", actor |-> actor, key |-> None] \in Req
    BY <1>1, <2>1
  <2>3. requests' \in [Requests -> Req]
    BY <1>1, <2>1, <2>2
  <2>4. \A r \in Requests : requests'[r] = IF r = q THEN [pc |-> "verified", actor |-> actor,
                                                          key |-> None] ELSE requests[r]
    BY <1>1, <2>1
  <2> QED
    BY <1>6, <1>8, <2>1, <2>3, <2>4 DEF Verify, KeysInv, KeysAreKnown
<1>9. CASE CreateKey(q)
  <2>1. PICK wide \in BOOLEAN : /\ Holds(requests[q].actor, wide)
                                /\ Insert(wide, requests[q].actor, None, None)
    BY <1>9 DEF CreateKey
  <2>2. requests[q].actor # Owner /\ wide => keys.row[requests[q].actor].wide
    BY <2>1 DEF Holds
  <2> QED
    BY <1>7, <1>9, <2>1, <2>2 DEF CreateKey
<1>10. CASE FindForRevoke(q)
  <2>1. PICK k \in Made : requests' = [requests EXCEPT ![q] = [pc |-> "found",
                                           actor |-> requests[q].actor, key |-> k]]
    BY <1>10 DEF FindForRevoke
  <2>2. [pc |-> "found", actor |-> requests[q].actor, key |-> k] \in Req
    BY <1>1, <1>4
  <2>3. requests' \in [Requests -> Req]
    BY <1>1, <2>1, <2>2
  <2>4. \A r \in Requests :
            requests'[r] = IF r = q THEN [pc |-> "found", actor |-> requests[q].actor,
                                          key |-> k] ELSE requests[r]
    BY <1>1, <2>1
  <2> QED
    BY <1>4, <1>6, <1>10, <2>3, <2>4 DEF FindForRevoke, KeysInv, KeysAreKnown
<1>11. CASE Revoke(q)
  <2> DEFINE k == requests[q].key
  <2>1. k \in Made /\ keys' = [keys EXCEPT !.row[k].revoked = TRUE] /\ Ends(q)
    BY <1>4, <1>11 DEF Revoke
  <2> HIDE DEF k
  <2>2. /\ keys' \in [made: 0..MaxKeys, row: [Keys -> Key]]
        /\ KeysDescend'
        /\ Made' = Made
        /\ \A j \in Made : /\ keys'.row[j].by = keys.row[j].by
                           /\ keys'.row[j].from = keys.row[j].from
                           /\ keys'.row[j].grant = keys.row[j].grant
    BY <2>1, RevokeKeepsKeys DEF KeysInv
  <2>3. KeysTypeOK'
    BY <1>5, <2>1, <2>2 DEF KeysTypeOK
  <2>4. OneKeyPerGrant'
    BY <1>2, <2>2 DEF KeysInv, OneKeyPerGrant
  <2>5. Actors' = Actors
    BY <2>2 DEF Actors
  <2>6. KeysAreKnown'
    <3>1. \A r \in Requests : /\ requests'[r].actor \in Actors'
                              /\ requests'[r].pc = "found" => requests'[r].key \in Made'
      BY <1>5, <2>1, <2>2, <2>5 DEF KeysInv, KeysAreKnown, NoRequest, Actors
    <3> QED
      BY <1>2, <2>2, <2>5, <3>1, KnownStaysKnown DEF KeysInv, KeysAreKnown
  <2> QED
    BY <1>2, <2>2, <2>3, <2>4, <2>6 DEF KeysInv
<1>12. CASE Rotate(q)
  <2>1. PICK k \in Keys : /\ Rotatable(k) /\ MayRotate(requests[q].actor, keys.row[k].wide)
                          /\ Insert(keys.row[k].wide, requests[q].actor, k, None)
    BY <1>12 DEF Rotate
  <2>2. k \in Made /\ ~keys.row[k].revoked /\ keys.row[k].wide \in BOOLEAN
        /\ (requests[q].actor # Owner /\ keys.row[k].wide =>
              keys.row[requests[q].actor].wide)
    BY <1>1, <2>1 DEF Rotatable, Live, MayRotate, Holds, KeysInv, KeysTypeOK, Key
  <2> QED
    BY <1>7, <1>12, <2>1, <2>2 DEF Rotate
<1>13. CASE RequestFails(q)
  BY <1>5, <1>6, <1>13 DEF RequestFails, KeysInv, KeysAreKnown, NoRequest, Actors
<1> QED
  BY <1>8, <1>9, <1>10, <1>11, <1>12, <1>13

\* One thing that happens to an authorization leaves everything else of it.
LEMMA GrantChanges ==
    ASSUME NEW r \in Grant
    PROVE  /\ [r EXCEPT !.started = TRUE] \in Grant
           /\ [r EXCEPT !.started = TRUE].approved = r.approved
           /\ [r EXCEPT !.started = TRUE].denied = r.denied
           /\ [r EXCEPT !.started = TRUE].consumed = r.consumed
           /\ [r EXCEPT !.approved = TRUE] \in Grant
           /\ [r EXCEPT !.approved = TRUE].approved
           /\ [r EXCEPT !.approved = TRUE].denied = r.denied
           /\ [r EXCEPT !.approved = TRUE].consumed = r.consumed
           /\ [r EXCEPT !.denied = TRUE] \in Grant
           /\ [r EXCEPT !.denied = TRUE].approved = r.approved
           /\ [r EXCEPT !.denied = TRUE].consumed = r.consumed
           /\ [r EXCEPT !.expired = TRUE] \in Grant
           /\ [r EXCEPT !.expired = TRUE].approved = r.approved
           /\ [r EXCEPT !.expired = TRUE].denied = r.denied
           /\ [r EXCEPT !.expired = TRUE].consumed = r.consumed
           /\ [r EXCEPT !.consumed = TRUE] \in Grant
           /\ [r EXCEPT !.consumed = TRUE].approved = r.approved
           /\ [r EXCEPT !.consumed = TRUE].denied = r.denied
           /\ [r EXCEPT !.consumed = TRUE].consumed
BY DEF Grant

\* What happens to an authorization leaves the keys theirs, if it is not consumed and what was
\* decided about a consumed one stands.
LEMMA GrantKeepsKeys ==
    ASSUME KeysInv, UNCHANGED <<keyVars, polls>>, NEW g \in Grants, NEW to \in Grant,
           grants' = [grants EXCEPT ![g] = to], to.consumed = grants[g].consumed,
           grants[g].consumed => to.approved = grants[g].approved /\ to.denied = grants[g].denied,
           local' \in [key: {None} \cup Keys, login: {None} \cup Grants],
           local'.key = local.key
    PROVE  KeysInv'
<1>1. UNCHANGED <<keys, requests>> /\ Made' = Made /\ Actors' = Actors
  BY DEF keyVars, Made, Actors
<1>2. KeysTypeOK' /\ KeysDescend' /\ KeysAreKnown'
  BY <1>1 DEF KeysInv, KeysTypeOK, KeysDescend, KeysAreKnown, Is
<1>3. grants \in [Grants -> Grant]
  BY DEF KeysInv, AuthTypeOK
<1>4. AuthTypeOK'
  BY <1>3 DEF KeysInv, AuthTypeOK
<1>5. \A h \in Grants : grants[h].consumed => /\ grants'[h].consumed
                                              /\ grants'[h].approved = grants[h].approved
                                              /\ grants'[h].denied = grants[h].denied
  BY <1>3
<1>6. \A k \in Made : keys.row[k].grant # None => keys.row[k].grant \in Grants
  <2>1. \A k \in Made : keys.row[k] \in Key
    BY KeyBoundsAssumption DEF KeysInv, KeysTypeOK, Made, Keys
  <2> QED
    BY <2>1, KeyBoundsAssumption DEF Key, Grants, None
<1>7. OneKeyPerGrant'
  BY <1>1, <1>5, <1>6 DEF KeysInv, OneKeyPerGrant
<1> QED
  BY <1>2, <1>4, <1>7 DEF KeysInv

\* Each step of an authorization, of a poll and of the CLI that logs in or out.
LEMMA AuthNextKeepsKeys == KeysInv /\ AuthNext => KeysInv'
<1> SUFFICES ASSUME KeysInv, AuthNext
             PROVE  KeysInv'
  OBVIOUS
<1>1. /\ grants \in [Grants -> Grant] /\ polls \in [Polls -> {None} \cup Grants]
      /\ local \in [key: {None} \cup Keys, login: {None} \cup Grants]
  BY DEF KeysInv, AuthTypeOK
<1>2. ASSUME NEW g \in Grants, StartGrant(g)
      PROVE  KeysInv'
  <2>1. grants' = [grants EXCEPT ![g] = [grants[g] EXCEPT !.started = TRUE]]
        /\ UNCHANGED <<keyVars, polls>>
    BY <1>1, <1>2 DEF StartGrant, Start
  <2>2. local' \in [key: {None} \cup Keys, login: {None} \cup Grants]
        /\ local'.key = local.key
    BY <1>1, <1>2 DEF StartGrant
  <2> QED
    BY <1>1, <2>1, <2>2, GrantChanges, GrantKeepsKeys
<1>3. ASSUME NEW g \in Grants, Undecided(g), UNCHANGED <<keyVars, polls, local>>,
             \/ grants' = [grants EXCEPT ![g] = [grants[g] EXCEPT !.approved = TRUE]]
             \/ grants' = [grants EXCEPT ![g] = [grants[g] EXCEPT !.denied = TRUE]]
             \/ grants' = [grants EXCEPT ![g] = [grants[g] EXCEPT !.expired = TRUE]]
      PROVE  KeysInv'
  <2>1. ~grants[g].consumed /\ grants[g] \in Grant /\ UNCHANGED <<keyVars, polls>>
        /\ local' \in [key: {None} \cup Keys, login: {None} \cup Grants]
        /\ local'.key = local.key
    BY <1>1, <1>3 DEF Undecided
  <2>2. PICK to \in {[grants[g] EXCEPT !.approved = TRUE], [grants[g] EXCEPT !.denied = TRUE],
                     [grants[g] EXCEPT !.expired = TRUE]} :
            grants' = [grants EXCEPT ![g] = to]
    BY <1>3
  <2>3. to \in Grant /\ to.consumed = grants[g].consumed
    BY <2>1, <2>2, GrantChanges
  <2> QED
    BY <2>1, <2>2, <2>3, GrantKeepsKeys
<1>4. ASSUME UNCHANGED <<keyVars, grants>>, polls' \in [Polls -> {None} \cup Grants],
             local' \in [key: {None} \cup Keys, login: {None} \cup Grants],
             local'.key \in {None, local.key}
      PROVE  KeysInv'
  <2>1. UNCHANGED <<keys, requests, grants>> /\ Made' = Made /\ Actors' = Actors
    BY <1>4 DEF keyVars, Made, Actors
  <2>2. KeysTypeOK' /\ KeysDescend' /\ KeysAreKnown' /\ OneKeyPerGrant'
    BY <1>4, <2>1 DEF KeysInv, KeysTypeOK, KeysDescend, KeysAreKnown, Is, OneKeyPerGrant
  <2> QED
    BY <1>1, <1>4, <2>1, <2>2 DEF KeysInv, AuthTypeOK
<1>5. ASSUME NEW p \in Polls, Preflight(p) \/ PollFails(p)
      PROVE  KeysInv'
  <2>1. polls' \in [Polls -> {None} \cup Grants] /\ UNCHANGED <<keyVars, grants, local>>
    BY <1>1, <1>5 DEF Preflight, PollFails
  <2> QED
    BY <1>1, <1>4, <2>1
<1>6. CASE LoginEnds
  BY <1>1, <1>4, <1>6 DEF LoginEnds
<1>7. ASSUME NEW p \in Polls, TokenTransaction(p)
      PROVE  KeysInv'
  <2> DEFINE g == polls[p]
             n == keys.made + 1
  <2>1. g \in Grants /\ polls' = [polls EXCEPT ![p] = None]
        /\ polls' \in [Polls -> {None} \cup Grants]
    BY <1>1, <1>7 DEF TokenTransaction
  <2>2. CASE UNCHANGED <<keyVars, grants, local>>
    BY <1>1, <1>4, <2>1, <2>2
  <2>3. CASE /\ StillMutation(g) /\ grants[g].approved
             /\ Insert(TRUE, Owner, None, g)
             /\ grants' = [grants EXCEPT ![g].consumed = TRUE]
             /\ Answered(g, n)
             /\ UNCHANGED requests
    <3> HIDE DEF g
    <3>1. ~grants[g].denied /\ ~grants[g].consumed /\ grants[g].approved
      BY <2>3 DEF StillMutation, Mutation, Undecided
    <3>2. /\ keys' \in [made: 0..MaxKeys, row: [Keys -> Key]]
          /\ KeysDescend'
          /\ Made' = Made \cup {n} /\ n \notin Made
          /\ \A k \in Made : /\ keys'.row[k].by = keys.row[k].by
                             /\ keys'.row[k].from = keys.row[k].from
                             /\ keys'.row[k].grant = keys.row[k].grant
          /\ keys'.row[n].by = Owner
          /\ keys'.row[n].from = None
          /\ keys'.row[n].grant = g
      <4>1. g \in 0..MaxGrants /\ Owner \in Actors /\ None \in {None} \cup Made
            /\ TRUE \in BOOLEAN
        BY <2>1 DEF Grants, Actors
      <4> DEFINE by == Owner
                 from == None
                 wide == TRUE
      <4>2. (by # Owner /\ wide => keys.row[by].wide)
            /\ (from # None => ~keys.row[from].revoked /\ keys.row[from].wide = wide)
            /\ Insert(wide, by, from, g) /\ by \in Actors /\ from \in {None} \cup Made
            /\ wide \in BOOLEAN
        BY <2>3, <4>1
      <4>3. KeysTypeOK /\ KeysAreKnown /\ KeysDescend
        BY DEF KeysInv
      <4> HIDE DEF by, from, wide, n
      <4>4. QED
        BY <4>1, <4>2, <4>3, InsertKeepsKeys DEF by, from, wide, n
    <3>3. grants' = [grants EXCEPT ![g] = [grants[g] EXCEPT !.consumed = TRUE]]
          /\ g \in Grants /\ grants[g] \in Grant
      BY <1>1, <2>1, <2>3 DEF g
    <3>4. /\ \A h \in Grants : h # g => grants'[h] = grants[h]
          /\ grants'[g].approved /\ grants'[g].consumed /\ ~grants'[g].denied
          /\ grants' \in [Grants -> Grant]
      BY <1>1, <3>1, <3>3, GrantChanges
    <3> HIDE DEF n
    <3>5. n \in Keys /\ local' \in {local, [key |-> n, login |-> None]}
      <4>1. n \in Keys
        BY <2>3, KeyBoundsAssumption DEF n, Insert, Keys, KeysInv, KeysTypeOK
      <4> QED
        BY <2>3, <4>1 DEF Answered, n
    <3>6. local' \in [key: {None} \cup Keys, login: {None} \cup Grants]
          /\ local'.key \in {local.key, n}
      BY <1>1, <3>5
    <3>7. AuthTypeOK' /\ KeysTypeOK'
      BY <2>1, <2>3, <3>2, <3>4, <3>6 DEF AuthTypeOK, KeysTypeOK, KeysInv
    <3>8. OneKeyPerGrant'
      <4>1. \A k \in Made : keys.row[k].grant # None =>
                keys.row[k].grant \in Grants /\ keys.row[k].grant # g
        <5>1. \A k \in Made : keys.row[k] \in Key
          BY KeyBoundsAssumption DEF KeysInv, KeysTypeOK, Made, Keys
        <5>2. \A k \in Made : keys.row[k].grant # None => keys.row[k].grant \in Grants
          BY <5>1, KeyBoundsAssumption DEF Key, Grants, None
        <5> QED
          BY <3>1, <5>2 DEF KeysInv, OneKeyPerGrant
      <4> QED
        BY <3>2, <3>4, <4>1 DEF KeysInv, OneKeyPerGrant
    <3>9. KeysAreKnown'
      <4>1. Actors' = Actors \cup {n}
        BY <3>2 DEF Actors
      <4>2. \A q \in Requests : /\ requests'[q].actor \in Actors'
                                /\ requests'[q].pc = "found" => requests'[q].key \in Made'
        BY <2>3, <3>2, <4>1 DEF KeysInv, KeysAreKnown, Is
      <4>3. local'.key \in {None} \cup Made'
        BY <3>2, <3>6 DEF KeysInv, KeysAreKnown
      <4> QED
        BY <3>2, <4>1, <4>2, <4>3, KnownStaysKnown DEF KeysInv, Actors
    <3> QED
      BY <3>2, <3>7, <3>8, <3>9 DEF KeysInv
  <2> QED
    BY <1>7, <2>2, <2>3 DEF TokenTransaction
<1>8. CASE Logout
  <2>1. CASE UNCHANGED keys
    BY <1>1, <1>4, <1>8, <2>1 DEF Logout, keyVars
  <2>2. CASE keys' = [keys EXCEPT !.row[local.key].revoked = TRUE]
    <3>1. PICK k \in Made : k = local.key
      BY <1>8 DEF Logout, KeysInv, KeysAreKnown
    <3>2. keys' = [keys EXCEPT !.row[k].revoked = TRUE] /\ KeysTypeOK /\ KeysDescend
      BY <2>2, <3>1 DEF KeysInv
    <3>3. /\ keys' \in [made: 0..MaxKeys, row: [Keys -> Key]]
          /\ KeysDescend'
          /\ Made' = Made
          /\ \A j \in Made : /\ keys'.row[j].by = keys.row[j].by
                             /\ keys'.row[j].from = keys.row[j].from
                             /\ keys'.row[j].grant = keys.row[j].grant
      BY <3>2, RevokeKeepsKeys
    <3>4. UNCHANGED <<requests, grants, polls>> /\ local'.key = None
          /\ local' \in [key: {None} \cup Keys, login: {None} \cup Grants]
      BY <1>1, <1>8 DEF Logout
    <3>5. Actors' = Actors
      BY <3>3 DEF Actors
    <3>6. KeysAreKnown' /\ OneKeyPerGrant'
      BY <3>3, <3>4, <3>5 DEF KeysInv, KeysAreKnown, OneKeyPerGrant, Is
    <3> QED
      BY <1>1, <3>3, <3>4, <3>6 DEF KeysInv, KeysTypeOK, AuthTypeOK
  <2> QED
    BY <1>8, <2>1, <2>2 DEF Logout
<1> QED
  BY <1>2, <1>3, <1>5, <1>6, <1>7, <1>8 DEF AuthNext, Approve, Deny, Decide, GrantExpires

-------------------------------------------------------------------------------
(* The start of the service                                                *)

\* A process that moves on, and knows what it then is to know, leaves the rest as it was.
LEMMA MoveKeepsStart ==
    ASSUME StartInv, NEW s \in Starters, UNCHANGED schema, users \subseteq users',
           UNCHANGED serving,
           \E email \in Emails : users' \subseteq {email},
           users = {OwnerEmail} => users' = users,
           NEW to \in [pc: {"stopped", "migrate", "main"}, pending: SUBSET Migrations],
           Becomes(s, to),
           to.pc = "migrate" => Migrations \ to.pending \subseteq schema.recorded,
           to.pc = "main" => users' = {OwnerEmail}
    PROVE  StartInv'
<1>1. starters \in [Starters -> [pc: {"stopped", "migrate", "main"},
                                 pending: SUBSET Migrations]]
  BY DEF StartInv, StartTypeOK
<1>2. \A r \in Starters : starters'[r] = IF r = s THEN to ELSE starters[r]
  BY <1>1 DEF Becomes
<1>3. StartTypeOK'
  BY <1>1 DEF StartInv, StartTypeOK, Becomes
<1>4. MigratedOnce'
  BY DEF StartInv, MigratedOnce
<1>5. \A r \in Starters : StarterKnows(r)'
  BY <1>2 DEF StartInv, StarterKnows, Now
<1> QED
  BY <1>3, <1>4, <1>5 DEF StartInv

\* The least of the migrations that a process found pending is the next one, because those it
\* did not find pending are recorded.
LEMMA MigrateKeepsStart ==
    ASSUME StartInv, NEW s \in Starters, Migrate(s)
    PROVE  StartInv'
<1>1. PICK v \in starters[s].pending :
          /\ \A u \in starters[s].pending : v <= u
          /\ IF SqlSucceeds(v)
             THEN /\ schema' = [applied |-> [schema.applied EXCEPT ![v] = @ + 1],
                                recorded |-> schema.recorded \cup {v}]
                  /\ Becomes(s, [pc |-> "migrate", pending |-> starters[s].pending \ {v}])
             ELSE UNCHANGED schema /\ Becomes(s, Stopped)
  BY DEF Migrate
<1>2. /\ starters \in [Starters -> [pc: {"stopped", "migrate", "main"},
                                    pending: SUBSET Migrations]]
      /\ schema.applied \in [Migrations -> Nat] /\ schema.recorded \subseteq Migrations
      /\ UNCHANGED <<users, serving>>
  BY DEF StartInv, StartTypeOK, Migrate
<1>3. v \in Migrations /\ Migrations \subseteq Nat \ {0}
  BY <1>1, <1>2, StartersAssumption DEF Migrations
<1>4. Migrations \ starters[s].pending \subseteq schema.recorded
  BY DEF StartInv, StarterKnows, Migrate
<1>5. CASE SqlSucceeds(v)
  <2> DEFINE to == [pc |-> "migrate", pending |-> starters[s].pending \ {v}]
  <2>1. /\ schema' = [applied |-> [schema.applied EXCEPT ![v] = schema.applied[v] + 1],
                      recorded |-> schema.recorded \cup {v}]
        /\ starters' = [starters EXCEPT ![s] = to]
    BY <1>1, <1>5 DEF Becomes
  <2>2. /\ schema'.recorded = schema.recorded \cup {v}
        /\ \A u \in Migrations :
              schema'.applied[u] = IF u = v THEN schema.applied[v] + 1 ELSE schema.applied[u]
        /\ schema' \in [applied: [Migrations -> Nat], recorded: SUBSET Migrations]
    BY <1>2, <1>3, <2>1
  <2>3. to \in [pc: {"stopped", "migrate", "main"}, pending: SUBSET Migrations]
    BY <1>2
  <2>4. StartTypeOK'
    BY <1>2, <2>1, <2>2, <2>3 DEF StartInv, StartTypeOK
  <2>5. MigratedOnce'
    <3>1. schema.applied[v] = 0 /\ v \notin schema.recorded
      BY <1>5 DEF SqlSucceeds
    <3>2. \A u \in Migrations : schema'.applied[u] = IF u \in schema'.recorded THEN 1 ELSE 0
      BY <2>2, <3>1 DEF StartInv, MigratedOnce
    <3>3. 1..v \subseteq schema'.recorded
      <4> SUFFICES ASSUME NEW u \in 1..v
                   PROVE  u \in schema'.recorded
        OBVIOUS
      <4>1. CASE u = v
        BY <2>2, <4>1
      <4>2. CASE u < v
        <5>1. u \in Migrations
          BY <1>3, <4>2, StartersAssumption DEF Migrations
        <5>2. u \notin starters[s].pending
          BY <1>1, <1>3, <4>2, <5>1
        <5> QED
          BY <1>4, <2>2, <5>1, <5>2
      <4> QED
        BY <1>3, <4>1, <4>2
    <3> QED
      BY <2>2, <3>2, <3>3 DEF StartInv, MigratedOnce
  <2>6. ASSUME NEW r \in Starters
        PROVE  StarterKnows(r)'
    <3>1. starters'[r] = IF r = s THEN to ELSE starters[r]
      BY <1>2, <2>1
    <3>2. CASE r = s
      BY <1>4, <2>2, <3>1, <3>2 DEF StarterKnows, Now
    <3>3. CASE r # s
      BY <1>2, <2>2, <3>1, <3>3 DEF StartInv, StarterKnows, Now
    <3> QED
      BY <3>2, <3>3
  <2> QED
    BY <1>2, <2>4, <2>5, <2>6 DEF StartInv
<1>6. CASE ~SqlSucceeds(v)
  <2>1. Stopped \in [pc: {"stopped", "migrate", "main"}, pending: SUBSET Migrations]
        /\ Stopped.pc = "stopped"
    BY DEF Stopped
  <2>2. UNCHANGED schema /\ Becomes(s, Stopped)
    BY <1>1, <1>6
  <2> QED
    BY <1>2, <2>1, <2>2, MoveKeepsStart DEF StartInv
<1> QED
  BY <1>5, <1>6

\* Each step of a process that starts the service.
LEMMA StartNextKeepsStart == StartInv /\ StartNext => StartInv'
<1> SUFFICES ASSUME StartInv, NEW s \in Starters,
                    ReadApplied(s) \/ Migrate(s) \/ Bootstrap(s) \/ Serve(s) \/ StarterDies(s)
             PROVE  StartInv'
  BY DEF StartNext
<1> DEFINE Starter == [pc: {"stopped", "migrate", "main"}, pending: SUBSET Migrations]
<1>1. Stopped \in Starter /\ Stopped.pc = "stopped"
      /\ [pc |-> "main", pending |-> {}] \in Starter
  BY DEF Stopped
<1>2. starters \in [Starters -> Starter] /\ schema.recorded \subseteq Migrations
  BY DEF StartInv, StartTypeOK
<1>3. \E email \in Emails : users \subseteq {email}
  BY DEF StartInv
<1>4. CASE ReadApplied(s)
  <2> DEFINE to == [pc |-> "migrate", pending |-> Migrations \ schema.recorded]
  <2>1. to \in Starter /\ Migrations \ to.pending \subseteq schema.recorded
        /\ to.pc = "migrate"
    OBVIOUS
  <2>2. Becomes(s, to) /\ UNCHANGED <<schema, users, serving>>
    BY <1>4 DEF ReadApplied
  <2> HIDE DEF to
  <2> QED
    BY <1>3, <2>1, <2>2, MoveKeepsStart
<1>5. CASE Migrate(s)
  BY <1>5, MigrateKeepsStart
<1>6. CASE Bootstrap(s)
  <2>1. PICK email \in IF s = Container THEN {OwnerEmail} ELSE Emails :
          IF MayOwn(email)
          THEN users' = users \cup {email}
               /\ Becomes(s, [Stopped EXCEPT !.pc = IF s = Container THEN "main" ELSE "stopped"])
          ELSE UNCHANGED users /\ Becomes(s, Stopped)
    BY <1>6 DEF Bootstrap
  <2>2. email \in Emails /\ (s = Container => email = OwnerEmail)
        /\ UNCHANGED <<schema, serving>>
    BY <1>6, <2>1, StartersAssumption DEF Bootstrap
  <2>3. CASE ~MayOwn(email)
    BY <1>1, <1>3, <2>1, <2>2, <2>3, MoveKeepsStart
  <2>4. CASE MayOwn(email)
    <3>1. users \subseteq {email} /\ users' = {email}
      BY <2>1, <2>4 DEF MayOwn
    <3>2. users \subseteq users' /\ (users = {OwnerEmail} => users' = users)
          /\ \E e \in Emails : users' \subseteq {e}
      BY <2>2, <3>1
    <3>3. CASE s = Container
      <4>1. Becomes(s, [pc |-> "main", pending |-> {}])
        BY <2>1, <2>4, <3>3 DEF Stopped
      <4> QED
        BY <1>1, <2>2, <3>1, <3>2, <3>3, <4>1, MoveKeepsStart
    <3>4. CASE s # Container
      <4>1. Becomes(s, Stopped)
        BY <2>1, <2>4, <3>4 DEF Stopped
      <4> QED
        BY <1>1, <2>2, <3>2, <4>1, MoveKeepsStart
    <3> QED
      BY <3>3, <3>4
  <2> QED
    BY <2>3, <2>4
<1>7. CASE Serve(s)
  <2>1. users = {OwnerEmail} /\ UNCHANGED <<schema, users>> /\ serving' = TRUE
        /\ starters' = [r \in Starters |-> Stopped]
    BY <1>7 DEF Serve, StartInv, StarterKnows
  <2>2. StartTypeOK'
    BY <1>1, <2>1 DEF StartInv, StartTypeOK
  <2>3. \A r \in Starters : StarterKnows(r)'
    BY <1>1, <2>1 DEF StarterKnows, Now
  <2>4. MigratedOnce'
    BY <2>1 DEF StartInv, MigratedOnce
  <2> QED
    BY <1>3, <2>1, <2>2, <2>3, <2>4 DEF StartInv
<1>8. CASE StarterDies(s)
  <2>1. UNCHANGED <<schema, users, serving>> /\ Becomes(s, Stopped)
    BY <1>8 DEF StarterDies
  <2> QED
    BY <1>1, <1>3, <2>1, MoveKeepsStart
<1> QED
  BY <1>4, <1>5, <1>6, <1>7, <1>8

-------------------------------------------------------------------------------
(* Mailings requested with an Idempotency-Key                              *)

\* What a client may have been answered: nothing, a conflict, or a mailing of its own.
RightAnswer(c, answer) ==
    answer \in {NoAnswer, Conflict}
        \/ (mailings.row = 1 /\ answer = 1 /\ mailings.made[1] = Body[c])

\* A request that goes on with a right answer, and leaves what is committed.
LEMMA CallKeepsMailings ==
    ASSUME MailingsInv, NEW c \in Clients, UNCHANGED mailings,
           NEW pc \in {"idle", "sent", "create", "done"}, NEW answer, RightAnswer(c, answer),
           Calls(c, pc, answer),
           writer' \in Clients \cup {NoClient},
           pc = "create" => writer' = c /\ mailings.row = NoRow /\ MaxMailings > 0,
           \A d \in Clients : d # c /\ Call(d, "create") => writer' = d
    PROVE  MailingsInv'
<1>1. calls \in [Clients -> [pc: {"idle", "sent", "create", "done"}, answer: 0..Conflict]]
      /\ MaxMailings \in Nat /\ 1 \in 0..Conflict /\ mailings.row \in Nat
  BY MailingBoundsAssumption DEF MailingsInv, MailingsTypeOK, Conflict
<1>2. answer \in 0..Conflict
  BY <1>1 DEF RightAnswer, NoAnswer, Conflict
<1>3. \A d \in Clients : calls'[d] = IF d = c THEN [pc |-> pc, answer |-> answer] ELSE calls[d]
  BY <1>1 DEF Calls
<1>4. MailingsTypeOK'
  BY <1>1, <1>2 DEF MailingsInv, MailingsTypeOK, Calls
<1>5. ASSUME NEW d \in Clients
      PROVE  /\ calls'[d].pc = "create" => writer' = d /\ mailings.row = NoRow /\ MaxMailings > 0
             /\ RightAnswer(d, calls'[d].answer)
  <2>1. CASE d = c
    BY <1>3, <2>1
  <2>2. CASE d # c
    BY <1>3, <2>2 DEF MailingsInv, Call, RightAnswer
  <2> QED
    BY <2>1, <2>2
<1> QED
  BY <1>4, <1>5 DEF MailingsInv, Call, RightAnswer

\* The request that holds the writer is the only one to commit, and finds no row of the key.
LEMMA CommitKeepsMailings ==
    ASSUME MailingsInv, NEW c \in Clients, Commit(c)
    PROVE  MailingsInv'
<1>1. /\ calls \in [Clients -> [pc: {"idle", "sent", "create", "done"}, answer: 0..Conflict]]
      /\ mailings.made \in Seq({Body[d] : d \in Clients})
      /\ MaxMailings \in Nat
  BY MailingBoundsAssumption DEF MailingsInv, MailingsTypeOK
<1>2. mailings.row = 0 /\ Len(mailings.made) = 0 /\ MaxMailings > 0 /\ writer = c
  BY DEF Commit, MailingsInv, NoRow
<1>3. mailings' = [made |-> Append(mailings.made, Body[c]), row |-> 1] /\ writer' = NoClient
      /\ calls' = [calls EXCEPT ![c] = [pc |-> "done", answer |-> 1]]
  BY <1>2 DEF Commit, WithRow, Calls
<1>4. /\ Append(mailings.made, Body[c]) \in Seq({Body[d] : d \in Clients})
      /\ Len(Append(mailings.made, Body[c])) = 1
      /\ Append(mailings.made, Body[c])[1] = Body[c]
  BY <1>1, <1>2, AppendProperties
<1>5. mailings'.made = Append(mailings.made, Body[c]) /\ mailings'.row = 1
  BY <1>3
<1>6. \A d \in Clients : calls'[d] = IF d = c THEN [pc |-> "done", answer |-> 1] ELSE calls[d]
  BY <1>1, <1>3
<1>7. MailingsTypeOK'
  <2>1. [pc |-> "done", answer |-> 1]
            \in [pc: {"idle", "sent", "create", "done"}, answer: 0..Conflict]
    BY <1>1 DEF Conflict
  <2> QED
    BY <1>1, <1>3, <1>4, <2>1 DEF MailingsTypeOK
<1>8. ASSUME NEW d \in Clients
      PROVE  /\ ~(calls'[d].pc = "create")
             /\ calls'[d].answer \in {NoAnswer, Conflict}
                   \/ (calls'[d].answer = 1 /\ mailings'.made[1] = Body[d])
  <2>1. CASE d = c
    BY <1>4, <1>5, <1>6, <2>1
  <2>2. CASE d # c
    BY <1>2, <1>6, <2>2 DEF MailingsInv, Call
  <2> QED
    BY <2>1, <2>2
<1> QED
  BY <1>1, <1>2, <1>4, <1>5, <1>7, <1>8 DEF MailingsInv, Call

\* Each step of a request for a mailing.
LEMMA MailingsNextKeepsMailings == MailingsInv /\ MailingsNext => MailingsInv'
<1> SUFFICES ASSUME MailingsInv, NEW c \in Clients,
                    \/ Send(c) \/ LookUp(c) \/ Commit(c) \/ Rollback(c) \/ Answer(c)
                    \/ LoseAnswer(c)
             PROVE  MailingsInv'
  BY DEF MailingsNext
<1>1. /\ writer \in Clients \cup {NoClient} /\ RightAnswer(c, calls[c].answer)
      /\ RightAnswer(c, NoAnswer) /\ RightAnswer(c, Conflict)
      /\ \A d \in Clients : Call(d, "create") => writer = d
  BY DEF MailingsInv, MailingsTypeOK, RightAnswer
<1>2. CASE Send(c)
  BY <1>1, <1>2, CallKeepsMailings DEF Send
<1>3. CASE LookUp(c)
  <2>1. UNCHANGED mailings /\ \A d \in Clients : ~Call(d, "create")
    BY <1>1, <1>3, ClientsAssumption DEF LookUp
  <2>2. CASE mailings.row = NoRow
    <3>1. Calls(c, "create", NoAnswer) /\ writer' = c /\ MaxMailings > 0
      BY <1>3, <2>2, MailingBoundsAssumption
      DEF LookUp, MailingsInv, MailingsTypeOK, NoRow
    <3> QED
      BY <1>1, <2>1, <2>2, <3>1, CallKeepsMailings
  <2>3. CASE mailings.row # NoRow
    <3>1. mailings.row = 1
      <4>1. mailings.row \in Nat /\ mailings.row <= 1
        BY DEF MailingsInv, MailingsTypeOK
      <4> QED
        BY <2>3, <4>1 DEF NoRow
    <3>2. PICK answer : /\ answer = IF mailings.made[1] = Body[c] THEN 1 ELSE Conflict
                        /\ Calls(c, "done", answer)
      BY <1>3, <2>3, <3>1 DEF LookUp
    <3>3. RightAnswer(c, answer) /\ UNCHANGED writer
      BY <1>3, <2>3, <3>1, <3>2 DEF RightAnswer, LookUp
    <3> QED
      BY <1>1, <2>1, <3>2, <3>3, CallKeepsMailings
  <2> QED
    BY <2>2, <2>3
<1>4. CASE Commit(c)
  BY <1>4, CommitKeepsMailings
<1>5. CASE Rollback(c)
  <2>1. Calls(c, "idle", NoAnswer) /\ writer' = NoClient /\ UNCHANGED mailings
        /\ \A d \in Clients : d # c => ~Call(d, "create")
    BY <1>1, <1>5 DEF Rollback
  <2> QED
    BY <1>1, <2>1, CallKeepsMailings
<1>6. CASE Answer(c)
  BY <1>1, <1>6, CallKeepsMailings DEF Answer
<1>7. CASE LoseAnswer(c)
  BY <1>1, <1>7, CallKeepsMailings DEF LoseAnswer
<1> QED
  BY <1>2, <1>3, <1>4, <1>5, <1>6, <1>7

-------------------------------------------------------------------------------
(* The attempt limiter                                                     *)

AnyCall == [key: Sources, at: Nat, counts: BOOLEAN, allowed: BOOLEAN]

\* The calls that were counted and are in the window that ends at a time.
Counted(at) == {m \in 1..Len(answers) : /\ answers[m].counts /\ answers[m].allowed
                                        /\ answers[m].at + Window > at}
CountedOf(k, at) == {m \in Counted(at) : answers[m].key = k}

\* The attempt that a call makes.
AttemptOf(m) == [call |-> m, at |-> answers[m].at]

\* A call of a sequence of calls was answered as the window before it asks for.
InWindow(as, n) == {m \in 1..(n - 1) : /\ as[m].counts /\ as[m].allowed
                                       /\ as[m].at + Window > as[n].at}
OwnInWindow(as, n) == {m \in InWindow(as, n) : as[m].key = as[n].key}
Exact(as, n) ==
    as[n].allowed <=>
       \/ OwnInWindow(as, n) # {} /\ Cardinality(OwnInWindow(as, n)) < MaxAttempts
       \/ /\ OwnInWindow(as, n) = {}
          /\ Cardinality({as[m].key : m \in InWindow(as, n)}) < MaxEntries

\* The entries are the counted attempts in the window that ends with the last call.
LimiterInv ==
    /\ answers \in Seq(AnyCall)
    /\ \A m, n \in 1..Len(answers) : m <= n => answers[m].at <= answers[n].at
    /\ log = [k \in Sources |-> {AttemptOf(m) : m \in CountedOf(k, LastCall)}]
    /\ LimiterIsExact

\* The property, a call at a time.
LEMMA ExactIsExact == LimiterIsExact <=> \A n \in DOMAIN answers : Exact(answers, n)
BY DEF LimiterIsExact, Exact, OwnInWindow, InWindow

\* Each call was no later than the last one.
LEMMA LastCallIsLast ==
    ASSUME LimiterInv
    PROVE  /\ LastCall \in Nat /\ Len(answers) \in Nat
           /\ \A m \in 1..Len(answers) : answers[m] \in AnyCall /\ answers[m].at <= LastCall
<1>1. answers \in Seq(AnyCall) /\ Len(answers) \in Nat
  BY LenProperties DEF LimiterInv
<1>2. \A m \in 1..Len(answers) : answers[m] \in AnyCall
  BY <1>1, ElementOfSeq
<1>3. CASE answers = <<>>
  BY <1>1, <1>2, <1>3, EmptySeq DEF LastCall
<1>4. CASE answers # <<>>
  <2>1. Len(answers) \in 1..Len(answers) /\ LastCall = answers[Len(answers)].at
    BY <1>1, <1>4, EmptySeq DEF LastCall
  <2>2. \A m \in 1..Len(answers) : answers[m].at <= LastCall
    BY <1>1, <2>1 DEF LimiterInv
  <2> QED
    BY <1>1, <1>2, <2>1, <2>2 DEF AnyCall
<1> QED
  BY <1>3, <1>4

\* pruneExpired leaves of each key the attempts counted in the window.
LEMMA PrunedIsCounted ==
    ASSUME LimiterInv, NEW at \in Nat, LastCall <= at, NEW k \in Sources
    PROVE  Pruned(at)[k] = {AttemptOf(m) : m \in CountedOf(k, at)}
<1>1. /\ \A m \in 1..Len(answers) : answers[m].at \in Nat
      /\ LastCall \in Nat /\ Window \in Nat
  BY LastCallIsLast, LimiterAssumption DEF AnyCall
<1>2. Pruned(at)[k] = {a \in {AttemptOf(m) : m \in CountedOf(k, LastCall)} : a.at + Window > at}
  BY DEF Pruned, LimiterInv
<1>3. \A m \in 1..Len(answers) : answers[m].at + Window > at => answers[m].at + Window > LastCall
  BY <1>1
<1>4. CountedOf(k, at) = {m \in CountedOf(k, LastCall) : answers[m].at + Window > at}
  BY <1>3 DEF CountedOf, Counted
<1> QED
  BY <1>2, <1>4 DEF AttemptOf

\* So an entry has as many attempts as the key has counted calls in the window.
LEMMA PrunedCounts ==
    ASSUME LimiterInv, NEW at \in Nat, LastCall <= at, NEW k \in Sources
    PROVE  /\ Pruned(at)[k] = {} <=> CountedOf(k, at) = {}
           /\ Cardinality(Pruned(at)[k]) = Cardinality(CountedOf(k, at))
<1> DEFINE S == CountedOf(k, at)
           T == Pruned(at)[k]
           f == [m \in S |-> AttemptOf(m)]
<1>1. T = {AttemptOf(m) : m \in S}
  BY PrunedIsCounted
<1>2. IsFiniteSet(S)
  <2>1. IsFiniteSet(1..Len(answers))
    BY LastCallIsLast, FS_Interval
  <2>2. S \subseteq 1..Len(answers)
    BY DEF CountedOf, Counted
  <2> QED
    BY <2>1, <2>2, FS_Subset
<1>3. f \in Bijection(S, T)
  <2>1. \A m, n \in S : AttemptOf(m) = AttemptOf(n) => m = n
    BY DEF AttemptOf
  <2>2. f \in [S -> T]
    BY <1>1
  <2>3. f \in Injection(S, T)
    BY <2>1, <2>2, Fun_IsInj
  <2>4. f \in Surjection(S, T)
    BY <1>1, <2>2, Fun_IsSurj
  <2> QED
    BY <2>3, <2>4 DEF Bijection
<1>4. Cardinality(T) = Cardinality(S)
  BY <1>2, <1>3, FS_Bijection DEF ExistsBijection
<1> QED
  BY <1>1, <1>4

\* And the keys with an entry are those of the counted calls in the window.
LEMMA KeptIsCounted ==
    ASSUME LimiterInv, NEW at \in Nat, LastCall <= at
    PROVE  Kept(Pruned(at)) = {answers[m].key : m \in Counted(at)}
<1>1. \A m \in Counted(at) : answers[m].key \in Sources
  BY LastCallIsLast DEF Counted, AnyCall
<1>2. ASSUME NEW k \in Sources
      PROVE  Pruned(at)[k] # {} <=> \E m \in Counted(at) : answers[m].key = k
  <2>1. Pruned(at)[k] = {} <=> CountedOf(k, at) = {}
    BY PrunedCounts
  <2> QED
    BY <2>1 DEF CountedOf
<1> QED
  BY <1>1, <1>2 DEF Kept

\* What a call answers is exact, and the calls before it stay as they were.
LEMMA AskKeepsLimiter ==
    ASSUME LimiterInv, NEW k \in Sources, NEW at \in Nat, LastCall <= at,
           NEW counts \in BOOLEAN, Ask(k, at, counts)
    PROVE  LimiterInv'
<1>1. PICK N \in Nat : N = Len(answers)
  BY LastCallIsLast
<1> DEFINE allowed == Allows(Pruned(at), k)
<1>2. /\ answers \in Seq(AnyCall) /\ LastCall \in Nat /\ Window \in Nat
      /\ \A m \in 1..N : /\ answers[m] \in AnyCall
                         /\ answers[m].at \in Nat /\ answers[m].at <= LastCall
  BY <1>1, LastCallIsLast, LimiterAssumption DEF LimiterInv, AnyCall
<1>3. PICK b \in BOOLEAN : b = allowed
  BY DEF Allows
<1> DEFINE call == [key |-> k, at |-> at, counts |-> counts, allowed |-> b]
<1>4. answers' = Append(answers, call)
  BY <1>3 DEF Ask
<1>5. /\ answers' \in Seq(AnyCall) /\ Len(answers') = N + 1
      /\ \A m \in 1..N : answers'[m] = answers[m]
      /\ answers'[N + 1] = call
  <2>1. call \in AnyCall
    BY DEF AnyCall
  <2> QED
    BY <1>1, <1>2, <1>4, <2>1, AppendProperties
<1>6. LastCall' = at
  BY <1>1, <1>5, EmptySeq DEF LastCall
<1>7. \A m, n \in 1..Len(answers') : m <= n => answers'[m].at <= answers'[n].at
  <2> SUFFICES ASSUME NEW m \in 1..(N + 1), NEW n \in 1..(N + 1), m <= n
               PROVE  answers'[m].at <= answers'[n].at
    BY <1>5
  <2>1. CASE n \in 1..N
    BY <1>1, <1>5, <2>1 DEF LimiterInv
  <2>2. CASE n = N + 1 /\ m \in 1..N
    BY <1>2, <1>5, <2>2
  <2>3. CASE n = N + 1 /\ m = N + 1
    BY <1>5, <2>3
  <2> QED
    BY <2>1, <2>2, <2>3
<1>8. log' = [j \in Sources |-> {AttemptOf(m)' : m \in CountedOf(j, LastCall)'}]
  <2> DEFINE counted == IF counts /\ b THEN {[call |-> N + 1, at |-> at]} ELSE {}
  <2>1. \A j \in Sources :
           log'[j] = IF j = k THEN Pruned(at)[j] \cup counted ELSE Pruned(at)[j]
    BY <1>1, <1>3 DEF Ask, Pruned
  <2>2. log' = [j \in Sources |-> log'[j]]
    BY DEF Ask, Pruned
  <2>3. \A j \in Sources : CountedOf(j, LastCall)' =
           CountedOf(j, at) \cup IF j = k /\ counts /\ b THEN {N + 1} ELSE {}
    <3>1. Counted(LastCall)' = Counted(at) \cup IF counts /\ b THEN {N + 1} ELSE {}
      <4>1. Counted(LastCall)' = {m \in 1..(N + 1) : /\ answers'[m].counts
                                                     /\ answers'[m].allowed
                                                     /\ answers'[m].at + Window > at}
        BY <1>5, <1>6 DEF Counted
      <4>2. at + Window > at
        BY LimiterAssumption
      <4> QED
        BY <1>1, <1>5, <4>1, <4>2 DEF Counted
    <3>2. Counted(at) \subseteq 1..N
      BY <1>1 DEF Counted
    <3> QED
      BY <1>5, <3>1, <3>2 DEF CountedOf
  <2>4. \A m \in 1..N : AttemptOf(m)' = AttemptOf(m)
    BY <1>5 DEF AttemptOf
  <2>5. AttemptOf(N + 1)' = [call |-> N + 1, at |-> at]
    BY <1>5 DEF AttemptOf
  <2>6. ASSUME NEW j \in Sources
        PROVE  log'[j] = {AttemptOf(m)' : m \in CountedOf(j, LastCall)'}
    <3>1. Pruned(at)[j] = {AttemptOf(m) : m \in CountedOf(j, at)}
      BY PrunedIsCounted
    <3>2. CountedOf(j, at) \subseteq 1..N
      BY <1>1 DEF CountedOf, Counted
    <3>3. {AttemptOf(m) : m \in CountedOf(j, at)} = {AttemptOf(m)' : m \in CountedOf(j, at)}
      BY <2>4, <3>2
    <3>4. CASE j = k /\ counts /\ b
      <4>1. CountedOf(j, LastCall)' = CountedOf(j, at) \cup {N + 1}
        BY <2>3, <3>4
      <4>2. log'[j] = Pruned(at)[j] \cup {[call |-> N + 1, at |-> at]}
        BY <2>1, <3>4
      <4> QED
        BY <2>5, <3>1, <3>3, <4>1, <4>2
    <3>5. CASE ~(j = k /\ counts /\ b)
      BY <2>1, <2>3, <3>1, <3>3, <3>5
    <3> QED
      BY <3>4, <3>5
  <2> QED
    BY <2>2, <2>6
<1>9. \A n \in 1..(N + 1) : Exact(answers', n)
  <2>1. ASSUME NEW n \in 1..N
        PROVE  Exact(answers', n)
    <3>1. answers'[n] = answers[n] /\ \A m \in 1..(n - 1) : answers'[m] = answers[m]
      BY <1>5
    <3>2. InWindow(answers', n) = InWindow(answers, n)
      BY <3>1 DEF InWindow
    <3>3. OwnInWindow(answers', n) = OwnInWindow(answers, n)
      BY <3>1, <3>2 DEF OwnInWindow, InWindow
    <3>4. {answers'[m].key : m \in InWindow(answers', n)}
             = {answers[m].key : m \in InWindow(answers, n)}
      BY <3>1, <3>2 DEF InWindow
    <3>5. Exact(answers, n)
      BY <1>1, <1>2, LenProperties, ExactIsExact DEF LimiterInv
    <3> QED
      BY <3>1, <3>3, <3>4, <3>5 DEF Exact
  <2>2. Exact(answers', N + 1)
    <3>1. InWindow(answers', N + 1) = Counted(at)
      BY <1>1, <1>5 DEF InWindow, Counted
    <3>2. OwnInWindow(answers', N + 1) = CountedOf(k, at)
      BY <1>1, <1>5, <3>1 DEF OwnInWindow, CountedOf, Counted
    <3>3. {answers'[m].key : m \in InWindow(answers', N + 1)} = {answers[m].key : m \in Counted(at)}
      BY <1>1, <1>5, <3>1 DEF Counted
    <3>4. b <=> \/ CountedOf(k, at) # {} /\ Cardinality(CountedOf(k, at)) < MaxAttempts
                \/ /\ CountedOf(k, at) = {}
                   /\ Cardinality({answers[m].key : m \in Counted(at)}) < MaxEntries
      BY <1>3, PrunedCounts, KeptIsCounted DEF Allows
    <3>5. answers'[N + 1].allowed = b
      BY <1>5
    <3> QED
      BY <3>2, <3>3, <3>4, <3>5 DEF Exact
  <2> QED
    BY <2>1, <2>2
<1>10. LimiterIsExact'
  <2>1. DOMAIN answers' = 1..(N + 1)
    BY <1>5, LenProperties
  <2> QED
    BY <1>9, <2>1 DEF LimiterIsExact, Exact, OwnInWindow, InWindow
<1> QED
  BY <1>5, <1>7, <1>8, <1>10 DEF LimiterInv

\* The limiter starts empty.
LEMMA LimiterStarts == LimiterInit => LimiterInv
BY EmptySeq DEF LimiterInit, LimiterInv, LimiterIsExact, CountedOf, Counted

\* Every call keeps the limiter exact.
LEMMA LimiterNextKeepsLimiter == LimiterInv /\ LimiterNext => LimiterInv'
<1> SUFFICES ASSUME LimiterInv, NEW k \in Sources, NEW gap \in Gaps,
                    Attempt(k, gap) \/ IsLocked(k, gap)
             PROVE  LimiterInv'
  BY DEF LimiterNext
<1>1. LastCall + gap \in Nat /\ LastCall <= LastCall + gap
  BY LastCallIsLast, LimiterAssumption
<1> QED
  BY <1>1, AskKeepsLimiter DEF Attempt, IsLocked

-------------------------------------------------------------------------------
(* The readiness that setup accepts                                        *)

\* Every world: any settings of the service and any state of AWS.  What is not found is not
\* verified.
AnyAccount == [reachable: BOOLEAN, production: BOOLEAN, sending: BOOLEAN,
               enforcement: {"HEALTHY", "PROBATION", "SHUTDOWN"}]
AnySet == [found: BOOLEAN, sending: BOOLEAN, suppresses: BOOLEAN,
           publishes: [Topics -> SUBSET EventTypes]]
AnyTopic == [found: BOOLEAN, v2: BOOLEAN, endpoint: {"none", "right", "other"}]
World ==
    [missing: SUBSET Settings, topics: SUBSET Topics, base: {"right", "missing", "other"},
     feedback: BOOLEAN,
     account: AnyAccount, identity: [{"address", "domain"} -> Identities],
     sets: [Kinds -> AnySet], sns: [Topics -> AnyTopic]]

\* The deployment sends, and what happens to what it sends comes back to it.
IsReady(w, marketing, final) ==
    /\ w.account.sending /\ w.account.enforcement = "HEALTHY"
    /\ w.identity[Sender(w)].verified /\ w.identity[Sender(w)].dkim
    /\ \A k \in IF marketing THEN Kinds ELSE {"transactional"} :
          /\ w.sets[k].found /\ w.sets[k].sending
          /\ \A type \in EventTypes : Arrives(w, k, type)
    /\ final => w.feedback

\* The checks that hold.
Holding(w) == {c \in Checks(w) : c.ok}

\* What a check that holds says of its own part.
Says(w, c) ==
    /\ c.id = "feedback_topics" => w.topics # {}
    /\ c.id = "latest_feedback" => w.feedback
    /\ c.id = "sending_enabled" =>
          "region" \notin w.missing /\ w.account.reachable /\ w.account.sending
    /\ c.id = "enforcement_status" => w.account.enforcement = "HEALTHY"
    /\ c.id = "from_email" => Chosen(w).verified
    /\ c.id = "dkim" => Chosen(w).dkim
    /\ c.id = "exists" => w.sets[c.of].found /\ w.sets[c.of].sending
    /\ c.id = "events" => EventTypes \subseteq ToConfiguredTopic(w, c.of)
    /\ c.id = "subscription" => c.of \in w.topics /\ w.sns[c.of].endpoint = WebhookUrl(w)

\* Of the checks of the service and of its database.
LEMMA ServiceSays ==
    ASSUME NEW w, NEW c \in ConfigChecks(w) \cup OperationsChecks(w), c.ok
    PROVE  Says(w, c)
<1>1. \/ \E s \in Settings : c = Check(s, "config", s \notin w.missing)
      \/ c = Check("feedback_topics", "config", w.topics # {})
      \/ c = Check("public_base_url", "config", w.base \in {"right", "other"})
      \/ c = Check("schema", "db", TRUE)
      \/ c = Check("latest_feedback", "db", w.feedback)
  BY DEF ConfigChecks, OperationsChecks
<1>2. CASE \E s \in Settings : c = Check(s, "config", s \notin w.missing)
  <2>1. c.id \in Settings
    BY <1>2 DEF Check
  <2> QED
    BY <2>1 DEF Says, Settings
<1>3. CASE c = Check("feedback_topics", "config", w.topics # {})
  <2>1. c.id = "feedback_topics" /\ w.topics # {}
    BY <1>3 DEF Check
  <2> QED
    BY <2>1 DEF Says
<1>4. CASE c = Check("public_base_url", "config", w.base \in {"right", "other"})
  BY <1>4 DEF Check, Says
<1>5. CASE c = Check("schema", "db", TRUE)
  BY <1>5 DEF Check, Says
<1>6. CASE c = Check("latest_feedback", "db", w.feedback)
  <2>1. c.id = "latest_feedback" /\ w.feedback
    BY <1>6 DEF Check
  <2> QED
    BY <2>1 DEF Says
<1> QED
  BY <1>1, <1>2, <1>3, <1>4, <1>5, <1>6

\* Of the checks of the account.
LEMMA AccountSays ==
    ASSUME NEW w, "region" \notin w.missing, w.account.reachable,
           NEW c \in AccountChecks(w), c.ok
    PROVE  Says(w, c)
<1>1. \/ c = Check("production_access", "account", w.account.production)
      \/ c = Check("sending_enabled", "account", w.account.sending)
      \/ c = Check("enforcement_status", "account", w.account.enforcement = "HEALTHY")
  BY DEF AccountChecks
<1>2. CASE c = Check("production_access", "account", w.account.production)
  BY <1>2 DEF Check, Says
<1>3. CASE c = Check("sending_enabled", "account", w.account.sending)
  <2>1. c.id = "sending_enabled" /\ w.account.sending
    BY <1>3 DEF Check
  <2> QED
    BY <2>1 DEF Says
<1>4. CASE c = Check("enforcement_status", "account", w.account.enforcement = "HEALTHY")
  <2>1. c.id = "enforcement_status" /\ w.account.enforcement = "HEALTHY"
    BY <1>4 DEF Check
  <2> QED
    BY <2>1 DEF Says
<1> QED
  BY <1>1, <1>2, <1>3, <1>4

\* Of those of the sender.
LEMMA IdentitySays ==
    ASSUME NEW w, NEW c \in IdentityChecks(w), c.ok
    PROVE  Says(w, c)
<1>1. \/ c = Check("from_email", "identity", Chosen(w).verified)
      \/ c = Check("dkim", "identity", Chosen(w).dkim)
  BY DEF IdentityChecks
<1>2. CASE c = Check("from_email", "identity", Chosen(w).verified)
  <2>1. c.id = "from_email" /\ Chosen(w).verified
    BY <1>2 DEF Check
  <2> QED
    BY <2>1 DEF Says
<1>3. CASE c = Check("dkim", "identity", Chosen(w).dkim)
  <2>1. c.id = "dkim" /\ Chosen(w).dkim
    BY <1>3 DEF Check
  <2> QED
    BY <2>1 DEF Says
<1> QED
  BY <1>1, <1>2, <1>3

\* Of those of a configuration set.
LEMMA SetSays ==
    ASSUME NEW w, NEW k, NEW c \in SetChecks(w, k), c.ok
    PROVE  Says(w, c)
<1>1. \/ c = Check("exists", k, FALSE)
      \/ w.sets[k].found /\ c = Check("exists", k, w.sets[k].sending)
      \/ c = Check("suppression", k, w.sets[k].suppresses)
      \/ c = Check("events", k, EventTypes \subseteq ToConfiguredTopic(w, k))
  BY DEF SetChecks
<1>2. CASE c = Check("exists", k, FALSE)
  BY <1>2 DEF Check
<1>3. CASE w.sets[k].found /\ c = Check("exists", k, w.sets[k].sending)
  <2>1. c.id = "exists" /\ c.of = k /\ w.sets[k].found /\ w.sets[k].sending
    BY <1>3 DEF Check
  <2> QED
    BY <2>1 DEF Says
<1>4. CASE c = Check("suppression", k, w.sets[k].suppresses)
  BY <1>4 DEF Check, Says
<1>5. CASE c = Check("events", k, EventTypes \subseteq ToConfiguredTopic(w, k))
  <2>1. c.id = "events" /\ c.of = k /\ EventTypes \subseteq ToConfiguredTopic(w, k)
    BY <1>5 DEF Check
  <2> QED
    BY <2>1 DEF Says
<1> QED
  BY <1>1, <1>2, <1>3, <1>4, <1>5

\* Of those of a topic.
LEMMA TopicSays ==
    ASSUME NEW w, NEW t \in w.topics, NEW c \in TopicChecks(w, t), c.ok
    PROVE  Says(w, c)
<1> DEFINE comes == w.sns[t].endpoint # "none" /\ w.sns[t].endpoint = WebhookUrl(w)
<1>1. \/ c = Check("topic_exists", t, w.sns[t].found)
      \/ c = Check("subscription", t, comes)
      \/ c = Check("signature_version", t, w.sns[t].v2)
  BY DEF TopicChecks
<1>2. CASE \/ c = Check("topic_exists", t, w.sns[t].found)
           \/ c = Check("signature_version", t, w.sns[t].v2)
  <2>1. c.id \in {"topic_exists", "signature_version"}
    BY <1>2 DEF Check
  <2> QED
    BY <2>1 DEF Says
<1>3. CASE c = Check("subscription", t, comes)
  <2>1. c.id = "subscription" /\ c.of = t /\ comes
    BY <1>3 DEF Check
  <2> QED
    BY <2>1 DEF Says
<1> QED
  BY <1>1, <1>2, <1>3

\* What is asked of AWS once its account is reached.
LEMMA AwsParts ==
    ASSUME NEW w, "region" \notin w.missing, w.account.reachable, NEW c
    PROVE  c \in AwsChecks(w) <=>
              \/ c = Check("credentials", "account", TRUE) \/ c \in AccountChecks(w)
              \/ "from" \notin w.missing /\ c \in IdentityChecks(w)
              \/ \E k \in Kinds \ w.missing : c \in SetChecks(w, k)
              \/ \E t \in w.topics : c \in TopicChecks(w, t)
<1> DEFINE identity == IF "from" \in w.missing THEN {} ELSE IdentityChecks(w)
           ofSets == UNION {SetChecks(w, k) : k \in Kinds \ w.missing}
           ofTopics == UNION {TopicChecks(w, t) : t \in w.topics}
<1>1. AwsChecks(w) = {Check("credentials", "account", TRUE)} \cup AccountChecks(w)
                        \cup identity \cup ofSets \cup ofTopics
  BY DEF AwsChecks
<1>2. c \in identity <=> "from" \notin w.missing /\ c \in IdentityChecks(w)
  OBVIOUS
<1>3. c \in ofSets <=> \E k \in Kinds \ w.missing : c \in SetChecks(w, k)
  OBVIOUS
<1>4. c \in ofTopics <=> \E t \in w.topics : c \in TopicChecks(w, t)
  OBVIOUS
<1> HIDE DEF identity, ofSets, ofTopics
<1> QED
  BY <1>1, <1>2, <1>3, <1>4

\* A check that holds says what it is about, whatever the world.
LEMMA HoldingSays ==
    ASSUME NEW w, NEW c \in Holding(w)
    PROVE  Says(w, c)
<1>1. c \in ConfigChecks(w) \cup OperationsChecks(w) \/ c \in AwsChecks(w)
  BY DEF Holding, Checks
<1>2. c.ok
  BY DEF Holding
<1>3. ASSUME c.id = "credentials"
      PROVE  Says(w, c)
  BY <1>3 DEF Says
<1>4. CASE c \in AwsChecks(w) /\ "region" \notin w.missing /\ w.account.reachable
  <2>1. \/ c = Check("credentials", "account", TRUE)
        \/ c \in AccountChecks(w) \/ c \in IdentityChecks(w)
        \/ \E k \in Kinds \ w.missing : c \in SetChecks(w, k)
        \/ \E t \in w.topics : c \in TopicChecks(w, t)
    BY <1>4, AwsParts
  <2> QED
    BY <1>2, <1>3, <1>4, <2>1, AccountSays, IdentitySays, SetSays, TopicSays DEF Check
<1>5. CASE c \in AwsChecks(w) /\ ~("region" \notin w.missing /\ w.account.reachable)
  BY <1>3, <1>5 DEF AwsChecks, Check
<1> QED
  BY <1>1, <1>2, <1>4, <1>5, ServiceSays

\* Of several topics none would have checks of its own.
LEMMA OneTopic ==
    ASSUME NEW w \in World, NoIdTwice(Checks(w)),
           "region" \notin w.missing, w.account.reachable,
           NEW s \in w.topics, NEW t \in w.topics
    PROVE  s = t
<1> DEFINE Of(u) == Check("subscription", u, w.sns[u].endpoint # "none"
                                                /\ w.sns[u].endpoint = WebhookUrl(w))
<1>1. ASSUME NEW u \in w.topics
      PROVE  Of(u) \in Checks(w)
  <2>1. Of(u) \in TopicChecks(w, u)
    BY DEF TopicChecks
  <2>2. Of(u) \in AwsChecks(w)
    BY <2>1, AwsParts
  <2> QED
    BY <2>2 DEF Checks
<1>2. ASSUME NEW u \in w.topics
      PROVE  Of(u).of = u /\ Id(Of(u)) = <<"subscription", "sns">>
  <2>1. Of(u).of = u /\ Of(u).id = "subscription"
    BY DEF Check
  <2>2. u \in Topics
    BY DEF World
  <2> QED
    BY <2>1, <2>2 DEF Id
<1>3. Of(s) = Of(t)
  BY <1>1, <1>2 DEF NoIdTwice
<1> QED
  BY <1>2, <1>3

\* The identity that the checks are about is the one that SES signs with.
LEMMA ChosenIsSender ==
    ASSUME NEW w \in World, Chosen(w).verified
    PROVE  Chosen(w) = w.identity[Sender(w)]
<1>1. ASSUME NEW i \in {"address", "domain"}, w.identity[i].verified
      PROVE  w.identity[i].found
  <2>1. w.identity[i] \in Identities
    BY DEF World
  <2>2. CASE w.identity[i] = NoIdentity
    BY <1>1, <2>2 DEF NoIdentity
  <2>3. CASE w.identity[i] \in [found: {TRUE}, verified: BOOLEAN, dkim: BOOLEAN]
    BY <2>3
  <2> QED
    BY <2>1, <2>2, <2>3 DEF Identities
<1> QED
  BY <1>1 DEF Chosen, Sender

\* Whatever the settings and the state of AWS, what setup accepts is ready.
LEMMA AcceptedWorldIsReady ==
    ASSUME NEW w \in World, NEW marketing \in BOOLEAN, NEW final \in BOOLEAN,
           Accepted(w, marketing, final)
    PROVE  IsReady(w, marketing, final)
<1> DEFINE kinds == IF marketing THEN Kinds ELSE {"transactional"}
           required == RequiredIds(marketing, final)
<1>1. WebhookUrl(w) = "right" /\ NoIdTwice(Checks(w))
  BY DEF Accepted
<1>2. ASSUME NEW i, NEW of, <<i, of>> \in required
      PROVE  \E c \in Holding(w) : c.id = i /\ (of \in Kinds => c.of = of)
  <2>1. PICK c \in Holding(w) : Id(c) = <<i, of>>
    BY <1>2 DEF Accepted, Holding
  <2>2. c.id = i /\ of = IF c.of \in Topics THEN "sns" ELSE c.of
    BY <2>1 DEF Id
  <2> QED
    BY <2>2 DEF Kinds
<1>3. /\ {<<"sending_enabled", "account">>, <<"enforcement_status", "account">>} \subseteq required
      /\ {<<"from_email", "identity">>, <<"dkim", "identity">>} \subseteq required
      /\ <<"subscription", "sns">> \in required
      /\ final => <<"latest_feedback", "db">> \in required
  BY DEF RequiredIds
<1>4. w.account.sending /\ "region" \notin w.missing /\ w.account.reachable
  <2>1. PICK c \in Holding(w) : c.id = "sending_enabled"
    BY <1>2, <1>3
  <2> QED
    BY <2>1, HoldingSays DEF Says
<1>5. w.account.enforcement = "HEALTHY"
  <2>1. PICK c \in Holding(w) : c.id = "enforcement_status"
    BY <1>2, <1>3
  <2> QED
    BY <2>1, HoldingSays DEF Says
<1>6. w.identity[Sender(w)].verified /\ w.identity[Sender(w)].dkim
  <2>1. PICK c \in Holding(w) : c.id = "from_email"
    BY <1>2, <1>3
  <2>2. PICK d \in Holding(w) : d.id = "dkim"
    BY <1>2, <1>3
  <2>3. Chosen(w).verified /\ Chosen(w).dkim
    BY <2>1, <2>2, HoldingSays DEF Says
  <2> QED
    BY <2>3, ChosenIsSender
<1>7. PICK t \in w.topics : w.sns[t].endpoint = "right"
  <2>1. PICK c \in Holding(w) : c.id = "subscription"
    BY <1>2, <1>3
  <2> QED
    BY <1>1, <2>1, HoldingSays DEF Says
<1>8. \A s \in w.topics : s = t
  BY <1>1, <1>4, OneTopic
<1>9. ASSUME NEW k \in kinds
      PROVE  /\ w.sets[k].found /\ w.sets[k].sending
             /\ \A type \in EventTypes : Arrives(w, k, type)
  <2>1. k \in Kinds
    BY DEF Kinds
  <2>2. <<"exists", k>> \in required /\ <<"events", k>> \in required
    BY DEF RequiredIds
  <2>3. PICK c \in Holding(w) : c.id = "exists" /\ c.of = k
    BY <1>2, <2>1, <2>2
  <2>4. PICK d \in Holding(w) : d.id = "events" /\ d.of = k
    BY <1>2, <2>1, <2>2
  <2>5. w.sets[k].found /\ w.sets[k].sending
    BY <2>3, HoldingSays DEF Says
  <2>6. EventTypes \subseteq ToConfiguredTopic(w, k)
    BY <2>4, HoldingSays DEF Says
  <2>7. EventTypes \subseteq w.sets[k].publishes[t]
    BY <1>8, <2>6 DEF ToConfiguredTopic
  <2> QED
    BY <1>7, <2>5, <2>7 DEF Arrives
<1>10. ASSUME final
       PROVE  w.feedback
  <2>1. PICK c \in Holding(w) : c.id = "latest_feedback"
    BY <1>2, <1>3, <1>10
  <2> QED
    BY <2>1, HoldingSays DEF Says
<1> QED
  BY <1>4, <1>5, <1>6, <1>9, <1>10 DEF IsReady

\* The words that the checks of a deployment with one topic are told apart by.
Parts == {"config", "db", "account", "identity", "transactional", "marketing", ATopic}

\* A check that holds, of one of these.
Fine(c) == c = Check(c.id, c.of, TRUE) /\ c.of \in Parts

\* A check that is made with TRUE is fine.
LEMMA CheckIsFine ==
    \A i, of : of \in Parts => Fine(Check(i, of, TRUE))
BY DEF Fine, Check

\* A topic is none of the other words, so that fine checks with one id are one check.
LEMMA FineIsOnce ==
    ASSUME NEW c, NEW d, Fine(c), Fine(d), Id(c) = Id(d)
    PROVE  c = d
<1>1. /\ c = Check(c.id, c.of, TRUE) /\ c.of \in Parts
      /\ d = Check(d.id, d.of, TRUE) /\ d.of \in Parts
  BY DEF Fine
<1>2. c.id = d.id /\ (IF c.of \in Topics THEN "sns" ELSE c.of)
                        = IF d.of \in Topics THEN "sns" ELSE d.of
  BY DEF Id
<1>3. \A of \in Parts : of \in Topics <=> of = ATopic
  BY TopicsAssumption DEF Parts, ATopic
<1>4. \A of \in Parts \ {ATopic} : of # "sns"
  BY DEF Parts
<1>5. c.of = d.of
  BY <1>1, <1>2, <1>3, <1>4
<1> QED
  BY <1>1, <1>2, <1>5

\* There is a topic.
LEMMA ATopicIsTopic == ATopic \in Topics
BY TopicsAssumption DEF ATopic

LEMMA ReadyConfig ==
    ASSUME NEW w, w = Ready({ATopic})
    PROVE  /\ \A c \in ConfigChecks(w) : \E s : c = Check(s, "config", TRUE)
           /\ \A s \in Settings \cup {"feedback_topics", "public_base_url"} :
                 Check(s, "config", TRUE) \in ConfigChecks(w)
<1> DEFINE topics == w.topics # {}
           base == w.base \in {"right", "other"}
<1>1. \A s \in Settings : (s \notin w.missing) = TRUE
  BY ATopicIsTopic DEF Ready
<1>2. topics = TRUE
  BY ATopicIsTopic DEF Ready
<1>3. base = TRUE
  BY ATopicIsTopic DEF Ready
<1>4. ConfigChecks(w) = {Check(s, "config", s \notin w.missing) : s \in Settings}
                           \cup {Check("feedback_topics", "config", topics)}
                           \cup {Check("public_base_url", "config", base)}
  BY DEF ConfigChecks
<1>5. {Check(s, "config", s \notin w.missing) : s \in Settings}
         = {Check(s, "config", TRUE) : s \in Settings}
  BY <1>1
<1> HIDE DEF topics, base
<1> QED
  BY <1>2, <1>3, <1>4, <1>5

\* And of its database.
LEMMA ReadyOperations ==
    ASSUME NEW w, w = Ready({ATopic})
    PROVE  OperationsChecks(w) = {Check("schema", "db", TRUE), Check("latest_feedback", "db", TRUE)}
<1>1. w.feedback = TRUE
  BY DEF Ready
<1> QED
  BY <1>1 DEF OperationsChecks

\* Of its account.
LEMMA ReadyAccount ==
    ASSUME NEW w, w = Ready({ATopic})
    PROVE  AccountChecks(w) = {Check("production_access", "account", TRUE),
                               Check("sending_enabled", "account", TRUE),
                               Check("enforcement_status", "account", TRUE)}
<1> DEFINE healthy == w.account.enforcement = "HEALTHY"
<1>1. w.account.production = TRUE /\ w.account.sending = TRUE
  BY ATopicIsTopic DEF Ready
<1>2. healthy = TRUE
  BY ATopicIsTopic DEF Ready
<1>3. AccountChecks(w) = {Check("production_access", "account", w.account.production),
                          Check("sending_enabled", "account", w.account.sending),
                          Check("enforcement_status", "account", healthy)}
  BY DEF AccountChecks
<1> HIDE DEF healthy
<1> QED
  BY <1>1, <1>2, <1>3

\* Of its sender.
LEMMA ReadyIdentity ==
    ASSUME NEW w, w = Ready({ATopic})
    PROVE  IdentityChecks(w) = {Check("from_email", "identity", TRUE),
                                Check("dkim", "identity", TRUE)}
<1>1. /\ w.identity["address"].found = TRUE /\ w.identity["address"].verified = TRUE
      /\ w.identity["address"].dkim = TRUE
  BY DEF Ready
<1>2. Chosen(w) = w.identity["address"]
  BY <1>1 DEF Chosen
<1> QED
  BY <1>1, <1>2 DEF IdentityChecks

\* Of each of its configuration sets.
LEMMA ReadySet ==
    ASSUME NEW w, w = Ready({ATopic}), NEW k \in Kinds
    PROVE  SetChecks(w, k) = {Check("exists", k, TRUE), Check("suppression", k, TRUE),
                              Check("events", k, TRUE)}
<1> DEFINE events == EventTypes \subseteq ToConfiguredTopic(w, k)
<1>1. /\ w.sets[k].found = TRUE /\ w.sets[k].sending = TRUE /\ w.sets[k].suppresses = TRUE
      /\ w.sets[k].publishes[ATopic] = EventTypes
  BY ATopicIsTopic DEF Ready, SetUp
<1>2. ToConfiguredTopic(w, k) = EventTypes
  <2>1. w.topics = {ATopic}
    BY DEF Ready
  <2> QED
    BY <1>1, <2>1 DEF ToConfiguredTopic
<1>3. events = TRUE
  BY <1>2
<1>4. SetChecks(w, k) = {Check("exists", k, w.sets[k].sending),
                         Check("suppression", k, w.sets[k].suppresses),
                         Check("events", k, events)}
  BY <1>1 DEF SetChecks
<1> HIDE DEF events
<1> QED
  BY <1>1, <1>3, <1>4

\* And of its topic.
LEMMA ReadyTopic ==
    ASSUME NEW w, w = Ready({ATopic})
    PROVE  TopicChecks(w, ATopic) = {Check("topic_exists", ATopic, TRUE),
                                     Check("subscription", ATopic, TRUE),
                                     Check("signature_version", ATopic, TRUE)}
<1> DEFINE comes == w.sns[ATopic].endpoint # "none" /\ w.sns[ATopic].endpoint = WebhookUrl(w)
<1>1. /\ w.sns[ATopic].found = TRUE /\ w.sns[ATopic].v2 = TRUE
      /\ w.sns[ATopic].endpoint = "right" /\ WebhookUrl(w) = "right"
  BY ATopicIsTopic DEF Ready, WebhookUrl
<1>2. comes = TRUE
  BY <1>1
<1>3. TopicChecks(w, ATopic) = {Check("topic_exists", ATopic, w.sns[ATopic].found),
                                Check("subscription", ATopic, comes)}
                                  \cup {Check("signature_version", ATopic, w.sns[ATopic].v2)}
  BY <1>1 DEF TopicChecks
<1> HIDE DEF comes
<1> QED
  BY <1>1, <1>2, <1>3

\* A deployment with one topic and everything in order is accepted.
LEMMA ReadyIsAccepted ==
    ASSUME NEW marketing \in BOOLEAN, NEW final \in BOOLEAN, NEW w, w = Ready({ATopic})
    PROVE  Accepted(w, marketing, final)
<1>1. /\ ATopic \in Topics /\ w.missing = {} /\ w.topics = {ATopic}
      /\ w.account.reachable
  BY ATopicIsTopic DEF Ready
<1>2. WebhookUrl(w) = "right"
  BY ATopicIsTopic DEF Ready, WebhookUrl
<1>3. ASSUME NEW c
      PROVE  c \in AwsChecks(w) <=>
               \/ c = Check("credentials", "account", TRUE) \/ c \in AccountChecks(w)
               \/ c \in IdentityChecks(w)
               \/ \E k \in Kinds : c \in SetChecks(w, k)
               \/ c \in TopicChecks(w, ATopic)
  BY <1>1, AwsParts
<1>4. ASSUME NEW c \in Checks(w)
      PROVE  Fine(c)
  <2>1. Kinds \subseteq Parts /\ {"config", "db", "account", "identity", ATopic} \subseteq Parts
    BY DEF Kinds, Parts
  <2>2. CASE c \in ConfigChecks(w)
    <3>1. \E i : c = Check(i, "config", TRUE)
      BY <2>2, ReadyConfig
    <3> QED
      BY <2>1, <3>1, CheckIsFine
  <2>3. CASE c \in OperationsChecks(w)
    <3>1. \E i : c = Check(i, "db", TRUE)
      BY <2>3, ReadyOperations
    <3> QED
      BY <2>1, <3>1, CheckIsFine
  <2>4. CASE c = Check("credentials", "account", TRUE)
    BY <2>1, <2>4, CheckIsFine
  <2>5. CASE c \in AccountChecks(w)
    <3>1. \E i : c = Check(i, "account", TRUE)
      BY <2>5, ReadyAccount
    <3> QED
      BY <2>1, <3>1, CheckIsFine
  <2>6. CASE c \in IdentityChecks(w)
    <3>1. \E i : c = Check(i, "identity", TRUE)
      BY <2>6, ReadyIdentity
    <3> QED
      BY <2>1, <3>1, CheckIsFine
  <2>7. ASSUME NEW k \in Kinds, c \in SetChecks(w, k)
        PROVE  Fine(c)
    <3>1. \E i : c = Check(i, k, TRUE)
      BY <2>7, ReadySet
    <3> QED
      BY <2>1, <3>1, CheckIsFine
  <2>8. CASE c \in TopicChecks(w, ATopic)
    <3>1. \E i : c = Check(i, ATopic, TRUE)
      BY <2>8, ReadyTopic
    <3> QED
      BY <2>1, <3>1, CheckIsFine
  <2> QED
    BY <1>3, <2>2, <2>3, <2>4, <2>5, <2>6, <2>7, <2>8 DEF Checks
<1>5. NoIdTwice(Checks(w))
  BY <1>4, FineIsOnce DEF NoIdTwice
<1> DEFINE holding == {Id(c) : c \in {d \in Checks(w) : d.ok}}
<1>6. ASSUME NEW i, NEW of, of \notin Topics, Check(i, of, TRUE) \in Checks(w)
      PROVE  <<i, of>> \in holding
  <2>1. Check(i, of, TRUE).ok /\ Id(Check(i, of, TRUE)) = <<i, of>>
    BY <1>6 DEF Check, Id
  <2> QED
    BY <1>6, <2>1
<1>7. ASSUME NEW i, Check(i, ATopic, TRUE) \in Checks(w)
      PROVE  <<i, "sns">> \in holding
  <2>1. Check(i, ATopic, TRUE).ok /\ Id(Check(i, ATopic, TRUE)) = <<i, "sns">>
    BY <1>1 DEF Check, Id
  <2> QED
    BY <1>7, <2>1
<1> HIDE DEF holding
<1>8. \A of \in Parts \ {ATopic} : of \notin Topics
  BY TopicsAssumption DEF Parts
<1>9. {"config", "db", "account", "identity"} \cup Kinds \subseteq Parts \ {ATopic}
  BY <1>1, TopicsAssumption DEF Parts, Kinds
<1>10. \A i \in Settings \cup {"feedback_topics"} : <<i, "config">> \in holding
  BY <1>6, <1>8, <1>9, ReadyConfig DEF Checks
<1>11. <<"schema", "db">> \in holding /\ <<"latest_feedback", "db">> \in holding
  BY <1>6, <1>8, <1>9, ReadyOperations DEF Checks
<1>12. \A i \in {"credentials", "production_access", "sending_enabled", "enforcement_status"} :
          <<i, "account">> \in holding
  <2>1. \A i \in {"credentials", "production_access", "sending_enabled", "enforcement_status"} :
           Check(i, "account", TRUE) \in AwsChecks(w)
    BY <1>3, ReadyAccount
  <2> QED
    BY <1>6, <1>8, <1>9, <2>1 DEF Checks
<1>13. \A i \in {"from_email", "dkim"} : <<i, "identity">> \in holding
  <2>1. \A i \in {"from_email", "dkim"} : Check(i, "identity", TRUE) \in AwsChecks(w)
    BY <1>3, ReadyIdentity
  <2> QED
    BY <1>6, <1>8, <1>9, <2>1 DEF Checks
<1>14. \A i \in {"topic_exists", "subscription", "signature_version"} : <<i, "sns">> \in holding
  <2>1. \A i \in {"topic_exists", "subscription", "signature_version"} :
           Check(i, ATopic, TRUE) \in AwsChecks(w)
    BY <1>3, ReadyTopic
  <2> QED
    BY <1>7, <2>1 DEF Checks
<1>15. \A k \in Kinds, i \in {"exists", "suppression", "events"} : <<i, k>> \in holding
  <2>1. \A k \in Kinds, i \in {"exists", "suppression", "events"} :
           Check(i, k, TRUE) \in SetChecks(w, k)
    BY ReadySet
  <2>2. \A k \in Kinds, i \in {"exists", "suppression", "events"} :
           Check(i, k, TRUE) \in AwsChecks(w)
    BY <1>3, <2>1
  <2> QED
    BY <1>6, <1>8, <1>9, <2>2 DEF Checks
<1>16. RequiredIds(marketing, final) \subseteq holding
  BY <1>10, <1>11, <1>12, <1>13, <1>14, <1>15 DEF RequiredIds, Settings, Kinds
<1> QED
  BY <1>2, <1>5, <1>16 DEF Accepted, holding

\* The worlds of the run are such worlds: the one that is ready is.
LEMMA ReadyIsWorld ==
    ASSUME NEW topics \in SUBSET Topics
    PROVE  Ready(topics) \in World
<1>1. SetUp \in AnySet
  BY DEF SetUp, AnySet
<1>2. [found |-> TRUE, verified |-> TRUE, dkim |-> TRUE] \in Identities
  BY DEF Identities
<1>3. [found |-> TRUE, v2 |-> TRUE, endpoint |-> "right"] \in AnyTopic
  BY DEF AnyTopic
<1>4. [reachable |-> TRUE, production |-> TRUE, sending |-> TRUE,
       enforcement |-> "HEALTHY"] \in AnyAccount
  BY DEF AnyAccount
<1> QED
  BY <1>1, <1>2, <1>3, <1>4 DEF Ready, World

\* Those that differ in what becomes of events.
LEMMA RoutesAreWorlds == Routes \subseteq World
<1> DEFINE Ss == [Topics -> [found: {TRUE}, v2: {TRUE}, endpoint: {"none", "right", "other"}]]
           Bs == {"right", "missing", "other"}
           Ps == [Topics -> SUBSET EventTypes]
           Changed(topics, b, s, p) ==
              [Ready(topics) EXCEPT !.base = b, !.sns = s,
                                    !.sets["transactional"].publishes = p]
<1>1. Routes = {Changed(topics, b, s, p) :
                   topics \in SUBSET Topics, b \in Bs, s \in Ss, p \in Ps}
  BY DEF Routes
<1>2. ASSUME NEW r \in World, NEW b \in {"right", "missing", "other"},
             NEW s \in [Topics -> AnyTopic], NEW p \in [Topics -> SUBSET EventTypes]
      PROVE  [r EXCEPT !.base = b, !.sns = s, !.sets["transactional"].publishes = p] \in World
  <2>1. [r.sets["transactional"] EXCEPT !.publishes = p] \in AnySet
    BY DEF World, AnySet, Kinds
  <2> QED
    BY <2>1 DEF World
<1>3. Ss \subseteq [Topics -> AnyTopic]
  BY DEF AnyTopic
<1> HIDE DEF Ss
<1>4. ASSUME NEW topics \in SUBSET Topics, NEW b \in Bs, NEW s \in Ss, NEW p \in Ps
      PROVE  Changed(topics, b, s, p) \in World
  BY <1>2, <1>3, ReadyIsWorld
<1> HIDE DEF Changed, Bs, Ps
<1> QED
  BY <1>1, <1>4

\* Those that differ in the settings and the account.
LEMMA ConfigurationsAreWorlds == Configurations \subseteq World
<1> DEFINE Changed(m, a, f) ==
              [Ready({ATopic}) EXCEPT !.missing = m, !.account = a, !.feedback = f]
<1>1. Configurations = {Changed(m, a, f) : m \in SUBSET Settings, f \in BOOLEAN, a \in AnyAccount}
  BY DEF Configurations, AnyAccount
<1>2. ASSUME NEW m \in SUBSET Settings, NEW f \in BOOLEAN, NEW a \in AnyAccount,
             NEW r \in World
      PROVE  [r EXCEPT !.missing = m, !.account = a, !.feedback = f] \in World
  BY DEF World
<1>3. ASSUME NEW m \in SUBSET Settings, NEW f \in BOOLEAN, NEW a \in AnyAccount
      PROVE  Changed(m, a, f) \in World
  BY <1>2, ATopicIsTopic, ReadyIsWorld
<1> HIDE DEF Changed
<1> QED
  BY <1>1, <1>3

\* Those that differ in the sender.
LEMMA SendersAreWorlds == Senders \subseteq World
<1> DEFINE Changed(i, v, f) ==
              [Ready({ATopic}) EXCEPT !.identity = i, !.sns[ATopic].v2 = v,
                                      !.sns[ATopic].found = f]
<1>1. Senders = {Changed(i, v, f) :
                    i \in [{"address", "domain"} -> Identities], v \in BOOLEAN, f \in BOOLEAN}
  BY DEF Senders
<1>2. ASSUME NEW i \in [{"address", "domain"} -> Identities], NEW v \in BOOLEAN,
             NEW f \in BOOLEAN, NEW r \in World
      PROVE  [r EXCEPT !.identity = i, !.sns[ATopic].v2 = v, !.sns[ATopic].found = f] \in World
  <2>1. PICK x : x = [r EXCEPT !.identity = i]
    OBVIOUS
  <2>2. x \in World
    BY <2>1 DEF World
  <2>3. PICK y : y = [x EXCEPT !.sns[ATopic].v2 = v]
    OBVIOUS
  <2>4. y \in World
    <3>1. [x.sns[ATopic] EXCEPT !.v2 = v] \in AnyTopic
      BY <2>2, ATopicIsTopic DEF World, AnyTopic
    <3> QED
      BY <2>2, <2>3, <3>1 DEF World
  <2>5. [y EXCEPT !.sns[ATopic].found = f] \in World
    <3>1. [y.sns[ATopic] EXCEPT !.found = f] \in AnyTopic
      BY <2>4, ATopicIsTopic DEF World, AnyTopic
    <3> QED
      BY <2>4, <3>1 DEF World
  <2>6. [r EXCEPT !.identity = i, !.sns[ATopic].v2 = v, !.sns[ATopic].found = f]
           = [y EXCEPT !.sns[ATopic].found = f]
    BY <2>1, <2>3
  <2> QED
    BY <2>5, <2>6
<1>3. ASSUME NEW i \in [{"address", "domain"} -> Identities], NEW v \in BOOLEAN,
             NEW f \in BOOLEAN
      PROVE  Changed(i, v, f) \in World
  BY <1>2, ATopicIsTopic, ReadyIsWorld
<1> HIDE DEF Changed
<1> QED
  BY <1>1, <1>3

\* Those that differ in a configuration set.
LEMMA SetsAreWorlds == ConfigurationSets \subseteq World
<1> DEFINE Changed(k, s) == [Ready({ATopic}) EXCEPT !.sets[k] = s]
<1>1. ConfigurationSets = {Changed(k, s) : k \in Kinds, s \in AnySet}
  BY DEF ConfigurationSets, AnySet
<1>2. ASSUME NEW r \in World, NEW k \in Kinds, NEW s \in AnySet
      PROVE  [r EXCEPT !.sets[k] = s] \in World
  BY DEF World
<1>3. ASSUME NEW k \in Kinds, NEW s \in AnySet
      PROVE  Changed(k, s) \in World
  BY <1>2, ATopicIsTopic, ReadyIsWorld
<1> HIDE DEF Changed
<1> QED
  BY <1>1, <1>3

\* So each world that the run asks about is a world.
LEMMA WorldsAreWorlds == Worlds \subseteq World
BY RoutesAreWorlds, ConfigurationsAreWorlds, SendersAreWorlds, SetsAreWorlds DEF Worlds

-------------------------------------------------------------------------------
(* The service as a whole                                                  *)

\* What setup asks about is a world.
ReadinessInv == asked \subseteq World

IInv == KeysInv /\ StartInv /\ MailingsInv /\ LimiterInv /\ ReadinessInv

\* Nothing is there before the first start.
LEMMA InitInv == AccessInit => IInv
<1> SUFFICES ASSUME AccessInit
             PROVE  IInv
  OBVIOUS
<1>1. KeysInv
  <2>1. /\ keys = [made |-> 0, row |-> [k \in Keys |-> NoKey]] /\ Made = {}
        /\ requests = [q \in Requests |-> NoRequest]
        /\ grants = [g \in Grants |-> NoGrant] /\ polls = [p \in Polls |-> None]
        /\ local = [key |-> None, login |-> None]
    BY DEF AccessInit, KeysInit, AuthInit, Made
  <2>2. NoKey \in Key /\ 0 \in 0..MaxKeys
    BY KeyBoundsAssumption DEF NoKey, Key, Owner, None
  <2>3. KeysTypeOK /\ AuthTypeOK
    BY <2>1, <2>2 DEF KeysTypeOK, AuthTypeOK, NoRequest, NoGrant, Grant, None, Owner
  <2>4. KeysAreKnown /\ KeysDescend /\ OneKeyPerGrant
    BY <2>1 DEF KeysAreKnown, KeysDescend, OneKeyPerGrant, Actors, Is, NoRequest, Owner, None
  <2> QED
    BY <2>3, <2>4 DEF KeysInv
<1>2. StartInv
  <2>1. /\ schema = [applied |-> [v \in Migrations |-> 0], recorded |-> {}]
        /\ users = {} /\ starters = [s \in Starters |-> Stopped] /\ serving = FALSE
    BY DEF AccessInit, StartInit
  <2>2. StartTypeOK
    BY <2>1 DEF StartTypeOK, Stopped
  <2>3. MigratedOnce /\ \A s \in Starters : StarterKnows(s)
    BY <2>1 DEF MigratedOnce, StarterKnows, Now, Stopped
  <2> QED
    BY <2>1, <2>2, <2>3, StartersAssumption DEF StartInv
<1>3. MailingsInv
  <2>1. /\ mailings = [made |-> <<>>, row |-> NoRow] /\ writer = NoClient
        /\ calls = [c \in Clients |-> [pc |-> "idle", answer |-> NoAnswer]]
    BY DEF AccessInit, MailingsInit
  <2>2. /\ mailings.made = <<>> /\ mailings.row = 0 /\ Len(mailings.made) = 0
        /\ <<>> \in Seq({Body[c] : c \in Clients})
    BY <2>1 DEF NoRow
  <2>3. MailingsTypeOK
    BY <2>1, <2>2, MailingBoundsAssumption DEF MailingsTypeOK, NoAnswer, Conflict, NoRow
  <2> QED
    BY <2>1, <2>2, <2>3, MailingBoundsAssumption DEF MailingsInv, Call
<1>4. LimiterInv /\ ReadinessInv
  BY LimiterStarts DEF AccessInit, ReadinessInit, ReadinessInv
<1> QED
  BY <1>1, <1>2, <1>3, <1>4 DEF IInv

\* A part whose variables do not change keeps its invariant.
LEMMA UnchangedKeepsParts ==
    /\ KeysInv /\ UNCHANGED <<keyVars, authVars>> => KeysInv'
    /\ StartInv /\ UNCHANGED startVars => StartInv'
    /\ MailingsInv /\ UNCHANGED mailingVars => MailingsInv'
    /\ LimiterInv /\ UNCHANGED limiterVars => LimiterInv'
    /\ ReadinessInv /\ UNCHANGED asked => ReadinessInv'
<1>1. ASSUME KeysInv, UNCHANGED <<keyVars, authVars>>
      PROVE  KeysInv'
  <2>1. UNCHANGED <<keys, requests, grants, polls, local>> /\ Made' = Made /\ Actors' = Actors
    BY <1>1 DEF keyVars, authVars, Made, Actors
  <2>2. KeysTypeOK' /\ AuthTypeOK' /\ KeysAreKnown' /\ KeysDescend' /\ OneKeyPerGrant'
    BY <1>1, <2>1 DEF KeysInv, KeysTypeOK, AuthTypeOK, KeysAreKnown, Is, KeysDescend,
                      OneKeyPerGrant
  <2> QED
    BY <2>2 DEF KeysInv
<1>2. ASSUME StartInv, UNCHANGED startVars
      PROVE  StartInv'
  BY <1>2 DEF startVars, StartInv, StartTypeOK, MigratedOnce, StarterKnows, Now
<1>3. ASSUME MailingsInv, UNCHANGED mailingVars
      PROVE  MailingsInv'
  BY <1>3 DEF mailingVars, MailingsInv, MailingsTypeOK, Call
<1>4. ASSUME LimiterInv, UNCHANGED limiterVars
      PROVE  LimiterInv'
  <2>1. UNCHANGED <<log, answers>> /\ LastCall' = LastCall
    BY <1>4 DEF limiterVars, LastCall
  <2>2. \A k \in Sources : {AttemptOf(m) : m \in CountedOf(k, LastCall)}'
                                = {AttemptOf(m) : m \in CountedOf(k, LastCall)}
    BY <2>1 DEF CountedOf, Counted, AttemptOf
  <2>3. /\ answers' \in Seq(AnyCall)
        /\ \A m, n \in 1..Len(answers') : m <= n => answers'[m].at <= answers'[n].at
    <3>1. answers \in Seq(AnyCall)
          /\ \A m, n \in 1..Len(answers) : m <= n => answers[m].at <= answers[n].at
      BY <1>4 DEF LimiterInv
    <3> QED
      BY <2>1, <3>1
  <2>4. LimiterIsExact'
    <3>1. LimiterIsExact
      BY <1>4 DEF LimiterInv
    <3> QED
      BY <2>1, <3>1 DEF LimiterIsExact
  <2>5. log' = [k \in Sources |-> {AttemptOf(m) : m \in CountedOf(k, LastCall)}']
    <3>1. log = [k \in Sources |-> {AttemptOf(m) : m \in CountedOf(k, LastCall)}]
      BY <1>4 DEF LimiterInv
    <3> QED
      BY <2>1, <2>2, <3>1
  <2> QED
    BY <2>3, <2>4, <2>5 DEF LimiterInv
<1>5. ASSUME ReadinessInv, UNCHANGED asked
      PROVE  ReadinessInv'
  BY <1>5 DEF ReadinessInv
<1> QED
  BY <1>1, <1>2, <1>3, <1>4, <1>5

\* Setup asks about any settings of the service and any state of AWS.
AskOfAny == \E w \in World : asked' = {w}

\* The service and its users without the bounds of ServiceAccess on who may act when.
FreeNext ==
    \/ StartService
    \/ AuthNext /\ UNCHANGED <<startVars, mailingVars, limiterVars, asked>>
    \/ KeysNext /\ UNCHANGED <<startVars, authVars, mailingVars, limiterVars, asked>>
    \/ MailingsNext /\ UNCHANGED <<startVars, keyVars, authVars, limiterVars, asked>>
    \/ LimiterNext /\ UNCHANGED <<startVars, keyVars, authVars, mailingVars, asked>>
    \/ AskOfAny /\ UNCHANGED <<startVars, keyVars, authVars, mailingVars, limiterVars>>

FreeSpec == AccessInit /\ [][FreeNext]_accessVars

\* Each step is one of the parts, and the others keep their invariants.
LEMMA NextInv == IInv /\ [FreeNext]_accessVars => IInv'
<1> SUFFICES ASSUME IInv, [FreeNext]_accessVars
             PROVE  IInv'
  OBVIOUS
<1>1. KeysInv /\ StartInv /\ MailingsInv /\ LimiterInv /\ ReadinessInv
  BY DEF IInv
<1>2. CASE StartService
  BY <1>1, <1>2, StartNextKeepsStart, UnchangedKeepsParts DEF StartService, IInv
<1>3. CASE AuthNext /\ UNCHANGED <<startVars, mailingVars, limiterVars, asked>>
  BY <1>1, <1>3, AuthNextKeepsKeys, UnchangedKeepsParts DEF IInv
<1>4. CASE KeysNext /\ UNCHANGED <<startVars, authVars, mailingVars, limiterVars, asked>>
  BY <1>1, <1>4, KeysNextKeepsKeys, UnchangedKeepsParts DEF IInv
<1>5. CASE MailingsNext /\ UNCHANGED <<startVars, keyVars, authVars, limiterVars, asked>>
  BY <1>1, <1>5, MailingsNextKeepsMailings, UnchangedKeepsParts DEF IInv
<1>6. CASE LimiterNext /\ UNCHANGED <<startVars, keyVars, authVars, mailingVars, asked>>
  BY <1>1, <1>6, LimiterNextKeepsLimiter, UnchangedKeepsParts DEF IInv
<1>7. CASE AskOfAny /\ UNCHANGED <<startVars, keyVars, authVars, mailingVars, limiterVars>>
  <2>1. ReadinessInv'
    BY <1>7 DEF AskOfAny, ReadinessInv
  <2> QED
    BY <1>1, <1>7, <2>1, UnchangedKeepsParts DEF IInv
<1>8. CASE UNCHANGED accessVars
  <2>1. UNCHANGED <<startVars, keyVars, authVars, mailingVars, limiterVars, asked>>
    BY <1>8 DEF accessVars
  <2> QED
    BY <1>1, <2>1, UnchangedKeepsParts DEF IInv
<1> QED
  BY <1>2, <1>3, <1>4, <1>5, <1>6, <1>7, <1>8 DEF FreeNext

\* The inductive invariant holds in every state the service and its users reach.
THEOREM Invariance == FreeSpec => []IInv
BY InitInv, NextInv, PTL DEF FreeSpec

\* What holds without the bounds holds of what the run checks.
THEOREM BoundedIsFree == AccessSpec => FreeSpec
<1>1. [AccessNext]_accessVars => [FreeNext]_accessVars
  <2> SUFFICES ASSUME AccessNext
               PROVE  FreeNext
    OBVIOUS
  <2>1. CASE StartService
    BY <2>1 DEF FreeNext
  <2>2. CASE Using(AuthorizeDevices)
    BY <2>2 DEF Using, AuthorizeDevices, FreeNext
  <2>3. CASE Using(UseKeys)
    BY <2>3 DEF Using, UseKeys, AuthNext, FreeNext
  <2>4. CASE Using(RequestMailings)
    BY <2>4 DEF Using, RequestMailings, FreeNext
  <2>5. CASE Using(AskService)
    <3>1. AskReadiness => AskOfAny
      BY WorldsAreWorlds DEF AskReadiness, AskOfAny
    <3> QED
      BY <2>5, <3>1 DEF Using, AskService, FreeNext
  <2> QED
    BY <2>1, <2>2, <2>3, <2>4, <2>5 DEF AccessNext, UseService, Using
<1> QED
  BY <1>1, PTL DEF AccessSpec, FreeSpec

\* The rows of keys and authorizations, what migrations and bootstraps leave, and the requests
\* for mailings are always of their types.
THEOREM TypeCorrect ==
    FreeSpec => [](KeysTypeOK /\ AuthTypeOK /\ StartTypeOK /\ MailingsTypeOK)
<1>1. IInv => KeysTypeOK /\ AuthTypeOK /\ StartTypeOK /\ MailingsTypeOK
  BY DEF IInv, KeysInv, StartInv, MailingsInv
<1> QED
  BY <1>1, Invariance, PTL

\* api-keys/service.ts: however requests and rotations interleave, a key has one successor at
\* most, which holds what it held, and no key holds more than the key that made it.
THEOREM KeysAlwaysDescend == FreeSpec => []KeysDescend
<1>1. IInv => KeysDescend
  BY DEF IInv, KeysInv
<1> QED
  BY <1>1, Invariance, PTL

\* device-auth/service.ts: however polls, approvals, denials and expiry interleave, an
\* authorization yields one key at most, and only one that was approved and not denied.
THEOREM OneKeyForEachGrant == FreeSpec => []OneKeyPerGrant
<1>1. IInv => OneKeyPerGrant
  BY DEF IInv, KeysInv
<1> QED
  BY <1>1, Invariance, PTL

\* db/migrate.ts and auth/bootstrap.ts: however many processes migrate and bootstrap at once
\* and die, each migration is applied once and in order, there is one owner at most, and what
\* serves has the owner its deployment names.
THEOREM AlwaysStartedOnce == FreeSpec => []StartedOnce
<1>1. IInv => StartedOnce
  <2> SUFFICES ASSUME StartInv
               PROVE  Cardinality(users) <= 1
    BY DEF IInv, StartInv, StartedOnce
  <2>1. PICK email \in Emails : users = {} \/ users = {email}
    BY DEF StartInv
  <2>2. Cardinality({}) = 0 /\ Cardinality({email}) = 1
    BY FS_EmptySet, FS_Singleton
  <2> QED
    BY <2>1, <2>2
<1> QED
  BY <1>1, Invariance, PTL

\* mailings/idempotency.ts: however requests with one Idempotency-Key race, fail and are sent
\* again, one mailing is made at most, and a client is told of no mailing but its own.
THEOREM OneMailingForEachKey == FreeSpec => []OneMailingPerKey
<1>1. IInv => OneMailingPerKey
  <2> SUFFICES ASSUME MailingsInv
               PROVE  OneMailingPerKey
    BY DEF IInv
  <2>1. mailings.made \in Seq({Body[c] : c \in Clients}) /\ Len(mailings.made) <= 1
        /\ Len(mailings.made) <= MaxMailings /\ MaxMailings \in Nat
        /\ Len(mailings.made) \in Nat /\ DOMAIN mailings.made = 1..Len(mailings.made)
    BY MailingBoundsAssumption, LenProperties DEF MailingsInv, MailingsTypeOK
  <2>2. NoAnswer \notin DOMAIN mailings.made /\ Conflict \notin DOMAIN mailings.made
    BY <2>1 DEF NoAnswer, Conflict
  <2> QED
    BY <2>1, <2>2 DEF MailingsInv, OneMailingPerKey
<1> QED
  BY <1>1, Invariance, PTL

\* device-auth/attempt-limiter.ts: however many keys ask, at whatever times, an attempt is
\* allowed, and a key not locked, when and only when the attempts counted in the window leave
\* room for it.
THEOREM LimiterAlwaysExact == FreeSpec => []LimiterIsExact
<1>1. IInv => LimiterIsExact
  BY DEF IInv, LimiterInv
<1> QED
  BY <1>1, Invariance, PTL

\* aws/readiness.ts and validate/pure.ts: whatever the settings of the service and the state of
\* AWS, for any number of topics, a deployment that setup accepts sends and hears of each
\* bounce and complaint, and one with a single topic and everything in order is accepted.
THEOREM AcceptedAlwaysReady == FreeSpec => []AcceptedIsReady
<1>1. ASSUME ReadinessInv, NEW w \in asked, NEW marketing \in BOOLEAN, NEW final \in BOOLEAN
      PROVE  /\ Accepted(w, marketing, final) => IsReady(w, marketing, final)
             /\ w = Ready({ATopic}) => Accepted(w, marketing, final)
  <2>1. w \in World
    BY <1>1 DEF ReadinessInv
  <2> QED
    BY <2>1, AcceptedWorldIsReady, ReadyIsAccepted
<1>2. IInv => AcceptedIsReady
  BY <1>1 DEF IInv, AcceptedIsReady, IsReady
<1> QED
  BY <1>2, Invariance, PTL
===============================================================================
