-------------------------------- MODULE ApiKeys --------------------------------
(***************************************************************************)
(* The API keys of the service (src/apps/service/src/api-keys).  A request *)
(* is verified when it begins, by a session of the owner or by a key, and  *)
(* does its work later: a revocation reads the key and revokes it in two   *)
(* statements, a creation is one, a rotation one transaction (module       *)
(* DatabaseService).  Permissions are abstracted to two sets, of which one *)
(* is wider; the keys that make requests hold api_keys:write.  Bound: no   *)
(* key expires.                                                            *)
(***************************************************************************)
EXTENDS Naturals

CONSTANTS
    MaxKeys,    \* bound: keys that are ever made
    MaxGrants,  \* bound: device authorizations that are ever started (module DeviceAuth)
    Requests    \* requests that may be under way at one time

ASSUME KeyBoundsAssumption == MaxKeys \in Nat \ {0} /\ MaxGrants \in Nat

VARIABLES
    keys,       \* the rows of api_keys
    requests    \* the requests under way

keyVars == <<keys, requests>>

Keys == 1..MaxKeys
Owner == 0      \* the actor with a session
None == 0       \* no key, no device authorization

Key == [wide: BOOLEAN, by: {Owner} \cup Keys, from: {None} \cup Keys, grant: 0..MaxGrants,
        revoked: BOOLEAN]
NoKey == [wide |-> FALSE, by |-> Owner, from |-> None, grant |-> None, revoked |-> TRUE]
NoRequest == [pc |-> "none", actor |-> Owner, key |-> None]

KeysInit ==
    /\ keys = [made |-> 0, row |-> [k \in Keys |-> NoKey]]
    /\ requests = [q \in Requests |-> NoRequest]

Made == 1..keys.made
Live(k) == ~keys.row[k].revoked

\* enforceSubset: a session holds every permission, a key its own.
Holds(actor, wide) == IF actor = Owner THEN TRUE ELSE wide => keys.row[actor].wide

\* service.create, whoever calls it; revoked are the keys that the transaction revokes with it.
Insert(wide, by, from, grant) ==
    /\ keys.made < MaxKeys
    /\ LET new == [wide |-> wide, by |-> by, from |-> from, grant |-> grant,
                   revoked |-> FALSE]
       IN keys' = [made |-> keys.made + 1,
                   row |-> [k \in Keys |->
                              IF k = keys.made + 1 THEN new
                              ELSE IF k = from THEN [keys.row[k] EXCEPT !.revoked = TRUE]
                              ELSE keys.row[k]]]

Ends(q) == requests' = [requests EXCEPT ![q] = NoRequest]
Is(q, pc) == requests[q].pc = pc

-------------------------------------------------------------------------------
\* requirePrincipal: the key is verified before the body of the request is read.
Verify(q) ==
    /\ Is(q, "none")
    /\ \E actor \in {Owner} \cup {k \in Made : Live(k)} :
          requests' = [requests EXCEPT ![q] = [pc |-> "verified", actor |-> actor,
                                               key |-> None]]
    /\ UNCHANGED keys

CreateKey(q) ==
    /\ Is(q, "verified") /\ Ends(q)
    /\ \E wide \in BOOLEAN :
          /\ Holds(requests[q].actor, wide)
          /\ Insert(wide, requests[q].actor, None, None)

FindForRevoke(q) ==
    /\ Is(q, "verified") /\ UNCHANGED keys
    /\ \E k \in Made :
          /\ Live(k) /\ Holds(requests[q].actor, keys.row[k].wide)
          /\ requests' = [requests EXCEPT ![q] = [pc |-> "found", actor |-> requests[q].actor,
                                                  key |-> k]]

\* The row is not asked again whether it is still to be revoked.
Revoke(q) ==
    /\ Is(q, "found") /\ Ends(q)
    /\ keys' = [keys EXCEPT !.row[requests[q].key].revoked = TRUE]

\* Slip: a key is rotated whether or not it is revoked.
AnyKey(k) == k \in Made

\* findForRotate
Rotatable(k) == k \in Made /\ Live(k)

\* Slip: the permissions of the new key are held against the owner's.
OwnerHolds(actor, wide) == TRUE

\* The actor of a rotation must hold what the key has.
MayRotate(actor, wide) == Holds(actor, wide)

Rotate(q) ==
    /\ Is(q, "verified") /\ Ends(q)
    /\ \E k \in Keys :
          /\ Rotatable(k) /\ MayRotate(requests[q].actor, keys.row[k].wide)
          /\ Insert(keys.row[k].wide, requests[q].actor, k, None)

\* The request is refused, or its process ends.
RequestFails(q) == ~Is(q, "none") /\ Ends(q) /\ UNCHANGED keys

KeysNext ==
    \E q \in Requests :
        \/ Verify(q) \/ CreateKey(q) \/ FindForRevoke(q) \/ Revoke(q) \/ Rotate(q)
        \/ RequestFails(q)

KeysTypeOK ==
    /\ keys \in [made: 0..MaxKeys, row: [Keys -> Key]]
    /\ requests \in [Requests -> [pc: {"none", "verified", "found"}, actor: {Owner} \cup Keys,
                                  key: {None} \cup Keys]]

-------------------------------------------------------------------------------
\* api-keys/routes.test.ts: a rotation replaces one key by one: whatever requests run beside
\* it, a key has at most one successor, which holds what it held, and is revoked.  And
\* "Requested permissions exceed the current API key": by no sequence of creations and
\* rotations do requests with a key make one that holds more than it.
KeysDescend ==
    \A k \in Made :
        /\ keys.row[k].from # None =>
              /\ keys.row[k].from < k
              /\ keys.row[keys.row[k].from].revoked
              /\ keys.row[keys.row[k].from].wide = keys.row[k].wide
              /\ \A j \in Made : keys.row[j].from = keys.row[k].from => j = k
        /\ keys.row[k].by # Owner /\ keys.row[k].wide => keys.row[keys.row[k].by].wide
===============================================================================
