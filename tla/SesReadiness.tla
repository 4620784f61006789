----------------------------- MODULE SesReadiness -----------------------------
(***************************************************************************)
(* The readiness of a deployment to send: the checks of the service        *)
(* (src/apps/service/src/aws/readiness.ts) over its configuration          *)
(* (config.ts) and over AWS, and what `nusend-setup validate readiness`    *)
(* accepts of them (src/apps/setup-cli/src/validate).  The checks are an   *)
(* operator on a world: the settings of the service and what its calls to  *)
(* AWS answer.  The event types REJECT and DELIVERY_DELAY are required as  *)
(* BOUNCE and COMPLAINT are, and left out, and so are the tracking of      *)
(* opens and clicks and a call that fails for a moment, which is an error  *)
(* where a resource that is not there is a warning.                        *)
(***************************************************************************)
EXTENDS Naturals

CONSTANT Topics     \* the SNS topics that may be configured

\* A topic is an ARN, which is none of the words that checks are told apart by.
ASSUME TopicsAssumption ==
    /\ Topics # {}
    /\ \A of \in {"config", "db", "account", "identity", "transactional", "marketing"} :
          of \notin Topics

VARIABLE asked      \* the world of the readiness setup asks for, once it asks

Kinds == {"transactional", "marketing"}
EventTypes == {"BOUNCE", "COMPLAINT"}

Check(id, of, holds) == [id |-> id, of |-> of, ok |-> holds]
NoIdentity == [found |-> FALSE, verified |-> FALSE, dkim |-> FALSE]

-------------------------------------------------------------------------------
\* deploymentConfig and the checks of it: a setting that is missing is an issue of the same id.
Settings == {"region", "from", "transactional", "marketing", "unsubscribe"}

ConfigChecks(w) ==
    {Check(s, "config", s \notin w.missing) : s \in Settings}
        \cup {Check("feedback_topics", "config", w.topics # {})}
        \cup {Check("public_base_url", "config", w.base \in {"right", "other"})}

\* expectedWebhookUrl: of the public base URL, if there is a valid one.
WebhookUrl(w) == IF w.base \in {"right", "other"} THEN w.base ELSE "none"

\* The tables are migrated; what the service has received is another required check only in
\* the final readiness.
OperationsChecks(w) == {Check("schema", "db", TRUE), Check("latest_feedback", "db", w.feedback)}

\* The checks of the account
AccountChecks(w) ==
    {Check("production_access", "account", w.account.production),
     Check("sending_enabled", "account", w.account.sending),
     Check("enforcement_status", "account", w.account.enforcement = "HEALTHY")}

\* identityChecks: the address if it is verified, or else its domain if that is, or else
\* whichever is found, the address first.
Chosen(w) ==
    LET Is(i) == w.identity[i].found
        Verified(i) == Is(i) /\ w.identity[i].verified
    IN CASE Verified("address") -> w.identity["address"]
         [] ~Verified("address") /\ Verified("domain") -> w.identity["domain"]
         [] ~Verified("address") /\ ~Verified("domain") /\ Is("address") -> w.identity["address"]
         [] OTHER -> w.identity["domain"]

IdentityChecks(w) ==
    {Check("from_email", "identity", Chosen(w).verified),
     Check("dkim", "identity", Chosen(w).dkim)}

\* The types that the set publishes to a configured topic.
ToConfiguredTopic(w, k) == UNION {w.sets[k].publishes[t] : t \in w.topics}

\* configurationSetChecks and configurationSetSuppressionCheck
SetChecks(w, k) ==
    IF ~w.sets[k].found THEN {Check("exists", k, FALSE)}
    ELSE {Check("exists", k, w.sets[k].sending),
          Check("suppression", k, w.sets[k].suppresses),
          Check("events", k, EventTypes \subseteq ToConfiguredTopic(w, k))}

\* The checks of one topic and of its confirmed subscriptions.
TopicChecks(w, t) ==
    {Check("topic_exists", t, w.sns[t].found),
     Check("subscription", t, w.sns[t].endpoint # "none" /\ w.sns[t].endpoint = WebhookUrl(w))}
        \cup (IF w.sns[t].found THEN {Check("signature_version", t, w.sns[t].v2)} ELSE {})

\* awsChecks: nothing is asked without a region, and no more when the account is not reached.
AwsChecks(w) ==
    IF "region" \in w.missing \/ ~w.account.reachable
    THEN {Check("credentials", "account", FALSE)}
    ELSE {Check("credentials", "account", TRUE)} \cup AccountChecks(w)
             \cup (IF "from" \in w.missing THEN {} ELSE IdentityChecks(w))
             \cup (UNION {SetChecks(w, k) : k \in Kinds \ w.missing})
             \cup (UNION {TopicChecks(w, t) : t \in w.topics})

\* runSesReadinessChecks
Checks(w) == ConfigChecks(w) \cup OperationsChecks(w) \cup AwsChecks(w)

\* A check as setup sees it: the checks of one kind of configuration set have ids of their
\* own, those of topics share theirs.
Id(c) == <<c.id, IF c.of \in Topics THEN "sns" ELSE c.of>>

-------------------------------------------------------------------------------
\* requiredReadinessIds; the public base URL is compared and not required.
RequiredIds(marketing, final) ==
    {<<i, "config">> : i \in {"region", "from", "transactional", "feedback_topics"}}
        \cup {<<"schema", "db">>, <<"credentials", "account">>}
        \cup {<<i, "account">> : i \in {"production_access", "sending_enabled",
                                        "enforcement_status"}}
        \cup {<<i, "identity">> : i \in {"from_email", "dkim"}}
        \cup {<<i, "sns">> : i \in {"topic_exists", "signature_version", "subscription"}}
        \cup ({"exists", "suppression", "events"}
                 \X (IF marketing THEN Kinds ELSE {"transactional"}))
        \cup (IF marketing THEN {<<"marketing", "config">>, <<"unsubscribe", "config">>} ELSE {})
        \cup (IF final THEN {<<"latest_feedback", "db">>} ELSE {})

\* Slip: any check with an id stands for all of them.
AnyWithId(checks) == TRUE

\* assertReadinessPayload refuses an id that comes twice.
NoIdTwice(checks) == \A c, d \in checks : Id(c) = Id(d) => c = d

\* runReadinessValidation and assertReadinessPayload
Accepted(w, marketing, final) ==
    LET checks == Checks(w)
    IN /\ WebhookUrl(w) = "right"
       /\ NoIdTwice(checks)
       /\ RequiredIds(marketing, final) \subseteq {Id(c) : c \in {d \in checks : d.ok}}

-------------------------------------------------------------------------------
(* The worlds: one that is ready, changed in one group of respects at a time. *)

SetUp == [found |-> TRUE, sending |-> TRUE, suppresses |-> TRUE,
          publishes |-> [t \in Topics |-> EventTypes]]

ATopic == CHOOSE t \in Topics : TRUE

Ready(topics) ==
    [missing |-> {}, topics |-> topics, base |-> "right", feedback |-> TRUE,
     account |-> [reachable |-> TRUE, production |-> TRUE, sending |-> TRUE,
                  enforcement |-> "HEALTHY"],
     identity |-> [i \in {"address", "domain"} |-> [found |-> TRUE, verified |-> TRUE,
                                                    dkim |-> TRUE]],
     sets |-> [k \in Kinds |-> SetUp],
     sns |-> [t \in Topics |-> [found |-> TRUE, v2 |-> TRUE, endpoint |-> "right"]]]

Routes ==
    {[Ready(topics) EXCEPT !.base = b, !.sns = s,
                           !.sets["transactional"].publishes = p] :
        topics \in SUBSET Topics, b \in {"right", "missing", "other"},
        s \in [Topics -> [found: {TRUE}, v2: {TRUE}, endpoint: {"none", "right", "other"}]],
        p \in [Topics -> SUBSET EventTypes]}

Configurations ==
    {[Ready({ATopic}) EXCEPT !.missing = m, !.account = a, !.feedback = f] :
        m \in SUBSET Settings, f \in BOOLEAN,
        a \in [reachable: BOOLEAN, production: BOOLEAN, sending: BOOLEAN,
               enforcement: {"HEALTHY", "PROBATION", "SHUTDOWN"}]}

Identities == {NoIdentity} \cup [found: {TRUE}, verified: BOOLEAN, dkim: BOOLEAN]

Senders ==
    {[Ready({ATopic}) EXCEPT !.identity = i, !.sns[ATopic].v2 = v, !.sns[ATopic].found = f] :
        i \in [{"address", "domain"} -> Identities], v, f \in BOOLEAN}

ConfigurationSets ==
    {[Ready({ATopic}) EXCEPT !.sets[k] = s] :
        k \in Kinds,
        s \in [found: BOOLEAN, sending: BOOLEAN, suppresses: BOOLEAN,
               publishes: [Topics -> SUBSET EventTypes]]}

Worlds == Routes \cup Configurations \cup Senders \cup ConfigurationSets

ReadinessInit == asked = {}

\* fetchReadiness; bound: once.
AskReadiness == asked = {} /\ \E w \in Worlds : asked' = {w}

\* SES signs with the address if it is verified, and else with its domain.
Sender(w) == IF w.identity["address"].verified THEN "address" ELSE "domain"

\* Every event of the type reaches this service.
Arrives(w, k, type) ==
    \E t \in w.topics : type \in w.sets[k].publishes[t] /\ w.sns[t].endpoint = "right"

\* validate/pure.test.ts: "rejects missing, duplicate, and non-ok required readiness checks":
\* what is accepted is ready.  The account sends, the identity that SES will use is verified
\* and has its own DKIM, and each bounce and complaint of each kind in use is published
\* through a topic with a confirmed subscription of this service, so that no recipient who
\* bounced or complained stays unsuppressed.  And a world with one topic and everything in
\* order is accepted.
AcceptedIsReady ==
    \A w \in asked, marketing, final \in BOOLEAN :
        /\ Accepted(w, marketing, final) =>
              /\ w.account.sending /\ w.account.enforcement = "HEALTHY"
              /\ w.identity[Sender(w)].verified /\ w.identity[Sender(w)].dkim
              /\ \A k \in IF marketing THEN Kinds ELSE {"transactional"} :
                    /\ w.sets[k].found /\ w.sets[k].sending
                    /\ \A type \in EventTypes : Arrives(w, k, type)
              /\ final => w.feedback
        /\ w = Ready({ATopic}) => Accepted(w, marketing, final)
===============================================================================
