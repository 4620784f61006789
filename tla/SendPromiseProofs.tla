--------------------------- MODULE SendPromiseProofs ---------------------------
(***************************************************************************)
(* The send workers implement DeliveryPromise: every step of SendWorker is *)
(* a step of the abstract specification or leaves what it sees unchanged.  *)
(* And they send as in Consent: if the gates let no suppressed recipient   *)
(* pass, what a step does to the deliveries is a step of that module.      *)
(***************************************************************************)
EXTENDS SendWorkerProofs

LEMMA PromiseInit == Init => Promise!Init
<1> SUFFICES ASSUME Init
             PROVE  Promise!Init
  OBVIOUS
<1>1. PICK queued \in SUBSET Deliveries :
        /\ delivery = [d \in Deliveries |->
                        NewDelivery(IF d \in queued THEN "queued" ELSE "suppressed")]
        /\ mailing = [m \in Mailings |-> "scheduled"]
  BY DEF Init, TablesInit
<1>2. PromisedOutcome \in [Deliveries -> {"pending", "suppressed"}]
  BY <1>1 DEF PromisedOutcome, IsTerminal, TerminalStatus, NewDelivery
<1>3. AcceptedDeliveries = {}
  BY DEF Init, AcceptedDeliveries
<1>4. CompletedMailings = {}
  BY <1>1 DEF CompletedMailings
<1> QED
  BY <1>2, <1>3, <1>4 DEF Promise!Init

\* When the rows of the other deliveries stay, the outcome changes at this one only.
LEMMA OutcomeChange ==
    ASSUME NEW d \in Deliveries,
           \A e \in Deliveries \ {d} : delivery'[e] = delivery[e]
    PROVE  PromisedOutcome' =
             [PromisedOutcome EXCEPT ![d] =
                IF delivery'[d].status \in TerminalStatus
                THEN delivery'[d].status ELSE "pending"]
<1>1. PromisedOutcome' = [e \in Deliveries |->
                            IF delivery'[e].status \in TerminalStatus
                            THEN delivery'[e].status ELSE "pending"]
  BY DEF PromisedOutcome, IsTerminal
<1>2. PromisedOutcome = [e \in Deliveries |->
                           IF delivery[e].status \in TerminalStatus
                           THEN delivery[e].status ELSE "pending"]
  BY DEF PromisedOutcome, IsTerminal
<1> QED
  BY <1>1, <1>2

LEMMA SameOutcome ==
    ASSUME UNCHANGED delivery
    PROVE  UNCHANGED PromisedOutcome
  BY DEF PromisedOutcome, IsTerminal

LEMMA PairWritePromise ==
    ASSUME TypeOK, NEW d \in Deliveries, AcceptedInv(d), PairWrite(d),
           UNCHANGED <<AcceptedDeliveries, CompletedMailings>>
    PROVE  Promise!Next \/ UNCHANGED Promise!promiseVars
<1> DEFINE now == PromisedOutcome[d]
           then == IF delivery'[d].status \in TerminalStatus
                   THEN delivery'[d].status ELSE "pending"
<1>1. PromisedOutcome' = [PromisedOutcome EXCEPT ![d] = then]
  BY PairWriteRows, OutcomeChange
<1>2. /\ now = IF delivery[d].status \in TerminalStatus
               THEN delivery[d].status ELSE "pending"
      /\ PromisedOutcome = [PromisedOutcome EXCEPT ![d] = now]
  BY DEF PromisedOutcome, IsTerminal
<1>3. d \in AcceptedDeliveries <=> accepted[d] # {}
  BY DEF AcceptedDeliveries
<1>4. CASE then = now
  BY <1>1, <1>2, <1>4 DEF Promise!promiseVars
<1>5. CASE now = "pending" /\ then \in {"failed", "suppressed"} /\ accepted[d] = {}
  BY <1>1, <1>3, <1>5 DEF Promise!Next, Promise!GiveUp
<1>6. CASE now = "pending" /\ then = "ambiguous"
  BY <1>1, <1>6 DEF Promise!Next, Promise!LoseTrack
<1>7. CASE now \in {"pending", "ambiguous"} /\ then = "sent" /\ accepted[d] # {}
  BY <1>1, <1>3, <1>7 DEF Promise!Next, Promise!Send
<1>8. CASE StartSendAttempt(d)
  <2>1. delivery[d].status = "queued" /\ delivery'[d].status = "sending"
    <3>1. StartWrites(d)
      BY <1>8, StartRows
    <3> QED
      BY <1>8, <3>1 DEF StartWrites, StartSendAttempt, CanStart
  <2> QED
    BY <1>2, <1>4, <2>1 DEF TerminalStatus
<1>9. CASE MarkDeliveryFailedForDeadJob(d)
  <2>1. delivery[d].status = "queued" /\ delivery'[d].status = "failed"
    BY <1>9 DEF MarkDeliveryFailedForDeadJob, CanFailForDeadJob, TypeOK, TablesTypeOK,
                DeliveryRow
  <2>2. accepted[d] = {}
    BY <2>1 DEF AcceptedInv
  <2> QED
    BY <1>2, <1>5, <2>1, <2>2 DEF TerminalStatus
<1>10. CASE \E n \in Nat : RecordSendSuccess(d, n) /\ accepted[d] = {n}
  <2>1. PICK n \in Nat : RecordSendSuccess(d, n) /\ accepted[d] = {n}
    BY <1>10
  <2>2. /\ delivery[d].status \in {"sending", "ambiguous"}
        /\ delivery'[d].status = "sent"
    <3>1. SuccessWrites(d, n)
      BY <2>1, SuccessRows
    <3> QED
      BY <3>1 DEF SuccessWrites
  <2> QED
    BY <1>2, <1>7, <2>1, <2>2 DEF TerminalStatus
<1>11. CASE \E n \in Nat : RecordFailure(d, n, "ambiguous", "ambiguous")
  <2>1. PICK n \in Nat : RecordFailure(d, n, "ambiguous", "ambiguous")
    BY <1>11
  <2>2. FailureWrites(d, n, "ambiguous", "ambiguous")
    BY <2>1, FailureRows DEF DeliveryStatus, TerminalStatus
  <2>3. delivery[d].status = "sending" /\ delivery'[d].status = "ambiguous"
    BY <2>2 DEF FailureWrites
  <2> QED
    BY <1>2, <1>6, <2>3 DEF TerminalStatus
<1>12. CASE \E n \in Nat, s \in {"queued", "failed", "suppressed"} :
               RecordFailure(d, n, "failed", s) /\ accepted[d] = {}
  <2>1. PICK n \in Nat, s \in {"queued", "failed", "suppressed"} :
                RecordFailure(d, n, "failed", s) /\ accepted[d] = {}
    BY <1>12
  <2>2. s \in DeliveryStatus
    BY DEF DeliveryStatus, TerminalStatus
  <2>3. FailureWrites(d, n, "failed", s)
    BY <2>1, <2>2, FailureRows
  <2>4. delivery[d].status = "sending" /\ delivery'[d].status = s
    BY <2>3 DEF FailureWrites
  <2>5. CASE s = "queued"
    BY <1>2, <1>4, <2>4, <2>5 DEF TerminalStatus
  <2>6. CASE s \in {"failed", "suppressed"}
    BY <1>2, <1>5, <2>1, <2>4, <2>6 DEF TerminalStatus
  <2> QED
    BY <2>5, <2>6
<1> QED
  BY <1>8, <1>9, <1>10, <1>11, <1>12 DEF PairWrite

LEMMA WriteMailingPromise ==
    ASSUME IInv, NEW w \in Workers, WriteMailing(w)
    PROVE  Promise!Next \/ UNCHANGED Promise!promiseVars
<1> DEFINE m == MailingOf[Current(w)]
           note == worker[w].note
<1>1. UNCHANGED <<PromisedOutcome, AcceptedDeliveries>>
  BY SameOutcome DEF WriteMailing, AcceptedDeliveries
<1>2. /\ Current(w) \in Deliveries /\ m \in Mailings
      /\ note = "completed" => AllTerminal(m)
      /\ mailing \in [Mailings -> MailingState]
  BY MailingOfAssumption DEF IInv, WriteMailing, At, WorkerInv, Busy, TypeOK, TablesTypeOK
<1>3. \/ UNCHANGED mailing
      \/ CanRefreshTo(m, note) /\ mailing' = [mailing EXCEPT ![m] = note]
  BY DEF WriteMailing, RefreshMailingState
<1>4. CASE UNCHANGED mailing
  BY <1>1, <1>4 DEF Promise!promiseVars, CompletedMailings
<1>5. CASE CanRefreshTo(m, note) /\ mailing' = [mailing EXCEPT ![m] = note]
  <2>1. mailing[m] # "completed"
    BY <1>5 DEF CanRefreshTo
  <2>2. CASE note = "completed"
    <3>1. m \notin CompletedMailings /\ CompletedMailings' = CompletedMailings \cup {m}
      BY <1>2, <1>5, <2>1, <2>2 DEF CompletedMailings
    <3>2. \A d \in Deliveries : MailingOf[d] = m => PromisedOutcome[d] # "pending"
      BY <1>2, <2>2 DEF AllTerminal, DeliveriesOf, PromisedOutcome, IsTerminal,
                        TerminalStatus
    <3> QED
      BY <1>1, <1>2, <3>1, <3>2 DEF Promise!Next, Promise!Complete
  <2>3. CASE note # "completed"
    <3>1. CompletedMailings' = CompletedMailings
      BY <1>2, <1>5, <2>1, <2>3 DEF CompletedMailings
    <3> QED
      BY <1>1, <3>1 DEF Promise!promiseVars
  <2> QED
    BY <2>2, <2>3
<1> QED
  BY <1>3, <1>4, <1>5

LEMMA CallTransportPromise ==
    ASSUME IInv, NEW w \in Workers, CallTransport(w)
    PROVE  Promise!Next \/ UNCHANGED Promise!promiseVars
<1> DEFINE d == Current(w)
<1>1. /\ TypeOK /\ d \in Deliveries /\ accepted[d] = {}
      /\ InFlightPair(d, worker[w].attempt)
  BY DEF IInv, CallTransport, At, WorkerInv, Busy, InFlight
<1>2. delivery[d].status \in {"sending", "ambiguous"}
  BY <1>1, InFlightFacts
<1>3. UNCHANGED <<PromisedOutcome, CompletedMailings>>
  BY SameOutcome DEF CallTransport, tables, CompletedMailings
<1>4. PICK accepts \in BOOLEAN :
        accepted' = IF accepts
                    THEN [accepted EXCEPT ![d] = @ \cup {worker[w].attempt}]
                    ELSE accepted
  BY DEF CallTransport
<1>5. CASE ~accepts
  BY <1>3, <1>4, <1>5 DEF Promise!promiseVars, AcceptedDeliveries
<1>6. CASE accepts
  <2>1. d \notin AcceptedDeliveries /\ AcceptedDeliveries' = AcceptedDeliveries \cup {d}
    BY <1>1, <1>4, <1>6 DEF AcceptedDeliveries, TypeOK
  <2>2. PromisedOutcome[d] \in {"pending", "ambiguous"}
    BY <1>1, <1>2 DEF PromisedOutcome, IsTerminal, TerminalStatus
  <2> QED
    BY <1>1, <1>3, <2>1, <2>2 DEF Promise!Next, Promise!Accept
<1> QED
  BY <1>5, <1>6

LEMMA PromiseStep ==
    ASSUME IInv, [Next]_vars
    PROVE  [Promise!Next]_(Promise!promiseVars)
<1>1. /\ TypeOK /\ \A w \in Workers : WorkerInv(w)
      /\ \A d \in Deliveries : AcceptedInv(d)
      /\ mailing \in [Mailings -> MailingState]
  BY DEF IInv, TypeOK, TablesTypeOK
<1>2. CASE UNCHANGED vars
  BY <1>2, SameOutcome
     DEF vars, tables, Promise!promiseVars, AcceptedDeliveries, CompletedMailings
<1>3. ASSUME Next, UNCHANGED <<accepted, CompletedMailings>>
      PROVE  Promise!Next \/ UNCHANGED Promise!promiseVars
  <2>1. UNCHANGED AcceptedDeliveries
    BY <1>3 DEF AcceptedDeliveries
  <2>2. CASE UNCHANGED delivery
    BY <1>3, <2>1, <2>2, SameOutcome DEF Promise!promiseVars
  <2>3. ASSUME NEW d \in Deliveries, PairWrite(d)
        PROVE  Promise!Next \/ UNCHANGED Promise!promiseVars
    BY <1>1, <1>3, <2>1, <2>3, PairWritePromise
  <2> QED
    BY <1>1, <1>3, <2>2, <2>3, PairWrites
<1>4. ASSUME NEW w \in Workers, NEW d \in Deliveries, StartDelivery(w, d)
      PROVE  UNCHANGED CompletedMailings
  BY <1>1, <1>4 DEF StartDelivery, StartSendAttempt, MarkMailingSending, CompletedMailings
<1>5. CASE Next
  <2>1. \/ \E w \in Workers : WriteMailing(w) \/ CallTransport(w)
        \/ UNCHANGED <<accepted, CompletedMailings>>
    BY <1>4, <1>5, StepKinds
       DEF Next, Quiet, tables, ReleaseLeases, ClaimJobs, RepairDeadJobDelivery, StartDelivery,
           MarkStale, RecordOutcome, SettleSuccess, SettleFailure, TimePasses,
           CompletedMailings
  <2> QED
    BY <1>3, <1>5, <2>1, WriteMailingPromise, CallTransportPromise
<1> QED
  BY <1>2, <1>5

\* What processSendDeliveryJob and runSendWorkerOnce do to a delivery, whatever the
\* interleaving and the crashes, is what DeliveryPromise allows.
THEOREM PromiseKept == Spec => KeepsPromise
  BY PromiseInit, PromiseStep, Invariance, PTL DEF Spec, KeepsPromise, Promise!Spec

-------------------------------------------------------------------------------
(* Consent has a coarser view of the sending of a message, with which it   *)
(* decides who may be mailed.  Every step of the workers is one of the     *)
(* steps it has for a delivery, or completes a mailing, or is not seen.    *)

\* What a worker with this memory is about to do with its delivery.
Standing(memory) ==
    IF memory.pc = "gates" THEN "gate"
    ELSE IF memory.pc = "record" /\ memory.note \in PreDispatch THEN "stop"
    ELSE IF \/ memory.pc = "dispatch"
            \/ memory.pc = "record" /\ memory.note \in {"rejected", "throttled"} THEN "call"
    ELSE "none"

Engages(memory, d) == memory.current = d /\ Standing(memory) # "none"
Engaged(memories, d) == {w \in Workers : Engages(memories[w], d)}
StandingOf(memories, d) ==
    IF Engaged(memories, d) = {} THEN "none"
    ELSE Standing(memories[CHOOSE w \in Engaged(memories, d) : TRUE])

SettledStatus(d) == IF IsTerminal(d) THEN "settled" ELSE delivery[d].status

\* Who the recipients are, and whether they may be mailed, does not change here: an address
\* stands for the delivery to it.
SeenMailing ==
    [m \in Mailings |-> [state |-> IF mailing[m] = "completed" THEN "completed" ELSE "active",
                         purpose |-> "marketing", list |-> "none", source |-> "none"]]
SeenDelivery ==
    [m \in Mailings |-> [d \in Deliveries |->
        IF MailingOf[d] = m
        THEN [status |-> SettledStatus(d), worker |-> StandingOf(worker, d), contact |-> "none"]
        ELSE [status |-> "none", worker |-> "none", contact |-> "none"]]]
SeenMailed == {md \in Mailings \X Deliveries :
                   MailingOf[md[2]] = md[1] /\ md[2] \in AcceptedDeliveries}
seen == <<SeenMailing, SeenDelivery, SeenMailed>>

InConsent == INSTANCE Consent WITH
    Emails <- Deliveries, Lists <- {}, Contacts <- {}, Requests <- {}, ManualScopes <- {},
    FeedbackReasons <- {}, NoContact <- "none", NoList <- "none", NoMailing <- "none",
    NoEmail <- "none", suppression <- <<>>, list <- <<>>, contact <- <<>>, member <- <<>>,
    request <- <<>>, withdrawn <- <<>>,
    mailing <- SeenMailing, delivery <- SeenDelivery, mailed <- SeenMailed

PassesGates(d) == StandingOf(worker, d) = "gate" /\ StandingOf(worker', d) = "call"

\* Whichever recipients are suppressed when the gates read it: if none of those passes the
\* gates, the step is one of Consent.
StepOfConsent ==
    \A suppressed \in [Deliveries -> BOOLEAN] :
        (\A d \in Deliveries : suppressed[d] => ~PassesGates(d)) =>
            \/ \E m \in Mailings, d \in Deliveries :
                  InConsent!DeliveryStep(m, d, suppressed[d])
            \/ \E m \in Mailings : InConsent!CompleteMailing(m)

LEMMA StandsInFlight ==
    ASSUME NEW memory, memory.pc \notin InFlight
    PROVE  Standing(memory) = "none"
  BY DEF Standing, InFlight

LEMMA OnlyEngaged ==
    ASSUME NEW memories, NEW d, NEW w \in Workers,
           \A v \in Workers \ {w} : ~Engages(memories[v], d)
    PROVE  StandingOf(memories, d) =
             IF memories[w].current = d THEN Standing(memories[w]) ELSE "none"
<1>1. CASE Engages(memories[w], d)
  <2>1. Engaged(memories, d) = {w}
    BY <1>1 DEF Engaged
  <2>2. (CHOOSE v \in Engaged(memories, d) : TRUE) = w
    BY <2>1
  <2> QED
    BY <1>1, <2>1, <2>2 DEF StandingOf, Engages
<1>2. CASE ~Engages(memories[w], d)
  <2>1. Engaged(memories, d) = {}
    BY <1>2 DEF Engaged
  <2> QED
    BY <1>2, <2>1 DEF StandingOf, Engages
<1> QED
  BY <1>1, <1>2

LEMMA EngagedElsewhere ==
    ASSUME NEW w \in Workers, NEW memory, worker' = [worker EXCEPT ![w] = memory], TypeOK,
           NEW e, ~Engages(worker[w], e), ~Engages(memory, e)
    PROVE  StandingOf(worker', e) = StandingOf(worker, e)
<1>1. worker'[w] = memory /\ \A v \in Workers \ {w} : worker'[v] = worker[v]
  BY DEF TypeOK
<1>2. Engaged(worker', e) = Engaged(worker, e) /\ w \notin Engaged(worker, e)
  BY <1>1 DEF Engaged
<1>3. CASE Engaged(worker, e) = {}
  BY <1>2, <1>3 DEF StandingOf
<1>4. CASE Engaged(worker, e) # {}
  <2> DEFINE v == CHOOSE v \in Engaged(worker, e) : TRUE
  <2>1. v \in Engaged(worker, e)
    BY <1>4
  <2>2. worker'[v] = worker[v]
    BY <1>1, <1>2, <2>1 DEF Engaged
  <2>3. StandingOf(worker, e) = Standing(worker[v]) /\ StandingOf(worker', e) = Standing(worker'[v])
    BY <1>2, <1>4 DEF StandingOf
  <2> QED
    BY <2>2, <2>3
<1> QED
  BY <1>3, <1>4

LEMMA SeenRow ==
    ASSUME NEW d \in Deliveries
    PROVE  /\ MailingOf[d] \in Mailings
           /\ SeenDelivery[MailingOf[d]][d].status = SettledStatus(d)
           /\ SeenDelivery[MailingOf[d]][d].worker = StandingOf(worker, d)
           /\ SeenDelivery[MailingOf[d]][d].contact = "none"
  BY MailingOfAssumption DEF SeenDelivery

\* A step that disturbs one delivery is seen as a write of its row.
LEMMA SeenWrite ==
    ASSUME NEW d \in Deliveries, NEW status, NEW standing,
           SettledStatus(d)' = status, StandingOf(worker', d) = standing,
           \A e \in Deliveries \ {d} : /\ delivery'[e] = delivery[e]
                                       /\ StandingOf(worker', e) = StandingOf(worker, e)
    PROVE  InConsent!WriteDelivery(MailingOf[d], d, status, standing)
<1> DEFINE row(e) == [status |-> SettledStatus(e), worker |-> StandingOf(worker, e),
                      contact |-> "none"]
           new(e) == [status |-> SettledStatus(e)', worker |-> StandingOf(worker', e),
                      contact |-> "none"]
           null == [status |-> "none", worker |-> "none", contact |-> "none"]
           md == MailingOf[d]
<1>1. md \in Mailings /\ SeenDelivery[md][d].contact = "none"
  BY SeenRow
<1>2. \A e \in Deliveries \ {d} : new(e) = row(e)
  BY DEF SettledStatus, IsTerminal
<1>3. SeenDelivery = [m \in Mailings |-> [e \in Deliveries |->
                         IF MailingOf[e] = m THEN row(e) ELSE null]]
  BY DEF SeenDelivery
<1>4. SeenDelivery' = [m \in Mailings |-> [e \in Deliveries |->
                          IF MailingOf[e] = m THEN new(e) ELSE null]]
  BY DEF SeenDelivery
<1> HIDE DEF row, new, null
<1>5. \A m \in Mailings \ {md} : SeenDelivery'[m] = SeenDelivery[m]
  <2> TAKE m \in Mailings \ {md}
  <2>1. \A e \in Deliveries : (IF MailingOf[e] = m THEN new(e) ELSE null)
                              = (IF MailingOf[e] = m THEN row(e) ELSE null)
    BY <1>2
  <2> QED
    BY <1>3, <1>4, <2>1
<1>6. SeenDelivery'[md] = [SeenDelivery[md] EXCEPT ![d] = new(d)]
  <2>1. \A e \in Deliveries : (IF MailingOf[e] = md THEN new(e) ELSE null)
                              = (IF e = d THEN new(d)
                                 ELSE IF MailingOf[e] = md THEN row(e) ELSE null)
    BY <1>2
  <2>2. SeenDelivery'[md] = [e \in Deliveries |-> IF MailingOf[e] = md THEN new(e) ELSE null]
    BY <1>1, <1>4
  <2>3. SeenDelivery[md] = [e \in Deliveries |-> IF MailingOf[e] = md THEN row(e) ELSE null]
    BY <1>1, <1>3
  <2> QED
    BY <2>1, <2>2, <2>3
<1>7. SeenDelivery' = [SeenDelivery EXCEPT ![md] = [SeenDelivery[md] EXCEPT ![d] = new(d)]]
  BY <1>1, <1>3, <1>4, <1>5, <1>6
<1> QED
  BY <1>1, <1>7 DEF InConsent!WriteDelivery, new

LEMMA SeenMail ==
    ASSUME UNCHANGED <<accepted, CompletedMailings>>
    PROVE  UNCHANGED <<SeenMailing, SeenMailed>>
<1>1. \A m \in Mailings : mailing'[m] = "completed" <=> mailing[m] = "completed"
  BY DEF CompletedMailings
<1> QED
  BY <1>1 DEF SeenMailing, SeenMailed, AcceptedDeliveries

LEMMA WorksOn ==
    ASSUME IInv, NEW w \in Workers, worker[w].pc \in InFlight
    PROVE  \E d \in Deliveries : d = Current(w)
  BY DEF IInv, WorkerInv, InFlight, Busy

LEMMA NotingWrites ==
    ASSUME TypeOK, NEW w \in Workers, NEW pc, NEW note, GoNoting(w, pc, note)
    PROVE  /\ worker'[w].pc = pc /\ worker'[w].note = note /\ worker'[w].current = Current(w)
           /\ worker' = [worker EXCEPT ![w] = worker'[w]]
<1>1. worker[w] \in WorkerMemory
  BY DEF TypeOK
<1>2. worker'[w] = [worker[w] EXCEPT !.pc = pc, !.note = note]
  BY DEF GoNoting, TypeOK
<1>3. worker' = [worker EXCEPT ![w] = [worker[w] EXCEPT !.pc = pc, !.note = note]]
  BY DEF GoNoting
<1> QED
  BY <1>1, <1>2, <1>3 DEF WorkerMemory, Current

\* What a step of a worker in the middle of a message changes of who is engaged.
LEMMA EngagedStep ==
    ASSUME IInv, NEW w \in Workers, worker[w].pc \in InFlight,
           worker' = [worker EXCEPT ![w] = worker'[w]],
           worker'[w].current = Current(w) \/ Standing(worker'[w]) = "none"
    PROVE  /\ Current(w) \in Deliveries
           /\ StandingOf(worker, Current(w)) = Standing(worker[w])
           /\ StandingOf(worker', Current(w)) = Standing(worker'[w])
           /\ \A e \in Deliveries \ {Current(w)} :
                 StandingOf(worker', e) = StandingOf(worker, e)
<1> DEFINE d == Current(w)
<1>1. TypeOK /\ OneDispatcher /\ d \in Deliveries /\ worker[w].current = d
  BY DEF IInv, WorkerInv, InFlight, Busy, Current
<1>2. ASSUME NEW v \in Workers \ {w}
      PROVE  ~Engages(worker[v], d) /\ worker'[v] = worker[v]
  <2>1. worker[v].pc \in InFlight => Current(v) # d
    BY <1>1 DEF OneDispatcher, InFlight
  <2>2. worker[v].pc \notin InFlight => Standing(worker[v]) = "none"
    BY StandsInFlight
  <2>3. worker'[v] = worker[v]
    BY <1>1 DEF TypeOK
  <2> QED
    BY <2>1, <2>2, <2>3 DEF Engages, Current
<1>3. StandingOf(worker, d) = Standing(worker[w])
  BY <1>1, <1>2, OnlyEngaged
<1>4. \A v \in Workers \ {w} : ~Engages(worker'[v], d)
  BY <1>2
<1>5. StandingOf(worker', d) = IF worker'[w].current = d THEN Standing(worker'[w]) ELSE "none"
  <2> DEFINE memories == worker'
  <2>1. \A v \in Workers \ {w} : ~Engages(memories[v], d)
    BY <1>4
  <2> HIDE DEF memories
  <2>2. StandingOf(memories, d) = IF memories[w].current = d THEN Standing(memories[w]) ELSE "none"
    BY <2>1, OnlyEngaged
  <2> QED
    BY <2>2 DEF memories
<1>6. ASSUME NEW e \in Deliveries \ {d}
      PROVE  StandingOf(worker', e) = StandingOf(worker, e)
  <2>1. ~Engages(worker[w], e) /\ ~Engages(worker'[w], e)
    BY <1>1 DEF Engages
  <2> QED
    BY <1>1, <2>1, EngagedElsewhere
<1> QED
  BY <1>1, <1>3, <1>5, <1>6

LEMMA IdleStep ==
    ASSUME TypeOK, NEW w \in Workers, worker' = [worker EXCEPT ![w] = worker'[w]],
           worker[w].pc \notin InFlight, worker'[w].pc \notin InFlight, NEW e
    PROVE  StandingOf(worker', e) = StandingOf(worker, e)
<1>1. ~Engages(worker[w], e) /\ ~Engages(worker'[w], e)
  BY StandsInFlight DEF Engages
<1> QED
  BY <1>1, EngagedElsewhere

LEMMA SeesNothing ==
    ASSUME UNCHANGED <<accepted, CompletedMailings>>,
           \A e \in Deliveries : /\ SettledStatus(e)' = SettledStatus(e)
                                 /\ StandingOf(worker', e) = StandingOf(worker, e)
    PROVE  UNCHANGED seen
<1>1. SeenDelivery' = SeenDelivery
  BY DEF SeenDelivery
<1> QED
  BY <1>1, SeenMail DEF seen

\* To be a step of Consent, a step of one delivery may count on the gates.
LEMMA Allowed ==
    ASSUME NEW d \in Deliveries,
           \A suppressed \in BOOLEAN : (suppressed => ~PassesGates(d)) =>
               InConsent!DeliveryStep(MailingOf[d], d, suppressed)
    PROVE  StepOfConsent
<1> SUFFICES ASSUME NEW suppressed \in [Deliveries -> BOOLEAN],
                    \A e \in Deliveries : suppressed[e] => ~PassesGates(e)
             PROVE  \E m \in Mailings, e \in Deliveries :
                       InConsent!DeliveryStep(m, e, suppressed[e])
  BY DEF StepOfConsent
<1>1. suppressed[d] \in BOOLEAN /\ (suppressed[d] => ~PassesGates(d))
  OBVIOUS
<1>2. InConsent!DeliveryStep(MailingOf[d], d, suppressed[d])
  BY <1>1
<1> QED
  BY <1>2, MailingOfAssumption

LEMMA StartSeen ==
    ASSUME IInv, NEW w \in Workers, NEW d \in Deliveries, StartDelivery(w, d)
    PROVE  StepOfConsent
<1>1. TypeOK /\ delivery[d].status = "queued" /\ worker[w].pc = "visit"
  BY DEF IInv, StartDelivery, Takes, At, StartSendAttempt, CanStart
<1>2. /\ delivery'[d].status = "sending"
      /\ \A e \in Deliveries \ {d} : delivery'[e] = delivery[e]
  <2>1. StartSendAttempt(d)
    BY DEF StartDelivery
  <2>2. StartWrites(d)
    BY <1>1, <2>1, StartRows
  <2> QED
    BY <2>2 DEF StartWrites
<1>3. /\ worker'[w].pc = "gates" /\ worker'[w].current = d
      /\ worker' = [worker EXCEPT ![w] = worker'[w]]
  <2>1. worker[w] \in WorkerMemory
    BY <1>1 DEF TypeOK
  <2> QED
    BY <1>1, <2>1 DEF StartDelivery, Taking, TypeOK, WorkerMemory
<1>4. \A v \in Workers : ~Engages(worker[v], d)
  <2> TAKE v \in Workers
  <2>1. CASE worker[v].pc \in InFlight
    <3>1. InFlightPair(Current(v), worker[v].attempt)
      BY <2>1 DEF IInv, WorkerInv
    <3>2. Current(v) # d
      BY <1>1, <3>1 DEF InFlightPair, PairIs
    <3> QED
      BY <3>2 DEF Engages, Current
  <2>2. CASE worker[v].pc \notin InFlight
    BY <2>2, StandsInFlight DEF Engages
  <2> QED
    BY <2>1, <2>2
<1>5. StandingOf(worker', d) = "gate"
  <2> DEFINE memories == worker'
  <2>1. \A v \in Workers \ {w} : ~Engages(memories[v], d)
    BY <1>1, <1>3, <1>4 DEF TypeOK
  <2>2. memories[w].current = d /\ memories[w].pc = "gates"
    BY <1>3
  <2> HIDE DEF memories
  <2>3. StandingOf(memories, d) = Standing(memories[w])
    BY <2>1, <2>2, OnlyEngaged
  <2>4. StandingOf(memories, d) = "gate"
    BY <2>2, <2>3 DEF Standing
  <2> QED
    BY <2>4 DEF memories
<1>6. ASSUME NEW e \in Deliveries \ {d}
      PROVE  StandingOf(worker', e) = StandingOf(worker, e)
  <2>1. ~Engages(worker[w], e) /\ ~Engages(worker'[w], e)
    BY <1>1, <1>3, StandsInFlight DEF Engages, InFlight
  <2> QED
    BY <1>1, <1>3, <2>1, EngagedElsewhere
<1>7. UNCHANGED <<SeenMailing, SeenMailed>>
  <2>1. UNCHANGED <<accepted, CompletedMailings>>
    BY <1>1 DEF StartDelivery, StartSendAttempt, MarkMailingSending, CompletedMailings, TypeOK,
                TablesTypeOK
  <2> QED
    BY <2>1, SeenMail
<1>8. SettledStatus(d) = "queued" /\ SettledStatus(d)' = "sending"
  BY <1>1, <1>2 DEF SettledStatus, IsTerminal, TerminalStatus
<1>9. InConsent!StartDelivery(MailingOf[d], d)
  <2>1. InConsent!WriteDelivery(MailingOf[d], d, "sending", "gate")
    BY <1>2, <1>5, <1>6, <1>8, SeenWrite
  <2> QED
    BY <1>7, <1>8, <2>1, SeenRow
       DEF InConsent!StartDelivery, InConsent!people, InConsent!clicks
<1> QED
  BY <1>9, Allowed DEF InConsent!DeliveryStep

LEMMA SeenMoves ==
    ASSUME NEW d \in Deliveries, NEW status, NEW standing,
           \A e \in Deliveries \ {d} : /\ delivery'[e] = delivery[e]
                                       /\ StandingOf(worker', e) = StandingOf(worker, e),
           StandingOf(worker', d) = standing,
           SettledStatus(d)' = IF SettledStatus(d) = "sending" THEN status
                               ELSE SettledStatus(d)
    PROVE  InConsent!Moves(MailingOf[d], d, standing, status)
<1>1. InConsent!WriteDelivery(MailingOf[d], d, IF SettledStatus(d) = "sending" THEN status
                                               ELSE SettledStatus(d), standing)
  BY SeenWrite
<1>2. SeenDelivery[MailingOf[d]][d].status = SettledStatus(d)
  BY SeenRow
<1> QED
  BY <1>1, <1>2 DEF InConsent!Moves

LEMMA GatesSeen ==
    ASSUME IInv, NEW w \in Workers, DecideDispatch(w)
    PROVE  StepOfConsent
<1>1. TypeOK /\ worker[w].pc = "gates" /\ worker[w].pc \in InFlight
  BY DEF IInv, DecideDispatch, At, InFlight
<1> PICK d \in Deliveries : d = Current(w)
  BY <1>1, WorksOn
<1>2. /\ worker'[w].current = d /\ worker' = [worker EXCEPT ![w] = worker'[w]]
      /\ Standing(worker'[w]) \in {"stop", "call"}
  <2>1. CASE Go(w, "dispatch")
    <3>1. worker[w] \in WorkerMemory
      BY <1>1 DEF TypeOK
    <3>2. worker'[w] = [worker[w] EXCEPT !.pc = "dispatch"]
          /\ worker' = [worker EXCEPT ![w] = worker'[w]]
      BY <1>1, <2>1 DEF Go, TypeOK
    <3>3. worker'[w].current = d /\ worker'[w].pc = "dispatch"
      BY <3>1, <3>2 DEF WorkerMemory, Current
    <3> QED
      BY <3>2, <3>3 DEF Standing
  <2>2. CASE \E decision \in PreDispatch : GoNoting(w, "record", decision)
    <3>1. PICK decision \in PreDispatch : GoNoting(w, "record", decision)
      BY <2>2
    <3>2. /\ worker'[w].pc = "record" /\ worker'[w].note = decision
          /\ worker'[w].current = d /\ worker' = [worker EXCEPT ![w] = worker'[w]]
      BY <1>1, <3>1, NotingWrites
    <3> QED
      BY <3>2 DEF Standing
  <2> QED
    BY <2>1, <2>2 DEF DecideDispatch
<1>3. /\ d \in Deliveries
      /\ StandingOf(worker, d) = "gate"
      /\ StandingOf(worker', d) \in {"stop", "call"}
      /\ \A e \in Deliveries \ {d} : StandingOf(worker', e) = StandingOf(worker, e)
  <2>1. Standing(worker[w]) = "gate"
    BY <1>1 DEF Standing
  <2> QED
    BY <1>1, <1>2, <2>1, EngagedStep
<1>4. UNCHANGED <<delivery, SeenMailing, SeenMailed>>
  BY SeenMail DEF DecideDispatch, tables, CompletedMailings
<1>5. PICK standing \in {"stop", "call"} : StandingOf(worker', d) = standing
  BY <1>3
<1>6. SeenDelivery[MailingOf[d]][d].worker = "gate"
  BY <1>3, SeenRow
<1>7. InConsent!Moves(MailingOf[d], d, standing, "sending")
  <2>1. SettledStatus(d)' = SettledStatus(d)
    BY <1>4 DEF SettledStatus, IsTerminal
  <2> QED
    BY <1>3, <1>4, <1>5, <2>1, SeenMoves
<1>8. ASSUME NEW suppressed \in BOOLEAN, suppressed => ~PassesGates(d)
      PROVE  InConsent!RunPolicyGates(MailingOf[d], d, suppressed)
  <2>1. standing = "call" => ~suppressed
    BY <1>3, <1>5, <1>8 DEF PassesGates
  <2> QED
    BY <1>4, <1>5, <1>6, <1>7, <2>1
       DEF InConsent!RunPolicyGates, InConsent!people, InConsent!clicks
<1> QED
  BY <1>3, <1>8, Allowed DEF InConsent!DeliveryStep

\* A worker that was engaged lets go of its delivery without having sent the message.
LEMMA StopSeen ==
    ASSUME IInv, NEW w \in Workers, worker[w].pc \in InFlight,
           worker' = [worker EXCEPT ![w] = worker'[w]],
           Standing(worker[w]) # "none", Standing(worker'[w]) = "none",
           UNCHANGED <<accepted, CompletedMailings>>,
           \A e \in Deliveries \ {Current(w)} : delivery'[e] = delivery[e],
           \/ delivery'[Current(w)] = delivery[Current(w)]
           \/ /\ Standing(worker[w]) \in {"stop", "call"}
              /\ delivery[Current(w)].status = "sending"
              /\ delivery'[Current(w)].status \in {"queued"} \cup TerminalStatus
    PROVE  StepOfConsent
<1> PICK d \in Deliveries : d = Current(w)
  BY WorksOn
<1>1. /\ StandingOf(worker, d) = Standing(worker[w])
      /\ StandingOf(worker', d) = "none"
      /\ \A e \in Deliveries \ {d} : StandingOf(worker', e) = StandingOf(worker, e)
  BY EngagedStep
<1>2. UNCHANGED <<SeenMailing, SeenMailed>>
  BY SeenMail
<1>3. SeenDelivery[MailingOf[d]][d].worker = Standing(worker[w])
  BY <1>1, SeenRow
<1>4. CASE delivery'[d] = delivery[d]
  <2>1. SettledStatus(d)' = SettledStatus(d)
    BY <1>4 DEF SettledStatus, IsTerminal
  <2>2. InConsent!Moves(MailingOf[d], d, "none", "sending")
    BY <1>1, <2>1, SeenMoves
  <2>3. InConsent!StopWithoutSending(MailingOf[d], d)
    BY <1>2, <1>3, <2>2 DEF InConsent!StopWithoutSending, InConsent!people, InConsent!clicks
  <2> QED
    BY <1>1, <2>3, Allowed DEF InConsent!DeliveryStep
<1>5. CASE /\ Standing(worker[w]) \in {"stop", "call"}
           /\ delivery[d].status = "sending"
           /\ delivery'[d].status \in {"queued"} \cup TerminalStatus
  <2>1. PICK status \in {"queued", "settled"} :
            SettledStatus(d) = "sending" /\ SettledStatus(d)' = status
    BY <1>5 DEF SettledStatus, IsTerminal, TerminalStatus
  <2>2. InConsent!Moves(MailingOf[d], d, "none", status)
    BY <1>1, <2>1, SeenMoves
  <2>3. InConsent!StopWithoutSending(MailingOf[d], d)
    BY <1>2, <1>3, <1>5, <2>1, <2>2
       DEF InConsent!StopWithoutSending, InConsent!people, InConsent!clicks
  <2> QED
    BY <1>1, <2>3, Allowed DEF InConsent!DeliveryStep
<1> QED
  BY <1>4, <1>5

\* A delivery ends while nobody starts or stops to be engaged in one.
LEMMA SettleSeen ==
    ASSUME NEW d \in Deliveries,
           UNCHANGED <<accepted, CompletedMailings>>,
           \A e \in Deliveries : StandingOf(worker', e) = StandingOf(worker, e),
           \A e \in Deliveries \ {d} : delivery'[e] = delivery[e],
           delivery[d].status \in {"queued", "sending"},
           delivery'[d].status \in TerminalStatus
    PROVE  StepOfConsent
<1>1. UNCHANGED <<SeenMailing, SeenMailed>>
  BY SeenMail
<1>2. SettledStatus(d) \in {"queued", "sending"} /\ SettledStatus(d)' = "settled"
  BY DEF SettledStatus, IsTerminal, TerminalStatus
<1>3. InConsent!WriteDelivery(MailingOf[d], d, "settled", StandingOf(worker, d))
  BY <1>2, SeenWrite
<1>4. InConsent!WriteDelivery(MailingOf[d], d, "settled", SeenDelivery[MailingOf[d]][d].worker)
  BY <1>3, SeenRow
<1>5. InConsent!Settle(MailingOf[d], d)
  BY <1>1, <1>2, <1>4, SeenRow DEF InConsent!Settle, InConsent!people, InConsent!clicks
<1> QED
  BY <1>5, Allowed DEF InConsent!DeliveryStep

LEMMA SameStatus ==
    ASSUME UNCHANGED delivery
    PROVE  \A e \in Deliveries : SettledStatus(e)' = SettledStatus(e)
  BY DEF SettledStatus, IsTerminal

\* A worker in the middle of a message writes nothing: it goes on, or it lets go.
LEMMA LetGoSeen ==
    ASSUME IInv, NEW w \in Workers, worker[w].pc \in InFlight,
           worker' = [worker EXCEPT ![w] = worker'[w]],
           worker'[w].current = Current(w) \/ Standing(worker'[w]) = "none",
           Standing(worker'[w]) \in {Standing(worker[w]), "none"},
           UNCHANGED <<delivery, accepted, CompletedMailings>>
    PROVE  StepOfConsent \/ UNCHANGED seen
<1>1. CASE Standing(worker'[w]) = Standing(worker[w])
  <2>1. \A e \in Deliveries : StandingOf(worker', e) = StandingOf(worker, e)
    BY <1>1, EngagedStep
  <2> QED
    BY <2>1, SameStatus, SeesNothing
<1>2. CASE Standing(worker'[w]) = "none" /\ Standing(worker[w]) # "none"
  BY <1>2, StopSeen
<1> QED
  BY <1>1, <1>2

LEMMA CallSeen ==
    ASSUME IInv, NEW w \in Workers, CallTransport(w)
    PROVE  StepOfConsent \/ UNCHANGED seen
<1>1. /\ TypeOK /\ worker[w].pc = "dispatch" /\ worker[w].pc \in InFlight
      /\ Standing(worker[w]) = "call" /\ accepted[Current(w)] = {}
  BY DEF IInv, CallTransport, At, InFlight, Standing, WorkerInv
<1> PICK d \in Deliveries : d = Current(w)
  BY <1>1, WorksOn
<1>2. PICK reply \in PostDispatch, accepts \in BOOLEAN :
        /\ reply = "accepted" => accepts
        /\ reply \in {"rejected", "throttled"} => ~accepts
        /\ accepted' = IF accepts
                       THEN [accepted EXCEPT ![d] = @ \cup {worker[w].attempt}]
                       ELSE accepted
        /\ GoNoting(w, "record", reply)
  BY DEF CallTransport
<1>3. /\ worker'[w].pc = "record" /\ worker'[w].note = reply
      /\ worker'[w].current = d /\ worker' = [worker EXCEPT ![w] = worker'[w]]
  BY <1>1, <1>2, NotingWrites
<1>4. Standing(worker'[w]) = IF reply \in {"rejected", "throttled"} THEN "call" ELSE "none"
  BY <1>3 DEF Standing, PreDispatch, PostDispatch
<1>5. UNCHANGED <<delivery, CompletedMailings>>
  BY DEF CallTransport, tables, CompletedMailings
<1>6. CASE ~accepts
  BY <1>1, <1>2, <1>3, <1>4, <1>5, <1>6, LetGoSeen
<1>7. CASE accepts
  <2>1. Standing(worker'[w]) = "none"
    BY <1>2, <1>4, <1>7
  <2>2. /\ StandingOf(worker, d) = "call" /\ StandingOf(worker', d) = "none"
        /\ \A e \in Deliveries \ {d} : StandingOf(worker', e) = StandingOf(worker, e)
    BY <1>1, <1>3, <2>1, EngagedStep
  <2>3. SeenMailing' = SeenMailing
    BY <1>5 DEF SeenMailing, CallTransport, tables
  <2>4. SeenMailed' = SeenMailed \cup {<<MailingOf[d], d>>}
    <3>1. AcceptedDeliveries' = AcceptedDeliveries \cup {d}
      BY <1>1, <1>2, <1>7 DEF AcceptedDeliveries, TypeOK
    <3>2. MailingOf[d] \in Mailings
      BY MailingOfAssumption
    <3> QED
      BY <3>1, <3>2 DEF SeenMailed
  <2>5. InConsent!Moves(MailingOf[d], d, "none", "sending")
    <3>1. SettledStatus(d)' = SettledStatus(d)
      BY <1>5, SameStatus
    <3> QED
      BY <1>5, <2>2, <3>1, SeenMoves
  <2>6. SeenDelivery[MailingOf[d]][d].worker = "call"
    BY <2>2, SeenRow
  <2>7. InConsent!Send(MailingOf[d], d)
    BY <2>3, <2>4, <2>5, <2>6 DEF InConsent!Send, InConsent!people, InConsent!clicks
  <2> QED
    BY <2>7, Allowed DEF InConsent!DeliveryStep
<1> QED
  BY <1>6, <1>7

LEMMA RecordSeen ==
    ASSUME IInv, NEW w \in Workers, RecordOutcome(w)
    PROVE  StepOfConsent \/ UNCHANGED seen
<1> DEFINE note == worker[w].note
           n == worker[w].attempt
<1>1. /\ TypeOK /\ worker[w].pc = "record" /\ worker[w].pc \in InFlight
      /\ note \in PreDispatch \cup PostDispatch
  BY DEF IInv, RecordOutcome, At, InFlight, WorkerInv
<1> PICK d \in Deliveries : d = Current(w)
  BY <1>1, WorksOn
<1>2. /\ Standing(worker'[w]) = "none" /\ worker' = [worker EXCEPT ![w] = worker'[w]]
  <2>1. GoNoting(w, "settle", Verdict(note))
    BY DEF RecordOutcome
  <2>2. worker'[w].pc = "settle" /\ worker' = [worker EXCEPT ![w] = worker'[w]]
    BY <1>1, <2>1, NotingWrites
  <2> QED
    BY <2>2 DEF Standing
<1>3. UNCHANGED <<accepted, CompletedMailings>>
  BY DEF RecordOutcome, CompletedMailings
<1>4. CASE note = "accepted"
  <2>1. \A e \in Deliveries : StandingOf(worker', e) = StandingOf(worker, e)
    <3>1. Standing(worker[w]) = "none"
      BY <1>1, <1>4 DEF Standing, PreDispatch
    <3> QED
      BY <1>1, <1>2, <3>1, EngagedStep
  <2>2. SuccessWrites(d, n)
    <3>1. RecordSendSuccess(d, n)
      BY <1>4 DEF RecordOutcome
    <3> QED
      BY <1>1, <3>1, SuccessRows
  <2>3. /\ delivery[d].status \in {"sending", "ambiguous"} /\ delivery'[d].status = "sent"
        /\ \A e \in Deliveries \ {d} : delivery'[e] = delivery[e]
    BY <2>2 DEF SuccessWrites
  <2>4. CASE delivery[d].status = "sending"
    BY <1>3, <2>1, <2>3, <2>4, SettleSeen DEF TerminalStatus
  <2>5. CASE delivery[d].status = "ambiguous"
    <3>1. \A e \in Deliveries : SettledStatus(e)' = SettledStatus(e)
      BY <2>3, <2>5 DEF SettledStatus, IsTerminal, TerminalStatus
    <3> QED
      BY <1>3, <2>1, <3>1, SeesNothing
  <2> QED
    BY <2>3, <2>4, <2>5
<1>5. CASE note # "accepted"
  <2> DEFINE after == FailedDeliveryStatus(note)
  <2>1. /\ after \in DeliveryStatus
        /\ after \in {"queued"} \cup TerminalStatus
        /\ FailedAttemptStatus(note) \in {"failed", "ambiguous"}
    BY <1>1, <1>5 DEF FailedDeliveryStatus, FailedAttemptStatus, DeliveryStatus, TerminalStatus
  <2>2. RecordFailure(d, n, FailedAttemptStatus(note), after)
    BY <1>5 DEF RecordOutcome
  <2> HIDE DEF after
  <2>3. FailureWrites(d, n, FailedAttemptStatus(note), after)
    BY <1>1, <2>1, <2>2, FailureRows
  <2>4. /\ delivery[d].status = "sending" /\ delivery'[d].status = after
        /\ \A e \in Deliveries \ {d} : delivery'[e] = delivery[e]
    BY <2>3 DEF FailureWrites
  <2>5. CASE note = "unknown"
    <3>1. Standing(worker[w]) = "none"
      BY <1>1, <2>5 DEF Standing, PreDispatch
    <3>2. \A e \in Deliveries : StandingOf(worker', e) = StandingOf(worker, e)
      BY <1>1, <1>2, <3>1, EngagedStep
    <3>3. after \in TerminalStatus
      BY <2>5 DEF after, FailedDeliveryStatus, TerminalStatus
    <3> QED
      BY <1>3, <2>4, <3>2, <3>3, SettleSeen
  <2>6. CASE note # "unknown"
    <3>1. Standing(worker[w]) \in {"stop", "call"}
      BY <1>1, <1>5, <2>6 DEF Standing, PreDispatch, PostDispatch
    <3> QED
      BY <1>1, <1>2, <1>3, <2>1, <2>4, <3>1, StopSeen
  <2> QED
    BY <2>5, <2>6
<1> QED
  BY <1>4, <1>5

\* What a worker that is not in the middle of a message does, but for taking one up.
Elsewhere(w) ==
    /\ WorkerStep(w)
    /\ ~ \E d \in Deliveries : StartDelivery(w, d)
    /\ ~DecideDispatch(w) /\ ~CallTransport(w)
    /\ ~RecordOutcome(w) /\ ~OutcomeSuperseded(w) /\ ~RecordFails(w)

LEMMA OwnStep ==
    ASSUME TypeOK, NEW w \in Workers, WorkerStep(w) \/ Crash(w)
    PROVE  worker' = [worker EXCEPT ![w] = worker'[w]]
<1>1. PICK memory : worker' = [worker EXCEPT ![w] = memory]
  BY OwnMemory
<1> QED
  BY <1>1 DEF TypeOK

LEMMA ElsewhereIdle ==
    ASSUME TypeOK, NEW w \in Workers, Elsewhere(w)
    PROVE  worker[w].pc \notin InFlight /\ worker'[w].pc \notin InFlight
<1>1. worker[w] \in WorkerMemory /\ w \in DOMAIN worker
  BY DEF TypeOK
<1> DEFINE Noting == \E pc \in {"count", "repair", "settle", "refresh", "reconcile"} :
                        \E note : GoNoting(w, pc, note)
<1>2. CASE ReconcileOrphanedDeadJobs(w) \/ ReconcileStuckSendingMailings(w)
  BY <1>1, <1>2 DEF ReconcileOrphanedDeadJobs, ReconcileStuckSendingMailings, At, InFlight,
                    WorkerMemory
<1>3. CASE \E d \in Deliveries : VisitStuckMailing(w, d) \/ VisitDeadJob(w, d)
  BY <1>1, <1>3 DEF VisitStuckMailing, VisitDeadJob, At, InFlight, WorkerMemory
<1>4. CASE ReleaseLeases(w) \/ ClaimJobs(w)
  BY <1>1, <1>4 DEF ReleaseLeases, ClaimJobs, At, InFlight, WorkerMemory
<1>5. CASE SkipStaleLease(w) \/ WriteMailing(w)
  BY <1>1, <1>5 DEF SkipStaleLease, WriteMailing, NextVisit, At, InFlight, WorkerMemory
<1>6. CASE CycleEnds(w) /\ worker[w].pc \notin InFlight
  BY <1>1, <1>6 DEF CycleEnds, IdleWorker, InFlight
<1>7. CASE FinishCycle(w) \/ Restart(w)
  BY <1>6, <1>7 DEF FinishCycle, Restart, At, InFlight
<1>8. ASSUME NEW d \in Deliveries, NEW pc \in {"stale", "settle"}, NEW n, NEW note,
             Takes(w, d), Taking(w, d, pc, n, note)
      PROVE  worker[w].pc \notin InFlight /\ worker'[w].pc \notin InFlight
  BY <1>1, <1>8 DEF Takes, Taking, At, InFlight, WorkerMemory
<1>9. CASE \E d \in Deliveries : SkipDelivery(w, d) \/ StartFails(w, d)
  <2>1. PICK d \in Deliveries : SkipDelivery(w, d) \/ StartFails(w, d)
    BY <1>9
  <2>2. \E pc \in {"stale", "settle"} : \E n, note : Taking(w, d, pc, n, note)
    BY <2>1 DEF SkipDelivery, StartFails
  <2> QED
    BY <1>8, <2>1, <2>2 DEF SkipDelivery, StartFails
<1>10. CASE Noting /\ worker[w].pc \notin InFlight
  BY <1>10, NotingWrites DEF InFlight
<1>11. CASE ReadDeadJobDelivery(w)
  <2>1. Noting
    BY <1>11 DEF ReadDeadJobDelivery
  <2> HIDE DEF Noting
  <2> QED
    BY <1>10, <1>11, <2>1 DEF ReadDeadJobDelivery, At, InFlight
<1>12. CASE RepairDeadJobDelivery(w)
  <2>1. Noting
    BY <1>12 DEF RepairDeadJobDelivery
  <2> HIDE DEF Noting
  <2> QED
    BY <1>10, <1>12, <2>1 DEF RepairDeadJobDelivery, At, InFlight
<1>13. CASE DeadJobDeliveryMoved(w)
  <2>1. Noting \/ CycleEnds(w)
    BY <1>13 DEF DeadJobDeliveryMoved
  <2> HIDE DEF Noting
  <2> QED
    BY <1>6, <1>10, <1>13, <2>1 DEF DeadJobDeliveryMoved, At, InFlight
<1>14. CASE CountMailing(w)
  <2>1. Noting
    BY <1>14 DEF CountMailing
  <2> HIDE DEF Noting
  <2> QED
    BY <1>10, <1>14, <2>1 DEF CountMailing, At, InFlight
<1>15. CASE MarkStale(w) \/ StaleFails(w)
  <2>1. Noting
    BY <1>15 DEF MarkStale, StaleFails
  <2> HIDE DEF Noting
  <2> QED
    BY <1>10, <1>15, <2>1 DEF MarkStale, StaleFails, At, InFlight
<1>16. CASE SettleSuccess(w) \/ SettleFailure(w)
  <2>1. Noting
    BY <1>16 DEF SettleSuccess, SettleFailure
  <2> HIDE DEF Noting
  <2> QED
    BY <1>10, <1>16, <2>1 DEF SettleSuccess, SettleFailure, At, InFlight
<1> HIDE DEF Noting
<1> QED
  BY <1>2, <1>3, <1>4, <1>5, <1>7, <1>9, <1>11, <1>12, <1>13, <1>14, <1>15, <1>16
     DEF Elsewhere, WorkerStep

LEMMA CompletionSeen ==
    ASSUME IInv, NEW w \in Workers, WriteMailing(w),
           \A e \in Deliveries : StandingOf(worker', e) = StandingOf(worker, e)
    PROVE  StepOfConsent \/ UNCHANGED seen
<1> PICK m \in Mailings : m = MailingOf[Current(w)]
  BY MailingOfAssumption DEF IInv, WriteMailing, At, WorkerInv, Busy
<1>1. /\ worker[w].note = "completed" => AllTerminal(m)
      /\ mailing \in [Mailings -> MailingState]
      /\ UNCHANGED <<delivery, accepted>>
      /\ \A e \in Deliveries : SettledStatus(e)' = SettledStatus(e)
  BY SameStatus DEF IInv, WriteMailing, At, WorkerInv, TypeOK, TablesTypeOK
<1>2. \/ UNCHANGED mailing
      \/ /\ CanRefreshTo(m, worker[w].note)
         /\ mailing' = [mailing EXCEPT ![m] = worker[w].note]
  BY DEF WriteMailing, RefreshMailingState
<1>3. CASE CompletedMailings' = CompletedMailings
  BY <1>1, <1>3, SeesNothing
<1>4. CASE CompletedMailings' # CompletedMailings
  <2>1. mailing' = [mailing EXCEPT ![m] = worker[w].note] /\ mailing[m] # "completed"
    BY <1>2, <1>4 DEF CompletedMailings, CanRefreshTo
  <2>2. worker[w].note = "completed"
    BY <1>1, <1>4, <2>1 DEF CompletedMailings
  <2>3. SeenMailing' =
          [SeenMailing EXCEPT ![m] = [state |-> "completed", purpose |-> SeenMailing[m].purpose,
                                      list |-> SeenMailing[m].list,
                                      source |-> SeenMailing[m].source]]
    BY <1>1, <2>1, <2>2 DEF SeenMailing
  <2>4. SeenMailing[m].state = "active"
    BY <2>1 DEF SeenMailing
  <2>5. UNCHANGED <<SeenDelivery, SeenMailed>>
    BY <1>1 DEF SeenDelivery, SeenMailed, AcceptedDeliveries
  <2>6. \A e \in Deliveries : SeenDelivery[m][e].status \in {"none", "settled"}
    BY <1>1, <2>2 DEF SeenDelivery, AllTerminal, DeliveriesOf, SettledStatus
  <2>7. InConsent!CompleteMailing(m)
    BY <2>3, <2>4, <2>5, <2>6
       DEF InConsent!CompleteMailing, InConsent!people, InConsent!clicks
  <2> QED
    BY <2>7 DEF StepOfConsent
<1> QED
  BY <1>3, <1>4

LEMMA ElsewhereSeen ==
    ASSUME IInv, NEW w \in Workers, Elsewhere(w)
    PROVE  StepOfConsent \/ UNCHANGED seen
<1>1. TypeOK /\ WorkerStep(w)
  BY DEF IInv, Elsewhere
<1>2. \A e \in Deliveries : StandingOf(worker', e) = StandingOf(worker, e)
  BY <1>1, ElsewhereIdle, OwnStep, IdleStep
<1>3. CASE WriteMailing(w)
  BY <1>2, <1>3, CompletionSeen
<1>4. ASSUME NEW d \in Deliveries, UNCHANGED <<accepted, CompletedMailings>>,
             MarkDeliveryFailedForDeadJob(d) \/ RecordStaleSendingAsAmbiguous(d)
      PROVE  StepOfConsent
  <2>1. CASE MarkDeliveryFailedForDeadJob(d)
    <3>1. /\ delivery[d].status = "queued" /\ delivery'[d].status = "failed"
          /\ \A e \in Deliveries \ {d} : delivery'[e] = delivery[e]
      BY <1>1, <2>1 DEF MarkDeliveryFailedForDeadJob, CanFailForDeadJob, TypeOK, TablesTypeOK,
                        DeliveryRow
    <3> QED
      BY <1>2, <1>4, <3>1, SettleSeen DEF TerminalStatus
  <2>2. CASE RecordStaleSendingAsAmbiguous(d)
    <3>1. RecordFailure(d, Len(attempts[d]), "ambiguous", "ambiguous")
      BY <2>2 DEF RecordStaleSendingAsAmbiguous, CanMarkStale, RecordFailure
    <3>2. FailureWrites(d, Len(attempts[d]), "ambiguous", "ambiguous")
      BY <1>1, <3>1, FailureRows DEF DeliveryStatus, TerminalStatus
    <3>3. /\ delivery[d].status = "sending" /\ delivery'[d].status = "ambiguous"
          /\ \A e \in Deliveries \ {d} : delivery'[e] = delivery[e]
      BY <3>2 DEF FailureWrites
    <3> QED
      BY <1>2, <1>4, <3>3, SettleSeen DEF TerminalStatus
  <2> QED
    BY <1>4, <2>1, <2>2
<1>5. CASE RepairDeadJobDelivery(w) \/ (MarkStale(w) /\ delivery' # delivery)
  <2>1. Current(w) \in Deliveries
    BY <1>5 DEF IInv, WorkerInv, Busy, RepairDeadJobDelivery, MarkStale, At
  <2>2. /\ UNCHANGED <<accepted, CompletedMailings>>
        /\ \/ MarkDeliveryFailedForDeadJob(Current(w))
           \/ RecordStaleSendingAsAmbiguous(Current(w))
    BY <1>5 DEF RepairDeadJobDelivery, MarkStale, CompletedMailings
  <2> QED
    BY <1>4, <2>1, <2>2
<1>6. CASE ~WriteMailing(w) /\ ~RepairDeadJobDelivery(w) /\ ~(MarkStale(w) /\ delivery' # delivery)
  <2>1. UNCHANGED <<delivery, accepted, CompletedMailings>>
    BY <1>1, <1>6, StepKinds
       DEF Elsewhere, Quiet, tables, ReleaseLeases, ClaimJobs, MarkStale, SettleSuccess,
           SettleFailure, CompletedMailings
  <2> QED
    BY <1>2, <2>1, SameStatus, SeesNothing
<1> QED
  BY <1>3, <1>5, <1>6

LEMMA ConsentStep ==
    ASSUME IInv, [Next]_vars
    PROVE  StepOfConsent \/ UNCHANGED seen
<1>1. TypeOK
  BY DEF IInv
<1>2. CASE UNCHANGED vars \/ \E d \in Deliveries : TimePasses(d)
  <2>1. UNCHANGED <<delivery, accepted, worker, CompletedMailings>>
    BY <1>2 DEF vars, tables, TimePasses, CompletedMailings
  <2>2. \A e \in Deliveries : StandingOf(worker', e) = StandingOf(worker, e)
    BY <2>1
  <2> QED
    BY <2>1, <2>2, SameStatus, SeesNothing
<1>3. ASSUME NEW w \in Workers, worker[w].pc \in InFlight, WorkerStep(w) \/ Crash(w),
             worker'[w].current = Current(w) \/ Standing(worker'[w]) = "none",
             Standing(worker'[w]) \in {Standing(worker[w]), "none"},
             UNCHANGED <<tables, accepted>>
      PROVE  StepOfConsent \/ UNCHANGED seen
  <2>1. UNCHANGED <<delivery, accepted, CompletedMailings>>
    BY <1>3 DEF tables, CompletedMailings
  <2>2. worker' = [worker EXCEPT ![w] = worker'[w]]
    BY <1>1, <1>3, OwnStep
  <2> QED
    BY <1>3, <2>1, <2>2, LetGoSeen
<1>4. ASSUME NEW w \in Workers, Crash(w)
      PROVE  StepOfConsent \/ UNCHANGED seen
  <2>1. worker'[w].pc = "down" /\ UNCHANGED <<tables, accepted>>
    BY <1>1, <1>4 DEF Crash, TypeOK, IdleWorker
  <2>2. worker'[w].pc \notin InFlight /\ Standing(worker'[w]) = "none"
    BY <2>1 DEF Standing, InFlight
  <2>3. CASE worker[w].pc \in InFlight
    BY <1>3, <1>4, <2>1, <2>2, <2>3
  <2>4. CASE worker[w].pc \notin InFlight
    <3>1. \A e \in Deliveries : StandingOf(worker', e) = StandingOf(worker, e)
      BY <1>1, <1>4, <2>2, <2>4, OwnStep, IdleStep
    <3>2. UNCHANGED <<delivery, accepted, CompletedMailings>>
      BY <2>1 DEF tables, CompletedMailings
    <3> QED
      BY <3>1, <3>2, SameStatus, SeesNothing
  <2> QED
    BY <2>3, <2>4
<1>5. ASSUME NEW w \in Workers, OutcomeSuperseded(w) \/ RecordFails(w)
      PROVE  StepOfConsent \/ UNCHANGED seen
  <2>1. WorkerStep(w) /\ worker[w].pc = "record" /\ UNCHANGED <<tables, accepted>>
    BY <1>5 DEF WorkerStep, OutcomeSuperseded, RecordFails, At
  <2>2. \/ \E note : GoNoting(w, "settle", note)
        \/ worker[w].note \in PreDispatch /\ GoNoting(w, "record", "requeue")
    BY <1>5 DEF OutcomeSuperseded, RecordFails
  <2>3. /\ worker'[w].current = Current(w)
        /\ \/ worker'[w].pc = "settle"
           \/ /\ worker'[w].pc = "record" /\ worker'[w].note = "requeue"
              /\ worker[w].note \in PreDispatch
    BY <1>1, <2>2, NotingWrites
  <2>4. Standing(worker'[w]) \in {Standing(worker[w]), "none"}
    BY <2>1, <2>3 DEF Standing, PreDispatch
  <2> QED
    BY <1>3, <2>1, <2>3, <2>4 DEF InFlight
<1>6. ASSUME NEW w \in Workers, WorkerStep(w)
      PROVE  StepOfConsent \/ UNCHANGED seen
  <2>1. CASE \E d \in Deliveries : StartDelivery(w, d)
    BY <2>1, StartSeen
  <2>2. CASE DecideDispatch(w) \/ CallTransport(w) \/ RecordOutcome(w)
    BY <2>2, GatesSeen, CallSeen, RecordSeen
  <2>3. CASE Elsewhere(w)
    BY <2>3, ElsewhereSeen
  <2> QED
    BY <1>5, <1>6, <2>1, <2>2, <2>3 DEF Elsewhere
<1> QED
  BY <1>2, <1>4, <1>6 DEF Next

\* If the gates let no delivery pass whose address they find suppressed (policy.ts), all that
\* processSendDeliveryJob and runSendWorkerOnce do to a delivery, through retries, repairs by
\* other workers and crashes, is what Consent lets happen to it, so that what is proved of
\* Consent about messages after an unsubscribe holds of the workers.
THEOREM SendsAsInConsent == Spec => [][StepOfConsent]_seen
<1>1. IInv /\ [Next]_vars => [StepOfConsent]_seen
  BY ConsentStep
<1> QED
  BY <1>1, Invariance, PTL DEF Spec
===============================================================================
