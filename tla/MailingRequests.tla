---------------------------- MODULE MailingRequests ----------------------------
(***************************************************************************)
(* POST /api/mailings with an Idempotency-Key (src/apps/service/src/       *)
(* mailings/idempotency.ts).  Each request runs in one transaction that    *)
(* holds the writer (BEGIN IMMEDIATE): it looks the key up, and makes the  *)
(* mailing and the row of the key together.  The client sends the same     *)
(* request again when it has no answer.                                    *)
(***************************************************************************)
EXTENDS Naturals, Sequences

CONSTANTS
    Clients,        \* clients that send with one Idempotency-Key
    Body,           \* the body each of them sends
    MaxMailings     \* bound: mailings that are ever made

ASSUME MailingBoundsAssumption == MaxMailings \in Nat

VARIABLES
    mailings,   \* committed: the bodies of the mailings made, and the row of the key
    writer,     \* the client whose request holds the writer, or none
    calls       \* per client where its request is, and the answer it has

mailingVars == <<mailings, writer, calls>>

NoClient == "nobody"
NoAnswer == 0
Conflict == MaxMailings + 1
NoRow == 0

ASSUME ClientsAssumption == NoClient \notin Clients

MailingsInit ==
    /\ mailings = [made |-> <<>>, row |-> NoRow]
    /\ writer = NoClient
    /\ calls = [c \in Clients |-> [pc |-> "idle", answer |-> NoAnswer]]

Call(c, pc) == calls[c].pc = pc
Calls(c, pc, answer) ==
    calls' = [calls EXCEPT ![c] = [pc |-> pc, answer |-> answer]]

-------------------------------------------------------------------------------
\* Sent for the first time or again.
Send(c) ==
    /\ Call(c, "idle") /\ calls[c].answer = NoAnswer
    /\ Calls(c, "sent", NoAnswer)
    /\ UNCHANGED <<mailings, writer>>

\* BEGIN IMMEDIATE, and the row of the key: a replay, a conflict, or a creation.
LookUp(c) ==
    /\ Call(c, "sent") /\ writer = NoClient
    /\ IF mailings.row = NoRow
       THEN /\ Len(mailings.made) < MaxMailings
            /\ Calls(c, "create", NoAnswer) /\ writer' = c
       ELSE /\ Calls(c, "done", IF mailings.made[mailings.row] = Body[c]
                                THEN mailings.row ELSE Conflict)
            /\ UNCHANGED writer
    /\ UNCHANGED mailings

\* Slip: the row of the key is written after the commit.
MailingOnly(c) == [mailings EXCEPT !.made = Append(mailings.made, Body[c])]

\* createMailingRows and mailing-idempotency:insert
WithRow(c) == [made |-> Append(mailings.made, Body[c]), row |-> Len(mailings.made) + 1]

Commit(c) ==
    /\ Call(c, "create")
    /\ mailings' = WithRow(c)
    /\ Calls(c, "done", Len(mailings.made) + 1) /\ writer' = NoClient

\* beforeCreate refuses, or the process ends: nothing is kept.
Rollback(c) ==
    /\ Call(c, "create") /\ Calls(c, "idle", NoAnswer) /\ writer' = NoClient
    /\ UNCHANGED mailings

Answer(c) ==
    /\ Call(c, "done") /\ Calls(c, "idle", calls[c].answer)
    /\ UNCHANGED <<mailings, writer>>

\* The answer is lost, or comes after the client's timeout.
LoseAnswer(c) ==
    /\ Call(c, "done") /\ Calls(c, "idle", NoAnswer)
    /\ UNCHANGED <<mailings, writer>>

MailingsNext ==
    \E c \in Clients :
        Send(c) \/ LookUp(c) \/ Commit(c) \/ Rollback(c) \/ Answer(c) \/ LoseAnswer(c)

MailingsTypeOK ==
    /\ mailings \in [made: Seq({Body[c] : c \in Clients}), row: Nat]
    /\ writer \in Clients \cup {NoClient}
    /\ calls \in [Clients -> [pc: {"idle", "sent", "create", "done"}, answer: 0..Conflict]]

-------------------------------------------------------------------------------
\* mailings/idempotency.test.ts: "serializes concurrent same-key requests into one create and
\* one replay", through lost answers and repeated requests too; a client with another body
\* learns of the conflict and never of a mailing that is not its own.
OneMailingPerKey ==
    /\ Len(mailings.made) <= 1
    /\ \A c \in Clients : calls[c].answer \in DOMAIN mailings.made =>
                              mailings.made[calls[c].answer] = Body[c]
===============================================================================
