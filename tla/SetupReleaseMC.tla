---------------------------- MODULE SetupReleaseMC -----------------------------
(* The last two of the six human gates (deploy/human-gates.ts), of which    *)
(* the approval satisfies the last by itself; and two of the production     *)
(* gates of the operator (validate/constants.ts).                           *)
EXTENDS SetupRelease

MCGates == <<"alarm_email", "ses_approval">>
MCProductionGates == <<"backup_restore", "dmarc">>
===============================================================================
