---------------------------- MODULE ProviderCalls ----------------------------
(***************************************************************************)
(* What the delivery of a notification promises of its conversation with   *)
(* the provider, with the messages, the consumers and the leases left out. *)
(* A turn is the right to make one call.  It is taken before the call and  *)
(* comes back only when the provider answered that the call may be         *)
(* repeated: a call whose outcome nobody knows is the last one.            *)
(***************************************************************************)
EXTENDS Naturals

CONSTANT SendLimit

VARIABLES
    turn,       \* "free", "taken", or "spent"
    calls,      \* calls made to the provider
    last,       \* what is known of the latest of them
    audited,    \* it was announced that the notification has been sent
    fate        \* "open", "accepted", or what the notification ended in

Init ==
    /\ turn = "free"
    /\ calls = 0
    /\ last = "none"
    /\ audited = FALSE
    /\ fate = "open"

\* A turn is taken, and may be lost at once
Take ==
    /\ turn = "free" /\ fate = "open"
    /\ turn' \in {"taken", "spent"}
    /\ UNCHANGED <<calls, last, audited, fate>>

Lose ==
    /\ turn = "taken"
    /\ turn' = "spent"
    /\ UNCHANGED <<calls, last, audited, fate>>

\* A late caller may not know that the notification was given up
Call ==
    /\ turn = "taken"
    /\ last \in {"none", "retryable"}
    /\ calls < SendLimit
    /\ fate \in {"open", "unknown"}
    /\ turn' = "spent"
    /\ calls' = calls + 1
    /\ last' = "open"
    /\ UNCHANGED <<audited, fate>>

Answer ==
    /\ last = "open"
    /\ last' \in {"accepted", "retryable", "failed"}
    /\ UNCHANGED <<turn, calls, audited, fate>>

GiveBack ==
    /\ turn = "spent" /\ fate = "open"
    /\ last = "retryable"
    /\ calls < SendLimit
    /\ turn' = "free"
    /\ UNCHANGED <<calls, last, audited, fate>>

Accept ==
    /\ fate = "open"
    /\ last = "accepted"
    /\ fate' = "accepted"
    /\ UNCHANGED <<turn, calls, last, audited>>

Announce ==
    /\ last = "accepted"
    /\ audited' = TRUE
    /\ UNCHANGED <<turn, calls, last, fate>>

\* The notification ends, once and for all
Finish ==
    /\ \/ fate = "accepted" /\ audited /\ fate' = "delivered"
       \/ fate = "open" /\ last \in {"failed", "retryable"} /\ fate' = "rejected"
       \/ fate \in {"open", "accepted"} /\ turn # "free" /\ fate' = "unknown"
    /\ UNCHANGED <<turn, calls, last, audited>>

Next ==
    \/ Take \/ Lose \/ Call \/ Answer \/ GiveBack
    \/ Accept \/ Announce \/ Finish

Spec == Init /\ [][Next]_<<turn, calls, last, audited, fate>>
=============================================================================
