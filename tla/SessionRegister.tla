--------------------------- MODULE SessionRegister ---------------------------
(***************************************************************************)
(* What the sessions of a user promise, with rows, generations, retries    *)
(* and the order of the two stores left out: one register of the sessions  *)
(* that are in force.  A session may enter it until its cookie is sent, or *)
(* until it is barred, and never after.  A reader accepts a session only   *)
(* on a verdict, which is one look at the register.  SessionRevocation     *)
(* implements it.                                                          *)
(***************************************************************************)
CONSTANTS
    Sessions,
    Readers,        \* requests that read sessions
    NoSession       \* no verdict

VARIABLES
    inForce,        \* the sessions in force
    barred,         \* the sessions a revocation has barred
    handed,         \* the sessions whose cookie has been sent
    verdict         \* verdict[q]: the session q has found in force

vars == <<inForce, barred, handed, verdict>>

Init ==
    /\ inForce = {}
    /\ barred = {}
    /\ handed = {}
    /\ verdict = [q \in Readers |-> NoSession]

Enter(s) ==
    /\ s \notin barred \cup handed
    /\ inForce' = inForce \cup {s}
    /\ UNCHANGED <<barred, handed, verdict>>

\* Its time is over, or a revocation meets a session that is still being issued
Leave(s) ==
    /\ inForce' = inForce \ {s}
    /\ UNCHANGED <<barred, handed, verdict>>

\* A revocation: one step for all the sessions it is about
Bar(S) ==
    /\ inForce' = inForce \ S
    /\ barred' = barred \cup S
    /\ UNCHANGED <<handed, verdict>>

Hand(s) ==
    /\ handed' = handed \cup {s}
    /\ UNCHANGED <<inForce, barred, verdict>>

Judge(q, s) ==
    /\ s \in inForce
    /\ verdict[q] = NoSession
    /\ verdict' = [verdict EXCEPT ![q] = s]
    /\ UNCHANGED <<inForce, barred, handed>>

Forget(q) ==
    /\ verdict' = [verdict EXCEPT ![q] = NoSession]
    /\ UNCHANGED <<inForce, barred, handed>>

Next ==
    \/ \E s \in Sessions : Enter(s) \/ Leave(s) \/ Hand(s)
    \/ \E S \in SUBSET Sessions : Bar(S)
    \/ \E q \in Readers : Forget(q) \/ \E s \in Sessions : Judge(q, s)

Spec == Init /\ [][Next]_vars
=============================================================================
