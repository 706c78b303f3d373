------------------------------- MODULE AuditLog -------------------------------
(***************************************************************************)
(* What the audit chain promises, with the object, its storage, its retries*)
(* and its failures left out: an append-only log in which every event has  *)
(* one place for ever, beside the set of events that were given up.        *)
(***************************************************************************)
EXTENDS Naturals, Sequences

CONSTANT Sources

VARIABLES log, dead

AbstractInit ==
    /\ log \in {<<>>} \cup {<<m>> : m \in Sources}
    /\ dead = {}

Fresh(m) == m \notin dead /\ \A i \in DOMAIN log : log[i] # m

\* The event takes the next place of the log
Record(m) == Fresh(m) /\ log' = Append(log, m) /\ UNCHANGED dead

\* The event is given up, and its place goes to another one
GiveUp(m) == Fresh(m) /\ dead' = dead \cup {m} /\ UNCHANGED log

AbstractNext == \E m \in Sources : Record(m) \/ GiveUp(m)

Spec == AbstractInit /\ [][AbstractNext]_<<log, dead>>

=============================================================================
