----------------------------- MODULE LeaseTable -----------------------------
(***************************************************************************)
(* What a table of leased resources promises, whoever runs it: the runtime *)
(* pool of an engine (runtime/manager.py) leases plugin runtimes to        *)
(* requests, the gateway controller (runtime_control.py) leases engines to *)
(* them.  A resource retired is never leased again, and is retired only    *)
(* while nobody holds it, until the table itself is stopped.               *)
(***************************************************************************)

CONSTANTS
  Holder,     \* who may hold a resource
  Resource,   \* what is leased
  Exclusive   \* TRUE when a resource has at most one holder at a time

VARIABLES
  holders,    \* the holders of each resource
  dead,       \* the resources retired for good
  stopped     \* the table has been stopped

vars == << holders, dead, stopped >>

Init ==
  /\ holders = [r \in Resource |-> {}]
  /\ dead = {}
  /\ stopped = FALSE

\* The resources R may be retired when, by the table H, none has a holder.
Retirable(R, H) == stopped \/ \A r \in R : H[r] = {}

\* h obtains r; other resources nobody holds may be retired on that occasion.
Take(h, r, R) ==
  /\ r \notin dead \union R
  /\ Exclusive => holders[r] = {}
  /\ Retirable(R, holders)
  /\ holders' = [holders EXCEPT ![r] = @ \union {h}]
  /\ dead' = dead \union R
  /\ UNCHANGED stopped

\* h gives r back, and r may be retired if h was the last holder.
Give(h, r, R) ==
  /\ R \subseteq {r}
  /\ holders' = [holders EXCEPT ![r] = @ \ {h}]
  /\ Retirable(R, holders')
  /\ dead' = dead \union R
  /\ UNCHANGED stopped

Retire(R) ==
  /\ Retirable(R, holders)
  /\ dead' = dead \union R
  /\ UNCHANGED << holders, stopped >>

Stop(R) ==
  /\ stopped' = TRUE
  /\ dead' = dead \union R
  /\ UNCHANGED holders

Next ==
  \E R \in SUBSET Resource :
    \/ \E h \in Holder, r \in Resource : Take(h, r, R) \/ Give(h, r, R)
    \/ Retire(R)
    \/ Stop(R)

Spec == Init /\ [][Next]_vars
=============================================================================
