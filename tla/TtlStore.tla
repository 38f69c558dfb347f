------------------------------ MODULE TtlStore ------------------------------
(***************************************************************************)
(* What kv/abstract-store.ts promises its users (browser sessions, login   *)
(* challenge sessions, verification codes): a key has the value it was set *)
(* to until it is set again or deleted, or its time to live is over, or    *)
(* the process ends.                                                       *)
(***************************************************************************)
EXTENDS Integers

CONSTANTS Keys, Values, Ttls, NoValue, Forever, Epoch

VARIABLES
  value,  \* what get() answers for each key
  until,  \* the last moment it does
  now

ttlVars == <<value, until, now>>

Assign(k, v, deadline) ==
  /\ value' = [value EXCEPT ![k] = v]
  /\ until' = [until EXCEPT ![k] = deadline]
  /\ UNCHANGED now

Forget(k) == Assign(k, NoValue, Forever)

Set(k, v, ttl) == IF ttl < 0 THEN Forget(k) ELSE Assign(k, v, now + ttl)

\* Keys vanish by themselves, all those whose time is over and no others.
Tick ==
  LET over(k) == until[k] # Forever /\ until[k] <= now IN
    /\ now' = now + 1
    /\ value' = [k \in Keys |-> IF over(k) THEN NoValue ELSE value[k]]
    /\ until' = [k \in Keys |-> IF over(k) THEN Forever ELSE until[k]]

Restart ==
  /\ value' = [k \in Keys |-> NoValue]
  /\ until' = [k \in Keys |-> Forever]
  /\ UNCHANGED now

Init == now = Epoch /\ value = [k \in Keys |-> NoValue] /\ until = [k \in Keys |-> Forever]

Next ==
  \/ \E k \in Keys :
       \/ \E v \in Values : (\E ttl \in Ttls : Set(k, v, ttl)) \/ Assign(k, v, Forever)
       \/ Forget(k)
  \/ Tick \/ Restart

Spec == Init /\ [][Next]_ttlVars
=============================================================================
