--------------------------- MODULE MemoryKvStore ---------------------------
(***************************************************************************)
(* The key/value store of a server without redis: kv/memory-store.ts.      *)
(* Every operation runs to its end without an await, so that each is one   *)
(* action; get() changes nothing and is the operator Get.                  *)
(***************************************************************************)
EXTENDS Integers

CONSTANTS
  Keys, Values,
  Ttls,        \* bound of the model: times to live that callers ask for
  Null,        \* null, undefined, and no item under a key
  GcInterval,  \* the default timeout of scheduleGc()
  Epoch,       \* Date.now() when the process starts
  MaxTime      \* bound of the model

ValueMeta == [value : Values, expires : Int \cup {Null}]

ASSUME TimesAssumption == /\ Epoch \in Nat /\ GcInterval \in Nat /\ MaxTime \in Nat
                          /\ Ttls \subseteq Int
                          /\ \A ttl \in Ttls : Epoch + ttl > 0
                          /\ Null \notin Int \cup Values \cup ValueMeta

VARIABLES
  store,    \* key -> ValueMeta
  gcTimer,  \* when the timer is due
  now,      \* Date.now()
  deadline  \* history: the end of the time to live each set() asked for

storeVars == <<store, gcTimer, now, deadline>>

\* Mutant of Expired: the last moment is already over.
ExpiredEarly(item) == item.expires # Null /\ item.expires <= now

\* No expiry is 0, so that "if (item.expires)" asks for null.
Expired(item) == item.expires # Null /\ item.expires < now

Get(k) == IF store[k] = Null \/ Expired(store[k]) THEN Null ELSE store[k].value

\* scheduleGc(): one timer at a time
Scheduled == IF gcTimer # Null THEN gcTimer ELSE now + GcInterval

\* A time to live of 0 is falsy, like none at all.
Set(k, v, ttl) ==
  /\ store' = [store EXCEPT ![k] =
       [value |-> v, expires |-> IF ttl \in {Null, 0} THEN Null ELSE now + ttl]]
  /\ gcTimer' = IF ttl \in {Null, 0} THEN gcTimer ELSE Scheduled
  /\ deadline' = [deadline EXCEPT ![k] = IF ttl = Null THEN Null ELSE now + ttl]
  /\ UNCHANGED now

\* Mutant of Delete: the key stays, with nothing under it.
DeleteValueOnly(k) ==
  /\ store' = [store EXCEPT ![k] = [value |-> Null, expires |-> Null]]
  /\ UNCHANGED <<gcTimer, now, deadline>>

Delete(k) ==
  /\ store' = [store EXCEPT ![k] = Null]
  /\ UNCHANGED <<gcTimer, now, deadline>>

\* Mutant of NextExpiry: the items that are not due yet are forgotten.
NextExpiryNever(kept) == FALSE

Kept(item) == item = Null \/ ~ Expired(item)

\* gc() returns a next expiry.
NextExpiry(kept) == \E k \in Keys : kept[k] # Null /\ kept[k].expires # Null

\* The callback of the timer; the event loop may run it late.
Gc ==
  /\ gcTimer # Null /\ gcTimer <= now
  /\ store' = [k \in Keys |-> IF Kept(store[k]) THEN store[k] ELSE Null]
  /\ gcTimer' = IF NextExpiry(store') THEN now + GcInterval ELSE Null
  /\ UNCHANGED <<now, deadline>>

Tick ==
  /\ now < MaxTime
  /\ now' = now + 1
  /\ UNCHANGED <<store, gcTimer, deadline>>

\* The process ends and another one starts.
Restart ==
  /\ store' = [k \in Keys |-> Null]
  /\ gcTimer' = Null
  /\ UNCHANGED <<now, deadline>>

StoreInit ==
  /\ store = [k \in Keys |-> Null] /\ gcTimer = Null
  /\ now = Epoch /\ deadline = [k \in Keys |-> Null]

StoreNext ==
  \/ \E k \in Keys :
       \/ \E v \in Values, ttl \in Ttls \cup {Null} : Set(k, v, ttl)
       \/ Delete(k)
  \/ Gc \/ Tick \/ Restart

StoreSpec == StoreInit /\ [][StoreNext]_storeVars

\* Time passes and node runs the timers that are due.
StoreFairSpec == StoreSpec /\ WF_storeVars(Tick) /\ WF_storeVars(Gc)
-----------------------------------------------------------------------------
(* Properties                                                              *)

StoreTypeOK ==
  /\ store \in [Keys -> ValueMeta \cup {Null}]
  /\ gcTimer \in Int \cup {Null}
  /\ now \in Nat
  /\ deadline \in [Keys -> Int \cup {Null}]

\* No item that expires is forgotten: as long as there is one, the collector is
\* going to run, whichever order sets, deletes and collections came in.
CollectorIsScheduled ==
  (\E k \in Keys : store[k] # Null /\ store[k].expires # Null) => gcTimer # Null

\* An item that has expired leaves the memory of the process, if the process
\* lives for another interval of the collector.
ExpiredItemsLeave ==
  \A k \in Keys :
    (store[k] # Null /\ Expired(store[k]) /\ now + GcInterval <= MaxTime)
      ~> (store[k] = Null \/ ~ Expired(store[k]))

Ttl == INSTANCE TtlStore WITH
  value   <- [k \in Keys |-> Get(k)],
  until   <- [k \in Keys |-> IF Get(k) = Null THEN Null ELSE deadline[k]],
  NoValue <- Null, Forever <- Null

\* Expiry on reading and collection together give what the store promises.
ImplementsTtlStore == Ttl!Spec
=============================================================================
