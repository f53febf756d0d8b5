---------------------------- MODULE ExpirationMap ----------------------------
(***************************************************************************)
(* ExpirationMap<K,V> and PeriodicExpirator of ExpirationMap.hpp, with     *)
(* explicit steady-clock time.                                             *)
(*                                                                         *)
(* The map keeps two indices under one mutex: expirableItems, a std::map   *)
(* from key to the value and an iterator into expirableTimes, and          *)
(* expirableTimes, a std::multiset of (expirationTime, key pointer)        *)
(* ordered by time. Every public method holds the mutex for its whole      *)
(* body and is one step. The worker thread of the PeriodicExpirator calls  *)
(* getNextExpirationTime() and pop_expired() as two separate locked calls, *)
(* then sleeps checkInterval (wait_for on its condition variable).         *)
(*                                                                         *)
(* Values are left out: the model is about which keys are present and      *)
(* when they expire. An entry of expirableTimes is the record [t, k], and   *)
(* an item's iterator is the entry it points to; the multiset is a bag so  *)
(* that a second entry for one key would be visible.                      *)
(***************************************************************************)
EXTENDS Naturals, Bags

CONSTANTS
  Keys,           \* keys (workspace ids)
  Durations,      \* expiration durations passed to insert/keepAlive
  CheckInterval,  \* PeriodicExpirator::checkInterval
  MaxTime,        \* bound on the clock
  None

ASSUME /\ Durations \subseteq Nat \ {0}
       /\ CheckInterval \in Nat \ {0}
       /\ MaxTime \in Nat

VARIABLES
  now,      \* std::chrono::steady_clock::now()
  items,    \* expirableItems: key -> its expirationTimeIt, or None
  times,    \* expirableTimes, a bag of [t |-> time, k |-> key]
  wpc,      \* worker: "wait" in wait_for, "pop" between the two calls
  wakeAt,   \* when the worker's wait_for times out
  stop,     \* PeriodicExpirator::stopFlag
  expired   \* keys of the last ExpiredValues passed to the callback

vars == <<now, items, times, wpc, wakeAt, stop, expired>>

(* Mutant: the entry keeps a pointer to the caller's key argument rather  *)
(* than to the key inside the std::map node; it dangles after the call.  *)
EntryDangling(t, k) == [t |-> t, k |-> None]

(* ExpirableTime(expirationTime, &(itemIt->first)).                      *)
Entry(t, k) == [t |-> t, k |-> k]

-----------------------------------------------------------------------------
(* Helpers translated from the private part of ExpirationMap.             *)

(* Mutant: keepAlive_nomutex adds the new time without erasing the old. *)
KeepAliveNoErase(k, d) ==
  /\ times' = times (+) SetToBag({Entry(now + d, k)})
  /\ items' = [items EXCEPT ![k] = Entry(now + d, k)]

(* keepAlive_nomutex on an existing item: erase the entry its iterator    *)
(* points to (unless it is end(), as right after emplace in insert), add  *)
(* (now + dur, &key) and store the new iterator.                          *)
KeepAlive(k, d) ==
  LET old == IF items[k] = None THEN EmptyBag ELSE SetToBag({items[k]})
  IN /\ times' = (times (-) old) (+) SetToBag({Entry(now + d, k)})
     /\ items' = [items EXCEPT ![k] = Entry(now + d, k)]

(* erase_nomutex: nothing for end(); otherwise erase the item's time entry *)
(* through its iterator, then the item.                                   *)
EraseItem(k) ==
  /\ items[k] # None
  /\ times' = times (-) SetToBag({items[k]})
  /\ items' = [items EXCEPT ![k] = None]

(* Mutant: pop_expired bounded by upper_bound(now + 1 tick), popping     *)
(* items one tick before their deadline.                                 *)
DueEarly == {e \in BagToSet(times) : e.t <= now + 1}

(* The entries before upper_bound({now, {}}): expiration time <= now.    *)
Due == {e \in BagToSet(times) : e.t <= now}

(* Mutant: the worker tests getNextExpirationTime() < now.              *)
NextDueStrict == \E e \in BagToSet(times) : e.t < now

(* getNextExpirationTime() <= steady_clock::now(): the earliest entry     *)
(* (TimePoint::max() for an empty multiset) is not in the future.         *)
NextDue == \E e \in BagToSet(times) : e.t <= now

-----------------------------------------------------------------------------
Init == /\ now = 0
        /\ items = [k \in Keys |-> None]
        /\ times = EmptyBag
        /\ wpc = "wait"
        /\ wakeAt = CheckInterval
        /\ stop = FALSE
        /\ expired = {}

(* insert(key, value, duration): emplace; an existing key makes emplace   *)
(* fail and insert throw, leaving the map as it was; a new item gets      *)
(* end() as iterator and keepAlive_nomutex gives it its deadline.        *)
Insert(k, d) ==
  /\ \/ /\ items[k] = None
        /\ KeepAlive(k, d)
     \/ /\ items[k] # None
        /\ UNCHANGED <<items, times>>
  /\ UNCHANGED <<now, wpc, wakeAt, stop, expired>>

(* erase(key): find, then erase_nomutex (a no-op for a missing key).      *)
Erase(k) ==
  /\ \/ EraseItem(k)
     \/ /\ items[k] = None
        /\ UNCHANGED <<items, times>>
  /\ UNCHANGED <<now, wpc, wakeAt, stop, expired>>

(* keepAlive(key, dur) and get(key, dur): renew an existing item; false / *)
(* empty optional for a missing one.                                      *)
Renew(k, d) ==
  /\ items[k] # None
  /\ KeepAlive(k, d)
  /\ UNCHANGED <<now, wpc, wakeAt, stop, expired>>

(* workerLoop, first call: while (!stopFlag), after wait_for returns,     *)
(* check getNextExpirationTime() <= now; if not, wait again.              *)
WorkerCheck ==
  /\ wpc = "wait"
  /\ ~stop
  /\ now >= wakeAt
  /\ IF NextDue THEN /\ wpc' = "pop"
                     /\ UNCHANGED wakeAt
                ELSE /\ wakeAt' = now + CheckInterval
                     /\ UNCHANGED wpc
  /\ UNCHANGED <<now, items, times, stop, expired>>

(* workerLoop, second call: pop_expired() walks the entries up to         *)
(* upper_bound(now), erasing each key's item (and through it the time     *)
(* entry the item points to); the callback receives them; then wait.      *)
WorkerPop ==
  /\ wpc = "pop"
  /\ LET keys == {e.k : e \in Due}
     IN /\ \A k \in keys : items[k] # None
        /\ times' = times (-) SetToBag({items[k] : k \in keys})
        /\ items' = [k \in Keys |-> IF k \in keys THEN None ELSE items[k]]
        /\ expired' = keys
  /\ wpc' = "wait"
  /\ wakeAt' = now + CheckInterval
  /\ UNCHANGED <<now, stop>>

(* stopWorker(): set stopFlag and notify; the loop exits.                  *)
StopWorker ==
  /\ ~stop
  /\ stop' = TRUE
  /\ UNCHANGED <<now, items, times, wpc, wakeAt, expired>>

(* The clock advances. The worker's wait_for times out at wakeAt and the   *)
(* two calls after it follow each other at once, so time does not pass    *)
(* an armed timeout or between the two calls of a running worker.         *)
Tick ==
  /\ now < MaxTime
  /\ stop \/ (wpc = "wait" /\ now < wakeAt)
  /\ now' = now + 1
  /\ UNCHANGED <<items, times, wpc, wakeAt, stop, expired>>

Next ==
  \/ \E k \in Keys, d \in Durations : Insert(k, d) \/ Renew(k, d)
  \/ \E k \in Keys : Erase(k)
  \/ WorkerCheck
  \/ WorkerPop
  \/ StopWorker
  \/ Tick

Spec == Init /\ [][Next]_vars

-----------------------------------------------------------------------------
(* Properties.                                                             *)

TypeOK ==
  /\ now \in 0..MaxTime
  /\ items \in [Keys -> {None} \cup [t : Nat, k : Keys]]
  /\ IsABag(times) /\ BagToSet(times) \subseteq [t : Nat, k : Keys]
  /\ wpc \in {"wait", "pop"}
  /\ wakeAt \in Nat
  /\ stop \in BOOLEAN
  /\ expired \subseteq Keys

(* The two indices agree: expirableTimes holds exactly one entry per item, *)
(* the one its iterator points to, and every entry's key pointer leads to *)
(* an item. pop_expired dereferences find(key) for each due entry without *)
(* checking for end(), so a stray entry would be undefined behaviour.      *)
IndicesConsistent ==
  /\ \A k \in Keys : items[k] # None =>
       items[k].k = k /\ CopiesIn(items[k], times) = 1
  /\ \A e \in BagToSet(times) : items[e.k] = e

(* While the expirator runs, no item outlives its deadline by a whole      *)
(* checkInterval: an idle workspace leaves the map within 5 s of expiring. *)
PoppedWithinInterval ==
  ~stop => \A k \in Keys : items[k] # None => now < items[k].t + CheckInterval

(* The map implements ExpirationMapSpec: the deadline of a key is the     *)
(* time of the entry its item points to.                                  *)
Abs == INSTANCE ExpirationMapSpec
         WITH deadline <- [k \in Keys |-> IF items[k] = None THEN None
                                                            ELSE items[k].t]

ImplementsSpec == Abs!AbsSpec

=============================================================================
