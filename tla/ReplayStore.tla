----------------------------- MODULE ReplayStore -----------------------------
(***************************************************************************)
(* InMemoryReplayStore of hors-core: a map from consumed keys to the time  *)
(* at which each is forgotten.  A store is a function from keys to expiry  *)
(* times; Absent is the expiry of a key the map does not hold.             *)
(***************************************************************************)
EXTENDS Integers

Absent == 0

\* A store over Keys that has consumed nothing.
EmptyStore(Keys) == [k \in Keys |-> Absent]

\* Mutant: entries go one unit before their time.
CleanupEarly(store, now) ==
  [k \in DOMAIN store |-> IF store[k] <= now + 1 THEN Absent ELSE store[k]]

\* cleanup(): every entry whose expiry is not in the future is deleted.
Cleanup(store, now) ==
  [k \in DOMAIN store |-> IF store[k] <= now THEN Absent ELSE store[k]]

\* The map still holds the key after cleanup(): consume returns false.
Holds(store, key, now) == Cleanup(store, now)[key] # Absent

\* Mutant: asking for a key that is held drops it from the map.
ConsumeToggling(store, key, now, ttl) ==
  [Cleanup(store, now) EXCEPT ![key] = IF Holds(store, key, now) THEN Absent ELSE now + ttl]

\* Mutant: the lifetime is left out, so an entry expires as it is written.
ConsumeWithoutTtl(store, key, now, ttl) == [Cleanup(store, now) EXCEPT ![key] = now]

\* The map after consume(key): a key it holds keeps its first expiry.
Consume(store, key, now, ttl) ==
  IF Holds(store, key, now)
    THEN Cleanup(store, now)
    ELSE [Cleanup(store, now) EXCEPT ![key] = now + ttl]
=============================================================================
