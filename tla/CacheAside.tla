----------------------------- MODULE CacheAside -----------------------------
(***************************************************************************)
(* repo::cache_aside and repo::cache_invalidate(_many) of src/src/repo.rs  *)
(* over the caches of src/src/cache.rs: read the cache, load on a miss     *)
(* (through the registry of SingleFlight when the feature is on), write    *)
(* the loaded value back, and drop keys on demand.                         *)
(*                                                                         *)
(* One element of Requests is one call of cache_aside on the Database      *)
(* DbOf[c] for the full key KeyOf[c] (tenant prefix included).  The        *)
(* registry is a static of the process: the Databases share it, while each *)
(* has a cache of its own.  The table behind the loaders belongs to the    *)
(* application; it is a version per key that only grows.                   *)
(*                                                                         *)
(* A cache operation is an await point, so every get, set and del is a     *)
(* step of its own, and a request may be dropped between any two of them.  *)
(***************************************************************************)
EXTENDS Naturals

CONSTANTS Requests, Dbs, Keys, DbOf, KeyOf,
          Backends,   \* subset of {"memory", "redis", "none"}: cache.backend
          Coalescing, \* subset of BOOLEAN: is feature single-flight compiled in
          Forms,      \* "plain": JSON both ways, "mute": to_vec fails on it,
                      \* "odd": its JSON does not read back as T
          MaxVer,     \* bound on the versions of a row
          Failed,     \* any DbError
          None

Items == [db : Dbs, key : Keys, ver : 0 .. MaxVer, form : Forms]
Unserializable == {i \in Items : i.form = "mute"}
Undecodable == {i \in Items : i.form = "odd"}

ASSUME CacheAssumption ==
    /\ DbOf \in [Requests -> Dbs]
    /\ KeyOf \in [Requests -> Keys]
    /\ Backends \subseteq {"memory", "redis", "none"}
    /\ Coalescing \subseteq BOOLEAN
    /\ Forms \subseteq {"plain", "mute", "odd"}
    /\ MaxVer \in Nat
    /\ Failed \notin Items
    /\ None \notin Items \cup {Failed} \cup Requests

VARIABLES backend,  \* the cache build_cache made
          coalesce, \* the feature flag
          stage,    \* stage[c]: where request c is
          answer,   \* answer[c]: its result once it has one
          cache,    \* cache[d][k]: the entry of k, if any
          source,   \* source[d][k]: the version of the row behind k
          floor,    \* floor[d][k]: see Invalidate (history)
          due,      \* due[c]: floor of c's key when c looked it up (history)
          flight, inflight, rx, inbox, value  \* those of SingleFlight

own == <<backend, coalesce, stage, answer, cache, source, floor, due>>
flightVars == <<flight, inflight, rx, inbox, value>>
vars == <<own, flightVars>>

Flight == INSTANCE SingleFlight WITH Calls <- Requests, Values <- Items

Stages == {"idle", "purge", "repair", "load", "flight", "fill", "orphan", "done", "gone"}
Busy(c) == stage[c] \in {"purge", "repair", "load", "flight", "fill", "orphan"}

Init == /\ backend \in Backends
        /\ coalesce \in Coalescing
        /\ stage = [c \in Requests |-> "idle"]
        /\ answer = [c \in Requests |-> None]
        /\ cache = [d \in Dbs |-> [k \in Keys |-> None]]
        /\ source = [d \in Dbs |-> [k \in Keys |-> 0]]
        /\ floor = [d \in Dbs |-> [k \in Keys |-> 0]]
        /\ due = [c \in Requests |-> 0]
        /\ Flight!Init

Entry(c) == cache[DbOf[c]][KeyOf[c]]
Drop(d, k) == [cache EXCEPT ![d][k] = None]
Load == IF coalesce THEN "flight" ELSE "load"
Current(c, f) == [db |-> DbOf[c], key |-> KeyOf[c], form |-> f,
                  ver |-> source[DbOf[c]][KeyOf[c]]]

(***************************************************************************)
(* cache.get.  A memory entry past its expiry is still in the map: get     *)
(* decides on its copy of the entry and invalidates the key afterwards.    *)
(***************************************************************************)
Lookup(c, next, result) ==
    /\ stage[c] = "idle"
    /\ stage' = [stage EXCEPT ![c] = next]
    /\ answer' = [answer EXCEPT ![c] = result]
    /\ due' = [due EXCEPT ![c] = floor[DbOf[c]][KeyOf[c]]]
    /\ UNCHANGED <<backend, coalesce, cache, source, floor, flightVars>>

GetHit(c) == /\ Entry(c) # None /\ Entry(c).live
             /\ Entry(c).item \notin Undecodable
             /\ Lookup(c, "done", Entry(c).item)

GetCorrupt(c) == /\ Entry(c) # None /\ Entry(c).live
                 /\ Entry(c).item \in Undecodable
                 /\ Lookup(c, "repair", None)

GetExpired(c) == /\ Entry(c) # None /\ ~Entry(c).live
                 /\ Lookup(c, "purge", None)

GetMiss(c) == Entry(c) = None /\ Lookup(c, Load, None)

\* A mistake: the request ends without a result.
GetErrorSilent(c) == backend = "redis" /\ Lookup(c, "done", None)

\* Redis cannot be reached: the error is returned, the loader is not tried.
GetError(c) == backend = "redis" /\ Lookup(c, "done", Failed)

\* The lazy deletion of an expired entry removes what is under the key by now.
Purge(c) ==
    /\ stage[c] = "purge"
    /\ cache' = Drop(DbOf[c], KeyOf[c])
    /\ stage' = [stage EXCEPT ![c] = Load]
    /\ UNCHANGED <<backend, coalesce, answer, source, floor, due, flightVars>>

\* A mistake: looking the key up again after the deletion.
RepairRetrying(c) ==
    /\ stage[c] = "repair"
    /\ \/ cache' = Drop(DbOf[c], KeyOf[c])
       \/ backend = "redis" /\ UNCHANGED cache
    /\ stage' = [stage EXCEPT ![c] = "idle"]
    /\ UNCHANGED <<backend, coalesce, answer, source, floor, due, flightVars>>

\* An entry that does not decode is deleted; an error of Redis is ignored.
Repair(c) ==
    /\ stage[c] = "repair"
    /\ \/ cache' = Drop(DbOf[c], KeyOf[c])
       \/ backend = "redis" /\ UNCHANGED cache
    /\ stage' = [stage EXCEPT ![c] = Load]
    /\ UNCHANGED <<backend, coalesce, answer, source, floor, due, flightVars>>

(***************************************************************************)
(* The load.  `Got` is the `?` behind it: a value goes on to the write     *)
(* back, an error is returned at once.                                     *)
(***************************************************************************)
Got(c, r) ==
    /\ answer' = [answer EXCEPT ![c] = r]
    /\ stage' = [stage EXCEPT ![c] = IF r = Failed THEN "done" ELSE "fill"]
    /\ UNCHANGED <<backend, coalesce, cache, source, floor, due>>

Outcomes(c) == {Current(c, f) : f \in Forms} \cup {Failed}

LoadDirect(c) ==
    /\ stage[c] = "load"
    /\ \E r \in Outcomes(c) : Got(c, r)
    /\ UNCHANGED flightVars

Enter(c) == stage[c] = "flight" /\ Flight!Enter(c) /\ UNCHANGED own

LoaderReads(c) ==
    /\ stage[c] = "flight"
    /\ \E r \in Outcomes(c) : Flight!LoaderReturns(c, r)
    /\ UNCHANGED own

Publish(c) ==
    /\ stage[c] = "flight"
    /\ Flight!Publish(c)
    /\ Got(c, value[c])

Receive(c) ==
    /\ stage[c] = "flight"
    /\ Flight!Receive(c)
    /\ Got(c, value'[c])

\* cache.set, by the leader and by every follower.  A value that does not
\* serialize is not written, and neither NoopCache nor a broken Redis writes.
\* The set of a request that was dropped meanwhile lands late or never.
Fill(c) ==
    /\ stage[c] \in {"fill", "orphan"}
    /\ \/ /\ backend # "none" /\ answer[c] \notin Unserializable
          /\ cache' = [cache EXCEPT ![DbOf[c]][KeyOf[c]] =
                            [item |-> answer[c], live |-> TRUE]]
       \/ /\ \/ backend # "memory" \/ answer[c] \in Unserializable
             \/ stage[c] = "orphan"
          /\ UNCHANGED cache
    /\ stage' = [stage EXCEPT ![c] = IF @ = "fill" THEN "done" ELSE "gone"]
    /\ UNCHANGED <<backend, coalesce, answer, source, floor, due, flightVars>>

\* The caller drops the future of the request at an await point.  A set that
\* was under way is out of its hands.
Abandon(c) ==
    /\ Busy(c) /\ stage[c] # "orphan"
    /\ IF stage[c] = "flight" /\ flight[c] # "out"
       THEN Flight!Abandon(c)
       ELSE UNCHANGED flightVars
    /\ stage' = [stage EXCEPT ![c] = IF @ = "fill" THEN "orphan" ELSE "gone"]
    /\ UNCHANGED <<backend, coalesce, answer, cache, source, floor, due>>

(***************************************************************************)
(* The clock and the memory of the cache.  An expired memory entry stays   *)
(* until a get or an eviction removes it; one of Redis is gone.            *)
(***************************************************************************)
Expire(d, k) ==
    /\ backend = "memory"
    /\ cache[d][k] # None /\ cache[d][k].live
    /\ cache' = [cache EXCEPT ![d][k].live = FALSE]
    /\ UNCHANGED <<backend, coalesce, stage, answer, source, floor, due, flightVars>>

Vanish(d, k) ==
    /\ cache[d][k] # None
    /\ cache' = Drop(d, k)
    /\ UNCHANGED <<backend, coalesce, stage, answer, source, floor, due, flightVars>>

\* The application changes the row behind a key.
Write(d, k) ==
    /\ source[d][k] < MaxVer
    /\ source' = [source EXCEPT ![d][k] = @ + 1]
    /\ UNCHANGED <<backend, coalesce, stage, answer, cache, floor, due, flightVars>>

\* No request of the key is under way.
Quiet(k) == \A c \in Requests : KeyOf[c] = k => ~Busy(c)

\* A mistake: leaving an entry that is still live.
InvalidateExpired(d, k) ==
    /\ cache' = IF cache[d][k] # None /\ ~cache[d][k].live THEN Drop(d, k) ELSE cache
    /\ floor' = IF Quiet(k) THEN [floor EXCEPT ![d][k] = source[d][k]] ELSE floor
    /\ UNCHANGED <<backend, coalesce, stage, answer, source, due, flightVars>>

(***************************************************************************)
(* A cache_invalidate that returns Ok; cache_invalidate_many is one such   *)
(* step per key (one for all of them in Redis, which no property tells     *)
(* apart).  One that fails has dropped some of the keys, as Vanish may.    *)
(* floor records the version of the row when the key was last invalidated  *)
(* while no request of that key was under way.                             *)
(***************************************************************************)
Invalidate(d, k) ==
    /\ cache' = Drop(d, k)
    /\ floor' = IF Quiet(k) THEN [floor EXCEPT ![d][k] = source[d][k]] ELSE floor
    /\ UNCHANGED <<backend, coalesce, stage, answer, source, due, flightVars>>

Get(c) == GetHit(c) \/ GetCorrupt(c) \/ GetExpired(c) \/ GetMiss(c) \/ GetError(c)
Proceed(c) == \/ Purge(c) \/ Repair(c) \/ Fill(c)
              \/ LoadDirect(c)
              \/ Enter(c) \/ LoaderReads(c) \/ Publish(c) \/ Receive(c)
Environment(d, k) == Expire(d, k) \/ Vanish(d, k) \/ Write(d, k) \/ Invalidate(d, k)

Next == \/ \E c \in Requests : Get(c) \/ Proceed(c) \/ Abandon(c)
        \/ \E d \in Dbs, k \in Keys : Environment(d, k)

Spec == Init /\ [][Next]_vars

\* The runtime polls a request that can proceed; loads and cache operations end.
FairSpec == Spec /\ \A c \in Requests : WF_vars(Proceed(c))
-----------------------------------------------------------------------------
\* The types of the variables, and the stage of a request against the rest of
\* its state: it has an answer exactly from the load on, and it is inside the
\* registry exactly while its stage says so.
TypeOK ==
    /\ backend \in Backends /\ coalesce \in Coalescing
    /\ stage \in [Requests -> Stages]
    /\ answer \in [Requests -> Items \cup {Failed, None}]
    /\ cache \in [Dbs -> [Keys -> [item : Items, live : BOOLEAN] \cup {None}]]
    /\ source \in [Dbs -> [Keys -> 0 .. MaxVer]]
    /\ floor \in [Dbs -> [Keys -> 0 .. MaxVer]]
    /\ due \in [Requests -> 0 .. MaxVer]
    /\ Flight!TypeOK
    /\ \A c \in Requests :
          /\ stage[c] \in {"fill", "done"} => answer[c] # None
          /\ flight[c] \in {"loading", "publishing", "waiting"} => stage[c] = "flight"

\* What an entry holds was loaded for its own key from its own Database, and it
\* is at least as recent as the last invalidation that no request overlapped:
\* fills, purges and repairs, in whatever order, never bring an older value back.
EntriesFresh ==
    \A d \in Dbs, k \in Keys : cache[d][k] # None =>
        LET i == cache[d][k].item
        IN  i.db = d /\ i.key = k /\ i.ver >= floor[d][k]

\* The same of the answers: a request, be it a hit, a leader or a follower that
\* joined an older load, never returns a row older than the last undisturbed
\* invalidation before it looked at the cache.
AnswersFresh ==
    \A c \in Requests : stage[c] = "done" /\ answer[c] # Failed =>
        /\ answer[c].db = DbOf[c] /\ answer[c].key = KeyOf[c]
        /\ answer[c].ver >= due[c]

-----------------------------------------------------------------------------
\* What EntriesFresh and AnswersFresh ask of the application.  The registry is
\* keyed by the full key alone: where loads are coalesced, only one Database of
\* the process may use a given key (the runs choose DbOf so).
OneDbPerKey ==
    TRUE \in Coalescing =>
        \A c, d \in Requests : KeyOf[c] = KeyOf[d] => DbOf[c] = DbOf[d]

\* A request is in the registry only in its stage "flight", it has a message only
\* while it waits for one, and it has a value to write back after the load.
Staged ==
    \A c \in Requests :
        /\ stage[c] \in {"idle", "purge", "repair", "load"} => flight[c] = "out"
        /\ stage[c] = "flight" =>
              coalesce /\ flight[c] \in {"out", "loading", "publishing", "waiting"}
        /\ stage[c] \in {"fill", "orphan"} => answer[c] \in Items
        /\ inbox[c] # None => flight[c] = "waiting"

\* Senders and subscriptions are those of the request's own key.
OwnKeys ==
    /\ \A k \in Keys : inflight[k] # None => KeyOf[inflight[k]] = k
    /\ \A c \in Requests : rx[c] # None => KeyOf[rx[c]] = KeyOf[c]

\* No invalidation is ahead of the row, and no lookup ahead of the invalidations.
FloorsReached ==
    /\ \A d \in Dbs, k \in Keys : floor[d][k] <= source[d][k]
    /\ \A c \in Requests : due[c] <= floor[DbOf[c]][KeyOf[c]]

\* i is no older than the last undisturbed invalidation of the key of c.
Fresh(c, i) == /\ i.db = DbOf[c] /\ i.key = KeyOf[c]
               /\ i.ver >= floor[DbOf[c]][KeyOf[c]]

\* Every value on its way to a request that is under way is fresh: what its
\* loader read, the broadcast it has not read yet, and what it writes back.
HandsFresh ==
    \A c \in Requests :
        /\ flight[c] = "publishing" /\ value[c] # Failed => Fresh(c, value[c])
        /\ flight[c] = "waiting" /\ inbox[c] \notin {None, Failed} => Fresh(c, inbox[c])
        /\ stage[c] \in {"fill", "orphan"} => Fresh(c, answer[c])

\* The inductive invariant of the state, and the one of the values in it.
IInv == TypeOK /\ Staged /\ OwnKeys /\ FloorsReached
FreshInv == EntriesFresh /\ AnswersFresh /\ HandsFresh
-----------------------------------------------------------------------------
\* A request that missed returns, unless the leader it waits for was dropped.
RequestsReturn ==
    \A c \in Requests :
        Busy(c) ~> \/ stage[c] \in {"done", "gone"}
                   \/ rx[c] # None /\ stage[rx[c]] = "gone"
=============================================================================
