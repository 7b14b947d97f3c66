-------------------------- MODULE CacheAsideProofs --------------------------
(***************************************************************************)
(* The safety of cache-aside reads for any number of requests, keys,       *)
(* Databases and row versions: IInv of CacheAside is inductive, and so is  *)
(* FreshInv as long as a key is used by one Database.                      *)
(***************************************************************************)
EXTENDS CacheAside, TLAPS

\* JSON maps outcomes to outcomes, and a value that survives it is unchanged.
LEMMA Json ==
    ASSUME NEW r \in Items \cup {Failed}
    PROVE  /\ Flight!Payload(r) \in {r, Failed}
           /\ Flight!Decoded(r) \in {r, Failed}
BY DEF Flight!Payload, Flight!Decoded

\* What a loader can read is an item of the request's own row.
LEMMA OutcomesTyped ==
    ASSUME TypeOK, NEW c \in Requests, NEW r \in Outcomes(c)
    PROVE  /\ r \in Items \cup {Failed}
           /\ r # Failed => /\ r.db = DbOf[c] /\ r.key = KeyOf[c]
                            /\ r.ver = source[DbOf[c]][KeyOf[c]]
<1>1. DbOf[c] \in Dbs /\ KeyOf[c] \in Keys
  BY CacheAssumption
<1>2. source[DbOf[c]][KeyOf[c]] \in 0 .. MaxVer
  BY <1>1 DEF TypeOK
<1>3. ASSUME NEW f \in Forms PROVE Current(c, f) \in Items
  BY <1>1, <1>2 DEF Current, Items
<1>4. QED
  BY <1>3 DEF Outcomes, Current

\* The process starts with empty caches and an empty registry.
LEMMA InitIInv == Init => IInv
<1> SUFFICES ASSUME Init PROVE IInv
  OBVIOUS
<1>1. TypeOK
  BY CacheAssumption DEF Init, TypeOK, Stages, Flight!Init, Flight!TypeOK,
     Flight!Stages, Flight!Outcomes
<1>2. Staged /\ OwnKeys
  BY CacheAssumption DEF Init, Staged, OwnKeys, Flight!Init
<1>3. FloorsReached
  BY CacheAssumption DEF Init, FloorsReached
<1>4. QED
  BY <1>1, <1>2, <1>3 DEF IInv

\* Looking the key up starts the request: it is not in the registry yet, and
\* floor is what it may count on.
LEMMA LookupIInv ==
    ASSUME IInv, NEW c \in Requests, NEW next \in Stages \ {"idle", "fill", "orphan"},
           NEW result \in Items \cup {Failed, None},
           next = "done" => result # None,
           next = "flight" => coalesce,
           Lookup(c, next, result)
    PROVE  IInv'
<1> USE CacheAssumption DEF IInv
<1>1. flight[c] = "out" /\ DbOf[c] \in Dbs /\ KeyOf[c] \in Keys
  BY DEF Lookup, Staged
<1>2. floor[DbOf[c]][KeyOf[c]] \in 0 .. MaxVer
  BY <1>1 DEF TypeOK
<1>3. Flight!TypeOK'
  BY DEF TypeOK, Lookup, flightVars, Flight!TypeOK
<1>4. TypeOK'
  BY <1>1, <1>2, <1>3 DEF TypeOK, Lookup, flightVars
<1>5. Staged'
  BY <1>1 DEF TypeOK, Staged, Lookup, flightVars
<1>6. OwnKeys' /\ FloorsReached'
  BY <1>2 DEF TypeOK, OwnKeys, FloorsReached, Lookup, flightVars
<1>7. QED
  BY <1>4, <1>5, <1>6

\* The five outcomes of cache.get are lookups.
LEMMA GetIInv == ASSUME IInv, NEW c \in Requests, Get(c) PROVE IInv'
<1>1. /\ Load \in Stages \ {"idle", "fill", "orphan"} /\ Load # "done"
      /\ Load = "flight" => coalesce
  BY DEF Load, Stages
<1>2. CASE GetHit(c)
  <2>1. Entry(c).item \in Items
    BY <1>2, CacheAssumption DEF IInv, TypeOK, GetHit, Entry
  <2>2. QED
    BY <1>2, <2>1, LookupIInv, CacheAssumption DEF GetHit, Stages
<1>3. CASE GetCorrupt(c)
  BY <1>3, LookupIInv DEF GetCorrupt, Stages
<1>4. CASE GetExpired(c)
  BY <1>4, LookupIInv DEF GetExpired, Stages
<1>5. CASE GetMiss(c)
  BY <1>1, <1>5, LookupIInv DEF GetMiss
<1>6. CASE GetError(c)
  BY <1>6, LookupIInv, CacheAssumption DEF GetError, Stages
<1>7. QED
  BY <1>2, <1>3, <1>4, <1>5, <1>6 DEF Get

\* A step outside the registry that moves one request on without an answer, or
\* none at all, and leaves a typed cache.
LEMMA CacheStepIInv ==
    ASSUME IInv, NEW c \in Requests, NEW next \in Stages,
           cache' \in [Dbs -> [Keys -> [item : Items, live : BOOLEAN] \cup {None}]],
           stage' = [stage EXCEPT ![c] = next],
           UNCHANGED <<backend, coalesce, answer, source, floor, due, flightVars>>,
           flight[c] \notin {"loading", "publishing", "waiting"} \/ next = "flight",
           next \in {"idle", "purge", "repair", "load", "flight"} => flight[c] = "out",
           next \in {"fill", "orphan"} => answer[c] \in Items,
           next = "done" => answer[c] # None,
           next = "flight" => coalesce
    PROVE  IInv'
<1> USE DEF IInv
<1>1. Flight!TypeOK'
  BY DEF TypeOK, flightVars, Flight!TypeOK
<1>2. stage' \in [Requests -> Stages]
  BY DEF TypeOK
<1>3. \A d \in Requests :
         /\ stage'[d] \in {"fill", "done"} => answer'[d] # None
         /\ flight'[d] \in {"loading", "publishing", "waiting"} => stage'[d] = "flight"
  BY CacheAssumption DEF TypeOK, flightVars
<1>4. TypeOK'
  BY <1>1, <1>2, <1>3 DEF TypeOK
<1>5. Staged'
  BY DEF TypeOK, Staged, flightVars
<1>6. OwnKeys' /\ FloorsReached'
  BY DEF OwnKeys, FloorsReached, flightVars
<1>7. QED
  BY <1>4, <1>5, <1>6

\* A dropped key leaves a typed cache, and the entries of the other keys.
LEMMA DropTyped ==
    ASSUME TypeOK, NEW d \in Dbs, NEW k \in Keys
    PROVE  /\ Drop(d, k) \in [Dbs -> [Keys -> [item : Items, live : BOOLEAN] \cup {None}]]
           /\ \A e \in Dbs, l \in Keys :
                 Drop(d, k)[e][l] = IF e = d /\ l = k THEN None ELSE cache[e][l]
<1> DEFINE E == [item : Items, live : BOOLEAN] \cup {None}
<1>1. cache \in [Dbs -> [Keys -> E]] /\ None \in E
  BY DEF TypeOK
<1> HIDE DEF E
<1>2. /\ Drop(d, k) \in [Dbs -> [Keys -> E]]
      /\ \A e \in Dbs, l \in Keys :
            Drop(d, k)[e][l] = IF e = d /\ l = k THEN None ELSE cache[e][l]
  BY <1>1 DEF Drop
<1>3. QED
  BY <1>2 DEF E

\* The deletions behind a get send the request to its load.
LEMMA RemovalIInv ==
    ASSUME IInv, NEW c \in Requests, Purge(c) \/ Repair(c) PROVE IInv'
<1>1. /\ Load \in Stages /\ Load \in {"load", "flight"}
      /\ Load = "flight" => coalesce
  BY DEF Load, Stages
<1>2. stage[c] \in {"purge", "repair"} /\ flight[c] = "out"
  BY DEF IInv, Staged, Purge, Repair
<1>3. cache' \in [Dbs -> [Keys -> [item : Items, live : BOOLEAN] \cup {None}]]
  <2>1. Drop(DbOf[c], KeyOf[c])
            \in [Dbs -> [Keys -> [item : Items, live : BOOLEAN] \cup {None}]]
    BY DropTyped, CacheAssumption DEF IInv
  <2>2. QED
    BY <2>1 DEF IInv, TypeOK, Purge, Repair
<1>4. /\ stage' = [stage EXCEPT ![c] = Load]
      /\ UNCHANGED <<backend, coalesce, answer, source, floor, due, flightVars>>
  BY DEF Purge, Repair
<1>5. QED
  BY <1>1, <1>2, <1>3, <1>4, CacheStepIInv

\* The write back ends the request.
LEMMA FillIInv == ASSUME IInv, NEW c \in Requests, Fill(c) PROVE IInv'
<1> DEFINE next == IF stage[c] = "fill" THEN "done" ELSE "gone"
<1>1. stage[c] \in {"fill", "orphan"} /\ next \in Stages /\ answer[c] \in Items
  BY DEF IInv, Staged, Fill, Stages
<1>2. flight[c] \notin {"loading", "publishing", "waiting"}
  BY <1>1 DEF IInv, TypeOK
<1>3. answer[c] # None
  BY <1>1, CacheAssumption
<1>4. cache' \in [Dbs -> [Keys -> [item : Items, live : BOOLEAN] \cup {None}]]
  <2> DEFINE e == [item |-> answer[c], live |-> TRUE]
             E == [item : Items, live : BOOLEAN] \cup {None}
  <2>1. e \in E /\ cache \in [Dbs -> [Keys -> E]]
    BY <1>1 DEF IInv, TypeOK
  <2>2. DbOf[c] \in Dbs /\ KeyOf[c] \in Keys
    BY CacheAssumption
  <2>3. cache' = cache \/ cache' = [cache EXCEPT ![DbOf[c]][KeyOf[c]] = e]
    BY DEF Fill
  <2> HIDE DEF e, E
  <2>4. cache' \in [Dbs -> [Keys -> E]]
    BY <2>1, <2>2, <2>3
  <2>5. QED
    BY <2>4 DEF E
<1>5. /\ stage' = [stage EXCEPT ![c] = next]
      /\ UNCHANGED <<backend, coalesce, answer, source, floor, due, flightVars>>
  BY DEF Fill, IInv, TypeOK
<1>6. next \notin {"idle", "purge", "repair", "load", "flight", "fill", "orphan"}
  OBVIOUS
<1> HIDE DEF next
<1>7. QED
  BY <1>1, <1>2, <1>3, <1>4, <1>5, <1>6, CacheStepIInv

\* A result of the load goes on to the write back, an error to the caller.
LEMMA GotIInv ==
    ASSUME IInv, NEW c \in Requests, NEW r \in Items \cup {Failed}, Got(c, r),
           Flight!TypeOK',
           OwnKeys',
           \A d \in Requests \ {c} : flight'[d] = flight[d],
           flight'[c] \notin {"loading", "publishing", "waiting"},
           inbox'[c] = None,
           \A d \in Requests \ {c} : inbox'[d] # None => flight'[d] = "waiting"
    PROVE  IInv'
<1> USE CacheAssumption DEF IInv
<1> DEFINE next == IF r = Failed THEN "done" ELSE "fill"
<1>1. /\ next \in Stages /\ r # None
      /\ next \in {"done", "fill"} /\ (next = "fill" => r \in Items)
  BY DEF Stages
<1>2. /\ stage' = [stage EXCEPT ![c] = next] /\ answer' = [answer EXCEPT ![c] = r]
      /\ coalesce' = coalesce
  BY DEF Got
<1> HIDE DEF next
<1>3. /\ stage' \in [Requests -> Stages]
      /\ answer' \in [Requests -> Items \cup {Failed, None}]
  BY <1>1, <1>2 DEF TypeOK
<1>4. \A d \in Requests :
         /\ stage'[d] \in {"fill", "done"} => answer'[d] # None
         /\ flight'[d] \in {"loading", "publishing", "waiting"} => stage'[d] = "flight"
  BY <1>1, <1>2 DEF TypeOK
<1>5. TypeOK'
  BY <1>3, <1>4 DEF TypeOK, Got
<1>6. Staged'
  BY <1>1, <1>2 DEF TypeOK, Staged
<1>7. FloorsReached'
  BY DEF FloorsReached, Got
<1>8. QED
  BY <1>5, <1>6, <1>7

\* The load without the registry.
LEMMA LoadDirectIInv ==
    ASSUME IInv, NEW c \in Requests, LoadDirect(c) PROVE IInv'
<1>1. PICK r \in Outcomes(c) : Got(c, r)
  BY DEF LoadDirect
<1>2. r \in Items \cup {Failed}
  BY OutcomesTyped DEF IInv
<1>3. flight[c] = "out" /\ UNCHANGED flightVars
  BY DEF IInv, Staged, LoadDirect
<1>4. Flight!TypeOK' /\ OwnKeys'
  BY <1>3 DEF IInv, TypeOK, Flight!TypeOK, OwnKeys, flightVars
<1>5. QED
  BY <1>1, <1>2, <1>3, <1>4, GotIInv DEF IInv, Staged, flightVars

\* The steps inside the registry before the result.
LEMMA EnterIInv == ASSUME IInv, NEW c \in Requests, Enter(c) PROVE IInv'
<1> USE CacheAssumption DEF IInv
<1>1. /\ stage[c] = "flight" /\ flight[c] = "out" /\ KeyOf[c] \in Keys
      /\ UNCHANGED own /\ UNCHANGED <<inbox, value>>
  BY DEF Enter, Flight!Enter
<1>2. /\ flight \in [Requests -> Flight!Stages]
      /\ inflight \in [Keys -> Requests \cup {None}]
      /\ rx \in [Requests -> Requests \cup {None}]
  BY DEF TypeOK, Flight!TypeOK
<1>3. PICK role \in {"loading", "waiting"} : flight' = [flight EXCEPT ![c] = role]
  BY DEF Enter, Flight!Enter
<1>4. /\ inflight' \in [Keys -> Requests \cup {None}]
      /\ rx' \in [Requests -> Requests \cup {None}]
      /\ OwnKeys'
  <2>1. CASE inflight[KeyOf[c]] = None
    <3>1. rx' = rx /\ inflight' = [inflight EXCEPT ![KeyOf[c]] = c]
      BY <2>1 DEF Enter, Flight!Enter
    <3>2. QED
      BY <1>1, <1>2, <3>1 DEF OwnKeys
  <2>2. CASE inflight[KeyOf[c]] # None
    <3>1. inflight' = inflight /\ rx' = [rx EXCEPT ![c] = inflight[KeyOf[c]]]
      BY <2>2 DEF Enter, Flight!Enter
    <3>2. inflight[KeyOf[c]] \in Requests \cup {None}
      BY <1>1, <1>2
    <3>3. QED
      BY <1>1, <1>2, <3>1, <3>2 DEF OwnKeys
  <2>3. QED
    BY <2>1, <2>2
<1>5. Flight!TypeOK'
  BY <1>1, <1>2, <1>3, <1>4 DEF TypeOK, Flight!TypeOK, Flight!Stages
<1>6. TypeOK'
  BY <1>1, <1>2, <1>3, <1>5 DEF TypeOK, own
<1>7. Staged'
  BY <1>1, <1>2, <1>3 DEF Staged, own
<1>8. FloorsReached'
  BY <1>1 DEF FloorsReached, own
<1>9. QED
  BY <1>4, <1>6, <1>7, <1>8

LEMMA LoaderReadsIInv == ASSUME IInv, NEW c \in Requests, LoaderReads(c) PROVE IInv'
<1> USE CacheAssumption DEF IInv
<1>1. PICK r \in Outcomes(c) : Flight!LoaderReturns(c, r)
  BY DEF LoaderReads
<1>2. r \in Items \cup {Failed} /\ r # None
  BY OutcomesTyped
<1>3. stage[c] = "flight" /\ flight[c] = "loading" /\ UNCHANGED own
  BY <1>1 DEF LoaderReads, Flight!LoaderReturns
<1>4. Flight!TypeOK'
  BY <1>1, <1>2 DEF TypeOK, Flight!LoaderReturns, Flight!TypeOK, Flight!Stages,
     Flight!Outcomes
<1>5. TypeOK'
  BY <1>1, <1>3, <1>4 DEF TypeOK, Flight!LoaderReturns, Flight!TypeOK, own
<1>6. Staged'
  BY <1>1, <1>3 DEF TypeOK, Staged, Flight!LoaderReturns, Flight!TypeOK, own
<1>7. OwnKeys' /\ FloorsReached'
  BY <1>1, <1>3 DEF OwnKeys, FloorsReached, Flight!LoaderReturns, own
<1>8. QED
  BY <1>5, <1>6, <1>7

\* The leader hands its value over and keeps it.
LEMMA PublishIInv == ASSUME IInv, NEW c \in Requests, Publish(c) PROVE IInv'
<1> USE CacheAssumption DEF IInv
<1>1. /\ flight[c] = "publishing" /\ flight' = [flight EXCEPT ![c] = "returned"]
      /\ inflight' = [inflight EXCEPT ![KeyOf[c]] = None]
      /\ UNCHANGED <<rx, value>>
      /\ KeyOf[c] \in Keys
  BY DEF Publish, Flight!Publish
<1>2. value[c] \in Items \cup {Failed}
  BY <1>1 DEF TypeOK, Flight!TypeOK, Flight!Outcomes
<1>3. Flight!Payload(value[c]) \in Items \cup {Failed}
  BY <1>2, Json
<1>4. inbox' \in [Requests -> Items \cup {Failed, None}]
  BY <1>3 DEF TypeOK, Flight!TypeOK, Flight!Outcomes, Publish, Flight!Publish
<1>5. Flight!TypeOK'
  BY <1>1, <1>2, <1>4 DEF TypeOK, Flight!TypeOK, Flight!Outcomes, Flight!Stages
<1>6. OwnKeys'
  BY <1>1 DEF TypeOK, Flight!TypeOK, OwnKeys
<1>7. \A d \in Requests : inbox'[d] # inbox[d] => flight[d] = "waiting"
  BY DEF Publish, Flight!Publish
<1>8. inbox'[c] = None
  BY <1>1, <1>7 DEF Staged
<1>9. \A d \in Requests \ {c} : /\ flight'[d] = flight[d]
                                /\ inbox'[d] # None => flight'[d] = "waiting"
  BY <1>1, <1>7 DEF TypeOK, Flight!TypeOK, Staged
<1>10. flight'[c] = "returned"
  BY <1>1 DEF TypeOK, Flight!TypeOK
<1>11. QED
  BY <1>2, <1>5, <1>6, <1>8, <1>9, <1>10, GotIInv DEF Publish

\* A follower takes the broadcast, or an error if it does not decode.
LEMMA ReceiveIInv == ASSUME IInv, NEW c \in Requests, Receive(c) PROVE IInv'
<1> USE CacheAssumption DEF IInv
<1>1. /\ flight[c] = "waiting" /\ inbox[c] # None
      /\ flight' = [flight EXCEPT ![c] = "returned"]
      /\ value' = [value EXCEPT ![c] = Flight!Decoded(inbox[c])]
      /\ inbox' = [inbox EXCEPT ![c] = None]
      /\ UNCHANGED <<inflight, rx>>
  BY DEF Receive, Flight!Receive
<1>2. inbox[c] \in Items \cup {Failed}
  BY <1>1 DEF TypeOK, Flight!TypeOK, Flight!Outcomes
<1>3. Flight!Decoded(inbox[c]) \in Items \cup {Failed}
  BY <1>2, Json
<1>4. Flight!TypeOK'
  BY <1>1, <1>3 DEF TypeOK, Flight!TypeOK, Flight!Outcomes, Flight!Stages
<1>5. OwnKeys'
  BY <1>1 DEF OwnKeys
<1>6. PICK r \in Items \cup {Failed} : Got(c, r)
  BY <1>1, <1>3 DEF Receive, TypeOK, Flight!TypeOK
<1>7. /\ flight'[c] \notin {"loading", "publishing", "waiting"}
      /\ inbox'[c] = None
      /\ \A d \in Requests \ {c} : flight'[d] = flight[d]
      /\ \A d \in Requests \ {c} : inbox'[d] # None => flight'[d] = "waiting"
  BY <1>1 DEF TypeOK, Flight!TypeOK, Staged
<1>8. QED
  BY <1>4, <1>5, <1>6, <1>7, GotIInv

\* A request that is dropped leaves its sender behind in the registry.
LEMMA AbandonIInv == ASSUME IInv, NEW c \in Requests, Abandon(c) PROVE IInv'
<1> USE CacheAssumption DEF IInv
<1> DEFINE next == IF stage[c] = "fill" THEN "orphan" ELSE "gone"
<1>1. /\ Busy(c) /\ stage[c] # "orphan"
      /\ stage' = [stage EXCEPT ![c] = next]
      /\ UNCHANGED <<backend, coalesce, answer, cache, source, floor, due>>
  BY DEF Abandon, TypeOK
<1>2. next \in Stages /\ (next = "orphan" => stage[c] = "fill")
      /\ next \in {"orphan", "gone"}
  BY DEF Stages
<1> HIDE DEF next
<1>3. CASE stage[c] = "flight" /\ flight[c] # "out"
  <2>1. /\ flight' = [flight EXCEPT ![c] = "dropped"]
        /\ inbox' = [inbox EXCEPT ![c] = None]
        /\ flight[c] \in {"loading", "waiting"}
        /\ UNCHANGED <<inflight, rx, value>>
    BY <1>3 DEF Abandon, Flight!Abandon
  <2>2. Flight!TypeOK'
    BY <2>1 DEF TypeOK, Flight!TypeOK, Flight!Stages
  <2>3. TypeOK'
    BY <1>1, <1>2, <2>1, <2>2 DEF TypeOK, Flight!TypeOK
  <2>4. Staged'
    BY <1>1, <1>2, <1>3, <2>1 DEF TypeOK, Staged, Flight!TypeOK
  <2>5. OwnKeys' /\ FloorsReached'
    BY <1>1, <2>1 DEF OwnKeys, FloorsReached
  <2>6. QED
    BY <2>3, <2>4, <2>5
<1>4. CASE ~(stage[c] = "flight" /\ flight[c] # "out")
  <2>1. UNCHANGED flightVars
    BY <1>4 DEF Abandon
  <2>2. flight[c] \notin {"loading", "publishing", "waiting"}
    BY <1>4 DEF TypeOK
  <2>3. next = "orphan" => answer[c] \in Items
    BY <1>2 DEF Staged
  <2>4. cache' \in [Dbs -> [Keys -> [item : Items, live : BOOLEAN] \cup {None}]]
    BY <1>1 DEF TypeOK
  <2>5. QED
    BY <1>1, <1>2, <2>1, <2>2, <2>3, <2>4, CacheStepIInv
<1>5. QED
  BY <1>3, <1>4

\* What the environment does to the cache, the row and the floor.
LEMMA EnvironmentIInv ==
    ASSUME IInv, NEW d \in Dbs, NEW k \in Keys, Environment(d, k) PROVE IInv'
<1> USE CacheAssumption DEF IInv
<1>1. UNCHANGED <<backend, coalesce, stage, answer, due, flightVars>>
  BY DEF Environment, Expire, Vanish, Write, Invalidate
<1>2. cache' \in [Dbs -> [Keys -> [item : Items, live : BOOLEAN] \cup {None}]]
  <2>1. CASE Expire(d, k)
    <3>1. cache[d][k] \in [item : Items, live : BOOLEAN]
      BY <2>1 DEF TypeOK, Expire
    <3>2. [cache[d][k] EXCEPT !.live = FALSE] \in [item : Items, live : BOOLEAN]
      BY <3>1
    <3>3. QED
      BY <2>1, <3>2 DEF TypeOK, Expire
  <2>2. CASE ~Expire(d, k)
    BY <2>2, DropTyped DEF TypeOK, Environment, Vanish, Write, Invalidate
  <2>3. QED
    BY <2>1, <2>2
<1>3. source[d][k] \in 0 .. MaxVer /\ floor[d][k] \in 0 .. MaxVer
  BY DEF TypeOK
<1>4. /\ source' \in [Dbs -> [Keys -> 0 .. MaxVer]]
      /\ \A e \in Dbs, l \in Keys : source[e][l] <= source'[e][l]
  <2>1. CASE Write(d, k)
    BY <1>3, <2>1 DEF TypeOK, Write
  <2>2. CASE ~Write(d, k)
    BY <2>2 DEF TypeOK, Environment, Expire, Vanish, Invalidate
  <2>3. QED
    BY <2>1, <2>2
<1>5. /\ floor' \in [Dbs -> [Keys -> 0 .. MaxVer]]
      /\ \A e \in Dbs, l \in Keys : /\ floor[e][l] <= floor'[e][l]
                                    /\ floor'[e][l] <= source'[e][l]
  <2>1. CASE Invalidate(d, k)
    BY <1>3, <2>1 DEF TypeOK, FloorsReached, Invalidate
  <2>2. CASE ~Invalidate(d, k)
    <3>1. floor' = floor
      BY <2>2 DEF Environment, Expire, Vanish, Write
    <3>2. QED
      BY <1>4, <3>1 DEF TypeOK, FloorsReached
  <2>3. QED
    BY <2>1, <2>2
<1>6. Flight!TypeOK'
  BY <1>1 DEF TypeOK, Flight!TypeOK, flightVars
<1>7. TypeOK'
  BY <1>1, <1>2, <1>4, <1>5, <1>6 DEF TypeOK, flightVars
<1>8. Staged' /\ OwnKeys'
  BY <1>1 DEF Staged, OwnKeys, flightVars
<1>9. FloorsReached'
  <2>1. ASSUME NEW c \in Requests PROVE due'[c] <= floor'[DbOf[c]][KeyOf[c]]
    <3>1. DbOf[c] \in Dbs /\ KeyOf[c] \in Keys /\ due'[c] = due[c]
      BY <1>1
    <3>2. due[c] <= floor[DbOf[c]][KeyOf[c]]
      BY DEF FloorsReached
    <3>3. QED
      BY <1>5, <3>1, <3>2 DEF TypeOK
  <2>2. QED
    BY <1>5, <2>1 DEF FloorsReached
<1>10. QED
  BY <1>7, <1>8, <1>9

\* IInv is inductive.
LEMMA NextIInv == IInv /\ [Next]_vars => IInv'
<1> SUFFICES ASSUME IInv, [Next]_vars PROVE IInv'
  OBVIOUS
<1>1. CASE UNCHANGED vars
  BY <1>1 DEF vars, own, flightVars, IInv, TypeOK, Staged, OwnKeys, FloorsReached,
     Flight!TypeOK
<1>2. ASSUME NEW c \in Requests, Get(c) PROVE IInv'
  BY <1>2, GetIInv
<1>3. ASSUME NEW c \in Requests, Proceed(c) PROVE IInv'
  BY <1>3, RemovalIInv, FillIInv, LoadDirectIInv, EnterIInv, LoaderReadsIInv,
     PublishIInv, ReceiveIInv DEF Proceed
<1>4. ASSUME NEW c \in Requests, Abandon(c) PROVE IInv'
  BY <1>4, AbandonIInv
<1>5. ASSUME NEW d \in Dbs, NEW k \in Keys, Environment(d, k) PROVE IInv'
  BY <1>5, EnvironmentIInv
<1>6. QED
  BY <1>1, <1>2, <1>3, <1>4, <1>5 DEF Next

THEOREM Invariance == Spec => []IInv
BY InitIInv, NextIInv, PTL DEF Spec

\* TypeOK holds of every number of requests and Databases: a request is in the
\* registry exactly while its stage says so, and never done without an answer.
THEOREM TypeCorrect == Spec => []TypeOK
<1>1. IInv => TypeOK
  BY DEF IInv
<1>2. QED
  BY <1>1, Invariance, PTL
-----------------------------------------------------------------------------
\* Nothing has been read when the process starts.
LEMMA InitFresh == Init => FreshInv
BY CacheAssumption DEF Init, FreshInv, EntriesFresh, AnswersFresh, HandsFresh, Flight!Init

\* A value at hand is an item, and recent enough for the request's lookup.
LEMMA FreshIsDue ==
    ASSUME IInv, NEW c \in Requests, NEW i \in Items, Fresh(c, i)
    PROVE  i.ver >= due[c]
<1>1. floor[DbOf[c]][KeyOf[c]] \in 0 .. MaxVer /\ due[c] \in 0 .. MaxVer
  BY CacheAssumption DEF IInv, TypeOK
<1>2. i.ver \in 0 .. MaxVer
  BY DEF Items
<1>3. due[c] <= floor[DbOf[c]][KeyOf[c]] /\ floor[DbOf[c]][KeyOf[c]] <= i.ver
  BY DEF IInv, FloorsReached, Fresh
<1>4. QED
  BY <1>1, <1>2, <1>3, CacheAssumption

\* What is left under the keys after a deletion is what was there.
LEMMA DropFresh ==
    ASSUME IInv, EntriesFresh, floor' = floor, NEW d \in Dbs, NEW k \in Keys,
           cache' \in {cache, Drop(d, k)}
    PROVE  EntriesFresh'
BY DropTyped DEF IInv, EntriesFresh

\* A lookup answers with nothing, an error, or the entry it found.
LEMMA GetFresh ==
    ASSUME IInv, FreshInv, NEW c \in Requests, Get(c) PROVE FreshInv'
<1> USE CacheAssumption
<1>1. DbOf[c] \in Dbs /\ KeyOf[c] \in Keys /\ Load \in {"load", "flight"}
  BY DEF Load
<1>2. PICK next \in {"done", "repair", "purge", "load", "flight"},
           result \in Items \cup {Failed, None} :
        /\ Lookup(c, next, result)
        /\ next = "done" /\ result # Failed => Fresh(c, result)
  <2>1. CASE GetHit(c)
    <3>1. Entry(c).item \in Items
      BY <2>1 DEF IInv, TypeOK, GetHit, Entry
    <3>2. Fresh(c, Entry(c).item)
      BY <1>1, <2>1 DEF FreshInv, EntriesFresh, GetHit, Entry, Fresh
    <3>3. QED
      BY <2>1, <3>1, <3>2 DEF GetHit
  <2>2. CASE ~GetHit(c)
    BY <1>1, <2>2 DEF Get, GetCorrupt, GetExpired, GetMiss, GetError
  <2>3. QED
    BY <2>1, <2>2
<1>3. /\ stage[c] = "idle" /\ stage' = [stage EXCEPT ![c] = next]
      /\ answer' = [answer EXCEPT ![c] = result]
      /\ due' = [due EXCEPT ![c] = floor[DbOf[c]][KeyOf[c]]]
      /\ UNCHANGED <<cache, floor, flight, inbox, value>>
  BY <1>2 DEF Lookup, flightVars
<1>4. EntriesFresh'
  BY <1>3 DEF FreshInv, EntriesFresh
<1>5. AnswersFresh'
  <2>1. ASSUME NEW d \in Requests, stage'[d] = "done", answer'[d] # Failed
        PROVE  /\ answer'[d].db = DbOf[d] /\ answer'[d].key = KeyOf[d]
               /\ answer'[d].ver >= due'[d]
    <3>1. CASE d = c
      BY <1>2, <1>3, <2>1, <3>1 DEF IInv, TypeOK, Fresh
    <3>2. CASE d # c
      BY <1>3, <2>1, <3>2 DEF IInv, TypeOK, FreshInv, AnswersFresh
    <3>3. QED
      BY <3>1, <3>2
  <2>2. QED
    BY <2>1 DEF AnswersFresh
<1>6. HandsFresh'
  BY <1>3 DEF IInv, TypeOK, FreshInv, HandsFresh, Fresh
<1>7. QED
  BY <1>4, <1>5, <1>6 DEF FreshInv

\* The deletions behind a get hand nothing out.
LEMMA RemovalFresh ==
    ASSUME IInv, FreshInv, NEW c \in Requests, Purge(c) \/ Repair(c) PROVE FreshInv'
<1>1. /\ stage' = [stage EXCEPT ![c] = Load] /\ Load \in {"load", "flight"}
      /\ UNCHANGED <<answer, floor, due, flight, inbox, value>>
  BY DEF Purge, Repair, Load, flightVars
<1>2. EntriesFresh'
  BY <1>1, DropFresh, CacheAssumption DEF FreshInv, Purge, Repair
<1>3. AnswersFresh'
  BY <1>1 DEF IInv, TypeOK, FreshInv, AnswersFresh
<1>4. HandsFresh'
  BY <1>1 DEF IInv, TypeOK, FreshInv, HandsFresh, Fresh
<1>5. QED
  BY <1>2, <1>3, <1>4 DEF FreshInv

\* A write back is as recent as the value at hand, however late it lands.
LEMMA FillFresh ==
    ASSUME IInv, FreshInv, NEW c \in Requests, Fill(c) PROVE FreshInv'
<1> USE CacheAssumption
<1>1. /\ stage[c] \in {"fill", "orphan"} /\ answer[c] \in Items /\ Fresh(c, answer[c])
      /\ stage' = [stage EXCEPT ![c] = IF stage[c] = "fill" THEN "done" ELSE "gone"]
      /\ UNCHANGED <<answer, floor, due, flight, inbox, value>>
  BY DEF IInv, Staged, FreshInv, HandsFresh, Fill, flightVars
<1>2. EntriesFresh'
  <2> DEFINE e == [item |-> answer[c], live |-> TRUE]
  <2>1. cache' = cache \/ cache' = [cache EXCEPT ![DbOf[c]][KeyOf[c]] = e]
    BY DEF Fill
  <2>2. e.item = answer[c]
    OBVIOUS
  <2> HIDE DEF e
  <2>3. ASSUME NEW d \in Dbs, NEW k \in Keys, cache'[d][k] # None
        PROVE  /\ cache'[d][k].item.db = d /\ cache'[d][k].item.key = k
               /\ cache'[d][k].item.ver >= floor[d][k]
    <3>1. \/ cache'[d][k] = cache[d][k]
          \/ d = DbOf[c] /\ k = KeyOf[c] /\ cache'[d][k] = e
      BY <2>1 DEF IInv, TypeOK
    <3>2. QED
      BY <1>1, <2>2, <2>3, <3>1 DEF FreshInv, EntriesFresh, Fresh
  <2>4. QED
    BY <1>1, <2>3 DEF EntriesFresh
<1>3. AnswersFresh'
  <2>1. ASSUME NEW d \in Requests, stage'[d] = "done", answer[d] # Failed
        PROVE  /\ answer[d].db = DbOf[d] /\ answer[d].key = KeyOf[d]
               /\ answer[d].ver >= due[d]
    <3>1. CASE d = c
      BY <1>1, <3>1, FreshIsDue DEF Fresh
    <3>2. CASE d # c
      BY <1>1, <2>1, <3>2 DEF IInv, TypeOK, FreshInv, AnswersFresh
    <3>3. QED
      BY <3>1, <3>2
  <2>2. QED
    BY <1>1, <2>1 DEF AnswersFresh
<1>4. HandsFresh'
  BY <1>1 DEF IInv, TypeOK, FreshInv, HandsFresh, Fresh
<1>5. QED
  BY <1>2, <1>3, <1>4 DEF FreshInv

\* A loader reads the row, which no invalidation is ahead of.
LEMMA LoadedIsFresh ==
    ASSUME IInv, NEW c \in Requests, NEW r \in Outcomes(c), r # Failed
    PROVE  Fresh(c, r)
<1>1. DbOf[c] \in Dbs /\ KeyOf[c] \in Keys
  BY CacheAssumption
<1>2. floor[DbOf[c]][KeyOf[c]] \in 0 .. MaxVer /\ source[DbOf[c]][KeyOf[c]] \in 0 .. MaxVer
  BY <1>1 DEF IInv, TypeOK
<1>3. floor[DbOf[c]][KeyOf[c]] <= source[DbOf[c]][KeyOf[c]]
  BY <1>1 DEF IInv, FloorsReached
<1>4. /\ r.db = DbOf[c] /\ r.key = KeyOf[c]
      /\ r.ver = source[DbOf[c]][KeyOf[c]]
  BY OutcomesTyped DEF IInv
<1>5. QED
  BY <1>2, <1>3, <1>4 DEF Fresh

\* A fresh result of the load stays fresh in the hands of the request, if the
\* registry keeps the values of the others so.
LEMMA GotFresh ==
    ASSUME IInv, FreshInv, NEW c \in Requests, NEW r, Got(c, r),
           r # Failed => Fresh(c, r),
           flight'[c] \notin {"publishing", "waiting"},
           \A d \in Requests \ {c} :
              /\ flight'[d] = "publishing" /\ value'[d] # Failed => Fresh(d, value'[d])
              /\ flight'[d] = "waiting" /\ inbox'[d] \notin {None, Failed}
                    => Fresh(d, inbox'[d])
    PROVE  FreshInv'
<1>1. /\ answer' = [answer EXCEPT ![c] = r]
      /\ stage' = [stage EXCEPT ![c] = IF r = Failed THEN "done" ELSE "fill"]
      /\ UNCHANGED <<cache, floor, due>>
  BY DEF Got
<1>2. EntriesFresh'
  BY <1>1 DEF FreshInv, EntriesFresh
<1>3. AnswersFresh'
  BY <1>1 DEF IInv, TypeOK, FreshInv, AnswersFresh
<1>4. HandsFresh'
  <2>1. ASSUME NEW d \in Requests
        PROVE  /\ flight'[d] = "publishing" /\ value'[d] # Failed => Fresh(d, value'[d])
               /\ flight'[d] = "waiting" /\ inbox'[d] \notin {None, Failed}
                     => Fresh(d, inbox'[d])
               /\ stage'[d] \in {"fill", "orphan"} => Fresh(d, answer'[d])
    <3>1. CASE d = c
      BY <1>1, <3>1 DEF IInv, TypeOK
    <3>2. CASE d # c
      BY <1>1, <3>2 DEF IInv, TypeOK, FreshInv, HandsFresh
    <3>3. QED
      BY <3>1, <3>2
  <2>2. QED
    BY <1>1, <2>1 DEF HandsFresh, Fresh
<1>5. QED
  BY <1>2, <1>3, <1>4 DEF FreshInv

LEMMA LoadDirectFresh ==
    ASSUME IInv, FreshInv, NEW c \in Requests, LoadDirect(c) PROVE FreshInv'
<1>1. PICK r \in Outcomes(c) : Got(c, r)
  BY DEF LoadDirect
<1>2. flight[c] = "out" /\ UNCHANGED <<flight, inbox, value>>
  BY DEF IInv, Staged, LoadDirect, flightVars
<1>3. r # Failed => Fresh(c, r)
  BY LoadedIsFresh
<1>4. QED
  BY <1>1, <1>2, <1>3, GotFresh DEF FreshInv, HandsFresh

\* A step inside the registry that leaves every value on its way fresh.
LEMMA FlightStepFresh ==
    ASSUME IInv, FreshInv, UNCHANGED own,
           \A d \in Requests :
              /\ flight'[d] = "publishing" /\ value'[d] # Failed => Fresh(d, value'[d])
              /\ flight'[d] = "waiting" /\ inbox'[d] \notin {None, Failed}
                    => Fresh(d, inbox'[d])
    PROVE  FreshInv'
BY DEF own, FreshInv, EntriesFresh, AnswersFresh, HandsFresh, Fresh

\* A call that enters has no value and no message.
LEMMA EnterFresh ==
    ASSUME IInv, FreshInv, NEW c \in Requests, Enter(c) PROVE FreshInv'
<1>1. /\ UNCHANGED own /\ UNCHANGED <<inbox, value>>
      /\ flight' = [flight EXCEPT ![c] = "loading"]
         \/ flight' = [flight EXCEPT ![c] = "waiting"]
  BY DEF Enter, Flight!Enter
<1>2. inbox[c] = None
  BY DEF IInv, Staged, Enter, Flight!Enter
<1>3. QED
  BY <1>1, <1>2, FlightStepFresh DEF IInv, TypeOK, Flight!TypeOK, FreshInv, HandsFresh

LEMMA LoaderReadsFresh ==
    ASSUME IInv, FreshInv, NEW c \in Requests, LoaderReads(c) PROVE FreshInv'
<1>1. PICK r \in Outcomes(c) : Flight!LoaderReturns(c, r)
  BY DEF LoaderReads
<1>2. /\ value' = [value EXCEPT ![c] = r]
      /\ flight' = [flight EXCEPT ![c] = "publishing"]
      /\ UNCHANGED inbox /\ UNCHANGED own
  BY <1>1 DEF LoaderReads, Flight!LoaderReturns
<1>3. r # Failed => Fresh(c, r)
  BY LoadedIsFresh
<1>4. QED
  BY <1>2, <1>3, FlightStepFresh DEF IInv, TypeOK, Flight!TypeOK, FreshInv, HandsFresh

\* The followers are of the leader's key, hence of its Database: what was fresh
\* for the leader is fresh for them, although they looked the key up later.
LEMMA PublishFresh ==
    ASSUME OneDbPerKey, IInv, FreshInv, NEW c \in Requests, Publish(c) PROVE FreshInv'
<1> USE CacheAssumption
<1>1. /\ flight[c] = "publishing" /\ flight' = [flight EXCEPT ![c] = "returned"]
      /\ UNCHANGED value
      /\ Got(c, value[c])
      /\ KeyOf[c] \in Keys
  BY DEF Publish, Flight!Publish
<1>2. value[c] \in Items \cup {Failed} /\ (value[c] # Failed => Fresh(c, value[c]))
  BY <1>1 DEF IInv, TypeOK, Flight!TypeOK, Flight!Outcomes, FreshInv, HandsFresh
<1>3. Flight!Payload(value[c]) \in {value[c], Failed}
  BY <1>2, Json
<1>4. ASSUME NEW d \in Requests \ {c}
      PROVE  /\ flight'[d] = "publishing" /\ value'[d] # Failed => Fresh(d, value'[d])
             /\ flight'[d] = "waiting" /\ inbox'[d] \notin {None, Failed}
                   => Fresh(d, inbox'[d])
  <2>1. flight'[d] = flight[d] /\ value'[d] = value[d]
    BY <1>1 DEF IInv, TypeOK, Flight!TypeOK
  <2>2. \/ inbox'[d] = inbox[d]
        \/ /\ rx[d] = inflight[KeyOf[c]] /\ inflight[KeyOf[c]] # None
           /\ inbox'[d] = Flight!Payload(value[c])
    BY DEF Publish, Flight!Publish
  <2>3. CASE inbox'[d] = inbox[d]
    BY <2>1, <2>3 DEF FreshInv, HandsFresh
  <2>4. CASE rx[d] = inflight[KeyOf[c]] /\ inflight[KeyOf[c]] # None
             /\ inbox'[d] = Flight!Payload(value[c])
    <3>1. KeyOf[d] = KeyOf[c]
      BY <1>1, <2>4 DEF IInv, OwnKeys
    <3>2. TRUE \in Coalescing
      BY <1>1 DEF IInv, TypeOK, Staged
    <3>3. DbOf[d] = DbOf[c]
      BY <3>1, <3>2 DEF OneDbPerKey
    <3>4. inbox'[d] # Failed => Fresh(d, inbox'[d])
      BY <1>2, <1>3, <2>4, <3>1, <3>3 DEF Fresh
    <3>5. QED
      BY <2>1, <3>4 DEF FreshInv, HandsFresh
  <2>5. QED
    BY <2>2, <2>3, <2>4
<1>5. flight'[c] \notin {"publishing", "waiting"}
  BY <1>1 DEF IInv, TypeOK, Flight!TypeOK
<1>6. QED
  BY <1>1, <1>2, <1>4, <1>5, GotFresh

LEMMA ReceiveFresh ==
    ASSUME IInv, FreshInv, NEW c \in Requests, Receive(c) PROVE FreshInv'
<1> USE CacheAssumption
<1>1. /\ flight[c] = "waiting" /\ inbox[c] # None
      /\ flight' = [flight EXCEPT ![c] = "returned"]
      /\ value' = [value EXCEPT ![c] = Flight!Decoded(inbox[c])]
      /\ inbox' = [inbox EXCEPT ![c] = None]
      /\ Got(c, value'[c])
  BY DEF Receive, Flight!Receive
<1>2. inbox[c] \in Items \cup {Failed}
  BY <1>1 DEF IInv, TypeOK, Flight!TypeOK, Flight!Outcomes
<1>3. Flight!Decoded(inbox[c]) \in {inbox[c], Failed}
  BY <1>2, Json
<1>4. value'[c] = Flight!Decoded(inbox[c])
  BY <1>1 DEF IInv, TypeOK, Flight!TypeOK
<1>5. value'[c] # Failed => Fresh(c, value'[c])
  BY <1>1, <1>2, <1>3, <1>4 DEF FreshInv, HandsFresh
<1>6. ASSUME NEW d \in Requests \ {c}
      PROVE  /\ flight'[d] = "publishing" /\ value'[d] # Failed => Fresh(d, value'[d])
             /\ flight'[d] = "waiting" /\ inbox'[d] \notin {None, Failed}
                   => Fresh(d, inbox'[d])
  BY <1>1 DEF IInv, TypeOK, Flight!TypeOK, FreshInv, HandsFresh
<1>7. flight'[c] \notin {"publishing", "waiting"}
  BY <1>1 DEF IInv, TypeOK, Flight!TypeOK
<1>8. QED
  BY <1>1, <1>5, <1>6, <1>7, GotFresh

\* What is dropped hands nothing out; a write back under way keeps its value.
LEMMA AbandonFresh ==
    ASSUME IInv, FreshInv, NEW c \in Requests, Abandon(c) PROVE FreshInv'
<1>1. /\ stage' = [stage EXCEPT ![c] = IF stage[c] = "fill" THEN "orphan" ELSE "gone"]
      /\ UNCHANGED <<answer, cache, floor, due>>
  BY DEF Abandon
<1>2. EntriesFresh'
  BY <1>1 DEF FreshInv, EntriesFresh
<1>3. AnswersFresh'
  BY <1>1 DEF IInv, TypeOK, FreshInv, AnswersFresh
<1>4. ASSUME NEW d \in Requests
      PROVE  /\ flight'[d] = "publishing" /\ value'[d] # Failed => Fresh(d, value'[d])
             /\ flight'[d] = "waiting" /\ inbox'[d] \notin {None, Failed}
                   => Fresh(d, inbox'[d])
             /\ stage'[d] \in {"fill", "orphan"} => Fresh(d, answer'[d])
  <2>1. \/ UNCHANGED <<flight, inbox, value>>
        \/ /\ flight' = [flight EXCEPT ![c] = "dropped"] /\ UNCHANGED value
           /\ inbox' = [inbox EXCEPT ![c] = None]
    BY DEF Abandon, Flight!Abandon, flightVars
  <2>2. stage'[d] \in {"fill", "orphan"} => stage[d] \in {"fill", "orphan"}
    BY <1>1 DEF IInv, TypeOK
  <2>3. QED
    BY <1>1, <2>1, <2>2 DEF IInv, TypeOK, Flight!TypeOK, FreshInv, HandsFresh
<1>5. HandsFresh'
  BY <1>1, <1>4 DEF HandsFresh, Fresh
<1>6. QED
  BY <1>2, <1>3, <1>5 DEF FreshInv

\* An invalidation raises the floor of its key only while no value of that key
\* is under way, and leaves no entry behind.
LEMMA EnvironmentFresh ==
    ASSUME IInv, FreshInv, NEW d \in Dbs, NEW k \in Keys, Environment(d, k)
    PROVE  FreshInv'
<1> USE CacheAssumption
<1>1. UNCHANGED <<stage, answer, due, flight, inbox, value>>
  BY DEF Environment, Expire, Vanish, Write, Invalidate, flightVars
<1>2. AnswersFresh'
  BY <1>1 DEF FreshInv, AnswersFresh
<1>3. ASSUME NEW e \in Dbs, NEW l \in Keys
      PROVE  \/ floor'[e][l] = floor[e][l]
             \/ e = d /\ l = k /\ Quiet(k) /\ cache'[e][l] = None
  <2>1. CASE Invalidate(d, k)
    BY <2>1 DEF IInv, TypeOK, Invalidate, Drop
  <2>2. CASE ~Invalidate(d, k)
    BY <2>2 DEF Environment, Expire, Vanish, Write
  <2>3. QED
    BY <2>1, <2>2
<1>4. ASSUME NEW e \in Dbs, NEW l \in Keys, cache'[e][l] # None
      PROVE  cache[e][l] # None /\ cache'[e][l].item = cache[e][l].item
  <2>1. CASE Expire(d, k)
    <3>1. cache[d][k] \in [item : Items, live : BOOLEAN]
      BY <2>1 DEF IInv, TypeOK, Expire
    <3>2. [cache[d][k] EXCEPT !.live = FALSE].item = cache[d][k].item
      BY <3>1
    <3>3. \/ cache'[e][l] = cache[e][l]
          \/ e = d /\ l = k /\ cache'[e][l] = [cache[d][k] EXCEPT !.live = FALSE]
      BY <2>1 DEF IInv, TypeOK, Expire
    <3>4. QED
      BY <1>4, <2>1, <3>2, <3>3 DEF Expire
  <2>2. CASE ~Expire(d, k)
    <3>1. cache' \in {cache, Drop(d, k)}
      BY <2>2 DEF Environment, Vanish, Write, Invalidate
    <3>2. QED
      BY <1>4, <3>1, DropTyped DEF IInv
  <2>3. QED
    BY <2>1, <2>2
<1>5. EntriesFresh'
  BY <1>3, <1>4 DEF FreshInv, EntriesFresh
<1>6. ASSUME NEW c \in Requests, Busy(c), NEW i, Fresh(c, i) PROVE Fresh(c, i)'
  <2>1. floor'[DbOf[c]][KeyOf[c]] = floor[DbOf[c]][KeyOf[c]]
    BY <1>3, <1>6 DEF Quiet
  <2>2. QED
    BY <1>6, <2>1 DEF Fresh
<1>7. HandsFresh'
  <2>1. ASSUME NEW c \in Requests
        PROVE  /\ flight[c] \in {"publishing", "waiting"} => Busy(c)
               /\ stage[c] \in {"fill", "orphan"} => Busy(c)
    BY DEF IInv, TypeOK, Busy
  <2>2. QED
    BY <1>1, <1>6, <2>1 DEF FreshInv, HandsFresh
<1>8. QED
  BY <1>2, <1>5, <1>7 DEF FreshInv

\* FreshInv is inductive, given IInv, when no key is used by two Databases.
LEMMA NextFresh ==
    ASSUME OneDbPerKey PROVE IInv /\ FreshInv /\ [Next]_vars => FreshInv'
<1> SUFFICES ASSUME IInv, FreshInv, [Next]_vars PROVE FreshInv'
  OBVIOUS
<1>1. CASE UNCHANGED vars
  BY <1>1 DEF vars, own, flightVars, FreshInv, EntriesFresh, AnswersFresh, HandsFresh, Fresh
<1>2. ASSUME NEW c \in Requests, Get(c) PROVE FreshInv'
  BY <1>2, GetFresh
<1>3. ASSUME NEW c \in Requests, Proceed(c) PROVE FreshInv'
  BY <1>3, RemovalFresh, FillFresh, LoadDirectFresh, EnterFresh, LoaderReadsFresh,
     PublishFresh, ReceiveFresh DEF Proceed
<1>4. ASSUME NEW c \in Requests, Abandon(c) PROVE FreshInv'
  BY <1>4, AbandonFresh
<1>5. ASSUME NEW d \in Dbs, NEW k \in Keys, Environment(d, k) PROVE FreshInv'
  BY <1>5, EnvironmentFresh
<1>6. QED
  BY <1>1, <1>2, <1>3, <1>4, <1>5 DEF Next

\* Nothing stale is ever cached: whatever the order of fills, late fills,
\* purges, repairs and invalidations, an entry is of its own key and Database and
\* no older than the last invalidation that no request of the key overlapped.
THEOREM CachedIsFresh == ASSUME OneDbPerKey PROVE Spec => []EntriesFresh
<1>1. Init => FreshInv
  BY InitFresh
<1>2. IInv /\ FreshInv /\ [Next]_vars => FreshInv'
  BY NextFresh
<1>3. FreshInv => EntriesFresh
  BY DEF FreshInv
<1>4. QED
  BY <1>1, <1>2, <1>3, Invariance, PTL DEF Spec

\* Nothing stale is ever returned, be it a hit, a load of the request's own or
\* the load of a leader that started before it.
THEOREM ReturnedIsFresh == ASSUME OneDbPerKey PROVE Spec => []AnswersFresh
<1>1. Init => FreshInv
  BY InitFresh
<1>2. IInv /\ FreshInv /\ [Next]_vars => FreshInv'
  BY NextFresh
<1>3. FreshInv => AnswersFresh
  BY DEF FreshInv
<1>4. QED
  BY <1>1, <1>2, <1>3, Invariance, PTL DEF Spec
-----------------------------------------------------------------------------
Registry == INSTANCE SingleFlightProofs WITH Calls <- Requests, Values <- Items

\* The requests use the registry as SingleFlight describes it.
THEOREM UsesRegistry == Spec => Registry!Spec
<1>1. Init => Registry!Init
  BY DEF Init, Flight!Init, Registry!Init
<1>2. IInv /\ [Next]_vars => [Registry!Next]_(Registry!vars)
  <2> SUFFICES ASSUME IInv, [Next]_vars PROVE [Registry!Next]_(Registry!vars)
    OBVIOUS
  <2>1. UNCHANGED flightVars => UNCHANGED Registry!vars
    BY DEF flightVars, Registry!vars
  <2>2. CASE UNCHANGED vars
    BY <2>1, <2>2 DEF vars
  <2>3. ASSUME NEW c \in Requests, Get(c) PROVE UNCHANGED flightVars
    BY <2>3 DEF Get, GetHit, GetCorrupt, GetExpired, GetMiss, GetError, Lookup
  <2>4. ASSUME NEW c \in Requests, Purge(c) \/ Repair(c) \/ Fill(c) \/ LoadDirect(c)
        PROVE  UNCHANGED flightVars
    BY <2>4 DEF Purge, Repair, Fill, LoadDirect
  <2>5. ASSUME NEW c \in Requests, Enter(c) PROVE Registry!Next
    BY <2>5 DEF Enter, Flight!Enter, Registry!Enter, Registry!Next
  <2>6. ASSUME NEW c \in Requests, LoaderReads(c) PROVE Registry!Next
    <3>1. PICK r \in Outcomes(c) : Flight!LoaderReturns(c, r)
      BY <2>6 DEF LoaderReads
    <3>2. r \in Registry!Outcomes
      BY OutcomesTyped DEF IInv, Registry!Outcomes
    <3>3. Registry!LoaderReturns(c, r)
      BY <3>1 DEF Flight!LoaderReturns, Registry!LoaderReturns
    <3>4. QED
      BY <3>2, <3>3 DEF Registry!Next
  <2>7. ASSUME NEW c \in Requests, Publish(c) PROVE Registry!Next
    <3>1. Registry!Publish(c)
      BY <2>7 DEF Publish, Flight!Publish, Flight!Payload, Registry!Publish,
         Registry!Payload
    <3>2. QED
      BY <3>1 DEF Registry!Next
  <2>8. ASSUME NEW c \in Requests, Receive(c) PROVE Registry!Next
    <3>1. Registry!Receive(c)
      BY <2>8 DEF Receive, Flight!Receive, Flight!Decoded, Registry!Receive,
         Registry!Decoded
    <3>2. QED
      BY <3>1 DEF Registry!Next
  <2>9. ASSUME NEW c \in Requests, Abandon(c)
        PROVE  Registry!Next \/ UNCHANGED flightVars
    BY <2>9 DEF Abandon, Flight!Abandon, Registry!Abandon, Registry!Next
  <2>10. ASSUME NEW d \in Dbs, NEW k \in Keys, Environment(d, k) PROVE UNCHANGED flightVars
    BY <2>10 DEF Environment, Expire, Vanish, Write, Invalidate
  <2>11. QED
    BY <2>1, <2>2, <2>3, <2>4, <2>5, <2>6, <2>7, <2>8, <2>9, <2>10 DEF Next, Proceed
<1>3. QED
  BY <1>1, <1>2, Invariance, PTL DEF Spec, Registry!Spec

\* So no two loaders of one key run in the process at any time when the requests
\* are coalesced.
THEOREM OneLoader == Spec => []Registry!OneLoaderPerKey
<1>1. Registry!FlightAssumption
  BY CacheAssumption DEF Registry!FlightAssumption, Registry!Outcomes, Unserializable,
     Undecodable
<1>2. Registry!Spec => []Registry!OneLoaderPerKey
  BY <1>1, Registry!OneLoader
<1>3. QED
  BY <1>2, UsesRegistry, PTL
=============================================================================
