---------------------------- MODULE SingleFlight ----------------------------
(***************************************************************************)
(* single_flight::run of src/src/repo.rs: the process-wide registry that   *)
(* merges concurrent loads of one key.  The first call of a key becomes    *)
(* its leader, registers the sender of a broadcast channel under the key   *)
(* and runs the loader; the calls that find a sender subscribe to it.      *)
(*                                                                         *)
(* One element of Calls is one invocation of run, so a channel is named by *)
(* the call that created it.  What happens under the registry mutex is one *)
(* step.  The loader and the wait for the broadcast are await points: the  *)
(* caller may drop the future there (or the loader may panic).             *)
(***************************************************************************)
CONSTANTS Calls,          \* one element per invocation of run
          Keys,           \* the (prefixed) cache keys
          KeyOf,          \* the key each call is made with
          Values,         \* what a loader can return
          Unserializable, \* the values serde_json::to_vec fails on
          Undecodable,    \* the values whose JSON does not read back as T
          Failed,         \* any DbError
          None

Outcomes == Values \cup {Failed}

ASSUME FlightAssumption ==
    /\ KeyOf \in [Calls -> Keys]
    /\ Unserializable \subseteq Values
    /\ Undecodable \subseteq Values
    /\ Failed \notin Values
    /\ None \notin Outcomes \cup Calls

VARIABLES flight,   \* flight[c]: where call c is inside run
          inflight, \* Registry.inflight: the call whose sender is under each key
          rx,       \* rx[c]: the channel follower c subscribed to
          inbox,    \* inbox[c]: the broadcast follower c has not read yet
          value     \* value[c]: what the loader of c, or c itself, returned

vars == <<flight, inflight, rx, inbox, value>>

Stages == {"out", "loading", "publishing", "waiting", "returned", "dropped"}

Init == /\ flight = [c \in Calls |-> "out"]
        /\ inflight = [k \in Keys |-> None]
        /\ rx = [c \in Calls |-> None]
        /\ inbox = [c \in Calls |-> None]
        /\ value = [c \in Calls |-> None]

\* What the leader broadcasts, and what a follower makes of it.
Payload(r) == IF r \in Unserializable THEN Failed ELSE r
Decoded(p) == IF p \in Undecodable THEN Failed ELSE p

\* Mistakes that the properties below tell apart from the code: the lookup and
\* the insertion in two critical sections; reading the channel without waiting
\* for a message; removing the sender without sending; sending before the
\* sender is removed; waking the followers of every key.
EnterRacing(c) ==
    /\ flight[c] = "out"
    /\ inflight' = [inflight EXCEPT ![KeyOf[c]] = c]
    /\ flight' = [flight EXCEPT ![c] = "loading"]
    /\ UNCHANGED <<rx, inbox, value>>

ReceiveTry(c) ==
    /\ flight[c] = "waiting"
    /\ value' = [value EXCEPT ![c] = inbox[c]]
    /\ inbox' = [inbox EXCEPT ![c] = None]
    /\ flight' = [flight EXCEPT ![c] = "returned"]
    /\ UNCHANGED <<inflight, rx>>

PublishSilently(c) ==
    /\ flight[c] = "publishing"
    /\ inflight' = [inflight EXCEPT ![KeyOf[c]] = None]
    /\ flight' = [flight EXCEPT ![c] = "returned"]
    /\ UNCHANGED <<rx, inbox, value>>

PublishKeeping(c) ==
    /\ flight[c] = "publishing"
    /\ inbox' = [d \in Calls |-> IF flight[d] = "waiting" /\ rx[d] = c
                                 THEN value[c] ELSE inbox[d]]
    /\ flight' = [flight EXCEPT ![c] = "returned"]
    /\ UNCHANGED <<inflight, rx, value>>

PublishToAll(c) ==
    /\ flight[c] = "publishing"
    /\ inflight' = [inflight EXCEPT ![KeyOf[c]] = None]
    /\ inbox' = [d \in Calls |-> IF flight[d] = "waiting" THEN value[c] ELSE inbox[d]]
    /\ flight' = [flight EXCEPT ![c] = "returned"]
    /\ UNCHANGED <<rx, value>>

\* Under the lock: become the leader of the key or subscribe to its leader.
Enter(c) ==
    /\ flight[c] = "out"
    /\ \/ /\ inflight[KeyOf[c]] = None
          /\ inflight' = [inflight EXCEPT ![KeyOf[c]] = c]
          /\ flight' = [flight EXCEPT ![c] = "loading"]
          /\ UNCHANGED rx
       \/ /\ inflight[KeyOf[c]] # None
          /\ rx' = [rx EXCEPT ![c] = inflight[KeyOf[c]]]
          /\ flight' = [flight EXCEPT ![c] = "waiting"]
          /\ UNCHANGED inflight
    /\ UNCHANGED <<inbox, value>>

\* The leader's loader returns r; the leader serializes it without the lock.
LoaderReturns(c, r) ==
    /\ flight[c] = "loading"
    /\ value' = [value EXCEPT ![c] = r]
    /\ flight' = [flight EXCEPT ![c] = "publishing"]
    /\ UNCHANGED <<inflight, rx, inbox>>

\* Under the lock: remove the sender of the key, whosever it is, and send to
\* the receivers subscribed to it.
Publish(c) ==
    LET tx == inflight[KeyOf[c]]
    IN  /\ flight[c] = "publishing"
        /\ inflight' = [inflight EXCEPT ![KeyOf[c]] = None]
        /\ inbox' = [d \in Calls |->
                        IF tx # None /\ flight[d] = "waiting" /\ rx[d] = tx
                        THEN Payload(value[c]) ELSE inbox[d]]
        /\ flight' = [flight EXCEPT ![c] = "returned"]
        /\ UNCHANGED <<rx, value>>

\* A follower reads the broadcast.  recv cannot fail: the channel carries one
\* message, sent before its only sender is dropped (NoLostWakeup).
Receive(c) ==
    /\ flight[c] = "waiting"
    /\ inbox[c] # None
    /\ value' = [value EXCEPT ![c] = Decoded(inbox[c])]
    /\ inbox' = [inbox EXCEPT ![c] = None]
    /\ flight' = [flight EXCEPT ![c] = "returned"]
    /\ UNCHANGED <<inflight, rx>>

\* The future of run is dropped at an await point, or the loader panics.  No
\* destructor touches the registry.
Abandon(c) ==
    /\ flight[c] \in {"loading", "waiting"}
    /\ flight' = [flight EXCEPT ![c] = "dropped"]
    /\ inbox' = [inbox EXCEPT ![c] = None]
    /\ UNCHANGED <<inflight, rx, value>>

Next == \E c \in Calls : \/ Enter(c)
                         \/ \E r \in Outcomes : LoaderReturns(c, r)
                         \/ Publish(c)
                         \/ Receive(c)
                         \/ Abandon(c)

\* A loader returns in the end, and the runtime polls what can proceed.
Fairness == \A c \in Calls : /\ WF_vars(\E r \in Outcomes : LoaderReturns(c, r))
                             /\ WF_vars(Publish(c))
                             /\ WF_vars(Receive(c))

Spec == Init /\ [][Next]_vars
FairSpec == Spec /\ Fairness
-----------------------------------------------------------------------------
\* The types of the variables; a call has a result exactly when it got one.
TypeOK ==
    /\ flight \in [Calls -> Stages]
    /\ inflight \in [Keys -> Calls \cup {None}]
    /\ rx \in [Calls -> Calls \cup {None}]
    /\ inbox \in [Calls -> Outcomes \cup {None}]
    /\ value \in [Calls -> Outcomes \cup {None}]
    /\ \A c \in Calls : value[c] # None <=> flight[c] \in {"publishing", "returned"}

Leading(c) == flight[c] \in {"loading", "publishing"}

\* At most one loader of a key runs at any time, also across a leader that
\* was dropped: the registry lookup and the insertion are one critical section.
OneLoaderPerKey ==
    \A c, d \in Calls : Leading(c) /\ Leading(d) /\ KeyOf[c] = KeyOf[d] => c = d

\* A follower that has no message yet is subscribed to the sender that is
\* still registered under its key: no broadcast happened between the lookup
\* and the subscription, and recv never meets a closed channel.
NoLostWakeup ==
    \A c \in Calls : flight[c] = "waiting" /\ inbox[c] = None
                        => rx[c] # None /\ inflight[KeyOf[c]] = rx[c]

\* A follower that returns gives exactly what its leader's loader returned,
\* passed through JSON, and its leader loaded the follower's own key.
FollowersAgree ==
    \A c \in Calls : flight[c] = "returned" /\ rx[c] # None
                        => /\ KeyOf[rx[c]] = KeyOf[c]
                           /\ value[c] = Decoded(Payload(value[rx[c]]))

\* The registry entry of a key is its leader, or a leader that was dropped.
LeaderRegistered ==
    /\ \A c \in Calls : Leading(c) => inflight[KeyOf[c]] = c
    /\ \A k \in Keys : inflight[k] # None
            => /\ KeyOf[inflight[k]] = k
               /\ flight[inflight[k]] \in {"loading", "publishing", "dropped"}

\* A message that waits for a follower is the payload of its leader, which has
\* returned by then.
InboxFromLeader ==
    \A c \in Calls :
        /\ rx[c] # None => KeyOf[rx[c]] = KeyOf[c]
        /\ flight[c] \in {"out", "loading", "publishing"} => rx[c] = None
        /\ flight[c] = "waiting" => rx[c] # None
        /\ inbox[c] # None => /\ flight[c] = "waiting"
                              /\ flight[rx[c]] = "returned"
                              /\ inbox[c] = Payload(value[rx[c]])
        /\ flight[c] = "returned" /\ rx[c] # None => flight[rx[c]] = "returned"

\* The inductive invariant.
IInv == TypeOK /\ LeaderRegistered /\ NoLostWakeup /\ InboxFromLeader /\ FollowersAgree
-----------------------------------------------------------------------------
\* The registry implements the atomic hand-over of LoadOnce: the followers are
\* answered when the leader publishes, although each of them reads it later.
Answer(c) == IF flight[c] = "returned" THEN value[c]
             ELSE IF inbox[c] # None THEN Decoded(inbox[c])
             ELSE None

Abstract == INSTANCE LoadOnce WITH
    Echo   <- [r \in Outcomes |-> Decoded(Payload(r))],
    loader <- inflight,
    group  <- [k \in Keys |-> {c \in Calls : /\ KeyOf[c] = k
                                             /\ flight[c] = "waiting"
                                             /\ inbox[c] = None}],
    answer <- [c \in Calls |-> Answer(c)],
    left   <- {c \in Calls : flight[c] = "dropped"}

\* Every behaviour of the registry is one of LoadOnce.
ImplementsLoadOnce == Abstract!Spec
-----------------------------------------------------------------------------
\* A follower stops waiting unless its leader was dropped while it loaded.
FollowersReleased ==
    \A c \in Calls : flight[c] = "waiting"
                        ~> \/ flight[c] # "waiting"
                           \/ rx[c] # None /\ flight[rx[c]] = "dropped"

\* What the comment on run says: the calls that do not lead get the result by
\* broadcast.  The code breaks it when the leader is dropped.
FollowersAnswered ==
    \A c \in Calls : flight[c] = "waiting" ~> flight[c] # "waiting"
=============================================================================
