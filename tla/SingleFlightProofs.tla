------------------------- MODULE SingleFlightProofs -------------------------
(***************************************************************************)
(* The safety of the load registry for any number of calls, keys and       *)
(* values: IInv of SingleFlight is inductive, the invariants follow from   *)
(* it, and the registry implements the atomic hand-over of LoadOnce.       *)
(***************************************************************************)
EXTENDS SingleFlight, TLAPS

\* JSON maps outcomes to outcomes: a broadcast is never mistaken for "nothing
\* was broadcast".
LEMMA JsonTypes ==
    ASSUME NEW r \in Outcomes
    PROVE  Payload(r) \in Outcomes /\ Decoded(r) \in Outcomes
BY DEF Payload, Decoded, Outcomes

\* No call is registered and nobody waits when the process starts.
LEMMA InitIInv == Init => IInv
BY FlightAssumption DEF Init, IInv, TypeOK, LeaderRegistered, NoLostWakeup,
    InboxFromLeader, FollowersAgree, Leading, Stages

\* A new call leads if its key is free and subscribes to the leader otherwise.
LEMMA EnterIInv == ASSUME IInv, NEW c \in Calls, Enter(c) PROVE IInv'
<1> USE FlightAssumption DEF IInv
<1>1. TypeOK'
  BY DEF TypeOK, Enter, Stages
<1>2. LeaderRegistered'
  BY DEF TypeOK, Enter, LeaderRegistered, Leading
<1>3. NoLostWakeup'
  BY DEF TypeOK, Enter, NoLostWakeup
<1>4. InboxFromLeader'
  BY DEF TypeOK, Enter, InboxFromLeader, LeaderRegistered
<1>5. FollowersAgree'
  BY DEF TypeOK, Enter, FollowersAgree
<1>6. QED
  BY <1>1, <1>2, <1>3, <1>4, <1>5

\* The value of the loader is kept by a call nobody has been answered by.
LEMMA LoaderReturnsIInv ==
    ASSUME IInv, NEW c \in Calls, NEW r \in Outcomes, LoaderReturns(c, r) PROVE IInv'
<1> USE FlightAssumption DEF IInv
<1>1. TypeOK'
  BY DEF TypeOK, LoaderReturns, Stages
<1>2. LeaderRegistered'
  BY DEF TypeOK, LoaderReturns, LeaderRegistered, Leading
<1>3. NoLostWakeup'
  BY DEF TypeOK, LoaderReturns, NoLostWakeup
<1>4. InboxFromLeader'
  BY DEF TypeOK, LoaderReturns, InboxFromLeader
<1>5. FollowersAgree'
  BY DEF TypeOK, LoaderReturns, FollowersAgree, InboxFromLeader
<1>6. QED
  BY <1>1, <1>2, <1>3, <1>4, <1>5

\* The sender a leader removes is its own, and every follower that still waits
\* for a message of that key is subscribed to it.
LEMMA PublishReachesAll ==
    ASSUME IInv, NEW c \in Calls, Publish(c)
    PROVE  /\ inflight[KeyOf[c]] = c
           /\ inbox' = [d \in Calls |-> IF flight[d] = "waiting" /\ rx[d] = c
                                        THEN Payload(value[c]) ELSE inbox[d]]
           /\ value[c] \in Outcomes
           /\ Payload(value[c]) \in Outcomes
           /\ Payload(value[c]) # None
           /\ rx[c] = None
<1>1. inflight[KeyOf[c]] = c /\ rx[c] = None
  BY DEF IInv, LeaderRegistered, InboxFromLeader, Leading, Publish
<1>2. c # None /\ None \notin Outcomes
  BY FlightAssumption
<1>3. value[c] \in Outcomes
  BY DEF IInv, TypeOK, Publish
<1>4. Payload(value[c]) \in Outcomes
  BY <1>3, JsonTypes
<1>5. inbox' = [d \in Calls |-> IF flight[d] = "waiting" /\ rx[d] = c
                                THEN Payload(value[c]) ELSE inbox[d]]
  BY <1>1, <1>2 DEF Publish
<1>6. QED
  BY <1>1, <1>2, <1>3, <1>4, <1>5

\* Publishing answers the followers and frees the key.
LEMMA PublishIInv == ASSUME IInv, NEW c \in Calls, Publish(c) PROVE IInv'
<1> USE FlightAssumption DEF IInv
<1>1. /\ inflight[KeyOf[c]] = c
      /\ value[c] \in Outcomes
      /\ Payload(value[c]) \in Outcomes \ {None}
      /\ rx[c] = None
  BY PublishReachesAll
<1>2. inbox' = [d \in Calls |-> IF flight[d] = "waiting" /\ rx[d] = c
                                THEN Payload(value[c]) ELSE inbox[d]]
  BY PublishReachesAll
<1>3. /\ flight[c] = "publishing"
      /\ inflight' = [inflight EXCEPT ![KeyOf[c]] = None]
      /\ flight' = [flight EXCEPT ![c] = "returned"]
      /\ UNCHANGED <<rx, value>>
  BY DEF Publish
<1>4. TypeOK'
  BY <1>1, <1>2, <1>3 DEF TypeOK, Stages
<1>5. LeaderRegistered'
  BY <1>1, <1>3 DEF TypeOK, LeaderRegistered, Leading
<1>6. NoLostWakeup'
  BY <1>1, <1>2, <1>3 DEF TypeOK, NoLostWakeup
<1>7. InboxFromLeader'
  <2> SUFFICES ASSUME NEW d \in Calls
               PROVE  /\ rx[d] # None => KeyOf[rx[d]] = KeyOf[d]
                      /\ flight'[d] \in {"out", "loading", "publishing"} => rx[d] = None
                      /\ flight'[d] = "waiting" => rx[d] # None
                      /\ inbox'[d] # None => /\ flight'[d] = "waiting"
                                             /\ flight'[rx[d]] = "returned"
                                             /\ inbox'[d] = Payload(value[rx[d]])
                      /\ flight'[d] = "returned" /\ rx[d] # None
                            => flight'[rx[d]] = "returned"
    BY <1>3 DEF InboxFromLeader
  <2>1. rx[d] # None => rx[d] \in Calls
    BY DEF TypeOK
  <2>2. CASE d = c
    BY <1>1, <1>2, <1>3, <2>2 DEF TypeOK, InboxFromLeader
  <2>3. CASE d # c
    BY <1>1, <1>2, <1>3, <2>1, <2>3 DEF TypeOK, InboxFromLeader
  <2>4. QED
    BY <2>2, <2>3
<1>8. FollowersAgree'
  BY <1>1, <1>3 DEF TypeOK, FollowersAgree
<1>9. QED
  BY <1>4, <1>5, <1>6, <1>7, <1>8

\* A follower reads the message its leader left for it.
LEMMA ReceiveIInv == ASSUME IInv, NEW c \in Calls, Receive(c) PROVE IInv'
<1> USE FlightAssumption DEF IInv
<1>1. inbox[c] \in Outcomes /\ Decoded(inbox[c]) \in Outcomes
  BY JsonTypes DEF TypeOK, Receive
<1>2. TypeOK'
  BY <1>1 DEF TypeOK, Receive, Stages
<1>3. LeaderRegistered'
  BY DEF TypeOK, Receive, LeaderRegistered, Leading
<1>4. NoLostWakeup'
  BY DEF TypeOK, Receive, NoLostWakeup
<1>5. InboxFromLeader'
  BY DEF TypeOK, Receive, InboxFromLeader
<1>6. FollowersAgree'
  BY DEF TypeOK, Receive, FollowersAgree, InboxFromLeader
<1>7. QED
  BY <1>2, <1>3, <1>4, <1>5, <1>6

\* A caller that goes away leaves its registration behind.
LEMMA AbandonIInv == ASSUME IInv, NEW c \in Calls, Abandon(c) PROVE IInv'
<1> USE FlightAssumption DEF IInv
<1>1. TypeOK'
  BY DEF TypeOK, Abandon, Stages
<1>2. LeaderRegistered'
  BY DEF TypeOK, Abandon, LeaderRegistered, Leading
<1>3. NoLostWakeup'
  BY DEF TypeOK, Abandon, NoLostWakeup
<1>4. InboxFromLeader'
  BY DEF TypeOK, Abandon, InboxFromLeader
<1>5. FollowersAgree'
  BY DEF TypeOK, Abandon, FollowersAgree, InboxFromLeader
<1>6. QED
  BY <1>1, <1>2, <1>3, <1>4, <1>5

\* IInv is inductive.
THEOREM InvarianceOfIInv == Spec => []IInv
<1>1. Init => IInv
  BY InitIInv
<1>2. IInv /\ [Next]_vars => IInv'
  <2> SUFFICES ASSUME IInv, [Next]_vars PROVE IInv'
    OBVIOUS
  <2>1. CASE UNCHANGED vars
    BY <2>1 DEF vars, IInv, TypeOK, LeaderRegistered, NoLostWakeup,
        InboxFromLeader, FollowersAgree, Leading
  <2>2. ASSUME NEW c \in Calls, Enter(c) PROVE IInv'
    BY <2>2, EnterIInv
  <2>3. ASSUME NEW c \in Calls, NEW r \in Outcomes, LoaderReturns(c, r) PROVE IInv'
    BY <2>3, LoaderReturnsIInv
  <2>4. ASSUME NEW c \in Calls, Publish(c) PROVE IInv'
    BY <2>4, PublishIInv
  <2>5. ASSUME NEW c \in Calls, Receive(c) PROVE IInv'
    BY <2>5, ReceiveIInv
  <2>6. ASSUME NEW c \in Calls, Abandon(c) PROVE IInv'
    BY <2>6, AbandonIInv
  <2>7. QED
    BY <2>1, <2>2, <2>3, <2>4, <2>5, <2>6 DEF Next
<1>3. QED
  BY <1>1, <1>2, PTL DEF Spec

\* The variables keep their types.
THEOREM TypeCorrect == Spec => []TypeOK
<1>1. IInv => TypeOK
  BY DEF IInv
<1>2. QED
  BY <1>1, InvarianceOfIInv, PTL

\* The lookup and the insertion being one critical section, a key never has two
\* loaders, whatever callers go away.
THEOREM OneLoader == Spec => []OneLoaderPerKey
<1>1. IInv => OneLoaderPerKey
  BY DEF IInv, LeaderRegistered, OneLoaderPerKey
<1>2. QED
  BY <1>1, InvarianceOfIInv, PTL

\* A follower without a message always has its sender in the registry.
THEOREM WakeupsKept == Spec => []NoLostWakeup
<1>1. IInv => NoLostWakeup
  BY DEF IInv
<1>2. QED
  BY <1>1, InvarianceOfIInv, PTL

\* Followers return what their leader's loader returned.
THEOREM Agreement == Spec => []FollowersAgree
<1>1. IInv => FollowersAgree
  BY DEF IInv
<1>2. QED
  BY <1>1, InvarianceOfIInv, PTL
-----------------------------------------------------------------------------
\* The initial registry is the initial state of LoadOnce.
LEMMA InitRefines == Init => Abstract!Init
BY DEF Init, Abstract!Init, Answer

\* Joining the registry joins the load of LoadOnce.
LEMMA EnterRefines ==
    ASSUME IInv, NEW c \in Calls, Enter(c) PROVE Abstract!Join(c)
<1> USE FlightAssumption DEF IInv, TypeOK
<1> DEFINE G == [k \in Keys |-> {d \in Calls : /\ KeyOf[d] = k
                                               /\ flight[d] = "waiting"
                                               /\ inbox[d] = None}]
<1>1. flight[c] = "out" /\ inbox[c] = None /\ KeyOf[c] \in Keys
  BY DEF Enter, InboxFromLeader
<1>2. ~Abstract!Joined(c) /\ Answer(c) = None
  BY <1>1 DEF Abstract!Joined, LeaderRegistered, Answer
<1>3. [d \in Calls |-> Answer(d)]' = [d \in Calls |-> Answer(d)]
  BY <1>1 DEF Enter, Answer
<1>4. {d \in Calls : flight[d] = "dropped"}' = {d \in Calls : flight[d] = "dropped"}
  BY <1>1 DEF Enter
<1>5. CASE inflight[KeyOf[c]] = None
  <2>1. G' = G
    BY <1>1, <1>5 DEF Enter
  <2>2. QED
    BY <1>1, <1>2, <1>3, <1>4, <1>5, <2>1 DEF Abstract!Join, Enter
<1>6. CASE inflight[KeyOf[c]] # None
  <2>1. G' = [G EXCEPT ![KeyOf[c]] = @ \cup {c}]
    <3>1. \A d \in Calls : flight'[d] = "waiting" /\ inbox'[d] = None
                              <=> d = c \/ (flight[d] = "waiting" /\ inbox[d] = None)
      BY <1>1, <1>6 DEF Enter
    <3>2. ASSUME NEW l \in Keys PROVE G'[l] = [G EXCEPT ![KeyOf[c]] = @ \cup {c}][l]
      BY <1>1, <3>1
    <3>3. QED
      BY <3>2
  <2>2. QED
    BY <1>1, <1>2, <1>3, <1>4, <1>6, <2>1 DEF Abstract!Join, Enter
<1>7. QED
  BY <1>5, <1>6

\* The return of the loader is invisible to the other callers.
LEMMA LoaderReturnsRefines ==
    ASSUME IInv, NEW c \in Calls, NEW r \in Outcomes, LoaderReturns(c, r)
    PROVE  UNCHANGED Abstract!vars
<1>1. flight[c] = "loading" /\ inbox[c] = None
  BY DEF IInv, InboxFromLeader, LoaderReturns
<1>2. [d \in Calls |-> Answer(d)]' = [d \in Calls |-> Answer(d)]
  BY <1>1 DEF IInv, TypeOK, LoaderReturns, Answer
<1>3. QED
  BY <1>1, <1>2 DEF IInv, TypeOK, LoaderReturns, Abstract!vars

\* Publishing ends the load for the leader and for its whole group.
LEMMA PublishRefines ==
    ASSUME IInv, NEW c \in Calls, Publish(c)
    PROVE  Abstract!Next
<1> USE FlightAssumption DEF IInv, TypeOK
<1> DEFINE k == KeyOf[c]
           r == value[c]
           G == [l \in Keys |-> {d \in Calls : /\ KeyOf[d] = l
                                               /\ flight[d] = "waiting"
                                               /\ inbox[d] = None}]
           L == {d \in Calls : flight[d] = "dropped"}
<1>1. /\ inflight[k] = c
      /\ r \in Outcomes
      /\ Payload(r) \in Outcomes \ {None}
      /\ rx[c] = None
      /\ inbox' = [d \in Calls |-> IF flight[d] = "waiting" /\ rx[d] = c
                                   THEN Payload(r) ELSE inbox[d]]
  BY PublishReachesAll
<1>2. /\ flight[c] = "publishing"
      /\ inflight' = [inflight EXCEPT ![k] = None]
      /\ flight' = [flight EXCEPT ![c] = "returned"]
      /\ value' = value
  BY DEF Publish
<1>3. k \in Keys /\ c # None /\ c \notin L
  BY <1>2
<1>4. \A d \in Calls : d \in G[k] <=> flight[d] = "waiting" /\ rx[d] = c
  BY <1>1, <1>2, <1>3 DEF NoLostWakeup, InboxFromLeader
<1>5. G' = [G EXCEPT ![k] = {}]
  <2>1. \A d \in Calls : flight'[d] = "waiting" /\ inbox'[d] = None
                            <=> flight[d] = "waiting" /\ inbox[d] = None /\ rx[d] # c
    BY <1>1, <1>2
  <2>2. ASSUME NEW l \in Keys PROVE G'[l] = [G EXCEPT ![k] = {}][l]
    <3>1. CASE l = k
      BY <1>3, <1>4, <2>1, <3>1
    <3>2. CASE l # k
      BY <1>3, <2>1, <3>2 DEF InboxFromLeader
    <3>3. QED
      BY <3>1, <3>2
  <2>3. QED
    BY <2>2
<1>6. [d \in Calls |-> Answer(d)]'
        = [d \in Calls |-> IF d = c THEN r
                           ELSE IF d \in G[k] THEN Decoded(Payload(r))
                           ELSE Answer(d)]
  <2>1. ASSUME NEW d \in Calls
        PROVE  Answer(d)' = IF d = c THEN r
                            ELSE IF d \in G[k] THEN Decoded(Payload(r))
                            ELSE Answer(d)
    <3>1. CASE d = c
      BY <1>2, <3>1 DEF Answer
    <3>2. CASE d # c /\ d \in G[k]
      <4>1. flight'[d] = "waiting" /\ inbox'[d] = Payload(r)
        BY <1>1, <1>2, <1>4, <3>2
      <4>2. QED
        BY <1>1, <3>2, <4>1 DEF Answer, Decoded
    <3>3. CASE d # c /\ d \notin G[k]
      <4>1. flight'[d] = flight[d] /\ inbox'[d] = inbox[d] /\ value'[d] = value[d]
        BY <1>1, <1>2, <1>4, <3>3
      <4>2. QED
        BY <3>3, <4>1 DEF Answer, Decoded
    <3>4. QED
      BY <3>1, <3>2, <3>3
  <2>2. QED
    BY <2>1
<1>7. L' = L
  BY <1>2
<1> HIDE DEF G, L
<1>8. \E l \in Keys, v \in Outcomes : Abstract!Finish(l, v)
  <2>1. PICK v \in Outcomes : v = r
    BY <1>1
  <2>2. Abstract!Finish(k, v)
    BY <1>1, <1>2, <1>3, <1>5, <1>6, <1>7, <2>1 DEF Abstract!Finish, G, L
  <2>3. QED
    BY <1>3, <2>2
<1>9. QED
  BY <1>8 DEF Abstract!Next

\* Reading the broadcast is invisible: LoadOnce already gave the answer.
LEMMA ReceiveRefines ==
    ASSUME IInv, NEW c \in Calls, Receive(c) PROVE UNCHANGED Abstract!vars
<1>1. flight[c] = "waiting" /\ inbox[c] # None
  BY DEF Receive
<1>2. [d \in Calls |-> Answer(d)]' = [d \in Calls |-> Answer(d)]
  BY <1>1 DEF IInv, TypeOK, Receive, Answer
<1>3. {d \in Calls : flight[d] = "dropped"}' = {d \in Calls : flight[d] = "dropped"}
  BY <1>1 DEF IInv, TypeOK, Receive
<1>4. \A d \in Calls : flight'[d] = "waiting" /\ inbox'[d] = None
                          <=> flight[d] = "waiting" /\ inbox[d] = None
  BY <1>1 DEF IInv, TypeOK, Receive
<1>5. QED
  BY <1>2, <1>3, <1>4 DEF Receive, Abstract!vars

\* A caller that is dropped leaves the group of its load.
LEMMA AbandonRefines ==
    ASSUME IInv, NEW c \in Calls, Abandon(c) PROVE Abstract!Leave(c)
<1> USE FlightAssumption DEF IInv, TypeOK
<1> DEFINE G == [l \in Keys |-> {d \in Calls : /\ KeyOf[d] = l
                                               /\ flight[d] = "waiting"
                                               /\ inbox[d] = None}]
<1>1. flight[c] \in {"loading", "waiting"} /\ KeyOf[c] \in Keys
  BY DEF Abandon
<1>2. [d \in Calls |-> Answer(d)]' = [[d \in Calls |-> Answer(d)] EXCEPT ![c] = None]
  BY <1>1 DEF Abandon, Answer
<1>3. {d \in Calls : flight[d] = "dropped"}'
        = {d \in Calls : flight[d] = "dropped"} \cup {c}
  BY <1>1 DEF Abandon
<1>4. G' = [G EXCEPT ![KeyOf[c]] = @ \ {c}]
  <2>1. \A d \in Calls : flight'[d] = "waiting" /\ inbox'[d] = None
                            <=> d # c /\ flight[d] = "waiting" /\ inbox[d] = None
    BY <1>1 DEF Abandon
  <2>2. ASSUME NEW l \in Keys PROVE G'[l] = [G EXCEPT ![KeyOf[c]] = @ \ {c}][l]
    BY <1>1, <2>1
  <2>3. QED
    BY <2>2
<1>5. QED
  BY <1>2, <1>3, <1>4 DEF Abstract!Leave, Abandon

\* The registry implements LoadOnce: every step of it is a step of the atomic
\* hand-over or leaves it unchanged.
THEOREM Refinement == Spec => ImplementsLoadOnce
<1>1. Init => Abstract!Init
  BY InitRefines
<1>2. IInv /\ [Next]_vars => [Abstract!Next]_(Abstract!vars)
  <2> SUFFICES ASSUME IInv, [Next]_vars PROVE [Abstract!Next]_(Abstract!vars)
    OBVIOUS
  <2>1. CASE UNCHANGED vars
    BY <2>1 DEF vars, Abstract!vars, Answer
  <2>2. ASSUME NEW c \in Calls, Enter(c) PROVE Abstract!Next
    BY <2>2, EnterRefines DEF Abstract!Next
  <2>3. ASSUME NEW c \in Calls, NEW r \in Outcomes, LoaderReturns(c, r)
        PROVE  UNCHANGED Abstract!vars
    BY <2>3, LoaderReturnsRefines
  <2>4. ASSUME NEW c \in Calls, Publish(c) PROVE Abstract!Next
    BY <2>4, PublishRefines
  <2>5. ASSUME NEW c \in Calls, Receive(c) PROVE UNCHANGED Abstract!vars
    BY <2>5, ReceiveRefines
  <2>6. ASSUME NEW c \in Calls, Abandon(c) PROVE Abstract!Next
    BY <2>6, AbandonRefines DEF Abstract!Next
  <2>7. QED
    BY <2>1, <2>2, <2>3, <2>4, <2>5, <2>6 DEF Next
<1>3. QED
  BY <1>1, <1>2, InvarianceOfIInv, PTL DEF Spec, ImplementsLoadOnce, Abstract!Spec
=============================================================================
