------------------------------ MODULE LoadOnce ------------------------------
(***************************************************************************)
(* What single_flight::run (src/src/repo.rs) promises its callers, without *)
(* the registry, the channels and the lock it is built from: the calls of  *)
(* one key that meet share one load, one of them performs it, and its      *)
(* outcome reaches all of them at the same instant.                        *)
(*                                                                         *)
(* A caller that goes away (Leave) takes only itself out of the group.  If *)
(* it was the loader, nobody is left to finish the load: the specification *)
(* promises an answer only from a loader that stays, as the code does.     *)
(***************************************************************************)
CONSTANTS Calls,    \* one element per invocation of run
          Keys,     \* the (prefixed) cache keys
          KeyOf,    \* the key each call is made with
          Outcomes, \* what a load can end with
          Echo,     \* what a follower is given for each outcome of the load
          None

VARIABLES loader,  \* loader[k]: the call that performs the load of k, if any
          group,   \* group[k]: the other calls that share this load
          answer,  \* answer[c]: the outcome call c is given, once there is one
          left     \* the calls that went away before they were answered

vars == <<loader, group, answer, left>>

Init == /\ loader = [k \in Keys |-> None]
        /\ group = [k \in Keys |-> {}]
        /\ answer = [c \in Calls |-> None]
        /\ left = {}

Joined(c) == c = loader[KeyOf[c]] \/ c \in group[KeyOf[c]]

\* A new call starts a load, or shares the one that is already going on.
Join(c) ==
    /\ ~Joined(c) /\ c \notin left /\ answer[c] = None
    /\ \/ /\ loader[KeyOf[c]] = None
          /\ loader' = [loader EXCEPT ![KeyOf[c]] = c]
          /\ UNCHANGED group
       \/ /\ loader[KeyOf[c]] # None
          /\ group' = [group EXCEPT ![KeyOf[c]] = @ \cup {c}]
          /\ UNCHANGED loader
    /\ UNCHANGED <<answer, left>>

\* The load of k ends with r: its loader gets r, its group the echo of r, and
\* the next call of k starts afresh.
Finish(k, r) ==
    /\ loader[k] # None /\ loader[k] \notin left
    /\ answer' = [c \in Calls |-> IF c = loader[k] THEN r
                                  ELSE IF c \in group[k] THEN Echo[r]
                                  ELSE answer[c]]
    /\ loader' = [loader EXCEPT ![k] = None]
    /\ group' = [group EXCEPT ![k] = {}]
    /\ UNCHANGED left

\* A caller goes away, answered or not; an answer nobody reads is discarded.
Leave(c) ==
    /\ left' = left \cup {c}
    /\ group' = [group EXCEPT ![KeyOf[c]] = @ \ {c}]
    /\ answer' = [answer EXCEPT ![c] = None]
    /\ UNCHANGED loader

Next == \/ \E c \in Calls : Join(c) \/ Leave(c)
        \/ \E k \in Keys, r \in Outcomes : Finish(k, r)

Spec == Init /\ [][Next]_vars
=============================================================================
