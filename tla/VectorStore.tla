---------------------------- MODULE VectorStore -----------------------------
(***************************************************************************)
(* What a vector store (trait VectorStore, src/src/vector/mod.rs) promises *)
(* of the records of one collection, without entries, numbers, segments    *)
(* and files.  A record is whatever the answers of the calls leave         *)
(* possible: once a call is acknowledged one content, while one is under   *)
(* way, or has failed, any of those that were tried.  A search finds one   *)
(* of these, whole; only of a record in doubt it may find parts of         *)
(* several.  A call changes what is found of its own record and of no      *)
(* other, a crash only what is in doubt.                                   *)
(***************************************************************************)
CONSTANTS Ids,      \* the string ids of records
          Contents, \* what a record can contain (vector and metadata)
          Absent    \* stands for a record that is not there

VARIABLES truth,    \* truth[i]: what record i may be, by the answers given so far
          found,    \* found[i]: {w} if a search finds record i with content w, {} if
                    \* it finds parts of different contents
          open      \* whether the process has the collection open

vars == <<truth, found, open>>

Init == /\ truth = [i \in Ids |-> {Absent}]
        /\ found = [i \in Ids |-> {Absent}]
        /\ open = FALSE

\* What may be found of a record that may be any of t.
Findable(t) == IF \E w \in t : t = {w} THEN {t} ELSE {{}} \cup {{w} : w \in t}
AllFindable == \A i \in Ids : found[i] \in Findable(truth[i])

\* Opened, the collection holds what it held before.
Open == /\ ~open /\ open' = TRUE
        /\ UNCHANGED <<truth, found>>

\* An upsert (or, with Absent, a delete) of record i is executed, or fails.
Try(i, w) == /\ open
             /\ truth' = [truth EXCEPT ![i] = @ \cup {w}]
             /\ found' = [found EXCEPT ![i] = found'[i]]
             /\ AllFindable'
             /\ UNCHANGED open

\* It is acknowledged.
Confirm(i, w) == /\ open /\ found[i] = {w}
                 /\ truth' = [truth EXCEPT ![i] = {w}]
                 /\ UNCHANGED <<found, open>>

\* A crash, or the deletion of a part of the files.
Interrupted == /\ open' = FALSE
               /\ found' = [i \in Ids |-> found'[i]]
               /\ AllFindable'
               /\ UNCHANGED truth

\* The collection is dropped: at first every record may be gone, then it is.
DropBegins == /\ open' = FALSE
              /\ truth' = [i \in Ids |-> truth[i] \cup {Absent}]
              /\ found' = [i \in Ids |-> found'[i]]
              /\ AllFindable'

DropEnds == /\ ~open /\ \A i \in Ids : Absent \in truth[i]
            /\ truth' = [i \in Ids |-> {Absent}]
            /\ found' = [i \in Ids |-> {Absent}]
            /\ UNCHANGED open

Next == \/ \E i \in Ids, w \in Contents \cup {Absent} : Try(i, w) \/ Confirm(i, w)
        \/ Open \/ Interrupted \/ DropBegins \/ DropEnds

Spec == Init /\ [][Next]_vars
=============================================================================
