------------------------------ MODULE Migrator ------------------------------
(***************************************************************************)
(* Migrator::up_to and Migrator::down of src/src/migrate/mod.rs over the   *)
(* statements of src/src/sql.rs: each call ensures the version table,      *)
(* reads it once, and works through the versions it found to do.  Nothing  *)
(* is wrapped in a transaction and nothing excludes another call: every    *)
(* statement of a script, and every change of the version table, commits   *)
(* on its own.                                                             *)
(*                                                                         *)
(* A runner is a process with its own Migrator; it makes one call at a     *)
(* time.  A call may stop anywhere: a statement fails, its answer is lost, *)
(* the future is dropped, the process dies.                                *)
(*                                                                         *)
(* What the schema looks like is abstracted to the statements in effect:   *)
(* statement i of the down script of a version undoes statement            *)
(* Length + 1 - i of its up script.                                        *)
(***************************************************************************)
EXTENDS Integers

CONSTANTS Runners,
          Versions,    \* the versions of all migrations there are
          Migrations,  \* Migrations[r]: the versions Migrator r was built with
          DownScripts, \* the versions with a down script
          Rerunnable,  \* the versions whose statements do nothing when there is
                       \* nothing to do (IF [NOT] EXISTS); the others fail then
          Length,      \* statements per script
          Targets,     \* the targets of the calls
          Regimes      \* how the calls are used: subset of {"rolling", "exclusive"}

ASSUME MigratorAssumption ==
    /\ Versions \subseteq Int
    /\ Migrations \in [Runners -> SUBSET Versions]
    /\ DownScripts \subseteq Versions
    /\ Rerunnable \subseteq Versions
    /\ Length \in Nat \ {0}
    /\ Targets \subseteq Int
    /\ Regimes \subseteq {"rolling", "exclusive"}

VARIABLES regime,   \* "rolling": concurrent up calls; "exclusive": up and down
                    \* calls that the operator runs one at a time
          recorded, \* the versions with a row in the version table
          effects,  \* the statements of up scripts in effect: <<version, index>>
          pc,       \* pc[r]: "idle", "fetch", "pick", "exec" or "record"
          op,       \* op[r]: "up" or "down"
          target,   \* target[r]
          todo,     \* todo[r]: the versions the call has yet to work on
          current,  \* current[r]: the version it works on
          done,     \* done[r]: statements of the script executed
          skipped,  \* recorded versions a down call passed over (history)
          torn      \* versions a call stopped at, not completed since (history)

vars == <<regime, recorded, effects, pc, op, target, todo, current, done, skipped, torn>>

Script(v) == {<<v, i>> : i \in 1 .. Length}
Working(r) == pc[r] \in {"exec", "record"}

Init == /\ regime \in Regimes
        /\ recorded = {}
        /\ effects = {}
        /\ pc = [r \in Runners |-> "idle"]
        /\ op = [r \in Runners |-> "up"]
        /\ target = [r \in Runners |-> 0]
        /\ todo = [r \in Runners |-> {}]
        /\ current = [r \in Runners |-> 0]
        /\ done = [r \in Runners |-> 0]
        /\ skipped = {}
        /\ torn = {}

\* The call is over, and its local state with it.
Leave(r) == /\ pc' = [pc EXCEPT ![r] = "idle"]
            /\ op' = [op EXCEPT ![r] = "up"]
            /\ target' = [target EXCEPT ![r] = 0]
            /\ todo' = [todo EXCEPT ![r] = {}]
            /\ current' = [current EXCEPT ![r] = 0]
            /\ done' = [done EXCEPT ![r] = 0]

\* A call begins with CREATE TABLE IF NOT EXISTS: the fetch finds a table.
Call(r, o, t) ==
    /\ pc[r] = "idle"
    /\ regime = "rolling" => o = "up"
    /\ regime = "exclusive" => \A s \in Runners : pc[s] = "idle"
    /\ pc' = [pc EXCEPT ![r] = "fetch"]
    /\ op' = [op EXCEPT ![r] = o]
    /\ target' = [target EXCEPT ![r] = t]
    /\ UNCHANGED <<regime, recorded, effects, todo, current, done, skipped, torn>>

\* What Migrator::status reports as pending.
Pending(r) == Migrations[r] \ recorded

\* A mistake: taking the latest recorded version for a high-water mark.
FetchAboveLatest(r) ==
    /\ pc[r] = "fetch"
    /\ todo' = [todo EXCEPT ![r] =
                    IF op[r] = "up"
                    THEN {v \in Pending(r) : v <= target[r] /\ \A u \in recorded : u < v}
                    ELSE {v \in recorded : v > target[r]}]
    /\ pc' = [pc EXCEPT ![r] = "pick"]
    /\ UNCHANGED <<regime, recorded, effects, op, target, current, done, skipped, torn>>

\* The only read of the version table: what the call does is settled here.
Fetch(r) ==
    /\ pc[r] = "fetch"
    /\ todo' = [todo EXCEPT ![r] =
                    IF op[r] = "up" THEN {v \in Pending(r) : v <= target[r]}
                                    ELSE {v \in recorded : v > target[r]}]
    /\ pc' = [pc EXCEPT ![r] = "pick"]
    /\ UNCHANGED <<regime, recorded, effects, op, target, current, done, skipped, torn>>

\* A mistake: rolling back in the order of the version table.
InAscendingOrder(r, v) == v \in todo[r] /\ \A u \in todo[r] : v <= u

\* up works in ascending, down in descending order.
InOrder(r, v) == /\ v \in todo[r]
                 /\ \A u \in todo[r] : IF op[r] = "up" THEN v <= u ELSE u <= v

\* A mistake: rolling back a version without looking its definition up.
StartUnchecked(r, v) ==
    /\ pc[r] = "pick" /\ InOrder(r, v)
    /\ todo' = [todo EXCEPT ![r] = @ \ {v}]
    /\ current' = [current EXCEPT ![r] = v]
    /\ pc' = [pc EXCEPT ![r] = "exec"]
    /\ UNCHANGED <<regime, recorded, effects, op, target, done, skipped, torn>>

\* The next version: its script is looked up first.
Start(r, v) ==
    /\ pc[r] = "pick" /\ InOrder(r, v)
    /\ v \in Migrations[r] /\ (op[r] = "down" => v \in DownScripts)
    /\ todo' = [todo EXCEPT ![r] = @ \ {v}]
    /\ current' = [current EXCEPT ![r] = v]
    /\ pc' = [pc EXCEPT ![r] = "exec"]
    /\ UNCHANGED <<regime, recorded, effects, op, target, done, skipped, torn>>

\* down passes over a version it has no definition of.
SkipUndefined(r, v) ==
    /\ pc[r] = "pick" /\ InOrder(r, v)
    /\ op[r] = "down" /\ v \notin Migrations[r]
    /\ todo' = [todo EXCEPT ![r] = @ \ {v}]
    /\ skipped' = skipped \cup {v}
    /\ UNCHANGED <<regime, recorded, effects, pc, op, target, current, done, torn>>

\* down returns an error at a version without a down script.
NoDownScript(r, v) ==
    /\ pc[r] = "pick" /\ InOrder(r, v)
    /\ op[r] = "down" /\ v \in Migrations[r] \ DownScripts
    /\ Leave(r)
    /\ UNCHANGED <<regime, recorded, effects, skipped, torn>>

\* Mistakes: the first statement of a script is lost; an object that is there
\* already is taken for the end of the script.
ExecLosingFirst(r) ==
    /\ pc[r] = "exec"
    /\ effects' = IF done[r] = 0 THEN effects
                  ELSE IF op[r] = "up" THEN effects \cup {<<current[r], done[r] + 1>>}
                  ELSE effects \ {<<current[r], Length - done[r]>>}
    /\ done' = [done EXCEPT ![r] = @ + 1]
    /\ pc' = [pc EXCEPT ![r] = IF done[r] + 1 = Length THEN "record" ELSE "exec"]
    /\ UNCHANGED <<regime, recorded, op, target, todo, current, skipped, torn>>

ExecUnlessThere(r) ==
    LET s == <<current[r], done[r] + 1>>
    IN  /\ pc[r] = "exec" /\ op[r] = "up"
        /\ effects' = effects \cup {s}
        /\ done' = [done EXCEPT ![r] = IF s \in effects THEN Length ELSE @ + 1]
        /\ pc' = [pc EXCEPT ![r] = IF done'[r] = Length THEN "record" ELSE "exec"]
        /\ UNCHANGED <<regime, recorded, op, target, todo, current, skipped, torn>>

\* DbPool::exec runs the next statement of the script; it takes effect at once.
Exec(r) ==
    LET v == current[r]
        s == IF op[r] = "up" THEN <<v, done[r] + 1>> ELSE <<v, Length - done[r]>>
    IN  /\ pc[r] = "exec"
        /\ v \in Rerunnable \/ (s \in effects <=> op[r] = "down")
        /\ effects' = IF op[r] = "up" THEN effects \cup {s} ELSE effects \ {s}
        /\ done' = [done EXCEPT ![r] = @ + 1]
        /\ pc' = [pc EXCEPT ![r] = IF done[r] + 1 = Length THEN "record" ELSE "exec"]
        /\ UNCHANGED <<regime, recorded, op, target, todo, current, skipped, torn>>

\* insert_version_record (an upsert) after up, delete_version_record after down.
Record(r) ==
    /\ pc[r] = "record"
    /\ recorded' = IF op[r] = "up" THEN recorded \cup {current[r]}
                                   ELSE recorded \ {current[r]}
    /\ skipped' = skipped \ {current[r]}
    /\ torn' = torn \ {current[r]}
    /\ pc' = [pc EXCEPT ![r] = "pick"]
    /\ current' = [current EXCEPT ![r] = 0]
    /\ done' = [done EXCEPT ![r] = 0]
    /\ UNCHANGED <<regime, effects, op, target, todo>>

Return(r) ==
    /\ pc[r] = "pick" /\ todo[r] = {}
    /\ Leave(r)
    /\ UNCHANGED <<regime, recorded, effects, skipped, torn>>

\* The call ends early, between two statements or after one whose answer was
\* lost.  A version it was working on is left as it is.
Stop(r) ==
    /\ pc[r] # "idle"
    /\ torn' = IF Working(r) THEN torn \cup {current[r]} ELSE torn
    /\ Leave(r)
    /\ UNCHANGED <<regime, recorded, effects, skipped>>

Step(r) == \/ Fetch(r)
           \/ \E v \in Versions : Start(r, v) \/ SkipUndefined(r, v) \/ NoDownScript(r, v)
           \/ Exec(r) \/ Record(r) \/ Return(r)

Next == \E r \in Runners : \/ \E o \in {"up", "down"}, t \in Targets : Call(r, o, t)
                           \/ Step(r)
                           \/ Stop(r)

Spec == Init /\ [][Next]_vars

\* A call that can proceed does, and the operator calls up, for all there is, again
\* and again until nothing is pending, whatever else is called.
UpAll(r) == /\ Pending(r) # {}
            /\ \E t \in Targets : (\A v \in Migrations[r] : v <= t) /\ Call(r, "up", t)

FairSpec == /\ Spec
            /\ \A r \in Runners : WF_vars(Step(r)) /\ SF_vars(UpAll(r))
-----------------------------------------------------------------------------
\* The types of the variables; a runner works on a version it has the scripts of
\* and has not executed more statements than the script has.
TypeOK ==
    /\ regime \in Regimes
    /\ recorded \subseteq Versions
    /\ effects \subseteq Versions \X (1 .. Length)
    /\ pc \in [Runners -> {"idle", "fetch", "pick", "exec", "record"}]
    /\ op \in [Runners -> {"up", "down"}]
    /\ target \in [Runners -> Int]
    /\ todo \in [Runners -> SUBSET Versions]
    /\ current \in [Runners -> Int]
    /\ done \in [Runners -> 0 .. Length]
    /\ skipped \subseteq recorded
    /\ torn \subseteq Versions
    /\ \A r \in Runners :
          /\ Working(r) => current[r] \in Migrations[r]
          /\ pc[r] = "exec" => done[r] < Length
          /\ pc[r] = "record" => done[r] = Length
          /\ ~Working(r) => done[r] = 0
          /\ pc[r] \in {"pick", "exec", "record"} /\ op[r] = "up"
                => todo[r] \subseteq Migrations[r]

\* In the version table and wholly in effect, or neither.
Consistent(v) == IF v \in recorded THEN Script(v) \subseteq effects
                                   ELSE Script(v) \cap effects = {}

\* Whatever calls overlap and wherever they stop, a version whose record and
\* schema disagree is one that a call works on or stopped at, and completing a
\* later up or down of that version brings them together again.
TornExplained ==
    \A v \in Versions : \/ Consistent(v)
                        \/ v \in torn
                        \/ \E r \in Runners : Working(r) /\ current[r] = v

\* Concurrent up calls, stale as their snapshots are, never record a version
\* whose script is not wholly in effect.
RecordedIsApplied ==
    regime = "rolling" => \A v \in recorded : Script(v) \subseteq effects

\* Versions are recorded from below and removed from above: under a recorded
\* version everything is recorded that some Migrator which knows it would have
\* applied before, unless a Migrator that does not know it rolled back past it.
Gapless ==
    \A v \in recorded \ skipped : \E r \in Runners :
        /\ v \in Migrations[r]
        /\ \A u \in Migrations[r] : u < v => u \in recorded

\* A call that returns Ok has done what it was asked for: no migration of its own
\* up to (above) the target is unrecorded (recorded).
Fulfilled ==
    \A r \in Runners : pc[r] = "pick" /\ todo[r] = {} =>
        \A v \in Migrations[r] :
            /\ op[r] = "up" /\ v <= target[r] => v \in recorded
            /\ op[r] = "down" /\ v > target[r] => v \notin recorded

\* The parts of the inductive invariant: what each regime excludes, how far a
\* script has come, and which versions an up or a down call has left to do.
Usage == /\ regime = "rolling" => \A r \in Runners : op[r] = "up"
         /\ regime = "exclusive" =>
                \A r, s \in Runners : pc[r] # "idle" /\ pc[s] # "idle" => r = s

Progress ==
    \A r \in Runners : Working(r) =>
        \A i \in 1 .. Length :
            /\ op[r] = "up" /\ i <= done[r] => <<current[r], i>> \in effects
            /\ op[r] = "down" /\ i > Length - done[r] => <<current[r], i>> \notin effects

Under(r) == pc[r] \in {"pick", "exec", "record"}

UpOrder ==
    \A r \in Runners : Under(r) /\ op[r] = "up" =>
        /\ \A u \in todo[r] : u <= target[r]
        /\ Working(r) => current[r] <= target[r] /\ \A u \in todo[r] : current[r] < u
        /\ \A u \in Migrations[r] : u <= target[r] /\ u \notin recorded
                => u \in todo[r] \/ (Working(r) /\ u = current[r])

DownOrder ==
    \A r \in Runners : Under(r) /\ op[r] = "down" =>
        /\ \A u \in todo[r] : u > target[r] /\ u \in recorded
        /\ Working(r) => current[r] > target[r] /\ \A u \in todo[r] : u < current[r]
        /\ \A u \in recorded : u > target[r]
                => \/ u \in todo[r] \/ (Working(r) /\ u = current[r])
                   \/ u \in skipped \ Migrations[r]

IInv == /\ TypeOK /\ Usage /\ Progress /\ UpOrder /\ DownOrder
        /\ TornExplained /\ RecordedIsApplied /\ Gapless

\* If calls stop being interrupted, repeated up calls bring every migration into effect
\* and into the version table that comes before the first one whose script cannot be
\* run again, whatever the interrupted calls left behind.
Certain == {v \in Versions : \A u \in Versions \ Rerunnable : v < u}
Converges ==
    regime = "rolling" /\ <>[][\A r \in Runners : Stop(r) => Return(r)]_vars
        => <>[](\A r \in Runners : \A v \in Migrations[r] \cap Certain :
                                       v \in recorded /\ Script(v) \subseteq effects)
=============================================================================
