--------------------------- MODULE MigratorProofs ---------------------------
(***************************************************************************)
(* The safety of Migrator for any runners, versions, releases and script   *)
(* lengths: IInv of Migrator is inductive and the invariants follow.       *)
(*                                                                         *)
(* TornExplained alone is not inductive: that recording a version makes it *)
(* consistent rests on Progress (the statements executed so far are in     *)
(* effect, or undone), which rests on Usage (nobody undoes them meanwhile).*)
(* Gapless rests on UpOrder and DownOrder: the call still has to do        *)
(* whatever lies between its version and its target.                       *)
(***************************************************************************)
EXTENDS Migrator, TLAPS

\* A script is in effect, or undone, statement by statement.
LEMMA ScriptStatements ==
    ASSUME NEW v, NEW E
    PROVE  /\ Script(v) \subseteq E <=> \A i \in 1 .. Length : <<v, i>> \in E
           /\ Script(v) \cap E = {} <=> \A i \in 1 .. Length : <<v, i>> \notin E
BY DEF Script

\* Before the first call nothing is recorded and nothing is in effect.
LEMMA InitIInv == Init => IInv
<1> SUFFICES ASSUME Init PROVE IInv
  OBVIOUS
<1> USE MigratorAssumption DEF Init, Working, Under
<1>1. TypeOK
  BY DEF TypeOK
<1>2. Usage /\ Progress /\ UpOrder /\ DownOrder
  BY DEF Usage, Progress, UpOrder, DownOrder
<1>3. TornExplained /\ RecordedIsApplied /\ Gapless
  BY DEF TornExplained, Consistent, RecordedIsApplied, Gapless
<1>4. QED
  BY <1>1, <1>2, <1>3 DEF IInv

\* A call that begins has nothing to do yet.
LEMMA CallIInv ==
    ASSUME IInv, NEW r \in Runners, NEW o \in {"up", "down"}, NEW t \in Targets, Call(r, o, t)
    PROVE  IInv'
<1> USE MigratorAssumption DEF IInv, TypeOK, Working, Under
<1>1. TypeOK'
  BY DEF Call
<1>2. Usage'
  BY DEF Call, Usage
<1>3. Progress'
  BY DEF Call, Progress
<1>4. UpOrder'
  BY DEF Call, UpOrder
<1>5. DownOrder'
  BY DEF Call, DownOrder
<1>6. TornExplained'
  BY DEF Call, TornExplained, Consistent, Script
<1>7. RecordedIsApplied'
  BY DEF Call, RecordedIsApplied, Script
<1>8. Gapless'
  BY DEF Call, Gapless, UpOrder, DownOrder, Usage
<1>9. QED
  BY <1>1, <1>2, <1>3, <1>4, <1>5, <1>6, <1>7, <1>8

\* The snapshot is what the call has to do.
LEMMA FetchIInv ==
    ASSUME IInv, NEW r \in Runners, Fetch(r)
    PROVE  IInv'
<1> USE MigratorAssumption DEF IInv, TypeOK, Working, Under
<1>1. TypeOK'
  BY DEF Fetch, Pending
<1>2. Usage'
  BY DEF Fetch, Pending, Usage
<1>3. Progress'
  BY DEF Fetch, Pending, Progress
<1>4. UpOrder'
  BY DEF Fetch, Pending, UpOrder
<1>5. DownOrder'
  BY DEF Fetch, Pending, DownOrder
<1>6. TornExplained'
  BY DEF Fetch, Pending, TornExplained, Consistent, Script
<1>7. RecordedIsApplied'
  BY DEF Fetch, Pending, RecordedIsApplied, Script
<1>8. Gapless'
  BY DEF Fetch, Pending, Gapless, UpOrder, DownOrder, Usage
<1>9. QED
  BY <1>1, <1>2, <1>3, <1>4, <1>5, <1>6, <1>7, <1>8

\* The next version is the lowest (highest) of those left.
LEMMA StartIInv ==
    ASSUME IInv, NEW r \in Runners, NEW v \in Versions, Start(r, v)
    PROVE  IInv'
<1> USE MigratorAssumption DEF IInv, TypeOK, Working, Under
<1>1. TypeOK'
  BY DEF Start, InOrder
<1>2. Usage'
  BY DEF Start, InOrder, Usage
<1>3. Progress'
  BY DEF Start, InOrder, Progress
<1>4. UpOrder'
  BY DEF Start, InOrder, UpOrder
<1>5. DownOrder'
  BY DEF Start, InOrder, DownOrder
<1>6. TornExplained'
  BY DEF Start, InOrder, TornExplained, Consistent, Script
<1>7. RecordedIsApplied'
  BY DEF Start, InOrder, RecordedIsApplied, Script
<1>8. Gapless'
  BY DEF Start, InOrder, Gapless, UpOrder, DownOrder, Usage
<1>9. QED
  BY <1>1, <1>2, <1>3, <1>4, <1>5, <1>6, <1>7, <1>8

\* A version that is passed over is one this Migrator does not know.
LEMMA SkipUndefinedIInv ==
    ASSUME IInv, NEW r \in Runners, NEW v \in Versions, SkipUndefined(r, v)
    PROVE  IInv'
<1> USE MigratorAssumption DEF IInv, TypeOK, Working, Under
<1>1. TypeOK'
  BY DEF SkipUndefined, InOrder, DownOrder
<1>2. Usage'
  BY DEF SkipUndefined, InOrder, Usage
<1>3. Progress'
  BY DEF SkipUndefined, InOrder, Progress
<1>4. UpOrder'
  BY DEF SkipUndefined, InOrder, UpOrder
<1>5. DownOrder'
  BY DEF SkipUndefined, InOrder, DownOrder
<1>6. TornExplained'
  BY DEF SkipUndefined, InOrder, TornExplained, Consistent, Script
<1>7. RecordedIsApplied'
  BY DEF SkipUndefined, InOrder, RecordedIsApplied, Script
<1>8. Gapless'
  BY DEF SkipUndefined, InOrder, Gapless, UpOrder, DownOrder, Usage
<1>9. QED
  BY <1>1, <1>2, <1>3, <1>4, <1>5, <1>6, <1>7, <1>8

\* The call ends before it touches the version.
LEMMA NoDownScriptIInv ==
    ASSUME IInv, NEW r \in Runners, NEW v \in Versions, NoDownScript(r, v)
    PROVE  IInv'
<1> USE MigratorAssumption DEF IInv, TypeOK, Working, Under
<1>1. TypeOK'
  BY DEF NoDownScript, Leave
<1>2. Usage'
  BY DEF NoDownScript, Leave, Usage
<1>3. Progress'
  BY DEF NoDownScript, Leave, Progress
<1>4. UpOrder'
  BY DEF NoDownScript, Leave, UpOrder
<1>5. DownOrder'
  BY DEF NoDownScript, Leave, DownOrder
<1>6. TornExplained'
  BY DEF NoDownScript, Leave, TornExplained, Consistent, Script
<1>7. RecordedIsApplied'
  BY DEF NoDownScript, Leave, RecordedIsApplied, Script
<1>8. Gapless'
  BY DEF NoDownScript, Leave, Gapless, UpOrder, DownOrder, Usage
<1>9. QED
  BY <1>1, <1>2, <1>3, <1>4, <1>5, <1>6, <1>7, <1>8

\* A statement is in effect (undone) from its execution on.
LEMMA ExecIInv ==
    ASSUME IInv, NEW r \in Runners, Exec(r)
    PROVE  IInv'
<1> USE MigratorAssumption DEF IInv, TypeOK, Working, Under
<1> DEFINE v == current[r]
           i == IF op[r] = "up" THEN done[r] + 1 ELSE Length - done[r]
<1>1. /\ pc[r] = "exec" /\ v \in Versions /\ v \in Migrations[r]
      /\ done[r] \in 0 .. Length /\ done[r] < Length
      /\ i \in 1 .. Length
  <2>1. /\ pc[r] = "exec" /\ v \in Versions /\ v \in Migrations[r]
        /\ done[r] \in 0 .. Length /\ done[r] < Length
    BY DEF Exec
  <2>2. done[r] + 1 \in 1 .. Length /\ Length - done[r] \in 1 .. Length
    BY <2>1
  <2>3. QED
    BY <2>1, <2>2
<1>2. /\ effects' = IF op[r] = "up" THEN effects \cup {<<v, i>>} ELSE effects \ {<<v, i>>}
      /\ done' = [done EXCEPT ![r] = @ + 1]
      /\ pc' = [pc EXCEPT ![r] = IF done[r] + 1 = Length THEN "record" ELSE "exec"]
      /\ UNCHANGED <<regime, recorded, op, target, todo, current, skipped, torn>>
  BY DEF Exec
<1>3. TypeOK'
  <2>1. effects' \subseteq Versions \X (1 .. Length)
    BY <1>1, <1>2
  <2>2. done' \in [Runners -> 0 .. Length] /\ done'[r] = done[r] + 1
    BY <1>1, <1>2
  <2>3. /\ pc' \in [Runners -> {"idle", "fetch", "pick", "exec", "record"}]
        /\ pc'[r] = "exec" => done'[r] < Length
        /\ pc'[r] = "record" => done'[r] = Length
        /\ pc'[r] \in {"exec", "record"}
    BY <1>1, <1>2, <2>2
  <2>4. QED
    BY <1>1, <1>2, <2>1, <2>2, <2>3
<1>4. Usage'
  BY <1>1, <1>2 DEF Usage
<1> HIDE DEF i
<1>5. Progress'
  <2> SUFFICES ASSUME NEW s \in Runners, Working(s)', NEW j \in 1 .. Length
               PROVE  /\ op[s] = "up" /\ j <= done'[s] => <<current[s], j>> \in effects'
                      /\ op[s] = "down" /\ j > Length - done'[s]
                            => <<current[s], j>> \notin effects'
    BY <1>2 DEF Progress
  <2>1. CASE s = r
    BY <1>1, <1>2, <2>1 DEF Progress, i
  <2>2. CASE s # r
    <3>1. Working(s) /\ done'[s] = done[s]
      BY <1>2, <2>2
    <3>2. op[s] = op[r]
      BY <1>1, <2>2, <3>1 DEF Usage
    <3>3. QED
      BY <1>2, <3>1, <3>2 DEF Progress
  <2>3. QED
    BY <2>1, <2>2
<1>6. UpOrder'
  BY <1>1, <1>2 DEF UpOrder
<1>7. DownOrder'
  BY <1>1, <1>2 DEF DownOrder
<1>8. TornExplained'
  <2> SUFFICES ASSUME NEW w \in Versions
               PROVE  \/ Consistent(w)'
                      \/ w \in torn
                      \/ \E s \in Runners : Working(s)' /\ current[s] = w
    BY <1>2 DEF TornExplained
  <2>1. \A s \in Runners : Working(s) => Working(s)'
    BY <1>1, <1>2
  <2>2. CASE w = v
    BY <1>1, <2>1, <2>2
  <2>3. CASE w # v
    <3>1. \A j \in 1 .. Length : <<w, j>> \in effects' <=> <<w, j>> \in effects
      BY <1>2, <2>3
    <3>2. Consistent(w)' <=> Consistent(w)
      BY <1>2, <3>1 DEF Consistent, Script
    <3>3. QED
      BY <2>1, <3>2 DEF TornExplained
  <2>4. QED
    BY <2>2, <2>3
<1>9. RecordedIsApplied'
  <2>1. regime = "rolling" => effects \subseteq effects'
    BY <1>2 DEF Usage
  <2>2. QED
    BY <1>2, <2>1 DEF RecordedIsApplied, Script
<1>10. Gapless'
  BY <1>2 DEF Gapless
<1>11. QED
  BY <1>3, <1>4, <1>5, <1>6, <1>7, <1>8, <1>9, <1>10

\* The whole script was executed: record and schema agree.
LEMMA RecordIInv ==
    ASSUME IInv, NEW r \in Runners, Record(r)
    PROVE  IInv'
<1> USE MigratorAssumption DEF IInv, TypeOK, Working, Under
<1> DEFINE v == current[r]
<1>1. /\ pc[r] = "record" /\ v \in Versions /\ v \in Migrations[r]
      /\ done[r] = Length
  BY DEF Record
<1>2. /\ recorded' = IF op[r] = "up" THEN recorded \cup {v} ELSE recorded \ {v}
      /\ skipped' = skipped \ {v}
      /\ torn' = torn \ {v}
      /\ pc' = [pc EXCEPT ![r] = "pick"]
      /\ current' = [current EXCEPT ![r] = 0]
      /\ done' = [done EXCEPT ![r] = 0]
      /\ UNCHANGED <<regime, effects, op, target, todo>>
  BY DEF Record
<1>3. op[r] \in {"up", "down"}
  OBVIOUS
<1>4. IF op[r] = "up" THEN Script(v) \subseteq effects ELSE Script(v) \cap effects = {}
  <2>1. \A i \in 1 .. Length : IF op[r] = "up" THEN <<v, i>> \in effects
                                              ELSE <<v, i>> \notin effects
    BY <1>1, <1>3 DEF Progress
  <2>2. QED
    BY <2>1, ScriptStatements
<1>5. TypeOK'
  <2>1. recorded' \subseteq Versions /\ skipped' \subseteq recorded' /\ torn' \subseteq Versions
    BY <1>1, <1>2
  <2>2. QED
    BY <1>1, <1>2, <2>1
<1>6. Usage'
  BY <1>1, <1>2 DEF Usage
<1>7. Progress'
  BY <1>1, <1>2 DEF Progress
<1>8. UpOrder'
  <2> SUFFICES ASSUME NEW s \in Runners, Under(s)', op[s] = "up"
               PROVE  /\ \A u \in todo[s] : u <= target[s]
                      /\ Working(s)' => /\ current'[s] <= target[s]
                                       /\ \A u \in todo[s] : current'[s] < u
                      /\ \A u \in Migrations[s] : u <= target[s] /\ u \notin recorded'
                            => u \in todo[s] \/ (Working(s)' /\ u = current'[s])
    BY <1>2 DEF UpOrder
  <2>1. CASE s = r
    BY <1>1, <1>2, <2>1 DEF UpOrder
  <2>2. CASE s # r
    <3>1. Under(s) /\ pc'[s] = pc[s] /\ current'[s] = current[s]
      BY <1>1, <1>2, <2>2
    <3>2. op[r] = "up"
      BY <1>1, <2>2, <3>1 DEF Usage
    <3>3. QED
      BY <1>2, <3>1, <3>2 DEF UpOrder
  <2>3. QED
    BY <2>1, <2>2
<1>9. DownOrder'
  <2> SUFFICES ASSUME NEW s \in Runners, Under(s)', op[s] = "down"
               PROVE  /\ \A u \in todo[s] : u > target[s] /\ u \in recorded'
                      /\ Working(s)' => /\ current'[s] > target[s]
                                       /\ \A u \in todo[s] : u < current'[s]
                      /\ \A u \in recorded' : u > target[s]
                            => \/ u \in todo[s] \/ (Working(s)' /\ u = current'[s])
                               \/ u \in skipped' \ Migrations[s]
    BY <1>2 DEF DownOrder
  <2>1. s = r
    BY <1>1, <1>2 DEF Usage
  <2>2. \A u \in todo[r] : u # v /\ u \in Int
    BY <1>1, <2>1 DEF DownOrder
  <2>3. QED
    BY <1>1, <1>2, <2>1, <2>2 DEF DownOrder
<1>10. TornExplained'
  <2> SUFFICES ASSUME NEW w \in Versions
               PROVE  \/ Consistent(w)'
                      \/ w \in torn'
                      \/ \E s \in Runners : Working(s)' /\ current'[s] = w
    BY DEF TornExplained
  <2>1. CASE w = v
    BY <1>2, <1>3, <1>4, <2>1 DEF Consistent, Script
  <2>2. CASE w # v
    <3>1. Consistent(w)' <=> Consistent(w)
      BY <1>2, <2>2 DEF Consistent, Script
    <3>2. \A s \in Runners : Working(s) /\ current[s] = w => Working(s)' /\ current'[s] = w
      BY <1>2, <2>2
    <3>3. QED
      BY <1>2, <2>2, <3>1, <3>2 DEF TornExplained
  <2>3. QED
    BY <2>1, <2>2
<1>11. RecordedIsApplied'
  <2>1. regime = "rolling" => op[r] = "up"
    BY DEF Usage
  <2>2. QED
    BY <1>2, <1>4, <2>1 DEF RecordedIsApplied, Script
<1>12. Gapless'
  BY DEF Record, Gapless, UpOrder, DownOrder, Usage
<1>13. QED
  BY <1>5, <1>6, <1>7, <1>8, <1>9, <1>10, <1>11, <1>12

\* A call that returns has nothing left to do.
LEMMA ReturnIInv ==
    ASSUME IInv, NEW r \in Runners, Return(r)
    PROVE  IInv'
<1> USE MigratorAssumption DEF IInv, TypeOK, Working, Under
<1>1. TypeOK'
  BY DEF Return, Leave
<1>2. Usage'
  BY DEF Return, Leave, Usage
<1>3. Progress'
  BY DEF Return, Leave, Progress
<1>4. UpOrder'
  BY DEF Return, Leave, UpOrder
<1>5. DownOrder'
  BY DEF Return, Leave, DownOrder
<1>6. TornExplained'
  BY DEF Return, Leave, TornExplained, Consistent, Script
<1>7. RecordedIsApplied'
  BY DEF Return, Leave, RecordedIsApplied, Script
<1>8. Gapless'
  BY DEF Return, Leave, Gapless, UpOrder, DownOrder, Usage
<1>9. QED
  BY <1>1, <1>2, <1>3, <1>4, <1>5, <1>6, <1>7, <1>8

\* A version a call stops at is torn.
LEMMA StopIInv ==
    ASSUME IInv, NEW r \in Runners, Stop(r)
    PROVE  IInv'
<1> USE MigratorAssumption DEF IInv, TypeOK, Working, Under
<1>1. TypeOK'
  <2>1. torn' \subseteq Versions
    BY DEF Stop
  <2>2. QED
    BY <2>1 DEF Stop, Leave
<1>2. Usage'
  BY DEF Stop, Leave, Usage
<1>3. Progress'
  BY DEF Stop, Leave, Progress
<1>4. UpOrder'
  BY DEF Stop, Leave, UpOrder
<1>5. DownOrder'
  BY DEF Stop, Leave, DownOrder
<1>6. TornExplained'
  BY DEF Stop, Leave, TornExplained, Consistent, Script
<1>7. RecordedIsApplied'
  BY DEF Stop, Leave, RecordedIsApplied, Script
<1>8. Gapless'
  BY DEF Stop, Leave, Gapless, UpOrder, DownOrder, Usage
<1>9. QED
  BY <1>1, <1>2, <1>3, <1>4, <1>5, <1>6, <1>7, <1>8

\* IInv is inductive.
THEOREM InvarianceOfIInv == Spec => []IInv
<1>1. Init => IInv
  BY InitIInv
<1>2. IInv /\ [Next]_vars => IInv'
  <2> SUFFICES ASSUME IInv, [Next]_vars PROVE IInv'
    OBVIOUS
  <2>1. CASE UNCHANGED vars
    BY <2>1 DEF vars, IInv, TypeOK, Usage, Progress, UpOrder, DownOrder, Under, Working,
        TornExplained, Consistent, Script, RecordedIsApplied, Gapless
  <2>2. ASSUME NEW r \in Runners, NEW o \in {"up", "down"}, NEW t \in Targets, Call(r, o, t)
        PROVE  IInv'
    BY <2>2, CallIInv
  <2>3. ASSUME NEW r \in Runners, Step(r) PROVE IInv'
    <3>1. CASE Fetch(r)
      BY <3>1, FetchIInv
    <3>2. ASSUME NEW v \in Versions, Start(r, v) PROVE IInv'
      BY <3>2, StartIInv
    <3>3. ASSUME NEW v \in Versions, SkipUndefined(r, v) PROVE IInv'
      BY <3>3, SkipUndefinedIInv
    <3>4. ASSUME NEW v \in Versions, NoDownScript(r, v) PROVE IInv'
      BY <3>4, NoDownScriptIInv
    <3>5. CASE Exec(r)
      BY <3>5, ExecIInv
    <3>6. CASE Record(r)
      BY <3>6, RecordIInv
    <3>7. CASE Return(r)
      BY <3>7, ReturnIInv
    <3>8. QED
      BY <2>3, <3>1, <3>2, <3>3, <3>4, <3>5, <3>6, <3>7 DEF Step
  <2>4. ASSUME NEW r \in Runners, Stop(r) PROVE IInv'
    BY <2>4, StopIInv
  <2>5. QED
    BY <2>1, <2>2, <2>3, <2>4 DEF Next
<1>3. QED
  BY <1>1, <1>2, PTL DEF Spec

\* The variables keep their types, and a runner only runs scripts it has.
THEOREM TypeCorrect == Spec => []TypeOK
<1>1. IInv => TypeOK
  BY DEF IInv
<1>2. QED
  BY <1>1, InvarianceOfIInv, PTL

\* A version whose record and schema disagree is being worked on or was stopped
\* at and not completed since.
THEOREM TornIsExplained == Spec => []TornExplained
<1>1. IInv => TornExplained
  BY DEF IInv
<1>2. QED
  BY <1>1, InvarianceOfIInv, PTL

\* Concurrent up calls record only what is wholly in effect.
THEOREM RecordsApplied == Spec => []RecordedIsApplied
<1>1. IInv => RecordedIsApplied
  BY DEF IInv
<1>2. QED
  BY <1>1, InvarianceOfIInv, PTL

\* No gap below a recorded version.
THEOREM NoGaps == Spec => []Gapless
<1>1. IInv => Gapless
  BY DEF IInv
<1>2. QED
  BY <1>1, InvarianceOfIInv, PTL

\* A call that returns Ok has done what it was asked for.
THEOREM CallsFulfilled == Spec => []Fulfilled
<1>1. IInv => Fulfilled
  BY MigratorAssumption DEF IInv, TypeOK, UpOrder, DownOrder, Under, Working, Fulfilled
<1>2. QED
  BY <1>1, InvarianceOfIInv, PTL
=============================================================================
