------------------------------- MODULE Scripts -------------------------------
(***************************************************************************)
(* A migration from the files of a directory to the database:              *)
(* Migrator::load_dir and up (src/src/migrate/mod.rs), DbPool::exec and    *)
(* split_sql, and the pool of build_pool (src/src/sql.rs).  exec sends     *)
(* each statement on whichever connection is idle, so BEGIN and COMMIT of  *)
(* a script are statements like any other; another part of the application *)
(* writes through the same pool.                                           *)
(*                                                                         *)
(* A file is a record: its version, name and kind ("up", "down", "other"), *)
(* whether its name has the version as load_dir formats it (four digits),  *)
(* and its script.  An effect is the statement that has it.  The version   *)
(* table is the set of the Record statements among the effects; module     *)
(* Migrator has its interplay with other calls, here there is one runner.  *)
(***************************************************************************)
EXTENDS SqlScript, FiniteSets

CONSTANTS Worlds, \* records [dir, db, size, quiet]: the files, the server, the size of the
                  \* pool, and whether during a call nothing happens to the pool (no other
                  \* caller, no connection closed) but that it is closed
          None

ASSUME ScriptsAssumption ==
    \A w \in Worlds : /\ \A f \in w.dir : /\ f.kind \in {"up", "down", "other"}
                                          /\ f.version \in Nat /\ f.padded \in BOOLEAN
                      /\ w.db \in {"postgres", "sqlite"}
                      /\ w.size \in Nat \ {0} /\ w.quiet \in BOOLEAN
                      /\ None \notin 1 .. w.size

VARIABLES dir, db, size, quiet,
          pc,        \* the runner: "list", "read", "failed", "idle", "pick", "acquire", "execute"
          unread,    \* entries of the directory not listed yet
          seen,      \* seen[v]: the name found for version v
          loaded,    \* loaded[v]: the migration: name, up and down script
          todo,      \* versions the call to up has yet to apply
          left,      \* statements exec has yet to send
          mine,      \* the connection exec holds
          open,      \* the connections that are open
          conn,      \* conn[c]: the transaction on connection c
          committed, \* the effects that are committed
          closed,    \* whether the pool was closed
          app        \* the connection the rest of the application holds

input == <<dir, db, size, quiet>>
loadVars == <<unread, seen, loaded>>
runVars == <<pc, todo, left, mine>>
poolVars == <<open, conn, committed, closed>>
vars == <<input, loadVars, runVars, poolVars, app>>

Fresh == [tx |-> FALSE, writes |-> {}, aborted |-> FALSE]

Init == /\ \E w \in Worlds : dir = w.dir /\ db = w.db /\ size = w.size /\ quiet = w.quiet
        /\ pc = "list" /\ unread = dir
        /\ seen = <<>> /\ loaded = <<>>
        /\ todo = {} /\ left = <<>> /\ mine = None
        /\ open = {} /\ conn = [c \in 1 .. size |-> Fresh]
        /\ committed = {}
        /\ closed = FALSE
        /\ app = None
-----------------------------------------------------------------------------
(***************************************************************************)
(* load_dir: the up files give versions and names, in the order in which   *)
(* the directory happens to list them; the scripts are read from the names *)
(* that these versions and names make up.  Any read may fail.              *)
(***************************************************************************)
\* BTreeMap::insert: the last value put under a key stays.
Insert(map, k, v) == [u \in DOMAIN map \cup {k} |-> IF u = k THEN v ELSE map[u]]

ListEntry(f) ==
    /\ pc = "list" /\ f \in unread
    /\ unread' = unread \ {f}
    /\ seen' = IF f.kind = "up" THEN Insert(seen, f.version, f.name) ELSE seen
    /\ UNCHANGED <<input, loaded, runVars, poolVars, app>>

ListEnds == /\ pc = "list" /\ unread = {}
            /\ pc' = "read"
            /\ UNCHANGED <<input, loadVars, todo, left, mine, poolVars, app>>

NextToRead == {v \in DOMAIN seen \ DOMAIN loaded : \A u \in DOMAIN seen \ DOMAIN loaded : v <= u}
File(v, kind) == {f \in dir : f.version = v /\ f.name = seen[v] /\ f.kind = kind /\ f.padded}

\* A mistake: the down script is looked up by its version alone.
DownOfVersion(v) == {f \in dir : f.version = v /\ f.kind = "down"}
Down(v) == File(v, "down")

ReadScripts(v) ==
    /\ pc = "read" /\ v \in NextToRead
    /\ \E f \in File(v, "up") : loaded' = Insert(loaded, v,
           [name |-> f.name, up |-> f.script, down |-> {d.script : d \in Down(v)}])
    /\ UNCHANGED <<input, unread, seen, runVars, poolVars, app>>

LoadEnds == /\ pc = "read" /\ DOMAIN seen = DOMAIN loaded
            /\ pc' = "idle"
            /\ UNCHANGED <<input, loadVars, todo, left, mine, poolVars, app>>

LoadFails == /\ pc \in {"list", "read"}
             /\ pc' = "failed"
             /\ UNCHANGED <<input, loadVars, todo, left, mine, poolVars, app>>
-----------------------------------------------------------------------------
(***************************************************************************)
(* The pool: connections are opened up to its size when they are wanted,   *)
(* or ahead of that (min_connections), and idle ones are closed            *)
(* (idle_timeout, max_lifetime).  The server rolls back what a closed      *)
(* connection has not committed.  A pool that is closed (Database::close)   *)
(* hands out no connection any more, and closes those that come back.      *)
(***************************************************************************)
Idle == open \ {mine, app}

Grow(c) == /\ c \notin open /\ ~closed
           /\ open' = open \cup {c}
           /\ UNCHANGED <<input, loadVars, runVars, conn, committed, closed, app>>

Reap(c) == /\ c \in Idle /\ (quiet => pc = "idle" \/ closed)
           /\ open' = open \ {c}
           /\ conn' = [conn EXCEPT ![c] = Fresh]
           /\ UNCHANGED <<input, loadVars, runVars, committed, closed, app>>

Close == /\ ~closed
         /\ closed' = TRUE
         /\ UNCHANGED <<input, loadVars, runVars, open, conn, committed, app>>

\* What a statement does on connection c, if it succeeds.  BEGIN in an open transaction
\* and COMMIT without one are ignored by PostgreSQL and errors in SQLite; COMMIT of an
\* aborted transaction rolls it back and succeeds.
Runs(c, s) ==
    LET x == conn[c]
    IN  /\ x.aborted => s = <<"COMMIT">>
        /\ db = "sqlite" => x.tx = (s = <<"COMMIT">>) \/ s \notin {<<"BEGIN">>, <<"COMMIT">>}
        /\ UNCHANGED <<open, closed>>
        /\ CASE s = <<"BEGIN">> ->
                  conn' = [conn EXCEPT ![c].tx = TRUE] /\ UNCHANGED committed
             [] s = <<"COMMIT">> ->
                  /\ committed' = IF x.aborted THEN committed ELSE committed \cup x.writes
                  /\ conn' = [conn EXCEPT ![c] = Fresh]
             [] OTHER ->
                  IF x.tx THEN /\ conn' = [conn EXCEPT ![c].writes = @ \cup {s}]
                               /\ UNCHANGED committed
                          ELSE committed' = committed \cup {s} /\ UNCHANGED conn

\* A failed statement has no effect; PostgreSQL aborts the transaction around it.
Fails(c) == /\ conn' = [conn EXCEPT ![c].aborted = conn[c].tx /\ db = "postgres"]
            /\ UNCHANGED <<open, committed, closed>>

\* A chunk of a script is one statement (a lone semicolon is none) or an error; the last
\* of what is left is the record, which is not read from a script.
Executes(c) ==
    LET s == Statements(Head(left))
    IN  IF Len(left) = 1 THEN Runs(c, Head(left))
        ELSE IF s = <<>> THEN ~conn[c].aborted /\ UNCHANGED poolVars
        ELSE Len(s) = 1 /\ Runs(c, s[1].code)
-----------------------------------------------------------------------------
(***************************************************************************)
(* The runner: up over the versions that are not recorded, exec over the   *)
(* chunks of each script and, as the last one, its record.                 *)
(***************************************************************************)
Record(v) == <<"record", v>>
Recorded == {v \in DOMAIN loaded : Record(v) \in committed}

\* The version table is read on connection c: what its transaction wrote is seen, too.
Visible(c) == committed \cup conn[c].writes

Up(c) == /\ pc = "idle" /\ c \in Idle /\ ~closed /\ ~conn[c].aborted
         /\ todo' = {v \in DOMAIN loaded : Record(v) \notin Visible(c)}
         /\ pc' = "pick"
         /\ UNCHANGED <<input, loadVars, left, mine, poolVars, app>>

Apply(v) == /\ pc = "pick" /\ v \in todo /\ \A u \in todo : v <= u
            /\ todo' = todo \ {v}
            /\ left' = SplitSql(loaded[v].up) \o <<Record(v)>>
            /\ pc' = "acquire"
            /\ UNCHANGED <<input, loadVars, mine, poolVars, app>>

UpReturns == /\ pc = "pick" /\ todo = {}
             /\ pc' = "idle"
             /\ UNCHANGED <<input, loadVars, todo, left, mine, poolVars, app>>

Acquire(c) == /\ pc = "acquire" /\ c \in Idle /\ ~closed
              /\ mine' = c
              /\ pc' = "execute"
              /\ UNCHANGED <<input, loadVars, todo, left, poolVars, app>>

\* A mistake: the connection stays with the call from one statement to the next.
ExecuteHolding ==
    /\ pc = "execute"
    /\ Executes(mine)
    /\ left' = Tail(left)
    /\ pc' = IF Len(left) = 1 THEN "pick" ELSE "acquire"
    /\ mine' = IF Len(left) = 1 THEN None ELSE mine
    /\ UNCHANGED <<input, loadVars, todo, app>>

\* A mistake: a failing statement does not end exec.
ExecuteOnward ==
    /\ pc = "execute"
    /\ Executes(mine) \/ Fails(mine)
    /\ left' = Tail(left)
    /\ pc' = IF Len(left) = 1 THEN "pick" ELSE "acquire"
    /\ mine' = None
    /\ UNCHANGED <<input, loadVars, todo, app>>

Execute == /\ pc = "execute"
           /\ Executes(mine)
           /\ left' = Tail(left)
           /\ pc' = IF Len(left) = 1 THEN "pick" ELSE "acquire"
           /\ mine' = None
           /\ UNCHANGED <<input, loadVars, todo, app>>

Stops == /\ pc' = "idle" /\ todo' = {} /\ left' = <<>> /\ mine' = None
         /\ UNCHANGED <<input, loadVars, app>>

\* The statement fails, or its future is dropped before or after it took effect; the
\* connection goes back to the pool as it is.
ExecuteFails == pc = "execute" /\ (Fails(mine) \/ Executes(mine)) /\ Stops
Cancelled == pc = "execute" /\ UNCHANGED poolVars /\ Stops

\* acquire_timeout, the pool is closed, or the future is dropped while it waits.
AcquireFails == pc = "acquire" /\ UNCHANGED poolVars /\ Stops

AppAcquire(c) == /\ app = None /\ c \in Idle /\ ~closed /\ (quiet => pc = "idle")
                 /\ app' = c
                 /\ UNCHANGED <<input, loadVars, runVars, poolVars>>

AppWrites == /\ app # None
             /\ Runs(app, <<"app">>) \/ Fails(app)
             /\ app' = None
             /\ UNCHANGED <<input, loadVars, runVars>>

Load == (\E f \in dir : ListEntry(f)) \/ ListEnds \/ (\E v \in DOMAIN seen : ReadScripts(v))
        \/ LoadEnds
Run == (\E c \in DOMAIN conn : Up(c)) \/ (\E v \in DOMAIN loaded : Apply(v)) \/ UpReturns \/ Execute

Next == \/ Load \/ LoadFails
        \/ Run \/ (\E c \in DOMAIN conn : Acquire(c) \/ Grow(c) \/ Reap(c) \/ AppAcquire(c))
        \/ ExecuteFails \/ Cancelled \/ AcquireFails \/ AppWrites \/ Close

Spec == Init /\ [][Next]_vars
-----------------------------------------------------------------------------
\* The types of the variables; a connection is open while a caller holds it, no two
\* hold the same, and none is held between two statements.
TypeOK ==
    /\ pc \in {"list", "read", "failed", "idle", "pick", "acquire", "execute"}
    /\ unread \subseteq dir
    /\ DOMAIN loaded \subseteq DOMAIN seen /\ todo \subseteq DOMAIN loaded
    /\ DOMAIN conn = 1 .. size /\ None \notin 1 .. size /\ open \subseteq 1 .. size
    /\ \A c \in 1 .. size :
          /\ DOMAIN conn[c] = DOMAIN Fresh
          /\ conn[c].tx \in BOOLEAN /\ conn[c].aborted \in BOOLEAN
          /\ ~conn[c].tx => conn[c].writes = {} /\ ~conn[c].aborted
    /\ {mine, app} \subseteq open \cup {None}
    /\ mine # None => mine # app
    /\ pc = "execute" <=> mine # None

\* load_dir that succeeds has a migration for every up file's version, made of one up
\* file and the down file of the same name, if there is one.  (Of two up files with one
\* version the listing's last one is taken, without a word.)
DirectoryLoaded ==
    pc \in {"idle", "pick", "acquire", "execute"} =>
        /\ \A f \in dir : f.kind = "up" => f.version \in DOMAIN loaded
        /\ \A v \in DOMAIN loaded : \E f \in dir :
              /\ f.kind = "up" /\ f.version = v
              /\ loaded[v].name = f.name /\ loaded[v].up = f.script
              /\ loaded[v].down = {d.script : d \in {g \in dir : /\ g.kind = "down" /\ g.padded
                                        /\ g.version = v /\ g.name = f.name}}

\* The inductive invariant: the names that were seen are those of up files already
\* listed, and each migration was read from such a file and its down file.
Listed == /\ \A f \in dir \ unread : f.kind = "up" => f.version \in DOMAIN seen
          /\ pc \notin {"list", "failed"} => unread = {}
          /\ pc \in {"idle", "pick", "acquire", "execute"} => DOMAIN loaded = DOMAIN seen

ReadAsSeen ==
    \A v \in DOMAIN loaded : \E f \in File(v, "up") :
        loaded[v] = [name |-> f.name, up |-> f.script, down |-> {d.script : d \in Down(v)}]

\* While entries are listed nothing is read yet.
NothingRead == pc = "list" => loaded = <<>>

IInv == TypeOK /\ Listed /\ ReadAsSeen /\ NothingRead

\* Of a plain script split_sql makes exactly the statements that SQL reads in it, in
\* their order, wherever it has strings, comments and semicolons.  (The scripts only
\* change while they are read.)
SplitAsRead ==
    pc = "read" => \A v \in DOMAIN loaded : \A s \in {loaded[v].up} \cup loaded[v].down :
        Plain(s) => Sent(s) = Said(s)

Brackets == {<<"BEGIN">>, <<"COMMIT">>}
Effects(v) == Range(Said(loaded[v].up)) \ Brackets
Bracketed(v) == LET s == Sent(loaded[v].up)
                IN  /\ Plain(loaded[v].up)
                    /\ Len(s) > 2 /\ s[1] = <<"BEGIN">> /\ s[Len(s)] = <<"COMMIT">>
                    /\ \A i \in 2 .. Len(s) - 1 : s[i] \notin Brackets
Unbracketed(v) == Brackets \cap Range(Sent(loaded[v].up)) = {}
AllUnbracketed == \A v \in DOMAIN loaded : Unbracketed(v)
Whole(v) == Effects(v) \subseteq committed \/ Effects(v) \cap committed = {}

\* All statements of a call are executed on one connection, and no others between them.
Undisturbed == size = 1 /\ quiet

\* From the file to the database: what the plain script of a recorded version says is
\* in effect, whatever failed and however often the call was repeated.  (For scripts
\* that are not plain see StatementsExecuted.)  Scripts that open transactions need an
\* undisturbed connection: a transaction left open swallows statements of others, and an
\* error of another caller in it turns COMMIT into ROLLBACK while exec goes on to record
\* the version.
RecordedInEffect ==
    Undisturbed \/ AllUnbracketed =>
        \A v \in Recorded : Plain(loaded[v].up) => Effects(v) \subseteq committed

\* On an undisturbed connection BEGIN and COMMIT make a script atomic: a call that ends
\* between them leaves the transaction open, no later statement commits a part of it.
BracketsHold ==
    Undisturbed => \A v \in DOMAIN loaded : Bracketed(v) => Whole(v)

\* What the theorems ask of the splitting of the scripts there are: that the server
\* executes the statements of their chunks one chunk after the other, and that
\* SplitAsRead holds of them.
Codes(stmts) == {stmts[i].code : i \in DOMAIN stmts}
SplitShape ==
    \A w \in Worlds : \A s \in {f.script : f \in w.dir} :
        /\ SplitSql(s) \in Seq(Range(SplitSql(s)))
        /\ \A chunk \in Range(SplitSql(s)) : Statements(chunk) \in Seq(Range(Statements(chunk)))
        /\ Sent(s) \in Seq(Range(Sent(s)))
        /\ \E at \in [DOMAIN Sent(s) -> DOMAIN SplitSql(s)] :
              /\ \A i, j \in DOMAIN Sent(s) : i <= j => at[i] <= at[j]
              /\ \A k \in DOMAIN SplitSql(s) :
                    Codes(Statements(SplitSql(s)[k])) = {Sent(s)[i] : i \in {j \in DOMAIN at : at[j] = k}}

SplitFaithful ==
    /\ SplitShape
    /\ \A w \in Worlds : \A s \in {f.script : f \in w.dir} : Plain(s) => Sent(s) = Said(s)

\* And of the scripts: none writes to the version table itself.
NoneRecords ==
    \A w \in Worlds : \A f, g \in w.dir : Record(g.version) \notin Range(Sent(f.script))

\* What BracketsHold asks of them: but for brackets no two versions share a statement, nor
\* do they with the application.
Apart ==
    \A w \in Worlds : \A f, g \in {h \in w.dir : h.kind = "up"} :
        /\ <<"app">> \notin Range(Sent(f.script))
        /\ f.version # g.version =>
              Range(Sent(f.script)) \cap Range(Sent(g.script)) \subseteq Brackets

\* The inductive invariant of the pool.  Nothing but the application's writes is
\* committed before the first call to up.
Loading == pc \in {"list", "read", "failed"}
InCall == pc \in {"pick", "acquire", "execute"}
BeforeCalls == Loading => committed \subseteq {<<"app">>}

\* Without BEGIN there is no transaction, and none is aborted during a call on an
\* undisturbed connection.
NoTransaction == Loading \/ AllUnbracketed => \A c \in 1 .. size : ~conn[c].tx
Alone == Undisturbed /\ InCall => app = None /\ \A c \in 1 .. size : ~conn[c].aborted

\* Of the script that is being executed each chunk is still to be sent, or it has had its
\* effects, if only in the transaction (which a closed pool may take back).
Reached == committed \cup UNION {conn[c].writes : c \in 1 .. size}
AtWork ==
    pc \in {"acquire", "execute"} => \E v \in DOMAIN loaded :
        LET chunks == Range(SplitSql(loaded[v].up))
            unsent == {left[i] : i \in 1 .. Len(left) - 1}
        IN  /\ left \in Seq(Range(left)) /\ left # <<>> /\ left[Len(left)] = Record(v)
            /\ unsent \subseteq chunks
            /\ Undisturbed \/ AllUnbracketed => \/ closed /\ pc = "acquire"
                                               \/ \A chunk \in chunks \ unsent :
                                                     Codes(Statements(chunk)) \ Brackets \subseteq Reached

\* A record is only in a transaction with what it is the record of, or behind it.
Explained(effects) ==
    \A v \in DOMAIN loaded : Record(v) \in effects /\ Plain(loaded[v].up)
                                => Effects(v) \subseteq effects
RecordsFollow ==
    Undisturbed \/ AllUnbracketed => \A c \in 1 .. size : Explained(Visible(c))

PoolInv == /\ BeforeCalls /\ NoTransaction /\ Alone /\ AtWork
           /\ RecordedInEffect /\ RecordsFollow

\* The comment on SqlMigration: for atomicity across statements write BEGIN and
\* COMMIT in the SQL file.
ScriptAtomic == \A v \in DOMAIN loaded : Bracketed(v) => Whole(v)

\* The comment on exec: statements are separated by semicolons and executed one by one.
\* A version is only recorded when the statements of its tame script were executed, also
\* those with a comment above them.
StatementsExecuted == \A v \in Recorded : Tame(loaded[v].up) => Effects(v) \subseteq committed
=============================================================================
