------------------------------ MODULE SqlScript ------------------------------
(***************************************************************************)
(* split_sql of src/src/sql.rs, and what a SQL server reads in a script.   *)
(*                                                                         *)
(* A script is a sequence of tokens: the characters and comment marks that *)
(* either of them looks at, line ends, and words for everything else.      *)
(***************************************************************************)
EXTENDS Naturals, Sequences, SequencesExt

Quotes == {"'", "\""}
Marks == {"--", "#"}

Trimmed(s) == LET code == {i \in DOMAIN s : s[i] # "nl"}
              IN  IF code = {} THEN <<>>
                  ELSE SubSeq(s, CHOOSE i \in code : \A j \in code : i <= j,
                                 CHOOSE i \in code : \A j \in code : j <= i)

\* A mistake: a chunk with a comment anywhere is taken for a comment.
PushUncommented(stmts, cur) ==
    LET s == Trimmed(cur)
    IN  IF \A i \in DOMAIN s : s[i] \notin Marks THEN Append(stmts, s) ELSE stmts

\* The chunk ends: it becomes a statement unless it is blank or begins with a mark.
Push(stmts, cur) ==
    LET s == Trimmed(cur)
    IN  IF s # <<>> /\ s[1] \notin Marks THEN Append(stmts, s) ELSE stmts

\* One character.  In a string a backslash takes the next character with it.
SplitChar(at, c) ==
    LET cur == Append(at.cur, c)
    IN  IF at.escaped THEN [at EXCEPT !.cur = cur, !.escaped = FALSE]
        ELSE IF at.quote # "" THEN
             [at EXCEPT !.cur = cur, !.escaped = (c = "\\"), !.quote = IF c = @ THEN "" ELSE @]
        ELSE IF c \in Quotes THEN [at EXCEPT !.cur = cur, !.quote = c]
        ELSE IF c = ";" THEN [at EXCEPT !.stmts = Push(@, cur), !.cur = <<>>]
        ELSE [at EXCEPT !.cur = cur]

SplitSql(script) ==
    LET end == FoldLeft(SplitChar, [stmts |-> <<>>, cur |-> <<>>, quote |-> "", escaped |-> FALSE],
                        script)
    IN  Push(end.stmts, end.cur)
-----------------------------------------------------------------------------
(***************************************************************************)
(* SQL as PostgreSQL and SQLite read it: strings are closed by their       *)
(* quote, comments are from "--" to the end of the line, statements end    *)
(* with a semicolon outside of both.  A statement is headed if a comment   *)
(* comes before its first word.  A script is tame if it has no backslash   *)
(* in a string, no quote and no semicolon in a comment, and closes its     *)
(* strings.  Block comments, dollar quotes and the bodies of triggers are  *)
(* not in the tokens.                                                      *)
(***************************************************************************)
Ended(at) == IF at.code = <<>> THEN at.stmts
             ELSE Append(at.stmts, [code |-> at.code, headed |-> at.headed])

LexChar(before, c) ==
    LET at == [before EXCEPT !.tame = /\ @
                                      /\ before.mode \in Quotes => c # "\\"
                                      /\ before.mode = "comment" => c \notin Quotes \cup {";"}]
    IN  CASE at.mode = "comment" -> [at EXCEPT !.mode = IF c = "nl" THEN "code" ELSE @]
          [] at.mode \in Quotes -> [at EXCEPT !.code = Append(@, c),
                                              !.mode = IF c = @ THEN "code" ELSE @]
          [] at.mode = "code" ->
               IF c = "--" THEN [at EXCEPT !.mode = "comment", !.headed = @ \/ at.code = <<>>]
               ELSE IF c = ";" THEN [at EXCEPT !.stmts = Ended(at), !.code = <<>>, !.headed = FALSE]
               ELSE IF c = "nl" THEN at
               ELSE [at EXCEPT !.code = Append(@, c), !.mode = IF c \in Quotes THEN c ELSE @]

Lexed(script) ==
    FoldLeft(LexChar, [stmts |-> <<>>, code |-> <<>>, headed |-> FALSE, mode |-> "code",
                       tame |-> TRUE], script)

Tame(script) == LET end == Lexed(script) IN end.tame /\ end.mode \notin Quotes
Statements(script) == LET end == Lexed(script) IN Ended(end)

\* Tame, and no statement begins with a comment or with "#" (no statement of
\* PostgreSQL or SQLite does that; in MySQL "#" begins a comment).
Plain(script) ==
    /\ Tame(script)
    /\ \A x \in Range(Statements(script)) : ~x.headed /\ x.code[1] # "#"

CodesOf(stmts) == [i \in DOMAIN stmts |-> stmts[i].code]

\* The statements that stand in a script, and those the server executes when it is
\* sent what split_sql returns.
Said(script) == CodesOf(Statements(script))
Sent(script) ==
    CodesOf(FlattenSeq([i \in DOMAIN SplitSql(script) |-> Statements(SplitSql(script)[i])]))
=============================================================================
