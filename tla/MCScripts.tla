------------------------------ MODULE MCScripts ------------------------------
(* Instances of Scripts.  MCTexts are scripts to split: they are down        *)
(* scripts, which load_dir reads and up does not run.                        *)
EXTENDS Scripts

Up1(v, n, s) == [version |-> v, name |-> n, kind |-> "up", padded |-> TRUE, script |-> s]
Down1(v, n, s) == [Up1(v, n, s) EXCEPT !.kind = "down"]

Two == Up1(1, "n", <<"a", ";", "b">>)
Bracket == Up1(1, "n", <<"BEGIN", ";", "a", ";", "b", ";", "COMMIT", ";">>)
Open == Up1(1, "n", <<"a", ";", "BEGIN", ";", "b">>)
Later == Up1(2, "m", <<"c", "--", "x", "nl", ";", "d", "--", "x", "nl">>)
Headed == Up1(1, "n", <<"--", "x", "nl", "a", ";", "b">>)

MCTokens == {"a", ";", "'", "--", "nl", "#"}
MCTexts == UNION {[1 .. n -> MCTokens \cup {"\"", "\\"}] : n \in 0 .. 4} \cup [1 .. 5 -> MCTokens]
MCTextWorlds == {[dir |-> {Up1(1, "n", <<>>), Down1(1, "n", s)}, db |-> "postgres",
                  size |-> 1, quiet |-> TRUE] :
                    s \in MCTexts}

MCPoolWorlds ==
    [dir : {{Two, Later, Down1(2, "m", <<"#", "a", "nl", "b">>)}}, db : {"postgres", "sqlite"},
     size : {1, 2}, quiet : {FALSE}]
    \cup [dir : {{Bracket, Later}, {Open, Later}}, db : {"postgres", "sqlite"}, size : {1}, quiet : BOOLEAN]
    \cup [dir : {{Two, Up1(1, "m", <<"c">>), Down1(1, "m", <<"d">>), [Later EXCEPT !.kind = "other"]},
                 {Two, [Later EXCEPT !.padded = FALSE]}},
          db : {"sqlite"}, size : {1}, quiet : {TRUE}]
MCWorlds == MCTextWorlds \cup MCPoolWorlds

ASSUME SplitShape /\ NoneRecords /\ Apart

MCHeadedWorlds == {[dir |-> {Headed}, db |-> "sqlite", size |-> 1, quiet |-> TRUE]}
MCBracketWorlds == {[dir |-> {Bracket}, db |-> "postgres", size |-> 2, quiet |-> TRUE]}
=============================================================================
