------------------------------ MODULE MCConsole ------------------------------
(* The console with two CPUs and two processes, in scenarios that each use a   *)
(* part of it.                                                                 *)
EXTENDS Console

Down(k) == [dev |-> "kbd", key |-> k, up |-> FALSE]
Up(k) == [dev |-> "kbd", key |-> k, up |-> TRUE]
Serial(x) == [dev |-> "uart", key |-> x, up |-> FALSE]

Scene(calls1, calls2, script, n) ==
    [calls |-> <<calls1, calls2>>, script |-> script, ticks |-> n]

MCScenarios == {
    \* two readers, and a buffer that fills
    Scene({<<"read", 2>>}, {<<"read", 1>>},
          <<Serial("a"), Serial("a"), Serial("LF")>>, 0),
    \* a reader that is killed, and an end of file from the right control key
    Scene({<<"read", 2>>}, {<<"kill", 1>>},
          <<Serial("a"), Down("rctl"), Down("d")>>, 0),
    \* sleepers, a writer and the list of processes
    Scene({<<"sleep", 1>>}, {<<"sleep", 2>>, <<"write", 0>>}, <<Serial("^R")>>, 2),
    \* a sleeper that kills a reader
    Scene({<<"kill", 2>>, <<"sleep", 1>>}, {<<"read", 1>>}, <<Down("ret")>>, 1),
    \* editing, with indices that wrap
    Scene({<<"read", 2>>}, {},
          <<Serial("a"), Serial("^H"), Serial("CR"), Down("u"), Serial("^U"),
            Serial("^D"), Serial("a"), Serial("LF")>>, 0),
    \* modifiers, pressed and released in any way
    Scene({<<"read", 1>>}, {},
          <<Down("ctl"), Down("rctl"), Up("ctl"), Down("shift"), Down("h"), Up("rctl"),
            Down("caps"), Down("a"), Down("d"), Up("shift"), Up("d"), Down("d"), Down("ret")>>, 0)}
=============================================================================
