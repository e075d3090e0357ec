--------------------------- MODULE MCUserThreads ---------------------------
(* Programs whose threads the UserThreads model runs: a program is the set  *)
(* of the system calls each of its threads may make.                        *)
EXTENDS UserThreads

All(op) == {<<t, op, NoTid>> : t \in Tids}
Of(op, pairs) == {<<p[1], op, p[2]>> : p \in pairs}

\* Every thread is joined by one other at most; the joins can form a circle.
JoinRing ==
    All("create") \cup All("exit_thread") \cup All("other")
    \cup Of("join", {<<0, 1>>, <<1, 2>>, <<2, 0>>})
    \cup Of("cancel", {<<0, 1>>, <<0, 2>>, <<2, 2>>, <<1, 0>>})

\* Thread 1 exits the process while the others create, cancel and exit.
ExitByOne ==
    All("create") \cup All("exit_thread") \cup All("other")
    \cup Of("cancel", {<<0, 2>>, <<2, 1>>, <<0, 1>>}) \cup {<<1, "kill", NoTid>>}

\* Thread 0 replaces the program while two threads run.
ExecvByMain ==
    {<<0, "create", NoTid>>, <<0, "execv", NoTid>>} \cup All("exit_thread") \cup All("other")

MCPrograms == {JoinRing, ExitByOne, ExecvByMain}
=============================================================================
