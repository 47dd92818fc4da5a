----------------------------- MODULE MCMainLoop -----------------------------
(* Instances of MainLoop. *)
EXTENDS MainLoop

Signals(names) == [i \in DOMAIN names |-> [name |-> names[i]]]

\* Handlers for signals and the EXIT trap; a signal that does not exist or
\* cannot be trapped among others; resetting and looking.
Calls ==
    {[form |-> "set", action |-> Handler, signals |-> Signals(<<"BAD", "INT", "TERM", "EXIT">>)],
     [form |-> "reset", signals |-> Signals(<<"KILL", "EXIT">>) \o <<[number |-> 15]>>],
     [form |-> "-p", signals |-> Signals(<<"BAD", "INT">>)]}

\* A script meets more signals than the queue holds, the terminal one.
SignalsOf == [m \in Mode |-> IF m = "interactive" THEN 1 ELSE 3]

\* Lines and pastes.
Inputs ==
    {<<"command">>, <<"exit">>, <<"heredoc">>, <<"delimiter">>,
     <<"command", "exit">>,
     <<"heredoc", "command", "delimiter", "exit", "command">>,
     <<"heredoc", "exit">>,
     <<"EOF">>, <<"Interrupted">>, <<"failure">>}

=============================================================================
