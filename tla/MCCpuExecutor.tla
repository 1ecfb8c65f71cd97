--------------------------- MODULE MCCpuExecutor ---------------------------
(* Instances of CpuExecutor: the tasks executed.  Units of stdin are numbers. *)
EXTENDS CpuExecutor

Stages(ops, codes, inputs) == [ops : ops, code : codes, stdin : inputs]
Binaries(stages, timeouts) ==
    [kind : {"Binary"}, stages : {<<s>> : s \in stages},
     pipe_output : {TRUE}, timeout : timeouts]
Pipelines(stages, timeouts) ==
    [kind : {"Pipeline"}, stages : {<<>>} \cup {<<s, r>> : s, r \in stages},
     pipe_output : BOOLEAN, timeout : timeouts]

\* Up to n reads and writes in any order.
OpLists(n) == UNION {[1 .. k -> {"read", "write"}] : k \in 0 .. n}

\* Without a timeout nobody hangs; with one a child may.  No stdin, not even the
\* output of another stage, is larger than the pipe.
AnyTasks ==
    Binaries(Stages(OpLists(4), {0, 1}, {NoData, <<>>, <<1, 2>>}), {FALSE})
    \cup Pipelines(Stages(OpLists(2), {0}, {NoData, <<1, 2>>}), {FALSE})
    \cup Binaries(Stages(OpLists(2) \cup {<<"write", "hang">>}, {0, 1}, {NoData, <<1, 2>>}), {TRUE})
    \cup Pipelines(Stages({<<"read">>, <<"write", "write">>, <<"read", "hang">>},
                          {0, 1}, {NoData, <<1, 2>>}), {TRUE})

\* A stage that produces four units, and one that copies its input.
CopyTasks ==
    [kind : {"Pipeline"}, pipe_output : {TRUE}, timeout : {FALSE},
     stages : {<<[ops |-> [i \in 1 .. 4 |-> "write"], code |-> 0, stdin |-> NoData],
                 [ops |-> [i \in 1 .. 8 |-> IF i % 2 = 1 THEN "read" ELSE "write"],
                  code |-> 0, stdin |-> NoData]>>}]
=============================================================================
