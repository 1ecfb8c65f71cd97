---------------------------- MODULE MCPool ----------------------------
(* Instances of Pool: the tasks that the callers submit. *)
EXTENDS Pool

task(kind, backend, stages) ==
    [kind |-> kind, backend |-> backend, stages |-> stages]

\* A binary, pipelines of no and of two stages, a shader no executor takes.
AllTasks == {task("Binary", "Any", 1), task("Pipeline", "Cpu", 0),
             task("Pipeline", "Cpu", 2), task("Shader", "Gpu", 1)}
=============================================================================
