---------------------------- MODULE MCOpExecutor -----------------------------
EXTENDS OpExecutor

N(id, type) == [id |-> id, type |-> type]
A == N("a", "Plain")
B == N("b", "Plain")
C == N("c", "Plain")
D == N("d", "Plain")
J == N("j", "Sum")

MCRegistry == {"Plain", "Sum", "Even", "None"}

\* Five elements in twos and in the default size (threes for two workers), and no element.
MCJobs == [Sum |-> [n |-> 5, batch_size |-> 0],
           Even |-> [n |-> 5, batch_size |-> 2],
           None |-> [n |-> 0, batch_size |-> 0]]

\* A diamond; two roots and an op behind both; a job between plain ops, two jobs at
\* once, a job without elements; then sources that Build or Compile refuses.
MCSources ==
    {<< <<A, B, D>>, <<A, C, D>> >>, << <<A, C, D>>, <<B, C>> >>,
     << <<A, J, B>> >>, << <<N("e", "Even"), A>>, <<B, A>> >>,
     << <<J>>, <<N("k", "Sum")>> >>, << <<N("n", "None"), A>> >>, <<>>,
     << <<A, B, A>> >>, << <<A, A>> >>, << <<A, N("a", "Sum")>> >>, << <<N("u", "Unknown")>> >>}
=============================================================================
