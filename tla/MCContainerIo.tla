-------------------------- MODULE MCContainerIo --------------------------
(* Instances of ContainerIo for model checking.                            *)
EXTENDS ContainerIo

CONSTANT dep

\* A person at a terminal; a pipe; and output interleaved,
\* with a dependency to follow.
Invocations ==
    {[streaming |-> "direct", interactive |-> TRUE, stdin_terminal |-> t,
      stdout_terminal |-> TRUE, fed |-> TRUE, background |-> {},
      checked |-> FALSE] :
        t \in BOOLEAN}
    \cup
    {[streaming |-> "interleaved", interactive |-> TRUE, stdin_terminal |-> FALSE,
      stdout_terminal |-> FALSE, fed |-> FALSE, background |-> {dep},
      checked |-> c] :
        c \in BOOLEAN}
==========================================================================
