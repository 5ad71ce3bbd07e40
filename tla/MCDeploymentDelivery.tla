------------------------ MODULE MCDeploymentDelivery ------------------------
(* Small instances of DeploymentDelivery for TLC. *)
EXTENDS DeploymentDelivery

CONSTANTS slow, fast    \* two settings an agent may run

MCRuntimes == {slow, fast}
MCDays == {0, 1}
Request(runtime, nic, d) == [runtime |-> runtime, nic |-> nic, day |-> d]

Settings(runtime, d) == [runtime |-> runtime, nic |-> FALSE, day |-> d]

\* Over the default profile only the address source changes; the agent of a
\* node without a profile runs other settings.
MCRequests == {Request(slow, TRUE, Null)}
MCNicRequests == {Request(fast, TRUE, Null), Request(slow, TRUE, Null)}
MCInstalled == {Settings(fast, 1)}
MCMoves == {<<"connect", "offline">>, <<"offline", "connect">>}
=============================================================================
