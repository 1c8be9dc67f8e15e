-------------------------- MODULE MCProxyLifetime --------------------------
(* Instances of ProxyLifetime for TLC.                                       *)
EXTENDS ProxyLifetime

CONSTANTS service, installer, child, home, temp, here, there

MCProcs == {service, installer, child}
MCInstallers == {installer}
MCSupervised == {service}
MCDirs == {home, temp}
MCPorts == {here, there}

\* The job has a directory and a port of its own.
MCDir == [p \in MCProcs |-> IF p = child THEN temp ELSE home]
OwnPort == [p \in MCProcs |-> IF p = child THEN there ELSE here]
=============================================================================
