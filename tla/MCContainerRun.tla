--------------------------- MODULE MCContainerRun ---------------------------
(* Configurations of ContainerRun for TLC: between them they use every      *)
(* limit, both sources of a root file system, rootless mode and a port.     *)
EXTENDS ContainerRun

CONSTANTS r1, r2

Image    == [image |-> TRUE,  rootless |-> FALSE,
             limits |-> {"memory", "pids"}, ports |-> 1]
Rootless == [image |-> FALSE, rootless |-> TRUE,
             limits |-> {"cpu"}, ports |-> 0]
Plain    == [image |-> FALSE, rootless |-> FALSE,
             limits |-> {"cpu"}, ports |-> 0]
MemOnly  == [image |-> FALSE, rootless |-> FALSE,
             limits |-> {"memory"}, ports |-> 0]

HostConfigs == {Image, Rootless}
CgConfigs   == {Plain, MemOnly}
=============================================================================
