--------------------------- MODULE MCServerPorts ---------------------------
\* ServerPorts for TLC: servers and ports are interchangeable.
EXTENDS ServerPorts, TLC

Symmetry == Permutations(Server) \cup Permutations(Port)
============================================================================
