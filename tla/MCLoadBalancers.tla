-------------------------- MODULE MCLoadBalancers --------------------------
\* LoadBalancers for TLC: load balancers and pools are interchangeable.
EXTENDS LoadBalancers, TLC

Symmetry == Permutations(LoadBalancer) \cup Permutations(Pool)
============================================================================
