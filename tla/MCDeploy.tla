------------------------------ MODULE MCDeploy ------------------------------
(***************************************************************************)
(* Small instances of Deploy for TLC: what the tunsmith.json of each        *)
(* project may say.                                                         *)
(***************************************************************************)
EXTENDS Deploy, TLC

CONSTANTS home, shop, v1, v2, net1, net2, eth0

S(name, subnet, gateway) == [name |-> name, subnet |-> subnet, gateway |-> gateway]

\* One project, full-tunnel or not, on one subnet.
OneSubnet == home :> {S(v1, net1, TRUE), S(v1, net1, FALSE)}
\* One full-tunnel project.
OneProject == home :> {S(v1, net1, TRUE)}
\* One full-tunnel project that may change its subnet.
TwoSubnets == home :> {S(v1, net1, TRUE), S(v1, net2, TRUE)}
\* Two projects with an instance each, one of them full-tunnel or not.
TwoProjects == home :> {S(v1, net1, TRUE)}
            @@ shop :> {S(v2, net2, TRUE), S(v2, net2, FALSE)}

\* The two subnets of TwoSubnets are interchangeable.
SubnetSymmetry == Permutations({net1, net2})
=============================================================================
