-------------------------- MODULE MCExternalCluster --------------------------
(***************************************************************************)
(* Two invocations of the exporter and two imports: exports for the        *)
(* default users, a tenant with CephFS, a tenant in a RADOS namespace, an  *)
(* erasure-coded pool, and upgrades of two kinds of users.                 *)
(***************************************************************************)
EXTENDS ExternalCluster, TLC

MCWord == {"East", "east", "rbd", "ecdata", "meta", "a", "myfs", "data",
           "hdd", "cold",
           "default", "csi"}
MCLower == [w \in MCWord |-> IF w = "East" THEN "east" ELSE w]
MCDefaultPrefix == <<"default">>
MCPools == {<<"rbd">>, <<"ecdata">>}
MCNamespaces == {<<<<"rbd">>, <<"a">>>>}
MCFsList == <<[name |-> <<"hdd">>, data |-> <<<<"cold">>>>],
              [name |-> <<"myfs">>, data |-> <<<<"data">>>>]>>
MCOsdPools == {[name |-> <<"rbd">>, ec |-> FALSE], [name |-> <<"meta">>, ec |-> FALSE],
               [name |-> <<"ecdata">>, ec |-> TRUE]}
MCEcFlags == {<<"meta">>}

Plain == [release |-> "master", upgrade |-> FALSE, dryRun |-> FALSE,
          restricted |-> FALSE, cluster |-> Unset, legacy |-> Unset,
          pool |-> <<"rbd">>, alias |-> Unset, ns |-> Unset,
          fs |-> Unset, dataPool |-> Unset, group |-> Unset,
          prefix |-> Unset, runAs |-> Unset]
Ec == [Plain EXCEPT !.pool = <<"ecdata">>]
Tenant == [Plain EXCEPT !.restricted = TRUE, !.cluster = <<"East">>,
                       !.fs = <<"myfs">>]
TenantNs == [Tenant EXCEPT !.ns = <<"a">>, !.fs = Unset]

\* Upgrades of the default users, and of the node user of the namespace "a".
Upgrade == [Plain EXCEPT !.upgrade = TRUE]
UpgradeNs == [TenantNs EXCEPT !.upgrade = TRUE, !.cluster = <<"east">>,
                  !.runAs = <<"csi-rbd-node", "east", "rbd", "a">>]

MCInvocations == {Plain, Ec, Tenant, TenantNs, Upgrade, UpgradeNs}

\* The RBD users of an older release, which lack what this one wants.
Old(key) ==
    [key |-> key, caps |-> CapsOn(Allow({"profile rbd"}), {}, Allow({"profile rbd"}), {})]
MCLegacyAuth ==
    {<< >>, <<"csi-rbd-node">> :> Old(0) @@ <<"csi-rbd-provisioner">> :> Old(1)}

\* The operators chose their names well.
ASSUME NamesChosenWell == SimpleNames /\ NamesTellApart

Symmetry == Permutations(Run) \cup Permutations(ImportRun)
                \cup Permutations(ConsumerNamespaces)
=============================================================================
