---------------------------- MODULE MCCephExport ----------------------------
(***************************************************************************)
(* Small instances of CephExport: a provider with one RBD pool, two RADOS  *)
(* namespaces in it and two CephFS file systems.                           *)
(***************************************************************************)
EXTENDS CephExport, TLC

MCWord == {"East", "east", "rbd", "a", "b", "store", "default", "myfs", "hdd",
           "data", "cold", "csi"}
MCLower == [w \in MCWord |-> IF w = "East" THEN "east" ELSE w]
MCDefaultPrefix == <<"default">>
MCPools == {<<"rbd">>}
MCNamespaces == {<<<<"rbd">>, <<"a">>>>, <<<<"rbd">>, <<"b">>>>}
MCFsList == <<[name |-> <<"hdd">>, data |-> <<<<"cold">>>>],
              [name |-> <<"myfs">>, data |-> <<<<"data">>>>]>>

\* An export to the default users, without CephFS: two file systems, no flag.
Plain == [release |-> "master", upgrade |-> FALSE, dryRun |-> FALSE,
          restricted |-> FALSE, cluster |-> Unset, legacy |-> Unset,
          pool |-> <<"rbd">>, alias |-> Unset, ns |-> Unset,
          fs |-> Unset, dataPool |-> Unset, group |-> Unset,
          prefix |-> Unset, runAs |-> Unset]

\* Exports for one consumer each: cluster "east", one RADOS namespace, a checker
\* of its own; the second one finds its file system by the data pool.
TenantA == [Plain EXCEPT !.restricted = TRUE, !.cluster = <<"East">>,
                !.ns = <<"a">>, !.fs = <<"myfs">>, !.group = <<"a">>,
                !.runAs = <<"healthchecker", "a">>]
TenantB == [Plain EXCEPT !.restricted = TRUE, !.cluster = <<"East">>,
                !.ns = <<"b">>, !.dataPool = <<"data">>,
                !.runAs = <<"healthchecker", "b">>]

\* Tenant a exported by the Ceph 17 script, which ignores the namespace.
Tenant17 == [TenantA EXCEPT !.release = "ceph-17", !.runAs = Unset,
                            !.fs = Unset, !.group = Unset]

\* Rejected command lines: a data pool of another file system; no cluster name;
\* no such pool; no pool at all.
WrongPool == [TenantA EXCEPT !.dataPool = <<"cold">>]
NoCluster == [TenantA EXCEPT !.cluster = Unset]
NoSuchPool == [Plain EXCEPT !.pool = <<"store">>]
PoolUnset == [Plain EXCEPT !.pool = Unset]

\* A dry run that names its file system.
Dry == [Plain EXCEPT !.dryRun = TRUE, !.fs = <<"myfs">>, !.dataPool = <<"data">>]

\* Upgrades of the default users, of one tenant's user too (the second one
\* forgets --cephfs-filesystem-name), and by two
\* operators who each know another RGW pool prefix.
Upgrade == [Plain EXCEPT !.upgrade = TRUE, !.pool = Unset]
UpgradeTenant == [Upgrade EXCEPT !.cluster = <<"east">>, !.pool = <<"rbd">>,
                      !.ns = <<"a">>,
                      !.runAs = <<"csi-rbd-node", "east", "rbd", "a">>]
UpgradeCephfs == [Upgrade EXCEPT !.cluster = <<"east">>, !.pool = <<"rbd">>,
                      !.runAs = <<"csi-cephfs-node", "east", "myfs">>]
UpgradePrefix(p) == [Upgrade EXCEPT !.prefix = p]

MCInvocations == {Plain, TenantA, TenantB, Tenant17, WrongPool, NoCluster,
                  NoSuchPool, PoolUnset, Dry, Upgrade, UpgradeTenant}
DryInvocations == {Dry, TenantA}
CephfsInvocations == {TenantA, UpgradeCephfs}
UpgradeInvocations == {UpgradePrefix(<<"store">>), UpgradePrefix(<<"default">>)}

\* Providers an older release has served: none; one whose checker (on the RGW
\* pools of two object stores) and CephFS node user lack what this release
\* wants; one whose checker has no RGW capabilities at all.
Old(key, osd) ==
    [key |-> key, caps |-> CapsOn(Allow({"allow r"}), {}, osd, {})]

MCLegacyAuth ==
    {<<>>,
     (DefaultChecker :> Old(0, AllowOn("rgw.meta", <<"store">>, Unset) \cup
                               AllowOn("rgw.meta", <<"cold">>, Unset))) @@
     (<<"csi-cephfs-node">> :> Old(1, Allow({"cephfs *="}))),
     DefaultChecker :> Old(0, Allow({"profile rbd-read-only"}))}

Symmetry == Permutations(Run)
=============================================================================
