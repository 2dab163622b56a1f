-------------------------- MODULE MCImportCluster --------------------------
(***************************************************************************)
(* Two runs of the importer with what exports for tenants of one provider  *)
(* have printed.                                                           *)
(***************************************************************************)
EXTENDS ImportCluster

Cred(name, key) == [name |-> name, key |-> key]
NoCred == Cred(Unset, Unset)

\* RBD only, the default users.
Plain == [namespace |-> "external", layering |-> TRUE, fsid |-> "fsid",
          mons |-> "a=10.0.0.1:6789", admin |-> Unset,
          user |-> Cred("client.healthchecker", "k0"),
          radosNs |-> Unset, group |-> Unset,
          rbdNode |-> Cred("csi-rbd-node", "k1"),
          rbdProvisioner |-> Cred("csi-rbd-provisioner", "k2"),
          fsNode |-> NoCred, fsProvisioner |-> NoCred, rgw |-> NoCred,
          pool |-> "rbd", ecPool |-> Unset, fs |-> Unset, fsPool |-> Unset]

\* Another consumer namespace with CephFS, object storage and an EC pool.
Full == [Plain EXCEPT !.namespace = "second", !.ecPool = "meta",
             !.fs = "myfs", !.fsPool = "data", !.rgw = Cred("access", "secret"),
             !.fsNode = Cred("csi-cephfs-node", "k3"),
             !.fsProvisioner = Cred("csi-cephfs-provisioner", "k4")]

\* The same namespace after the keys were made anew.
Rekeyed == [Plain EXCEPT !.user.key = "k5", !.rbdNode.key = "k6"]

\* A RADOS namespace, a subvolume group; both an admin and a user secret.
WithRadosNs == [Plain EXCEPT !.radosNs = "a"]
WithGroup == [Full EXCEPT !.group = "g"]
TwoSecrets == [Plain EXCEPT !.admin = "admin-key"]

MCEnvs == {Plain, Full, Rekeyed, WithRadosNs, WithGroup, TwoSecrets}
WaitEnvs == {Plain, WithRadosNs}
=============================================================================
