--------------------------- MODULE ExternalCluster ---------------------------
(***************************************************************************)
(* From one end to the other: exports on the provider (CephExport), the    *)
(* two things an export prints, and importers (ImportCluster) that are     *)
(* given the shell output in a consumer cluster.  Exports and imports go   *)
(* on at the same time; one output may be imported twice, also into two    *)
(* namespaces, and long after later exports and upgrades.                  *)
(***************************************************************************)
EXTENDS CephExport

CONSTANTS
    ImportRun,          \* the runs of the importer
    ConsumerNamespaces, \* the namespaces they import into
    MaxImportFaults,
    OsdPools,           \* the pools in "osd dump": name, erasure coded or not
    EcFlags             \* values of --rbd-metadata-ec-pool-name

ASSUME OsdAssumption ==
    /\ OsdPools \subseteq [name : Name, ec : BOOLEAN]
    /\ EcFlags \subseteq Name
    /\ MaxImportFaults \in Nat

VARIABLES
    ecFlag,     \* the EC flag of each export that has printed
    objects, env, ipc, at, ifaults   \* the consumer cluster and its importers

consumer == <<objects, env, ipc, at, ifaults>>
allVars == <<vars, ecFlag, consumer>>

Import == INSTANCE ImportCluster
            WITH Run <- ImportRun, Envs <- {}, MaxFaults <- MaxImportFaults,
                 cluster <- objects, pc <- ipc, faults <- ifaults

\* validate_rbd_metadata_ec_pool_name: the flagged pool must be replicated and
\* the data pool erasure coded.
EcPoolOK(pool, meta) ==
    meta # Unset =>
        [name |-> meta, ec |-> FALSE] \in OsdPools /\ [name |-> pool, ec |-> TRUE] \in OsdPools

\* What out_map holds under the name and the secret of a user.
NoCred == [name |-> Unset, key |-> Unset]
Cred(m, base) ==
    IF \E c \in m.creds : c.base = base
    THEN LET c == CHOOSE x \in m.creds : x.base = base
         IN  [name |-> c.user, key |-> <<c.key>>]
    ELSE NoCred

-----------------------------------------------------------------------------
(***************************************************************************)
(* gen_shell_out: the variables of out_map that are not empty.             *)
(***************************************************************************)
\* Faulty: the two RBD users are swapped for the CephFS ones.
ShellOutCrossed(m, ec, namespace) ==
    [namespace |-> namespace, layering |-> TRUE, fsid |-> <<"fsid">>,
     mons |-> <<"mons">>, admin |-> Unset, user |-> Cred(m, "healthchecker"),
     radosNs |-> m.args.ns, group |-> m.args.group,
     rbdNode |-> Cred(m, "csi-rbd-node"),
     rbdProvisioner |-> Cred(m, "csi-rbd-provisioner"),
     fsNode |-> Cred(m, "csi-cephfs-provisioner"),
     fsProvisioner |-> Cred(m, "csi-rbd-node"),
     rgw |-> NoCred, pool |-> m.args.pool, ecPool |-> ec,
     fs |-> m.args.fs, fsPool |-> m.args.dataPool]

ShellOut(m, ec, namespace) ==
    [namespace |-> namespace, layering |-> TRUE, fsid |-> <<"fsid">>,
     mons |-> <<"mons">>, admin |-> Unset, user |-> Cred(m, "healthchecker"),
     radosNs |-> m.args.ns, group |-> m.args.group,
     rbdNode |-> Cred(m, "csi-rbd-node"),
     rbdProvisioner |-> Cred(m, "csi-rbd-provisioner"),
     fsNode |-> Cred(m, "csi-cephfs-node"),
     fsProvisioner |-> Cred(m, "csi-cephfs-provisioner"),
     rgw |-> NoCred, pool |-> m.args.pool, ecPool |-> ec,
     fs |-> m.args.fs, fsPool |-> m.args.dataPool]

(***************************************************************************)
(* gen_json_out: secrets, and classes that name them.  A class is bound to *)
(* a pool and a RADOS namespace, or to a file system.                      *)
(***************************************************************************)
JsonSecrets(m) ==
    {Cred(m, b) : b \in CsiBases} \ {NoCred}

\* The provider cluster and the credentials of the operator.
JsonCluster(m) ==
    [mons |-> <<"mons">>, fsid |-> <<"fsid">>, operator |-> Cred(m, "healthchecker")]

RbdClass(m, pool, ns) ==
    [kind |-> "profile rbd", pool |-> pool, ns |-> ns,
     provisioner |-> Cred(m, "csi-rbd-provisioner"), node |-> Cred(m, "csi-rbd-node")]

\* The Ceph 17 script knows no class in a RADOS namespace.
JsonRbdClass17(m, ec) ==
    RbdClass(m, IF ec = Unset THEN m.args.pool ELSE ec, Unset)

JsonRbdClass(m, ec) ==
    IF m.args.ns # Unset /\ m.args.restricted /\ ec = Unset
    THEN RbdClass(m, m.args.pool, m.args.ns)
    ELSE RbdClass(m, IF ec = Unset THEN m.args.pool ELSE ec, Unset)

JsonCephfsClass(m) ==
    IF m.args.fs = Unset THEN {}
    ELSE {[kind |-> "cephfs", pool |-> m.args.fs, ns |-> Unset,
           provisioner |-> Cred(m, "csi-cephfs-provisioner"),
           node |-> Cred(m, "csi-cephfs-node")]}

JsonClasses(m, ec) ==
    {IF m.args.release = "ceph-17" THEN JsonRbdClass17(m, ec) ELSE JsonRbdClass(m, ec)}
        \cup JsonCephfsClass(m)

\* A file system without a data pool has no users: the class that names them is
\* a KeyError, and nothing is printed.
JsonPrinted(m) == ~m.args.dryRun /\ (m.args.fs # Unset => HasCephfs(m.args))

-----------------------------------------------------------------------------
NoEnv == << >>

AllInit ==
    /\ Init
    /\ ecFlag = [r \in Run |-> Unset]
    /\ objects = << >> /\ ifaults = 0
    /\ env = [i \in ImportRun |-> NoEnv]
    /\ ipc = [i \in ImportRun |-> "idle"]
    /\ at = [i \in ImportRun |-> 1]

\* A step of an export.  Its EC flag matters only when it is about to print, and
\* is chosen then.
Export ==
    /\ Next
    /\ \E flag \in EcFlags \cup {Unset} :
         LET printing == {r \in Run : pc[r] = "print" /\ pc'[r] = "done"} IN
         /\ printing = {} => flag = Unset
         /\ \A r \in printing : EcPoolOK(mem[r].args.pool, flag)
         /\ ecFlag' = [r \in Run |-> IF r \in printing THEN flag ELSE ecFlag[r]]
    /\ UNCHANGED consumer

\* An operator runs the importer with what an export printed.
Begin(i) ==
    /\ ipc[i] = "idle"
    /\ \E r \in Run, n \in ConsumerNamespaces :
         /\ Printed(r) /\ ~mem[r].args.dryRun
         /\ env' = [env EXCEPT ![i] = ShellOut(mem[r], ecFlag[r], n)]
    /\ ipc' = [ipc EXCEPT ![i] = "check"]
    /\ UNCHANGED <<vars, ecFlag, objects, at, ifaults>>

ImportStep(i) ==
    /\ ipc[i] # "idle"
    /\ (Import!Step(i) \/ Import!Abort(i))
    /\ UNCHANGED <<vars, ecFlag>>

AllNext == Export \/ \E i \in ImportRun : Begin(i) \/ ImportStep(i)

AllSpec == AllInit /\ [][AllNext]_allVars

-----------------------------------------------------------------------------
(***************************************************************************)
(* The promise: users, CSI secrets and storage classes.                    *)
(***************************************************************************)
IsCsiSecret(o) == o.kind = "Secret" /\ o.name[1] = "rook"
CsiSecretsIn == {o \in DOMAIN objects : IsCsiSecret(o)}
ClassesIn == {o \in DOMAIN objects : o.kind = "StorageClass"}

Promise == INSTANCE ConsumerPromise
    WITH keys <- [u \in DOMAIN auth |-> auth[u].key],
         secrets <- [o \in CsiSecretsIn |->
                        [user |-> objects[o].name, key |-> objects[o].key[1]]],
         classes <- [o \in ClassesIn |-> objects[o].secrets]

\* Every step of the exports and the importers is one the promise allows.
KeepsPromise == Promise!Spec

\* The user's capabilities reach a pool (and RADOS namespace) or a file system.
Covers(user, kinds, pool, ns) ==
    \E p \in auth[user].caps["osd"] :
        p.kind \in kinds /\ p.on \in {Unset, pool} /\ p.ns \in {Unset, ns}

RbdKinds == {"profile rbd"}
CephfsKinds == {"cephfs metadata=", "cephfs *="}

\* Users that an older release left wait for an upgrade; users restricted to an
\* erasure-coded pool have no capability for its metadata pool (see the README).
Reaches(user, kinds, pool, ns, ecPool) ==
    \/ user \in LegacyUsers
    \/ ecPool # Unset /\ ~IsDefaultName(user)
    \/ Covers(user, kinds, pool, ns)

\* A consumer that uses a storage class of the importer reaches its pool or its
\* file system: both users the class names exist, the keys in their secrets are
\* theirs, and their capabilities cover what the class is for.
ClassServed ==
    \A o \in ClassesIn : \A s \in objects[o].secrets :
        LET class == objects[o]
            user == objects[s].name
        IN  /\ s \in DOMAIN objects
            /\ user \in DOMAIN auth
            /\ <<auth[user].key>> = objects[s].key
            /\ o.name = <<"ceph-rbd">> =>
                    Reaches(user, RbdKinds, class.pool, Unset, class.dataPool)
            /\ o.name = <<"cephfs">> =>
                    Reaches(user, CephfsKinds, class.dataPool, Unset, Unset)

\* The same of the JSON output, within itself: the secrets a class names are in
\* the output, and their users' capabilities cover the pool and the RADOS
\* namespace that the class is bound to.  All credentials in it, those of the
\* operator included, stay the ones of users of the provider.
JsonServed ==
    \A r \in Run : Printed(r) /\ JsonPrinted(mem[r]) =>
        /\ \A class \in JsonClasses(mem[r], ecFlag[r]) :
            \A c \in {class.provisioner, class.node} :
                /\ c \in JsonSecrets(mem[r])
                /\ Reaches(c.name, RbdKinds \cup CephfsKinds,
                           class.pool, class.ns, ecFlag[r])
        /\ \A c \in JsonSecrets(mem[r]) \cup {JsonCluster(mem[r]).operator} :
                c.name \in DOMAIN auth /\ <<auth[c.name].key>> = c.key

=============================================================================
