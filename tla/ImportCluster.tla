--------------------------- MODULE ImportCluster ---------------------------
(***************************************************************************)
(* Runs of import-external-cluster.sh against one consumer cluster.  The   *)
(* script turns the environment that an export has printed into Kubernetes *)
(* objects.  Every object is looked up and, if the lookup fails, created;  *)
(* "set -e" ends a run at the first command that fails.  Runs for several  *)
(* namespaces, runs started twice and runs repeated after a failure        *)
(* interleave between any two kubectl commands.                            *)
(***************************************************************************)
EXTENDS Naturals, Sequences

CONSTANTS
    Run,        \* the runs; a failed run is started again
    Envs,       \* the environments they are given
    Unset,      \* the value of a variable that is empty
    MaxFaults   \* how often a command fails without a reason or a run dies

ASSUME FaultAssumption == MaxFaults \in Nat

VARIABLES
    cluster,    \* the objects that exist, each with its data
    env,        \* the environment of each run
    pc,         \* its next command
    at,         \* which step of its plan it is at
    faults      \* how often the API server has failed

vars == <<cluster, env, pc, at, faults>>

\* An object: its namespace (Unset for one of the whole cluster), its kind and
\* the parts of its name: a fixed one, perhaps empty, and one that is given.
Object(ns, kind, name) == [ns |-> ns, kind |-> kind, name |-> name]

CreateStep(object, data) == <<[step |-> "create", object |-> object, data |-> data]>>
WaitStep(object) == <<[step |-> "wait", object |-> object, data |-> << >>]>>
Optional(given, steps) == IF given THEN steps ELSE << >>

\* A credential is imported when its name and its key are both set.
Given(c) == c.name # Unset /\ c.key # Unset

\* checkEnvVars.  An admin secret replaces the user's; both are not supported.
EnvComplete(e) ==
    /\ e.layering /\ e.fsid # Unset /\ e.mons # Unset
    /\ IF e.admin = Unset THEN Given(e.user) ELSE e.user.key = Unset

\* An export prints the two users of a storage class that its variables ask for.
ClassUsersGiven(e) ==
    /\ e.pool # Unset => Given(e.rbdNode) /\ Given(e.rbdProvisioner)
    /\ e.fs # Unset /\ e.fsPool # Unset => Given(e.fsNode) /\ Given(e.fsProvisioner)

ASSUME EnvAssumption == \A e \in Envs : ClassUsersGiven(e)

-----------------------------------------------------------------------------
(***************************************************************************)
(* What a run creates, in the order of the main program.                   *)
(***************************************************************************)
CreateNamespace(e) == CreateStep(Object(Unset, "Namespace", <<"", e.namespace>>), << >>)

\* importClusterID: the two custom resources and the waits for them.
ImportClusterID(e) ==
    LET radosNs == Object(e.namespace, "RadosNamespace", <<"", e.radosNs>>)
        group == Object(e.namespace, "SubVolumeGroup", <<"", e.group>>)
    IN  Optional(e.radosNs # Unset,
            CreateStep(radosNs, [pool |-> e.pool]) \o WaitStep(radosNs)) \o
        Optional(e.group # Unset,
            CreateStep(group, [fs |-> e.fs]) \o WaitStep(group))

ImportSecret(e) ==
    CreateStep(Object(e.namespace, "Secret", <<"rook-ceph-mon">>),
               [cluster |-> e.namespace, fsid |-> e.fsid, admin |-> e.admin,
                user |-> e.user])

ImportConfigMap(e) ==
    CreateStep(Object(e.namespace, "ConfigMap", <<"rook-ceph-mon-endpoints">>),
               [mons |-> e.mons])

\* The secret of a CSI user; storage classes refer to it by its name.
CsiSecret(e, c) == Object(e.namespace, "Secret", <<"rook", c.name>>)
ImportCsiSecret(e, c) == Optional(Given(c), CreateStep(CsiSecret(e, c), c))

ImportRGWAdminOpsUser(e) ==
    Optional(Given(e.rgw),
        CreateStep(Object(e.namespace, "Secret", <<"rgw-admin-ops-user">>), e.rgw))

\* The cluster ID stays the namespace: no run gets past a wait.
RBDStorageClass(e) ==
    CreateStep(Object(Unset, "StorageClass", <<"ceph-rbd">>),
               [clusterID |-> e.namespace,
                pool |-> IF e.ecPool = Unset THEN e.pool ELSE e.ecPool,
                dataPool |-> IF e.ecPool = Unset THEN Unset ELSE e.pool,
                secrets |-> {CsiSecret(e, e.rbdNode), CsiSecret(e, e.rbdProvisioner)}])

CephFSStorageClass(e) ==
    CreateStep(Object(Unset, "StorageClass", <<"cephfs">>),
               [clusterID |-> e.namespace, pool |-> e.fsPool, dataPool |-> e.fs,
                secrets |-> {CsiSecret(e, e.fsNode), CsiSecret(e, e.fsProvisioner)}])

StorageClasses(e) ==
    Optional(e.pool # Unset, RBDStorageClass(e)) \o
    Optional(e.fs # Unset /\ e.fsPool # Unset, CephFSStorageClass(e))

CsiSecrets(e) ==
    ImportCsiSecret(e, e.rbdNode) \o ImportCsiSecret(e, e.rbdProvisioner) \o
    ImportRGWAdminOpsUser(e) \o
    ImportCsiSecret(e, e.fsNode) \o ImportCsiSecret(e, e.fsProvisioner)

\* Faulty: the storage classes come before the secrets they name.
PlanClassesFirst(e) ==
    CreateNamespace(e) \o ImportClusterID(e) \o ImportSecret(e) \o
    ImportConfigMap(e) \o StorageClasses(e) \o CsiSecrets(e)

\* Faulty: the monitors and the FSID come after the storage classes.
PlanMonitorsLast(e) ==
    CreateNamespace(e) \o ImportClusterID(e) \o CsiSecrets(e) \o
    StorageClasses(e) \o ImportSecret(e) \o ImportConfigMap(e)

Plan(e) ==
    CreateNamespace(e) \o ImportClusterID(e) \o ImportSecret(e) \o
    ImportConfigMap(e) \o CsiSecrets(e) \o StorageClasses(e)

-----------------------------------------------------------------------------
Init ==
    /\ cluster = << >>
    /\ env \in [Run -> Envs]
    /\ pc = [r \in Run |-> "check"]
    /\ at = [r \in Run |-> 1]
    /\ faults = 0

Goto(r, stage, i) ==
    /\ pc' = [pc EXCEPT ![r] = stage]
    /\ at' = [at EXCEPT ![r] = i]

\* "set -e": the run ends.
Exit(r) == Goto(r, "failed", 1)

\* On to step i of the plan, or out of the script.
Continue(r, i) ==
    IF i > Len(Plan(env[r])) THEN Goto(r, "done", 1)
    ELSE Goto(r, IF Plan(env[r])[i].step = "wait" THEN "wait" ELSE "get", i)

Current(r) == Plan(env[r])[at[r]]

CheckEnvVars(r) ==
    /\ pc[r] = "check"
    /\ IF EnvComplete(env[r]) THEN Continue(r, 1) ELSE Exit(r)
    /\ UNCHANGED <<cluster, env, faults>>

\* Faulty: no lookup before a creation.
GetNothing(r) ==
    /\ pc[r] = "get"
    /\ Goto(r, "create", at[r])
    /\ UNCHANGED <<cluster, env, faults>>

\* "kubectl get": an object that exists is left alone; a failing lookup counts
\* as its absence.
GetObject(r) ==
    /\ pc[r] = "get"
    /\ LET object == Current(r).object IN
       \/ /\ object \in DOMAIN cluster
          /\ Continue(r, at[r] + 1)
          /\ UNCHANGED faults
       \/ /\ object \in DOMAIN cluster => faults < MaxFaults
          /\ faults' = IF object \in DOMAIN cluster THEN faults + 1 ELSE faults
          /\ Goto(r, "create", at[r])
    /\ UNCHANGED <<cluster, env>>

With(object, data) ==
    [o \in DOMAIN cluster \cup {object} |-> IF o = object THEN data ELSE cluster[o]]

\* Faulty: "kubectl apply" replaces what exists.
ApplyObject(r) ==
    /\ pc[r] = "create"
    /\ cluster' = With(Current(r).object, Current(r).data)
    /\ Continue(r, at[r] + 1)
    /\ UNCHANGED <<env, faults>>

\* Faulty: a failing creation does not end the run.
CreateRegardless(r) ==
    /\ pc[r] = "create"
    /\ LET object == Current(r).object IN
       \/ /\ object \notin DOMAIN cluster
          /\ cluster' = With(object, Current(r).data)
          /\ UNCHANGED faults
       \/ /\ object \in DOMAIN cluster
          /\ UNCHANGED <<cluster, faults>>
       \/ /\ faults < MaxFaults
          /\ faults' = faults + 1
          /\ UNCHANGED cluster
    /\ Continue(r, at[r] + 1)
    /\ UNCHANGED env

\* "kubectl create" fails when the object exists.
CreateObject(r) ==
    /\ pc[r] = "create"
    /\ LET object == Current(r).object IN
       \/ /\ object \notin DOMAIN cluster
          /\ cluster' = With(object, Current(r).data)
          /\ Continue(r, at[r] + 1)
       \/ /\ object \in DOMAIN cluster
          /\ Exit(r)
          /\ UNCHANGED cluster
    /\ UNCHANGED <<env, faults>>

\* timeout 20 sh -c "until ...; do echo "waiting for ...": the inner quotes end
\* the outer string, so sh gets a script that ends after "echo waiting" and
\* refuses it whatever the status of the resource is.
WaitReady(r) ==
    /\ pc[r] = "wait"
    /\ Exit(r)
    /\ UNCHANGED <<cluster, env, faults>>

\* A command fails, or the run is killed.
Abort(r) ==
    /\ pc[r] \notin {"failed", "done"}
    /\ faults < MaxFaults
    /\ faults' = faults + 1
    /\ Exit(r)
    /\ UNCHANGED <<cluster, env>>

\* Somebody starts a failed run again.
Rerun(r) ==
    /\ pc[r] = "failed"
    /\ Goto(r, "check", 1)
    /\ UNCHANGED <<cluster, env, faults>>

Step(r) == \/ CheckEnvVars(r) \/ GetObject(r) \/ CreateObject(r)
           \/ WaitReady(r) \/ Rerun(r)

Next == \E r \in Run : Step(r) \/ Abort(r)

\* A run that was started goes on, and one that failed is started again.
Spec == Init /\ [][Next]_vars /\ \A r \in Run : WF_vars(Step(r))

-----------------------------------------------------------------------------
\* Every object that exists is one that some environment asks for, with the
\* data it asks for.
TypeOK ==
    /\ \A o \in DOMAIN cluster :
          \E e \in Envs : \E i \in DOMAIN Plan(e) :
             /\ Plan(e)[i].step = "create" /\ Plan(e)[i].object = o
             /\ Plan(e)[i].data = cluster[o]
    /\ env \in [Run -> Envs]
    /\ pc \in [Run -> {"check", "get", "create", "wait", "failed", "done"}]
    /\ at \in [Run -> Nat \ {0}]
    /\ \A r \in Run : at[r] <= Len(Plan(env[r]))
    /\ faults \in 0 .. MaxFaults

\* A storage class is never there without the two CSI secrets it names, however
\* runs crash and overlap: whoever uses the class can log in.
ClassesBacked ==
    \A o \in DOMAIN cluster : o.kind = "StorageClass" =>
        cluster[o].secrets \subseteq DOMAIN cluster

\* Nor is it there without the FSID and the monitors of the cluster it names,
\* which are in two objects of the namespace that is its cluster ID: whoever uses
\* the class can find the provider.
MonitorsKnown ==
    \A o \in DOMAIN cluster : o.kind = "StorageClass" =>
        LET ns == cluster[o].clusterID
        IN  {Object(ns, "Secret", <<"rook-ceph-mon">>),
             Object(ns, "ConfigMap", <<"rook-ceph-mon-endpoints">>)} \subseteq DOMAIN cluster

\* A run that ended well has all its objects, its own or an earlier run's.
CompleteWhenDone ==
    \A r \in Run : pc[r] = "done" =>
        \A i \in DOMAIN Plan(env[r]) : Plan(env[r])[i].object \in DOMAIN cluster

\* No run changes or removes an object that exists ("... already exists"): the
\* credentials in use survive an import of other ones.
NothingReplaced ==
    [][\A o \in DOMAIN cluster : o \in DOMAIN cluster' /\ cluster'[o] = cluster[o]]_vars

\* A run with a complete environment that needs no custom resource ends well if
\* it is repeated, although lookups fail and other runs create its objects.
PlainCompletes ==
    \A r \in Run :
        []((EnvComplete(env[r]) /\ env[r].radosNs = Unset /\ env[r].group = Unset)
            => <>(pc[r] = "done"))

\* "waiting for radosNamespace to get created": the run goes on some day.
WaitEnds == \A r \in Run : EnvComplete(env[r]) => <>(pc[r] = "done")

=============================================================================
