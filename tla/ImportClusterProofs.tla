------------------------ MODULE ImportClusterProofs ------------------------
(***************************************************************************)
(* Proofs about ImportCluster for any number of runs, environments and     *)
(* failures.  The invariant says how far a run has come: the objects of    *)
(* the steps before its next one exist.                                    *)
(***************************************************************************)
EXTENDS ImportCluster, TLAPS

StepKind == {"create", "wait"}

\* A sequence of steps that create or wait for objects of some kinds.
Steps(s, kinds) ==
    /\ \E S : s \in Seq(S)
    /\ \A i \in DOMAIN s : s[i].step \in StepKind /\ s[i].object.kind \in kinds

ClassKind == {"StorageClass"}
OtherKinds == {"Namespace", "RadosNamespace", "SubVolumeGroup", "Secret",
               "ConfigMap"}

-----------------------------------------------------------------------------
LEMMA CreateSteps ==
    ASSUME NEW ns, NEW kind, NEW name, NEW data, NEW kinds, kind \in kinds
    PROVE  Steps(CreateStep(Object(ns, kind, name), data), kinds)
<1> DEFINE x == [step |-> "create", object |-> Object(ns, kind, name), data |-> data]
<1>1. <<x>> \in Seq({x}) /\ DOMAIN <<x>> = {1} /\ <<x>>[1] = x
  OBVIOUS
<1>2. x.step = "create" /\ x.object.kind = kind
  BY DEF Object
<1>3. CreateStep(Object(ns, kind, name), data) = <<x>>
  BY DEF CreateStep
<1> HIDE DEF x
<1> QED
  BY <1>1, <1>2, <1>3 DEF Steps, StepKind

LEMMA WaitSteps ==
    ASSUME NEW ns, NEW kind, NEW name, NEW kinds, kind \in kinds
    PROVE  Steps(WaitStep(Object(ns, kind, name)), kinds)
<1> DEFINE x == [step |-> "wait", object |-> Object(ns, kind, name), data |-> << >>]
<1>1. <<x>> \in Seq({x}) /\ DOMAIN <<x>> = {1} /\ <<x>>[1] = x
  OBVIOUS
<1>2. x.step = "wait" /\ x.object.kind = kind
  BY DEF Object
<1>3. WaitStep(Object(ns, kind, name)) = <<x>>
  BY DEF WaitStep
<1> HIDE DEF x
<1> QED
  BY <1>1, <1>2, <1>3 DEF Steps, StepKind

LEMMA OptionalSteps ==
    ASSUME NEW given, NEW s, NEW kinds, Steps(s, kinds)
    PROVE  Steps(Optional(given, s), kinds)
<1>1. << >> \in Seq({}) /\ DOMAIN << >> = {}
  OBVIOUS
<1>2. Steps(<< >>, kinds)
  BY <1>1 DEF Steps
<1> QED
  BY <1>2 DEF Optional

\* The elements of a concatenation.
LEMMA ConcatElements ==
    ASSUME NEW s, NEW t, NEW S, NEW T, s \in Seq(S), t \in Seq(T)
    PROVE  /\ s \o t \in Seq(S \cup T)
           /\ Len(s \o t) = Len(s) + Len(t)
           /\ DOMAIN (s \o t) = 1 .. (Len(s) + Len(t))
           /\ \A i \in DOMAIN s : i \in DOMAIN (s \o t) /\ (s \o t)[i] = s[i]
           /\ \A i \in DOMAIN t : /\ Len(s) + i \in DOMAIN (s \o t)
                                  /\ (s \o t)[Len(s) + i] = t[i]
           /\ \A i \in DOMAIN (s \o t) :
                 i \in DOMAIN s \/ \E j \in DOMAIN t : i = Len(s) + j
<1>1. s \in Seq(S \cup T) /\ t \in Seq(S \cup T)
  OBVIOUS
<1>2. DOMAIN s = 1 .. Len(s) /\ DOMAIN t = 1 .. Len(t) /\ Len(s) \in Nat /\ Len(t) \in Nat
  OBVIOUS
<1>3. DOMAIN (s \o t) = 1 .. (Len(s) + Len(t))
  BY <1>1
<1>4. \A i \in DOMAIN (s \o t) :
         i \in DOMAIN s \/ \E j \in DOMAIN t : i = Len(s) + j
  <2> TAKE i \in DOMAIN (s \o t)
  <2>1. CASE i <= Len(s)
    BY <2>1, <1>2, <1>3
  <2>2. CASE i > Len(s)
    <3>1. i - Len(s) \in DOMAIN t /\ i = Len(s) + (i - Len(s))
      BY <2>2, <1>2, <1>3
    <3> QED
      BY <3>1
  <2> QED
    BY <2>1, <2>2, <1>2, <1>3
<1> QED
  BY <1>1, <1>2, <1>3, <1>4

LEMMA ConcatSteps ==
    ASSUME NEW s, NEW t, NEW kinds, Steps(s, kinds), Steps(t, kinds)
    PROVE  Steps(s \o t, kinds)
<1>1. PICK S : s \in Seq(S)
  BY DEF Steps
<1>2. PICK T : t \in Seq(T)
  BY DEF Steps
<1>3. /\ s \o t \in Seq(S \cup T)
      /\ Len(s \o t) = Len(s) + Len(t)
      /\ DOMAIN (s \o t) = 1 .. (Len(s) + Len(t))
      /\ \A i \in DOMAIN s : i \in DOMAIN (s \o t) /\ (s \o t)[i] = s[i]
      /\ \A i \in DOMAIN t : /\ Len(s) + i \in DOMAIN (s \o t)
                             /\ (s \o t)[Len(s) + i] = t[i]
      /\ \A i \in DOMAIN (s \o t) :
            i \in DOMAIN s \/ \E j \in DOMAIN t : i = Len(s) + j
  BY <1>1, <1>2, ConcatElements, Zenon
<1>4. \A i \in DOMAIN (s \o t) :
         (s \o t)[i].step \in StepKind /\ (s \o t)[i].object.kind \in kinds
  <2> TAKE i \in DOMAIN (s \o t)
  <2>1. CASE i \in DOMAIN s
    BY <2>1, <1>3 DEF Steps
  <2>2. CASE i \notin DOMAIN s
    <3>1. PICK j \in DOMAIN t : i = Len(s) + j
      BY <2>2, <1>3
    <3>2. (s \o t)[i] = t[j]
      BY <3>1, <1>3
    <3> QED
      BY <3>2 DEF Steps
  <2> QED
    BY <2>1, <2>2
<1> QED
  BY <1>3, <1>4 DEF Steps


-----------------------------------------------------------------------------
(***************************************************************************)
(* A plan is everything else, then the storage classes.                    *)
(***************************************************************************)
Before(e) ==
    CreateNamespace(e) \o ImportClusterID(e) \o ImportSecret(e) \o
    ImportConfigMap(e) \o CsiSecrets(e)

LEMMA KindsOf ==
    /\ "Namespace" \in OtherKinds /\ "RadosNamespace" \in OtherKinds
    /\ "SubVolumeGroup" \in OtherKinds /\ "Secret" \in OtherKinds
    /\ "ConfigMap" \in OtherKinds /\ "StorageClass" \in ClassKind
    /\ "StorageClass" \notin OtherKinds
  BY DEF OtherKinds, ClassKind

LEMMA ClusterIDSteps ==
    ASSUME NEW e, NEW kinds, "RadosNamespace" \in kinds, "SubVolumeGroup" \in kinds
    PROVE  Steps(ImportClusterID(e), kinds)
<1> DEFINE radosNs == Object(e.namespace, "RadosNamespace", <<"", e.radosNs>>)
           group == Object(e.namespace, "SubVolumeGroup", <<"", e.group>>)
           first == CreateStep(radosNs, [pool |-> e.pool]) \o WaitStep(radosNs)
           second == CreateStep(group, [fs |-> e.fs]) \o WaitStep(group)
<1>1. Steps(CreateStep(radosNs, [pool |-> e.pool]), kinds)
  BY CreateSteps
<1>2. Steps(WaitStep(radosNs), kinds)
  BY WaitSteps
<1>3. Steps(CreateStep(group, [fs |-> e.fs]), kinds)
  BY CreateSteps
<1>4. Steps(WaitStep(group), kinds)
  BY WaitSteps
<1> HIDE DEF radosNs, group
<1>5. Steps(first, kinds) /\ Steps(second, kinds)
  BY <1>1, <1>2, <1>3, <1>4, ConcatSteps
<1>6. ImportClusterID(e) = Optional(e.radosNs # Unset, first) \o
                           Optional(e.group # Unset, second)
  BY DEF ImportClusterID, radosNs, group
<1> HIDE DEF first, second
<1>7. /\ Steps(Optional(e.radosNs # Unset, first), kinds)
      /\ Steps(Optional(e.group # Unset, second), kinds)
  BY <1>5, OptionalSteps
<1> QED
  BY <1>6, <1>7, ConcatSteps

LEMMA CsiSecretStep ==
    ASSUME NEW e, NEW c PROVE Steps(ImportCsiSecret(e, c), OtherKinds)
<1>1. Steps(CreateStep(CsiSecret(e, c), c), OtherKinds)
  BY KindsOf, CreateSteps DEF CsiSecret
<1> QED
  BY <1>1, OptionalSteps DEF ImportCsiSecret

LEMMA RgwSteps == ASSUME NEW e PROVE Steps(ImportRGWAdminOpsUser(e), OtherKinds)
<1>1. Steps(CreateStep(Object(e.namespace, "Secret", <<"rgw-admin-ops-user">>), e.rgw),
            OtherKinds)
  BY KindsOf, CreateSteps
<1> QED
  BY <1>1, OptionalSteps DEF ImportRGWAdminOpsUser

LEMMA SecretsSteps == ASSUME NEW e PROVE Steps(CsiSecrets(e), OtherKinds)
  BY CsiSecretStep, RgwSteps, ConcatSteps DEF CsiSecrets

LEMMA BeforeSteps == ASSUME NEW e PROVE Steps(Before(e), OtherKinds)
<1>1. Steps(CreateNamespace(e), OtherKinds)
  BY KindsOf, CreateSteps DEF CreateNamespace
<1>2. Steps(ImportSecret(e), OtherKinds)
  BY KindsOf, CreateSteps DEF ImportSecret
<1>3. Steps(ImportConfigMap(e), OtherKinds)
  BY KindsOf, CreateSteps DEF ImportConfigMap
<1>4. Steps(CreateNamespace(e) \o ImportClusterID(e), OtherKinds)
  BY <1>1, KindsOf, ClusterIDSteps, ConcatSteps
<1>5. Steps(CreateNamespace(e) \o ImportClusterID(e) \o ImportSecret(e), OtherKinds)
  BY <1>2, <1>4, ConcatSteps
<1>6. Steps(CreateNamespace(e) \o ImportClusterID(e) \o ImportSecret(e) \o
            ImportConfigMap(e), OtherKinds)
  BY <1>3, <1>5, ConcatSteps
<1> QED
  BY <1>6, SecretsSteps, ConcatSteps DEF Before

LEMMA ClassesSteps == ASSUME NEW e PROVE Steps(StorageClasses(e), ClassKind)
<1>1. Steps(RBDStorageClass(e), ClassKind)
  BY KindsOf, CreateSteps DEF RBDStorageClass
<1>2. Steps(CephFSStorageClass(e), ClassKind)
  BY KindsOf, CreateSteps DEF CephFSStorageClass
<1>3. /\ Steps(Optional(e.pool # Unset, RBDStorageClass(e)), ClassKind)
      /\ Steps(Optional(e.fs # Unset /\ e.fsPool # Unset, CephFSStorageClass(e)),
               ClassKind)
  BY <1>1, <1>2, OptionalSteps
<1> QED
  BY <1>3, ConcatSteps DEF StorageClasses

LEMMA PlanParts == ASSUME NEW e PROVE Plan(e) = Before(e) \o StorageClasses(e)
  BY DEF Plan, Before


-----------------------------------------------------------------------------
(***************************************************************************)
(* The secrets that a class names come before it.                          *)
(***************************************************************************)
IsSeq(s) == \E S : s \in Seq(S)
Member(s, x) == \E i \in DOMAIN s : s[i] = x

LEMMA MemberConcat ==
    ASSUME NEW s, NEW t, NEW x, IsSeq(s), IsSeq(t), Member(s, x) \/ Member(t, x)
    PROVE  Member(s \o t, x)
<1>1. PICK S : s \in Seq(S)
  BY DEF IsSeq
<1>2. PICK T : t \in Seq(T)
  BY DEF IsSeq
<1>3. /\ s \o t \in Seq(S \cup T)
      /\ Len(s \o t) = Len(s) + Len(t)
      /\ DOMAIN (s \o t) = 1 .. (Len(s) + Len(t))
      /\ \A i \in DOMAIN s : i \in DOMAIN (s \o t) /\ (s \o t)[i] = s[i]
      /\ \A i \in DOMAIN t : /\ Len(s) + i \in DOMAIN (s \o t)
                             /\ (s \o t)[Len(s) + i] = t[i]
      /\ \A i \in DOMAIN (s \o t) :
            i \in DOMAIN s \/ \E j \in DOMAIN t : i = Len(s) + j
  BY <1>1, <1>2, ConcatElements, Zenon
<1>4. CASE Member(s, x)
  BY <1>3, <1>4 DEF Member
<1>5. CASE Member(t, x)
  BY <1>3, <1>5 DEF Member
<1> QED
  BY <1>4, <1>5

LEMMA StepsSeq == ASSUME NEW s, NEW kinds, Steps(s, kinds) PROVE IsSeq(s)
  BY DEF Steps, IsSeq

SecretStep(e, c) == [step |-> "create", object |-> CsiSecret(e, c), data |-> c]

LEMMA SecretImported ==
    ASSUME NEW e, NEW c, Given(c)
    PROVE  Member(ImportCsiSecret(e, c), SecretStep(e, c))
<1>1. ImportCsiSecret(e, c) = <<SecretStep(e, c)>>
  BY DEF ImportCsiSecret, Optional, CreateStep, SecretStep
<1>2. \A x : DOMAIN <<x>> = {1} /\ <<x>>[1] = x
  OBVIOUS
<1> QED
  BY <1>1, <1>2 DEF Member

CsiUsers(e) == {e.rbdNode, e.rbdProvisioner, e.fsNode, e.fsProvisioner}

LEMMA SecretsImported ==
    ASSUME NEW e, NEW c \in CsiUsers(e), Given(c)
    PROVE  Member(Before(e), SecretStep(e, c))
<1> DEFINE a == ImportCsiSecret(e, e.rbdNode)
           b == ImportCsiSecret(e, e.rbdProvisioner)
           g == ImportRGWAdminOpsUser(e)
           n == ImportCsiSecret(e, e.fsNode)
           p == ImportCsiSecret(e, e.fsProvisioner)
           first == CreateNamespace(e) \o ImportClusterID(e) \o ImportSecret(e) \o
                    ImportConfigMap(e)
           x == SecretStep(e, c)
<1>1. /\ Steps(a, OtherKinds) /\ Steps(b, OtherKinds) /\ Steps(g, OtherKinds)
      /\ Steps(n, OtherKinds) /\ Steps(p, OtherKinds)
  BY CsiSecretStep, RgwSteps
<1>2. Steps(first, OtherKinds)
  <2>1. Steps(CreateNamespace(e), OtherKinds)
    BY KindsOf, CreateSteps DEF CreateNamespace
  <2>2. Steps(ImportSecret(e), OtherKinds)
    BY KindsOf, CreateSteps DEF ImportSecret
  <2>3. Steps(ImportConfigMap(e), OtherKinds)
    BY KindsOf, CreateSteps DEF ImportConfigMap
  <2> QED
    BY <2>1, <2>2, <2>3, KindsOf, ClusterIDSteps, ConcatSteps
<1>3. Member(a, x) \/ Member(b, x) \/ Member(n, x) \/ Member(p, x)
  BY SecretImported DEF CsiUsers
<1>4. CsiSecrets(e) = a \o b \o g \o n \o p
  BY DEF CsiSecrets
<1>5. Before(e) = first \o CsiSecrets(e)
  BY DEF Before
<1> HIDE DEF a, b, g, n, p, x, first
<1>6. /\ Steps(a \o b, OtherKinds) /\ Steps(a \o b \o g, OtherKinds)
      /\ Steps(a \o b \o g \o n, OtherKinds)
  BY <1>1, ConcatSteps
<1>7. /\ IsSeq(a) /\ IsSeq(b) /\ IsSeq(g) /\ IsSeq(n) /\ IsSeq(p) /\ IsSeq(first)
      /\ IsSeq(a \o b) /\ IsSeq(a \o b \o g) /\ IsSeq(a \o b \o g \o n)
      /\ IsSeq(CsiSecrets(e))
  BY <1>1, <1>2, <1>6, StepsSeq, SecretsSteps
<1>8. Member(a, x) \/ Member(b, x) => Member(a \o b, x)
  BY <1>7, MemberConcat
<1>9. Member(a \o b, x) => Member(a \o b \o g, x)
  BY <1>7, MemberConcat
<1>10. Member(a \o b \o g, x) \/ Member(n, x) => Member(a \o b \o g \o n, x)
  BY <1>7, MemberConcat
<1>11. Member(a \o b \o g \o n, x) \/ Member(p, x) => Member(CsiSecrets(e), x)
  BY <1>4, <1>7, MemberConcat
<1>12. Member(CsiSecrets(e), x)
  BY <1>3, <1>8, <1>9, <1>10, <1>11
<1>13. Member(Before(e), x)
  BY <1>5, <1>7, <1>12, MemberConcat
<1> QED
  BY <1>13 DEF x

\* What the two classes are, and which variables ask for them.
RbdClassOf(e) ==
    [clusterID |-> e.namespace,
     pool |-> IF e.ecPool = Unset THEN e.pool ELSE e.ecPool,
     dataPool |-> IF e.ecPool = Unset THEN Unset ELSE e.pool,
     secrets |-> {CsiSecret(e, e.rbdNode), CsiSecret(e, e.rbdProvisioner)}]

FsClassOf(e) ==
    [clusterID |-> e.namespace, pool |-> e.fsPool, dataPool |-> e.fs,
     secrets |-> {CsiSecret(e, e.fsNode), CsiSecret(e, e.fsProvisioner)}]

LEMMA ClassesOf ==
    ASSUME NEW e, NEW i \in DOMAIN StorageClasses(e)
    PROVE  /\ StorageClasses(e)[i].step = "create"
           /\ \/ /\ e.pool # Unset
                 /\ StorageClasses(e)[i].object = Object(Unset, "StorageClass", <<"ceph-rbd">>)
                 /\ StorageClasses(e)[i].data = RbdClassOf(e)
              \/ /\ e.fs # Unset /\ e.fsPool # Unset
                 /\ StorageClasses(e)[i].object = Object(Unset, "StorageClass", <<"cephfs">>)
                 /\ StorageClasses(e)[i].data = FsClassOf(e)
<1> DEFINE rbd == [step |-> "create", object |-> Object(Unset, "StorageClass", <<"ceph-rbd">>),
                   data |-> RbdClassOf(e)]
           cephfs == [step |-> "create", object |-> Object(Unset, "StorageClass", <<"cephfs">>),
                      data |-> FsClassOf(e)]
           hasRbd == e.pool # Unset
           hasFs == e.fs # Unset /\ e.fsPool # Unset
           s == Optional(hasRbd, <<rbd>>)
           t == Optional(hasFs, <<cephfs>>)
<1>1. StorageClasses(e) = s \o t
  BY DEF StorageClasses, RBDStorageClass, CephFSStorageClass, CreateStep, RbdClassOf,
         FsClassOf
<1>2. /\ rbd.step = "create" /\ rbd.data = RbdClassOf(e)
      /\ rbd.object = Object(Unset, "StorageClass", <<"ceph-rbd">>)
      /\ cephfs.step = "create" /\ cephfs.data = FsClassOf(e)
      /\ cephfs.object = Object(Unset, "StorageClass", <<"cephfs">>)
  OBVIOUS
<1> HIDE DEF rbd, cephfs
<1>3. \A x : <<x>> \in Seq({x}) /\ DOMAIN <<x>> = {1} /\ <<x>>[1] = x
  OBVIOUS
<1>4. \A x : << >> \in Seq({x}) /\ DOMAIN << >> = {}
  OBVIOUS
<1> HIDE DEF hasRbd, hasFs
<1>5. /\ s \in Seq({rbd}) /\ t \in Seq({cephfs})
      /\ \A j \in DOMAIN s : s[j] = rbd /\ hasRbd
      /\ \A j \in DOMAIN t : t[j] = cephfs /\ hasFs
  <2>1. s \in Seq({rbd}) /\ \A j \in DOMAIN s : s[j] = rbd /\ hasRbd
    <3>1. s = IF hasRbd THEN <<rbd>> ELSE << >>
      BY DEF Optional
    <3> HIDE DEF s
    <3> QED
      BY <1>3, <1>4, <3>1
  <2>2. t \in Seq({cephfs}) /\ \A j \in DOMAIN t : t[j] = cephfs /\ hasFs
    <3>1. t = IF hasFs THEN <<cephfs>> ELSE << >>
      BY DEF Optional
    <3> HIDE DEF t
    <3> QED
      BY <1>3, <1>4, <3>1
  <2> HIDE DEF s, t
  <2> QED
    BY <2>1, <2>2
<1> HIDE DEF s, t
<1>6. /\ s \o t \in Seq({rbd} \cup {cephfs})
      /\ Len(s \o t) = Len(s) + Len(t)
      /\ DOMAIN (s \o t) = 1 .. (Len(s) + Len(t))
      /\ \A j \in DOMAIN s : j \in DOMAIN (s \o t) /\ (s \o t)[j] = s[j]
      /\ \A j \in DOMAIN t : /\ Len(s) + j \in DOMAIN (s \o t)
                             /\ (s \o t)[Len(s) + j] = t[j]
      /\ \A k \in DOMAIN (s \o t) :
            k \in DOMAIN s \/ \E j \in DOMAIN t : k = Len(s) + j
  BY <1>5, ConcatElements, Zenon
<1>7. \/ StorageClasses(e)[i] = rbd /\ hasRbd
      \/ StorageClasses(e)[i] = cephfs /\ hasFs
  BY <1>1, <1>5, <1>6
<1> QED
  BY <1>2, <1>7 DEF hasRbd, hasFs

\* The steps of a plan, those of Before first, then the classes.
LEMMA PlanSplits ==
    ASSUME NEW e
    PROVE  /\ \A j \in DOMAIN Before(e) :
                 j \in DOMAIN Plan(e) /\ Plan(e)[j] = Before(e)[j]
           /\ \A i \in DOMAIN Plan(e) : Plan(e)[i].object.kind = "StorageClass" =>
                 /\ \E k \in DOMAIN StorageClasses(e) : Plan(e)[i] = StorageClasses(e)[k]
                 /\ \A j \in DOMAIN Before(e) : j < i
<1> DEFINE s == Before(e)
           t == StorageClasses(e)
<1>1. PICK S : s \in Seq(S)
  BY BeforeSteps DEF Steps
<1>2. PICK T : t \in Seq(T)
  BY ClassesSteps DEF Steps
<1>3. /\ s \o t \in Seq(S \cup T)
      /\ Len(s \o t) = Len(s) + Len(t)
      /\ DOMAIN (s \o t) = 1 .. (Len(s) + Len(t))
      /\ \A j \in DOMAIN s : j \in DOMAIN (s \o t) /\ (s \o t)[j] = s[j]
      /\ \A j \in DOMAIN t : /\ Len(s) + j \in DOMAIN (s \o t)
                             /\ (s \o t)[Len(s) + j] = t[j]
      /\ \A k \in DOMAIN (s \o t) :
            k \in DOMAIN s \/ \E j \in DOMAIN t : k = Len(s) + j
  BY <1>1, <1>2, ConcatElements, Zenon
<1>4. Plan(e) = s \o t
  BY PlanParts
<1>5. \A j \in DOMAIN s : s[j].object.kind # "StorageClass"
  BY BeforeSteps, KindsOf DEF Steps
<1>6. DOMAIN s = 1 .. Len(s) /\ DOMAIN t = 1 .. Len(t) /\ Len(s) \in Nat /\ Len(t) \in Nat
  BY <1>1, <1>2
<1> HIDE DEF s, t
<1>7. ASSUME NEW i \in DOMAIN Plan(e), Plan(e)[i].object.kind = "StorageClass"
      PROVE  /\ \E k \in DOMAIN t : Plan(e)[i] = t[k]
             /\ \A j \in DOMAIN s : j < i
  <2>1. PICK k \in DOMAIN t : i = Len(s) + k /\ Plan(e)[i] = t[k]
    BY <1>3, <1>4, <1>5, <1>7
  <2> QED
    BY <1>6, <2>1
<1> QED
  BY <1>3, <1>4, <1>7 DEF s, t

\* What a class names are secrets of users that are given.
LEMMA ClassNames ==
    ASSUME NEW e, ClassUsersGiven(e), NEW i \in DOMAIN StorageClasses(e)
    PROVE  /\ StorageClasses(e)[i].step = "create"
           /\ \A o \in StorageClasses(e)[i].data.secrets :
                \E c \in CsiUsers(e) : Given(c) /\ o = CsiSecret(e, c)
<1>1. /\ RbdClassOf(e).secrets = {CsiSecret(e, e.rbdNode), CsiSecret(e, e.rbdProvisioner)}
      /\ FsClassOf(e).secrets = {CsiSecret(e, e.fsNode), CsiSecret(e, e.fsProvisioner)}
  BY DEF RbdClassOf, FsClassOf
<1> QED
  BY <1>1, ClassesOf DEF ClassUsersGiven, CsiUsers

LEMMA ClassAfterSecrets ==
    ASSUME NEW e, ClassUsersGiven(e), NEW i \in DOMAIN Plan(e),
           Plan(e)[i].object.kind = "StorageClass"
    PROVE  \A o \in Plan(e)[i].data.secrets :
             /\ \E j \in DOMAIN Plan(e) : j < i /\ Plan(e)[j].object = o
             /\ \E c \in CsiUsers(e) : Given(c) /\ o = CsiSecret(e, c)
<1>1. PICK k \in DOMAIN StorageClasses(e) : Plan(e)[i] = StorageClasses(e)[k]
  BY PlanSplits
<1> TAKE o \in Plan(e)[i].data.secrets
<1>2. PICK c \in CsiUsers(e) : Given(c) /\ o = CsiSecret(e, c)
  BY <1>1, ClassNames
<1>3. PICK j \in DOMAIN Before(e) : Before(e)[j] = SecretStep(e, c)
  BY <1>2, SecretsImported DEF Member
<1>4. j \in DOMAIN Plan(e) /\ j < i /\ Plan(e)[j].object = o
  BY <1>2, <1>3, PlanSplits DEF SecretStep
<1> QED
  BY <1>2, <1>4

\* A plan that asks for a custom resource waits for it before any class.
LEMMA WaitImported ==
    ASSUME NEW e, e.radosNs # Unset \/ e.group # Unset
    PROVE  \E j \in DOMAIN Before(e) : Before(e)[j].step = "wait"
<1> DEFINE radosNs == Object(e.namespace, "RadosNamespace", <<"", e.radosNs>>)
           group == Object(e.namespace, "SubVolumeGroup", <<"", e.group>>)
           x == [step |-> "wait", object |-> radosNs, data |-> << >>]
           y == [step |-> "wait", object |-> group, data |-> << >>]
           a == CreateStep(radosNs, [pool |-> e.pool])
           b == CreateStep(group, [fs |-> e.fs])
           first == a \o WaitStep(radosNs)
           second == b \o WaitStep(group)
           s == Optional(e.radosNs # Unset, first)
           t == Optional(e.group # Unset, second)
<1>1. x.step = "wait" /\ y.step = "wait"
  OBVIOUS
<1>2. WaitStep(radosNs) = <<x>> /\ WaitStep(group) = <<y>>
  BY DEF WaitStep
<1>3. /\ "RadosNamespace" \in OtherKinds /\ "SubVolumeGroup" \in OtherKinds
  BY KindsOf
<1>4. /\ Steps(a, OtherKinds) /\ Steps(b, OtherKinds)
      /\ Steps(WaitStep(radosNs), OtherKinds) /\ Steps(WaitStep(group), OtherKinds)
  BY <1>3, CreateSteps, WaitSteps
<1>5. ImportClusterID(e) = s \o t
  BY DEF ImportClusterID
<1> HIDE DEF x, y, a, b
<1>6. Member(<<x>>, x) /\ Member(<<y>>, y)
  <2>1. \A z : DOMAIN <<z>> = {1} /\ <<z>>[1] = z
    OBVIOUS
  <2> QED
    BY <2>1 DEF Member
<1>7. Member(first, x) /\ Member(second, y)
  BY <1>2, <1>4, <1>6, StepsSeq, MemberConcat
<1>8. Steps(s, OtherKinds) /\ Steps(t, OtherKinds)
  BY <1>4, ConcatSteps, OptionalSteps
<1>9. (e.radosNs # Unset => Member(s, x)) /\ (e.group # Unset => Member(t, y))
  BY <1>7 DEF Optional
<1> HIDE DEF s, t
<1>10. Member(ImportClusterID(e), x) \/ Member(ImportClusterID(e), y)
  BY <1>5, <1>8, <1>9, StepsSeq, MemberConcat
<1>11. PICK z : Member(ImportClusterID(e), z) /\ z.step = "wait"
  BY <1>1, <1>10
<1>12. Member(Before(e), z)
  <2> DEFINE k == CreateNamespace(e)
             l == ImportClusterID(e)
             m == ImportSecret(e)
             n == ImportConfigMap(e)
             o == CsiSecrets(e)
  <2>1. Steps(k, OtherKinds) /\ Steps(l, OtherKinds)
    BY KindsOf, CreateSteps, ClusterIDSteps DEF CreateNamespace
  <2>2. Steps(m, OtherKinds) /\ Steps(n, OtherKinds) /\ Steps(o, OtherKinds)
    BY KindsOf, CreateSteps, SecretsSteps DEF ImportSecret, ImportConfigMap
  <2>3. Before(e) = k \o l \o m \o n \o o
    BY DEF Before
  <2>4. Member(l, z)
    BY <1>11
  <2> HIDE DEF k, l, m, n, o
  <2>5. Steps(k \o l, OtherKinds) /\ Member(k \o l, z)
    BY <2>1, <2>4, StepsSeq, ConcatSteps, MemberConcat
  <2>6. Steps(k \o l \o m, OtherKinds) /\ Member(k \o l \o m, z)
    BY <2>2, <2>5, StepsSeq, ConcatSteps, MemberConcat
  <2>7. Steps(k \o l \o m \o n, OtherKinds) /\ Member(k \o l \o m \o n, z)
    BY <2>2, <2>6, StepsSeq, ConcatSteps, MemberConcat
  <2> QED
    BY <2>2, <2>3, <2>7, StepsSeq, MemberConcat
<1> QED
  BY <1>11, <1>12 DEF Member

-----------------------------------------------------------------------------
(***************************************************************************)
(* The CSI secrets of a plan are those of the users in its environment.    *)
(***************************************************************************)
IsCsi(o) == o.kind = "Secret" /\ o.name[1] = "rook"

SecretsFrom(s, e) ==
    \A i \in DOMAIN s : IsCsi(s[i].object) =>
        \E c \in CsiUsers(e) : Given(c) /\ s[i] = SecretStep(e, c)

LEMMA OtherSecrets ==
    ASSUME NEW e, NEW s, NEW kinds, Steps(s, kinds), "Secret" \notin kinds
    PROVE  SecretsFrom(s, e)
  BY DEF Steps, SecretsFrom, IsCsi

LEMMA ConcatSecrets ==
    ASSUME NEW e, NEW s, NEW t, IsSeq(s), IsSeq(t), SecretsFrom(s, e), SecretsFrom(t, e)
    PROVE  IsSeq(s \o t) /\ SecretsFrom(s \o t, e)
<1>1. PICK S : s \in Seq(S)
  BY DEF IsSeq
<1>2. PICK T : t \in Seq(T)
  BY DEF IsSeq
<1>3. /\ s \o t \in Seq(S \cup T)
      /\ Len(s \o t) = Len(s) + Len(t)
      /\ DOMAIN (s \o t) = 1 .. (Len(s) + Len(t))
      /\ \A i \in DOMAIN s : i \in DOMAIN (s \o t) /\ (s \o t)[i] = s[i]
      /\ \A i \in DOMAIN t : /\ Len(s) + i \in DOMAIN (s \o t)
                             /\ (s \o t)[Len(s) + i] = t[i]
      /\ \A i \in DOMAIN (s \o t) :
            i \in DOMAIN s \/ \E j \in DOMAIN t : i = Len(s) + j
  BY <1>1, <1>2, ConcatElements, Zenon
<1>4. IsSeq(s \o t)
  BY <1>3 DEF IsSeq
<1>5. ASSUME NEW i \in DOMAIN (s \o t), IsCsi((s \o t)[i].object)
      PROVE  \E c \in CsiUsers(e) : Given(c) /\ (s \o t)[i] = SecretStep(e, c)
  <2>1. CASE i \in DOMAIN s
    <3>1. (s \o t)[i] = s[i]
      BY <1>3, <2>1
    <3> QED
      BY <1>5, <2>1, <3>1 DEF SecretsFrom
  <2>2. CASE i \notin DOMAIN s
    <3>1. PICK j \in DOMAIN t : i = Len(s) + j
      BY <1>3, <2>2
    <3>2. (s \o t)[i] = t[j]
      BY <1>3, <3>1
    <3> QED
      BY <1>5, <3>2 DEF SecretsFrom
  <2> QED
    BY <2>1, <2>2
<1> QED
  BY <1>4, <1>5 DEF SecretsFrom

LEMMA OneElement ==
    /\ \A x : <<x>> \in Seq({x}) /\ DOMAIN <<x>> = {1} /\ <<x>>[1] = x
    /\ << >> \in Seq({}) /\ DOMAIN << >> = {}
  OBVIOUS

\* A secret whose name has a fixed first part is not one of a CSI user.
LEMMA FixedSecret ==
    ASSUME NEW e, NEW ns, NEW first, first # "rook", NEW data, NEW given
    PROVE  /\ IsSeq(CreateStep(Object(ns, "Secret", <<first>>), data))
           /\ SecretsFrom(CreateStep(Object(ns, "Secret", <<first>>), data), e)
           /\ IsSeq(Optional(given, CreateStep(Object(ns, "Secret", <<first>>), data)))
           /\ SecretsFrom(Optional(given, CreateStep(Object(ns, "Secret", <<first>>), data)), e)
<1> DEFINE x == [step |-> "create", object |-> Object(ns, "Secret", <<first>>), data |-> data]
<1>1. ~IsCsi(x.object)
  BY OneElement DEF IsCsi, Object
<1>2. CreateStep(Object(ns, "Secret", <<first>>), data) = <<x>>
  BY DEF CreateStep
<1> HIDE DEF x
<1>3. IsSeq(<<x>>) /\ SecretsFrom(<<x>>, e)
  BY <1>1, OneElement DEF IsSeq, SecretsFrom
<1>4. IsSeq(<< >>) /\ SecretsFrom(<< >>, e)
  BY OneElement DEF IsSeq, SecretsFrom
<1> QED
  BY <1>2, <1>3, <1>4 DEF Optional

LEMMA CsiSecretFrom ==
    ASSUME NEW e, NEW c \in CsiUsers(e)
    PROVE  IsSeq(ImportCsiSecret(e, c)) /\ SecretsFrom(ImportCsiSecret(e, c), e)
<1> DEFINE x == SecretStep(e, c)
<1>1. ImportCsiSecret(e, c) = IF Given(c) THEN <<x>> ELSE << >>
  BY DEF ImportCsiSecret, Optional, CreateStep, SecretStep
<1> HIDE DEF x
<1>2. IsSeq(<<x>>) /\ IsSeq(<< >>) /\ SecretsFrom(<< >>, e)
  BY OneElement DEF IsSeq, SecretsFrom
<1>3. Given(c) => SecretsFrom(<<x>>, e)
  BY OneElement DEF SecretsFrom, x
<1> QED
  BY <1>1, <1>2, <1>3

LEMMA PlanSecrets == ASSUME NEW e PROVE SecretsFrom(Plan(e), e)
<1> DEFINE a == CreateNamespace(e)
           b == ImportClusterID(e)
           c == ImportSecret(e)
           d == ImportConfigMap(e)
           l == StorageClasses(e)
           kinds == {"Namespace", "RadosNamespace", "SubVolumeGroup", "ConfigMap",
                     "StorageClass"}
<1>1. /\ Steps(a, kinds) /\ Steps(b, kinds) /\ Steps(d, kinds) /\ Steps(l, ClassKind)
      /\ "Secret" \notin kinds /\ "Secret" \notin ClassKind
  <2>1. /\ "Namespace" \in kinds /\ "ConfigMap" \in kinds /\ "RadosNamespace" \in kinds
        /\ "SubVolumeGroup" \in kinds /\ "Secret" \notin kinds
    OBVIOUS
  <2>2. "Secret" \notin ClassKind
    BY DEF ClassKind
  <2> HIDE DEF kinds
  <2>3. Steps(a, kinds) /\ Steps(d, kinds)
    BY <2>1, CreateSteps DEF CreateNamespace, ImportConfigMap
  <2>4. Steps(b, kinds) /\ Steps(l, ClassKind)
    BY <2>1, ClusterIDSteps, ClassesSteps
  <2> QED
    BY <2>1, <2>2, <2>3, <2>4
<1>2. /\ IsSeq(a) /\ IsSeq(b) /\ IsSeq(d) /\ IsSeq(l)
      /\ SecretsFrom(a, e) /\ SecretsFrom(b, e) /\ SecretsFrom(d, e) /\ SecretsFrom(l, e)
  BY <1>1, StepsSeq, OtherSecrets
<1>3. IsSeq(c) /\ SecretsFrom(c, e)
  BY FixedSecret DEF ImportSecret
<1>4. IsSeq(CsiSecrets(e)) /\ SecretsFrom(CsiSecrets(e), e)
  <2> DEFINE f == ImportCsiSecret(e, e.rbdNode)
             g == ImportCsiSecret(e, e.rbdProvisioner)
             h == ImportRGWAdminOpsUser(e)
             i == ImportCsiSecret(e, e.fsNode)
             j == ImportCsiSecret(e, e.fsProvisioner)
  <2>1. /\ e.rbdNode \in CsiUsers(e) /\ e.rbdProvisioner \in CsiUsers(e)
        /\ e.fsNode \in CsiUsers(e) /\ e.fsProvisioner \in CsiUsers(e)
    BY DEF CsiUsers
  <2>2. /\ IsSeq(f) /\ IsSeq(g) /\ IsSeq(i) /\ IsSeq(j)
        /\ SecretsFrom(f, e) /\ SecretsFrom(g, e) /\ SecretsFrom(i, e) /\ SecretsFrom(j, e)
    BY <2>1, CsiSecretFrom
  <2>3. IsSeq(h) /\ SecretsFrom(h, e)
    BY FixedSecret DEF ImportRGWAdminOpsUser
  <2>4. CsiSecrets(e) = f \o g \o h \o i \o j
    BY DEF CsiSecrets
  <2> HIDE DEF f, g, h, i, j
  <2>5. IsSeq(f \o g) /\ SecretsFrom(f \o g, e)
    BY <2>2, ConcatSecrets
  <2>6. IsSeq(f \o g \o h) /\ SecretsFrom(f \o g \o h, e)
    BY <2>3, <2>5, ConcatSecrets
  <2>7. IsSeq(f \o g \o h \o i) /\ SecretsFrom(f \o g \o h \o i, e)
    BY <2>2, <2>6, ConcatSecrets
  <2> QED
    BY <2>2, <2>4, <2>7, ConcatSecrets
<1>5. Plan(e) = a \o b \o c \o d \o CsiSecrets(e) \o l
  BY DEF Plan
<1> HIDE DEF a, b, c, d, l
<1>6. IsSeq(a \o b) /\ SecretsFrom(a \o b, e)
  BY <1>2, ConcatSecrets
<1>7. IsSeq(a \o b \o c) /\ SecretsFrom(a \o b \o c, e)
  BY <1>3, <1>6, ConcatSecrets
<1>8. IsSeq(a \o b \o c \o d) /\ SecretsFrom(a \o b \o c \o d, e)
  BY <1>2, <1>7, ConcatSecrets
<1>9. /\ IsSeq(a \o b \o c \o d \o CsiSecrets(e))
      /\ SecretsFrom(a \o b \o c \o d \o CsiSecrets(e), e)
  BY <1>4, <1>8, ConcatSecrets
<1> QED
  BY <1>2, <1>5, <1>9, ConcatSecrets

-----------------------------------------------------------------------------
(***************************************************************************)
(* The FSID and the monitors come before the classes too.                  *)
(***************************************************************************)
MonSecret(ns) == Object(ns, "Secret", <<"rook-ceph-mon">>)
MonEndpoints(ns) == Object(ns, "ConfigMap", <<"rook-ceph-mon-endpoints">>)

LEMMA OneCreated ==
    ASSUME NEW object, NEW data
    PROVE  \E x : x.object = object /\ Member(CreateStep(object, data), x)
<1> DEFINE x == [step |-> "create", object |-> object, data |-> data]
<1>1. CreateStep(object, data) = <<x>> /\ x.object = object
  BY DEF CreateStep
<1> HIDE DEF x
<1> QED
  BY <1>1, OneElement DEF Member

LEMMA MonitorsImported ==
    ASSUME NEW e
    PROVE  /\ \E j \in DOMAIN Before(e) : Before(e)[j].object = MonSecret(e.namespace)
           /\ \E j \in DOMAIN Before(e) : Before(e)[j].object = MonEndpoints(e.namespace)
<1> DEFINE k == CreateNamespace(e)
           l == ImportClusterID(e)
           m == ImportSecret(e)
           n == ImportConfigMap(e)
           o == CsiSecrets(e)
<1>1. Steps(k, OtherKinds) /\ Steps(l, OtherKinds)
  BY KindsOf, CreateSteps, ClusterIDSteps DEF CreateNamespace
<1>2. Steps(m, OtherKinds) /\ Steps(n, OtherKinds) /\ Steps(o, OtherKinds)
  BY KindsOf, CreateSteps, SecretsSteps DEF ImportSecret, ImportConfigMap
<1>3. Before(e) = k \o l \o m \o n \o o
  BY DEF Before
<1>4. PICK x : x.object = MonSecret(e.namespace) /\ Member(m, x)
  BY OneCreated DEF ImportSecret, MonSecret
<1>5. PICK y : y.object = MonEndpoints(e.namespace) /\ Member(n, y)
  BY OneCreated DEF ImportConfigMap, MonEndpoints
<1>6. Member(m, x) /\ Member(n, y)
  BY <1>4, <1>5
<1> HIDE DEF k, l, m, n, o
<1>7. Steps(k \o l, OtherKinds)
  BY <1>1, ConcatSteps
<1>8. Steps(k \o l \o m, OtherKinds) /\ Member(k \o l \o m, x)
  BY <1>2, <1>6, <1>7, StepsSeq, ConcatSteps, MemberConcat
<1>9. Steps(k \o l \o m \o n, OtherKinds)
  BY <1>2, <1>8, ConcatSteps
<1>10. Member(k \o l \o m \o n, x) /\ Member(k \o l \o m \o n, y)
  BY <1>2, <1>6, <1>8, StepsSeq, MemberConcat
<1>11. Member(Before(e), x) /\ Member(Before(e), y)
  BY <1>2, <1>3, <1>9, <1>10, StepsSeq, MemberConcat
<1> QED
  BY <1>4, <1>5, <1>11 DEF Member

\* A class names the namespace of its plan, whose monitors come before it.
LEMMA ClassAfterMonitors ==
    ASSUME NEW e, NEW i \in DOMAIN Plan(e), Plan(e)[i].object.kind = "StorageClass"
    PROVE  LET ns == Plan(e)[i].data.clusterID
           IN  \A o \in {MonSecret(ns), MonEndpoints(ns)} :
                  \E j \in DOMAIN Plan(e) : j < i /\ Plan(e)[j].object = o
<1>1. PICK k \in DOMAIN StorageClasses(e) : Plan(e)[i] = StorageClasses(e)[k]
  BY PlanSplits
<1>2. /\ RbdClassOf(e).clusterID = e.namespace
      /\ FsClassOf(e).clusterID = e.namespace
  BY DEF RbdClassOf, FsClassOf
<1>3. Plan(e)[i].data.clusterID = e.namespace
  BY <1>1, <1>2, ClassesOf
<1>4. ASSUME NEW o, \E j \in DOMAIN Before(e) : Before(e)[j].object = o
      PROVE  \E j \in DOMAIN Plan(e) : j < i /\ Plan(e)[j].object = o
  BY <1>4, PlanSplits
<1> QED
  BY <1>3, <1>4, MonitorsImported

-----------------------------------------------------------------------------
(***************************************************************************)
(* The invariant.  "idle" is the stage of a run that has no environment    *)
(* yet, for modules that start runs one by one.                            *)
(***************************************************************************)
Stages == {"idle", "check", "get", "create", "wait", "failed", "done"}

\* The steps before step i have created their objects, and none of them is a
\* wait: no run gets past one.
Reached(r, i) ==
    \A j \in DOMAIN Plan(env[r]) :
        j < i => /\ Plan(env[r])[j].step = "create"
                 /\ Plan(env[r])[j].object \in DOMAIN cluster

Progress(r) ==
    /\ pc[r] # "idle" => ClassUsersGiven(env[r])
    /\ pc[r] \in {"get", "create", "wait"} =>
          at[r] \in DOMAIN Plan(env[r]) /\ Reached(r, at[r])
    /\ pc[r] \in {"get", "create"} => Plan(env[r])[at[r]].step = "create"
    /\ pc[r] = "done" =>
          \A j \in DOMAIN Plan(env[r]) : /\ Plan(env[r])[j].step = "create"
                                        /\ Plan(env[r])[j].object \in DOMAIN cluster

IInv ==
    /\ pc \in [Run -> Stages]
    /\ at \in [Run -> Nat]
    /\ ClassesBacked
    /\ \A r \in Run : Progress(r)

\* What a step leaves alone: every object that exists.
Grows == \A o \in DOMAIN cluster : o \in DOMAIN cluster' /\ cluster'[o] = cluster[o]

LEMMA PlanSeq ==
    ASSUME NEW e
    PROVE  /\ DOMAIN Plan(e) = 1 .. Len(Plan(e)) /\ Len(Plan(e)) \in Nat
           /\ \A i \in DOMAIN Plan(e) : Plan(e)[i].step \in {"create", "wait"}
<1>1. Steps(Before(e), OtherKinds \cup ClassKind)
  BY BeforeSteps DEF Steps
<1>2. Steps(StorageClasses(e), OtherKinds \cup ClassKind)
  BY ClassesSteps DEF Steps
<1>3. Steps(Plan(e), OtherKinds \cup ClassKind)
  BY <1>1, <1>2, ConcatSteps, PlanParts
<1>4. PICK S : Plan(e) \in Seq(S)
  BY <1>3 DEF Steps
<1> QED
  BY <1>3, <1>4 DEF Steps, StepKind

\* Runs that do not move keep their progress while the cluster grows.
LEMMA OthersProgress ==
    ASSUME IInv, Grows, NEW q \in Run, pc'[q] = pc[q], at'[q] = at[q],
           env'[q] = env[q]
    PROVE  Progress(q)'
  BY DEF IInv, Progress, Reached, Grows

LEMMA GotoAt ==
    ASSUME IInv, NEW r \in Run, NEW stage \in Stages, NEW i \in Nat, Goto(r, stage, i)
    PROVE  /\ pc' \in [Run -> Stages] /\ pc'[r] = stage
           /\ at' \in [Run -> Nat] /\ at'[r] = i
           /\ \A q \in Run \ {r} : pc'[q] = pc[q] /\ at'[q] = at[q]
  BY DEF IInv, Goto

LEMMA ExitProgress ==
    ASSUME IInv, Grows, NEW r \in Run, pc[r] # "idle", Exit(r), UNCHANGED env
    PROVE  /\ pc' \in [Run -> Stages] /\ at' \in [Run -> Nat]
           /\ \A q \in Run : Progress(q)'
<1>1. Goto(r, "failed", 1) /\ "failed" \in Stages /\ 1 \in Nat
  BY DEF Exit, Stages
<1>2. /\ pc' \in [Run -> Stages] /\ pc'[r] = "failed"
      /\ at' \in [Run -> Nat]
      /\ \A q \in Run \ {r} : pc'[q] = pc[q] /\ at'[q] = at[q]
  BY <1>1, GotoAt
<1>3. \A q \in Run \ {r} : Progress(q)'
  BY <1>2, OthersProgress
<1>4. Progress(r)'
  BY <1>2 DEF IInv, Progress
<1> QED
  BY <1>2, <1>3, <1>4

LEMMA ContinueProgress ==
    ASSUME IInv, Grows, NEW r \in Run, NEW i \in Nat \ {0}, pc[r] # "idle",
           Continue(r, i), UNCHANGED env,
           \A j \in DOMAIN Plan(env[r]) :
              j < i => /\ Plan(env[r])[j].step = "create"
                       /\ Plan(env[r])[j].object \in DOMAIN cluster'
    PROVE  /\ pc' \in [Run -> Stages] /\ at' \in [Run -> Nat]
           /\ pc'[r] \in {"get", "wait", "done"}
           /\ \A q \in Run : Progress(q)'
<1> DEFINE plan == Plan(env[r])
<1>1. /\ DOMAIN plan = 1 .. Len(plan) /\ Len(plan) \in Nat
      /\ \A j \in DOMAIN plan : plan[j].step \in {"create", "wait"}
  BY PlanSeq
<1>2. ClassUsersGiven(env'[r]) /\ plan = Plan(env'[r])
  BY DEF IInv, Progress
<1>3. CASE i > Len(plan)
  <2>1. Goto(r, "done", 1) /\ "done" \in Stages /\ 1 \in Nat
    BY <1>3 DEF Continue, Stages
  <2>2. /\ pc' \in [Run -> Stages] /\ pc'[r] = "done" /\ at' \in [Run -> Nat]
        /\ \A q \in Run \ {r} : pc'[q] = pc[q] /\ at'[q] = at[q]
    BY <2>1, GotoAt
  <2>3. \A j \in DOMAIN plan : plan[j].step = "create" /\ plan[j].object \in DOMAIN cluster'
    BY <1>1, <1>3
  <2>4. Progress(r)'
    BY <1>2, <2>2, <2>3 DEF Progress
  <2>5. \A q \in Run \ {r} : Progress(q)'
    BY <2>2, OthersProgress
  <2> QED
    BY <2>2, <2>4, <2>5
<1>4. CASE ~(i > Len(plan))
  <2> DEFINE stage == IF plan[i].step = "wait" THEN "wait" ELSE "get"
  <2>1. Goto(r, stage, i) /\ stage \in Stages
    BY <1>4 DEF Continue, Stages
  <2>2. /\ pc' \in [Run -> Stages] /\ pc'[r] = stage
        /\ at' \in [Run -> Nat] /\ at'[r] = i
        /\ \A q \in Run \ {r} : pc'[q] = pc[q] /\ at'[q] = at[q]
    BY <2>1, GotoAt
  <2>3. i \in DOMAIN plan
    BY <1>1, <1>4
  <2>4. /\ stage \in {"get", "wait"}
        /\ stage = "get" => plan[i].step = "create"
    BY <1>1, <2>3
  <2> HIDE DEF stage, plan
  <2>5. Progress(r)'
    <3>1. /\ plan = Plan(env'[r])
          /\ \A j \in DOMAIN plan :
                j < i => plan[j].step = "create" /\ plan[j].object \in DOMAIN cluster'
      BY <1>2 DEF plan
    <3> QED
      BY <1>2, <2>2, <2>3, <2>4, <3>1 DEF Progress, Reached
  <2>6. \A q \in Run \ {r} : Progress(q)'
    BY <2>2, OthersProgress
  <2> QED
    BY <2>2, <2>4, <2>5, <2>6
<1> QED
  BY <1>3, <1>4


-----------------------------------------------------------------------------
\* A step that creates nothing.
LEMMA SameCluster ==
    ASSUME IInv, UNCHANGED cluster
    PROVE  Grows /\ ClassesBacked'
  BY DEF IInv, Grows, ClassesBacked

LEMMA CheckInv ==
    ASSUME IInv, NEW r \in Run, CheckEnvVars(r)
    PROVE  IInv' /\ Grows
<1>1. pc[r] = "check" /\ UNCHANGED <<cluster, env>>
  BY DEF CheckEnvVars
<1>2. Grows /\ ClassesBacked'
  BY <1>1, SameCluster
<1>3. CASE Continue(r, 1)
  <2>1. \A j \in DOMAIN Plan(env[r]) :
          j < 1 => /\ Plan(env[r])[j].step = "create"
                   /\ Plan(env[r])[j].object \in DOMAIN cluster'
    BY PlanSeq
  <2>2. 1 \in Nat \ {0}
    OBVIOUS
  <2> QED
    BY <1>1, <1>2, <1>3, <2>1, <2>2, ContinueProgress DEF IInv
<1>4. CASE Exit(r)
  BY <1>1, <1>2, <1>4, ExitProgress DEF IInv
<1> QED
  BY <1>3, <1>4 DEF CheckEnvVars

\* The run whose next object exists may go on.
LEMMA NextReached ==
    ASSUME IInv, Grows, NEW r \in Run, pc[r] \in {"get", "create"},
           Current(r).object \in DOMAIN cluster'
    PROVE  /\ at[r] + 1 \in Nat \ {0}
           /\ \A j \in DOMAIN Plan(env[r]) :
                 j < at[r] + 1 => /\ Plan(env[r])[j].step = "create"
                                  /\ Plan(env[r])[j].object \in DOMAIN cluster'
<1>1. at[r] \in Nat /\ at[r] \in DOMAIN Plan(env[r]) /\ Reached(r, at[r])
  BY DEF IInv, Progress
<1>2. DOMAIN Plan(env[r]) = 1 .. Len(Plan(env[r])) /\ Len(Plan(env[r])) \in Nat
  BY PlanSeq
<1> SUFFICES ASSUME NEW j \in DOMAIN Plan(env[r]), j < at[r] + 1
             PROVE  /\ Plan(env[r])[j].step = "create"
                    /\ Plan(env[r])[j].object \in DOMAIN cluster'
  BY <1>1
<1>3. CASE j = at[r]
  BY <1>3 DEF Current, IInv, Progress
<1>4. CASE j < at[r]
  BY <1>1, <1>4 DEF Reached, Grows
<1> QED
  BY <1>1, <1>2, <1>3, <1>4

LEMMA GetInv ==
    ASSUME IInv, NEW r \in Run, GetObject(r)
    PROVE  IInv' /\ Grows
<1>1. pc[r] = "get" /\ UNCHANGED <<cluster, env>>
  BY DEF GetObject
<1>2. Grows /\ ClassesBacked'
  BY <1>1, SameCluster
<1>3. CASE Current(r).object \in DOMAIN cluster /\ Continue(r, at[r] + 1)
  <2>1. /\ at[r] + 1 \in Nat \ {0}
        /\ \A j \in DOMAIN Plan(env[r]) :
              j < at[r] + 1 => /\ Plan(env[r])[j].step = "create"
                               /\ Plan(env[r])[j].object \in DOMAIN cluster'
    BY <1>1, <1>2, <1>3, NextReached
  <2> QED
    BY <1>1, <1>2, <1>3, <2>1, ContinueProgress DEF IInv
<1>4. CASE Goto(r, "create", at[r])
  <2>1. "create" \in Stages /\ at[r] \in Nat
    BY DEF Stages, IInv
  <2>2. /\ pc' \in [Run -> Stages] /\ pc'[r] = "create"
        /\ at' \in [Run -> Nat] /\ at'[r] = at[r]
        /\ \A q \in Run \ {r} : pc'[q] = pc[q] /\ at'[q] = at[q]
    BY <1>4, <2>1, GotoAt
  <2>3. \A q \in Run \ {r} : Progress(q)'
    BY <1>1, <1>2, <2>2, OthersProgress
  <2>4. Progress(r)'
    BY <1>1, <2>2 DEF IInv, Progress, Reached
  <2> QED
    BY <1>2, <2>2, <2>3, <2>4 DEF IInv
<1> QED
  BY <1>3, <1>4 DEF GetObject

LEMMA CreateInv ==
    ASSUME IInv, NEW r \in Run, CreateObject(r)
    PROVE  IInv' /\ Grows
<1> DEFINE object == Current(r).object
           data == Current(r).data
<1>1. pc[r] = "create" /\ UNCHANGED env
  BY DEF CreateObject
<1>2. CASE object \in DOMAIN cluster /\ Exit(r) /\ UNCHANGED cluster
  <2>1. Grows /\ ClassesBacked'
    BY <1>2, SameCluster
  <2> QED
    BY <1>1, <1>2, <2>1, ExitProgress DEF IInv
<1>3. CASE /\ object \notin DOMAIN cluster /\ cluster' = With(object, data)
           /\ Continue(r, at[r] + 1)
  <2>1. /\ DOMAIN cluster' = DOMAIN cluster \cup {object}
        /\ cluster'[object] = data
        /\ \A o \in DOMAIN cluster : cluster'[o] = cluster[o]
    BY <1>3 DEF With
  <2>2. Grows
    BY <2>1 DEF Grows
  <2>3. /\ at[r] + 1 \in Nat \ {0}
        /\ \A j \in DOMAIN Plan(env[r]) :
              j < at[r] + 1 => /\ Plan(env[r])[j].step = "create"
                               /\ Plan(env[r])[j].object \in DOMAIN cluster'
    BY <1>1, <2>1, <2>2, NextReached
  <2>4. ClassesBacked'
    <3>1. \A o \in DOMAIN cluster : o.kind = "StorageClass" =>
              cluster'[o].secrets \subseteq DOMAIN cluster'
      BY <2>1 DEF IInv, ClassesBacked
    <3>2. object.kind = "StorageClass" => data.secrets \subseteq DOMAIN cluster'
      <4> DEFINE e == env[r]
                 i == at[r]
      <4>1. /\ ClassUsersGiven(e) /\ i \in DOMAIN Plan(e) /\ Reached(r, i)
            /\ object = Plan(e)[i].object /\ data = Plan(e)[i].data
        BY <1>1 DEF IInv, Progress, Current
      <4> HIDE DEF i, object, data
      <4>2. ASSUME object.kind = "StorageClass"
            PROVE  \A o \in data.secrets :
                     \E j \in DOMAIN Plan(e) : j < i /\ Plan(e)[j].object = o
        <5>1. Plan(e)[i].object.kind = "StorageClass"
          BY <4>1, <4>2
        <5> HIDE DEF e
        <5> QED
          BY <4>1, <5>1, ClassAfterSecrets
      <4> QED
        BY <2>1, <4>1, <4>2 DEF Reached
    <3> QED
      BY <2>1, <3>1, <3>2 DEF ClassesBacked
  <2> QED
    BY <1>1, <1>3, <2>2, <2>3, <2>4, ContinueProgress DEF IInv
<1> QED
  BY <1>2, <1>3 DEF CreateObject

LEMMA OtherInv ==
    ASSUME IInv, NEW r \in Run, WaitReady(r) \/ Rerun(r) \/ Abort(r), pc[r] # "idle"
    PROVE  IInv' /\ Grows
<1>1. UNCHANGED <<cluster, env>>
  BY DEF WaitReady, Rerun, Abort
<1>2. Grows /\ ClassesBacked'
  BY <1>1, SameCluster
<1>3. CASE Exit(r)
  BY <1>1, <1>2, <1>3, ExitProgress DEF IInv
<1>4. CASE Goto(r, "check", 1)
  <2>1. "check" \in Stages /\ 1 \in Nat
    BY DEF Stages
  <2>2. /\ pc' \in [Run -> Stages] /\ pc'[r] = "check" /\ at' \in [Run -> Nat]
        /\ \A q \in Run \ {r} : pc'[q] = pc[q] /\ at'[q] = at[q]
    BY <1>4, <2>1, GotoAt
  <2>3. \A q \in Run \ {r} : Progress(q)'
    BY <1>1, <1>2, <2>2, OthersProgress
  <2>4. Progress(r)'
    BY <1>1, <2>2 DEF IInv, Progress
  <2> QED
    BY <1>2, <2>2, <2>3, <2>4 DEF IInv
<1> QED
  BY <1>3, <1>4 DEF WaitReady, Rerun, Abort

\* A step moves its own run only, and creates at most its next object.
LEMMA RunMoves ==
    ASSUME NEW r \in Run, Step(r) \/ Abort(r)
    PROVE  /\ UNCHANGED env /\ \E stage, i : Goto(r, stage, i)
           /\ \/ UNCHANGED cluster
              \/ /\ pc[r] = "create" /\ Current(r).object \notin DOMAIN cluster
                 /\ cluster' = With(Current(r).object, Current(r).data)
<1>1. UNCHANGED env
  BY DEF Step, CheckEnvVars, GetObject, CreateObject, WaitReady, Rerun, Abort
<1>2. \E stage, i : Goto(r, stage, i)
  <2>1. ASSUME NEW i, Continue(r, i) PROVE \E stage, j : Goto(r, stage, j)
    BY <2>1 DEF Continue
  <2> QED
    BY <2>1 DEF Step, CheckEnvVars, GetObject, CreateObject, WaitReady, Rerun, Abort, Exit
<1>3. \/ UNCHANGED cluster
      \/ /\ pc[r] = "create" /\ Current(r).object \notin DOMAIN cluster
         /\ cluster' = With(Current(r).object, Current(r).data)
  BY DEF Step, CheckEnvVars, GetObject, CreateObject, WaitReady, Rerun, Abort
<1> QED
  BY <1>1, <1>2, <1>3

LEMMA RunInv ==
    ASSUME IInv, NEW r \in Run, Step(r) \/ Abort(r), pc[r] # "idle"
    PROVE  IInv' /\ Grows
  BY CheckInv, GetInv, CreateInv, OtherInv DEF Step


-----------------------------------------------------------------------------
(***************************************************************************)
(* Types.                                                                  *)
(***************************************************************************)
LEMMA PlanNonEmpty == ASSUME NEW e PROVE 1 <= Len(Plan(e))
<1> DEFINE x == [step |-> "create", object |-> Object(Unset, "Namespace", <<"", e.namespace>>),
                 data |-> << >>]
           a == CreateNamespace(e)
           b == ImportClusterID(e)
           c == ImportSecret(e)
           d == ImportConfigMap(e)
<1>1. CreateNamespace(e) = <<x>>
  BY DEF CreateNamespace, CreateStep
<1> HIDE DEF x
<1>2. Member(a, x)
  <2>1. DOMAIN <<x>> = {1} /\ <<x>>[1] = x
    OBVIOUS
  <2> QED
    BY <1>1, <2>1 DEF Member
<1>3. Steps(a, OtherKinds) /\ Steps(b, OtherKinds)
  BY KindsOf, CreateSteps, ClusterIDSteps DEF CreateNamespace
<1>4. Steps(c, OtherKinds) /\ Steps(d, OtherKinds)
  BY KindsOf, CreateSteps DEF ImportSecret, ImportConfigMap
<1>5. Before(e) = a \o b \o c \o d \o CsiSecrets(e)
  BY DEF Before
<1> HIDE DEF a, b, c, d
<1>6. Steps(a \o b, OtherKinds)
  BY <1>3, ConcatSteps
<1>7. Steps(a \o b \o c, OtherKinds)
  BY <1>4, <1>6, ConcatSteps
<1>8. Steps(a \o b \o c \o d, OtherKinds)
  BY <1>4, <1>7, ConcatSteps
<1>9. /\ IsSeq(a) /\ IsSeq(b) /\ IsSeq(c) /\ IsSeq(d) /\ IsSeq(CsiSecrets(e))
      /\ IsSeq(a \o b) /\ IsSeq(a \o b \o c) /\ IsSeq(a \o b \o c \o d)
      /\ IsSeq(Before(e)) /\ IsSeq(StorageClasses(e))
  BY <1>3, <1>4, <1>6, <1>7, <1>8, StepsSeq, SecretsSteps, BeforeSteps, ClassesSteps
<1>10. Member(a \o b, x)
  BY <1>2, <1>9, MemberConcat
<1>11. Member(a \o b \o c, x)
  BY <1>9, <1>10, MemberConcat
<1>12. Member(a \o b \o c \o d, x)
  BY <1>9, <1>11, MemberConcat
<1>13. Member(Before(e), x)
  BY <1>5, <1>9, <1>12, MemberConcat
<1>14. Member(Plan(e), x)
  BY <1>9, <1>13, MemberConcat, PlanParts
<1>15. PICK i \in DOMAIN Plan(e) : TRUE
  BY <1>14 DEF Member
<1> QED
  BY <1>15, PlanSeq

\* Wherever a run goes, its position is one of its plan.
LEMMA GotoType ==
    ASSUME TypeOK, NEW r \in Run, UNCHANGED env,
           NEW stage \in {"check", "get", "create", "wait", "failed", "done"},
           NEW i \in Nat \ {0}, i <= Len(Plan(env[r])), Goto(r, stage, i)
    PROVE  /\ pc' \in [Run -> {"check", "get", "create", "wait", "failed", "done"}]
           /\ at' \in [Run -> Nat \ {0}]
           /\ \A q \in Run : at'[q] <= Len(Plan(env'[q]))
<1>1. /\ pc' \in [Run -> {"check", "get", "create", "wait", "failed", "done"}]
      /\ at' \in [Run -> Nat \ {0}] /\ at'[r] = i
      /\ \A q \in Run \ {r} : at'[q] = at[q]
  BY DEF TypeOK, Goto
<1> QED
  BY <1>1 DEF TypeOK

LEMMA FirstPosition ==
    ASSUME NEW r \in Run PROVE 1 \in Nat \ {0} /\ 1 <= Len(Plan(env[r]))
  BY PlanNonEmpty

LEMMA ContinueType ==
    ASSUME TypeOK, NEW r \in Run, UNCHANGED env, NEW i \in Nat \ {0}, Continue(r, i)
    PROVE  /\ pc' \in [Run -> {"check", "get", "create", "wait", "failed", "done"}]
           /\ at' \in [Run -> Nat \ {0}]
           /\ \A q \in Run : at'[q] <= Len(Plan(env'[q]))
<1>1. CASE i > Len(Plan(env[r]))
  <2>1. Goto(r, "done", 1)
    BY <1>1 DEF Continue
  <2> QED
    BY <2>1, FirstPosition, GotoType
<1>2. CASE ~(i > Len(Plan(env[r])))
  <2>1. Goto(r, "wait", i) \/ Goto(r, "get", i)
    BY <1>2 DEF Continue
  <2>2. i <= Len(Plan(env[r]))
    BY <1>2, PlanSeq
  <2> QED
    BY <2>1, <2>2, GotoType
<1> QED
  BY <1>1, <1>2

LEMMA ExitType ==
    ASSUME TypeOK, NEW r \in Run, UNCHANGED env, Exit(r)
    PROVE  /\ pc' \in [Run -> {"check", "get", "create", "wait", "failed", "done"}]
           /\ at' \in [Run -> Nat \ {0}]
           /\ \A q \in Run : at'[q] <= Len(Plan(env'[q]))
  BY FirstPosition, GotoType DEF Exit

\* Where an object in the cluster comes from.
Asked(o, data) ==
    \E e \in Envs : \E i \in DOMAIN Plan(e) :
       /\ Plan(e)[i].step = "create" /\ Plan(e)[i].object = o /\ Plan(e)[i].data = data

LEMMA StepType ==
    ASSUME TypeOK, IInv, NEW r \in Run, Step(r) \/ Abort(r)
    PROVE  TypeOK'
<1>1. UNCHANGED env
  BY DEF Step, CheckEnvVars, GetObject, CreateObject, WaitReady, Rerun, Abort
<1>2. /\ pc' \in [Run -> {"check", "get", "create", "wait", "failed", "done"}]
      /\ at' \in [Run -> Nat \ {0}]
      /\ \A q \in Run : at'[q] <= Len(Plan(env'[q]))
  <2>1. at[r] \in Nat \ {0} /\ at[r] + 1 \in Nat \ {0} /\ at[r] <= Len(Plan(env[r]))
    BY DEF TypeOK
  <2>2. \/ Continue(r, 1) \/ Continue(r, at[r] + 1) \/ Exit(r)
        \/ Goto(r, "create", at[r]) \/ Goto(r, "check", 1)
    BY DEF Step, CheckEnvVars, GetObject, CreateObject, WaitReady, Rerun, Abort
  <2>3. CASE Continue(r, 1)
    BY <1>1, <2>3, FirstPosition, ContinueType
  <2>4. CASE Continue(r, at[r] + 1)
    BY <1>1, <2>1, <2>4, ContinueType
  <2>5. CASE Exit(r)
    BY <1>1, <2>5, ExitType
  <2>6. CASE Goto(r, "create", at[r])
    BY <1>1, <2>1, <2>6, GotoType
  <2>7. CASE Goto(r, "check", 1)
    BY <1>1, <2>7, FirstPosition, GotoType
  <2> QED
    BY <2>2, <2>3, <2>4, <2>5, <2>6, <2>7
<1>3. faults' \in 0 .. MaxFaults
  BY FaultAssumption
     DEF TypeOK, Step, CheckEnvVars, GetObject, CreateObject, WaitReady, Rerun, Abort
<1>4. \A o \in DOMAIN cluster' : Asked(o, cluster'[o])
  <2>1. \A o \in DOMAIN cluster : Asked(o, cluster[o])
    BY DEF TypeOK, Asked
  <2>2. \/ UNCHANGED cluster
        \/ /\ pc[r] = "create"
           /\ cluster' = With(Current(r).object, Current(r).data)
    BY DEF Step, CheckEnvVars, GetObject, CreateObject, WaitReady, Rerun, Abort
  <2>3. CASE pc[r] = "create" /\ cluster' = With(Current(r).object, Current(r).data)
    <3>1. /\ env[r] \in Envs /\ at[r] \in DOMAIN Plan(env[r])
          /\ Plan(env[r])[at[r]].step = "create"
      BY <2>3 DEF TypeOK, IInv, Progress
    <3>2. Asked(Current(r).object, Current(r).data)
      BY <3>1 DEF Asked, Current
    <3> QED
      BY <2>1, <2>3, <3>2 DEF With
  <2> QED
    BY <2>1, <2>2, <2>3
<1> QED
  BY <1>1, <1>2, <1>3, <1>4 DEF TypeOK, Asked

-----------------------------------------------------------------------------
LEMMA InitInv == Init => TypeOK /\ IInv
<1> SUFFICES ASSUME Init PROVE TypeOK /\ IInv
  OBVIOUS
<1>1. DOMAIN cluster = {}
  BY DEF Init
<1>2. TypeOK
  <2>1. \A r \in Run : at[r] = 1 /\ 1 <= Len(Plan(env[r]))
    BY FirstPosition DEF Init
  <2> QED
    BY <1>1, <2>1, FaultAssumption DEF Init, TypeOK
<1>3. \A r \in Run : Progress(r)
  BY EnvAssumption DEF Init, Progress
<1>4. ClassesBacked
  BY <1>1 DEF ClassesBacked
<1> QED
  BY <1>2, <1>3, <1>4 DEF IInv, Init, Stages

LEMMA NextInv == TypeOK /\ IInv /\ [Next]_vars => (TypeOK /\ IInv)' /\ Grows
<1> SUFFICES ASSUME TypeOK, IInv, [Next]_vars PROVE (TypeOK /\ IInv)' /\ Grows
  OBVIOUS
<1>1. CASE Next
  <2>1. PICK r \in Run : Step(r) \/ Abort(r)
    BY <1>1 DEF Next
  <2>2. pc[r] # "idle"
    BY DEF TypeOK
  <2> QED
    BY <2>1, <2>2, RunInv, StepType
<1>2. CASE UNCHANGED vars
  BY <1>2 DEF vars, TypeOK, IInv, Progress, Reached, ClassesBacked, Grows
<1> QED
  BY <1>1, <1>2

THEOREM InvariantHolds == Spec => [](TypeOK /\ IInv)
  BY InitInv, NextInv, PTL DEF Spec

\* Every object that exists is one that some environment asks for, with the data
\* it asks for, and a run is always at a step of its plan.
THEOREM TypesHold == Spec => []TypeOK
  BY InvariantHolds, PTL

\* A storage class is never there without the CSI secrets it names, for any
\* number of overlapping, dying and repeated runs.
THEOREM ClassesStayBacked == Spec => []ClassesBacked
<1>1. IInv => ClassesBacked
  BY DEF IInv
<1> QED
  BY <1>1, InvariantHolds, PTL

\* A run reaches a class only when the FSID and the monitors are there.
LEMMA NextMonitors == IInv /\ MonitorsKnown /\ Grows /\ [Next]_vars => MonitorsKnown'
<1> SUFFICES ASSUME IInv, MonitorsKnown, Grows, [Next]_vars,
                    NEW o \in DOMAIN cluster', o.kind = "StorageClass",
                    NEW m \in {MonSecret(cluster'[o].clusterID),
                               MonEndpoints(cluster'[o].clusterID)}
             PROVE  m \in DOMAIN cluster'
  BY DEF MonitorsKnown, MonSecret, MonEndpoints
<1>1. CASE o \in DOMAIN cluster
  BY <1>1 DEF Grows, MonitorsKnown, MonSecret, MonEndpoints
<1>2. CASE o \notin DOMAIN cluster
  <2>1. PICK r \in Run : Step(r) \/ Abort(r)
    BY <1>2 DEF Next, vars
  <2>2. /\ pc[r] = "create"
        /\ cluster' = With(Current(r).object, Current(r).data)
    BY <1>2, <2>1, RunMoves
  <2> DEFINE e == env[r]
             i == at[r]
  <2>3. i \in DOMAIN Plan(e) /\ Reached(r, i)
    BY <2>2 DEF IInv, Progress
  <2>4. o = Plan(e)[i].object /\ cluster'[o] = Plan(e)[i].data
    BY <1>2, <2>2 DEF With, Current
  <2>5. \A j \in DOMAIN Plan(e) : j < i => Plan(e)[j].object \in DOMAIN cluster
    BY <2>3 DEF Reached
  <2> HIDE DEF e, i
  <2>6. PICK j \in DOMAIN Plan(e) : j < i /\ Plan(e)[j].object = m
    BY <2>3, <2>4, ClassAfterMonitors
  <2>7. m \in DOMAIN cluster
    BY <2>5, <2>6
  <2> QED
    BY <2>7 DEF Grows
<1> QED
  BY <1>1, <1>2

\* Nor is it there without the FSID and the monitors of the cluster it names.
THEOREM MonitorsStayKnown == Spec => []MonitorsKnown
<1>1. Init => MonitorsKnown
  BY DEF Init, MonitorsKnown
<1>2. (TypeOK /\ IInv) /\ MonitorsKnown /\ [Next]_vars => MonitorsKnown'
  BY NextInv, NextMonitors
<1> QED
  BY <1>1, <1>2, InvariantHolds, PTL DEF Spec

\* A run that ended well has all its objects.
THEOREM DoneIsComplete == Spec => []CompleteWhenDone
<1>1. IInv => CompleteWhenDone
  BY DEF IInv, Progress, CompleteWhenDone
<1> QED
  BY <1>1, InvariantHolds, PTL

\* A run that is given a RADOS namespace or a subvolume group never ends well,
\* however often it is repeated and whatever other runs have created: what
\* "timeout 20 sh -c" is handed is no script, so no run gets past a wait.
NoRunWithAWaitIsDone ==
    \A r \in Run : env[r].radosNs # Unset \/ env[r].group # Unset => pc[r] # "done"

THEOREM NoRunPassesAWait == Spec => []NoRunWithAWaitIsDone
<1>1. IInv => NoRunWithAWaitIsDone
  <2> SUFFICES ASSUME IInv, NEW r \in Run, pc[r] = "done",
                      env[r].radosNs # Unset \/ env[r].group # Unset
               PROVE  FALSE
    BY DEF NoRunWithAWaitIsDone
  <2>1. PICK j \in DOMAIN Before(env[r]) : Before(env[r])[j].step = "wait"
    BY WaitImported
  <2>2. j \in DOMAIN Plan(env[r]) /\ Plan(env[r])[j].step = "wait"
    BY <2>1, PlanSplits
  <2> QED
    BY <2>2 DEF IInv, Progress
<1> QED
  BY <1>1, InvariantHolds, PTL

\* No run changes or removes an object that exists.
THEOREM NothingIsReplaced == Spec => NothingReplaced
<1>1. TypeOK /\ IInv /\ [Next]_vars =>
        [\A o \in DOMAIN cluster : o \in DOMAIN cluster' /\ cluster'[o] = cluster[o]]_vars
  BY NextInv DEF Grows
<1> QED
  BY <1>1, InvariantHolds, PTL DEF Spec, NothingReplaced

=============================================================================
