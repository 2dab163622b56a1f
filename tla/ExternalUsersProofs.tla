------------------------ MODULE ExternalUsersProofs ------------------------
(***************************************************************************)
(* What the pure part of the exporter returns: names are names of users,   *)
(* capabilities are capabilities, and the selection of a CephFS file       *)
(* system stays within the provider's list.                                *)
(***************************************************************************)
EXTENDS ExternalUsers, SequenceTheorems, WellFoundedInduction,
        FiniteSetTheorems, TLAPS

-----------------------------------------------------------------------------
(***************************************************************************)
(* Names.                                                                  *)
(***************************************************************************)

\* Joining two names with "-" gives a name.
LEMMA NameConcat ==
    ASSUME NEW a \in Name, NEW b \in Name
    PROVE  a \o b \in Name
BY ConcatProperties DEF Name

\* Lower-casing a name gives a name (k8s_cluster_name.lower()).
LEMMA LowerNameType ==
    ASSUME NEW a \in Name
    PROVE  LowerName(a) \in Name
BY WordAssumption DEF Name, LowerName

\* The name of a user with more parts appended is the name of a user.
LEMMA UserConcat ==
    ASSUME NEW u \in User, NEW n \in Name
    PROVE  u \o n \in User
<1>1. u \in Seq(Word \cup Bases) /\ n \in Seq(Word \cup Bases)
  BY SeqMonotonic DEF Name, User
<1>2. /\ u \o n \in Seq(Word \cup Bases)
      /\ Len(u \o n) = Len(u) + Len(n)
      /\ Len(u) \in Nat \ {0} /\ Len(n) \in Nat
      /\ (u \o n)[1] = u[1]
  <2>1. Len(u) \in Nat \ {0} /\ Len(n) \in Nat
    BY <1>1, EmptySeq DEF User
  <2> QED
    BY <1>1, <2>1, ConcatProperties
<1>3. u \o n # << >> /\ u[1] \in Bases
  BY <1>2 DEF User
<1> QED
  BY <1>2, <1>3 DEF User

\* Every default user name is the name of a user.
LEMMA BaseIsUser ==
    ASSUME NEW b \in Bases
    PROVE  <<b>> \in User
BY DEF User

-----------------------------------------------------------------------------
(***************************************************************************)
(* Users and capabilities.                                                 *)
(***************************************************************************)

\* get_caps_and_entity names a user, once run_as_user has been filled in.
LEMMA EntityType ==
    ASSUME NEW f \in Flags, NEW base \in Bases, f.runAs \in User
    PROVE  EntityOf(base, f) \in User
<1>1. /\ f.cluster \in Name /\ f.pool \in Name /\ f.alias \in Name
      /\ f.ns \in Name /\ f.fs \in Name
  BY DEF Flags
<1>2. <<base>> \in User
  BY BaseIsUser
<1>3. CephfsEntity(base, f) \in User
  BY <1>1, <1>2, UserConcat DEF CephfsEntity
<1>4. (IF f.alias = Unset THEN f.pool ELSE f.alias) \in Name
  BY <1>1
<1>5. RbdName(base, f) \in User
  BY <1>1, <1>2, <1>4, UserConcat DEF RbdName
<1>7. RbdEntity(base, f) \in User /\ RbdEntity17(base, f) \in User
  BY <1>1, <1>2, <1>5, UserConcat DEF RbdEntity, RbdEntity17
<1>8. CheckerEntity(f) \in User /\ CheckerEntity17(f) \in User
  BY BaseIsUser DEF CheckerEntity, CheckerEntity17, DefaultChecker, Bases
<1> QED
  BY <1>2, <1>3, <1>7, <1>8 DEF EntityOf

\* Building blocks of capabilities are sets of permissions.
LEMMA AllowType ==
    ASSUME NEW K \in SUBSET Kinds
    PROVE  Allow(K) \in SUBSET Perm
<1>1. Unset \in Name
  BY EmptySeq DEF Unset, Name
<1> QED
  BY <1>1 DEF Allow, Perm

LEMMA AllowOnType ==
    ASSUME NEW k \in Kinds, NEW on \in Name, NEW ns \in Name
    PROVE  AllowOn(k, on, ns) \in SUBSET Perm
BY DEF AllowOn, Perm

LEMMA CapsOnType ==
    ASSUME NEW mon \in SUBSET Perm, NEW mgr \in SUBSET Perm,
           NEW osd \in SUBSET Perm, NEW mds \in SUBSET Perm
    PROVE  /\ CapsOn(mon, mgr, osd, mds) \in Caps
           /\ CapsOn(mon, mgr, osd, mds)["osd"] = osd
BY DEF CapsOn, Caps, Daemons

\* get_caps_and_entity gives capabilities, for every base name and every flags.
LEMMA CapsType ==
    ASSUME NEW f \in Flags, NEW base
    PROVE  CapsOf(base, f) \in Caps
<1>1. /\ f.pool \in Name /\ f.ns \in Name /\ f.fs \in Name
      /\ f.prefix \in Name /\ Unset \in Name
  BY EmptySeq DEF Flags, Name, Unset
<1>2. {} \in SUBSET Perm
  OBVIOUS
<1>3. RbdOsdOf(f) \in SUBSET Perm
  BY <1>1, AllowType, AllowOnType DEF RbdOsdOf, RbdOsd, RbdOsd17, Kinds
<1>4. RbdNodeCaps(RbdOsdOf(f)) \in Caps /\ RbdProvisionerCaps(RbdOsdOf(f)) \in Caps
  BY <1>2, <1>3, AllowType, CapsOnType
     DEF RbdNodeCaps, RbdProvisionerCaps, Kinds
<1>5. CephfsNodeCaps(f) \in Caps /\ CephfsProvisionerCaps(f) \in Caps
  BY <1>1, <1>2, AllowType, AllowOnType, CapsOnType
     DEF CephfsNodeCaps, CephfsProvisionerCaps, CephfsBound, Kinds
<1>6. CheckerCaps(f) \in Caps
  <2>1. \A k \in {"rgw.meta", "rgw.control", "rgw.log", "rgw.buckets.index"} :
           AllowOn(k, f.prefix, Unset) \in SUBSET Perm
    BY <1>1, AllowOnType DEF Kinds
  <2>2. Allow({"profile rbd-read-only", "rgw.root"}) \cup
               UNION {AllowOn(k, f.prefix, Unset) : k \in
                        {"rgw.meta", "rgw.control", "rgw.log",
                         "rgw.buckets.index"}} \in SUBSET Perm
    BY <2>1, AllowType DEF Kinds
  <2>3. /\ Allow({"allow r", "quorum_status", "version"}) \in SUBSET Perm
        /\ Allow({"config"}) \in SUBSET Perm
    BY AllowType DEF Kinds
  <2> QED
    BY <1>2, <2>2, <2>3, CapsOnType DEF CheckerCaps
<1>7. CapsOn({}, {}, {}, {}) \in Caps
  BY <1>2, CapsOnType
<1> QED
  BY <1>4, <1>5, <1>6, <1>7 DEF CapsOf

\* A merge gives capabilities, and nothing is lost by it on either side.
LEMMA MergeProperties ==
    ASSUME NEW a \in Caps, NEW b \in Caps
    PROVE  /\ MergeCaps(a, b) \in Caps
           /\ CapsLeq(a, MergeCaps(a, b))
           /\ CapsLeq(b, MergeCaps(a, b))
BY DEF MergeCaps, CapsLeq, Caps

LEMMA CapsLeqReflexive ==
    ASSUME NEW a
    PROVE  CapsLeq(a, a)
BY DEF CapsLeq

LEMMA CapsLeqTransitive ==
    ASSUME NEW a, NEW b, NEW c, CapsLeq(a, b), CapsLeq(b, c)
    PROVE  CapsLeq(a, c)
BY DEF CapsLeq

\* The prefixes the upgrade's pattern finds are names.
LEMMA PrefixesType ==
    ASSUME NEW c \in Caps
    PROVE  PrefixesIn(c) \subseteq Name
BY DEF PrefixesIn, Caps, Daemons, Perm

\* The switch to restricted permissions changes no other flag.
LEMMA NarrowedType ==
    ASSUME NEW f \in Flags, NEW u \in User
    PROVE  /\ Narrowed(u, f) \in Flags
           /\ Narrowed(u, f).runAs = f.runAs
           /\ Narrowed(u, f).upgrade = f.upgrade
BY DEF Narrowed, Flags

-----------------------------------------------------------------------------
(***************************************************************************)
(* The selection of a CephFS file system.                                  *)
(***************************************************************************)

\* A non-empty set of positions has a first one.
LEMMA FirstIsMember ==
    ASSUME NEW S \in SUBSET Nat, S # {}
    PROVE  First(S) \in S /\ \A j \in S : First(S) <= j
<1> DEFINE T == {0..i : i \in S}
<1>1. T \subseteq FiniteSubsetsOf(Nat) /\ T # {}
  <2>1. \A i \in S : IsFiniteSet(0..i)
    BY FS_Interval
  <2>2. \A i \in S : 0..i \subseteq Nat
    OBVIOUS
  <2> QED
    BY <2>1, <2>2 DEF FiniteSubsetsOf
<1>2. \E x \in T : \A y \in T : ~(<<y, x>> \in StrictSubsetOrdering(Nat))
  BY <1>1, FS_StrictSubsetOrderingWellFounded, WFMin
<1>3. PICK i \in S : \A j \in S : ~(<<0..j, 0..i>> \in StrictSubsetOrdering(Nat))
  BY <1>2
<1>4. ASSUME NEW j \in S, j < i PROVE FALSE
  <2>1. 0..j \subseteq 0..i /\ i \in 0..i /\ i \notin 0..j
    BY <1>4
  <2>2. <<0..j, 0..i>> \in StrictSubsetOrdering(Nat)
    BY <2>1 DEF StrictSubsetOrdering
  <2> QED
    BY <1>3, <2>2
<1>5. \A j \in S : i <= j
  BY <1>4
<1> QED
  BY <1>5 DEF First

\* get_cephfs_data_pool_details goes on with names.
LEMMA SelectType ==
    ASSUME NEW L \in Seq(FileSystem), NEW fs \in Name, NEW pool \in Name
    PROVE  /\ SelectCephfs(L, fs, pool).ok \in BOOLEAN
           /\ SelectCephfs(L, fs, pool).fs \in Name
           /\ SelectCephfs(L, fs, pool).dataPool \in Name
<1> DEFINE found == Candidates(L, fs, pool)
<1>1. DOMAIN L \subseteq Nat /\ found \subseteq DOMAIN L
  BY DEF Candidates
<1>2. CASE found = {}
  BY <1>2 DEF SelectCephfs
<1>3. CASE found # {}
  <2>1. First(found) \in DOMAIN L
    BY <1>1, <1>3, FirstIsMember
  <2> DEFINE chosen == L[First(found)]
  <2>2. chosen \in FileSystem
    BY <2>1, ElementOfSeq
  <2>3. SelectCephfs(L, fs, pool) = SelectPool(chosen, pool)
    BY <1>3 DEF SelectCephfs
  <2> HIDE DEF chosen
  <2>4. chosen.name \in Name /\ chosen.data \in Seq(Name)
    BY <2>2 DEF FileSystem
  <2>5. chosen.data # << >> => chosen.data[1] \in Name
    BY <2>4, EmptySeq
  <2>6. Has(chosen.data, pool) \in BOOLEAN /\ Unset \in Name
    BY EmptySeq DEF Has, Name, Unset
  <2>7. /\ SelectPool(chosen, pool).ok \in BOOLEAN
        /\ SelectPool(chosen, pool).fs \in Name
        /\ SelectPool(chosen, pool).dataPool \in Name
    <3>1. CASE pool # Unset
      BY <2>4, <2>6, <3>1 DEF SelectPool
    <3>2. CASE pool = Unset
      BY <2>4, <2>5, <2>6, <3>2 DEF SelectPool
    <3> QED
      BY <3>1, <3>2
  <2> QED
    BY <2>3, <2>7
<1> QED
  BY <1>2, <1>3

\* get_cephfs_data_pool_details ends well with a pool of its file system, or
\* without a pool.
LEMMA SelectListed ==
    ASSUME NEW L \in Seq(FileSystem), NEW fs \in Name, NEW pool \in Name,
           SelectCephfs(L, fs, pool).ok,
           SelectCephfs(L, fs, pool).dataPool # Unset
    PROVE  \E i \in DOMAIN L :
              /\ L[i].name = SelectCephfs(L, fs, pool).fs
              /\ Has(L[i].data, SelectCephfs(L, fs, pool).dataPool)
<1> DEFINE found == Candidates(L, fs, pool)
           choice == SelectCephfs(L, fs, pool)
<1>1. DOMAIN L \subseteq Nat /\ found \subseteq DOMAIN L
  BY DEF Candidates
<1>2. found # {}
  BY DEF SelectCephfs
<1>3. First(found) \in DOMAIN L
  BY <1>1, <1>2, FirstIsMember
<1> DEFINE chosen == L[First(found)]
<1>4. chosen \in FileSystem
  BY <1>3, ElementOfSeq
<1>5. choice = SelectPool(chosen, pool)
  BY <1>2 DEF SelectCephfs
<1>6. chosen.data \in Seq(Name)
  BY <1>4 DEF FileSystem
<1> HIDE DEF chosen, choice
<1>7. choice.fs = chosen.name /\ Has(chosen.data, choice.dataPool)
  <2>1. CASE pool # Unset
    BY <1>5, <2>1 DEF SelectPool, choice
  <2>2. CASE pool = Unset
    <3>1. chosen.data # << >> /\ choice.dataPool = chosen.data[1]
          /\ choice.fs = chosen.name
      BY <1>5, <2>2 DEF SelectPool, choice
    <3>2. 1 \in DOMAIN chosen.data
      BY <1>6, <3>1, EmptySeq
    <3> QED
      BY <3>1, <3>2 DEF Has
  <2> QED
    BY <2>1, <2>2
<1> QED
  BY <1>3, <1>7 DEF chosen, choice

\* get_cephfs_data_pool_details is asked again with what it chose: it chooses
\* the same, and ends as it ended.  File systems have different names.
LEMMA SelectStable ==
    ASSUME NEW L \in Seq(FileSystem), NEW fs \in Name, NEW pool \in Name,
           \A i \in DOMAIN L : L[i].name # Unset,
           \A i, j \in DOMAIN L : L[i].name = L[j].name => i = j
    PROVE  SelectCephfs(L, SelectCephfs(L, fs, pool).fs,
                        SelectCephfs(L, fs, pool).dataPool)
           = SelectCephfs(L, fs, pool)
<1> DEFINE found == Candidates(L, fs, pool)
           choice == SelectCephfs(L, fs, pool)
<1>1. DOMAIN L \subseteq Nat /\ found \subseteq DOMAIN L
  BY DEF Candidates
<1>2. CASE found = {}
  <2>1. choice.fs = fs /\ choice.dataPool = pool
    BY <1>2 DEF SelectCephfs
  <2> QED
    BY <2>1
<1>3. CASE found # {}
  <2> DEFINE n == First(found)
             chosen == L[n]
  <2>1. n \in DOMAIN L
    BY <1>1, <1>3, FirstIsMember
  <2>2. chosen \in FileSystem /\ chosen.name # Unset
    BY <2>1, ElementOfSeq
  <2>3. choice = SelectPool(chosen, pool)
    BY <1>3 DEF SelectCephfs
  <2> HIDE DEF choice
  <2>4. choice.fs = chosen.name
    BY <2>3 DEF SelectPool
  <2>5. Candidates(L, choice.fs, choice.dataPool) = {n}
    BY <2>1, <2>2, <2>4 DEF Candidates
  <2>6. First({n}) = n
    BY <1>1, <2>1, FirstIsMember
  <2>7. SelectCephfs(L, choice.fs, choice.dataPool)
          = SelectPool(chosen, choice.dataPool)
    BY <2>5, <2>6 DEF SelectCephfs
  <2>8. chosen.data \in Seq(Name)
    BY <2>2 DEF FileSystem
  <2> HIDE DEF chosen
  <2>9. SelectPool(chosen, choice.dataPool) = choice
    <3>1. CASE pool # Unset
      BY <2>3, <3>1 DEF SelectPool
    <3>2. CASE pool = Unset /\ chosen.data = << >>
      BY <2>3, <3>2 DEF SelectPool
    <3>3. CASE pool = Unset /\ chosen.data # << >>
      <4>1. choice = [ok |-> TRUE, fs |-> chosen.name, dataPool |-> chosen.data[1]]
        BY <2>3, <3>3 DEF SelectPool
      <4>2. Has(chosen.data, chosen.data[1])
        BY <2>8, <3>3, EmptySeq DEF Has
      <4>3. CASE chosen.data[1] = Unset
        BY <3>3, <4>1, <4>3 DEF SelectPool
      <4>4. CASE chosen.data[1] # Unset
        BY <4>1, <4>2, <4>4 DEF SelectPool
      <4> QED
        BY <4>3, <4>4
    <3> QED
      BY <3>1, <3>2, <3>3
  <2> QED
    BY <2>7, <2>9 DEF choice
<1> QED
  BY <1>2, <1>3

=============================================================================
