-------------------------- MODULE CephExportProofs --------------------------
(***************************************************************************)
(* Proofs about CephExport for any provider, any set of command lines and  *)
(* any number of overlapping invocations: types; printed credentials stay  *)
(* valid; users of one tenant stay confined; upgrades that are started one *)
(* at a time take no capability away, leave no user behind and add no RGW  *)
(* pools that nobody named; what is printed about CephFS fits; printed     *)
(* credentials suffice where names tell users apart.                       *)
(***************************************************************************)
EXTENDS CephExport, ExternalUsersProofs

UserStages == {"userGet", "userCreate"}
GroupStages == {"groupMake", "groupPin"}

(***************************************************************************)
(* What a stage needs from the memory: the handlers look at the first      *)
(* element of the list, and an export has settled its run_as_user.         *)
(***************************************************************************)
StageOK(stage, m) ==
    /\ stage \in UserStages \cup Upgrading => m.todo \in Seq(User) \ {<< >>}
    /\ stage \in GroupStages => m.todo \in Seq(Name) \ {<< >>}
    /\ stage \in Running \ Upgrading => m.args.runAs \in User

IInv == TypeOK /\ \A r \in Run : StageOK(pc[r], mem[r])

-----------------------------------------------------------------------------
\* The empty memory of a process that has not started or has failed.
LEMMA BlankType == Blank \in Memory /\ NoCaps \in Caps
<1>1. NoCaps \in Caps
  BY CapsOnType DEF NoCaps
<1>2. (CHOOSE f \in Invocations : TRUE) \in Flags
  BY RunAssumption
<1>3. << >> \in Seq(Seq(Word \cup Bases))
  BY EmptySeq
<1> QED
  BY <1>1, <1>2, <1>3 DEF Blank, Memory

\* One invocation moves to a stage whose needs its memory meets.
LEMMA GotoInv ==
    ASSUME IInv, NEW r \in Run, NEW stage \in Stages, NEW m \in Memory,
           StageOK(stage, m), Goto(r, stage, m)
    PROVE  /\ pc' \in [Run -> Stages]
           /\ mem' \in [Run -> Memory]
           /\ \A s \in Run : StageOK(pc[s], mem[s])'
<1>1. /\ pc' \in [Run -> Stages] /\ pc'[r] = stage
      /\ mem' \in [Run -> Memory] /\ mem'[r] = m
      /\ \A s \in Run \ {r} : pc'[s] = pc[s] /\ mem'[s] = mem[s]
  BY DEF IInv, TypeOK, Goto
<1>2. \A s \in Run \ {r} : StageOK(pc[s], mem[s])'
  BY <1>1 DEF IInv, StageOK
<1>3. StageOK(pc[r], mem[r])'
  BY <1>1 DEF StageOK
<1> QED
  BY <1>1, <1>2, <1>3

\* A failing invocation needs nothing.
LEMMA FailInv ==
    ASSUME IInv, NEW r \in Run, Fail(r)
    PROVE  /\ pc' \in [Run -> Stages]
           /\ mem' \in [Run -> Memory]
           /\ \A s \in Run : StageOK(pc[s], mem[s])'
<1>1. StageOK("failed", Blank) /\ "failed" \in Stages
  BY DEF StageOK, UserStages, GroupStages, Running, Upgrading, Stages
<1> QED
  BY <1>1, BlankType, GotoInv DEF Fail

\* Appending to a non-empty list gives a non-empty list.
LEMMA ConcatNonEmpty ==
    ASSUME NEW S, NEW a \in Seq(S), NEW b \in Seq(S), Len(a) # 0
    PROVE  a \o b \in Seq(S) \ {<< >>}
<1>1. /\ a \o b \in Seq(S)
      /\ Len(a \o b) = Len(a) + Len(b)
      /\ Len(a) \in Nat /\ Len(b) \in Nat
  BY ConcatProperties, LenProperties
<1>2. Len(a \o b) # 0
  BY <1>1
<1> QED
  BY <1>1, <1>2, EmptySeq

\* The lists an invocation works through.
LEMMA ListTypes ==
    ASSUME NEW f \in Flags
    PROVE  /\ ExportUsers(f) \in Seq(User) \ {<< >>}
           /\ UpgradeUsers(f) \in Seq(User) \ {<< >>}
           /\ SubvolumeGroups(f) \in Seq(Name)
           /\ HasCephfs(f) => SubvolumeGroups(f) # << >>
<1>1. /\ DefaultChecker \in User /\ <<"csi-rbd-node">> \in User
      /\ <<"csi-rbd-provisioner">> \in User /\ <<"csi-cephfs-node">> \in User
      /\ <<"csi-cephfs-provisioner">> \in User
  BY BaseIsUser DEF Bases, CsiBases, DefaultChecker
<1>2. ExportUsers(f) \in Seq(User) \ {<< >>}
  <2> DEFINE cephfs == IF HasCephfs(f)
                THEN <<<<"csi-cephfs-node">>, <<"csi-cephfs-provisioner">>>>
                ELSE << >>
             rest == <<DefaultChecker, <<"csi-rbd-node">>, <<"csi-rbd-provisioner">>>>
  <2>1. rest \in Seq(User) /\ cephfs \in Seq(User) /\ Len(rest) = 3
    BY <1>1, EmptySeq
  <2>2. ExportUsers(f) = rest \o cephfs
    BY DEF ExportUsers
  <2> HIDE DEF rest, cephfs
  <2> QED
    BY <2>1, <2>2, ConcatNonEmpty
<1>3. UpgradeUsers(f) \in Seq(User) \ {<< >>}
  <2> DEFINE rest == <<<<"csi-cephfs-node">>, <<"csi-cephfs-provisioner">>,
                       <<"csi-rbd-node">>, <<"csi-rbd-provisioner">>, DefaultChecker>>
             own == IF f.runAs = Unset \/ f.runAs \in DefaultUsers
                    THEN << >> ELSE <<f.runAs>>
  <2>1. rest \in Seq(User) /\ Len(rest) = 5
    BY <1>1
  <2>2. own \in Seq(User)
    BY EmptySeq DEF Flags
  <2>3. UpgradeUsers(f) = rest \o own
    BY DEF UpgradeUsers
  <2> HIDE DEF rest, own
  <2> QED
    BY <2>1, <2>2, <2>3, ConcatNonEmpty
<1>4. SubvolumeGroups(f) \in Seq(Name)
      /\ (HasCephfs(f) => SubvolumeGroups(f) # << >>)
  <2> DEFINE own == IF f.group = Unset THEN << >> ELSE <<f.group>>
  <2>1. <<"csi">> \in Name
    BY WordAssumption DEF Name
  <2>2. <<<<"csi">>>> \in Seq(Name) /\ own \in Seq(Name) /\ << >> \in Seq(Name)
    BY <2>1, EmptySeq DEF Flags
  <2>3. SubvolumeGroups(f) = IF ~HasCephfs(f) THEN << >> ELSE <<<<"csi">>>> \o own
    BY DEF SubvolumeGroups
  <2> HIDE DEF own
  <2>4. <<<<"csi">>>> \o own \in Seq(Name) \ {<< >>}
    BY <2>2, ConcatNonEmpty
  <2> QED
    BY <2>2, <2>3, <2>4
<1> QED
  BY <1>2, <1>3, <1>4

\* What is left of a list with more than one element.
LEMMA TailNonEmpty ==
    ASSUME NEW S, NEW q \in Seq(S), Len(q) > 1
    PROVE  Tail(q) \in Seq(S) \ {<< >>}
<1>1. q # << >> /\ Len(q) \in Nat
  BY LenProperties, EmptySeq
<1>2. Tail(q) \in Seq(S) /\ Len(Tail(q)) = Len(q) - 1
  BY <1>1, HeadTailProperties
<1>3. Len(Tail(q)) # 0
  BY <1>1, <1>2
<1> QED
  BY <1>2, <1>3, EmptySeq

\* Users and group names are lists of words, which is what the memory holds.
LEMMA ListsInMemory ==
    ASSUME NEW q \in Seq(User) \cup Seq(Name)
    PROVE  q \in Seq(Seq(Word \cup Bases))
<1>1. User \subseteq Seq(Word \cup Bases)
  BY DEF User
<1>2. Name \subseteq Seq(Word \cup Bases)
  BY SeqMonotonic DEF Name
<1> QED
  BY <1>1, <1>2, SeqMonotonic

-----------------------------------------------------------------------------
(***************************************************************************)
(* The initial state and every action keep the inductive invariant.        *)
(***************************************************************************)
LEMMA InitInv == Init => IInv
<1> SUFFICES ASSUME Init PROVE IInv
  OBVIOUS
<1>1. DOMAIN auth \subseteq User /\ \A u \in DOMAIN auth : auth[u] \in AuthEntry
  BY LegacyAssumption DEF Init
<1>2. issued \in Nat
  BY LegacyAssumption, FS_CardinalityType DEF Init
<1>3. pc \in [Run -> Stages] /\ mem \in [Run -> Memory]
  BY BlankType DEF Init, Stages
<1>4. \A r \in Run : StageOK(pc[r], mem[r])
  BY DEF Init, StageOK, UserStages, GroupStages, Running, Upgrading
<1> QED
  BY <1>1, <1>2, <1>3, <1>4 DEF Init, IInv, TypeOK

\* The constructor's defaults.
LEMMA ParsedType ==
    ASSUME NEW f \in Flags
    PROVE  /\ Parsed(f) \in Flags
           /\ ~f.upgrade => Parsed(f).runAs \in User
           /\ Parsed(f).upgrade = f.upgrade
<1>1. DefaultChecker \in User /\ DefaultPrefix \in Name
  BY BaseIsUser, RunAssumption DEF Bases, DefaultChecker
<1>2. CASE f.upgrade
  BY <1>2 DEF Parsed
<1>3. CASE ~f.upgrade
  BY <1>1, <1>3 DEF Parsed, Flags
<1> QED
  BY <1>2, <1>3

LEMMA StartInv ==
    ASSUME IInv, NEW r \in Run, Start(r)
    PROVE  IInv'
<1>1. PICK f \in Invocations :
        LET m == [mem[r] EXCEPT !.args = Parsed(f)] IN
        IF f.upgrade
        THEN Goto(r, "upgradeGet", [m EXCEPT !.todo = UpgradeUsers(f)])
        ELSE IF f.pool = Unset THEN Fail(r) ELSE Goto(r, "pool", m)
  BY DEF Start, Conflicting
<1> DEFINE m == [mem[r] EXCEPT !.args = Parsed(f)]
<1>2. f \in Flags /\ mem[r] \in Memory
  BY RunAssumption DEF IInv, TypeOK
<1>3. m \in Memory /\ m.args = Parsed(f)
  BY <1>2, ParsedType DEF Memory
<1>4. CASE f.upgrade
  <2> DEFINE n == [m EXCEPT !.todo = UpgradeUsers(f)]
  <2>1. UpgradeUsers(f) \in Seq(User) \ {<< >>}
        /\ UpgradeUsers(f) \in Seq(Seq(Word \cup Bases))
    BY <1>2, ListTypes, ListsInMemory
  <2>2. n \in Memory /\ n.todo = UpgradeUsers(f)
    BY <1>3, <2>1 DEF Memory
  <2>3. Goto(r, "upgradeGet", n)
    BY <1>1, <1>4
  <2>4. StageOK("upgradeGet", n) /\ "upgradeGet" \in Stages
    BY <2>1, <2>2 DEF StageOK, Stages, Running, Upgrading, GroupStages
  <2> HIDE DEF n, m
  <2> QED
    BY <2>2, <2>3, <2>4, GotoInv DEF Start, provider, IInv, TypeOK
<1>5. CASE ~f.upgrade /\ f.pool = Unset
  BY <1>1, <1>5, FailInv DEF Start, provider, IInv, TypeOK
<1>6. CASE ~f.upgrade /\ f.pool # Unset
  <2>1. Goto(r, "pool", m)
    BY <1>1, <1>6
  <2>2. StageOK("pool", m) /\ "pool" \in Stages
    BY <1>2, <1>3, <1>6, ParsedType
       DEF StageOK, Stages, Running, Upgrading, GroupStages, UserStages
  <2> HIDE DEF m
  <2> QED
    BY <1>3, <2>1, <2>2, GotoInv DEF Start, provider, IInv, TypeOK
<1> QED
  BY <1>4, <1>5, <1>6

LEMMA AbortInv ==
    ASSUME IInv, NEW r \in Run, Abort(r)
    PROVE  IInv'
BY FailInv DEF Abort, provider, IInv, TypeOK

\* The flags with the lower-cased cluster name.
LEMMA InitPoolInv ==
    ASSUME IInv, NEW r \in Run, InitPool(r)
    PROVE  IInv'
<1> DEFINE f == mem[r].args
           m == [mem[r] EXCEPT !.args.cluster = ClusterName(f)]
<1>1. mem[r] \in Memory /\ f \in Flags /\ f.runAs \in User
  BY DEF IInv, TypeOK, InitPool, StageOK, Running, Upgrading, Memory
<1>2. ClusterName(f) \in Name
  BY <1>1, LowerNameType DEF ClusterName, Flags
<1>3. m \in Memory /\ m.args.runAs = f.runAs
  BY <1>1, <1>2 DEF Memory, Flags
<1>4. CASE f.pool \in Pools
  <2>1. Goto(r, "cluster", m) /\ poolInit' = poolInit \cup {f.pool}
    BY <1>4 DEF InitPool
  <2>2. StageOK("cluster", m) /\ "cluster" \in Stages
    BY <1>1, <1>3 DEF StageOK, Stages, Running, Upgrading, UserStages, GroupStages
  <2>3. poolInit' \subseteq Name
    BY <1>1, <2>1 DEF IInv, TypeOK, Flags
  <2> HIDE DEF f, m
  <2> QED
    BY <1>3, <2>1, <2>2, <2>3, GotoInv DEF InitPool, IInv, TypeOK
<1>5. CASE f.pool \notin Pools
  <2>1. Fail(r) /\ UNCHANGED poolInit
    BY <1>5 DEF InitPool
  <2> QED
    BY <2>1, FailInv DEF InitPool, IInv, TypeOK
<1> QED
  BY <1>4, <1>5

LEMMA ReadClusterInv ==
    ASSUME IInv, NEW r \in Run, ReadCluster(r)
    PROVE  IInv'
<1> DEFINE f == mem[r].args
           Choice(listed) ==
               IF f.dryRun \/ ~listed
               THEN [ok |-> f.dryRun \/ (f.fs = Unset /\ f.dataPool = Unset),
                     fs |-> f.fs, dataPool |-> f.dataPool]
               ELSE SelectCephfs(FsList, f.fs, f.dataPool)
           Chosen(listed) == [f EXCEPT !.fs = Choice(listed).fs,
                                       !.dataPool = Choice(listed).dataPool]
           Mem(listed) == [mem[r] EXCEPT !.args = Chosen(listed),
                                         !.todo = ExportUsers(Chosen(listed))]
<1>1. mem[r] \in Memory /\ f \in Flags /\ f.runAs \in User
  BY DEF IInv, TypeOK, ReadCluster, StageOK, Running, Upgrading, Memory
<1>2. PICK listed \in BOOLEAN :
         /\ Lookup(listed)
         /\ IF NamespaceOKOf(f) /\ Choice(listed).ok
            THEN Goto(r, "userGet", Mem(listed)) ELSE Fail(r)
  BY DEF ReadCluster
<1>3. faults' \in Nat
  BY <1>2 DEF Lookup, IInv, TypeOK
<1>4. Choice(listed).fs \in Name /\ Choice(listed).dataPool \in Name
  BY <1>1, SelectType, RunAssumption DEF Flags
<1>5. Chosen(listed) \in Flags /\ Chosen(listed).runAs = f.runAs
  <2> HIDE DEF Choice
  <2> QED
    BY <1>1, <1>4 DEF Flags
<1>6. ExportUsers(Chosen(listed)) \in Seq(User) \ {<< >>}
      /\ ExportUsers(Chosen(listed)) \in Seq(Seq(Word \cup Bases))
  <2> HIDE DEF Chosen
  <2> QED
    BY <1>5, ListTypes, ListsInMemory
<1>7. /\ Mem(listed) \in Memory
      /\ Mem(listed).todo = ExportUsers(Chosen(listed))
      /\ Mem(listed).args = Chosen(listed)
  <2> HIDE DEF Chosen
  <2> QED
    BY <1>1, <1>5, <1>6 DEF Memory
<1>8. StageOK("userGet", Mem(listed)) /\ "userGet" \in Stages
  <2> HIDE DEF Chosen, Mem
  <2> QED
    BY <1>1, <1>5, <1>6, <1>7
       DEF StageOK, Stages, Running, Upgrading, GroupStages
<1>9. CASE NamespaceOKOf(f) /\ Choice(listed).ok
  <2>1. Goto(r, "userGet", Mem(listed))
    BY <1>2, <1>9
  <2> HIDE DEF Mem
  <2> QED
    BY <1>3, <1>7, <1>8, <2>1, GotoInv DEF ReadCluster, provider, IInv, TypeOK
<1>10. CASE ~(NamespaceOKOf(f) /\ Choice(listed).ok)
  <2>1. Fail(r)
    BY <1>2, <1>10
  <2> QED
    BY <1>3, <2>1, FailInv DEF ReadCluster, provider, IInv, TypeOK
<1> QED
  BY <1>9, <1>10

\* On to the next user: the memory keeps its shape.
LEMMA NextUserInv ==
    ASSUME IInv, NEW r \in Run, NEW m \in Memory, NextUser(r, m),
           m.todo \in Seq(User) \ {<< >>}, m.args.runAs \in User
    PROVE  /\ pc' \in [Run -> Stages]
           /\ mem' \in [Run -> Memory]
           /\ \A s \in Run : StageOK(pc[s], mem[s])'
<1>1. m.args \in Flags
  BY DEF Memory
<1>2. CASE Len(m.todo) > 1
  <2> DEFINE n == [m EXCEPT !.todo = Tail(@)]
  <2>1. Tail(m.todo) \in Seq(User) \ {<< >>}
    BY <1>2, TailNonEmpty
  <2>2. Tail(m.todo) \in Seq(Seq(Word \cup Bases))
    BY <2>1, ListsInMemory
  <2>3. n \in Memory /\ n.todo = Tail(m.todo) /\ n.args = m.args
    BY <2>2 DEF Memory
  <2>4. StageOK("userGet", n) /\ "userGet" \in Stages
    BY <2>1, <2>3 DEF StageOK, Stages, Running, Upgrading, GroupStages
  <2>5. Goto(r, "userGet", n)
    BY <1>2 DEF NextUser
  <2> HIDE DEF n
  <2> QED
    BY <2>3, <2>4, <2>5, GotoInv
<1>3. CASE ~(Len(m.todo) > 1)
  <2> DEFINE n == [m EXCEPT !.todo = SubvolumeGroups(m.args)]
             stage == IF HasCephfs(m.args) THEN "groupMake" ELSE "print"
  <2>1. /\ SubvolumeGroups(m.args) \in Seq(Name)
        /\ HasCephfs(m.args) => SubvolumeGroups(m.args) # << >>
        /\ SubvolumeGroups(m.args) \in Seq(Seq(Word \cup Bases))
    BY <1>1, ListTypes, ListsInMemory
  <2>2. n \in Memory /\ n.todo = SubvolumeGroups(m.args) /\ n.args = m.args
    BY <2>1 DEF Memory
  <2>3. StageOK(stage, n) /\ stage \in Stages
    BY <2>1, <2>2 DEF StageOK, Stages, Running, Upgrading, GroupStages, UserStages
  <2>4. Goto(r, stage, n)
    BY <1>3 DEF NextUser
  <2> HIDE DEF n, stage
  <2> QED
    BY <2>2, <2>3, <2>4, GotoInv
<1> QED
  BY <1>2, <1>3

\* One more credential.
LEMMA CollectType ==
    ASSUME NEW m \in Memory, NEW base \in Bases, NEW key \in Nat,
           m.args.runAs \in User
    PROVE  /\ Collect(m, base, key) \in Memory
           /\ Collect(m, base, key).todo = m.todo
           /\ Collect(m, base, key).args = m.args
<1> DEFINE user == IF base = "healthchecker" THEN m.args.runAs
                                            ELSE EntityOf(base, m.args)
           c == [base |-> base, key |-> key, user |-> user]
<1>1. user \in User
  BY EntityType DEF Memory
<1> HIDE DEF user
<1>2. c \in Credential
  BY <1>1 DEF Credential
<1>3. Collect(m, base, key) = [m EXCEPT !.creds = @ \cup {c}]
  BY DEF Collect, user
<1> HIDE DEF c
<1> QED
  BY <1>2, <1>3 DEF Memory

\* The user an invocation is about to handle.
LEMMA CurrentUser ==
    ASSUME IInv, NEW r \in Run, pc[r] \in UserStages \cup Upgrading
    PROVE  /\ mem[r] \in Memory
           /\ mem[r].args \in Flags
           /\ mem[r].todo \in Seq(User) \ {<< >>}
           /\ mem[r].todo[1] \in User
           /\ BaseOf(mem[r].todo[1]) \in Bases
           /\ pc[r] \in UserStages => mem[r].args.runAs \in User
<1>1. /\ mem[r] \in Memory
      /\ mem[r].todo \in Seq(User) \ {<< >>}
      /\ pc[r] \in UserStages => mem[r].args.runAs \in User
  BY DEF IInv, TypeOK, StageOK, UserStages, Running, Upgrading
<1>2. mem[r].todo[1] \in User
  BY <1>1, EmptySeq
<1> QED
  BY <1>1, <1>2 DEF Memory, User, BaseOf

LEMMA GetUserInv ==
    ASSUME IInv, NEW r \in Run, GetUser(r)
    PROVE  IInv'
<1> DEFINE base == BaseOf(mem[r].todo[1])
           entity == EntityOf(base, mem[r].args)
<1>1. /\ mem[r] \in Memory /\ base \in Bases
      /\ mem[r].todo \in Seq(User) \ {<< >>}
      /\ mem[r].args.runAs \in User
  BY CurrentUser DEF GetUser, UserStages
<1>2. UNCHANGED provider /\ (faults' = faults \/ faults' = faults + 1)
  BY DEF GetUser, Lookup
<1>3. faults' \in Nat
  BY <1>2 DEF IInv, TypeOK
<1>4. CASE Fail(r)
  BY <1>2, <1>3, <1>4, FailInv DEF provider, IInv, TypeOK
<1>5. CASE NextUser(r, mem[r])
  BY <1>1, <1>2, <1>3, <1>5, NextUserInv DEF provider, IInv, TypeOK
<1>6. CASE /\ entity \in DOMAIN auth
           /\ NextUser(r, Collect(mem[r], base, auth[entity].key))
  <2>1. auth[entity].key \in Nat
    BY <1>6 DEF IInv, TypeOK, AuthEntry
  <2> DEFINE m == Collect(mem[r], base, auth[entity].key)
  <2>2. m \in Memory /\ m.todo = mem[r].todo /\ m.args = mem[r].args
    BY <1>1, <2>1, CollectType
  <2> HIDE DEF m
  <2>3. NextUser(r, m)
    BY <1>6 DEF m
  <2> QED
    BY <1>1, <1>2, <1>3, <2>2, <2>3, NextUserInv DEF provider, IInv, TypeOK
<1>7. CASE Goto(r, "userCreate", mem[r])
  <2>1. StageOK("userCreate", mem[r]) /\ "userCreate" \in Stages
    BY <1>1 DEF StageOK, Stages, Running, Upgrading, GroupStages
  <2> QED
    BY <1>1, <1>2, <1>3, <1>7, <2>1, GotoInv DEF provider, IInv, TypeOK
<1> QED
  BY <1>4, <1>5, <1>6, <1>7 DEF GetUser

LEMMA CreateUserInv ==
    ASSUME IInv, NEW r \in Run, CreateUser(r)
    PROVE  IInv'
<1> DEFINE base == BaseOf(mem[r].todo[1])
           entity == EntityOf(base, mem[r].args)
           caps == CapsOf(base, mem[r].args)
<1>1. /\ mem[r] \in Memory /\ mem[r].args \in Flags /\ base \in Bases
      /\ mem[r].todo \in Seq(User) \ {<< >>}
      /\ mem[r].args.runAs \in User
  BY CurrentUser DEF CreateUser, UserStages
<1>2. UNCHANGED <<poolInit, groups, pinned, faults>>
  BY DEF CreateUser
<1>3. entity \in User /\ caps \in Caps
  BY <1>1, EntityType, CapsType
<1>4. ASSUME NEW key \in Nat, NextUser(r, Collect(mem[r], base, key))
      PROVE  /\ pc' \in [Run -> Stages]
             /\ mem' \in [Run -> Memory]
             /\ \A s \in Run : StageOK(pc[s], mem[s])'
  <2> DEFINE m == Collect(mem[r], base, key)
  <2>1. m \in Memory /\ m.todo = mem[r].todo /\ m.args = mem[r].args
    BY <1>1, CollectType
  <2> HIDE DEF m
  <2>2. NextUser(r, m)
    BY <1>4 DEF m
  <2> QED
    BY <1>1, <2>1, <2>2, NextUserInv
<1>5. CASE /\ entity \notin DOMAIN auth
           /\ auth' = [u \in DOMAIN auth \cup {entity} |->
                         IF u = entity THEN [key |-> issued, caps |-> caps]
                                       ELSE auth[u]]
           /\ issued' = issued + 1
           /\ NextUser(r, Collect(mem[r], base, issued))
  <2>1. issued \in Nat /\ issued' \in Nat
    BY <1>5 DEF IInv, TypeOK
  <2>2. [key |-> issued, caps |-> caps] \in AuthEntry
    BY <1>3, <2>1 DEF AuthEntry
  <2> HIDE DEF entity, caps
  <2>3. DOMAIN auth' \subseteq User /\ \A u \in DOMAIN auth' : auth'[u] \in AuthEntry
    BY <1>3, <1>5, <2>2 DEF IInv, TypeOK
  <2>4. /\ pc' \in [Run -> Stages]
        /\ mem' \in [Run -> Memory]
        /\ \A s \in Run : StageOK(pc[s], mem[s])'
    BY <1>4, <1>5, <2>1
  <2> QED
    BY <1>2, <2>1, <2>3, <2>4 DEF IInv, TypeOK
<1>6. CASE /\ entity \in DOMAIN auth
           /\ NextUser(r, Collect(mem[r], base, auth[entity].key))
           /\ UNCHANGED <<auth, issued>>
  <2>1. auth[entity].key \in Nat
    BY <1>6 DEF IInv, TypeOK, AuthEntry
  <2>2. /\ pc' \in [Run -> Stages]
        /\ mem' \in [Run -> Memory]
        /\ \A s \in Run : StageOK(pc[s], mem[s])'
    BY <1>4, <1>6, <2>1
  <2> QED
    BY <1>2, <1>6, <2>2 DEF IInv, TypeOK
<1>7. CASE Fail(r) /\ UNCHANGED <<auth, issued>>
  BY <1>2, <1>7, FailInv DEF IInv, TypeOK
<1> QED
  BY <1>5, <1>6, <1>7 DEF CreateUser

LEMMA GroupInv ==
    ASSUME IInv, NEW r \in Run, MakeGroup(r) \/ PinGroup(r)
    PROVE  IInv'
<1> DEFINE list == mem[r].todo
<1>1. /\ mem[r] \in Memory /\ mem[r].args.fs \in Name
      /\ mem[r].args.runAs \in User
      /\ list \in Seq(Name) \ {<< >>}
  BY DEF MakeGroup, PinGroup, IInv, TypeOK, StageOK, GroupStages, Running,
         Upgrading, Memory, Flags
<1>2. <<mem[r].args.fs, list[1]>> \in Name \X Name
  BY <1>1, EmptySeq
<1>3. CASE MakeGroup(r)
  <2>1. StageOK("groupPin", mem[r]) /\ "groupPin" \in Stages
    BY <1>1 DEF StageOK, Stages, Running, Upgrading, UserStages
  <2>2. groups' \subseteq Name \X Name
    BY <1>2, <1>3 DEF MakeGroup, IInv, TypeOK
  <2> QED
    BY <1>1, <1>3, <2>1, <2>2, GotoInv DEF MakeGroup, IInv, TypeOK
<1>4. CASE PinGroup(r)
  <2> DEFINE m == [mem[r] EXCEPT !.todo = Tail(@)]
             stage == IF Len(list) > 1 THEN "groupMake" ELSE "print"
  <2>1. Tail(list) \in Seq(Name) /\ (Len(list) > 1 => Tail(list) # << >>)
    BY <1>1, HeadTailProperties, TailNonEmpty
  <2>2. m \in Memory /\ m.todo = Tail(list) /\ m.args = mem[r].args
    BY <1>1, <2>1, ListsInMemory DEF Memory
  <2>3. StageOK(stage, m) /\ stage \in Stages
    BY <1>1, <2>1, <2>2
       DEF StageOK, Stages, Running, Upgrading, UserStages, GroupStages
  <2>4. pinned' \subseteq Name \X Name
    BY <1>2, <1>4 DEF PinGroup, IInv, TypeOK
  <2>5. Goto(r, stage, m)
    BY <1>4 DEF PinGroup
  <2> HIDE DEF m, stage
  <2> QED
    BY <1>4, <2>2, <2>3, <2>4, <2>5, GotoInv DEF PinGroup, IInv, TypeOK
<1> QED
  BY <1>3, <1>4

LEMMA PrintInv ==
    ASSUME IInv, NEW r \in Run, PrintOutput(r)
    PROVE  IInv'
<1>1. StageOK("done", mem[r]) /\ "done" \in Stages /\ mem[r] \in Memory
  BY DEF StageOK, Stages, Running, Upgrading, UserStages, GroupStages, IInv, TypeOK
<1> QED
  BY <1>1, GotoInv DEF PrintOutput, provider, IInv, TypeOK

\* On to the next user of an upgrade.
LEMMA NextUpgradeInv ==
    ASSUME IInv, NEW r \in Run, NEW m \in Memory, NextUpgrade(r, m),
           m.todo \in Seq(User) \ {<< >>}
    PROVE  /\ pc' \in [Run -> Stages]
           /\ mem' \in [Run -> Memory]
           /\ \A s \in Run : StageOK(pc[s], mem[s])'
<1> DEFINE n == [m EXCEPT !.todo = Tail(@), !.seen = NoCaps]
           stage == IF Len(m.todo) > 1 THEN "upgradeGet" ELSE "done"
<1>1. Tail(m.todo) \in Seq(User) /\ (Len(m.todo) > 1 => Tail(m.todo) # << >>)
  BY HeadTailProperties, TailNonEmpty
<1>2. n \in Memory /\ n.todo = Tail(m.todo)
  BY <1>1, ListsInMemory, BlankType DEF Memory
<1>3. StageOK(stage, n) /\ stage \in Stages
  BY <1>1, <1>2 DEF StageOK, Stages, Running, Upgrading, UserStages, GroupStages
<1>4. Goto(r, stage, n)
  BY DEF NextUpgrade
<1> HIDE DEF n, stage
<1> QED
  BY <1>2, <1>3, <1>4, GotoInv

LEMMA UpgradeGetInv ==
    ASSUME IInv, NEW r \in Run, UpgradeGet(r)
    PROVE  IInv'
<1> DEFINE user == mem[r].todo[1]
<1>1. /\ mem[r] \in Memory /\ mem[r].args \in Flags /\ user \in User
      /\ mem[r].todo \in Seq(User) \ {<< >>}
  BY CurrentUser DEF UpgradeGet, Upgrading
<1>2. UNCHANGED provider /\ (faults' = faults \/ faults' = faults + 1)
  BY DEF UpgradeGet, Lookup
<1>3. faults' \in Nat
  BY <1>2 DEF IInv, TypeOK
<1>4. CASE NextUpgrade(r, [mem[r] EXCEPT !.missing = @ \cup {user}])
  <2> DEFINE m == [mem[r] EXCEPT !.missing = @ \cup {user}]
  <2>1. m \in Memory /\ m.todo = mem[r].todo
    BY <1>1 DEF Memory
  <2> HIDE DEF m
  <2>2. NextUpgrade(r, m)
    BY <1>4 DEF m
  <2> QED
    BY <1>1, <1>2, <1>3, <2>1, <2>2, NextUpgradeInv DEF provider, IInv, TypeOK
<1>5. CASE Fail(r)
  BY <1>2, <1>3, <1>5, FailInv DEF provider, IInv, TypeOK
<1>6. ASSUME user \in DOMAIN auth,
             NEW p \in PrefixChoices(user, mem[r].args, auth[user].caps),
             Goto(r, "upgradeSet",
                  [mem[r] EXCEPT
                      !.args = Narrowed(user, [mem[r].args EXCEPT !.prefix = p]),
                      !.seen = auth[user].caps])
      PROVE  IInv'
  <2> DEFINE f == Narrowed(user, [mem[r].args EXCEPT !.prefix = p])
             m == [mem[r] EXCEPT !.args = f, !.seen = auth[user].caps]
  <2>1. auth[user].caps \in Caps
    BY <1>6 DEF IInv, TypeOK, AuthEntry
  <2>2. p \in Name
    BY <1>1, <2>1, PrefixesType DEF PrefixChoices, Flags
  <2>3. [mem[r].args EXCEPT !.prefix = p] \in Flags
    BY <1>1, <2>2 DEF Flags
  <2>4. f \in Flags
    BY <1>1, <2>3, NarrowedType
  <2> HIDE DEF f
  <2>5. m \in Memory /\ m.todo = mem[r].todo
    BY <1>1, <2>1, <2>4 DEF Memory
  <2>6. StageOK("upgradeSet", m) /\ "upgradeSet" \in Stages
    BY <1>1, <2>5 DEF StageOK, Stages, Running, Upgrading, GroupStages
  <2>7. Goto(r, "upgradeSet", m)
    BY <1>6 DEF f
  <2> HIDE DEF m
  <2> QED
    BY <1>2, <1>3, <2>5, <2>6, <2>7, GotoInv DEF provider, IInv, TypeOK
<1> QED
  BY <1>4, <1>5, <1>6 DEF UpgradeGet

LEMMA UpgradeSetInv ==
    ASSUME IInv, NEW r \in Run, UpgradeSet(r)
    PROVE  IInv'
<1> DEFINE user == mem[r].todo[1]
           caps == MergeCaps(mem[r].seen, CapsOf(BaseOf(user), mem[r].args))
<1>1. /\ mem[r] \in Memory /\ mem[r].args \in Flags /\ user \in User
      /\ mem[r].todo \in Seq(User) \ {<< >>}
  BY CurrentUser DEF UpgradeSet, Upgrading
<1>2. caps \in Caps
  BY <1>1, CapsType, MergeProperties DEF Memory
<1>3. auth' = [auth EXCEPT ![user].caps = caps]
  BY DEF UpgradeSet
<1> HIDE DEF caps, user
<1>4. DOMAIN auth' \subseteq User /\ \A u \in DOMAIN auth' : auth'[u] \in AuthEntry
  BY <1>2, <1>3 DEF IInv, TypeOK, AuthEntry
<1>5. NextUpgrade(r, mem[r]) /\ UNCHANGED <<issued, poolInit, groups, pinned, faults>>
  BY DEF UpgradeSet
<1> QED
  BY <1>1, <1>4, <1>5, NextUpgradeInv DEF IInv, TypeOK

LEMMA NextInv == IInv /\ [Next]_vars => IInv'
<1> SUFFICES ASSUME IInv, [Next]_vars PROVE IInv'
  OBVIOUS
<1>1. CASE UNCHANGED vars
  BY <1>1 DEF vars, IInv, TypeOK, StageOK
<1>2. ASSUME NEW r \in Run, Start(r) \/ Step(r) \/ Abort(r) PROVE IInv'
  BY <1>2, StartInv, AbortInv, InitPoolInv, ReadClusterInv, GetUserInv,
     CreateUserInv, GroupInv, PrintInv, UpgradeGetInv, UpgradeSetInv DEF Step
<1> QED
  BY <1>1, <1>2 DEF Next

\* Every reachable state has the types of TypeOK, and every handler finds in
\* memory what it looks at (IInv).
THEOREM InvariantHolds == Spec => []IInv
BY InitInv, NextInv, PTL DEF Spec

\* The auth database, the lists of users and groups, the flags and the collected
\* credentials of every invocation stay well-formed, for every provider and any
\* number of concurrent invocations.
THEOREM TypesHold == Spec => []TypeOK
<1>1. IInv => TypeOK
  BY DEF IInv
<1> QED
  BY <1>1, InvariantHolds, PTL

-----------------------------------------------------------------------------
Act(r) == Start(r) \/ Step(r) \/ Abort(r)
ExportStep(r) ==
    \/ InitPool(r) \/ ReadCluster(r) \/ GetUser(r) \/ CreateUser(r)
    \/ MakeGroup(r) \/ PinGroup(r) \/ PrintOutput(r)

-----------------------------------------------------------------------------
(***************************************************************************)
(* What an action does to the program counters, the memories and auth.     *)
(***************************************************************************)

\* A move of one invocation: it has the new memory, the others keep theirs.
LEMMA GotoAt ==
    ASSUME IInv, NEW r \in Run, NEW stage, NEW m, Goto(r, stage, m)
    PROVE  /\ pc'[r] = stage /\ mem'[r] = m
           /\ \A s \in Run \ {r} : pc'[s] = pc[s] /\ mem'[s] = mem[s]
BY DEF IInv, TypeOK, Goto

\* Each action moves its own invocation only.
LEMMA OthersUnmoved ==
    ASSUME IInv, NEW r \in Run, Act(r)
    PROVE  \A s \in Run \ {r} : pc'[s] = pc[s] /\ mem'[s] = mem[s]
<1>1. \E stage, m : Goto(r, stage, m)
  <2>1. ASSUME NEW m, NextUser(r, m) PROVE \E stage, n : Goto(r, stage, n)
    BY <2>1 DEF NextUser
  <2>2. ASSUME NEW m, NextUpgrade(r, m) PROVE \E stage, n : Goto(r, stage, n)
    BY <2>2 DEF NextUpgrade
  <2>3. ASSUME Fail(r) PROVE \E stage, n : Goto(r, stage, n)
    BY <2>3 DEF Fail
  <2>4. CASE Start(r)
    BY <2>3, <2>4 DEF Start
  <2>5. CASE Abort(r)
    BY <2>3, <2>5 DEF Abort
  <2>6. CASE InitPool(r)
    BY <2>3, <2>6 DEF InitPool
  <2>7. CASE ReadCluster(r)
    BY <2>3, <2>7 DEF ReadCluster
  <2>8. CASE GetUser(r)
    BY <2>1, <2>3, <2>8 DEF GetUser
  <2>9. CASE CreateUser(r)
    BY <2>1, <2>3, <2>9 DEF CreateUser
  <2>10. CASE MakeGroup(r) \/ PinGroup(r) \/ PrintOutput(r)
    BY <2>10 DEF MakeGroup, PinGroup, PrintOutput
  <2>11. CASE UpgradeGet(r)
    BY <2>2, <2>3, <2>11 DEF UpgradeGet
  <2>12. CASE UpgradeSet(r)
    BY <2>2, <2>12 DEF UpgradeSet
  <2> QED
    BY <2>4, <2>5, <2>6, <2>7, <2>8, <2>9, <2>10, <2>11, <2>12 DEF Act, Step
<1> QED
  BY <1>1, GotoAt

\* An export never comes to the stages of an upgrade.
LEMMA ExportStages ==
    ASSUME IInv, NEW r \in Run, ExportStep(r)
    PROVE  pc'[r] \notin Upgrading
<1>1. ASSUME NEW m, NextUser(r, m) PROVE pc'[r] \notin Upgrading
  <2>1. PICK stage \in {"userGet", "groupMake", "print"} : \E n : Goto(r, stage, n)
    BY <1>1 DEF NextUser
  <2> QED
    BY <2>1, GotoAt DEF Upgrading
<1>2. ASSUME NEW m, NEW stage \in Stages \ Upgrading, Goto(r, stage, m)
      PROVE  pc'[r] \notin Upgrading
  BY <1>2, GotoAt
<1>3. ASSUME Fail(r) PROVE pc'[r] \notin Upgrading
  BY <1>3, GotoAt DEF Fail, Upgrading
<1>4. {"cluster", "userGet", "userCreate", "groupPin", "groupMake", "print", "done"}
          \subseteq Stages \ Upgrading
  BY DEF Stages, Running, Upgrading
<1>5. CASE InitPool(r)
  BY <1>2, <1>3, <1>4, <1>5 DEF InitPool
<1>6. CASE ReadCluster(r)
  BY <1>2, <1>3, <1>4, <1>6 DEF ReadCluster
<1>7. CASE GetUser(r)
  BY <1>1, <1>2, <1>3, <1>4, <1>7 DEF GetUser
<1>8. CASE CreateUser(r)
  BY <1>1, <1>3, <1>8 DEF CreateUser
<1>9. CASE MakeGroup(r)
  BY <1>2, <1>4, <1>9 DEF MakeGroup
<1>10. CASE PinGroup(r)
  BY <1>2, <1>4, <1>10 DEF PinGroup
<1>11. CASE PrintOutput(r)
  BY <1>2, <1>4, <1>11 DEF PrintOutput
<1> QED
  BY <1>5, <1>6, <1>7, <1>8, <1>9, <1>10, <1>11 DEF ExportStep

\* Only UpgradeSet touches a user that exists, and then only its capabilities.
LEMMA UsersKept ==
    ASSUME IInv, NEW r \in Run, Act(r), ~UpgradeSet(r)
    PROVE  \A u \in DOMAIN auth : u \in DOMAIN auth' /\ auth'[u] = auth[u]
<1>1. CASE CreateUser(r)
  <2>1. \/ UNCHANGED auth
        \/ \E e, c : /\ e \notin DOMAIN auth
                     /\ auth' = [u \in DOMAIN auth \cup {e} |->
                                   IF u = e THEN c ELSE auth[u]]
    BY <1>1 DEF CreateUser
  <2> QED
    BY <2>1
<1>2. CASE ~CreateUser(r)
  BY <1>2 DEF Act, Step, Start, Abort, InitPool, ReadCluster, GetUser, MakeGroup,
              PinGroup, PrintOutput, UpgradeGet, provider
<1> QED
  BY <1>1, <1>2

LEMMA KeysKept ==
    ASSUME IInv, NEW r \in Run, Act(r)
    PROVE  \A u \in DOMAIN auth : u \in DOMAIN auth' /\ auth'[u].key = auth[u].key
<1>1. CASE UpgradeSet(r)
  BY <1>1 DEF UpgradeSet, IInv, TypeOK, AuthEntry
<1> QED
  BY <1>1, UsersKept

-----------------------------------------------------------------------------
(***************************************************************************)
(* Printed credentials.  Ceph 17 prints the checker under --run-as-user    *)
(* but creates the default one (CheckerEntity17), so the theorem is about  *)
(* command lines that do not give that copy another name.                  *)
(***************************************************************************)
DefaultChecker17 ==
    \A f \in Invocations : f.release = "ceph-17" => f.runAs \in {Unset, DefaultChecker}

CredInv ==
    /\ \A r \in Run :
          /\ pc[r] \in Running \ Upgrading /\ mem[r].args.release = "ceph-17"
             => mem[r].args.runAs = DefaultChecker
          /\ \A c \in mem[r].creds : /\ c.user \in DOMAIN auth
                                    /\ auth[c.user].key = c.key

\* What an action of r must establish, when users keep their keys.
LEMMA CredStep ==
    ASSUME IInv, CredInv, NEW r \in Run, Act(r),
           pc'[r] \in Running \ Upgrading /\ mem'[r].args.release = "ceph-17"
              => mem'[r].args.runAs = DefaultChecker,
           \A c \in mem'[r].creds : /\ c.user \in DOMAIN auth'
                                   /\ auth'[c.user].key = c.key
    PROVE  CredInv'
<1>1. ASSUME NEW s \in Run \ {r}, NEW c \in mem'[s].creds
      PROVE  c.user \in DOMAIN auth' /\ auth'[c.user].key = c.key
  BY <1>1, OthersUnmoved, KeysKept DEF CredInv
<1>2. ASSUME NEW s \in Run \ {r},
             pc'[s] \in Running \ Upgrading, mem'[s].args.release = "ceph-17"
      PROVE  mem'[s].args.runAs = DefaultChecker
  BY <1>2, OthersUnmoved DEF CredInv
<1> QED
  BY <1>1, <1>2 DEF CredInv

\* A move that keeps the flags' release and run_as_user and the credentials.
LEMMA CredSame ==
    ASSUME IInv, CredInv, NEW r \in Run, Act(r), NEW stage, NEW m,
           Goto(r, stage, m),
           stage \in Running \ Upgrading => pc[r] \in Running \ Upgrading,
           m.args.release = mem[r].args.release, m.args.runAs = mem[r].args.runAs,
           m.creds = mem[r].creds
    PROVE  CredInv'
<1>1. pc'[r] = stage /\ mem'[r] = m
  BY GotoAt
<1>2. \A c \in m.creds : c.user \in DOMAIN auth' /\ auth'[c.user].key = c.key
  BY KeysKept DEF CredInv
<1>3. stage \in Running \ Upgrading /\ m.args.release = "ceph-17"
         => m.args.runAs = DefaultChecker
  BY DEF CredInv
<1> QED
  BY <1>1, <1>2, <1>3, CredStep

LEMMA CredFail ==
    ASSUME IInv, CredInv, NEW r \in Run, Act(r), Fail(r)
    PROVE  CredInv'
<1>1. pc'[r] = "failed" /\ mem'[r] = Blank
  BY GotoAt DEF Fail
<1>2. "failed" \notin Running /\ Blank.creds = {}
  BY DEF Running, Upgrading, Blank
<1> QED
  BY <1>1, <1>2, CredStep

\* The next user of an export, with the credentials in m.
LEMMA CredNext ==
    ASSUME IInv, CredInv, NEW r \in Run, Act(r), NEW m \in Memory,
           NextUser(r, m), m.args = mem[r].args, pc[r] \in Running \ Upgrading,
           \A c \in m.creds : c.user \in DOMAIN auth' /\ auth'[c.user].key = c.key
    PROVE  CredInv'
<1>1. PICK stage, n : Goto(r, stage, n) /\ n.args = m.args /\ n.creds = m.creds
  <2>1. CASE Len(m.todo) > 1
    <3> DEFINE n == [m EXCEPT !.todo = Tail(@)]
    <3>1. Goto(r, "userGet", n)
      BY <2>1 DEF NextUser
    <3>2. n.args = m.args /\ n.creds = m.creds
      BY DEF Memory
    <3> QED
      BY <3>1, <3>2
  <2>2. CASE ~(Len(m.todo) > 1)
    <3> DEFINE n == [m EXCEPT !.todo = SubvolumeGroups(m.args)]
    <3>1. Goto(r, IF HasCephfs(m.args) THEN "groupMake" ELSE "print", n)
      BY <2>2 DEF NextUser
    <3>2. n.args = m.args /\ n.creds = m.creds
      BY DEF Memory
    <3> QED
      BY <3>1, <3>2
  <2> QED
    BY <2>1, <2>2
<1>2. mem'[r] = n
  BY <1>1, GotoAt
<1>3. mem'[r].args.release = "ceph-17" => mem'[r].args.runAs = DefaultChecker
  BY <1>1, <1>2 DEF CredInv
<1> QED
  BY <1>1, <1>2, <1>3, CredStep

\* The user that is printed is the user that was looked up or created.
LEMMA PrintedUser ==
    ASSUME NEW m \in Memory, NEW base \in Bases, NEW key,
           m.args.release = "ceph-17" => m.args.runAs = DefaultChecker
    PROVE  /\ Collect(m, base, key).args = m.args
           /\ \A c \in Collect(m, base, key).creds :
                 \/ c \in m.creds
                 \/ c.user = EntityOf(base, m.args) /\ c.key = key
<1> DEFINE user == IF base = "healthchecker" THEN m.args.runAs
                                            ELSE EntityOf(base, m.args)
           c == [base |-> base, key |-> key, user |-> user]
<1>1. base = "healthchecker" => EntityOf(base, m.args) = m.args.runAs
  BY DEF EntityOf, CheckerEntity, CheckerEntity17
<1>2. user = EntityOf(base, m.args)
  BY <1>1
<1>3. Collect(m, base, key) = [m EXCEPT !.creds = @ \cup {c}]
  BY DEF Collect
<1>4. c.user = user /\ c.key = key
  OBVIOUS
<1> HIDE DEF c, user
<1>5. /\ [m EXCEPT !.creds = @ \cup {c}].args = m.args
      /\ [m EXCEPT !.creds = @ \cup {c}].creds = m.creds \cup {c}
  BY DEF Memory
<1> QED
  BY <1>2, <1>3, <1>4, <1>5

LEMMA CredGetUser ==
    ASSUME IInv, CredInv, NEW r \in Run, GetUser(r)
    PROVE  CredInv'
<1> DEFINE base == BaseOf(mem[r].todo[1])
           entity == EntityOf(base, mem[r].args)
<1>1. /\ mem[r] \in Memory /\ base \in Bases /\ Act(r)
      /\ pc[r] \in Running \ Upgrading /\ auth' = auth
      /\ mem[r].args.release = "ceph-17" => mem[r].args.runAs = DefaultChecker
  BY CurrentUser DEF GetUser, UserStages, Act, Step, Running, Upgrading, provider,
                     CredInv
<1>2. \A c \in mem[r].creds : c.user \in DOMAIN auth' /\ auth'[c.user].key = c.key
  BY <1>1 DEF CredInv
<1>3. CASE Fail(r)
  BY <1>1, <1>3, CredFail
<1>4. CASE NextUser(r, mem[r])
  BY <1>1, <1>2, <1>4, CredNext
<1>5. CASE /\ entity \in DOMAIN auth
           /\ NextUser(r, Collect(mem[r], base, auth[entity].key))
  <2> DEFINE m == Collect(mem[r], base, auth[entity].key)
  <2>1. auth[entity].key \in Nat /\ mem[r].args.runAs \in User
    BY <1>5, <1>1 DEF IInv, TypeOK, AuthEntry, StageOK
  <2>2. m \in Memory
    BY <1>1, <2>1, CollectType
  <2>3. /\ m.args = mem[r].args
        /\ \A c \in m.creds : c.user \in DOMAIN auth' /\ auth'[c.user].key = c.key
    BY <1>1, <1>2, <1>5, PrintedUser
  <2> HIDE DEF m
  <2>4. NextUser(r, m)
    BY <1>5 DEF m
  <2> QED
    BY <1>1, <2>2, <2>3, <2>4, CredNext
<1>6. CASE Goto(r, "userCreate", mem[r])
  BY <1>1, <1>6, CredSame
<1> QED
  BY <1>3, <1>4, <1>5, <1>6 DEF GetUser

LEMMA CredCreateUser ==
    ASSUME IInv, CredInv, NEW r \in Run, CreateUser(r)
    PROVE  CredInv'
<1> DEFINE base == BaseOf(mem[r].todo[1])
           entity == EntityOf(base, mem[r].args)
           caps == CapsOf(base, mem[r].args)
<1>1. /\ mem[r] \in Memory /\ base \in Bases /\ Act(r)
      /\ pc[r] \in Running \ Upgrading
      /\ mem[r].args.release = "ceph-17" => mem[r].args.runAs = DefaultChecker
      /\ mem[r].args.runAs \in User
  BY CurrentUser DEF CreateUser, UserStages, Act, Step, Running, Upgrading, CredInv,
                     IInv, StageOK
<1>2. \A c \in mem[r].creds : c.user \in DOMAIN auth' /\ auth'[c.user].key = c.key
  BY <1>1, KeysKept DEF CredInv
<1>3. ASSUME NEW key \in Nat, NextUser(r, Collect(mem[r], base, key)),
             entity \in DOMAIN auth', auth'[entity].key = key
      PROVE  CredInv'
  <2> DEFINE m == Collect(mem[r], base, key)
  <2>1. m \in Memory
    BY <1>1, CollectType
  <2>2. /\ m.args = mem[r].args
        /\ \A c \in m.creds : c.user \in DOMAIN auth' /\ auth'[c.user].key = c.key
    BY <1>1, <1>2, <1>3, PrintedUser
  <2> HIDE DEF m
  <2>3. NextUser(r, m)
    BY <1>3 DEF m
  <2> QED
    BY <1>1, <2>1, <2>2, <2>3, CredNext
<1>4. CASE /\ auth' = [u \in DOMAIN auth \cup {entity} |->
                         IF u = entity THEN [key |-> issued, caps |-> caps]
                                       ELSE auth[u]]
           /\ NextUser(r, Collect(mem[r], base, issued))
  <2>1. issued \in Nat
    BY DEF IInv, TypeOK
  <2>2. entity \in DOMAIN auth' /\ auth'[entity].key = issued
    <3> HIDE DEF entity, caps
    <3> QED
      BY <1>4
  <2> QED
    BY <1>3, <1>4, <2>1, <2>2
<1>5. CASE /\ entity \in DOMAIN auth
           /\ NextUser(r, Collect(mem[r], base, auth[entity].key))
           /\ UNCHANGED <<auth, issued>>
  <2>1. auth[entity].key \in Nat
    BY <1>5 DEF IInv, TypeOK, AuthEntry
  <2> QED
    BY <1>3, <1>5, <2>1
<1>6. CASE Fail(r)
  BY <1>1, <1>6, CredFail
<1> QED
  BY <1>4, <1>5, <1>6 DEF CreateUser

LEMMA CredStart ==
    ASSUME DefaultChecker17, IInv, CredInv, NEW r \in Run, Start(r)
    PROVE  CredInv'
<1>1. PICK f \in Invocations :
        LET m == [mem[r] EXCEPT !.args = Parsed(f)] IN
        IF f.upgrade
        THEN Goto(r, "upgradeGet", [m EXCEPT !.todo = UpgradeUsers(f)])
        ELSE IF f.pool = Unset THEN Fail(r) ELSE Goto(r, "pool", m)
  BY DEF Start, Conflicting
<1> DEFINE m == [mem[r] EXCEPT !.args = Parsed(f)]
<1>2. f \in Flags /\ mem[r] \in Memory /\ Act(r) /\ auth' = auth
  BY RunAssumption DEF IInv, TypeOK, Act, Start, provider
<1>3. Parsed(f) \in Flags
  BY <1>2, ParsedType
<1>4. m.args = Parsed(f) /\ m.creds = mem[r].creds
  BY <1>2 DEF Memory
<1>5. \A c \in mem[r].creds : c.user \in DOMAIN auth' /\ auth'[c.user].key = c.key
  BY <1>2 DEF CredInv
<1>6. CASE f.upgrade
  <2> DEFINE n == [m EXCEPT !.todo = UpgradeUsers(f)]
  <2>1. n.creds = mem[r].creds
    BY <1>2 DEF Memory
  <2>2. Goto(r, "upgradeGet", n)
    BY <1>1, <1>6
  <2> HIDE DEF n, m
  <2>3. pc'[r] \in Upgrading /\ mem'[r] = n
    BY <2>2, GotoAt DEF Upgrading
  <2> QED
    BY <1>2, <1>5, <2>1, <2>3, CredStep
<1>7. CASE ~f.upgrade /\ f.pool = Unset
  BY <1>1, <1>2, <1>7, CredFail
<1>8. CASE ~f.upgrade /\ f.pool # Unset
  <2>1. Goto(r, "pool", m)
    BY <1>1, <1>8
  <2>2. Parsed(f).release = "ceph-17" => Parsed(f).runAs = DefaultChecker
    BY <1>2, <1>8 DEF DefaultChecker17, Parsed, Flags
  <2> HIDE DEF m
  <2>3. mem'[r] = m
    BY <2>1, GotoAt
  <2> QED
    BY <1>2, <1>4, <1>5, <2>2, <2>3, CredStep
<1> QED
  BY <1>6, <1>7, <1>8

\* The steps of an export that deal with no user.
LEMMA CredExport ==
    ASSUME IInv, CredInv, NEW r \in Run,
           \/ InitPool(r) \/ ReadCluster(r) \/ MakeGroup(r)
           \/ PinGroup(r) \/ PrintOutput(r)
    PROVE  CredInv'
<1> DEFINE f == mem[r].args
<1>1. /\ Act(r) /\ pc[r] \in Running \ Upgrading
      /\ mem[r] \in Memory /\ f \in Flags
  BY DEF Act, Step, InitPool, ReadCluster, MakeGroup, PinGroup, PrintOutput,
         Running, Upgrading, IInv, TypeOK, Memory
<1>2. CASE Fail(r)
  BY <1>1, <1>2, CredFail
<1>3. CASE InitPool(r) /\ ~Fail(r)
  <2> DEFINE m == [mem[r] EXCEPT !.args.cluster = ClusterName(f)]
  <2>1. /\ m.args.release = f.release /\ m.args.runAs = f.runAs
        /\ m.creds = mem[r].creds
    BY <1>1 DEF Memory, Flags
  <2>2. Goto(r, "cluster", m)
    BY <1>3 DEF InitPool
  <2> HIDE DEF m
  <2> QED
    BY <1>1, <2>1, <2>2, CredSame
<1>4. CASE ReadCluster(r) /\ ~Fail(r)
  <2>1. PICK fs, dataPool, todo :
           Goto(r, "userGet", [mem[r] EXCEPT
                !.args = [f EXCEPT !.fs = fs, !.dataPool = dataPool],
                !.todo = todo])
    BY <1>4 DEF ReadCluster
  <2> DEFINE g == [f EXCEPT !.fs = fs, !.dataPool = dataPool]
             m == [mem[r] EXCEPT !.args = g, !.todo = todo]
  <2>2. g.release = f.release /\ g.runAs = f.runAs
    BY <1>1 DEF Flags
  <2> HIDE DEF g
  <2>3. m.args = g /\ m.creds = mem[r].creds
    BY <1>1 DEF Memory
  <2>4. Goto(r, "userGet", m)
    BY <2>1 DEF g
  <2> HIDE DEF m
  <2> QED
    BY <1>1, <2>2, <2>3, <2>4, CredSame
<1>5. CASE MakeGroup(r)
  BY <1>1, <1>5, CredSame DEF MakeGroup
<1>6. CASE PinGroup(r)
  <2> DEFINE m == [mem[r] EXCEPT !.todo = Tail(@)]
  <2>1. m.args = f /\ m.creds = mem[r].creds
    BY <1>1 DEF Memory
  <2>2. Goto(r, IF Len(mem[r].todo) > 1 THEN "groupMake" ELSE "print", m)
    BY <1>6 DEF PinGroup
  <2> HIDE DEF m
  <2> QED
    BY <1>1, <2>1, <2>2, CredSame
<1>7. CASE PrintOutput(r)
  BY <1>1, <1>7, CredSame DEF PrintOutput
<1> QED
  BY <1>2, <1>3, <1>4, <1>5, <1>6, <1>7

\* An upgrade collects no credentials and stays an upgrade to its end.
LEMMA CredUpgrade ==
    ASSUME IInv, CredInv, NEW r \in Run, UpgradeGet(r) \/ UpgradeSet(r)
    PROVE  CredInv'
<1>1. Act(r) /\ mem[r] \in Memory
  BY DEF Act, Step, IInv, TypeOK
<1>2. \A c \in mem[r].creds : c.user \in DOMAIN auth' /\ auth'[c.user].key = c.key
  BY <1>1, KeysKept DEF CredInv
<1>3. ASSUME NEW stage \in Upgrading \cup {"done"}, NEW m, Goto(r, stage, m),
             m.creds = mem[r].creds
      PROVE  CredInv'
  <2>1. pc'[r] \notin Running \ Upgrading /\ mem'[r] = m
    BY <1>3, GotoAt DEF Running, Upgrading
  <2> QED
    BY <1>1, <1>2, <1>3, <2>1, CredStep
<1>4. ASSUME NEW m \in Memory, NextUpgrade(r, m), m.creds = mem[r].creds
      PROVE  CredInv'
  <2> DEFINE n == [m EXCEPT !.todo = Tail(@), !.seen = NoCaps]
             stage == IF Len(m.todo) > 1 THEN "upgradeGet" ELSE "done"
  <2>1. n.creds = mem[r].creds
    BY <1>4 DEF Memory
  <2>2. Goto(r, stage, n) /\ stage \in Upgrading \cup {"done"}
    BY <1>4 DEF NextUpgrade, Upgrading
  <2> HIDE DEF n, stage
  <2> QED
    BY <1>3, <2>1, <2>2
<1>5. CASE UpgradeSet(r)
  BY <1>1, <1>4, <1>5 DEF UpgradeSet
<1>6. CASE UpgradeGet(r)
  <2> DEFINE user == mem[r].todo[1]
  <2>1. CASE Fail(r)
    BY <1>1, <2>1, CredFail
  <2>2. CASE NextUpgrade(r, [mem[r] EXCEPT !.missing = @ \cup {user}])
    <3> DEFINE m == [mem[r] EXCEPT !.missing = @ \cup {user}]
    <3>1. m \in Memory /\ m.creds = mem[r].creds
      BY <1>1, <1>6, CurrentUser DEF Memory, UpgradeGet, Upgrading
    <3> HIDE DEF m
    <3>2. NextUpgrade(r, m)
      BY <2>2 DEF m
    <3> QED
      BY <1>4, <3>1, <3>2
  <2>3. ASSUME NEW f, NEW seen,
               Goto(r, "upgradeSet", [mem[r] EXCEPT !.args = f, !.seen = seen])
        PROVE  CredInv'
    <3> DEFINE m == [mem[r] EXCEPT !.args = f, !.seen = seen]
    <3>1. m.creds = mem[r].creds
      BY <1>1 DEF Memory
    <3>2. Goto(r, "upgradeSet", m) /\ "upgradeSet" \in Upgrading
      BY <2>3 DEF Upgrading
    <3> HIDE DEF m
    <3> QED
      BY <1>3, <3>1, <3>2
  <2> QED
    BY <1>6, <2>1, <2>2, <2>3 DEF UpgradeGet
<1> QED
  BY <1>5, <1>6

LEMMA CredInit == Init => CredInv
BY DEF Init, CredInv, Blank, Running, Upgrading

LEMMA CredKept ==
    ASSUME DefaultChecker17, IInv, CredInv, [Next]_vars
    PROVE  CredInv'
<1>1. CASE UNCHANGED vars
  BY <1>1 DEF vars, CredInv
<1>2. ASSUME NEW r \in Run, Act(r) PROVE CredInv'
  <2>1. CASE Abort(r)
    BY <1>2, <2>1, CredFail DEF Abort
  <2> QED
    BY <1>2, <2>1, CredStart, CredExport, CredGetUser, CredCreateUser, CredUpgrade
       DEF Act, Step
<1> QED
  BY <1>1, <1>2 DEF Next, Act

\* Whoever gets credentials can log in with them: what was printed names an
\* existing user and carries its key, for ever, whatever other invocations do
\* and whenever they die.
THEOREM CredentialsStayValid ==
    ASSUME DefaultChecker17
    PROVE  Spec => []CredentialsValid
<1>1. Init => CredInv
  BY CredInit
<1>2. IInv /\ CredInv /\ [Next]_vars => CredInv'
  BY CredKept
<1>3. CredInv => CredentialsValid
  BY DEF CredInv, CredentialsValid
<1> QED
  BY <1>1, <1>2, <1>3, InvariantHolds, PTL DEF Spec

-----------------------------------------------------------------------------
(***************************************************************************)
(* Users of one tenant.                                                    *)
(***************************************************************************)
RbdBases == {"csi-rbd-node", "csi-rbd-provisioner"}

\* The capabilities caps leave the user u confined to its pool.
OnePool(u, caps) ==
    BaseOf(u) \in RbdBases /\ ~IsDefaultName(u)
    => \A p \in caps["osd"] : p.kind = "profile rbd" => p.on # Unset

\* A run that names a tenant's user has switched to restricted permissions.
Switched(u, f) == BaseOf(u) \in CsiBases /\ ~IsDefaultName(u) => f.restricted

ConfInv ==
    /\ \A u \in DOMAIN auth : OnePool(u, auth[u].caps)
    /\ \A r \in Run :
          LET user == mem[r].todo[1]  f == mem[r].args IN
          /\ pc[r] \in {"userCreate", "upgradeSet"} => Accepts(BaseOf(user), f)
          /\ pc[r] = "upgradeSet" => Switched(user, f) /\ OnePool(user, mem[r].seen)

\* The fields of the permissions that a set of permissions is built from.
LEMMA AllowOnFields ==
    ASSUME NEW k, NEW on, NEW ns, NEW p \in AllowOn(k, on, ns)
    PROVE  p.kind = k /\ p.on = on
<1>1. p = [kind |-> k, on |-> on, ns |-> ns]
  BY DEF AllowOn
<1>2. /\ [kind |-> k, on |-> on, ns |-> ns].kind = k
      /\ [kind |-> k, on |-> on, ns |-> ns].on = on
  OBVIOUS
<1> QED
  BY <1>1, <1>2

LEMMA AllowFields ==
    ASSUME NEW K, NEW p \in Allow(K)
    PROVE  p.kind \in K
<1>1. PICK k \in K : p = [kind |-> k, on |-> Unset, ns |-> Unset]
  BY DEF Allow
<1>2. [kind |-> k, on |-> Unset, ns |-> Unset].kind = k
  OBVIOUS
<1> QED
  BY <1>1, <1>2

\* The "osd" part of each user's capabilities.
LEMMA OsdPart ==
    ASSUME NEW f, NEW osd
    PROVE  /\ RbdNodeCaps(osd)["osd"] = osd
           /\ RbdProvisionerCaps(osd)["osd"] = osd
           /\ CephfsNodeCaps(f)["osd"] = AllowOn("cephfs *=", CephfsBound(f), Unset)
           /\ CephfsProvisionerCaps(f)["osd"]
                  = AllowOn("cephfs metadata=", CephfsBound(f), Unset)
           /\ CheckerCaps(f)["osd"]
                  = Allow({"profile rbd-read-only", "rgw.root"}) \cup
                    UNION {AllowOn(k, f.prefix, Unset) : k \in
                        {"rgw.meta", "rgw.control", "rgw.log", "rgw.buckets.index"}}
<1>2. RbdNodeCaps(osd)["osd"] = osd
  BY DEF RbdNodeCaps, CapsOn, Daemons
<1>3. RbdProvisionerCaps(osd)["osd"] = osd
  BY DEF RbdProvisionerCaps, CapsOn, Daemons
<1>4. CephfsNodeCaps(f)["osd"] = AllowOn("cephfs *=", CephfsBound(f), Unset)
  BY DEF CephfsNodeCaps, CapsOn, Daemons
<1>5. CephfsProvisionerCaps(f)["osd"]
          = AllowOn("cephfs metadata=", CephfsBound(f), Unset)
  BY DEF CephfsProvisionerCaps, CapsOn, Daemons
<1>6. CheckerCaps(f)["osd"]
         = Allow({"profile rbd-read-only", "rgw.root"}) \cup
           UNION {AllowOn(k, f.prefix, Unset) : k \in
               {"rgw.meta", "rgw.control", "rgw.log", "rgw.buckets.index"}}
  BY DEF CheckerCaps, CapsOn, Daemons
<1> QED
  BY <1>2, <1>3, <1>4, <1>5, <1>6

\* The "osd" capabilities of a user other than an RBD user hold no "profile rbd";
\* those of a tenant's RBD user are bound to the pool, which Accepts asks for.
LEMMA NewCapsOnePool ==
    ASSUME NEW f \in Flags, NEW base \in Bases, NEW u, Accepts(base, f),
           base \in RbdBases /\ ~IsDefaultName(u) => f.restricted
    PROVE  OnePool(u, CapsOf(base, f))
<1>1. CASE base \in RbdBases
  <2>1. \/ CapsOf(base, f) = RbdNodeCaps(RbdOsdOf(f))
        \/ CapsOf(base, f) = RbdProvisionerCaps(RbdOsdOf(f))
    <3>1. CASE base = "csi-rbd-node"
      BY <3>1 DEF CapsOf
    <3>2. CASE base = "csi-rbd-provisioner"
      BY <3>2 DEF CapsOf
    <3> QED
      BY <1>1, <3>1, <3>2 DEF RbdBases
  <2>2. CapsOf(base, f)["osd"] = RbdOsdOf(f)
    BY <2>1, OsdPart, Zenon
  <2>3. CASE ~IsDefaultName(u)
    <3>1. f.restricted /\ f.pool # Unset
      BY <1>1, <2>3 DEF Accepts, RbdBases
    <3>2. \/ RbdOsdOf(f) = AllowOn("profile rbd", f.pool, f.ns)
          \/ RbdOsdOf(f) = AllowOn("profile rbd", f.pool, Unset)
      BY <3>1 DEF RbdOsdOf, RbdOsd, RbdOsd17
    <3>3. \A p \in RbdOsdOf(f) : p.on = f.pool
      <4>1. \A p \in AllowOn("profile rbd", f.pool, f.ns) : p.on = f.pool
        BY AllowOnFields
      <4>2. \A p \in AllowOn("profile rbd", f.pool, Unset) : p.on = f.pool
        BY AllowOnFields
      <4> DEFINE osd == RbdOsdOf(f)
                 one == AllowOn("profile rbd", f.pool, f.ns)
                 two == AllowOn("profile rbd", f.pool, Unset)
      <4> HIDE DEF osd, one, two
      <4>3. osd = one \/ osd = two
        BY <3>2 DEF osd, one, two
      <4>4. \A p \in one \cup two : p.on = f.pool
        BY <4>1, <4>2 DEF one, two
      <4>5. \A p \in osd : p.on = f.pool
        BY <4>3, <4>4
      <4> QED
        BY <4>5 DEF osd
    <3> QED
      BY <2>2, <3>1, <3>3 DEF OnePool
  <2> QED
    BY <2>3 DEF OnePool
<1>2. ASSUME \A p \in CapsOf(base, f)["osd"] : p.kind # "profile rbd"
      PROVE  OnePool(u, CapsOf(base, f))
  BY <1>2 DEF OnePool
<1>3. CASE base = "csi-cephfs-node"
  <2>1. CapsOf(base, f)["osd"] = AllowOn("cephfs *=", CephfsBound(f), Unset)
    <3>1. CapsOf(base, f) = CephfsNodeCaps(f)
      BY <1>3 DEF CapsOf
    <3> QED
      BY <3>1, OsdPart, Zenon
  <2>2. \A p \in AllowOn("cephfs *=", CephfsBound(f), Unset) : p.kind # "profile rbd"
    <3>1. "cephfs *=" # "profile rbd"
      OBVIOUS
    <3> QED
      BY <3>1, AllowOnFields, Zenon
  <2> QED
    BY <1>2, <2>1, <2>2
<1>4. CASE base = "csi-cephfs-provisioner"
  <2>1. CapsOf(base, f)["osd"] = AllowOn("cephfs metadata=", CephfsBound(f), Unset)
    <3>1. CapsOf(base, f) = CephfsProvisionerCaps(f)
      BY <1>4 DEF CapsOf
    <3> QED
      BY <3>1, OsdPart, Zenon
  <2>2. \A p \in AllowOn("cephfs metadata=", CephfsBound(f), Unset) :
            p.kind # "profile rbd"
    <3>1. "cephfs metadata=" # "profile rbd"
      OBVIOUS
    <3> QED
      BY <3>1, AllowOnFields, Zenon
  <2> QED
    BY <1>2, <2>1, <2>2
<1>5. CASE base = "healthchecker"
  <2> DEFINE K == {"rgw.meta", "rgw.control", "rgw.log", "rgw.buckets.index"}
             rgw == UNION {AllowOn(k, f.prefix, Unset) : k \in K}
             root == Allow({"profile rbd-read-only", "rgw.root"})
  <2>1. CapsOf(base, f) = CheckerCaps(f)
    BY <1>5 DEF CapsOf
  <2>2. CheckerCaps(f)["osd"] = root \cup rgw
    BY OsdPart, Zenon
  <2>3. \A p \in root : p.kind # "profile rbd"
    BY AllowFields
  <2>4. ASSUME NEW p \in rgw PROVE p.kind # "profile rbd"
    <3>1. PICK k \in K : p \in AllowOn(k, f.prefix, Unset)
      BY <2>4
    <3> QED
      BY <3>1, AllowOnFields
  <2> HIDE DEF root, rgw
  <2> QED
    BY <1>2, <2>1, <2>2, <2>3, <2>4
<1>6. base # "other"
  BY DEF Accepts
<1> QED
  BY <1>1, <1>3, <1>4, <1>5, <1>6 DEF Bases, CsiBases, RbdBases

\* What both sides of a merge keep to, the merged capabilities keep to.
LEMMA MergeOnePool ==
    ASSUME NEW u, NEW a, NEW b, OnePool(u, a), OnePool(u, b)
    PROVE  OnePool(u, MergeCaps(a, b))
<1>1. MergeCaps(a, b)["osd"] = a["osd"] \cup b["osd"]
  BY DEF MergeCaps, Daemons
<1> QED
  BY <1>1 DEF OnePool

\* What an action of r must establish.
LEMMA ConfStep ==
    ASSUME IInv, ConfInv, NEW r \in Run, Act(r),
           \A u \in DOMAIN auth' : OnePool(u, auth'[u].caps),
           pc'[r] \in {"userCreate", "upgradeSet"}
             => Accepts(BaseOf(mem'[r].todo[1]), mem'[r].args),
           pc'[r] = "upgradeSet"
             => /\ Switched(mem'[r].todo[1], mem'[r].args)
                /\ OnePool(mem'[r].todo[1], mem'[r].seen)
    PROVE  ConfInv'
<1>1. ASSUME NEW s \in Run \ {r}
      PROVE  pc'[s] = pc[s] /\ mem'[s] = mem[s]
  BY OthersUnmoved
<1>2. ASSUME NEW s \in Run
      PROVE  LET user == mem'[s].todo[1]  f == mem'[s].args IN
             /\ pc'[s] \in {"userCreate", "upgradeSet"} => Accepts(BaseOf(user), f)
             /\ pc'[s] = "upgradeSet" => /\ Switched(user, f)
                                         /\ OnePool(user, mem'[s].seen)
  <2>1. CASE s = r
    BY <2>1
  <2>2. CASE s # r
    BY <1>1, <2>2 DEF ConfInv
  <2> QED
    BY <2>1, <2>2
<1> QED
  BY <1>2 DEF ConfInv

\* Where the stages of a user change nothing: every action but CreateUser and
\* UpgradeSet leaves the users alone, and only GetUser and UpgradeGet go to the
\* stages that ConfInv speaks of.
LEMMA ConfOther ==
    ASSUME IInv, ConfInv, NEW r \in Run, Act(r), auth' = auth,
           pc'[r] \notin {"userCreate", "upgradeSet"}
    PROVE  ConfInv'
<1>1. \A u \in DOMAIN auth' : OnePool(u, auth'[u].caps)
  BY DEF ConfInv
<1> QED
  BY <1>1, ConfStep

\* The stages that follow the user list and a failure.
LEMMA NextStages ==
    ASSUME IInv, NEW r \in Run, NEW m,
           NextUser(r, m) \/ NextUpgrade(r, m) \/ Fail(r)
    PROVE  pc'[r] \notin {"userCreate", "upgradeSet"}
<1>1. PICK stage \in {"userGet", "groupMake", "print", "upgradeGet", "done", "failed"} :
           \E n : Goto(r, stage, n)
  BY DEF NextUser, NextUpgrade, Fail
<1> QED
  BY <1>1, GotoAt

LEMMA ConfGetUser ==
    ASSUME IInv, ConfInv, NEW r \in Run, GetUser(r)
    PROVE  ConfInv'
<1>1. Act(r) /\ auth' = auth
  BY DEF Act, Step, GetUser, provider
<1>2. CASE \/ Fail(r) \/ NextUser(r, mem[r])
           \/ \E key : NextUser(r, Collect(mem[r], BaseOf(mem[r].todo[1]), key))
  BY <1>1, <1>2, NextStages, ConfOther
<1>3. CASE /\ Accepts(BaseOf(mem[r].todo[1]), mem[r].args)
           /\ Goto(r, "userCreate", mem[r])
  <2>1. pc'[r] = "userCreate" /\ mem'[r] = mem[r]
    BY <1>3, GotoAt
  <2>2. \A u \in DOMAIN auth' : OnePool(u, auth'[u].caps)
    BY <1>1 DEF ConfInv
  <2> QED
    BY <1>1, <1>3, <2>1, <2>2, ConfStep
<1> QED
  BY <1>2, <1>3 DEF GetUser

LEMMA ConfCreateUser ==
    ASSUME IInv, ConfInv, NEW r \in Run, CreateUser(r)
    PROVE  ConfInv'
<1> DEFINE base == BaseOf(mem[r].todo[1])
           f == mem[r].args
           entity == EntityOf(base, f)
           caps == CapsOf(base, f)
<1>1. Act(r) /\ f \in Flags /\ base \in Bases /\ Accepts(base, f)
  BY CurrentUser DEF Act, Step, CreateUser, UserStages, ConfInv
<1>2. pc'[r] \notin {"userCreate", "upgradeSet"}
  BY NextStages DEF CreateUser
<1>3. base \in RbdBases /\ ~IsDefaultName(entity) => f.restricted
  BY DEF EntityOf, RbdEntity, RbdEntity17, IsDefaultName, RbdBases
<1>4. OnePool(entity, caps)
  BY <1>1, <1>3, NewCapsOnePool
<1>5. CASE UNCHANGED auth
  BY <1>1, <1>2, <1>5, ConfOther
<1>6. CASE auth' = [u \in DOMAIN auth \cup {entity} |->
                      IF u = entity THEN [key |-> issued, caps |-> caps] ELSE auth[u]]
  <2> HIDE DEF entity, caps
  <2>1. ASSUME NEW u \in DOMAIN auth' PROVE OnePool(u, auth'[u].caps)
    <3>1. CASE u = entity
      BY <1>4, <1>6, <3>1
    <3>2. CASE u # entity
      BY <1>6, <3>2 DEF ConfInv
    <3> QED
      BY <3>1, <3>2
  <2> QED
    BY <1>1, <1>2, <2>1, ConfStep
<1> QED
  BY <1>5, <1>6 DEF CreateUser

LEMMA ConfUpgradeGet ==
    ASSUME IInv, ConfInv, NEW r \in Run, UpgradeGet(r)
    PROVE  ConfInv'
<1> DEFINE user == mem[r].todo[1]
<1>1. /\ Act(r) /\ auth' = auth /\ mem[r] \in Memory /\ mem[r].args \in Flags
      /\ user \in User
  BY CurrentUser DEF Act, Step, UpgradeGet, provider, Upgrading
<1>2. CASE Fail(r) \/ \E m : NextUpgrade(r, m)
  BY <1>1, <1>2, NextStages, ConfOther
<1>3. ASSUME NEW g, user \in DOMAIN auth, g = mem[r].args.prefix \/ g \in Name,
             LET f == Narrowed(user, [mem[r].args EXCEPT !.prefix = g]) IN
             /\ Accepts(BaseOf(user), f)
             /\ Goto(r, "upgradeSet",
                     [mem[r] EXCEPT !.args = f, !.seen = auth[user].caps])
      PROVE  ConfInv'
  <2> DEFINE h == [mem[r].args EXCEPT !.prefix = g]
             f == Narrowed(user, h)
             m == [mem[r] EXCEPT !.args = f, !.seen = auth[user].caps]
  <2>1. h \in Flags
    BY <1>1, <1>3 DEF Flags
  <2>2. Switched(user, f)
    <3> HIDE DEF h
    <3> QED
      BY <2>1 DEF Switched, Narrowed, Flags
  <2> HIDE DEF f
  <2>3. m.args = f /\ m.seen = auth[user].caps /\ m.todo = mem[r].todo
    BY <1>1 DEF Memory
  <2>4. Goto(r, "upgradeSet", m) /\ Accepts(BaseOf(user), f)
    BY <1>3 DEF f
  <2> HIDE DEF m
  <2>5. mem'[r] = m
    BY <2>4, GotoAt
  <2>6. OnePool(user, auth[user].caps)
        /\ \A u \in DOMAIN auth' : OnePool(u, auth'[u].caps)
    BY <1>1, <1>3 DEF ConfInv
  <2> QED
    BY <1>1, <2>2, <2>3, <2>4, <2>5, <2>6, ConfStep
<1>4. ASSUME user \in DOMAIN auth,
             NEW p \in PrefixChoices(user, mem[r].args, auth[user].caps)
      PROVE  p = mem[r].args.prefix \/ p \in Name
  <2>1. auth[user].caps \in Caps
    BY <1>4 DEF IInv, TypeOK, AuthEntry
  <2> QED
    BY <1>4, <2>1, PrefixesType DEF PrefixChoices
<1> QED
  BY <1>2, <1>3, <1>4 DEF UpgradeGet

LEMMA ConfUpgradeSet ==
    ASSUME IInv, ConfInv, NEW r \in Run, UpgradeSet(r)
    PROVE  ConfInv'
<1> DEFINE user == mem[r].todo[1]
           f == mem[r].args
           new == CapsOf(BaseOf(user), f)
           caps == MergeCaps(mem[r].seen, new)
<1>1. /\ Act(r) /\ f \in Flags /\ BaseOf(user) \in Bases
      /\ Accepts(BaseOf(user), f) /\ Switched(user, f)
      /\ OnePool(user, mem[r].seen)
  BY CurrentUser DEF Act, Step, UpgradeSet, Upgrading, ConfInv
<1>2. pc'[r] \notin {"userCreate", "upgradeSet"}
  BY NextStages DEF UpgradeSet
<1>3. OnePool(user, new)
  BY <1>1, NewCapsOnePool DEF Switched, RbdBases, CsiBases
<1>4. OnePool(user, caps)
  BY <1>1, <1>3, MergeOnePool
<1>5. auth' = [auth EXCEPT ![user].caps = caps]
  BY DEF UpgradeSet
<1> HIDE DEF caps, user
<1>6. ASSUME NEW u \in DOMAIN auth' PROVE OnePool(u, auth'[u].caps)
  <2>1. u \in DOMAIN auth /\ auth[u] \in AuthEntry
    BY <1>5, <1>6 DEF IInv, TypeOK
  <2>2. CASE u = user
    BY <1>4, <1>5, <2>1, <2>2 DEF AuthEntry
  <2>3. CASE u # user
    BY <1>5, <2>1, <2>3 DEF ConfInv
  <2> QED
    BY <2>2, <2>3
<1> QED
  BY <1>1, <1>2, <1>6, ConfStep

\* No invocation, export or upgrade, gives a tenant's RBD user the whole
\* cluster's pools, provided that an older release did not: any number of
\* invocations, upgrades at the same time included.
THEOREM TenantsStayConfined ==
    ASSUME \A a \in LegacyAuth : \A u \in DOMAIN a : OnePool(u, a[u].caps)
    PROVE  Spec => []RestrictedConfined
<1>1. Init => ConfInv
  BY DEF Init, ConfInv
<1>2. IInv /\ ConfInv /\ [Next]_vars => ConfInv'
  <2> SUFFICES ASSUME IInv, ConfInv, [Next]_vars PROVE ConfInv'
    OBVIOUS
  <2>1. CASE UNCHANGED vars
    BY <2>1 DEF vars, ConfInv
  <2>2. ASSUME NEW r \in Run, Act(r) PROVE ConfInv'
    <3>1. ASSUME auth' = auth,
                 NEW stage \in Stages \ {"userCreate", "upgradeSet"},
                 NEW m, Goto(r, stage, m)
          PROVE  ConfInv'
      BY <2>2, <3>1, GotoAt, ConfOther
    <3>2. {"failed", "pool", "cluster", "userGet", "groupMake", "groupPin", "print",
           "done", "upgradeGet"} \subseteq Stages \ {"userCreate", "upgradeSet"}
      BY DEF Stages, Running, Upgrading
    <3>3. CASE Start(r)
      BY <3>1, <3>2, <3>3 DEF Start, Fail, provider
    <3>4. CASE Abort(r) \/ InitPool(r) \/ PrintOutput(r)
      BY <3>1, <3>2, <3>4 DEF Abort, InitPool, PrintOutput, Fail, provider
    <3>5. CASE ReadCluster(r)
      BY <3>1, <3>2, <3>5 DEF ReadCluster, Fail, provider
    <3>6. CASE MakeGroup(r) \/ PinGroup(r)
      BY <3>1, <3>2, <3>6 DEF MakeGroup, PinGroup
    <3> QED
      BY <2>2, <3>3, <3>4, <3>5, <3>6, ConfGetUser, ConfCreateUser, ConfUpgradeGet,
         ConfUpgradeSet DEF Act, Step
  <2> QED
    BY <2>1, <2>2 DEF Next, Act
<1>3. ConfInv => RestrictedConfined
  BY DEF ConfInv, OnePool, RbdBases, RestrictedConfined
<1> QED
  BY <1>1, <1>2, <1>3, InvariantHolds, PTL DEF Spec

-----------------------------------------------------------------------------
(***************************************************************************)
(* Upgrades that are started one at a time.  What an upgrade has read of a *)
(* user is then still all that the user has when the upgrade writes: no    *)
(* other upgrade runs, and an export changes no user that exists.          *)
(***************************************************************************)
SeenInv ==
    /\ \A r, s \in Run : pc[r] \in Upgrading /\ pc[s] \in Upgrading => r = s
    /\ \A r \in Run : pc[r] = "upgradeSet" =>
          LET user == mem[r].todo[1] IN
          user \in DOMAIN auth /\ CapsLeq(auth[user].caps, mem[r].seen)

\* An invocation that is not upgrading afterwards, and has not upgraded a user.
LEMMA SeenOther ==
    ASSUME IInv, SeenInv, NEW r \in Run, Act(r), ~UpgradeSet(r),
           pc'[r] \notin Upgrading
    PROVE  SeenInv'
<1>1. \A s \in Run : pc'[s] \in Upgrading
         => s # r /\ pc'[s] = pc[s] /\ mem'[s] = mem[s]
  BY OthersUnmoved
<1>2. \A q, s \in Run : pc'[q] \in Upgrading /\ pc'[s] \in Upgrading => q = s
  BY <1>1 DEF SeenInv
<1>3. ASSUME NEW s \in Run, pc'[s] = "upgradeSet"
      PROVE  /\ mem'[s].todo[1] \in DOMAIN auth'
             /\ CapsLeq(auth'[mem'[s].todo[1]].caps, mem'[s].seen)
  <2>1. pc[s] = "upgradeSet" /\ mem'[s] = mem[s]
    BY <1>1, <1>3 DEF Upgrading
  <2>2. /\ mem[s].todo[1] \in DOMAIN auth
        /\ CapsLeq(auth[mem[s].todo[1]].caps, mem[s].seen)
    BY <2>1 DEF SeenInv
  <2>3. mem[s].todo[1] \in DOMAIN auth'
        /\ auth'[mem[s].todo[1]] = auth[mem[s].todo[1]]
    BY <2>2, UsersKept
  <2> QED
    BY <2>1, <2>2, <2>3
<1> QED
  BY <1>2, <1>3 DEF SeenInv

\* The only upgrade there is goes on to stage.
LEMMA SeenAlone ==
    ASSUME IInv, SeenInv, NEW r \in Run, Act(r),
           \A s \in Run \ {r} : pc[s] \notin Upgrading,
           pc'[r] = "upgradeSet"
             => /\ mem'[r].todo[1] \in DOMAIN auth'
                /\ CapsLeq(auth'[mem'[r].todo[1]].caps, mem'[r].seen)
    PROVE  SeenInv'
<1>1. \A s \in Run \ {r} : pc'[s] \notin Upgrading
  BY OthersUnmoved
<1>2. \A s \in Run : pc'[s] = "upgradeSet" => s = r
  BY <1>1 DEF Upgrading
<1> QED
  BY <1>1, <1>2 DEF SeenInv

LEMMA SeenStart ==
    ASSUME ~ConcurrentUpgrades, IInv, SeenInv, NEW r \in Run, Start(r)
    PROVE  SeenInv'
<1>1. Act(r) /\ ~UpgradeSet(r)
  BY DEF Act, Start, UpgradeSet
<1>2. pc'[r] # "upgradeSet"
  <2>1. PICK stage \in {"upgradeGet", "failed", "pool"} : \E m : Goto(r, stage, m)
    BY DEF Start, Fail
  <2> QED
    BY <2>1, GotoAt
<1>3. CASE pc'[r] \in Upgrading
  <2>1. \A s \in Run : pc[s] \notin Upgrading
    <3>1. PICK f \in Invocations :
            /\ f.upgrade => \A s \in Run : pc[s] \notin Upgrading
            /\ ~f.upgrade => \E stage \in {"failed", "pool"} : \E m : Goto(r, stage, m)
      BY DEF Start, Fail
    <3>2. ~f.upgrade => pc'[r] \in {"failed", "pool"}
      BY <3>1, GotoAt
    <3> QED
      BY <1>3, <3>1, <3>2 DEF Upgrading
  <2> QED
    BY <1>1, <1>2, <2>1, SeenAlone
<1>4. CASE pc'[r] \notin Upgrading
  BY <1>1, <1>4, SeenOther
<1> QED
  BY <1>3, <1>4

LEMMA SeenUpgrade ==
    ASSUME IInv, SeenInv, NEW r \in Run, UpgradeGet(r) \/ UpgradeSet(r)
    PROVE  SeenInv'
<1> DEFINE user == mem[r].todo[1]
<1>1. /\ Act(r) /\ mem[r] \in Memory
      /\ \A s \in Run \ {r} : pc[s] \notin Upgrading
  BY DEF Act, Step, IInv, TypeOK, SeenInv, UpgradeGet, UpgradeSet, Upgrading
<1>2. CASE Fail(r) \/ \E m : NextUpgrade(r, m)
  <2>1. pc'[r] # "upgradeSet"
    BY <1>2, NextStages
  <2> QED
    BY <1>1, <2>1, SeenAlone
<1>3. ASSUME user \in DOMAIN auth, auth' = auth, NEW f,
             Goto(r, "upgradeSet", [mem[r] EXCEPT !.args = f, !.seen = auth[user].caps])
      PROVE  SeenInv'
  <2> DEFINE m == [mem[r] EXCEPT !.args = f, !.seen = auth[user].caps]
  <2>1. m.todo = mem[r].todo /\ m.seen = auth[user].caps
    BY <1>1 DEF Memory
  <2> HIDE DEF m
  <2>2. mem'[r] = m
    BY <1>3, GotoAt DEF m
  <2>3. CapsLeq(auth'[mem'[r].todo[1]].caps, mem'[r].seen)
        /\ mem'[r].todo[1] \in DOMAIN auth'
    BY <1>3, <2>1, <2>2, CapsLeqReflexive
  <2> QED
    BY <1>1, <2>3, SeenAlone
<1> QED
  BY <1>2, <1>3 DEF UpgradeGet, UpgradeSet, provider

LEMMA SeenNext ==
    ASSUME ~ConcurrentUpgrades, IInv, SeenInv, [Next]_vars
    PROVE  SeenInv'
<1>1. CASE UNCHANGED vars
  BY <1>1 DEF vars, SeenInv
<1>2. ASSUME NEW r \in Run, Act(r) PROVE SeenInv'
  <2>1. CASE Start(r)
    BY <2>1, SeenStart
  <2>2. CASE Abort(r)
    <3>1. \/ pc'[r] \notin Upgrading /\ ~UpgradeSet(r)
          \/ UpgradeGet(r) \/ UpgradeSet(r)
      BY <2>2, GotoAt DEF Abort, Fail, Upgrading
    <3> QED
      BY <1>2, <3>1, SeenOther, SeenUpgrade
  <2>3. CASE ExportStep(r)
    <3>1. ~UpgradeSet(r)
      BY <2>3 DEF ExportStep, UpgradeSet, InitPool, ReadCluster, GetUser, CreateUser,
                  MakeGroup, PinGroup, PrintOutput
    <3> QED
      BY <1>2, <2>3, <3>1, ExportStages, SeenOther
  <2>4. CASE UpgradeGet(r) \/ UpgradeSet(r)
    BY <2>4, SeenUpgrade
  <2> QED
    BY <1>2, <2>1, <2>2, <2>3, <2>4 DEF Act, Step, ExportStep
<1> QED
  BY <1>1, <1>2 DEF Next, Act

\* Only UpgradeSet touches capabilities, and it writes what it has read and more.
LEMMA CapsKept ==
    ASSUME IInv, SeenInv, NEW r \in Run, Act(r)
    PROVE  \A u \in DOMAIN auth :
              u \in DOMAIN auth' /\ CapsLeq(auth[u].caps, auth'[u].caps)
<1>1. CASE ~UpgradeSet(r)
  BY <1>1, UsersKept, CapsLeqReflexive
<1>2. CASE UpgradeSet(r)
  <2> DEFINE user == mem[r].todo[1]
             new == CapsOf(BaseOf(user), mem[r].args)
             caps == MergeCaps(mem[r].seen, new)
  <2>1. /\ mem[r].seen \in Caps /\ new \in Caps
        /\ user \in DOMAIN auth /\ CapsLeq(auth[user].caps, mem[r].seen)
    BY <1>2, CurrentUser, CapsType DEF UpgradeSet, Upgrading, SeenInv, Memory
  <2>2. CapsLeq(mem[r].seen, caps)
    BY <2>1, MergeProperties
  <2>3. CapsLeq(auth[user].caps, caps)
    BY <2>1, <2>2, CapsLeqTransitive
  <2>4. auth' = [auth EXCEPT ![user].caps = caps]
    BY <1>2 DEF UpgradeSet
  <2> HIDE DEF user, caps
  <2>5. ASSUME NEW u \in DOMAIN auth
        PROVE  u \in DOMAIN auth' /\ CapsLeq(auth[u].caps, auth'[u].caps)
    <3>1. auth[u] \in AuthEntry /\ u \in DOMAIN auth'
      BY <2>4, <2>5 DEF IInv, TypeOK
    <3>2. CASE u = user
      BY <2>3, <2>4, <3>1, <3>2 DEF AuthEntry
    <3>3. CASE u # user
      BY <2>4, <3>1, <3>3, CapsLeqReflexive
    <3> QED
      BY <3>1, <3>2, <3>3
  <2> QED
    BY <2>5
<1> QED
  BY <1>1, <1>2

\* "Older permission will still be applied": no user loses a capability, or
\* disappears, as long as operators start one upgrade at a time; exports may
\* overlap with it and with each other without limit.
THEOREM NobodyLosesCapabilities ==
    ASSUME ~ConcurrentUpgrades
    PROVE  Spec => CapsNeverShrink
<1>1. Init => SeenInv
  BY DEF Init, SeenInv, Upgrading
<1>2. IInv /\ SeenInv /\ [Next]_vars => SeenInv'
  BY SeenNext
<1>3. IInv /\ SeenInv /\ [Next]_vars =>
         [\A u \in DOMAIN auth : /\ u \in DOMAIN auth'
                                 /\ CapsLeq(auth[u].caps, auth'[u].caps)]_vars
  BY CapsKept DEF Next, Act
<1> QED
  BY <1>1, <1>2, <1>3, InvariantHolds, PTL DEF Spec, CapsNeverShrink

-----------------------------------------------------------------------------
(***************************************************************************)
(* What an export prints about CephFS: the data pool is one of the file    *)
(* system's, and the subvolume groups are there.                           *)
(***************************************************************************)
PoolListed(f) ==
    \E i \in DOMAIN FsList : FsList[i].name = f.fs /\ Has(FsList[i].data, f.dataPool)

\* Of the groups of an export, the last ones are still on its list.
Handled(f, todo, g) ==
    \A i \in DOMAIN SubvolumeGroups(f) :
        \/ <<f.fs, SubvolumeGroups(f)[i]>> \in g
        \/ \E j \in DOMAIN todo : todo[j] = SubvolumeGroups(f)[i]

Chosen == UserStages \cup GroupStages \cup {"print", "done"}

\* What an invocation holds at a stage, with memory m, when g are the groups
\* that exist and p those that are pinned.
FsOK(stage, m, g, p) ==
    /\ stage \in Upgrading => m.args.upgrade
    /\ stage \in Chosen /\ ~m.args.upgrade /\ HasCephfs(m.args) =>
        /\ ~m.args.dryRun => PoolListed(m.args)
        /\ stage \in GroupStages => Handled(m.args, m.todo, g \cap p)
        /\ stage = "groupPin" => <<m.args.fs, m.todo[1]>> \in g
        /\ stage \in {"print", "done"} => Handled(m.args, << >>, g \cap p)

FsInv == \A r \in Run : FsOK(pc[r], mem[r], groups, pinned)

\* Groups are never removed, so what other invocations hold stays true.
LEMMA FsStep ==
    ASSUME IInv, FsInv, NEW r \in Run, Act(r),
           FsOK(pc'[r], mem'[r], groups', pinned'),
           groups \subseteq groups', pinned \subseteq pinned'
    PROVE  FsInv'
<1>1. ASSUME NEW s \in Run \ {r} PROVE FsOK(pc'[s], mem'[s], groups', pinned')
  <2>1. pc'[s] = pc[s] /\ mem'[s] = mem[s] /\ FsOK(pc[s], mem[s], groups, pinned)
    BY OthersUnmoved DEF FsInv
  <2> QED
    BY <2>1 DEF FsOK, Handled
<1> QED
  BY <1>1 DEF FsInv

\* An invocation that has failed, or has not come to the file systems.
LEMMA FsNothing ==
    ASSUME NEW stage \in {"failed", "pool", "cluster"}, NEW m, NEW g, NEW p
    PROVE  FsOK(stage, m, g, p)
BY DEF FsOK, Chosen, UserStages, GroupStages, Upgrading

LEMMA FsStart ==
    ASSUME IInv, FsInv, NEW r \in Run, Start(r)
    PROVE  FsInv'
<1>1. Act(r) /\ groups' = groups /\ pinned' = pinned
  BY DEF Act, Start, provider
<1>2. PICK f \in Invocations :
        IF f.upgrade
        THEN Goto(r, "upgradeGet",
                  [[mem[r] EXCEPT !.args = Parsed(f)] EXCEPT !.todo = UpgradeUsers(f)])
        ELSE \E stage \in {"failed", "pool"} : \E m : Goto(r, stage, m)
  BY DEF Start, Fail
<1>3. CASE f.upgrade
  <2> DEFINE m == [mem[r] EXCEPT !.args = Parsed(f)]
             n == [m EXCEPT !.todo = UpgradeUsers(f)]
  <2>1. mem[r] \in Memory /\ Parsed(f) = f
    BY <1>3 DEF IInv, TypeOK, Parsed
  <2>2. n.args = f
    BY <2>1 DEF Memory
  <2>3. Goto(r, "upgradeGet", n)
    BY <1>2, <1>3
  <2> HIDE DEF n
  <2>4. pc'[r] = "upgradeGet" /\ mem'[r].args = f
    BY <2>2, <2>3, GotoAt
  <2>5. FsOK(pc'[r], mem'[r], groups', pinned')
    BY <1>3, <2>4 DEF FsOK, Chosen, UserStages, GroupStages
  <2> QED
    BY <1>1, <2>5, FsStep
<1>4. CASE ~f.upgrade
  <2>1. pc'[r] \in {"failed", "pool"}
    BY <1>2, <1>4, GotoAt
  <2> QED
    BY <1>1, <2>1, FsNothing, FsStep
<1> QED
  BY <1>3, <1>4

LEMMA FsReadCluster ==
    ASSUME IInv, FsInv, NEW r \in Run, ReadCluster(r)
    PROVE  FsInv'
<1> DEFINE f == mem[r].args
           Choice(listed) ==
               IF f.dryRun \/ ~listed
               THEN [ok |-> f.dryRun \/ (f.fs = Unset /\ f.dataPool = Unset),
                     fs |-> f.fs, dataPool |-> f.dataPool]
               ELSE SelectCephfs(FsList, f.fs, f.dataPool)
           NewFlags(listed) == [f EXCEPT !.fs = Choice(listed).fs,
                                         !.dataPool = Choice(listed).dataPool]
           Mem(listed) == [mem[r] EXCEPT !.args = NewFlags(listed),
                                         !.todo = ExportUsers(NewFlags(listed))]
<1>1. /\ mem[r] \in Memory /\ f \in Flags
      /\ Act(r) /\ groups' = groups /\ pinned' = pinned
  BY DEF Act, Step, IInv, TypeOK, ReadCluster, Memory, provider
<1>2. PICK listed \in BOOLEAN :
         IF NamespaceOKOf(f) /\ Choice(listed).ok
         THEN Goto(r, "userGet", Mem(listed)) ELSE Fail(r)
  BY DEF ReadCluster
<1>3. CASE Choice(listed).ok /\ Goto(r, "userGet", Mem(listed))
  <2>1. /\ NewFlags(listed).fs = Choice(listed).fs
        /\ NewFlags(listed).dataPool = Choice(listed).dataPool
        /\ NewFlags(listed).dryRun = f.dryRun
    <3> HIDE DEF Choice
    <3> QED
      BY <1>1 DEF Flags
  <2>2. ~f.dryRun /\ Choice(listed).fs # Unset /\ Choice(listed).dataPool # Unset
        => \E i \in DOMAIN FsList :
              /\ FsList[i].name = Choice(listed).fs
              /\ Has(FsList[i].data, Choice(listed).dataPool)
    <3>1. f.fs \in Name /\ f.dataPool \in Name /\ FsList \in Seq(FileSystem)
      BY <1>1, RunAssumption DEF Flags
    <3> QED
      BY <1>3, <3>1, SelectListed
  <2>3. Mem(listed).args = NewFlags(listed)
    <3> HIDE DEF NewFlags
    <3> QED
      BY <1>1 DEF Memory
  <2> HIDE DEF Choice, NewFlags, Mem
  <2>4. pc'[r] = "userGet" /\ mem'[r].args = NewFlags(listed)
    BY <1>3, <2>3, GotoAt
  <2>5. FsOK(pc'[r], mem'[r], groups', pinned')
    BY <2>1, <2>2, <2>4
       DEF FsOK, HasCephfs, PoolListed, Upgrading, GroupStages
  <2> QED
    BY <1>1, <2>5, FsStep
<1>4. CASE Fail(r)
  <2>1. pc'[r] = "failed"
    BY <1>4, GotoAt DEF Fail
  <2> QED
    BY <1>1, <2>1, FsNothing, FsStep
<1> QED
  BY <1>2, <1>3, <1>4

\* On to the next user or to the groups: all of them are on the list.
LEMMA FsNext ==
    ASSUME IInv, FsInv, NEW r \in Run, Act(r), NEW m \in Memory,
           m.args = mem[r].args, pc[r] \in UserStages, NextUser(r, m),
           groups' = groups, pinned' = pinned
    PROVE  FsInv'
<1>1. FsOK(pc[r], mem[r], groups, pinned)
  BY DEF FsInv
<1>2. CASE Len(m.todo) > 1
  <2>1. pc'[r] = "userGet" /\ mem'[r].args = mem[r].args
    BY <1>2, GotoAt DEF NextUser, Memory
  <2>2. FsOK(pc'[r], mem'[r], groups', pinned')
    BY <1>1, <2>1 DEF FsOK, Chosen, UserStages, GroupStages, Upgrading
  <2> QED
    BY <2>2, FsStep
<1>3. CASE ~(Len(m.todo) > 1)
  <2>1. /\ pc'[r] = IF HasCephfs(m.args) THEN "groupMake" ELSE "print"
        /\ mem'[r].args = mem[r].args /\ mem'[r].todo = SubvolumeGroups(mem[r].args)
    BY <1>3, GotoAt DEF NextUser, Memory
  <2>2. Handled(mem'[r].args, mem'[r].todo, groups \cap pinned)
    BY <2>1 DEF Handled
  <2>3. FsOK(pc'[r], mem'[r], groups', pinned')
    BY <1>1, <2>1, <2>2 DEF FsOK, Chosen, UserStages, GroupStages, Upgrading
  <2> QED
    BY <2>3, FsStep
<1> QED
  BY <1>2, <1>3

LEMMA FsUsers ==
    ASSUME IInv, FsInv, NEW r \in Run, GetUser(r) \/ CreateUser(r)
    PROVE  FsInv'
<1>1. /\ Act(r) /\ mem[r] \in Memory /\ pc[r] \in UserStages
      /\ groups' = groups /\ pinned' = pinned
      /\ FsOK(pc[r], mem[r], groups, pinned)
  BY DEF Act, Step, GetUser, CreateUser, UserStages, provider, IInv, TypeOK, FsInv
<1>2. ASSUME NEW key \in Nat, NextUser(r, Collect(mem[r], BaseOf(mem[r].todo[1]), key))
      PROVE  FsInv'
  <2> DEFINE m == Collect(mem[r], BaseOf(mem[r].todo[1]), key)
  <2>1. m \in Memory /\ m.args = mem[r].args
    BY <1>1, CurrentUser, CollectType
  <2> HIDE DEF m
  <2>2. NextUser(r, m)
    BY <1>2 DEF m
  <2> QED
    BY <1>1, <2>1, <2>2, FsNext
<1>3. CASE Goto(r, "userCreate", mem[r])
  <2>1. pc'[r] = "userCreate" /\ mem'[r] = mem[r]
    BY <1>3, GotoAt
  <2>2. FsOK(pc'[r], mem'[r], groups', pinned')
    BY <1>1, <2>1 DEF FsOK, Chosen, UserStages, GroupStages, Upgrading
  <2> QED
    BY <1>1, <2>2, FsStep
<1>4. CASE Fail(r)
  <2>1. pc'[r] = "failed"
    BY <1>4, GotoAt DEF Fail
  <2> QED
    BY <1>1, <2>1, FsNothing, FsStep
<1>5. CASE NextUser(r, mem[r])
  BY <1>1, <1>5, FsNext
<1>6. /\ \A u \in DOMAIN auth : auth[u].key \in Nat
      /\ issued \in Nat
  BY DEF IInv, TypeOK, AuthEntry
<1> QED
  BY <1>2, <1>3, <1>4, <1>5, <1>6 DEF GetUser, CreateUser

LEMMA FsGroups ==
    ASSUME IInv, FsInv, NEW r \in Run, MakeGroup(r) \/ PinGroup(r) \/ PrintOutput(r)
    PROVE  FsInv'
<1> DEFINE f == mem[r].args
           todo == mem[r].todo
<1>1. /\ Act(r) /\ mem[r] \in Memory
      /\ FsOK(pc[r], mem[r], groups, pinned)
      /\ groups \subseteq groups' /\ pinned \subseteq pinned'
  BY DEF Act, Step, MakeGroup, PinGroup, PrintOutput, provider, IInv, TypeOK, FsInv
<1>2. CASE MakeGroup(r)
  <2>1. pc[r] = "groupMake" /\ pc'[r] = "groupPin" /\ mem'[r] = mem[r]
        /\ <<f.fs, todo[1]>> \in groups'
    BY <1>2, GotoAt DEF MakeGroup
  <2>2. Handled(f, todo, groups \cap pinned) => Handled(f, todo, groups' \cap pinned')
    BY <1>1 DEF Handled
  <2> HIDE DEF f, todo
  <2>3. FsOK(pc'[r], mem'[r], groups', pinned')
    BY <1>1, <2>1, <2>2 DEF FsOK, Chosen, GroupStages, Upgrading, f, todo
  <2> QED
    BY <1>1, <2>3, FsStep
<1>3. CASE PinGroup(r)
  <2> DEFINE stage == IF Len(todo) > 1 THEN "groupMake" ELSE "print"
             m == [mem[r] EXCEPT !.todo = Tail(@)]
  <2>1. m.args = f /\ m.todo = Tail(todo)
    BY <1>1 DEF Memory
  <2>2. pc[r] = "groupPin" /\ Goto(r, stage, m)
        /\ groups' = groups /\ pinned' = pinned \cup {<<f.fs, todo[1]>>}
    BY <1>3 DEF PinGroup
  <2> HIDE DEF m
  <2>3. pc'[r] = stage /\ mem'[r] = m
    BY <2>2, GotoAt
  <2>4. todo \in Seq(Name) /\ todo # << >>
    BY <2>2 DEF IInv, StageOK, GroupStages
  <2> HIDE DEF f, todo
  <2>5. SUFFICES ASSUME ~f.upgrade, HasCephfs(f)
                 PROVE  Handled(f, IF Len(todo) > 1 THEN Tail(todo) ELSE << >>,
                                groups' \cap pinned')
    <3>1. ~f.dryRun /\ ~f.upgrade /\ HasCephfs(f) => PoolListed(f)
      BY <1>1, <2>2 DEF FsOK, Chosen, GroupStages, f
    <3>2. FsOK(pc'[r], mem'[r], groups', pinned')
      BY <2>1, <2>3, <2>5, <3>1 DEF FsOK, Chosen, GroupStages, Upgrading
    <3> QED
      BY <1>1, <3>2, FsStep
  <2>6. Handled(f, todo, groups \cap pinned) /\ <<f.fs, todo[1]>> \in groups
    BY <1>1, <2>2, <2>5 DEF FsOK, Chosen, GroupStages, f, todo
  <2>7. ASSUME NEW i \in DOMAIN SubvolumeGroups(f),
               <<f.fs, SubvolumeGroups(f)[i]>> \notin groups' \cap pinned'
        PROVE  /\ Len(todo) > 1
               /\ \E j \in DOMAIN Tail(todo) : Tail(todo)[j] = SubvolumeGroups(f)[i]
    <3>1. PICK j \in DOMAIN todo : todo[j] = SubvolumeGroups(f)[i]
      BY <2>2, <2>6, <2>7 DEF Handled
    <3>2. j # 1
      BY <2>2, <2>6, <2>7, <3>1
    <3>3. j \in 2 .. Len(todo) /\ Len(todo) \in Nat
      BY <2>4, <3>1, <3>2
    <3>4. j - 1 \in DOMAIN Tail(todo) /\ Tail(todo)[j - 1] = todo[j]
      BY <2>4, <3>3
    <3> QED
      BY <3>1, <3>3, <3>4
  <2> QED
    BY <2>7 DEF Handled
<1>4. CASE PrintOutput(r)
  <2>1. pc[r] = "print" /\ pc'[r] = "done" /\ mem'[r] = mem[r]
        /\ groups' = groups /\ pinned' = pinned
    BY <1>4, GotoAt DEF PrintOutput, provider
  <2>2. FsOK(pc'[r], mem'[r], groups', pinned')
    BY <1>1, <2>1 DEF FsOK, Chosen, GroupStages, Upgrading
  <2> QED
    BY <1>1, <2>2, FsStep
<1> QED
  BY <1>2, <1>3, <1>4

LEMMA FsUpgrade ==
    ASSUME IInv, FsInv, NEW r \in Run, UpgradeGet(r) \/ UpgradeSet(r)
    PROVE  FsInv'
<1>1. /\ Act(r) /\ mem[r] \in Memory /\ mem[r].args \in Flags
      /\ mem[r].args.upgrade /\ groups' = groups /\ pinned' = pinned
  BY DEF Act, Step, UpgradeGet, UpgradeSet, Upgrading, provider, IInv, TypeOK, Memory,
         FsInv, FsOK
<1>2. ASSUME NEW stage, NEW m, Goto(r, stage, m), m.args.upgrade PROVE FsInv'
  <2>1. FsOK(pc'[r], mem'[r], groups', pinned')
    BY <1>2, GotoAt DEF FsOK
  <2> QED
    BY <1>1, <2>1, FsStep
<1>3. ASSUME NEW M, NextUpgrade(r, [mem[r] EXCEPT !.missing = M])
      PROVE  FsInv'
  <2> DEFINE m == [mem[r] EXCEPT !.missing = M]
             n == [m EXCEPT !.todo = Tail(@), !.seen = NoCaps]
  <2>1. n.args = mem[r].args
    BY <1>1 DEF Memory
  <2>2. \E stage : Goto(r, stage, n)
    BY <1>3 DEF NextUpgrade
  <2> HIDE DEF n
  <2> QED
    BY <1>1, <1>2, <2>1, <2>2
<1>4. CASE NextUpgrade(r, mem[r])
  <2> DEFINE n == [mem[r] EXCEPT !.todo = Tail(@), !.seen = NoCaps]
  <2>1. n.args = mem[r].args
    BY <1>1 DEF Memory
  <2>2. \E stage : Goto(r, stage, n)
    BY <1>4 DEF NextUpgrade
  <2> HIDE DEF n
  <2> QED
    BY <1>1, <1>2, <2>1, <2>2
<1>5. ASSUME NEW user, NEW p, NEW caps,
             Goto(r, "upgradeSet", [mem[r] EXCEPT
                !.args = Narrowed(user, [mem[r].args EXCEPT !.prefix = p]),
                !.seen = caps])
      PROVE  FsInv'
  <2> DEFINE f == Narrowed(user, [mem[r].args EXCEPT !.prefix = p])
             n == [mem[r] EXCEPT !.args = f, !.seen = caps]
  <2>1. f.upgrade = mem[r].args.upgrade
    BY <1>1 DEF Narrowed, Flags
  <2> HIDE DEF f
  <2>2. n.args = f
    BY <1>1 DEF Memory
  <2>3. Goto(r, "upgradeSet", n)
    BY <1>5 DEF f
  <2> HIDE DEF n
  <2> QED
    BY <1>1, <1>2, <2>1, <2>2, <2>3
<1>6. CASE Fail(r)
  <2>1. pc'[r] = "failed"
    BY <1>6, GotoAt DEF Fail
  <2> QED
    BY <1>1, <2>1, FsNothing, FsStep
<1>7. CASE UpgradeGet(r)
  BY <1>3, <1>5, <1>6, <1>7 DEF UpgradeGet
<1> QED
  BY <1>4, <1>7 DEF UpgradeSet

LEMMA FsKept ==
    ASSUME IInv, FsInv, [Next]_vars
    PROVE  FsInv'
<1>1. CASE UNCHANGED vars
  BY <1>1 DEF vars, provider, FsInv
<1>2. ASSUME NEW r \in Run, Abort(r) \/ InitPool(r) PROVE FsInv'
  <2>1. Act(r) /\ groups' = groups /\ pinned' = pinned
    BY <1>2 DEF Act, Step, Abort, InitPool, provider
  <2>2. pc'[r] \in {"failed", "cluster"}
    BY <1>2, GotoAt DEF Abort, InitPool, Fail
  <2> QED
    BY <2>1, <2>2, FsNothing, FsStep
<1> QED
  BY <1>1, <1>2, FsStart, FsReadCluster, FsUsers, FsGroups, FsUpgrade DEF Next, Step

LEMMA FsAlways == Spec => []FsInv
<1>1. Init => FsInv
  BY DEF Init, FsInv, FsOK, Chosen, UserStages, GroupStages, Upgrading
<1> QED
  BY <1>1, FsKept, InvariantHolds, PTL DEF Spec

\* The printed data pool is one of the printed file system's, whatever flags are
\* given and whatever the provider's file systems look like.
THEOREM PoolsMatch == Spec => []PoolOfFileSystem
<1>1. FsInv => PoolOfFileSystem
  BY DEF FsInv, FsOK, PoolOfFileSystem, Printed, PoolListed, Chosen
<1> QED
  BY <1>1, FsAlways, PTL

\* Whoever is given CephFS credentials finds the subvolume groups, pinned, for
\* any number of overlapping and dying exports.
THEOREM GroupsAreReady == Spec => []GroupsReady
<1>1. FsInv => GroupsReady
  <2> SUFFICES ASSUME FsInv, NEW r \in Run, Printed(r), HasCephfs(mem[r].args)
               PROVE  Handled(mem[r].args, << >>, groups \cap pinned)
    BY DEF GroupsReady, Handled
  <2> QED
    BY DEF FsInv, FsOK, Printed, Chosen
<1> QED
  BY <1>1, FsAlways, PTL

-----------------------------------------------------------------------------
(***************************************************************************)
(* A finished upgrade has upgraded every user it found, and has connected  *)
(* the checker to no RGW pools but its own and those it was asked for.     *)
(***************************************************************************)

\* The user u has what an upgrade with the flags f gives it, as far as the
\* flags were narrowed when its turn came.
HasNewCaps(u, f, a) ==
    /\ u \in DOMAIN a
    /\ \E narrow \in BOOLEAN :
          /\ narrow => f.restricted
          /\ ~narrow => IsDefaultName(u)
          /\ CapsLeq(CapsOf(BaseOf(u), [f EXCEPT !.restricted = narrow]), a[u].caps)

\* The first n users of the list have been handled, the others are still to do.
Handling(n, m, a) ==
    LET list == UpgradeUsers(m.args) IN
    /\ Len(m.todo) = Len(list) - n
    /\ \A j \in 1 .. Len(m.todo) : m.todo[j] = list[n + j]
    /\ \A i \in 1 .. n : list[i] \in m.missing \/ HasNewCaps(list[i], m.args, a)

AskedPrefixes == {f.prefix : f \in {g \in Invocations : g.upgrade}}

\* Until the default checker, the fifth on the list, has been looked at, the
\* prefix is the one of the command line; then it may be one that it had.
PrefixOK(stage, n, m) ==
    /\ n < 4 \/ (n = 4 /\ stage = "upgradeGet") => m.args.prefix \in AskedPrefixes
    /\ n = 4 /\ stage = "upgradeSet" =>
          m.args.prefix \in AskedPrefixes \cup PrefixesIn(m.seen)

UpOK(stage, m, a) ==
    /\ stage \in Running \ Upgrading => ~m.args.upgrade
    /\ stage = "upgradeSet" =>
          /\ m.args.restricted \/ IsDefaultName(m.todo[1])
          /\ m.todo[1] \in DOMAIN a /\ m.seen = a[m.todo[1]].caps
    /\ stage \in Upgrading =>
          \E n \in 0 .. 5 : Handling(n, m, a) /\ PrefixOK(stage, n, m)
    /\ stage = "done" /\ m.args.upgrade =>
          \A i \in DOMAIN UpgradeUsers(m.args) :
              \/ UpgradeUsers(m.args)[i] \in m.missing
              \/ HasNewCaps(UpgradeUsers(m.args)[i], m.args, a)

UpInv == \A r \in Run : UpOK(pc[r], mem[r], auth)

\* The users of an upgrade: the CSI users, the default checker, and perhaps one
\* more checker.
LEMMA UpgradeList ==
    ASSUME NEW f \in Flags
    PROVE  /\ UpgradeUsers(f) \in Seq(User) /\ Len(UpgradeUsers(f)) \in {5, 6}
           /\ \A i \in 1 .. 4 : BaseOf(UpgradeUsers(f)[i]) \in CsiBases
           /\ UpgradeUsers(f)[5] = DefaultChecker
           /\ Len(UpgradeUsers(f)) = 6 => UpgradeUsers(f)[6] # DefaultChecker
<1> DEFINE rest == <<<<"csi-cephfs-node">>, <<"csi-cephfs-provisioner">>,
                     <<"csi-rbd-node">>, <<"csi-rbd-provisioner">>, DefaultChecker>>
           own == IF f.runAs = Unset \/ f.runAs \in DefaultUsers
                  THEN << >> ELSE <<f.runAs>>
<1>1. UpgradeUsers(f) = rest \o own /\ UpgradeUsers(f) \in Seq(User)
  BY ListTypes DEF UpgradeUsers
<1>2. /\ DefaultChecker \in User /\ <<"csi-rbd-node">> \in User
      /\ <<"csi-rbd-provisioner">> \in User /\ <<"csi-cephfs-node">> \in User
      /\ <<"csi-cephfs-provisioner">> \in User
  BY BaseIsUser DEF Bases, CsiBases, DefaultChecker
<1>3. own \in Seq(User) /\ Len(own) \in {0, 1}
  BY EmptySeq DEF Flags
<1>4. Len(own) = 1 => own[1] # DefaultChecker
  <2>1. DefaultChecker \in DefaultUsers
    BY DEF DefaultUsers, DefaultChecker
  <2>2. CASE f.runAs = Unset \/ f.runAs \in DefaultUsers
    <3>1. own = << >> /\ Len(<< >>) = 0
      BY <2>2
    <3> QED
      BY <3>1
  <2>3. CASE f.runAs # Unset /\ f.runAs \notin DefaultUsers
    <3>1. own = <<f.runAs>>
      BY <2>3
    <3>2. own[1] = f.runAs
      BY <3>1
    <3> QED
      BY <2>1, <2>3, <3>2
  <2> QED
    BY <2>2, <2>3
<1>5. /\ rest \in Seq(User) /\ Len(rest) = 5 /\ rest[5] = DefaultChecker
      /\ \A i \in 1 .. 4 : BaseOf(rest[i]) \in CsiBases
  <2>1. rest \in Seq(User) /\ Len(rest) = 5
    BY <1>2
  <2>2. /\ rest[1] = <<"csi-cephfs-node">> /\ rest[2] = <<"csi-cephfs-provisioner">>
        /\ rest[3] = <<"csi-rbd-node">> /\ rest[4] = <<"csi-rbd-provisioner">>
        /\ rest[5] = DefaultChecker
    OBVIOUS
  <2>3. \A i \in 1 .. 4 : i = 1 \/ i = 2 \/ i = 3 \/ i = 4
    OBVIOUS
  <2> HIDE DEF rest
  <2> QED
    BY <2>1, <2>2, <2>3 DEF BaseOf, CsiBases
<1> HIDE DEF rest, own
<1>6. /\ Len(rest \o own) = 5 + Len(own)
      /\ \A i \in 1 .. 5 : (rest \o own)[i] = rest[i]
      /\ Len(own) = 1 => (rest \o own)[6] = own[1]
  <2>1. /\ Len(rest \o own) = Len(rest) + Len(own)
        /\ \A i \in 1 .. Len(rest) + Len(own) :
              (rest \o own)[i] = IF i <= Len(rest) THEN rest[i] ELSE own[i - Len(rest)]
    BY <1>3, <1>5, ConcatProperties
  <2> QED
    BY <1>3, <1>5, <2>1
<1> QED
  BY <1>1, <1>3, <1>4, <1>5, <1>6

\* Only the checker's capabilities depend on the RGW pool prefix.
LEMMA CsiCapsAlike ==
    ASSUME NEW f, NEW g, NEW base \in CsiBases, f.release = g.release,
           f.restricted = g.restricted, f.pool = g.pool, f.ns = g.ns, f.fs = g.fs
    PROVE  CapsOf(base, f) = CapsOf(base, g)
BY DEF CapsOf, CsiBases, RbdOsdOf, RbdOsd, RbdOsd17, RbdNodeCaps, RbdProvisionerCaps,
       CephfsNodeCaps, CephfsProvisionerCaps, CephfsBound

\* Capabilities that were enough stay so when the flags change on the way.
LEMMA HandledThen ==
    ASSUME NEW f \in Flags, NEW p \in Name, NEW u, NEW user, NEW a,
           BaseOf(u) \in CsiBases \/ p = f.prefix, HasNewCaps(u, f, a)
    PROVE  HasNewCaps(u, Narrowed(user, [f EXCEPT !.prefix = p]), a)
<1> DEFINE g == Narrowed(user, [f EXCEPT !.prefix = p])
<1>1. PICK narrow \in BOOLEAN :
         /\ narrow => f.restricted
         /\ ~narrow => IsDefaultName(u)
         /\ CapsLeq(CapsOf(BaseOf(u), [f EXCEPT !.restricted = narrow]), a[u].caps)
  BY DEF HasNewCaps
<1>2. f.restricted => g.restricted
  BY DEF Narrowed, Flags
<1>3. [g EXCEPT !.restricted = narrow] = [f EXCEPT !.restricted = narrow, !.prefix = p]
  BY DEF Narrowed, Flags
<1>4. CapsOf(BaseOf(u), [g EXCEPT !.restricted = narrow])
         = CapsOf(BaseOf(u), [f EXCEPT !.restricted = narrow])
  <2>1. CASE p = f.prefix
    <3>1. [f EXCEPT !.restricted = narrow, !.prefix = p] = [f EXCEPT !.restricted = narrow]
      BY <2>1 DEF Flags
    <3> QED
      BY <1>3, <3>1
  <2>2. CASE BaseOf(u) \in CsiBases
    <3> DEFINE h == [f EXCEPT !.restricted = narrow]
               k == [f EXCEPT !.restricted = narrow, !.prefix = p]
    <3>1. /\ h.release = k.release /\ h.restricted = k.restricted /\ h.pool = k.pool
          /\ h.ns = k.ns /\ h.fs = k.fs
      BY DEF Flags
    <3> HIDE DEF h, k
    <3>2. CapsOf(BaseOf(u), h) = CapsOf(BaseOf(u), k)
      BY <2>2, <3>1, CsiCapsAlike
    <3> QED
      BY <1>3, <3>2 DEF h, k
  <2> QED
    BY <2>1, <2>2
<1> HIDE DEF g
<1>5. HasNewCaps(u, g, a)
  BY <1>1, <1>2, <1>4 DEF HasNewCaps
<1> QED
  BY <1>5 DEF g

\* What has been handled stays so while nobody loses a capability.
LEMMA NewCapsKept ==
    ASSUME NEW u, NEW f, NEW a, NEW b, HasNewCaps(u, f, a),
           \A v \in DOMAIN a : v \in DOMAIN b /\ CapsLeq(a[v].caps, b[v].caps)
    PROVE  HasNewCaps(u, f, b)
BY CapsLeqTransitive DEF HasNewCaps

LEMMA UpStep ==
    ASSUME IInv, SeenInv, UpInv, NEW r \in Run, Act(r),
           UpOK(pc'[r], mem'[r], auth')
    PROVE  UpInv'
<1>1. ASSUME NEW s \in Run \ {r} PROVE UpOK(pc'[s], mem'[s], auth')
  <2>1. pc'[s] = pc[s] /\ mem'[s] = mem[s] /\ UpOK(pc[s], mem[s], auth)
    BY OthersUnmoved DEF UpInv
  <2>2. \A u, f : HasNewCaps(u, f, auth) => HasNewCaps(u, f, auth')
    BY CapsKept, NewCapsKept
  <2>3. \A n : Handling(n, mem[s], auth) => Handling(n, mem[s], auth')
    BY <2>2 DEF Handling
  <2>4. ASSUME pc[s] = "upgradeSet"
        PROVE  /\ mem[s].todo[1] \in DOMAIN auth'
               /\ mem[s].seen = auth'[mem[s].todo[1]].caps
    <3>1. ~UpgradeSet(r)
      BY <2>4 DEF SeenInv, UpgradeSet, Upgrading
    <3> QED
      BY <2>1, <2>4, <3>1, UsersKept DEF UpOK
  <2> QED
    BY <2>1, <2>2, <2>3, <2>4 DEF UpOK
<1> QED
  BY <1>1 DEF UpInv

\* An invocation that has failed, or that is an export.
LEMMA UpNothing ==
    ASSUME IInv, SeenInv, UpInv, NEW r \in Run, Act(r),
           pc'[r] \notin Upgrading, pc'[r] = "failed" \/ ~mem'[r].args.upgrade
    PROVE  UpInv'
<1>1. UpOK(pc'[r], mem'[r], auth')
  BY DEF UpOK, Running, Upgrading
<1> QED
  BY <1>1, UpStep

LEMMA UpExport ==
    ASSUME IInv, SeenInv, UpInv, NEW r \in Run, ExportStep(r)
    PROVE  UpInv'
<1>1. /\ Act(r) /\ mem[r] \in Memory /\ mem[r].args \in Flags
      /\ ~mem[r].args.upgrade
  <2>1. pc[r] \in Running \ Upgrading
    BY DEF ExportStep, InitPool, ReadCluster, GetUser, CreateUser, MakeGroup, PinGroup,
           PrintOutput, Running, Upgrading
  <2>2. mem[r] \in Memory
    BY DEF IInv, TypeOK
  <2> QED
    BY <2>1, <2>2 DEF Act, Step, ExportStep, UpInv, UpOK, Memory
<1> DEFINE Same == pc'[r] = "failed" \/ ~mem'[r].args.upgrade
<1>2. ASSUME NEW stage, NEW m, Goto(r, stage, m), ~m.args.upgrade PROVE Same
  BY <1>2, GotoAt
<1>3. ASSUME Fail(r) PROVE Same
  BY <1>3, GotoAt DEF Fail
<1> HIDE DEF Same
<1>4. ASSUME NEW m \in Memory, m.args = mem[r].args, NextUser(r, m) PROVE Same
  <2>1. PICK stage, todo : Goto(r, stage, [m EXCEPT !.todo = todo])
    BY <1>4 DEF NextUser
  <2> DEFINE n == [m EXCEPT !.todo = todo]
  <2>2. n.args = mem[r].args
    BY <1>4 DEF Memory
  <2> HIDE DEF n
  <2>3. Goto(r, stage, n)
    BY <2>1 DEF n
  <2> QED
    BY <1>1, <1>2, <2>2, <2>3
<1>5. ASSUME NEW base \in Bases, NEW key \in Nat, NextUser(r, Collect(mem[r], base, key)),
             pc[r] \in UserStages
      PROVE  Same
  <2>1. mem[r].args.runAs \in User
    BY <1>5 DEF IInv, StageOK, UserStages, Running, Upgrading
  <2>2. Collect(mem[r], base, key) \in Memory
        /\ Collect(mem[r], base, key).args = mem[r].args
    BY <1>1, <1>5, <2>1, CollectType
  <2> QED
    BY <1>4, <1>5, <2>2
<1>6. ASSUME InitPool(r) PROVE Same
  <2> DEFINE m == [mem[r] EXCEPT !.args.cluster = ClusterName(mem[r].args)]
  <2>1. m.args.upgrade = mem[r].args.upgrade
    BY <1>1 DEF Memory, Flags
  <2>2. Goto(r, "cluster", m) \/ Fail(r)
    BY <1>6 DEF InitPool
  <2> HIDE DEF m
  <2> QED
    BY <1>1, <1>2, <1>3, <2>1, <2>2
<1>7. ASSUME ReadCluster(r) PROVE Same
  <2>1. \/ Fail(r)
        \/ \E fs, dataPool :
             LET chosen == [mem[r].args EXCEPT !.fs = fs, !.dataPool = dataPool]
             IN  Goto(r, "userGet", [mem[r] EXCEPT !.args = chosen,
                                                   !.todo = ExportUsers(chosen)])
    BY <1>7 DEF ReadCluster
  <2>2. ASSUME NEW fs, NEW dataPool,
               LET chosen == [mem[r].args EXCEPT !.fs = fs, !.dataPool = dataPool]
               IN  Goto(r, "userGet", [mem[r] EXCEPT !.args = chosen,
                                                     !.todo = ExportUsers(chosen)])
        PROVE  Same
    <3> DEFINE chosen == [mem[r].args EXCEPT !.fs = fs, !.dataPool = dataPool]
               m == [mem[r] EXCEPT !.args = chosen, !.todo = ExportUsers(chosen)]
    <3>1. chosen.upgrade = mem[r].args.upgrade
      BY <1>1 DEF Flags
    <3>2. Goto(r, "userGet", m)
      BY <2>2
    <3> HIDE DEF chosen
    <3>3. m.args = chosen
      BY <1>1 DEF Memory
    <3> HIDE DEF m
    <3> QED
      BY <1>1, <1>2, <3>1, <3>2, <3>3
  <2> QED
    BY <1>3, <2>1, <2>2
<1>8. ASSUME GetUser(r) \/ CreateUser(r) PROVE Same
  <2> DEFINE base == BaseOf(mem[r].todo[1])
  <2>1. pc[r] \in UserStages /\ base \in Bases
    BY <1>8, CurrentUser DEF GetUser, CreateUser, UserStages
  <2>2. issued \in Nat /\ \A u \in DOMAIN auth : auth[u].key \in Nat
    BY DEF IInv, TypeOK, AuthEntry
  <2>3. \/ Fail(r) \/ NextUser(r, mem[r]) \/ Goto(r, "userCreate", mem[r])
        \/ \E key \in Nat : NextUser(r, Collect(mem[r], base, key))
    BY <1>8, <2>2 DEF GetUser, CreateUser
  <2> HIDE DEF base
  <2> QED
    BY <1>1, <1>2, <1>3, <1>4, <1>5, <2>1, <2>3
<1>9. ASSUME MakeGroup(r) \/ PrintOutput(r) PROVE Same
  BY <1>1, <1>2, <1>9 DEF MakeGroup, PrintOutput
<1>10. ASSUME PinGroup(r) PROVE Same
  <2> DEFINE m == [mem[r] EXCEPT !.todo = Tail(@)]
  <2>1. m.args = mem[r].args
    BY <1>1 DEF Memory
  <2>2. \E stage : Goto(r, stage, m)
    BY <1>10 DEF PinGroup
  <2> HIDE DEF m
  <2> QED
    BY <1>1, <1>2, <2>1, <2>2
<1>11. Same
  BY <1>6, <1>7, <1>8, <1>9, <1>10 DEF ExportStep
<1> QED
  BY <1>1, <1>11, ExportStages, UpNothing DEF Same

LEMMA UpStart ==
    ASSUME IInv, SeenInv, UpInv, NEW r \in Run, Start(r)
    PROVE  UpInv'
<1>1. Act(r) /\ mem[r] \in Memory /\ auth' = auth
  BY DEF Act, Start, provider, IInv, TypeOK
<1>2. PICK f \in Invocations :
        LET m == [mem[r] EXCEPT !.args = Parsed(f)] IN
        IF f.upgrade
        THEN Goto(r, "upgradeGet", [m EXCEPT !.todo = UpgradeUsers(f)])
        ELSE IF Conflicting(f) THEN Fail(r) ELSE Goto(r, "pool", m)
  BY DEF Start
<1>3. f \in Flags /\ Parsed(f).upgrade = f.upgrade
  BY RunAssumption, ParsedType
<1>4. CASE ~f.upgrade
  <2> DEFINE m == [mem[r] EXCEPT !.args = Parsed(f)]
  <2>1. m.args = Parsed(f)
    BY <1>1 DEF Memory
  <2>2. Fail(r) \/ Goto(r, "pool", m)
    BY <1>2, <1>4
  <2> HIDE DEF m
  <2>3. pc'[r] = "failed" \/ (pc'[r] = "pool" /\ mem'[r] = m)
    BY <2>2, GotoAt DEF Fail
  <2> QED
    BY <1>1, <1>3, <1>4, <2>1, <2>3, UpNothing DEF Upgrading
<1>5. CASE f.upgrade
  <2> DEFINE m == [mem[r] EXCEPT !.args = Parsed(f), !.todo = UpgradeUsers(f)]
  <2>1. Parsed(f) = f
    BY <1>5 DEF Parsed
  <2>2. m.args = f /\ m.todo = UpgradeUsers(f)
    BY <1>1, <2>1 DEF Memory
  <2>3. Goto(r, "upgradeGet", m)
    BY <1>1, <1>2, <1>5 DEF Memory
  <2> HIDE DEF m
  <2>4. pc'[r] = "upgradeGet" /\ mem'[r] = m
    BY <2>3, GotoAt
  <2>5. Handling(0, m, auth)
    BY <1>3, <2>2, UpgradeList DEF Handling
  <2>6. PrefixOK("upgradeGet", 0, m)
    BY <1>5, <2>2 DEF PrefixOK, AskedPrefixes
  <2>7. UpOK("upgradeGet", m, auth)
    BY <2>5, <2>6 DEF UpOK, Running, Upgrading
  <2> QED
    BY <1>1, <2>4, <2>7, UpStep
<1> QED
  BY <1>4, <1>5

\* On to the next user, once this one has been handled.
LEMMA UpNext ==
    ASSUME IInv, SeenInv, UpInv, NEW r \in Run, Act(r), pc[r] \in Upgrading,
           NEW M \in SUBSET User, mem[r].missing \subseteq M,
           NextUpgrade(r, [mem[r] EXCEPT !.missing = M]),
           \/ mem[r].todo[1] \in M
           \/ HasNewCaps(mem[r].todo[1], mem[r].args, auth')
    PROVE  UpInv'
<1> DEFINE m == [mem[r] EXCEPT !.missing = M]
           k == [m EXCEPT !.todo = Tail(@), !.seen = NoCaps]
           list == UpgradeUsers(mem[r].args)
           todo == mem[r].todo
           stage == IF Len(todo) > 1 THEN "upgradeGet" ELSE "done"
<1>1. /\ mem[r] \in Memory /\ mem[r].args \in Flags
      /\ todo \in Seq(User) \ {<< >>} /\ UpOK(pc[r], mem[r], auth)
  BY CurrentUser DEF UpInv
<1>2. k.args = mem[r].args /\ k.todo = Tail(todo) /\ k.missing = M /\ m.todo = todo
  BY <1>1 DEF Memory
<1>3. pc'[r] = stage /\ mem'[r] = k
  BY <1>2, GotoAt DEF NextUpgrade
<1>4. PICK n \in 0 .. 5 : Handling(n, mem[r], auth) /\ PrefixOK(pc[r], n, mem[r])
  BY <1>1 DEF UpOK
<1>5. /\ list \in Seq(User) /\ Len(list) \in {5, 6}
  BY <1>1, UpgradeList
<1>6. /\ Len(todo) \in Nat \ {0} /\ Len(Tail(todo)) = Len(todo) - 1
      /\ \A i \in 1 .. Len(Tail(todo)) : Tail(todo)[i] = todo[i + 1]
  BY <1>1, HeadTailProperties, LenProperties, EmptySeq
<1>7. /\ Len(todo) = Len(list) - n
      /\ \A j \in 1 .. Len(todo) : todo[j] = list[n + j]
      /\ \A i \in 1 .. n : list[i] \in mem[r].missing \/ HasNewCaps(list[i], mem[r].args, auth)
  BY <1>4 DEF Handling
<1>8. todo[1] = list[n + 1]
  BY <1>6, <1>7
<1> HIDE DEF m, k, list, todo, stage
<1>9. \A i \in 1 .. n + 1 : list[i] \in k.missing \/ HasNewCaps(list[i], k.args, auth')
  <2>1. ASSUME NEW i \in 1 .. n PROVE list[i] \in k.missing \/ HasNewCaps(list[i], k.args, auth')
    <3>1. list[i] \in mem[r].missing \/ HasNewCaps(list[i], mem[r].args, auth)
      BY <1>7
    <3> QED
      BY <1>2, <3>1, CapsKept, NewCapsKept
  <2>2. list[n + 1] \in k.missing \/ HasNewCaps(list[n + 1], k.args, auth')
    BY <1>2, <1>8 DEF todo
  <2>3. \A i \in 1 .. n + 1 : i \in 1 .. n \/ i = n + 1
    OBVIOUS
  <2> QED
    BY <2>1, <2>2, <2>3
<1>10. list = UpgradeUsers(k.args)
  BY <1>2 DEF list
<1>11. CASE Len(todo) > 1
  <2>1. stage = "upgradeGet"
    BY <1>11 DEF stage
  <2>5. n + 1 \in 0 .. 5
    <3>1. \A a \in Nat, b \in {5, 6} : a > 1 /\ a = b - n => n + 1 \in 0 .. 5
      OBVIOUS
    <3> QED
      BY <1>5, <1>6, <1>7, <1>11, <3>1
  <2>2. Handling(n + 1, k, auth')
    <3>1. Len(k.todo) = Len(list) - (n + 1)
      BY <1>2, <1>5, <1>6, <1>7
    <3>2. ASSUME NEW j \in 1 .. Len(k.todo) PROVE k.todo[j] = list[(n + 1) + j]
      <4>1. k.todo[j] = todo[j + 1] /\ j + 1 \in 1 .. Len(todo)
        BY <1>2, <1>6
      <4>2. todo[j + 1] = list[n + (j + 1)]
        BY <1>7, <4>1
      <4>3. n + (j + 1) = (n + 1) + j
        OBVIOUS
      <4> QED
        BY <4>1, <4>2, <4>3
    <3> QED
      BY <1>9, <1>10, <3>1, <3>2 DEF Handling
  <2>3. PrefixOK("upgradeGet", n + 1, k)
    BY <1>2, <1>4 DEF PrefixOK
  <2>4. UpOK("upgradeGet", k, auth')
    BY <2>5, <2>2, <2>3 DEF UpOK, Running, Upgrading
  <2> QED
    BY <1>3, <2>1, <2>4, UpStep
<1>12. CASE ~(Len(todo) > 1)
  <2>1. stage = "done" /\ Len(list) = n + 1
    BY <1>5, <1>6, <1>7, <1>12 DEF stage
  <2>2. DOMAIN list = 1 .. n + 1
    BY <1>5, <2>1
  <2>3. UpOK("done", k, auth')
    BY <1>9, <1>10, <2>2 DEF UpOK, Running, Upgrading
  <2> QED
    BY <1>3, <2>1, <2>3, UpStep
<1> QED
  BY <1>11, <1>12

\* The user has been read, and the flags may have been rewritten.
LEMMA UpRead ==
    ASSUME IInv, SeenInv, UpInv, NEW r \in Run, UpgradeGet(r),
           NEW user, user = mem[r].todo[1], user \in DOMAIN auth,
           NEW p \in PrefixChoices(user, mem[r].args, auth[user].caps),
           NEW f, f = Narrowed(user, [mem[r].args EXCEPT !.prefix = p]),
           Accepts(BaseOf(user), f),
           Goto(r, "upgradeSet", [mem[r] EXCEPT !.args = f, !.seen = auth[user].caps])
    PROVE  UpInv'
<1> DEFINE old == mem[r].args
           k == [mem[r] EXCEPT !.args = f, !.seen = auth[user].caps]
           list == UpgradeUsers(old)
<1>1. /\ Act(r) /\ auth' = auth /\ pc[r] = "upgradeGet" /\ pc[r] \in Upgrading
  BY DEF Act, Step, UpgradeGet, provider, Upgrading
<1>2. /\ mem[r] \in Memory /\ old \in Flags /\ user \in User /\ BaseOf(user) \in Bases
      /\ mem[r].todo \in Seq(User) \ {<< >>} /\ UpOK("upgradeGet", mem[r], auth)
  BY <1>1, CurrentUser DEF UpInv
<1>3. pc'[r] = "upgradeSet" /\ mem'[r] = k
  BY GotoAt
<1>4. /\ k.args = f /\ k.todo = mem[r].todo /\ k.seen = auth[user].caps
      /\ k.missing = mem[r].missing
  BY <1>2 DEF Memory
<1>5. PICK n \in 0 .. 5 : Handling(n, mem[r], auth) /\ PrefixOK("upgradeGet", n, mem[r])
  BY <1>2 DEF UpOK, Upgrading
<1>6. /\ list \in Seq(User) /\ Len(list) \in {5, 6}
      /\ \A i \in 1 .. 4 : BaseOf(list[i]) \in CsiBases
      /\ list[5] = DefaultChecker /\ (Len(list) = 6 => list[6] # DefaultChecker)
  BY <1>2, UpgradeList
<1>7. Len(mem[r].todo) \in Nat \ {0}
  BY <1>2, LenProperties, EmptySeq
<1>8. /\ user = list[n + 1] /\ n + 1 \in 1 .. Len(list)
  BY <1>5, <1>6, <1>7 DEF Handling
<1>9. p \in Name /\ (n # 4 => p = old.prefix)
      /\ p \in {old.prefix} \cup PrefixesIn(auth[user].caps)
  <2>1. auth[user].caps \in Caps
    BY DEF IInv, TypeOK, AuthEntry
  <2>2. user = DefaultChecker => n = 4
    <3>1. BaseOf(DefaultChecker) = "healthchecker"
      BY DEF BaseOf, DefaultChecker
    <3>2. "healthchecker" \notin CsiBases
      BY DEF CsiBases
    <3>3. n \in 0 .. 3 \/ n = 4 \/ n = 5
      OBVIOUS
    <3>4. n \in 0 .. 3 => n + 1 \in 1 .. 4
      OBVIOUS
    <3> HIDE DEF list
    <3>5. n = 5 => Len(list) = 6
      BY <1>6, <1>8
    <3>6. n = 5 => user # DefaultChecker
      BY <1>6, <1>8, <3>5
    <3>7. n \in 0 .. 3 => user # DefaultChecker
      BY <1>6, <1>8, <3>1, <3>2, <3>4
    <3> QED
      BY <3>3, <3>6, <3>7
  <2> QED
    BY <1>2, <2>1, <2>2, PrefixesType DEF PrefixChoices, Flags
<1>10. UpgradeUsers(f) = list
  BY <1>2 DEF UpgradeUsers, Narrowed, Flags
<1>11. f.prefix = p /\ (f.restricted \/ IsDefaultName(user))
  <2>1. BaseOf(user) \in CsiBases \cup {"healthchecker"}
    BY DEF Accepts, CsiBases
  <2> QED
    BY <1>2, <2>1 DEF Narrowed, Flags
<1> HIDE DEF k
<1>12. Handling(n, k, auth)
  <2>1. /\ Len(mem[r].todo) = Len(list) - n
        /\ \A j \in 1 .. Len(mem[r].todo) : mem[r].todo[j] = list[n + j]
        /\ \A i \in 1 .. n : list[i] \in mem[r].missing \/ HasNewCaps(list[i], old, auth)
    BY <1>5 DEF Handling
  <2> HIDE DEF list, old
  <2>2. ASSUME NEW i \in 1 .. n, HasNewCaps(list[i], old, auth)
        PROVE  HasNewCaps(list[i], f, auth)
    <3>1. BaseOf(list[i]) \in CsiBases \/ p = old.prefix
      <4>1. n # 4 \/ i \in 1 .. 4
        OBVIOUS
      <4> QED
        BY <1>6, <1>9, <4>1
    <3> QED
      BY <1>2, <1>9, <2>2, <3>1, HandledThen DEF old
  <2> QED
    BY <1>4, <1>10, <2>1, <2>2 DEF Handling
<1>13. PrefixOK("upgradeSet", n, k)
  BY <1>4, <1>5, <1>9, <1>11 DEF PrefixOK
<1>14. UpOK("upgradeSet", k, auth')
  BY <1>1, <1>4, <1>11, <1>12, <1>13 DEF UpOK, Running, Upgrading
<1> QED
  BY <1>1, <1>3, <1>14, UpStep

LEMMA UpGet ==
    ASSUME IInv, SeenInv, UpInv, NEW r \in Run, UpgradeGet(r)
    PROVE  UpInv'
<1> DEFINE user == mem[r].todo[1]
<1>1. /\ Act(r) /\ pc[r] \in Upgrading /\ mem[r] \in Memory /\ user \in User
  BY CurrentUser DEF Act, Step, UpgradeGet, Upgrading
<1>2. CASE NextUpgrade(r, [mem[r] EXCEPT !.missing = @ \cup {user}])
  <2>1. mem[r].missing \cup {user} \in SUBSET User
    BY <1>1 DEF Memory
  <2> QED
    BY <1>1, <1>2, <2>1, UpNext
<1>3. CASE Fail(r)
  <2>1. pc'[r] = "failed" /\ "failed" \notin Upgrading
    BY <1>3, GotoAt DEF Fail, Upgrading
  <2> QED
    BY <1>1, <2>1, UpNothing
<1>4. ASSUME user \in DOMAIN auth,
             NEW p \in PrefixChoices(user, mem[r].args, auth[user].caps),
             LET f == Narrowed(user, [mem[r].args EXCEPT !.prefix = p]) IN
             IF Accepts(BaseOf(user), f)
             THEN Goto(r, "upgradeSet", [mem[r] EXCEPT
                         !.args = f, !.seen = auth[user].caps])
             ELSE Fail(r)
      PROVE  UpInv'
  <2> DEFINE f == Narrowed(user, [mem[r].args EXCEPT !.prefix = p])
  <2>1. CASE Accepts(BaseOf(user), f)
    <3>1. Goto(r, "upgradeSet", [mem[r] EXCEPT !.args = f, !.seen = auth[user].caps])
      BY <1>4, <2>1
    <3> QED
      BY <1>4, <2>1, <3>1, UpRead
  <2> QED
    BY <1>3, <1>4, <2>1
<1> QED
  BY <1>2, <1>3, <1>4 DEF UpgradeGet

\* The capabilities that UpgradeSet writes are those of the new release, and more.
LEMMA UpSet ==
    ASSUME IInv, SeenInv, UpInv, NEW r \in Run, UpgradeSet(r)
    PROVE  UpInv'
<1> DEFINE user == mem[r].todo[1]
           f == mem[r].args
           new == CapsOf(BaseOf(user), f)
<1>1. /\ Act(r) /\ pc[r] = "upgradeSet" /\ pc[r] \in Upgrading
      /\ mem[r] \in Memory /\ f \in Flags /\ user \in User
      /\ UpOK("upgradeSet", mem[r], auth)
  BY CurrentUser DEF Act, Step, UpgradeSet, Upgrading, UpInv
<1>2. user \in DOMAIN auth /\ (f.restricted \/ IsDefaultName(user))
  BY <1>1 DEF UpOK
<1>3. new \in Caps /\ mem[r].seen \in Caps
  BY <1>1, CapsType DEF Memory
<1>4. /\ user \in DOMAIN auth'
      /\ auth'[user].caps = MergeCaps(mem[r].seen, new)
  BY <1>2 DEF UpgradeSet, IInv, TypeOK, AuthEntry
<1>5. CapsLeq(new, auth'[user].caps)
  BY <1>3, <1>4, MergeProperties
<1>6. [f EXCEPT !.restricted = f.restricted] = f /\ f.restricted \in BOOLEAN
  BY <1>1 DEF Flags
<1>7. HasNewCaps(user, f, auth')
  <2>1. CapsLeq(CapsOf(BaseOf(user), [f EXCEPT !.restricted = f.restricted]),
                auth'[user].caps)
    BY <1>5, <1>6
  <2> HIDE DEF user, f, new
  <2> QED
    BY <1>2, <1>4, <1>6, <2>1 DEF HasNewCaps
<1>8. [mem[r] EXCEPT !.missing = mem[r].missing] = mem[r] /\ mem[r].missing \in SUBSET User
  BY <1>1 DEF Memory
<1>9. NextUpgrade(r, mem[r])
  BY DEF UpgradeSet
<1>10. NextUpgrade(r, [mem[r] EXCEPT !.missing = mem[r].missing])
  BY <1>8, <1>9
<1> QED
  BY <1>1, <1>7, <1>8, <1>10, UpNext

LEMMA UpKept ==
    ASSUME IInv, SeenInv, UpInv, [Next]_vars
    PROVE  UpInv'
<1>1. CASE UNCHANGED vars
  BY <1>1 DEF vars, UpInv
<1>2. ASSUME NEW r \in Run, Abort(r) PROVE UpInv'
  <2>1. Act(r) /\ pc'[r] = "failed" /\ "failed" \notin Upgrading
    BY <1>2, GotoAt DEF Act, Abort, Fail, Upgrading
  <2> QED
    BY <2>1, UpNothing
<1> QED
  BY <1>1, <1>2, UpStart, UpExport, UpGet, UpSet DEF Next, Step, ExportStep

LEMMA UpAlways ==
    ASSUME ~ConcurrentUpgrades
    PROVE  Spec => [](IInv /\ SeenInv /\ UpInv)
<1>1. Init => SeenInv /\ UpInv
  BY DEF Init, SeenInv, UpInv, UpOK, Running, Upgrading
<1>2. IInv /\ SeenInv /\ [Next]_vars => SeenInv'
  BY SeenNext
<1>3. IInv /\ SeenInv /\ UpInv /\ [Next]_vars => UpInv'
  BY UpKept
<1> QED
  BY <1>1, <1>2, <1>3, InvariantHolds, PTL DEF Spec

\* A finished upgrade has left no user behind: whoever was not reported as "not
\* found" has the capabilities of the new release, also when exports, failing
\* lookups and dying invocations came between.
THEOREM UpgradesAreComplete ==
    ASSUME ~ConcurrentUpgrades
    PROVE  Spec => []UpgradeComplete
<1>1. UpInv => UpgradeComplete
  BY DEF UpInv, UpOK, UpgradeComplete, HasNewCaps
<1> QED
  BY <1>1, UpAlways, PTL

LEMMA CheckerPrefixes ==
    ASSUME NEW c \in Caps, NEW f \in Flags
    PROVE  PrefixesIn(MergeCaps(c, CapsOf("healthchecker", f)))
               \subseteq PrefixesIn(c) \cup {f.prefix}
<1> DEFINE new == CapsOf("healthchecker", f)
<1>1. new["osd"] = Allow({"profile rbd-read-only", "rgw.root"}) \cup
                     UNION {AllowOn(k, f.prefix, Unset) : k \in
                              {"rgw.meta", "rgw.control", "rgw.log",
                               "rgw.buckets.index"}}
  BY OsdPart DEF CapsOf
<1>2. ASSUME NEW p \in new["osd"], p.kind = "rgw.meta" PROVE p.on = f.prefix
  <2>1. CASE p \in Allow({"profile rbd-read-only", "rgw.root"})
    <3>1. p.kind \in {"profile rbd-read-only", "rgw.root"}
      BY <2>1, AllowFields
    <3> QED
      BY <1>2, <3>1
  <2>2. CASE \E k : p \in AllowOn(k, f.prefix, Unset)
    BY <2>2, AllowOnFields
  <2> QED
    BY <1>1, <2>1, <2>2
<1>3. MergeCaps(c, new)["osd"] = c["osd"] \cup new["osd"]
  BY DEF MergeCaps, Daemons
<1> HIDE DEF new
<1>4. PrefixesIn(MergeCaps(c, new)) \subseteq PrefixesIn(c) \cup {f.prefix}
  BY <1>2, <1>3 DEF PrefixesIn
<1> QED
  BY <1>4 DEF new

\* An upgrade is the only writer of an existing checker's capabilities, and the
\* prefix it writes was asked for or is one that the checker has.
LEMMA PrefixKept ==
    ASSUME IInv, UpInv, NEW r \in Run, UpgradeSet(r), DefaultChecker \in DOMAIN auth
    PROVE  PrefixesIn(auth'[DefaultChecker].caps)
               \subseteq PrefixesIn(auth[DefaultChecker].caps) \cup AskedPrefixes
<1> DEFINE user == mem[r].todo[1]
           f == mem[r].args
           list == UpgradeUsers(f)
<1>1. /\ pc[r] = "upgradeSet" /\ pc[r] \in Upgrading
      /\ mem[r] \in Memory /\ f \in Flags /\ user \in User
      /\ mem[r].todo \in Seq(User) \ {<< >>}
      /\ UpOK("upgradeSet", mem[r], auth)
  BY CurrentUser DEF UpgradeSet, Upgrading, UpInv
<1>2. user \in DOMAIN auth /\ mem[r].seen = auth[user].caps /\ mem[r].seen \in Caps
  BY <1>1 DEF UpOK, Memory
<1>3. \A u \in DOMAIN auth \ {user} : auth'[u] = auth[u]
  BY DEF UpgradeSet
<1>4. CASE user # DefaultChecker
  BY <1>3, <1>4
<1>5. CASE user = DefaultChecker
  <2>1. BaseOf(DefaultChecker) = "healthchecker" /\ "healthchecker" \notin CsiBases
    BY DEF BaseOf, DefaultChecker, CsiBases
  <2>2. auth'[user].caps = MergeCaps(mem[r].seen, CapsOf("healthchecker", f))
    BY <1>2, <1>5, <2>1 DEF UpgradeSet, IInv, TypeOK, AuthEntry
  <2>3. PICK n \in 0 .. 5 : Handling(n, mem[r], auth) /\ PrefixOK("upgradeSet", n, mem[r])
    BY <1>1 DEF UpOK, Upgrading
  <2>4. /\ list \in Seq(User) /\ Len(list) \in {5, 6}
        /\ \A i \in 1 .. 4 : BaseOf(list[i]) \in CsiBases
        /\ (Len(list) = 6 => list[6] # DefaultChecker)
    BY <1>1, UpgradeList
  <2>5. Len(mem[r].todo) \in Nat \ {0}
    BY <1>1, LenProperties, EmptySeq
  <2>6. user = list[n + 1] /\ n + 1 \in 1 .. Len(list)
    BY <2>3, <2>4, <2>5 DEF Handling
  <2> HIDE DEF list
  <2>7. n = 4
    <3>1. n \in 0 .. 3 \/ n = 4 \/ n = 5
      OBVIOUS
    <3>2. n \in 0 .. 3 => n + 1 \in 1 .. 4
      OBVIOUS
    <3> QED
      BY <1>5, <2>1, <2>4, <2>6, <3>1, <3>2
  <2>8. f.prefix \in AskedPrefixes \cup PrefixesIn(mem[r].seen)
    BY <2>3, <2>7 DEF PrefixOK
  <2> QED
    BY <1>1, <1>2, <1>5, <2>2, <2>8, CheckerPrefixes
<1> QED
  BY <1>4, <1>5

\* An upgrade without --rgw-pool-prefix leaves the default checker with the RGW
\* pools it has: the default prefix of an export is never added.
THEOREM NoPrefixIsInvented ==
    ASSUME ~ConcurrentUpgrades
    PROVE  Spec => NoPrefixInvented
<1>1. IInv /\ UpInv /\ [Next]_vars =>
         [\A u \in DOMAIN auth \cap {DefaultChecker} :
            PrefixesIn(auth'[u].caps) \subseteq
                PrefixesIn(auth[u].caps) \cup
                {f.prefix : f \in {g \in Invocations : g.upgrade}}]_vars
  <2> SUFFICES ASSUME IInv, UpInv, NEW r \in Run, Act(r), DefaultChecker \in DOMAIN auth
               PROVE  PrefixesIn(auth'[DefaultChecker].caps) \subseteq
                          PrefixesIn(auth[DefaultChecker].caps) \cup AskedPrefixes
    BY DEF Next, Act, AskedPrefixes
  <2>1. CASE UpgradeSet(r)
    BY <2>1, PrefixKept
  <2>2. CASE ~UpgradeSet(r)
    BY <2>2, UsersKept
  <2> QED
    BY <2>1, <2>2
<1> QED
  BY <1>1, UpAlways, PTL DEF Spec, NoPrefixInvented

-----------------------------------------------------------------------------
(***************************************************************************)
(* A printed credential has every capability that its invocation asked     *)
(* for, also where check_user_exist took over the user of another one, if  *)
(* the names that the operators chose tell the users apart.                *)
(***************************************************************************)

\* Every user that no older release left was created by an export, and has at
\* least the capabilities that the export gave it.
CreatedFor(u, caps) ==
    \E g \in Settled, b \in Bases :
        Accepts(b, g) /\ u = EntityOf(b, g) /\ CapsLeq(CapsOf(b, g), caps)

\* A credential is the one of its base name under the flags f.
Fits(c, f) ==
    f \in Settled /\ c.base \in Bases /\ Accepts(c.base, f) /\ c.user = EntityOf(c.base, f)

Empty == {"idle", "failed", "pool", "cluster"} \cup Upgrading

SuffOK(stage, m) ==
    /\ stage = "pool" /\ ~m.args.dryRun => m.args \in {Parsed(f) : f \in Exports}
    /\ stage = "cluster" /\ ~m.args.dryRun => m.args \in {Renamed(f) : f \in Exports}
    /\ stage \in UserStages /\ ~m.args.dryRun => m.args \in Settled
    /\ stage = "userCreate" => ~m.args.dryRun /\ Accepts(BaseOf(m.todo[1]), m.args)
    /\ stage \in Empty => m.creds = {}
    /\ \A c \in m.creds : Fits(c, m.args)

SuffInv ==
    /\ \A u \in DOMAIN auth \ LegacyUsers : CreatedFor(u, auth[u].caps)
    /\ \A r \in Run : SuffOK(pc[r], mem[r])

\* The stages that come with a list of users, of groups or with the output only
\* look at the credentials, or at the flags.
LEMMA SuffFailed == SuffOK("failed", Blank)
BY DEF SuffOK, Blank, UserStages

\* What an action of r must establish: users that exist keep their capabilities.
LEMMA SuffStep ==
    ASSUME IInv, SeenInv, SuffInv, NEW r \in Run, Act(r),
           SuffOK(pc'[r], mem'[r]),
           \A u \in DOMAIN auth' \ DOMAIN auth : CreatedFor(u, auth'[u].caps)
    PROVE  SuffInv'
<1>1. ASSUME NEW u \in DOMAIN auth' \ LegacyUsers
      PROVE  CreatedFor(u, auth'[u].caps)
  <2>1. CASE u \in DOMAIN auth
    <3>1. CreatedFor(u, auth[u].caps) /\ CapsLeq(auth[u].caps, auth'[u].caps)
      BY <1>1, <2>1, CapsKept DEF SuffInv
    <3> QED
      BY <3>1, CapsLeqTransitive DEF CreatedFor
  <2> QED
    BY <1>1, <2>1
<1>2. ASSUME NEW s \in Run PROVE SuffOK(pc'[s], mem'[s])
  BY OthersUnmoved DEF SuffInv
<1> QED
  BY <1>1, <1>2 DEF SuffInv

\* The actions that create no user.
LEMMA SuffSame ==
    ASSUME IInv, SeenInv, SuffInv, NEW r \in Run, Act(r), ~CreateUser(r),
           SuffOK(pc'[r], mem'[r])
    PROVE  SuffInv'
<1>1. DOMAIN auth' = DOMAIN auth
  BY DEF Act, Step, Start, Abort, InitPool, ReadCluster, GetUser, MakeGroup,
         PinGroup, PrintOutput, UpgradeGet, UpgradeSet, provider
<1> QED
  BY <1>1, SuffStep

LEMMA SuffFail ==
    ASSUME IInv, SeenInv, SuffInv, NEW r \in Run, Act(r), Fail(r), auth' = auth
    PROVE  SuffInv'
<1>1. SuffOK(pc'[r], mem'[r])
  BY SuffFailed, GotoAt DEF Fail
<1> QED
  BY <1>1, SuffStep

LEMMA SuffStart ==
    ASSUME IInv, SeenInv, SuffInv, NEW r \in Run, Start(r)
    PROVE  SuffInv'
<1>1. PICK f \in Invocations :
        LET m == [mem[r] EXCEPT !.args = Parsed(f)] IN
        IF f.upgrade
        THEN Goto(r, "upgradeGet", [m EXCEPT !.todo = UpgradeUsers(f)])
        ELSE IF f.pool = Unset THEN Fail(r) ELSE Goto(r, "pool", m)
  BY DEF Start, Conflicting
<1> DEFINE m == [mem[r] EXCEPT !.args = Parsed(f)]
<1>2. /\ f \in Flags /\ mem[r] \in Memory /\ Act(r) /\ auth' = auth
      /\ mem[r].creds = {}
  BY RunAssumption DEF IInv, TypeOK, Act, Start, provider, SuffInv, SuffOK, Empty
<1>3. m.args = Parsed(f) /\ m.creds = {}
  BY <1>2 DEF Memory
<1>4. CASE f.upgrade
  <2> DEFINE n == [m EXCEPT !.todo = UpgradeUsers(f)]
  <2>1. n.creds = {}
    BY <1>2, <1>3 DEF Memory
  <2>2. Goto(r, "upgradeGet", n)
    BY <1>1, <1>4
  <2> HIDE DEF n, m
  <2>3. SuffOK("upgradeGet", n)
    BY <2>1 DEF SuffOK, UserStages
  <2> QED
    BY <1>2, <2>2, <2>3, GotoAt, SuffStep
<1>5. CASE ~f.upgrade /\ f.pool = Unset
  BY <1>1, <1>2, <1>5, SuffFail
<1>6. CASE ~f.upgrade /\ f.pool # Unset
  <2>1. Goto(r, "pool", m)
    BY <1>1, <1>6
  <2>2. Parsed(f).dryRun = f.dryRun
    BY <1>2 DEF Parsed, Flags
  <2> HIDE DEF m
  <2>3. SuffOK("pool", m)
    BY <1>2, <1>3, <1>6, <2>2 DEF SuffOK, UserStages, Exports
  <2> QED
    BY <1>2, <2>1, <2>3, GotoAt, SuffStep
<1> QED
  BY <1>4, <1>5, <1>6

LEMMA SuffInitPool ==
    ASSUME IInv, SeenInv, SuffInv, NEW r \in Run, InitPool(r)
    PROVE  SuffInv'
<1> DEFINE f == mem[r].args
           g == [f EXCEPT !.cluster = ClusterName(f)]
           m == [mem[r] EXCEPT !.args.cluster = ClusterName(f)]
<1>1. /\ mem[r] \in Memory /\ f \in Flags /\ Act(r) /\ auth' = auth
      /\ SuffOK("pool", mem[r])
  BY DEF IInv, TypeOK, Act, Step, InitPool, Memory, SuffInv
<1>2. m.args = g /\ m.creds = {} /\ g.dryRun = f.dryRun
  BY <1>1 DEF Memory, Flags, SuffOK, Empty
<1>3. CASE Fail(r)
  BY <1>1, <1>3, SuffFail
<1>4. CASE Goto(r, "cluster", m)
  <2>1. ~f.dryRun => g \in {Renamed(h) : h \in Exports}
    BY <1>1 DEF SuffOK, Renamed
  <2> HIDE DEF m, f, g
  <2>2. SuffOK("cluster", m)
    BY <1>2, <2>1 DEF SuffOK, UserStages
  <2> QED
    BY <1>1, <1>4, <2>2, GotoAt, SuffStep
<1> QED
  BY <1>3, <1>4 DEF InitPool

LEMMA SuffReadCluster ==
    ASSUME IInv, SeenInv, SuffInv, NEW r \in Run, ReadCluster(r)
    PROVE  SuffInv'
<1> DEFINE f == mem[r].args
           Choice(listed) ==
               IF f.dryRun \/ ~listed
               THEN [ok |-> f.dryRun \/ (f.fs = Unset /\ f.dataPool = Unset),
                     fs |-> f.fs, dataPool |-> f.dataPool]
               ELSE SelectCephfs(FsList, f.fs, f.dataPool)
           NewFlags(listed) == [f EXCEPT !.fs = Choice(listed).fs,
                                         !.dataPool = Choice(listed).dataPool]
           Mem(listed) == [mem[r] EXCEPT !.args = NewFlags(listed),
                                         !.todo = ExportUsers(NewFlags(listed))]
<1>1. /\ mem[r] \in Memory /\ f \in Flags /\ Act(r) /\ auth' = auth
      /\ SuffOK("cluster", mem[r])
  BY DEF IInv, TypeOK, Act, Step, ReadCluster, Memory, SuffInv, provider
<1>2. PICK listed \in BOOLEAN :
         IF NamespaceOKOf(f) /\ Choice(listed).ok
         THEN Goto(r, "userGet", Mem(listed)) ELSE Fail(r)
  BY DEF ReadCluster
<1>3. CASE Choice(listed).ok /\ Goto(r, "userGet", Mem(listed))
  <2>1. NewFlags(listed).dryRun = f.dryRun
    <3> HIDE DEF Choice
    <3> QED
      BY <1>1 DEF Flags
  <2>2. ASSUME ~f.dryRun
        PROVE  /\ Choice(listed) \in FsChoices(f)
               /\ f \in {Renamed(h) : h \in Exports}
    <3>1. Choice(listed) \in FsChoices(f)
      BY <1>3, <2>2 DEF FsChoices
    <3> QED
      BY <1>1, <2>2, <3>1 DEF SuffOK
  <2>3. ~f.dryRun => NewFlags(listed) \in Settled
    <3> SUFFICES ASSUME ~f.dryRun PROVE NewFlags(listed) \in Settled
      OBVIOUS
    <3> HIDE DEF Choice
    <3>1. PICK h \in Exports : f = Renamed(h)
      BY <2>2
    <3>2. Choice(listed) \in FsChoices(Renamed(h))
      BY <2>2, <3>1
    <3>3. NewFlags(listed) = [Renamed(h) EXCEPT !.fs = Choice(listed).fs,
                                                !.dataPool = Choice(listed).dataPool]
      BY <3>1
    <3> DEFINE S(x) == {[Renamed(x) EXCEPT !.fs = c.fs, !.dataPool = c.dataPool] :
                           c \in FsChoices(Renamed(x))}
    <3> HIDE DEF NewFlags, f
    <3>4. NewFlags(listed) \in S(h)
      BY <3>2, <3>3
    <3>5. Settled = UNION {S(x) : x \in Exports}
      BY DEF Settled
    <3> HIDE DEF S
    <3> QED
      BY <3>4, <3>5
  <2>4. Mem(listed).args = NewFlags(listed) /\ Mem(listed).creds = {}
    <3> HIDE DEF NewFlags
    <3> QED
      BY <1>1 DEF Memory, SuffOK, Empty
  <2> HIDE DEF Choice, NewFlags, Mem
  <2>5. SuffOK("userGet", Mem(listed))
    BY <2>1, <2>3, <2>4 DEF SuffOK, Empty, Upgrading
  <2> QED
    BY <1>1, <1>3, <2>5, GotoAt, SuffStep
<1>4. CASE Fail(r)
  BY <1>1, <1>4, SuffFail
<1> QED
  BY <1>2, <1>3, <1>4

\* On to the next user or to the groups, with credentials that fit.
LEMMA SuffNext ==
    ASSUME IInv, NEW r \in Run, NEW m \in Memory, NextUser(r, m),
           ~m.args.dryRun => m.args \in Settled,
           \A c \in m.creds : Fits(c, m.args)
    PROVE  SuffOK(pc'[r], mem'[r])
<1>1. CASE Len(m.todo) > 1
  <2> DEFINE n == [m EXCEPT !.todo = Tail(@)]
  <2>1. n.args = m.args /\ n.creds = m.creds
    BY DEF Memory
  <2>2. Goto(r, "userGet", n)
    BY <1>1 DEF NextUser
  <2> HIDE DEF n
  <2>3. SuffOK("userGet", n)
    BY <2>1 DEF SuffOK, Empty, Upgrading
  <2> QED
    BY <2>2, <2>3, GotoAt
<1>2. CASE ~(Len(m.todo) > 1)
  <2> DEFINE n == [m EXCEPT !.todo = SubvolumeGroups(m.args)]
             stage == IF HasCephfs(m.args) THEN "groupMake" ELSE "print"
  <2>1. n.args = m.args /\ n.creds = m.creds
    BY DEF Memory
  <2>2. Goto(r, stage, n) /\ stage \in {"groupMake", "print"}
    BY <1>2 DEF NextUser
  <2> HIDE DEF n, stage
  <2>3. SuffOK(stage, n)
    BY <2>1, <2>2 DEF SuffOK, UserStages, Empty, Upgrading
  <2> QED
    BY <2>2, <2>3, GotoAt
<1> QED
  BY <1>1, <1>2

\* The credential that is added fits its invocation.
LEMMA CollectFits ==
    ASSUME NEW m \in Memory, NEW base \in Bases, NEW key,
           m.args \in Settled, Accepts(base, m.args),
           m.args.release = "ceph-17" => m.args.runAs = DefaultChecker,
           \A c \in m.creds : Fits(c, m.args)
    PROVE  \A c \in Collect(m, base, key).creds : Fits(c, m.args)
<1> DEFINE user == IF base = "healthchecker" THEN m.args.runAs
                                            ELSE EntityOf(base, m.args)
           d == [base |-> base, key |-> key, user |-> user]
<1>1. user = EntityOf(base, m.args)
  BY DEF EntityOf, CheckerEntity, CheckerEntity17
<1>2. Collect(m, base, key) = [m EXCEPT !.creds = @ \cup {d}]
  BY DEF Collect
<1>3. d.base = base /\ d.user = user
  OBVIOUS
<1> HIDE DEF d, user
<1>4. Collect(m, base, key).creds = m.creds \cup {d}
  BY <1>2 DEF Memory
<1> QED
  BY <1>1, <1>3, <1>4 DEF Fits

\* The state of an export that handles a user.
LEMMA SuffUser ==
    ASSUME IInv, CredInv, SuffInv, NEW r \in Run, pc[r] \in UserStages
    PROVE  LET base == BaseOf(mem[r].todo[1]) IN
           /\ mem[r] \in Memory /\ base \in Bases /\ mem[r].args.runAs \in User
           /\ mem[r].args.release = "ceph-17" => mem[r].args.runAs = DefaultChecker
           /\ ~mem[r].args.dryRun => mem[r].args \in Settled
           /\ \A c \in mem[r].creds : Fits(c, mem[r].args)
           /\ pc[r] = "userCreate" => ~mem[r].args.dryRun /\ Accepts(base, mem[r].args)
BY CurrentUser DEF CredInv, SuffInv, SuffOK, UserStages, Running, Upgrading, IInv, StageOK

\* A credential is added to the output, and the export goes on.
LEMMA SuffCollect ==
    ASSUME IInv, CredInv, SuffInv, NEW r \in Run, pc[r] \in UserStages,
           NEW key \in Nat, ~mem[r].args.dryRun,
           Accepts(BaseOf(mem[r].todo[1]), mem[r].args),
           NextUser(r, Collect(mem[r], BaseOf(mem[r].todo[1]), key))
    PROVE  SuffOK(pc'[r], mem'[r])
<1> DEFINE m == Collect(mem[r], BaseOf(mem[r].todo[1]), key)
<1>1. m \in Memory /\ m.args = mem[r].args
  BY SuffUser, CollectType
<1>2. mem[r].args \in Settled /\ \A c \in m.creds : Fits(c, m.args)
  BY <1>1, SuffUser, CollectFits
<1> HIDE DEF m
<1>3. NextUser(r, m)
  BY DEF m
<1> QED
  BY <1>1, <1>2, <1>3, SuffNext

LEMMA SuffGetUser ==
    ASSUME IInv, SeenInv, CredInv, SuffInv, NEW r \in Run, GetUser(r)
    PROVE  SuffInv'
<1> DEFINE base == BaseOf(mem[r].todo[1])
           entity == EntityOf(base, mem[r].args)
<1>1. /\ Act(r) /\ ~CreateUser(r) /\ auth' = auth
      /\ pc[r] = "userGet" /\ pc[r] \in UserStages
  BY DEF Act, Step, GetUser, CreateUser, provider, UserStages
<1>2. CASE Fail(r)
  BY <1>1, <1>2, SuffFail
<1>3. CASE NextUser(r, mem[r])
  BY <1>1, <1>3, SuffUser, SuffNext, SuffSame
<1>4. CASE /\ Accepts(base, mem[r].args) /\ ~mem[r].args.dryRun
           /\ entity \in DOMAIN auth
           /\ NextUser(r, Collect(mem[r], base, auth[entity].key))
  <2>1. auth[entity].key \in Nat
    BY <1>4 DEF IInv, TypeOK, AuthEntry
  <2> QED
    BY <1>1, <1>4, <2>1, SuffCollect, SuffSame
<1>5. CASE /\ Accepts(base, mem[r].args) /\ ~mem[r].args.dryRun
           /\ Goto(r, "userCreate", mem[r])
  <2>1. SuffOK("userCreate", mem[r])
    BY <1>1, <1>5, SuffUser DEF SuffOK, Empty, Upgrading
  <2> QED
    BY <1>1, <1>5, <2>1, GotoAt, SuffSame
<1> QED
  BY <1>2, <1>3, <1>4, <1>5 DEF GetUser

LEMMA SuffCreateUser ==
    ASSUME IInv, SeenInv, CredInv, SuffInv, NEW r \in Run, CreateUser(r)
    PROVE  SuffInv'
<1> DEFINE base == BaseOf(mem[r].todo[1])
           entity == EntityOf(base, mem[r].args)
           caps == CapsOf(base, mem[r].args)
<1>1. /\ Act(r) /\ pc[r] = "userCreate" /\ pc[r] \in UserStages
  BY DEF Act, Step, CreateUser, UserStages
<1>2. /\ base \in Bases /\ Accepts(base, mem[r].args)
      /\ ~mem[r].args.dryRun /\ mem[r].args \in Settled
  BY <1>1, SuffUser
<1>3. CASE /\ auth' = [u \in DOMAIN auth \cup {entity} |->
                         IF u = entity THEN [key |-> issued, caps |-> caps]
                                       ELSE auth[u]]
           /\ NextUser(r, Collect(mem[r], base, issued))
  <2>1. issued \in Nat
    BY DEF IInv, TypeOK
  <2>2. SuffOK(pc'[r], mem'[r])
    BY <1>1, <1>2, <1>3, <2>1, SuffCollect
  <2>3. CreatedFor(entity, caps)
    BY <1>2, CapsLeqReflexive DEF CreatedFor
  <2> HIDE DEF entity, caps, base
  <2>4. \A u \in DOMAIN auth' \ DOMAIN auth : u = entity /\ auth'[u].caps = caps
    BY <1>3
  <2> QED
    BY <1>1, <2>2, <2>3, <2>4, SuffStep
<1>4. CASE /\ entity \in DOMAIN auth
           /\ NextUser(r, Collect(mem[r], base, auth[entity].key))
           /\ UNCHANGED <<auth, issued>>
  <2>1. auth[entity].key \in Nat
    BY <1>4 DEF IInv, TypeOK, AuthEntry
  <2>2. SuffOK(pc'[r], mem'[r])
    BY <1>1, <1>2, <1>4, <2>1, SuffCollect
  <2> QED
    BY <1>1, <1>4, <2>2, SuffStep
<1>5. CASE Fail(r) /\ UNCHANGED <<auth, issued>>
  BY <1>1, <1>5, SuffFail
<1> QED
  BY <1>3, <1>4, <1>5 DEF CreateUser

\* The groups and the output leave the flags and the credentials alone.
LEMMA SuffGroups ==
    ASSUME IInv, SeenInv, SuffInv, NEW r \in Run,
           MakeGroup(r) \/ PinGroup(r) \/ PrintOutput(r)
    PROVE  SuffInv'
<1>1. /\ Act(r) /\ ~CreateUser(r) /\ mem[r] \in Memory /\ SuffOK(pc[r], mem[r])
  BY DEF Act, Step, MakeGroup, PinGroup, PrintOutput, CreateUser, IInv, TypeOK, SuffInv
<1>0. PICK stage \in {"groupPin", "groupMake", "print", "done"} :
           \E todo : Goto(r, stage, [mem[r] EXCEPT !.todo = todo])
  <2>1. mem[r] = [mem[r] EXCEPT !.todo = mem[r].todo]
    BY <1>1 DEF Memory
  <2> QED
    BY <2>1 DEF MakeGroup, PinGroup, PrintOutput
<1>2. PICK todo : Goto(r, stage, [mem[r] EXCEPT !.todo = todo])
  BY <1>0
<1> DEFINE m == [mem[r] EXCEPT !.todo = todo]
<1>3. m.args = mem[r].args /\ m.creds = mem[r].creds
  BY <1>1 DEF Memory
<1> HIDE DEF m
<1>4. SuffOK(stage, m)
  BY <1>1, <1>2, <1>3 DEF SuffOK, UserStages, Empty, Upgrading
<1> QED
  BY <1>1, <1>2, <1>4, GotoAt, SuffSame DEF m

\* An upgrade has no credentials.
LEMMA SuffUpgrade ==
    ASSUME IInv, SeenInv, SuffInv, NEW r \in Run, UpgradeGet(r) \/ UpgradeSet(r)
    PROVE  SuffInv'
<1>1. /\ Act(r) /\ ~CreateUser(r) /\ mem[r] \in Memory /\ mem[r].creds = {}
  BY DEF Act, Step, UpgradeGet, UpgradeSet, Upgrading, CreateUser, IInv, TypeOK,
         SuffInv, SuffOK, Empty
<1>2. ASSUME NEW stage \in {"upgradeGet", "upgradeSet", "done"}, NEW m,
             Goto(r, stage, m), m.creds = {}
      PROVE  SuffInv'
  <2>1. SuffOK(stage, m)
    BY <1>2 DEF SuffOK, UserStages
  <2> QED
    BY <1>1, <1>2, <2>1, GotoAt, SuffSame
<1>3. ASSUME NEW M, NextUpgrade(r, [mem[r] EXCEPT !.missing = M]) PROVE SuffInv'
  <2> DEFINE n == [[mem[r] EXCEPT !.missing = M] EXCEPT !.todo = Tail(@), !.seen = NoCaps]
  <2>1. n.creds = {}
    BY <1>1 DEF Memory
  <2>2. \E stage \in {"upgradeGet", "upgradeSet", "done"} : Goto(r, stage, n)
    BY <1>3 DEF NextUpgrade
  <2> HIDE DEF n
  <2> QED
    BY <1>2, <2>1, <2>2
<1>4. CASE NextUpgrade(r, mem[r])
  <2> DEFINE n == [mem[r] EXCEPT !.todo = Tail(@), !.seen = NoCaps]
  <2>1. n.creds = {}
    BY <1>1 DEF Memory
  <2>2. \E stage \in {"upgradeGet", "upgradeSet", "done"} : Goto(r, stage, n)
    BY <1>4 DEF NextUpgrade
  <2> HIDE DEF n
  <2> QED
    BY <1>2, <2>1, <2>2
<1>5. ASSUME NEW f, NEW caps,
             Goto(r, "upgradeSet", [mem[r] EXCEPT !.args = f, !.seen = caps])
      PROVE  SuffInv'
  <2> DEFINE n == [mem[r] EXCEPT !.args = f, !.seen = caps]
  <2>1. n.creds = {} /\ Goto(r, "upgradeSet", n)
    BY <1>1, <1>5 DEF Memory
  <2> HIDE DEF n
  <2> QED
    BY <1>2, <2>1
<1>6. CASE Fail(r)
  <2>1. SuffOK(pc'[r], mem'[r])
    BY <1>6, SuffFailed, GotoAt DEF Fail
  <2> QED
    BY <1>1, <2>1, SuffSame
<1>7. CASE UpgradeGet(r)
  BY <1>3, <1>5, <1>6, <1>7 DEF UpgradeGet
<1> QED
  BY <1>4, <1>7 DEF UpgradeSet

LEMMA SuffKept ==
    ASSUME IInv, SeenInv, CredInv, SuffInv, [Next]_vars
    PROVE  SuffInv'
<1>1. CASE UNCHANGED vars
  BY <1>1 DEF vars, SuffInv
<1>2. ASSUME NEW r \in Run, Abort(r) PROVE SuffInv'
  BY <1>2, SuffFail DEF Abort, Act, provider
<1> QED
  BY <1>1, <1>2, SuffStart, SuffInitPool, SuffReadCluster, SuffGetUser, SuffCreateUser,
     SuffGroups, SuffUpgrade DEF Next, Step

LEMMA SuffInit == Init => SuffInv
<1> SUFFICES ASSUME Init PROVE SuffInv
  OBVIOUS
<1>1. DOMAIN auth \ LegacyUsers = {}
  BY DEF Init, LegacyUsers
<1>2. \A r \in Run : SuffOK(pc[r], mem[r])
  BY DEF Init, SuffOK, Blank, UserStages
<1> QED
  BY <1>1, <1>2 DEF SuffInv

LEMMA SuffAlways ==
    ASSUME DefaultChecker17, ~ConcurrentUpgrades
    PROVE  Spec => [](SeenInv /\ CredInv /\ SuffInv)
<1>1. Init => SeenInv /\ CredInv /\ SuffInv
  BY CredInit, SuffInit DEF Init, SeenInv, Upgrading
<1>2. IInv /\ SeenInv /\ CredInv /\ SuffInv /\ [Next]_vars
         => (SeenInv /\ CredInv /\ SuffInv)'
  BY SeenNext, CredKept, SuffKept
<1> QED
  BY <1>1, <1>2, InvariantHolds, PTL DEF Spec

\* The user of a credential has what the credential's invocation asked for.
LEMMA FittingUser ==
    ASSUME NamesTellApart, SuffInv, NEW c, NEW f, Fits(c, f),
           c.user \in DOMAIN auth \ LegacyUsers
    PROVE  CapsLeq(CapsOf(c.base, f), auth[c.user].caps)
BY DEF NamesTellApart, SuffInv, Fits, CreatedFor

\* A consumer can do with its printed credentials what its export asked for: no
\* user that check_user_exist took over lacks a capability, whoever created it
\* and whatever has been upgraded meanwhile, as long as no two exports give one
\* name to users with different capabilities, and upgrades do not overlap.
THEOREM CredentialsAreSufficient ==
    ASSUME DefaultChecker17, ~ConcurrentUpgrades, NamesTellApart
    PROVE  Spec => []CredentialsSuffice
<1>1. SuffInv => CredentialsSuffice
  <2> SUFFICES ASSUME SuffInv, NEW r \in Run, NEW c \in mem[r].creds,
                      c.user \in DOMAIN auth \ LegacyUsers
               PROVE  CapsLeq(CapsOf(c.base, mem[r].args), auth[c.user].caps)
    BY DEF CredentialsSuffice
  <2>1. Fits(c, mem[r].args)
    BY DEF SuffInv, SuffOK
  <2> QED
    BY <2>1, FittingUser
<1> QED
  BY <1>1, SuffAlways, PTL

-----------------------------------------------------------------------------
(***************************************************************************)
(* When names tell the users apart.                                        *)
(***************************************************************************)

\* The flags an export settles on are flags, with a checker.
LEMMA SettledType ==
    ASSUME NEW f \in Settled
    PROVE  f \in Flags /\ f.runAs \in User
<1>1. PICK h \in Exports : \E c \in FsChoices(Renamed(h)) :
          f = [Renamed(h) EXCEPT !.fs = c.fs, !.dataPool = c.dataPool]
  BY DEF Settled
<1> PICK c \in FsChoices(Renamed(h)) :
          f = [Renamed(h) EXCEPT !.fs = c.fs, !.dataPool = c.dataPool]
  BY <1>1
<1>2. h \in Flags /\ ~h.upgrade
  BY RunAssumption DEF Exports
<1>3. Parsed(h) \in Flags /\ Parsed(h).runAs \in User
  BY <1>2, ParsedType
<1>4. ClusterName(Parsed(h)) \in Name
  BY <1>3, LowerNameType DEF ClusterName, Flags
<1>5. Renamed(h) \in Flags /\ Renamed(h).runAs = Parsed(h).runAs
  BY <1>3, <1>4 DEF Renamed, Flags
<1>6. c.fs \in Name /\ c.dataPool \in Name
  <2>1. Unset \in Name
    BY EmptySeq DEF Unset, Name
  <2>2. Renamed(h).fs \in Name /\ Renamed(h).dataPool \in Name
    BY <1>5 DEF Flags
  <2> HIDE DEF Unset
  <2> QED
    BY <2>1, <2>2, SelectType, RunAssumption DEF FsChoices
<1>7. f \in Flags /\ f.runAs = Renamed(h).runAs
  BY <1>1, <1>5, <1>6 DEF Flags
<1> QED
  BY <1>3, <1>5, <1>7

\* Two lists of parts of the same lengths that join to one name are the same.
LEMMA ConcatSplits ==
    ASSUME NEW S, NEW a \in Seq(S), NEW b \in Seq(S),
           NEW c \in Seq(S), NEW d \in Seq(S),
           Len(a) = Len(c), a \o b = c \o d
    PROVE  a = c /\ b = d
<1>1. /\ Len(a) \in Nat /\ Len(b) \in Nat /\ Len(d) \in Nat
      /\ Len(a \o b) = Len(a) + Len(b) /\ Len(c \o d) = Len(c) + Len(d)
      /\ \A i \in 1 .. Len(a) + Len(b) :
            (a \o b)[i] = IF i <= Len(a) THEN a[i] ELSE b[i - Len(a)]
      /\ \A i \in 1 .. Len(c) + Len(d) :
            (c \o d)[i] = IF i <= Len(c) THEN c[i] ELSE d[i - Len(c)]
  BY ConcatProperties, LenProperties
<1>2. Len(b) = Len(d)
  BY <1>1
<1>3. \A i \in 1 .. Len(a) : a[i] = c[i]
  BY <1>1, <1>2
<1>4. \A i \in 1 .. Len(b) : b[i] = d[i]
  <2>1. ASSUME NEW i \in 1 .. Len(b) PROVE b[i] = d[i]
    <3>1. Len(a) + i \in 1 .. Len(a) + Len(b) /\ ~(Len(a) + i <= Len(a))
          /\ Len(a) + i - Len(a) = i
      BY <1>1
    <3> DEFINE k == Len(a) + i
    <3>2. (a \o b)[k] = b[i]
      <4>1. (a \o b)[k] = IF k <= Len(a) THEN a[k] ELSE b[k - Len(a)]
        BY <1>1, <3>1
      <4> QED
        BY <3>1, <4>1
    <3>3. (c \o d)[k] = d[i]
      <4>1. (c \o d)[k] = IF k <= Len(a) THEN c[k] ELSE d[k - Len(a)]
        BY <1>1, <1>2, <3>1
      <4> QED
        BY <3>1, <4>1
    <3> QED
      BY <3>2, <3>3
  <2> QED
    BY <2>1
<1> QED
  BY <1>2, <1>3, <1>4, SeqEqual

\* The RADOS namespace that a name and the capabilities are bound to.
NsOf(f) == IF f.release = "ceph-17" THEN Unset ELSE f.ns

\* A name of at most one word is empty or has one word.
LEMMA OneWord ==
    ASSUME NEW n \in Name, Len(n) <= 1
    PROVE  n \in Seq(Word \cup Bases) /\ (n # Unset => Len(n) = 1)
<1>1. n # Unset => Len(n) \in Nat \ {0}
  BY EmptySeq DEF Name, Unset
<1> QED
  BY <1>1, SeqMonotonic DEF Name

\* The name of a user that is confined to a pool, part by part.
LEMMA RbdParts ==
    ASSUME NEW b \in RbdBases, NEW f \in Flags, f.restricted, Accepts(b, f),
           \A part \in {f.cluster, f.pool, f.alias, f.ns, f.fs} : Len(part) <= 1
    PROVE  /\ EntityOf(b, f) = ((<<b>> \o f.cluster) \o Shown(f)) \o NsOf(f)
           /\ RbdOsdOf(f) = AllowOn("profile rbd", f.pool, NsOf(f))
           /\ f.cluster \in Seq(Word \cup Bases) /\ Len(f.cluster) = 1
           /\ Shown(f) \in Seq(Word \cup Bases) /\ Len(Shown(f)) = 1
           /\ NsOf(f) \in Seq(Word \cup Bases)
<1>1. /\ f.cluster \in Name /\ f.pool \in Name /\ f.alias \in Name /\ f.ns \in Name
      /\ f.cluster # Unset /\ f.pool # Unset /\ Unset \in Name /\ Len(Unset) = 0
  BY EmptySeq DEF Flags, Accepts, RbdBases, Unset, Name
<1> HIDE DEF Unset
<1>2. /\ f.cluster \in Seq(Word \cup Bases) /\ Len(f.cluster) = 1
      /\ Shown(f) \in Seq(Word \cup Bases) /\ Len(Shown(f)) = 1
      /\ NsOf(f) \in Seq(Word \cup Bases)
  BY <1>1, OneWord DEF Shown, NsOf
<1>3. <<b>> \in Seq(Word \cup Bases)
  BY DEF RbdBases, Bases, CsiBases
<1>4. RbdName(b, f) = (<<b>> \o f.cluster) \o Shown(f)
  BY DEF RbdName, Shown
<1>5. RbdName(b, f) \in Seq(Word \cup Bases)
  BY <1>2, <1>3, <1>4, ConcatProperties
<1>6. RbdName(b, f) \o Unset = RbdName(b, f)
  BY <1>5, ConcatEmptySeq DEF Unset
<1>7. EntityOf(b, f) = RbdName(b, f) \o NsOf(f)
  BY <1>6 DEF EntityOf, RbdEntity, RbdEntity17, NsOf, RbdBases
<1>8. RbdOsdOf(f) = AllowOn("profile rbd", f.pool, NsOf(f))
  BY DEF RbdOsdOf, RbdOsd, RbdOsd17, NsOf
<1> QED
  BY <1>2, <1>4, <1>7, <1>8

\* The name of a user that is confined to a file system, part by part.
LEMMA CephfsParts ==
    ASSUME NEW b \in CsiBases \ RbdBases, NEW f \in Flags, f.restricted, Accepts(b, f),
           \A part \in {f.cluster, f.pool, f.alias, f.ns, f.fs} : Len(part) <= 1
    PROVE  /\ EntityOf(b, f) = (<<b>> \o f.cluster) \o f.fs
           /\ f.cluster \in Seq(Word \cup Bases) /\ Len(f.cluster) = 1
           /\ f.fs \in Seq(Word \cup Bases)
<1>1. f.cluster \in Name /\ f.fs \in Name /\ f.cluster # Unset
  BY DEF Flags, Accepts, CsiBases, RbdBases
<1> QED
  BY <1>1, OneWord DEF EntityOf, CephfsEntity, CsiBases, RbdBases

\* The first word of a CSI user's name is its base name.
LEMMA CsiBaseOf ==
    ASSUME NEW b \in CsiBases, NEW f \in Flags
    PROVE  BaseOf(EntityOf(b, f)) = b
<1>1. ASSUME NEW n \in Name
      PROVE  /\ <<b>> \o n \in Seq(Word \cup Bases)
             /\ Len(<<b>> \o n) \in Nat \ {0}
             /\ (<<b>> \o n)[1] = b
  <2>1. <<b>> \in Seq(Word \cup Bases) /\ n \in Seq(Word \cup Bases)
        /\ Len(<<b>>) = 1 /\ <<b>>[1] = b /\ Len(n) \in Nat
    BY <1>1, SeqMonotonic, LenProperties DEF Bases, Name
  <2> QED
    BY <2>1, ConcatProperties
<1>2. ASSUME NEW s \in Seq(Word \cup Bases), Len(s) \in Nat \ {0}, s[1] = b,
             NEW n \in Name
      PROVE  /\ s \o n \in Seq(Word \cup Bases)
             /\ Len(s \o n) \in Nat \ {0}
             /\ (s \o n)[1] = b
  <2>1. n \in Seq(Word \cup Bases) /\ Len(n) \in Nat
    BY <1>2, SeqMonotonic, LenProperties DEF Name
  <2> QED
    BY <1>2, <2>1, ConcatProperties
<1>3. /\ f.cluster \in Name /\ f.fs \in Name /\ f.ns \in Name
      /\ (IF f.alias = Unset THEN f.pool ELSE f.alias) \in Name
  BY DEF Flags
<1>4. CASE b \in RbdBases
  <2>1. /\ RbdName(b, f) \in Seq(Word \cup Bases)
        /\ Len(RbdName(b, f)) \in Nat \ {0} /\ RbdName(b, f)[1] = b
    BY <1>1, <1>2, <1>3 DEF RbdName
  <2>2. (RbdName(b, f) \o f.ns)[1] = b
    BY <1>2, <1>3, <2>1
  <2> QED
    BY <1>4, <2>1, <2>2 DEF EntityOf, RbdEntity, RbdEntity17, BaseOf, RbdBases
<1>5. CASE b \notin RbdBases
  <2>1. ((<<b>> \o f.cluster) \o f.fs)[1] = b
    BY <1>1, <1>2, <1>3
  <2> QED
    BY <1>5, <2>1 DEF EntityOf, CephfsEntity, BaseOf, RbdBases, CsiBases
<1> QED
  BY <1>4, <1>5

\* Two lists joined, as facts about lengths.
LEMMA Joined ==
    ASSUME NEW S, NEW a \in Seq(S), NEW b \in Seq(S)
    PROVE  /\ a \o b \in Seq(S) /\ Len(a \o b) = Len(a) + Len(b)
           /\ Len(a) \in Nat /\ Len(b) \in Nat
BY ConcatProperties, LenProperties

\* The base name and one word.
LEMMA TwoParts ==
    ASSUME NEW b \in Bases, NEW n \in Seq(Word \cup Bases), Len(n) = 1
    PROVE  <<b>> \o n \in Seq(Word \cup Bases) /\ Len(<<b>> \o n) = 2
<1>1. <<b>> \in Seq(Word \cup Bases) /\ Len(<<b>>) = 1
  OBVIOUS
<1> DEFINE s == <<b>>
<1> HIDE DEF s
<1>2. s \o n \in Seq(Word \cup Bases) /\ Len(s \o n) = Len(s) + Len(n)
  BY <1>1, Joined DEF s
<1> QED
  BY <1>1, <1>2 DEF s

\* A name with more parts is not the default one.
LEMMA LongerName ==
    ASSUME NEW b \in Bases, NEW n \in Seq(Word \cup Bases), Len(n) = 1,
           NEW k \in Seq(Word \cup Bases)
    PROVE  (<<b>> \o n) \o k # <<b>>
<1> DEFINE s == <<b>> \o n
<1>1. s \in Seq(Word \cup Bases) /\ Len(s) = 2
  BY TwoParts
<1> HIDE DEF s
<1>2. Len(s \o k) = 2 + Len(k) /\ Len(k) \in Nat
  BY <1>1, Joined
<1> DEFINE t == <<b>>
<1>3. Len(t) = 1
  OBVIOUS
<1> HIDE DEF t
<1>4. s \o k # t
  BY <1>2, <1>3
<1> QED
  BY <1>4 DEF s, t

\* The parts that follow the base name and one more word.
LEMMA Regrouped ==
    ASSUME NEW b \in Bases, NEW n \in Seq(Word \cup Bases), Len(n) = 1,
           NEW k \in Seq(Word \cup Bases), NEW l \in Seq(Word \cup Bases)
    PROVE  ((<<b>> \o n) \o k) \o l = (<<b>> \o n) \o (k \o l)
<1> DEFINE s == <<b>> \o n
<1>1. s \in Seq(Word \cup Bases)
  BY TwoParts
<1> HIDE DEF s
<1>2. (s \o k) \o l = s \o (k \o l)
  BY <1>1, ConcatAssociative
<1> QED
  BY <1>2 DEF s

\* Names of a base and one more word, and whatever comes then.
LEMMA NameSplits ==
    ASSUME NEW b \in Bases,
           NEW n \in Seq(Word \cup Bases), NEW m \in Seq(Word \cup Bases),
           NEW k \in Seq(Word \cup Bases), NEW l \in Seq(Word \cup Bases),
           Len(n) = 1, Len(m) = 1, (<<b>> \o n) \o k = (<<b>> \o m) \o l
    PROVE  k = l
<1> DEFINE s == <<b>> \o n
           t == <<b>> \o m
<1>1. /\ s \in Seq(Word \cup Bases) /\ Len(s) = 2
      /\ t \in Seq(Word \cup Bases) /\ Len(t) = 2
      /\ s \o k = t \o l
  BY TwoParts
<1> HIDE DEF s, t
<1> QED
  BY <1>1, ConcatSplits

\* Under the rules of SimpleNames no two exports give one name to users with
\* different capabilities, on whichever releases they run: the names that
\* get_caps_and_entity joins can be taken apart again.
THEOREM SimpleNamesTellApart ==
    ASSUME SimpleNames
    PROVE  NamesTellApart
<1> SUFFICES ASSUME NEW f \in Settled, NEW g \in Settled, NEW b \in Bases, NEW c \in Bases,
                    Accepts(b, f), Accepts(c, g), EntityOf(b, f) = EntityOf(c, g)
             PROVE  CapsOf(b, f) = CapsOf(c, g)
  BY DEF NamesTellApart
<1> DEFINE Short(h) ==
        \A part \in {h.cluster, h.pool, h.alias, h.ns, h.fs} : Len(part) <= 1
<1>1. f \in Flags /\ g \in Flags /\ Short(f) /\ Short(g)
  BY SettledType DEF SimpleNames
<1>2. b \in CsiBases \cup {"healthchecker"} /\ c \in CsiBases \cup {"healthchecker"}
  BY DEF Accepts, Bases, CsiBases
<1>3. BaseOf(EntityOf(b, f)) = b /\ BaseOf(EntityOf(c, g)) = c
  BY <1>1, <1>2, CsiBaseOf DEF SimpleNames
<1>4. b = c
  BY <1>3
<1>5. CASE b \in RbdBases
  <2>1. RbdOsdOf(f) = RbdOsdOf(g)
    <3>1. ASSUME NEW h \in Settled, h \in Flags, Short(h), h.restricted, Accepts(b, h)
          PROVE  EntityOf(b, h) # <<b>>
      <4> DEFINE rest == Shown(h) \o NsOf(h)
      <4>1. /\ EntityOf(b, h) = ((<<b>> \o h.cluster) \o Shown(h)) \o NsOf(h)
            /\ h.cluster \in Seq(Word \cup Bases) /\ Len(h.cluster) = 1
            /\ Shown(h) \in Seq(Word \cup Bases) /\ NsOf(h) \in Seq(Word \cup Bases)
        BY <1>5, <3>1, RbdParts
      <4>2. rest \in Seq(Word \cup Bases)
        BY <4>1, Joined
      <4>3. EntityOf(b, h) = (<<b>> \o h.cluster) \o rest
        BY <4>1, Regrouped
      <4> HIDE DEF rest
      <4> QED
        BY <4>1, <4>2, <4>3, LongerName
    <3>2. ASSUME NEW h \in Flags, ~h.restricted
          PROVE  /\ EntityOf(b, h) = <<b>>
                 /\ RbdOsdOf(h) = Allow({"profile rbd"})
      BY <1>5, <3>2 DEF EntityOf, RbdEntity, RbdEntity17, RbdOsdOf, RbdOsd, RbdOsd17,
                        RbdBases
    <3>3. CASE ~f.restricted \/ ~g.restricted
      BY <1>1, <1>4, <3>1, <3>2, <3>3
    <3>4. CASE f.restricted /\ g.restricted
      <4>1. /\ EntityOf(b, f) = ((<<b>> \o f.cluster) \o Shown(f)) \o NsOf(f)
            /\ f.cluster \in Seq(Word \cup Bases) /\ Len(f.cluster) = 1
            /\ Shown(f) \in Seq(Word \cup Bases) /\ Len(Shown(f)) = 1
            /\ NsOf(f) \in Seq(Word \cup Bases)
            /\ RbdOsdOf(f) = AllowOn("profile rbd", f.pool, NsOf(f))
        BY <1>1, <1>5, <3>4, RbdParts
      <4>2. /\ EntityOf(b, g) = ((<<b>> \o g.cluster) \o Shown(g)) \o NsOf(g)
            /\ g.cluster \in Seq(Word \cup Bases) /\ Len(g.cluster) = 1
            /\ Shown(g) \in Seq(Word \cup Bases) /\ Len(Shown(g)) = 1
            /\ NsOf(g) \in Seq(Word \cup Bases)
            /\ RbdOsdOf(g) = AllowOn("profile rbd", g.pool, NsOf(g))
        BY <1>1, <1>4, <1>5, <3>4, RbdParts
      <4> DEFINE p == Shown(f) \o NsOf(f)
                 q == Shown(g) \o NsOf(g)
      <4>3. p \in Seq(Word \cup Bases) /\ q \in Seq(Word \cup Bases)
        BY <4>1, <4>2, Joined
      <4>4. EntityOf(b, f) = (<<b>> \o f.cluster) \o p
        BY <4>1, Regrouped
      <4>5. EntityOf(b, g) = (<<b>> \o g.cluster) \o q
        BY <4>2, Regrouped
      <4>6. p = q
        <5> HIDE DEF p, q
        <5> QED
          BY <1>4, <4>1, <4>2, <4>3, <4>4, <4>5, NameSplits
      <4>7. Shown(f) = Shown(g) /\ NsOf(f) = NsOf(g)
        BY <4>1, <4>2, <4>6, ConcatSplits
      <4> QED
        BY <4>1, <4>2, <4>7 DEF SimpleNames
    <3> QED
      BY <3>3, <3>4
  <2> QED
    BY <1>4, <1>5, <2>1 DEF CapsOf, RbdBases
<1>6. CASE b \in CsiBases \ RbdBases
  <2>1. CephfsBound(f) = CephfsBound(g)
    <3>1. ASSUME NEW h \in Flags, ~h.restricted
          PROVE  EntityOf(b, h) = <<b>> /\ CephfsBound(h) = Unset
      BY <1>6, <3>1 DEF EntityOf, CephfsEntity, CephfsBound, CsiBases, RbdBases
    <3>2. ASSUME NEW h \in Flags, Short(h), h.restricted, Accepts(b, h)
          PROVE  EntityOf(b, h) # <<b>>
      BY <1>6, <3>2, CephfsParts, LongerName DEF Bases
    <3>3. CASE ~f.restricted \/ ~g.restricted
      BY <1>1, <1>4, <3>1, <3>2, <3>3
    <3>4. CASE f.restricted /\ g.restricted
      <4>1. /\ EntityOf(b, f) = (<<b>> \o f.cluster) \o f.fs
            /\ f.cluster \in Seq(Word \cup Bases) /\ Len(f.cluster) = 1
            /\ f.fs \in Seq(Word \cup Bases)
        BY <1>1, <1>6, <3>4, CephfsParts
      <4>2. /\ EntityOf(b, g) = (<<b>> \o g.cluster) \o g.fs
            /\ g.cluster \in Seq(Word \cup Bases) /\ Len(g.cluster) = 1
            /\ g.fs \in Seq(Word \cup Bases)
        BY <1>1, <1>4, <1>6, <3>4, CephfsParts
      <4>3. f.fs = g.fs
        BY <1>4, <4>1, <4>2, NameSplits
      <4> QED
        BY <3>4, <4>3 DEF CephfsBound
    <3> QED
      BY <3>3, <3>4
  <2> QED
    BY <1>4, <1>6, <2>1
       DEF CapsOf, CephfsNodeCaps, CephfsProvisionerCaps, CsiBases, RbdBases
<1>7. CASE b = "healthchecker"
  <2>1. f.prefix = g.prefix
    BY <1>4, <1>7 DEF SimpleNames
  <2> QED
    BY <1>4, <1>7, <2>1 DEF CapsOf, CheckerCaps
<1> QED
  BY <1>2, <1>5, <1>6, <1>7

=============================================================================
