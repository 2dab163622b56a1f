----------------------- MODULE ExternalClusterProofs -----------------------
(***************************************************************************)
(* ExternalCluster implements ConsumerPromise, for any provider, any set   *)
(* of command lines and any number of overlapping exports, upgrades and    *)
(* imports.  The invariant joins those of the two parts and adds what an   *)
(* export hands to an import: the users of every class it prints, with     *)
(* keys that are theirs; and, for ClassServed and JsonServed, that these   *)
(* users reach what the classes are for.                                   *)
(***************************************************************************)
EXTENDS ExternalCluster, CephExportProofs

Imp == INSTANCE ImportClusterProofs
         WITH Run <- ImportRun, Envs <- {}, MaxFaults <- MaxImportFaults,
              cluster <- objects, pc <- ipc, faults <- ifaults

-----------------------------------------------------------------------------
(***************************************************************************)
(* An export has collected the credentials of the checker and of all its   *)
(* CSI users before it goes on to the subvolume groups and the output.     *)
(***************************************************************************)
UserBasesOf(f) ==
    {"healthchecker", "csi-rbd-node", "csi-rbd-provisioner"} \cup
    IF HasCephfs(f) THEN {"csi-cephfs-node", "csi-cephfs-provisioner"} ELSE {}

Collected(m, b) == \E c \in m.creds : c.base = b
Waiting(m, b) == \E i \in DOMAIN m.todo : m.todo[i] = <<b>>

ListOK(stage, m) ==
    /\ stage \in Upgrading => m.args.upgrade
    /\ ~m.args.dryRun =>
        /\ stage \in UserStages =>
              \A b \in UserBasesOf(m.args) : Waiting(m, b) \/ Collected(m, b)
        /\ stage \in GroupStages \cup {"print"} \/ (stage = "done" /\ ~m.args.upgrade) =>
              \A b \in UserBasesOf(m.args) : Collected(m, b)

ListInv == \A r \in Run : ListOK(pc[r], mem[r])

LEMMA ListStep ==
    ASSUME IInv, ListInv, NEW r \in Run, Act(r), ListOK(pc'[r], mem'[r])
    PROVE  ListInv'
<1> SUFFICES ASSUME NEW s \in Run PROVE ListOK(pc'[s], mem'[s])
  BY DEF ListInv
<1>1. CASE s # r
  BY <1>1, OthersUnmoved DEF ListInv
<1> QED
  BY <1>1

\* A stage that ListOK says nothing about.
LEMMA ListQuiet ==
    ASSUME NEW stage \in {"pool", "cluster", "failed"}, NEW m
    PROVE  ListOK(stage, m)
BY DEF ListOK, Upgrading, UserStages, GroupStages

LEMMA ListFail ==
    ASSUME IInv, ListInv, NEW r \in Run, Act(r), Fail(r)
    PROVE  ListInv'
<1>1. pc'[r] = "failed"
  BY GotoAt DEF Fail
<1> QED
  BY <1>1, ListQuiet, ListStep

\* The list an export starts with.
LEMMA ListBegins ==
    ASSUME NEW f, NEW b \in UserBasesOf(f)
    PROVE  \E i \in DOMAIN ExportUsers(f) : ExportUsers(f)[i] = <<b>>
<1> DEFINE s == <<DefaultChecker, <<"csi-rbd-node">>, <<"csi-rbd-provisioner">>>>
           t == <<<<"csi-cephfs-node">>, <<"csi-cephfs-provisioner">>>>
<1>1. CASE HasCephfs(f)
  <2>1. ExportUsers(f) = s \o t
    BY <1>1 DEF ExportUsers
  <2>2. \E S : s \in Seq(S) /\ t \in Seq(S)
    <3> DEFINE S == {<<c>> : c \in Bases}
    <3>1. /\ DefaultChecker \in S /\ <<"csi-rbd-node">> \in S
          /\ <<"csi-rbd-provisioner">> \in S /\ <<"csi-cephfs-node">> \in S
          /\ <<"csi-cephfs-provisioner">> \in S
      BY DEF Bases, CsiBases, DefaultChecker
    <3> HIDE DEF S
    <3>2. s \in Seq(S) /\ t \in Seq(S)
      BY <3>1
    <3> QED
      BY <3>2
  <2>3. /\ Len(s) = 3 /\ s[1] = DefaultChecker
        /\ s[2] = <<"csi-rbd-node">> /\ s[3] = <<"csi-rbd-provisioner">>
        /\ Len(t) = 2 /\ t[1] = <<"csi-cephfs-node">>
        /\ t[2] = <<"csi-cephfs-provisioner">>
    OBVIOUS
  <2> HIDE DEF s, t
  <2>4. /\ DOMAIN (s \o t) = 1 .. 5
        /\ (s \o t)[1] = s[1] /\ (s \o t)[2] = s[2] /\ (s \o t)[3] = s[3]
        /\ (s \o t)[4] = t[1] /\ (s \o t)[5] = t[2]
    <3>1. PICK S : s \in Seq(S) /\ t \in Seq(S)
      BY <2>2
    <3>2. /\ s \o t \in Seq(S) /\ Len(s \o t) = 5
          /\ \A i \in 1 .. 5 : (s \o t)[i] = IF i <= 3 THEN s[i] ELSE t[i - 3]
      <4>1. /\ s \o t \in Seq(S) /\ Len(s \o t) = Len(s) + Len(t)
            /\ \A i \in 1 .. Len(s) + Len(t) :
                  (s \o t)[i] = IF i <= Len(s) THEN s[i] ELSE t[i - Len(s)]
        BY <3>1, ConcatProperties, Zenon
      <4>2. Len(s) = 3 /\ Len(s) + Len(t) = 5
        BY <2>3
      <4> QED
        BY <4>1, <4>2
    <3> QED
      BY <3>2
  <2> QED
    BY <1>1, <2>1, <2>3, <2>4 DEF UserBasesOf, DefaultChecker
<1>2. CASE ~HasCephfs(f)
  <2>1. ExportUsers(f) = s \o << >>
    BY <1>2 DEF ExportUsers
  <2>2. s \o << >> = s
    OBVIOUS
  <2>3. /\ DOMAIN s = 1 .. 3 /\ s[1] = DefaultChecker
        /\ s[2] = <<"csi-rbd-node">> /\ s[3] = <<"csi-rbd-provisioner">>
    OBVIOUS
  <2> HIDE DEF s
  <2> QED
    BY <1>2, <2>1, <2>2, <2>3 DEF UserBasesOf, DefaultChecker
<1> QED
  BY <1>1, <1>2

\* A user is taken off the list once its credential is there.
LEMMA ListNext ==
    ASSUME IInv, ListInv, NEW r \in Run, pc[r] \in UserStages, NEW m \in Memory,
           m.args = mem[r].args, m.todo = mem[r].todo, mem[r].creds \subseteq m.creds,
           ~m.args.dryRun => Collected(m, BaseOf(m.todo[1])), NextUser(r, m)
    PROVE  ListOK(pc'[r], mem'[r])
<1>1. /\ m.todo \in Seq(User) \ {<< >>} /\ Len(m.todo) \in Nat
      /\ DOMAIN m.todo = 1 .. Len(m.todo)
  BY CurrentUser
<1>2. ASSUME ~m.args.dryRun, NEW b \in UserBasesOf(m.args)
      PROVE  \/ Collected(m, b)
             \/ \E i \in DOMAIN m.todo : i # 1 /\ m.todo[i] = <<b>>
  <2>1. Waiting(mem[r], b) \/ Collected(mem[r], b)
    BY <1>2 DEF ListInv, ListOK
  <2>2. CASE Collected(mem[r], b)
    BY <2>2 DEF Collected
  <2>3. CASE m.todo[1] = <<b>>
    <3>1. BaseOf(m.todo[1]) = b
      BY <2>3 DEF BaseOf
    <3> QED
      BY <1>2, <3>1
  <2> QED
    BY <2>1, <2>2, <2>3 DEF Waiting
<1>3. CASE Len(m.todo) > 1
  <2> DEFINE n == [m EXCEPT !.todo = Tail(@)]
  <2>1. n.args = m.args /\ n.creds = m.creds /\ n.todo = Tail(m.todo)
    BY DEF Memory
  <2>2. Goto(r, "userGet", n)
    BY <1>3 DEF NextUser
  <2> HIDE DEF n
  <2>3. pc'[r] = "userGet" /\ mem'[r] = n
    BY <2>2, GotoAt
  <2>4. ASSUME NEW i \in DOMAIN m.todo, i # 1
        PROVE  i - 1 \in DOMAIN n.todo /\ n.todo[i - 1] = m.todo[i]
    BY <1>1, <2>1, <2>4
  <2>5. ASSUME ~n.args.dryRun, NEW b \in UserBasesOf(n.args)
        PROVE  Waiting(n, b) \/ Collected(n, b)
    BY <1>2, <2>1, <2>4, <2>5 DEF Waiting, Collected
  <2> QED
    BY <2>3, <2>5 DEF ListOK, Upgrading, UserStages, GroupStages
<1>4. CASE ~(Len(m.todo) > 1)
  <2> DEFINE n == [m EXCEPT !.todo = SubvolumeGroups(m.args)]
             stage == IF HasCephfs(m.args) THEN "groupMake" ELSE "print"
  <2>1. n.args = m.args /\ n.creds = m.creds
    BY DEF Memory
  <2>2. Goto(r, stage, n) /\ stage \in {"groupMake", "print"}
    BY <1>4 DEF NextUser
  <2> HIDE DEF n, stage
  <2>3. pc'[r] = stage /\ mem'[r] = n
    BY <2>2, GotoAt
  <2>4. ASSUME ~n.args.dryRun, NEW b \in UserBasesOf(n.args) PROVE Collected(n, b)
    BY <1>1, <1>2, <1>4, <2>1, <2>4 DEF Collected
  <2> QED
    BY <2>2, <2>3, <2>4 DEF ListOK, Upgrading, UserStages, GroupStages
<1> QED
  BY <1>3, <1>4

LEMMA CollectedHere ==
    ASSUME NEW m \in Memory, NEW base, NEW key
    PROVE  /\ Collect(m, base, key).creds = m.creds \cup
                {[base |-> base, key |-> key,
                  user |-> IF base = "healthchecker" THEN m.args.runAs
                                                     ELSE EntityOf(base, m.args)]}
           /\ Collected(Collect(m, base, key), base)
<1> DEFINE c == [base |-> base, key |-> key,
                 user |-> IF base = "healthchecker" THEN m.args.runAs
                                                    ELSE EntityOf(base, m.args)]
<1>1. Collect(m, base, key) = [m EXCEPT !.creds = @ \cup {c}] /\ c.base = base
  BY DEF Collect
<1> HIDE DEF c
<1>2. [m EXCEPT !.creds = @ \cup {c}].creds = m.creds \cup {c}
  BY DEF Memory
<1> QED
  BY <1>1, <1>2 DEF Collected, c

LEMMA ListGetUser ==
    ASSUME IInv, ListInv, NEW r \in Run, GetUser(r)
    PROVE  ListInv'
<1> DEFINE base == BaseOf(mem[r].todo[1])
           entity == EntityOf(base, mem[r].args)
<1>1. /\ Act(r) /\ pc[r] \in UserStages /\ mem[r] \in Memory /\ base \in Bases
      /\ mem[r].args.runAs \in User
  BY CurrentUser DEF GetUser, UserStages, Act, Step
<1>2. CASE Fail(r)
  BY <1>1, <1>2, ListFail
<1>3. CASE mem[r].args.dryRun /\ NextUser(r, mem[r])
  BY <1>1, <1>3, ListNext, ListStep
<1>4. CASE entity \in DOMAIN auth /\ NextUser(r, Collect(mem[r], base, auth[entity].key))
  <2> DEFINE m == Collect(mem[r], base, auth[entity].key)
  <2>1. auth[entity].key \in Nat
    BY <1>4 DEF IInv, TypeOK, AuthEntry
  <2>2. m \in Memory /\ m.todo = mem[r].todo /\ m.args = mem[r].args
    BY <1>1, <2>1, CollectType
  <2>3. mem[r].creds \subseteq m.creds /\ Collected(m, base)
    BY <1>1, CollectedHere
  <2> HIDE DEF m
  <2>4. NextUser(r, m)
    BY <1>4 DEF m
  <2> QED
    BY <1>1, <2>2, <2>3, <2>4, ListNext, ListStep
<1>5. CASE Goto(r, "userCreate", mem[r])
  <2>1. pc'[r] = "userCreate" /\ mem'[r] = mem[r]
    BY <1>5, GotoAt
  <2>2. ListOK("userCreate", mem[r])
    BY <1>1 DEF ListInv, ListOK, UserStages, Upgrading, GroupStages
  <2> QED
    BY <1>1, <2>1, <2>2, ListStep
<1> QED
  BY <1>2, <1>3, <1>4, <1>5 DEF GetUser

LEMMA ListCreateUser ==
    ASSUME IInv, ListInv, NEW r \in Run, CreateUser(r)
    PROVE  ListInv'
<1> DEFINE base == BaseOf(mem[r].todo[1])
<1>1. /\ Act(r) /\ pc[r] \in UserStages /\ mem[r] \in Memory /\ base \in Bases
      /\ mem[r].args.runAs \in User
  BY CurrentUser DEF CreateUser, UserStages, Act, Step
<1>2. CASE Fail(r)
  BY <1>1, <1>2, ListFail
<1>3. ASSUME NEW key \in Nat, NextUser(r, Collect(mem[r], base, key))
      PROVE  ListInv'
  <2> DEFINE m == Collect(mem[r], base, key)
  <2>1. m \in Memory /\ m.todo = mem[r].todo /\ m.args = mem[r].args
    BY <1>1, CollectType
  <2>2. mem[r].creds \subseteq m.creds /\ Collected(m, base)
    BY <1>1, CollectedHere
  <2> HIDE DEF m
  <2>3. NextUser(r, m)
    BY <1>3 DEF m
  <2> QED
    BY <1>1, <2>1, <2>2, <2>3, ListNext, ListStep
<1>4. \/ Fail(r)
      \/ \E key \in Nat : NextUser(r, Collect(mem[r], base, key))
  <2>1. issued \in Nat /\ \A u \in DOMAIN auth : auth[u].key \in Nat
    BY DEF IInv, TypeOK, AuthEntry
  <2> QED
    BY <2>1 DEF CreateUser
<1> QED
  BY <1>2, <1>3, <1>4

LEMMA ListStart ==
    ASSUME IInv, ListInv, NEW r \in Run, Start(r)
    PROVE  ListInv'
<1>1. PICK f \in Invocations :
        LET m == [mem[r] EXCEPT !.args = Parsed(f)] IN
        IF f.upgrade
        THEN Goto(r, "upgradeGet", [m EXCEPT !.todo = UpgradeUsers(f)])
        ELSE IF f.pool = Unset THEN Fail(r) ELSE Goto(r, "pool", m)
  BY DEF Start, Conflicting
<1>2. f \in Flags /\ mem[r] \in Memory /\ Act(r)
  BY RunAssumption DEF IInv, TypeOK, Act
<1>3. CASE f.upgrade
  <2> DEFINE n == [[mem[r] EXCEPT !.args = Parsed(f)] EXCEPT !.todo = UpgradeUsers(f)]
  <2>1. n.args = Parsed(f) /\ Parsed(f).upgrade
    BY <1>2, <1>3, ParsedType DEF Memory
  <2>2. Goto(r, "upgradeGet", n)
    BY <1>1, <1>3
  <2> HIDE DEF n
  <2>3. pc'[r] = "upgradeGet" /\ mem'[r] = n
    BY <2>2, GotoAt
  <2>4. ListOK("upgradeGet", n)
    BY <2>1 DEF ListOK, Upgrading, UserStages, GroupStages
  <2> QED
    BY <1>2, <2>3, <2>4, ListStep
<1>4. CASE ~f.upgrade /\ Fail(r)
  BY <1>2, <1>4, ListFail
<1>5. CASE Goto(r, "pool", [mem[r] EXCEPT !.args = Parsed(f)])
  <2>1. pc'[r] = "pool"
    BY <1>5, GotoAt
  <2> QED
    BY <1>2, <2>1, ListQuiet, ListStep
<1> QED
  BY <1>1, <1>3, <1>4, <1>5

\* The steps of an export that deal with no user.
LEMMA ListExport ==
    ASSUME IInv, ListInv, NEW r \in Run,
           \/ InitPool(r) \/ ReadCluster(r) \/ MakeGroup(r)
           \/ PinGroup(r) \/ PrintOutput(r)
    PROVE  ListInv'
<1> DEFINE f == mem[r].args
<1>1. Act(r) /\ mem[r] \in Memory /\ f \in Flags
  BY DEF Act, Step, IInv, TypeOK, Memory
<1>2. CASE Fail(r)
  BY <1>1, <1>2, ListFail
<1>3. CASE InitPool(r) /\ ~Fail(r)
  <2>1. pc'[r] = "cluster"
    BY <1>3, GotoAt DEF InitPool
  <2> QED
    BY <1>1, <2>1, ListQuiet, ListStep
<1>4. CASE ReadCluster(r) /\ ~Fail(r)
  <2>1. PICK g : Goto(r, "userGet", [mem[r] EXCEPT !.args = g, !.todo = ExportUsers(g)])
    BY <1>4 DEF ReadCluster
  <2> DEFINE m == [mem[r] EXCEPT !.args = g, !.todo = ExportUsers(g)]
  <2>2. m.args = g /\ m.todo = ExportUsers(g)
    BY <1>1 DEF Memory
  <2> HIDE DEF m
  <2>3. pc'[r] = "userGet" /\ mem'[r] = m
    BY <2>1, GotoAt DEF m
  <2>4. \A b \in UserBasesOf(m.args) : Waiting(m, b)
    BY <2>2, ListBegins DEF Waiting
  <2>5. ListOK("userGet", m)
    BY <2>4 DEF ListOK, Upgrading, UserStages, GroupStages
  <2> QED
    BY <1>1, <2>3, <2>5, ListStep
<1>5. ASSUME NEW stage \in GroupStages \cup {"print", "done"}, NEW m,
             pc[r] \in GroupStages \cup {"print"}, Goto(r, stage, m),
             m.args = f, m.creds = mem[r].creds
      PROVE  ListInv'
  <2>1. pc'[r] = stage /\ mem'[r] = m
    BY <1>5, GotoAt
  <2>2. ~f.dryRun => \A b \in UserBasesOf(f) : Collected(mem[r], b)
    BY <1>5 DEF ListInv, ListOK
  <2>3. ListOK(stage, m)
    BY <1>5, <2>2 DEF ListOK, Collected, Upgrading, UserStages, GroupStages
  <2> QED
    BY <1>1, <2>1, <2>3, ListStep
<1>6. CASE MakeGroup(r)
  BY <1>5, <1>6 DEF MakeGroup, GroupStages
<1>7. CASE PinGroup(r)
  <2> DEFINE m == [mem[r] EXCEPT !.todo = Tail(@)]
  <2>1. m.args = f /\ m.creds = mem[r].creds
    BY <1>1 DEF Memory
  <2>2. PICK stage \in {"groupMake", "print"} : Goto(r, stage, m)
    BY <1>7 DEF PinGroup
  <2>3. pc[r] = "groupPin"
    BY <1>7 DEF PinGroup
  <2> HIDE DEF m
  <2> QED
    BY <1>5, <2>1, <2>2, <2>3 DEF GroupStages
<1>8. CASE PrintOutput(r)
  BY <1>5, <1>8 DEF PrintOutput
<1> QED
  BY <1>2, <1>3, <1>4, <1>6, <1>7, <1>8

LEMMA ListUpgrade ==
    ASSUME IInv, ListInv, NEW r \in Run, UpgradeGet(r) \/ UpgradeSet(r)
    PROVE  ListInv'
<1>1. Act(r) /\ mem[r] \in Memory /\ mem[r].args \in Flags /\ mem[r].args.upgrade
  BY DEF Act, Step, IInv, TypeOK, Memory, UpgradeGet, UpgradeSet, Upgrading, ListInv, ListOK
<1>2. ASSUME NEW stage \in Upgrading \cup {"done"}, NEW m, Goto(r, stage, m),
             m.args.upgrade
      PROVE  ListInv'
  <2>1. pc'[r] = stage /\ mem'[r] = m
    BY <1>2, GotoAt
  <2>2. ListOK(stage, m)
    BY <1>2 DEF ListOK, Upgrading, UserStages, GroupStages
  <2> QED
    BY <1>1, <2>1, <2>2, ListStep
<1>3. ASSUME NEW m \in Memory, NextUpgrade(r, m), m.args = mem[r].args
      PROVE  ListInv'
  <2> DEFINE n == [m EXCEPT !.todo = Tail(@), !.seen = NoCaps]
             stage == IF Len(m.todo) > 1 THEN "upgradeGet" ELSE "done"
  <2>1. n.args = m.args
    BY DEF Memory
  <2>2. Goto(r, stage, n) /\ stage \in Upgrading \cup {"done"}
    BY <1>3 DEF NextUpgrade, Upgrading
  <2> HIDE DEF n, stage
  <2> QED
    BY <1>1, <1>2, <1>3, <2>1, <2>2
<1>4. CASE UpgradeSet(r)
  BY <1>1, <1>3, <1>4 DEF UpgradeSet
<1>5. CASE UpgradeGet(r)
  <2> DEFINE user == mem[r].todo[1]
  <2>1. CASE Fail(r)
    BY <1>1, <2>1, ListFail
  <2>2. CASE NextUpgrade(r, [mem[r] EXCEPT !.missing = @ \cup {user}])
    <3> DEFINE m == [mem[r] EXCEPT !.missing = @ \cup {user}]
    <3>1. m \in Memory /\ m.args = mem[r].args
      BY <1>1, <1>5, CurrentUser DEF Memory, UpgradeGet, Upgrading
    <3> HIDE DEF m
    <3>2. NextUpgrade(r, m)
      BY <2>2 DEF m
    <3> QED
      BY <1>3, <3>1, <3>2
  <2>3. ASSUME NEW p,
               Goto(r, "upgradeSet",
                    [mem[r] EXCEPT
                        !.args = Narrowed(user, [mem[r].args EXCEPT !.prefix = p]),
                        !.seen = auth[user].caps])
        PROVE  ListInv'
    <3> DEFINE g == [mem[r].args EXCEPT !.prefix = p]
               f == Narrowed(user, g)
               m == [mem[r] EXCEPT !.args = f, !.seen = auth[user].caps]
    <3>1. f.upgrade
      BY <1>1 DEF Narrowed, Flags
    <3> HIDE DEF f
    <3>2. m.args = f
      BY <1>1 DEF Memory
    <3>3. Goto(r, "upgradeSet", m) /\ "upgradeSet" \in Upgrading
      BY <2>3 DEF Upgrading, f
    <3> HIDE DEF m
    <3> QED
      BY <1>2, <3>1, <3>2, <3>3
  <2> QED
    BY <1>5, <2>1, <2>2, <2>3 DEF UpgradeGet
<1> QED
  BY <1>4, <1>5

LEMMA ListKept == ASSUME IInv, ListInv, [Next]_vars PROVE ListInv'
<1>1. CASE UNCHANGED vars
  BY <1>1 DEF vars, ListInv
<1>2. ASSUME NEW r \in Run, Act(r) PROVE ListInv'
  <2>1. CASE Abort(r)
    BY <1>2, <2>1, ListFail DEF Abort
  <2> QED
    BY <1>2, <2>1, ListStart, ListExport, ListGetUser, ListCreateUser, ListUpgrade
       DEF Act, Step
<1> QED
  BY <1>1, <1>2 DEF Next, Act

-----------------------------------------------------------------------------
(***************************************************************************)
(* The monitors give every user a key of its own.                          *)
(***************************************************************************)
Keys == [u \in DOMAIN auth |-> auth[u].key]
KeysFresh == \A u \in DOMAIN auth : auth[u].key < issued

\* One user more, with a key that nobody has.
OneMore ==
    \E u \in DOMAIN Keys' \ DOMAIN Keys :
        /\ Keys' = Promise!Extend(Keys, u, Keys'[u])
        /\ \A v \in DOMAIN Keys : Keys[v] # Keys'[u]

LEMMA KeysStep ==
    ASSUME IInv, KeysFresh, [Next]_vars
    PROVE  KeysFresh' /\ (UNCHANGED Keys \/ OneMore)
<1>1. CASE UNCHANGED <<auth, issued>>
  BY <1>1 DEF KeysFresh, Keys
<1>2. ASSUME NEW r \in Run, UpgradeSet(r)
      PROVE  KeysFresh' /\ UNCHANGED Keys
  <2>1. PICK u, caps : auth' = [auth EXCEPT ![u].caps = caps]
    BY <1>2 DEF UpgradeSet
  <2>2. issued' = issued
    BY <1>2 DEF UpgradeSet
  <2>3. /\ DOMAIN auth' = DOMAIN auth
        /\ \A v \in DOMAIN auth : auth[v] \in AuthEntry /\ auth'[v].key = auth[v].key
    BY <2>1 DEF IInv, TypeOK, AuthEntry
  <2> QED
    BY <2>2, <2>3 DEF KeysFresh, Keys
<1>3. ASSUME NEW e, NEW caps, e \notin DOMAIN auth, issued' = issued + 1,
             auth' = [u \in DOMAIN auth \cup {e} |->
                        IF u = e THEN [key |-> issued, caps |-> caps] ELSE auth[u]]
      PROVE  KeysFresh' /\ OneMore
  <2>1. issued \in Nat /\ \A u \in DOMAIN auth : auth[u].key \in Nat
    BY DEF IInv, TypeOK, AuthEntry
  <2>2. /\ DOMAIN auth' = DOMAIN auth \cup {e} /\ auth'[e].key = issued
        /\ \A u \in DOMAIN auth : auth'[u].key = auth[u].key
    BY <1>3
  <2>3. KeysFresh'
    BY <1>3, <2>1, <2>2 DEF KeysFresh
  <2>4. /\ DOMAIN Keys = DOMAIN auth /\ DOMAIN Keys' = DOMAIN auth \cup {e}
        /\ \A u \in DOMAIN auth : Keys[u] = auth[u].key
        /\ Keys'[e] = issued
    BY <2>2 DEF Keys
  <2>5. Keys' = Promise!Extend(Keys, e, Keys'[e])
    BY <1>3, <2>2, <2>4 DEF Keys, Promise!Extend
  <2>6. \A v \in DOMAIN Keys : Keys[v] # Keys'[e]
    BY <2>1, <2>4 DEF KeysFresh
  <2> QED
    BY <1>3, <2>3, <2>4, <2>5, <2>6 DEF OneMore
<1>4. CASE Next
  <2>1. PICK r \in Run : Act(r)
    BY <1>4 DEF Next, Act
  <2>2. CASE CreateUser(r)
    BY <1>1, <1>3, <2>2 DEF CreateUser
  <2>3. CASE ~CreateUser(r) /\ ~UpgradeSet(r)
    <3>1. UNCHANGED <<auth, issued>>
      BY <2>1, <2>3 DEF Act, Step, Start, Abort, InitPool, ReadCluster, GetUser, MakeGroup,
                  PinGroup, PrintOutput, UpgradeGet, provider
    <3> QED
      BY <1>1, <3>1
  <2> QED
    BY <1>2, <2>2, <2>3
<1> QED
  BY <1>1, <1>4 DEF vars

-----------------------------------------------------------------------------
(***************************************************************************)
(* The importer of ExternalCluster is the one that ImportClusterProofs is  *)
(* about.                                                                  *)
(***************************************************************************)
LEMMA SamePlan == \A e : Import!Plan(e) = Imp!Plan(e)
<1>1. \A e : Import!CsiSecrets(e) = Imp!CsiSecrets(e)
  BY DEF Import!CsiSecrets, Imp!CsiSecrets, Import!ImportCsiSecret, Imp!ImportCsiSecret,
         Import!CsiSecret, Imp!CsiSecret, Import!Given, Imp!Given, Import!Optional,
         Imp!Optional, Import!CreateStep, Imp!CreateStep, Import!Object, Imp!Object,
         Import!ImportRGWAdminOpsUser, Imp!ImportRGWAdminOpsUser
<1>2. \A e : Import!StorageClasses(e) = Imp!StorageClasses(e)
  BY DEF Import!StorageClasses, Imp!StorageClasses, Import!RBDStorageClass,
         Imp!RBDStorageClass, Import!CephFSStorageClass, Imp!CephFSStorageClass,
         Import!CsiSecret, Imp!CsiSecret, Import!Optional, Imp!Optional,
         Import!CreateStep, Imp!CreateStep, Import!Object, Imp!Object
<1>3. \A e : /\ Import!CreateNamespace(e) = Imp!CreateNamespace(e)
             /\ Import!ImportClusterID(e) = Imp!ImportClusterID(e)
             /\ Import!ImportSecret(e) = Imp!ImportSecret(e)
             /\ Import!ImportConfigMap(e) = Imp!ImportConfigMap(e)
  BY DEF Import!CreateNamespace, Imp!CreateNamespace, Import!ImportClusterID,
         Imp!ImportClusterID, Import!ImportSecret, Imp!ImportSecret,
         Import!ImportConfigMap, Imp!ImportConfigMap, Import!Optional, Imp!Optional,
         Import!CreateStep, Imp!CreateStep, Import!WaitStep, Imp!WaitStep,
         Import!Object, Imp!Object
<1> QED
  BY <1>1, <1>2, <1>3 DEF Import!Plan, Imp!Plan

LEMMA SameStep ==
    ASSUME NEW i, Import!Step(i) \/ Import!Abort(i)
    PROVE  Imp!Step(i) \/ Imp!Abort(i)
<1>1. /\ \A stage, k : Import!Goto(i, stage, k) = Imp!Goto(i, stage, k)
      /\ Import!Exit(i) = Imp!Exit(i)
  BY DEF Import!Goto, Imp!Goto, Import!Exit, Imp!Exit
<1>2. \A k : Import!Continue(i, k) = Imp!Continue(i, k)
  BY <1>1, SamePlan DEF Import!Continue, Imp!Continue
<1>3. /\ Import!Current(i) = Imp!Current(i)
      /\ \A x, d : Import!With(x, d) = Imp!With(x, d)
  BY SamePlan DEF Import!Current, Imp!Current, Import!With, Imp!With
<1>4. \A e : Import!EnvComplete(e) = Imp!EnvComplete(e)
  BY DEF Import!EnvComplete, Imp!EnvComplete, Import!Given, Imp!Given
<1>5. Import!CheckEnvVars(i) => Imp!CheckEnvVars(i)
  BY <1>1, <1>2, <1>4 DEF Import!CheckEnvVars, Imp!CheckEnvVars
<1>6. Import!GetObject(i) => Imp!GetObject(i)
  BY <1>1, <1>2, <1>3 DEF Import!GetObject, Imp!GetObject
<1>7. Import!CreateObject(i) => Imp!CreateObject(i)
  BY <1>1, <1>2, <1>3 DEF Import!CreateObject, Imp!CreateObject
<1>8. /\ Import!WaitReady(i) => Imp!WaitReady(i)
      /\ Import!Rerun(i) => Imp!Rerun(i)
      /\ Import!Abort(i) => Imp!Abort(i)
  BY <1>1 DEF Import!WaitReady, Imp!WaitReady, Import!Rerun, Imp!Rerun, Import!Abort,
              Imp!Abort
<1> QED
  BY <1>5, <1>6, <1>7, <1>8 DEF Import!Step, Imp!Step

-----------------------------------------------------------------------------
(***************************************************************************)
(* What an import is given: the users of every class, with their keys.     *)
(***************************************************************************)
Owned(c) == c.name \in DOMAIN auth /\ c.key = <<auth[c.name].key>>

EnvOK(e) ==
    /\ Imp!ClassUsersGiven(e)
    /\ \A c \in Imp!CsiUsers(e) : Imp!Given(c) => Owned(c)

AllInv ==
    /\ IInv /\ CredInv /\ ListInv /\ KeysFresh
    /\ Imp!IInv
    /\ DOMAIN env = ImportRun
    /\ \A i \in ImportRun : ipc[i] # "idle" => EnvOK(env[i])

LEMMA CredOwned ==
    ASSUME IInv, CredInv, NEW r \in Run, NEW b
    PROVE  /\ Imp!Given(Cred(mem[r], b)) => Owned(Cred(mem[r], b))
           /\ Collected(mem[r], b) => Imp!Given(Cred(mem[r], b))
<1>1. CASE Collected(mem[r], b)
  <2> DEFINE c == CHOOSE x \in mem[r].creds : x.base = b
  <2>1. Cred(mem[r], b) = [name |-> c.user, key |-> <<c.key>>]
    BY <1>1 DEF Cred, Collected
  <2>2. c \in mem[r].creds
    BY <1>1 DEF Collected
  <2> HIDE DEF c
  <2>3. c.user \in DOMAIN auth /\ auth[c.user].key = c.key
    BY <2>2 DEF CredInv
  <2>4. c.user # << >>
    BY <2>3 DEF IInv, TypeOK, User
  <2>5. \A x : <<x>> # << >>
    OBVIOUS
  <2> QED
    BY <2>1, <2>3, <2>4, <2>5 DEF Owned, Imp!Given, Unset
<1>2. CASE ~Collected(mem[r], b)
  BY <1>2 DEF Cred, NoCred, Collected, Imp!Given
<1> QED
  BY <1>1, <1>2

LEMMA ShellOutOK ==
    ASSUME IInv, CredInv, ListInv, NEW r \in Run, Printed(r), ~mem[r].args.dryRun,
           NEW ec, NEW n
    PROVE  EnvOK(ShellOut(mem[r], ec, n))
<1> DEFINE e == ShellOut(mem[r], ec, n)
<1>1. /\ e.rbdNode = Cred(mem[r], "csi-rbd-node")
      /\ e.rbdProvisioner = Cred(mem[r], "csi-rbd-provisioner")
      /\ e.fsNode = Cred(mem[r], "csi-cephfs-node")
      /\ e.fsProvisioner = Cred(mem[r], "csi-cephfs-provisioner")
      /\ e.pool = mem[r].args.pool /\ e.fs = mem[r].args.fs
      /\ e.fsPool = mem[r].args.dataPool
  BY DEF ShellOut
<1> HIDE DEF e
<1>2. \A b \in UserBasesOf(mem[r].args) : Imp!Given(Cred(mem[r], b))
  BY CredOwned DEF ListInv, ListOK, Printed
<1>3. Imp!ClassUsersGiven(e)
  BY <1>1, <1>2 DEF Imp!ClassUsersGiven, UserBasesOf, HasCephfs
<1>4. \A c \in Imp!CsiUsers(e) : Imp!Given(c) => Owned(c)
  BY <1>1, CredOwned DEF Imp!CsiUsers
<1> QED
  BY <1>3, <1>4 DEF EnvOK, e


-----------------------------------------------------------------------------
(***************************************************************************)
(* The refinement: which step of the promise each step is.                 *)
(***************************************************************************)
Secrets == [o \in CsiSecretsIn |->
               [user |-> objects[o].name, key |-> objects[o].key[1]]]
Classes == [o \in ClassesIn |-> objects[o].secrets]
Mapped == <<Keys, Secrets, Classes>>

LEMMA MappedVars == UNCHANGED Mapped => UNCHANGED Promise!vars
BY DEF Promise!vars, Mapped, Keys, Secrets, Classes

LEMMA SameObjects == UNCHANGED objects => UNCHANGED <<Secrets, Classes>>
BY DEF Secrets, Classes, CsiSecretsIn, ClassesIn

LEMMA IssueStep ==
    ASSUME OneMore, UNCHANGED objects
    PROVE  Promise!Next
<1>1. UNCHANGED <<Secrets, Classes>>
  BY SameObjects
<1> QED
  BY <1>1 DEF OneMore, Promise!Next, Promise!Issue, Keys, Secrets, Classes

\* The consumer gets one object more.
LEMMA AddedObject ==
    ASSUME NEW x, NEW d, x \notin DOMAIN objects, objects' = Imp!With(x, d),
           UNCHANGED auth,
           IsCsiSecret(x) => Owned(d),
           x.kind = "StorageClass" => d.secrets \subseteq CsiSecretsIn
    PROVE  Promise!Next \/ UNCHANGED Mapped
<1>1. /\ DOMAIN objects' = DOMAIN objects \cup {x} /\ objects'[x] = d
      /\ \A o \in DOMAIN objects : objects'[o] = objects[o]
  BY DEF Imp!With
<1>2. UNCHANGED Keys
  BY DEF Keys
<1>3. CASE IsCsiSecret(x)
  <2>1. CsiSecretsIn' = CsiSecretsIn \cup {x} /\ x \notin CsiSecretsIn
    BY <1>1, <1>3 DEF CsiSecretsIn
  <2>2. ClassesIn' = ClassesIn /\ UNCHANGED Classes
    BY <1>1, <1>3 DEF ClassesIn, Classes, IsCsiSecret
  <2>3. d.name \in DOMAIN Keys /\ d.key[1] = Keys[d.name]
    <3>1. \A k : <<k>>[1] = k
      OBVIOUS
    <3> QED
      BY <1>3, <3>1 DEF Owned, Keys
  <2>4. /\ DOMAIN Secrets = CsiSecretsIn /\ DOMAIN Secrets' = CsiSecretsIn \cup {x}
        /\ Secrets'[x] = [user |-> d.name, key |-> Keys[d.name]]
        /\ \A o \in CsiSecretsIn : Secrets'[o] = Secrets[o]
    BY <1>1, <2>1, <2>3 DEF Secrets, CsiSecretsIn
  <2>5. Secrets' = Promise!Extend(Secrets, x, [user |-> d.name, key |-> Keys[d.name]])
    BY <2>1, <2>4 DEF Secrets, Promise!Extend
  <2>6. \E s \in DOMAIN Secrets' \ DOMAIN Secrets : \E u \in DOMAIN Keys :
           Secrets' = Promise!Extend(Secrets, s, [user |-> u, key |-> Keys[u]])
    BY <2>1, <2>3, <2>4, <2>5
  <2>7. Promise!Store
    BY <1>2, <2>2, <2>6, Zenon DEF Promise!Store, Keys, Secrets, Classes
  <2> QED
    BY <2>7 DEF Promise!Next
<1>4. CASE x.kind = "StorageClass"
  <2>1. ClassesIn' = ClassesIn \cup {x} /\ x \notin ClassesIn
    BY <1>1, <1>4 DEF ClassesIn
  <2>2. CsiSecretsIn' = CsiSecretsIn /\ UNCHANGED Secrets
    BY <1>1, <1>4 DEF CsiSecretsIn, Secrets, IsCsiSecret
  <2>3. /\ DOMAIN Classes = ClassesIn /\ DOMAIN Classes' = ClassesIn \cup {x}
        /\ Classes'[x] = d.secrets
        /\ \A o \in ClassesIn : Classes'[o] = Classes[o]
    BY <1>1, <2>1 DEF Classes, ClassesIn
  <2>4. Classes' = Promise!Extend(Classes, x, Classes'[x])
    BY <2>1, <2>3 DEF Classes, Promise!Extend
  <2>5. DOMAIN Secrets = CsiSecretsIn
    BY DEF Secrets
  <2>6. Promise!Offer
    BY <1>2, <1>4, <2>1, <2>2, <2>3, <2>4, <2>5 DEF Promise!Offer, Keys, Secrets, Classes
  <2> QED
    BY <2>6 DEF Promise!Next
<1>5. CASE ~IsCsiSecret(x) /\ x.kind # "StorageClass"
  <2>1. UNCHANGED Secrets
    BY <1>1, <1>5 DEF CsiSecretsIn, Secrets
  <2>2. UNCHANGED Classes
    BY <1>1, <1>5 DEF ClassesIn, Classes
  <2> QED
    BY <1>2, <2>1, <2>2 DEF Mapped
<1> QED
  BY <1>3, <1>4, <1>5

-----------------------------------------------------------------------------
LEMMA AllInitInv == AllInit => AllInv
<1> SUFFICES ASSUME AllInit PROVE AllInv
  OBVIOUS
<1>1. IInv /\ CredInv
  BY InitInv, CredInit DEF AllInit
<1>2. ListInv
  BY DEF AllInit, Init, ListInv, ListOK, Upgrading, UserStages, GroupStages
<1>3. KeysFresh
  BY LegacyAssumption DEF AllInit, Init, KeysFresh
<1>4. Imp!IInv
  <2>1. DOMAIN objects = {}
    BY DEF AllInit
  <2> QED
    BY <2>1 DEF AllInit, Imp!IInv, Imp!ClassesBacked, Imp!Progress, Imp!Stages
<1> QED
  BY <1>1, <1>2, <1>3, <1>4 DEF AllInit, AllInv

LEMMA ExportMove ==
    ASSUME DefaultChecker17, AllInv, [Next]_vars, UNCHANGED consumer
    PROVE  AllInv' /\ (Promise!Next \/ UNCHANGED Mapped)
<1>1. IInv' /\ CredInv' /\ ListInv'
  BY NextInv, CredKept, ListKept DEF AllInv
<1>2. KeysFresh' /\ (UNCHANGED Keys \/ OneMore)
  BY KeysStep DEF AllInv
<1>3. UNCHANGED <<objects, env, ipc, at>>
  BY DEF consumer
<1>4. Imp!IInv'
  BY <1>3 DEF AllInv, Imp!IInv, Imp!ClassesBacked, Imp!Progress, Imp!Reached
<1>5. \A u \in DOMAIN auth : u \in DOMAIN auth' /\ auth'[u].key = auth[u].key
  BY KeysKept DEF Next, Act, AllInv, vars
<1>6. ASSUME NEW i \in ImportRun, ipc'[i] # "idle" PROVE EnvOK(env[i])'
  BY <1>3, <1>5, <1>6 DEF AllInv, EnvOK, Owned
<1>7. AllInv'
  BY <1>1, <1>2, <1>3, <1>4, <1>6 DEF AllInv
<1>8. CASE UNCHANGED Keys
  BY <1>3, <1>7, <1>8, SameObjects DEF Mapped
<1>9. CASE OneMore
  BY <1>3, <1>7, <1>9, IssueStep
<1> QED
  BY <1>2, <1>7, <1>8, <1>9

\* What stays when only the importers move.
LEMMA ProviderStays ==
    ASSUME AllInv, UNCHANGED vars
    PROVE  /\ IInv' /\ CredInv' /\ ListInv' /\ KeysFresh' /\ UNCHANGED Keys
           /\ \A e : EnvOK(e)' = EnvOK(e)
<1>1. IInv' /\ ListInv'
  BY NextInv, ListKept DEF AllInv
<1>2. CredInv'
  BY DEF AllInv, CredInv, vars
<1>3. KeysFresh' /\ UNCHANGED Keys
  BY DEF AllInv, KeysFresh, Keys, vars
<1> QED
  BY <1>1, <1>2, <1>3 DEF EnvOK, Owned, vars

LEMMA BeginStep ==
    ASSUME AllInv, NEW i \in ImportRun, Begin(i)
    PROVE  AllInv' /\ UNCHANGED Mapped
<1>1. PICK r \in Run, n \in ConsumerNamespaces :
        /\ Printed(r) /\ ~mem[r].args.dryRun
        /\ env' = [env EXCEPT ![i] = ShellOut(mem[r], ecFlag[r], n)]
  BY DEF Begin
<1>2. /\ ipc[i] = "idle" /\ ipc' = [ipc EXCEPT ![i] = "check"]
      /\ UNCHANGED vars /\ UNCHANGED objects /\ UNCHANGED at
  BY DEF Begin
<1>3. EnvOK(ShellOut(mem[r], ecFlag[r], n))
  BY <1>1, ShellOutOK DEF AllInv
<1> DEFINE e == ShellOut(mem[r], ecFlag[r], n)
<1> HIDE DEF e
<1>4. /\ env'[i] = e /\ DOMAIN env' = ImportRun
      /\ \A j \in ImportRun \ {i} : env'[j] = env[j]
  BY <1>1 DEF AllInv, e
<1>5. /\ ipc' \in [ImportRun -> Imp!Stages] /\ ipc'[i] = "check"
      /\ \A j \in ImportRun \ {i} : ipc'[j] = ipc[j]
  BY <1>2 DEF AllInv, Imp!IInv, Imp!Stages
<1>6. Imp!IInv'
  <2>1. Imp!ClassesBacked'
    BY <1>2 DEF AllInv, Imp!IInv, Imp!ClassesBacked
  <2>2. Imp!Progress(i)'
    BY <1>3, <1>4, <1>5 DEF Imp!Progress, EnvOK, e
  <2>3. ASSUME NEW j \in ImportRun \ {i} PROVE Imp!Progress(j)'
    BY <1>2, <1>4, <1>5 DEF AllInv, Imp!IInv, Imp!Progress, Imp!Reached
  <2> QED
    BY <1>2, <1>5, <2>1, <2>2, <2>3 DEF AllInv, Imp!IInv
<1>7. ASSUME NEW j \in ImportRun, ipc'[j] # "idle" PROVE EnvOK(env[j])'
  <2>1. EnvOK(env'[j])
    BY <1>3, <1>4, <1>5, <1>7 DEF AllInv, e
  <2> QED
    BY <1>2, <2>1 DEF EnvOK, Owned, vars
<1>8. AllInv'
  BY <1>2, <1>4, <1>6, <1>7, ProviderStays DEF AllInv
<1> QED
  BY <1>2, <1>8, ProviderStays, SameObjects DEF Mapped

\* What the importer creates next, if it creates something.
LEMMA NextObject ==
    ASSUME AllInv, NEW i \in ImportRun, ipc[i] = "create",
           NEW x, x = Imp!Current(i).object, NEW d, d = Imp!Current(i).data
    PROVE  /\ IsCsiSecret(x) => x.name = <<"rook", d.name>> /\ Owned(d)
           /\ x.kind = "StorageClass" =>
                /\ env[i].radosNs = Unset
                /\ \A s \in d.secrets : IsCsiSecret(s)
                /\ \/ /\ env[i].pool # Unset
                      /\ x.name = <<"ceph-rbd">> /\ d = Imp!RbdClassOf(env[i])
                   \/ /\ env[i].fs # Unset /\ env[i].fsPool # Unset
                      /\ x.name = <<"cephfs">> /\ d = Imp!FsClassOf(env[i])
<1> DEFINE e == env[i]
           k == at[i]
<1>1. /\ x = Imp!Plan(e)[k].object /\ d = Imp!Plan(e)[k].data
      /\ k \in DOMAIN Imp!Plan(e) /\ EnvOK(e) /\ Imp!Reached(i, k)
  BY DEF AllInv, Imp!IInv, Imp!Progress, Imp!Current
<1>2. \A j \in DOMAIN Imp!Plan(e) : j < k => Imp!Plan(e)[j].step # "wait"
  BY <1>1 DEF Imp!Reached
<1> HIDE DEF e, k
<1>3. ASSUME IsCsiSecret(x) PROVE x.name = <<"rook", d.name>> /\ Owned(d)
  <2>1. Imp!SecretsFrom(Imp!Plan(e), e)
    BY OsdAssumption, Imp!PlanSecrets DEF Imp!PlanSecrets
  <2>2. PICK c \in Imp!CsiUsers(e) :
           Imp!Given(c) /\ Imp!Plan(e)[k] = Imp!SecretStep(e, c)
    BY <1>1, <1>3, <2>1 DEF Imp!SecretsFrom, Imp!IsCsi, IsCsiSecret
  <2>3. d = c /\ x = Imp!CsiSecret(e, c)
    BY <1>1, <2>2 DEF Imp!SecretStep
  <2> QED
    BY <1>1, <2>2, <2>3 DEF EnvOK, Imp!CsiSecret, Imp!Object
<1>4. ASSUME x.kind = "StorageClass"
      PROVE  /\ e.radosNs = Unset
             /\ \A s \in d.secrets : IsCsiSecret(s)
             /\ \/ /\ e.pool # Unset
                   /\ x.name = <<"ceph-rbd">> /\ d = Imp!RbdClassOf(e)
                \/ /\ e.fs # Unset /\ e.fsPool # Unset
                   /\ x.name = <<"cephfs">> /\ d = Imp!FsClassOf(e)
  <2>1. Imp!Plan(e)[k].object.kind = "StorageClass"
    BY <1>1, <1>4
  <2>2. /\ \A j \in DOMAIN Imp!Before(e) :
              j \in DOMAIN Imp!Plan(e) /\ Imp!Plan(e)[j] = Imp!Before(e)[j]
        /\ \A h \in DOMAIN Imp!Plan(e) : Imp!Plan(e)[h].object.kind = "StorageClass" =>
              /\ \E l \in DOMAIN Imp!StorageClasses(e) :
                    Imp!Plan(e)[h] = Imp!StorageClasses(e)[l]
              /\ \A j \in DOMAIN Imp!Before(e) : j < h
    BY OsdAssumption, Imp!PlanSplits DEF Imp!PlanSplits
  <2>3. e.radosNs = Unset
    <3> SUFFICES ASSUME e.radosNs # Unset PROVE FALSE
      OBVIOUS
    <3>1. \E j \in DOMAIN Imp!Before(e) : Imp!Before(e)[j].step = "wait"
      BY OsdAssumption, Imp!WaitImported DEF Imp!WaitImported
    <3> QED
      BY <1>1, <1>2, <2>1, <2>2, <3>1
  <2>4. PICK l \in DOMAIN Imp!StorageClasses(e) : Imp!Plan(e)[k] = Imp!StorageClasses(e)[l]
    BY <1>1, <2>1, <2>2
  <2>5. \/ /\ e.pool # Unset
           /\ Imp!StorageClasses(e)[l].object
                = Imp!Object(Unset, "StorageClass", <<"ceph-rbd">>)
           /\ Imp!StorageClasses(e)[l].data = Imp!RbdClassOf(e)
        \/ /\ e.fs # Unset /\ e.fsPool # Unset
           /\ Imp!StorageClasses(e)[l].object
                = Imp!Object(Unset, "StorageClass", <<"cephfs">>)
           /\ Imp!StorageClasses(e)[l].data = Imp!FsClassOf(e)
    BY OsdAssumption, Imp!ClassesOf DEF Imp!ClassesOf
  <2>6. \/ /\ e.pool # Unset
           /\ x.name = <<"ceph-rbd">> /\ d = Imp!RbdClassOf(e)
        \/ /\ e.fs # Unset /\ e.fsPool # Unset
           /\ x.name = <<"cephfs">> /\ d = Imp!FsClassOf(e)
    BY <1>1, <2>4, <2>5 DEF Imp!Object
  <2>7. \A s \in d.secrets : IsCsiSecret(s)
    <3>1. \A c : IsCsiSecret(Imp!CsiSecret(e, c))
      BY DEF Imp!CsiSecret, Imp!Object, IsCsiSecret
    <3> QED
      BY <2>6, <3>1 DEF Imp!RbdClassOf, Imp!FsClassOf
  <2> QED
    BY <2>3, <2>6, <2>7
<1> QED
  BY <1>3, <1>4 DEF e

LEMMA ImportMove ==
    ASSUME AllInv, NEW i \in ImportRun, ImportStep(i)
    PROVE  AllInv' /\ (Promise!Next \/ UNCHANGED Mapped)
<1>1. ipc[i] # "idle" /\ UNCHANGED vars /\ (Imp!Step(i) \/ Imp!Abort(i))
  BY SameStep DEF ImportStep
<1>2. Imp!IInv' /\ Imp!Grows
  BY <1>1, OsdAssumption, Imp!RunInv DEF Imp!RunInv, AllInv
<1>3. /\ UNCHANGED env /\ \E stage, k : Imp!Goto(i, stage, k)
      /\ \/ UNCHANGED objects
         \/ /\ ipc[i] = "create" /\ Imp!Current(i).object \notin DOMAIN objects
            /\ objects' = Imp!With(Imp!Current(i).object, Imp!Current(i).data)
  BY <1>1, OsdAssumption, Imp!RunMoves DEF Imp!RunMoves
<1>4. \A j \in ImportRun \ {i} : ipc'[j] = ipc[j]
  BY <1>3 DEF Imp!Goto, AllInv, Imp!IInv
<1>5. ASSUME NEW j \in ImportRun, ipc'[j] # "idle" PROVE EnvOK(env[j])'
  <2>1. EnvOK(env[j])
    BY <1>1, <1>4, <1>5 DEF AllInv
  <2> QED
    BY <1>1, <1>3, <2>1 DEF EnvOK, Owned, vars
<1>6. AllInv'
  BY <1>1, <1>2, <1>3, <1>5, ProviderStays DEF AllInv
<1>7. CASE UNCHANGED objects
  BY <1>1, <1>6, <1>7, ProviderStays, SameObjects DEF Mapped
<1>8. CASE /\ ipc[i] = "create" /\ Imp!Current(i).object \notin DOMAIN objects
           /\ objects' = Imp!With(Imp!Current(i).object, Imp!Current(i).data)
  <2> DEFINE x == Imp!Current(i).object
             d == Imp!Current(i).data
  <2>1. /\ IsCsiSecret(x) => Owned(d)
        /\ x.kind = "StorageClass" => \A o \in d.secrets : IsCsiSecret(o)
    BY <1>8, NextObject
  <2> HIDE DEF x, d
  <2>2. ASSUME x.kind = "StorageClass", NEW o \in d.secrets PROVE o \in CsiSecretsIn
    <3>1. DOMAIN objects' = DOMAIN objects \cup {x} /\ objects'[x] = d
      BY <1>8 DEF Imp!With, x, d
    <3>2. o \in DOMAIN objects'
      BY <1>2, <2>2, <3>1 DEF Imp!IInv, Imp!ClassesBacked
    <3>3. IsCsiSecret(o) /\ o # x
      BY <2>1, <2>2 DEF IsCsiSecret
    <3> QED
      BY <3>1, <3>2, <3>3 DEF CsiSecretsIn
  <2>3. x \notin DOMAIN objects /\ objects' = Imp!With(x, d) /\ UNCHANGED auth
    BY <1>1, <1>8 DEF vars, x, d
  <2>4. Promise!Next \/ UNCHANGED Mapped
    BY <2>1, <2>2, <2>3, AddedObject
  <2> QED
    BY <1>6, <2>4
<1> QED
  BY <1>3, <1>6, <1>7, <1>8

LEMMA AllStep ==
    ASSUME DefaultChecker17, AllInv, [AllNext]_allVars
    PROVE  AllInv' /\ (Promise!Next \/ UNCHANGED Mapped)
<1>1. CASE Export
  BY <1>1, ExportMove DEF Export
<1>2. CASE \E i \in ImportRun : Begin(i) \/ ImportStep(i)
  BY <1>2, BeginStep, ImportMove
<1>3. CASE UNCHANGED allVars
  <2>1. [Next]_vars /\ UNCHANGED consumer
    BY <1>3 DEF allVars
  <2> QED
    BY <2>1, ExportMove
<1> QED
  BY <1>1, <1>2, <1>3 DEF AllNext

\* Exports, upgrades and imports, overlapping and dying anywhere, keep what they
\* promise to the consumer: users get keys of their own and keep them, a CSI
\* secret appears with a user and its key, a storage class with its secrets, and
\* nothing is changed or taken away.
THEOREM PromiseKept ==
    ASSUME DefaultChecker17
    PROVE  AllSpec => KeepsPromise
<1>1. AllInit => Promise!Init
  BY DEF AllInit, Promise!Init, CsiSecretsIn, ClassesIn
<1>2. AllInv /\ [AllNext]_allVars => AllInv' /\ [Promise!Next]_(Promise!vars)
  BY AllStep, MappedVars
<1> QED
  BY <1>1, <1>2, AllInitInv, PTL DEF AllSpec, KeepsPromise, Promise!Spec

-----------------------------------------------------------------------------
(***************************************************************************)
(* What the users that an export prints can reach.                         *)
(***************************************************************************)

\* Exports do not see the importers: everything proved of CephExport holds here.
LEMMA ProviderSpec == AllSpec => Spec
<1>1. AllInit => Init
  BY DEF AllInit
<1>2. [AllNext]_allVars => [Next]_vars
  BY DEF AllNext, Export, Begin, ImportStep, allVars
<1> QED
  BY <1>1, <1>2, PTL DEF AllSpec, Spec

LEMMA AllAlways ==
    ASSUME DefaultChecker17
    PROVE  AllSpec => []AllInv
<1>1. AllInv /\ [AllNext]_allVars => AllInv'
  BY AllStep
<1> QED
  BY <1>1, AllInitInv, PTL DEF AllSpec

\* The name of a user confined to a pool has more than its base word.
LEMMA ConfinedName ==
    ASSUME NEW b \in RbdBases, NEW f \in Flags, f.restricted, Accepts(b, f)
    PROVE  ~IsDefaultName(EntityOf(b, f))
<1> DEFINE shown == IF f.alias = Unset THEN f.pool ELSE f.alias
           T == Word \cup Bases
<1>1. f.cluster \in Seq(T) /\ shown \in Seq(T) /\ f.ns \in Seq(T)
  BY SeqMonotonic DEF Flags, Name
<1>2. Len(f.cluster) \in Nat \ {0}
  BY <1>1, EmptySeq DEF Accepts, RbdBases, Unset
<1>3. <<b>> \in Seq(T) /\ Len(<<b>>) = 1
  BY DEF RbdBases, Bases, CsiBases
<1> DEFINE s == <<b>>
<1> HIDE DEF s, shown, T
<1>4. s \o f.cluster \in Seq(T) /\ Len(s \o f.cluster) \in Nat /\ Len(s \o f.cluster) > 1
  BY <1>1, <1>2, <1>3, Joined DEF s
<1>5. /\ (s \o f.cluster) \o shown \in Seq(T)
      /\ Len((s \o f.cluster) \o shown) \in Nat /\ Len((s \o f.cluster) \o shown) > 1
  BY <1>1, <1>4, Joined
<1> DEFINE t == (s \o f.cluster) \o shown
<1>6. Len(((s \o f.cluster) \o shown) \o f.ns) > 1
  <2>1. t \in Seq(T) /\ Len(t) \in Nat /\ Len(t) > 1
    BY <1>5
  <2> HIDE DEF t
  <2>2. Len(t \o f.ns) = Len(t) + Len(f.ns) /\ Len(f.ns) \in Nat
    BY <1>1, <2>1, Joined
  <2>3. Len(t \o f.ns) > 1
    BY <2>1, <2>2
  <2> QED
    BY <2>3 DEF t
<1>7. RbdName(b, f) = (s \o f.cluster) \o shown
  BY DEF RbdName, s, shown
<1>8. Len(EntityOf(b, f)) > 1
  BY <1>5, <1>6, <1>7 DEF EntityOf, RbdEntity, RbdEntity17, RbdBases
<1>9. Len(EntityOf(b, f)) # 1
  <2> DEFINE n == Len(EntityOf(b, f))
  <2>1. n > 1
    BY <1>8
  <2> HIDE DEF n
  <2>2. n # 1
    BY <2>1
  <2> QED
    BY <2>2 DEF n
<1> QED
  BY <1>9 DEF IsDefaultName

\* A printed credential fits its export, and its user exists.
LEMMA CredFits ==
    ASSUME IInv, CredInv, SuffInv, NEW r \in Run, NEW b, Collected(mem[r], b)
    PROVE  \E c : /\ c.base = b /\ Fits(c, mem[r].args) /\ c.user \in DOMAIN auth
                  /\ Cred(mem[r], b).name = c.user
                  /\ Cred(mem[r], b) # NoCred
<1> DEFINE c == CHOOSE x \in mem[r].creds : x.base = b
<1>1. Cred(mem[r], b) = [name |-> c.user, key |-> <<c.key>>]
  BY DEF Cred, Collected
<1>2. c \in mem[r].creds /\ c.base = b
  BY DEF Collected
<1> HIDE DEF c
<1>3. c.user \in DOMAIN auth /\ c.user # << >>
  BY <1>2 DEF CredInv, IInv, TypeOK, User
<1>4. Fits(c, mem[r].args)
  BY <1>2 DEF SuffInv, SuffOK
<1> QED
  BY <1>1, <1>2, <1>3, <1>4 DEF NoCred, Unset

\* An RBD user reaches the pool of its export, in the export's RADOS namespace;
\* one with a default name reaches every pool.
LEMMA RbdReached ==
    ASSUME NamesTellApart, IInv, CredInv, SuffInv, NEW r \in Run, NEW b \in RbdBases,
           Collected(mem[r], b), NEW kinds, "profile rbd" \in kinds,
           NEW pool, NEW ns, NEW ec,
           ec = Unset => /\ pool = mem[r].args.pool
                         /\ mem[r].args.restricted => NsOf(mem[r].args) \in {Unset, ns}
    PROVE  Reaches(Cred(mem[r], b).name, kinds, pool, ns, ec)
<1> DEFINE f == mem[r].args
           user == Cred(mem[r], b).name
<1>1. \E c : c.base = b /\ Fits(c, f) /\ c.user \in DOMAIN auth /\ user = c.user
  <2>1. \E c : /\ c.base = b /\ Fits(c, mem[r].args) /\ c.user \in DOMAIN auth
               /\ Cred(mem[r], b).name = c.user /\ Cred(mem[r], b) # NoCred
    BY CredFits
  <2> QED
    BY <2>1, Zenon
<1> HIDE DEF user, f
<1> PICK c : c.base = b /\ Fits(c, f) /\ c.user \in DOMAIN auth /\ user = c.user
  BY <1>1
<1>2. user = EntityOf(b, f) /\ Accepts(b, f) /\ f \in Flags
  BY <1>1, SettledType DEF Fits
<1>3. CASE user \in LegacyUsers
  BY <1>3 DEF Reaches, user
<1>4. CASE user \notin LegacyUsers
  <2>1. CapsLeq(CapsOf(b, f), auth[user].caps)
    BY <1>1, <1>4, FittingUser
  <2>2. CapsOf(b, f)["osd"] = RbdOsdOf(f)
    BY DEF CapsOf, RbdNodeCaps, RbdProvisionerCaps, CapsOn, Daemons, RbdBases
  <2>3. RbdOsdOf(f) \subseteq auth[user].caps["osd"]
    BY <2>1, <2>2 DEF CapsLeq, Daemons
  <2>4. CASE ~f.restricted
    <3> DEFINE p == [kind |-> "profile rbd", on |-> Unset, ns |-> Unset]
    <3>1. p \in RbdOsdOf(f)
      BY <2>4 DEF RbdOsdOf, RbdOsd, RbdOsd17, Allow
    <3>2. p.kind = "profile rbd" /\ p.on = Unset /\ p.ns = Unset
      OBVIOUS
    <3> HIDE DEF p
    <3>3. Covers(user, kinds, pool, ns)
      BY <2>3, <3>1, <3>2 DEF Covers
    <3> QED
      BY <3>3 DEF Reaches, user
  <2>5. CASE f.restricted /\ ec # Unset
    <3>1. ~IsDefaultName(user)
      BY <1>2, <2>5, ConfinedName
    <3> QED
      BY <2>5, <3>1 DEF Reaches, user
  <2>6. CASE f.restricted /\ ec = Unset
    <3> DEFINE p == [kind |-> "profile rbd", on |-> f.pool, ns |-> NsOf(f)]
    <3>1. p \in RbdOsdOf(f)
      BY <2>6 DEF RbdOsdOf, RbdOsd, RbdOsd17, AllowOn, NsOf
    <3>2. p.kind = "profile rbd" /\ p.on = f.pool /\ p.ns = NsOf(f)
      OBVIOUS
    <3>3. pool = f.pool /\ NsOf(f) \in {Unset, ns}
      BY <2>6 DEF f
    <3> HIDE DEF p
    <3>4. Covers(user, kinds, pool, ns)
      BY <2>3, <3>1, <3>2, <3>3 DEF Covers
    <3> QED
      BY <3>4 DEF Reaches, user
  <2> QED
    BY <2>4, <2>5, <2>6
<1> QED
  BY <1>3, <1>4

\* A CephFS user reaches the file system of its export.
LEMMA CephfsReached ==
    ASSUME NamesTellApart, IInv, CredInv, SuffInv, NEW r \in Run,
           NEW b \in CsiBases \ RbdBases, Collected(mem[r], b),
           NEW kinds, CephfsKinds \subseteq kinds, NEW ec
    PROVE  Reaches(Cred(mem[r], b).name, kinds, mem[r].args.fs, Unset, ec)
<1> DEFINE f == mem[r].args
           user == Cred(mem[r], b).name
<1>1. PICK c : c.base = b /\ Fits(c, f) /\ c.user \in DOMAIN auth /\ user = c.user
  BY CredFits
<1> HIDE DEF user, f
<1>2. CASE user \in LegacyUsers
  BY <1>2 DEF Reaches, user
<1>3. CASE user \notin LegacyUsers
  <2>1. CapsLeq(CapsOf(b, f), auth[user].caps)
    BY <1>1, <1>3, FittingUser
  <2> DEFINE kind == IF b = "csi-cephfs-node" THEN "cephfs *=" ELSE "cephfs metadata="
             p == [kind |-> kind, on |-> CephfsBound(f), ns |-> Unset]
  <2>2. CapsOf(b, f)["osd"] = AllowOn(kind, CephfsBound(f), Unset)
    BY DEF CapsOf, CephfsNodeCaps, CephfsProvisionerCaps, CapsOn, Daemons, RbdBases,
           CsiBases
  <2>3. p \in auth[user].caps["osd"]
    BY <2>1, <2>2 DEF CapsLeq, Daemons, AllowOn
  <2>4. p.kind \in kinds /\ p.on = CephfsBound(f) /\ p.ns = Unset
    BY DEF CephfsKinds
  <2>5. CephfsBound(f) \in {Unset, f.fs}
    BY DEF CephfsBound
  <2> HIDE DEF p, kind
  <2>6. Covers(user, kinds, f.fs, Unset)
    BY <2>3, <2>4, <2>5 DEF Covers
  <2> QED
    BY <2>6 DEF Reaches, user, f
<1> QED
  BY <1>2, <1>3

-----------------------------------------------------------------------------
(***************************************************************************)
(* The JSON output.                                                        *)
(***************************************************************************)
LEMMA JsonIsServed ==
    ASSUME NamesTellApart, IInv, CredInv, ListInv, SuffInv
    PROVE  JsonServed
<1> SUFFICES ASSUME NEW r \in Run, Printed(r), JsonPrinted(mem[r])
             PROVE  /\ \A class \in JsonClasses(mem[r], ecFlag[r]) :
                        \A c \in {class.provisioner, class.node} :
                            /\ c \in JsonSecrets(mem[r])
                            /\ Reaches(c.name, RbdKinds \cup CephfsKinds,
                                       class.pool, class.ns, ecFlag[r])
                    /\ \A c \in JsonSecrets(mem[r]) \cup {JsonCluster(mem[r]).operator} :
                            c.name \in DOMAIN auth /\ <<auth[c.name].key>> = c.key
  BY DEF JsonServed
<1> DEFINE m == mem[r]
           f == m.args
           ec == ecFlag[r]
<1>1. \A b \in UserBasesOf(f) : Collected(m, b)
  BY DEF ListInv, ListOK, Printed, JsonPrinted
<1>2. ASSUME NEW b \in CsiBases, Collected(m, b) PROVE Cred(m, b) \in JsonSecrets(m)
  BY <1>2, CredFits DEF JsonSecrets
<1>3. ASSUME NEW c \in JsonSecrets(m) \cup {JsonCluster(m).operator}
      PROVE  c.name \in DOMAIN auth /\ <<auth[c.name].key>> = c.key
  <2>1. PICK b : c = Cred(m, b) /\ Collected(m, b)
    <3>1. CASE c \in JsonSecrets(m)
      BY <3>1 DEF JsonSecrets, Cred, Collected
    <3>2. CASE c = JsonCluster(m).operator
      <4>1. c = Cred(m, "healthchecker")
        BY <3>2 DEF JsonCluster
      <4> QED
        BY <1>1, <4>1 DEF UserBasesOf
    <3> QED
      BY <1>3, <3>1, <3>2
  <2> QED
    BY <2>1, CredOwned DEF Owned
<1>4. ASSUME NEW class \in JsonClasses(m, ec), NEW c \in {class.provisioner, class.node}
      PROVE  /\ c \in JsonSecrets(m)
             /\ Reaches(c.name, RbdKinds \cup CephfsKinds, class.pool, class.ns, ec)
  <2>1. CASE class \in JsonCephfsClass(m)
    <3>1. f.fs # Unset /\ HasCephfs(f) /\ class.pool = f.fs /\ class.ns = Unset
      BY <2>1 DEF JsonCephfsClass, JsonPrinted
    <3>2. PICK b \in {"csi-cephfs-provisioner", "csi-cephfs-node"} : c = Cred(m, b)
      BY <1>4, <2>1 DEF JsonCephfsClass
    <3>3. Collected(m, b) /\ b \in CsiBases \ RbdBases
      BY <1>1, <3>1, <3>2 DEF UserBasesOf, CsiBases, RbdBases
    <3> QED
      BY <1>2, <3>1, <3>2, <3>3, CephfsReached
  <2>2. CASE class \notin JsonCephfsClass(m)
    <3> DEFINE ns == IF f.release # "ceph-17" /\ f.ns # Unset /\ f.restricted /\ ec = Unset
                     THEN f.ns ELSE Unset
               pool == IF ec = Unset THEN f.pool ELSE ec
    <3>1. class = RbdClass(m, pool, ns)
      BY <1>4, <2>2 DEF JsonClasses, JsonRbdClass17, JsonRbdClass
    <3>2. class.pool = pool /\ class.ns = ns
      BY <3>1 DEF RbdClass
    <3>3. PICK b \in RbdBases : c = Cred(m, b)
      BY <1>4, <3>1 DEF RbdClass, RbdBases
    <3>4. Collected(m, b) /\ b \in CsiBases
      BY <1>1, <3>3 DEF UserBasesOf, CsiBases, RbdBases
    <3>5. "profile rbd" \in RbdKinds \cup CephfsKinds
      BY DEF RbdKinds
    <3>6. ec = Unset => pool = f.pool /\ (f.restricted => NsOf(f) \in {Unset, ns})
      BY DEF NsOf
    <3> HIDE DEF ns, pool
    <3>7. Reaches(Cred(m, b).name, RbdKinds \cup CephfsKinds, pool, ns, ec)
      BY <3>3, <3>4, <3>5, <3>6, RbdReached
    <3> QED
      BY <1>2, <3>2, <3>3, <3>4, <3>7
  <2> QED
    BY <2>1, <2>2
<1> QED
  BY <1>3, <1>4

\* Whoever uses the JSON output reaches what its storage classes are bound to:
\* the output holds the secrets that its classes name, with the keys of users
\* whose capabilities cover the pool and RADOS namespace or the file system, and
\* this stays so, for any exports and upgrades that follow.
THEOREM JsonStaysServed ==
    ASSUME DefaultChecker17, ~ConcurrentUpgrades, NamesTellApart
    PROVE  AllSpec => []JsonServed
<1>1. AllInv /\ SuffInv => JsonServed
  BY JsonIsServed DEF AllInv
<1> QED
  BY <1>1, AllAlways, ProviderSpec, SuffAlways, PTL

-----------------------------------------------------------------------------
(***************************************************************************)
(* The storage classes of the consumer.  The facts that have to survive    *)
(* are stated of an auth database "a" and of the objects "objs".           *)
(***************************************************************************)
ReachesIn(a, user, kinds, pool, ns, ec) ==
    \/ user \in LegacyUsers
    \/ ec # Unset /\ ~IsDefaultName(user)
    \/ \E p \in a[user].caps["osd"] :
          p.kind \in kinds /\ p.on \in {Unset, pool} /\ p.ns \in {Unset, ns}

OwnedIn(a, c) == c.name \in DOMAIN a /\ c.key = <<a[c.name].key>>

\* What ClassServed says of one class.
Serves(a, objs, o) ==
    \A s \in objs[o].secrets :
        /\ s \in DOMAIN objs /\ OwnedIn(a, objs[s])
        /\ o.name = <<"ceph-rbd">> =>
              ReachesIn(a, objs[s].name, RbdKinds, objs[o].pool, Unset, objs[o].dataPool)
        /\ o.name = <<"cephfs">> =>
              ReachesIn(a, objs[s].name, CephfsKinds, objs[o].dataPool, Unset, Unset)

\* The name of a CSI secret is made from the name of its user.
SecretOK(a, objs, o) == o.name = <<"rook", objs[o].name>> /\ OwnedIn(a, objs[o])

\* The users an import is given reach what the classes it may create are for.  It
\* creates none if it has to wait for a RADOS namespace.
EnvReach(a, e) ==
    /\ e.pool # Unset /\ e.radosNs = Unset =>
          \A c \in {e.rbdNode, e.rbdProvisioner} :
              ReachesIn(a, c.name, RbdKinds, Imp!RbdClassOf(e).pool, Unset,
                        Imp!RbdClassOf(e).dataPool)
    /\ e.fs # Unset /\ e.fsPool # Unset =>
          \A c \in {e.fsNode, e.fsProvisioner} :
              ReachesIn(a, c.name, CephfsKinds, e.fs, Unset, Unset)

ServedInv ==
    /\ \A i \in ImportRun : ipc[i] # "idle" => EnvReach(auth, env[i])
    /\ \A o \in CsiSecretsIn : SecretOK(auth, objects, o)
    /\ \A o \in ClassesIn : Serves(auth, objects, o)

\* Users keep their keys and capabilities, objects stay what they are.
Kept(a, b) ==
    \A u \in DOMAIN a : /\ u \in DOMAIN b /\ b[u].key = a[u].key
                        /\ CapsLeq(a[u].caps, b[u].caps)
Grown(x, y) == \A o \in DOMAIN x : o \in DOMAIN y /\ y[o] = x[o]

LEMMA ReachesKept ==
    ASSUME NEW a, NEW b, Kept(a, b), NEW user \in DOMAIN a,
           NEW kinds, NEW pool, NEW ns, NEW ec, ReachesIn(a, user, kinds, pool, ns, ec)
    PROVE  ReachesIn(b, user, kinds, pool, ns, ec)
BY DEF ReachesIn, Kept, CapsLeq, Daemons

LEMMA ServesKept ==
    ASSUME NEW a, NEW b, Kept(a, b), NEW x, NEW y, Grown(x, y), NEW o \in DOMAIN x
    PROVE  /\ Serves(a, x, o) => Serves(b, y, o)
           /\ SecretOK(a, x, o) => SecretOK(b, y, o)
<1>1. ASSUME NEW c, OwnedIn(a, c) PROVE OwnedIn(b, c) /\ c.name \in DOMAIN a
  BY <1>1 DEF OwnedIn, Kept
<1>2. y[o] = x[o] /\ \A s \in DOMAIN x : s \in DOMAIN y /\ y[s] = x[s]
  BY DEF Grown
<1>3. ASSUME Serves(a, x, o), NEW s \in y[o].secrets
      PROVE  /\ s \in DOMAIN y /\ OwnedIn(b, y[s])
             /\ o.name = <<"ceph-rbd">> =>
                  ReachesIn(b, y[s].name, RbdKinds, y[o].pool, Unset, y[o].dataPool)
             /\ o.name = <<"cephfs">> =>
                  ReachesIn(b, y[s].name, CephfsKinds, y[o].dataPool, Unset, Unset)
  <2>1. /\ s \in DOMAIN x /\ OwnedIn(a, x[s])
        /\ o.name = <<"ceph-rbd">> =>
              ReachesIn(a, x[s].name, RbdKinds, x[o].pool, Unset, x[o].dataPool)
        /\ o.name = <<"cephfs">> =>
              ReachesIn(a, x[s].name, CephfsKinds, x[o].dataPool, Unset, Unset)
    BY <1>2, <1>3 DEF Serves
  <2>2. s \in DOMAIN y /\ y[s] = x[s] /\ OwnedIn(b, x[s]) /\ x[s].name \in DOMAIN a
    BY <1>1, <1>2, <2>1
  <2>3. o.name = <<"ceph-rbd">> =>
              ReachesIn(b, x[s].name, RbdKinds, x[o].pool, Unset, x[o].dataPool)
    BY <2>1, <2>2, ReachesKept
  <2>4. o.name = <<"cephfs">> =>
              ReachesIn(b, x[s].name, CephfsKinds, x[o].dataPool, Unset, Unset)
    BY <2>1, <2>2, ReachesKept
  <2> QED
    BY <1>2, <2>2, <2>3, <2>4
<1>4. SecretOK(a, x, o) => SecretOK(b, y, o)
  BY <1>1, <1>2 DEF SecretOK
<1> QED
  BY <1>3, <1>4 DEF Serves

LEMMA EnvKept ==
    ASSUME NEW a, NEW b, Kept(a, b), NEW e, EnvReach(a, e), Imp!ClassUsersGiven(e),
           \A c \in Imp!CsiUsers(e) : Imp!Given(c) => OwnedIn(a, c)
    PROVE  EnvReach(b, e)
<1>1. ASSUME e.pool # Unset, e.radosNs = Unset, NEW c \in {e.rbdNode, e.rbdProvisioner}
      PROVE  ReachesIn(b, c.name, RbdKinds, Imp!RbdClassOf(e).pool, Unset,
                       Imp!RbdClassOf(e).dataPool)
  <2>1. c.name \in DOMAIN a
    BY <1>1 DEF Imp!ClassUsersGiven, Imp!CsiUsers, OwnedIn
  <2>2. ReachesIn(a, c.name, RbdKinds, Imp!RbdClassOf(e).pool, Unset,
                  Imp!RbdClassOf(e).dataPool)
    BY <1>1 DEF EnvReach
  <2> QED
    BY <2>1, <2>2, ReachesKept
<1>2. ASSUME e.fs # Unset, e.fsPool # Unset, NEW c \in {e.fsNode, e.fsProvisioner}
      PROVE  ReachesIn(b, c.name, CephfsKinds, e.fs, Unset, Unset)
  <2>1. c.name \in DOMAIN a
    BY <1>2 DEF Imp!ClassUsersGiven, Imp!CsiUsers, OwnedIn
  <2>2. ReachesIn(a, c.name, CephfsKinds, e.fs, Unset, Unset)
    BY <1>2 DEF EnvReach
  <2> QED
    BY <2>1, <2>2, ReachesKept
<1> QED
  BY <1>1, <1>2 DEF EnvReach

\* An export prints users that reach what its variables ask a class for.
LEMMA ShellOutReach ==
    ASSUME NamesTellApart, IInv, CredInv, ListInv, SuffInv, NEW r \in Run,
           Printed(r), ~mem[r].args.dryRun, NEW ec, NEW n
    PROVE  EnvReach(auth, ShellOut(mem[r], ec, n))
<1> DEFINE e == ShellOut(mem[r], ec, n)
           f == mem[r].args
<1>1. /\ e.rbdNode = Cred(mem[r], "csi-rbd-node")
      /\ e.rbdProvisioner = Cred(mem[r], "csi-rbd-provisioner")
      /\ e.fsNode = Cred(mem[r], "csi-cephfs-node")
      /\ e.fsProvisioner = Cred(mem[r], "csi-cephfs-provisioner")
      /\ e.pool = f.pool /\ e.fs = f.fs /\ e.fsPool = f.dataPool
      /\ e.radosNs = f.ns /\ e.ecPool = ec
  BY DEF ShellOut
<1> HIDE DEF e
<1>2. /\ Imp!RbdClassOf(e).pool = (IF ec = Unset THEN f.pool ELSE ec)
      /\ Imp!RbdClassOf(e).dataPool = (IF ec = Unset THEN Unset ELSE f.pool)
  BY <1>1 DEF Imp!RbdClassOf
<1>3. \A b \in UserBasesOf(f) : Collected(mem[r], b)
  BY DEF ListInv, ListOK, Printed
<1>4. ASSUME NEW user, NEW kinds, NEW pool, NEW meta,
             Reaches(user, kinds, pool, Unset, meta)
      PROVE  ReachesIn(auth, user, kinds, pool, Unset, meta)
  BY <1>4 DEF Reaches, Covers, ReachesIn
<1>5. ASSUME f.pool # Unset, f.ns = Unset, NEW b \in RbdBases
      PROVE  ReachesIn(auth, Cred(mem[r], b).name, RbdKinds, Imp!RbdClassOf(e).pool,
                       Unset, Imp!RbdClassOf(e).dataPool)
  <2> DEFINE pool == Imp!RbdClassOf(e).pool
             meta == Imp!RbdClassOf(e).dataPool
  <2>1. Collected(mem[r], b) /\ "profile rbd" \in RbdKinds
    BY <1>3 DEF UserBasesOf, RbdBases, RbdKinds
  <2>2. meta = Unset => /\ pool = f.pool
                        /\ f.restricted => NsOf(f) \in {Unset, Unset}
    BY <1>2, <1>5 DEF NsOf
  <2> HIDE DEF pool, meta
  <2>3. Reaches(Cred(mem[r], b).name, RbdKinds, pool, Unset, meta)
    BY <2>1, <2>2, RbdReached
  <2> QED
    BY <1>4, <2>3 DEF pool, meta
<1>6. ASSUME f.fs # Unset, f.dataPool # Unset, NEW b \in CsiBases \ RbdBases
      PROVE  ReachesIn(auth, Cred(mem[r], b).name, CephfsKinds, f.fs, Unset, Unset)
  <2>1. Collected(mem[r], b)
    BY <1>3, <1>6 DEF UserBasesOf, RbdBases, CsiBases, HasCephfs
  <2>2. Reaches(Cred(mem[r], b).name, CephfsKinds, f.fs, Unset, Unset)
    BY <2>1, CephfsReached
  <2> QED
    BY <1>4, <2>2
<1>7. /\ "csi-rbd-node" \in RbdBases /\ "csi-rbd-provisioner" \in RbdBases
      /\ "csi-cephfs-node" \in CsiBases \ RbdBases
      /\ "csi-cephfs-provisioner" \in CsiBases \ RbdBases
  BY DEF CsiBases, RbdBases
<1>8. e.pool # Unset /\ e.radosNs = Unset =>
          \A c \in {e.rbdNode, e.rbdProvisioner} :
              ReachesIn(auth, c.name, RbdKinds, Imp!RbdClassOf(e).pool, Unset,
                        Imp!RbdClassOf(e).dataPool)
  BY <1>1, <1>5, <1>7
<1>9. e.fs # Unset /\ e.fsPool # Unset =>
          \A c \in {e.fsNode, e.fsProvisioner} :
              ReachesIn(auth, c.name, CephfsKinds, e.fs, Unset, Unset)
  BY <1>1, <1>6, <1>7
<1> QED
  BY <1>8, <1>9 DEF EnvReach, e

\* A class that is created now: the secrets it names are there.
LEMMA ClassServes ==
    ASSUME NEW a, NEW objs, NEW e, EnvReach(a, e), e.radosNs = Unset,
           NEW x \in DOMAIN objs,
           \/ /\ e.pool # Unset
              /\ x.name = <<"ceph-rbd">> /\ objs[x] = Imp!RbdClassOf(e)
           \/ /\ e.fs # Unset /\ e.fsPool # Unset
              /\ x.name = <<"cephfs">> /\ objs[x] = Imp!FsClassOf(e),
           \A s \in objs[x].secrets : s \in DOMAIN objs /\ SecretOK(a, objs, s)
    PROVE  Serves(a, objs, x)
<1> SUFFICES ASSUME NEW s \in objs[x].secrets
             PROVE  /\ s \in DOMAIN objs /\ OwnedIn(a, objs[s])
                    /\ x.name = <<"ceph-rbd">> =>
                         ReachesIn(a, objs[s].name, RbdKinds, objs[x].pool, Unset,
                                   objs[x].dataPool)
                    /\ x.name = <<"cephfs">> =>
                         ReachesIn(a, objs[s].name, CephfsKinds, objs[x].dataPool,
                                   Unset, Unset)
  BY DEF Serves
<1>1. /\ s \in DOMAIN objs /\ OwnedIn(a, objs[s]) /\ s.name = <<"rook", objs[s].name>>
  BY DEF SecretOK
<1>2. ASSUME NEW c, s = Imp!CsiSecret(e, c) PROVE objs[s].name = c.name
  BY <1>1, <1>2 DEF Imp!CsiSecret, Imp!Object
<1>3. <<"ceph-rbd">> # <<"cephfs">>
  OBVIOUS
<1>4. CASE /\ e.pool # Unset
           /\ x.name = <<"ceph-rbd">> /\ objs[x] = Imp!RbdClassOf(e)
  <2>1. PICK c \in {e.rbdNode, e.rbdProvisioner} : s = Imp!CsiSecret(e, c)
    BY <1>4 DEF Imp!RbdClassOf
  <2>2. ReachesIn(a, c.name, RbdKinds, objs[x].pool, Unset, objs[x].dataPool)
    BY <1>4 DEF EnvReach
  <2> QED
    BY <1>1, <1>2, <1>3, <1>4, <2>1, <2>2
<1>5. CASE /\ e.fs # Unset /\ e.fsPool # Unset
           /\ x.name = <<"cephfs">> /\ objs[x] = Imp!FsClassOf(e)
  <2>1. PICK c \in {e.fsNode, e.fsProvisioner} : s = Imp!CsiSecret(e, c)
    BY <1>5 DEF Imp!FsClassOf
  <2>2. ReachesIn(a, c.name, CephfsKinds, objs[x].dataPool, Unset, Unset)
    <3>1. objs[x].dataPool = e.fs
      BY <1>5 DEF Imp!FsClassOf
    <3> QED
      BY <1>5, <3>1 DEF EnvReach
  <2> QED
    BY <1>1, <1>2, <1>3, <1>5, <2>1, <2>2
<1> QED
  BY <1>4, <1>5

LEMMA AuthKept ==
    ASSUME IInv, SeenInv, [Next]_vars
    PROVE  Kept(auth, auth')
<1>1. CASE UNCHANGED vars
  BY <1>1, CapsLeqReflexive DEF vars, Kept
<1>2. ASSUME NEW r \in Run, Act(r) PROVE Kept(auth, auth')
  BY <1>2, CapsKept, KeysKept DEF Kept
<1> QED
  BY <1>1, <1>2 DEF Next, Act

\* A step that adds no object to the consumer and starts no import.
LEMMA ServedQuietly ==
    ASSUME AllInv, ServedInv, Kept(auth, auth'), UNCHANGED objects,
           \A i \in ImportRun : ipc'[i] # "idle" => ipc[i] # "idle" /\ env'[i] = env[i]
    PROVE  ServedInv'
<1>1. CsiSecretsIn' = CsiSecretsIn /\ ClassesIn' = ClassesIn /\ Grown(objects, objects')
  BY DEF CsiSecretsIn, ClassesIn, Grown
<1>2. \A o \in CsiSecretsIn \cup ClassesIn : o \in DOMAIN objects
  BY DEF CsiSecretsIn, ClassesIn
<1>3. \A o \in CsiSecretsIn : SecretOK(auth', objects', o)
  BY <1>1, <1>2, ServesKept DEF ServedInv
<1>4. \A o \in ClassesIn : Serves(auth', objects', o)
  BY <1>1, <1>2, ServesKept DEF ServedInv
<1>5. ASSUME NEW i \in ImportRun, ipc'[i] # "idle" PROVE EnvReach(auth', env'[i])
  <2>1. EnvReach(auth, env[i]) /\ EnvOK(env[i]) /\ env'[i] = env[i]
    BY <1>5 DEF ServedInv, AllInv
  <2>2. \A c \in Imp!CsiUsers(env[i]) : Imp!Given(c) => OwnedIn(auth, c)
    BY <2>1 DEF EnvOK, Owned, OwnedIn
  <2> QED
    BY <2>1, <2>2, EnvKept DEF EnvOK
<1> QED
  BY <1>1, <1>3, <1>4, <1>5 DEF ServedInv

LEMMA ServedBegin ==
    ASSUME NamesTellApart, AllInv, SuffInv, ServedInv, NEW i \in ImportRun, Begin(i)
    PROVE  ServedInv'
<1>1. PICK r \in Run, n \in ConsumerNamespaces :
        /\ Printed(r) /\ ~mem[r].args.dryRun
        /\ env' = [env EXCEPT ![i] = ShellOut(mem[r], ecFlag[r], n)]
  BY DEF Begin
<1>2. UNCHANGED auth /\ UNCHANGED objects
  BY DEF Begin, vars
<1>3. \A j \in ImportRun \ {i} : ipc'[j] = ipc[j]
  BY DEF Begin, AllInv, Imp!IInv
<1>4. EnvReach(auth, ShellOut(mem[r], ecFlag[r], n))
  BY <1>1, ShellOutReach DEF AllInv
<1> DEFINE e == ShellOut(mem[r], ecFlag[r], n)
<1> HIDE DEF e
<1>5. env'[i] = e /\ \A j \in ImportRun \ {i} : env'[j] = env[j]
  BY <1>1 DEF AllInv, e
<1>6. \A j \in ImportRun : ipc'[j] # "idle" => EnvReach(auth', env'[j])
  BY <1>2, <1>3, <1>4, <1>5 DEF ServedInv, e
<1>7. /\ CsiSecretsIn' = CsiSecretsIn /\ ClassesIn' = ClassesIn
  BY <1>2 DEF CsiSecretsIn, ClassesIn
<1> QED
  BY <1>2, <1>6, <1>7 DEF ServedInv

LEMMA ServedImport ==
    ASSUME AllInv, AllInv', ServedInv, NEW i \in ImportRun, ImportStep(i)
    PROVE  ServedInv'
<1>1. ipc[i] # "idle" /\ UNCHANGED vars /\ (Imp!Step(i) \/ Imp!Abort(i))
  BY SameStep DEF ImportStep
<1>2. /\ UNCHANGED env /\ \E stage, k : Imp!Goto(i, stage, k)
      /\ \/ UNCHANGED objects
         \/ /\ ipc[i] = "create" /\ Imp!Current(i).object \notin DOMAIN objects
            /\ objects' = Imp!With(Imp!Current(i).object, Imp!Current(i).data)
  BY <1>1, OsdAssumption, Imp!RunMoves DEF Imp!RunMoves
<1>3. \A j \in ImportRun : ipc'[j] # "idle" => ipc[j] # "idle" /\ env'[j] = env[j]
  BY <1>1, <1>2 DEF Imp!Goto, AllInv, Imp!IInv
<1>4. UNCHANGED auth /\ Kept(auth, auth')
  BY <1>1, CapsLeqReflexive DEF vars, Kept
<1>5. CASE UNCHANGED objects
  BY <1>3, <1>4, <1>5, ServedQuietly
<1>6. CASE /\ ipc[i] = "create" /\ Imp!Current(i).object \notin DOMAIN objects
           /\ objects' = Imp!With(Imp!Current(i).object, Imp!Current(i).data)
  <2> DEFINE x == Imp!Current(i).object
             d == Imp!Current(i).data
             e == env[i]
  <2>1. /\ IsCsiSecret(x) => x.name = <<"rook", d.name>> /\ Owned(d)
        /\ x.kind = "StorageClass" =>
                /\ e.radosNs = Unset
                /\ \A s \in d.secrets : IsCsiSecret(s)
                /\ \/ /\ e.pool # Unset
                      /\ x.name = <<"ceph-rbd">> /\ d = Imp!RbdClassOf(e)
                   \/ /\ e.fs # Unset /\ e.fsPool # Unset
                      /\ x.name = <<"cephfs">> /\ d = Imp!FsClassOf(e)
    BY <1>6, NextObject
  <2>2. x \notin DOMAIN objects /\ objects' = Imp!With(x, d) /\ EnvReach(auth, e)
    BY <1>1, <1>6 DEF ServedInv
  <2> HIDE DEF x, d, e
  <2>3. /\ DOMAIN objects' = DOMAIN objects \cup {x} /\ objects'[x] = d
        /\ \A o \in DOMAIN objects : objects'[o] = objects[o]
    BY <2>2 DEF Imp!With
  <2>4. Grown(objects, objects')
    BY <2>3 DEF Grown
  <2>5. ASSUME NEW o \in CsiSecretsIn' PROVE SecretOK(auth', objects', o)
    <3>1. CASE o = x
      BY <1>4, <2>1, <2>3, <2>5, <3>1 DEF SecretOK, Owned, OwnedIn, CsiSecretsIn
    <3>2. CASE o # x
      <4>1. o \in CsiSecretsIn /\ o \in DOMAIN objects
        BY <2>3, <2>5, <3>2 DEF CsiSecretsIn
      <4> QED
        BY <1>4, <2>4, <4>1, ServesKept DEF ServedInv
    <3> QED
      BY <3>1, <3>2
  <2>6. ASSUME NEW o \in ClassesIn' PROVE Serves(auth', objects', o)
    <3>1. CASE o = x
      <4>1. x.kind = "StorageClass" /\ x \in DOMAIN objects'
        BY <2>3, <2>6, <3>1 DEF ClassesIn
      <4>2. \A s \in objects'[x].secrets : s \in DOMAIN objects'
        BY <4>1 DEF AllInv, Imp!IInv, Imp!ClassesBacked
      <4>3. \A s \in objects'[x].secrets : SecretOK(auth', objects', s)
        BY <2>1, <2>3, <2>5, <4>1, <4>2 DEF CsiSecretsIn
      <4>4. EnvReach(auth', e)
        BY <1>4, <2>2
      <4> QED
        BY <2>1, <2>3, <3>1, <4>1, <4>2, <4>3, <4>4, ClassServes
    <3>2. CASE o # x
      <4>1. o \in ClassesIn /\ o \in DOMAIN objects
        BY <2>3, <2>6, <3>2 DEF ClassesIn
      <4> QED
        BY <1>4, <2>4, <4>1, ServesKept DEF ServedInv
    <3> QED
      BY <3>1, <3>2
  <2>7. \A j \in ImportRun : ipc'[j] # "idle" => EnvReach(auth', env'[j])
    BY <1>3, <1>4 DEF ServedInv
  <2> QED
    BY <2>5, <2>6, <2>7 DEF ServedInv
<1> QED
  BY <1>2, <1>5, <1>6

LEMMA ServedStep ==
    ASSUME NamesTellApart, AllInv, AllInv', SeenInv, SuffInv, ServedInv,
           [AllNext]_allVars
    PROVE  ServedInv'
<1>1. ASSUME [Next]_vars, UNCHANGED consumer PROVE ServedInv'
  <2>1. Kept(auth, auth')
    BY <1>1, AuthKept DEF AllInv
  <2> QED
    BY <1>1, <2>1, ServedQuietly DEF consumer
<1>2. CASE Export
  BY <1>1, <1>2 DEF Export
<1>3. CASE UNCHANGED allVars
  BY <1>1, <1>3 DEF allVars
<1> QED
  BY <1>2, <1>3, ServedBegin, ServedImport DEF AllNext

LEMMA ServedInitially == AllInit => ServedInv
<1> SUFFICES ASSUME AllInit PROVE ServedInv
  OBVIOUS
<1>1. DOMAIN objects = {} /\ \A i \in ImportRun : ipc[i] = "idle"
  BY DEF AllInit
<1> QED
  BY <1>1 DEF ServedInv, CsiSecretsIn, ClassesIn

\* A consumer that uses a storage class of the importer reaches its pool or its
\* file system: the users the class names exist, their secrets hold their keys,
\* and their capabilities cover what the class is for, although a later import
\* finds the class and the secrets of an earlier one, and although exports and
\* upgrades go on behind the consumer's back.
THEOREM ClassesAreServed ==
    ASSUME DefaultChecker17, ~ConcurrentUpgrades, NamesTellApart
    PROVE  AllSpec => []ClassServed
<1>1. ServedInv => ClassServed
  BY DEF ServedInv, Serves, OwnedIn, ClassServed, ReachesIn, Reaches, Covers
<1>2. /\ AllInv /\ AllInv' /\ SeenInv /\ SuffInv /\ ServedInv /\ [AllNext]_allVars
         => ServedInv'
  BY ServedStep
<1> QED
  BY <1>1, <1>2, ServedInitially, AllAlways, ProviderSpec, SuffAlways, PTL DEF AllSpec

=============================================================================
