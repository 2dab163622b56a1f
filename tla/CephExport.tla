----------------------------- MODULE CephExport -----------------------------
(***************************************************************************)
(* Invocations of create-external-cluster-resources.py against one         *)
(* provider Ceph cluster.  The script keeps no state of its own and takes  *)
(* no lock: exports for several consumer clusters, re-runs after a failure *)
(* and upgrades all meet in the monitors' auth database.  A step of this   *)
(* module is at most one command that the script sends to the cluster, so  *)
(* two invocations interleave between any two commands, and an invocation  *)
(* can fail or be killed between any two commands.                         *)
(***************************************************************************)
EXTENDS ExternalUsers

CONSTANTS
    Run,                \* the invocations, each run once
    Invocations,        \* the command lines they are given
    DefaultPrefix,      \* "default", the RGW pool prefix of an export
    Pools,              \* the RBD pools of the provider
    Namespaces,         \* its RADOS namespaces, as <<pool, namespace>>
    FsList,             \* what "fs ls" answers, in order
    LegacyAuth,         \* auth databases an older release left behind
    MaxFaults,          \* how often a lookup may fail although the answer exists
    ConcurrentUpgrades  \* FALSE: operators start one upgrade at a time

ASSUME RunAssumption ==
    /\ Invocations \subseteq Flags /\ Invocations # {}
    /\ DefaultPrefix \in Name \ {Unset}
    /\ Pools \subseteq Name /\ Unset \notin Pools
    /\ Namespaces \subseteq Name \X Name
    /\ FsList \in Seq(FileSystem)
    /\ ConcurrentUpgrades \in BOOLEAN /\ MaxFaults \in Nat

\* An auth database: the key and the capabilities of every user that exists.
AuthEntry == [key : Nat, caps : Caps]

ASSUME LegacyAssumption ==
    \A a \in LegacyAuth :
        /\ DOMAIN a \subseteq User /\ IsFiniteSet(DOMAIN a)
        /\ \A u \in DOMAIN a :
              a[u] \in AuthEntry /\ a[u].key < Cardinality(DOMAIN a)

VARIABLES
    auth,       \* the monitors' auth database
    issued,     \* how many keys the monitors have generated
    poolInit,   \* the RBD pools initialised so far
    groups,     \* the subvolume groups that exist, as <<fs, group>>
    pinned,     \* the subvolume groups with a distributed pin
    faults,     \* how many lookups have failed
    pc,         \* the next command of each invocation
    mem         \* what its process holds in memory

provider == <<auth, issued, poolInit, groups, pinned>>
vars == <<auth, issued, poolInit, groups, pinned, faults, pc, mem>>

Upgrading == {"upgradeGet", "upgradeSet"}
Running == {"pool", "cluster", "userGet", "userCreate", "groupMake",
            "groupPin", "print"} \cup Upgrading
Stages == Running \cup {"idle", "done", "failed"}

\* A collected credential: which user it is for, and the name and the key that
\* are printed for it.
Credential == [base : Bases, user : User, key : Nat]

(***************************************************************************)
(* The memory of an invocation: its flags, which the script rewrites as it *)
(* goes; the users (later the subvolume groups) still to be handled; the   *)
(* capabilities an upgrade has read and not yet written; the credentials   *)
(* in out_map; the users an upgrade reported as "not found".               *)
(***************************************************************************)
Memory == [args : Flags, todo : Seq(Seq(Word \cup Bases)), seen : Caps,
           creds : SUBSET Credential, missing : SUBSET User]

NoCaps == CapsOn({}, {}, {}, {})

Blank == [args |-> CHOOSE f \in Invocations : TRUE, todo |-> << >>,
          seen |-> NoCaps, creds |-> {}, missing |-> {}]

TypeOK ==
    /\ DOMAIN auth \subseteq User
    /\ \A u \in DOMAIN auth : auth[u] \in AuthEntry
    /\ issued \in Nat
    /\ poolInit \subseteq Name
    /\ groups \subseteq Name \X Name
    /\ pinned \subseteq Name \X Name
    /\ faults \in Nat
    /\ pc \in [Run -> Stages]
    /\ mem \in [Run -> Memory]

Init ==
    /\ auth \in LegacyAuth
    /\ issued = Cardinality(DOMAIN auth)
    /\ poolInit = {} /\ groups = {} /\ pinned = {}
    /\ faults = 0
    /\ pc = [r \in Run |-> "idle"]
    /\ mem = [r \in Run |-> Blank]

-----------------------------------------------------------------------------
\* Faulty: an upgrade gets the defaults of an export.
ParsedAlike(f) ==
    [f EXCEPT !.runAs = IF @ = Unset THEN DefaultChecker ELSE @,
              !.prefix = IF @ = Unset THEN DefaultPrefix ELSE @]

\* The flags after the constructor has filled in its defaults.
Parsed(f) ==
    IF f.upgrade THEN f
    ELSE [f EXCEPT !.runAs = IF @ = Unset THEN DefaultChecker ELSE @,
                   !.prefix = IF @ = Unset THEN DefaultPrefix ELSE @]

\* The cluster name an export uses; only Ceph 18 looks at the legacy flag.
ClusterName(f) ==
    LowerName(IF f.release = "ceph-18" /\ f.legacy # Unset
              THEN f.legacy ELSE f.cluster)

HasCephfs(f) == f.fs # Unset /\ f.dataPool # Unset

ExportUsers(f) ==
    <<DefaultChecker, <<"csi-rbd-node">>, <<"csi-rbd-provisioner">>>> \o
    IF HasCephfs(f)
    THEN <<<<"csi-cephfs-node">>, <<"csi-cephfs-provisioner">>>> ELSE << >>

SubvolumeGroups(f) ==
    IF ~HasCephfs(f) THEN << >>
    ELSE <<<<"csi">>>> \o (IF f.group = Unset THEN << >> ELSE <<f.group>>)

UpgradeUsers(f) ==
    <<<<"csi-cephfs-node">>, <<"csi-cephfs-provisioner">>,
      <<"csi-rbd-node">>, <<"csi-rbd-provisioner">>, DefaultChecker>> \o
    IF f.runAs = Unset \/ f.runAs \in DefaultUsers THEN << >> ELSE <<f.runAs>>

\* Go on to a stage with memory m.
Goto(r, stage, m) ==
    /\ pc' = [pc EXCEPT ![r] = stage]
    /\ mem' = [mem EXCEPT ![r] = m]

\* An exception that nobody handles: nothing is printed, the memory is gone.
Fail(r) == Goto(r, "failed", Blank)

\* The outcome of a lookup: answered, or failed although the cluster is there.
Lookup(answered) ==
    /\ ~answered => faults < MaxFaults
    /\ faults' = IF answered THEN faults ELSE faults + 1

\* _check_conflicting_options
Conflicting(f) == ~f.upgrade /\ f.pool = Unset

\* The main program: parse the flags, then upgrade or export.
Start(r) ==
    /\ pc[r] = "idle"
    /\ \E f \in Invocations :
         /\ ~ConcurrentUpgrades /\ f.upgrade =>
               \A s \in Run : pc[s] \notin Upgrading
         /\ LET m == [mem[r] EXCEPT !.args = Parsed(f)] IN
            IF f.upgrade
            THEN Goto(r, "upgradeGet", [m EXCEPT !.todo = UpgradeUsers(f)])
            ELSE IF Conflicting(f) THEN Fail(r) ELSE Goto(r, "pool", m)
    /\ UNCHANGED <<provider, faults>>

\* An exception, a command that fails, or the death of the process.
Abort(r) ==
    /\ pc[r] \in Running
    /\ Fail(r)
    /\ UNCHANGED <<provider, faults>>

-----------------------------------------------------------------------------
(***************************************************************************)
(* An export.                                                              *)
(***************************************************************************)

\* validate_rbd_pool and init_rbd_pool: the pool is initialised, in a dry run
\* too.
InitPool(r) ==
    /\ pc[r] = "pool"
    /\ LET f == mem[r].args IN
       IF f.pool \in Pools
       THEN /\ poolInit' = poolInit \cup {f.pool}
            /\ Goto(r, "cluster", [mem[r] EXCEPT !.args.cluster = ClusterName(f)])
       ELSE Fail(r) /\ UNCHANGED poolInit
    /\ UNCHANGED <<auth, issued, groups, pinned, faults>>

\* The Ceph 17 copy takes any namespace of the pool.
NamespaceOK17(f) == f.ns # Unset => <<f.pool, f.ns>> \in Namespaces

NamespaceOK(f) ==
    f.ns # Unset => LowerName(f.ns) = f.ns /\ <<f.pool, f.ns>> \in Namespaces

NamespaceOKOf(f) ==
    IF f.release = "ceph-17" THEN NamespaceOK17(f) ELSE NamespaceOK(f)

\* The commands that only read: the RADOS namespace, the file systems (skipped
\* in a dry run; a failing "fs ls" matters only if a CephFS flag is set) and
\* the monitors.
ReadCluster(r) ==
    /\ pc[r] = "cluster"
    /\ \E listed \in BOOLEAN :
         /\ Lookup(listed)
         /\ LET f == mem[r].args
                choice == IF f.dryRun \/ ~listed
                    THEN [ok |-> f.dryRun \/ (f.fs = Unset /\ f.dataPool = Unset),
                          fs |-> f.fs, dataPool |-> f.dataPool]
                    ELSE SelectCephfs(FsList, f.fs, f.dataPool)
                chosen == [f EXCEPT !.fs = choice.fs, !.dataPool = choice.dataPool]
            IN  IF NamespaceOKOf(f) /\ choice.ok
                THEN Goto(r, "userGet", [mem[r] EXCEPT !.args = chosen,
                                                  !.todo = ExportUsers(chosen)])
                ELSE Fail(r)
    /\ UNCHANGED provider

\* On to the next user, or to what follows the last one.
NextUser(r, m) ==
    IF Len(m.todo) > 1
    THEN Goto(r, "userGet", [m EXCEPT !.todo = Tail(@)])
    ELSE Goto(r, IF HasCephfs(m.args) THEN "groupMake" ELSE "print",
              [m EXCEPT !.todo = SubvolumeGroups(m.args)])

\* out_map with one more credential.  The checker is printed under run_as_user,
\* a CSI user under the name it was created with.
Collect(m, base, key) ==
    [m EXCEPT !.creds = @ \cup
        {[base |-> base, key |-> key,
          user |-> IF base = "healthchecker" THEN m.args.runAs
                                             ELSE EntityOf(base, m.args)]}]

\* check_user_exist: the key of a user that exists is used as it is, whatever
\* the user's capabilities.  A failing "auth get" counts as "no such user".
\* A dry run sends nothing.
GetUser(r) ==
    /\ pc[r] = "userGet"
    /\ LET base == BaseOf(mem[r].todo[1])
           entity == EntityOf(base, mem[r].args)
       IN  \/ ~Accepts(base, mem[r].args) /\ Fail(r) /\ UNCHANGED faults
           \/ /\ Accepts(base, mem[r].args) /\ mem[r].args.dryRun
              /\ NextUser(r, mem[r])
              /\ UNCHANGED faults
           \/ /\ Accepts(base, mem[r].args) /\ ~mem[r].args.dryRun
              /\ entity \in DOMAIN auth
              /\ NextUser(r, Collect(mem[r], base, auth[entity].key))
              /\ UNCHANGED faults
           \/ /\ Accepts(base, mem[r].args) /\ ~mem[r].args.dryRun
              /\ Lookup(entity \notin DOMAIN auth)
              /\ Goto(r, "userCreate", mem[r])
    /\ UNCHANGED provider

\* "auth get-or-create": the monitors create the user, return the key of one
\* with these very capabilities, or refuse when its capabilities differ.
CreateUser(r) ==
    /\ pc[r] = "userCreate"
    /\ LET base == BaseOf(mem[r].todo[1])
           entity == EntityOf(base, mem[r].args)
           caps == CapsOf(base, mem[r].args)
       IN  \/ /\ entity \notin DOMAIN auth
              /\ auth' = [u \in DOMAIN auth \cup {entity} |->
                            IF u = entity THEN [key |-> issued, caps |-> caps]
                                          ELSE auth[u]]
              /\ issued' = issued + 1
              /\ NextUser(r, Collect(mem[r], base, issued))
           \/ /\ entity \in DOMAIN auth /\ auth[entity].caps = caps
              /\ NextUser(r, Collect(mem[r], base, auth[entity].key))
              /\ UNCHANGED <<auth, issued>>
           \/ /\ entity \in DOMAIN auth /\ auth[entity].caps # caps
              /\ Fail(r)
              /\ UNCHANGED <<auth, issued>>
    /\ UNCHANGED <<poolInit, groups, pinned, faults>>

\* get_or_create_subvolume_group, then pin_subvolume; in a dry run too.
MakeGroup(r) ==
    /\ pc[r] = "groupMake"
    /\ groups' = groups \cup {<<mem[r].args.fs, mem[r].todo[1]>>}
    /\ Goto(r, "groupPin", mem[r])
    /\ UNCHANGED <<auth, issued, poolInit, pinned, faults>>

\* Faulty: only the default group is handled.
PinFirstGroup(r) ==
    /\ pc[r] = "groupPin"
    /\ pinned' = pinned \cup {<<mem[r].args.fs, mem[r].todo[1]>>}
    /\ Goto(r, "print", [mem[r] EXCEPT !.todo = << >>])
    /\ UNCHANGED <<auth, issued, poolInit, groups, faults>>

PinGroup(r) ==
    /\ pc[r] = "groupPin"
    /\ pinned' = pinned \cup {<<mem[r].args.fs, mem[r].todo[1]>>}
    /\ Goto(r, IF Len(mem[r].todo) > 1 THEN "groupMake" ELSE "print",
            [mem[r] EXCEPT !.todo = Tail(@)])
    /\ UNCHANGED <<auth, issued, poolInit, groups, faults>>

\* The monitoring endpoint, the EC pool and the RGW endpoint have been checked
\* (Abort otherwise): out_map is printed.
PrintOutput(r) ==
    /\ pc[r] = "print"
    /\ Goto(r, "done", mem[r])
    /\ UNCHANGED <<provider, faults>>

-----------------------------------------------------------------------------
(***************************************************************************)
(* An upgrade: for every user "auth get", merge, "auth caps".              *)
(***************************************************************************)
NextUpgrade(r, m) ==
    Goto(r, IF Len(m.todo) > 1 THEN "upgradeGet" ELSE "done",
         [m EXCEPT !.todo = Tail(@), !.seen = NoCaps])

\* get_rgw_pool_name_during_upgrade: the prefix that an unset flag is replaced
\* by, taken from the default checker only; it stays set for the users after it.
PrefixChoices(user, f, caps) ==
    IF user = DefaultChecker /\ f.prefix = Unset THEN PrefixesIn(caps)
                                                 ELSE {f.prefix}

\* "auth get": a user that does not exist is skipped, and so is every user when
\* the command fails.
UpgradeGet(r) ==
    /\ pc[r] = "upgradeGet"
    /\ LET user == mem[r].todo[1] IN
       \/ /\ Lookup(user \notin DOMAIN auth)
          /\ NextUpgrade(r, [mem[r] EXCEPT !.missing = @ \cup {user}])
       \/ /\ user \in DOMAIN auth
          /\ \E p \in PrefixChoices(user, mem[r].args, auth[user].caps) :
               LET f == Narrowed(user, [mem[r].args EXCEPT !.prefix = p]) IN
               IF Accepts(BaseOf(user), f)
               THEN Goto(r, "upgradeSet", [mem[r] EXCEPT
                           !.args = f, !.seen = auth[user].caps])
               ELSE Fail(r)
          /\ UNCHANGED faults
       \/ /\ user \in DOMAIN auth
          /\ PrefixChoices(user, mem[r].args, auth[user].caps) = {}
          /\ Fail(r)
          /\ UNCHANGED faults
    /\ UNCHANGED provider

\* "auth caps" replaces all capabilities of the user by the merged ones.
UpgradeSet(r) ==
    /\ pc[r] = "upgradeSet"
    /\ LET user == mem[r].todo[1] IN
       auth' = [auth EXCEPT ![user].caps =
                   MergeCaps(mem[r].seen, CapsOf(BaseOf(user), mem[r].args))]
    /\ NextUpgrade(r, mem[r])
    /\ UNCHANGED <<issued, poolInit, groups, pinned, faults>>

-----------------------------------------------------------------------------
Step(r) ==
    \/ InitPool(r) \/ ReadCluster(r)
    \/ GetUser(r) \/ CreateUser(r)
    \/ MakeGroup(r) \/ PinGroup(r) \/ PrintOutput(r)
    \/ UpgradeGet(r) \/ UpgradeSet(r)

Next == \E r \in Run : Start(r) \/ Step(r) \/ Abort(r)

Spec == Init /\ [][Next]_vars

-----------------------------------------------------------------------------
(***************************************************************************)
(* Names are joined with "-", and "-" is legal in every part: cluster      *)
(* "a-b" with pool "c" and cluster "a" with pool "b-c" share a user.  What *)
(* an export settles on, and the condition that no two exports share a     *)
(* user for which they want different capabilities.                        *)
(***************************************************************************)
Exports == {f \in Invocations : ~f.upgrade /\ ~f.dryRun}

\* The flags after InitPool, and the ways in which ReadCluster may go on.
Renamed(f) == [Parsed(f) EXCEPT !.cluster = ClusterName(Parsed(f))]

FsChoices(f) ==
    {c \in {SelectCephfs(FsList, f.fs, f.dataPool)} : c.ok} \cup
    (IF f.fs = Unset /\ f.dataPool = Unset
     THEN {[ok |-> TRUE, fs |-> Unset, dataPool |-> Unset]} ELSE {})

Settled ==
    UNION {{[Renamed(f) EXCEPT !.fs = c.fs, !.dataPool = c.dataPool] :
              c \in FsChoices(Renamed(f))} : f \in Exports}

NamesTellApart ==
    \A f, g \in Settled, b, c \in Bases :
        Accepts(b, f) /\ Accepts(c, g) /\ EntityOf(b, f) = EntityOf(c, g)
        => CapsOf(b, f) = CapsOf(c, g)

\* Rules for operators under which they do: no part of a name contains a "-" (a
\* name of one word); a pool is shown under one alias that no other pool has; a
\* checker is named as one; exports that share a checker share its RGW pools.
Shown(f) == IF f.alias = Unset THEN f.pool ELSE f.alias

SimpleNames ==
    /\ \A f \in Settled :
         /\ \A part \in {f.cluster, f.pool, f.alias, f.ns, f.fs} : Len(part) <= 1
         /\ BaseOf(EntityOf("healthchecker", f)) = "healthchecker"
    /\ \A f, g \in Settled :
         /\ Shown(f) = Shown(g) => f.pool = g.pool
         /\ EntityOf("healthchecker", f) = EntityOf("healthchecker", g)
               => f.prefix = g.prefix

-----------------------------------------------------------------------------
(***************************************************************************)
(* What the invocations must not do to each other.                         *)
(***************************************************************************)
LegacyUsers == UNION {DOMAIN a : a \in LegacyAuth}

Printed(r) == pc[r] = "done" /\ ~mem[r].args.upgrade

\* Every credential that was printed names a user of the provider and carries
\* that user's key (ROOK_EXTERNAL_USERNAME with ROOK_EXTERNAL_USER_SECRET, and
\* the CSI secrets), whatever other invocations do meanwhile or later.
CredentialsValid ==
    \A r \in Run : Printed(r) =>
        \A c \in mem[r].creds : /\ c.user \in DOMAIN auth
                            /\ auth[c.user].key = c.key

\* A printed CSI or checker credential has every capability its invocation
\* asked for, also when the user had been created by another invocation and
\* check_user_exist took it over.  Users from an older release are exempt:
\* they wait for an upgrade.
CredentialsSuffice ==
    \A r \in Run : Printed(r) =>
        \A c \in mem[r].creds : c.user \in DOMAIN auth \ LegacyUsers =>
            CapsLeq(CapsOf(c.base, mem[r].args), auth[c.user].caps)

\* A user that was created for one pool (its name is not the default one) never
\* holds "profile rbd" on all pools, not even after an upgrade that named it
\* with --run-as-user and without --restricted-auth-permission.
RestrictedConfined ==
    \A u \in DOMAIN auth :
        BaseOf(u) \in {"csi-rbd-node", "csi-rbd-provisioner"} /\ ~IsDefaultName(u)
        => \A p \in auth[u].caps["osd"] : p.kind = "profile rbd" => p.on # Unset

\* When an upgrade has ended, every user on its list was reported as not found
\* or has at least the capabilities of the new release.
UpgradeComplete ==
    \A r \in Run : pc[r] = "done" /\ mem[r].args.upgrade =>
        \A i \in DOMAIN UpgradeUsers(mem[r].args) :
            LET user == UpgradeUsers(mem[r].args)[i] IN
            \/ user \in mem[r].missing
            \/ /\ user \in DOMAIN auth
               /\ \E narrow \in BOOLEAN :
                     /\ narrow => mem[r].args.restricted
                     /\ ~narrow => IsDefaultName(user)
                     /\ CapsLeq(CapsOf(BaseOf(user),
                                       [mem[r].args EXCEPT !.restricted = narrow]),
                                auth[user].caps)

\* The CephFS file system that was printed is one of the provider's, and the
\* data pool printed with it is a pool of that very file system.
PoolOfFileSystem ==
    \A r \in Run : Printed(r) /\ ~mem[r].args.dryRun /\ HasCephfs(mem[r].args) =>
        \E i \in DOMAIN FsList : /\ FsList[i].name = mem[r].args.fs
                                 /\ Has(FsList[i].data, mem[r].args.dataPool)

\* Whoever gets CephFS credentials finds the default subvolume group "csi" of
\* that file system, and his own group, created and pinned.
GroupsReady ==
    \A r \in Run : Printed(r) /\ HasCephfs(mem[r].args) =>
        \A i \in DOMAIN SubvolumeGroups(mem[r].args) :
            <<mem[r].args.fs, SubvolumeGroups(mem[r].args)[i]>> \in groups \cap pinned

\* No invocation takes a capability from a user: "older permission will still
\* be applied" by an upgrade, and an export leaves an existing user alone.
CapsNeverShrink ==
    [][\A u \in DOMAIN auth : /\ u \in DOMAIN auth'
                              /\ CapsLeq(auth[u].caps, auth'[u].caps)]_vars

\* An upgrade without --rgw-pool-prefix keeps the default checker on the RGW
\* pools it was connected with: the export's default prefix is not added.
NoPrefixInvented ==
    [][\A u \in DOMAIN auth \cap {DefaultChecker} :
         PrefixesIn(auth'[u].caps) \subseteq
             PrefixesIn(auth[u].caps) \cup
             {f.prefix : f \in {g \in Invocations : g.upgrade}}]_vars

\* "In case of cephfs users if you have passed --cephfs-filesystem-name flag
\* while creating user then while upgrading it will be mandatory too": no
\* command line turns a user of one file system into a user of all of them.
Confined(caps) == \A p \in caps["osd"] : p.on # Unset
CephfsConfined ==
    [][\A u \in DOMAIN auth :
         /\ BaseOf(u) \in {"csi-cephfs-node", "csi-cephfs-provisioner"}
         /\ Confined(auth[u].caps)
         => Confined(auth'[u].caps)]_vars

\* "Dry run prints the executed commands without running them."
DryRunChangesNothing ==
    [][\A r \in Run : mem[r].args.dryRun /\ pc'[r] # pc[r]
         => UNCHANGED provider]_vars

=============================================================================
