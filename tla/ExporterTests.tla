---------------------------- MODULE ExporterTests ----------------------------
(***************************************************************************)
(* The unit tests of the exporter.  A test creates one RadosJSON object,   *)
(* puts DummyRados in the place of the cluster, and then calls methods and *)
(* rewrites the object's flags and the double's answers in turn: what one  *)
(* call leaves in the flags is the input of the next.  Here the calls of   *)
(* each fixture come in any order.  The monitoring tests are               *)
(* MonitoringDiscovery with double = TRUE, next to real exports.           *)
(***************************************************************************)
EXTENDS MonitoringDiscovery, ExternalUsers

CONSTANTS
    FsNames,        \* the values the tests give to cephfs_filesystem_name
    PoolNames,      \* and to cephfs_data_pool_name
    SecondFs,       \* the file system that a test adds to the answer
    MoreData        \* the data pools that a test gives to the first one

ASSUME TestsAssumption ==
    /\ {"abc", "default", "myfs", "myfs-replicated", "openshift-storage"} \subseteq Word
    /\ FsNames \subseteq Name /\ PoolNames \subseteq Name /\ MoreData \subseteq Seq(Name)
    /\ SecondFs \in Name \ {Unset, <<"myfs">>}

VARIABLES
    fixture,    \* which tests are run
    object,     \* the flags of the RadosJSON object
    returnVal,  \* return_val of DummyRados
    fsOut,      \* its answer to "fs ls"
    call,       \* how the last call ended, if nothing was rewritten since
    sent        \* the auth commands of the last call

testVars == <<fixture, object, returnVal, fsOut, call, sent>>

SetUp ==
    [release |-> "master", upgrade |-> FALSE, dryRun |-> FALSE,
     restricted |-> FALSE, cluster |-> Unset, legacy |-> Unset,
     pool |-> <<"abc">>, alias |-> Unset, ns |-> Unset, fs |-> Unset,
     dataPool |-> Unset, group |-> Unset, prefix |-> <<"default">>,
     runAs |-> DefaultChecker]

DummyFs == <<[name |-> <<"myfs">>, data |-> <<<<"myfs-replicated">>>>]>>

\* The capabilities of a command: daemons, each with its permissions, in order.
CapList == Seq(Daemons \X Seq(Perm))
Command == {"auth get", "auth get-or-create", "auth caps"} \X User \X CapList

TestsTypeOK ==
    /\ TypeOK
    /\ fixture \in {"monitoring", "cephfs", "users"}
    /\ object \in Flags /\ returnVal \in {0, 1}
    /\ fsOut \in Seq(FileSystem)
    /\ call \in {"none", "returned", "raised"}
    /\ \A c \in sent : c \in Command

TestsInit ==
    /\ Init
    /\ fixture \in {"monitoring", "cephfs", "users"}
    /\ fixture # "monitoring" => double
    /\ object = SetUp /\ returnVal = 0 /\ fsOut = DummyFs
    /\ call = "none" /\ sent = {}

Monitoring ==
    /\ fixture = "monitoring"
    /\ Next
    /\ UNCHANGED testVars

-----------------------------------------------------------------------------
(***************************************************************************)
(* The file system tests: test_multi_filesystem_scenario and               *)
(* test_multi_data_pool_scenario.                                          *)
(***************************************************************************)
AddFileSystem ==
    /\ fixture = "cephfs" /\ Len(fsOut) = 1
    /\ fsOut' = Append(fsOut, [fsOut[1] EXCEPT !.name = SecondFs])
    /\ call' = "none"
    /\ UNCHANGED <<vars, fixture, object, returnVal, sent>>

ClearFileSystems ==
    /\ fixture = "cephfs" /\ fsOut # << >>
    /\ fsOut' = << >> /\ call' = "none"
    /\ UNCHANGED <<vars, fixture, object, returnVal, sent>>

ChangeDataPools ==
    /\ fixture = "cephfs" /\ fsOut # << >>
    /\ \E data \in MoreData : fsOut' = [fsOut EXCEPT ![1].data = data]
    /\ call' = "none"
    /\ UNCHANGED <<vars, fixture, object, returnVal, sent>>

GiveFlags ==
    /\ fixture = "cephfs"
    /\ \/ \E n \in FsNames : object' = [object EXCEPT !.fs = n]
       \/ \E p \in PoolNames : object' = [object EXCEPT !.dataPool = p]
    /\ call' = "none"
    /\ UNCHANGED <<vars, fixture, returnVal, fsOut, sent>>

\* get_cephfs_data_pool_details rewrites the flags, the file system's also
\* when it raises afterwards.
CallDetails ==
    /\ fixture = "cephfs"
    /\ LET found == SelectCephfs(fsOut, object.fs, object.dataPool) IN
       /\ object' = [object EXCEPT !.fs = found.fs, !.dataPool = found.dataPool]
       /\ call' = IF found.ok THEN "returned" ELSE "raised"
    /\ UNCHANGED <<vars, fixture, returnVal, fsOut, sent>>

-----------------------------------------------------------------------------
(***************************************************************************)
(* The user tests, against the table of answers in DummyRados.  The double *)
(* looks a command up by its text, so the order of the daemons, and of the *)
(* permissions of each, decides whether it finds it: capabilities are      *)
(* lists here, where ExternalUsers has sets.                               *)
(***************************************************************************)
Bound(kind, on, ns) == [kind |-> kind, on |-> on, ns |-> ns]
Perms(kinds) == [i \in DOMAIN kinds |-> Bound(kinds[i], Unset, Unset)]

\* The lists of a daemon each, where one gets permissions, in some order.
Entry(daemon, perms) == IF perms = << >> THEN << >> ELSE <<<<daemon, perms>>>>
Listed(order, lists) ==
    Entry(order[1], lists[order[1]]) \o Entry(order[2], lists[order[2]]) \o
    Entry(order[3], lists[order[3]]) \o Entry(order[4], lists[order[4]])

\* The keys of the dictionaries of capabilities, in the order they are written.
DictKeys == <<"mon", "mgr", "osd", "mds">>

RbdLists(f, mgr) ==
    CapsOn(Perms(<<"profile rbd", "blocklist">>), mgr,
           <<IF f.restricted THEN Bound("profile rbd", f.pool, f.ns)
                             ELSE Bound("profile rbd", Unset, Unset)>>, << >>)

CephfsLists(f, kind, mds) ==
    CapsOn(Perms(<<"allow r", "blocklist">>), Perms(<<"allow rw">>),
           <<Bound(kind, CephfsBound(f), Unset)>>, mds)

CheckerLists(f) ==
    CapsOn(Perms(<<"allow r", "quorum_status", "version">>), Perms(<<"config">>),
           <<Bound("profile rbd-read-only", Unset, Unset),
             Bound("rgw.meta", f.prefix, Unset), Bound("rgw.root", Unset, Unset),
             Bound("rgw.control", f.prefix, Unset), Bound("rgw.log", f.prefix, Unset),
             Bound("rgw.buckets.index", f.prefix, Unset)>>, << >>)

\* CapsOf, in the order in which the current script writes the permissions.
ListsOf(base, f) ==
    CASE base = "csi-rbd-node" -> RbdLists(f, << >>)
      [] base = "csi-rbd-provisioner" -> RbdLists(f, Perms(<<"allow rw">>))
      [] base = "csi-cephfs-node" ->
            CephfsLists(f, "cephfs *=", Perms(<<"allow rw">>))
      [] base = "csi-cephfs-provisioner" -> CephfsLists(f, "cephfs metadata=", << >>)
      [] base = "healthchecker" -> CheckerLists(f)

\* What is in a list, each at its first place ("eliminate duplicates without
\* using 'set'").
Deduped(seq) ==
    LET firsts == {i \in DOMAIN seq : \A j \in 1 .. i - 1 : seq[j] # seq[i]}
        rank(i) == Cardinality(firsts \cap 1 .. i)
    IN  [k \in 1 .. Cardinality(firsts) |-> seq[CHOOSE i \in firsts : rank(i) = k]]

\* "append new_cap_list to cur_cap_list to maintain the order of caps".
MergeLists(existing, new) == [d \in Daemons |-> Deduped(existing[d] \o new[d])]

\* Faulty: the daemons in the order of their names.
CapKeysSorted == <<"mds", "mgr", "mon", "osd">>
CapKeys == <<"mon", "mgr", "osd", "mds">>

-----------------------------------------------------------------------------
\* The table.  Each row has the order of the text in the code.
Storage == <<"openshift-storage">>
RbdMon == <<"mon", Perms(<<"profile rbd", "blocklist">>)>>
CephfsMon == <<"mon", Perms(<<"allow r", "blocklist">>)>>
Osd(kind, on) == <<"osd", <<Bound(kind, on, Unset)>>>>
Rw(daemon) == <<daemon, Perms(<<"allow rw">>)>>

RgwPool(kind) == Bound(kind, <<"default">>, Unset)
CheckerMon == Perms(<<"allow r", "quorum_status", "version">>)
CheckerOsd ==
    <<Bound("profile rbd-read-only", Unset, Unset), RgwPool("rgw.meta"),
      Bound("rgw.root", Unset, Unset), RgwPool("rgw.control"),
      RgwPool("rgw.log"), RgwPool("rgw.buckets.index")>>
CheckerKnown ==
    <<<<"mon", CheckerMon>>, <<"mgr", Perms(<<"config">>)>>, <<"osd", CheckerOsd>>>>

\* The checker as an older release made it.
CheckerOld ==
    <<<<"mon", Perms(<<"allow r", "quorum_status">>)>>,
      <<"osd", <<Bound("profile rbd-read-only", Unset, Unset), RgwPool("rgw.meta"),
                 Bound("rgw.root", Unset, Unset), RgwPool("rgw.control"),
                 RgwPool("rgw.buckets.index")>>>>>>

FsProvisionerKnown(fs) == <<CephfsMon, Rw("mgr"), Osd("cephfs metadata=", fs)>>

\* The commands it answers: "auth get-or-create", "auth caps" and "auth get".
DummyCreates ==
    {<<DefaultChecker, CheckerOld>>, <<DefaultChecker, CheckerKnown>>,
     <<<<"csi-rbd-node">>, <<RbdMon, Osd("profile rbd", Unset)>>>>,
     <<<<"csi-rbd-provisioner">>, <<RbdMon, Rw("mgr"), Osd("profile rbd", Unset)>>>>,
     <<<<"csi-cephfs-node">>,
       <<CephfsMon, Rw("mgr"), Osd("cephfs *=", Unset), Rw("mds")>>>>,
     <<<<"csi-cephfs-provisioner">>, FsProvisionerKnown(Unset)>>,
     <<<<"csi-cephfs-provisioner">> \o Storage, FsProvisionerKnown(Unset)>>,
     <<<<"csi-cephfs-provisioner">> \o Storage \o <<"myfs">>,
       FsProvisionerKnown(<<"myfs">>)>>}

DummyUpgrades ==
    {<<DefaultChecker, CheckerKnown>>,
     <<<<"csi-cephfs-provisioner">>, FsProvisionerKnown(Unset)>>}

DummyGets ==
    DefaultUsers \cup {<<"csi-cephfs-provisioner">> \o Storage,
                       <<"csi-cephfs-provisioner">> \o Storage \o <<"myfs">>}

\* The users that it says exist, with their capabilities; for the others
\* "auth get" answers [].
DummyUsers ==
    [u \in {DefaultChecker, <<"csi-cephfs-provisioner">>} |->
        IF u = DefaultChecker
        THEN CapsOn(CheckerMon, Perms(<<"config">>), CheckerOsd, << >>)
        ELSE CapsOn(Perms(<<"allow r">>), Perms(<<"allow rw">>),
                    <<Bound("cephfs metadata=", Unset, Unset)>>, << >>)]

\* test_method_create_cephCSIKeyring_cephFSProvisioner: the flags it sets, and
\* return_val of test_non_zero_return_and_error.
SetAttributes ==
    /\ fixture = "users"
    /\ \/ /\ object' = [object EXCEPT !.restricted = TRUE, !.cluster = Storage]
          /\ UNCHANGED returnVal
       \/ /\ object.restricted
          /\ object' = [object EXCEPT !.fs = <<"myfs">>]
          /\ UNCHANGED returnVal
       \/ returnVal' = 1 /\ UNCHANGED object
    /\ call' = "none" /\ sent' = {}
    /\ UNCHANGED <<vars, fixture, fsOut>>

\* create_cephCSIKeyring_user and create_checkerKey: "auth get" first, and
\* "auth get-or-create" if that names no user.
CreateKeyring ==
    /\ fixture = "users"
    /\ \E base \in IF object.restricted THEN {"csi-cephfs-provisioner"}
                   ELSE CsiBases \cup {"healthchecker"} :
         LET entity == EntityOf(base, object)
             get == <<"auth get", entity, << >>>>
             create == <<"auth get-or-create", entity,
                         Listed(DictKeys, ListsOf(base, object))>>
         IN  IF returnVal = 0 /\ entity \in DOMAIN DummyUsers
             THEN sent' = {get} /\ call' = "returned"
             ELSE /\ sent' = {get, create}
                  /\ call' = IF returnVal = 0 THEN "returned" ELSE "raised"
    /\ UNCHANGED <<vars, fixture, object, returnVal, fsOut>>

\* test_upgrade_user_permissions: one user of the list; one that is not found
\* is reported and skipped.
UpgradeKeyring ==
    /\ fixture = "users" /\ ~object.restricted
    /\ \E user \in DefaultUsers :
         LET get == <<"auth get", user, << >>>>
             f == Narrowed(user, [object EXCEPT !.upgrade = TRUE])
             merged == MergeLists(DummyUsers[user], ListsOf(BaseOf(user), f))
         IN  sent' = IF returnVal = 0 /\ user \in DOMAIN DummyUsers
                     THEN {get, <<"auth caps", user, Listed(CapKeys, merged)>>}
                     ELSE {get}
    /\ call' = "returned"
    /\ UNCHANGED <<vars, fixture, object, returnVal, fsOut>>

-----------------------------------------------------------------------------
TestsNext ==
    \/ Monitoring
    \/ AddFileSystem \/ ClearFileSystems \/ ChangeDataPools \/ GiveFlags
    \/ CallDetails
    \/ SetAttributes \/ CreateKeyring \/ UpgradeKeyring

TestsSpec ==
    TestsInit /\ [][TestsNext]_<<vars, testVars>> /\ WF_<<vars, testVars>>(Monitoring /\ Step)

-----------------------------------------------------------------------------
\* Whatever earlier calls left in the flags, a call that returns has put a file
\* system and a data pool of that very file system there, or none.
PoolBelongs ==
    fixture = "cephfs" /\ call = "returned" /\ object.dataPool # Unset =>
        \E i \in DOMAIN fsOut : /\ fsOut[i].name = object.fs
                                /\ Has(fsOut[i].data, object.dataPool)

\* get_cephfs_data_pool_details reads the flags that it rewrites, and rewrites
\* some before it raises: a call that is repeated ends as it ended before and
\* changes nothing more.
RepeatedCallAgrees ==
    [][fixture = "cephfs" /\ call # "none" /\ call' # "none" =>
          call' = call /\ object' = object]_<<vars, testVars>>

\* The commands the script sends for the flags of the tests are in the double's
\* table, with their daemons and permissions in the order of the table, also when
\* an upgrade has merged them ("we have to keep the order"): no call ends in a
\* KeyError.
DoubleAnswers ==
    \A c \in sent : \/ c[1] = "auth get" /\ c[2] \in DummyGets
                    \/ c[1] = "auth get-or-create" /\ <<c[2], c[3]>> \in DummyCreates
                    \/ c[1] = "auth caps" /\ <<c[2], c[3]>> \in DummyUpgrades

=============================================================================
