--------------------------- MODULE ExternalUsers ---------------------------
(***************************************************************************)
(* The Ceph users that create-external-cluster-resources.py creates for a  *)
(* consumer cluster: how they are named, which capabilities they get, how  *)
(* capabilities are merged on an upgrade, and which CephFS file system an   *)
(* invocation settles on.  Everything here is a constant-level operator;   *)
(* CephExport runs them against a shared provider cluster.                 *)
(*                                                                         *)
(* A name is a sequence of words: the script joins name parts with "-",    *)
(* and "-" is legal inside every part, so joining is concatenation and two *)
(* different lists of parts can give one name.  The empty string of an     *)
(* unset flag is the empty sequence.                                       *)
(***************************************************************************)
EXTENDS Naturals, Sequences, FiniteSets

CONSTANTS
    Word,       \* the words that names are made of
    DotWord,    \* the words that hold a "." or a "_"
    Lower       \* str.lower() on words

Name == Seq(Word)
Unset == << >>

CsiBases == {"csi-rbd-node", "csi-rbd-provisioner",
             "csi-cephfs-node", "csi-cephfs-provisioner"}
Bases == CsiBases \cup {"healthchecker", "other"}

ASSUME WordAssumption ==
    /\ DotWord \subseteq Word /\ "csi" \in Word
    /\ Lower \in [Word -> Word]
    /\ \A w \in Word : Lower[Lower[w]] = Lower[w]

\* A user name, "client." left out: a base word and the words that follow it.
User == {u \in Seq(Word \cup Bases) : u # << >> /\ u[1] \in Bases}
BaseOf(user) == user[1]
IsDefaultName(user) == Len(user) = 1

LowerName(name) == [i \in DOMAIN name |-> Lower[name[i]]]
HasDot(name) == \E i \in DOMAIN name : name[i] \in DotWord

(***************************************************************************)
(* The flags of one invocation.  "restricted" is the truth value of the    *)
(* flag; "legacy" is --cluster-name, which only the Ceph 18 copy accepts.  *)
(***************************************************************************)
Releases == {"ceph-17", "ceph-18", "master"}

Flags == [release : Releases, upgrade : BOOLEAN, dryRun : BOOLEAN,
          restricted : BOOLEAN, cluster : Name, legacy : Name,
          pool : Name, alias : Name, ns : Name, fs : Name, dataPool : Name,
          group : Name, prefix : Name, runAs : User \cup {Unset}]

DefaultChecker == <<"healthchecker">>
DefaultUsers == {<<"healthchecker">>} \cup {<<b>> : b \in CsiBases}

-----------------------------------------------------------------------------
(***************************************************************************)
(* Capabilities: for each daemon type a set of permissions (the order of   *)
(* the comma-separated list carries no meaning for the monitors).  "on" is *)
(* the pool, file system or RGW pool prefix the permission is bound to.    *)
(***************************************************************************)
Daemons == {"mon", "mgr", "osd", "mds"}

Kinds == {"allow r", "allow rw", "blocklist", "quorum_status", "version",
          "config", "profile rbd", "cephfs metadata=", "cephfs *=",
          "profile rbd-read-only", "rgw.meta", "rgw.root", "rgw.control",
          "rgw.log", "rgw.buckets.index"}

Perm == [kind : Kinds, on : Name, ns : Name]
Caps == [Daemons -> SUBSET Perm]

Allow(kinds) == {[kind |-> k, on |-> Unset, ns |-> Unset] : k \in kinds}
AllowOn(kind, on, ns) == {[kind |-> kind, on |-> on, ns |-> ns]}

CapsOn(mon, mgr, osd, mds) ==
    [d \in Daemons |-> CASE d = "mon" -> mon [] d = "mgr" -> mgr
                         [] d = "osd" -> osd [] d = "mds" -> mds]

\* Every permission of a is one of b, daemon by daemon.
CapsLeq(a, b) == \A d \in Daemons : a[d] \subseteq b[d]

-----------------------------------------------------------------------------
(***************************************************************************)
(* Users and capabilities of the current script.                           *)
(***************************************************************************)
RbdName(base, f) ==
    <<base>> \o f.cluster \o (IF f.alias = Unset THEN f.pool ELSE f.alias)

AliasGiven(f) ==
    (HasDot(f.pool) \/ f.alias # Unset) => f.alias # Unset /\ ~HasDot(f.alias)

\* The Ceph 17 copy knows no RADOS namespaces in names or capabilities.
RbdEntity17(base, f) == IF f.restricted THEN RbdName(base, f) ELSE <<base>>

RbdOsd17(f) ==
    IF f.restricted THEN AllowOn("profile rbd", f.pool, Unset)
                    ELSE Allow({"profile rbd"})

RbdEntity(base, f) ==
    IF f.restricted THEN RbdName(base, f) \o f.ns ELSE <<base>>

RbdOsd(f) ==
    IF f.restricted THEN AllowOn("profile rbd", f.pool, f.ns)
                    ELSE Allow({"profile rbd"})

RbdProvisionerCaps(osd) ==
    CapsOn(Allow({"profile rbd", "blocklist"}), Allow({"allow rw"}), osd, {})

RbdNodeCaps(osd) == CapsOn(Allow({"profile rbd", "blocklist"}), {}, osd, {})

\* An unset file system leaves the name without it and the caps unbound.
CephfsEntity(base, f) ==
    IF f.restricted THEN <<base>> \o f.cluster \o f.fs ELSE <<base>>

CephfsBound(f) == IF f.restricted THEN f.fs ELSE Unset

CephfsProvisionerCaps(f) ==
    CapsOn(Allow({"allow r", "blocklist"}), Allow({"allow rw"}),
           AllowOn("cephfs metadata=", CephfsBound(f), Unset), {})

CephfsNodeCaps(f) ==
    CapsOn(Allow({"allow r", "blocklist"}), Allow({"allow rw"}),
           AllowOn("cephfs *=", CephfsBound(f), Unset), Allow({"allow rw"}))

CheckerCaps(f) ==
    CapsOn(Allow({"allow r", "quorum_status", "version"}),
           Allow({"config"}),
           Allow({"profile rbd-read-only", "rgw.root"}) \cup
               UNION {AllowOn(k, f.prefix, Unset) : k \in
                        {"rgw.meta", "rgw.control", "rgw.log",
                         "rgw.buckets.index"}},
           {})

\* Ceph 17 always creates the default checker; the current script names the
\* checker after --run-as-user.
CheckerEntity17(f) == DefaultChecker
CheckerEntity(f) == f.runAs

-----------------------------------------------------------------------------
(***************************************************************************)
(* get_caps_and_entity: a user name that is not a default one switches the *)
(* invocation to restricted permissions, and it stays switched.            *)
(***************************************************************************)
NarrowedNever(user, f) == f     \* faulty: the switch is not remembered
Narrowed(user, f) ==
    IF BaseOf(user) \in CsiBases \cup {"healthchecker"} /\ ~IsDefaultName(user)
    THEN [f EXCEPT !.restricted = TRUE] ELSE f

EntityOf(base, f) ==
    CASE base \in {"csi-rbd-node", "csi-rbd-provisioner"} ->
            IF f.release = "ceph-17" THEN RbdEntity17(base, f)
                                     ELSE RbdEntity(base, f)
      [] base \in {"csi-cephfs-node", "csi-cephfs-provisioner"} ->
            CephfsEntity(base, f)
      [] base = "healthchecker" ->
            IF f.release = "ceph-17" THEN CheckerEntity17(f)
                                     ELSE CheckerEntity(f)
      [] OTHER -> <<base>>

RbdOsdOf(f) == IF f.release = "ceph-17" THEN RbdOsd17(f) ELSE RbdOsd(f)

CapsOf(base, f) ==
    CASE base = "csi-rbd-node" -> RbdNodeCaps(RbdOsdOf(f))
      [] base = "csi-rbd-provisioner" -> RbdProvisionerCaps(RbdOsdOf(f))
      [] base = "csi-cephfs-node" -> CephfsNodeCaps(f)
      [] base = "csi-cephfs-provisioner" -> CephfsProvisionerCaps(f)
      [] base = "healthchecker" -> CheckerCaps(f)
      [] OTHER -> CapsOn({}, {}, {}, {})

\* FALSE where the script raises: a mandatory flag is missing, or the name
\* matches no known user.
Accepts(base, f) ==
    CASE base \in {"csi-rbd-node", "csi-rbd-provisioner"} ->
            f.restricted => f.pool # Unset /\ f.cluster # Unset /\ AliasGiven(f)
      [] base \in {"csi-cephfs-node", "csi-cephfs-provisioner"} ->
            f.restricted => f.cluster # Unset
      [] base = "healthchecker" -> TRUE
      [] OTHER -> FALSE

-----------------------------------------------------------------------------
(***************************************************************************)
(* upgrade_user_permissions: append the permissions of this release to the *)
(* ones the user has.                                                      *)
(***************************************************************************)
\* Faulty merges: the old permissions are dropped; the manager or the MDS is
\* left out of cap_keys.
MergeReplacing(existing, new) == new
MergeWithoutMgr(existing, new) ==
    [d \in Daemons |-> IF d = "mgr" THEN existing[d] ELSE existing[d] \cup new[d]]
MergeWithoutMds(existing, new) ==
    [d \in Daemons \ {"mds"} |-> existing[d] \cup new[d]]

MergeCaps(existing, new) == [d \in Daemons |-> existing[d] \cup new[d]]

\* The RGW pool prefixes that the "pool=<prefix>.rgw.meta" pattern can match.
PrefixesIn(caps) == {p.on : p \in {q \in caps["osd"] : q.kind = "rgw.meta"}}

-----------------------------------------------------------------------------
(***************************************************************************)
(* get_cephfs_data_pool_details on the answer fsList of "fs ls": the file  *)
(* system and data pool the invocation goes on with, or ok = FALSE where   *)
(* the script raises.                                                      *)
(***************************************************************************)
FileSystem == [name : Name, data : Seq(Name)]

Has(seq, x) == \E i \in DOMAIN seq : seq[i] = x

Candidates(fsList, fs, pool) ==
    IF fs # Unset THEN {i \in DOMAIN fsList : fsList[i].name = fs}
    ELSE IF Len(fsList) = 1 THEN {1}
    ELSE {i \in DOMAIN fsList : pool # Unset /\ Has(fsList[i].data, pool)}

First(S) == CHOOSE i \in S : \A j \in S : i <= j

\* Faulty: the given pool is not looked up in the file system's list.
SelectPoolUnchecked(chosen, pool) ==
    [ok |-> TRUE, fs |-> chosen.name,
     dataPool |-> IF pool # Unset \/ chosen.data = << >> THEN pool
                                                        ELSE chosen.data[1]]

\* Faulty: the default replaces a pool before that has been refused.
SelectPoolEager(chosen, pool) ==
    [ok |-> pool = Unset \/ Has(chosen.data, pool), fs |-> chosen.name,
     dataPool |-> IF chosen.data = << >> THEN pool ELSE chosen.data[1]]

SelectPool(chosen, pool) ==
    IF pool # Unset
    THEN [ok |-> Has(chosen.data, pool), fs |-> chosen.name, dataPool |-> pool]
    ELSE [ok |-> TRUE, fs |-> chosen.name,
          dataPool |-> IF chosen.data = << >> THEN Unset ELSE chosen.data[1]]

SelectCephfs(fsList, fs, pool) ==
    LET found == Candidates(fsList, fs, pool)
    IN  IF found = {}
        THEN [ok |-> fs = Unset /\ pool = Unset, fs |-> fs, dataPool |-> pool]
        ELSE SelectPool(fsList[First(found)], pool)

=============================================================================
