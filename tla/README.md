# Verification of the cluster tooling in k8s-research

The repository is a working copy of deployment material for Kubernetes on
private clouds: Helm charts, manifests, notes, and the scripts that do the work.
The scripts are where the logic is, and this directory models them in TLA+:
what they do to shared clusters when they overlap, fail half-way, are repeated
or see an answer that is already out of date.

Source paths below are relative to `src/`. *Exporter* is
`csi/ceph/rook/deploy/examples/create-external-cluster-resources.py` (with older
copies in `csi/ceph-18/docs` and `csi/ceph-17/rook/deploy/examples`), *importer*
is `csi/ceph/rook/deploy/examples/import-external-cluster.sh`, and *node init* is
`cni/cillium/cilium/files/nodeinit`. A bare line number is one of the exporter.

## 1. Inventory

| Component | State it keeps | Operations | Talks to |
|---|---|---|---|
| Exporter, export | nothing of its own; the provider's auth database, initialised pools, subvolume groups and pins | validate and initialise the pool, check the namespace, choose the file system, get-or-create five users, create and pin groups, print | monitors (commands), the importer (printed environment) |
| Exporter, upgrade | the same auth database | `auth get`, merge, `auth caps` per user | monitors |
| Exporter, endpoint discovery | nothing of its own | find a monitor address, the dashboard, the manager endpoints; resolve, dial | monitors, DNS, managers |
| Exporter, RGW part | an RGW admin-ops user | create the user and grant it `info`, dial the endpoint, compare the FSID, look for the pools | `radosgw-admin`, HTTP |
| Exporter unit tests | one `RadosJSON` object, the answers of `DummyRados` | call methods, rewrite flags and answers | the exporter |
| Importer | namespace, custom resources, secrets, ConfigMap, storage classes of a consumer cluster | look up, create if absent, wait | API server, Rook operator |
| Toolbox (`toolbox.yaml`) | `/etc/ceph/ceph.conf`, remembered change time | write endpoints, watch, restart | kubelet (mounted ConfigMap) |
| Cilium node init | kubelet wrapper, containerd and CNI configuration, bootstrap and marker files | startup, the wrapper, prestop, wait-for-node-init | systemd, kubelet, containerd, agent pod |
| SPIRE init (`cni/cillium/cilium/files/spire`) | registration entries | check-then-create loop, bounded wait | SPIRE server |
| Evicted-pod reaper (`维护/auto-delete-evicted-pod`) | none | list, delete by name | API server |
| OSD activation (`csi/ceph/doc/debug/osd.yaml`) | block link of an OSD | find the device, repair the link, activate | `ceph-volume` |
| Image mirror generator (`private-cloud-image/migrate-image-repository`) | generated `sh.sh` | collect, generate; pull, tag, push, remove | registries |
| Charts, manifests, installers, notes | configuration | none that runs here | third-party operators |

Behaviours that are hard here:

* **No locks.** Every script reads a shared cluster, decides, and writes with
  another command. Two exports, an export and an upgrade, two upgrades or two
  imports meet between any two commands; systemd starts containerd while the
  kubelet wrapper rewrites its configuration.
* **Failure in the middle.** A script dies after any command and is started
  again; what exists is taken over, what is missing has to be completed. A node
  reboots, and part of its disk is reset.
* **Absence and failure look the same.** A failing lookup counts as "does not
  exist" in the exporter (`check_user_exist`, `upgrade_user_permissions`) and in
  the importer (`if ! kubectl get`).
* **Arguments are rewritten on the way.** `restricted_auth_permission`,
  `rgw_pool_prefix`, the file system and the cluster name live in one mutable
  object; the order of the users matters, and so does the order of the calls in
  the unit tests, which share that object.
* **Answers grow old.** The manager that was active when `status` answered is a
  standby when its endpoint is printed; a gateway that answered the dial is gone
  when the signed request is sent.
* **Change detection by time stamps** (toolbox).

What makes the parts correct: printed credentials belong to existing users, are
able to do what they are for, and stay so; an upgrade only adds; a user of one
tenant never becomes a user of all; storage classes are never there without
their secrets; repeated runs end; the toolbox follows the monitors; a published
endpoint is the cluster's own and can be connected to; no pod starts under the
cloud provider's CNI configuration; uninstalling gives the node its kubelet back.

## 2. Modules

| Module | Models | Checked by | Proofs |
|---|---|---|---|
| `ExternalUsers` | names, capabilities, mandatory flags, merge, file system selection (operators only) | through `CephExport` | `ExternalUsersProofs` |
| `CephExport` | invocations of the exporter on one provider | `MCCephExport` | `CephExportProofs` |
| `Endpoints` | hosts, ports, dialling, monitor addresses (operators only) | through the next two | |
| `MonitoringDiscovery` | how an export finds monitors, dashboard and managers | `MCExporterTests` | `ExporterTestsProofs` |
| `ExporterTests` | the unit tests, on top of `MonitoringDiscovery` and `ExternalUsers` | `MCExporterTests` | `ExporterTestsProofs` |
| `RgwAdmin` | the object-store part of the exporter | `MCRgwAdmin` | `RgwAdminProofs` |
| `ImportCluster` | runs of the importer on one consumer cluster | `MCImportCluster` | `ImportClusterProofs` |
| `ConsumerPromise` | abstract: what a consumer is promised | as a property of `MCExternalCluster` | |
| `ExternalCluster` | `CephExport` and `ImportCluster` composed through the exporter's output | `MCExternalCluster` | `ExternalClusterProofs` |
| `ToolboxWatch` | the toolbox loop and the kubelet | `MCToolboxWatch` | `ToolboxWatchProofs` |
| `NodeInit` | node init and de-init with systemd, containerd, kubelet, agent | `MCNodeInit` | `NodeInitProofs` |

Definitions that start with "Faulty:" are plausible mistakes in the definition
that follows them. No specification uses them; they record which mistake each
property would notice.

### 2.1 ExternalUsers and CephExport

A **name** is a sequence of words. The exporter joins name parts with `-`, and
`-` is legal in every part, so joining is concatenation: cluster `a-b` with pool
`c` and cluster `a` with pool `b-c` are the same user, as in the code. The empty
string of an unset flag is the empty sequence.

A **capability** is, per daemon, a set of permissions, each bound to a pool
(and namespace), a file system or an RGW pool prefix, or to nothing. The order in the
comma-separated strings is left out here: the monitors give it no meaning, and
`upgrade_user_permissions` removes duplicates, which a set does by itself. Where
the order does matter, in the unit tests (2.3), capabilities are lists.

The **provider** is `auth` (users with key and capabilities), `issued` (keys
the monitors have generated), `poolInit`, `groups` and `pinned`. An invocation
is a process `r` with a program counter and its memory (`mem[r]`): the flags as
rewritten so far, the users still to be handled, the capabilities an upgrade
has read, the credentials collected in `out_map`, the users reported as not found.
An action is at most one command to the cluster, with two exceptions:
`InitPool` asks for the pool and initialises it, `MakeGroup` asks for the group's
path and creates it. Others may act between the two commands of either, but pools
and groups only ever appear, so what was found is still there, and initialising or
creating what somebody else has made meanwhile changes nothing. Pinning is an action of
its own, since a group that was found need not be pinned.

| Action | Code |
|---|---|
| `Start` | `__init__`, `main`: defaults, export or upgrade |
| `InitPool` | `validate_rbd_pool`, `init_rbd_pool`, lower-casing of the cluster name |
| `ReadCluster` | `validate_rados_namespace`, `get_cephfs_data_pool_details` and the other read-only commands |
| `GetUser` | `get_caps_and_entity`, `check_user_exist` |
| `CreateUser` | `auth get-or-create` |
| `MakeGroup`, `PinGroup` | `get_or_create_subvolume_group`, `pin_subvolume` |
| `PrintOutput` | the end of `_gen_output_map` |
| `UpgradeGet`, `UpgradeSet` | `upgrade_user_permissions`: before and after the merge |
| `Abort` | any exception or the death of the process, at any point |

What the monitors do on `auth get-or-create` (create, return the key of a user
with the same capabilities, refuse other capabilities) and on `auth caps`
(replace all capabilities) is external and modelled from how the exporter uses it.
The three releases differ in names (17 knows no RADOS namespace and always
creates `client.healthchecker`) and in the legacy flag (18).

What follows `create_cephCSIKeyring_user` without changing the auth database
(manager endpoints, RGW, the erasure-coded pool check, the formats) is in the
modules below; in `CephExport` it is represented by `Abort`.

### 2.2 Endpoints and MonitoringDiscovery

`Endpoints` has `_invalid_endpoint`, `endpoint_dial` and the choice of a
monitor address as operators. A port is an integer; a string that is no number is
a negative one, and `NoPort` is the unset flag.

`MonitoringDiscovery` is one export after the other against a provider that
goes on meanwhile: managers fail over, leave and join, monitors elect another
leader, the prometheus module is switched. `ReadMons`, `ReadDashboard`,
`FindEndpoint` (first half of `get_active_and_standby_mgrs`), `Convert` (one call
of `_convert_hostname_to_ip`) and `Dial` follow the commands. Two things of the
code that the model keeps: all hosts are treated as what the *first* one was (with
a literal address in the active manager's URL the standbys are printed as
unconverted names, which is why `SurvivesFailover` speaks of URLs by name), and
the main endpoint is dialled under the name it had before the conversion.
The same object connected to `DummyRados` is the case `double`.

### 2.3 ExporterTests

`test_*` methods share one object per test: what one call leaves in the flags is
the input of the next. The module lets the calls of each fixture (file systems,
users, monitoring) come in any order. Modelled are the direct method calls and
the upgrade; the tests that run `main()` start subprocesses. `DummyRados` opens
`test-data/ceph-status-out` when it is created, and the file is not in the
repository: as it stands no test that uses the double runs, and the module says
what they do when the file is there.

`DummyRados.mon_command` looks a command up by its text (195-199), so the
order of the daemons, and of the permissions of each, decides whether it knows it. In
this module capabilities are lists in the order of the source: the dictionaries of
`get_*_caps_and_entity` for `auth get-or-create` (`ListsOf`, `Listed`), and for
`auth caps` the list of the double's user followed by the new one, each permission at its
first place (`MergeLists`, `Deduped`), the daemons in the order of `cap_keys`.
Each row of the table is written down in its own order. `MCExporterTests`
assumes, so that TLC evaluates it, that `Deduped` is what the loop at 1927-1930 computes
(`DedupeAgrees`, all lists of up to five permissions of three kinds) and that
the lists hold the capabilities of `ExternalUsers` (`OnlyOrderAdded`).

### 2.4 RgwAdmin

One admin-ops user on the provider, the pools of the stores, the gateways that
are up. An export is `Start`, `CreateUser` (`user create`), `QueryUser`
(`user info`), `AddInfoCap` (`caps add`), `DialEndpoint`, `IdentifyCluster`
(`get_rgw_fsid` with the signature of `S3Auth`), `CheckPools`, `PrintOutput`.
`CheckPools` merges four `pool_exists` calls: pools only appear, so a look at four
moments finds no pool that the last moment lacks.
`Rerun` is an operator who repeats an export that published nothing.
The result of `validate_rgw_multisite` is overwritten in the code, so an unknown
realm or zone shows only when `radosgw-admin` is given it; the error of
`create_rgw_admin_ops_user` is overwritten too (1617, 1622), so an endpoint can be
published without a user. A timeout is the only exception that `get_rgw_fsid`
handles; it uses the endpoint without the brackets `endpoint_dial` had added.

### 2.5 ImportCluster

A run is the list of steps (`Plan`) that the main program makes out of its
environment, in its order: *create object with data* or *wait for a custom
resource*. Creating is two commands, `kubectl get` and `kubectl create`, and
`set -e` ends the run at the first one that fails. Storage classes belong to the whole
cluster, the other objects to the run's namespace. The wait is modelled by what
the shell makes of line 119: the inner quotes end the outer string, `sh` gets an
unfinished loop and exits with an error, so nothing behind a wait is ever run
and the cluster IDs of the storage classes stay the namespace.

### 2.6 ConsumerPromise and ExternalCluster

`ExternalCluster` EXTENDS `CephExport` and instantiates `ImportCluster` with
`objects`, `env`, `ipc`, `at`, `ifaults` for its variables. `Begin(i)` starts an
importer with `ShellOut` (`gen_shell_out`) of *any* export that has printed, so
one output may be imported twice, into two namespaces, and after later exports
and upgrades. `JsonClasses`, `JsonSecrets` and `JsonCluster` are the storage classes,
secrets and cluster details of `gen_json_out`.

`ConsumerPromise` knows three things: the key of every user of the provider,
the CSI secrets and the storage classes of the consumer. Its steps are: a
user gets a key of its own (`Issue`), a secret appears with a user and that
user's key (`Store`), a class appears when its secrets are there (`Offer`). Nothing
is ever changed or removed. The refinement mapping takes `keys` from `auth`,
`secrets` and `classes` from `objects`.

### 2.7 ToolboxWatch

One action per command of the shell: reading the file, opening `ceph.conf`
(which empties it), filling it, resolving the link, reading the change time,
comparing, sleeping. The kubelet publishes a version by swinging a link and removing the
old directory, so a path that was resolved before is gone after: `stat`
prints nothing, which the loop treats as one more value of the time. The
container may die anywhere; `ceph.conf` (an `emptyDir`) stays.

### 2.8 NodeInit

The branch for GKE with containerd on Kubernetes 1.24 or later, with
`reconfigureKubelet` and `revertReconfigureKubelet`. `running` says which kubelet
runs or where its wrapper is; `kubelet` and `theKubelet` are the two files,
`template` and `cni` containerd's configuration, `bootstrap`, `initDone` and `deinit`
the files in `/tmp`.

| Actions | Code |
|---|---|
| `TestWrapper` ... `FinishStartup` | `startup.bash`, one action per command that changes something; the last one removes the marker of `prestop.bash` |
| `RememberStartup` | the container image, outside the repository, which runs the script until it has ended well once |
| `CheckConfiguration` ... `BecomeKubelet` | the wrapper that `startup.bash` writes in place of the kubelet |
| `TestMarker` ... `RunHookAgain` | `prestop.bash`; restarting the kubelet makes the new one run the hook again |
| `WaitForNodeInit` | the agent's init container |
| `StartKubelet`, `StartContainerd`, `StartPod`, `TerminatePod`, `StartAgent`, `StopAgent`, `Install`, `Uninstall`, `Reboot` | environment |

A reboot resets `/etc` (as a comment in `startup.bash` says of GKE) and
may or may not empty `/tmp`. Two things are kept out, and the guards say so:
the release is installed again only when the old pods are gone, and it is
uninstalled only when the node is initialised. When init and de-init overlap, the wrapper
can be killed between taking containerd down and enabling it, and containerd
then stays disabled. With `Torn = FALSE` no reboot falls between the
removal of the release and the end of `prestop.bash`: the hook is not run again after such
a reboot, and with `Torn = TRUE` `DeinitReverts` does not hold. The safety properties
are proved for both values. A node may die anywhere in `startup.bash`, also
between `mv` (line 49) and `tee`. Its kubelet is then empty for good, because the next start
finds `the-kubelet` and skips the wrapper; `AgentReady` says that these are the
only nodes on which the agent does not get to run, and `KubeletKept` that the real kubelet
is still there. `mv` is modelled as what it does: it puts
whatever is in the kubelet's place over `the-kubelet`, which is why the test
before it (line 44) matters.

## 3. Runs

| Run | What it shows |
|---|---|
| `export` | The properties of 4.1 for two overlapping invocations out of eleven command lines |
| `concurrent_upgrades` | `CapsNeverShrink` fails if two upgrades overlap |
| `dry_run` | A dry run changes the provider |
| `forgotten_filesystem` | An upgrade that forgets the file system widens a user |
| `discovery_and_tests` | The properties of 4.2: exports look for endpoints while the provider fails over, and the unit tests' calls come in any order |
| `rgw` | The properties of 4.3: two overlapping exports of an object store, with failures, deaths, repetitions and stopping gateways |
| `import` | The properties of 4.4: overlapping and repeated imports |
| `import_wait` | An import with a RADOS namespace never ends well |
| `external_cluster` | The properties of 4.5: exports, upgrades and imports at the same time, and the refinement of `ConsumerPromise` |
| `toolbox` | The properties of 4.6: the loop follows fail-overs and restarts |
| `toolbox_start` | A fail-over while the loop is set up is lost |
| `node_init` | The properties of 4.7: install, reboot, uninstall, install again |

### Bounds

* **`export`**: two invocations. Every race in this code is between one
  process that reads and one that writes the same user; a third process only
  adds another writer. Eleven command lines: plain, two tenants that share a
  cluster and a file system, one by release 17, a dry run, four rejected ones, two
  upgrades. Three providers: empty; an old checker on the RGW pools of two stores and an
  old CephFS user; an old checker without RGW. One spurious lookup failure
  (`MaxFaults`) is enough to take every "absent" branch wrongly once. Two file
  systems, so that the data pool really selects. The processes are symmetric, hence
  `SYMMETRY`. `CHECK_DEADLOCK FALSE`: invocations end.
* **`discovery_and_tests`**: three managers, so that one can be standby, active
  and gone; two monitors, one with both addresses and one with v2 only; a name
  with addresses of both families and one without an address of the hosts'
  family; ports 0, 65535 and above; the flags of the tests.
* **`rgw`**: two exports, thirteen pairs of command lines, in each of which one
  should work; five gateways (clear, TLS with a private and with a public
  certificate, another zone of the realm, a stranger); `MaxFaults = 2`, so that a
  command fails *and* the repetition meets a gateway that stops.
* **`import`**: two runs over six environments (two namespaces, old and new keys,
  a RADOS namespace, a subvolume group, an environment that is refused), one
  fault.
* **`external_cluster`**: two invocations and two imports, six command lines
  (default users, erasure-coded pool, tenant with CephFS, tenant in a RADOS
  namespace, upgrades of the default users and of the last tenant's), a provider without
  users and one with RBD users of an older release, two consumer namespaces. No
  faults: those are in the runs of the components, and the proof of `PromiseKept`
  includes them for any number.
* **`toolbox`**: four versions of the file over two monitor lists (so a
  list comes back), one container restart.
* **`node_init`**: two installations (so that leftovers of the first one are
  met) and two reboots (one of them may fall into the other's recovery).

### Assumptions

* `export` and everything built on it: upgrades are started one at a time
  (`ConcurrentUpgrades = FALSE`; the run `concurrent_upgrades` shows what happens
  otherwise), and no two command lines give the same user name to different
  capabilities. The second one is not ensured by the exporter (names are joined with
  `-`, aliases are free, and `--rgw-pool-prefix` is no part of the checker's name): with it
  violated, `check_user_exist` hands out a user that lacks capabilities and
  `CredentialsSuffice` does not hold. So no run and no theorem covers colliding
  names: `NamesTellApart`, which states that there are none, is an assumption;
  `SimpleNames` are rules for operators that imply it (section 6). The instance of
  `MCExternalCluster` follows both.
* `discovery_and_tests`: `FamilyAssumption` (`getaddrinfo` answers with addresses of
  the family it was asked for), `ManagersNamed` (managers go by host names, not by
  address literals) and `UsualAddrVecs` (a monitor without a v1 address has a single
  v2 address).
* `toolbox`: `QuietStart` (nothing is published while the loop is set up; the
  run `toolbox_start` is the other case) and `DistinctTimes` (no two versions within the
  second that `stat -c %Z` resolves).
* `rgw`: `Fsid` is not what a refused request answers.

### Fairness

* The toolbox shell goes on for ever (`WF` on its commands; publishing and dying
  are not fair).
* In the importer and in `RgwAdmin` every run goes on, and a failed run is
  started again some day (`WF` on the steps of each run, which include `Rerun`;
  faults are bounded and not fair): without somebody who repeats a failed run
  nothing can be promised. Gateways come back and make their pools some day.
* `MonitoringDiscovery`: an export that has begun goes on (`WF` on its steps).
  The provider's changes are not fair.
* `NodeInit`: systemd restarts what has to run, the kubelet starts and terminates
  pods, scripts go on. Installing, uninstalling and rebooting are not fair.
* `CephExport` and `ExternalCluster` have no liveness property: nothing repeats an
  export of users.

## 4. Properties

### 4.1 CephExport

* `CredentialsValid`: a printed credential names an existing user and carries
  that user's key, for good.
* `CredentialsSuffice`: a printed credential can do what its invocation asked for,
  also when the user was taken over from another invocation.
* `RestrictedConfined`: an RBD user of one tenant never gets `profile rbd` on all
  pools, also when an upgrade names it without the restriction flag.
* `UpgradeComplete`: a finished upgrade has upgraded every user that it did not
  report as missing. A user whose lookup failed is reported as missing too, and
  is not covered.
* `PoolOfFileSystem`, `GroupsReady`: printed CephFS data fit together and the
  groups are there.
* `CapsNeverShrink`, `NoPrefixInvented` (action properties): nobody loses a
  capability; an upgrade does not connect the checker to RGW pools it never had.

### 4.2 MonitoringDiscovery and ExporterTests

* `MonAddressUsable`: the printed monitor address is one that very monitor has,
  and v2 only for those who asked.
* `PortUsable`: a printed port is one, whatever flags, URL and default say.
* `SurvivesFailover`: whichever of the managers known at the time is active
  later, its address is printed.
* `OneFamily`: addresses resolved from names are of the hosts' family.
* `ExportEnds` (liveness): every export ends, however the provider changes.
* `PoolBelongs`, `RepeatedCallAgrees`: whatever earlier calls left in the flags,
  a data pool belongs to its file system, and a repeated call ends as before, also
  one that raised after it had rewritten a flag.
* `DoubleAnswers`: the commands sent for the tests' flags are in the table of
  `DummyRados`, with the daemons and permissions in the order of the table, also
  after an upgrade has merged them: no `KeyError`.

### 4.3 RgwAdmin

* `KeysValid`: printed keys are the user's, for all exports and all time.
* `InfoGranted`: an export that died before `caps add` is made good by the next.
* `OwnCluster`: a published endpoint is one of this cluster, although another
  cluster of the realm accepts the same keys.
* `PoolsReady`: the pools of a published store exist, while gateways make them one
  by one.
* `ConsumerConnects`: what the exporter trusted when it dialled is what the
  consumer is given, unless the operator asked not to verify.
* `RepeatedExportPublishes` (liveness): no failure leaves the provider in a state
  in which a repeated export with proper flags cannot publish.

### 4.4 ImportCluster

* `ClassesBacked`: a storage class is never there without the secrets it names.
* `MonitorsKnown`: nor without the FSID and the monitors in the namespace that is
  its cluster ID.
* `CompleteWhenDone`, `NothingReplaced`: a run that ended well has all its
  objects, and no run changes what exists.
* `PlainCompletes` (liveness): runs without custom resources end well if repeated.

### 4.5 ExternalCluster

* `ClassServed`: whoever uses a storage class of the importer reaches its pool or
  file system: the secrets exist, hold existing users and their keys, and the users'
  capabilities cover what the class is for. Left out are users that an older
  release left and that wait for an upgrade, and restricted users of an
  erasure-coded pool: the exporter gives them no capability for the metadata
  pool.
* `JsonServed`: the same of the JSON output within itself.
* `KeepsPromise`: the composition implements `ConsumerPromise`.

### 4.6 ToolboxWatch

* `RememberedIsWritten`: a remembered change time means an up-to-date
  `ceph.conf`.
* `FollowsMonitors` (liveness): when the monitors stay what they are, `ceph.conf`
  names them for good.

### 4.7 NodeInit

* `NoForeignCni`: once the wrapper has handed over to the real kubelet,
  containerd runs and Cilium's CNI configuration is the only one.
* `AgentReady` (liveness): on a node where the release stays installed the agent
  gets to run, under the kubelet the wrapper hands over to, unless the node died
  before the wrapper was written.
* `DeinitReverts` (liveness): on a node where it stays uninstalled `prestop.bash`
  comes to an end and the real kubelet is back.
* `KubeletKept`: wherever a node dies and however often the scripts run, the
  real kubelet is in its place or under its other name, never overwritten.

Each component also has one type invariant (`TypeOK`, `TestsTypeOK`). Those of
`ImportCluster` and `NodeInit` are in no run, since they are proved (section 6)
and no slip of the scripts would show in them.

## 5. What the runs found

1. Overlapping upgrades take capabilities away (line 1936).
2. `--dry-run` initialises the pool and creates and pins groups (1334, 1360, 1387).
3. Upgrading a CephFS user without `--cephfs-filesystem-name`, which the help
   calls mandatory, gives it all file systems (864, 887).
4. The toolbox loses a fail-over that happens while it starts
   (`toolbox.yaml` line 57).
5. The importer never gets past the wait for a custom resource (119, 124).

Seen while modelling, not a run of their own:

* a monitor with two v2 addresses and no v1 address (dual stack, `ms_bind_msgr1` off)
  passes the check that refuses a lone v2 address (702) and is printed with a v2
  port nobody asked for; `MonitorIsReachable` assumes that there is none;
* names can collide (924); release 17 prints the name of `--run-as-user` with the
  key of `client.healthchecker`; the legacy cluster flag of release 18 is not read
  by `--upgrade`; a failing `auth get` is reported as "not found for upgrading"
  (1909); `--restricted-auth-permission false` is true, as any non-empty string;
* a namespace of digits only is rejected, because `islower()` of it is false;
* a CephFS file system without a data pool has no users, and the JSON output,
  which asks for them, ends in a `KeyError`; `main` swallows that and other
  exceptions, prints nothing and exits with 0;
* the RGW endpoint is published without a user when `radosgw-admin` fails (1617,
  1622), and the result of `validate_rgw_multisite` is overwritten;
* the wrapper of node init, if it is killed between writing its configuration and
  enabling containerd, leaves containerd disabled.

## 6. Proofs

TLC checks the instances above; TLAPS proves, for every value of the constants
that satisfies the named assumptions:

| Theorem | States | Assumes |
|---|---|---|
| `CephExportProofs`: `TypesHold` | `Spec => []TypeOK` | `WordAssumption`, `RunAssumption`, `LegacyAssumption` |
| `CredentialsStayValid` | `Spec => []CredentialsValid` | also `DefaultChecker17`: no command line of release 17 renames the checker |
| `TenantsStayConfined` | `Spec => []RestrictedConfined` | also that the older release left no tenant's RBD user on all pools |
| `NobodyLosesCapabilities`, `UpgradesAreComplete`, `NoPrefixIsInvented` | `Spec => CapsNeverShrink`, `Spec => []UpgradeComplete`, `Spec => NoPrefixInvented` | also `~ConcurrentUpgrades` |
| `PoolsMatch`, `GroupsAreReady` | `Spec => []PoolOfFileSystem`, `Spec => []GroupsReady` | as `TypesHold` |
| `CredentialsAreSufficient` | `Spec => []CredentialsSuffice` | `DefaultChecker17`, `~ConcurrentUpgrades`, `NamesTellApart` |
| `SimpleNamesTellApart` | `SimpleNames => NamesTellApart` | as `TypesHold` |
| `ExporterTestsProofs`: `TypesHold`, `PortsAreChecked`, `FamiliesAgree`, `PoolsBelong`, `RepetitionAgrees`, `DoubleKnowsAll` | `TestsTypeOK`, `PortUsable`, `OneFamily`, `PoolBelongs`, `RepeatedCallAgrees`, `DoubleAnswers` | `DiscoveryAssumption`, `FamilyAssumption`, `TestsAssumption` (the tests' values are names) |
| `ScrapingSurvives`, `MonitorIsReachable` | `SurvivesFailover`, `MonAddressUsable` | also `ManagersNamed`, respectively `UsualAddrVecs` |
| `RgwAdminProofs`: `TypesHold`, `KeysStayValid`, `InfoStaysGranted`, `PublishedIsOwn`, `PoolsStayReady`, `ConsumersConnect` | the six invariants of `RgwAdmin` | `HostAssumption`, `RgwAssumption` |
| `ImportClusterProofs`: `TypesHold`, `ClassesStayBacked`, `MonitorsStayKnown`, `DoneIsComplete`, `NothingIsReplaced` | `TypeOK`, `ClassesBacked`, `MonitorsKnown`, `CompleteWhenDone` and `NothingReplaced` | `EnvAssumption`: an environment that names a storage class's pool gives the class's users |
| `NoRunPassesAWait` | a run with a RADOS namespace or a subvolume group is never done | as `TypesHold` |
| `ExternalClusterProofs`: `PromiseKept` | `AllSpec => KeepsPromise` | those of `CephExport`, `DefaultChecker17`, `OsdAssumption` |
| `JsonStaysServed`, `ClassesAreServed` | `AllSpec => []JsonServed`, `AllSpec => []ClassServed` | also `~ConcurrentUpgrades`, `NamesTellApart` |
| `ToolboxWatchProofs`: `TypesHold`, `NoLostUpdate` | `Spec => []TypeOK`, `Spec => []RememberedIsWritten` | the second one `QuietStart`, `DistinctTimes` |
| `NodeInitProofs`: `TypesHold`, `PodsStayCilium`, `KubeletSurvives` | `Spec => []TypeOK`, `Spec => []NoForeignCni`, `Spec => []KubeletKept` | `NodeAssumption` (either value of `Torn`) |

The assumptions on constants say that command lines, old auth databases,
environments and gateways are well-formed; nothing bounds the number of
invocations, command lines, pools, faults, users, reboots or restarts.

**`CephExport`, `TypesHold`.** `TypeOK` alone is not inductive: the handlers look at the first
element of the list they work through, and `EntityOf` needs a settled
`runAs`. `IInv` adds `StageOK`, which says for each stage what the memory holds.
Each action has a lemma; what the operators of `ExternalUsers` return is
stated once in `ExternalUsersProofs`.

**`CredentialsStayValid`.** The invariant `CredInv` extends the property to
credentials that are collected and not yet printed. It is kept because no
action removes a user or changes its key (`KeysKept`), and because the user that
is printed is the one that was looked up (`PrintedUser`). The last point is
where release 17 needs its assumption: it creates `client.healthchecker` and prints
the name of `--run-as-user`.

**`TenantsStayConfined`.** `ConfInv` says that whoever is about to create or
upgrade a user has passed the check for mandatory flags (so the pool is set), that an upgrade
of a tenant's user has switched to restricted permissions, and that what it has
read is confined. No assumption about overlapping upgrades is needed: stale
capabilities are confined too.

**`NobodyLosesCapabilities`.** `SeenInv`: at most one invocation upgrades, and what
it has read of a user is all that user has. Exports keep this true
because they change no user that exists (`UsersKept`). The run
`concurrent_upgrades` shows that the assumption is needed.

**`UpgradesAreComplete`, `NoPrefixIsInvented`.** `UpInv` says that for some `n` the
first `n` users of the list have been handled and the others are still to do. What has
been handled stays so although the flags change on the way: the switch to restricted
permissions is one of the two cases that the property allows, and the RGW prefix is
replaced only at the default checker, the fifth user, after users whose
capabilities do not depend on it (`CsiCapsAlike`). The same position is the reason
that no prefix is invented: up to there the prefix is the one of the command
line, and there it may become one that the checker had.

**`PoolsMatch`, `GroupsAreReady`.** A lemma about `SelectCephfs` says that what
it chooses is listed by the provider; `FsInv` carries the choice through the stages of
an export, and says of each group that it is made and pinned or still on the
list.

**`CredentialsAreSufficient`.** A credential is printed for a user that some
invocation made, perhaps another one with other flags. `SuffInv` says of every user that
no older release left that it was created for somebody: its capabilities cover
those of some settled flags that give it its name (`CreatedFor`). They stay so
because nobody loses a capability (`CapsKept`, where `~ConcurrentUpgrades` is needed), and
they are those of whoever finds the user because one name means one set of
capabilities (`NamesTellApart`). `Settled` are the flags an export may end up
with, after the file system has been chosen for it. `NamesTellApart` says something of
all pairs of command lines; `SimpleNamesTellApart` reduces it to rules that an
operator can follow: no `-` in a name part, one alias per pool, checkers named as
checkers, and one RGW prefix for all exports that share a checker. Then a name can be
taken apart into the flags it was made of.

**`ExporterTests`.** One fixture holds for a whole behaviour; each has an invariant.
For discovery, `MemOK` says what an export holds at each stage: an address of the
monitor it remembers, a port that was checked before the first host was converted,
addresses of the hosts' family, and for each manager that `status` named that it
is still to be converted or has been (`KnownOK`). The last one makes fail-overs
harmless, since it does not mention who is active; that the list of standbys has no
repetition is needed for the type of the manager map (`DistinctStandbys`). For the
file system tests, `CallOK` says that after a call the flags are a fixed point
of `SelectCephfs` and the call's end is what `SelectCephfs` says; `SelectStable` proves the
fixed point for every list of file systems with different names, also where the
call raises after it has rewritten one flag. For the user tests, `UserFlags` are the
three objects that the tests' assignments lead to; the name and the lists made of
each are computed and found in the double's table. For the upgrades this needs what
`Deduped` makes of the lists that are appended: `DedupedTwice` and `DedupedCopy` say
that a list followed by itself, or by one that continues it, gives the new list, in
its order.

**`RgwAdmin`.** `IInv` adds to `TypeOK` what an export knows at each stage: the keys
it holds are the user's (nothing changes them once they exist), the capability it
believes granted is granted, the dial it remembers fits the gateway, pools and
identity were seen before `print`.

**`ImportCluster`.** `Progress` says that the objects of the steps a run has
passed exist; a lemma on plans (`Plan` puts the secrets of a class before the class)
gives `ClassesBacked` and `CompleteWhenDone`, and one that it puts the monitors
before the class too (`ClassAfterMonitors`) gives `MonitorsKnown`. Objects are only ever added (`Grows`).
The same invariant gives the universal form of what the run `import_wait` shows
(`NoRunPassesAWait`): the steps a run has passed are all creations, so it has
passed no wait.

**`PromiseKept`.** Initial states map to initial states. A step of an export
either leaves the keys alone or adds one user with a fresh key (`issued` makes it
fresh); a step of an importer adds nothing, a secret or a class. That the
secret's user and key are the provider's comes from `CredentialsStayValid`,
carried from the output (`ShellOut`) through the environment to the object;
that the class's secrets are there comes from the invariant of
`ImportClusterProofs`, used through the instance. `EnvAssumption`, an assumption
there, is proved here: `_gen_output_map` has collected all CSI users before it prints
(`ListInv`).

**`ClassesAreServed`, `JsonStaysServed`.** What an export has found out is followed
through four places: the users of its output reach what the invocation asked
for (`JsonStaysServed`, from `SuffInv`); so do those of the environment that an
importer was started with (`EnvReach`); a secret is named after the user it holds, with
that user's key (`SecretOK`); and the secrets of a class hold users that reach what the
class is for (`Serves`). Because of the names it does not matter which importer made a
secret that a later one finds: it holds the user that the later environment
names. Users only gain capabilities (`Kept`) and objects never change (`Grown`), so
all of it stays true while exports, upgrades and imports go on.

**`NoLostUpdate`.** The invariant adds that remembered times are not in the future
(`TimesPast`), what `write_endpoints` has read (`HasRead`) and that the file is
current while the loop is being set up (`SetUp`). The run `toolbox_start` shows
that `QuietStart` is needed; without `DistinctTimes` two publications within one tick of
the clock look the same to the loop.

**`PodsStayCilium`.** `WrapperInv` says what each stage of the wrapper has
achieved, and that the cloud's CNI configuration cannot come back once the
template is gone, whoever starts containerd; `ScriptInv` says that the scripts'
steps that need a kubelet happen while one runs, and that `startup.bash` and
`prestop.bash` never run at the same time, since only the latter restores the template.

**`KubeletSurvives`.** That `mv` is reached only when the kubelet is still the real
one is an invariant of its own, `KubeletInv`: it ties each stage of `startup.bash` to what is in the
kubelet's place, also after a death between any two commands.

Left to TLC: liveness (`FollowsMonitors`, `PlainCompletes`, `AgentReady`,
`DeinitReverts`, `RepeatedExportPublishes`, `ExportEnds`), which is out of the
prover's reach. Every safety and action property of a passing run has its
theorem.

## 7. Not modelled

* **Exporter**: `--config-file`, `--output`, and the order and wording of what is
  printed: input and output without a decision.
* **Exporter, tests through `main()`**: they compare printed text of subprocesses.
* **Toolbox, keyring**: written once before the loop and never looked at again.
* **Node init, other platforms**: the branches for kubelets configured by
  `/etc/default/kubelet`, for Azure and for the removal of iptables rules are
  commands without state that a later step reads.
* **SPIRE init**: a loop of `entry show || entry create` whose state is the
  server's; what happens when `set -e` ends it is decided by Kubernetes.
* **Evicted-pod reaper**: one pipeline in a note. Its hazard, a name in use again,
  depends on controllers outside the repository.
* **OSD activation**: a pod generated by Rook and pasted for debugging; its state is
  in LVM and in the output of `ceph-volume`.
* **Image mirror generator**: prints a list of docker commands once, sequentially.
* **Charts, manifests, installers, notes**: configuration and straight-line
  commands for third-party programs.
