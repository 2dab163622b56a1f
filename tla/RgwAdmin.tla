------------------------------ MODULE RgwAdmin ------------------------------
(***************************************************************************)
(* The object-store part of create-external-cluster-resources.py: exports  *)
(* with --rgw-endpoint create one admin-ops user on the provider, give it  *)
(* the capability to read the cluster's identity, call the endpoint with   *)
(* the user's keys, and publish the endpoint if it belongs to the cluster. *)
(* Exports overlap, fail, die and are repeated; gateways go and come back. *)
(***************************************************************************)
EXTENDS Endpoints, FiniteSets

CONSTANTS
    Run,        \* the exports; one that published nothing is repeated
    Lines,      \* the flags they are given, as functions of Run
    Gateway,    \* what answers at an endpoint: its server, its cluster, ...
    Fsid,       \* the identity of the provider cluster
    Prefixes,   \* the RGW pool prefixes in use
    MaxFaults,  \* how often a command fails, a process dies, a gateway stops
    NoKey

RgwFlags ==
    [host : Host, port : Int, brackets : BOOLEAN, multisite : {"all", "some", "none"},
     siteKnown : BOOLEAN, skipTls : BOOLEAN, cert : BOOLEAN, prefix : Prefixes,
     dryRun : BOOLEAN]

\* The pools of an object store; ".rgw.root" belongs to all of them.
PoolsOf(prefix) ==
    {<<prefix, "meta">>, <<"", "root">>, <<prefix, "control">>, <<prefix, "log">>}

ASSUME RgwAssumption ==
    /\ \A l \in Lines : l \in [Run -> RgwFlags]
    /\ Gateway \in [Host -> [server : Server, fsid : STRING, realm : BOOLEAN]]
    /\ Fsid # "denied" /\ MaxFaults \in Nat /\ NoKey \notin Nat

VARIABLES
    user,       \* the admin-ops user: whether it exists, its key, its caps
    infoKnown,  \* this release of radosgw-admin knows the capability "info"
    pools,      \* the RGW pools that exist, as <<prefix, pool>>
    up,         \* the gateways that answer
    faults,     \* how much has gone wrong
    pc, mem     \* the exports: the next command, and what the process holds

provider == <<user, infoKnown, pools, up>>
vars == <<user, infoKnown, pools, up, faults, pc, mem>>

BaseCaps == {"buckets", "users", "usage", "metadata", "zone"}
NoUser == [exists |-> FALSE, key |-> 0, caps |-> {}]

\* flags; the keys, the capability flag and the dial's result; what is printed.
Blank(f) == [flags |-> f, key |-> NoKey, info |-> FALSE, dial |-> Unreachable,
             published |-> FALSE, cert |-> FALSE]

TypeOK ==
    /\ user \in [exists : BOOLEAN, key : Nat, caps : SUBSET (BaseCaps \cup {"info"})]
    /\ infoKnown \in BOOLEAN
    /\ pools \subseteq UNION {PoolsOf(p) : p \in Prefixes}
    /\ up \subseteq Host /\ faults \in 0 .. MaxFaults
    /\ pc \in [Run -> {"start", "create", "query", "caps", "dial", "identify",
                       "pools", "print", "done", "failed"}]
    /\ mem \in [Run -> [flags : RgwFlags, key : Nat \cup {NoKey}, info : BOOLEAN,
                        dial : [base : {"", "http", "https"},
                                verify : {"", "nothing", "given", "system"}],
                        published : BOOLEAN, cert : BOOLEAN]]

\* The user may be there from an export by an older release.
Init ==
    /\ user \in {NoUser, [exists |-> TRUE, key |-> 1, caps |-> BaseCaps]}
    /\ infoKnown \in BOOLEAN
    /\ pools = {} /\ up = Host /\ faults = 0
    /\ pc = [r \in Run |-> "start"]
    /\ \E l \in Lines : mem = [r \in Run |-> Blank(l[r])]

-----------------------------------------------------------------------------
Goto(r, stage, m) ==
    /\ pc' = [pc EXCEPT ![r] = stage]
    /\ mem' = [mem EXCEPT ![r] = m]

Fault == faults < MaxFaults /\ faults' = faults + 1

\* An exception ends the export; nothing is printed.
Fail(r) == Goto(r, "failed", Blank(mem[r].flags))

\* Faulty: the error, -1, is taken for the key.
WithoutUserError(r) == Goto(r, "dial", [mem[r] EXCEPT !.key = -1, !.info = FALSE])

\* radosgw-admin gave no user: the keys are None and the export goes on.
WithoutUser(r) == Goto(r, "dial", [mem[r] EXCEPT !.key = NoKey, !.info = FALSE])

\* validate_rgw_multisite only sets a result that is overwritten: a realm, zone
\* group or zone that is not known shows when radosgw-admin is given the zone.
SiteKnown(f) == f.multisite = "none" \/ f.siteKnown

\* Missing parameters of a multisite are a message, nothing more.  A dry run
\* prints one command.
Start(r) ==
    /\ pc[r] = "start"
    /\ Goto(r, IF mem[r].flags.dryRun \/ mem[r].flags.multisite = "some"
               THEN "done" ELSE "create", mem[r])
    /\ UNCHANGED <<provider, faults>>

\* "radosgw-admin user create" makes the user with its keys, or says that it
\* exists; it fails for a zone that is not known.
CreateUser(r) ==
    /\ pc[r] = "create"
    /\ LET known == SiteKnown(mem[r].flags)
       IN  \/ /\ known /\ ~user.exists
              /\ user' = [exists |-> TRUE, key |-> user.key + 1, caps |-> BaseCaps]
              /\ Goto(r, "caps", [mem[r] EXCEPT !.key = user.key + 1])
              /\ UNCHANGED faults
           \/ /\ known /\ user.exists
              /\ Goto(r, "query", mem[r])
              /\ UNCHANGED <<user, faults>>
           \/ /\ IF known THEN Fault ELSE UNCHANGED faults
              /\ WithoutUser(r)
              /\ UNCHANGED user
    /\ UNCHANGED <<infoKnown, pools, up>>

\* Faulty: a user that exists gets new keys, or is left as it is.
QueryRekeyed(r) ==
    /\ pc[r] = "query"
    /\ user' = [user EXCEPT !.key = @ + 1]
    /\ Goto(r, "caps", [mem[r] EXCEPT !.key = user.key + 1])
    /\ UNCHANGED <<infoKnown, pools, up, faults>>
QuerySkipsCaps(r) ==
    /\ pc[r] = "query"
    /\ Goto(r, "dial", [mem[r] EXCEPT !.key = user.key])
    /\ UNCHANGED <<provider, faults>>

\* "radosgw-admin user info" of a user that exists.
QueryUser(r) ==
    /\ pc[r] = "query"
    /\ \/ /\ Goto(r, "caps", [mem[r] EXCEPT !.key = user.key])
          /\ UNCHANGED faults
       \/ Fault /\ WithoutUser(r)
    /\ UNCHANGED provider

\* "radosgw-admin caps add info=read", which older releases refuse.
AddInfoCap(r) ==
    /\ pc[r] = "caps"
    /\ \/ /\ user' = IF infoKnown THEN [user EXCEPT !.caps = @ \cup {"info"}] ELSE user
          /\ Goto(r, "dial", [mem[r] EXCEPT !.info = infoKnown])
          /\ UNCHANGED faults
       \/ Fault /\ WithoutUser(r) /\ UNCHANGED user
    /\ UNCHANGED <<infoKnown, pools, up>>

\* validate_rgw_endpoint_tls_cert: the certificate that was given, if any.
TlsCert(f) == f.cert

\* The certificate is printed whatever became of the endpoint.
Finish(r, m, published) ==
    Goto(r, "print", [m EXCEPT !.published = published, !.cert = TlsCert(m.flags)])

DialEndpoint(r) ==
    /\ pc[r] = "dial"
    /\ LET f == mem[r].flags
           dial == IF f.host \in up
                   THEN EndpointDial(Gateway[f.host].server, f.skipTls, f.cert)
                   ELSE Unreachable
           m == [mem[r] EXCEPT !.dial = dial]
       IN  IF InvalidEndpoint(f.host, f.port) = "raised" THEN Fail(r)
           ELSE IF dial = Unreachable THEN Finish(r, m, FALSE)
           ELSE Goto(r, IF m.info THEN "identify" ELSE "pools", m)
    /\ UNCHANGED <<provider, faults>>

-----------------------------------------------------------------------------
(***************************************************************************)
(* S3Auth signs the request with the secret key over the method, the date  *)
(* and the resource: "/" bucket "/" path.  The bucket is what precedes the *)
(* service's base in the host of the URL; the service is the endpoint      *)
(* itself, so there is none.  The gateway computes the same resource from  *)
(* its own host name.                                                      *)
(***************************************************************************)
Netloc(f) == <<f.host, f.port>>
Bucket(netloc, service) == SubSeq(netloc, 1, Len(netloc) - Len(service))

\* Faulty: the default of S3Auth, the AWS service.
SignAws(f, key) ==
    [key |-> key, resource |-> Bucket(Netloc(f), <<"s3.amazonaws.com">>) \o <<"admin/info">>]

Sign(f, key) ==
    [key |-> key, resource |-> Bucket(Netloc(f), Netloc(f)) \o <<"admin/info">>]

\* What a gateway answers: its cluster, to a known user with the capability.
Answer(g, signed) ==
    IF g.realm /\ signed = [key |-> user.key, resource |-> <<"admin/info">>]
       /\ "info" \in user.caps
    THEN g.fsid ELSE "denied"

\* Faulty: any cluster that answers will do.
IdentifyAny(r) ==
    /\ pc[r] = "identify"
    /\ Goto(r, "pools", mem[r])
    /\ UNCHANGED <<provider, faults>>

\* get_rgw_fsid: a gateway that stopped since the dial, or a URL without the
\* brackets that the dial had added, is an exception; a timeout is not.
IdentifyCluster(r) ==
    /\ pc[r] = "identify"
    /\ LET f == mem[r].flags
           answer == Answer(Gateway[f.host], Sign(f, mem[r].key))
       IN  \/ /\ f.host \in up /\ (IpType[f.host] = "IPv6" => f.brackets)
              /\ IF answer = Fsid THEN Goto(r, "pools", mem[r])
                                  ELSE Finish(r, mem[r], FALSE)
              /\ UNCHANGED faults
           \/ /\ ~(f.host \in up /\ (IpType[f.host] = "IPv6" => f.brackets))
              /\ Fail(r)
              /\ UNCHANGED faults
           \/ Fault /\ Finish(r, mem[r], FALSE)
    /\ UNCHANGED provider

\* Faulty: only the first pool is looked for.
CheckFirstPool(r) ==
    /\ pc[r] = "pools"
    /\ LET f == mem[r].flags IN
       Finish(r, mem[r], f.prefix # "default" => <<f.prefix, "meta">> \in pools)
    /\ UNCHANGED <<provider, faults>>

CheckPools(r) ==
    /\ pc[r] = "pools"
    /\ LET f == mem[r].flags IN
       Finish(r, mem[r], f.prefix # "default" => PoolsOf(f.prefix) \subseteq pools)
    /\ UNCHANGED <<provider, faults>>

\* gen_json_out on the object store: a storage class and a secret with the keys,
\* if an endpoint is published, and the certificate, if one was given.
JsonObjectStore(m) ==
    [class |-> IF m.published
               THEN {[endpoint |-> m.flags.host, poolPrefix |-> m.flags.prefix]} ELSE {},
     admin |-> IF m.published THEN {m.key} ELSE {},
     cert |-> IF m.cert THEN {m.flags.host} ELSE {}]

PrintOutput(r) ==
    /\ pc[r] = "print"
    /\ Goto(r, "done", mem[r])
    /\ UNCHANGED <<provider, faults>>

-----------------------------------------------------------------------------
\* The process dies, or a command of another part of the export fails.
Abort(r) ==
    /\ pc[r] \notin {"start", "done", "failed"}
    /\ Fault /\ Fail(r)
    /\ UNCHANGED provider

\* An operator whose export died or published no endpoint repeats it.
Rerun(r) ==
    /\ pc[r] = "failed" \/ (pc[r] = "done" /\ ~mem[r].published)
    /\ Goto(r, "start", Blank(mem[r].flags))
    /\ UNCHANGED <<provider, faults>>

\* A gateway creates the pools of its zone when it needs them, one by one.  The
\* default ones, and those that no export asks for, are never looked for.
MakePool ==
    /\ \E r \in Run : LET prefix == mem[r].flags.prefix IN
         /\ prefix # "default"
         /\ \E q \in PoolsOf(prefix) \ pools : pools' = pools \cup {q}
    /\ UNCHANGED <<user, infoKnown, up, faults, pc, mem>>

GatewayStops ==
    /\ Fault
    /\ \E h \in up : up' = up \ {h}
    /\ UNCHANGED <<user, infoKnown, pools, pc, mem>>

GatewayStarts ==
    /\ up # Host /\ up' = Host
    /\ UNCHANGED <<user, infoKnown, pools, faults, pc, mem>>

Step(r) ==
    \/ Start(r) \/ CreateUser(r) \/ QueryUser(r) \/ AddInfoCap(r)
    \/ DialEndpoint(r) \/ IdentifyCluster(r) \/ CheckPools(r) \/ PrintOutput(r)
    \/ Rerun(r)

Next ==
    \/ \E r \in Run : Step(r) \/ Abort(r)
    \/ MakePool \/ GatewayStops \/ GatewayStarts

\* Operators repeat what failed, gateways come back and make their pools.
Spec ==
    /\ Init /\ [][Next]_vars
    /\ \A r \in Run : WF_vars(Step(r))
    /\ WF_vars(MakePool) /\ WF_vars(GatewayStarts)

-----------------------------------------------------------------------------
Printed(r) == pc[r] = "done" /\ mem[r].published

\* The keys an export prints are the ones the admin-ops user has, for all
\* exports and all time, and the user can do what Rook needs it for.
KeysValid ==
    \A r \in Run : pc[r] = "done" /\ mem[r].key # NoKey =>
        user.exists /\ user.key = mem[r].key /\ BaseCaps \subseteq user.caps

\* A published endpoint is one of this very cluster, wherever the capability to
\* ask it could be granted: another cluster of the realm knows the keys as well.
OwnCluster ==
    \A r \in Run : Printed(r) /\ mem[r].info =>
        Gateway[mem[r].flags.host].fsid = Fsid /\ Gateway[mem[r].flags.host].realm

\* An export that died between the creation of the user and "caps add" is made
\* good by the next one that publishes keys.
InfoGranted ==
    \A r \in Run :
        pc[r] = "done" /\ JsonObjectStore(mem[r]).admin \ {NoKey} # {} /\ infoKnown =>
            "info" \in user.caps

\* The consumer is told where its buckets are, so the pools are there.
PoolsReady ==
    \A r \in Run : pc[r] = "done" =>
        \A class \in JsonObjectStore(mem[r]).class :
            class.poolPrefix # "default" => PoolsOf(class.poolPrefix) \subseteq pools

\* The consumer can connect to a published endpoint: in clear, or trusting a
\* public authority, or with the certificate printed with the endpoint; or the
\* operator asked not to verify.
ConsumerConnects ==
    \A r \in Run : pc[r] = "done" =>
        \A class \in JsonObjectStore(mem[r]).class :
            LET server == Gateway[class.endpoint].server IN
            \/ server.http \/ server.tls = "public"
            \/ /\ server.tls = "private"
               /\ \/ class.endpoint \in JsonObjectStore(mem[r]).cert
                  \/ mem[r].flags.skipTls

\* Flags that should work, on this provider.
Good(f) ==
    /\ ~f.dryRun /\ f.multisite # "some" /\ (f.multisite = "all" => f.siteKnown)
    /\ InvalidEndpoint(f.host, f.port) # "raised"
    /\ IpType[f.host] = "IPv6" => f.brackets
    /\ Gateway[f.host].realm /\ Gateway[f.host].fsid = Fsid
    /\ EndpointDial(Gateway[f.host].server, f.skipTls, f.cert) # Unreachable

\* No failure and no death leaves the provider in a state in which a repeated
\* export cannot publish the endpoint.
RepeatedExportPublishes ==
    \A r \in Run : Good(mem[r].flags) => <>Printed(r)

=============================================================================
