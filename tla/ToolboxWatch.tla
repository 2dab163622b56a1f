---------------------------- MODULE ToolboxWatch ----------------------------
(***************************************************************************)
(* The shell loop of the rook-ceph-tools pod (toolbox.yaml): it writes     *)
(* /etc/ceph/ceph.conf from the mounted mon-endpoints file and watches the *)
(* change time of that file for fail-overs of the monitors.  The kubelet   *)
(* publishes a new version of the mounted ConfigMap at any moment: it      *)
(* makes a new directory, swings the link that MON_CONFIG goes through to  *)
(* it and removes the old one.  Reading the file, resolving the link and   *)
(* reading the change time are separate commands of the loop, and the      *)
(* container can die between any two of them.                              *)
(***************************************************************************)
EXTENDS Naturals, Sequences

CONSTANTS
    Addr,           \* addresses of monitors
    Endpoints,      \* the monitor lists that can be published
    MaxPublished,   \* how many versions are published at most
    MaxRestarts,    \* how often the container dies at most
    QuietStart,     \* TRUE: nothing is published while the loop is set up
    DistinctTimes   \* TRUE: no two versions have the same change time

\* A monitor list is a sequence of entries "name=address".
ASSUME EndpointsAssumption ==
    /\ Endpoints # {}
    /\ \A e \in Endpoints : e \in Seq([name : STRING, addr : Addr])
    /\ MaxPublished \in Nat /\ MaxRestarts \in Nat
    /\ QuietStart \in BOOLEAN /\ DistinctTimes \in BOOLEAN

VARIABLES
    published,      \* the versions of the mounted file, the current one last
    conf,           \* the mon_host of ceph.conf
    pc,             \* the next command of the shell
    starting,       \* write_endpoints was called before watch_endpoints
    endpoints,      \* shell variable of write_endpoints
    realPath,       \* shell variable: the version the link led to
    initialTime,    \* shell variable
    latestTime,     \* shell variable
    restarts        \* how often the container has died

shell == <<pc, starting, endpoints, realPath, initialTime, latestTime>>
vars == <<published, conf, shell, restarts>>

Version == [data : Endpoints, ctime : Nat \ {0}]
Current == published[Len(published)]

\* What stat prints for a file that is gone.
NoTime == 0

\* stat -c %Z on a resolved path: only the current version still exists.
ChangeTime(path) == IF path = Len(published) THEN Current.ctime ELSE NoTime

\* Faulty: the names are kept and the addresses are filtered out.
MonHostNames(e) == [i \in DOMAIN e |-> e[i].name]

\* The names are filtered out of the list (they match [a-z0-9_-]).
MonHost(e) == [i \in DOMAIN e |-> e[i].addr]
Truncated == << >>
Unread == << >>

Stages == {"read", "truncate", "fill", "resolveInitial", "statInitial",
           "resolve", "stat", "compare", "sleep"}

TypeOK ==
    /\ published \in Seq(Version) /\ published # << >>
    /\ conf \in Seq(Addr)
    /\ pc \in Stages /\ starting \in BOOLEAN
    /\ endpoints \in Endpoints \cup {Unread}
    /\ realPath \in 0 .. Len(published)
    /\ initialTime \in Nat /\ latestTime \in Nat
    /\ restarts \in 0 .. MaxRestarts

\* The environment variables and the keyring are in place; the script begins.
Init ==
    /\ \E e \in Endpoints : published = <<[data |-> e, ctime |-> 1]>>
    /\ conf = Truncated
    /\ pc = "read" /\ starting = TRUE /\ endpoints = Unread
    /\ realPath = 0 /\ initialTime = NoTime /\ latestTime = NoTime
    /\ restarts = 0

-----------------------------------------------------------------------------
(***************************************************************************)
(* write_endpoints: read the mounted file, open ceph.conf, which empties   *)
(* it, and fill it.  It returns to the main program or to the loop.        *)
(***************************************************************************)
ReadEndpoints ==
    /\ pc = "read"
    /\ endpoints' = Current.data
    /\ pc' = "truncate"
    /\ UNCHANGED <<published, conf, starting, realPath, initialTime, latestTime,
                   restarts>>

TruncateConf ==
    /\ pc = "truncate"
    /\ conf' = Truncated
    /\ pc' = "fill"
    /\ UNCHANGED <<published, starting, endpoints, realPath, initialTime,
                   latestTime, restarts>>

\* Faulty: the time is taken again after the file was written.
FillConfThenStat ==
    /\ pc = "fill"
    /\ conf' = MonHost(endpoints)
    /\ pc' = IF starting THEN "resolveInitial" ELSE "sleep"
    /\ initialTime' = IF starting THEN initialTime ELSE Current.ctime
    /\ starting' = FALSE
    /\ UNCHANGED <<published, endpoints, realPath, latestTime, restarts>>

\* The time that is remembered is the one seen before the file was read.
FillConf ==
    /\ pc = "fill"
    /\ conf' = MonHost(endpoints)
    /\ pc' = IF starting THEN "resolveInitial" ELSE "sleep"
    /\ initialTime' = IF starting THEN initialTime ELSE latestTime
    /\ starting' = FALSE
    /\ UNCHANGED <<published, endpoints, realPath, latestTime, restarts>>

-----------------------------------------------------------------------------
(***************************************************************************)
(* watch_endpoints.                                                        *)
(***************************************************************************)
ResolveInitial ==
    /\ pc = "resolveInitial"
    /\ realPath' = Len(published)
    /\ pc' = "statInitial"
    /\ UNCHANGED <<published, conf, starting, endpoints, initialTime, latestTime,
                   restarts>>

StatInitial ==
    /\ pc = "statInitial"
    /\ initialTime' = ChangeTime(realPath)
    /\ pc' = "resolve"
    /\ UNCHANGED <<published, conf, starting, endpoints, realPath, latestTime,
                   restarts>>

\* Faulty: the link is resolved once, before the loop.
ResolveOnce ==
    /\ pc = "resolve"
    /\ pc' = "stat"
    /\ UNCHANGED <<published, conf, starting, endpoints, realPath, initialTime,
                   latestTime, restarts>>

Resolve ==
    /\ pc = "resolve"
    /\ realPath' = Len(published)
    /\ pc' = "stat"
    /\ UNCHANGED <<published, conf, starting, endpoints, initialTime, latestTime,
                   restarts>>

StatLatest ==
    /\ pc = "stat"
    /\ latestTime' = ChangeTime(realPath)
    /\ pc' = "compare"
    /\ UNCHANGED <<published, conf, starting, endpoints, realPath, initialTime,
                   restarts>>

CompareTimes ==
    /\ pc = "compare"
    /\ pc' = IF latestTime # initialTime THEN "read" ELSE "sleep"
    /\ UNCHANGED <<published, conf, starting, endpoints, realPath, initialTime,
                   latestTime, restarts>>

Sleep ==
    /\ pc = "sleep"
    /\ pc' = "resolve"
    /\ UNCHANGED <<published, conf, starting, endpoints, realPath, initialTime,
                   latestTime, restarts>>

-----------------------------------------------------------------------------
\* The container dies; the kubelet starts the script again, ceph.conf stays.
Restart ==
    /\ restarts < MaxRestarts
    /\ restarts' = restarts + 1
    /\ pc' = "read" /\ starting' = TRUE /\ endpoints' = Unread
    /\ realPath' = 0 /\ initialTime' = NoTime /\ latestTime' = NoTime
    /\ UNCHANGED <<published, conf>>

\* The set-up is between reading the file for the first time and knowing its
\* change time.
SettingUp == \/ starting /\ pc \in {"truncate", "fill"}
             \/ pc \in {"resolveInitial", "statInitial"}

\* The kubelet publishes a version that differs from the current one.
Publish ==
    /\ Len(published) < MaxPublished
    /\ QuietStart => ~SettingUp
    /\ \E e \in Endpoints \ {Current.data}, later \in BOOLEAN :
         /\ DistinctTimes => later
         /\ published' = Append(published,
                [data |-> e,
                 ctime |-> IF later THEN Current.ctime + 1 ELSE Current.ctime])
    /\ UNCHANGED <<conf, shell, restarts>>

Command ==
    \/ ReadEndpoints \/ TruncateConf \/ FillConf
    \/ ResolveInitial \/ StatInitial
    \/ Resolve \/ StatLatest \/ CompareTimes \/ Sleep

Next == Command \/ Restart \/ Publish

\* The shell goes on for ever; nothing has to be published and nothing has to
\* fail.
Spec == Init /\ [][Next]_vars /\ WF_vars(Command)

-----------------------------------------------------------------------------
\* While the loop waits with the change time of the current file remembered,
\* ceph.conf holds the monitors of the current file: it never believes to be up
\* to date when it is not.
RememberedIsWritten ==
    /\ pc \in {"resolve", "stat", "compare", "sleep"}
    /\ initialTime = Current.ctime
    => conf = MonHost(Current.data)

\* "Watch the endpoints config file and update if the mon endpoints ever
\* change": when the monitors stay what they are, ceph.conf names them for good.
FollowsMonitors ==
    \A e \in Endpoints : <>[](Current.data = e) => <>[](conf = MonHost(e))

=============================================================================
