------------------------- MODULE MonitoringDiscovery -------------------------
(***************************************************************************)
(* How an export finds the monitor, the dashboard and the manager          *)
(* endpoints it prints.  Each answer comes from a command of its own, names *)
(* are converted one by one, and the provider goes on meanwhile: managers  *)
(* fail over, leave and join, monitors elect another leader, the           *)
(* prometheus module is switched on and off.  The same object can also be  *)
(* connected to DummyRados, the double of the unit tests.  An export is    *)
(* repeated with other flags, as by its operator and by the tests.         *)
(***************************************************************************)
EXTENDS Endpoints

CONSTANTS
    Mgr, Mon,       \* managers and monitors of the provider
    NameOf,         \* the host name a manager goes by
    AddrVec,        \* the address vector of each monitor
    DNS,            \* DNS[host][family]: what getaddrinfo answers
    OrchHost,       \* the address of the first host of "orch host ls"
    UrlPort,        \* the port in the URL of the prometheus module
    DummyIps,       \* the addresses that DummyRados makes up
    CommandLines,   \* the flags of the exports
    NoHost, NoMon, NoMgr

DiscoveryFlags ==
    [given : BOOLEAN, hosts : Seq(Host), port : Int, skip : BOOLEAN,
     v2 : BOOLEAN, dryRun : BOOLEAN, release : {"ceph-17", "ceph-18", "master"}]

\* test_skip_monitoring_endpoint and test_v2_port_enable.
TestFlags ==
    LET setUp == [given |-> FALSE, hosts |-> << >>, port |-> NoPort, skip |-> FALSE,
                  v2 |-> FALSE, dryRun |-> FALSE, release |-> "master"]
    IN  {setUp, [setUp EXCEPT !.skip = TRUE], [setUp EXCEPT !.v2 = TRUE]}

ASSUME DiscoveryAssumption ==
    /\ NameOf \in [Mgr -> Host] /\ AddrVec \in [Mon -> Seq(AddrTypes) \ {<< >>}]
    /\ DNS \in [Host -> [Families -> Host \cup {NoHost}]]
    /\ OrchHost \in Host /\ UrlPort \in Int /\ DummyIps \subseteq Host
    /\ CommandLines \subseteq DiscoveryFlags /\ TestFlags \subseteq CommandLines
    /\ NoHost \notin Host /\ NoMon \notin Mon /\ NoMgr \notin Mgr

\* getaddrinfo is asked for one family and answers with addresses of it.
ASSUME FamilyAssumption ==
    \A h \in Host, f \in Families : DNS[h][f] # NoHost => IpType[DNS[h][f]] = f

\* Of an operator's cluster: its managers go by names, not by address literals; a
\* monitor without a v1 address has a single v2 address.
ManagersNamed == \A m \in Mgr : IpType[NameOf[m]] = "FQDN"

UsualAddrVecs ==
    \A m \in Mon : AddrVec[m] = <<"v2">> \/ PublicAddr(AddrVec[m]) = "v1"

VARIABLES
    double,     \* the object is connected to DummyRados
    byName,     \* the managers publish their URL by name, not by address
    active,     \* the active manager
    standbys,   \* the others that are up, as the manager map lists them
    prometheus, \* the prometheus module is enabled
    leader,     \* the quorum leader
    dummyMap,   \* dummy_host_ip_map
    pc, mem     \* the export: its next command and what it holds

provider == <<active, standbys, prometheus, leader>>
vars == <<double, byName, active, standbys, prometheus, leader, dummyMap, pc, mem>>

DefaultPort == 9283
MgrsUp == {active} \cup {standbys[i] : i \in DOMAIN standbys}

\* What an export holds: its flags, the hosts still to be converted, what the
\* first of them was, the addresses so far, and what it will print.  "known"
\* are the managers that "status" named (a history variable).
Blank(f) ==
    [flags |-> f, mon |-> NoMon, addr |-> "", dashboard |-> NoMgr,
     todo |-> << >>, main |-> NoHost, ipType |-> "", port |-> NoPort,
     ips |-> << >>, known |-> {}]

Stages == {"mons", "dashboard", "status", "convert", "dial", "done", "failed"}
Memory == [flags : CommandLines, mon : Mon \cup {NoMon},
           addr : AddrTypes \cup {""}, dashboard : Mgr \cup {NoMgr},
           todo : Seq(Host), main : Host \cup {NoHost},
           ipType : Families \cup {"FQDN", ""}, port : Int,
           ips : Seq(Host), known : SUBSET Mgr]

TypeOK ==
    /\ double \in BOOLEAN /\ byName \in BOOLEAN /\ prometheus \in BOOLEAN
    /\ active \in Mgr /\ standbys \in Seq(Mgr) /\ leader \in Mon
    /\ active \notin {standbys[i] : i \in DOMAIN standbys}
    /\ DOMAIN dummyMap \subseteq Host
    /\ \A h \in DOMAIN dummyMap : dummyMap[h] \in DummyIps
    /\ pc \in Stages /\ mem \in Memory

\* Managers that publish their address have one.
ManagersAddressed ==
    /\ IpType[OrchHost] \in Families
    /\ \A m \in Mgr : DNS[NameOf[m]][IpType[OrchHost]] # NoHost

Init ==
    /\ double \in BOOLEAN /\ byName \in BOOLEAN
    /\ (double => byName) /\ (byName \/ ManagersAddressed)
    /\ active \in Mgr /\ leader \in Mon /\ prometheus = TRUE
    /\ standbys \in {s \in [1 .. 2 -> Mgr \ {active}] : s[1] # s[2]}
    /\ dummyMap = << >>
    /\ pc = "failed" /\ mem = Blank(CHOOSE f \in CommandLines : TRUE)

-----------------------------------------------------------------------------
Goto(stage, m) == pc' = stage /\ mem' = m
Fail == Goto("failed", Blank(mem.flags))

\* A dry run sends nothing and prints no endpoint.
Start ==
    /\ pc \in {"done", "failed"}
    /\ \E f \in CommandLines :
         Goto(IF f.dryRun THEN "done" ELSE "mons", Blank(f))
    /\ UNCHANGED <<double, byName, provider, dummyMap>>

\* get_ceph_external_mon_data: the leader and one of its addresses.
ReadMons ==
    /\ pc = "mons"
    /\ LET addr == IF mem.flags.release = "ceph-18"
                   THEN MonAddr18(AddrVec[leader], mem.flags.v2)
                   ELSE MonAddr(AddrVec[leader], mem.flags.v2)
       IN  IF addr = "raised" THEN Fail
           ELSE Goto("dashboard", [mem EXCEPT !.mon = leader, !.addr = addr])
    /\ UNCHANGED <<double, byName, provider, dummyMap>>

\* get_ceph_dashboard_link: the active manager's, or nothing if "mgr services"
\* fails or names none.
ReadDashboard ==
    /\ pc = "dashboard"
    /\ \E link \in {active, NoMgr} :
         Goto(IF mem.flags.skip THEN "done" ELSE "status",
              [mem EXCEPT !.dashboard = link])
    /\ UNCHANGED <<double, byName, provider, dummyMap>>

\* The answer of "status": the URL of the active manager, the standbys by name.
UrlHost == IF byName THEN NameOf[active] ELSE DNS[NameOf[active]][IpType[OrchHost]]
\* Faulty: the first standby is taken for the active one.
StandbyHostsRest == [i \in DOMAIN standbys \ {Len(standbys)} |-> NameOf[standbys[i + 1]]]

StandbyHosts == [i \in DOMAIN standbys |-> NameOf[standbys[i]]]

\* The first part of get_active_and_standby_mgrs: hosts and port come from the
\* flags or from "status"; the main endpoint is checked.
FindEndpoint ==
    /\ pc = "status"
    /\ LET f == mem.flags
           hosts == IF f.given THEN f.hosts ELSE <<UrlHost>> \o StandbyHosts
           port == IF f.port # NoPort THEN f.port
                   ELSE IF f.given THEN DefaultPort ELSE UrlPort
       IN  IF \/ ~f.given /\ ~prometheus
              \/ hosts = << >>
              \/ InvalidEndpoint(hosts[1], port) = "raised"
           THEN Fail
           ELSE Goto("convert",
                     [mem EXCEPT !.todo = hosts, !.main = hosts[1], !.port = port,
                                 !.ipType = InvalidEndpoint(hosts[1], port),
                                 !.known = IF f.given THEN {} ELSE MgrsUp])
    /\ UNCHANGED <<double, byName, provider, dummyMap>>

\* Faulty: a host name is left as it is; an empty answer is taken for one.
ConvertNothing(host, ipType) == {host}
ConvertUnchecked(host, ipType) ==
    IF ipType = "FQDN" THEN {DNS[host][IpType[OrchHost]]} ELSE {host}

\* _convert_hostname_to_ip: the addresses it may return, none where it raises.
\* All hosts are treated as what the first one was; names go to the family of
\* the hosts of the provider.  DummyRados makes an address up and remembers it.
ConvertHost(host, ipType) ==
    IF double
    THEN IF IpType[host] = "IPv4" THEN {host}
         ELSE IF host \in DOMAIN dummyMap THEN {dummyMap[host]} ELSE DummyIps
    ELSE IF ipType # "FQDN" THEN {host}
    ELSE IF InvalidEndpoint(OrchHost, 80) = "FQDN" THEN {}
    ELSE {DNS[host][IpType[OrchHost]]} \ {NoHost}

Convert ==
    /\ pc = "convert"
    /\ LET host == mem.todo[1]
           answers == ConvertHost(host, mem.ipType)
       IN  \/ /\ answers = {} /\ Fail
              /\ UNCHANGED dummyMap
           \/ \E ip \in answers :
                /\ Goto(IF Len(mem.todo) = 1 THEN "dial" ELSE "convert",
                        [mem EXCEPT !.todo = Tail(@), !.ips = Append(@, ip)])
                /\ dummyMap' = IF double /\ IpType[host] # "IPv4"
                               THEN [h \in DOMAIN dummyMap \cup {host} |->
                                        IF h = host THEN ip ELSE dummyMap[h]]
                               ELSE dummyMap
    /\ UNCHANGED <<double, byName, provider>>

\* Faulty: an endpoint that does not answer is dialled until it does.
DialUntilAnswered ==
    /\ pc = "dial"
    /\ Goto("done", mem) \/ (~double /\ Goto("status", Blank(mem.flags)))
    /\ UNCHANGED <<double, byName, provider, dummyMap>>

\* The main endpoint is dialled under the name it had before the conversion;
\* an answer is up to the manager behind it.
Dial ==
    /\ pc = "dial"
    /\ Goto("done", mem) \/ (~double /\ Fail)
    /\ UNCHANGED <<double, byName, provider, dummyMap>>

\* gen_json_out on the managers: the endpoint is added if there is one.
JsonMonitoring(m) ==
    IF m.ips # << >> /\ m.port # NoPort
    THEN {[MonitoringEndpoint |-> m.ips, MonitoringPort |-> m.port]} ELSE {}

\* A command of the export fails (return_val of the double), or it is killed.
Abort ==
    /\ pc \notin {"done", "failed"}
    /\ Fail
    /\ UNCHANGED <<double, byName, provider, dummyMap>>

-----------------------------------------------------------------------------
\* The provider.  The double changes only by the tests' hands.
Without(i) == SubSeq(standbys, 1, i - 1) \o SubSeq(standbys, i + 1, Len(standbys))

Failover ==
    /\ ~double
    /\ \E i \in DOMAIN standbys :
         /\ active' = standbys[i]
         /\ \/ standbys' = Without(i)
            \/ standbys' = Append(Without(i), active)
    /\ UNCHANGED <<double, byName, prometheus, leader, dummyMap, pc, mem>>

Join ==
    /\ ~double
    /\ \E m \in Mgr \ MgrsUp : standbys' = Append(standbys, m)
    /\ UNCHANGED <<double, byName, active, prometheus, leader, dummyMap, pc, mem>>

Elect ==
    /\ ~double
    /\ leader' \in Mon \ {leader}
    /\ UNCHANGED <<double, byName, active, standbys, prometheus, dummyMap, pc, mem>>

\* "ceph mgr module enable prometheus", and the test that deletes the entry.
TogglePrometheus ==
    /\ prometheus' = ~prometheus
    /\ UNCHANGED <<double, byName, active, standbys, leader, dummyMap, pc, mem>>

Step == ReadMons \/ ReadDashboard \/ FindEndpoint \/ Convert \/ Dial
Provider == Failover \/ Join \/ Elect \/ TogglePrometheus

Next == Start \/ Step \/ Abort \/ Provider

Spec == Init /\ [][Next]_vars /\ WF_vars(Step)

-----------------------------------------------------------------------------
Printed == pc = "done" /\ ~mem.flags.dryRun
EndpointPrinted == Printed /\ JsonMonitoring(mem) # {}

\* The monitor entry names a monitor with an address that this very monitor
\* has; it is a v2 address only for those who asked with --v2-port-enable (the
\* Ceph 18 copy also prints one when there is nothing else).
MonAddressUsable ==
    Printed => /\ \E i \in DOMAIN AddrVec[mem.mon] : AddrVec[mem.mon][i] = mem.addr
               /\ mem.addr = "v2" => \/ mem.flags.v2
                                     \/ /\ mem.flags.release = "ceph-18"
                                        /\ AddrVec[mem.mon] = <<"v2">>

\* Whatever the flags, the URL and the default say, the printed port is one.
PortUsable == EndpointPrinted =>
    \A e \in JsonMonitoring(mem) : e.MonitoringPort \in Ports

\* Scraping survives fail-overs: whichever of the managers that were up when
\* the export asked is active later, its address is in the printed list.  This
\* needs a manager URL by name: otherwise the standbys are printed as names.
SurvivesFailover ==
    EndpointPrinted /\ ~double /\ byName /\ active \in mem.known =>
        \E i \in DOMAIN mem.ips :
            mem.ips[i] = DNS[NameOf[active]][IpType[OrchHost]]

\* "the endpoint ip type would be similar to host ip": once the first host is a
\* name, what is printed are addresses of the family of the provider's hosts.
OneFamily ==
    EndpointPrinted /\ ~double /\ mem.ipType = "FQDN" =>
        \A i \in DOMAIN mem.ips : IpType[mem.ips[i]] = IpType[OrchHost]

\* Every export that is started ends, however the provider changes meanwhile.
ExportEnds == []<>(pc \in {"done", "failed"})

=============================================================================
