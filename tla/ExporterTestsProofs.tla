------------------------- MODULE ExporterTestsProofs -------------------------
(***************************************************************************)
(* MonitoringDiscovery and the unit tests of the exporter, for any number  *)
(* of managers, monitors and hosts, any command lines, and any order of    *)
(* the tests' calls.  Each fixture has an invariant of its own: what an    *)
(* export holds at each stage, that the flags of the object are what the   *)
(* last call made of them, and which flags the user tests can set.         *)
(***************************************************************************)
EXTENDS ExporterTests, ExternalUsersProofs

-----------------------------------------------------------------------------
(***************************************************************************)
(* What an export holds.                                                   *)
(***************************************************************************)

\* The address printed for a manager.
AddressFor(m) == DNS[NameOf[m]][IpType[OrchHost]]

DistinctStandbys ==
    \A i, j \in DOMAIN standbys : standbys[i] = standbys[j] => i = j

\* The address is one of the monitor's; v2 was asked for or is all there is.
AddrOK(m) ==
    /\ m.mon \in Mon /\ Has(AddrVec[m.mon], m.addr)
    /\ UsualAddrVecs /\ m.addr = "v2" =>
         \/ m.flags.v2
         \/ m.flags.release = "ceph-18" /\ AddrVec[m.mon] = <<"v2">>

\* The main endpoint was checked before the first host was converted.
EndpointOK(m) ==
    m.todo # << >> \/ m.ips # << >> =>
        m.port \in Ports /\ m.main \in Host /\ m.ipType = IpType[m.main]

\* What has been converted is of the hosts' family.
FamilyOK(m, isDouble) ==
    ~isDouble /\ m.ipType = "FQDN" =>
        \A i \in DOMAIN m.ips : IpType[m.ips[i]] = IpType[OrchHost]

\* Every manager that "status" named is still to be converted, or was.
KnownOK(m, isDouble, named) ==
    ManagersNamed /\ ~isDouble /\ named =>
        \A x \in m.known :
            m.ipType = "FQDN" /\ (Has(m.todo, NameOf[x]) \/ Has(m.ips, AddressFor(x)))

MemOK(stage, m, isDouble, named) ==
    /\ stage = "convert" <=> m.todo # << >>
    /\ stage \notin {"convert", "dial", "done"} => m.ips = << >>
    /\ stage \notin {"mons", "failed"} => m.flags.dryRun \/ AddrOK(m)
    /\ EndpointOK(m) /\ FamilyOK(m, isDouble) /\ KnownOK(m, isDouble, named)

DiscoveryInv ==
    /\ TypeOK /\ DistinctStandbys /\ (byName \/ ManagersAddressed)
    /\ MemOK(pc, mem, double, byName)

-----------------------------------------------------------------------------
(***************************************************************************)
(* Lemmas about the operators.                                             *)
(***************************************************************************)

\* The address chosen from a vector is in it; a v2 address was asked for, or
\* there is no v1 address.
LEMMA MonAddrChosen ==
    ASSUME NEW v \in Seq(AddrTypes) \ {<< >>}, NEW v2 \in BOOLEAN,
           NEW addr \in {MonAddr(v, v2), MonAddr18(v, v2)}, addr # "raised"
    PROVE  /\ addr \in AddrTypes /\ Has(v, addr)
           /\ addr = "v2" => v2 \/ PublicAddr(v) = "v2"
<1>1. Len(v) \in Nat \ {0} /\ DOMAIN v = 1 .. Len(v) /\ v[1] \in AddrTypes
  BY EmptySeq, LenProperties
<1>2. PublicAddr(v) \in AddrTypes /\ Has(v, PublicAddr(v))
  BY <1>1 DEF PublicAddr, Has, AddrTypes
<1>3. Len(v) > 1 /\ "v2" \in {v[1], v[2]} => Has(v, "v2")
  BY <1>1 DEF Has
<1> QED
  BY <1>2, <1>3 DEF MonAddr, MonAddr18, AddrTypes

\* InvalidEndpoint lets only ports pass and says what the host is.
LEMMA EndpointValid ==
    ASSUME NEW h \in Host, NEW port \in Int
    PROVE  /\ InvalidEndpoint(h, port) # "raised" =>
                port \in Ports /\ InvalidEndpoint(h, port) = IpType[h]
           /\ InvalidEndpoint(h, 80) = IpType[h]
<1>1. IpType[h] \in {"IPv4", "IPv6", "FQDN"} /\ IpType[h] # "raised"
  BY HostAssumption DEF Families
<1>2. 80 \in Ports
  BY DEF Ports
<1> QED
  BY <1>1, <1>2 DEF InvalidEndpoint

\* What a conversion returns: a host, for a name one of the hosts' family.
LEMMA ConvertReturns ==
    ASSUME TypeOK, NEW h \in Host, NEW kind, NEW ip \in ConvertHost(h, kind)
    PROVE  /\ ip \in Host
           /\ double /\ IpType[h] # "IPv4" => ip \in DummyIps
           /\ ~double /\ kind = "FQDN" =>
                /\ IpType[ip] = IpType[OrchHost]
                /\ ip = DNS[h][IpType[OrchHost]]
<1>1. CASE double
  BY <1>1, DiscoveryAssumption DEF ConvertHost, TypeOK
<1>2. CASE ~double /\ kind # "FQDN"
  BY <1>2 DEF ConvertHost
<1>3. CASE ~double /\ kind = "FQDN"
  <2>1. IpType[OrchHost] # "FQDN" /\ ip \in {DNS[h][IpType[OrchHost]]} \ {NoHost}
    <3>1. InvalidEndpoint(OrchHost, 80) = IpType[OrchHost]
      BY EndpointValid, DiscoveryAssumption
    <3> QED
      BY <1>3, <3>1 DEF ConvertHost
  <2>2. IpType[OrchHost] \in Families
    BY <2>1, HostAssumption, DiscoveryAssumption
  <2>3. DNS[h][IpType[OrchHost]] \in Host \cup {NoHost}
    BY <2>2, DiscoveryAssumption
  <2> QED
    BY <1>3, <2>1, <2>2, <2>3, FamilyAssumption
<1> QED
  BY <1>1, <1>2, <1>3

\* A list without one element: the elements before it, then those after it.
LEMMA WithoutOne ==
    ASSUME TypeOK, NEW i \in DOMAIN standbys
    PROVE  /\ Without(i) \in Seq(Mgr)
           /\ DOMAIN Without(i) = 1 .. Len(standbys) - 1
           /\ \A j \in DOMAIN Without(i) :
                Without(i)[j] = IF j < i THEN standbys[j] ELSE standbys[j + 1]
<1>1. standbys \in Seq(Mgr) /\ i \in 1 .. Len(standbys) /\ Len(standbys) \in Nat
  BY LenProperties DEF TypeOK
<1> DEFINE a == SubSeq(standbys, 1, i - 1)
           b == SubSeq(standbys, i + 1, Len(standbys))
<1>2. /\ a \in Seq(Mgr) /\ Len(a) = i - 1
      /\ \A j \in 1 .. i - 1 : a[j] = standbys[j]
  BY <1>1, SubSeqProperties
<1>3. /\ b \in Seq(Mgr) /\ Len(b) = Len(standbys) - i
      /\ \A j \in 1 .. Len(standbys) - i : b[j] = standbys[i + j]
  BY <1>1, SubSeqProperties
<1>4. Without(i) = a \o b
  BY DEF Without
<1> HIDE DEF a, b
<1>5. /\ a \o b \in Seq(Mgr) /\ Len(a \o b) = Len(a) + Len(b)
      /\ \A j \in 1 .. Len(a) + Len(b) :
           (a \o b)[j] = IF j <= Len(a) THEN a[j] ELSE b[j - Len(a)]
  BY <1>2, <1>3, ConcatProperties
<1>6. DOMAIN (a \o b) = 1 .. Len(standbys) - 1
  BY <1>1, <1>2, <1>3, <1>5
<1>7. ASSUME NEW j \in 1 .. Len(standbys) - 1
      PROVE  (a \o b)[j] = IF j < i THEN standbys[j] ELSE standbys[j + 1]
  <2>1. (a \o b)[j] = IF j <= i - 1 THEN a[j] ELSE b[j - (i - 1)]
    <3>1. Len(a) + Len(b) = Len(standbys) - 1
      BY <1>1, <1>2, <1>3
    <3>2. (a \o b)[j] = IF j <= Len(a) THEN a[j] ELSE b[j - Len(a)]
      BY <1>5, <3>1
    <3> QED
      BY <1>2, <3>2
  <2>2. CASE j < i
    BY <1>1, <1>2, <2>1, <2>2
  <2>3. CASE ~(j < i)
    <3>1. j - (i - 1) \in 1 .. Len(standbys) - i /\ i + (j - (i - 1)) = j + 1
      BY <1>1, <2>3
    <3> QED
      BY <1>1, <1>3, <2>1, <2>3, <3>1
  <2> QED
    BY <2>2, <2>3
<1> QED
  BY <1>4, <1>5, <1>6, <1>7

-----------------------------------------------------------------------------
(***************************************************************************)
(* The discovery, action by action.                                        *)
(***************************************************************************)

\* Before the endpoint is looked for, only the monitor and the dashboard change.
LEMMA EarlyOK ==
    ASSUME NEW m, NEW n, NEW stage, NEW next, NEW d, NEW b,
           MemOK(stage, m, d, b), stage \in {"mons", "dashboard"}, next # "convert",
           n.flags = m.flags, n.todo = m.todo, n.ips = m.ips, n.port = m.port,
           n.main = m.main, n.ipType = m.ipType, n.known = m.known, AddrOK(n)
    PROVE  MemOK(next, n, d, b)
<1>1. n.todo = << >> /\ n.ips = << >> /\ EndpointOK(n)
  BY DEF MemOK, EndpointOK
<1>2. FamilyOK(n, d)
  BY DEF MemOK, FamilyOK
<1>3. KnownOK(n, d, b)
  BY DEF MemOK, KnownOK
<1> QED
  BY <1>1, <1>2, <1>3 DEF MemOK

\* An export that has asked nothing yet holds nothing.
LEMMA BlankOK ==
    ASSUME NEW f \in CommandLines, NEW d, NEW b, NEW stage \in Stages,
           stage # "convert", stage \notin {"mons", "failed"} => f.dryRun
    PROVE  Blank(f) \in Memory /\ MemOK(stage, Blank(f), d, b)
<1>1. /\ Blank(f) \in Memory /\ Blank(f).flags = f
      /\ Blank(f).todo = << >> /\ Blank(f).ips = << >> /\ Blank(f).known = {}
      /\ DOMAIN << >> = {}
  BY EmptySeq DEF Blank, Memory, NoPort
<1> HIDE DEF Blank
<1> QED
  BY <1>1 DEF MemOK, EndpointOK, FamilyOK, KnownOK

\* A step of the export that leaves the provider alone.
LEMMA GotoKeeps ==
    ASSUME DiscoveryInv, NEW stage \in Stages, NEW m \in Memory,
           Goto(stage, m), MemOK(stage, m, double, byName),
           UNCHANGED <<double, byName, provider, dummyMap>>
    PROVE  DiscoveryInv'
BY DEF DiscoveryInv, TypeOK, DistinctStandbys, Goto, provider

LEMMA FailKeeps ==
    ASSUME DiscoveryInv, Fail, UNCHANGED <<double, byName, provider, dummyMap>>
    PROVE  DiscoveryInv'
<1>1. mem.flags \in CommandLines
  BY DEF DiscoveryInv, TypeOK, Memory
<1> QED
  BY <1>1, BlankOK, GotoKeeps DEF Fail, Stages

LEMMA StartKeeps ==
    ASSUME DiscoveryInv, Start
    PROVE  DiscoveryInv'
<1>1. PICK f \in CommandLines :
           Goto(IF f.dryRun THEN "done" ELSE "mons", Blank(f))
  BY DEF Start
<1> DEFINE stage == IF f.dryRun THEN "done" ELSE "mons"
<1>2. stage \in Stages \ {"convert"} /\ (stage # "mons" => f.dryRun)
  BY DEF Stages
<1>3. Goto(stage, Blank(f)) /\ UNCHANGED <<double, byName, provider, dummyMap>>
  BY <1>1 DEF Start
<1> HIDE DEF stage
<1> QED
  BY <1>2, <1>3, BlankOK, GotoKeeps

LEMMA ReadMonsKeeps ==
    ASSUME DiscoveryInv, ReadMons
    PROVE  DiscoveryInv'
<1> DEFINE v == AddrVec[leader]
           e == mem.flags.v2
           addr == IF mem.flags.release = "ceph-18" THEN MonAddr18(v, e) ELSE MonAddr(v, e)
<1>1. /\ leader \in Mon /\ mem \in Memory /\ mem.todo = << >>
      /\ MemOK(pc, mem, double, byName)
  BY DEF DiscoveryInv, TypeOK, ReadMons, MemOK
<1>2. v \in Seq(AddrTypes) \ {<< >>} /\ e \in BOOLEAN
  BY <1>1, DiscoveryAssumption DEF Memory, DiscoveryFlags
<1>3. CASE addr = "raised"
  BY <1>3, FailKeeps DEF ReadMons
<1>4. CASE addr # "raised"
  <2> DEFINE m == [mem EXCEPT !.mon = leader, !.addr = addr]
  <2>1. Goto("dashboard", m) /\ UNCHANGED <<double, byName, provider, dummyMap>>
    BY <1>4 DEF ReadMons
  <2>2. /\ addr \in AddrTypes /\ Has(v, addr)
        /\ addr = "v2" => e \/ PublicAddr(v) = "v2"
    BY <1>2, <1>4, MonAddrChosen
  <2>3. addr = "v2" /\ ~e /\ UsualAddrVecs =>
          mem.flags.release = "ceph-18" /\ v = <<"v2">>
    BY <1>1, <1>4, <2>2 DEF UsualAddrVecs, MonAddr
  <2> HIDE DEF addr
  <2>4. /\ m \in Memory /\ m.mon = leader /\ m.addr = addr /\ m.flags = mem.flags
        /\ m.todo = mem.todo /\ m.ips = mem.ips /\ m.port = mem.port
        /\ m.main = mem.main /\ m.ipType = mem.ipType /\ m.known = mem.known
    BY <1>1, <2>2 DEF Memory
  <2> HIDE DEF m
  <2>5. AddrOK(m)
    BY <1>1, <2>2, <2>3, <2>4 DEF AddrOK
  <2>6. MemOK("dashboard", m, double, byName)
    BY <1>1, <2>4, <2>5, EarlyOK DEF ReadMons
  <2> QED
    BY <2>1, <2>4, <2>6, GotoKeeps DEF Stages
<1> QED
  BY <1>3, <1>4

LEMMA ReadDashboardKeeps ==
    ASSUME DiscoveryInv, ReadDashboard
    PROVE  DiscoveryInv'
<1> DEFINE stage == IF mem.flags.skip THEN "done" ELSE "status"
<1>1. /\ mem \in Memory /\ active \in Mgr /\ MemOK("dashboard", mem, double, byName)
      /\ stage \in Stages \ {"convert"}
  BY DEF DiscoveryInv, TypeOK, ReadDashboard, Stages
<1>2. PICK link \in {active, NoMgr} : Goto(stage, [mem EXCEPT !.dashboard = link])
  BY DEF ReadDashboard
<1> DEFINE m == [mem EXCEPT !.dashboard = link]
<1>3. /\ m \in Memory /\ m.mon = mem.mon /\ m.addr = mem.addr /\ m.flags = mem.flags
      /\ m.todo = mem.todo /\ m.ips = mem.ips /\ m.port = mem.port
      /\ m.main = mem.main /\ m.ipType = mem.ipType /\ m.known = mem.known
  BY <1>1 DEF Memory
<1>4. Goto(stage, m) /\ UNCHANGED <<double, byName, provider, dummyMap>>
  BY <1>2 DEF ReadDashboard
<1> HIDE DEF m, stage
<1>5. MemOK(stage, m, double, byName)
  <2>1. CASE mem.flags.dryRun
    BY <1>1, <1>3, <2>1 DEF MemOK, EndpointOK, FamilyOK, KnownOK
  <2>2. CASE ~mem.flags.dryRun
    <3>1. AddrOK(m)
      BY <1>1, <1>3, <2>2 DEF MemOK, AddrOK
    <3> QED
      BY <1>1, <1>3, <3>1, EarlyOK
  <2> QED
    BY <2>1, <2>2
<1> QED
  BY <1>1, <1>3, <1>4, <1>5, GotoKeeps

\* The list of hosts names every manager that is up.
StatusHosts == <<UrlHost>> \o StandbyHosts

LEMMA StatusNames ==
    ASSUME TypeOK, byName \/ ManagersAddressed
    PROVE  /\ StatusHosts \in Seq(Host)
           /\ byName => /\ StatusHosts[1] = NameOf[active]
                        /\ \A m \in MgrsUp : Has(StatusHosts, NameOf[m])
<1>1. /\ standbys \in Seq(Mgr) /\ active \in Mgr /\ DOMAIN standbys = 1 .. Len(standbys)
      /\ \A m \in Mgr : NameOf[m] \in Host
  BY LenProperties, DiscoveryAssumption DEF TypeOK
<1>2. UrlHost \in Host /\ (byName => UrlHost = NameOf[active])
  <2>1. CASE byName
    BY <1>1, <2>1 DEF UrlHost
  <2>2. CASE ~byName
    BY <1>1, <2>2, DiscoveryAssumption DEF UrlHost, ManagersAddressed
  <2> QED
    BY <2>1, <2>2
<1>3. /\ StandbyHosts \in Seq(Host) /\ Len(StandbyHosts) = Len(standbys)
      /\ \A i \in 1 .. Len(standbys) : StandbyHosts[i] = NameOf[standbys[i]]
  <2>1. \A i \in 1 .. Len(standbys) : standbys[i] \in Mgr /\ NameOf[standbys[i]] \in Host
    BY <1>1, ElementOfSeq
  <2>2. StandbyHosts = [i \in 1 .. Len(standbys) |-> NameOf[standbys[i]]]
    BY <1>1 DEF StandbyHosts
  <2>3. Len(standbys) \in Nat
    BY <1>1, LenProperties
  <2> QED
    BY <2>1, <2>2, <2>3
<1> DEFINE a == <<UrlHost>>
<1>4. a \in Seq(Host) /\ Len(a) = 1 /\ a[1] = UrlHost
  BY <1>2
<1>5. StatusHosts = a \o StandbyHosts
  BY DEF StatusHosts
<1> HIDE DEF a
<1>6. /\ StatusHosts \in Seq(Host) /\ Len(StatusHosts) = 1 + Len(standbys)
      /\ \A i \in 1 .. 1 + Len(standbys) :
           StatusHosts[i] = IF i <= 1 THEN a[i] ELSE StandbyHosts[i - 1]
  <2>1. /\ a \o StandbyHosts \in Seq(Host)
        /\ Len(a \o StandbyHosts) = Len(a) + Len(StandbyHosts)
        /\ \A i \in 1 .. Len(a) + Len(StandbyHosts) :
             (a \o StandbyHosts)[i] =
               IF i <= Len(a) THEN a[i] ELSE StandbyHosts[i - Len(a)]
    <3> DEFINE t == StandbyHosts
    <3>1. a \in Seq(Host) /\ t \in Seq(Host)
      BY <1>3, <1>4
    <3> HIDE DEF t
    <3>2. /\ a \o t \in Seq(Host) /\ Len(a \o t) = Len(a) + Len(t)
          /\ \A i \in 1 .. Len(a) + Len(t) :
               (a \o t)[i] = IF i <= Len(a) THEN a[i] ELSE t[i - Len(a)]
      BY <3>1, ConcatProperties
    <3> QED
      BY <3>2 DEF t
  <2> QED
    BY <1>3, <1>4, <1>5, <2>1
<1>7. /\ Len(standbys) \in Nat /\ DOMAIN StatusHosts = 1 .. 1 + Len(standbys)
  BY <1>1, <1>6, LenProperties
<1>8. StatusHosts[1] = UrlHost
  BY <1>4, <1>6, <1>7
<1>9. ASSUME byName, NEW m \in MgrsUp
      PROVE  Has(StatusHosts, NameOf[m])
  <2>1. CASE m = active
    BY <1>2, <1>7, <1>8, <1>9, <2>1 DEF Has
  <2>2. ASSUME NEW i \in DOMAIN standbys, m = standbys[i]
        PROVE  Has(StatusHosts, NameOf[m])
    <3>1. /\ i + 1 \in 1 .. 1 + Len(standbys) /\ ~(i + 1 <= 1) /\ (i + 1) - 1 = i
          /\ i \in 1 .. Len(standbys)
      BY <1>1, <1>7
    <3>2. StatusHosts[i + 1] = NameOf[m]
      BY <1>3, <1>6, <2>2, <3>1
    <3> QED
      BY <1>7, <3>1, <3>2 DEF Has
  <2> QED
    BY <1>9, <2>1, <2>2 DEF MgrsUp
<1> QED
  BY <1>2, <1>6, <1>8, <1>9

LEMMA FindEndpointKeeps ==
    ASSUME DiscoveryInv, FindEndpoint
    PROVE  DiscoveryInv'
<1> DEFINE f == mem.flags
           hosts == IF f.given THEN f.hosts ELSE StatusHosts
           port == IF f.port # NoPort THEN f.port
                   ELSE IF f.given THEN DefaultPort ELSE UrlPort
           known == IF f.given THEN {} ELSE MgrsUp
           m == [mem EXCEPT !.todo = hosts, !.main = hosts[1], !.port = port,
                            !.ipType = InvalidEndpoint(hosts[1], port), !.known = known]
<1>1. /\ TypeOK /\ mem \in Memory /\ f \in DiscoveryFlags /\ mem.ips = << >>
      /\ f.dryRun \/ AddrOK(mem)
  BY DiscoveryAssumption
     DEF DiscoveryInv, TypeOK, FindEndpoint, MemOK, Memory
<1>2. /\ StatusHosts \in Seq(Host)
      /\ byName => /\ StatusHosts[1] = NameOf[active]
                   /\ \A x \in MgrsUp : Has(StatusHosts, NameOf[x])
  BY StatusNames DEF DiscoveryInv
<1>3. hosts \in Seq(Host) /\ port \in Int
  BY <1>1, <1>2, DiscoveryAssumption DEF DiscoveryFlags, DefaultPort
<1>4. known \subseteq Mgr
  BY <1>1, ElementOfSeq, LenProperties DEF MgrsUp, TypeOK
<1>5. /\ UNCHANGED <<double, byName, provider, dummyMap>>
      /\ Fail \/ (/\ hosts # << >> /\ InvalidEndpoint(hosts[1], port) # "raised"
                  /\ Goto("convert", m))
  BY DEF FindEndpoint, StatusHosts
<1>6. CASE Fail
  BY <1>5, <1>6, FailKeeps
<1>7. CASE ~Fail
  <2>1. /\ hosts # << >> /\ InvalidEndpoint(hosts[1], port) # "raised"
        /\ Goto("convert", m)
    BY <1>5, <1>7
  <2>2. hosts[1] \in Host
    BY <1>3, <2>1
  <2> DEFINE kind == InvalidEndpoint(hosts[1], port)
  <2>3. port \in Ports /\ kind = IpType[hosts[1]] /\ kind \in Families \cup {"FQDN"}
    BY <1>3, <2>1, <2>2, EndpointValid, HostAssumption
  <2>4. known # {} /\ byName => hosts = StatusHosts /\ hosts[1] = NameOf[active]
    BY <1>2
  <2>5. known = {} \/ known = MgrsUp
    OBVIOUS
  <2>6. active \in Mgr
    BY <1>1 DEF TypeOK
  <2> HIDE DEF hosts, port, known, kind
  <2>7. /\ m \in Memory /\ m.flags = f /\ m.mon = mem.mon /\ m.addr = mem.addr
        /\ m.todo = hosts /\ m.ips = << >> /\ m.main = hosts[1] /\ m.port = port
        /\ m.ipType = kind /\ m.known = known
    BY <1>1, <1>3, <1>4, <2>2, <2>3 DEF Memory, kind
  <2> HIDE DEF m, f
  <2>8. m.flags.dryRun \/ AddrOK(m)
    BY <1>1, <2>7 DEF AddrOK, f
  <2>9. EndpointOK(m)
    BY <2>2, <2>3, <2>7 DEF EndpointOK
  <2>10. FamilyOK(m, double)
    BY <2>7 DEF FamilyOK
  <2>11. KnownOK(m, double, byName)
    <3>1. ASSUME ManagersNamed, byName, NEW x \in known
          PROVE  kind = "FQDN" /\ Has(hosts, NameOf[x])
      BY <1>2, <2>3, <2>4, <2>5, <2>6, <3>1 DEF ManagersNamed
    <3> QED
      BY <2>7, <3>1 DEF KnownOK
  <2>12. MemOK("convert", m, double, byName)
    BY <2>1, <2>7, <2>8, <2>9, <2>10, <2>11 DEF MemOK
  <2> QED
    BY <1>5, <2>1, <2>7, <2>12, GotoKeeps DEF Stages
<1> QED
  BY <1>6, <1>7

\* A name that is listed is the first or in the rest.
LEMMA HasTail ==
    ASSUME NEW S, NEW s \in Seq(S), NEW x, Has(s, x), x # s[1]
    PROVE  Has(Tail(s), x)
<1>1. PICK i \in DOMAIN s : s[i] = x
  BY DEF Has
<1>2. /\ i \in 1 .. Len(s) /\ i # 1 /\ Len(s) \in Nat /\ s # << >>
  BY <1>1, LenProperties, EmptySeq
<1>3. /\ Tail(s) \in Seq(S) /\ Len(Tail(s)) = Len(s) - 1
      /\ \A j \in 1 .. Len(Tail(s)) : Tail(s)[j] = s[j + 1]
  BY <1>2, HeadTailProperties
<1>4. i - 1 \in 1 .. Len(Tail(s)) /\ (i - 1) + 1 = i
  BY <1>2, <1>3
<1>5. DOMAIN Tail(s) = 1 .. Len(Tail(s)) /\ Tail(s)[i - 1] = x
  BY <1>1, <1>3, <1>4, LenProperties
<1> QED
  BY <1>4, <1>5 DEF Has

\* Appending keeps what is listed and lists one more.
LEMMA HasAppend ==
    ASSUME NEW S, NEW s \in Seq(S), NEW e \in S, NEW x, Has(s, x) \/ x = e
    PROVE  Has(Append(s, e), x)
<1>1. /\ Len(Append(s, e)) = Len(s) + 1 /\ Append(s, e) \in Seq(S) /\ Len(s) \in Nat
      /\ \A i \in 1 .. Len(s) : Append(s, e)[i] = s[i]
      /\ Append(s, e)[Len(s) + 1] = e
  BY AppendProperties, LenProperties
<1>2. DOMAIN Append(s, e) = 1 .. Len(s) + 1 /\ DOMAIN s = 1 .. Len(s)
  BY <1>1, LenProperties
<1> QED
  BY <1>1, <1>2 DEF Has

LEMMA ConvertKeeps ==
    ASSUME DiscoveryInv, Convert
    PROVE  DiscoveryInv'
<1> DEFINE host == mem.todo[1]
           stage == IF Len(mem.todo) = 1 THEN "dial" ELSE "convert"
<1>1. /\ TypeOK /\ mem \in Memory /\ mem.todo # << >> /\ UNCHANGED <<double, byName, provider>>
      /\ MemOK("convert", mem, double, byName)
  BY DEF DiscoveryInv, TypeOK, Convert, MemOK
<1>2. /\ mem.todo \in Seq(Host) /\ mem.ips \in Seq(Host) /\ host \in Host
  <2>1. mem.todo \in Seq(Host) /\ mem.ips \in Seq(Host)
    BY <1>1 DEF Memory
  <2>2. 1 \in 1 .. Len(mem.todo)
    BY <1>1, <2>1, EmptySeq, LenProperties
  <2> QED
    BY <2>1, <2>2, ElementOfSeq
<1>3. CASE Fail /\ UNCHANGED dummyMap
  BY <1>1, <1>3, FailKeeps
<1>4. ASSUME NEW ip \in ConvertHost(host, mem.ipType),
             Goto(stage, [mem EXCEPT !.todo = Tail(@), !.ips = Append(@, ip)]),
             dummyMap' = IF double /\ IpType[host] # "IPv4"
                         THEN [h \in DOMAIN dummyMap \cup {host} |->
                                  IF h = host THEN ip ELSE dummyMap[h]]
                         ELSE dummyMap
      PROVE  DiscoveryInv'
  <2> DEFINE m == [mem EXCEPT !.todo = Tail(@), !.ips = Append(@, ip)]
  <2>1. /\ ip \in Host
        /\ double /\ IpType[host] # "IPv4" => ip \in DummyIps
        /\ ~double /\ mem.ipType = "FQDN" =>
             IpType[ip] = IpType[OrchHost] /\ ip = DNS[host][IpType[OrchHost]]
    BY <1>1, <1>2, <1>4, ConvertReturns
  <2>2. /\ Tail(mem.todo) \in Seq(Host) /\ Append(mem.ips, ip) \in Seq(Host)
        /\ stage = "convert" <=> Tail(mem.todo) # << >>
        /\ stage \in {"convert", "dial"}
    <3> DEFINE todo == mem.todo
               ips == mem.ips
    <3>1. todo \in Seq(Host) /\ ips \in Seq(Host) /\ todo # << >>
      BY <1>1, <1>2
    <3> HIDE DEF todo, ips
    <3>2. /\ Tail(todo) \in Seq(Host) /\ Len(Tail(todo)) = Len(todo) - 1
          /\ Len(todo) \in Nat
      BY <3>1, HeadTailProperties, LenProperties
    <3> DEFINE rest == Tail(todo)
    <3>3. rest = << >> <=> Len(todo) = 1
      <4>1. rest \in Seq(Host) /\ Len(rest) = Len(todo) - 1
        BY <3>2
      <4> HIDE DEF rest
      <4>2. rest = << >> <=> Len(rest) = 0
        BY <4>1, EmptySeq
      <4> QED
        BY <3>2, <4>1, <4>2
    <3>4. Append(ips, ip) \in Seq(Host)
      BY <2>1, <3>1, AppendProperties
    <3> QED
      BY <3>2, <3>3, <3>4 DEF todo, ips
  <2>3. /\ m \in Memory /\ m.flags = mem.flags /\ m.mon = mem.mon /\ m.addr = mem.addr
        /\ m.todo = Tail(mem.todo) /\ m.ips = Append(mem.ips, ip)
        /\ m.main = mem.main /\ m.port = mem.port
        /\ m.ipType = mem.ipType /\ m.known = mem.known
    BY <1>1, <2>2 DEF Memory
  <2>4. Goto(stage, m)
    BY <1>4
  <2> HIDE DEF m, host, stage
  <2>5. m.flags.dryRun \/ AddrOK(m)
    BY <1>1, <2>3 DEF AddrOK, MemOK
  <2>6. EndpointOK(m)
    BY <1>1, <2>3 DEF EndpointOK, MemOK
  <2>7. FamilyOK(m, double)
    <3>1. ASSUME ~double, mem.ipType = "FQDN", NEW i \in DOMAIN Append(mem.ips, ip)
          PROVE  IpType[Append(mem.ips, ip)[i]] = IpType[OrchHost]
      <4>1. \A j \in DOMAIN mem.ips : IpType[mem.ips[j]] = IpType[OrchHost]
        BY <1>1, <3>1 DEF MemOK, FamilyOK
      <4>2. /\ DOMAIN mem.ips = 1 .. Len(mem.ips) /\ Len(mem.ips) \in Nat
            /\ DOMAIN Append(mem.ips, ip) = 1 .. Len(mem.ips) + 1
            /\ \A j \in 1 .. Len(mem.ips) : Append(mem.ips, ip)[j] = mem.ips[j]
            /\ Append(mem.ips, ip)[Len(mem.ips) + 1] = ip
        BY <1>2, <2>1, AppendProperties, LenProperties
      <4> QED
        BY <2>1, <3>1, <4>1, <4>2
    <3> QED
      BY <2>3, <3>1 DEF FamilyOK
  <2>8. KnownOK(m, double, byName)
    <3>1. ASSUME ManagersNamed, ~double, byName, NEW x \in mem.known
          PROVE  /\ mem.ipType = "FQDN"
                 /\ \/ Has(Tail(mem.todo), NameOf[x])
                    \/ Has(Append(mem.ips, ip), AddressFor(x))
      <4>1. /\ mem.ipType = "FQDN"
            /\ Has(mem.todo, NameOf[x]) \/ Has(mem.ips, AddressFor(x))
        BY <1>1, <3>1 DEF MemOK, KnownOK
      <4>2. CASE Has(mem.ips, AddressFor(x))
        BY <1>2, <2>1, <4>1, <4>2, HasAppend
      <4>3. CASE Has(mem.todo, NameOf[x]) /\ NameOf[x] = host
        BY <1>2, <2>1, <3>1, <4>1, <4>3, HasAppend DEF AddressFor
      <4>4. CASE Has(mem.todo, NameOf[x]) /\ NameOf[x] # host
        BY <1>2, <4>1, <4>4, HasTail DEF host
      <4> QED
        BY <4>1, <4>2, <4>3, <4>4
    <3> QED
      BY <2>3, <3>1 DEF KnownOK
  <2>9. MemOK(stage, m, double, byName)
    BY <2>2, <2>3, <2>5, <2>6, <2>7, <2>8 DEF MemOK
  <2>10. /\ DOMAIN dummyMap' \subseteq Host
         /\ \A h \in DOMAIN dummyMap' : dummyMap'[h] \in DummyIps
    BY <1>1, <1>2, <1>4, <2>1 DEF TypeOK, host
  <2>11. TypeOK'
    BY <1>1, <2>2, <2>3, <2>4, <2>10 DEF TypeOK, Goto, Stages, provider
  <2> QED
    BY <1>1, <2>4, <2>9, <2>11 DEF DiscoveryInv, DistinctStandbys, Goto, provider
<1> QED
  BY <1>3, <1>4 DEF Convert

LEMMA DialKeeps ==
    ASSUME DiscoveryInv, Dial
    PROVE  DiscoveryInv'
<1>1. /\ mem \in Memory /\ MemOK("dial", mem, double, byName)
      /\ UNCHANGED <<double, byName, provider, dummyMap>>
  BY DEF DiscoveryInv, TypeOK, Dial
<1>2. CASE Goto("done", mem)
  <2>1. MemOK("done", mem, double, byName)
    BY <1>1 DEF MemOK
  <2> QED
    BY <1>1, <1>2, <2>1, GotoKeeps DEF Stages
<1>3. CASE Fail
  BY <1>1, <1>3, FailKeeps
<1> QED
  BY <1>2, <1>3 DEF Dial

\* Managers fail over, leave and come back; the list stays without repetition.
LEMMA FailoverKeeps ==
    ASSUME DiscoveryInv, Failover
    PROVE  DiscoveryInv'
<1>1. /\ TypeOK /\ DistinctStandbys /\ active \in Mgr /\ standbys \in Seq(Mgr)
      /\ DOMAIN standbys = 1 .. Len(standbys) /\ Len(standbys) \in Nat
      /\ active \notin {standbys[i] : i \in DOMAIN standbys}
  BY LenProperties DEF DiscoveryInv, TypeOK
<1>2. PICK i \in DOMAIN standbys :
        /\ active' = standbys[i]
        /\ standbys' = Without(i) \/ standbys' = Append(Without(i), active)
  BY DEF Failover
<1> DEFINE w == Without(i)
<1>3. /\ w \in Seq(Mgr) /\ DOMAIN w = 1 .. Len(standbys) - 1
      /\ \A j \in DOMAIN w : w[j] = IF j < i THEN standbys[j] ELSE standbys[j + 1]
  BY <1>1, WithoutOne
<1> HIDE DEF w
<1>4. ASSUME NEW j \in DOMAIN w
      PROVE  /\ w[j] # standbys[i] /\ w[j] # active
             /\ \A k \in DOMAIN w : w[j] = w[k] => j = k
  <2> DEFINE at(k) == IF k < i THEN k ELSE k + 1
  <2>1. \A k \in DOMAIN w : at(k) \in DOMAIN standbys /\ w[k] = standbys[at(k)] /\ at(k) # i
    BY <1>1, <1>3
  <2>2. \A k \in DOMAIN w : at(j) = at(k) => j = k
    BY <1>1, <1>3
  <2> HIDE DEF at
  <2> QED
    BY <1>1, <2>1, <2>2 DEF DistinctStandbys
<1>5. standbys[i] \in Mgr /\ standbys[i] # active
  BY <1>1
<1>6. CASE standbys' = w
  <2>1. TypeOK'
    BY <1>1, <1>2, <1>3, <1>4, <1>5, <1>6 DEF TypeOK, Failover
  <2> QED
    BY <1>4, <1>6, <2>1 DEF DiscoveryInv, DistinctStandbys, Failover
<1>7. CASE standbys' = Append(w, active)
  <2> DEFINE s == Append(w, active)
  <2>1. /\ s \in Seq(Mgr) /\ DOMAIN s = DOMAIN w \cup {Len(w) + 1} /\ Len(w) + 1 \notin DOMAIN w
        /\ \A j \in DOMAIN w : s[j] = w[j]
        /\ s[Len(w) + 1] = active
    BY <1>1, <1>3, AppendProperties, LenProperties
  <2> HIDE DEF s
  <2>2. \A j \in DOMAIN s : s[j] # standbys[i]
    BY <1>4, <1>5, <2>1
  <2>3. \A j, k \in DOMAIN s : s[j] = s[k] => j = k
    BY <1>4, <2>1
  <2>4. standbys' = s
    BY <1>7 DEF s
  <2>5. TypeOK'
    BY <1>1, <1>2, <1>5, <2>1, <2>2, <2>4 DEF TypeOK, Failover
  <2> QED
    BY <2>3, <2>4, <2>5 DEF DiscoveryInv, DistinctStandbys, Failover
<1> QED
  BY <1>2, <1>6, <1>7 DEF w

LEMMA JoinKeeps ==
    ASSUME DiscoveryInv, Join
    PROVE  DiscoveryInv'
<1>1. /\ TypeOK /\ DistinctStandbys /\ active \in Mgr /\ standbys \in Seq(Mgr)
      /\ DOMAIN standbys = 1 .. Len(standbys) /\ Len(standbys) \in Nat
  BY LenProperties DEF DiscoveryInv, TypeOK
<1>2. PICK m \in Mgr \ MgrsUp : standbys' = Append(standbys, m)
  BY DEF Join
<1>3. m # active /\ \A j \in DOMAIN standbys : standbys[j] # m
  BY <1>2 DEF MgrsUp
<1> DEFINE s == Append(standbys, m)
<1>4. /\ s \in Seq(Mgr) /\ DOMAIN s = DOMAIN standbys \cup {Len(standbys) + 1}
      /\ Len(standbys) + 1 \notin DOMAIN standbys
      /\ \A j \in DOMAIN standbys : s[j] = standbys[j]
      /\ s[Len(standbys) + 1] = m
  BY <1>1, <1>2, AppendProperties, LenProperties
<1>5. standbys' = s
  BY <1>2
<1> HIDE DEF s
<1>6. /\ \A j, k \in DOMAIN s : s[j] = s[k] => j = k
      /\ \A j \in DOMAIN s : s[j] # active
  BY <1>1, <1>3, <1>4 DEF DistinctStandbys, TypeOK
<1>7. TypeOK'
  BY <1>1, <1>4, <1>5, <1>6 DEF TypeOK, Join
<1> QED
  BY <1>5, <1>6, <1>7 DEF DiscoveryInv, DistinctStandbys, Join

LEMMA ProviderKeeps ==
    ASSUME DiscoveryInv, Elect \/ TogglePrometheus \/ UNCHANGED vars
    PROVE  DiscoveryInv'
<1>1. TypeOK'
  BY DEF DiscoveryInv, TypeOK, Elect, TogglePrometheus, vars
<1> QED
  BY <1>1 DEF DiscoveryInv, DistinctStandbys, Elect, TogglePrometheus, vars

LEMMA DiscoveryInitial ==
    ASSUME Init
    PROVE  DiscoveryInv
<1>1. \E f \in CommandLines : TRUE
  BY DiscoveryAssumption DEF TestFlags
<1> DEFINE f == CHOOSE g \in CommandLines : TRUE
<1>2. f \in CommandLines /\ mem = Blank(f) /\ pc = "failed"
  BY <1>1 DEF Init
<1> HIDE DEF f
<1>3. mem \in Memory /\ MemOK(pc, mem, double, byName)
  BY <1>2, BlankOK DEF Stages
<1>4. /\ standbys \in Seq(Mgr) /\ DOMAIN standbys = {1, 2} /\ standbys[1] # standbys[2]
      /\ active \notin {standbys[i] : i \in DOMAIN standbys}
  <2>1. /\ standbys \in [1 .. 2 -> Mgr \ {active}] /\ standbys[1] # standbys[2]
    BY DEF Init
  <2>2. DOMAIN standbys = 1 .. 2 /\ \A i \in 1 .. 2 : standbys[i] \in Mgr \ {active}
    BY <2>1
  <2>3. standbys = [i \in 1 .. 2 |-> standbys[i]]
    BY <2>1
  <2>4. standbys \in Seq(Mgr)
    BY <2>2, <2>3
  <2>5. DOMAIN standbys = {1, 2}
    BY <2>2
  <2> QED
    BY <2>1, <2>2, <2>4, <2>5
<1>5. DOMAIN dummyMap = {}
  BY EmptySeq DEF Init
<1>6. TypeOK
  BY <1>2, <1>3, <1>4, <1>5 DEF Init, TypeOK, Stages
<1> QED
  BY <1>3, <1>4, <1>6 DEF Init, DiscoveryInv, DistinctStandbys

LEMMA DiscoveryStep ==
    ASSUME DiscoveryInv, [Next]_vars
    PROVE  DiscoveryInv'
<1>1. CASE Start
  BY <1>1, StartKeeps
<1>2. CASE Step
  BY <1>2, ReadMonsKeeps, ReadDashboardKeeps, FindEndpointKeeps, ConvertKeeps, DialKeeps
     DEF Step
<1>3. CASE Abort
  BY <1>3, FailKeeps DEF Abort
<1>4. CASE Provider
  BY <1>4, FailoverKeeps, JoinKeeps, ProviderKeeps DEF Provider
<1>5. CASE UNCHANGED vars
  BY <1>5, ProviderKeeps
<1> QED
  BY <1>1, <1>2, <1>3, <1>4, <1>5 DEF Next

-----------------------------------------------------------------------------
(***************************************************************************)
(* The tests.  One fixture holds for a whole behaviour, so each invariant  *)
(* speaks of its own.                                                      *)
(***************************************************************************)
FixtureType ==
    /\ fixture \in {"monitoring", "cephfs", "users"}
    /\ object \in Flags /\ returnVal \in {0, 1}
    /\ fsOut \in Seq(FileSystem)
    /\ call \in {"none", "returned", "raised"}
    /\ \A c \in sent : c \in Command

\* The double lists myfs, and what a test appends after it.
FsOutOK ==
    /\ Len(fsOut) <= 2
    /\ \A i \in DOMAIN fsOut : fsOut[i].name = IF i = 1 THEN <<"myfs">> ELSE SecondFs

\* After a call the flags are what get_cephfs_data_pool_details makes of them.
CallOK ==
    fixture = "cephfs" /\ call # "none" =>
        LET choice == SelectCephfs(fsOut, object.fs, object.dataPool)
        IN  /\ choice.fs = object.fs /\ choice.dataPool = object.dataPool
            /\ choice.ok <=> call = "returned"

\* The flags that the user tests can set.
Restricted(fs) == [SetUp EXCEPT !.restricted = TRUE, !.cluster = Storage, !.fs = fs]
UserFlags == {SetUp, Restricted(Unset), Restricted(<<"myfs">>)}

UsersOK ==
    /\ fixture = "users" => object \in UserFlags
    /\ fixture # "users" => sent = {}

TestsInv ==
    DiscoveryInv /\ FixtureType /\ FsOutOK /\ CallOK /\ UsersOK /\ DoubleAnswers

\* The words of the tests make names.
LEMMA TestNames ==
    /\ SetUp \in Flags /\ Storage \in Name /\ <<"myfs">> \in Name /\ Unset \in Name
    /\ UserFlags \subseteq Flags
    /\ DummyFs \in Seq(FileSystem) /\ Len(DummyFs) = 1 /\ DummyFs[1].name = <<"myfs">>
<1>1. \A w \in Word : <<w>> \in Name
  BY DEF Name
<1>2. /\ Storage \in Name /\ <<"myfs">> \in Name /\ <<"abc">> \in Name
      /\ <<"default">> \in Name /\ <<"myfs-replicated">> \in Name
  BY <1>1, TestsAssumption DEF Storage
<1>3. Unset \in Name
  BY EmptySeq DEF Unset, Name
<1>4. DefaultChecker \in User
  BY BaseIsUser DEF DefaultChecker, Bases
<1>5. SetUp \in Flags
  BY <1>2, <1>3, <1>4 DEF SetUp, Flags, Releases
<1>6. \A fs \in Name : Restricted(fs) \in Flags
  BY <1>2, <1>5 DEF Restricted, Flags
<1>7. /\ DummyFs \in Seq(FileSystem) /\ Len(DummyFs) = 1
      /\ DummyFs[1].name = <<"myfs">>
  <2> DEFINE fs == [name |-> <<"myfs">>, data |-> <<<<"myfs-replicated">>>>]
  <2>1. fs \in FileSystem /\ fs.name = <<"myfs">>
    BY <1>2 DEF FileSystem
  <2>2. DummyFs = <<fs>>
    BY DEF DummyFs
  <2> HIDE DEF fs
  <2> QED
    BY <2>1, <2>2
<1> QED
  BY <1>2, <1>3, <1>5, <1>6, <1>7 DEF UserFlags

-----------------------------------------------------------------------------
(***************************************************************************)
(* The file system tests.                                                  *)
(***************************************************************************)

\* The double's file systems have different names.
LEMMA FsOutNames ==
    ASSUME TestsInv
    PROVE  /\ \A i \in DOMAIN fsOut : fsOut[i].name # Unset
           /\ \A i, j \in DOMAIN fsOut : fsOut[i].name = fsOut[j].name => i = j
<1>1. /\ DOMAIN fsOut \subseteq {1, 2}
      /\ \A i \in DOMAIN fsOut : fsOut[i].name = IF i = 1 THEN <<"myfs">> ELSE SecondFs
  BY LenProperties DEF TestsInv, FsOutOK, FixtureType
<1>2. SecondFs # Unset /\ SecondFs # <<"myfs">> /\ <<"myfs">> # Unset
  BY TestsAssumption DEF Unset
<1> QED
  BY <1>1, <1>2

LEMMA CallKeeps ==
    ASSUME TestsInv, CallDetails
    PROVE  TestsInv'
<1> DEFINE found == SelectCephfs(fsOut, object.fs, object.dataPool)
           next == [object EXCEPT !.fs = found.fs, !.dataPool = found.dataPool]
<1>1. /\ fixture = "cephfs" /\ object' = next /\ call' \in {"returned", "raised"}
      /\ found.ok <=> call' = "returned"
      /\ UNCHANGED <<vars, fixture, returnVal, fsOut, sent>>
  BY DEF CallDetails
<1>2. /\ object \in Flags /\ object.fs \in Name /\ object.dataPool \in Name
      /\ fsOut \in Seq(FileSystem)
  BY DEF TestsInv, FixtureType, Flags
<1>3. found.fs \in Name /\ found.dataPool \in Name /\ found.ok \in BOOLEAN
  BY <1>2, SelectType
<1>4. SelectCephfs(fsOut, found.fs, found.dataPool) = found
  BY <1>2, FsOutNames, SelectStable
<1> HIDE DEF found
<1>5. next \in Flags /\ next.fs = found.fs /\ next.dataPool = found.dataPool
  BY <1>2, <1>3 DEF Flags
<1> HIDE DEF next
<1>6. CallOK'
  BY <1>1, <1>3, <1>4, <1>5 DEF CallOK
<1>7. FixtureType'
  BY <1>1, <1>5 DEF TestsInv, FixtureType
<1>8. FsOutOK' /\ UsersOK' /\ DoubleAnswers'
  BY <1>1 DEF TestsInv, FsOutOK, UsersOK, DoubleAnswers
<1>9. DiscoveryInv'
  BY <1>1, ProviderKeeps DEF TestsInv
<1> QED
  BY <1>6, <1>7, <1>8, <1>9 DEF TestsInv

\* The double's answer is rewritten.
LEMMA AnswerKeeps ==
    ASSUME TestsInv, AddFileSystem \/ ClearFileSystems \/ ChangeDataPools
    PROVE  TestsInv'
<1>1. /\ fixture = "cephfs" /\ call' = "none"
      /\ UNCHANGED <<vars, fixture, object, returnVal, sent>>
  BY DEF AddFileSystem, ClearFileSystems, ChangeDataPools
<1>2. /\ fsOut \in Seq(FileSystem) /\ Len(fsOut) \in Nat /\ Len(fsOut) <= 2
      /\ DOMAIN fsOut = 1 .. Len(fsOut)
      /\ \A i \in DOMAIN fsOut : fsOut[i].name = IF i = 1 THEN <<"myfs">> ELSE SecondFs
  BY LenProperties DEF TestsInv, FixtureType, FsOutOK
<1>3. ASSUME NEW L \in Seq(FileSystem), fsOut' = L, Len(L) <= 2,
             \A i \in DOMAIN L : L[i].name = IF i = 1 THEN <<"myfs">> ELSE SecondFs
      PROVE  TestsInv'
  <2>1. FixtureType'
    BY <1>1, <1>3 DEF TestsInv, FixtureType
  <2>2. FsOutOK' /\ CallOK' /\ UsersOK' /\ DoubleAnswers'
    BY <1>1, <1>3 DEF TestsInv, FsOutOK, CallOK, UsersOK, DoubleAnswers
  <2>3. DiscoveryInv'
    BY <1>1, ProviderKeeps DEF TestsInv
  <2> QED
    BY <2>1, <2>2, <2>3 DEF TestsInv
<1>4. CASE AddFileSystem
  <2> DEFINE fs == [fsOut[1] EXCEPT !.name = SecondFs]
             L == Append(fsOut, fs)
  <2>1. Len(fsOut) = 1 /\ fsOut' = L
    BY <1>4 DEF AddFileSystem
  <2>2. fs \in FileSystem /\ fs.name = SecondFs
    <3>1. fsOut[1] \in FileSystem
      BY <1>2, <2>1, ElementOfSeq
    <3> QED
      BY <3>1, TestsAssumption DEF FileSystem
  <2> HIDE DEF fs
  <2>3. /\ L \in Seq(FileSystem) /\ Len(L) = 2 /\ Len(L) <= 2
        /\ \A i \in 1 .. Len(fsOut) : L[i] = fsOut[i]
        /\ L[Len(fsOut) + 1] = fs
    <3>1. /\ L \in Seq(FileSystem) /\ Len(L) = Len(fsOut) + 1
          /\ \A i \in 1 .. Len(fsOut) : L[i] = fsOut[i]
          /\ L[Len(fsOut) + 1] = fs
      BY <1>2, <2>2, AppendProperties
    <3> HIDE DEF L
    <3> QED
      BY <2>1, <3>1
  <2> HIDE DEF L
  <2>4. \A i \in DOMAIN L : L[i].name = IF i = 1 THEN <<"myfs">> ELSE SecondFs
    <3>1. DOMAIN L = 1 .. 2 /\ L[1] = fsOut[1] /\ L[2] = fs /\ 1 \in DOMAIN fsOut
      BY <1>2, <2>1, <2>3, LenProperties
    <3> QED
      BY <1>2, <2>2, <3>1
  <2> QED
    BY <1>3, <2>1, <2>3, <2>4
<1>5. CASE ClearFileSystems
  <2> DEFINE L == << >>
  <2>1. L \in Seq(FileSystem) /\ Len(L) = 0 /\ DOMAIN L = {} /\ fsOut' = L
    BY <1>5, EmptySeq DEF ClearFileSystems
  <2> HIDE DEF L
  <2>2. Len(L) <= 2
    BY <2>1
  <2> QED
    BY <1>3, <2>1, <2>2
<1>6. CASE ChangeDataPools
  <2>1. PICK data \in MoreData : fsOut' = [fsOut EXCEPT ![1].data = data]
    BY <1>6 DEF ChangeDataPools
  <2> DEFINE fs == [fsOut[1] EXCEPT !.data = data]
             L == [fsOut EXCEPT ![1] = fs]
  <2>2. 1 \in DOMAIN fsOut
    BY <1>2, <1>6, EmptySeq DEF ChangeDataPools
  <2>3. fs \in FileSystem /\ fs.name = fsOut[1].name
    <3>1. fsOut[1] \in FileSystem /\ data \in Seq(Name)
      BY <1>2, <2>1, <2>2, ElementOfSeq, TestsAssumption
    <3> QED
      BY <3>1 DEF FileSystem
  <2>4. fsOut' = L
    BY <2>1
  <2> HIDE DEF fs
  <2>5. /\ L \in Seq(FileSystem) /\ Len(L) = Len(fsOut) /\ DOMAIN L = DOMAIN fsOut
        /\ \A i \in DOMAIN L : L[i] = IF i = 1 THEN fs ELSE fsOut[i]
    BY <1>2, <2>2, <2>3, ExceptSeq
  <2> HIDE DEF L
  <2>6. \A i \in DOMAIN L : L[i].name = IF i = 1 THEN <<"myfs">> ELSE SecondFs
    BY <1>2, <2>2, <2>3, <2>5
  <2> QED
    BY <1>2, <1>3, <2>4, <2>5, <2>6
<1> QED
  BY <1>4, <1>5, <1>6

LEMMA GiveKeeps ==
    ASSUME TestsInv, GiveFlags
    PROVE  TestsInv'
<1>1. /\ fixture = "cephfs" /\ call' = "none"
      /\ UNCHANGED <<vars, fixture, returnVal, fsOut, sent>>
  BY DEF GiveFlags
<1>2. object \in Flags
  BY DEF TestsInv, FixtureType
<1>3. object' \in Flags
  <2>1. \A n \in Name : [object EXCEPT !.fs = n] \in Flags
    BY <1>2 DEF Flags
  <2>2. \A n \in Name : [object EXCEPT !.dataPool = n] \in Flags
    BY <1>2 DEF Flags
  <2> QED
    BY <2>1, <2>2, TestsAssumption DEF GiveFlags
<1>4. FixtureType'
  BY <1>1, <1>3 DEF TestsInv, FixtureType
<1>5. FsOutOK' /\ CallOK' /\ UsersOK' /\ DoubleAnswers'
  BY <1>1 DEF TestsInv, FsOutOK, CallOK, UsersOK, DoubleAnswers
<1>6. DiscoveryInv'
  BY <1>1, ProviderKeeps DEF TestsInv
<1> QED
  BY <1>4, <1>5, <1>6 DEF TestsInv

-----------------------------------------------------------------------------
(***************************************************************************)
(* The user tests.                                                         *)
(***************************************************************************)

\* A list and one more element.
LEMMA OneMore ==
    ASSUME NEW S, NEW s \in Seq(S), NEW v \in S, NEW t \in Seq(S),
           Len(t) = Len(s) + 1, t[Len(s) + 1] = v,
           \A i \in 1 .. Len(s) : t[i] = s[i]
    PROVE  s \o <<v>> = t
<1> DEFINE u == <<v>>
<1>1. u \in Seq(S) /\ Len(u) = 1 /\ u[1] = v
  OBVIOUS
<1>2. Len(s) \in Nat
  BY LenProperties
<1> HIDE DEF u
<1>3. /\ s \o u \in Seq(S) /\ Len(s \o u) = Len(s) + Len(u)
      /\ \A i \in 1 .. Len(s) + Len(u) :
           (s \o u)[i] = IF i <= Len(s) THEN s[i] ELSE u[i - Len(s)]
  BY <1>1, ConcatProperties
<1> DEFINE l == s \o u
<1>4. \A i \in 1 .. Len(l) : l[i] = t[i]
  BY <1>1, <1>2, <1>3
<1>5. l \in Seq(S) /\ Len(l) = Len(t)
  BY <1>1, <1>3
<1> HIDE DEF l
<1>6. l = t
  BY <1>4, <1>5, SeqEqual
<1> QED
  BY <1>6 DEF l, u

LEMMA JoinedTwo ==
    ASSUME NEW x, NEW y
    PROVE  <<x>> \o <<y>> = <<x, y>>
<1> DEFINE S == {x, y}
           s == <<x>>
           t == <<x, y>>
<1>1. /\ s \in Seq(S) /\ t \in Seq(S) /\ y \in S
      /\ Len(t) = Len(s) + 1 /\ t[Len(s) + 1] = y
      /\ \A i \in 1 .. Len(s) : t[i] = s[i]
  OBVIOUS
<1> HIDE DEF S, s, t
<1>2. s \o <<y>> = t
  BY <1>1, OneMore
<1> QED
  BY <1>2 DEF s, t

LEMMA JoinedThree ==
    ASSUME NEW x, NEW y, NEW z
    PROVE  <<x>> \o <<y>> \o <<z>> = <<x, y, z>>
<1> DEFINE S == {x, y, z}
           s == <<x, y>>
           t == <<x, y, z>>
<1>1. /\ s \in Seq(S) /\ t \in Seq(S) /\ z \in S
      /\ Len(t) = Len(s) + 1 /\ t[Len(s) + 1] = z
      /\ \A i \in 1 .. Len(s) : t[i] = s[i]
  OBVIOUS
<1> HIDE DEF S, s, t
<1>2. s \o <<z>> = t
  BY <1>1, OneMore
<1> QED
  BY <1>2, JoinedTwo DEF s, t

LEMMA JoinedFour ==
    ASSUME NEW x, NEW y, NEW z, NEW w
    PROVE  <<x>> \o <<y>> \o <<z>> \o <<w>> = <<x, y, z, w>>
<1> DEFINE S == {x, y, z, w}
           s == <<x, y, z>>
           t == <<x, y, z, w>>
<1>1. /\ s \in Seq(S) /\ t \in Seq(S) /\ w \in S
      /\ Len(t) = Len(s) + 1 /\ t[Len(s) + 1] = w
      /\ \A i \in 1 .. Len(s) : t[i] = s[i]
  OBVIOUS
<1> HIDE DEF S, s, t
<1>2. s \o <<w>> = t
  BY <1>1, OneMore
<1>3. <<x>> \o <<y>> \o <<z>> = s
  BY JoinedThree DEF s
<1> QED
  BY <1>2, <1>3 DEF t

\* Nothing is added where a daemon gets no permissions.
LEMMA JoinedNone ==
    ASSUME NEW x, NEW y, NEW z
    PROVE  /\ <<x>> \o << >> = <<x>> /\ <<x, y>> \o << >> = <<x, y>>
           /\ <<x, y, z>> \o << >> = <<x, y, z>>
<1> DEFINE S == {x, y, z}
           one == <<x>>
           two == <<x, y>>
           three == <<x, y, z>>
<1>1. one \in Seq(S) /\ two \in Seq(S) /\ three \in Seq(S)
  OBVIOUS
<1> HIDE DEF S, one, two, three
<1>2. one \o << >> = one /\ two \o << >> = two /\ three \o << >> = three
  BY <1>1, ConcatEmptySeq
<1> QED
  BY <1>2 DEF one, two, three

LEMMA CopiedFirst ==
    ASSUME NEW x, NEW y
    PROVE  <<x>> \o <<x, y>> = <<x, x, y>>
<1> DEFINE S == {x, y}
           a == <<x>>
           b == <<y>>
<1>1. a \in Seq(S) /\ b \in Seq(S)
  OBVIOUS
<1> HIDE DEF S, a, b
<1>2. a \o a \o b = a \o (a \o b)
  BY <1>1, ConcatAssociative
<1>3. a \o b = <<x, y>> /\ a \o a \o b = <<x, x, y>>
  BY JoinedTwo, JoinedThree DEF a, b
<1> QED
  BY <1>2, <1>3 DEF a

\* The text of a command has the daemons that get permissions, in the order of
\* the dictionary.
LEMMA ListedInOrder ==
    ASSUME NEW mon, NEW mgr, NEW osd, NEW mds, mon # << >>, osd # << >>,
           mgr # << >> \/ mds = << >>,
           NEW order \in {DictKeys, CapKeys}
    PROVE  Listed(order, CapsOn(mon, mgr, osd, mds)) =
             IF mgr = << >> /\ mds = << >> THEN <<<<"mon", mon>>, <<"osd", osd>>>>
             ELSE IF mds = << >> THEN <<<<"mon", mon>>, <<"mgr", mgr>>, <<"osd", osd>>>>
             ELSE <<<<"mon", mon>>, <<"mgr", mgr>>, <<"osd", osd>>, <<"mds", mds>>>>
<1> DEFINE x == <<"mon", mon>>
           y == <<"mgr", mgr>>
           z == <<"osd", osd>>
           w == <<"mds", mds>>
           caps == CapsOn(mon, mgr, osd, mds)
<1>1. caps["mon"] = mon /\ caps["mgr"] = mgr /\ caps["osd"] = osd /\ caps["mds"] = mds
  BY DEF CapsOn, Daemons
<1>2. order[1] = "mon" /\ order[2] = "mgr" /\ order[3] = "osd" /\ order[4] = "mds"
  BY DEF DictKeys, CapKeys
<1> HIDE DEF caps
<1>3. Listed(order, caps) =
        Entry("mon", mon) \o Entry("mgr", mgr) \o Entry("osd", osd) \o Entry("mds", mds)
  BY <1>1, <1>2 DEF Listed
<1>4. /\ Entry("mon", mon) = <<x>> /\ Entry("osd", osd) = <<z>>
      /\ Entry("mgr", mgr) = IF mgr = << >> THEN << >> ELSE <<y>>
      /\ Entry("mds", mds) = IF mds = << >> THEN << >> ELSE <<w>>
  BY DEF Entry
<1> HIDE DEF x, y, z, w
<1>5. CASE mgr = << >> /\ mds = << >>
  <2>1. Listed(order, caps) = <<x>> \o << >> \o <<z>> \o << >>
    BY <1>3, <1>4, <1>5
  <2>2. Listed(order, caps) = <<x, z>>
    BY <2>1, JoinedTwo, JoinedNone
  <2> QED
    BY <1>5, <2>2 DEF x, z, caps
<1>6. CASE mgr # << >> /\ mds = << >>
  <2>1. Listed(order, caps) = <<x>> \o <<y>> \o <<z>> \o << >>
    BY <1>3, <1>4, <1>6
  <2>2. <<x>> \o <<y>> \o <<z>> = <<x, y, z>> /\ <<x, y, z>> \o << >> = <<x, y, z>>
    BY JoinedThree, JoinedNone
  <2>3. Listed(order, caps) = <<x, y, z>>
    BY <2>1, <2>2
  <2> QED
    BY <1>6, <2>3 DEF x, y, z, caps
<1>7. CASE mgr # << >> /\ mds # << >>
  <2>1. Listed(order, caps) = <<x>> \o <<y>> \o <<z>> \o <<w>>
    BY <1>3, <1>4, <1>7
  <2>2. Listed(order, caps) = <<x, y, z, w>>
    BY <2>1, JoinedFour
  <2> QED
    BY <1>7, <2>2 DEF x, y, z, w, caps
<1> QED
  BY <1>5, <1>6, <1>7

\* A list without duplicates, appended to itself, keeps its order.
LEMMA DedupedTwice ==
    ASSUME NEW S, NEW xs \in Seq(S),
           \A i, j \in DOMAIN xs : xs[i] = xs[j] => i = j
    PROVE  Deduped(xs \o xs) = xs
<1> DEFINE n == Len(xs)
           seq == xs \o xs
           firsts == {i \in DOMAIN seq : \A j \in 1 .. i - 1 : seq[j] # seq[i]}
<1>1. n \in Nat /\ DOMAIN xs = 1 .. n /\ xs \in [1 .. n -> S]
  BY LenProperties
<1>2. /\ seq \in Seq(S) /\ Len(seq) = Len(xs) + Len(xs)
      /\ \A i \in 1 .. Len(xs) + Len(xs) :
           seq[i] = IF i <= Len(xs) THEN xs[i] ELSE xs[i - Len(xs)]
  BY ConcatProperties
<1>3. DOMAIN seq = 1 .. n + n
  BY <1>2, LenProperties
<1>4. Deduped(seq) = [k \in 1 .. Cardinality(firsts) |->
                        seq[CHOOSE i \in firsts : Cardinality(firsts \cap 1 .. i) = k]]
  BY DEF Deduped
<1> HIDE DEF n, seq
<1>5. firsts = 1 .. n
  <2>1. ASSUME NEW i \in 1 .. n
        PROVE  i \in firsts
    <3>1. i \in 1 .. n + n /\ seq[i] = xs[i]
      BY <1>1, <1>2, <2>1 DEF n
    <3>2. ASSUME NEW j \in 1 .. i - 1
          PROVE  seq[j] # seq[i]
      <4>1. j \in 1 .. n /\ j \in 1 .. n + n /\ j # i
        BY <1>1, <2>1, <3>2
      <4>2. seq[j] = xs[j]
        BY <1>1, <1>2, <4>1 DEF n
      <4> QED
        BY <1>1, <2>1, <3>1, <4>1, <4>2
    <3> QED
      BY <1>3, <3>1, <3>2
  <2>2. ASSUME NEW i \in firsts
        PROVE  i \in 1 .. n
    <3>1. i \in 1 .. n + n
      BY <1>3, <2>2
    <3>2. CASE i > n
      <4>1. i - n \in 1 .. n /\ i - n \in 1 .. i - 1 /\ i - n \in 1 .. n + n
        BY <1>1, <3>1, <3>2
      <4>2. seq[i] = xs[i - n] /\ seq[i - n] = xs[i - n]
        BY <1>1, <1>2, <3>1, <3>2, <4>1 DEF n
      <4> QED
        BY <2>2, <4>1, <4>2
    <3> QED
      BY <1>1, <3>1, <3>2
  <2> QED
    BY <2>1, <2>2
<1> HIDE DEF firsts
<1>6. \A i \in 1 .. n : Cardinality(firsts \cap 1 .. i) = i
  <2>1. ASSUME NEW i \in 1 .. n
        PROVE  Cardinality(firsts \cap 1 .. i) = i
    <3>1. firsts \cap 1 .. i = 1 .. i
      BY <1>1, <1>5, <2>1
    <3>2. i \in Nat /\ Cardinality(1 .. i) = i
      BY <1>1, <2>1, FS_Interval
    <3> QED
      BY <3>1, <3>2
  <2> QED
    BY <2>1
<1>7. Cardinality(firsts) = n
  BY <1>1, <1>5, FS_Interval
<1>8. \A k \in 1 .. n : (CHOOSE i \in firsts : Cardinality(firsts \cap 1 .. i) = k) = k
  BY <1>5, <1>6
<1>9. Deduped(seq) = [k \in 1 .. n |-> seq[k]]
  BY <1>4, <1>7, <1>8
<1>10. \A k \in 1 .. n : seq[k] = xs[k]
  BY <1>1, <1>2 DEF n
<1>11. xs = [k \in 1 .. n |-> xs[k]]
  BY <1>1
<1> QED
  BY <1>9, <1>10, <1>11 DEF seq

\* Its first element is kept, the copy of it is not.
LEMMA DedupedCopy ==
    ASSUME NEW x, NEW y, x # y
    PROVE  Deduped(<<x, x, y>>) = <<x, y>>
<1> DEFINE seq == <<x, x, y>>
           firsts == {i \in DOMAIN seq : \A j \in 1 .. i - 1 : seq[j] # seq[i]}
<1>1. DOMAIN seq = {1, 2, 3} /\ seq[1] = x /\ seq[2] = x /\ seq[3] = y
  <2>1. DOMAIN seq = 1 .. 3 /\ seq[1] = x /\ seq[2] = x /\ seq[3] = y
    OBVIOUS
  <2> QED
    BY <2>1
<1>2. Deduped(seq) = [k \in 1 .. Cardinality(firsts) |->
                        seq[CHOOSE i \in firsts : Cardinality(firsts \cap 1 .. i) = k]]
  BY DEF Deduped
<1> HIDE DEF seq
<1>3. firsts = {1, 3}
  <2>1. 1 \in firsts
    BY <1>1
  <2>2. 2 \notin firsts
    <3>1. 1 \in 1 .. 2 - 1 /\ seq[1] = seq[2]
      BY <1>1
    <3> QED
      BY <3>1
  <2>3. 3 \in firsts
    <3>1. \A j \in 1 .. 3 - 1 : j = 1 \/ j = 2
      OBVIOUS
    <3> QED
      BY <1>1, <3>1
  <2> QED
    BY <1>1, <2>1, <2>2, <2>3
<1> HIDE DEF firsts
<1>4. Cardinality({1}) = 1 /\ IsFiniteSet({1}) /\ Cardinality({1, 3}) = 2
  <2>1. Cardinality({1}) = 1 /\ IsFiniteSet({1})
    BY FS_Singleton
  <2>2. {1, 3} = {1} \cup {3} /\ 3 \notin {1}
    OBVIOUS
  <2>3. Cardinality({1} \cup {3}) = Cardinality({1}) + 1
    BY <2>1, <2>2, FS_AddElement
  <2> QED
    BY <2>1, <2>2, <2>3
<1>5. firsts \cap 1 .. 1 = {1} /\ firsts \cap 1 .. 3 = {1, 3}
  BY <1>3
<1>6. /\ Cardinality(firsts) = 2
      /\ Cardinality(firsts \cap 1 .. 1) = 1 /\ Cardinality(firsts \cap 1 .. 3) = 2
  BY <1>3, <1>4, <1>5
<1> DEFINE at(k) == CHOOSE i \in firsts : Cardinality(firsts \cap 1 .. i) = k
<1>7. at(1) = 1 /\ at(2) = 3
  BY <1>3, <1>6
<1> HIDE DEF at
<1>8. Deduped(seq) = [k \in 1 .. 2 |-> seq[at(k)]]
  BY <1>2, <1>6 DEF at
<1>9. \A k \in 1 .. 2 : seq[at(k)] = IF k = 1 THEN x ELSE y
  BY <1>1, <1>7
<1>10. Deduped(seq) = [k \in 1 .. 2 |-> IF k = 1 THEN x ELSE y]
  BY <1>8, <1>9
<1>11. [k \in 1 .. 2 |-> IF k = 1 THEN x ELSE y] = <<x, y>>
  OBVIOUS
<1> QED
  BY <1>10, <1>11 DEF seq

\* A permission for each kind, in the order of the kinds.
LEMMA PermsProperties ==
    ASSUME NEW kinds \in Seq(Kinds)
    PROVE  /\ Perms(kinds) \in Seq(Perm) /\ Len(Perms(kinds)) = Len(kinds)
           /\ \A i \in 1 .. Len(kinds) : Perms(kinds)[i] = Bound(kinds[i], Unset, Unset)
<1>1. Len(kinds) \in Nat /\ DOMAIN kinds = 1 .. Len(kinds)
      /\ \A i \in 1 .. Len(kinds) : kinds[i] \in Kinds
  BY LenProperties
<1>2. \A k \in Kinds : Bound(k, Unset, Unset) \in Perm
  BY EmptySeq DEF Bound, Perm, Name, Unset
<1>3. Perms(kinds) \in [1 .. Len(kinds) -> Perm]
  BY <1>1, <1>2 DEF Perms
<1>4. Perms(kinds) \in Seq(Perm)
  BY <1>1, <1>3, SeqDef
<1>5. Len(Perms(kinds)) = Len(kinds)
  BY <1>1, <1>3, <1>4, LenProperties
<1>6. \A i \in 1 .. Len(kinds) : Perms(kinds)[i] = Bound(kinds[i], Unset, Unset)
  BY <1>1 DEF Perms
<1> QED
  BY <1>4, <1>5, <1>6

\* The lists of permissions that the script and the table write.
LEMMA PermLists ==
    /\ Perms(<<"allow r">>) \in Seq(Perm) \ {<< >>}
    /\ Perms(<<"allow rw">>) \in Seq(Perm) \ {<< >>}
    /\ Perms(<<"config">>) \in Seq(Perm) \ {<< >>}
    /\ Perms(<<"profile rbd", "blocklist">>) \in Seq(Perm) \ {<< >>}
    /\ Perms(<<"allow r", "blocklist">>) \in Seq(Perm) \ {<< >>}
    /\ Perms(<<"allow r", "quorum_status">>) \in Seq(Perm) \ {<< >>}
    /\ CheckerMon \in Seq(Perm) \ {<< >>}
<1>1. \A kinds \in Seq(Kinds) : Len(kinds) # 0 => Perms(kinds) \in Seq(Perm) \ {<< >>}
  BY PermsProperties, EmptySeq
<1>2. /\ <<"allow r">> \in Seq(Kinds) /\ <<"allow rw">> \in Seq(Kinds)
      /\ <<"config">> \in Seq(Kinds) /\ <<"profile rbd", "blocklist">> \in Seq(Kinds)
      /\ <<"allow r", "blocklist">> \in Seq(Kinds)
      /\ <<"allow r", "quorum_status">> \in Seq(Kinds)
      /\ <<"allow r", "quorum_status", "version">> \in Seq(Kinds)
  BY DEF Kinds
<1>3. /\ Len(<<"allow r">>) # 0 /\ Len(<<"allow rw">>) # 0 /\ Len(<<"config">>) # 0
      /\ Len(<<"profile rbd", "blocklist">>) # 0 /\ Len(<<"allow r", "blocklist">>) # 0
      /\ Len(<<"allow r", "quorum_status">>) # 0
      /\ Len(<<"allow r", "quorum_status", "version">>) # 0
  OBVIOUS
<1> QED
  BY <1>1, <1>2, <1>3 DEF CheckerMon

LEMMA BoundLists ==
    /\ \A k \in Kinds, on \in Name, ns \in Name :
         <<Bound(k, on, ns)>> \in Seq(Perm) \ {<< >>}
    /\ CheckerOsd \in Seq(Perm) \ {<< >>}
    /\ CheckerOld \in CapList
<1>1. \A k \in Kinds, on \in Name, ns \in Name : Bound(k, on, ns) \in Perm
  BY DEF Bound, Perm
<1>2. \A p \in Perm : <<p>> \in Seq(Perm) \ {<< >>}
  BY EmptySeq
<1>3. Unset \in Name /\ <<"default">> \in Name
  BY TestsAssumption, EmptySeq DEF Name, Unset
<1>4. \A a, b, c, d, e, f \in Perm : <<a, b, c, d, e, f>> \in Seq(Perm) \ {<< >>}
  BY EmptySeq
<1>5. \A a, b, c, d, e \in Perm : <<a, b, c, d, e>> \in Seq(Perm)
  OBVIOUS
<1>6. /\ Bound("profile rbd-read-only", Unset, Unset) \in Perm
      /\ Bound("rgw.root", Unset, Unset) \in Perm /\ RgwPool("rgw.meta") \in Perm
      /\ RgwPool("rgw.control") \in Perm /\ RgwPool("rgw.log") \in Perm
      /\ RgwPool("rgw.buckets.index") \in Perm
  BY <1>1, <1>3 DEF RgwPool, Kinds
<1>7. CheckerOsd \in Seq(Perm) \ {<< >>}
  BY <1>4, <1>6 DEF CheckerOsd
<1>8. CheckerOld \in CapList
  <2> DEFINE mon == Perms(<<"allow r", "quorum_status">>)
             osd == <<Bound("profile rbd-read-only", Unset, Unset), RgwPool("rgw.meta"),
                      Bound("rgw.root", Unset, Unset), RgwPool("rgw.control"),
                      RgwPool("rgw.buckets.index")>>
  <2>1. mon \in Seq(Perm) /\ osd \in Seq(Perm)
    BY <1>5, <1>6, PermLists
  <2>2. CheckerOld = <<<<"mon", mon>>, <<"osd", osd>>>>
    BY DEF CheckerOld
  <2> HIDE DEF mon, osd
  <2> QED
    BY <2>1, <2>2 DEF CapList, Daemons
<1> QED
  BY <1>1, <1>2, <1>7, <1>8

\* Each row of the table is a list of daemons with lists of permissions.
LEMMA RowsTyped ==
    ASSUME NEW user, NEW caps, <<user, caps>> \in DummyCreates \cup DummyUpgrades
    PROVE  caps \in CapList
<1> DEFINE E == Daemons \X Seq(Perm)
<1>1. <<"default">> \in Name /\ <<"myfs">> \in Name /\ Unset \in Name
  BY TestsAssumption, EmptySeq DEF Name, Unset
<1>2. RbdMon \in E /\ CephfsMon \in E /\ Rw("mgr") \in E /\ Rw("mds") \in E
  BY PermLists DEF RbdMon, CephfsMon, Rw, Daemons
<1>3. \A k \in Kinds, on \in Name : Osd(k, on) \in E
  BY <1>1, BoundLists DEF Osd, Daemons
<1>4. CheckerKnown \in CapList
  <2>1. <<"mon", CheckerMon>> \in E /\ <<"mgr", Perms(<<"config">>)>> \in E
        /\ <<"osd", CheckerOsd>> \in E
    BY PermLists, BoundLists DEF Daemons
  <2> QED
    BY <2>1 DEF CheckerKnown, CapList
<1>5. Osd("profile rbd", Unset) \in E /\ Osd("cephfs *=", Unset) \in E
      /\ Osd("cephfs metadata=", Unset) \in E /\ Osd("cephfs metadata=", <<"myfs">>) \in E
  BY <1>1, <1>3 DEF Kinds
<1> HIDE DEF E
<1>6. CapList = Seq(E)
  BY DEF E, CapList
<1>7. /\ <<RbdMon, Osd("profile rbd", Unset)>> \in CapList
      /\ <<RbdMon, Rw("mgr"), Osd("profile rbd", Unset)>> \in CapList
      /\ <<CephfsMon, Rw("mgr"), Osd("cephfs *=", Unset), Rw("mds")>> \in CapList
      /\ FsProvisionerKnown(Unset) \in CapList
      /\ FsProvisionerKnown(<<"myfs">>) \in CapList
  <2>1. \A a, b \in E : <<a, b>> \in Seq(E)
    OBVIOUS
  <2>2. \A a, b, c \in E : <<a, b, c>> \in Seq(E)
    OBVIOUS
  <2>3. \A a, b, c, d \in E : <<a, b, c, d>> \in Seq(E)
    OBVIOUS
  <2>4. FsProvisionerKnown(Unset) \in Seq(E) /\ FsProvisionerKnown(<<"myfs">>) \in Seq(E)
    BY <1>2, <1>5, <2>2 DEF FsProvisionerKnown
  <2>5. <<RbdMon, Osd("profile rbd", Unset)>> \in Seq(E)
    BY <1>2, <1>5, <2>1
  <2>6. <<RbdMon, Rw("mgr"), Osd("profile rbd", Unset)>> \in Seq(E)
    BY <1>2, <1>5, <2>2
  <2>7. <<CephfsMon, Rw("mgr"), Osd("cephfs *=", Unset), Rw("mds")>> \in Seq(E)
    BY <1>2, <1>5, <2>3
  <2> QED
    BY <1>6, <2>4, <2>5, <2>6, <2>7
<1>8. caps \in {CheckerOld, CheckerKnown, <<RbdMon, Osd("profile rbd", Unset)>>,
                  <<RbdMon, Rw("mgr"), Osd("profile rbd", Unset)>>,
                  <<CephfsMon, Rw("mgr"), Osd("cephfs *=", Unset), Rw("mds")>>,
                  FsProvisionerKnown(Unset), FsProvisionerKnown(<<"myfs">>)}
  BY DEF DummyCreates, DummyUpgrades
<1> QED
  BY <1>4, <1>7, <1>8, BoundLists

-----------------------------------------------------------------------------
(***************************************************************************)
(* The commands of the user tests.                                         *)
(***************************************************************************)

\* "auth get-or-create" has the names and the texts of the table, for the flags
\* that test_method_create_cephCSIKeyring_cephFSProvisioner sets.
LEMMA RestrictedCreates ==
    ASSUME NEW fs \in {Unset, <<"myfs">>},
           NEW base, base = "csi-cephfs-provisioner"
    PROVE  /\ EntityOf(base, Restricted(fs)) \in DummyGets
           /\ <<EntityOf(base, Restricted(fs)),
                Listed(DictKeys, ListsOf(base, Restricted(fs)))>> \in DummyCreates
<1> DEFINE f == Restricted(fs)
           b == <<"csi-cephfs-provisioner">>
<1>1. f.restricted /\ f.cluster = Storage /\ f.fs = fs
  BY DEF Restricted, SetUp
<1>2. EntityOf(base, f) = b \o Storage \o fs
  BY <1>1 DEF EntityOf, CephfsEntity
<1>3. ListsOf(base, f) = CapsOn(Perms(<<"allow r", "blocklist">>), Perms(<<"allow rw">>),
                                <<Bound("cephfs metadata=", fs, Unset)>>, << >>)
  BY <1>1 DEF ListsOf, CephfsLists, CephfsBound
<1> HIDE DEF f
<1>4. Listed(DictKeys, ListsOf(base, f)) = FsProvisionerKnown(fs)
  <2> DEFINE mon == Perms(<<"allow r", "blocklist">>)
             mgr == Perms(<<"allow rw">>)
             osd == <<Bound("cephfs metadata=", fs, Unset)>>
             mds == << >>
  <2>1. mon # << >> /\ mgr # << >> /\ osd # << >> /\ mds = << >>
    BY PermLists
  <2>2. FsProvisionerKnown(fs) = <<<<"mon", mon>>, <<"mgr", mgr>>, <<"osd", osd>>>>
    BY DEF FsProvisionerKnown, CephfsMon, Rw, Osd
  <2> HIDE DEF mon, mgr, osd, mds
  <2>3. Listed(DictKeys, CapsOn(mon, mgr, osd, mds))
        = <<<<"mon", mon>>, <<"mgr", mgr>>, <<"osd", osd>>>>
    BY <2>1, ListedInOrder
  <2> QED
    BY <1>3, <2>2, <2>3 DEF mon, mgr, osd, mds
<1>5. b \o Storage \o Unset = b \o Storage
  <2> DEFINE S == {"csi-cephfs-provisioner", "openshift-storage"}
             t == Storage
  <2>1. b \in Seq(S) /\ t \in Seq(S)
    BY DEF Storage
  <2> HIDE DEF S, b, t
  <2>2. b \o t \o << >> = b \o t
    BY <2>1, ConcatProperties, ConcatEmptySeq
  <2> QED
    BY <2>2 DEF t, Unset
<1> HIDE DEF b
<1>6. CASE fs = Unset
  BY <1>2, <1>4, <1>5, <1>6 DEF DummyGets, DummyCreates, b, f
<1>7. CASE fs = <<"myfs">>
  BY <1>2, <1>4, <1>7 DEF DummyGets, DummyCreates, b, f
<1> QED
  BY <1>6, <1>7

\* And for the flags of the other tests.
LEMMA SetUpCreates ==
    ASSUME NEW base \in CsiBases \cup {"healthchecker"}
    PROVE  /\ EntityOf(base, SetUp) = <<base>>
           /\ <<<<base>>, Listed(DictKeys, ListsOf(base, SetUp))>> \in DummyCreates
<1> DEFINE f == SetUp
           rbd == Perms(<<"profile rbd", "blocklist">>)
           rw == Perms(<<"allow rw">>)
           reader == Perms(<<"allow r", "blocklist">>)
           config == Perms(<<"config">>)
           on(kind) == <<Bound(kind, Unset, Unset)>>
           none == << >>
<1>1. /\ f.release = "master" /\ ~f.restricted /\ f.prefix = <<"default">>
      /\ f.runAs = DefaultChecker
  BY DEF SetUp
<1>2. /\ rbd # << >> /\ rw # << >> /\ reader # << >> /\ config # << >> /\ none = << >>
      /\ CheckerMon # << >> /\ CheckerOsd # << >>
  BY PermLists, BoundLists
<1> HIDE DEF f
<1>3. CASE base = "csi-rbd-node"
  <2> DEFINE osd == on("profile rbd")
  <2>1. EntityOf(base, f) = <<base>> /\ ListsOf(base, f) = CapsOn(rbd, none, osd, none)
    BY <1>1, <1>3 DEF EntityOf, RbdEntity, ListsOf, RbdLists
  <2>2. <<RbdMon, Osd("profile rbd", Unset)>>
        = <<<<"mon", rbd>>, <<"osd", osd>>>>
    BY DEF RbdMon, Osd
  <2> DEFINE mgr == << >>
  <2>3. rbd # << >> /\ mgr = << >> /\ osd # << >> /\ none = << >>
    BY <1>2
  <2> HIDE DEF rbd, mgr, osd, none
  <2>4. Listed(DictKeys, CapsOn(rbd, mgr, osd, none)) = <<<<"mon", rbd>>, <<"osd", osd>>>>
    BY <2>3, ListedInOrder
  <2>5. Listed(DictKeys, ListsOf(base, f)) = <<RbdMon, Osd("profile rbd", Unset)>>
    BY <2>1, <2>2, <2>3, <2>4
  <2> QED
    BY <1>3, <2>1, <2>5 DEF DummyCreates, f
<1>4. CASE base = "csi-rbd-provisioner"
  <2> DEFINE osd == on("profile rbd")
  <2>1. EntityOf(base, f) = <<base>> /\ ListsOf(base, f) = CapsOn(rbd, rw, osd, none)
    BY <1>1, <1>4 DEF EntityOf, RbdEntity, ListsOf, RbdLists
  <2>2. <<RbdMon, Rw("mgr"), Osd("profile rbd", Unset)>>
        = <<<<"mon", rbd>>, <<"mgr", rw>>, <<"osd", osd>>>>
    BY DEF RbdMon, Osd, Rw
  <2>3. rbd # << >> /\ rw # << >> /\ none = << >> /\ osd # << >>
    BY <1>2
  <2> HIDE DEF rbd, rw, osd, none
  <2>4. Listed(DictKeys, CapsOn(rbd, rw, osd, none))
        = <<<<"mon", rbd>>, <<"mgr", rw>>, <<"osd", osd>>>>
    BY <2>3, ListedInOrder
  <2>5. Listed(DictKeys, ListsOf(base, f)) = <<RbdMon, Rw("mgr"), Osd("profile rbd", Unset)>>
    BY <2>1, <2>2, <2>4
  <2> QED
    BY <1>4, <2>1, <2>5 DEF DummyCreates, f
<1>5. CASE base = "csi-cephfs-node"
  <2> DEFINE osd == on("cephfs *=")
  <2>1. EntityOf(base, f) = <<base>> /\ ListsOf(base, f) = CapsOn(reader, rw, osd, rw)
    BY <1>1, <1>5 DEF EntityOf, CephfsEntity, ListsOf, CephfsLists, CephfsBound
  <2>2. <<CephfsMon, Rw("mgr"), Osd("cephfs *=", Unset), Rw("mds")>>
        = <<<<"mon", reader>>, <<"mgr", rw>>, <<"osd", osd>>, <<"mds", rw>>>>
    BY DEF CephfsMon, Osd, Rw
  <2>3. reader # << >> /\ rw # << >> /\ osd # << >>
    BY <1>2
  <2> HIDE DEF reader, rw, osd
  <2>4. Listed(DictKeys, CapsOn(reader, rw, osd, rw))
        = <<<<"mon", reader>>, <<"mgr", rw>>, <<"osd", osd>>, <<"mds", rw>>>>
    BY <2>3, ListedInOrder
  <2>5. Listed(DictKeys, ListsOf(base, f))
        = <<CephfsMon, Rw("mgr"), Osd("cephfs *=", Unset), Rw("mds")>>
    BY <2>1, <2>2, <2>4
  <2> QED
    BY <1>5, <2>1, <2>5 DEF DummyCreates, f
<1>6. CASE base = "csi-cephfs-provisioner"
  <2> DEFINE osd == on("cephfs metadata=")
  <2>1. EntityOf(base, f) = <<base>> /\ ListsOf(base, f) = CapsOn(reader, rw, osd, none)
    BY <1>1, <1>6 DEF EntityOf, CephfsEntity, ListsOf, CephfsLists, CephfsBound
  <2>2. FsProvisionerKnown(Unset)
        = <<<<"mon", reader>>, <<"mgr", rw>>, <<"osd", osd>>>>
    BY DEF FsProvisionerKnown, CephfsMon, Osd, Rw
  <2>3. reader # << >> /\ rw # << >> /\ none = << >> /\ osd # << >>
    BY <1>2
  <2> HIDE DEF reader, rw, osd, none
  <2>4. Listed(DictKeys, CapsOn(reader, rw, osd, none))
        = <<<<"mon", reader>>, <<"mgr", rw>>, <<"osd", osd>>>>
    BY <2>3, ListedInOrder
  <2>5. Listed(DictKeys, ListsOf(base, f)) = FsProvisionerKnown(Unset)
    BY <2>1, <2>2, <2>4
  <2> QED
    BY <1>6, <2>1, <2>5 DEF DummyCreates, f
<1>7. CASE base = "healthchecker"
  <2>1. /\ EntityOf(base, f) = DefaultChecker
        /\ ListsOf(base, f) = CapsOn(CheckerMon, config, CheckerOsd, none)
    BY <1>1, <1>7 DEF EntityOf, CheckerEntity, ListsOf, CheckerLists, CheckerMon,
                      CheckerOsd, RgwPool
  <2>2. CheckerKnown = <<<<"mon", CheckerMon>>, <<"mgr", config>>, <<"osd", CheckerOsd>>>>
    BY DEF CheckerKnown
  <2>3. CheckerMon # << >> /\ config # << >> /\ none = << >> /\ CheckerOsd # << >>
    BY <1>2
  <2> HIDE DEF config, none
  <2>4. Listed(DictKeys, CapsOn(CheckerMon, config, CheckerOsd, none))
        = <<<<"mon", CheckerMon>>, <<"mgr", config>>, <<"osd", CheckerOsd>>>>
    BY <2>3, ListedInOrder
  <2>5. Listed(DictKeys, ListsOf(base, f)) = CheckerKnown
    BY <2>1, <2>2, <2>4
  <2> QED
    BY <1>7, <2>1, <2>5 DEF DummyCreates, DefaultChecker, f
<1> QED
  BY <1>3, <1>4, <1>5, <1>6, <1>7 DEF CsiBases, f

\* The lists of two users are merged daemon by daemon.
LEMMA MergeOn ==
    ASSUME NEW a, NEW b, NEW c, NEW d, NEW a2, NEW b2, NEW c2, NEW d2
    PROVE  MergeLists(CapsOn(a, b, c, d), CapsOn(a2, b2, c2, d2))
           = CapsOn(Deduped(a \o a2), Deduped(b \o b2), Deduped(c \o c2), Deduped(d \o d2))
BY DEF MergeLists, CapsOn, Daemons

\* What the current script writes for one daemon of the tests is there once.
LEMMA MergedOnce ==
    /\ Deduped(CheckerMon \o CheckerMon) = CheckerMon
    /\ Deduped(CheckerOsd \o CheckerOsd) = CheckerOsd
    /\ \A k \in Kinds : /\ Deduped(Perms(<<k>>) \o Perms(<<k>>)) = Perms(<<k>>)
                        /\ Deduped(<<Bound(k, Unset, Unset)>> \o <<Bound(k, Unset, Unset)>>)
                           = <<Bound(k, Unset, Unset)>>
    /\ Deduped(<< >> \o << >>) = << >>
    /\ Deduped(Perms(<<"allow r">>) \o Perms(<<"allow r", "blocklist">>))
       = Perms(<<"allow r", "blocklist">>)
<1>1. \A j, k \in Kinds : Bound(j, Unset, Unset) = Bound(k, Unset, Unset) => j = k
  BY DEF Bound
<1>2. \A kinds \in Seq(Kinds) :
         (\A i, j \in 1 .. Len(kinds) : kinds[i] = kinds[j] => i = j) =>
           Deduped(Perms(kinds) \o Perms(kinds)) = Perms(kinds)
  <2>1. ASSUME NEW kinds \in Seq(Kinds),
               \A i, j \in 1 .. Len(kinds) : kinds[i] = kinds[j] => i = j
        PROVE  Deduped(Perms(kinds) \o Perms(kinds)) = Perms(kinds)
    <3> DEFINE xs == Perms(kinds)
    <3>1. /\ xs \in Seq(Perm) /\ Len(xs) = Len(kinds)
          /\ \A i \in 1 .. Len(kinds) : xs[i] = Bound(kinds[i], Unset, Unset)
      BY PermsProperties
    <3> HIDE DEF xs
    <3>2. DOMAIN xs = 1 .. Len(kinds) /\ \A i \in 1 .. Len(kinds) : kinds[i] \in Kinds
      BY <3>1, LenProperties
    <3>3. \A i, j \in DOMAIN xs : xs[i] = xs[j] => i = j
      BY <1>1, <2>1, <3>1, <3>2
    <3>4. Deduped(xs \o xs) = xs
      BY <3>1, <3>3, DedupedTwice
    <3> QED
      BY <3>4 DEF xs
  <2> QED
    BY <2>1
<1>3. Deduped(CheckerMon \o CheckerMon) = CheckerMon
  <2> DEFINE kinds == <<"allow r", "quorum_status", "version">>
  <2>1. /\ kinds \in Seq(Kinds) /\ Len(kinds) = 3 /\ kinds[1] = "allow r"
        /\ kinds[2] = "quorum_status" /\ kinds[3] = "version"
    BY DEF Kinds
  <2> HIDE DEF kinds
  <2>2. \A i, j \in {1, 2, 3} : kinds[i] = kinds[j] => i = j
    BY <2>1
  <2>3. 1 .. 3 = {1, 2, 3}
    OBVIOUS
  <2>4. \A i, j \in 1 .. Len(kinds) : kinds[i] = kinds[j] => i = j
    <3>1. Len(kinds) = 3
      BY <2>1
    <3>2. 1 .. Len(kinds) = {1, 2, 3}
      BY <2>3, <3>1
    <3> QED
      BY <2>2, <3>2
  <2>5. Deduped(Perms(kinds) \o Perms(kinds)) = Perms(kinds)
    BY <1>2, <2>1, <2>4
  <2> QED
    BY <2>5 DEF CheckerMon, kinds
<1>4. Deduped(CheckerOsd \o CheckerOsd) = CheckerOsd
  <2> DEFINE xs == CheckerOsd
  <2>1. xs \in Seq(Perm)
    BY BoundLists
  <2>2. \A i, j \in DOMAIN xs : xs[i] = xs[j] => i = j
    <3>1. DOMAIN xs = 1 .. 6
      BY DEF CheckerOsd
    <3>2. /\ xs[1].kind = "profile rbd-read-only" /\ xs[2].kind = "rgw.meta"
          /\ xs[3].kind = "rgw.root" /\ xs[4].kind = "rgw.control"
          /\ xs[5].kind = "rgw.log" /\ xs[6].kind = "rgw.buckets.index"
      BY DEF CheckerOsd, RgwPool, Bound
    <3> DEFINE kind(i) == xs[i].kind
    <3> HIDE DEF kind, xs
    <3>3. ASSUME NEW i \in {1, 2, 3, 4, 5, 6}, NEW j \in {1, 2, 3, 4, 5, 6},
                 kind(i) = kind(j)
          PROVE  i = j
      <4>1. /\ kind(1) = "profile rbd-read-only" /\ kind(2) = "rgw.meta"
            /\ kind(3) = "rgw.root" /\ kind(4) = "rgw.control"
            /\ kind(5) = "rgw.log" /\ kind(6) = "rgw.buckets.index"
        BY <3>2 DEF kind
      <4>2. CASE i = 1
        BY <3>3, <4>1, <4>2
      <4>3. CASE i = 2
        BY <3>3, <4>1, <4>3
      <4>4. CASE i = 3
        BY <3>3, <4>1, <4>4
      <4>5. CASE i = 4
        BY <3>3, <4>1, <4>5
      <4>6. CASE i = 5
        BY <3>3, <4>1, <4>6
      <4>7. CASE i = 6
        BY <3>3, <4>1, <4>7
      <4> QED
        BY <4>2, <4>3, <4>4, <4>5, <4>6, <4>7
    <3>4. 1 .. 6 = {1, 2, 3, 4, 5, 6}
      OBVIOUS
    <3> QED
      BY <3>1, <3>3, <3>4 DEF kind
  <2> HIDE DEF xs
  <2>3. Deduped(xs \o xs) = xs
    BY <2>1, <2>2, DedupedTwice
  <2> QED
    BY <2>3 DEF xs
<1>5. ASSUME NEW k \in Kinds
      PROVE  /\ Deduped(Perms(<<k>>) \o Perms(<<k>>)) = Perms(<<k>>)
             /\ Deduped(<<Bound(k, Unset, Unset)>> \o <<Bound(k, Unset, Unset)>>)
                = <<Bound(k, Unset, Unset)>>
  <2> DEFINE kinds == <<k>>
             xs == <<Bound(k, Unset, Unset)>>
  <2>1. kinds \in Seq(Kinds) /\ \A i, j \in 1 .. Len(kinds) : kinds[i] = kinds[j] => i = j
    OBVIOUS
  <2>2. xs \in Seq(Perm) /\ \A i, j \in DOMAIN xs : xs[i] = xs[j] => i = j
    <3>1. Bound(k, Unset, Unset) \in Perm
      BY TestNames DEF Bound, Perm
    <3> QED
      BY <3>1
  <2> HIDE DEF kinds, xs
  <2>3. Deduped(Perms(kinds) \o Perms(kinds)) = Perms(kinds)
    BY <1>2, <2>1
  <2>4. Deduped(xs \o xs) = xs
    BY <2>2, DedupedTwice
  <2> QED
    BY <2>3, <2>4 DEF kinds, xs
<1>6. Deduped(<< >> \o << >>) = << >>
  <2> DEFINE xs == << >>
  <2>1. xs \in Seq(Perm) /\ \A i, j \in DOMAIN xs : xs[i] = xs[j] => i = j
    BY EmptySeq
  <2> HIDE DEF xs
  <2>2. Deduped(xs \o xs) = xs
    BY <2>1, DedupedTwice
  <2> QED
    BY <2>2 DEF xs
<1>7. Deduped(Perms(<<"allow r">>) \o Perms(<<"allow r", "blocklist">>))
      = Perms(<<"allow r", "blocklist">>)
  <2> DEFINE x == Bound("allow r", Unset, Unset)
             y == Bound("blocklist", Unset, Unset)
  <2>1. x # y
    BY DEF Bound
  <2>2. Perms(<<"allow r">>) = <<x>> /\ Perms(<<"allow r", "blocklist">>) = <<x, y>>
    <3> DEFINE one == <<"allow r">>
               two == <<"allow r", "blocklist">>
    <3>1. /\ one \in Seq(Kinds) /\ Len(one) = 1 /\ one[1] = "allow r"
          /\ two \in Seq(Kinds) /\ Len(two) = 2 /\ two[1] = "allow r"
          /\ two[2] = "blocklist"
      BY DEF Kinds
    <3> DEFINE s == Perms(one)
               t == Perms(two)
               s2 == <<x>>
               t2 == <<x, y>>
    <3> HIDE DEF one, two
    <3>2. /\ s \in Seq(Perm) /\ Len(s) = 1 /\ s[1] = x
          /\ t \in Seq(Perm) /\ Len(t) = 2 /\ t[1] = x /\ t[2] = y
      <4>1. 1 \in 1 .. Len(one) /\ 1 \in 1 .. Len(two) /\ 2 \in 1 .. Len(two)
        <5>1. Len(one) = 1 /\ Len(two) = 2
          BY <3>1
        <5> QED
          BY <5>1
      <4>2. /\ s \in Seq(Perm) /\ Len(s) = Len(one) /\ s[1] = Bound(one[1], Unset, Unset)
        BY <3>1, <4>1, PermsProperties
      <4>3. /\ t \in Seq(Perm) /\ Len(t) = Len(two) /\ t[1] = Bound(two[1], Unset, Unset)
            /\ t[2] = Bound(two[2], Unset, Unset)
        BY <3>1, <4>1, PermsProperties
      <4> QED
        BY <3>1, <4>2, <4>3
    <3>3. x \in Perm /\ y \in Perm
      BY TestNames DEF Bound, Perm, Kinds
    <3> HIDE DEF x, y
    <3>4. /\ s2 \in Seq(Perm) /\ Len(s2) = 1 /\ s2[1] = x
          /\ t2 \in Seq(Perm) /\ Len(t2) = 2 /\ t2[1] = x /\ t2[2] = y
      BY <3>3
    <3> HIDE DEF s, t, s2, t2
    <3>5. s = s2 /\ t = t2
      BY <3>2, <3>4, SeqEqual
    <3> QED
      BY <3>5 DEF s, t, s2, t2, one, two
  <2> HIDE DEF x, y
  <2>3. <<x>> \o <<x, y>> = <<x, x, y>>
    BY CopiedFirst
  <2>4. Deduped(<<x, x, y>>) = <<x, y>>
    BY <2>1, DedupedCopy
  <2> QED
    BY <2>2, <2>3, <2>4
<1> QED
  BY <1>3, <1>4, <1>5, <1>6, <1>7

\* An upgrade of one of the two users that the double knows appends nothing that
\* its table lacks, and nothing at another place.
LEMMA DoubleUpgrades ==
    ASSUME NEW b \in CsiBases \cup {"healthchecker"}, <<b>> \in DOMAIN DummyUsers
    PROVE  LET f == [SetUp EXCEPT !.upgrade = TRUE]
           IN  <<<<b>>, Listed(CapKeys, MergeLists(DummyUsers[<<b>>], ListsOf(b, f)))>>
                   \in DummyUpgrades
<1> DEFINE f == [SetUp EXCEPT !.upgrade = TRUE]
           none == << >>
<1>1. ~f.restricted /\ f.prefix = <<"default">>
  BY TestNames DEF Flags, SetUp
<1> HIDE DEF f
<1>2. b \in {"healthchecker", "csi-cephfs-provisioner"}
  <2>1. <<b>> \in {DefaultChecker, <<"csi-cephfs-provisioner">>}
    BY DEF DummyUsers
  <2> QED
    BY <2>1 DEF DefaultChecker
<1>3. CASE b = "healthchecker"
  <2> DEFINE config == Perms(<<"config">>)
  <2>1. ListsOf(b, f) = CapsOn(CheckerMon, config, CheckerOsd, none)
    BY <1>1, <1>3 DEF ListsOf, CheckerLists, CheckerMon, CheckerOsd, RgwPool
  <2>2. DummyUsers[<<b>>] = CapsOn(CheckerMon, config, CheckerOsd, none)
    BY <1>3 DEF DummyUsers, DefaultChecker
  <2>3. /\ CheckerMon # << >> /\ CheckerOsd # << >> /\ config # << >> /\ none = << >>
        /\ Deduped(CheckerMon \o CheckerMon) = CheckerMon
        /\ Deduped(CheckerOsd \o CheckerOsd) = CheckerOsd
        /\ Deduped(config \o config) = config /\ Deduped(none \o none) = none
    BY PermLists, BoundLists, MergedOnce DEF Kinds
  <2>4. CheckerKnown = <<<<"mon", CheckerMon>>, <<"mgr", config>>, <<"osd", CheckerOsd>>>>
    BY DEF CheckerKnown
  <2> HIDE DEF config, none
  <2>5. MergeLists(DummyUsers[<<b>>], ListsOf(b, f))
        = CapsOn(CheckerMon, config, CheckerOsd, none)
    <3>1. MergeLists(CapsOn(CheckerMon, config, CheckerOsd, none),
                     CapsOn(CheckerMon, config, CheckerOsd, none))
          = CapsOn(Deduped(CheckerMon \o CheckerMon), Deduped(config \o config),
                   Deduped(CheckerOsd \o CheckerOsd), Deduped(none \o none))
      BY MergeOn
    <3> QED
      BY <2>1, <2>2, <2>3, <3>1
  <2>6. Listed(CapKeys, CapsOn(CheckerMon, config, CheckerOsd, none))
        = <<<<"mon", CheckerMon>>, <<"mgr", config>>, <<"osd", CheckerOsd>>>>
    BY <2>3, ListedInOrder
  <2>7. Listed(CapKeys, MergeLists(DummyUsers[<<b>>], ListsOf(b, f))) = CheckerKnown
    BY <2>4, <2>5, <2>6
  <2> QED
    BY <1>3, <2>7 DEF DummyUpgrades, DefaultChecker, f
<1>4. CASE b = "csi-cephfs-provisioner"
  <2> DEFINE old == Perms(<<"allow r">>)
             mon == Perms(<<"allow r", "blocklist">>)
             mgr == Perms(<<"allow rw">>)
             osd == <<Bound("cephfs metadata=", Unset, Unset)>>
  <2>1. ListsOf(b, f) = CapsOn(mon, mgr, osd, none)
    BY <1>1, <1>4 DEF ListsOf, CephfsLists, CephfsBound
  <2>2. DummyUsers[<<b>>] = CapsOn(old, mgr, osd, none)
    <3>1. <<b>> # DefaultChecker
      BY <1>4 DEF DefaultChecker
    <3> QED
      BY <1>4, <3>1 DEF DummyUsers
  <2>3. /\ mon # << >> /\ mgr # << >> /\ osd # << >> /\ none = << >>
        /\ Deduped(old \o mon) = mon /\ Deduped(mgr \o mgr) = mgr
        /\ Deduped(osd \o osd) = osd /\ Deduped(none \o none) = none
    BY PermLists, MergedOnce DEF Kinds
  <2>4. FsProvisionerKnown(Unset) = <<<<"mon", mon>>, <<"mgr", mgr>>, <<"osd", osd>>>>
    BY DEF FsProvisionerKnown, CephfsMon, Rw, Osd
  <2> HIDE DEF old, mon, mgr, osd, none
  <2>5. MergeLists(DummyUsers[<<b>>], ListsOf(b, f)) = CapsOn(mon, mgr, osd, none)
    <3>1. MergeLists(CapsOn(old, mgr, osd, none), CapsOn(mon, mgr, osd, none))
          = CapsOn(Deduped(old \o mon), Deduped(mgr \o mgr), Deduped(osd \o osd),
                   Deduped(none \o none))
      BY MergeOn
    <3> QED
      BY <2>1, <2>2, <2>3, <3>1
  <2>6. Listed(CapKeys, CapsOn(mon, mgr, osd, none))
        = <<<<"mon", mon>>, <<"mgr", mgr>>, <<"osd", osd>>>>
    BY <2>3, ListedInOrder
  <2>7. Listed(CapKeys, MergeLists(DummyUsers[<<b>>], ListsOf(b, f)))
        = FsProvisionerKnown(Unset)
    BY <2>4, <2>5, <2>6
  <2> QED
    BY <1>4, <2>7 DEF DummyUpgrades, f
<1> QED
  BY <1>2, <1>3, <1>4

\* The last call sent what the double knows.
LEMMA AnsweredKeeps ==
    ASSUME TestsInv, fixture = "users",
           UNCHANGED <<vars, fixture, object, returnVal, fsOut>>,
           call' \in {"returned", "raised"},
           NEW S, sent' = S,
           \A c \in S : \E kind, user, caps :
              /\ c = <<kind, user, caps>> /\ user \in User /\ caps \in CapList
              /\ \/ kind = "auth get" /\ user \in DummyGets
                 \/ kind = "auth get-or-create" /\ <<user, caps>> \in DummyCreates
                 \/ kind = "auth caps" /\ <<user, caps>> \in DummyUpgrades
    PROVE  TestsInv'
<1>1. ASSUME NEW c \in S
      PROVE  /\ c \in Command
             /\ \/ c[1] = "auth get" /\ c[2] \in DummyGets
                \/ c[1] = "auth get-or-create" /\ <<c[2], c[3]>> \in DummyCreates
                \/ c[1] = "auth caps" /\ <<c[2], c[3]>> \in DummyUpgrades
  <2>1. PICK kind, user, caps :
              /\ c = <<kind, user, caps>> /\ user \in User /\ caps \in CapList
              /\ \/ kind = "auth get" /\ user \in DummyGets
                 \/ kind = "auth get-or-create" /\ <<user, caps>> \in DummyCreates
                 \/ kind = "auth caps" /\ <<user, caps>> \in DummyUpgrades
    BY <1>1
  <2>2. c[1] = kind /\ c[2] = user /\ c[3] = caps
    BY <2>1
  <2> QED
    BY <2>1, <2>2 DEF Command
<1>2. FixtureType' /\ DoubleAnswers'
  BY <1>1 DEF TestsInv, FixtureType, DoubleAnswers
<1>3. FsOutOK' /\ CallOK' /\ UsersOK'
  BY DEF TestsInv, FsOutOK, CallOK, UsersOK
<1>4. DiscoveryInv'
  BY ProviderKeeps DEF TestsInv
<1> QED
  BY <1>2, <1>3, <1>4 DEF TestsInv

LEMMA CreateKeyringKeeps ==
    ASSUME TestsInv, CreateKeyring
    PROVE  TestsInv'
<1>1. /\ object \in UserFlags /\ object \in Flags /\ fixture = "users"
      /\ UNCHANGED <<vars, fixture, object, returnVal, fsOut>>
  BY DEF TestsInv, FixtureType, UsersOK, CreateKeyring
<1>2. PICK base \in IF object.restricted THEN {"csi-cephfs-provisioner"}
                    ELSE CsiBases \cup {"healthchecker"} :
         LET entity == EntityOf(base, object)
             get == <<"auth get", entity, << >>>>
             create == <<"auth get-or-create", entity,
                         Listed(DictKeys, ListsOf(base, object))>>
         IN  IF returnVal = 0 /\ entity \in DOMAIN DummyUsers
             THEN sent' = {get} /\ call' = "returned"
             ELSE /\ sent' = {get, create}
                  /\ call' = IF returnVal = 0 THEN "returned" ELSE "raised"
  BY DEF CreateKeyring
<1> DEFINE entity == EntityOf(base, object)
           caps == Listed(DictKeys, ListsOf(base, object))
           none == << >>
           get == <<"auth get", entity, none>>
           create == <<"auth get-or-create", entity, caps>>
<1>3. base \in Bases /\ entity \in DummyGets /\ <<entity, caps>> \in DummyCreates
  <2>1. CASE object = SetUp
    <3>1. base \in CsiBases \cup {"healthchecker"}
      BY <1>2, <2>1 DEF SetUp
    <3> QED
      BY <2>1, <3>1, SetUpCreates DEF Bases, DummyGets, DefaultUsers
  <2>2. ASSUME NEW fs \in {Unset, <<"myfs">>}, object = Restricted(fs)
        PROVE  base \in Bases /\ entity \in DummyGets /\ <<entity, caps>> \in DummyCreates
    <3>1. object.restricted
      BY <2>2 DEF Restricted, SetUp
    <3>2. base = "csi-cephfs-provisioner"
      BY <1>2, <3>1
    <3> QED
      BY <2>2, <3>2, RestrictedCreates DEF Bases, CsiBases
  <2> QED
    BY <1>1, <2>1, <2>2 DEF UserFlags
<1>4. entity \in User /\ caps \in CapList /\ none \in CapList
  <2>1. object.runAs \in User
    <3>1. object.runAs = DefaultChecker
      <4>1. SetUp.runAs = DefaultChecker /\ \A fs : Restricted(fs).runAs = DefaultChecker
        BY DEF Restricted, SetUp
      <4> QED
        BY <1>1, <4>1 DEF UserFlags
    <3> QED
      BY <3>1, BaseIsUser DEF DefaultChecker, Bases
  <2>2. none \in CapList
    BY EmptySeq DEF CapList
  <2>3. caps \in CapList
    BY <1>3, RowsTyped
  <2> QED
    BY <1>1, <1>3, <2>1, <2>2, <2>3, EntityType
<1>6. /\ sent' \subseteq {get, create} /\ call' \in {"returned", "raised"}
  BY <1>2
<1> HIDE DEF entity, caps, none
<1>7. \A c \in sent' : c = get \/ c = create
  BY <1>6
<1> QED
  BY <1>1, <1>3, <1>4, <1>6, <1>7, AnsweredKeeps

LEMMA UpgradeKeyringKeeps ==
    ASSUME TestsInv, UpgradeKeyring
    PROVE  TestsInv'
<1>1. /\ object = SetUp /\ fixture = "users" /\ call' = "returned"
      /\ UNCHANGED <<vars, fixture, object, returnVal, fsOut>>
  BY DEF TestsInv, UsersOK, UserFlags, Restricted, SetUp, UpgradeKeyring
<1>2. PICK user \in DefaultUsers :
         LET get == <<"auth get", user, << >>>>
             f == Narrowed(user, [object EXCEPT !.upgrade = TRUE])
             merged == MergeLists(DummyUsers[user], ListsOf(BaseOf(user), f))
         IN  sent' = IF returnVal = 0 /\ user \in DOMAIN DummyUsers
                     THEN {get, <<"auth caps", user, Listed(CapKeys, merged)>>}
                     ELSE {get}
  BY DEF UpgradeKeyring
<1>3. PICK b \in CsiBases \cup {"healthchecker"} : user = <<b>>
  BY DEF DefaultUsers
<1> DEFINE f == [SetUp EXCEPT !.upgrade = TRUE]
           none == << >>
           caps == Listed(CapKeys, MergeLists(DummyUsers[user], ListsOf(b, f)))
           get == <<"auth get", user, none>>
           put == <<"auth caps", user, caps>>
<1>4. BaseOf(user) = b /\ Narrowed(user, f) = f
  BY <1>3 DEF BaseOf, Narrowed, IsDefaultName
<1>5. /\ sent' \subseteq {get, put}
      /\ put \in sent' /\ put # get => user \in DOMAIN DummyUsers
  BY <1>1, <1>2, <1>4
<1>6. user \in User /\ user \in DummyGets /\ none \in CapList
  BY <1>3, BaseIsUser, EmptySeq DEF DummyGets, Bases, CapList
<1>7. user \in DOMAIN DummyUsers => caps \in CapList /\ <<user, caps>> \in DummyUpgrades
  BY <1>3, DoubleUpgrades, RowsTyped
<1> HIDE DEF caps, none
<1>8. \A c \in sent' : c = get \/ (c = put /\ caps \in CapList /\ <<user, caps>> \in DummyUpgrades)
  BY <1>5, <1>7
<1> QED
  BY <1>1, <1>6, <1>8, AnsweredKeeps

LEMMA SetAttributesKeeps ==
    ASSUME TestsInv, SetAttributes
    PROVE  TestsInv'
<1>1. /\ object \in UserFlags /\ fixture = "users" /\ call' = "none" /\ sent' = {}
      /\ returnVal \in {0, 1} /\ returnVal' \in {returnVal, 1}
      /\ UNCHANGED <<vars, fixture, fsOut>>
  BY DEF TestsInv, FixtureType, UsersOK, SetAttributes
<1>2. object' \in UserFlags
  <2>1. \A fs : /\ Restricted(fs).restricted
                /\ [Restricted(fs) EXCEPT !.restricted = TRUE, !.cluster = Storage]
                     = Restricted(fs)
                /\ [Restricted(fs) EXCEPT !.fs = <<"myfs">>] = Restricted(<<"myfs">>)
    BY DEF Restricted, SetUp
  <2>2. /\ [SetUp EXCEPT !.restricted = TRUE, !.cluster = Storage] = Restricted(Unset)
        /\ ~SetUp.restricted
    <3> DEFINE t == [SetUp EXCEPT !.restricted = TRUE, !.cluster = Storage]
    <3>1. t \in Flags /\ t.fs = Unset /\ ~SetUp.restricted
      BY TestNames DEF Flags, SetUp
    <3>2. Restricted(Unset) = [t EXCEPT !.fs = Unset]
      BY DEF Restricted
    <3> HIDE DEF t
    <3>3. [t EXCEPT !.fs = Unset] = t
      BY <3>1 DEF Flags
    <3> QED
      BY <3>1, <3>2, <3>3 DEF t
  <2>3. \/ object' = object
        \/ object' = [object EXCEPT !.restricted = TRUE, !.cluster = Storage]
        \/ object.restricted /\ object' = [object EXCEPT !.fs = <<"myfs">>]
    BY DEF SetAttributes
  <2>4. CASE object = SetUp
    BY <1>1, <2>2, <2>3, <2>4 DEF UserFlags
  <2>5. CASE \E fs \in {Unset, <<"myfs">>} : object = Restricted(fs)
    BY <1>1, <2>1, <2>3, <2>5 DEF UserFlags
  <2> QED
    BY <1>1, <2>4, <2>5 DEF UserFlags
<1>3. object' \in Flags
  BY <1>2, TestNames
<1>4. FixtureType'
  BY <1>1, <1>3 DEF TestsInv, FixtureType
<1>5. FsOutOK' /\ CallOK' /\ UsersOK' /\ DoubleAnswers'
  BY <1>1, <1>2 DEF TestsInv, FsOutOK, CallOK, UsersOK, DoubleAnswers
<1>6. DiscoveryInv'
  BY <1>1, ProviderKeeps DEF TestsInv
<1> QED
  BY <1>4, <1>5, <1>6 DEF TestsInv

-----------------------------------------------------------------------------
(***************************************************************************)
(* The theorems.                                                           *)
(***************************************************************************)
testsVars == <<vars, testVars>>

LEMMA TestsInitial ==
    ASSUME TestsInit
    PROVE  TestsInv
<1>1. DiscoveryInv
  BY DiscoveryInitial DEF TestsInit
<1>2. FixtureType
  BY TestNames DEF TestsInit, FixtureType
<1>3. FsOutOK
  <2>1. fsOut = DummyFs /\ DOMAIN DummyFs = 1 .. 1
    BY TestNames, LenProperties DEF TestsInit
  <2> QED
    BY <2>1, TestNames DEF FsOutOK
<1>4. CallOK /\ UsersOK /\ DoubleAnswers
  BY DEF TestsInit, CallOK, UsersOK, UserFlags, DoubleAnswers
<1> QED
  BY <1>1, <1>2, <1>3, <1>4 DEF TestsInv

LEMMA TestsStep ==
    ASSUME TestsInv, [TestsNext]_testsVars
    PROVE  TestsInv'
<1>1. ASSUME UNCHANGED testVars, [Next]_vars
      PROVE  TestsInv'
  <2>1. DiscoveryInv'
    BY <1>1, DiscoveryStep DEF TestsInv
  <2>2. FixtureType' /\ FsOutOK' /\ CallOK' /\ UsersOK' /\ DoubleAnswers'
    BY <1>1 DEF TestsInv, FixtureType, FsOutOK, CallOK, UsersOK, DoubleAnswers, testVars
  <2> QED
    BY <2>1, <2>2 DEF TestsInv
<1>2. CASE Monitoring
  BY <1>1, <1>2 DEF Monitoring
<1>3. CASE AddFileSystem \/ ClearFileSystems \/ ChangeDataPools
  BY <1>3, AnswerKeeps
<1>4. CASE GiveFlags
  BY <1>4, GiveKeeps
<1>5. CASE CallDetails
  BY <1>5, CallKeeps
<1>6. CASE SetAttributes
  BY <1>6, SetAttributesKeeps
<1>7. CASE CreateKeyring
  BY <1>7, CreateKeyringKeeps
<1>8. CASE UpgradeKeyring
  BY <1>8, UpgradeKeyringKeeps
<1>9. CASE UNCHANGED testsVars
  BY <1>1, <1>9 DEF testsVars
<1> QED
  BY <1>2, <1>3, <1>4, <1>5, <1>6, <1>7, <1>8, <1>9 DEF TestsNext

LEMMA TestsAlways == TestsSpec => []TestsInv
<1>1. TestsInit => TestsInv
  BY TestsInitial
<1>2. TestsInv /\ [TestsNext]_testsVars => TestsInv'
  BY TestsStep
<1> QED
  BY <1>1, <1>2, PTL DEF TestsSpec, testsVars

\* Type correctness of the discovery (get_ceph_external_mon_data,
\* get_active_and_standby_mgrs and what they call) and of the tests' state.
THEOREM TypesHold == TestsSpec => []TestsTypeOK
<1>1. TestsInv => TestsTypeOK
  BY DEF TestsInv, DiscoveryInv, FixtureType, TestsTypeOK
<1> QED
  BY <1>1, TestsAlways, PTL

\* The printed monitor address is one of that monitor's, and v2 only where it
\* was asked for: get_ceph_external_mon_data, for every order of a vector.
THEOREM MonitorIsReachable ==
    ASSUME UsualAddrVecs
    PROVE  TestsSpec => []MonAddressUsable
<1>1. TestsInv => MonAddressUsable
  BY DEF TestsInv, DiscoveryInv, MemOK, AddrOK, Has, MonAddressUsable, Printed
<1> QED
  BY <1>1, TestsAlways, PTL

\* _invalid_endpoint lets no port pass that cannot be connected to, whether it
\* comes from a flag, from the manager's URL or from the default.
THEOREM PortsAreChecked == TestsSpec => []PortUsable
<1>1. TestsInv => PortUsable
  <2>1. ASSUME TestsInv, NEW e \in JsonMonitoring(mem)
        PROVE  e.MonitoringPort \in Ports
    <3>1. mem.ips # << >> /\ e.MonitoringPort = mem.port
      BY <2>1 DEF JsonMonitoring
    <3> QED
      BY <2>1, <3>1 DEF TestsInv, DiscoveryInv, MemOK, EndpointOK
  <2> QED
    BY <2>1 DEF PortUsable
<1> QED
  BY <1>1, TestsAlways, PTL

\* Every manager that "status" named is in the printed list, in whatever order
\* managers fail over, leave and join while get_active_and_standby_mgrs and
\* _convert_hostname_to_ip go through them.
THEOREM ScrapingSurvives ==
    ASSUME ManagersNamed
    PROVE  TestsSpec => []SurvivesFailover
<1>1. TestsInv => SurvivesFailover
  <2>1. ASSUME TestsInv, EndpointPrinted, ~double, byName, active \in mem.known
        PROVE  Has(mem.ips, AddressFor(active))
    <3>1. mem.todo = << >> /\ KnownOK(mem, double, byName)
      BY <2>1 DEF TestsInv, DiscoveryInv, MemOK, EndpointPrinted, Printed
    <3>2. ~Has(mem.todo, NameOf[active])
      BY <3>1, EmptySeq DEF Has
    <3> QED
      BY <2>1, <3>1, <3>2 DEF KnownOK
  <2> QED
    BY <2>1 DEF SurvivesFailover, Has, AddressFor
<1> QED
  BY <1>1, TestsAlways, PTL

\* What is printed for names are addresses of the family of the provider's
\* hosts (_convert_hostname_to_ip).
THEOREM FamiliesAgree == TestsSpec => []OneFamily
<1>1. TestsInv => OneFamily
  BY DEF TestsInv, DiscoveryInv, MemOK, FamilyOK, OneFamily
<1> QED
  BY <1>1, TestsAlways, PTL

\* A call of get_cephfs_data_pool_details that returns leaves a data pool of the
\* file system it leaves, for every history of calls, flags and answers.
THEOREM PoolsBelong == TestsSpec => []PoolBelongs
<1>1. TestsInv => PoolBelongs
  <2>1. ASSUME TestsInv, fixture = "cephfs", call = "returned", object.dataPool # Unset
        PROVE  \E i \in DOMAIN fsOut : /\ fsOut[i].name = object.fs
                                       /\ Has(fsOut[i].data, object.dataPool)
    <3>1. /\ object.fs \in Name /\ object.dataPool \in Name /\ fsOut \in Seq(FileSystem)
      BY <2>1 DEF TestsInv, FixtureType, Flags
    <3> DEFINE choice == SelectCephfs(fsOut, object.fs, object.dataPool)
    <3>2. choice.ok /\ choice.fs = object.fs /\ choice.dataPool = object.dataPool
      BY <2>1 DEF TestsInv, CallOK
    <3> QED
      BY <2>1, <3>1, <3>2, SelectListed
  <2> QED
    BY <2>1 DEF PoolBelongs
<1> QED
  BY <1>1, TestsAlways, PTL

\* get_cephfs_data_pool_details called again ends as it ended before and changes
\* no flag, also after it had raised with one flag rewritten.
THEOREM RepetitionAgrees == TestsSpec => RepeatedCallAgrees
<1>1. ASSUME TestsInv, [TestsNext]_testsVars,
             fixture = "cephfs", call # "none", call' # "none"
      PROVE  call' = call /\ object' = object
  <2>1. CallDetails \/ UNCHANGED testVars
    BY <1>1 DEF TestsNext, Monitoring, AddFileSystem, ClearFileSystems, ChangeDataPools,
               GiveFlags, SetAttributes, CreateKeyring, UpgradeKeyring, testsVars
  <2>2. CASE CallDetails
    <3> DEFINE found == SelectCephfs(fsOut, object.fs, object.dataPool)
    <3>1. /\ found.fs = object.fs /\ found.dataPool = object.dataPool
          /\ found.ok <=> call = "returned"
      BY <1>1 DEF TestsInv, CallOK
    <3>2. /\ object' = [object EXCEPT !.fs = found.fs, !.dataPool = found.dataPool]
          /\ call' = IF found.ok THEN "returned" ELSE "raised"
      BY <2>2 DEF CallDetails
    <3> HIDE DEF found
    <3>3. object \in Flags /\ call \in {"none", "returned", "raised"}
      BY <1>1 DEF TestsInv, FixtureType
    <3>4. object' = object
      BY <3>1, <3>2, <3>3 DEF Flags
    <3> QED
      BY <1>1, <3>1, <3>2, <3>3, <3>4
  <2>3. CASE UNCHANGED testVars
    BY <2>3 DEF testVars
  <2> QED
    BY <2>1, <2>2, <2>3
<1>2. TestsInv /\ [TestsNext]_testsVars =>
        [fixture = "cephfs" /\ call # "none" /\ call' # "none" =>
           call' = call /\ object' = object]_testsVars
  BY <1>1
<1> QED
  BY <1>2, TestsAlways, PTL DEF TestsSpec, testsVars, RepeatedCallAgrees

\* No command of the user tests ends in a KeyError of DummyRados, which looks up
\* the text of a command: the names that get_caps_and_entity makes of their flags
\* are in its table, with the same daemons and permissions in the same order, also
\* after upgrade_user_permissions has appended lists and removed duplicates.
THEOREM DoubleKnowsAll == TestsSpec => []DoubleAnswers
<1>1. TestsInv => DoubleAnswers
  BY DEF TestsInv
<1> QED
  BY <1>1, TestsAlways, PTL

=============================================================================
