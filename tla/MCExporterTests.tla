--------------------------- MODULE MCExporterTests ---------------------------
(***************************************************************************)
(* A small instance of ExporterTests: three managers, two of them known by *)
(* name only, two monitors, hosts on IPv4; the flags of the unit tests and *)
(* of an operator's exports.                                               *)
(***************************************************************************)
EXTENDS ExporterTests, TLC

V4 == {"10.0.0.1", "10.0.0.2", "10.0.0.3", "10.22.31.131", "172.9.1.1"}
Names == {"mgr1", "mgr2", "mgr3", "only6"}
MCHost == V4 \cup Names \cup {"fd00::1", "fd00::6"}

MCIpType == [h \in MCHost |-> IF h \in V4 THEN "IPv4"
                              ELSE IF h \in Names THEN "FQDN" ELSE "IPv6"]
MCNameOf == "x" :> "mgr1" @@ "y" :> "mgr2" @@ "z" :> "mgr3"
MCMgr == {"x", "y", "z"}
MCMon == {"a", "b"}
MCAddrVec == "a" :> <<"v2", "v1">> @@ "b" :> <<"v2">>

\* mgr1 has addresses of both families, "only6" none of the hosts' family.
MCDNS == [h \in MCHost |-> [f \in Families |->
            CASE h = "mgr1" -> IF f = "IPv4" THEN "10.0.0.1" ELSE "fd00::1"
              [] h = "mgr2" /\ f = "IPv4" -> "10.0.0.2"
              [] h = "mgr3" /\ f = "IPv4" -> "10.0.0.3"
              [] h = "only6" /\ f = "IPv6" -> "fd00::6"
              [] OTHER -> "none"]]
MCOrchHost == "10.0.0.2"
MCDummyIps == {"172.9.1.1"}

Asked == [given |-> FALSE, hosts |-> << >>, port |-> NoPort, skip |-> FALSE,
          v2 |-> FALSE, dryRun |-> FALSE, release |-> "master"]
Given(hosts, port) == [Asked EXCEPT !.given = TRUE, !.hosts = hosts, !.port = port]

\* The pairs of test_monitoring_endpoint_validation, then lists of hosts, the
\* ports at the boundary, and the other flags.
MCCommandLines ==
    TestFlags \cup
    {Given(<<"10.22.31.131">>, 3534), Given(<<"10.22.31.131">>, NoPort),
     [Asked EXCEPT !.port = 9092],
     Given(<<"10.22.31.131">>, 90320),
     Given(<<"10.0.0.1">>, 0), Given(<<"10.0.0.1">>, 65535), Given(<< >>, 9283),
     Given(<<"mgr1", "mgr2">>, NoPort), Given(<<"mgr1", "only6">>, NoPort),
     [Asked EXCEPT !.skip = TRUE, !.v2 = TRUE],
     [Asked EXCEPT !.release = "ceph-18"], [Asked EXCEPT !.dryRun = TRUE]}

MCWord == {"abc", "default", "myfs", "myfs-2", "gone", "myfs-replicated",
           "myfs-data1", "myfs-data3", "openshift-storage", "csi"}
MCLower == [w \in MCWord |-> w]
MCFsNames == {<<"myfs-2">>, <<"gone">>}
MCPoolNames == {<<"myfs-data1">>, <<"myfs-data3">>}
MCSecondFs == <<"myfs-2">>
MCMoreData == {<< >>, <<<<"myfs-replicated">>, <<"myfs-data1">>>>}

\* Deduped is what the loop of upgrade_user_permissions computes, on every list
\* of up to five permissions of three kinds.
SX == INSTANCE SequencesExt
DedupeLoop(seq) ==
    SX!FoldLeft(LAMBDA list, x : IF Has(list, x) THEN list ELSE Append(list, x),
                << >>, seq)

ASSUME DedupeAgrees ==
    \A n \in 0 .. 5 : \A seq \in [1 .. n -> {"x", "y", "z"}] :
        Deduped(seq) = DedupeLoop(seq)

\* The lists hold the capabilities of ExternalUsers, and add nothing but an order.
ASSUME OnlyOrderAdded ==
    \A base \in CsiBases \cup {"healthchecker"}, restricted \in BOOLEAN,
       fs \in {Unset, <<"myfs">>}, upgrade \in BOOLEAN :
        LET f == [SetUp EXCEPT !.restricted = restricted, !.fs = fs, !.upgrade = upgrade]
        IN  CapsOf(base, f) = [d \in Daemons |-> SX!ToSet(ListsOf(base, f)[d])]

\* The theorems about the printed monitor and managers assume these two.
ASSUME UsualProvider == ManagersNamed /\ UsualAddrVecs

=============================================================================
