------------------------------ MODULE Endpoints ------------------------------
(***************************************************************************)
(* Hosts, ports and endpoints as create-external-cluster-resources.py      *)
(* reads, converts and dials them, and the address it prints for a         *)
(* monitor.  Constant-level operators, used by MonitoringDiscovery and     *)
(* RgwAdmin.                                                               *)
(*                                                                         *)
(* A port is a number.  Strings that are no number (str.isdigit() says no) *)
(* are the negative numbers, NoPort is the empty string of an unset flag.  *)
(***************************************************************************)
EXTENDS Integers, Sequences

CONSTANTS
    Host,       \* host names and address literals
    IpType      \* what ip_address() makes of a host

Families == {"IPv4", "IPv6"}
NoPort == -1

ASSUME HostAssumption == IpType \in [Host -> Families \cup {"FQDN"}]

\* The ports that can be connected to.
Ports == 1 .. 2^16 - 1

\* Faulty: a port number is any number of 16 bits.
InvalidEndpointZero(host, port) ==
    IF port \in {0} \cup Ports THEN IpType[host] ELSE "raised"

\* _invalid_endpoint: the kind of the host, or an exception.
InvalidEndpoint(host, port) ==
    IF port \in Ports THEN IpType[host] ELSE "raised"

-----------------------------------------------------------------------------
(***************************************************************************)
(* endpoint_dial.  A server speaks plain HTTP or not, and TLS with a       *)
(* certificate of a public authority, with one of its own, or not at all.  *)
(* "verify" is what requests is told to check a certificate against.       *)
(***************************************************************************)
Server == [http : BOOLEAN, tls : {"off", "public", "private"}]

\* Faulty: certificates are never checked.
VerifyNothing(skipTls, cert) == "nothing"

Verify(skipTls, cert) ==
    IF skipTls THEN "nothing" ELSE IF cert THEN "given" ELSE "system"

Trusts(verify, tls) ==
    \/ verify = "nothing" /\ tls # "off"
    \/ verify = "given" /\ tls = "private"
    \/ verify = "system" /\ tls = "public"

Unreachable == [base |-> "", verify |-> ""]

\* HTTP is tried before HTTPS; an address without brackets is given some.
EndpointDial(server, skipTls, cert) ==
    IF server.http THEN [base |-> "http", verify |-> "system"]
    ELSE IF Trusts(Verify(skipTls, cert), server.tls)
         THEN [base |-> "https", verify |-> Verify(skipTls, cert)]
         ELSE Unreachable

-----------------------------------------------------------------------------
(***************************************************************************)
(* get_ceph_external_mon_data on the address vector of the quorum leader,  *)
(* a sequence of "v1" and "v2".  public_addr is its v1 address if it has   *)
(* one.                                                                    *)
(***************************************************************************)
AddrTypes == {"v1", "v2"}

PublicAddr(addrvec) ==
    IF \E i \in DOMAIN addrvec : addrvec[i] = "v1" THEN "v1" ELSE "v2"

\* The Ceph 18 copy prints what there is.
MonAddr18(addrvec, v2Enabled) ==
    IF v2Enabled /\ Len(addrvec) > 1 /\ "v2" \in {addrvec[1], addrvec[2]}
    THEN "v2" ELSE PublicAddr(addrvec)

\* The current script refuses a monitor that has only a v2 address.
MonAddr(addrvec, v2Enabled) ==
    IF addrvec = <<"v2">> THEN "raised"
    ELSE IF v2Enabled /\ Len(addrvec) > 1 /\ "v2" \in {addrvec[1], addrvec[2]}
         THEN "v2" ELSE PublicAddr(addrvec)

=============================================================================
