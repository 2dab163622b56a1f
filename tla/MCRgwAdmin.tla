----------------------------- MODULE MCRgwAdmin -----------------------------
(***************************************************************************)
(* A small instance of RgwAdmin: gateways of the provider in clear and     *)
(* with TLS, one of another cluster of the realm, one of a stranger.       *)
(***************************************************************************)
EXTENDS RgwAdmin

MCHost == {"clear", "tls", "v6", "zone2", "stranger"}
MCIpType == [h \in MCHost |-> IF h = "v6" THEN "IPv6" ELSE IF h = "tls" THEN "FQDN" ELSE "IPv4"]
Http == [http |-> TRUE, tls |-> "off"]
MCGateway ==
    [h \in MCHost |->
        [server |-> CASE h = "tls" -> [http |-> FALSE, tls |-> "private"]
                      [] h = "v6" -> [http |-> FALSE, tls |-> "public"]
                      [] OTHER -> Http,
         fsid |-> IF h \in {"zone2", "stranger"} THEN h ELSE "own",
         realm |-> h # "stranger"]]

Line(host) ==
    [host |-> host, port |-> 8000, brackets |-> TRUE, multisite |-> "none",
     siteKnown |-> TRUE, skipTls |-> FALSE, cert |-> FALSE, prefix |-> "default",
     dryRun |-> FALSE]

Clear == Line("clear")
East == [Line("tls") EXCEPT !.cert = TRUE, !.prefix = "east"]
Skip == [Line("tls") EXCEPT !.skipTls = TRUE, !.cert = TRUE, !.multisite = "all"]
NoSite == [Clear EXCEPT !.multisite = "all", !.siteKnown = FALSE]

\* One of the two exports is one that should work.
MCLines ==
    {<<Clear, o>> : o \in
        {Clear, Skip, NoSite, Line("tls"), Line("v6"), Line("zone2"),
         Line("stranger"), [Line("v6") EXCEPT !.brackets = FALSE],
         [Clear EXCEPT !.port = 0], [Clear EXCEPT !.multisite = "some"],
         [Clear EXCEPT !.dryRun = TRUE]}} \cup
    {<<East, o>> : o \in {Clear, Skip}}

=============================================================================
