------------------------------- MODULE MCCrawl -------------------------------
(***************************************************************************)
(* Instances of CrawlDiscovery for TLC: five addresses in a line, a     *)
(* square with a cycle and a tail, a tree whose leaves compete for the last*)
(* place, and a table whose entries name a neighbor but not its address.   *)
(***************************************************************************)
EXTENDS CrawlDiscovery, TLC

CONSTANTS a, b, c, d, e, seed, global

MCHost == {a, b, c, d, e}
MCName == {"core", "edge", "EDGE", "leaf"}
MCFold == [n \in MCName |-> IF n = "EDGE" THEN "edge" ELSE n]
MCStrip == [n \in MCName |-> n]
MCDevice == {seed} \cup (MCHost \X Method)

Id(n) == [name |-> n, serial |-> NoSerial]
MCSees == (a :> {Id("core"), NoInfo}) @@ (b :> {Id("edge")}) @@ (c :> {Id("leaf"), NoInfo})
          @@ (d :> {Id("EDGE")}) @@ (e :> {NoInfo})

Tables(na, nb, nc, nd) == (a :> na) @@ (b :> nb) @@ (c :> nc) @@ (d :> nd) @@ (e :> {})
By(ip) == [ip |-> ip, name |-> NoName]
Called(n) == [ip |-> NoIp, name |-> n]

Line == Tables({By(b)}, {By(a), By(c)}, {By(b), By(d)}, {By(c)})
Square == Tables({By(b), By(c)}, {By(a), By(d)}, {By(a), By(d)}, {By(b), By(e)})
Tree == Tables({By(b), By(c)}, {By(a), By(d)}, {By(a), By(e)}, {By(b)})
Named == Tables({Called("edge"), Called("leaf"), Called(NoName)}, {Called("core"), By(d)}, {}, {})
MCTopologies == {Line, Square, Tree, Named}

(* DNS knows only edge; a device may be known by its name alone.           *)
MCDns == [n \in MCName |-> IF n = "edge" THEN b ELSE NoIp]

Device1(n, ip) == [k \in MCDevice |->
  IF k = seed THEN [name |-> n, serial |-> NoSerial, ip |-> ip] ELSE NoDevice]
Address(ip) == [host |-> ip, space |-> global]
MCInventories == {Device1("core", Address(a)), Device1("leaf", NoIp), Device1("leaf", Address(c))}
MCLedgers == {[h \in MCHost |-> NoRow]}

Crawl(ip, dep, dev, nb) == [seedIp |-> ip, maxDepth |-> dep, maxDevices |-> dev, neighbors |-> nb]
MCForms == {Crawl(NoIp, 2, 6, TRUE), Crawl(a, 3, 6, TRUE), Crawl(a, 4, 4, TRUE),
            Crawl(a, 2, 6, FALSE)}

MCJobs == {[dryrun |-> FALSE, create |-> TRUE, createMissing |-> TRUE, fastPath |-> FALSE,
            ping |-> FALSE, snmp |-> TRUE, ssh |-> FALSE, candidates |-> FALSE]}
=============================================================================
