------------------------------- MODULE MCLogs --------------------------------
(* The client IP log with two IPs, four lines and two lists of ranges; the  *)
(* uptime log over two short days.                                         *)
EXTENDS Logs

CONSTANTS ip1, ip2

TwoIps == {ip1, ip2}
\* The second is split by splitlines().
FourLines == <<ip1, ip2, ip2, ip1>>
\* The first IP's requests are logged in the order they end, not begin.
Times == <<2, 1, 1, 1>>
WithJwt == {3, 4}
TwoMonths == {1, 2}
FirstIpInFirstMonth ==
  [month \in TwoMonths |-> IF month = 1 THEN {ip1} ELSE {ip1, ip2}]
Prefix(start, end) == [start |-> start, end |-> end]
\* Apart, the first ending in an IP; and with a start twice.
TwoLists == << <<Prefix(0, 1), Prefix(2, 3)>>, <<Prefix(4, 5), Prefix(4, 7), Prefix(1, 1)>> >>
Addresses == [ip \in TwoIps |-> IF ip = ip1 THEN 1 ELSE 4]
Setting(db, dir, geoip, download) ==
  [db |-> db, data |-> dir, geoip |-> geoip, download |-> download]
FourSettings ==
  {Setting("", "/data", "", ""), Setting("off", "/data", "", ""),
   Setting("/db", "/data", "/geoip", "0"), Setting("", "", "", "")}

\* Two instances in one of the client IP log: where the collector downloads,
\* one line and a world that changes; where it doesn't, four lines and a world
\* that stays as it is.  Of the uptime log, a restart and a stall or a step of
\* the clock in one behaviour only before the first day's last second; one or
\* the other to its end.
Bounds ==
  /\ which = "client IPs" =>
       IF Downloads(env) THEN written <= 2
       ELSE today = 1 /\ released = 1 /\ offered = 1
  /\ launches + steps <= MaxLaunches \/ now < SecondsPerDay - 1
=============================================================================
