-------------------------------- MODULE Logs ---------------------------------
(***************************************************************************)
(* The two logs that helper processes keep, of which one or the other is   *)
(* looked at: the client IPs and the uptime.  They share no state.         *)
(***************************************************************************)
EXTENDS ClientIps, UptimeLog

VARIABLE which

LogsInit ==
  /\ which \in {"client IPs", "uptime"}
  /\ Init /\ UptimeInit
  /\ which = "uptime" =>
       env = (CHOOSE e \in Environments : TRUE) /\ today = Min(Months) /\ released = today
ClientIpLog == which = "client IPs" /\ Next /\ UNCHANGED <<uptimeVars, which>>
Uptime == which = "uptime" /\ UptimeNext /\ UNCHANGED <<vars, which>>
LogsNext == ClientIpLog \/ Uptime
LogsSpec == LogsInit /\ [][LogsNext]_<<vars, uptimeVars, which>>
=============================================================================
