------------------------------ MODULE ClientIps ------------------------------
(***************************************************************************)
(* The client IP log (core/client_ips.py).  Envoy appends a line for every *)
(* request to a file.  A collector process reads the new lines, empties    *)
(* the file once it has read a big one to its end, and adds the lines up   *)
(* per IP in a database of its own, for the admin's Client IPs page.  The  *)
(* file a container left behind is deleted before the next one's Envoy     *)
(* starts: a new collector reads from the start of it.                     *)
(* Before it collects it brings the GeoIP directory up to date, which the  *)
(* update_geoip command does too, at any time.                             *)
(*                                                                         *)
(* Envoy's writes don't keep to lines: a line is written in two pieces,    *)
(* the second with the newline, and the file is a sequence of pieces.      *)
(* What each line says is given by constants.  Some have a character at    *)
(* which splitlines() splits too, in a user agent: Envoy is taken to write *)
(* it as it is.  Of the two databases of                                   *)
(* DB-IP, which are updated alike, there is one; of the two counts of some *)
(* of an IP's requests, rejected and logged_in, the second.  Two updates   *)
(* of the directory are never under way at once here.                      *)
(***************************************************************************)
EXTENDS Integers, Sequences, FiniteSets, FiniteSetsExt, SequencesExt, RelayLookup

CONSTANTS
  Environments,  \* the settings the program may be started with
  Ips, None,
  IpOf, TimeOf, LoggedIn,  \* each line's IP and time; the lines with a JWT
  Separated,     \* the lines with a line or paragraph separator or NEL in them
  TruncateSize,  \* TRUNCATE_BYTES, in pieces
  MaxPending,    \* MAX_PENDING_REQUESTS
  Months,        \* months of DB-IP's databases
  Located,       \* the IPs each month's database has a location for
  Lists,         \* Apple's list in each of its versions
  AddressOf,     \* each IP as an address of the lists
  MaxStarts, MaxUpdates  \* bounds on starts and on updates of the directory

Lines == DOMAIN IpOf

ASSUME ClientIpsAssumption ==
  /\ IpOf \in Seq(Ips)
  /\ TimeOf \in [Lines -> Nat] /\ LoggedIn \subseteq Lines
  /\ Separated \subseteq Lines
  /\ TruncateSize \in Nat \ {0} /\ MaxPending \in Nat \ {0}
  /\ Months \subseteq Nat /\ None \notin Nat
  /\ Located \in [Months -> SUBSET Ips] /\ AddressOf \in [Ips -> Nat]
  /\ Lists \in Seq(Seq([start : Nat, end : Nat])) \ {<<>>}
  /\ \A k \in DOMAIN Lists : \A i \in DOMAIN Lists[k] : Lists[k][i].start <= Lists[k][i].end

VARIABLES
  env,       \* the environment variables
  written,   \* the pieces Envoy has written, or never will
  log,       \* the pieces in its file
  pc,        \* what the collector is at
  offset,    \* RequestLogReader.offset
  batch,     \* what read() will return, while it empties the file
  pending,   \* requests read and not recorded
  rows,      \* the client_ip table
  recorded,  \* every line added to it, in order
  lost,      \* lines given up, for a reason the code accepts
  forgotten, \* lines the reader moved past and made nothing of
  today, released,  \* this month, and the newest DB-IP has published
  mmdb,      \* the months whose database is in the directory
  offered,   \* the version of Apple's list that is online
  ranges,    \* the version the ranges file was built from, or None
  update,    \* what an update of the directory is at
  outcome,   \* the outcome for the ranges that it is to write
  status,    \* the outcome for the ranges in status.json, and their ETag
  starts, updates

envoy == <<written, log>>
reading == <<pc, offset, batch, pending>>
table == <<rows, recorded>>
world == <<today, released, offered>>
files == <<mmdb, ranges>>
updating == <<update, outcome, status, updates>>
vars == <<env, written, log, pc, offset, batch, pending, rows, recorded, lost,
          forgotten, today, released, mmdb, offered, ranges, update, outcome, status,
          starts, updates>>

(* config_from_env() *)
DbPath(e) ==
  CASE e.db = "off" -> None
    [] e.db \notin {"off", ""} -> e.db
    [] e.db = "" -> IF e.data = "" THEN None ELSE e.data
GeoipDir(e) == IF e.geoip # "" THEN e.geoip ELSE DbPath(e)
Downloads(e) == e.download # "0"

(* What parse_line() makes sense of: a newline's piece preceded by the     *)
(* first of the same line, and that by a newline or nothing, in a line     *)
(* that splitlines() doesn't split.                                        *)
Piece(line, part) == [line |-> line, part |-> part]
LineEnds(data) == {i \in DOMAIN data : data[i].part = 2}
Whole(data, i) ==
  /\ data[i].line \notin Separated
  /\ i > 1 /\ data[i - 1] = Piece(data[i].line, 1)
  /\ i = 2 \/ data[i - 2].part = 2
Requests(data) ==
  LET ends == {i \in LineEnds(data) : Whole(data, i)}
      End(k) == CHOOSE i \in ends : Cardinality({j \in ends : j <= i}) = k
  IN [k \in 1 .. Cardinality(ends) |-> data[End(k)].line]
LinesOf(data) == {data[i].line : i \in DOMAIN data}
Mangled(data) == {data[i].line : i \in {j \in LineEnds(data) : ~Whole(data, j)}}

(* A row of client_ip, of an IP whose requests are some of a batch. *)
NoRow == [requests |-> 0]
Earliest(times) == IF times \ {None} = {} THEN None ELSE Min(times \ {None})
Latest(times) == IF times \ {None} = {} THEN None ELSE Max(times \ {None})
TimesOf(lines) == {TimeOf[l] : l \in lines}

Newest(months) == IF months = {} THEN {} ELSE {Max(months)}
Location(ip) ==
  IF \E month \in Newest(mmdb) : ip \in Located[month] THEN Max(mmdb) ELSE None
Relay(ip) ==
  IF ranges = None THEN None
  ELSE Covering(BuildRelayRanges(Lists[ranges]), AddressOf[ip])

\* The requests sorted by time, the last of them; the sort is stable.
LastOf(requests, at) ==
  requests[CHOOSE k \in at : \A j \in at :
    \/ TimeOf[requests[j]] < TimeOf[requests[k]]
    \/ TimeOf[requests[j]] = TimeOf[requests[k]] /\ j <= k]

NewRow(ip, requests) ==
  LET at == {k \in DOMAIN requests : IpOf[requests[k]] = ip}
      all == {requests[k] : k \in at}
      old == rows[ip]
  IN [requests |-> Cardinality(at),
      loggedIn |-> Cardinality({k \in at : requests[k] \in LoggedIn}),
      firstSeen |-> Earliest(TimesOf(all)), lastSeen |-> Latest(TimesOf(all)),
      firstLoggedIn |-> Earliest(TimesOf(all \cap LoggedIn)),
      lastLoggedIn |-> Latest(TimesOf(all \cap LoggedIn)),
      lastRequest |-> LastOf(requests, at),
      location |-> IF old = NoRow THEN Location(ip)
                   ELSE IF old.location = None THEN Location(ip) ELSE old.location,
      relay |-> IF Relay(ip) = None /\ old # NoRow THEN old.relay ELSE Relay(ip)]

\* Mutant of Merge: the batch's last request taken for the IP's.
MergeInOrder(old, new) ==
  IF old = NoRow THEN new
  ELSE [new EXCEPT
    !.requests = old.requests + @, !.loggedIn = old.loggedIn + @,
    !.firstSeen = Earliest({old.firstSeen, @}), !.lastSeen = Latest({old.lastSeen, @}),
    !.firstLoggedIn = Earliest({old.firstLoggedIn, @}),
    !.lastLoggedIn = Latest({old.lastLoggedIn, @})]

Merge(old, new) ==
  IF old = NoRow THEN new
  ELSE [new EXCEPT
    !.requests = old.requests + @, !.loggedIn = old.loggedIn + @,
    !.firstSeen = Earliest({old.firstSeen, @}), !.lastSeen = Latest({old.lastSeen, @}),
    !.firstLoggedIn = Earliest({old.firstLoggedIn, @}),
    !.lastLoggedIn = Latest({old.lastLoggedIn, @}),
    !.lastRequest = IF old.lastSeen > new.lastSeen THEN old.lastRequest ELSE @]

Outcome(what, etag) == [what |-> what, etag |-> etag]

Init ==
  /\ env \in Environments
  /\ written = 0 /\ log = <<>>
  /\ pc = "down" /\ offset = 0 /\ batch = <<>> /\ pending = <<>>
  /\ rows = [ip \in Ips |-> NoRow] /\ recorded = <<>>
  /\ lost = {} /\ forgotten = {}
  /\ today \in Months /\ released \in {month \in Months : month <= today}
  /\ offered = 1 /\ mmdb = {} /\ ranges = None
  /\ update = "none" /\ outcome = Outcome("none", None) /\ status = Outcome("none", None)
  /\ starts = 0 /\ updates = 0

------------------------------------------------------------------------------
(* Envoy, which logs to /dev/null if there is no database *)
Write ==
  /\ pc # "down" /\ written < 2 * Len(IpOf)
  /\ written' = written + 1
  /\ log' = IF DbPath(env) = None THEN log
            ELSE Append(log, Piece(written \div 2 + 1, (written % 2) + 1))
  /\ UNCHANGED <<env, reading, table, lost, forgotten, world, files, updating,
                 starts>>

\* The line Envoy is part way through when it is killed is never finished;
\* the Envoy that follows it appends to the same file.
CutOff == IF written % 2 = 1 THEN {written \div 2 + 1} ELSE {}
Killed ==
  /\ pc # "down" /\ CutOff # {}
  /\ written' = written + 1 /\ lost' = lost \cup CutOff
  /\ UNCHANGED <<env, log, reading, table, forgotten, world, files, updating,
                 starts>>

(* RequestLogReader.read(), up to its return or to os.truncate() *)
ReadFrom == IF Len(log) < offset THEN 0 ELSE offset
\* Mutant of ReadTo: the rest of a line isn't waited for.
ReadToEnd == Len(log)
\* Up to the last newline there is.
ReadTo == Max(LineEnds(log) \cup {ReadFrom})

\* Mutant of Extended: an unlimited queue.
ExtendedUnlimited(requests) == pending \o requests
\* A deque of limited length keeps the newest.
Extended(requests) ==
  LET all == pending \o requests
  IN SubSeq(all, Max({1, Len(all) - MaxPending + 1}), Len(all))
Dropped(requests) == ToSet(pending \o requests) \ ToSet(Extended(requests))

ReadLog ==
  /\ pc = "collect"
  /\ offset' = ReadTo
  /\ LET data == SubSeq(log, ReadFrom + 1, ReadTo)
         mangled == {l \in LinesOf(data) : l \in Mangled(log)}
     IN /\ forgotten' = forgotten \cup (mangled \cap Separated)
        /\ IF ReadTo >= TruncateSize /\ ReadTo = Len(log)
           THEN /\ pc' = "emptying" /\ batch' = Requests(data)
                /\ lost' = lost \cup (mangled \ Separated)
                /\ UNCHANGED pending
           ELSE /\ pc' = "recording" /\ pending' = Extended(Requests(data))
                /\ lost' = lost \cup (mangled \ Separated) \cup Dropped(Requests(data))
                /\ UNCHANGED batch
  /\ UNCHANGED <<env, envoy, table, world, files, updating, starts>>

\* What Envoy has written since the read is lost.
EmptyLog ==
  /\ pc = "emptying"
  /\ log' = <<>> /\ offset' = 0
  /\ pending' = Extended(batch) /\ batch' = <<>> /\ pc' = "recording"
  /\ lost' = lost \cup Dropped(batch) \cup LinesOf(SubSeq(log, offset + 1, Len(log)))
  /\ UNCHANGED <<env, written, table, forgotten, world, files, updating, starts>>

\* os.truncate() fails, and with it read(), which has moved past what it read.
CannotEmptyLog ==
  /\ pc = "emptying"
  /\ batch' = <<>> /\ forgotten' = forgotten \cup ToSet(batch) /\ pc' = "collect"
  /\ UNCHANGED <<env, envoy, offset, pending, table, lost, world, files,
                 updating, starts>>

(* record() and clear(): one transaction *)
AddUp ==
  /\ rows' = [ip \in Ips |-> IF \E k \in DOMAIN pending : IpOf[pending[k]] = ip
                             THEN Merge(rows[ip], NewRow(ip, pending)) ELSE rows[ip]]
  /\ recorded' = recorded \o pending
Record ==
  /\ pc = "recording"
  /\ AddUp
  /\ pending' = <<>> /\ pc' = "collect"
  /\ UNCHANGED <<env, envoy, offset, batch, lost, forgotten, world, files,
                 updating, starts>>

\* The database is locked, or full.
CannotRecord ==
  /\ pc = "recording" /\ pending # <<>>
  /\ pc' = "collect"
  /\ UNCHANGED <<env, envoy, offset, batch, pending, table, lost, forgotten,
                 world, files, updating, starts>>

------------------------------------------------------------------------------
(* The container starts: the envoy_config command, before Envoy.  It deletes *)
(* the file, if a container before has left one.                           *)
\* Mutant of Leftover: the file isn't deleted.
LeftoverKept == log
Leftover == <<>>
Boot ==
  /\ pc = "down" /\ starts < MaxStarts /\ update = "none"
  /\ pc' = "booted" /\ starts' = starts + 1
  /\ log' = Leftover
  /\ UNCHANGED <<env, written, offset, batch, pending, table, lost, forgotten,
                 world, files, updating>>

\* gunicorn is ready, and with it the collector: spawn() and run().
Start ==
  /\ pc = "booted" /\ DbPath(env) # None /\ update = "none"
  /\ IF Downloads(env) /\ GeoipDir(env) # None
     THEN pc' = "refresh" /\ update' = "mmdb"
     ELSE pc' = "collect" /\ update' = "none"
  /\ UNCHANGED <<env, envoy, offset, batch, pending, table, lost, forgotten,
                 world, files, outcome, status, updates, starts>>

\* The container stops, Envoy and the collector with it.  No collector will
\* read what is in the file after the offset.
Stop ==
  /\ pc # "down"
  /\ pc' = "down" /\ offset' = 0 /\ pending' = <<>> /\ batch' = <<>> /\ update' = "none"
  /\ written' = written + Cardinality(CutOff)
  /\ lost' = lost \cup CutOff \cup ToSet(pending) \cup ToSet(batch)
                  \cup LinesOf(SubSeq(log, offset + 1, Len(log)))
  /\ UNCHANGED <<env, log, table, forgotten, world, files, outcome, status,
                 starts, updates>>

------------------------------------------------------------------------------
(* update_geoip(), then fill_in_locations() and fill_in_relay() *)
Begin ==  \* the command
  /\ update = "none" /\ pc # "refresh" /\ updates < MaxUpdates
  /\ DbPath(env) # None /\ GeoipDir(env) # None
  /\ update' = "mmdb" /\ updates' = updates + 1
  /\ UNCHANGED <<env, envoy, reading, table, lost, forgotten, world, files,
                 outcome, status, starts>>

\* _update_one(): this month's database, if it isn't there and is out, else
\* last month's.  A download may fail.
Wanted ==
  IF today \in mmdb THEN {}
  ELSE IF today <= released THEN {today}
  ELSE {today - 1} \ mmdb
UpdateMmdb ==
  /\ update = "mmdb" /\ update' = "older"
  /\ \/ mmdb' = mmdb \cup {month \in Wanted : month <= released /\ month \in Months}
     \/ UNCHANGED mmdb
  /\ UNCHANGED <<env, envoy, reading, table, lost, forgotten, world, ranges,
                 outcome, status, starts, updates>>

\* Mutant of Kept: the oldest in place of the newest.
KeptOldest == IF mmdb = {} THEN {} ELSE {Min(mmdb)}
Kept == Newest(mmdb)
DeleteOlder ==
  /\ update = "older" /\ update' = "ranges"
  /\ mmdb' = Kept
  /\ UNCHANGED <<env, envoy, reading, table, lost, forgotten, world, ranges,
                 outcome, status, starts, updates>>

\* Mutant of EtagSent: sent whether or not there is a file.
EtagKept == status.etag
\* _update_relay_ranges(): the ETag kept is sent if its file is there.
EtagSent == IF ranges = None THEN None ELSE status.etag
UpdateRanges ==
  /\ update = "ranges" /\ update' = "status"
  /\ \/ /\ EtagSent = offered  \* 304
        /\ outcome' = Outcome("up to date", EtagSent)
        /\ UNCHANGED ranges
     \/ /\ EtagSent # offered
        /\ ranges' = offered
        /\ outcome' = Outcome("downloaded", offered)
     \/ /\ outcome' = Outcome("failed", EtagSent)
        /\ UNCHANGED ranges
  /\ UNCHANGED <<env, envoy, reading, table, lost, forgotten, world, mmdb,
                 status, starts, updates>>

\* write_status(), which may fail.
WriteStatus ==
  /\ update = "status" /\ update' = "fill"
  /\ status' \in {outcome, status}
  /\ UNCHANGED <<env, envoy, reading, table, lost, forgotten, world, files,
                 outcome, starts, updates>>

FilledIn(ip, locations, relays) ==
  IF rows[ip] = NoRow THEN NoRow
  ELSE [rows[ip] EXCEPT
    !.location = IF locations /\ @ = None THEN Location(ip) ELSE @,
    !.relay = IF relays /\ @ = None THEN Relay(ip) ELSE @]
\* Two transactions, either of which may fail; the second isn't tried then.
FillIn ==
  /\ update = "fill" /\ update' = "none"
  /\ pc' = IF pc = "refresh" THEN "collect" ELSE pc
  /\ \E locations, relays \in BOOLEAN :
       /\ relays => locations
       /\ rows' = [ip \in Ips |-> FilledIn(ip, locations, relays)]
  /\ UNCHANGED <<env, envoy, offset, batch, pending, recorded, lost, forgotten,
                 world, files, outcome, status, starts, updates>>

------------------------------------------------------------------------------
(* The world *)
\* The clock may be wrong; DB-IP publishes a month in that month or later.
ClockSet ==
  /\ today' \in Months \ {today}
  /\ UNCHANGED <<env, envoy, reading, table, lost, forgotten, released, offered,
                 files, updating, starts>>
Publish ==
  /\ released + 1 \in Months /\ released' = released + 1
  /\ UNCHANGED <<env, envoy, reading, table, lost, forgotten, today, offered,
                 files, updating, starts>>
Offer ==
  /\ offered < Len(Lists) /\ offered' = offered + 1
  /\ UNCHANGED <<env, envoy, reading, table, lost, forgotten, today, released,
                 files, updating, starts>>
\* Someone deletes the ranges, status.json stays.
LoseRanges ==
  /\ update = "none" /\ ranges # None /\ ranges' = None
  /\ UNCHANGED <<env, envoy, reading, table, lost, forgotten, world, mmdb,
                 updating, starts>>

Collect == ReadLog \/ EmptyLog \/ CannotEmptyLog \/ Record \/ CannotRecord
Update == Begin \/ UpdateMmdb \/ DeleteOlder \/ UpdateRanges \/ WriteStatus \/ FillIn
World == ClockSet \/ Publish \/ Offer \/ LoseRanges
Next == Write \/ Killed \/ Collect \/ Boot \/ Start \/ Stop \/ Update \/ World
Spec == Init /\ [][Next]_vars

------------------------------------------------------------------------------
\* Every value has its type, and the collector never reads from within a line
\* of the file it has read before.
TypeOK ==
  /\ env \in Environments /\ written \in 0 .. 2 * Len(IpOf)
  /\ pc \in {"down", "booted", "refresh", "collect", "emptying", "recording"}
  /\ offset \in {0} \cup LineEnds(log)
  /\ Len(pending) <= MaxPending /\ (batch # <<>> => pc = "emptying")
  /\ mmdb \subseteq Months /\ ranges \in {None} \cup DOMAIN Lists
  /\ update \in {"none", "mmdb", "older", "ranges", "status", "fill"}
  /\ pc = "refresh" => update # "none"

\* A line Envoy has finished is recorded, or waits in the queue or in the file
\* after the offset, unless it was given up for a reason the code accepts: it
\* was written between a read and the emptying of the file, was one too many
\* for the queue, was run into another, or went when the container stopped;
Waits(l) ==
  \/ l \in ToSet(pending) \/ l \in ToSet(batch)
  \/ \E i \in offset + 1 .. Len(log) : log[i] = Piece(l, 2)
Accounted(l) == l \in lost \/ l \in ToSet(recorded) \/ Waits(l)
Finished == IF DbPath(env) = None THEN {} ELSE {l \in Lines : 2 * l <= written}

\* or unless it was forgotten, which the two properties after this one are
\* about.  However reads, failures, retries and restarts are ordered, there is
\* no other way for a line to go, and none is counted twice.
EveryLineAccounted ==
  /\ \A l \in Finished : Accounted(l) \/ l \in forgotten
  /\ IsInjective(recorded)

\* "Requests read but not yet recorded, as the reader has moved past them (and
\* may have emptied the file): retried until recording works again"
\* (client_ips.py:944-946).  Does not hold (README, section 5): those of a
\* read() whose os.truncate() fails never get to the queue, and the reader has
\* moved past them.
RequestsAreRetried == \A l \in Finished \ Separated : Accounted(l)

\* read() returns "the complete lines added since the last call"
\* (client_ips.py:244-245), a line being what ends in a newline
\* (client_ips.py:264).  Does not hold (README, section 5): splitlines() splits
\* at line and paragraph separators and NEL as well, and makes two of such a
\* line, neither of which parses.
CompleteLinesAreRead == \A l \in Finished \cap Separated : Accounted(l)

\* What the page shows of each IP is what the lines recorded say, in whatever
\* order they came and were recorded,
RecordedOf(ip) == {k \in DOMAIN recorded : IpOf[recorded[k]] = ip}
RowsMatch ==
  \A ip \in Ips :
    LET at == RecordedOf(ip)
        all == {recorded[k] : k \in at}
        row == rows[ip]
    IN IF at = {} THEN row = NoRow
       ELSE /\ row.requests = Cardinality(at)
            /\ row.loggedIn = Cardinality({k \in at : recorded[k] \in LoggedIn})
            /\ row.firstSeen = Min(TimesOf(all)) /\ row.lastSeen = Max(TimesOf(all))
            /\ row.firstLoggedIn = Earliest(TimesOf(all \cap LoggedIn))
            /\ row.lastLoggedIn = Latest(TimesOf(all \cap LoggedIn))
            /\ row.lastRequest \in all /\ TimeOf[row.lastRequest] = row.lastSeen

\* and its networks add up to them.
WithLogins == {ip \in Ips : rows[ip] # NoRow /\ rows[ip].loggedIn > 0}
Networks == {rows[ip].location : ip \in WithLogins}
LoggedInFrom(network) ==
  SumFunction([ip \in {i \in WithLogins : rows[i].location = network} |-> rows[ip].loggedIn])
TotalsMatch ==
  /\ RowsMatch
  /\ SumFunction([network \in Networks |-> LoggedInFrom(network)])
       = Cardinality({k \in DOMAIN recorded : recorded[k] \in LoggedIn})

\* The ranges file finds what the list it was built from says of an address,
\* if the list's ranges are apart, as prefixes that aren't nested are.
LookupFindsRange ==
  ranges # None /\ Disjoint(Lists[ranges]) =>
    \A ip \in Ips : Relay(ip) = Listed(Lists[ranges], AddressOf[ip])

\* An update that reports the ranges updated, or up to date, leaves the list
\* that is online, with its ETag, whatever crashes, failed downloads, unwritten
\* statuses and lost files there were before it.
ListIsCurrent ==
  [][update = "ranges" /\ update' = "status" /\ outcome'.what # "failed"
       => ranges' = offered /\ outcome'.etag = offered]_vars

\* The directory's newest database is never replaced by an older one, or by
\* none, though the clock and DB-IP's releases may be at odds.
DatabaseNeverOlder ==
  [][mmdb # {} => mmdb' # {} /\ Max(mmdb') >= Max(mmdb)]_vars
=============================================================================
