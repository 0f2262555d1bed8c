----------------------------- MODULE RelayLookup -----------------------------
(***************************************************************************)
(* The table of iCloud Private Relay ranges (core/client_ips.py): how      *)
(* Apple's list of prefixes becomes a table keyed by a range's first       *)
(* address, and how an address is looked up in it.  Addresses are the      *)
(* integers they sort as.                                                  *)
(***************************************************************************)
EXTENDS Integers, Sequences

\* Keyed by start: a later line with the same start replaces an earlier one.
BuildRelayRanges(list) ==
  [start \in {list[i].start : i \in DOMAIN list} |->
     list[CHOOSE i \in DOMAIN list :
            /\ list[i].start = start
            /\ \A j \in i + 1 .. Len(list) : list[j].start # start]]

\* The range with the greatest start that isn't past the address, if it has
\* any, as a set of at most one range ...
Nearest(table, address) ==
  {table[start] : start \in {s \in DOMAIN table :
     /\ s <= address
     /\ \A other \in DOMAIN table : other <= address => other <= s}}

\* Mutant of Covering: a range's last address left out of it.
CoveringOpen(table, address) ==
  {range \in Nearest(table, address) : address < range.end}

\* ... and the address's place, if that range reaches it.
Covering(table, address) ==
  {range \in Nearest(table, address) : address <= range.end}

\* What the list itself says of an address.
Listed(list, address) ==
  {list[i] : i \in {j \in DOMAIN list : list[j].start <= address /\ address <= list[j].end}}

\* No line's range is within, or overlaps, another's.
Disjoint(list) ==
  \A i, j \in DOMAIN list :
    i # j => list[i].end < list[j].start \/ list[j].end < list[i].start
=============================================================================
