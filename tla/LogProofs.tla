------------------------------ MODULE LogProofs ------------------------------
(***************************************************************************)
(* Proofs about the two logs that the helper processes keep.               *)
(*                                                                         *)
(* That the client IP log (ClientIps) accounts for every line and counts   *)
(* none twice, that its rows say what the lines recorded do, that the      *)
(* ranges file finds what the list says, that an update of it that reports *)
(* success leaves the list that is online, and that the GeoIP database     *)
(* never gets older: for any number of lines, IPs, months, lists and       *)
(* restarts.                                                               *)
(*                                                                         *)
(* That the uptime log (UptimeLog) marks what is lived, all that is called *)
(* for and nothing else, and that its reports add up, for days of any      *)
(* length and any number of them.                                          *)
(***************************************************************************)
EXTENDS Logs, Functions, FiniteSetTheorems, SequenceTheorems, WellFoundedInduction, TLAPS

------------------------------------------------------------------------------
(* Each of the logs does in Logs what it does on its own.                  *)
THEOREM LogsOnTheirOwn == LogsSpec => Spec /\ UptimeSpec
<1>1. LogsInit => Init /\ UptimeInit
  BY DEF LogsInit
<1>2. [LogsNext]_<<vars, uptimeVars, which>> => [Next]_vars /\ [UptimeNext]_uptimeVars
  BY DEF LogsNext, ClientIpLog, Uptime
<1> QED BY <1>1, <1>2, PTL DEF LogsSpec, Spec, UptimeSpec

------------------------------------------------------------------------------
(* The greatest and the least of a set of numbers.                         *)

Below == {pair \in Nat \X Nat : pair[1] < pair[2]}
LEMMA BelowIsWellFounded == IsWellFoundedOn(Below, Nat)
BY NatLessThanWellFounded DEF OpToRel, Below

LEMMA MaxIs ==
  ASSUME NEW V \in SUBSET Int, NEW m \in V, \A j \in V : m >= j PROVE Max(V) = m
<1>1. Max(V) \in V /\ \A j \in V : Max(V) >= j
  BY DEF Max
<1>2. m >= Max(V) /\ Max(V) >= m /\ m \in Int /\ Max(V) \in Int
  BY <1>1
<1> HIDE DEF Max
<1> QED BY <1>2

LEMMA MaxExists ==
  ASSUME NEW n \in Nat, NEW V \in SUBSET (0 .. n), V # {}
  PROVE  Max(V) \in V /\ \A j \in V : Max(V) >= j
<1> DEFINE W == {w \in Nat : \E j \in V : w = n - j}
<1>1. \A j \in V : n - j \in W
  OBVIOUS
<1>2. W \in SUBSET Nat /\ W # {}
  BY <1>1
<1>3. PICK w \in W : \A x \in W : ~ (<<x, w>> \in Below)
  <2> HIDE DEF W
  <2> QED BY <1>2, BelowIsWellFounded, WFMin
<1>4. PICK m \in V : w = n - m
  BY <1>3
<1>5. \A j \in V : m >= j
  <2> SUFFICES ASSUME NEW j \in V PROVE ~(n - j < n - m)
    BY <1>4
  <2>1. n - j \in W /\ n - j \in Nat /\ n - m \in Nat /\ w = n - m
    BY <1>1, <1>4
  <2> QED BY <1>3, <2>1 DEF Below
<1> QED BY <1>5 DEF Max

LEMMA MaxOfTwo ==
  ASSUME NEW n \in Int PROVE Max({1, n}) \in Int /\ Max({1, n}) = IF n > 1 THEN n ELSE 1
<1>1. CASE n > 1
  BY <1>1, MaxIs
<1>2. CASE ~(n > 1)
  BY <1>2, MaxIs
<1> QED BY <1>1, <1>2

LEMMA MinExists ==
  ASSUME NEW V \in SUBSET Nat, V # {}
  PROVE  Min(V) \in V /\ \A j \in V : Min(V) <= j
<1>1. PICK m \in V : \A j \in V : ~ (<<j, m>> \in Below)
  BY BelowIsWellFounded, WFMin
<1>2. \A j \in V : m <= j
  <2> SUFFICES ASSUME NEW j \in V PROVE ~(j < m)
    OBVIOUS
  <2>1. j \in Nat /\ m \in Nat /\ <<j, m>> \notin Below
    BY <1>1
  <2> QED BY <2>1 DEF Below
<1> QED BY <1>2 DEF Min

------------------------------------------------------------------------------
(* Sums, as the folds of the community modules define them: a function on  *)
(* subsets, given by what it is of a subset with an element less.          *)
Picked(s) == CHOOSE x \in s : TRUE
SumStep(f, S, g) ==
  [s \in SUBSET S |-> IF s = {} THEN 0 ELSE f[Picked(s)] + g[s \ {Picked(s)}]]

LEMMA SumIs ==
  ASSUME NEW f, NEW S
  PROVE  SumFunctionOnSet(f, S) = (CHOOSE g : g = SumStep(f, S, g))[S]
BY DEF SumFunctionOnSet, FoldFunctionOnSet, MapThenFoldSet, SumStep, Picked

(* What is of one of some kinds.                                           *)
InAll(kind, s) == UNION {kind[x] : x \in s}

(* What a surjection from a finite set reaches is finite.                  *)
LEMMA ReachedFinite ==
  ASSUME NEW S, IsFiniteSet(S), NEW f, NEW T, T = {f[x] : x \in S}
  PROVE  IsFiniteSet(T)
<1> DEFINE map == [x \in S |-> f[x]]
<1>1. map \in Surjection(S, T)
  BY DEF Surjection
<1> QED BY <1>1, FS_Surjection DEF ExistsSurjection

(* Finite kinds, finitely many, are finite in all.                         *)
LEMMA AllFinite ==
  ASSUME NEW S, IsFiniteSet(S), NEW kind, \A x \in S : IsFiniteSet(kind[x])
  PROVE  IsFiniteSet(InAll(kind, S))
<1>1. IsFiniteSet({kind[x] : x \in S})
  BY ReachedFinite
<1> QED BY <1>1, FS_UNION DEF InAll

(* The sum of how many there are of each kind is how many there are in     *)
(* all, if the kinds are apart.                                            *)
LEMMA SumCounts ==
  ASSUME NEW S, IsFiniteSet(S), NEW f, NEW kind,
         \A x \in S : IsFiniteSet(kind[x]) /\ f[x] = Cardinality(kind[x]),
         \A x, y \in S : x # y => kind[x] \cap kind[y] = {}
  PROVE  SumFunctionOnSet(f, S) = Cardinality(InAll(kind, S))
<1> DEFINE counts == [s \in SUBSET S |-> Cardinality(InAll(kind, s))]
<1>1. ASSUME NEW s \in SUBSET S PROVE IsFiniteSet(s) /\ IsFiniteSet(InAll(kind, s))
  BY FS_Subset, AllFinite
<1>2. ASSUME NEW s \in SUBSET S, s # {}
      PROVE  Cardinality(InAll(kind, s))
               = f[Picked(s)] + Cardinality(InAll(kind, s \ {Picked(s)}))
  <2> DEFINE x == Picked(s)
             rest == s \ {x}
  <2>1. x \in s /\ x \in S
    BY <1>2 DEF Picked
  <2> HIDE DEF x
  <2>2. InAll(kind, s) = kind[x] \cup InAll(kind, rest) /\ kind[x] \cap InAll(kind, rest) = {}
    BY <2>1 DEF InAll
  <2>3. IsFiniteSet(kind[x]) /\ IsFiniteSet(InAll(kind, rest)) /\ f[x] = Cardinality(kind[x])
    BY <1>1, <2>1
  <2>4. Cardinality(InAll(kind, s))
          = Cardinality(kind[x]) + Cardinality(InAll(kind, rest)) - Cardinality({})
    <3> DEFINE others == InAll(kind, rest)
    <3> HIDE DEF others, rest
    <3>1. Cardinality(kind[x] \cup others)
            = Cardinality(kind[x]) + Cardinality(others) - Cardinality(kind[x] \cap others)
      BY <2>3, FS_Union DEF others
    <3> QED BY <2>2, <3>1 DEF others
  <2>5. Cardinality({}) = 0 /\ Cardinality(kind[x]) \in Nat /\ Cardinality(InAll(kind, rest)) \in Nat
    BY <2>3, FS_EmptySet, FS_CardinalityType
  <2> QED BY <2>3, <2>4, <2>5 DEF x
<1>3. Cardinality(InAll(kind, {})) = 0
  <2>1. InAll(kind, {}) = {}
    BY DEF InAll
  <2> QED BY <2>1, FS_EmptySet
<1>4. counts = SumStep(f, S, counts)
  <2>1. ASSUME NEW s \in SUBSET S
        PROVE  counts[s] = IF s = {} THEN 0 ELSE f[Picked(s)] + counts[s \ {Picked(s)}]
    BY <1>2, <1>3
  <2> HIDE DEF counts
  <2>2. counts = [s \in SUBSET S |-> counts[s]]
    BY DEF counts
  <2> QED BY <2>1, <2>2 DEF SumStep
<1>5. ASSUME NEW g, g = SumStep(f, S, g), NEW s \in SUBSET S PROVE g[s] = Cardinality(InAll(kind, s))
  <2> DEFINE wrong == {r \in SUBSET S : g[r] # Cardinality(InAll(kind, r))}
             sizes == {Cardinality(r) : r \in wrong}
  <2>1. SUFFICES ASSUME wrong # {} PROVE FALSE
    OBVIOUS
  <2>2. sizes \in SUBSET Nat /\ sizes # {}
    <3>1. \A r \in SUBSET S : Cardinality(r) \in Nat
      BY <1>1, FS_CardinalityType
    <3> QED BY <2>1, <3>1
  <2>3. PICK n \in sizes : \A m \in sizes : ~ (<<m, n>> \in Below)
    <3> HIDE DEF sizes
    <3> QED BY <2>2, BelowIsWellFounded, WFMin
  <2>4. PICK r \in wrong : Cardinality(r) = n
    BY <2>3
  <2>5. g[r] = IF r = {} THEN 0 ELSE f[Picked(r)] + g[r \ {Picked(r)}]
    <3>1. g[r] = SumStep(f, S, g)[r]
      BY <1>5
    <3> QED BY <2>4, <3>1 DEF SumStep
  <2>6. r # {}
    BY <1>3, <2>4, <2>5
  <2> DEFINE rest == r \ {Picked(r)}
  <2>7. rest \in SUBSET S /\ Cardinality(rest) \in Nat /\ n \in Nat /\ Cardinality(rest) < n
    <3>1. Picked(r) \in r
      BY <2>6 DEF Picked
    <3>2. IsFiniteSet(r) /\ IsFiniteSet(rest)
      BY <1>1, <2>4
    <3>3. Cardinality(rest) = Cardinality(r) - 1 /\ Cardinality(r) \in Nat /\ Cardinality(rest) \in Nat
      BY <3>1, <3>2, FS_RemoveElement, FS_CardinalityType
    <3> QED BY <2>4, <3>3
  <2>8. rest \notin wrong
    <3>1. <<Cardinality(rest), n>> \in Below
      BY <2>7 DEF Below
    <3> QED BY <2>3, <3>1
  <2>9. g[rest] = Cardinality(InAll(kind, rest))
    BY <2>7, <2>8
  <2> QED BY <1>2, <2>4, <2>5, <2>6, <2>9
<1> DEFINE sums == CHOOSE g : g = SumStep(f, S, g)
<1>6. sums = SumStep(f, S, sums)
  <2> HIDE DEF counts
  <2> QED BY <1>4
<1>7. SumFunctionOnSet(f, S) = sums[S]
  BY SumIs
<1> HIDE DEF sums
<1> QED BY <1>5, <1>6, <1>7

------------------------------------------------------------------------------
(* The ranges.                                                             *)

LEMMA RangesFound ==
  ASSUME NEW list \in Seq([start : Nat, end : Nat]), Disjoint(list),
         \A i \in DOMAIN list : list[i].start <= list[i].end, NEW address \in Nat
  PROVE  Covering(BuildRelayRanges(list), address) = Listed(list, address)
<1> DEFINE found == BuildRelayRanges(list)
<1>1. \A i \in DOMAIN list : list[i].start \in Nat /\ list[i].end \in Nat
  <2> SUFFICES ASSUME NEW i \in DOMAIN list PROVE list[i].start \in Nat /\ list[i].end \in Nat
    OBVIOUS
  <2>1. i \in 1 .. Len(list)
    BY LenProperties
  <2>2. list[i] \in [start : Nat, end : Nat]
    BY <2>1, ElementOfSeq
  <2> QED BY <2>2
<1>2. \A i, j \in DOMAIN list : list[i].start = list[j].start => i = j
  <2> SUFFICES ASSUME NEW i \in DOMAIN list, NEW j \in DOMAIN list,
                      list[i].start = list[j].start, i # j
               PROVE  FALSE
    OBVIOUS
  <2>1. list[i].end < list[j].start \/ list[j].end < list[i].start
    BY DEF Disjoint
  <2>2. list[i].start <= list[i].end /\ list[j].start <= list[j].end
    OBVIOUS
  <2> QED BY <1>1, <2>1, <2>2
<1>3. DOMAIN found = {list[i].start : i \in DOMAIN list}
  BY DEF BuildRelayRanges
<1>4. ASSUME NEW i \in DOMAIN list PROVE found[list[i].start] = list[i]
  <2> DEFINE IsLast(k) == /\ list[k].start = list[i].start
                        /\ \A j \in k + 1 .. Len(list) : list[j].start # list[i].start
  <2>1. IsLast(i)
    <3> SUFFICES ASSUME NEW j \in i + 1 .. Len(list) PROVE list[j].start # list[i].start
      OBVIOUS
    <3>1. j \in DOMAIN list /\ j # i
      OBVIOUS
    <3> QED BY <1>2, <3>1
  <2>2. \A k \in DOMAIN list : IsLast(k) => k = i
    BY <1>2
  <2>3. found[list[i].start] = list[CHOOSE k \in DOMAIN list : IsLast(k)]
    BY DEF BuildRelayRanges
  <2> HIDE DEF IsLast
  <2>4. (CHOOSE k \in DOMAIN list : IsLast(k)) = i
    BY <2>1, <2>2
  <2> QED BY <2>3, <2>4
<1> HIDE DEF found
<1>5. ASSUME NEW range \in Covering(found, address) PROVE range \in Listed(list, address)
  <2>1. PICK start \in DOMAIN found :
          range = found[start] /\ start <= address /\ address <= range.end
    BY DEF Covering, Nearest
  <2>2. PICK i \in DOMAIN list : start = list[i].start
    BY <1>3, <2>1
  <2> QED BY <1>4, <2>1, <2>2 DEF Listed
<1>6. ASSUME NEW range \in Listed(list, address) PROVE range \in Covering(found, address)
  <2>1. PICK i \in DOMAIN list :
          range = list[i] /\ list[i].start <= address /\ address <= list[i].end
    BY DEF Listed
  <2>2. ASSUME NEW other \in DOMAIN found, other <= address PROVE other <= list[i].start
    <3>1. PICK j \in DOMAIN list : other = list[j].start
      BY <1>3
    <3>2. i = j \/ list[i].end < list[j].start \/ list[j].end < list[i].start
      BY DEF Disjoint
    <3>3. list[j].start <= list[j].end
      OBVIOUS
    <3>4. /\ list[i].start \in Nat /\ list[i].end \in Nat
          /\ list[j].start \in Nat /\ list[j].end \in Nat
      BY <1>1
    <3>5. list[j].start <= address
      BY <2>2, <3>1
    <3>6. \A low, high, low2, high2, a \in Nat :
            low2 <= a /\ a <= high /\ low2 <= high2 /\ (high < low2 \/ high2 < low) => low2 <= low
      OBVIOUS
    <3>7. CASE i = j
      BY <3>1, <3>4, <3>7
    <3>8. CASE list[i].end < list[j].start \/ list[j].end < list[i].start
      <4>1. list[j].start <= list[i].start
        BY <2>1, <3>3, <3>4, <3>5, <3>6, <3>8
      <4> QED BY <3>1, <4>1
    <3> QED BY <3>2, <3>7, <3>8
  <2>3. list[i].start \in DOMAIN found /\ found[list[i].start] = list[i]
    BY <1>3, <1>4
  <2>4. list[i] \in Nearest(found, address)
    BY <2>1, <2>2, <2>3 DEF Nearest
  <2> QED BY <2>1, <2>4 DEF Covering
<1> QED BY <1>5, <1>6 DEF found

------------------------------------------------------------------------------
(* The GeoIP directory.                                                    *)

(* The database's months have a last one, and an ETag that is kept is never *)
(* that of a list newer than the one the file was built from.              *)
EtagInv(etag) ==
  /\ etag \in Nat \cup {None}
  /\ etag # None => etag <= offered /\ (ranges # None => etag <= ranges)
GeoipInv ==
  /\ mmdb \subseteq Months /\ (\E n \in Nat : mmdb \subseteq 0 .. n)
  /\ today \in Months /\ released \in Months
  /\ offered \in DOMAIN Lists
  /\ ranges \in {None} \cup DOMAIN Lists /\ (ranges # None => ranges <= offered)
  /\ EtagInv(status.etag)
  /\ update = "status" => EtagInv(outcome.etag)

LEMMA ListsAre == DOMAIN Lists = 1 .. Len(Lists) /\ Len(Lists) \in Nat /\ Len(Lists) >= 1
                  /\ None \notin Nat /\ Months \subseteq Nat
BY ClientIpsAssumption

(* What an update of the ranges leaves.                                    *)
LEMMA RangesUpdated ==
  ASSUME GeoipInv, UpdateRanges
  PROVE  /\ ranges' \in {ranges, offered} /\ (ranges' # None => ranges' <= offered)
         /\ EtagInv(outcome.etag)' /\ EtagInv(status.etag)'
         /\ outcome'.what # "failed" => ranges' = offered /\ outcome'.etag = offered
<1>1. /\ offered \in Nat /\ offered # None /\ offered' = offered /\ status' = status
      /\ ranges \in Nat \cup {None}
      /\ EtagInv(status.etag) /\ (ranges # None => ranges <= offered)
  <2>1. offered \in Nat /\ ranges \in Nat \cup {None}
    BY ListsAre DEF GeoipInv
  <2>2. offered # None
    BY <2>1, ListsAre
  <2> QED BY <2>1, <2>2 DEF GeoipInv, UpdateRanges, world
<1>2. EtagSent \in Nat \cup {None} /\ (EtagSent # None => EtagSent <= offered /\ EtagSent <= ranges /\ ranges # None)
  BY <1>1 DEF EtagSent, EtagInv
<1>3. CASE EtagSent = offered /\ outcome' = Outcome("up to date", EtagSent) /\ UNCHANGED ranges
  <2>1. ranges = offered
    <3>1. offered <= ranges /\ ranges <= offered /\ ranges \in Nat
      BY <1>1, <1>2, <1>3
    <3> QED BY <1>1, <3>1
  <2> QED BY <1>1, <1>2, <1>3, <2>1 DEF EtagInv, Outcome
<1>4. CASE EtagSent # offered /\ ranges' = offered /\ outcome' = Outcome("downloaded", offered)
  BY <1>1, <1>4 DEF EtagInv, Outcome
<1>5. CASE outcome' = Outcome("failed", EtagSent) /\ UNCHANGED ranges
  BY <1>1, <1>2, <1>5 DEF EtagInv, Outcome
<1> QED BY <1>3, <1>4, <1>5 DEF UpdateRanges

LEMMA NewestIs ==
  ASSUME GeoipInv, mmdb # {}
  PROVE  Max(mmdb) \in mmdb /\ (\A j \in mmdb : Max(mmdb) >= j) /\ Max({Max(mmdb)}) = Max(mmdb)
         /\ Max(mmdb) \in Nat
<1>1. PICK n \in Nat : mmdb \subseteq 0 .. n
  BY DEF GeoipInv
<1>2. Max(mmdb) \in mmdb /\ \A j \in mmdb : Max(mmdb) >= j
  BY <1>1, MaxExists
<1>3. Max(mmdb) \in Nat
  <2>1. Max(mmdb) \in 0 .. n
    BY <1>1, <1>2
  <2> HIDE DEF Max
  <2> QED BY <2>1
<1> QED BY <1>2, <1>3, MaxIs

LEMMA GeoipKept == GeoipInv /\ [Next]_vars => GeoipInv'
<1> SUFFICES ASSUME GeoipInv, [Next]_vars PROVE GeoipInv'
  OBVIOUS
<1>1. CASE UNCHANGED <<mmdb, world, ranges, status>> /\ (UNCHANGED <<update, outcome>> \/ update' # "status")
  BY <1>1 DEF GeoipInv, EtagInv, world
<1>2. CASE Write \/ Killed \/ Collect \/ Boot \/ Start \/ Stop \/ Begin \/ FillIn \/ UNCHANGED vars
  <2>1. UNCHANGED <<mmdb, world, ranges, status>>
    BY <1>2 DEF Write, Killed, Collect, ReadLog, EmptyLog, CannotEmptyLog, Record, CannotRecord,
      Boot, Start, Stop, Begin, FillIn, vars, world, files, updating
  <2>2. UNCHANGED <<update, outcome>> \/ update' # "status"
    BY <1>2 DEF Write, Killed, Collect, ReadLog, EmptyLog, CannotEmptyLog, Record, CannotRecord,
      Boot, Start, Stop, Begin, FillIn, vars, updating
  <2> QED BY <1>1, <2>1, <2>2
<1>3. CASE UpdateMmdb
  <2>1. /\ UNCHANGED <<world, ranges, status>> /\ update' = "older"
        /\ \/ mmdb' = mmdb \cup {month \in Wanted : month <= released /\ month \in Months}
           \/ UNCHANGED mmdb
    BY <1>3 DEF UpdateMmdb
  <2>2. PICK n \in Nat : mmdb \subseteq 0 .. n
    BY DEF GeoipInv
  <2>3. released \in Nat
    BY ListsAre DEF GeoipInv
  <2>4. mmdb' \subseteq Months /\ mmdb' \subseteq 0 .. n + released
    <3> DEFINE new == {month \in Wanted : month <= released /\ month \in Months}
    <3>1. new \subseteq Months /\ new \subseteq 0 .. n + released
      <4> SUFFICES ASSUME NEW month \in new PROVE month \in Months /\ month \in 0 .. n + released
        BY Zenon
      <4>1. month \in Months /\ month <= released
        OBVIOUS
      <4>2. month \in Nat
        BY <4>1, ListsAre
      <4> HIDE DEF new
      <4> QED BY <2>2, <2>3, <4>1, <4>2
    <3>2. mmdb \subseteq Months /\ mmdb \subseteq 0 .. n + released
      BY <2>2, <2>3 DEF GeoipInv
    <3> QED BY <2>1, <3>1, <3>2
  <2>5. n + released \in Nat
    BY <2>2, <2>3
  <2> QED BY <2>1, <2>4, <2>5 DEF GeoipInv, EtagInv, world
<1>4. CASE DeleteOlder
  <2>1. UNCHANGED <<world, ranges, status>> /\ update' = "ranges" /\ mmdb' = Kept
    BY <1>4 DEF DeleteOlder
  <2>2. mmdb' \subseteq mmdb
    BY <2>1, NewestIs DEF Kept, Newest
  <2> QED BY <2>1, <2>2 DEF GeoipInv, EtagInv, world
<1>5. CASE UpdateRanges
  <2>1. UNCHANGED <<mmdb, world>>
    BY <1>5 DEF UpdateRanges
  <2> QED BY <1>5, <2>1, RangesUpdated DEF GeoipInv, world
<1>6. CASE WriteStatus
  <2>1. UNCHANGED <<mmdb, world, ranges>> /\ update = "status" /\ update' = "fill" /\ status' \in {outcome, status}
    BY <1>6 DEF WriteStatus, files
  <2> QED BY <2>1 DEF GeoipInv, EtagInv, world
<1>7. CASE ClockSet
  BY <1>7 DEF ClockSet, GeoipInv, EtagInv, files, updating
<1>8. CASE Publish
  BY <1>8 DEF Publish, GeoipInv, EtagInv, files, updating
<1>9. CASE Offer
  <2>1. /\ offered < Len(Lists) /\ offered' = offered + 1
        /\ UNCHANGED <<mmdb, ranges, today, released, status, outcome, update>>
    BY <1>9 DEF Offer, files, updating
  <2>2. /\ offered \in Nat /\ offered' \in DOMAIN Lists
        /\ ranges \in Nat \cup {None} /\ (ranges # None => ranges <= offered)
    BY <2>1, ListsAre DEF GeoipInv
  <2>3. EtagInv(status.etag)' /\ (update = "status" => EtagInv(outcome.etag)')
    BY <2>1, <2>2, ListsAre DEF GeoipInv, EtagInv
  <2>4. ranges' # None => ranges' <= offered'
    BY <2>1, <2>2, ListsAre
  <2> QED BY <2>1, <2>2, <2>3, <2>4 DEF GeoipInv
<1>10. CASE LoseRanges
  <2>1. ranges' = None /\ update' = "none" /\ UNCHANGED <<mmdb, world, status>>
    BY <1>10 DEF LoseRanges, updating
  <2> QED BY <2>1 DEF GeoipInv, EtagInv, world
<1> QED BY <1>2, <1>3, <1>4, <1>5, <1>6, <1>7, <1>8, <1>9, <1>10 DEF Next, Update, World

LEMMA GeoipStarts == Init => GeoipInv
BY ListsAre DEF Init, GeoipInv, EtagInv, Outcome

(* The ranges file finds what the list it was built from says of an        *)
(* address, if the list's ranges are apart.                                *)
THEOREM LookupsFind == Spec => []LookupFindsRange
<1>1. GeoipInv => LookupFindsRange
  <2> SUFFICES ASSUME GeoipInv, ranges # None, Disjoint(Lists[ranges]), NEW ip \in Ips
               PROVE  Relay(ip) = Listed(Lists[ranges], AddressOf[ip])
    BY DEF LookupFindsRange
  <2>1. /\ ranges \in DOMAIN Lists /\ AddressOf[ip] \in Nat
        /\ Lists[ranges] \in Seq([start : Nat, end : Nat])
        /\ \A i \in DOMAIN Lists[ranges] : Lists[ranges][i].start <= Lists[ranges][i].end
    BY ClientIpsAssumption DEF GeoipInv
  <2> QED BY <2>1, RangesFound DEF Relay
<1> QED BY <1>1, GeoipStarts, GeoipKept, PTL DEF Spec

(* An update that reports the ranges updated, or up to date, leaves the    *)
(* list that is online, with its ETag, whatever crashes, failed downloads, *)
(* unwritten statuses and lost files there were before it.                 *)
THEOREM ListStaysCurrent == Spec => ListIsCurrent
<1>1. GeoipInv /\ [Next]_vars =>
        [update = "ranges" /\ update' = "status" /\ outcome'.what # "failed"
           => ranges' = offered /\ outcome'.etag = offered]_vars
  <2> SUFFICES ASSUME GeoipInv, Next, update = "ranges", update' = "status",
                      outcome'.what # "failed"
               PROVE  ranges' = offered /\ outcome'.etag = offered
    OBVIOUS
  <2>1. UpdateRanges
    BY DEF Next, Write, Killed, Collect, ReadLog, EmptyLog, CannotEmptyLog, Record, CannotRecord,
      Boot, Start, Stop, Update, Begin, UpdateMmdb, DeleteOlder, WriteStatus, FillIn,
      World, ClockSet, Publish, Offer, LoseRanges, updating
  <2> QED BY <2>1, RangesUpdated
<1> QED BY <1>1, GeoipStarts, GeoipKept, PTL DEF Spec, ListIsCurrent

(* The directory's newest database is never replaced by an older one, or   *)
(* by none, though the clock and DB-IP's releases may be at odds.          *)
THEOREM DatabaseGrowsNewer == Spec => DatabaseNeverOlder
<1>1. GeoipInv /\ [Next]_vars =>
        [mmdb # {} => mmdb' # {} /\ Max(mmdb') >= Max(mmdb)]_vars
  <2> SUFFICES ASSUME GeoipInv, Next, mmdb # {} PROVE mmdb' # {} /\ Max(mmdb') >= Max(mmdb)
    OBVIOUS
  <2>1. Max(mmdb) \in mmdb /\ Max(mmdb) \in Nat /\ Max({Max(mmdb)}) = Max(mmdb)
    BY NewestIs
  <2>2. mmdb \subseteq mmdb' \/ mmdb' = {Max(mmdb)}
    BY DEF Next, Write, Killed, Collect, ReadLog, EmptyLog, CannotEmptyLog, Record, CannotRecord,
      Boot, Start, Stop, Update, Begin, UpdateMmdb, DeleteOlder, Kept, Newest, UpdateRanges,
      WriteStatus, FillIn, World, ClockSet, Publish, Offer, LoseRanges, files
  <2>3. CASE mmdb \subseteq mmdb'
    <3>1. GeoipInv'
      BY GeoipKept
    <3>2. PICK n \in Nat : mmdb' \subseteq 0 .. n
      BY <3>1 DEF GeoipInv
    <3>3. Max(mmdb') \in mmdb' /\ \A j \in mmdb' : Max(mmdb') >= j
      BY <2>1, <2>3, <3>2, MaxExists
    <3> QED BY <2>1, <2>3, <3>3
  <2>4. CASE mmdb' = {Max(mmdb)}
    BY <2>1, <2>4
  <2> QED BY <2>2, <2>3, <2>4
<1> QED BY <1>1, GeoipStarts, GeoipKept, PTL DEF Spec, DatabaseNeverOlder

------------------------------------------------------------------------------
(* What is read of the log.                                                *)

Pieces == [line : Nat, part : {1, 2}]
LinesOnce(pieces) ==
  \A i, j \in LineEnds(pieces) : pieces[i].line = pieces[j].line => i = j
WholeEnds(pieces) == {i \in LineEnds(pieces) : Whole(pieces, i)}

(* The k-th of a set of numbers is the one with k up to it: there is one   *)
(* for every k, since no two have as many up to them.                      *)
LEMMA EachHasItsPlace ==
  ASSUME NEW n \in Nat, NEW V \in SUBSET (1 .. n)
  PROVE  /\ IsFiniteSet(V) /\ Cardinality(V) \in Nat
         /\ \A k \in 1 .. Cardinality(V) : \E i \in V : Cardinality({j \in V : j <= i}) = k
         /\ \A i \in V : Cardinality({j \in V : j <= i}) \in 1 .. Cardinality(V)
         /\ \A h, i \in V :
              Cardinality({j \in V : j <= h}) = Cardinality({j \in V : j <= i}) => h = i
<1> DEFINE UpTo(i) == {j \in V : j <= i}
           place == [i \in V |-> Cardinality(UpTo(i))]
           places == 1 .. Cardinality(V)
<1>1. IsFiniteSet(V) /\ Cardinality(V) \in Nat
  <2>1. IsFiniteSet(1 .. n)
    BY FS_Interval
  <2> QED BY <2>1, FS_Subset, FS_CardinalityType
<1>2. ASSUME NEW i \in V
      PROVE  /\ IsFiniteSet(UpTo(i)) /\ Cardinality(UpTo(i)) \in Nat
             /\ Cardinality(UpTo(i)) <= Cardinality(V) /\ Cardinality(UpTo(i)) >= 1
  <2>1. UpTo(i) \in SUBSET V /\ i \in UpTo(i)
    OBVIOUS
  <2>2. IsFiniteSet(UpTo(i)) /\ Cardinality(UpTo(i)) <= Cardinality(V)
    BY <1>1, <2>1, FS_Subset
  <2>3. Cardinality(UpTo(i)) \in Nat /\ Cardinality(UpTo(i)) # 0
    BY <2>1, <2>2, FS_CardinalityType, FS_EmptySet
  <2> QED BY <2>2, <2>3
<1>3. ASSUME NEW i \in V, NEW j \in V, i < j PROVE Cardinality(UpTo(i)) # Cardinality(UpTo(j))
  <2>1. UpTo(i) \in SUBSET UpTo(j) /\ j \in UpTo(j) /\ j \notin UpTo(i)
    <3>1. i \in Int /\ j \in Int /\ \A h \in V : h \in Int
      OBVIOUS
    <3>2. \A h \in V : h <= i => h <= j
      BY <1>3, <3>1
    <3>3. j <= j /\ ~(j <= i)
      BY <1>3, <3>1
    <3> QED BY <3>2, <3>3, Zenon
  <2> HIDE DEF UpTo
  <2> QED BY <1>2, <2>1, FS_Subset
<1>4. place \in Injection(V, places)
  <2>1. place \in [V -> places]
    BY <1>1, <1>2
  <2>2. \A i, j \in V : place[i] = place[j] => i = j
    <3> SUFFICES ASSUME NEW i \in V, NEW j \in V, i # j PROVE place[i] # place[j]
      OBVIOUS
    <3>1. i < j \/ j < i
      OBVIOUS
    <3>2. Cardinality(UpTo(i)) # Cardinality(UpTo(j))
      BY <1>3, <3>1
    <3> QED BY <3>2
  <2> QED BY <2>1, <2>2 DEF Injection, IsInjective
<1>5. IsFiniteSet(places) /\ Cardinality(places) = Cardinality(V)
  BY <1>1, FS_Interval
<1>6. place \in Surjection(V, places)
  BY <1>4, <1>5, FS_Injection
<1>7. \A k \in places : \E i \in V : place[i] = k
  BY <1>6 DEF Surjection
<1>8. \A h, i \in V : place[h] = place[i] => h = i
  BY <1>4 DEF Injection, IsInjective
<1> QED BY <1>1, <1>2, <1>7, <1>8

LEMMA RequestsAre ==
  ASSUME NEW pieces \in Seq(Pieces), LinesOnce(pieces)
  PROVE  /\ Requests(pieces) \in Seq(Nat) /\ IsInjective(Requests(pieces))
         /\ ToSet(Requests(pieces)) = {pieces[i].line : i \in WholeEnds(pieces)}
<1> DEFINE V == WholeEnds(pieces)
           Place(i) == Cardinality({j \in V : j <= i})
           End(k) == CHOOSE i \in V : Place(i) = k
<1>1. V \in SUBSET (1 .. Len(pieces)) /\ Len(pieces) \in Nat
  BY DEF WholeEnds, LineEnds
<1>2. /\ Cardinality(V) \in Nat
      /\ \A k \in 1 .. Cardinality(V) : \E i \in V : Place(i) = k
      /\ \A i \in V : Place(i) \in 1 .. Cardinality(V)
  <2> HIDE DEF V
  <2> QED BY <1>1, EachHasItsPlace
<1>3. \A k \in 1 .. Cardinality(V) : End(k) \in V /\ Place(End(k)) = k
  <2> HIDE DEF V, Place
  <2> QED BY <1>2
<1>4. Requests(pieces) = [k \in 1 .. Cardinality(V) |-> pieces[End(k)].line]
  BY DEF Requests, WholeEnds
<1>5. \A i \in V : pieces[i].line \in Nat /\ i \in LineEnds(pieces)
  <2> SUFFICES ASSUME NEW i \in V PROVE pieces[i].line \in Nat /\ i \in LineEnds(pieces)
    BY Zenon
  <2>1. i \in 1 .. Len(pieces) /\ i \in LineEnds(pieces)
    BY <1>1 DEF WholeEnds
  <2>2. pieces[i] \in Pieces
    BY <2>1, ElementOfSeq
  <2> QED BY <2>1, <2>2 DEF Pieces
<1>6. ASSUME NEW i \in V PROVE End(Place(i)) = i
  <2>1. End(Place(i)) \in V /\ Place(End(Place(i))) = Place(i)
    BY <1>2, <1>3
  <2>2. \A g, h \in V : Place(g) = Place(h) => g = h
    <3> HIDE DEF V
    <3> QED BY <1>1, EachHasItsPlace
  <2> HIDE DEF Place, V
  <2> QED BY <2>1, <2>2
<1> HIDE DEF V, Place, End
<1>7. Requests(pieces) \in Seq(Nat) /\ DOMAIN Requests(pieces) = 1 .. Cardinality(V)
  <2>1. \A k \in 1 .. Cardinality(V) : pieces[End(k)].line \in Nat
    BY <1>3, <1>5
  <2> QED BY <1>2, <1>4, <2>1
<1>8. \A k \in 1 .. Cardinality(V) : Requests(pieces)[k] = pieces[End(k)].line
  BY <1>4
<1>9. IsInjective(Requests(pieces))
  <2> SUFFICES ASSUME NEW j \in 1 .. Cardinality(V), NEW k \in 1 .. Cardinality(V),
                      Requests(pieces)[j] = Requests(pieces)[k]
               PROVE  j = k
    BY <1>7 DEF IsInjective
  <2>1. End(j) = End(k)
    BY <1>3, <1>5, <1>8 DEF LinesOnce
  <2> QED BY <1>3, <2>1
<1>10. ToSet(Requests(pieces)) = {pieces[i].line : i \in V}
  <2>1. \A k \in 1 .. Cardinality(V) : Requests(pieces)[k] \in {pieces[i].line : i \in V}
    BY <1>3, <1>8
  <2>2. \A i \in V : Place(i) \in 1 .. Cardinality(V) /\ Requests(pieces)[Place(i)] = pieces[i].line
    BY <1>2, <1>6, <1>8
  <2> QED BY <1>7, <2>1, <2>2 DEF ToSet
<1> QED BY <1>7, <1>9, <1>10 DEF V

(* One sequence after another, of which none has anything twice.           *)
LEMMA JoinedIs ==
  ASSUME NEW s \in Seq(Nat), NEW t \in Seq(Nat), IsInjective(s), IsInjective(t),
         ToSet(s) \cap ToSet(t) = {}
  PROVE  s \o t \in Seq(Nat) /\ IsInjective(s \o t) /\ ToSet(s \o t) = ToSet(s) \cup ToSet(t)
<1> DEFINE both == s \o t
<1>1. /\ both \in Seq(Nat) /\ Len(both) = Len(s) + Len(t)
      /\ Len(s) \in Nat /\ Len(t) \in Nat
      /\ DOMAIN both = 1 .. Len(both) /\ DOMAIN s = 1 .. Len(s)
      /\ DOMAIN t = 1 .. Len(t)
  OBVIOUS
<1>2. /\ \A i \in 1 .. Len(s) : both[i] = s[i]
      /\ \A i \in 1 .. Len(t) : both[Len(s) + i] = t[i]
      /\ \A i \in Len(s) + 1 .. Len(both) : both[i] = t[i - Len(s)]
  <2>1. \A i \in 1 .. Len(s) + Len(t) :
          both[i] = IF i <= Len(s) THEN s[i] ELSE t[i - Len(s)]
    BY ConcatProperties
  <2> HIDE DEF both
  <2>2. ASSUME NEW i \in 1 .. Len(s) PROVE both[i] = s[i]
    <3>1. i \in 1 .. Len(s) + Len(t) /\ i <= Len(s)
      BY <1>1
    <3> QED BY <2>1, <3>1
  <2>3. ASSUME NEW i \in Len(s) + 1 .. Len(both) PROVE both[i] = t[i - Len(s)]
    <3>1. i \in 1 .. Len(s) + Len(t) /\ ~(i <= Len(s))
      BY <1>1
    <3> QED BY <2>1, <3>1
  <2>4. ASSUME NEW i \in 1 .. Len(t) PROVE both[Len(s) + i] = t[i]
    <3>1. Len(s) + i \in Len(s) + 1 .. Len(both) /\ Len(s) + i - Len(s) = i
      BY <1>1
    <3> QED BY <2>3, <3>1
  <2> QED BY <2>2, <2>3, <2>4
<1> HIDE DEF both
<1>3. ToSet(both) = ToSet(s) \cup ToSet(t)
  <2>1. \A i \in 1 .. Len(both) : both[i] \in ToSet(s) \cup ToSet(t)
    <3> SUFFICES ASSUME NEW i \in 1 .. Len(both) PROVE both[i] \in ToSet(s) \cup ToSet(t)
      OBVIOUS
    <3>1. CASE i <= Len(s)
      <4>1. i \in 1 .. Len(s)
        BY <1>1, <3>1
      <4> QED BY <1>1, <1>2, <4>1 DEF ToSet
    <3>2. CASE ~(i <= Len(s))
      <4>1. i \in Len(s) + 1 .. Len(both) /\ i - Len(s) \in 1 .. Len(t)
        BY <1>1, <3>2
      <4> QED BY <1>1, <1>2, <4>1 DEF ToSet
    <3> QED BY <3>1, <3>2
  <2>2. \A i \in 1 .. Len(s) : i \in 1 .. Len(both)
    BY <1>1
  <2>3. \A i \in 1 .. Len(t) : Len(s) + i \in 1 .. Len(both)
    BY <1>1
  <2>4. ToSet(s) \subseteq ToSet(both)
    <3>1. \A i \in DOMAIN s : i \in DOMAIN both /\ both[i] = s[i]
      BY <1>1, <1>2, <2>2
    <3> QED BY <3>1 DEF ToSet
  <2>5. ToSet(t) \subseteq ToSet(both)
    <3>1. \A i \in DOMAIN t : Len(s) + i \in DOMAIN both /\ both[Len(s) + i] = t[i]
      BY <1>1, <1>2, <2>3
    <3> QED BY <3>1 DEF ToSet
  <2>6. ToSet(both) \subseteq ToSet(s) \cup ToSet(t)
    BY <1>1, <2>1 DEF ToSet
  <2> QED BY <2>4, <2>5, <2>6
<1>4. \A i, j \in 1 .. Len(both) : both[i] = both[j] => i = j
  <2> SUFFICES ASSUME NEW i \in 1 .. Len(both), NEW j \in 1 .. Len(both), both[i] = both[j] PROVE i = j
    OBVIOUS
  <2>1. CASE i <= Len(s) /\ j <= Len(s)
    <3>1. i \in DOMAIN s /\ j \in DOMAIN s /\ s[i] = s[j]
      BY <1>1, <1>2, <2>1
    <3> QED BY <3>1 DEF IsInjective
  <2>2. CASE i > Len(s) /\ j > Len(s)
    <3>1. /\ i - Len(s) \in 1 .. Len(t) /\ j - Len(s) \in 1 .. Len(t)
          /\ i \in Len(s) + 1 .. Len(both) /\ j \in Len(s) + 1 .. Len(both)
      BY <1>1, <2>2
    <3>2. t[i - Len(s)] = t[j - Len(s)]
      BY <1>2, <3>1
    <3>3. i - Len(s) = j - Len(s)
      BY <1>1, <3>1, <3>2 DEF IsInjective
    <3> QED BY <1>1, <3>3
  <2>3. ASSUME NEW g \in 1 .. Len(both), NEW h \in 1 .. Len(both), both[g] = both[h],
               g <= Len(s), h > Len(s)
        PROVE  FALSE
    <3>1. h - Len(s) \in 1 .. Len(t) /\ h \in Len(s) + 1 .. Len(both) /\ g \in 1 .. Len(s)
      BY <1>1, <2>3
    <3>2. both[g] \in ToSet(s) /\ both[h] \in ToSet(t)
      BY <1>1, <1>2, <3>1 DEF ToSet
    <3> QED BY <2>3, <3>2
  <2> QED BY <1>1, <2>1, <2>2, <2>3
<1>5. IsInjective(both)
  BY <1>1, <1>4 DEF IsInjective
<1> QED BY <1>1, <1>3, <1>5 DEF both

(* A queue of limited length: what isn't kept is dropped.                  *)
LEMMA ExtendedIs ==
  ASSUME NEW requests \in Seq(Nat), pending \in Seq(Nat), IsInjective(requests),
         IsInjective(pending), ToSet(pending) \cap ToSet(requests) = {}
  PROVE  /\ Extended(requests) \in Seq(Nat) /\ IsInjective(Extended(requests))
         /\ Len(Extended(requests)) <= MaxPending
         /\ ToSet(Extended(requests)) \subseteq ToSet(pending) \cup ToSet(requests)
         /\ ToSet(pending) \cup ToSet(requests) = ToSet(Extended(requests)) \cup Dropped(requests)
<1> DEFINE all == pending \o requests
           from == Max({1, Len(all) - MaxPending + 1})
           kept == SubSeq(all, from, Len(all))
<1>1. /\ all \in Seq(Nat) /\ Len(all) \in Nat /\ DOMAIN all = 1 .. Len(all)
      /\ IsInjective(all) /\ ToSet(all) = ToSet(pending) \cup ToSet(requests)
  BY JoinedIs
<1>2. MaxPending \in Nat
  BY ClientIpsAssumption
<1> HIDE DEF all
<1>3. \A i, j \in 1 .. Len(all) : all[i] = all[j] => i = j
  BY <1>1 DEF IsInjective
<1>5. /\ from \in Int /\ from >= 1 /\ Len(all) - from + 1 <= MaxPending
      /\ Len(all) \in Nat
  <2>1. Len(all) - MaxPending + 1 \in Int /\ Len(all) \in Nat /\ MaxPending \in Nat
    BY <1>1, <1>2
  <2>2. from \in Int /\ from = IF Len(all) - MaxPending + 1 > 1 THEN Len(all) - MaxPending + 1 ELSE 1
    BY <2>1, MaxOfTwo
  <2> HIDE DEF from
  <2>3. CASE Len(all) - MaxPending + 1 > 1
    BY <2>1, <2>2, <2>3
  <2>4. CASE ~(Len(all) - MaxPending + 1 > 1)
    BY <2>1, <2>2, <2>4
  <2> QED BY <2>3, <2>4
<1> HIDE DEF from
<1>6. /\ kept \in Seq(Nat) /\ Len(kept) <= MaxPending
      /\ DOMAIN kept = 1 .. Len(all) - from + 1
      /\ \A i \in 1 .. Len(all) - from + 1 : kept[i] = all[from + i - 1] /\ from + i - 1 \in 1 .. Len(all)
  <2>1. \A i \in from .. Len(all) : all[i] \in Nat
    BY <1>1, <1>5
  <2>2. /\ kept \in Seq(Nat) /\ Len(kept) = IF from <= Len(all) THEN Len(all) - from + 1 ELSE 0
        /\ \A i \in 1 .. Len(all) - from + 1 : kept[i] = all[from + i - 1]
    BY <1>5, <2>1, SubSeqProperties
  <2>3. DOMAIN kept = 1 .. Len(kept) /\ 1 .. Len(kept) = 1 .. Len(all) - from + 1
    BY <1>5, <2>2
  <2>4. \A i \in 1 .. Len(all) - from + 1 : from + i - 1 \in 1 .. Len(all)
    BY <1>5
  <2>5. Len(kept) <= MaxPending
    BY <1>2, <1>5, <2>2
  <2> HIDE DEF kept
  <2> QED BY <2>2, <2>3, <2>4, <2>5
<1> HIDE DEF kept
<1>7. ToSet(kept) \subseteq ToSet(all)
  BY <1>1, <1>6 DEF ToSet
<1>8. IsInjective(kept)
  <2> SUFFICES ASSUME NEW i \in DOMAIN kept, NEW j \in DOMAIN kept, kept[i] = kept[j] PROVE i = j
    BY DEF IsInjective
  <2>1. from + i - 1 = from + j - 1
    BY <1>3, <1>6
  <2> QED BY <1>5, <1>6, <2>1
<1>9. Extended(requests) = kept /\ Dropped(requests) = ToSet(all) \ ToSet(kept)
  BY DEF Extended, Dropped, kept, from, all
<1> QED BY <1>1, <1>6, <1>7, <1>8, <1>9

------------------------------------------------------------------------------
(* Where every line is.                                                    *)

Steps == {"down", "booted", "refresh", "collect", "emptying", "recording"}
LogTypeOK ==
  /\ written \in 0 .. 2 * Len(IpOf) /\ log \in Seq(Pieces)
  /\ offset \in 0 .. Len(log) /\ (offset # 0 => log[offset].part = 2)
  /\ recorded \in Seq(Nat) /\ pending \in Seq(Nat) /\ batch \in Seq(Nat)
  /\ pc \in Steps /\ (batch # <<>> => pc = "emptying") /\ Len(pending) <= MaxPending

(* A line that was taken out of the file was taken once: it is in one      *)
(* place, and no longer ahead of the collector in the file, of which it    *)
(* ends there once.                                                        *)
Taken == ToSet(recorded) \cup ToSet(pending) \cup ToSet(batch)
InOnePlace ==
  /\ IsInjective(recorded) /\ IsInjective(pending) /\ IsInjective(batch)
  /\ ToSet(recorded) \cap ToSet(pending) = {} /\ ToSet(recorded) \cap ToSet(batch) = {}
  /\ ToSet(pending) \cap ToSet(batch) = {}
WrittenOnce ==
  /\ LinesOnce(log) /\ \A i \in LineEnds(log) : 2 * log[i].line <= written
  /\ \A l \in Taken : 2 * l <= written
NotAgain ==
  pc # "down" => \A i \in LineEnds(log) : i > offset => log[i].line \notin Taken
Ahead(l) == \E i \in offset + 1 .. Len(log) : log[i] = Piece(l, 2)
(* The lines that weren't counted and won't be. *)
GivenUp == lost \cup forgotten
EachAccounted ==
  DbPath(env) # None =>
    \A l \in Lines : 2 * l <= written => l \in GivenUp \/ l \in Taken \/ Ahead(l)
(* With the container down nothing waits in the file: it will be deleted.  *)
NothingWaits ==
  pc = "down" =>
    /\ offset = 0 /\ pending = <<>> /\ batch = <<>>
    /\ DbPath(env) # None =>
         \A l \in Lines : 2 * l <= written => l \in GivenUp \/ l \in ToSet(recorded)
LogInv ==
  LogTypeOK /\ InOnePlace /\ WrittenOnce /\ NotAgain /\ EachAccounted /\ NothingWaits

LEMMA LinesAre == Lines = 1 .. Len(IpOf) /\ Len(IpOf) \in Nat
BY ClientIpsAssumption DEF Lines

(* The lines the file has, and those taken, are numbers.                   *)
LEMMA EndsAre ==
  ASSUME LogTypeOK
  PROVE  \A i \in LineEnds(log) : /\ i \in 1 .. Len(log) /\ log[i] \in Pieces
                                 /\ log[i].line \in Nat /\ log[i].part = 2
<1>1. log \in Seq(Pieces)
  BY DEF LogTypeOK
<1> SUFFICES ASSUME NEW i \in DOMAIN log, log[i].part = 2
             PROVE  i \in 1 .. Len(log) /\ log[i] \in Pieces /\ log[i].line \in Nat
  BY DEF LineEnds
<1>2. i \in 1 .. Len(log)
  BY <1>1, LenProperties
<1>3. log[i] \in Pieces
  BY <1>1, <1>2, ElementOfSeq
<1> QED BY <1>2, <1>3 DEF Pieces

LEMMA TakenAre == ASSUME LogTypeOK PROVE \A l \in Taken : l \in Nat
<1>1. ASSUME NEW s \in Seq(Nat), NEW l \in ToSet(s) PROVE l \in Nat
  <2>1. PICK i \in DOMAIN s : l = s[i]
    BY DEF ToSet
  <2> QED BY <2>1, LenProperties, ElementOfSeq
<1> QED BY <1>1 DEF Taken, LogTypeOK

(* What is read of the file: from the offset to a place after it.          *)
LEMMA WindowIs ==
  ASSUME LogTypeOK, LinesOnce(log), NEW to \in offset .. Len(log),
         NEW pieces, pieces = SubSeq(log, offset + 1, to)
  PROVE  /\ pieces \in Seq(Pieces) /\ LinesOnce(pieces)
         /\ \A i \in 1 .. to - offset : pieces[i] = log[offset + i]
         /\ DOMAIN pieces = 1 .. to - offset
         /\ \A i \in LineEnds(pieces) : offset + i \in LineEnds(log) /\ pieces[i] = log[offset + i]
         /\ \A i \in LineEnds(log) : offset < i /\ i <= to =>
              i - offset \in LineEnds(pieces) /\ pieces[i - offset] = log[i]
<1>1. log \in Seq(Pieces) /\ Len(log) \in Nat /\ offset \in Nat /\ to \in Nat
      /\ offset <= to /\ to <= Len(log)
  BY DEF LogTypeOK
<1>2. \A i \in offset + 1 .. to : log[i] \in Pieces
  <2> SUFFICES ASSUME NEW i \in offset + 1 .. to PROVE log[i] \in Pieces
    OBVIOUS
  <2>1. i \in 1 .. Len(log)
    BY <1>1
  <2> QED BY <1>1, <2>1, ElementOfSeq
<1>3. /\ pieces \in Seq(Pieces) /\ Len(pieces) = IF offset + 1 <= to THEN to - (offset + 1) + 1 ELSE 0
      /\ \A i \in 1 .. to - (offset + 1) + 1 : pieces[i] = log[offset + 1 + i - 1]
  <2>1. offset + 1 \in Int /\ to \in Int
    BY <1>1
  <2> QED BY <1>2, <2>1, SubSeqProperties
<1>4. DOMAIN pieces = 1 .. to - offset
  <2>1. DOMAIN pieces = 1 .. Len(pieces)
    BY <1>3, LenProperties
  <2>2. Len(pieces) = to - offset
    BY <1>1, <1>3
  <2> QED BY <2>1, <2>2
<1>5. \A i \in 1 .. to - offset : pieces[i] = log[offset + i] /\ offset + i \in 1 .. Len(log)
  <2> SUFFICES ASSUME NEW i \in 1 .. to - offset
               PROVE  pieces[i] = log[offset + i] /\ offset + i \in 1 .. Len(log)
    OBVIOUS
  <2>1. i \in 1 .. to - (offset + 1) + 1 /\ offset + 1 + i - 1 = offset + i
    BY <1>1
  <2> QED BY <1>1, <1>3, <2>1
<1>6. DOMAIN log = 1 .. Len(log)
  BY <1>1, LenProperties
<1>7. \A i \in LineEnds(pieces) : i \in 1 .. to - offset /\ offset + i \in LineEnds(log) /\ pieces[i] = log[offset + i]
  BY <1>4, <1>5, <1>6 DEF LineEnds
<1>8. ASSUME NEW i \in LineEnds(log), offset < i, i <= to
      PROVE  i - offset \in LineEnds(pieces) /\ pieces[i - offset] = log[i]
  <2>1. i \in 1 .. Len(log) /\ log[i].part = 2
    BY EndsAre
  <2>2. i - offset \in 1 .. to - offset /\ offset + (i - offset) = i
    BY <1>1, <1>8, <2>1
  <2>3. pieces[i - offset] = log[i]
    BY <1>5, <2>2
  <2> QED BY <1>4, <2>1, <2>2, <2>3 DEF LineEnds
<1>9. LinesOnce(pieces)
  <2> SUFFICES ASSUME NEW i \in LineEnds(pieces), NEW j \in LineEnds(pieces), pieces[i].line = pieces[j].line
               PROVE  i = j
    BY DEF LinesOnce
  <2>1. offset + i = offset + j
    BY <1>7 DEF LinesOnce
  <2>2. i \in Int /\ j \in Int
    BY <1>7
  <2> QED BY <1>1, <2>1, <2>2
<1> QED BY <1>3, <1>4, <1>5, <1>7, <1>8, <1>9

(* The lines ahead in the file are among those read of it to its end.      *)
LEMMA AheadIsIn ==
  ASSUME LogTypeOK, LinesOnce(log), NEW l, Ahead(l)
  PROVE  l \in LinesOf(SubSeq(log, offset + 1, Len(log)))
<1> DEFINE pieces == SubSeq(log, offset + 1, Len(log))
<1>1. PICK i \in offset + 1 .. Len(log) : log[i] = Piece(l, 2)
  BY DEF Ahead
<1>2. log \in Seq(Pieces) /\ Len(log) \in Nat /\ offset \in Nat /\ offset <= Len(log)
  BY DEF LogTypeOK
<1>3. i \in LineEnds(log) /\ offset < i /\ i <= Len(log) /\ log[i].line = l
  <2>1. i \in DOMAIN log /\ offset < i /\ i <= Len(log)
    BY <1>1, <1>2
  <2> QED BY <1>1, <2>1 DEF LineEnds, Piece
<1>4. Len(log) \in offset .. Len(log)
  BY <1>2
<1> HIDE DEF pieces
<1>5. i - offset \in LineEnds(pieces) /\ pieces[i - offset] = log[i]
  BY <1>3, <1>4, WindowIs DEF pieces
<1>6. i - offset \in DOMAIN pieces
  BY <1>5 DEF LineEnds
<1> QED BY <1>3, <1>5, <1>6 DEF LinesOf, pieces

LEMMA NothingIn == ToSet(<<>>) = {} /\ IsInjective(<<>>) /\ <<>> \in Seq(Nat) /\ Len(<<>>) = 0
BY DEF ToSet, IsInjective

LEMMA LogStarts == Init => LogInv
<1> SUFFICES ASSUME Init PROVE LogInv
  OBVIOUS
<1>1. /\ written = 0 /\ log = <<>> /\ pc = "down" /\ offset = 0 /\ batch = <<>> /\ pending = <<>>
      /\ recorded = <<>>
  BY DEF Init
<1>2. LogTypeOK
  BY <1>1, ClientIpsAssumption, LinesAre DEF LogTypeOK, Steps
<1>3. Taken = {} /\ InOnePlace
  BY <1>1, NothingIn DEF Taken, InOnePlace
<1>4. LineEnds(log) = {}
  BY <1>1 DEF LineEnds
<1>5. \A l \in Lines : ~(2 * l <= written)
  BY <1>1, LinesAre
<1> QED BY <1>1, <1>2, <1>3, <1>4, <1>5 DEF LogInv, WrittenOnce, LinesOnce, NotAgain, EachAccounted, NothingWaits

(* A step that touches neither the log nor what was taken from it.         *)
LEMMA QuietStep ==
  ASSUME LogInv, UNCHANGED <<env, written, log, offset, batch, pending, recorded, lost, forgotten>>,
         pc' \in Steps, pc' = "down" <=> pc = "down", pc = "emptying" => pc' = "emptying"
  PROVE  LogInv'
<1>1. LogTypeOK'
  BY DEF LogInv, LogTypeOK
<1>2. InOnePlace' /\ WrittenOnce'
  BY DEF LogInv, InOnePlace, WrittenOnce, LinesOnce, LineEnds, Taken
<1>3. NotAgain' /\ EachAccounted' /\ NothingWaits'
  BY DEF LogInv, NotAgain, EachAccounted, NothingWaits, GivenUp, Ahead, LineEnds, Taken, DbPath
<1> QED BY <1>1, <1>2, <1>3 DEF LogInv

(* A line is cut off when its first piece is the last that was written.    *)
LEMMA CutOffIs ==
  ASSUME written \in 0 .. 2 * Len(IpOf)
  PROVE  /\ written + Cardinality(CutOff) \in 0 .. 2 * Len(IpOf)
         /\ written + Cardinality(CutOff) >= written
         /\ CutOff # {} => Cardinality(CutOff) = 1
         /\ \A l \in Lines : 2 * l <= written + Cardinality(CutOff) =>
              2 * l <= written \/ l \in CutOff
<1>1. written \in Nat /\ Len(IpOf) \in Nat /\ written <= 2 * Len(IpOf)
  BY LinesAre
<1>2. CASE written % 2 = 1
  <2>1. CutOff = {written \div 2 + 1} /\ Cardinality(CutOff) = 1
    BY <1>2, FS_Singleton DEF CutOff
  <2>2. written = 2 * (written \div 2) + 1 /\ written \div 2 \in Nat
    BY <1>1, <1>2
  <2>3. written + 1 <= 2 * Len(IpOf)
    BY <1>1, <2>2
  <2>4. ASSUME NEW l \in Lines, 2 * l <= written + 1 PROVE 2 * l <= written \/ l = written \div 2 + 1
    BY <1>1, <2>2, <2>4, LinesAre
  <2>5. \A l \in Lines : 2 * l <= written + 1 => 2 * l <= written \/ l \in CutOff
    BY <2>1, <2>4
  <2>6. written + Cardinality(CutOff) = written + 1
    BY <2>1
  <2>7. written + 1 \in 0 .. 2 * Len(IpOf) /\ written + 1 >= written
    BY <1>1, <2>3
  <2> QED BY <2>1, <2>5, <2>6, <2>7
<1>3. CASE written % 2 # 1
  <2>1. CutOff = {} /\ Cardinality(CutOff) = 0
    BY <1>3, FS_EmptySet DEF CutOff
  <2> QED BY <1>1, <2>1
<1> QED BY <1>2, <1>3

LEMMA PieceIs ==
  ASSUME NEW half \in Nat, NEW rest \in {0, 1}, NEW w, w = 2 * half + rest
  PROVE  /\ rest + 1 = 2 => 2 * (half + 1) = w + 1
         /\ \A l \in Nat : 2 * l = w + 1 => l = half + 1 /\ rest + 1 = 2
OBVIOUS

LEMMA KilledKeeps == ASSUME LogInv, Killed PROVE LogInv'
<1>1. /\ pc # "down" /\ CutOff # {} /\ written' = written + 1 /\ GivenUp' = GivenUp \cup CutOff
      /\ UNCHANGED <<env, log, pc, offset, batch, pending, recorded>>
  BY DEF Killed, GivenUp, reading, table
<1>2. LogTypeOK /\ written \in 0 .. 2 * Len(IpOf) /\ written \in Nat
  BY LinesAre DEF LogInv, LogTypeOK
<1>3. /\ written' \in 0 .. 2 * Len(IpOf) /\ written' >= written
      /\ \A l \in Lines : 2 * l <= written' => 2 * l <= written \/ l \in CutOff
  BY <1>1, <1>2, CutOffIs
<1>4. LogTypeOK'
  BY <1>1, <1>2, <1>3 DEF LogTypeOK
<1>5. InOnePlace' /\ NotAgain' /\ NothingWaits'
  BY <1>1 DEF LogInv, InOnePlace, NotAgain, NothingWaits, Taken, LineEnds
<1>6. WrittenOnce'
  <2>1. LineEnds(log)' = LineEnds(log) /\ LinesOnce(log)' = LinesOnce(log) /\ Taken' = Taken
    BY <1>1 DEF LineEnds, LinesOnce, Taken
  <2>2. \A i \in LineEnds(log) : log[i].line \in Nat
    BY <1>2, EndsAre
  <2>3. \A l \in Taken : l \in Nat
    BY <1>2, TakenAre
  <2> QED BY <1>1, <1>2, <2>1, <2>2, <2>3 DEF LogInv, WrittenOnce
<1>7. EachAccounted'
  BY <1>1, <1>3 DEF LogInv, EachAccounted, Ahead, Taken, DbPath
<1> QED BY <1>4, <1>5, <1>6, <1>7 DEF LogInv

(* Whatever isn't taken is lost with the container.                        *)
LEMMA StopKeeps == ASSUME LogInv, Stop PROVE LogInv'
<1>1. /\ pc' = "down" /\ offset' = 0 /\ pending' = <<>> /\ batch' = <<>>
      /\ written' = written + Cardinality(CutOff)
      /\ GivenUp' = GivenUp \cup CutOff \cup ToSet(pending) \cup ToSet(batch)
                      \cup LinesOf(SubSeq(log, offset + 1, Len(log)))
      /\ UNCHANGED <<env, log, recorded>>
  BY DEF Stop, GivenUp, table
<1>2. LogTypeOK /\ written \in 0 .. 2 * Len(IpOf) /\ written \in Nat
  BY LinesAre DEF LogInv, LogTypeOK
<1>3. /\ written' \in 0 .. 2 * Len(IpOf) /\ written' >= written
      /\ \A l \in Lines : 2 * l <= written' => 2 * l <= written \/ l \in CutOff
  BY <1>1, <1>2, CutOffIs
<1>4. LogTypeOK'
  BY <1>1, <1>2, <1>3, NothingIn, ClientIpsAssumption DEF LogTypeOK, Steps
<1>5. Taken' = ToSet(recorded) /\ InOnePlace' /\ NotAgain'
  BY <1>1, NothingIn DEF LogInv, InOnePlace, NotAgain, Taken
<1>6. WrittenOnce'
  <2>1. LineEnds(log)' = LineEnds(log) /\ LinesOnce(log)' = LinesOnce(log) /\ Taken' \subseteq Taken
    BY <1>1, <1>5 DEF LineEnds, LinesOnce, Taken
  <2>2. \A i \in LineEnds(log) : log[i].line \in Nat
    BY <1>2, EndsAre
  <2>3. \A l \in Taken : l \in Nat
    BY <1>2, TakenAre
  <2> QED BY <1>1, <1>2, <1>3, <2>1, <2>2, <2>3 DEF LogInv, WrittenOnce
<1>7. ASSUME DbPath(env) # None, NEW l \in Lines, 2 * l <= written' PROVE l \in GivenUp' \/ l \in ToSet(recorded)
  <2>1. CASE l \in CutOff
    BY <1>1, <2>1
  <2>2. CASE l \in GivenUp \/ l \in Taken
    BY <1>1, <2>2 DEF Taken
  <2>3. CASE Ahead(l)
    BY <1>1, <1>2, <2>3, AheadIsIn DEF LogInv, WrittenOnce
  <2> QED BY <1>3, <1>7, <2>1, <2>2, <2>3 DEF LogInv, EachAccounted
<1>8. EachAccounted' /\ NothingWaits'
  BY <1>1, <1>5, <1>7, NothingIn DEF EachAccounted, NothingWaits, DbPath
<1> QED BY <1>4, <1>5, <1>6, <1>8 DEF LogInv

LEMMA BootKeeps == ASSUME LogInv, Boot PROVE LogInv'
<1>1. /\ pc = "down" /\ pc' = "booted" /\ log' = <<>>
      /\ UNCHANGED <<env, written, offset, batch, pending, recorded, GivenUp>>
  BY DEF Boot, Leftover, GivenUp, table
<1>2. offset = 0 /\ pending = <<>> /\ batch = <<>> /\ LogTypeOK
  BY <1>1 DEF LogInv, NothingWaits
<1>3. LogTypeOK'
  BY <1>1, <1>2 DEF LogTypeOK, Steps
<1>4. LineEnds(log)' = {} /\ Taken' = Taken /\ Taken = ToSet(recorded)
  BY <1>1, <1>2, NothingIn DEF LineEnds, Taken
<1>5. InOnePlace'
  BY <1>1 DEF LogInv, InOnePlace
<1>6. LinesOnce(log)'
  BY <1>4 DEF LinesOnce
<1>7. WrittenOnce' /\ NotAgain'
  BY <1>1, <1>4, <1>6 DEF LogInv, WrittenOnce, NotAgain
<1>8. EachAccounted' /\ NothingWaits'
  BY <1>1, <1>4 DEF LogInv, EachAccounted, NothingWaits, DbPath
<1> QED BY <1>3, <1>5, <1>7, <1>8 DEF LogInv

(* A piece that is written is after all there were, and a line's last      *)
(* comes once.                                                             *)
LEMMA WriteKeeps == ASSUME LogInv, Write PROVE LogInv'
<1> DEFINE p == Piece(written \div 2 + 1, (written % 2) + 1)
           n == Len(log) + 1
<1>1. /\ pc # "down" /\ written < 2 * Len(IpOf) /\ written' = written + 1
      /\ log' = IF DbPath(env) = None THEN log ELSE Append(log, p)
      /\ UNCHANGED <<env, pc, offset, batch, pending, recorded, GivenUp>>
  BY DEF Write, GivenUp, reading, table
<1>2. LogTypeOK /\ written \in Nat /\ Len(IpOf) \in Nat /\ log \in Seq(Pieces) /\ Len(log) \in Nat
      /\ offset \in 0 .. Len(log)
  BY LinesAre DEF LogInv, LogTypeOK
<1>3. /\ \A i \in LineEnds(log) : log[i].line \in Nat /\ i \in 1 .. Len(log)
      /\ \A l \in Taken : l \in Nat
  BY <1>2, EndsAre, TakenAre
<1>4. Taken' = Taken /\ InOnePlace'
  BY <1>1 DEF LogInv, InOnePlace, Taken
<1>5. CASE DbPath(env) = None
  <2>1. log' = log
    BY <1>1, <1>5
  <2>2. LogTypeOK'
    BY <1>1, <1>2, <2>1 DEF LogTypeOK
  <2>3. LineEnds(log)' = LineEnds(log) /\ LinesOnce(log)' = LinesOnce(log)
    BY <2>1 DEF LineEnds, LinesOnce
  <2>4. WrittenOnce'
    BY <1>1, <1>2, <1>3, <1>4, <2>1, <2>3 DEF LogInv, WrittenOnce
  <2>5. NotAgain'
    BY <1>1, <1>4, <2>1, <2>3 DEF LogInv, NotAgain
  <2>6. EachAccounted' /\ NothingWaits'
    BY <1>1, <1>5 DEF EachAccounted, NothingWaits, DbPath
  <2> QED BY <1>4, <2>2, <2>4, <2>5, <2>6 DEF LogInv
<1>6. CASE DbPath(env) # None
  <2>1. p \in Pieces /\ (p.part = 2 => 2 * p.line = written') /\ p.line \in Nat
        /\ \A l \in Nat : 2 * l = written' => l = p.line /\ p.part = 2
    <3>1. written % 2 \in {0, 1} /\ written \div 2 \in Nat /\ written = 2 * (written \div 2) + (written % 2)
      BY <1>2
    <3>2. p.line = written \div 2 + 1 /\ p.part = (written % 2) + 1
      BY DEF Piece
    <3>3. p \in Pieces
      BY <3>1 DEF Pieces, Piece
    <3>4. /\ (written % 2) + 1 = 2 => 2 * (written \div 2 + 1) = written + 1
          /\ \A l \in Nat : 2 * l = written + 1 => l = written \div 2 + 1 /\ (written % 2) + 1 = 2
      BY <3>1, PieceIs
    <3>5. p.line \in Nat
      BY <3>1, <3>2
    <3> HIDE DEF p
    <3> QED BY <1>1, <3>2, <3>3, <3>4, <3>5
  <2>2. log' = Append(log, p)
    BY <1>1, <1>6
  <2>3. p = Piece(p.line, p.part)
    BY DEF Piece
  <2> HIDE DEF p
  <2>4. /\ log' \in Seq(Pieces) /\ Len(log') = n /\ log'[n] = p
        /\ \A i \in 1 .. Len(log) : log'[i] = log[i]
        /\ DOMAIN log = 1 .. Len(log) /\ DOMAIN log' = 1 .. n
    BY <1>2, <2>1, <2>2
  <2>5. LogTypeOK'
    <3>1. offset' \in 0 .. Len(log') /\ (offset' # 0 => log'[offset'].part = 2)
      BY <1>1, <1>2, <2>4 DEF LogTypeOK
    <3>2. written' \in 0 .. 2 * Len(IpOf)
      BY <1>1, <1>2
    <3> QED BY <1>1, <1>2, <2>4, <3>1, <3>2 DEF LogTypeOK
  <2>6. \A i \in LineEnds(log)' : \/ i \in LineEnds(log) /\ log'[i] = log[i]
                                  \/ i = n /\ log'[i] = p /\ p.part = 2
    <3> SUFFICES ASSUME NEW i \in DOMAIN log', log'[i].part = 2
                 PROVE  \/ i \in LineEnds(log) /\ log'[i] = log[i]
                        \/ i = n /\ log'[i] = p /\ p.part = 2
      BY DEF LineEnds
    <3>1. CASE i = n
      BY <2>4, <3>1
    <3>2. CASE i # n
      <4>1. i \in 1 .. Len(log)
        BY <1>2, <2>4, <3>2
      <4> QED BY <2>4, <4>1 DEF LineEnds
    <3> QED BY <3>1, <3>2
  <2>7. \A i \in LineEnds(log) : 2 * log[i].line <= written /\ (p.part = 2 => log[i].line # p.line)
    BY <1>1, <1>2, <1>3, <2>1 DEF LogInv, WrittenOnce
  <2>8. LinesOnce(log)'
    BY <2>6, <2>7 DEF LogInv, WrittenOnce, LinesOnce
  <2>9. WrittenOnce'
    <3>1. \A i \in LineEnds(log)' : 2 * log'[i].line <= written'
      BY <1>1, <1>2, <1>3, <2>1, <2>6, <2>7
    <3>2. \A l \in Taken' : 2 * l <= written'
      BY <1>1, <1>2, <1>3, <1>4 DEF LogInv, WrittenOnce
    <3> QED BY <2>8, <3>1, <3>2 DEF WrittenOnce
  <2>10. NotAgain'
    <3>1. p.part = 2 => p.line \notin Taken
      BY <1>1, <1>2, <1>3, <2>1 DEF LogInv, WrittenOnce
    <3> QED BY <1>1, <1>4, <2>6, <3>1 DEF LogInv, NotAgain
  <2>11. ASSUME NEW l \in Lines, 2 * l <= written' PROVE l \in GivenUp' \/ l \in Taken' \/ Ahead(l)'
    <3>1. CASE 2 * l <= written
      <4>1. ASSUME Ahead(l) PROVE Ahead(l)'
        <5>1. PICK i \in offset + 1 .. Len(log) : log[i] = Piece(l, 2)
          BY <4>1 DEF Ahead
        <5>2. i \in offset' + 1 .. Len(log') /\ log'[i] = Piece(l, 2)
          BY <1>1, <1>2, <2>4, <5>1
        <5> QED BY <5>2 DEF Ahead
      <4> QED BY <1>1, <1>4, <1>6, <3>1, <4>1 DEF LogInv, EachAccounted
    <3>2. CASE ~(2 * l <= written)
      <4>1. 2 * l = written' /\ l \in Nat
        BY <1>1, <1>2, <2>11, <3>2, LinesAre
      <4>2. p = Piece(l, 2) /\ n \in offset' + 1 .. Len(log')
        BY <1>1, <1>2, <2>1, <2>3, <2>4, <4>1
      <4> QED BY <2>4, <4>2 DEF Ahead
    <3> QED BY <3>1, <3>2
  <2> QED BY <1>1, <1>4, <2>5, <2>9, <2>10, <2>11 DEF LogInv, EachAccounted, NothingWaits, DbPath
<1> QED BY <1>5, <1>6

(* What is whole in the file is whole in what is read of it, since that    *)
(* begins with a line.                                                     *)
LEMMA WholeIsWhole ==
  ASSUME offset \in Nat, offset # 0 => log[offset].part = 2, NEW to \in Nat, NEW pieces,
         \A k \in 1 .. to - offset : pieces[k] = log[offset + k],
         NEW i \in offset + 1 .. to, Whole(log, i)
  PROVE  Whole(pieces, i - offset)
<1> DEFINE k == i - offset
<1>1. /\ log[i].line \notin Separated
      /\ i > 1 /\ log[i - 1] = Piece(log[i].line, 1)
      /\ i = 2 \/ log[i - 2].part = 2
  BY DEF Whole
<1>2. k \in 1 .. to - offset /\ offset + k = i
  OBVIOUS
<1>3. k # 1
  <2> SUFFICES ASSUME k = 1 PROVE FALSE
    OBVIOUS
  <2>1. offset # 0 /\ i - 1 = offset
    BY <1>1, <1>2
  <2> QED BY <1>1, <2>1 DEF Piece
<1>4. pieces[k] = log[i]
  BY <1>2
<1>5. k > 1 /\ pieces[k - 1] = log[i - 1]
  <2>1. k - 1 \in 1 .. to - offset /\ offset + (k - 1) = i - 1
    BY <1>2, <1>3
  <2> QED BY <1>2, <1>3, <2>1
<1>6. k = 2 \/ pieces[k - 2].part = 2
  <2> SUFFICES ASSUME k # 2 PROVE pieces[k - 2].part = 2
    OBVIOUS
  <2>1. k - 2 \in 1 .. to - offset /\ offset + (k - 2) = i - 2 /\ i # 2
    BY <1>2, <1>5
  <2> QED BY <1>1, <2>1
<1> HIDE DEF k
<1> QED BY <1>1, <1>4, <1>5, <1>6 DEF Whole, k

(* What has been read has every line that was ahead, or gave it up.        *)
LEMMA ReadIs ==
  ASSUME LogInv, ReadLog
  PROVE  /\ pc = "collect" /\ batch = <<>>
         /\ offset' \in offset .. Len(log) /\ (offset' # 0 => log[offset'].part = 2)
         /\ \A i \in LineEnds(log) : i <= offset'
         /\ UNCHANGED <<env, written, log, recorded>>
         /\ \E requests \in Seq(Nat) :
              /\ IsInjective(requests) /\ ToSet(requests) \cap Taken = {}
              /\ \A l \in ToSet(requests) : 2 * l <= written
              /\ \A l \in ToSet(requests) : \E i \in LineEnds(log) : log[i].line = l
              /\ \A l \in Lines : Ahead(l) => l \in ToSet(requests) \/ l \in GivenUp'
              /\ GivenUp \subseteq GivenUp'
              /\ \/ /\ pc' = "emptying" /\ batch' = requests /\ pending' = pending
                 \/ /\ pc' = "recording" /\ batch' = batch /\ pending' = Extended(requests)
                    /\ Dropped(requests) \subseteq GivenUp'
<1> DEFINE pieces == SubSeq(log, ReadFrom + 1, ReadTo)
           requests == Requests(pieces)
           mangled == {l \in LinesOf(pieces) : l \in Mangled(log)}
<1>1. LogTypeOK /\ LinesOnce(log) /\ NotAgain /\ WrittenOnce
  BY DEF LogInv, WrittenOnce
<1>2. /\ log \in Seq(Pieces) /\ Len(log) \in Nat /\ offset \in Nat /\ offset <= Len(log)
  BY <1>1 DEF LogTypeOK
<1>3. pc = "collect" /\ batch = <<>>
  BY <1>1 DEF ReadLog, LogTypeOK
<1>4. ReadFrom = offset
  BY <1>2 DEF ReadFrom
<1>5. ReadTo \in LineEnds(log) \cup {offset} /\ \A i \in LineEnds(log) \cup {offset} : ReadTo >= i
  <2>1. LineEnds(log) \cup {offset} \in SUBSET (0 .. Len(log))
    BY <1>1, <1>2, EndsAre
  <2> QED BY <1>2, <1>4, <2>1, MaxExists DEF ReadTo
<1>6. ReadTo \in Nat /\ offset <= ReadTo /\ ReadTo <= Len(log)
      /\ (ReadTo # 0 => log[ReadTo].part = 2)
  <2>1. ReadTo >= offset
    BY <1>5
  <2>2. CASE ReadTo = offset
    BY <1>1, <1>2, <2>2 DEF LogTypeOK
  <2>3. CASE ReadTo \in LineEnds(log)
    BY <1>1, <1>2, <2>1, <2>3, EndsAre
  <2> QED BY <1>5, <2>2, <2>3
<1>7. /\ offset' = ReadTo /\ UNCHANGED <<env, written, log, recorded>>
      /\ forgotten' = forgotten \cup (mangled \cap Separated)
      /\ \/ /\ pc' = "emptying" /\ batch' = requests /\ pending' = pending
            /\ lost' = lost \cup (mangled \ Separated)
         \/ /\ pc' = "recording" /\ pending' = Extended(requests) /\ batch' = batch
            /\ lost' = lost \cup (mangled \ Separated) \cup Dropped(requests)
  BY DEF ReadLog, envoy, table
<1> HIDE DEF requests, mangled
<1>14. /\ GivenUp \subseteq GivenUp' /\ mangled \subseteq GivenUp'
       /\ \/ /\ pc' = "emptying" /\ batch' = requests /\ pending' = pending
          \/ /\ pc' = "recording" /\ pending' = Extended(requests) /\ batch' = batch
             /\ Dropped(requests) \subseteq GivenUp'
  BY <1>7 DEF GivenUp
<1>8. \A i \in LineEnds(log) : i \in Int /\ i <= ReadTo
  <2> SUFFICES ASSUME NEW i \in LineEnds(log) PROVE i \in Int /\ i <= ReadTo
    OBVIOUS
  <2>1. i \in Int /\ ReadTo >= i
    BY <1>1, <1>5, EndsAre
  <2> QED BY <1>6, <2>1
<1>9. /\ pieces \in Seq(Pieces) /\ LinesOnce(pieces)
      /\ \A i \in 1 .. ReadTo - offset : pieces[i] = log[offset + i]
      /\ DOMAIN pieces = 1 .. ReadTo - offset
      /\ \A i \in LineEnds(pieces) : offset + i \in LineEnds(log) /\ pieces[i] = log[offset + i]
      /\ \A i \in LineEnds(log) : offset < i /\ i <= ReadTo =>
           i - offset \in LineEnds(pieces) /\ pieces[i - offset] = log[i]
  <2>1. ReadTo \in offset .. Len(log)
    BY <1>2, <1>6
  <2>2. pieces = SubSeq(log, offset + 1, ReadTo)
    BY <1>4
  <2> HIDE DEF pieces
  <2>3. PICK to \in offset .. Len(log) : to = ReadTo
    BY <2>1
  <2>4. pieces = SubSeq(log, offset + 1, to)
    BY <2>2, <2>3
  <2>5. pieces \in Seq(Pieces) /\ LinesOnce(pieces) /\ DOMAIN pieces = 1 .. to - offset
    BY <1>1, <2>4, WindowIs
  <2>6. \A i \in 1 .. to - offset : pieces[i] = log[offset + i]
    BY <1>1, <2>4, WindowIs
  <2>7. \A i \in LineEnds(pieces) : offset + i \in LineEnds(log) /\ pieces[i] = log[offset + i]
    <3> SUFFICES ASSUME NEW i \in LineEnds(pieces)
                 PROVE  offset + i \in LineEnds(log) /\ pieces[i] = log[offset + i]
      OBVIOUS
    <3>1. i \in 1 .. to - offset /\ pieces[i].part = 2
      BY <2>5 DEF LineEnds
    <3>2. pieces[i] = log[offset + i]
      BY <2>6, <3>1
    <3>3. offset + i \in 1 .. Len(log)
      BY <1>2, <3>1
    <3>4. DOMAIN log = 1 .. Len(log)
      BY <1>2, LenProperties
    <3> QED BY <3>1, <3>2, <3>3, <3>4 DEF LineEnds
  <2>8. \A i \in LineEnds(log) : offset < i /\ i <= to =>
          i - offset \in LineEnds(pieces) /\ pieces[i - offset] = log[i]
    <3> SUFFICES ASSUME NEW i \in LineEnds(log), offset < i, i <= to
                 PROVE  i - offset \in LineEnds(pieces) /\ pieces[i - offset] = log[i]
      OBVIOUS
    <3>1. i \in Int /\ to \in Int /\ offset \in Int /\ log[i].part = 2
      BY <1>2, LenProperties DEF LineEnds
    <3>2. i - offset \in 1 .. to - offset /\ offset + (i - offset) = i
      BY <3>1
    <3>3. pieces[i - offset] = log[i]
      BY <2>6, <3>2
    <3> QED BY <2>5, <3>1, <3>2, <3>3 DEF LineEnds
  <2> QED BY <2>3, <2>5, <2>6, <2>7, <2>8
<1> HIDE DEF pieces
<1>10. /\ requests \in Seq(Nat) /\ IsInjective(requests)
       /\ ToSet(requests) = {pieces[i].line : i \in WholeEnds(pieces)}
  BY <1>9, RequestsAre DEF requests
<1>11. ASSUME NEW l \in ToSet(requests)
       PROVE  l \notin Taken /\ 2 * l <= written /\ \E i \in LineEnds(log) : log[i].line = l
  <2>1. PICK i \in LineEnds(pieces) : l = pieces[i].line
    BY <1>10 DEF WholeEnds
  <2>2. i \in Int /\ i >= 1
    BY <1>2, <1>6, <1>9 DEF LineEnds
  <2>3. offset + i \in LineEnds(log) /\ log[offset + i].line = l /\ offset + i > offset
    BY <1>2, <1>9, <2>1, <2>2
  <2> QED BY <1>1, <1>3, <2>3 DEF NotAgain, WrittenOnce
<1>12. ASSUME NEW l \in Lines, Ahead(l) PROVE l \in ToSet(requests) \/ l \in GivenUp'
  <2>1. PICK i \in offset + 1 .. Len(log) : log[i] = Piece(l, 2)
    BY <1>12 DEF Ahead
  <2>2. i \in LineEnds(log) /\ offset < i /\ log[i].line = l /\ i \in 1 .. Len(log)
    <3>1. i \in DOMAIN log /\ i \in 1 .. Len(log) /\ offset < i
      BY <1>2, <2>1
    <3> QED BY <2>1, <3>1 DEF LineEnds, Piece
  <2>3. i - offset \in LineEnds(pieces) /\ pieces[i - offset] = log[i] /\ i - offset \in 1 .. ReadTo - offset
    <3>1. i <= ReadTo
      BY <1>8, <2>2
    <3> QED BY <1>2, <1>6, <1>9, <2>2, <3>1
  <2>4. CASE Whole(pieces, i - offset)
    BY <1>10, <2>2, <2>3, <2>4 DEF WholeEnds
  <2>5. CASE ~Whole(pieces, i - offset)
    <3>1. ~Whole(log, i)
      <4>1. offset # 0 => log[offset].part = 2
        BY <1>1 DEF LogTypeOK
      <4>2. i \in offset + 1 .. ReadTo
        BY <1>2, <1>6, <1>8, <2>2
      <4> QED BY <1>2, <1>6, <1>9, <2>5, <4>1, <4>2, WholeIsWhole
    <3>2. l \in Mangled(log)
      BY <2>2, <3>1 DEF Mangled
    <3>3. l \in LinesOf(pieces)
      BY <1>9, <2>2, <2>3 DEF LinesOf
    <3> QED BY <1>14, <3>2, <3>3 DEF mangled
  <2> QED BY <2>4, <2>5
<1>13. /\ offset' \in offset .. Len(log) /\ (offset' # 0 => log[offset'].part = 2)
       /\ \A i \in LineEnds(log) : i <= offset'
  BY <1>2, <1>6, <1>7, <1>8
<1> QED BY <1>3, <1>7, <1>10, <1>11, <1>12, <1>13, <1>14

LEMMA ReadKeeps == ASSUME LogInv, ReadLog PROVE LogInv'
<1>1. LogTypeOK /\ InOnePlace /\ WrittenOnce /\ EachAccounted
  BY DEF LogInv
<1>2. /\ pc = "collect" /\ batch = <<>>
      /\ offset' \in offset .. Len(log) /\ (offset' # 0 => log[offset'].part = 2)
      /\ \A i \in LineEnds(log) : i <= offset'
      /\ UNCHANGED <<env, written, log, recorded>>
  BY ReadIs
<1>3. PICK requests \in Seq(Nat) :
        /\ IsInjective(requests) /\ ToSet(requests) \cap Taken = {}
        /\ \A l \in ToSet(requests) : 2 * l <= written
        /\ \A l \in Lines : Ahead(l) => l \in ToSet(requests) \/ l \in GivenUp'
        /\ GivenUp \subseteq GivenUp'
        /\ \/ /\ pc' = "emptying" /\ batch' = requests /\ pending' = pending
           \/ /\ pc' = "recording" /\ batch' = batch /\ pending' = Extended(requests)
              /\ Dropped(requests) \subseteq GivenUp'
  BY ReadIs
<1>4. /\ offset \in Nat /\ Len(log) \in Nat /\ offset' \in 0 .. Len(log)
      /\ LineEnds(log)' = LineEnds(log) /\ LinesOnce(log)' = LinesOnce(log)
  <2>1. offset \in Nat /\ Len(log) \in Nat
    BY <1>1 DEF LogTypeOK
  <2> QED BY <1>2, <2>1 DEF LineEnds, LinesOnce
<1>5. /\ recorded \in Seq(Nat) /\ pending \in Seq(Nat) /\ IsInjective(pending)
      /\ ToSet(pending) \cap ToSet(requests) = {}
      /\ Taken = ToSet(recorded) \cup ToSet(pending)
  BY <1>1, <1>2, <1>3, NothingIn DEF LogTypeOK, InOnePlace, Taken
<1>6. /\ Taken' \subseteq Taken \cup ToSet(requests)
      /\ Taken \cup ToSet(requests) \subseteq Taken' \cup GivenUp'
      /\ pending' \in Seq(Nat) /\ batch' \in Seq(Nat) /\ Len(pending') <= MaxPending
      /\ pc' \in {"emptying", "recording"} /\ (batch' # <<>> => pc' = "emptying")
      /\ InOnePlace'
  <2>1. CASE pc' = "emptying" /\ batch' = requests /\ pending' = pending
    BY <1>1, <1>2, <1>3, <1>5, <2>1 DEF LogTypeOK, InOnePlace, Taken
  <2>2. CASE /\ pc' = "recording" /\ batch' = batch /\ pending' = Extended(requests)
             /\ Dropped(requests) \subseteq GivenUp'
    <3>1. /\ Extended(requests) \in Seq(Nat) /\ IsInjective(Extended(requests))
          /\ Len(Extended(requests)) <= MaxPending
          /\ ToSet(Extended(requests)) \subseteq ToSet(pending) \cup ToSet(requests)
          /\ ToSet(pending) \cup ToSet(requests) = ToSet(Extended(requests)) \cup Dropped(requests)
      BY <1>3, <1>5, ExtendedIs
    <3>2. Taken' = ToSet(recorded) \cup ToSet(Extended(requests)) \cup ToSet(batch)
      BY <1>2, <2>2 DEF Taken
    <3>3. InOnePlace'
      BY <1>1, <1>2, <1>3, <1>5, <2>2, <3>1, NothingIn DEF InOnePlace
    <3> QED BY <1>2, <1>5, <2>2, <3>1, <3>2, <3>3, NothingIn
  <2> QED BY <1>3, <2>1, <2>2
<1>7. LogTypeOK'
  BY <1>1, <1>2, <1>4, <1>6 DEF LogTypeOK, Steps
<1>8. WrittenOnce'
  BY <1>1, <1>2, <1>3, <1>4, <1>6 DEF WrittenOnce
<1>9. NotAgain'
  <2>1. \A i \in LineEnds(log) : i \in Int /\ i <= offset'
    BY <1>1, <1>2, EndsAre
  <2>2. offset' \in Int
    BY <1>4
  <2> QED BY <1>2, <1>4, <2>1, <2>2 DEF NotAgain
<1>10. EachAccounted' /\ NothingWaits'
  BY <1>1, <1>2, <1>3, <1>6 DEF EachAccounted, NothingWaits, DbPath
<1> QED BY <1>6, <1>7, <1>8, <1>9, <1>10 DEF LogInv

(* What is ahead when the file is emptied is lost.                         *)
LEMMA EmptyKeeps == ASSUME LogInv, EmptyLog PROVE LogInv'
<1>1. LogTypeOK /\ InOnePlace /\ WrittenOnce /\ EachAccounted
  BY DEF LogInv
<1>2. /\ log' = <<>> /\ offset' = 0 /\ pending' = Extended(batch) /\ batch' = <<>> /\ pc' = "recording"
      /\ GivenUp' = GivenUp \cup Dropped(batch) \cup LinesOf(SubSeq(log, offset + 1, Len(log)))
      /\ UNCHANGED <<env, written, recorded>>
  BY DEF EmptyLog, GivenUp, table
<1>3. /\ Extended(batch) \in Seq(Nat) /\ IsInjective(Extended(batch))
      /\ Len(Extended(batch)) <= MaxPending
      /\ ToSet(Extended(batch)) \subseteq ToSet(pending) \cup ToSet(batch)
      /\ ToSet(pending) \cup ToSet(batch) = ToSet(Extended(batch)) \cup Dropped(batch)
  BY <1>1, ExtendedIs DEF LogTypeOK, InOnePlace
<1>4. LogTypeOK'
  BY <1>1, <1>2, <1>3, NothingIn DEF LogTypeOK, Steps
<1>5. InOnePlace'
  BY <1>1, <1>2, <1>3, NothingIn DEF InOnePlace
<1>6. Taken' \subseteq Taken /\ Taken \subseteq Taken' \cup GivenUp'
  BY <1>2, <1>3, NothingIn DEF Taken
<1>7. LineEnds(log)' = {}
  BY <1>2 DEF LineEnds
<1>8. WrittenOnce' /\ NotAgain'
  BY <1>1, <1>2, <1>6, <1>7 DEF WrittenOnce, LinesOnce, NotAgain
<1>9. \A l \in Lines : Ahead(l) => l \in GivenUp'
  BY <1>1, <1>2, AheadIsIn DEF WrittenOnce
<1>10. EachAccounted' /\ NothingWaits'
  BY <1>1, <1>2, <1>6, <1>9 DEF EachAccounted, NothingWaits, DbPath
<1> QED BY <1>4, <1>5, <1>8, <1>10 DEF LogInv

LEMMA CannotEmptyKeeps == ASSUME LogInv, CannotEmptyLog PROVE LogInv'
<1>1. LogTypeOK /\ InOnePlace /\ WrittenOnce /\ EachAccounted /\ NotAgain
  BY DEF LogInv
<1>2. /\ pc = "emptying" /\ batch' = <<>> /\ GivenUp' = GivenUp \cup ToSet(batch) /\ pc' = "collect"
      /\ UNCHANGED <<env, written, log, offset, pending, recorded>>
  BY DEF CannotEmptyLog, GivenUp, envoy, table
<1>3. LogTypeOK'
  BY <1>1, <1>2, NothingIn DEF LogTypeOK, Steps
<1>4. InOnePlace'
  BY <1>1, <1>2, NothingIn DEF InOnePlace
<1>5. Taken' \subseteq Taken /\ Taken \subseteq Taken' \cup GivenUp' /\ GivenUp \subseteq GivenUp'
  BY <1>2, NothingIn DEF Taken
<1>6. LineEnds(log)' = LineEnds(log) /\ LinesOnce(log)' = LinesOnce(log)
  BY <1>2 DEF LineEnds, LinesOnce
<1>7. WrittenOnce' /\ NotAgain'
  BY <1>1, <1>2, <1>5, <1>6 DEF WrittenOnce, NotAgain
<1>8. EachAccounted' /\ NothingWaits'
  BY <1>1, <1>2, <1>5 DEF EachAccounted, NothingWaits, Ahead, DbPath
<1> QED BY <1>3, <1>4, <1>7, <1>8 DEF LogInv

LEMMA RecordKeeps == ASSUME LogInv, Record PROVE LogInv'
<1>1. LogTypeOK /\ InOnePlace /\ WrittenOnce /\ EachAccounted /\ NotAgain
  BY DEF LogInv
<1>2. /\ pc = "recording" /\ pending' = <<>> /\ pc' = "collect" /\ recorded' = recorded \o pending
      /\ UNCHANGED <<env, written, log, offset, batch, GivenUp>>
  BY DEF Record, AddUp, GivenUp, envoy
<1>3. /\ recorded' \in Seq(Nat) /\ IsInjective(recorded')
      /\ ToSet(recorded') = ToSet(recorded) \cup ToSet(pending)
  BY <1>1, <1>2, JoinedIs DEF LogTypeOK, InOnePlace
<1>4. LogTypeOK'
  BY <1>1, <1>2, <1>3, NothingIn, ClientIpsAssumption DEF LogTypeOK, Steps
<1>5. batch = <<>>
  BY <1>1, <1>2 DEF LogTypeOK
<1>6. InOnePlace'
  BY <1>1, <1>2, <1>3, <1>5, NothingIn DEF InOnePlace
<1>7. Taken' = Taken
  BY <1>2, <1>3, <1>5, NothingIn DEF Taken
<1>8. LineEnds(log)' = LineEnds(log) /\ LinesOnce(log)' = LinesOnce(log)
  BY <1>2 DEF LineEnds, LinesOnce
<1>9. WrittenOnce' /\ NotAgain'
  BY <1>1, <1>2, <1>7, <1>8 DEF WrittenOnce, NotAgain
<1>10. EachAccounted' /\ NothingWaits'
  BY <1>1, <1>2, <1>7 DEF EachAccounted, NothingWaits, Ahead, DbPath
<1> QED BY <1>4, <1>6, <1>9, <1>10 DEF LogInv

LEMMA LogKept == LogInv /\ [Next]_vars => LogInv'
<1> SUFFICES ASSUME LogInv, [Next]_vars PROVE LogInv'
  OBVIOUS
<1>1. pc \in Steps
  BY DEF LogInv, LogTypeOK
<1>2. CASE Write \/ Killed \/ Stop \/ Boot
  BY <1>2, WriteKeeps, KilledKeeps, StopKeeps, BootKeeps
<1>3. CASE ReadLog \/ EmptyLog \/ CannotEmptyLog \/ Record
  BY <1>3, ReadKeeps, EmptyKeeps, CannotEmptyKeeps, RecordKeeps
<1>4. CASE CannotRecord
  BY <1>1, <1>4, QuietStep DEF CannotRecord, envoy, table, Steps
<1>5. CASE Start
  <2>1. /\ pc = "booted" /\ pc' \in {"refresh", "collect"}
        /\ UNCHANGED <<env, written, log, offset, batch, pending, recorded, lost, forgotten>>
    BY <1>5 DEF Start, envoy, table
  <2> QED BY <1>1, <2>1, QuietStep DEF Steps
<1>6. CASE FillIn
  <2>1. /\ pc' = IF pc = "refresh" THEN "collect" ELSE pc
        /\ UNCHANGED <<env, written, log, offset, batch, pending, recorded, lost, forgotten>>
    BY <1>6 DEF FillIn, envoy
  <2> QED BY <1>1, <2>1, QuietStep DEF Steps
<1>7. CASE \/ Begin \/ UpdateMmdb \/ DeleteOlder \/ UpdateRanges \/ WriteStatus \/ World
           \/ UNCHANGED vars
  <2>1. UNCHANGED <<env, written, log, pc, offset, batch, pending, recorded, lost, forgotten>>
    BY <1>7 DEF Begin, UpdateMmdb, DeleteOlder, UpdateRanges, WriteStatus, World, ClockSet, Publish,
      Offer, LoseRanges, vars, envoy, reading, table
  <2> QED BY <1>1, <2>1, QuietStep
<1> QED BY <1>2, <1>3, <1>4, <1>5, <1>6, <1>7 DEF Next, Collect, Update

(* A line Envoy has finished is recorded, or waits in the queue or in the  *)
(* file after the offset, unless it was given up for a reason the code     *)
(* accepts or was forgotten, when the file couldn't be emptied or the line *)
(* was split; and none is counted twice, however reads, failures, retries  *)
(* and restarts are ordered.                                               *)
THEOREM LinesStayAccounted == Spec => []EveryLineAccounted
<1>1. LogInv => EveryLineAccounted
  <2> SUFFICES ASSUME LogInv PROVE EveryLineAccounted
    OBVIOUS
  <2>1. \A l \in Finished : Accounted(l) \/ l \in forgotten
    BY DEF LogInv, EachAccounted, GivenUp, Taken, Ahead, Finished, Accounted, Waits
  <2> QED BY <2>1 DEF LogInv, InOnePlace, EveryLineAccounted
<1> QED BY <1>1, LogStarts, LogKept, PTL DEF Spec

(* The two ways a line is forgotten are all there are: where emptying the  *)
(* file never fails and no line is split, requests are retried as the      *)
(* collector's comment has it.                                             *)
THEOREM OnlyThoseAreForgotten ==
  ASSUME Separated = {}
  PROVE  Spec /\ [][~CannotEmptyLog]_vars => []RequestsAreRetried
<1>1. Init => forgotten = {}
  BY DEF Init
<1>2. forgotten = {} /\ [Next]_vars /\ [~CannotEmptyLog]_vars => (forgotten = {})'
  <2> SUFFICES ASSUME forgotten = {}, [Next]_vars, [~CannotEmptyLog]_vars PROVE forgotten' = {}
    OBVIOUS
  <2>1. CASE ReadLog
    BY <2>1 DEF ReadLog
  <2>2. CASE Write \/ Killed \/ EmptyLog \/ Record \/ CannotRecord \/ Boot \/ Start \/ Stop
    BY <2>2 DEF Write, Killed, EmptyLog, Record, CannotRecord, Boot, Start, Stop
  <2>3. CASE Update
    BY <2>3 DEF Update, Begin, UpdateMmdb, DeleteOlder, UpdateRanges, WriteStatus, FillIn
  <2>4. CASE World \/ UNCHANGED vars
    BY <2>4 DEF World, ClockSet, Publish, Offer, LoseRanges, vars
  <2>5. CASE CannotEmptyLog
    BY <2>5 DEF vars
  <2> QED BY <2>1, <2>2, <2>3, <2>4, <2>5 DEF Next, Collect
<1>3. forgotten = {} /\ EveryLineAccounted => RequestsAreRetried
  BY DEF EveryLineAccounted, RequestsAreRetried
<1> QED BY <1>1, <1>2, <1>3, LinesStayAccounted, PTL DEF Spec

(* An update of the directory is at one of its steps, and a collector that *)
(* starts collects only after its own.                                     *)
UpdateInv ==
  /\ env \in Environments
  /\ update \in {"none", "mmdb", "older", "ranges", "status", "fill"}
  /\ pc = "refresh" => update # "none"

LEMMA UpdateKept == UpdateInv /\ [Next]_vars => UpdateInv'
<1> SUFFICES ASSUME UpdateInv, [Next]_vars PROVE UpdateInv'
  OBVIOUS
<1>1. CASE Write \/ Killed \/ Collect \/ Boot \/ Start \/ Stop
  BY <1>1 DEF Write, Killed, Collect, ReadLog, EmptyLog, CannotEmptyLog, Record, CannotRecord,
    Boot, Start, Stop, UpdateInv, updating, reading
<1>2. CASE Update
  BY <1>2 DEF Update, Begin, UpdateMmdb, DeleteOlder, UpdateRanges, WriteStatus, FillIn, UpdateInv, reading
<1>3. CASE World \/ UNCHANGED vars
  BY <1>3 DEF World, ClockSet, Publish, Offer, LoseRanges, vars, UpdateInv, updating, reading
<1> QED BY <1>1, <1>2, <1>3 DEF Next

(* Every value has its type, and the collector never reads from within a   *)
(* line of the file it has read before.                                    *)
THEOREM TypeCorrect == Spec => []TypeOK
<1>1. LogInv /\ GeoipInv /\ UpdateInv => TypeOK
  <2> SUFFICES ASSUME LogInv, GeoipInv, UpdateInv PROVE TypeOK
    OBVIOUS
  <2>1. offset \in {0} \cup LineEnds(log)
    <3> SUFFICES ASSUME offset # 0 PROVE offset \in LineEnds(log)
      OBVIOUS
    <3>1. log \in Seq(Pieces) /\ offset \in 1 .. Len(log) /\ log[offset].part = 2
      BY DEF LogInv, LogTypeOK
    <3>2. offset \in DOMAIN log
      BY <3>1, LenProperties
    <3> QED BY <3>1, <3>2 DEF LineEnds
  <2> QED BY <2>1 DEF LogInv, LogTypeOK, Steps, GeoipInv, UpdateInv, TypeOK
<1>2. Init => UpdateInv
  BY DEF Init, UpdateInv
<1> QED BY <1>1, <1>2, LogStarts, LogKept, GeoipStarts, GeoipKept, UpdateKept, PTL DEF Spec

------------------------------------------------------------------------------
(* The rows.  Of times: the earliest and the latest of what two sets have. *)

LEMMA EarliestIs ==
  ASSUME NEW T \in SUBSET Nat
  PROVE  /\ T = {} => Earliest(T) = None
         /\ T # {} => /\ Earliest(T) = Min(T)
                      /\ Earliest(T) \in T /\ \A t \in T : Earliest(T) <= t
<1>1. T \ {None} = T
  BY ClientIpsAssumption
<1>2. CASE T = {}
  BY <1>1, <1>2 DEF Earliest
<1>3. CASE T # {}
  <2>1. Earliest(T) = Min(T)
    BY <1>1, <1>3 DEF Earliest
  <2> QED BY <1>3, <2>1, MinExists
<1> QED BY <1>2, <1>3

LEMMA LatestIs ==
  ASSUME NEW n \in Nat, NEW T \in SUBSET (0 .. n)
  PROVE  /\ T = {} => Latest(T) = None
         /\ T # {} => /\ Latest(T) = Max(T)
                      /\ Latest(T) \in T /\ \A t \in T : Latest(T) >= t
<1>1. T \ {None} = T
  <2>1. None \notin 0 .. n
    BY ClientIpsAssumption
  <2> QED BY <2>1
<1>2. CASE T = {}
  BY <1>1, <1>2 DEF Latest
<1>3. CASE T # {}
  <2>1. Latest(T) = Max(T)
    BY <1>1, <1>3 DEF Latest
  <2> QED BY <1>3, <2>1, MaxExists
<1> QED BY <1>2, <1>3

LEMMA OneLeast ==
  ASSUME NEW T \in SUBSET Nat, NEW a \in T, NEW b \in T,
         \A t \in T : a <= t, \A t \in T : b <= t
  PROVE  a = b
<1>1. a <= b /\ b <= a /\ a \in Nat /\ b \in Nat
  OBVIOUS
<1> QED BY <1>1

LEMMA EarliestOfBoth ==
  ASSUME NEW A \in SUBSET Nat, NEW B \in SUBSET Nat
  PROVE  Earliest({Earliest(A), Earliest(B)}) = Earliest(A \cup B)
<1>1. CASE A = {} /\ B = {}
  <2>1. {None, None} \ {None} = {} /\ {} \cup {} = {}
    OBVIOUS
  <2> QED BY <1>1, <2>1, EarliestIs DEF Earliest
<1>2. CASE A = {} /\ B # {}
  <2>1. Earliest(A) = None /\ Earliest(B) \in B
    BY <1>2, EarliestIs
  <2>2. {None, Earliest(B)} \ {None} = {Earliest(B)} /\ A \cup B = B
    BY <1>2, <2>1, ClientIpsAssumption
  <2>3. Earliest({None, Earliest(B)}) = Min({Earliest(B)})
    BY <2>2 DEF Earliest
  <2>4. Min({Earliest(B)}) = Earliest(B)
    BY <2>1, MinExists
  <2> QED BY <2>1, <2>2, <2>3, <2>4
<1>3. CASE A # {} /\ B = {}
  <2>1. Earliest(B) = None /\ Earliest(A) \in A
    BY <1>3, EarliestIs
  <2>2. {Earliest(A), None} \ {None} = {Earliest(A)} /\ A \cup B = A
    BY <1>3, <2>1, ClientIpsAssumption
  <2>3. Earliest({Earliest(A), None}) = Min({Earliest(A)})
    BY <2>2 DEF Earliest
  <2>4. Min({Earliest(A)}) = Earliest(A)
    BY <2>1, MinExists
  <2> QED BY <2>1, <2>2, <2>3, <2>4
<1>4. CASE A # {} /\ B # {}
  <2> DEFINE a == Earliest(A)
             b == Earliest(B)
             e == Earliest({a, b})
  <2>1. a \in A /\ (\A t \in A : a <= t) /\ b \in B /\ (\A t \in B : b <= t)
    BY <1>4, EarliestIs
  <2>2. {a, b} \in SUBSET Nat /\ {a, b} # {}
    BY <2>1
  <2> HIDE DEF a, b
  <2>3. e \in {a, b} /\ e <= a /\ e <= b
    BY <2>2, EarliestIs
  <2>4. e \in A \cup B /\ \A t \in A \cup B : e <= t
    <3>1. e \in Nat /\ a \in Nat /\ b \in Nat /\ e \in A \cup B
      BY <2>1, <2>3
    <3> HIDE DEF e
    <3>2. \A t \in A : e <= t
      BY <2>1, <2>3, <3>1
    <3>3. \A t \in B : e <= t
      BY <2>1, <2>3, <3>1
    <3> QED BY <3>1, <3>2, <3>3
  <2>5. /\ Earliest(A \cup B) \in A \cup B /\ \A t \in A \cup B : Earliest(A \cup B) <= t
        /\ A \cup B \in SUBSET Nat
    <3>1. A \cup B \in SUBSET Nat /\ A \cup B # {}
      BY <1>4
    <3> QED BY <3>1, EarliestIs
  <2> HIDE DEF e
  <2>6. e = Earliest(A \cup B)
    BY <2>4, <2>5, OneLeast
  <2> QED BY <2>6 DEF e, a, b
<1> QED BY <1>1, <1>2, <1>3, <1>4

LEMMA LatestOfBoth ==
  ASSUME NEW n \in Nat, NEW A \in SUBSET (0 .. n), NEW B \in SUBSET (0 .. n)
  PROVE  Latest({Latest(A), Latest(B)}) = Latest(A \cup B)
<1>0. None \notin 0 .. n
  BY ClientIpsAssumption
<1>1. CASE A = {} /\ B = {}
  <2>1. {None, None} \ {None} = {} /\ {} \cup {} = {}
    OBVIOUS
  <2> QED BY <1>1, <2>1, LatestIs DEF Latest
<1>2. CASE A = {} /\ B # {}
  <2>1. Latest(A) = None /\ Latest(B) \in B
    BY <1>2, LatestIs
  <2>2. {None, Latest(B)} \ {None} = {Latest(B)} /\ A \cup B = B
    BY <1>0, <1>2, <2>1
  <2>3. Latest({None, Latest(B)}) = Max({Latest(B)})
    BY <2>2 DEF Latest
  <2>4. Max({Latest(B)}) = Latest(B)
    BY <2>1, MaxExists
  <2> QED BY <2>1, <2>2, <2>3, <2>4
<1>3. CASE A # {} /\ B = {}
  <2>1. Latest(B) = None /\ Latest(A) \in A
    BY <1>3, LatestIs
  <2>2. {Latest(A), None} \ {None} = {Latest(A)} /\ A \cup B = A
    BY <1>0, <1>3, <2>1
  <2>3. Latest({Latest(A), None}) = Max({Latest(A)})
    BY <2>2 DEF Latest
  <2>4. Max({Latest(A)}) = Latest(A)
    BY <2>1, MaxExists
  <2> QED BY <2>1, <2>2, <2>3, <2>4
<1>4. CASE A # {} /\ B # {}
  <2> DEFINE a == Latest(A)
             b == Latest(B)
             e == Latest({a, b})
  <2>1. a \in A /\ (\A t \in A : a >= t) /\ b \in B /\ (\A t \in B : b >= t)
    BY <1>4, LatestIs
  <2>2. {a, b} \in SUBSET (0 .. n) /\ {a, b} # {}
    BY <2>1
  <2> HIDE DEF a, b
  <2>3. e \in {a, b} /\ e >= a /\ e >= b
    BY <2>2, LatestIs
  <2>4. e \in A \cup B /\ \A t \in A \cup B : e >= t
    <3>1. e \in Int /\ a \in Int /\ b \in Int /\ e \in A \cup B
      BY <2>1, <2>3
    <3> HIDE DEF e
    <3>2. \A t \in A : e >= t
      BY <2>1, <2>3, <3>1
    <3>3. \A t \in B : e >= t
      BY <2>1, <2>3, <3>1
    <3> QED BY <3>1, <3>2, <3>3
  <2>5. Latest(A \cup B) = Max(A \cup B) /\ A \cup B \in SUBSET Int
    <3>1. A \cup B \in SUBSET (0 .. n) /\ A \cup B # {}
      BY <1>4
    <3> QED BY <3>1, LatestIs
  <2> HIDE DEF e
  <2>6. Max(A \cup B) = e
    BY <2>4, <2>5, MaxIs
  <2> QED BY <2>5, <2>6 DEF e, a, b
<1> QED BY <1>1, <1>2, <1>3, <1>4

(* There is a last of all times.                                           *)
LEMMA TimesEnd == \E n \in Nat : TimesOf(Lines) \subseteq 0 .. n
<1> DEFINE Bounds(k) == {n \in Nat : \A l \in 1 .. k : TimeOf[l] <= n}
           Without == {k \in 0 .. Len(IpOf) : Bounds(k) = {}}
<1>1. Len(IpOf) \in Nat /\ Lines = 1 .. Len(IpOf) /\ \A l \in Lines : TimeOf[l] \in Nat
  BY LinesAre, ClientIpsAssumption
<1>2. Without = {}
  <2> SUFFICES ASSUME Without # {} PROVE FALSE
    OBVIOUS
  <2>1. Without \in SUBSET Nat
    BY <1>1
  <2>2. PICK k \in Without : \A j \in Without : k <= j
    <3> HIDE DEF Without
    <3> QED BY <2>1, MinExists
  <2>3. 0 \in Bounds(0)
    OBVIOUS
  <2>4. k \in 1 .. Len(IpOf) /\ k - 1 \in 0 .. Len(IpOf) /\ ~(k <= k - 1)
    BY <1>1, <2>2, <2>3
  <2>5. PICK n \in Nat : \A l \in 1 .. k - 1 : TimeOf[l] <= n
    BY <2>2, <2>4
  <2>6. PICK m \in Nat : n <= m /\ TimeOf[k] <= m
    <3>1. TimeOf[k] \in Nat /\ n \in Nat
      BY <1>1, <2>4
    <3>2. n + TimeOf[k] \in Nat /\ n <= n + TimeOf[k] /\ TimeOf[k] <= n + TimeOf[k]
      BY <3>1
    <3> QED BY <3>2
  <2>7. \A l \in 1 .. k : TimeOf[l] <= m
    <3> SUFFICES ASSUME NEW l \in 1 .. k PROVE TimeOf[l] <= m
      OBVIOUS
    <3>1. CASE l = k
      BY <2>6, <3>1
    <3>2. CASE l # k
      <4>1. l \in 1 .. k - 1 /\ l \in Lines
        BY <1>1, <2>4, <3>2
      <4>2. TimeOf[l] <= n /\ TimeOf[l] \in Nat
        BY <1>1, <2>5, <4>1
      <4> QED BY <2>6, <4>2
    <3> QED BY <3>1, <3>2
  <2> QED BY <2>2, <2>7
<1>3. PICK n \in Nat : \A l \in 1 .. Len(IpOf) : TimeOf[l] <= n
  <2>1. Len(IpOf) \in 0 .. Len(IpOf)
    BY <1>1
  <2>2. Bounds(Len(IpOf)) # {}
    BY <1>2, <2>1
  <2> QED BY <2>2
<1>4. ASSUME NEW t \in TimesOf(Lines) PROVE t \in 0 .. n
  <2>1. PICK l \in Lines : t = TimeOf[l]
    BY DEF TimesOf
  <2> QED BY <1>1, <1>3, <2>1
<1> QED BY <1>4

(* What a sequence of lines says of some of them: in how many places they  *)
(* are, and their times.                                                   *)
From(ip) == {l \in Lines : IpOf[l] = ip}
Places(s, X) == {k \in DOMAIN s : s[k] \in X}
TimesIn(s, X) == TimesOf(ToSet(s) \cap X)

LEMMA PlacesCount ==
  ASSUME NEW s \in Seq(Lines), NEW X
  PROVE  /\ Places(s, X) \in SUBSET (1 .. Len(s)) /\ Len(s) \in Nat
         /\ IsFiniteSet(Places(s, X)) /\ Cardinality(Places(s, X)) \in Nat
         /\ Places(s, X) = {} <=> Cardinality(Places(s, X)) = 0
<1>1. Places(s, X) \in SUBSET (1 .. Len(s)) /\ Len(s) \in Nat
  BY DEF Places
<1>2. IsFiniteSet(Places(s, X))
  <2>1. IsFiniteSet(1 .. Len(s))
    BY <1>1, FS_Interval
  <2> QED BY <1>1, <2>1, FS_Subset
<1> QED BY <1>1, <1>2, FS_CardinalityType, FS_EmptySet

LEMMA JoinedLines ==
  ASSUME NEW s \in Seq(Lines), NEW t \in Seq(Lines)
  PROVE  /\ s \o t \in Seq(Lines) /\ ToSet(s \o t) = ToSet(s) \cup ToSet(t)
         /\ DOMAIN (s \o t) = 1 .. Len(s) + Len(t)
         /\ \A k \in 1 .. Len(s) : (s \o t)[k] = s[k]
         /\ \A k \in 1 .. Len(t) : (s \o t)[Len(s) + k] = t[k]
<1> DEFINE both == s \o t
<1>1. /\ both \in Seq(Lines) /\ Len(both) = Len(s) + Len(t)
      /\ Len(s) \in Nat /\ Len(t) \in Nat
      /\ DOMAIN both = 1 .. Len(s) + Len(t) /\ DOMAIN s = 1 .. Len(s) /\ DOMAIN t = 1 .. Len(t)
  OBVIOUS
<1>2. /\ \A k \in 1 .. Len(s) : both[k] = s[k]
      /\ \A k \in 1 .. Len(t) : both[Len(s) + k] = t[k]
  OBVIOUS
<1> HIDE DEF both
<1>3. \A k \in 1 .. Len(s) + Len(t) : k \in 1 .. Len(s) \/ k - Len(s) \in 1 .. Len(t)
  BY <1>1
<1>4. ASSUME NEW l \in ToSet(both) PROVE l \in ToSet(s) \cup ToSet(t)
  <2>1. PICK k \in 1 .. Len(s) + Len(t) : l = both[k]
    BY <1>1 DEF ToSet
  <2>2. CASE k \in 1 .. Len(s)
    BY <1>1, <1>2, <2>1, <2>2 DEF ToSet
  <2>3. CASE k - Len(s) \in 1 .. Len(t)
    <3>1. Len(s) + (k - Len(s)) = k
      BY <1>1
    <3>2. l = t[k - Len(s)]
      BY <1>2, <2>1, <2>3, <3>1
    <3> QED BY <1>1, <2>3, <3>2 DEF ToSet
  <2> QED BY <1>3, <2>2, <2>3
<1>5. \A k \in 1 .. Len(s) : k \in 1 .. Len(s) + Len(t)
  BY <1>1
<1>6. \A k \in 1 .. Len(t) : Len(s) + k \in 1 .. Len(s) + Len(t)
  BY <1>1
<1>7. ToSet(s) \subseteq ToSet(both) /\ ToSet(t) \subseteq ToSet(both)
  BY <1>1, <1>2, <1>5, <1>6 DEF ToSet
<1> QED BY <1>1, <1>2, <1>4, <1>7 DEF both

LEMMA CountJoined ==
  ASSUME NEW s \in Seq(Lines), NEW t \in Seq(Lines), NEW X
  PROVE  Cardinality(Places(s \o t, X)) = Cardinality(Places(s, X)) + Cardinality(Places(t, X))
<1> DEFINE n == Len(s)
           shift == [k \in Places(t, X) |-> n + k]
           Later == {n + k : k \in Places(t, X)}
<1>1. n \in Nat /\ Places(s, X) \in SUBSET (1 .. n) /\ Places(t, X) \in SUBSET (1 .. Len(t))
      /\ IsFiniteSet(Places(s, X)) /\ IsFiniteSet(Places(t, X)) /\ Len(t) \in Nat
      /\ Cardinality(Places(s, X)) \in Nat /\ Cardinality(Places(t, X)) \in Nat
  BY PlacesCount
<1>2. shift \in Bijection(Places(t, X), Later)
  BY <1>1 DEF Bijection, Injection, Surjection, IsInjective
<1>3. IsFiniteSet(Later) /\ Cardinality(Later) = Cardinality(Places(t, X))
  BY <1>1, <1>2, FS_Bijection DEF ExistsBijection
<1>4. Places(s \o t, X) = Places(s, X) \cup Later
  <2>1. /\ DOMAIN (s \o t) = 1 .. n + Len(t)
        /\ \A k \in 1 .. n : (s \o t)[k] = s[k]
        /\ \A k \in 1 .. Len(t) : (s \o t)[n + k] = t[k]
    BY JoinedLines
  <2>2. DOMAIN s = 1 .. n /\ DOMAIN t = 1 .. Len(t)
    OBVIOUS
  <2> DEFINE both == s \o t
  <2> HIDE DEF both, n
  <2>3. ASSUME NEW k \in Places(both, X) PROVE k \in Places(s, X) \cup Later
    <3>1. k \in 1 .. n + Len(t) /\ both[k] \in X
      BY <2>1 DEF Places, both
    <3>2. CASE k \in 1 .. n
      BY <2>1, <2>2, <3>1, <3>2 DEF Places, both
    <3>3. CASE k \notin 1 .. n
      <4>1. k - n \in 1 .. Len(t) /\ n + (k - n) = k
        BY <1>1, <3>1, <3>3
      <4>2. k - n \in Places(t, X)
        BY <2>1, <2>2, <3>1, <4>1 DEF Places, both
      <4> QED BY <4>1, <4>2
    <3> QED BY <3>2, <3>3
  <2>4. ASSUME NEW k \in Places(s, X) PROVE k \in Places(both, X)
    <3>1. k \in 1 .. n /\ s[k] \in X /\ k \in 1 .. n + Len(t)
      BY <1>1, <2>2 DEF Places
    <3> QED BY <2>1, <3>1 DEF Places, both
  <2>5. ASSUME NEW k \in Places(t, X) PROVE n + k \in Places(both, X)
    <3>1. k \in 1 .. Len(t) /\ t[k] \in X /\ n + k \in 1 .. n + Len(t)
      BY <1>1, <2>2 DEF Places
    <3> QED BY <2>1, <3>1 DEF Places, both
  <2> QED BY <2>3, <2>4, <2>5 DEF both
<1>5. Places(s, X) \cap Later = {}
  BY <1>1
<1> HIDE DEF Later, n
<1>6. /\ Cardinality(Places(s, X) \cup Later)
           = Cardinality(Places(s, X)) + Cardinality(Later) - Cardinality(Places(s, X) \cap Later)
      /\ Cardinality(Places(s, X) \cap Later) = 0
  BY <1>1, <1>3, <1>5, FS_Union, FS_EmptySet
<1> QED BY <1>1, <1>3, <1>4, <1>6

LEMMA TimesJoined ==
  ASSUME NEW s \in Seq(Lines), NEW t \in Seq(Lines), NEW X
  PROVE  TimesIn(s \o t, X) = TimesIn(s, X) \cup TimesIn(t, X)
<1>1. ToSet(s \o t) = ToSet(s) \cup ToSet(t)
  BY JoinedLines
<1> QED BY <1>1 DEF TimesIn, TimesOf

LEMMA TimesWithin ==
  ASSUME NEW s \in Seq(Lines), NEW X
  PROVE  \E n \in Nat : TimesIn(s, X) \subseteq 0 .. n /\ TimesOf(Lines) \subseteq 0 .. n
<1>1. ToSet(s) \subseteq Lines
  BY DEF ToSet
<1>2. PICK n \in Nat : TimesOf(Lines) \subseteq 0 .. n
  BY TimesEnd
<1> QED BY <1>1, <1>2 DEF TimesIn, TimesOf

(* A sequence has lines of some kind at its places of that kind.           *)
LEMMA PlacesOf ==
  ASSUME NEW s \in Seq(Lines), NEW X
  PROVE  /\ {s[k] : k \in Places(s, X)} = ToSet(s) \cap X
         /\ ToSet(s) \subseteq Lines
         /\ Places(s, X) # {} => TimesIn(s, X) # {}
BY DEF Places, ToSet, TimesIn, TimesOf

(* The last by time, then by place, is one of the lines, of the last time. *)
LEMMA LastIs ==
  ASSUME NEW s \in Seq(Lines), NEW at \in SUBSET DOMAIN s, at # {}
  PROVE  \E k \in at : LastOf(s, at) = s[k] /\ \A j \in at : TimeOf[s[j]] <= TimeOf[s[k]]
<1> DEFINE times == {TimeOf[s[k]] : k \in at}
           last == {k \in at : TimeOf[s[k]] = Max(times)}
           IsLast(k) == \A j \in at :
             \/ TimeOf[s[j]] < TimeOf[s[k]]
             \/ TimeOf[s[j]] = TimeOf[s[k]] /\ j <= k
<1>1. /\ at \in SUBSET (1 .. Len(s)) /\ Len(s) \in Nat /\ \A k \in at : s[k] \in Lines
  OBVIOUS
<1>2. PICK n \in Nat : TimesOf(Lines) \subseteq 0 .. n
  BY TimesEnd
<1>3. times \in SUBSET (0 .. n) /\ times # {}
  BY <1>1, <1>2 DEF TimesOf
<1>4. Max(times) \in times /\ \A m \in times : Max(times) >= m
  <2> HIDE DEF times
  <2> QED BY <1>3, MaxExists
<1>5. last \in SUBSET (0 .. Len(s)) /\ last # {}
  <2> DEFINE m == Max(times)
  <2>1. m \in times
    BY <1>4
  <2> HIDE DEF m
  <2>2. \E k \in at : TimeOf[s[k]] = m
    BY <2>1
  <2>3. last # {}
    BY <2>2 DEF m
  <2>4. \A k \in 1 .. Len(s) : k \in 0 .. Len(s)
    BY <1>1
  <2>5. last \subseteq at
    OBVIOUS
  <2> HIDE DEF last
  <2> QED BY <1>1, <2>3, <2>4, <2>5
<1>6. PICK k \in last : \A j \in last : k >= j
  <2> HIDE DEF last
  <2>1. Max(last) \in last /\ \A j \in last : Max(last) >= j
    BY <1>1, <1>5, MaxExists
  <2> QED BY <2>1
<1>7. \A j \in at : TimeOf[s[j]] \in Int /\ TimeOf[s[k]] \in Int /\ TimeOf[s[j]] <= TimeOf[s[k]]
  <2> SUFFICES ASSUME NEW j \in at
               PROVE  TimeOf[s[j]] \in Int /\ TimeOf[s[k]] \in Int /\ TimeOf[s[j]] <= TimeOf[s[k]]
    OBVIOUS
  <2>1. TimeOf[s[j]] \in times /\ TimeOf[s[k]] \in times /\ TimeOf[s[k]] = Max(times)
    BY <1>6
  <2> HIDE DEF times
  <2>2. \A t \in times : t \in Int
    BY <1>3
  <2>3. Max(times) >= TimeOf[s[j]]
    BY <1>4, <2>1
  <2>4. TimeOf[s[k]] >= TimeOf[s[j]]
    BY <2>1, <2>3
  <2>5. TimeOf[s[j]] \in Int /\ TimeOf[s[k]] \in Int
    BY <2>1, <2>2
  <2> QED BY <2>4, <2>5
<1>8. IsLast(k)
  <2> SUFFICES ASSUME NEW j \in at
               PROVE  \/ TimeOf[s[j]] < TimeOf[s[k]]
                      \/ TimeOf[s[j]] = TimeOf[s[k]] /\ j <= k
    OBVIOUS
  <2>1. CASE TimeOf[s[j]] = TimeOf[s[k]]
    <3>1. j \in last
      BY <1>6, <2>1
    <3>2. k >= j /\ j \in Int /\ k \in Int
      BY <1>1, <1>6, <3>1
    <3> QED BY <2>1, <3>2
  <2>2. CASE TimeOf[s[j]] # TimeOf[s[k]]
    BY <1>7, <2>2
  <2> QED BY <2>1, <2>2
<1> DEFINE c == CHOOSE i \in at : IsLast(i)
<1>9. c \in at /\ IsLast(c)
  <2> HIDE DEF IsLast
  <2> QED BY <1>6, <1>8
<1>10. LastOf(s, at) = s[c]
  BY DEF LastOf
<1>11. \A j \in at : TimeOf[s[j]] <= TimeOf[s[c]]
  <2> SUFFICES ASSUME NEW j \in at PROVE TimeOf[s[j]] <= TimeOf[s[c]]
    OBVIOUS
  <2>1. TimeOf[s[j]] \in Int /\ TimeOf[s[c]] \in Int
    BY <1>7, <1>9
  <2>2. TimeOf[s[j]] < TimeOf[s[c]] \/ TimeOf[s[j]] = TimeOf[s[c]]
    BY <1>9
  <2> HIDE DEF c
  <2> QED BY <2>1, <2>2
<1> QED BY <1>9, <1>10, <1>11

(* A row that says of an IP what a sequence of lines does.                 *)
Columns == {"requests", "loggedIn", "firstSeen", "lastSeen", "firstLoggedIn", "lastLoggedIn",
            "lastRequest", "location", "relay"}
RowIs(row, s, ip) ==
  /\ DOMAIN row = Columns
  /\ row.requests = Cardinality(Places(s, From(ip)))
  /\ row.loggedIn = Cardinality(Places(s, From(ip) \cap LoggedIn))
  /\ row.firstSeen = Earliest(TimesIn(s, From(ip)))
  /\ row.lastSeen = Latest(TimesIn(s, From(ip)))
  /\ row.firstLoggedIn = Earliest(TimesIn(s, From(ip) \cap LoggedIn))
  /\ row.lastLoggedIn = Latest(TimesIn(s, From(ip) \cap LoggedIn))
  /\ row.lastRequest \in ToSet(s) \cap From(ip) /\ TimeOf[row.lastRequest] = row.lastSeen

LEMMA NewRowIs ==
  ASSUME NEW s \in Seq(Lines), NEW ip \in Ips, Places(s, From(ip)) # {}
  PROVE  RowIs(NewRow(ip, s), s, ip)
<1> DEFINE at == {k \in DOMAIN s : IpOf[s[k]] = ip}
           all == {s[k] : k \in at}
           new == NewRow(ip, s)
<1>1. at = Places(s, From(ip)) /\ {k \in at : s[k] \in LoggedIn} = Places(s, From(ip) \cap LoggedIn)
  BY DEF Places, From
<1>2. all = ToSet(s) \cap From(ip) /\ all \cap LoggedIn = ToSet(s) \cap (From(ip) \cap LoggedIn)
  BY <1>1, PlacesOf
<1>3. /\ DOMAIN new = Columns
      /\ new.requests = Cardinality(at) /\ new.loggedIn = Cardinality({k \in at : s[k] \in LoggedIn})
      /\ new.firstSeen = Earliest(TimesOf(all)) /\ new.lastSeen = Latest(TimesOf(all))
      /\ new.firstLoggedIn = Earliest(TimesOf(all \cap LoggedIn))
      /\ new.lastLoggedIn = Latest(TimesOf(all \cap LoggedIn))
      /\ new.lastRequest = LastOf(s, at)
  BY DEF NewRow, Columns
<1>4. new.lastRequest \in all /\ TimeOf[new.lastRequest] = new.lastSeen
  <2>1. PICK k \in at : LastOf(s, at) = s[k] /\ \A j \in at : TimeOf[s[j]] <= TimeOf[s[k]]
    BY <1>1, LastIs
  <2>2. PICK n \in Nat : TimesOf(all) \subseteq 0 .. n
    BY <1>2, TimesWithin DEF TimesIn
  <2>3. TimeOf[s[k]] \in TimesOf(all) /\ \A t \in TimesOf(all) : t \in Int /\ TimeOf[s[k]] >= t
    <3>1. \A t \in TimesOf(all) : \E j \in at : t = TimeOf[s[j]]
      BY DEF TimesOf
    <3>2. TimeOf[s[k]] \in TimesOf(all)
      BY DEF TimesOf
    <3> HIDE DEF all, at
    <3>3. ASSUME NEW t \in TimesOf(all) PROVE t \in Int /\ TimeOf[s[k]] >= t
      <4>1. t \in Int /\ TimeOf[s[k]] \in Int
        BY <2>2, <3>2
      <4> QED BY <2>1, <3>1, <4>1
    <3> QED BY <3>2, <3>3
  <2> HIDE DEF all
  <2>4. Latest(TimesOf(all)) = Max(TimesOf(all)) /\ TimesOf(all) \in SUBSET Int
    BY <2>2, <2>3, LatestIs
  <2>5. Max(TimesOf(all)) = TimeOf[s[k]]
    BY <2>3, <2>4, MaxIs
  <2>6. s[k] \in all
    BY DEF all
  <2> QED BY <1>3, <2>1, <2>4, <2>5, <2>6
<1> HIDE DEF new, at, all
<1> QED BY <1>1, <1>2, <1>3, <1>4 DEF RowIs, TimesIn, new

LEMMA MergeIs ==
  ASSUME NEW s \in Seq(Lines), NEW t \in Seq(Lines), NEW ip \in Ips,
         Places(s, From(ip)) # {}, Places(t, From(ip)) # {},
         NEW old, NEW new, RowIs(old, s, ip), RowIs(new, t, ip)
  PROVE  RowIs(Merge(old, new), s \o t, ip)
<1> DEFINE row == Merge(old, new)
<1>1. old # NoRow
  BY DEF RowIs, Columns, NoRow
<1>2. /\ DOMAIN row = Columns
      /\ row.requests = old.requests + new.requests /\ row.loggedIn = old.loggedIn + new.loggedIn
      /\ row.firstSeen = Earliest({old.firstSeen, new.firstSeen})
      /\ row.lastSeen = Latest({old.lastSeen, new.lastSeen})
      /\ row.firstLoggedIn = Earliest({old.firstLoggedIn, new.firstLoggedIn})
      /\ row.lastLoggedIn = Latest({old.lastLoggedIn, new.lastLoggedIn})
      /\ row.lastRequest = IF old.lastSeen > new.lastSeen THEN old.lastRequest ELSE new.lastRequest
  BY <1>1 DEF Merge, RowIs, Columns
<1> HIDE DEF row
<1>3. /\ row.requests = Cardinality(Places(s \o t, From(ip)))
      /\ row.loggedIn = Cardinality(Places(s \o t, From(ip) \cap LoggedIn))
  BY <1>2, CountJoined DEF RowIs
<1>4. ASSUME NEW X
      PROVE  /\ Earliest({Earliest(TimesIn(s, X)), Earliest(TimesIn(t, X))})
                   = Earliest(TimesIn(s \o t, X))
             /\ Latest({Latest(TimesIn(s, X)), Latest(TimesIn(t, X))}) = Latest(TimesIn(s \o t, X))
  <2>1. PICK n \in Nat : TimesOf(Lines) \subseteq 0 .. n
    BY TimesEnd
  <2>2. TimesIn(s, X) \in SUBSET (0 .. n) /\ TimesIn(t, X) \in SUBSET (0 .. n)
    BY <2>1, PlacesOf DEF TimesIn, TimesOf
  <2>3. TimesIn(s, X) \in SUBSET Nat /\ TimesIn(t, X) \in SUBSET Nat
    BY <2>2
  <2>4. TimesIn(s \o t, X) = TimesIn(s, X) \cup TimesIn(t, X)
    BY TimesJoined
  <2>5. Earliest({Earliest(TimesIn(s, X)), Earliest(TimesIn(t, X))}) = Earliest(TimesIn(s \o t, X))
    BY <2>3, <2>4, EarliestOfBoth
  <2>6. Latest({Latest(TimesIn(s, X)), Latest(TimesIn(t, X))}) = Latest(TimesIn(s \o t, X))
    <3>1. \A A, B \in SUBSET (0 .. n) : Latest({Latest(A), Latest(B)}) = Latest(A \cup B)
      BY LatestOfBoth
    <3> QED BY <2>2, <2>4, <3>1
  <2> QED BY <2>5, <2>6
<1>5. /\ row.firstSeen = Earliest(TimesIn(s \o t, From(ip)))
      /\ row.lastSeen = Latest(TimesIn(s \o t, From(ip)))
      /\ row.firstLoggedIn = Earliest(TimesIn(s \o t, From(ip) \cap LoggedIn))
      /\ row.lastLoggedIn = Latest(TimesIn(s \o t, From(ip) \cap LoggedIn))
  BY <1>2, <1>4 DEF RowIs
<1>6. row.lastRequest \in ToSet(s \o t) \cap From(ip) /\ TimeOf[row.lastRequest] = row.lastSeen
  <2>1. ToSet(s \o t) = ToSet(s) \cup ToSet(t)
    BY JoinedLines
  <2>2. old.lastSeen \in Nat /\ new.lastSeen \in Nat
    <3>1. ToSet(s) \subseteq Lines /\ ToSet(t) \subseteq Lines
      BY PlacesOf
    <3> QED BY <3>1, ClientIpsAssumption DEF RowIs
  <2>3. row.lastSeen = IF old.lastSeen > new.lastSeen THEN old.lastSeen ELSE new.lastSeen
    <3> DEFINE both == {old.lastSeen, new.lastSeen}
    <3>1. both \ {None} = both /\ both # {} /\ both \in SUBSET Int
      BY <2>2, ClientIpsAssumption
    <3>2. row.lastSeen = Max(both)
      BY <1>2, <3>1 DEF Latest
    <3>3. CASE old.lastSeen > new.lastSeen
      <4>1. \A x \in both : old.lastSeen >= x
        BY <2>2, <3>3
      <4> QED BY <3>1, <3>2, <3>3, <4>1, MaxIs
    <3>4. CASE ~(old.lastSeen > new.lastSeen)
      <4>1. \A x \in both : new.lastSeen >= x
        BY <2>2, <3>4
      <4> QED BY <3>1, <3>2, <3>4, <4>1, MaxIs
    <3> QED BY <3>3, <3>4
  <2> QED BY <1>2, <2>1, <2>3 DEF RowIs
<1> QED BY <1>2, <1>3, <1>5, <1>6 DEF RowIs, row

LEMMA FilledInIs ==
  ASSUME NEW s, NEW ip \in Ips, RowIs(rows[ip], s, ip), NEW locations, NEW relays
  PROVE  RowIs(FilledIn(ip, locations, relays), s, ip)
<1> DEFINE row == FilledIn(ip, locations, relays)
<1>1. rows[ip] # NoRow
  BY DEF RowIs, Columns, NoRow
<1>2. /\ DOMAIN row = Columns
      /\ \A column \in Columns \ {"location", "relay"} : row[column] = rows[ip][column]
  BY <1>1 DEF FilledIn, RowIs
<1> HIDE DEF row
<1> QED BY <1>2 DEF RowIs, Columns, row

(* Lines are numbered from one; so what is taken are lines.                *)
FromLineOne == 0 \notin Taken /\ \A i \in LineEnds(log) : log[i].line # 0

LEMMA WriteNumbers == ASSUME LogInv, FromLineOne, Write PROVE FromLineOne'
<1> DEFINE p == Piece(written \div 2 + 1, (written % 2) + 1)
           n == Len(log) + 1
<1>1. /\ log' = IF DbPath(env) = None THEN log ELSE Append(log, p)
      /\ UNCHANGED <<batch, pending, recorded>>
  BY DEF Write, reading, table
<1>2. log \in Seq(Pieces) /\ Len(log) \in Nat /\ written \in Nat
  BY LinesAre DEF LogInv, LogTypeOK
<1>3. Taken' = Taken
  BY <1>1 DEF Taken
<1>4. CASE log' = log
  BY <1>3, <1>4 DEF FromLineOne, LineEnds
<1>5. CASE log' = Append(log, p)
  <2>1. p \in Pieces /\ p.line # 0
    <3>1. written % 2 \in {0, 1} /\ written \div 2 \in Nat
      BY <1>2
    <3>2. p.line = written \div 2 + 1
      BY DEF Piece
    <3> QED BY <3>1, <3>2 DEF Pieces, Piece
  <2> HIDE DEF p
  <2>2. /\ log'[n] = p /\ \A i \in 1 .. Len(log) : log'[i] = log[i]
        /\ DOMAIN log = 1 .. Len(log) /\ DOMAIN log' = 1 .. n
    BY <1>2, <1>5, <2>1
  <2> SUFFICES ASSUME NEW i \in DOMAIN log', log'[i].part = 2 PROVE log'[i].line # 0
    BY <1>3 DEF FromLineOne, LineEnds
  <2>3. CASE i = n
    BY <2>1, <2>2, <2>3
  <2>4. CASE i # n
    <3>1. i \in 1 .. Len(log)
      BY <1>2, <2>2, <2>4
    <3>2. i \in LineEnds(log) /\ log'[i] = log[i]
      BY <2>2, <3>1 DEF LineEnds
    <3> QED BY <3>2 DEF FromLineOne
  <2> QED BY <2>3, <2>4
<1> QED BY <1>1, <1>4, <1>5

LEMMA ReadNumbers == ASSUME LogInv, FromLineOne, ReadLog PROVE FromLineOne'
<1>1. batch = <<>> /\ UNCHANGED <<log, recorded>>
  BY ReadIs
<1>2. PICK requests \in Seq(Nat) :
        /\ IsInjective(requests) /\ ToSet(requests) \cap Taken = {}
        /\ \A l \in ToSet(requests) : \E i \in LineEnds(log) : log[i].line = l
        /\ \/ batch' = requests /\ pending' = pending
           \/ batch' = batch /\ pending' = Extended(requests)
  BY ReadIs
<1>3. 0 \notin ToSet(requests)
  BY <1>2 DEF FromLineOne
<1>4. pending \in Seq(Nat) /\ IsInjective(pending) /\ ToSet(pending) \cap ToSet(requests) = {}
  BY <1>2 DEF LogInv, LogTypeOK, InOnePlace, Taken
<1>5. ToSet(Extended(requests)) \subseteq ToSet(pending) \cup ToSet(requests)
  BY <1>2, <1>4, ExtendedIs
<1>6. Taken' \subseteq Taken \cup ToSet(requests)
  BY <1>1, <1>2, <1>5 DEF Taken
<1> QED BY <1>1, <1>3, <1>6 DEF FromLineOne, LineEnds

LEMMA NumbersKept == LogInv /\ FromLineOne /\ [Next]_vars => FromLineOne'
<1> SUFFICES ASSUME LogInv, FromLineOne, [Next]_vars PROVE FromLineOne'
  OBVIOUS
<1> USE DEF FromLineOne, LineEnds, Taken
<1>1. CASE Write \/ ReadLog
  BY <1>1, WriteNumbers, ReadNumbers
<1>2. CASE EmptyLog
  <2>1. /\ batch \in Seq(Nat) /\ pending \in Seq(Nat) /\ IsInjective(batch) /\ IsInjective(pending)
        /\ ToSet(pending) \cap ToSet(batch) = {}
    BY DEF LogInv, LogTypeOK, InOnePlace
  <2>2. ToSet(Extended(batch)) \subseteq ToSet(pending) \cup ToSet(batch)
    BY <2>1, ExtendedIs
  <2>3. log' = <<>> /\ pending' = Extended(batch) /\ batch' = <<>> /\ recorded' = recorded
    BY <1>2 DEF EmptyLog, table
  <2> QED BY <2>2, <2>3, NothingIn
<1>3. CASE Record
  <2>1. /\ pending' = <<>> /\ recorded' = recorded \o pending /\ UNCHANGED <<log, batch>>
    BY <1>3 DEF Record, AddUp, envoy
  <2>2. ToSet(recorded') = ToSet(recorded) \cup ToSet(pending)
    BY <2>1, JoinedIs DEF LogInv, LogTypeOK, InOnePlace
  <2> QED BY <2>1, <2>2, NothingIn
<1>4. CASE CannotEmptyLog
  <2>1. batch' = <<>> /\ UNCHANGED <<log, pending, recorded>>
    BY <1>4 DEF CannotEmptyLog, envoy, table
  <2> QED BY <2>1, NothingIn
<1>5. CASE Stop
  <2>1. batch' = <<>> /\ pending' = <<>> /\ UNCHANGED <<log, recorded>>
    BY <1>5 DEF Stop, table
  <2> QED BY <2>1, NothingIn
<1>6. CASE Boot
  <2>1. log' = <<>> /\ UNCHANGED <<batch, pending, recorded>>
    BY <1>6 DEF Boot, Leftover, table
  <2> QED BY <2>1
<1>7. CASE Killed \/ CannotRecord \/ Start \/ Update \/ World \/ UNCHANGED vars
  <2>1. UNCHANGED <<log, batch, pending, recorded>>
    BY <1>7 DEF Killed, CannotRecord, Start, Update, Begin, UpdateMmdb, DeleteOlder, UpdateRanges,
      WriteStatus, FillIn, World, ClockSet, Publish, Offer, LoseRanges, vars, envoy, reading, table
  <2> QED BY <2>1
<1> QED BY <1>1, <1>2, <1>3, <1>4, <1>5, <1>6, <1>7 DEF Next, Collect

LEMMA TakenAreLines ==
  ASSUME LogInv, FromLineOne
  PROVE  recorded \in Seq(Lines) /\ pending \in Seq(Lines)
<1>1. \A l \in Taken : l \in Lines
  <2> SUFFICES ASSUME NEW l \in Taken PROVE l \in Lines
    OBVIOUS
  <2>1. l \in Nat /\ 2 * l <= written /\ l # 0
    BY TakenAre DEF LogInv, WrittenOnce, FromLineOne
  <2>2. written \in Int /\ Len(IpOf) \in Nat /\ written <= 2 * Len(IpOf)
    BY LinesAre DEF LogInv, LogTypeOK
  <2>3. l \in 1 .. Len(IpOf)
    BY <2>1, <2>2
  <2> QED BY <2>3, LinesAre
<1>2. ASSUME NEW s \in Seq(Nat), ToSet(s) \subseteq Lines PROVE s \in Seq(Lines)
  <2>1. Len(s) \in Nat /\ DOMAIN s = 1 .. Len(s) /\ s = [k \in 1 .. Len(s) |-> s[k]]
    OBVIOUS
  <2>2. \A k \in 1 .. Len(s) : s[k] \in Lines
    BY <1>2, <2>1 DEF ToSet
  <2>3. [k \in 1 .. Len(s) |-> s[k]] \in Seq(Lines)
    BY <2>1, <2>2
  <2> QED BY <2>1, <2>3
<1>3. ToSet(recorded) \subseteq Lines /\ ToSet(pending) \subseteq Lines
  BY <1>1 DEF Taken
<1> QED BY <1>2, <1>3 DEF LogInv, LogTypeOK

(* The lines of other IPs don't change what a sequence says of an IP.      *)
LEMMA OthersAround ==
  ASSUME NEW s \in Seq(Lines), NEW t \in Seq(Lines), NEW ip \in Ips, NEW row,
         Places(t, From(ip)) = {}, RowIs(row, s, ip)
  PROVE  RowIs(row, s \o t, ip) /\ RowIs(row, t \o s, ip)
<1>1. ASSUME NEW X, Places(t, X) = {}
      PROVE  /\ Cardinality(Places(s \o t, X)) = Cardinality(Places(s, X))
             /\ Cardinality(Places(t \o s, X)) = Cardinality(Places(s, X))
             /\ TimesIn(s \o t, X) = TimesIn(s, X) /\ TimesIn(t \o s, X) = TimesIn(s, X)
  <2>1. Cardinality(Places(t, X)) = 0 /\ Cardinality(Places(s, X)) \in Nat
    BY <1>1, PlacesCount
  <2>2. /\ Cardinality(Places(s \o t, X)) = Cardinality(Places(s, X)) + Cardinality(Places(t, X))
        /\ Cardinality(Places(t \o s, X)) = Cardinality(Places(t, X)) + Cardinality(Places(s, X))
    BY CountJoined
  <2>3. TimesIn(t, X) = {}
    <3>1. ToSet(t) \cap X = {}
      BY <1>1, PlacesOf
    <3> QED BY <3>1 DEF TimesIn, TimesOf
  <2>4. /\ TimesIn(s \o t, X) = TimesIn(s, X) \cup TimesIn(t, X)
        /\ TimesIn(t \o s, X) = TimesIn(t, X) \cup TimesIn(s, X)
    BY TimesJoined
  <2> QED BY <2>1, <2>2, <2>3, <2>4
<1>2. Places(t, From(ip) \cap LoggedIn) = {}
  BY DEF Places
<1>3. ToSet(s \o t) = ToSet(s) \cup ToSet(t) /\ ToSet(t \o s) = ToSet(t) \cup ToSet(s)
  BY JoinedLines
<1>4. RowIs(row, s \o t, ip)
  BY <1>1, <1>2, <1>3 DEF RowIs
<1>5. RowIs(row, t \o s, ip)
  BY <1>1, <1>2, <1>3 DEF RowIs
<1> QED BY <1>4, <1>5

(* Each IP's row says what the lines recorded do.                          *)
RowsInv ==
  \A ip \in Ips :
    /\ Places(recorded, From(ip)) = {} => rows[ip] = NoRow
    /\ Places(recorded, From(ip)) # {} => RowIs(rows[ip], recorded, ip)

LEMMA RecordAddsUp ==
  ASSUME RowsInv, recorded \in Seq(Lines), pending \in Seq(Lines), Record
  PROVE  RowsInv'
<1>1. /\ rows' = [ip \in Ips |-> IF \E k \in DOMAIN pending : IpOf[pending[k]] = ip
                                 THEN Merge(rows[ip], NewRow(ip, pending)) ELSE rows[ip]]
      /\ recorded' = recorded \o pending
  BY DEF Record, AddUp
<1> SUFFICES ASSUME NEW ip \in Ips
             PROVE  /\ Places(recorded', From(ip)) = {} => rows'[ip] = NoRow
                    /\ Places(recorded', From(ip)) # {} => RowIs(rows'[ip], recorded', ip)
  BY DEF RowsInv, RowIs, NoRow, Places, TimesIn
<1>2. Places(recorded', From(ip)) = {}
        <=> Places(recorded, From(ip)) = {} /\ Places(pending, From(ip)) = {}
  <2>1. Cardinality(Places(recorded \o pending, From(ip)))
          = Cardinality(Places(recorded, From(ip))) + Cardinality(Places(pending, From(ip)))
    BY CountJoined
  <2>2. /\ Cardinality(Places(recorded, From(ip))) \in Nat
        /\ Cardinality(Places(pending, From(ip))) \in Nat
        /\ Places(recorded, From(ip)) = {} <=> Cardinality(Places(recorded, From(ip))) = 0
        /\ Places(pending, From(ip)) = {} <=> Cardinality(Places(pending, From(ip))) = 0
    BY PlacesCount
  <2>3. recorded \o pending \in Seq(Lines)
    BY JoinedLines
  <2>4. Places(recorded \o pending, From(ip)) = {}
          <=> Cardinality(Places(recorded \o pending, From(ip))) = 0
    BY <2>3, PlacesCount
  <2> QED BY <1>1, <2>1, <2>2, <2>4
<1>3. (\E k \in DOMAIN pending : IpOf[pending[k]] = ip) <=> Places(pending, From(ip)) # {}
  <2>1. \A k \in DOMAIN pending : pending[k] \in Lines
    BY PlacesOf DEF ToSet
  <2> QED BY <2>1 DEF Places, From
<1>4. CASE Places(pending, From(ip)) = {}
  <2>1. rows'[ip] = rows[ip]
    BY <1>1, <1>3, <1>4
  <2>2. Places(recorded, From(ip)) # {} => RowIs(rows[ip], recorded \o pending, ip)
    BY <1>4, OthersAround DEF RowsInv
  <2> QED BY <1>1, <1>2, <1>4, <2>1, <2>2 DEF RowsInv
<1>5. CASE Places(pending, From(ip)) # {}
  <2> DEFINE new == NewRow(ip, pending)
  <2>1. rows'[ip] = Merge(rows[ip], new)
    BY <1>1, <1>3, <1>5
  <2>2. RowIs(new, pending, ip)
    BY <1>5, NewRowIs
  <2> HIDE DEF new
  <2>3. CASE Places(recorded, From(ip)) = {}
    <3>1. Merge(rows[ip], new) = new
      BY <2>3 DEF RowsInv, Merge
    <3>2. RowIs(new, recorded \o pending, ip)
      BY <2>2, <2>3, OthersAround
    <3> QED BY <1>1, <1>2, <1>5, <2>1, <3>1, <3>2
  <2>4. CASE Places(recorded, From(ip)) # {}
    <3>1. RowIs(rows[ip], recorded, ip)
      BY <2>4 DEF RowsInv
    <3>2. RowIs(Merge(rows[ip], new), recorded \o pending, ip)
      BY <1>5, <2>2, <2>4, <3>1, MergeIs
    <3> QED BY <1>1, <1>2, <1>5, <2>1, <3>2
  <2> QED BY <2>3, <2>4
<1> QED BY <1>4, <1>5

LEMMA RowsStay == ASSUME RowsInv, UNCHANGED <<rows, recorded>> PROVE RowsInv'
<1>1. rows' = rows /\ recorded' = recorded
  OBVIOUS
<1> SUFFICES ASSUME NEW ip \in Ips
             PROVE  /\ Places(recorded', From(ip)) = {} => rows'[ip] = NoRow
                    /\ Places(recorded', From(ip)) # {} => RowIs(rows'[ip], recorded', ip)
  BY DEF RowsInv, RowIs, Places, TimesIn, NoRow
<1> QED BY <1>1 DEF RowsInv

LEMMA RowsKept ==
  RowsInv /\ recorded \in Seq(Lines) /\ pending \in Seq(Lines) /\ [Next]_vars => RowsInv'
<1> SUFFICES ASSUME RowsInv, recorded \in Seq(Lines), pending \in Seq(Lines), [Next]_vars
             PROVE  RowsInv'
  OBVIOUS
<1>1. CASE Record
  BY <1>1, RecordAddsUp
<1>2. CASE FillIn
  <2>1. PICK locations, relays \in BOOLEAN :
          rows' = [ip \in Ips |-> FilledIn(ip, locations, relays)]
    BY <1>2 DEF FillIn
  <2>2. recorded' = recorded
    BY <1>2 DEF FillIn
  <2>3. ASSUME NEW ip \in Ips
        PROVE  /\ Places(recorded, From(ip)) = {} => rows'[ip] = NoRow
               /\ Places(recorded, From(ip)) # {} => RowIs(rows'[ip], recorded, ip)
    <3>1. rows'[ip] = FilledIn(ip, locations, relays)
      BY <2>1
    <3>2. CASE Places(recorded, From(ip)) = {}
      BY <3>1, <3>2 DEF RowsInv, FilledIn
    <3>3. CASE Places(recorded, From(ip)) # {}
      BY <3>1, <3>3, FilledInIs DEF RowsInv
    <3> QED BY <3>2, <3>3
  <2> QED BY <2>2, <2>3 DEF RowsInv, NoRow
<1>3. CASE Write \/ Killed \/ ReadLog \/ EmptyLog \/ CannotEmptyLog \/ CannotRecord
  <2>1. UNCHANGED <<rows, recorded>>
    BY <1>3 DEF Write, Killed, ReadLog, EmptyLog, CannotEmptyLog, CannotRecord, table
  <2> QED BY <2>1, RowsStay
<1>4. CASE Boot \/ Start \/ Stop \/ Begin
  <2>1. UNCHANGED <<rows, recorded>>
    BY <1>4 DEF Boot, Start, Stop, Begin, table
  <2> QED BY <2>1, RowsStay
<1>5. CASE UpdateMmdb \/ DeleteOlder \/ UpdateRanges \/ WriteStatus
  <2>1. UNCHANGED <<rows, recorded>>
    BY <1>5 DEF UpdateMmdb, DeleteOlder, UpdateRanges, WriteStatus, table
  <2> QED BY <2>1, RowsStay
<1>6. CASE World \/ UNCHANGED vars
  <2>1. UNCHANGED <<rows, recorded>>
    BY <1>6 DEF World, ClockSet, Publish, Offer, LoseRanges, vars, table
  <2> QED BY <2>1, RowsStay
<1> QED BY <1>1, <1>2, <1>3, <1>4, <1>5, <1>6 DEF Next, Collect, Update

LEMMA RowsAre ==
  ASSUME RowsInv, recorded \in Seq(Lines)
  PROVE  RowsMatch
<1> SUFFICES ASSUME NEW ip \in Ips
             PROVE  LET at == RecordedOf(ip)
                        all == {recorded[k] : k \in at}
                        row == rows[ip]
                    IN IF at = {} THEN row = NoRow
                       ELSE /\ row.requests = Cardinality(at)
                            /\ row.loggedIn = Cardinality({k \in at : recorded[k] \in LoggedIn})
                            /\ row.firstSeen = Min(TimesOf(all)) /\ row.lastSeen = Max(TimesOf(all))
                            /\ row.firstLoggedIn = Earliest(TimesOf(all \cap LoggedIn))
                            /\ row.lastLoggedIn = Latest(TimesOf(all \cap LoggedIn))
                            /\ row.lastRequest \in all /\ TimeOf[row.lastRequest] = row.lastSeen
  BY DEF RowsMatch
<1>1. \A k \in DOMAIN recorded : recorded[k] \in Lines
  BY PlacesOf DEF ToSet
<1>2. /\ RecordedOf(ip) = Places(recorded, From(ip))
      /\ {k \in RecordedOf(ip) : recorded[k] \in LoggedIn} = Places(recorded, From(ip) \cap LoggedIn)
  BY <1>1 DEF RecordedOf, Places, From
<1> DEFINE all == {recorded[k] : k \in RecordedOf(ip)}
<1>3. all = ToSet(recorded) \cap From(ip) /\ all \cap LoggedIn = ToSet(recorded) \cap (From(ip) \cap LoggedIn)
  BY <1>2, PlacesOf
<1> HIDE DEF all
<1>4. CASE RecordedOf(ip) = {}
  BY <1>2, <1>4 DEF RowsInv
<1>5. CASE RecordedOf(ip) # {}
  <2>1. RowIs(rows[ip], recorded, ip)
    BY <1>2, <1>5 DEF RowsInv
  <2>2. TimesIn(recorded, From(ip)) = TimesOf(all) /\ TimesOf(all) # {}
    BY <1>2, <1>3, <1>5, PlacesOf DEF TimesIn
  <2>3. PICK n \in Nat : TimesOf(all) \subseteq 0 .. n
    BY <2>2, TimesWithin
  <2>4. Latest(TimesOf(all)) = Max(TimesOf(all))
    <3>1. TimesOf(all) \in SUBSET (0 .. n)
      BY <2>3
    <3> QED BY <2>2, <3>1, LatestIs
  <2>5. Earliest(TimesOf(all)) = Min(TimesOf(all))
    <3>1. TimesOf(all) \in SUBSET Nat
      BY <2>3
    <3> QED BY <2>2, <3>1, EarliestIs
  <2>6. /\ rows[ip].firstSeen = Min(TimesOf(all)) /\ rows[ip].lastSeen = Max(TimesOf(all))
        /\ rows[ip].firstLoggedIn = Earliest(TimesOf(all \cap LoggedIn))
        /\ rows[ip].lastLoggedIn = Latest(TimesOf(all \cap LoggedIn))
    BY <1>3, <2>1, <2>2, <2>4, <2>5 DEF RowIs, TimesIn
  <2>7. /\ rows[ip].requests = Cardinality(RecordedOf(ip))
        /\ rows[ip].loggedIn = Cardinality({k \in RecordedOf(ip) : recorded[k] \in LoggedIn})
        /\ rows[ip].lastRequest \in all /\ TimeOf[rows[ip].lastRequest] = rows[ip].lastSeen
    BY <1>2, <1>3, <2>1 DEF RowIs
  <2> QED BY <1>5, <2>6, <2>7 DEF all
<1> QED BY <1>4, <1>5

(* The networks' counts add up to the lines recorded with a login: each is *)
(* of one IP, and each IP of one network.                                  *)
LEMMA TotalsAre ==
  ASSUME RowsInv, recorded \in Seq(Lines)
  PROVE  TotalsMatch
<1> DEFINE all == {k \in DOMAIN recorded : recorded[k] \in LoggedIn}
           kind == [ip \in Ips |-> {k \in RecordedOf(ip) : recorded[k] \in LoggedIn}]
           On(network) == {ip \in WithLogins : rows[ip].location = network}
           of == [network \in Networks |-> InAll(kind, On(network))]
<1>1. RowsMatch
  BY RowsAre
<1>2. /\ DOMAIN recorded = 1 .. Len(recorded) /\ Len(recorded) \in Nat
      /\ IsFiniteSet(DOMAIN recorded)
  BY FS_Interval
<1>3. \A k \in DOMAIN recorded : recorded[k] \in Lines /\ IpOf[recorded[k]] \in Ips
  <2>1. \A k \in DOMAIN recorded : recorded[k] \in Lines
    BY PlacesOf DEF ToSet
  <2>2. \A l \in Lines : IpOf[l] \in Ips
    BY LinesAre, ElementOfSeq, ClientIpsAssumption DEF Lines
  <2> QED BY <2>1, <2>2
<1>4. \A ip \in Ips : IsFiniteSet(RecordedOf(ip))
  BY <1>2, FS_Subset DEF RecordedOf
<1>5. ASSUME NEW ip \in Ips PROVE ip \in WithLogins <=> kind[ip] # {}
  <2>1. CASE RecordedOf(ip) = {}
    BY <1>1, <2>1 DEF RowsMatch, WithLogins
  <2>2. CASE RecordedOf(ip) # {}
    <3>1. /\ rows[ip].requests = Cardinality(RecordedOf(ip))
          /\ rows[ip].loggedIn = Cardinality(kind[ip])
      BY <1>1, <2>2 DEF RowsMatch
    <3>2. IsFiniteSet(kind[ip])
      BY <1>4, FS_Subset
    <3>3. /\ Cardinality(RecordedOf(ip)) # 0 /\ Cardinality(kind[ip]) \in Nat
          /\ kind[ip] # {} <=> Cardinality(kind[ip]) # 0
      BY <1>4, <2>2, <3>2, FS_EmptySet, FS_CardinalityType
    <3>4. rows[ip] # NoRow
      BY <3>1, <3>3 DEF NoRow
    <3>5. kind[ip] # {} <=> rows[ip].loggedIn > 0
      BY <3>1, <3>3
    <3> QED BY <3>4, <3>5 DEF WithLogins
  <2> QED BY <2>1, <2>2
<1>6. IsFiniteSet(WithLogins)
  <2> DEFINE ipAt == [k \in all |-> IpOf[recorded[k]]]
  <2>1. WithLogins = {ipAt[k] : k \in all}
    BY <1>3, <1>5 DEF RecordedOf, WithLogins
  <2>2. IsFiniteSet(all)
    BY <1>2, FS_Subset
  <2> HIDE DEF ipAt, all
  <2> QED BY <2>1, <2>2, ReachedFinite
<1>7. \A ip \in WithLogins : /\ IsFiniteSet(kind[ip]) /\ rows[ip].loggedIn = Cardinality(kind[ip])
                        /\ kind[ip] \subseteq all
  <2> SUFFICES ASSUME NEW ip \in WithLogins
               PROVE  /\ IsFiniteSet(kind[ip]) /\ rows[ip].loggedIn = Cardinality(kind[ip])
                      /\ kind[ip] \subseteq all
    OBVIOUS
  <2>1. ip \in Ips
    BY DEF WithLogins
  <2>2. IsFiniteSet(kind[ip])
    BY <1>4, <2>1, FS_Subset
  <2>3. rows[ip].loggedIn = Cardinality({k \in RecordedOf(ip) : recorded[k] \in LoggedIn})
    <3>1. kind[ip] # {}
      BY <1>5, <2>1
    <3> QED BY <1>1, <2>1, <3>1 DEF RowsMatch
  <2> QED BY <2>1, <2>2, <2>3 DEF RecordedOf
<1>8. \A ip, other \in WithLogins : ip # other => kind[ip] \cap kind[other] = {}
  BY DEF WithLogins, RecordedOf
<1>9. \A k \in all : k \in kind[IpOf[recorded[k]]] /\ IpOf[recorded[k]] \in WithLogins
  BY <1>3, <1>5 DEF RecordedOf
<1>10. ASSUME NEW network \in Networks
       PROVE  LoggedInFrom(network) = Cardinality(of[network]) /\ IsFiniteSet(of[network])
  <2> DEFINE counts == [ip \in On(network) |-> rows[ip].loggedIn]
  <2>1. On(network) \in SUBSET WithLogins /\ IsFiniteSet(On(network))
    BY <1>6, FS_Subset
  <2>2. DOMAIN counts = On(network) /\ LoggedInFrom(network) = SumFunctionOnSet(counts, On(network))
    BY DEF LoggedInFrom, SumFunction
  <2>3. /\ \A ip \in On(network) : IsFiniteSet(kind[ip]) /\ counts[ip] = Cardinality(kind[ip])
        /\ \A ip, other \in On(network) : ip # other => kind[ip] \cap kind[other] = {}
    BY <1>7, <1>8, <2>1
  <2> HIDE DEF counts, kind, On
  <2>4. SumFunctionOnSet(counts, On(network)) = Cardinality(InAll(kind, On(network)))
    BY <2>1, <2>3, SumCounts
  <2>5. IsFiniteSet(InAll(kind, On(network)))
    BY <2>1, <2>3, AllFinite
  <2> QED BY <2>2, <2>4, <2>5
<1>11. IsFiniteSet(Networks)
  <2> DEFINE place == [ip \in WithLogins |-> rows[ip].location]
  <2>1. Networks = {place[ip] : ip \in WithLogins}
    BY DEF Networks
  <2> HIDE DEF place
  <2> QED BY <1>6, <2>1, ReachedFinite
<1>12. \A network, other \in Networks : network # other => of[network] \cap of[other] = {}
  <2> SUFFICES ASSUME NEW network \in Networks, NEW other \in Networks, network # other,
                      NEW k \in of[network], k \in of[other]
               PROVE  FALSE
    OBVIOUS
  <2> HIDE DEF kind
  <2>1. PICK ip \in On(network) : k \in kind[ip]
    BY DEF InAll
  <2>2. PICK also \in On(other) : k \in kind[also]
    BY DEF InAll
  <2>3. ip \in WithLogins /\ also \in WithLogins /\ ip # also
    OBVIOUS
  <2> QED BY <1>8, <2>1, <2>2, <2>3
<1>13. InAll(of, Networks) = all
  <2> HIDE DEF kind, all
  <2>1. ASSUME NEW k \in all PROVE k \in InAll(of, Networks)
    <3> DEFINE ip == IpOf[recorded[k]]
    <3>1. ip \in WithLogins /\ k \in kind[ip]
      BY <1>9
    <3> HIDE DEF ip
    <3>2. rows[ip].location \in Networks /\ ip \in On(rows[ip].location)
      BY <3>1 DEF Networks
    <3>3. k \in of[rows[ip].location]
      BY <3>1, <3>2 DEF InAll
    <3> QED BY <3>2, <3>3 DEF InAll
  <2>2. ASSUME NEW k \in InAll(of, Networks) PROVE k \in all
    <3>1. PICK network \in Networks : k \in of[network]
      BY DEF InAll
    <3>2. PICK ip \in On(network) : k \in kind[ip]
      BY <3>1 DEF InAll
    <3> QED BY <1>7, <3>2
  <2> QED BY <2>1, <2>2
<1> DEFINE sums == [network \in Networks |-> LoggedInFrom(network)]
<1>14. SumFunction(sums) = SumFunctionOnSet(sums, Networks)
  BY DEF SumFunction
<1>15. \A network \in Networks : IsFiniteSet(of[network]) /\ sums[network] = Cardinality(of[network])
  BY <1>10
<1>16. SumFunctionOnSet(sums, Networks) = Cardinality(InAll(of, Networks))
  <2> HIDE DEF sums, of
  <2> QED BY <1>11, <1>12, <1>15, SumCounts
<1> QED BY <1>1, <1>13, <1>14, <1>16 DEF TotalsMatch

(* What the page shows of each IP is what the lines recorded say, in       *)
(* whatever order they came and were recorded: of two batches that overlap *)
(* in time the later times and the last request are kept, whichever came   *)
(* first.  And its networks' logins add up to the lines recorded with one, *)
(* whenever each IP was located.                                           *)
THEOREM TotalsAlwaysMatch == Spec => []TotalsMatch
<1>1. Init => RowsInv /\ FromLineOne
  <2> SUFFICES ASSUME Init PROVE RowsInv /\ FromLineOne
    OBVIOUS
  <2>1. /\ recorded = <<>> /\ pending = <<>> /\ batch = <<>> /\ log = <<>>
        /\ rows = [ip \in Ips |-> NoRow]
    BY DEF Init
  <2>2. \A ip \in Ips : Places(recorded, From(ip)) = {}
    BY <2>1 DEF Places
  <2>3. RowsInv
    BY <2>1, <2>2 DEF RowsInv
  <2>4. LineEnds(log) = {} /\ Taken = {}
    BY <2>1, NothingIn DEF LineEnds, Taken
  <2> QED BY <2>3, <2>4 DEF FromLineOne
<1> DEFINE Inv == LogInv /\ FromLineOne /\ RowsInv
<1>2. Inv /\ [Next]_vars => Inv'
  BY LogKept, NumbersKept, RowsKept, TakenAreLines
<1>3. Inv => TotalsMatch
  BY TotalsAre, TakenAreLines
<1>4. Init => Inv
  BY <1>1, LogStarts
<1> QED BY <1>2, <1>3, <1>4, PTL DEF Spec

-----------------------------------------------------------------------------
(* Seconds, days and bytes.                                                *)

LEMMA Quotient ==
  ASSUME NEW a \in Nat, NEW n \in Nat \ {0}
  PROVE  a \div n \in Nat /\ n * (a \div n) <= a /\ a < n * (a \div n) + n
OBVIOUS

LEMMA TimesMonotone ==
  ASSUME NEW a \in Int, NEW b \in Int, a <= b, NEW n \in Nat
  PROVE  n * a <= n * b
OBVIOUS

LEMMA QuotientIs ==
  ASSUME NEW a \in Nat, NEW n \in Nat \ {0}, NEW q \in Int, n * q <= a, a < n * q + n
  PROVE  a \div n = q
<1> DEFINE p == a \div n
<1>1. p \in Int /\ n * p <= a /\ a < n * p + n
  BY Quotient
<1> HIDE DEF p
<1>2. CASE p < q
  <2>1. n * (p + 1) <= n * q
    BY <1>1, <1>2, TimesMonotone
  <2>2. n * (p + 1) = n * p + n
    BY <1>1
  <2> QED BY <1>1, <2>1, <2>2
<1>3. CASE q < p
  <2>1. n * (q + 1) <= n * p
    BY <1>1, <1>3, TimesMonotone
  <2>2. n * (q + 1) = n * q + n
    OBVIOUS
  <2> QED BY <1>1, <2>1, <2>2
<1> QED BY <1>1, <1>2, <1>3 DEF p

AllDays == 0 .. Days - 1

(* Days follow each other, and make up the seconds.                        *)
LEMMA DayBounds ==
  ASSUME NEW d \in AllDays
  PROVE  /\ OfDay(d) = SecondsPerDay * d .. SecondsPerDay * d + SecondsPerDay - 1
         /\ SecondsPerDay * d \in Nat
         /\ SecondsPerDay * d + SecondsPerDay <= SecondsPerDay * Days
<1>1. SecondsPerDay \in Nat \ {0} /\ Days \in Nat \ {0} /\ d \in Nat /\ d + 1 <= Days
  BY UptimeLogAssumption DEF AllDays
<1>2. d * SecondsPerDay = SecondsPerDay * d /\ (d + 1) * SecondsPerDay = SecondsPerDay * d + SecondsPerDay
  BY <1>1
<1>3. SecondsPerDay * (d + 1) <= SecondsPerDay * Days
  BY <1>1, TimesMonotone
<1>4. SecondsPerDay * (d + 1) = SecondsPerDay * d + SecondsPerDay
  BY <1>1
<1> QED BY <1>1, <1>2, <1>3, <1>4 DEF OfDay

LEMMA InItsDay ==
  ASSUME NEW d \in AllDays, NEW s \in OfDay(d)
  PROVE  s \in Seconds /\ DayOf(s) = d
<1>1. SecondsPerDay \in Nat \ {0} /\ Days \in Nat \ {0} /\ d \in Nat
  BY UptimeLogAssumption DEF AllDays
<1>2. s \in Nat /\ SecondsPerDay * d <= s /\ s < SecondsPerDay * d + SecondsPerDay
  BY <1>1, DayBounds
<1>3. s < SecondsPerDay * Days /\ SecondsPerDay * Days \in Nat
  BY <1>1, <1>2, DayBounds
<1>4. s \div SecondsPerDay = d
  BY <1>1, <1>2, QuotientIs
<1> QED BY <1>2, <1>3, <1>4 DEF Seconds, DayOf

LEMMA HasDay ==
  ASSUME NEW s \in Seconds
  PROVE  DayOf(s) \in AllDays /\ s \in OfDay(DayOf(s))
<1> DEFINE d == DayOf(s)
<1>1. SecondsPerDay \in Nat \ {0} /\ Days \in Nat \ {0} /\ SecondsPerDay * Days \in Nat
  BY UptimeLogAssumption
<1>2. s \in Nat /\ s < SecondsPerDay * Days
  BY <1>1 DEF Seconds
<1>3. d \in Nat /\ SecondsPerDay * d <= s /\ s < SecondsPerDay * d + SecondsPerDay
  BY <1>1, <1>2, Quotient DEF DayOf
<1> HIDE DEF d
<1>4. d < Days
  <2> SUFFICES ASSUME Days <= d PROVE FALSE
    BY <1>1, <1>3
  <2>1. SecondsPerDay * Days <= SecondsPerDay * d
    BY <1>1, <1>3, TimesMonotone
  <2> QED BY <1>1, <1>2, <1>3, <2>1
<1>5. d \in AllDays
  BY <1>1, <1>3, <1>4 DEF AllDays
<1>6. s \in OfDay(d)
  <2>1. OfDay(d) = SecondsPerDay * d .. SecondsPerDay * d + SecondsPerDay - 1 /\ SecondsPerDay * d \in Nat
    BY <1>5, DayBounds
  <2> QED BY <1>1, <1>2, <1>3, <2>1
<1> QED BY <1>5, <1>6 DEF d

LEMMA DaysInOrder ==
  ASSUME NEW s \in Seconds, NEW t \in Seconds, s <= t
  PROVE  DayOf(s) <= DayOf(t)
<1> DEFINE d == DayOf(s)
           e == DayOf(t)
<1>1. d \in AllDays /\ e \in AllDays /\ s \in OfDay(d) /\ t \in OfDay(e)
  BY HasDay
<1> HIDE DEF d, e
<1>2. /\ s \in Int /\ t \in Int /\ SecondsPerDay \in Nat \ {0} /\ d \in Nat /\ e \in Nat
      /\ SecondsPerDay * d <= s /\ t < SecondsPerDay * e + SecondsPerDay
  <2>1. SecondsPerDay \in Nat \ {0} /\ d \in Nat /\ e \in Nat
    BY <1>1, UptimeLogAssumption DEF AllDays
  <2>2. /\ s \in SecondsPerDay * d .. SecondsPerDay * d + SecondsPerDay - 1
        /\ t \in SecondsPerDay * e .. SecondsPerDay * e + SecondsPerDay - 1
        /\ SecondsPerDay * d \in Nat /\ SecondsPerDay * e \in Nat
    BY <1>1, DayBounds
  <2> QED BY <2>1, <2>2
<1>3. CASE e < d
  <2>1. SecondsPerDay * (e + 1) <= SecondsPerDay * d
    BY <1>2, <1>3, TimesMonotone
  <2>2. SecondsPerDay * (e + 1) = SecondsPerDay * e + SecondsPerDay
    BY <1>2
  <2> QED BY <1>2, <2>1, <2>2
<1> QED BY <1>2, <1>3 DEF d, e

(* A day has whole bytes.                                                  *)
LEMMA BytesOfDay ==
  ASSUME NEW d \in AllDays, NEW M \in SUBSET OfDay(d)
  PROVE  M \subseteq Bytes(M) /\ Bytes(M) \subseteq OfDay(d)
<1> DEFINE Block(b) == b * Byte .. b * Byte + Byte - 1
           n == SecondsPerDay \div Byte
<1>1. Byte \in Nat \ {0} /\ SecondsPerDay \in Nat \ {0} /\ d \in Nat
  BY UptimeLogAssumption DEF AllDays
<1>2. n \in Nat /\ SecondsPerDay = Byte * n
  <2>1. SecondsPerDay % Byte = 0
    BY UptimeLogAssumption
  <2>2. SecondsPerDay = Byte * (SecondsPerDay \div Byte) + (SecondsPerDay % Byte)
    BY <1>1
  <2> QED BY <1>1, <2>1, <2>2, Quotient
<1> HIDE DEF n
<1>3. ASSUME NEW s \in M
      PROVE  s \in Block(s \div Byte) /\ Block(s \div Byte) \subseteq OfDay(d)
  <2> DEFINE b == s \div Byte
             m == n * d
  <2>1. s \in Nat /\ SecondsPerDay * d <= s /\ s < SecondsPerDay * d + SecondsPerDay
    BY <1>1, DayBounds
  <2>2. b \in Nat /\ Byte * b <= s /\ s < Byte * b + Byte
    BY <1>1, <2>1, Quotient
  <2> HIDE DEF b
  <2>3. SecondsPerDay * d = Byte * m /\ m \in Nat /\ SecondsPerDay * d + SecondsPerDay = Byte * (m + n)
    <3>1. (Byte * n) * d = Byte * (n * d) /\ Byte * (n * d) + Byte * n = Byte * (n * d + n) /\ n * d \in Nat
      BY <1>1, <1>2
    <3> QED BY <1>2, <3>1
  <2> HIDE DEF m
  <2>4. m <= b
    <3> SUFFICES ASSUME b + 1 <= m PROVE FALSE
      BY <2>2, <2>3
    <3>1. Byte * (b + 1) <= Byte * m
      BY <1>1, <2>2, <2>3, TimesMonotone
    <3>2. Byte * (b + 1) = Byte * b + Byte
      BY <1>1, <2>2
    <3> QED BY <1>1, <2>1, <2>2, <2>3, <3>1, <3>2
  <2>5. b + 1 <= m + n
    <3> SUFFICES ASSUME m + n <= b PROVE FALSE
      BY <1>2, <2>2, <2>3
    <3>1. Byte * (m + n) <= Byte * b
      BY <1>1, <1>2, <2>2, <2>3, TimesMonotone
    <3> QED BY <1>1, <2>1, <2>2, <2>3, <3>1
  <2>6. Byte * m <= Byte * b /\ Byte * (b + 1) <= Byte * (m + n) /\ Byte * (b + 1) = Byte * b + Byte
        /\ b * Byte = Byte * b /\ Byte * b \in Nat
    <3>1. Byte * m <= Byte * b
      BY <1>1, <2>2, <2>3, <2>4, TimesMonotone
    <3>2. Byte * (b + 1) <= Byte * (m + n)
      BY <1>1, <1>2, <2>2, <2>3, <2>5, TimesMonotone
    <3> QED BY <1>1, <2>2, <3>1, <3>2
  <2>7. s \in Block(b)
    BY <1>1, <2>1, <2>2, <2>6
  <2>8. OfDay(d) = SecondsPerDay * d .. SecondsPerDay * d + SecondsPerDay - 1
    BY DayBounds
  <2>9. Block(b) \subseteq OfDay(d)
    <3> SUFFICES ASSUME NEW t \in Block(b) PROVE t \in OfDay(d)
      OBVIOUS
    <3>1. t \in Int /\ Byte * b <= t /\ t <= Byte * b + Byte - 1
      BY <1>1, <2>6
    <3>2. SecondsPerDay * d <= t /\ t <= SecondsPerDay * d + SecondsPerDay - 1 /\ SecondsPerDay * d \in Int
      BY <1>1, <2>3, <2>6, <3>1
    <3> QED BY <1>1, <2>8, <3>1, <3>2
  <2> QED BY <2>7, <2>9 DEF b
<1>4. Bytes(M) = UNION {Block(s \div Byte) : s \in M}
  BY DEF Bytes
<1> HIDE DEF Block
<1> QED BY <1>3, <1>4

-----------------------------------------------------------------------------
(* What a call writes.                                                     *)

LEMMA FirstIs ==
  ASSUME UptimeTypeOK, NEW second \in Seconds
  PROVE  /\ First(second) \in Seconds /\ First(second) <= second
         /\ since # Unset => First(second) <= since
         /\ unrecordedFrom # Unset => First(second) <= unrecordedFrom
         /\ Filled(second) \in Seconds /\ Filled(second) <= second
<1>1. /\ lastSecond \in Seconds \cup {Unset} /\ unrecordedFrom \in Seconds \cup {Unset}
      /\ since \in Seconds \cup {Unset}
  BY DEF UptimeTypeOK
<1>2. SecondsPerDay * Days \in Nat /\ Unset \notin Int /\ MaxFilledGap \in Nat
  BY UptimeLogAssumption
<1>3. \A s : s \in Seconds <=> s \in Int /\ 0 <= s /\ s < SecondsPerDay * Days
  BY <1>2 DEF Seconds
<1> HIDE DEF Seconds
<1>4. Filled(second) \in Seconds /\ Filled(second) <= second
  BY <1>1, <1>2, <1>3 DEF Filled
<1> DEFINE f == IF since # Unset THEN Least(second, since) ELSE Filled(second)
<1>5. f \in Seconds /\ f <= second /\ (since # Unset => f <= since)
  BY <1>1, <1>2, <1>3, <1>4 DEF Least
<1>6. First(second) = Least(f, unrecordedFrom)
  BY DEF First
<1> HIDE DEF f
<1>7. First(second) \in Seconds /\ First(second) <= f
      /\ (unrecordedFrom # Unset => First(second) <= unrecordedFrom)
  BY <1>1, <1>2, <1>3, <1>5, <1>6 DEF Least
<1>8. \A s \in Seconds : s \in Int
  BY <1>3
<1> QED BY <1>1, <1>4, <1>5, <1>7, <1>8

LEMMA DaysOfCall ==
  ASSUME UptimeTypeOK, NEW second \in Seconds
  PROVE  /\ DaysOf(second) \subseteq AllDays /\ DayOf(second) \in DaysOf(second)
         /\ \A d \in DaysOf(second) : \A e \in DayOf(First(second)) .. d : e \in DaysOf(second)
         /\ \A s \in First(second) .. second : s \in Seconds /\ DayOf(s) \in DaysOf(second)
                                               /\ s \in Marks(second, DayOf(s))
<1> DEFINE first == First(second)
<1>1. first \in Seconds /\ first <= second
  BY FirstIs
<1>2. SecondsPerDay * Days \in Nat
  BY UptimeLogAssumption
<1>3. DayOf(first) \in AllDays /\ DayOf(second) \in AllDays /\ DayOf(first) <= DayOf(second)
  BY <1>1, HasDay, DaysInOrder
<1> HIDE DEF first
<1>4. DaysOf(second) = DayOf(first) .. DayOf(second)
  BY DEF DaysOf, first
<1>5. /\ DaysOf(second) \subseteq AllDays /\ DayOf(second) \in DaysOf(second)
      /\ \A d \in DaysOf(second) : \A e \in DayOf(first) .. d : e \in DaysOf(second)
  BY <1>3, <1>4, UptimeLogAssumption DEF AllDays
<1>6. ASSUME NEW s \in first .. second
      PROVE  s \in Seconds /\ DayOf(s) \in DaysOf(second) /\ s \in Marks(second, DayOf(s))
  <2>1. s \in Seconds /\ first <= s /\ s <= second
    BY <1>1, <1>2 DEF Seconds
  <2>2. DayOf(s) \in AllDays /\ s \in OfDay(DayOf(s)) /\ DayOf(first) <= DayOf(s) /\ DayOf(s) <= DayOf(second)
    BY <1>1, <2>1, HasDay, DaysInOrder
  <2>3. DayOf(s) \in DaysOf(second)
    BY <1>3, <1>4, <2>2, UptimeLogAssumption DEF AllDays
  <2> QED BY <2>1, <2>2, <2>3 DEF Marks, first
<1> QED BY <1>5, <1>6 DEF first

(* In memory is what the day's file has, or more.                          *)
LEMMA Loading ==
  ASSUME UptimeTypeOK, running, NEW second \in Seconds
  PROVE  /\ up \subseteq UpBefore(second) /\ UpBefore(second) \subseteq up \cup data
         /\ UpBefore(second) \subseteq Seconds
         /\ \A d \in AllDays :
              /\ Loaded(second, d) \subseteq OfDay(d)
              /\ UpBefore(second) \cap OfDay(d) \subseteq Loaded(second, d)
              /\ Loaded(second, d) \subseteq UpBefore(second) \cup data
<1>1. /\ up \subseteq Seconds /\ day \in {Unset} \cup AllDays
      /\ data \subseteq (IF day = Unset THEN {} ELSE OfDay(day))
      /\ day # Unset => up \cap OfDay(day) \subseteq data
  BY DEF UptimeTypeOK, AllDays
<1>2. data \subseteq Seconds
  BY <1>1, InItsDay
<1>3. up \subseteq UpBefore(second) /\ UpBefore(second) \subseteq up \cup data
  BY <1>1 DEF UpBefore, Leaves
<1>4. ASSUME NEW d \in AllDays
      PROVE  /\ Loaded(second, d) \subseteq OfDay(d)
             /\ UpBefore(second) \cap OfDay(d) \subseteq Loaded(second, d)
             /\ Loaded(second, d) \subseteq UpBefore(second) \cup data
  <2>1. CASE d = day /\ ~Leaves(second)
    <3>1. UpBefore(second) = up /\ Loaded(second, d) = data /\ day # Unset
      BY <2>1, <1>4, UptimeLogAssumption DEF UpBefore, Loaded, AllDays
    <3> QED BY <1>1, <2>1, <3>1
  <2>2. CASE ~(d = day /\ ~Leaves(second))
    BY <2>2 DEF Loaded
  <2> QED BY <2>1, <2>2
<1> QED BY <1>1, <1>2, <1>3, <1>4

(* No second is unmarked by what is written of some of the days; those of  *)
(* the call are marked; and nothing else but what was in memory.           *)
LEMMA Writing ==
  ASSUME UptimeTypeOK, running, NEW second \in Seconds, NEW W \in SUBSET DaysOf(second)
  PROVE  /\ up \subseteq UpAfter(second, W) /\ UpAfter(second, W) \subseteq Seconds
         /\ \A d \in W : Marks(second, d) \subseteq UpAfter(second, W)
         /\ UpAfter(second, W) \subseteq up \cup data \cup First(second) .. second
         /\ \A e \in AllDays : UpAfter(second, W) \cap OfDay(e) \subseteq Loaded(second, e) \cup Marks(second, e)
<1> DEFINE part == UNION {Part(second, d) : d \in W}
           bits == UNION {Loaded(second, d) \cup Marks(second, d) : d \in W}
           before == UpBefore(second)
           after == UpAfter(second, W)
<1>1. after = (before \ part) \cup (bits \cap part)
  BY DEF UpAfter
<1>2. W \subseteq AllDays
  BY DaysOfCall
<1>3. \A d \in AllDays : Marks(second, d) \subseteq OfDay(d) /\ Marks(second, d) \subseteq First(second) .. second
  BY DEF Marks
<1>4. \A d \in W : Marks(second, d) \subseteq Part(second, d) /\ Part(second, d) \subseteq OfDay(d)
  <2> SUFFICES ASSUME NEW d \in W
               PROVE  Marks(second, d) \subseteq Part(second, d) /\ Part(second, d) \subseteq OfDay(d)
    OBVIOUS
  <2>1. d \in AllDays /\ Marks(second, d) \in SUBSET OfDay(d)
    BY <1>2, <1>3
  <2>2. Marks(second, d) \subseteq Bytes(Marks(second, d)) /\ Bytes(Marks(second, d)) \subseteq OfDay(d)
    BY <2>1, BytesOfDay
  <2> QED BY <2>1, <2>2 DEF Part
<1>5. /\ up \subseteq before /\ before \subseteq up \cup data /\ before \subseteq Seconds
      /\ \A d \in AllDays :
           /\ Loaded(second, d) \subseteq OfDay(d)
           /\ before \cap OfDay(d) \subseteq Loaded(second, d)
           /\ Loaded(second, d) \subseteq before \cup data
  BY Loading
<1> HIDE DEF after, before
<1>6. before \subseteq after
  <2> SUFFICES ASSUME NEW s \in before, s \in part PROVE s \in bits
    BY <1>1
  <2>1. PICK d \in W : s \in Part(second, d)
    OBVIOUS
  <2>2. s \in Loaded(second, d)
    BY <1>2, <1>4, <1>5, <2>1
  <2> QED BY <2>2
<1>7. \A s \in after : s \in before \/ \E d \in W : s \in Loaded(second, d) \cup Marks(second, d)
  BY <1>1
<1>8. \A d \in W : Marks(second, d) \subseteq after
  BY <1>1, <1>4
<1> HIDE DEF part, bits
<1>9. after \subseteq Seconds
  <2>1. \A d \in AllDays : OfDay(d) \subseteq Seconds
    BY InItsDay
  <2> QED BY <1>2, <1>3, <1>5, <1>7, <2>1
<1>10. after \subseteq up \cup data \cup First(second) .. second
  BY <1>2, <1>3, <1>5, <1>7
<1>11. ASSUME NEW e \in AllDays, NEW s \in after, s \in OfDay(e)
       PROVE  s \in Loaded(second, e) \cup Marks(second, e)
  <2>1. CASE s \in before
    BY <1>5, <1>11, <2>1
  <2>2. ASSUME NEW d \in W, s \in Loaded(second, d) \cup Marks(second, d)
        PROVE  s \in Loaded(second, e) \cup Marks(second, e)
    <3>1. d \in AllDays /\ s \in OfDay(d)
      BY <1>2, <1>3, <1>5, <2>2
    <3>2. d = e
      BY <1>11, <3>1, InItsDay
    <3> QED BY <2>2, <3>2
  <2> QED BY <1>7, <1>11, <2>1, <2>2
<1> QED BY <1>5, <1>6, <1>8, <1>9, <1>10, <1>11 DEF after

-----------------------------------------------------------------------------
(* The invariant: what is due to be made up for reaches back to what was   *)
(* recorded last, and has been lived if the clock only went on; what was   *)
(* called for is marked or due.                                            *)

NothingInMemory ==
  ~running => /\ day = Unset /\ data = {} /\ called = {}
              /\ lastSecond = Unset /\ unrecordedFrom = Unset /\ since = Unset
CaughtUp ==
  /\ unrecordedFrom = Unset => lastSecond \in {Unset, now}
  /\ ~back /\ unrecordedFrom # Unset =>
       /\ unrecordedFrom <= now
       /\ lastSecond # Unset => unrecordedFrom <= lastSecond + 1 \/ now - lastSecond > MaxFilledGap
  /\ ~back /\ since # Unset => since <= now
MarkedOrDue ==
  /\ called \subseteq Seconds
  /\ ~back => \A s \in called :
       s \in up \/ (unrecordedFrom # Unset /\ unrecordedFrom <= s /\ s <= now)
LivedIfDue ==
  ~back /\ ~fell =>
    /\ since # Unset => since .. now \subseteq lived
    /\ unrecordedFrom # Unset => unrecordedFrom .. now \subseteq lived
    /\ data \ up \subseteq lived
UptimeInv == UptimeTypeOK /\ NothingInMemory /\ CaughtUp /\ MarkedOrDue /\ LivedIfDue

LEMMA SecondsAreNumbers ==
  UptimeTypeOK => /\ now \in Int /\ \A s \in Seconds : s \in Int
                  /\ lastSecond \in Int \cup {Unset} /\ unrecordedFrom \in Int \cup {Unset}
                  /\ since \in Int \cup {Unset}
                  /\ Unset \notin Int /\ MaxFilledGap \in Nat \ {0}
<1>1. SecondsPerDay * Days \in Nat /\ Unset \notin Int /\ MaxFilledGap \in Nat \ {0}
  BY UptimeLogAssumption
<1>2. \A s \in Seconds : s \in Int
  BY <1>1 DEF Seconds
<1> QED BY <1>1, <1>2 DEF UptimeTypeOK

(* A call's seconds and those in memory have been lived, if the clock only *)
(* went on.                                                                *)
LEMMA CallIsLived ==
  ASSUME UptimeInv, NEW second \in Seconds, WakeAt(second), ~back', ~fell'
  PROVE  /\ First(second) .. second \subseteq lived' /\ data \ up \subseteq lived'
         /\ since # Unset => since .. second \subseteq lived'
<1>1. UptimeTypeOK /\ CaughtUp /\ LivedIfDue
  BY DEF UptimeInv
<1>2. /\ now \in Int /\ second \in Int
      /\ lastSecond \in Int \cup {Unset} /\ unrecordedFrom \in Int \cup {Unset}
      /\ since \in Int \cup {Unset} /\ Unset \notin Int /\ MaxFilledGap \in Nat \ {0}
  BY <1>1, SecondsAreNumbers
<1>3. now <= second /\ (Pending => ~back /\ ~fell /\ ~Gap(second))
  <2>1. /\ back' = (second < now \/ (Pending /\ back))
        /\ fell' = (Pending /\ (fell \/ Gap(second)))
    BY DEF WakeAt
  <2>2. ~(second < now) /\ (Pending => ~back /\ ~fell /\ ~Gap(second))
    BY <2>1, Zenon
  <2> QED BY <1>2, <2>2
<1>4. /\ Pending => lived' = lived \cup {second} \cup (IF Gap(second) THEN {} ELSE now .. second)
      /\ ~Pending => lived' = {second} \cup (IF Gap(second) THEN {} ELSE now .. second)
  BY DEF WakeAt
<1>5. First(second) \in Int /\ First(second) <= second
  BY <1>1, FirstIs, SecondsAreNumbers
<1>6. CASE Pending
  <2>1. /\ ~back /\ ~fell /\ lived \subseteq lived' /\ now .. second \subseteq lived'
    BY <1>3, <1>4, <1>6
  <2>2. data \ up \subseteq lived'
    BY <1>1, <2>1 DEF LivedIfDue
  <2>3. since # Unset => since .. second \subseteq lived'
    <3> SUFFICES ASSUME since # Unset, NEW s \in since .. second PROVE s \in lived'
      OBVIOUS
    <3>1. s \in since .. now \/ s \in now .. second
      BY <1>2, <1>3
    <3>2. since .. now \subseteq lived
      BY <1>1, <2>1 DEF LivedIfDue
    <3> QED BY <2>1, <3>1, <3>2
  <2>4. First(second) .. second \subseteq lived'
    <3> SUFFICES ASSUME NEW s \in First(second) .. second, s < now PROVE s \in lived
      BY <1>2, <1>3, <1>5, <2>1
    <3>1. s \in Int /\ First(second) <= s /\ First(second) < now
      BY <1>2, <1>5
    <3>2. \/ since # Unset /\ First(second) = since
          \/ unrecordedFrom # Unset /\ First(second) = unrecordedFrom
      <4>1. ASSUME since = Unset, unrecordedFrom = Unset PROVE FALSE
        <5>1. First(second) = Filled(second) /\ lastSecond \in {Unset, now}
          BY <1>1, <4>1 DEF First, Least, CaughtUp
        <5> QED BY <1>2, <1>3, <3>1, <5>1 DEF Filled
      <4>2. ASSUME since = Unset, unrecordedFrom # Unset, First(second) # unrecordedFrom PROVE FALSE
        <5>1. First(second) = Filled(second) /\ Filled(second) < unrecordedFrom
          BY <4>2 DEF First, Least
        <5>2. /\ unrecordedFrom <= now
              /\ lastSecond # Unset => unrecordedFrom <= lastSecond + 1 \/ now - lastSecond > MaxFilledGap
          BY <1>1, <2>1, <4>2 DEF CaughtUp
        <5> QED BY <1>2, <1>3, <4>2, <5>1, <5>2 DEF Filled
      <4>3. ASSUME since # Unset, First(second) # since,
                   ~(unrecordedFrom # Unset /\ First(second) = unrecordedFrom)
            PROVE  FALSE
        BY <1>2, <1>3, <3>1, <4>3 DEF First, Least
      <4> QED BY <4>1, <4>2, <4>3
    <3>3. CASE since # Unset /\ First(second) = since
      <4>1. s \in since .. now
        BY <1>2, <3>1, <3>3
      <4> QED BY <1>1, <2>1, <3>3, <4>1 DEF LivedIfDue
    <3>4. CASE unrecordedFrom # Unset /\ First(second) = unrecordedFrom
      <4>1. s \in unrecordedFrom .. now
        BY <1>2, <3>1, <3>4
      <4> QED BY <1>1, <2>1, <3>4, <4>1 DEF LivedIfDue
    <3> QED BY <3>2, <3>3, <3>4
  <2> QED BY <2>2, <2>3, <2>4
<1>7. CASE ~Pending
  <2>1. since = Unset /\ unrecordedFrom = Unset /\ data \subseteq up
    BY <1>7 DEF Pending
  <2>2. First(second) = Filled(second) /\ lastSecond \in {Unset, now}
    BY <1>1, <2>1 DEF First, Least, CaughtUp
  <2>3. First(second) = second \/ (~Gap(second) /\ First(second) = now + 1)
    BY <1>2, <1>3, <2>2 DEF Filled, Gap
  <2>4. First(second) .. second \subseteq lived'
    BY <1>2, <1>3, <1>4, <1>7, <2>3
  <2> QED BY <2>1, <2>4
<1> QED BY <1>6, <1>7

(* A call that succeeds or fails keeps the parts of the invariant.         *)
LEMMA CallKeeps ==
  ASSUME UptimeInv, NEW second \in Seconds, WakeAt(second),
         up \subseteq up', up' \subseteq up \cup data \cup First(second) .. second,
         data' \subseteq up \cup data \cup First(second) .. second, since' \in {since, Unset},
         \/ lastSecond' = second /\ unrecordedFrom' = Unset /\ First(second) .. second \subseteq up'
         \/ lastSecond' = lastSecond /\ unrecordedFrom' = First(second)
  PROVE  CaughtUp' /\ MarkedOrDue' /\ LivedIfDue'
<1>1. UptimeTypeOK /\ CaughtUp /\ MarkedOrDue /\ LivedIfDue
  BY DEF UptimeInv
<1>2. /\ now \in Int /\ second \in Int
      /\ lastSecond \in Int \cup {Unset} /\ unrecordedFrom \in Int \cup {Unset}
      /\ since \in Int \cup {Unset} /\ Unset \notin Int /\ MaxFilledGap \in Nat \ {0}
  BY <1>1, SecondsAreNumbers
<1>3. now' = second /\ (~back' => now <= second /\ (Pending => ~back))
  <2>1. now' = second /\ back' = (second < now \/ (Pending /\ back))
    BY DEF WakeAt
  <2>2. ~back' => ~(second < now) /\ (Pending => ~back)
    BY <2>1, Zenon
  <2> QED BY <1>2, <2>1, <2>2
<1>4. /\ First(second) \in Int /\ First(second) <= second
      /\ since # Unset => First(second) <= since
      /\ unrecordedFrom # Unset => First(second) <= unrecordedFrom
  BY <1>1, FirstIs, SecondsAreNumbers
<1>5. Pending \/ (since = Unset /\ unrecordedFrom = Unset)
  BY DEF Pending
<1>6. CaughtUp'
  <2>1. ~back' /\ since' # Unset => since' <= now'
    BY <1>1, <1>2, <1>3, <1>5 DEF CaughtUp
  <2>2. CASE lastSecond' = second /\ unrecordedFrom' = Unset
    BY <1>3, <2>1, <2>2 DEF CaughtUp
  <2>3. CASE lastSecond' = lastSecond /\ unrecordedFrom' = First(second)
    <3>1. ASSUME ~back', lastSecond # Unset
          PROVE  First(second) <= lastSecond + 1 \/ second - lastSecond > MaxFilledGap
      <4>1. CASE unrecordedFrom # Unset
        <5>1. unrecordedFrom <= lastSecond + 1 \/ now - lastSecond > MaxFilledGap
          BY <1>1, <1>3, <1>5, <3>1, <4>1 DEF CaughtUp
        <5> QED BY <1>2, <1>3, <1>4, <3>1, <4>1, <5>1
      <4>2. CASE unrecordedFrom = Unset /\ since # Unset
        <5>1. lastSecond = now /\ since <= now
          BY <1>1, <1>3, <1>5, <3>1, <4>2 DEF CaughtUp
        <5> QED BY <1>2, <1>4, <4>2, <5>1
      <4>3. CASE unrecordedFrom = Unset /\ since = Unset
        <5>1. lastSecond = now /\ First(second) = Filled(second)
          BY <1>1, <3>1, <4>3 DEF CaughtUp, First, Least
        <5> QED BY <1>2, <1>3, <3>1, <5>1 DEF Filled
      <4> QED BY <4>1, <4>2, <4>3
    <3>2. unrecordedFrom' # Unset /\ unrecordedFrom' <= now'
      BY <1>2, <1>3, <1>4, <2>3
    <3> QED BY <1>3, <2>1, <2>3, <3>1, <3>2 DEF CaughtUp
  <2> QED BY <2>2, <2>3
<1>7. MarkedOrDue'
  <2>1. called' = (IF Pending THEN called ELSE {}) \cup {second}
    BY DEF WakeAt
  <2>2. called' \subseteq Seconds
    BY <1>1, <2>1 DEF MarkedOrDue
  <2>3. ASSUME ~back', NEW s \in called'
        PROVE  s \in up' \/ (unrecordedFrom' # Unset /\ unrecordedFrom' <= s /\ s <= now')
    <3>1. s \in Int
      BY <1>1, <2>2, SecondsAreNumbers
    <3>2. s \in up \/ (First(second) <= s /\ s <= second)
      <4>1. CASE s = second
        BY <1>2, <1>4, <4>1
      <4>2. CASE s \in called /\ Pending
        <5>1. s \in up \/ (unrecordedFrom # Unset /\ unrecordedFrom <= s /\ s <= now)
          BY <1>1, <1>3, <2>3, <4>2 DEF MarkedOrDue
        <5> QED BY <1>2, <1>3, <1>4, <2>3, <3>1, <5>1
      <4>3. s = second \/ (s \in called /\ Pending)
        BY <2>1, <2>3, Zenon
      <4> QED BY <4>1, <4>2, <4>3
    <3>3. s \in up \/ s \in First(second) .. second
      BY <1>2, <1>4, <3>1, <3>2
    <3> QED BY <1>2, <1>3, <1>4, <3>2, <3>3
  <2> QED BY <2>2, <2>3 DEF MarkedOrDue
<1>8. LivedIfDue'
  <2> SUFFICES ASSUME ~back', ~fell'
               PROVE  /\ since' # Unset => since' .. now' \subseteq lived'
                      /\ unrecordedFrom' # Unset => unrecordedFrom' .. now' \subseteq lived'
                      /\ data' \ up' \subseteq lived'
    BY DEF LivedIfDue
  <2>1. /\ First(second) .. second \subseteq lived' /\ data \ up \subseteq lived'
        /\ since # Unset => since .. second \subseteq lived'
    BY CallIsLived
  <2> QED BY <1>3, <2>1
<1> QED BY <1>6, <1>7, <1>8

(* The types: what a call has in memory, and what it writes.               *)
LEMMA CallTypes ==
  ASSUME UptimeInv, NEW second \in Seconds, WakeAt(second),
         NEW W \in SUBSET DaysOf(second), up' = UpAfter(second, W),
         day' \in AllDays, data' = Loaded(second, day') \cup Marks(second, day'),
         \E S : synced' = synced \cup (up' \cap S),
         lastSecond' \in {lastSecond, second}, since' \in {since, Unset},
         unrecordedFrom' \in {First(second), Unset}
  PROVE  /\ UptimeTypeOK'
         /\ up \subseteq up' /\ up' \subseteq up \cup data \cup First(second) .. second
         /\ data' \subseteq up \cup data \cup First(second) .. second
<1>1. UptimeTypeOK /\ running /\ running' = running /\ now' = second
  BY DEF UptimeInv, WakeAt
<1>2. /\ up \subseteq up' /\ up' \subseteq Seconds
      /\ up' \subseteq up \cup data \cup First(second) .. second
      /\ up' \cap OfDay(day') \subseteq Loaded(second, day') \cup Marks(second, day')
  BY <1>1, Writing
<1>3. data' \subseteq OfDay(day') /\ data' \subseteq up \cup data \cup First(second) .. second
  <2>1. Loaded(second, day') \subseteq OfDay(day') /\ Loaded(second, day') \subseteq up \cup data
    BY <1>1, Loading
  <2>2. Marks(second, day') \subseteq OfDay(day') /\ Marks(second, day') \subseteq First(second) .. second
    BY DEF Marks
  <2> QED BY <2>1, <2>2
<1>4. /\ synced' \subseteq up' /\ now' \in Seconds
      /\ {lastSecond', unrecordedFrom', since'} \subseteq Seconds \cup {Unset}
      /\ day' \in {Unset} \cup AllDays /\ day' # Unset
  BY <1>1, <1>2, FirstIs, UptimeLogAssumption DEF UptimeTypeOK, AllDays
<1>5. UptimeTypeOK'
  BY <1>2, <1>3, <1>4 DEF UptimeTypeOK, AllDays
<1> QED BY <1>2, <1>3, <1>5

LEMMA SecondKeeps ==
  ASSUME UptimeInv, NEW second \in Seconds, RecordSecond(second)
  PROVE  UptimeInv' /\ (~fell' /\ ~back' => up' \ up \subseteq lived') /\ up \subseteq up'
<1>1. UptimeTypeOK /\ WakeAt(second) /\ running
  BY DEF UptimeInv, RecordSecond, WakeAt
<1>2. /\ up' = UpAfter(second, DaysOf(second)) /\ day' = DayOf(second)
      /\ data' = Loaded(second, day') \cup Marks(second, day')
      /\ lastSecond' = second /\ unrecordedFrom' = Unset /\ since' \in {since, Unset}
  BY DEF RecordSecond
<1>3. \E S : synced' = synced \cup (up' \cap S)
  <2> DEFINE left == UNION {OfDay(d) : d \in (DaysOf(second) \cup {day}) \ {Unset, day'}}
  <2>1. synced' = synced \cup (up' \cap left) \/ synced' = synced \cup (up' \cap (left \cup OfDay(day')))
    BY DEF RecordSecond
  <2> HIDE DEF left
  <2> QED BY <2>1
<1>4. DaysOf(second) \in SUBSET DaysOf(second) /\ day' \in AllDays
  BY <1>1, <1>2, HasDay
<1>5. /\ UptimeTypeOK' /\ up \subseteq up' /\ up' \subseteq up \cup data \cup First(second) .. second
      /\ data' \subseteq up \cup data \cup First(second) .. second
  BY <1>1, <1>2, <1>3, <1>4, CallTypes
<1>6. First(second) .. second \subseteq up'
  <2> SUFFICES ASSUME NEW s \in First(second) .. second PROVE s \in up'
    OBVIOUS
  <2>1. DayOf(s) \in DaysOf(second) /\ s \in Marks(second, DayOf(s))
    BY <1>1, DaysOfCall
  <2> QED BY <1>1, <1>2, <2>1, Writing
<1>7. CaughtUp' /\ MarkedOrDue' /\ LivedIfDue'
  BY <1>1, <1>2, <1>5, <1>6, CallKeeps
<1>8. NothingInMemory'
  BY <1>1 DEF NothingInMemory, WakeAt
<1>9. ~fell' /\ ~back' => up' \ up \subseteq lived'
  <2> SUFFICES ASSUME ~back', ~fell' PROVE up' \ up \subseteq lived'
    OBVIOUS
  <2>1. First(second) .. second \subseteq lived' /\ data \ up \subseteq lived'
    BY <1>1, CallIsLived
  <2> QED BY <1>5, <2>1
<1> QED BY <1>5, <1>7, <1>8, <1>9 DEF UptimeInv

LEMMA FailKeeps ==
  ASSUME UptimeInv, NEW second \in Seconds, NEW d \in DaysOf(second), NEW opened \in BOOLEAN,
         FailIn(second, d, opened)
  PROVE  UptimeInv' /\ (~fell' /\ ~back' => up' \ up \subseteq lived') /\ up \subseteq up'
<1> DEFINE W == {e \in DaysOf(second) : e < d}
           reached == W # {} \/ opened
<1>1. UptimeTypeOK /\ WakeAt(second) /\ running /\ running' = running /\ now' = second
  BY DEF UptimeInv, FailIn, WakeAt
<1>2. /\ unrecordedFrom' = First(second) /\ lastSecond' = lastSecond /\ since' = since
      /\ reached => /\ up' = UpAfter(second, W)
                    /\ data' = Loaded(second, day') \cup Marks(second, day')
      /\ ~reached => up' = up /\ data' = data /\ synced' = synced
      /\ day' = IF opened THEN d ELSE IF W # {} THEN d - 1 ELSE day
  BY DEF FailIn, MadeUpFrom
<1>3. \E S : synced' = synced \cup (up' \cap S)
  <2> DEFINE left == UNION {OfDay(e) : e \in (W \cup (IF Leaves(second) THEN {day} ELSE {})) \ {day'}}
  <2>1. synced' = synced \cup (up' \cap left) \/ synced' = synced \cup (up' \cap {})
    BY DEF FailIn
  <2> HIDE DEF left
  <2> QED BY <2>1
<1>4. First(second) \in Seconds
  BY <1>1, FirstIs
<1>5. /\ UptimeTypeOK' /\ up \subseteq up' /\ up' \subseteq up \cup data \cup First(second) .. second
      /\ data' \subseteq up \cup data \cup First(second) .. second
  <2>1. CASE reached
    <3>1. W \in SUBSET DaysOf(second)
      OBVIOUS
    <3>2. day' \in AllDays
      <4>1. DaysOf(second) \subseteq AllDays
        BY <1>1, DaysOfCall
      <4>2. ASSUME NEW e \in W PROVE d - 1 \in AllDays
        <5>1. e \in Nat /\ d \in Nat /\ e < d /\ d <= Days - 1 /\ Days \in Nat
          BY <4>1, UptimeLogAssumption DEF AllDays
        <5> QED BY <5>1 DEF AllDays
      <4> QED BY <1>2, <2>1, <4>1, <4>2
    <3> HIDE DEF W
    <3> QED BY <1>1, <1>2, <1>3, <2>1, <3>1, <3>2, CallTypes
  <2>2. CASE ~reached
    <3>1. up' = up /\ data' = data /\ synced' = synced /\ day' = day
      BY <1>2, <2>2
    <3> QED BY <1>1, <1>2, <1>4, <3>1 DEF UptimeTypeOK
  <2> QED BY <2>1, <2>2
<1>6. CaughtUp' /\ MarkedOrDue' /\ LivedIfDue'
  BY <1>1, <1>2, <1>5, CallKeeps
<1>7. NothingInMemory'
  BY <1>1 DEF NothingInMemory
<1>8. ~fell' /\ ~back' => up' \ up \subseteq lived'
  <2> SUFFICES ASSUME ~back', ~fell' PROVE up' \ up \subseteq lived'
    OBVIOUS
  <2>1. First(second) .. second \subseteq lived' /\ data \ up \subseteq lived'
    BY <1>1, CallIsLived
  <2> QED BY <1>5, <2>1
<1> QED BY <1>5, <1>6, <1>7, <1>8 DEF UptimeInv

LEMMA StartKeeps == ASSUME UptimeInv, StartRecording PROVE UptimeInv' /\ up' = up
<1>1. UptimeTypeOK /\ NothingInMemory /\ MarkedOrDue
  BY DEF UptimeInv
<1>2. /\ ~running /\ UNCHANGED <<day, data, lastSecond, unrecordedFrom, up, whole, synced, called, back, fell>>
      /\ now' \in Seconds
  BY DEF StartRecording, dayFiles
<1>3. PICK booted \in 0 .. MaxBackfill + 1 :
        since' = IF booted <= MaxBackfill /\ now' - booted \in Seconds THEN now' - booted ELSE Unset
  BY DEF StartRecording
<1>4. now' \in Int /\ booted \in Nat
  <2>1. MaxBackfill \in Nat
    BY UptimeLogAssumption
  <2> QED BY <1>1, <1>2, <2>1, SecondsAreNumbers
<1>5. lived' = IF since' = Unset THEN {now'} ELSE since' .. now'
  BY DEF StartRecording
<1>6. day = Unset /\ data = {} /\ called = {} /\ lastSecond = Unset /\ unrecordedFrom = Unset
  BY <1>1, <1>2 DEF NothingInMemory
<1>7. since' \in Seconds \cup {Unset} /\ (since' # Unset => since' <= now')
  <2>1. CASE booted <= MaxBackfill /\ now' - booted \in Seconds
    <3>1. since' = now' - booted
      BY <1>3, <2>1
    <3>2. \A a \in Int, b \in Nat : a - b <= a
      OBVIOUS
    <3>3. now' - booted <= now'
      BY <1>4, <3>2
    <3> QED BY <2>1, <3>1, <3>3
  <2>2. CASE ~(booted <= MaxBackfill /\ now' - booted \in Seconds)
    BY <1>3, <2>2
  <2> QED BY <2>1, <2>2
<1>8. UptimeTypeOK'
  BY <1>1, <1>2, <1>6, <1>7 DEF UptimeTypeOK
<1>9. NothingInMemory'
  BY DEF NothingInMemory, StartRecording
<1>10. CaughtUp' /\ MarkedOrDue' /\ LivedIfDue'
  BY <1>2, <1>5, <1>6, <1>7 DEF CaughtUp, MarkedOrDue, LivedIfDue
<1> QED BY <1>2, <1>8, <1>9, <1>10 DEF UptimeInv

LEMMA EndKeeps ==
  ASSUME UptimeInv, ProcessEnds \/ Crash
  PROVE  UptimeInv' /\ up' \subseteq up /\ ~running'
<1>1. UptimeTypeOK
  BY DEF UptimeInv
<1>2. /\ ~running' /\ day' = Unset /\ data' = {} /\ lastSecond' = Unset /\ unrecordedFrom' = Unset
      /\ since' = Unset /\ called' = {} /\ now' = now /\ synced' = synced
  BY DEF ProcessEnds, Crash, Gone, dayFiles
<1>3. up' \subseteq up /\ synced \subseteq up'
  BY <1>1 DEF ProcessEnds, Crash, dayFiles, UptimeTypeOK
<1>4. UptimeTypeOK'
  BY <1>1, <1>2, <1>3 DEF UptimeTypeOK
<1>5. NothingInMemory' /\ CaughtUp' /\ MarkedOrDue' /\ LivedIfDue'
  BY <1>2 DEF NothingInMemory, CaughtUp, MarkedOrDue, LivedIfDue
<1> QED BY <1>2, <1>3, <1>4, <1>5 DEF UptimeInv

LEMMA UptimeStarts == UptimeInit => UptimeInv
<1> SUFFICES ASSUME UptimeInit PROVE UptimeInv
  OBVIOUS
<1>1. 0 \in Seconds
  <2>1. SecondsPerDay \in Nat \ {0} /\ Days \in Nat \ {0} /\ SecondsPerDay * 1 <= SecondsPerDay * Days
    BY UptimeLogAssumption, TimesMonotone
  <2> QED BY <2>1 DEF Seconds
<1>2. UptimeTypeOK
  BY <1>1 DEF UptimeInit, UptimeTypeOK
<1> QED BY <1>2 DEF UptimeInit, UptimeInv, NothingInMemory, CaughtUp, MarkedOrDue, LivedIfDue

LEMMA UptimeStep ==
  ASSUME UptimeInv, [UptimeNext]_uptimeVars
  PROVE  /\ UptimeInv'
         /\ ~fell' /\ ~back' => up' \ up \subseteq lived'
         /\ running' => up \subseteq up'
<1>1. CASE StartRecording
  BY <1>1, StartKeeps
<1>2. ASSUME NEW second \in Seconds, RecordSecond(second)
      PROVE  UptimeInv' /\ (~fell' /\ ~back' => up' \ up \subseteq lived') /\ up \subseteq up'
  BY <1>2, SecondKeeps
<1>3. ASSUME NEW second \in Seconds, Fail(second)
      PROVE  UptimeInv' /\ (~fell' /\ ~back' => up' \ up \subseteq lived') /\ up \subseteq up'
  <2>1. PICK d \in DaysOf(second), opened \in BOOLEAN : FailIn(second, d, opened)
    BY <1>3 DEF Fail
  <2> QED BY <2>1, FailKeeps
<1>4. CASE ProcessEnds \/ Crash
  BY <1>4, EndKeeps
<1>5. CASE UNCHANGED uptimeVars
  BY <1>5 DEF uptimeVars, UptimeInv, UptimeTypeOK, NothingInMemory, CaughtUp, MarkedOrDue, LivedIfDue
<1> QED BY <1>1, <1>2, <1>3, <1>4, <1>5 DEF UptimeNext

(* All the uptime log keeps has its type: in memory there are seconds of   *)
(* one day only, and all those its file has.                               *)
THEOREM UptimeTypesCorrect == UptimeSpec => []UptimeTypeOK
<1>1. UptimeInv => UptimeTypeOK
  BY DEF UptimeInv
<1> QED BY <1>1, UptimeStarts, UptimeStep, PTL DEF UptimeSpec

(* What the watchdog has called for is marked as soon as a call succeeds,  *)
(* whichever of those before it failed, unless the clock went back.        *)
THEOREM CallsGetMarked == UptimeSpec => []CallsAreMarked
<1>1. UptimeInv => CallsAreMarked
  BY DEF UptimeInv, MarkedOrDue, CallsAreMarked
<1> QED BY <1>1, UptimeStarts, UptimeStep, PTL DEF UptimeSpec

(* No step marks a second that wasn't lived, unless the clock was set or a *)
(* long stall followed a failure, and none but a crash unmarks one.        *)
THEOREM MarksStayTrue == UptimeSpec => MarksAreTrue
<1>1. ASSUME UptimeInv, [UptimeNext]_uptimeVars
      PROVE  [/\ ~fell' /\ ~back' => up' \ up \subseteq lived'
              /\ running' => up \subseteq up']_uptimeVars
  BY <1>1, UptimeStep
<1>2. ASSUME UptimeInv, [UptimeNext]_uptimeVars PROVE UptimeInv'
  BY <1>2, UptimeStep
<1> QED BY <1>1, <1>2, UptimeStarts, PTL DEF UptimeSpec, MarksAreTrue

-----------------------------------------------------------------------------
(* The reports                                                             *)

(* The runs of marked seconds: where each begins, and how far it goes.     *)
Starts(bits) == {s \in bits : s - 1 \notin bits}
EndFrom(bits, start) == Max({end \in bits : start .. end \subseteq bits})

LEMMA EndIs ==
  ASSUME NEW n \in Nat, NEW bits \in SUBSET (0 .. n), NEW start \in bits
  PROVE  /\ EndFrom(bits, start) \in bits /\ start <= EndFrom(bits, start)
         /\ start .. EndFrom(bits, start) \subseteq bits
         /\ EndFrom(bits, start) + 1 \notin bits
         /\ \A s \in bits : start .. s \subseteq bits => s <= EndFrom(bits, start)
<1> DEFINE ends == {end \in bits : start .. end \subseteq bits}
           e == EndFrom(bits, start)
<1>1. start \in ends
  BY start .. start = {start}
<1>2. e \in ends /\ \A j \in ends : e >= j
  <2>1. ends \in SUBSET (0 .. n) /\ ends # {}
    BY <1>1
  <2> HIDE DEF ends
  <2>2. Max(ends) \in ends /\ \A j \in ends : Max(ends) >= j
    BY <2>1, MaxExists
  <2> QED BY <2>2 DEF EndFrom, ends
<1> HIDE DEF e
<1>3. \A s \in bits : s \in Nat
  OBVIOUS
<1>4. e \in bits /\ e \in Nat /\ start \in Nat /\ start <= e /\ start .. e \subseteq bits
  BY <1>1, <1>2, <1>3
<1>5. e + 1 \notin bits
  <2> SUFFICES ASSUME e + 1 \in bits PROVE FALSE
    OBVIOUS
  <2>1. start .. e + 1 = (start .. e) \cup {e + 1}
    BY <1>4
  <2>2. e + 1 \in ends
    BY <1>4, <2>1
  <2>3. e >= e + 1
    BY <1>2, <2>2
  <2> QED BY <1>4, <2>3
<1>6. \A s \in bits : start .. s \subseteq bits => s <= e
  BY <1>2, <1>3, <1>4
<1> QED BY <1>4, <1>5, <1>6 DEF e

(* A second marked is in a run.                                            *)
LEMMA InItsRun ==
  ASSUME NEW n \in Nat, NEW bits \in SUBSET (0 .. n), NEW s \in bits
  PROVE  \E start \in Starts(bits) : start <= s /\ s <= EndFrom(bits, start)
<1> DEFINE from == {a \in 0 .. s : a .. s \subseteq bits}
<1>1. s \in Nat /\ s \in from
  BY s .. s = {s}
<1>2. PICK a \in from : \A b \in from : a <= b
  <2>1. from \in SUBSET Nat /\ from # {}
    BY <1>1
  <2> HIDE DEF from
  <2> QED BY <2>1, MinExists
<1>3. a \in Nat /\ a <= s /\ a .. s \subseteq bits /\ a \in a .. s
  BY <1>1, <1>2
<1>4. a - 1 \notin bits
  <2> SUFFICES ASSUME a - 1 \in bits PROVE FALSE
    OBVIOUS
  <2>1. a - 1 \in 0 .. s
    BY <1>1, <1>3
  <2>2. a - 1 .. s = {a - 1} \cup (a .. s)
    BY <1>1, <1>3
  <2>3. a - 1 \in from
    BY <1>3, <2>1, <2>2
  <2>4. a <= a - 1
    BY <1>2, <2>3
  <2> QED BY <1>3, <2>4
<1>5. a \in Starts(bits)
  BY <1>3, <1>4 DEF Starts
<1>6. s <= EndFrom(bits, a)
  BY <1>3, EndIs
<1> QED BY <1>3, <1>5, <1>6

(* A report's periods are the runs, and there is one for every start.      *)
LEMMA PeriodsAre ==
  ASSUME NEW n \in Nat, NEW bits \in SUBSET (0 .. n)
  PROVE  /\ UpPeriods(bits) = {<<start, EndFrom(bits, start)>> : start \in Starts(bits)}
         /\ Starts(bits) = bits \ {s + 1 : s \in bits}
         /\ IsFiniteSet(bits) /\ IsFiniteSet(Starts(bits)) /\ IsFiniteSet(UpPeriods(bits))
         /\ Cardinality(UpPeriods(bits)) = StartCount(bits)
<1>1. UpPeriods(bits) = {<<start, EndFrom(bits, start)>> : start \in Starts(bits)}
  BY DEF UpPeriods, EndFrom, Starts
<1>2. Starts(bits) = bits \ {s + 1 : s \in bits}
  <2>1. ASSUME NEW s \in bits PROVE s - 1 \in bits <=> s \in {t + 1 : t \in bits}
    <3>1. \A t \in bits : t \in Int /\ (s = t + 1 <=> t = s - 1)
      OBVIOUS
    <3>2. s = s - 1 + 1
      OBVIOUS
    <3> QED BY <3>1, <3>2
  <2> QED BY <2>1 DEF Starts
<1>3. IsFiniteSet(bits) /\ IsFiniteSet(Starts(bits))
  <2>1. IsFiniteSet(0 .. n)
    BY FS_Interval
  <2> QED BY <2>1, FS_Subset DEF Starts
<1> DEFINE run == [start \in Starts(bits) |-> <<start, EndFrom(bits, start)>>]
<1>4. run \in Bijection(Starts(bits), UpPeriods(bits))
  BY <1>1 DEF Bijection, Injection, Surjection, IsInjective
<1>5. IsFiniteSet(UpPeriods(bits)) /\ Cardinality(UpPeriods(bits)) = Cardinality(Starts(bits))
  <2>1. ExistsBijection(Starts(bits), UpPeriods(bits))
    BY <1>4 DEF ExistsBijection
  <2> QED BY <1>3, <2>1, FS_Bijection
<1> QED BY <1>1, <1>2, <1>3, <1>5 DEF StartCount

(* The periods' lengths add up to the seconds marked: they are apart, and  *)
(* each second is in one.                                                  *)
LEMMA LengthsAddUp ==
  ASSUME NEW n \in Nat, NEW bits \in SUBSET (0 .. n)
  PROVE  SumFunction([p \in UpPeriods(bits) |-> p[2] - p[1] + 1]) = ActiveSeconds(bits)
<1> DEFINE periods == UpPeriods(bits)
           lengths == [p \in periods |-> p[2] - p[1] + 1]
           kind == [p \in periods |-> p[1] .. p[2]]
<1>1. periods = {<<start, EndFrom(bits, start)>> : start \in Starts(bits)} /\ IsFiniteSet(periods)
  BY PeriodsAre
<1>2. ASSUME NEW p \in periods
      PROVE  /\ p[1] \in Starts(bits) /\ p[2] = EndFrom(bits, p[1]) /\ p = <<p[1], p[2]>>
             /\ p[1] \in bits /\ p[2] \in bits /\ p[1] <= p[2] /\ p[1] .. p[2] \subseteq bits
  <2>1. PICK start \in Starts(bits) : p = <<start, EndFrom(bits, start)>>
    BY <1>1
  <2>2. start \in bits
    BY DEF Starts
  <2> QED BY <2>1, <2>2, EndIs
<1>3. \A p \in periods : IsFiniteSet(kind[p]) /\ lengths[p] = Cardinality(kind[p])
  <2> SUFFICES ASSUME NEW p \in periods
               PROVE  IsFiniteSet(p[1] .. p[2]) /\ p[2] - p[1] + 1 = Cardinality(p[1] .. p[2])
    OBVIOUS
  <2>1. p[1] \in Int /\ p[2] \in Int /\ ~(p[1] > p[2])
    BY <1>2
  <2> QED BY <2>1, FS_Interval
<1>4. ASSUME NEW p \in periods, NEW q \in periods, NEW s \in kind[p], s \in kind[q]
      PROVE  ~(p[1] < q[1])
  <2> SUFFICES ASSUME p[1] < q[1] PROVE FALSE
    OBVIOUS
  <2>1. /\ p[1] \in Nat /\ p[2] \in Nat /\ q[1] \in Nat /\ q[2] \in Nat
        /\ s \in p[1] .. p[2] /\ s \in q[1] .. q[2]
    <3>1. p[1] \in bits /\ p[2] \in bits /\ q[1] \in bits /\ q[2] \in bits
      BY <1>2
    <3>2. s \in p[1] .. p[2] /\ s \in q[1] .. q[2]
      BY <1>4
    <3>3. \A b \in bits : b \in Nat
      OBVIOUS
    <3> QED BY <3>1, <3>2, <3>3
  <2>2. q[1] - 1 \in p[1] .. p[2]
    BY <2>1
  <2> QED BY <1>2, <2>2 DEF Starts
<1>5. \A p, q \in periods : p # q => kind[p] \cap kind[q] = {}
  <2> SUFFICES ASSUME NEW p \in periods, NEW q \in periods, NEW s \in kind[p], s \in kind[q]
               PROVE  p = q
    OBVIOUS
  <2>1. ~(p[1] < q[1]) /\ ~(q[1] < p[1]) /\ p[1] \in Int /\ q[1] \in Int
    BY <1>2, <1>4
  <2>2. p[1] = q[1]
    BY <2>1
  <2> QED BY <1>2, <2>2
<1>6. InAll(kind, periods) = bits
  <2>1. ASSUME NEW s \in bits PROVE s \in InAll(kind, periods)
    <3>1. PICK start \in Starts(bits) : start <= s /\ s <= EndFrom(bits, start)
      BY InItsRun
    <3> DEFINE p == <<start, EndFrom(bits, start)>>
    <3>2. p \in periods /\ p[1] = start /\ p[2] = EndFrom(bits, start)
      BY <1>1
    <3> HIDE DEF p
    <3>3. s \in p[1] .. p[2]
      <4>1. p[1] \in Nat /\ p[2] \in Nat /\ s \in Nat
        BY <1>2, <3>2
      <4> QED BY <3>1, <3>2, <4>1
    <3> QED BY <3>2, <3>3 DEF InAll
  <2>2. ASSUME NEW s \in InAll(kind, periods) PROVE s \in bits
    <3>1. PICK p \in periods : s \in p[1] .. p[2]
      BY DEF InAll
    <3> QED BY <1>2, <3>1
  <2> QED BY <2>1, <2>2
<1>7. SumFunction(lengths) = SumFunctionOnSet(lengths, periods)
  BY DEF SumFunction
<1>8. SumFunctionOnSet(lengths, periods) = Cardinality(InAll(kind, periods))
  <2> HIDE DEF lengths, kind, periods
  <2> QED BY <1>1, <1>3, <1>5, SumCounts
<1> QED BY <1>6, <1>7, <1>8 DEF ActiveSeconds

(* A run of a day's marks begins in its first second if that is marked,    *)
(* and one ends in its last if that is.                                    *)
LEMMA DayRuns ==
  ASSUME UptimeTypeOK, NEW d \in AllDays
  PROVE  /\ \E n \in Nat : up \in SUBSET (0 .. n) /\ DayBits(d) \in SUBSET (0 .. n)
         /\ d * SecondsPerDay \in Nat /\ d * SecondsPerDay \in OfDay(d)
         /\ (d + 1) * SecondsPerDay - 1 \in OfDay(d)
         /\ \A s \in OfDay(d) : s \in Nat /\ (s - 1 \notin OfDay(d) <=> s = d * SecondsPerDay)
         /\ (\E p \in UpPeriods(DayBits(d)) : p[1] = d * SecondsPerDay) <=> d * SecondsPerDay \in up
         /\ (\E p \in UpPeriods(DayBits(d)) : p[2] = (d + 1) * SecondsPerDay - 1)
              <=> (d + 1) * SecondsPerDay - 1 \in up
<1> DEFINE first == d * SecondsPerDay
           last == (d + 1) * SecondsPerDay - 1
           bits == DayBits(d)
<1>1. SecondsPerDay \in Nat \ {0} /\ Days \in Nat \ {0} /\ SecondsPerDay * Days \in Nat /\ d \in Nat
  BY UptimeLogAssumption DEF AllDays
<1>2. first \in Nat /\ last \in Nat /\ first <= last /\ OfDay(d) = first .. last
  <2>1. OfDay(d) = SecondsPerDay * d .. SecondsPerDay * d + SecondsPerDay - 1 /\ SecondsPerDay * d \in Nat
    BY DayBounds
  <2>2. first = SecondsPerDay * d /\ last = SecondsPerDay * d + SecondsPerDay - 1
    BY <1>1
  <2> HIDE DEF first, last
  <2> QED BY <1>1, <2>1, <2>2
<1> HIDE DEF first, last
<1>3. PICK n \in Nat : up \in SUBSET (0 .. n) /\ bits \in SUBSET (0 .. n)
  <2>1. up \subseteq Seconds
    BY DEF UptimeTypeOK
  <2>2. SecondsPerDay * Days - 1 \in Int /\ SecondsPerDay * Days \in Nat
    BY <1>1
  <2>3. up \in SUBSET (0 .. SecondsPerDay * Days)
    BY <2>1, <2>2 DEF Seconds
  <2> QED BY <2>2, <2>3 DEF DayBits
<1>4. \A s \in OfDay(d) : s \in Nat /\ (s - 1 \notin OfDay(d) <=> s = first)
  BY <1>2
<1>5. UpPeriods(bits) = {<<start, EndFrom(bits, start)>> : start \in Starts(bits)}
  BY <1>3, PeriodsAre
<1>6. (\E p \in UpPeriods(bits) : p[1] = first) <=> first \in up
  <2>1. ASSUME NEW p \in UpPeriods(bits), p[1] = first PROVE first \in up
    BY <1>5, <2>1 DEF Starts, DayBits
  <2>2. ASSUME first \in up PROVE \E p \in UpPeriods(bits) : p[1] = first
    <3>1. first \in Starts(bits)
      BY <1>2, <1>4, <2>2 DEF Starts, DayBits
    <3>2. <<first, EndFrom(bits, first)>> \in UpPeriods(bits)
      BY <1>5, <3>1
    <3> QED BY <3>2
  <2> QED BY <2>1, <2>2
<1>7. (\E p \in UpPeriods(bits) : p[2] = last) <=> last \in up
  <2>1. ASSUME NEW p \in UpPeriods(bits), p[2] = last PROVE last \in up
    <3>1. PICK start \in Starts(bits) : p = <<start, EndFrom(bits, start)>>
      BY <1>5
    <3>2. start \in bits
      BY DEF Starts
    <3>3. EndFrom(bits, start) \in bits
      BY <1>3, <3>2, EndIs
    <3> QED BY <2>1, <3>1, <3>3 DEF DayBits
  <2>2. ASSUME last \in up PROVE \E p \in UpPeriods(bits) : p[2] = last
    <3>1. last \in bits
      BY <1>2, <2>2 DEF DayBits
    <3>2. PICK start \in Starts(bits) : start <= last /\ last <= EndFrom(bits, start)
      BY <1>3, <3>1, InItsRun
    <3>3. EndFrom(bits, start) \in bits
      BY <1>3, EndIs DEF Starts
    <3>4. EndFrom(bits, start) \in first .. last
      BY <1>2, <3>3 DEF DayBits
    <3>5. EndFrom(bits, start) = last
      BY <1>2, <3>2, <3>4
    <3>6. <<start, EndFrom(bits, start)>> \in UpPeriods(bits)
      BY <1>5
    <3> QED BY <3>5, <3>6
  <2> QED BY <2>1, <2>2
<1> QED BY <1>2, <1>3, <1>4, <1>6, <1>7 DEF first, last

(* A day's first period goes on from the day before exactly when that day  *)
(* says so: when the seconds on both sides of midnight are marked.         *)
LEMMA MidnightsAgree ==
  ASSUME UptimeTypeOK, NEW d \in AllDays, d > 0
  PROVE  /\ d - 1 \in AllDays
         /\ FromPreviousDay(d) <=> d * SecondsPerDay \in up /\ d * SecondsPerDay - 1 \in up
         /\ FromPreviousDay(d) <=> IntoNextDay(d - 1)
<1>1. d \in Int /\ SecondsPerDay \in Nat \ {0} /\ d - 1 \in AllDays /\ d - 1 + 1 = d
  BY UptimeLogAssumption DEF AllDays
<1>2. d * SecondsPerDay \in OfDay(d) /\ d * SecondsPerDay - 1 \in OfDay(d - 1)
  <2>1. d * SecondsPerDay \in OfDay(d) /\ (d - 1 + 1) * SecondsPerDay - 1 \in OfDay(d - 1)
    BY <1>1, DayRuns
  <2> QED BY <1>1, <2>1
<1>3. FromPreviousDay(d) <=> d * SecondsPerDay \in up /\ d * SecondsPerDay - 1 \in up
  BY <1>2, DayRuns DEF FromPreviousDay, DayBits
<1>4. IntoNextDay(d - 1) <=> d * SecondsPerDay - 1 \in up /\ d * SecondsPerDay \in up
  <2>1. (\E p \in UpPeriods(DayBits(d - 1)) : p[2] = (d - 1 + 1) * SecondsPerDay - 1)
          <=> (d - 1 + 1) * SecondsPerDay - 1 \in up
    BY <1>1, DayRuns
  <2> QED BY <1>1, <1>2, <2>1 DEF IntoNextDay, DayBits
<1> QED BY <1>1, <1>3, <1>4

(* The days' starts are those of all the days together, and the midnights  *)
(* a run goes on over.                                                     *)
LEMMA StartsAddUp ==
  ASSUME UptimeTypeOK
  PROVE  Cardinality(UpPeriods(up)) + Cardinality({d \in 0 .. Days - 1 : FromPreviousDay(d)})
           = SumFunction([d \in 0 .. Days - 1 |-> StartCount(DayBits(d))])
<1> DEFINE counts == [d \in AllDays |-> StartCount(DayBits(d))]
           kind == [d \in AllDays |-> Starts(DayBits(d))]
           goingOn == {d \in AllDays : FromPreviousDay(d)}
           midnights == {d * SecondsPerDay : d \in goingOn}
<1>1. PICK n \in Nat : up \in SUBSET (0 .. n)
  <2>1. SecondsPerDay * Days - 1 \in Int /\ SecondsPerDay * Days \in Nat /\ up \subseteq Seconds
    BY UptimeLogAssumption DEF UptimeTypeOK
  <2>2. up \in SUBSET (0 .. SecondsPerDay * Days)
    BY <2>1 DEF Seconds
  <2> QED BY <2>1, <2>2
<1>2. /\ IsFiniteSet(Starts(up)) /\ Cardinality(UpPeriods(up)) = Cardinality(Starts(up))
      /\ \A s \in up : s \in Seconds /\ s \in Nat
  <2>1. Starts(up) = up \ {s + 1 : s \in up} /\ IsFiniteSet(Starts(up))
        /\ Cardinality(UpPeriods(up)) = StartCount(up)
    BY <1>1, PeriodsAre
  <2> QED BY <1>1, <2>1 DEF StartCount, UptimeTypeOK
<1>3. \A d \in AllDays : IsFiniteSet(kind[d]) /\ counts[d] = Cardinality(kind[d])
  <2> SUFFICES ASSUME NEW d \in AllDays
               PROVE  /\ IsFiniteSet(Starts(DayBits(d)))
                      /\ StartCount(DayBits(d)) = Cardinality(Starts(DayBits(d)))
    OBVIOUS
  <2>1. DayBits(d) \in SUBSET (0 .. n)
    BY <1>1 DEF DayBits
  <2>2. Starts(DayBits(d)) = DayBits(d) \ {s + 1 : s \in DayBits(d)} /\ IsFiniteSet(Starts(DayBits(d)))
    BY <2>1, PeriodsAre
  <2> QED BY <2>2 DEF StartCount
<1>4. \A d, e \in AllDays : d # e => kind[d] \cap kind[e] = {}
  <2> SUFFICES ASSUME NEW d \in AllDays, NEW e \in AllDays, NEW s \in OfDay(d), s \in OfDay(e)
               PROVE  d = e
    BY DEF Starts, DayBits
  <2> QED BY InItsDay
<1>5. IsFiniteSet(AllDays)
  BY UptimeLogAssumption, FS_Interval DEF AllDays
<1>6. SumFunction(counts) = Cardinality(InAll(kind, AllDays))
  <2>1. SumFunction(counts) = SumFunctionOnSet(counts, AllDays)
    BY DEF SumFunction
  <2> HIDE DEF counts, kind
  <2>2. SumFunctionOnSet(counts, AllDays) = Cardinality(InAll(kind, AllDays))
    BY <1>3, <1>4, <1>5, SumCounts
  <2> QED BY <2>1, <2>2
<1>7. ASSUME NEW d \in AllDays, NEW s \in DayBits(d), s - 1 \in up
      PROVE  s \in Starts(DayBits(d)) <=> d \in goingOn /\ s = d * SecondsPerDay
  <2>1. s \in Nat /\ s \in up /\ s \in OfDay(d) /\ s - 1 \in Nat
    BY <1>2, <1>7 DEF DayBits
  <2>2. s \in Starts(DayBits(d)) <=> s = d * SecondsPerDay
    BY <1>7, <2>1, DayRuns DEF Starts, DayBits
  <2>3. ASSUME s = d * SecondsPerDay PROVE FromPreviousDay(d)
    <3>1. d # 0
      <4>1. SecondsPerDay \in Nat /\ 0 * SecondsPerDay = 0
        BY UptimeLogAssumption
      <4> QED BY <2>1, <2>3, <4>1
    <3>2. d > 0
      BY <3>1 DEF AllDays
    <3> QED BY <1>7, <2>1, <2>3, <3>2, MidnightsAgree
  <2> QED BY <2>2, <2>3
<1>8. ASSUME NEW d \in goingOn
      PROVE  /\ d * SecondsPerDay \in DayBits(d) /\ d * SecondsPerDay - 1 \in up
  <2>1. d > 0 /\ d \in AllDays
    BY DEF FromPreviousDay
  <2>2. d * SecondsPerDay \in up /\ d * SecondsPerDay - 1 \in up /\ d * SecondsPerDay \in OfDay(d)
    BY <2>1, MidnightsAgree, DayRuns
  <2> QED BY <2>2 DEF DayBits
<1>9. InAll(kind, AllDays) = Starts(up) \cup midnights /\ Starts(up) \cap midnights = {}
  <2>1. ASSUME NEW s \in InAll(kind, AllDays) PROVE s \in Starts(up) \cup midnights
    <3>1. PICK d \in AllDays : s \in Starts(DayBits(d))
      BY DEF InAll
    <3>2. s \in DayBits(d) /\ s \in up
      BY <3>1 DEF Starts, DayBits
    <3>3. CASE s - 1 \in up
      BY <1>7, <3>1, <3>2, <3>3
    <3>4. CASE s - 1 \notin up
      BY <3>2, <3>4 DEF Starts
    <3> QED BY <3>3, <3>4
  <2>2. ASSUME NEW s \in Starts(up) PROVE s \in InAll(kind, AllDays)
    <3>1. s \in up /\ s - 1 \notin up /\ DayOf(s) \in AllDays /\ s \in OfDay(DayOf(s))
      BY <1>2, HasDay DEF Starts
    <3>2. s \in Starts(DayBits(DayOf(s)))
      BY <3>1 DEF Starts, DayBits
    <3> QED BY <3>1, <3>2 DEF InAll
  <2>3. ASSUME NEW s \in midnights PROVE s \in InAll(kind, AllDays) /\ s \notin Starts(up)
    <3>1. PICK d \in goingOn : s = d * SecondsPerDay
      OBVIOUS
    <3>2. d \in AllDays /\ s \in DayBits(d) /\ s - 1 \in up
      BY <1>8, <3>1
    <3>3. s \in Starts(DayBits(d))
      BY <1>7, <3>1, <3>2
    <3> QED BY <3>2, <3>3 DEF InAll, Starts
  <2> HIDE DEF kind, midnights
  <2> QED BY <2>1, <2>2, <2>3
<1>10. IsFiniteSet(midnights) /\ Cardinality(midnights) = Cardinality(goingOn)
  <2> DEFINE begin == [d \in goingOn |-> d * SecondsPerDay]
  <2>1. IsFiniteSet(goingOn)
    BY <1>5, FS_Subset
  <2>2. ASSUME NEW d \in goingOn, NEW e \in goingOn, d * SecondsPerDay = e * SecondsPerDay PROVE d = e
    BY <2>2, DayRuns, InItsDay
  <2>3. begin \in Bijection(goingOn, midnights)
    BY <2>2 DEF Bijection, Injection, Surjection, IsInjective
  <2>4. ExistsBijection(goingOn, midnights)
    BY <2>3 DEF ExistsBijection
  <2> QED BY <2>1, <2>4, FS_Bijection
<1>11. Cardinality(InAll(kind, AllDays)) = Cardinality(Starts(up)) + Cardinality(midnights)
  <2> HIDE DEF kind, midnights
  <2>1. Cardinality(Starts(up) \cup midnights)
          = Cardinality(Starts(up)) + Cardinality(midnights) - Cardinality(Starts(up) \cap midnights)
    BY <1>2, <1>10, FS_Union
  <2>2. Cardinality(Starts(up) \cap midnights) = 0
    BY <1>9, FS_EmptySet
  <2>3. Cardinality(Starts(up)) \in Nat /\ Cardinality(midnights) \in Nat
    BY <1>2, <1>10, FS_CardinalityType
  <2>4. Cardinality(InAll(kind, AllDays)) = Cardinality(Starts(up) \cup midnights)
    BY <1>9
  <2> QED BY <2>1, <2>2, <2>3, <2>4
<1> QED BY <1>2, <1>6, <1>10, <1>11 DEF AllDays

(* The second of the last call that succeeded is marked.                   *)
LastMarked == lastSecond # Unset /\ unrecordedFrom = Unset => now \in up

LEMMA LastStaysMarked ==
  ASSUME UptimeInv, LastMarked, [UptimeNext]_uptimeVars
  PROVE  LastMarked'
<1>1. UptimeTypeOK
  BY DEF UptimeInv
<1>2. ASSUME NEW second \in Seconds, RecordSecond(second) PROVE now' \in up'
  <2>1. up' = UpAfter(second, DaysOf(second)) /\ now' = second /\ running
    BY <1>2 DEF RecordSecond, WakeAt
  <2>2. second \in First(second) .. second
    <3>1. First(second) \in Seconds /\ First(second) <= second
      BY <1>1, FirstIs
    <3>2. First(second) \in Int /\ second \in Int
      BY <1>1, <3>1, SecondsAreNumbers
    <3> QED BY <3>1, <3>2
  <2>3. DayOf(second) \in DaysOf(second) /\ second \in Marks(second, DayOf(second))
    BY <1>1, <2>2, DaysOfCall
  <2>4. DaysOf(second) \in SUBSET DaysOf(second)
    OBVIOUS
  <2>5. Marks(second, DayOf(second)) \subseteq UpAfter(second, DaysOf(second))
    BY <1>1, <2>1, <2>3, <2>4, Writing
  <2> QED BY <2>1, <2>3, <2>5
<1>3. ASSUME NEW second \in Seconds, Fail(second) PROVE unrecordedFrom' # Unset
  <2>1. unrecordedFrom' = First(second)
    BY <1>3 DEF Fail, FailIn, MadeUpFrom
  <2>2. First(second) \in Seconds
    BY <1>1, FirstIs
  <2> QED BY <1>1, <2>1, <2>2, SecondsAreNumbers
<1>4. CASE StartRecording
  BY <1>4 DEF StartRecording, UptimeInv, NothingInMemory, LastMarked
<1>5. CASE ProcessEnds \/ Crash
  BY <1>5 DEF ProcessEnds, Crash, Gone, LastMarked
<1>6. CASE UNCHANGED uptimeVars
  BY <1>6 DEF uptimeVars, LastMarked
<1> QED BY <1>2, <1>3, <1>4, <1>5, <1>6 DEF UptimeNext, LastMarked

(* The last period stays ongoing while the process may yet fill the gap.   *)
LEMMA LastOngoing ==
  ASSUME UptimeTypeOK, now \in up
  PROVE  Ongoing(DayOf(now), Min({now + MaxFilledGap + 1, (DayOf(now) + 1) * SecondsPerDay - 1}))
<1> DEFINE d == DayOf(now)
           last == (d + 1) * SecondsPerDay - 1
           at == Min({now + MaxFilledGap + 1, last})
<1>1. d \in AllDays /\ now \in OfDay(d) /\ now \in DayBits(d) /\ now \in Int /\ MaxFilledGap \in Nat
  BY HasDay, SecondsAreNumbers DEF UptimeTypeOK, DayBits
<1>2. OfDay(d) = SecondsPerDay * d .. last /\ SecondsPerDay * d \in Nat /\ last \in Nat
  <2>1. SecondsPerDay \in Nat /\ d \in Nat
    BY <1>1, UptimeLogAssumption DEF AllDays
  <2>2. last = SecondsPerDay * d + SecondsPerDay - 1
    BY <2>1
  <2>3. last \in OfDay(d) /\ \A s \in OfDay(d) : s \in Nat
    BY <1>1, DayRuns
  <2> HIDE DEF d, last
  <2>4. OfDay(d) = SecondsPerDay * d .. SecondsPerDay * d + SecondsPerDay - 1 /\ SecondsPerDay * d \in Nat
    BY <1>1, DayBounds
  <2> QED BY <2>2, <2>3, <2>4
<1> HIDE DEF d, last
<1>3. at \in {now + MaxFilledGap + 1, last} /\ at <= now + MaxFilledGap + 1 /\ at <= last /\ now <= at
  <2>1. now \in Nat /\ now <= last
    BY <1>1, <1>2
  <2>2. {now + MaxFilledGap + 1, last} \in SUBSET Nat
    BY <1>1, <1>2, <2>1
  <2>3. at \in {now + MaxFilledGap + 1, last} /\ \A j \in {now + MaxFilledGap + 1, last} : at <= j
    BY <2>2, MinExists
  <2> QED BY <1>1, <1>2, <2>1, <2>3
<1> HIDE DEF at
<1>4. at \in Int /\ DayOf(at) = d
  <2>1. at \in Int
    BY <1>1, <1>2, <1>3
  <2>2. at \in OfDay(d)
    BY <1>1, <1>2, <1>3, <2>1
  <2> QED BY <1>1, <2>1, <2>2, InItsDay
<1>5. PICK n \in Nat : DayBits(d) \in SUBSET (0 .. n)
  BY <1>1, DayRuns
<1>6. PICK start \in Starts(DayBits(d)) : now <= EndFrom(DayBits(d), start)
  BY <1>1, <1>5, InItsRun
<1>7. EndFrom(DayBits(d), start) \in Int
  <2>1. EndFrom(DayBits(d), start) \in DayBits(d)
    BY <1>5, EndIs DEF Starts
  <2> QED BY <1>5, <2>1
<1>8. <<start, EndFrom(DayBits(d), start)>> \in UpPeriods(DayBits(d))
  <2>1. UpPeriods(DayBits(d)) = {<<s, EndFrom(DayBits(d), s)>> : s \in Starts(DayBits(d))}
    BY <1>5, PeriodsAre
  <2> QED BY <2>1
<1>9. EndFrom(DayBits(d), start) >= at - 1 - MaxFilledGap
  BY <1>1, <1>3, <1>4, <1>6, <1>7
<1>10. Ongoing(d, at)
  BY <1>4, <1>8, <1>9 DEF Ongoing
<1> QED BY <1>10 DEF d, at, last

(* The report of a day, of however many seconds, says what the marks say:  *)
(* its starts are as many as its periods, whose lengths add up to its up   *)
(* seconds; and days are joined at midnight, from both sides alike.        *)
THEOREM PeriodsAlwaysAddUp == UptimeSpec => []PeriodsAddUp
<1> DEFINE Inv == UptimeInv /\ LastMarked
<1>1. UptimeInit => Inv
  BY UptimeStarts DEF UptimeInit, LastMarked
<1>2. Inv /\ [UptimeNext]_uptimeVars => Inv'
  BY UptimeStep, LastStaysMarked
<1>3. Inv => PeriodsAddUp
  <2> SUFFICES ASSUME Inv PROVE PeriodsAddUp
    OBVIOUS
  <2>1. UptimeTypeOK
    BY DEF UptimeInv
  <2>2. ASSUME NEW d \in AllDays
        PROVE  /\ Cardinality(UpPeriods(DayBits(d))) = StartCount(DayBits(d))
               /\ SumFunction([p \in UpPeriods(DayBits(d)) |-> p[2] - p[1] + 1])
                    = ActiveSeconds(DayBits(d))
               /\ d > 0 => (FromPreviousDay(d) <=> IntoNextDay(d - 1))
    <3>1. PICK n \in Nat : DayBits(d) \in SUBSET (0 .. n)
      BY <2>1, DayRuns
    <3>2. Cardinality(UpPeriods(DayBits(d))) = StartCount(DayBits(d))
      BY <3>1, PeriodsAre
    <3>3. SumFunction([p \in UpPeriods(DayBits(d)) |-> p[2] - p[1] + 1]) = ActiveSeconds(DayBits(d))
      BY <3>1, LengthsAddUp
    <3> QED BY <2>1, <3>2, <3>3, MidnightsAgree
  <2>3. Cardinality(UpPeriods(up)) + Cardinality({d \in 0 .. Days - 1 : FromPreviousDay(d)})
          = SumFunction([d \in 0 .. Days - 1 |-> StartCount(DayBits(d))])
    BY <2>1, StartsAddUp
  <2>4. running /\ lastSecond # Unset /\ unrecordedFrom = Unset =>
          Ongoing(DayOf(now), Min({now + MaxFilledGap + 1, (DayOf(now) + 1) * SecondsPerDay - 1}))
    BY <2>1, LastOngoing DEF LastMarked
  <2> QED BY <2>2, <2>3, <2>4 DEF PeriodsAddUp, AllDays
<1> QED BY <1>1, <1>2, <1>3, PTL DEF UptimeSpec
==============================================================================
