---------------------------- MODULE UsageProfile ----------------------------
(***************************************************************************)
(* The usage profile of a review case: what build_usage_profile_snapshot    *)
(* reads from the events of a device and from the panel's record of the     *)
(* user, the soft reasons and the priority that follow, and how the worker, *)
(* the page that opens a case and the panel enrichment put it together.     *)
(*                                                                         *)
(* The worker builds the profile with the panel's record and stores it with *)
(* the case.  A page that finds it outdated builds it again without the     *)
(* panel and keeps the stored burst and devices where its own are missing;  *)
(* the API then asks the panel once more and mends the result from what is  *)
(* stored.  Events are read by a date of one-second resolution alone: of      *)
(* those of one time the database may put any first, and again another the    *)
(* next time the profile is built.                                            *)
(*                                                                         *)
(* Times are hours, coordinates are places with a distance.  When a stored  *)
(* profile is outdated is in CaseFiles.                                     *)
(***************************************************************************)
EXTENDS Integers, Sequences, FiniteSets, FiniteSetsExt, SequencesExt, Functions

CONSTANTS
  Observations,   \* events without their time: device, node, provider, place
  CountryOf,      \* the country of a place, or NoCountry
  Km,             \* the distance of two places
  Located,        \* the places whose coordinates are known
  Nowhere,        \* the place of an event of which no country, region, city or
                  \* coordinates are known
  Panels,         \* records the panel may have of the user: devices, limit, series
  EventLimit,     \* DEFAULT_EVENT_LIMIT
  Lookback,       \* DEFAULT_LOOKBACK_DAYS, in hours
  RotationLimit,  \* device changes within an hour that are still normal
  BurstWindow,    \* traffic_burst_window_minutes, in the unit of a series
  BurstBytes,     \* traffic_burst_min_bytes
  MaxObserved,    \* bound: events
  MaxHours        \* bound: hours

NoCountry == "nowhere"
NoDevice == [key |-> "", exact |-> FALSE, os |-> ""]
NoPanel == [devices |-> {}, limit |-> -1, series |-> <<>>]
NoBurst == [bytes |-> 0, left |-> 0, right |-> 0]
\* What a page puts where a burst is named and no figures are left.
Estimate == [bytes |-> -1, left |-> 0, right |-> 0]

DeviceEntry == [key : STRING, exact : BOOLEAN, os : STRING]

ASSUME UsageProfileAssumption ==
  /\ Observations \subseteq [device : DeviceEntry, node : STRING, provider : STRING,
                             place : DOMAIN CountryOf, at : Int]
  /\ \A p \in Panels : /\ IsFiniteSet(p.devices) /\ p.devices \subseteq DeviceEntry
                        /\ p.series \in Seq([at : Int, bytes : Nat \ {0}])
  /\ \A p, q \in DOMAIN CountryOf : Km[p, q] \in Nat /\ Km[p, q] = Km[q, p]
  /\ Nowhere \in DOMAIN CountryOf \ Located /\ CountryOf[Nowhere] = NoCountry
  /\ EventLimit \in Nat \ {0}
  /\ Lookback \in Nat
  /\ RotationLimit \in Nat
  /\ BurstWindow \in Nat
  /\ BurstBytes \in Nat \ {0}

VARIABLES
  hour,     \* hours since the first event
  observed, \* analysis_events of the device, oldest first
  panel,    \* what the panel answers
  case,     \* the review case: when it was opened, the soft reasons of its row
  stored,   \* its profile in read_model_snapshots
  shown     \* the profile of the last answer to a page

usageVars == <<hour, observed, panel, case, stored, shown>>

-----------------------------------------------------------------------------
(* _traffic_series_burst: a window is moved over the points in time order,  *)
(* each with [at, bytes] and bytes > 0.                                     *)

\* points.sort: of equal times the one listed first comes first.
Earlier(series, i, j) ==
  series[i].at < series[j].at \/ (series[i].at = series[j].at /\ i < j)

Rank(series, i) == 1 + Cardinality({j \in DOMAIN series : Earlier(series, j, i)})

Ordered(series) ==
  [k \in DOMAIN series |-> series[CHOOSE i \in DOMAIN series : Rank(series, i) = k]]

\* Where the window that ends at r begins.
\* Mutant: the window drops at most one point when it moves.
WindowStartOne(points, r, left) ==
  IF left < r /\ points[r].at - points[left].at > BurstWindow THEN left + 1 ELSE left

WindowStart(points, r, left) ==
  Min({l \in left..r : l = r \/ points[r].at - points[l].at <= BurstWindow})

Bytes(points, positions) == SumFunctionOnSet([i \in DOMAIN points |-> points[i].bytes], positions)

Moved(points, r, scan) ==
  LET left == WindowStart(points, r, scan.left)
      bytes == Bytes(points, left..r)
  IN [left |-> left,
      best |-> IF bytes > scan.best.bytes THEN [bytes |-> bytes, left |-> left, right |-> r]
               ELSE scan.best]

Scanned(points) ==
  LET Scan[r \in 0..Len(points)] ==
        IF r = 0 THEN [left |-> 1, best |-> NoBurst] ELSE Moved(points, r, Scan[r - 1])
  IN Scan

Heaviest(series) == Scanned(Ordered(series))[Len(series)].best

\* A case has an anchor, and with an anchor the threshold does not count.
Burst(series, anchored) ==
  LET best == Heaviest(series)
      enough == best.bytes >= BurstBytes /\ best.right > best.left
  IN IF Len(series) < 2 THEN NoBurst
     ELSE IF anchored THEN (IF best.bytes > 0 THEN best ELSE NoBurst)
     ELSE (IF enough THEN best ELSE NoBurst)

-----------------------------------------------------------------------------
(* The soft reasons *)

\* The events of the profile: the newest of those within the lookback, in the
\* order of their time, which leaves open those of one time.  Events are named
\* by their place in es, the events of the device.
Fresh(es) == {i \in DOMAIN es : es[i].at >= hour - Lookback}

Newest(es) ==
  {S \in SUBSET Fresh(es) :
     /\ Cardinality(S) = Min({EventLimit, Cardinality(Fresh(es))})
     /\ \A i \in S, j \in Fresh(es) \ S : es[j].at <= es[i].at}

Readings(es) ==
  {q \in UNION {SetToSeqs(S) : S \in Newest(es)} :
     \A k, l \in DOMAIN q : k < l => es[q[k]].at <= es[q[l]].at}

\* The observations of a reading.
Read(es, q) == [k \in DOMAIN q |-> es[q[k]]]

Consecutive(S) ==
  {p \in S \X S : p[1] < p[2] /\ \A k \in S : k <= p[1] \/ k >= p[2]}

SeenKeys(obs) == {obs[k].device.key : k \in DOMAIN obs} \ {""}

SeenWith(obs, key) ==
  {k \in DOMAIN obs : obs[k].device.exact /\ obs[k].device.key = key /\ obs[k].place # Nowhere}

\* Mutant: only the last two sightings of a device are compared.
LastTravels(obs) ==
  UNION {{p \in Consecutive(SeenWith(obs, key)) : \A k \in SeenWith(obs, key) : k <= p[2]}
         : key \in SeenKeys(obs)}

Travels(obs) == UNION {Consecutive(SeenWith(obs, key)) : key \in SeenKeys(obs)}

Jumped(from, to) ==
  /\ NoCountry \notin {CountryOf[from.place], CountryOf[to.place]}
  /\ CountryOf[from.place] # CountryOf[to.place]
  /\ to.at - from.at <= 24

Impossible(from, to) ==
  LET hours == to.at - from.at
      km == Km[from.place, to.place]
  IN {from.place, to.place} \subseteq Located /\ hours > 0 /\ hours <= 6 /\ km >= 500 /\ km >= 500 * hours

\* The events that came from another device than the one before.
Switches(obs) ==
  LET keyed == {k \in DOMAIN obs : obs[k].device.key # ""}
  IN {p[2] : p \in {r \in Consecutive(keyed) : obs[r[1]].device.key # obs[r[2]].device.key}}

Rotates(obs) ==
  \E k \in Switches(obs) :
    Cardinality({l \in Switches(obs) : l >= k /\ obs[l].at - obs[k].at <= 1}) > RotationLimit

Systems(obs, key) ==
  {obs[k].device.os : k \in {l \in DOMAIN obs : obs[l].device.key = key}} \ {""}

Nodes(obs) == {obs[k].node : k \in DOMAIN obs} \ {""}
Providers(obs) == {obs[k].provider : k \in DOMAIN obs} \ {""}

EventReasons(obs) ==
  {"geo_country_jump" : p \in {r \in Travels(obs) : Jumped(obs[r[1]], obs[r[2]])}}
  \cup {"geo_impossible_travel" : p \in {r \in Travels(obs) : Impossible(obs[r[1]], obs[r[2]])}}
  \cup (IF Rotates(obs) THEN {"device_rotation"} ELSE {})
  \cup {"device_os_mismatch" : key \in {k \in SeenKeys(obs) : Cardinality(Systems(obs, k)) > 1}}
  \cup (IF Cardinality(Nodes(obs)) >= 2 THEN {"cross_node_fanout"} ELSE {})
  \cup (IF Cardinality(Providers(obs)) >= 3 THEN {"provider_fanout"} ELSE {})

-----------------------------------------------------------------------------
(* build_usage_profile_snapshot *)

DeviceKeys(devices) == {d.key : d \in devices} \ {""}

\* _panel_hwid_count: exact ids if there are any, else the entries.
HwidCount(devices) ==
  LET exact == {d \in devices : d.exact} IN
  IF exact = {} THEN Cardinality(devices) ELSE Cardinality(DeviceKeys(exact))

\* From the opening of the case to its last event, if that came later.
Hours(obs, anchor) == Max({0} \cup {obs[k].at - anchor : k \in DOMAIN obs})

EmptyProfile == [reasons |-> {}, burst |-> NoBurst, devices |-> {}, limit |-> -1,
                 count |-> -1, nodes |-> 0, providers |-> 0, hours |-> 0]

\* The profile of the observations read, with a panel's record.
Snapshot(obs, p, anchor) ==
  LET burst == Burst(p.series, TRUE)
  IN [reasons |-> EventReasons(obs) \cup (IF burst = NoBurst THEN {} ELSE {"traffic_burst"}),
      burst |-> burst,
      devices |-> SeenKeys(obs) \cup DeviceKeys(p.devices),
      limit |-> p.limit,
      count |-> IF p.devices = {} THEN -1 ELSE HwidCount(p.devices),
      nodes |-> Cardinality(Nodes(obs)),
      providers |-> Cardinality(Providers(obs)),
      hours |-> Hours(obs, anchor)]

\* build_usage_profile_priority
Capped(n, cap) == Min({n, cap})

Base(punitive, band) ==
  IF punitive THEN 1000
  ELSE CASE band = "HIGH_HOME" -> 700 [] band = "PROBABLE_HOME" -> 450 [] OTHER -> 200

Priority(profile, punitive, band, repeats) ==
  Base(punitive, band)
    + Capped(repeats, 10) * 25
    + Capped(Cardinality(profile.reasons), 10) * 60
    + Capped(profile.hours, 72) * 2
    + Capped(profile.nodes, 5) * 20
    + Capped(profile.providers, 5) * 15
    + Capped(Cardinality(profile.devices), 5) * 10
    + (IF "geo_impossible_travel" \in profile.reasons THEN 160
       ELSE IF "geo_country_jump" \in profile.reasons THEN 70 ELSE 0)

-----------------------------------------------------------------------------
NoCase == [opened |-> -1, reasons |-> {}, device |-> NoDevice]

UsageInit ==
  /\ hour = 0
  /\ observed = <<>>
  /\ panel \in Panels
  /\ case = NoCase
  /\ stored = EmptyProfile
  /\ shown = EmptyProfile

\* The worker logs an event and files it: the case opens with it, its row and
\* its stored profile are the snapshot built with the panel's record.
FileCase(s, p) ==
  LET es == Append(observed, [s EXCEPT !.at = hour])
      anchor == IF case = NoCase THEN hour ELSE case.opened
  IN
  /\ Len(observed) < MaxObserved
  /\ observed' = es
  /\ \E q \in Readings(es) : stored' = Snapshot(Read(es, q), p, anchor)
  /\ case' = [opened |-> anchor, reasons |-> stored'.reasons, device |-> s.device]
  /\ UNCHANGED <<hour, panel, shown>>

LogEvent(s) ==
  /\ Len(observed) < MaxObserved
  /\ observed' = Append(observed, [s EXCEPT !.at = hour])
  /\ UNCHANGED <<hour, panel, case, stored, shown>>

\* get_review_case builds an outdated profile again, without the panel.
\* Mutant: the burst is left to the next answer of the panel.
RebuiltAnew(q) ==
  LET new == Snapshot(Read(observed, q), NoPanel, case.opened) IN
  [new EXCEPT !.devices = IF @ = {} THEN stored.devices ELSE @,
              !.limit = stored.limit,
              !.count = stored.count]

Rebuilt(q) ==
  LET new == Snapshot(Read(observed, q), NoPanel, case.opened) IN
  [new EXCEPT !.burst = stored.burst,
              !.devices = IF @ = {} THEN stored.devices ELSE @,
              !.limit = stored.limit,
              !.count = stored.count]

\* _enrich_review_usage_profile: what is stored stands in for what the panel no
\* longer shows, and the reasons of the row stand above both.
Enriched(live, old) ==
  LET burst == IF live.burst # NoBurst THEN live.burst ELSE old.burst
      named == "traffic_burst" \in case.reasons
      bare == live.devices = {} /\ old.devices # {}
  IN
  [live EXCEPT
     !.burst = IF burst = NoBurst /\ named THEN Estimate ELSE burst,
     !.reasons = IF burst # NoBurst \/ named THEN @ \cup {"traffic_burst"} ELSE @,
     !.devices = IF bare THEN old.devices ELSE @,
     !.limit = IF bare /\ old.limit # -1 THEN old.limit ELSE @,
     !.count = IF bare /\ old.count # -1 THEN old.count ELSE @]

\* A page asks for the case.  The panel is asked too unless the case names a
\* device, and it may not answer.
OpenCase ==
  /\ case # NoCase
  /\ stored' \in {stored} \cup {Rebuilt(q) : q \in Readings(observed)}
  /\ \/ shown' = stored'
     \/ /\ case.device = NoDevice
        /\ \E q \in Readings(observed) :
             shown' = Enriched(Snapshot(Read(observed, q), panel, case.opened), stored')
  /\ UNCHANGED <<hour, observed, panel, case>>

PanelChanges(p) ==
  /\ panel' = p
  /\ UNCHANGED <<hour, observed, case, stored, shown>>

NextHour ==
  /\ hour < MaxHours
  /\ hour' = hour + 1
  /\ UNCHANGED <<observed, panel, case, stored, shown>>

UsageNext ==
  \/ NextHour
  \/ \E s \in Observations : FileCase(s, panel) \/ FileCase(s, NoPanel) \/ LogEvent(s)
  \/ OpenCase
  \/ \E p \in Panels : PanelChanges(p)

UsageSpec == UsageInit /\ [][UsageNext]_usageVars

-----------------------------------------------------------------------------
\* The burst a profile reports is the heaviest there is: no window of the
\* configured length holds more bytes, wherever it begins and in whatever order
\* the panel lists its points (usage_profile.py:495).
BurstIsHeaviest ==
  LET Within(from) == {i \in DOMAIN panel.series :
                         panel.series[i].at \in from..(from + BurstWindow)}
  IN panel.series # <<>> =>
       Heaviest(panel.series).bytes =
         Max({Bytes(panel.series, Within(panel.series[i].at)) : i \in DOMAIN panel.series})

\* What a profile says that does not depend on the order of its events.
Steady(profile) ==
  [profile EXCEPT !.reasons = @ \ {"geo_country_jump", "geo_impossible_travel", "device_rotation"}]

NotSunk(old, new) ==
  /\ old.reasons \subseteq new.reasons
  /\ Priority(old, FALSE, "UNSURE", 1) <= Priority(new, FALSE, "UNSURE", 1)

\* Evidence adds up: while no event falls out of the profile's window, a further
\* event takes no soft reason back and lowers no priority, so a case cannot sink
\* in the queue by what its device goes on doing, as long as the database reads
\* that event last and the others in the order it did before; and in whatever
\* order it reads those of one time, only the reasons about travels and
\* rotations can be taken back, with what they add (usage_profile.py:731,
\* usage_profile.py:912).
SignalsAccumulate ==
  [][ Len(observed') = Len(observed) + 1 /\ case # NoCase
      => \A old \in Readings(observed), new \in Readings(observed') :
           LET before == Snapshot(Read(observed, old), NoPanel, case.opened)
               after == Snapshot(Read(observed', new), NoPanel, case.opened)
           IN /\ Range(old) \subseteq Range(new) => NotSunk(Steady(before), Steady(after))
              /\ new = Append(old, Len(observed')) => NotSunk(before, after) ]_usageVars

\* A burst the queue names is never shown without its figures, though the panel
\* forgets the series and the profile is built again without it
\* (review_admin.py:1814, reviews.py:186).
BurstIsRemembered ==
  [][ shown'.burst = NoBurst /\ "traffic_burst" \in case.reasons => ~OpenCase ]_usageVars

=============================================================================
