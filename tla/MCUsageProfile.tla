--------------------------- MODULE MCUsageProfile ---------------------------
(* Instances of UsageProfile: one with every series of up to four points, for  *)
(* the burst; one of a device that is seen in several places, under several     *)
(* systems and nodes, by a panel that shows a series and a list of devices, or  *)
(* nothing, and of the pages that ask for its case; and one of its travels      *)
(* alone, with another event and no page.  And one of the history that the      *)
(* analyzers read of one user.                                                 *)
EXTENDS UsageProfile, Behavior

CONSTANT u1

VARIABLE part

Phone == [key |-> "phone", exact |-> TRUE, os |-> "android"]
Tablet == [key |-> "tablet", exact |-> TRUE, os |-> "ios"]

MCPlaces == {"london", "madrid", "atlantic", "unknown"}
MCCountryOf == [p \in MCPlaces |->
  CASE p = "london" -> "GB" [] p = "madrid" -> "ES" [] OTHER -> NoCountry]
MCKm == [p, q \in MCPlaces |-> IF p = q THEN 0 ELSE 1260]
MCLocated == MCPlaces \ {"unknown"}

Seen(device, node, provider, place) ==
  [device |-> device, node |-> node, provider |-> provider, place |-> place, at |-> 0]

MCObservations ==
  {Seen(Phone, "n1", "p1", "london"),
   Seen([Phone EXCEPT !.os = "ios"], "n2", "p2", "madrid"),
   Seen(Tablet, "n1", "p3", "london"),
   Seen(Phone, "n1", "p1", "atlantic"),
   Seen(NoDevice, "n1", "p1", "unknown")}

Point(at, bytes) == [at |-> at, bytes |-> bytes]

MCPanels ==
  {NoPanel,
   [devices |-> {Phone, [Tablet EXCEPT !.exact = FALSE]}, limit |-> 1,
    series |-> <<Point(0, 2), Point(1, 5)>>]}

Points == {Point(at, bytes) : at \in 0..3, bytes \in {1, 2, 5}}
ShortSeries == UNION {[1..n -> Points] : n \in 0..4}

Charts == INSTANCE UsageProfile WITH
  Panels <- {[NoPanel EXCEPT !.series = s] : s \in ShortSeries},
  MaxObserved <- 0, MaxHours <- 0

MCThresholds ==
  [history_lookback |-> 2, history_min_gap |-> 2, churn_window |-> 2,
   history_mobile_same_subnet_min_distinct_ips |-> 2,
   history_home_same_ip_min_records |-> 2, history_home_same_ip_min_span |-> 2,
   concurrency_window |-> 1, concurrency_threshold |-> 2, lifetime_stationary |-> 2,
   tracker_retention |-> 1, history_retention |-> 2]

MCVisitors == {u1}
MCSubnetOf == [a \in {"a1", "a2"} |-> "net"]

NoPast == minute = 0 /\ history = <<>> /\ trackers = <<>> /\ evidence = <<>> /\ analysis = <<>>
NoUse ==
  /\ hour = 0 /\ observed = <<>> /\ panel = NoPanel /\ case = NoCase
  /\ stored = EmptyProfile /\ shown = EmptyProfile

MCInit ==
  \/ part = "device" /\ UsageInit /\ NoPast
  \/ part = "travels" /\ UsageInit /\ panel = NoPanel /\ NoPast
  \/ part = "charts" /\ Charts!UsageInit /\ NoPast
  \/ part = "past" /\ PastInit /\ NoUse

MCNext ==
  /\ UNCHANGED part
  /\ \/ part = "device" /\ UsageNext /\ Len(observed') < MaxObserved /\ UNCHANGED pastVars
     \/ part = "travels" /\ UsageNext /\ UNCHANGED pastVars
        /\ UNCHANGED <<panel, shown>> /\ (case = NoCase \/ UNCHANGED <<case, stored>>)
     \/ part = "past" /\ PastNext /\ UNCHANGED usageVars

MCSpec == MCInit /\ [][MCNext]_<<part, usageVars, pastVars>>
=============================================================================
