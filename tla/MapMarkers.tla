----------------------------- MODULE MapMarkers -----------------------------
(***************************************************************************)
(* What the map shows of a poll: the markers of a cached map, counted by   *)
(* pollMapCacheRefreshService and read at two levels, and the markers      *)
(* that mapMarkerService counts itself, with the rule that hides small     *)
(* areas, when there is no cache table or all polls are asked for.         *)
(*                                                                         *)
(* PollMapRefresh models when a cache is rebuilt, this module what is in   *)
(* it.  A place is a latitude and a longitude in thousandths of a degree.  *)
(* An area is a country or a country and a city.  Every vote of a poll has *)
(* a voter of its own.  Labels, colours, dates and percentages are left    *)
(* out.                                                                    *)
(***************************************************************************)
EXTENDS Integers, FiniteSets, FiniteSetsExt, Sequences, TLC

CONSTANTS PlacedVotes,        \* vote ids
          MarkerWorlds,       \* [vote -> its option, home and place], the choices
          DisplayOrder,       \* the options in their order of display
          OptionIdOrder,      \* and in the order of their ids
          LatestVote,         \* a vote that arrives while maps are read
          MarkerPageSize,
          PrivacyThresholdK

ASSUME PlacedVotesAssumption == PlacedVotes \subseteq Nat \ {0} /\ LatestVote \in PlacedVotes
ASSUME MarkerWorldsAssumption == \A world \in MarkerWorlds : DOMAIN world = PlacedVotes
ASSUME MarkerAssumption == MarkerPageSize \in Nat \ {0} /\ PrivacyThresholdK \in Nat \ {0}

VARIABLES
    ballots,      \* ballots[v]: what is known of vote v and of its voter
    inserted,     \* the votes there are
    rebuild,      \* rebuildPollMapCache
    markerCache,  \* poll_map_marker_cache, the row of the poll
    view          \* getPollVoteMarkers

markerVars == <<ballots, inserted, rebuild, markerCache, view>>

MarkerOptions == {DisplayOrder[i] : i \in DOMAIN DisplayOrder}
NoLeader == "none"
NoHome == <<>>
NoPlace == <<>>
NoArea == <<>>
NoCounts == [o \in MarkerOptions |-> 0]
NoRow == [there |-> FALSE, buckets |-> <<>>, seen |-> {}]
NotRebuilding == [pc |-> "idle", after |-> 0, buckets |-> <<>>, seen |-> {}]
NotViewing == [pc |-> "idle", path |-> "cached", level |-> "city", seen |-> {},
               homes |-> <<>>, markers |-> {}]

MarkerInit ==
    /\ ballots \in MarkerWorlds
    /\ inserted = PlacedVotes \ {LatestVote}
    /\ rebuild = NotRebuilding /\ markerCache = NoRow /\ view = NotViewing

InsertPlacedVote ==
    /\ LatestVote \notin inserted /\ inserted' = PlacedVotes
    /\ UNCHANGED <<ballots, rebuild, markerCache, view>>

\* A voter's home changes while a map is counted; votes keep their place.
MoveHome(v) ==
    /\ view.pc = "profiles" /\ ballots[v].home # NoHome
    /\ ballots' = [ballots EXCEPT ![v].home = NoHome]
    /\ UNCHANGED <<inserted, rebuild, markerCache, view>>

-----------------------------------------------------------------------------
(* Counting, for both kinds of markers *)

Position(order, o) == CHOOSE i \in DOMAIN order : order[i] = o

\* The first option with most votes, if there are votes: how breakdowns are
\* sorted.
LeaderOf(counts, order) ==
    LET ahead == {o \in MarkerOptions :
                    counts[o] > 0 /\ \A q \in MarkerOptions : counts[q] <= counts[o]}
    IN  IF ahead = {} THEN NoLeader
        ELSE CHOOSE o \in ahead : \A q \in ahead : Position(order, o) <= Position(order, q)

\* Mutant: children with equal counts are added up as one.
CountsOfTotals(members) ==
    [o \in MarkerOptions |->
       LET counts == {m.counts[o] : m \in members} IN MapThenSumSet(LAMBDA n : n, counts)]

\* Counts of members, each of which has a total and counts
TotalOf(members) == MapThenSumSet(LAMBDA m : m.total, members)
CountsOf(members) ==
    [o \in MarkerOptions |-> MapThenSumSet(LAMBDA m : m.counts[o], members)]

-----------------------------------------------------------------------------
(* rebuildPollMapCache *)

IsPlaced(place) ==
    place # NoPlace /\ place[1] \in -90000..90000 /\ place[2] \in -180000..180000

\* Math.round and Math.floor: down, for negative degrees too
RoundToL0(x) == (x + 5) \div 10
\* Mutant: towards zero, as Math.trunc
Truncated(x) == IF x >= 0 THEN x \div 10 ELSE -((-x) \div 10)
TenthsBucket(x) == x \div 10
BucketOf(place) == <<TenthsBucket(RoundToL0(place[1])), TenthsBucket(RoundToL0(place[2]))>>
ParentBucket(b) == <<b[1] \div 10, b[2] \div 10>>

NoBucket == [total |-> 0, sumLat |-> 0, sumLng |-> 0, counts |-> NoCounts]

AddVote(buckets, v) ==
    LET place == ballots[v].place
        b == BucketOf(place)
        old == IF b \in DOMAIN buckets THEN buckets[b] ELSE NoBucket
    IN  IF ~IsPlaced(place) THEN buckets
        ELSE (b :> [total |-> old.total + 1,
                    sumLat |-> old.sumLat + RoundToL0(place[1]),
                    sumLng |-> old.sumLng + RoundToL0(place[2]),
                    counts |-> [old.counts EXCEPT ![ballots[v].option] = @ + 1]]) @@ buckets

StartMarkers ==
    /\ rebuild.pc = "idle" /\ rebuild' = [NotRebuilding EXCEPT !.pc = "scanning"]
    /\ UNCHANGED <<ballots, inserted, markerCache, view>>

\* A page of the votes with places and ids after the last one; an empty one
\* ends the scan.
ScanMarkers ==
    LET rest == {v \in inserted : ballots[v].place # NoPlace /\ v > rebuild.after}
        page == {v \in rest : Cardinality({u \in rest : u < v}) < MarkerPageSize}
    IN  /\ rebuild.pc = "scanning"
        /\ rebuild' =
             IF page = {} THEN [rebuild EXCEPT !.pc = "saving"]
             ELSE [rebuild EXCEPT
                     !.buckets = FoldSet(LAMBDA v, buckets : AddVote(buckets, v), @, page),
                     !.after = CHOOSE v \in page : \A u \in page : u <= v,
                     !.seen = @ \cup page]
        /\ UNCHANGED <<ballots, inserted, markerCache, view>>

SaveMarkers ==
    /\ rebuild.pc = "saving" /\ rebuild' = NotRebuilding
    /\ markerCache' = [there |-> TRUE, buckets |-> rebuild.buckets, seen |-> rebuild.seen]
    /\ UNCHANGED <<ballots, inserted, view>>

-----------------------------------------------------------------------------
(* The cached markers *)

\* A mean of hundredths, rounded to millionths of a degree
RoundMean(sum, n) == (20000 * sum + n) \div (2 * n)

CityMarker(b, row) ==
    [area |-> b, parent |-> ParentBucket(b), total |-> row.total, counts |-> row.counts,
     lat |-> RoundMean(row.sumLat, row.total), lng |-> RoundMean(row.sumLng, row.total),
     leader |-> LeaderOf(row.counts, DisplayOrder), merged |-> {b}]

CityMarkers == {CityMarker(b, markerCache.buckets[b]) : b \in DOMAIN markerCache.buckets}

\* mapCityMarkersToParentMarkers; the mean of the children is not rounded
\* in the code.
ParentMarkers(cities) ==
    {LET children == {m \in cities : m.parent = area}
         n == Cardinality(children)
         counts == CountsOf(children)
     IN  [area |-> area, parent |-> NoArea, total |-> TotalOf(children), counts |-> counts,
          lat |-> MapThenSumSet(LAMBDA m : m.lat, children) \div n,
          lng |-> MapThenSumSet(LAMBDA m : m.lng, children) \div n,
          leader |-> LeaderOf(counts, OptionIdOrder),
          merged |-> {m.area : m \in children}] : area \in {m.parent : m \in cities}}

GetCachedMarkers(level) ==
    /\ view.pc = "idle"
    /\ view' = [view EXCEPT !.pc = "ok", !.level = level, !.seen = markerCache.seen,
                  !.markers = IF level = "city" THEN CityMarkers ELSE ParentMarkers(CityMarkers)]
    /\ UNCHANGED <<ballots, inserted, rebuild, markerCache>>

-----------------------------------------------------------------------------
(* The markers of votes that are counted on request *)

DefaultHome == <<"ZZ", "unknown">>
StartArea(home, level) ==
    LET area == IF home = NoHome THEN DefaultHome ELSE home
    IN  IF level = "country" THEN <<area[1]>> ELSE area

ParentArea(area) == IF Len(area) = 2 THEN <<area[1]>> ELSE NoArea

SeedGroups(homes, level) ==
    [area \in {StartArea(homes[v], level) : v \in DOMAIN homes} |->
       LET of == {v \in DOMAIN homes : StartArea(homes[v], level) = area}
       IN  [origin |-> area, current |-> area, depth |-> 0, total |-> Cardinality(of),
            counts |-> [o \in MarkerOptions |->
                          Cardinality({v \in of : ballots[v].option = o})]]]

GroupsIn(groups, area) == {g \in {groups[a] : a \in DOMAIN groups} : g.current = area}

\* Mutant: a group is small by itself, not together with those of its area.
SmallAlone(groups, g) == g.total < PrivacyThresholdK

IsSmall(groups, g) == TotalOf(GroupsIn(groups, g.current)) < PrivacyThresholdK

MergeUp(groups) ==
    [a \in DOMAIN groups |->
       LET g == groups[a]
       IN  IF IsSmall(groups, g) /\ ParentArea(g.current) # NoArea
             THEN [g EXCEPT !.current = ParentArea(@), !.depth = @ + 1] ELSE g]

\* As often as there are areas; what is small then is left out.
ApplyHierarchicalPrivacyFilter(groups) ==
    LET areas == DOMAIN groups \cup {ParentArea(a) : a \in DOMAIN groups}
        merged[n \in 0..Cardinality(areas)] ==
          IF n = 0 THEN groups ELSE MergeUp(merged[n - 1])
        final == merged[Cardinality(areas)]
    IN  {g \in {final[a] : a \in DOMAIN final} : ~IsSmall(final, g)}

PrivateMarkers(groups) ==
    {LET of == {g \in groups : g.current = area}
         counts == CountsOf(of)
     IN  [area |-> area, parent |-> ParentArea(area), total |-> TotalOf(of),
          counts |-> counts, leader |-> LeaderOf(counts, DisplayOrder),
          merged |-> {g.origin : g \in of}] : area \in {g.current : g \in groups}}

\* The votes, then the profiles of their voters
LoadValidVotes(level) ==
    /\ view.pc = "idle"
    /\ view' = [view EXCEPT !.pc = "profiles", !.path = "private", !.level = level,
                            !.seen = inserted]
    /\ UNCHANGED <<ballots, inserted, rebuild, markerCache>>

LoadHomes ==
    LET homes == [v \in view.seen |-> ballots[v].home]
    IN  /\ view.pc = "profiles"
        /\ view' = [view EXCEPT !.pc = "ok", !.homes = homes,
                      !.markers = PrivateMarkers(ApplyHierarchicalPrivacyFilter(
                                                   SeedGroups(homes, view.level)))]
        /\ UNCHANGED <<ballots, inserted, rebuild, markerCache>>

\* applyCachedMarkerFilters and applyMapFilters with a parent area; areas
\* have one level of parents.
MatchesParent(m, area) == m.area = area \/ m.parent = area
FilterMarkers(markers, area) == {m \in markers : MatchesParent(m, area)}

MarkerNext ==
    \/ InsertPlacedVote \/ MoveHome(LatestVote)
    \/ StartMarkers \/ ScanMarkers \/ SaveMarkers
    \/ \E level \in {"city", "country"} : GetCachedMarkers(level) \/ LoadValidVotes(level)
    \/ LoadHomes

MarkerSpec == MarkerInit /\ [][MarkerNext]_markerVars

-----------------------------------------------------------------------------
\* The types of the variables.
MarkerTypeOK ==
    /\ DOMAIN ballots = PlacedVotes /\ inserted \subseteq PlacedVotes
    /\ rebuild.pc \in {"idle", "scanning", "saving"} /\ rebuild.seen \subseteq inserted
    /\ markerCache.there \in BOOLEAN /\ markerCache.seen \subseteq inserted
    /\ view.pc \in {"idle", "profiles", "ok"} /\ view.seen \subseteq inserted

ShownOf(path) == IF view.pc = "ok" /\ view.path = path THEN view.markers ELSE {}

\* The options of a marker add up to its total, and it names a leader that
\* no option is ahead of.
BreakdownsAddUp ==
    view.pc = "ok" => \A m \in view.markers :
        /\ MapThenSumSet(LAMBDA o : m.counts[o], MarkerOptions) = m.total
        /\ m.leader \in MarkerOptions
        /\ \A o \in MarkerOptions : m.counts[o] <= m.counts[m.leader]

PlacedIn(cell, size) == {v \in view.seen :
    /\ IsPlaced(ballots[v].place)
    /\ cell = <<RoundToL0(ballots[v].place[1]) \div size,
                RoundToL0(ballots[v].place[2]) \div size>>}

\* A cached map shows, at the level of tenths and at the level of degrees,
\* every vote with a place once, in the cell the vote lies in, and puts the
\* marker into that cell.
CachedMarkersMatchPlaces ==
    LET size == IF view.level = "city" THEN 10 ELSE 100
        cells == {m.area : m \in ShownOf("cached")}
    IN  /\ \A m \in ShownOf("cached") :
             /\ m.counts = [o \in MarkerOptions |->
                  Cardinality({v \in PlacedIn(m.area, size) : ballots[v].option = o})]
             /\ m.lat \div (10000 * size) = m.area[1] /\ m.lng \div (10000 * size) = m.area[2]
        /\ view.pc = "ok" /\ view.path = "cached" =>
             \A v \in view.seen : IsPlaced(ballots[v].place) =>
               \E cell \in cells : v \in PlacedIn(cell, size)

\* The cities of a parent, asked for with its area, add up to its marker,
\* and a single one has the same leader, except in a tie: that is broken by
\* the order of display for a city and by the ids for its parent.
LevelsAgree ==
    \A m \in ParentMarkers(CityMarkers) :
        LET children == FilterMarkers(CityMarkers, m.area)
            ahead == {o \in MarkerOptions : m.counts[o] = m.counts[m.leader]}
        IN  /\ TotalOf(children) = m.total /\ CountsOf(children) = m.counts
            /\ \A c \in children :
                 Cardinality(children) = 1 /\ Cardinality(ahead) = 1 => c.leader = m.leader

HomesIn(area) ==
    {v \in view.seen : StartArea(view.homes[v], "city") = area \/ StartArea(view.homes[v], "country") = area}

\* Counted on request, a city is shown just when it has K votes, a country
\* just when K votes of it are in no city that is shown: nobody's vote is
\* told apart from fewer than K, and no more is left out than that asks for.
SmallAreasAreHidden ==
    view.pc = "ok" /\ view.path = "private" =>
        LET homes == {StartArea(view.homes[v], "city") : v \in view.seen}
            cities == {a \in homes : view.level = "city"
                                     /\ Cardinality(HomesIn(a)) >= PrivacyThresholdK}
            Rest(country) == HomesIn(country) \ UNION {HomesIn(a) : a \in cities}
            countries == {c \in {ParentArea(a) : a \in homes} :
                            Cardinality(Rest(c)) >= PrivacyThresholdK}
        IN  /\ {m.area : m \in view.markers} = cities \cup countries
            /\ \A m \in view.markers :
                 m.total = Cardinality(IF m.area \in cities THEN HomesIn(m.area)
                                       ELSE Rest(m.area))

\* What the map shows is true of the votes.
MapsAreTrue ==
    BreakdownsAddUp /\ CachedMarkersMatchPlaces /\ LevelsAgree /\ SmallAreasAreHidden
=============================================================================
