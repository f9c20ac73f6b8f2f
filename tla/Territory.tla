----------------------------- MODULE Territory -----------------------------
(* internal/territory: features joined to a mapping, or grouped by a prefix  *)
(* of their key, and dissolved into territories; and the report of Validate. *)
(* A key is a sequence of letters: 0 a blank, -n the upper case of n.  A     *)
(* property value is a number: 0 the empty string, a positive one a string   *)
(* that parses as that number, a negative one a string that does not.        *)
EXTENDS Polygons

CONSTANTS NoMapping, Null

stringify(key) == IF key = Null THEN <<>> ELSE key

\* The string without the blanks at its ends, and in lower case.
TrimSpace(s) ==
  LET letters == {i \in DOMAIN s : s[i] # 0}
  IN  IF letters = {} THEN <<>> ELSE SubSeq(s, Min(letters), Max(letters))

normalizeKey(s) ==
  LET trimmed == TrimSpace(s)
  IN  [i \in DOMAIN trimmed |-> IF trimmed[i] < 0 THEN -trimmed[i] ELSE trimmed[i]]

PrefixGroup(value, n) == IF n <= 0 \/ n >= Len(value) THEN value ELSE SubSeq(value, 1, n)

-----------------------------------------------------------------------------
(* The mapping: a sequence of rows [key, group, fields].                     *)

\* Fault: a later row of a key takes the place of an earlier one.
Index_Last(rows, key) ==
  LET found == Kept(rows, {row \in ToSet(rows) : normalizeKey(row.key) = key})
  IN  IF found = <<>> THEN <<>> ELSE <<Last(found)>>

Index(rows, key) == Kept(rows, {row \in ToSet(rows) : normalizeKey(row.key) = key})

MappingKeys(rows) == {normalizeKey(rows[i].key) : i \in DOMAIN rows} \ {<<>>}

DuplicateKeys(rows) == {key \in MappingKeys(rows) : Len(Index(rows, key)) > 1}

-----------------------------------------------------------------------------
(* Aggregation of the values of one field, in the order of the members.      *)

Empty == 0
IsNumber(value) == value > 0

SortedUnique(values) == SetToSortSeq(ToSet(values) \ {Empty}, <)

Omitted == [ok |-> FALSE, list |-> FALSE, value |-> <<>>]
Scalar(value) == [ok |-> TRUE, list |-> FALSE, value |-> <<value>>]
List(values) == IF values = <<>> THEN Omitted ELSE [ok |-> TRUE, list |-> TRUE, value |-> values]

Numbers(values) == Kept(values, {value \in ToSet(values) : IsNumber(value)})

\* Fault: the numbers are taken in the order of the members.
Sorted_Not(nums) == nums

Sorted(nums) ==
  LET order == CHOOSE p \in Bijection(DOMAIN nums, DOMAIN nums) :
                 \A i, j \in DOMAIN nums : i < j => nums[p[i]] <= nums[p[j]]
  IN  [i \in DOMAIN nums |-> nums[order[i]]]

numericAggregate(agg, values) ==
  LET nums == Sorted(Numbers(values))
  IN  IF nums = <<>> THEN Omitted
      ELSE IF agg = "sum" THEN Scalar(Total(nums))
      ELSE Scalar(IF agg = "min" THEN nums[1] ELSE Last(nums))

Aggregate(agg, values) ==
  LET nonEmpty == Kept(values, {value \in ToSet(values) : value # Empty})
      unique == SortedUnique(values)
  IN  CASE agg = "discard" -> Omitted
        [] agg = "first" -> IF nonEmpty = <<>> THEN Omitted ELSE Scalar(nonEmpty[1])
        [] agg = "list" -> List(nonEmpty)
        [] agg = "count" -> Scalar(Len(unique))
        [] agg \in {"sum", "min", "max"} -> numericAggregate(agg, nonEmpty)
        [] OTHER -> IF Len(unique) = 1 THEN Scalar(unique[1]) ELSE List(unique)

\* DefaultAggregation keeps a conflict visible.
resolve(aggregation, field) == IF field \in DOMAIN aggregation THEN aggregation[field] ELSE "unique"

-----------------------------------------------------------------------------
(* Build.  opts is [geometryKey, groupBy, features, mapping, prefix,         *)
(* aggregation], the first two whether the name of the field is given; a     *)
(* feature is [key, geometry, fields].                                       *)

Nothing == [emptyKeys |-> 0, warnings |-> 0, unmatched |-> {}, used |-> {}, placed |-> <<>>]

Placed(group, feature, geometry, fields) ==
  [group |-> group, key |-> stringify(feature.key), geometry |-> geometry, fields |-> fields]

\* A row's field wins over the feature's own.
Overridden(fields, own) ==
  [field \in DOMAIN fields \cup DOMAIN own |-> IF field \in DOMAIN fields THEN fields[field] ELSE own[field]]

\* A feature goes to the group of every row of its key.
Join(opts, feature, geometry, rows) ==
  LET grouped == Kept(rows, {row \in ToSet(rows) : TrimSpace(row.group) # <<>>})
  IN  [emptyKeys |-> Len(rows) - Len(grouped),
       placed |-> [i \in DOMAIN grouped |->
                     Placed(TrimSpace(grouped[i].group), feature, geometry, Overridden(grouped[i].fields, feature.fields))]]

\* What becomes of a feature of this key, with its geometry repaired.
FateOf(opts, feature, key, repaired) ==
  LET rows == Index(opts.mapping, normalizeKey(key))
      joined == Join(opts, feature, repaired.geometry, rows)
      warned == [Nothing EXCEPT !.warnings = repaired.warnings]
  IN  IF key = <<>> THEN [Nothing EXCEPT !.emptyKeys = 1]
      ELSE IF repaired.geometry = <<>> THEN warned
      ELSE IF opts.mapping = NoMapping
           THEN [warned EXCEPT !.placed =
                   <<Placed(PrefixGroup(key, opts.prefix), feature, repaired.geometry, feature.fields)>>]
      ELSE IF normalizeKey(key) = <<>> \/ rows = <<>> THEN [warned EXCEPT !.unmatched = {key}]
      ELSE [warned EXCEPT !.used = {normalizeKey(key)},
                          !.emptyKeys = joined.emptyKeys, !.placed = joined.placed]

\* What the loop of Build does with one feature.
Fate(opts, feature) == FateOf(opts, feature, stringify(feature.key), Repair(feature.geometry))

\* The values of a field, in the order of the members.
Values(members, field) ==
  LET having == Kept(members, {member \in ToSet(members) : field \in DOMAIN member.fields})
  IN  [m \in DOMAIN having |-> having[m].fields[field]]

buildTerritory(group, members, aggregation) ==
  LET fields == UNION {DOMAIN members[m].fields : m \in DOMAIN members}
  IN  [id |-> group,
       geometry |-> Dissolve([m \in DOMAIN members |-> members[m].geometry]),
       members |-> {members[m].key : m \in DOMAIN members},
       count |-> Len(members),
       properties |-> [field \in fields |-> Aggregate(resolve(aggregation, field), Values(members, field))]]

Rejected(opts) == ~opts.geometryKey \/ (opts.mapping # NoMapping /\ ~opts.groupBy)

\* What the loop has collected of all features.  The territories are a set:
\* they are written in the order of their keys.
Collected(opts, fate) ==
  LET placed == FlattenSeq([f \in DOMAIN fate |-> fate[f].placed])
      groups == {placed[p].group : p \in DOMAIN placed}
      used == UNION {fate[f].used : f \in DOMAIN fate}
  IN  [err |-> FALSE,
       territories |-> {buildTerritory(group, Kept(placed, {p \in ToSet(placed) : p.group = group}), opts.aggregation) :
                          group \in groups},
       emptyKeys |-> Total([f \in DOMAIN fate |-> fate[f].emptyKeys]),
       warnings |-> Total([f \in DOMAIN fate |-> fate[f].warnings]),
       unmatched |-> UNION {fate[f].unmatched : f \in DOMAIN fate},
       unused |-> IF opts.mapping = NoMapping THEN {} ELSE MappingKeys(opts.mapping) \ used,
       duplicates |-> IF opts.mapping = NoMapping THEN {} ELSE DuplicateKeys(opts.mapping)]

Build(opts) ==
  IF Rejected(opts) THEN [err |-> TRUE]
  ELSE Collected(opts, [f \in DOMAIN opts.features |-> Fate(opts, opts.features[f])])

-----------------------------------------------------------------------------
(* Validate.                                                                 *)

bboxAreaOverlap(a, b) ==
  /\ Max({a[1], b[1]}) < Min({a[3], b[3]})
  /\ Max({a[2], b[2]}) < Min({a[4], b[4]})

\* Every order that sort.Slice, which is not stable, may leave the boxes in.
SweepOrders(features) ==
  LET boxed == {f \in DOMAIN features : Corners(features[f].geometry) # {}}
      West(f) == BBox(features[f].geometry)[1]
  IN  {order \in [1..Cardinality(boxed) -> boxed] :
         /\ ToSet(order) = boxed
         /\ \A i \in 1..(Len(order) - 1) : West(order[i]) <= West(order[i + 1])}

\* Fault: the scan of a box ends at the first one it does not overlap.
detectOverlaps_Short(features, order) ==
  LET box == [i \in DOMAIN order |-> BBox(features[order[i]].geometry)]
      Scanned(i, j) == i < j /\ \A k \in (i + 1)..(j - 1) : bboxAreaOverlap(box[i], box[k])
      pairs == {pair \in (DOMAIN order) \X (DOMAIN order) :
                  Scanned(pair[1], pair[2]) /\ bboxAreaOverlap(box[pair[1]], box[pair[2]])}
  IN  {{order[pair[1]], order[pair[2]]} : pair \in pairs}

\* The scan of a box ends at the first one that begins east of it.
detectOverlaps(features, order) ==
  LET box == [i \in DOMAIN order |-> BBox(features[order[i]].geometry)]
      Scanned(i, j) == i < j /\ \A k \in (i + 1)..j : box[k][1] < box[i][3]
      pairs == {pair \in (DOMAIN order) \X (DOMAIN order) :
                  Scanned(pair[1], pair[2]) /\ bboxAreaOverlap(box[pair[1]], box[pair[2]])}
  IN  {{order[pair[1]], order[pair[2]]} : pair \in pairs}

\* Overlapping features in place of their keys.
Report(built, overlaps) ==
  IF built.err THEN built
  ELSE
  [err |-> FALSE, built |-> built, overlaps |-> overlaps,
   ok |-> /\ built.unmatched = {} /\ built.unused = {} /\ built.duplicates = {}
          /\ built.warnings = 0 /\ overlaps = {} /\ built.emptyKeys = 0]

Validate(opts, order) == Report(Build(opts), detectOverlaps(opts.features, order))
=============================================================================
