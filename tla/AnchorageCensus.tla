-------------------------- MODULE AnchorageCensus --------------------------
(***************************************************************************)
(* Counting the ships of an anchorage on a radar scene: the detector of    *)
(* src/src/anchorage/detect.py, the log of censuses (store.py), the        *)
(* pictures (render.py), the comparison with the port-call counts          *)
(* (calibrate.py) and the routes that read them (backend/main.py).         *)
(*                                                                         *)
(* A raster is a function on its cells.  Counting, recording and rendering *)
(* are separate steps someone takes by hand, again with other parameters   *)
(* if they like; a kill forgets the census in hand.  The fit of            *)
(* coordinates to pixels is exact here, and a line of the log is written   *)
(* in one piece.                                                           *)
(***************************************************************************)
EXTENDS BerthRegister, FiniteSetsExt

CONSTANTS
  AnchoragePorts, PortOf, \* ANCHORAGE_BOXES, and the port each scene is of
  Days,                \* acquired_at of each scene, as its day
  Height, Width,       \* size of a raster
  Raster,              \* Raster[s]: the measurement band of scene s
  Trials,              \* rasters that are only looked at
  GuardPx, BackgroundPx, Alpha,    \* CA-CFAR: windows and threshold factor
  Spacing,             \* pixel_spacing_m, by row and by column
  MergeRadius,         \* MERGE_RADIUS_M
  Settings,            \* CFARParams in use: water_bbox_px and min_vessel_area_m2
  PortWatch,           \* PortWatch[p]: calls counted at port p, by day
  MinN,                \* MIN_N_FOR_CORRELATION
  Null,                \* None, and a 404
  MaxCensuses          \* bound: censuses recorded

AllScenes == DOMAIN Days
Cells == (1..Height) \X (1..Width)
Image == [Cells -> Nat]

(* A line of the log.                                                      *)
Census ==
  [port : AnchoragePorts, scene : AllScenes, day : Int, count : Nat,
   detections : SUBSET SUBSET Cells]

ASSUME AnchorageAssumption ==
  /\ Height \in Nat /\ Width \in Nat /\ Spacing \in Int \X Int /\ MergeRadius \in Int
  /\ PortOf \in [AllScenes -> AnchoragePorts] /\ Days \in [AllScenes -> Int]
  /\ Raster \in [AllScenes -> Image] /\ Trials \subseteq Image
  /\ Null \notin Census

VARIABLES
  inHand,      \* the census just counted, with what it was counted from
  censuses,    \* census.jsonl
  overlay,     \* overlay[p][s]: the census the picture was drawn from
  served       \* the answer of an anchorage route, until it is read

anchorageVars == <<inHand, censuses, overlay, served>>

Least(a, b) == IF a < b THEN a ELSE b
Greatest(a, b) == IF a > b THEN a ELSE b
Total(f) == MapThenSumSet(LAMBDA c : f[c], DOMAIN f)

-----------------------------------------------------------------------------
(* The detector.                                                           *)

(* load_scene reads the window of a bounding box, clamped to the raster.   *)
Window(box) ==
  (Greatest(1, box[1])..Least(Height, box[2])) \X (Greatest(1, box[3])..Least(Width, box[4]))

Around(c, px) == Cells \cap ((c[1] - px .. c[1] + px) \X (c[2] - px .. c[2] + px))

(* A cell stands out against the mean of the ring around its guard cells;  *)
(* the border, where the ring is cut, never does.                          *)
StandsOut(image, c) ==
  LET ring == Around(c, BackgroundPx) \ Around(c, GuardPx) IN
    /\ Around(c, BackgroundPx) \subseteq DOMAIN image
    /\ Cardinality(Around(c, BackgroundPx)) = (2 * BackgroundPx + 1) * (2 * BackgroundPx + 1)
    /\ image[c] * Cardinality(ring) > Alpha * Total([d \in ring |-> image[d]])

Touch(c, d) == \/ c[1] = d[1] /\ c[2] - d[2] \in {-1, 1}
               \/ c[2] = d[2] /\ c[1] - d[1] \in {-1, 1}

(* ndimage.label: the smallest parts of a mask that no cell beside them,   *)
(* of the mask, is left out of.                                            *)
Blobs(mask) ==
  LET closed == {part \in SUBSET mask :
                   part # {} /\ \A c \in part, d \in mask : Touch(c, d) => d \in part}
  IN {blob \in closed : \A part \in closed : part \subseteq blob => part = blob}

Mass(image, blob) == Total([c \in blob |-> image[c]])
Peak(image, blob) == Max({image[c] : c \in blob})
RowSum(image, blob) == Total([c \in blob |-> c[1] * image[c]])
ColSum(image, blob) == Total([c \in blob |-> c[2] * image[c]])

Detection(image, b) ==
  [cells |-> b, area |-> Cardinality(b), peak |-> Peak(image, b), mass |-> Mass(image, b),
   row |-> RowSum(image, b), col |-> ColSum(image, b)]

cfar_detect(image) ==
  {Detection(image, b) : b \in Blobs({c \in DOMAIN image : StandsOut(image, c)})}

apply_land_mask(found, box) ==      \* by the centroid, row/mass and col/mass
  IF box = Null THEN found
  ELSE {d \in found : /\ box[1] * d.mass <= d.row /\ d.row <= box[2] * d.mass
                      /\ box[3] * d.mass <= d.col /\ d.col <= box[4] * d.mass}

_min_area_px(area) ==
  Greatest(1, (area + Spacing[1] * Spacing[2] - 1) \div (Spacing[1] * Spacing[2]))
apply_size_gate(found, area) == {d \in found : d.area >= _min_area_px(area)}

Near(d, e) ==           \* centroids within MERGE_RADIUS_M
  LET dr == (d.row * e.mass - e.row * d.mass) * Spacing[1]
      dc == (d.col * e.mass - e.col * d.mass) * Spacing[2]
      r == MergeRadius * d.mass * e.mass
  IN dr * dr + dc * dc <= r * r

(* Labels are given in reading order, and the sort by peak is stable.      *)
ReadBlob(d) == Min({(c[1] - 1) * Width + c[2] : c \in d.cells})
Stronger(d, e) == d.peak > e.peak \/ (d.peak = e.peak /\ ReadBlob(d) < ReadBlob(e))

BadJoins(cluster, d) == \E i \in DOMAIN cluster : Near(cluster[i], d)  \* mutant: chains
Joins(cluster, d) == Near(cluster[1], d)

(* A detection goes to the first cluster it joins, or begins one.          *)
Absorb(clusters, d) ==
  LET at == {i \in DOMAIN clusters : Joins(clusters[i], d)} IN
    IF at = {} THEN Append(clusters, <<d>>)
    ELSE [clusters EXCEPT ![Min(at)] = Append(@, d)]

(* The strongest first: each absorbs what lies near it and is still free.  *)
merge_nearby_detections(found) ==
  LET order == InOrder(found, Stronger)
      merged[k \in 0 .. Len(order)] ==
        IF k = 0 THEN <<>> ELSE Absorb(merged[k - 1], order[k])
  IN merged[Len(order)]

Gated(image, setting) ==
  apply_size_gate(apply_land_mask(cfar_detect(image), setting.box), setting.area)

-----------------------------------------------------------------------------
(* Counting, recording and rendering.                                      *)

AnchorageInit ==
  /\ inHand = Null
  /\ censuses = <<>>
  /\ overlay = [p \in AnchoragePorts |-> [s \in AllScenes |-> Null]]
  /\ served = Null

(* The whole footprint of the scene is loaded, at the default spacing.     *)
count_vessels(image, setting) ==
  LET loaded == [c \in Window(<<1, Height, 1, Width>>) |-> image[c]]
      gated == Gated(loaded, setting)
      final == merge_nearby_detections(gated)
  IN [count |-> Len(final), gated |-> gated, final |-> final,
      detections |-> {UNION {final[i][j].cells : j \in DOMAIN final[i]} : i \in DOMAIN final}]

Counts == [of \in AllScenes \X Settings |-> count_vessels(Raster[of[1]], of[2])]

InHand(count, census, recorded) ==
  [gated |-> count.gated, final |-> count.final, census |-> census, recorded |-> recorded]

Count ==
  /\ inHand = Null
  /\ \E s \in AllScenes, setting \in Settings :
       LET count == Counts[<<s, setting>>] IN
       inHand' = InHand(count, [port |-> PortOf[s], scene |-> s, day |-> Days[s],
                                count |-> count.count, detections |-> count.detections], FALSE)
  /\ served' = Null
  /\ UNCHANGED <<censuses, overlay>>

Try ==         \* a count of some image that nobody records (bound: on an empty log)
  /\ inHand = Null /\ censuses = <<>> /\ served = Null
  /\ \A p \in AnchoragePorts, s \in AllScenes : overlay[p][s] = Null
  /\ \E image \in Trials, setting \in Settings : \E count \in {count_vessels(image, setting)} :
       inHand' = InHand(count, Null, TRUE)
  /\ UNCHANGED <<censuses, overlay, served>>

record_census ==
  /\ inHand # Null /\ ~inHand.recorded /\ Len(censuses) < MaxCensuses
  /\ censuses' = Append(censuses, inHand.census)
  /\ inHand' = [inHand EXCEPT !.recorded = TRUE]
  /\ served' = Null
  /\ UNCHANGED overlay

overlay_path(s) == {s}

render_detection_overlay ==
  /\ inHand # Null /\ inHand.census # Null
  /\ overlay' = [overlay EXCEPT ![inHand.census.port] =
       [s \in AllScenes |-> IF s \in overlay_path(inHand.census.scene) THEN inHand.census ELSE @[s]]]
  /\ served' = Null
  /\ UNCHANGED <<inHand, censuses>>

Forget ==      \* the census in hand is done with, or its process is killed
  /\ inHand # Null
  /\ inHand' = Null
  /\ served' = Null
  /\ UNCHANGED <<censuses, overlay>>

-----------------------------------------------------------------------------
(* The routes.                                                             *)

(* The lines of a port.                                                    *)
Mine(p) == {i \in DOMAIN censuses : censuses[i].port = p}

BadLatestCensus(p) ==      \* mutant: the last line of the log
  IF Mine(p) = {} THEN Null ELSE censuses[Max(Mine(p))]

latest_census(p) ==        \* max() keeps the first of those acquired last
  IF Mine(p) = {} THEN Null
  ELSE censuses[Min({i \in Mine(p) : \A j \in Mine(p) : censuses[j].day <= censuses[i].day})]

get_anchorage_census(p) ==
  served' = [route |-> "census", port |-> p, census |-> latest_census(p)]

get_anchorage_overlay(p) ==
  LET latest == latest_census(p) IN
    served' = [route |-> "overlay", port |-> p, census |-> latest,
               drawn |-> IF latest = Null THEN Null ELSE overlay[p][latest.scene]]

BadPaired(p) ==            \* mutant: of every port
  {i \in DOMAIN censuses : censuses[i].day \in DOMAIN PortWatch[p]}

Paired(p) == {i \in Mine(p) : censuses[i].day \in DOMAIN PortWatch[p]}

(* A correlation is reported for enough pairs, none of whose two series is *)
(* constant (scipy answers nan).                                           *)
calibrate_port(p) ==
  LET paired == Paired(p)
      Varies(f(_)) == \E i, j \in paired : f(censuses[i]) # f(censuses[j])
  IN [n |-> Cardinality(paired),
      correlated |-> /\ Cardinality(paired) >= MinN
                     /\ Varies(LAMBDA c : c.count) /\ Varies(LAMBDA c : PortWatch[p][c.day])]

get_anchorage_calibration(p) ==
  \E result \in {calibrate_port(p)} :
    served' = [route |-> "calibration", port |-> p, n |-> result.n, correlated |-> result.correlated]

AskCensus ==
  /\ served = Null
  /\ \E p \in AnchoragePorts :
       get_anchorage_census(p) \/ get_anchorage_overlay(p) \/ get_anchorage_calibration(p)
  /\ UNCHANGED <<inHand, censuses, overlay>>

Hear ==        \* the answer has been read
  /\ served # Null /\ served' = Null
  /\ UNCHANGED <<inHand, censuses, overlay>>

AnchorageNext ==
  Count \/ Try \/ Hear \/ record_census \/ render_detection_overlay \/ Forget \/ AskCensus

AnchorageSpec == AnchorageInit /\ [][AnchorageNext]_anchorageVars

-----------------------------------------------------------------------------
(* Properties.                                                             *)

(* "Fragments of one vessel's hull ... rather than two separate vessels":  *)
(* every blob that passed the gates belongs to one counted vessel, within  *)
(* the radius of its strongest, and no two vessels' strongest blobs are    *)
(* that close.                                                             *)
VesselsAreApart ==
  inHand # Null =>
    LET final == inHand.final IN
      /\ \A d \in inHand.gated :
           Cardinality({i \in DOMAIN final : \E j \in DOMAIN final[i] : final[i][j] = d}) = 1
      /\ \A i \in DOMAIN final :
           LET head == final[i][1] IN
             /\ \A j \in DOMAIN final[i] : Near(head, final[i][j]) /\ head.peak >= final[i][j].peak
             /\ \A k \in DOMAIN final : k # i => ~Near(head, final[k][1])

(* "The most recently ACQUIRED (not most recently written)": no recorded   *)
(* scene of the port is later than the one served, and its picture, if it  *)
(* has one, is of that scene.                                              *)
NewestSceneIsServed ==
  served # Null /\ served.route # "calibration" =>
    /\ \A i \in DOMAIN censuses : censuses[i].port = served.port =>
         served.census # Null /\ censuses[i].day <= served.census.day
    /\ ("drawn" \in DOMAIN served /\ served.drawn # Null) =>
         served.drawn.scene = served.census.scene

(* "A correlation is included only when a port has at least                *)
(* min_n_for_correlation real paired observations": of its own censuses,   *)
(* and of days PortWatch counted too.                                      *)
CorrelationHasItsPairs ==
  (served # Null /\ served.route = "calibration") => (served.correlated =>
    MinN <= Cardinality({i \in DOMAIN censuses :
              censuses[i].port = served.port /\ censuses[i].day \in DOMAIN PortWatch[served.port]}))

(* A census is of its scene: ships counted once, the newest scene served,  *)
(* and compared with PortWatch on enough of its own days.                  *)
CensusIsOfItsScene == VesselsAreApart /\ NewestSceneIsServed /\ CorrelationHasItsPairs

(* "A caller can never be served a stale image that no longer matches the  *)
(* CURRENT latest_census": the picture was drawn from the census served    *)
(* with it, even when the scene has been counted twice.                    *)
PictureMatchesCensus ==
  served # Null =>
    (served.route = "overlay" /\ served.drawn # Null => served.drawn = served.census)

=============================================================================
