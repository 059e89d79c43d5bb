---------------------------- MODULE CropGeometry ----------------------------
(***************************************************************************)
(* From the geometry a provider reports to the pixels a re-read looks at:  *)
(* the constructors of BoundingBox, its passage through the graph state as *)
(* a tuple, and crop_region (src/domain/models/base.py,                    *)
(* src/domain/preprocessing.py).                                           *)
(*                                                                         *)
(* The code treats the two axes alike, so a box is one span per axis.      *)
(* Lengths are integers: a page is PageLength of them long, and what a     *)
(* provider reports is a multiple of Divisor, so that the padding of a     *)
(* box, its length over Divisor (roi_padding_ratio 0.10), is an integer as *)
(* well.                                                                   *)
(* Floating point error is left out.                                       *)
(***************************************************************************)
EXTENDS Integers

CONSTANTS
  Axes,
  Width,        (* the axis whose crop decides about magnification         *)
  PageLength,
  Divisor,
  MinWidth,     (* roi_min_width                                           *)
  MaxUpscale,   (* roi_max_upscale                                         *)
  Reported,     (* bound: coordinates a provider reports                   *)
  Sizes         (* bound: raster sizes in pixels                           *)

ASSUME CropGeometryAssumption ==
  /\ Width \in Axes
  /\ {PageLength, Divisor, MinWidth, MaxUpscale} \subseteq Nat \ {0}
  /\ Reported \subseteq Int
  /\ PageLength % Divisor = 0 /\ \A r \in Reported : r % Divisor = 0
  /\ Sizes \subseteq Nat \ {0}

VARIABLES
  stage,      (* "reported", "located", "unlocated", "cropped", "refused"  *)
  polygon,    (* axis -> least and greatest coordinate reported            *)
  raster,     (* axis -> pixels of the page                                *)
  box,        (* axis -> start and length, the tuple in the graph state    *)
  crop,       (* axis -> first pixel, and the one after the last           *)
  magnified   (* axis -> pixels handed to the VLM                          *)

cropVars == <<stage, polygon, raster, box, crop, magnified>>

Span == [start: 0..PageLength, length: 0..PageLength]

NoSpan == [a \in Axes |-> [start |-> 0, length |-> 0]]

CropTypeOK ==
  /\ stage \in {"reported", "located", "unlocated", "cropped", "refused"}
  /\ polygon \in [Axes -> [least: Reported, greatest: Reported]]
  /\ raster \in [Axes -> Sizes]
  /\ box \in [Axes -> Span]
  /\ crop \in [Axes -> [first: Nat, after: Nat]]
  /\ magnified \in [Axes -> Nat]

CropInit ==
  /\ stage = "reported"
  /\ polygon \in [Axes -> {p \in [least: Reported, greatest: Reported] :
                             p.least <= p.greatest}]
  /\ raster \in [Axes -> Sizes]
  /\ box = NoSpan
  /\ crop = [a \in Axes |-> [first |-> 0, after |-> 0]]
  /\ magnified = [a \in Axes |-> 0]

AtLeast(lower, v) == IF v < lower THEN lower ELSE v
AtMost(upper, v)  == IF v > upper THEN upper ELSE v

(* Seeded fault: what lies before the page edge is kept.                   *)
upper_bound_only(v, upper) == AtMost(upper, v)

(* _clamp: the lower bound prevails.                                       *)
Clamp(v, upper) == AtLeast(0, AtMost(upper, v))

(* Start and length, each clamped: a start before the page edge is moved   *)
(* onto it, with the length unchanged.                                     *)
Clamped(start, length) ==
  LET s == Clamp(start, PageLength)
  IN  [start |-> s, length |-> Clamp(length, PageLength - s)]

is_degenerate(b) == \E a \in Axes : b[a].length <= 0

(* A box without area is not stored as a location.                         *)
Locates(b) ==
  /\ box' = b
  /\ stage' = IF is_degenerate(b) THEN "unlocated" ELSE "located"
  /\ UNCHANGED <<polygon, raster, crop, magnified>>

Extent(a) == polygon[a].greatest - polygon[a].least

(* Azure's polygons over from_absolute; a vision model reports start and   *)
(* length itself, which from_tuple treats alike.                           *)
from_polygon ==
  /\ stage = "reported"
  /\ Locates([a \in Axes |-> Clamped(polygon[a].least, Extent(a))])

(* Textract's box keeps a length that reaches beyond the page.             *)
to_bounding_box ==
  /\ stage = "reported"
  /\ Locates([a \in Axes |-> [start  |-> Clamp(polygon[a].least, PageLength),
                              length |-> Clamp(Extent(a), PageLength)]])

(* Google reports vertices, each of which is clamped.                      *)
from_normalized_vertices ==
  /\ stage = "reported"
  /\ Locates([a \in Axes |->
       LET least    == Clamp(polygon[a].least, PageLength)
           greatest == Clamp(polygon[a].greatest, PageLength)
       IN  [start  |-> least,
            length |-> Clamp(greatest - least, PageLength - least)]])

(* The tuple of the graph state, read back by from_tuple.                  *)
from_tuple(b) == [a \in Axes |-> Clamped(b[a].start, b[a].length)]

Padding(length) == length \div Divisor

(* Seeded fault: the start moves, the end stays.                           *)
padded_on_one_side(span) ==
  Clamped(span.start - Padding(span.length), span.length)

with_padding(span) ==
  Clamped(span.start - Padding(span.length),
          span.length + 2 * Padding(span.length))

(* Seeded fault: no pixel is guaranteed.                                   *)
projected_only(first, after, size) == [first |-> first, after |-> after]

(* A hairline box keeps one pixel, inside the raster.                      *)
Guaranteed(first, after, size) ==
  LET f == AtMost(AtLeast(0, size - 1), first)
  IN  [first |-> f, after |-> AtMost(size, AtLeast(f + 1, after))]

(* round(numerator / denominator), half to even.                           *)
Round(numerator, denominator) ==
  LET floor == numerator \div denominator
      twice == 2 * (numerator % denominator)
  IN  IF twice < denominator \/ (twice = denominator /\ floor % 2 = 0)
      THEN floor ELSE floor + 1

to_pixels(span, size) ==
  Guaranteed(Round(span.start * size, PageLength),
             Round((span.start + span.length) * size, PageLength), size)

Pixels(c) == c.after - c.first

(* The factor a crop of a width is magnified by, as a fraction.            *)
Factor(wide) ==
  IF MinWidth <= wide THEN <<1, 1>>
  ELSE IF MinWidth < MaxUpscale * wide THEN <<MinWidth, wide>>
  ELSE <<MaxUpscale, 1>>

crop_region ==
  /\ stage = "located"
  /\ LET rebuilt == from_tuple(box) IN
       IF is_degenerate(rebuilt)
       THEN stage' = "refused" /\ UNCHANGED <<crop, magnified>>
       ELSE /\ stage' = "cropped"
            /\ crop' = [a \in Axes |-> to_pixels(with_padding(rebuilt[a]), raster[a])]
            /\ LET factor == Factor(Pixels(crop'[Width])) IN
                 magnified' = [a \in Axes |->
                   AtLeast(1, Round(Pixels(crop'[a]) * factor[1], factor[2]))]
  /\ UNCHANGED <<polygon, raster, box>>

CropNext ==
  \/ from_polygon
  \/ to_bounding_box
  \/ from_normalized_vertices
  \/ crop_region

CropSpec == CropInit /\ [][CropNext]_cropVars

-----------------------------------------------------------------------------
(* A field of which anything is on the page can be cropped: its box is     *)
(* stored, the tuple in the state gives back a box with an area, and the   *)
(* crop, however thin or near an edge, has a pixel of the raster.          *)
CropNeverEmpty ==
  /\ stage \in {"unlocated", "refused"} =>
       \E a \in Axes : Clamp(polygon[a].least, PageLength) = Clamp(polygon[a].greatest, PageLength)
  /\ stage = "cropped" =>
       \A a \in Axes :
         /\ crop[a].first < crop[a].after
         /\ crop[a].after <= raster[a]

(* What the provider saw of the field on the page is in the crop, also if  *)
(* the polygon reaches over the edge and is clamped twice on its way.      *)
FieldInCrop ==
  stage = "cropped" =>
    \A a \in Axes :
      /\ crop[a].first * PageLength <=
           Clamp(polygon[a].least, PageLength) * raster[a] + PageLength \div 2
      /\ crop[a].after * PageLength >=
           Clamp(polygon[a].greatest, PageLength) * raster[a] - PageLength \div 2
=============================================================================
