--------------------------- MODULE MCCropGeometry ---------------------------
(* Polygons that lie on the page, reach over its edges or lie outside.     *)
EXTENDS CropGeometry

MCReported == {10 * i : i \in -1..5}
=============================================================================
