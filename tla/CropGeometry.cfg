CONSTANTS
  Axes = {"x", "y"}
  Width = "x"
  PageLength = 40
  Divisor = 10
  MinWidth = 6
  MaxUpscale = 4
  Reported <- MCReported
  Sizes = {1, 2, 3, 7}
SPECIFICATION CropSpec
INVARIANTS
  CropTypeOK
  CropNeverEmpty
  FieldInCrop
\* A field is cropped once.
CHECK_DEADLOCK FALSE
