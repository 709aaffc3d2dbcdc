\* The three scenes of the picker.
CONSTANTS
  Sky = sky
  Scenes = {sky, city, forest}
  TrailLength = 3
  Reach = 2
  Width = 3
  AutoStartTier = "high"
  Hdr = TRUE
  Elevations <- StopsAndZenith
  MaxJumps = 2
\* Heights at and beside every limit of addBuilding.
  Heights = {9, 13, 18, 26, 34, 56, 66, 70, 74}
SPECIFICATION PageSpec
INVARIANTS
  NeverInTheDark
  SettingsAgree
  SkyHoldsTogether
  TowerHoldsTogether
PROPERTIES
  FailureStaysLocal
  StoredIsShown
  EverySwitchEnds
  StillWhenReduced
  NoLatentDrag
