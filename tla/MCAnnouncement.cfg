\* A scene besides the sky is enough.
CONSTANTS
  Sky = sky
  Scenes = {sky, city}
SPECIFICATION Spec
INVARIANT
  AnnouncedIsShown
