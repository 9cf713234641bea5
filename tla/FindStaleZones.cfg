SPECIFICATION Spec
CONSTANTS
  Cells = {1, 2, 3}
  Views <- StoveViews
  Configs <- AnyConfig
  MaxWindow = 5
  MaxGap = 2
  MaxEdits = 1
PROPERTIES ZonesAreIgnored
