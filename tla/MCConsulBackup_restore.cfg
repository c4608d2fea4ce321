SPECIFICATION Spec
CONSTANTS
  h1 = h1
  h2 = h2
  Hosts = {h1}
  MaxFaults = 0
PROPERTIES
  RestoresBackup
