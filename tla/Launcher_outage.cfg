\* The link is lost for longer than a timeout and comes back.
CONSTANTS
  motor = motor
  lidar = lidar
  Processes <- MCProcesses
  Motor = motor
  Timeout <- MCLongTimeout
  Window = 1
  Grace = 1
  StableAfter = 1
  MaxBackoff = 2
SPECIFICATION Spec
PROPERTY OutageSparesHealthy
