SPECIFICATION Spec
CONSTANTS
  Capacities <- MCCapacities
  Statuses <- MCStatuses
  Nvmes = {nvme0, nvme1}
  Nvme0 = nvme0
  MaxFaults = 2
INVARIANT SsdsLow
