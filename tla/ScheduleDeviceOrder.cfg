CONSTANT DeviceCounts = {3}
SPECIFICATION Spec
INVARIANT DeviceOrderRotates
CHECK_DEADLOCK FALSE
