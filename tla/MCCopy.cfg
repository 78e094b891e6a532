SPECIFICATION MCCopySpec
CONSTANT NumSectors = 5
INVARIANT Promise
