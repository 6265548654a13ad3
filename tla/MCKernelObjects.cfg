SPECIFICATION Spec
CONSTANTS
  Capacity <- MCCapacity
  LastHandle = 8
INVARIANT HeldExactlyUsable
PROPERTY HandleNamesOneObject
