CONSTANTS
  Wanted <- MCWanted
SPECIFICATION Spec
INVARIANTS AdminServedEverywhere ServedOnlyIfPermitted
