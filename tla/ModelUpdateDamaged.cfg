SPECIFICATION Spec
CONSTANTS
 Assets = {weights, voices}
 Manifest = manifest
 Folders = {"id"}
 MaxRevision = 2
 MaxCrashes = 1
 MaxFaults = 1
 MaxDamage = 1
INVARIANT CompletesOrRollsBack
