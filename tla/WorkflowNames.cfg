\* Two objects ever created under the name and one mishap, a crash or a write of
\* somebody else: enough for a name to be claimed twice or reused once, with
\* every pass interrupted anywhere.
SPECIFICATION Spec
CONSTANTS
    MaxUID = 2
    MaxMishaps = 1
CHECK_DEADLOCK FALSE
INVARIANTS OneAtWork ReportedOwn
PROPERTIES CleansOwn CollisionResolves
