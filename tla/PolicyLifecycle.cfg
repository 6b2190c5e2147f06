\* Two administrators create, update, publish and give up two policies, wait for each
\* other's locks, and the criteria table changes from usable to not usable and back.
SPECIFICATION FairSpec
CONSTANTS
  Admins = {a1, a2}
  Policies = {p1, p2}
  Catalogs = {k1, k2}
  Usable = {k1}
  None = None
  MaxVersion = 2
INVARIANTS
  OneActive
  PublishedOnce
  SuccessionIsALine
PROPERTIES
  EveryCallEnds
  PublishedIsFrozen
  ImplementsActivePolicy
