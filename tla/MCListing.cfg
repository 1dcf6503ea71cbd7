\* A seller and a custodian; two auctions, two certificates and two attestations at most.
SPECIFICATION Spec
CONSTRAINT Apart
CONSTANTS
  i1 = i1  i2 = i2  d1 = d1  d2 = d2
  None = None
  Images = {i1}
  MaxUploads = 3
  MaxVisits = 2
  MaxListings = 2
  Certificates = {d1, d2}
  Items = {1, 2}
  DemoItems = {1}
  MaxFiles = 2
  MaxAttests = 2
  MaxLoads = 1
INVARIANTS TypeOK ListedIsStored AttestedIsStored
CHECK_DEADLOCK FALSE
