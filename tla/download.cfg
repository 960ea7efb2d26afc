CONSTANTS
  nil = nil
  Beneficiaries = {"ann"}
  Handlers = {h1, h2}
  LinkExpiry = 1
  MaxDownloads = 2
  MaxLinks = 2
  MaxFaults = 1
  MaxTime = 2
SPECIFICATION Spec
SYMMETRY Symmetry
INVARIANTS TypeOK OvershootBounded EveryDownloadIsCounted ExtraLinksAreFaults
PROPERTY DeadForGood
