\* A one-download link and a drop box of two slots, three requests.
SPECIFICATION Spec
CONSTANTS
  once = once
  box = box
  Tokens = {once, box}
  Kind <- KindOf
  Expiry <- ExpiryOf
  Paths <- TwoPaths
  Requests = {r1, r2, r3}
  DropMaxUploads = 2
  NoShare = NoShare
  NoToken = NoToken
SYMMETRY Symmetry
INVARIANT OneDownloadOnce DropQuota LiveIsDurable UploadsCountedOnDisk
PROPERTY GoneIsForever KeepsPromise
