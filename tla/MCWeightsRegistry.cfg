CONSTANTS
  pa = pa
  pb = pb
  u1 = u1
  u2 = u2
  watch = watch
  wide = wide
  None = None
  Product <- MCProduct
  Stream <- MCStream
  Payload <- MCPayload
  PayloadOf <- MCPayloadOf
  Default <- MCDefault
  Uploader <- MCUploader
  Watcher = watch
  Width = {wide}
  GivenWidth <- MCGivenWidth
  MaxTime = 1
  MaxUploads = 2
  MaxFaults = 1
SPECIFICATION Spec
SYMMETRY Symmetry
CHECK_DEADLOCK FALSE
INVARIANTS
  OkIsTrue
  UploadsNamed
  StaleWithinTickOnly
PROPERTY
  WidthsFollow
