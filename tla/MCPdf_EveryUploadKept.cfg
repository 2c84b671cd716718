\* One request of the same client; its layouts include three files of one name.
CONSTANTS
  Originals <- MCOriginals
  Requests <- MCRequests
  MaxRequests = 1
SPECIFICATION Spec
INVARIANT EveryUploadKept
CHECK_DEADLOCK FALSE
