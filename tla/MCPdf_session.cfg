\* Sessions of two requests with three documents: an outlined one, a form, a
\* protected one.  A session ends: no deadlock check.
CONSTANTS
  Originals <- MCOriginals
  Requests <- MCRequests
  MaxRequests = 2
SPECIFICATION Spec
INVARIANT TypeOK
INVARIANT AskedPasswordLocks
INVARIANT LockedContentStaysLocked
INVARIANT PagesAccounted
INVARIANT TopBookmarksReadBack
CHECK_DEADLOCK FALSE
