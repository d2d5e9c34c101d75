\* Three rows or documents, two times, two writes after the first page, limits
\* from nought to beyond the largest page of two.
SPECIFICATION Spec
CONSTANTS
  Ids = {1, 2, 3}
  Times = {1, 2}
  Default = 1
  MaxLimit = 2
  Asked = {NoLimit, 0, 9}
  NoLimit = NoLimit
  MaxWrites = 2
INVARIANTS StableListedOnce RepeatsOnlyWhenSetBack PagesOfOneQuery IssuedCursorAccepted
PROPERTY TraversalEnds
