\* Four pages of two objects of four bytes, a header of five bytes at byte 10 of
\* 16; page limits small enough to pass on the way up and on the way down.
CONSTANTS
    Pages = {1, 2, 3, 4}
    pagesize = 16
    ListSize = 2
    HeaderSize = 5
    size = 4
    PAGE_THRESHOLD = 3
    PAGE_FREE = 1
SPECIFICATION Spec
INVARIANTS ListsWhole HandedOutOnce CountersAgree PagesGivenBack
PROPERTIES ImplementsSlabCache
\* The cache is destroyed at the end.
CHECK_DEADLOCK FALSE
