\* Two pages, one of them kept when it is empty.
CONSTANTS
    Pages = {1, 2}
    NrSize = 1
    PAGE_THRESHOLD = 2
    PAGE_FREE = 1
SPECIFICATION Spec
INVARIANTS PagesConsumed
CHECK_DEADLOCK FALSE
