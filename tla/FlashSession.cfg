SPECIFICATION FairSpec
CONSTANTS
    small = small
    big = big
    odd = odd
    blank = blank
    Discs = {small, big, odd, blank}
    File <- MCFile
    Tries = 3
INVARIANTS
    StartsOldOrNew
    FlashesOneDisc
PROPERTY FileIsDecided
CHECK_DEADLOCK FALSE
