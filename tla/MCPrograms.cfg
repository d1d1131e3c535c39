CONSTANTS
    None = None
    Unset = Unset
    Invalid = Invalid
    Absent = Absent
    Torn = Torn
    Nil = Nil
SPECIFICATION MCSpec
INVARIANTS  NamesResolve  OverridesExact SanitizersExact DepSetOrdered   RecentKept NinjaCurrent  OutputsExact ErrorsExact EntriesOrdered  OpenZipsBounded
PROPERTIES OnlyOldestLost
CHECK_DEADLOCK FALSE
