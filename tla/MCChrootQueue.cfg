CONSTANTS
    c1 = c1
    c2 = c2
    c3 = c3
    a = a
    b = b
    s1 = s1
    d1 = d1
    a1 = a1
    l1 = l1
    NoRoot = NoRoot
    Cmd = {c1, c2, c3}
    Name = {a, b}
    NameOf <- MCNameOf
    Slots = 2
    MaxCount = 2
    Session = {s1}
    Delete = {d1}
    Archive = {a1}
    List = {l1}
    Casts <- MCCasts
    Left <- MCLeft
    Frail = {c1, c2}
SPECIFICATION ChrootFairSpec
CHECK_DEADLOCK FALSE
INVARIANTS ChrootTypeOK RootsExclusive LimitKept
PROPERTIES InUseStays CommandsEnd
