SPECIFICATION FairSpec
CONSTANTS
    b1 = b1  b2 = b2  b3 = b3  n1 = n1  n2 = n2
    before = before  idle = idle
    old = old  new = new
    NoRequest = NoRequest
    Request = {b1, b2, b3, n1, n2}
    Key = {before, idle}
    Blocking = {before}
    HookMap = {old, new}
    KeyOf <- MCKeyOf
    Hooks <- MCHooks
INVARIANTS
    TypeOK
    ExactlyOnePlace
    NobodyStranded
    HonestAnswer
PROPERTIES
    EveryCallServed
    ImplementsService
