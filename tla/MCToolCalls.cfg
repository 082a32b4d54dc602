SPECIFICATION FairSpec
CONSTANTS
    edit1 = edit1  edit2 = edit2  look = look  shell = shell
    main = main  side = side  edit = edit  read = read  bash = bash
    old = old  new = new
    NoRequest = NoRequest
    Calls = {edit1, edit2, look}
    UserBash = {}
    Mutating = {edit1, edit2}
    WithInput = {edit2}
    MaxPending = 2
    Session = {main, side}
    Tool = {edit, read, bash}
    HookMap = {old, new}
    Ending = {edit1, edit2}
    Slow = {edit1}
    Left = {main}
    SessionOf <- MCSessionOf
    ToolOf <- MCToolOf
    Hooks <- MCHooks
    Loaded <- MCLoaded
INVARIANTS
    TypeOK
    GateHolds
    RefusedForCause
    ArgsKept
PROPERTIES
    HandlersReturn
    ResultReported
