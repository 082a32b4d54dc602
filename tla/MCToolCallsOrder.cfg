SPECIFICATION Spec
CONSTANTS
    edit1 = edit1  edit2 = edit2  look = look  shell = shell
    main = main  side = side  edit = edit  read = read  bash = bash
    old = old  new = new
    NoRequest = NoRequest
    Calls = {edit1, shell}
    UserBash = {shell}
    Mutating = {edit1}
    WithInput = {edit1}
    MaxPending = 2
    Session = {main}
    Tool = {edit, bash}
    HookMap = {old, new}
    Ending = {edit1, shell}
    Slow = {}
    Left = {}
    SessionOf <- MCSessionOf
    ToolOf <- MCToolOf
    Hooks <- MCHooks
    Loaded <- MCLoaded
INVARIANT
    FileChangedAfterPostToolHooks
