\* An operator approves a part of the only grant and looks at the row that manages it.
CONSTANTS
    mail = mail  feed = feed  read = read  send = send  purge = purge  chart = chart
    ConnOrder <- MCMailOnly
    ToolOrder <- MCTools
    CustomOrder <- MCNoCustoms
    FirstAsk <- MCFirstAsk
    Limit = 8
    All = All
    MaxTouches = 3
    MaxAsks = 1
SPECIFICATION ApprovalSpec
INVARIANT GrantedRowsTicked
CHECK_DEADLOCK FALSE
