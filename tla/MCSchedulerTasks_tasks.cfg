SPECIFICATION Spec
CONSTANTS
    a1 = a1
    Accounts = {a1}
    Globals = {}
    Kinds = {"checkin", "travel", "activity", "script"}
    Hours <- MCHours
    HoursPerDay = 2
    CstShift = 1
    ReportCount = 2
    SessionDeadLimit = 2
    MaxHour = 2
    MaxTriggers = 1
INVARIANTS QuietAfterRun OneCallAfterStop OneActivityRedeemPerDay
PROPERTIES NoDueHourSlept StopEndsRun
CHECK_DEADLOCK TRUE
