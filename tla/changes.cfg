SPECIFICATION FairSpec
CONSTANTS
  Threads = {t1, t2}
  Workloads = {
    {"all-indexes"},
    {"all-indexes", "break", "serial"},
    {"all-docs", "close"},
    {"docs", "all-docs", "change", "serial", "keep"},
    {"docs", "all-docs", "break", "close", "serial", "keep"},
    {"prefixes", "collections", "change", "serial", "keep"},
    {"indexes", "operations", "all-operations", "serial", "keep"},
    {"ensure", "close", "break"}}
  Capacity = 1
  MaxCalls = 2
  MaxBreaks = 1
  MaxChanges = 1
INVARIANTS RegisteredIsReachable 
 
CHECK_DEADLOCK FALSE
