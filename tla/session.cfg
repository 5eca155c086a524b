SPECIFICATION Spec
CONSTANTS
  a = a
  b = b
  g = g
  p = p
  None = None
  Ids = {a, b, g, p}
  Prefix = p
  GenIds = {g}
  Stored = {a, b}
  MaxRequests = 3
  MaxCalls = 12
  Workloads = {
    {"Load", "Include", "Query", "Other", "Change", "SaveChanges", "Refresh"},
    {"Load", "Patch", "PatchByID", "SaveChanges", "GetMetadataFor", "DeleteByID", "Store", "Delete"},
    {"Store", "StoreAgain", "StoreCV", "Delete", "Evict", "SaveChanges", "Other"},
    {"LazyLoad", "LazyQuery", "LazyMulti", "LazyPrefix", "LazyCount", "GetValue", "Eagerly", "Delete"},
    {"LazyLoad", "GetValue", "WhatChanged", "DeleteByID", "Load", "LoadMulti", "IntoStream", "Query"},
    {"Store", "Load", "Attach", "Delete", "SaveChanges", "Exists", "Clear", "LoadStartingWith"},
    {"Revision", "Other", "Load", "Change", "Delete", "SaveChanges", "Refresh"},
    {"Load", "Change", "Flip", "Ignore", "SaveChanges", "changes", "defers", "PatchByID"}
  }
INVARIANTS  IdentityMap SnapshotIsServerVersion SaveIsComplete
PROPERTIES NoLostUpdate LazyLoadIsRight
CHECK_DEADLOCK FALSE
