SPECIFICATION Spec
CONSTANTS
  UserNames = {1, 100}
  MaxMatches = 2
  MaxCalls = 9
  Workloads = {
    {"WhereExists", "OpenSubclause", "CloseSubclause", "Execute"},
    {"WhereEquals", "Not", "OpenSubclause", "Execute"},
    {"WhereNotEquals", "WhereExists", "AndAlso", "OrElse", "Not", "Execute"},
    {"WhereLucene", "ContainsAll", "Search", "UsingDefaultOperator", "Execute"},
    {"WhereIn", "WhereBetween", "WithinRadiusOf", "RelatesToShape", "Spatial", "Kinds"},
    {"WhereEqualsWithMethodCall", "Where", "Options", "Exact", "Intersect", "Execute"},
    {"WhereEquals", "SelectFields", "AndAlso", "OrElse"},
    {"WhereExists", "SelectFields", "Not", "Execute", "AndAlso"},
    {"MoreLikeThis", "WhereExists", "WhereBetween", "Execute", "Not"},
    {"OrderBy", "OrderByDistance", "GroupBy", "Distinct", "Aggregate", "Kinds"},
    {"Aggregate", "SuggestUsing", "Distinct", "Execute", "Wait", "Kinds"},
    {"AddParameter", "WhereBetween", "OrderByDistance", "SelectFields", "Raw"},
    {"Execute", "Lazily", "Wait", "Kinds", "Distinct"},
    {"Execute", "Take", "Settings", "SelectFields", "Raw"}}
INVARIANTS ClauseWellFormed  ParametersKept FirstRunIsRight
CHECK_DEADLOCK FALSE
