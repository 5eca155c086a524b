--------------------------- MODULE DocumentQuery ---------------------------
(***************************************************************************)
(* A program building and running queries: up to two query values, the     *)
(* second made from the first by SelectFields (document_query.go).  The    *)
(* two share the parameter map, and the array behind their where tokens    *)
(* for as long as neither has outgrown it.                                 *)
(*                                                                         *)
(* A workload is a set of method names; Init picks one, and the program    *)
(* calls its methods in any order.                                         *)
(***************************************************************************)
EXTENDS QueryBuilder

CONSTANTS Workloads,  \* sets of method names
          MaxCalls,   \* bound: calls plus methods of the workload
          MaxMatches, \* bound: documents the query matches
          UserNames   \* names given to AddParameter; n is "pn"

VARIABLES q,       \* the two queries
          live,    \* the queries that exist
          work,    \* this program's methods
          calls,   \* calls made
          matches, \* documents the query matches on the server
          last,    \* the last execution: query, method, outcome
          nots,    \* queries with a Not that no clause has used yet
          negs,    \* the calls that asked for a negated clause
          named,   \* the program has added a parameter called p<number>
          odd,     \* queries built in a way the grammar check excepts
          clash,   \* a write through one query changed the other's tokens
          failed,  \* queries whose execution failed or was only begun
          runs     \* executions of each query and of those it was made from

vars == <<q, live, work, calls, matches, last, nots, negs, named, odd,
          clash, failed, runs>>

ghosts == <<nots, negs, named, odd>>

Handles == {1, 2}
Answers == {"fresh", "stale", "missing", "fail"}
NoRun == [h |-> 1, m |-> "none", out |-> "none", n |-> 0]

Init ==
  /\ work \in Workloads
  /\ \E dyn, raw, mustPage \in BOOLEAN :
       /\ raw => dyn /\ "Raw" \in work
       /\ ~dyn \/ mustPage => "Kinds" \in work
       /\ q = [h \in Handles |-> newAbstractDocumentQuery(dyn, raw, mustPage)]
  /\ live = {1}
  /\ calls = 0
  /\ matches \in IF "Execute" \in work THEN 0 .. MaxMatches ELSE {0}
  /\ last = NoRun
  /\ nots = {} /\ negs = {} /\ odd = {} /\ failed = {}
  /\ clash = FALSE /\ named = FALSE
  /\ runs = [h \in Handles |-> 0]

-----------------------------------------------------------------------------
(* The array behind the where tokens: append doubles it. *)

capacity(n) == CHOOSE k \in {0, 1, 2, 4, 8, 16, 32} :
                 k >= n /\ \A j \in {0, 1, 2, 4, 8, 16, 32} : j >= n => k <= j

other(h) == 3 - h

freshArray == CHOOSE a \in 0 .. 2 : \A h \in Handles : q[h].arr # a

\* The query after the call, in a new array where the old one was full.
moved(h, new) ==
  IF Len(new.where) > capacity(Len(q[h].where)) THEN [new EXCEPT !.arr = freshArray] ELSE new

\* What the other query sees: the shared map, and the slots written in place.
seen(h, new) ==
  [q[other(h)] EXCEPT
     !.params = new.params,
     !.where = IF q[1].arr = q[2].arr
               THEN [i \in DOMAIN @ |->
                       IF i > Len(q[h].where) /\ i <= Len(new.where) /\ i <= capacity(Len(q[h].where))
                       THEN new.where[i] ELSE @[i]]
               ELSE @]

May(name) == name \in work /\ calls + Cardinality(work) < MaxCalls /\ last.out # "panic"

\* One method call; the methods of DocumentQuery do nothing on a failed query.
Call(h, name, new) ==
  /\ May(name)
  /\ h \in live
  /\ calls' = calls + 1
  /\ q' = IF 2 \in live THEN [x \in Handles |-> IF x = h THEN moved(h, new) ELSE seen(h, new)]
          ELSE [q EXCEPT ![h] = moved(h, new)]
  /\ clash' = (clash \/ (2 \in live /\ seen(h, new).where # q[other(h)].where))
  /\ last' = IF new.err = "panic" THEN [h |-> h, m |-> name, out |-> "panic", n |-> 0] ELSE last
  /\ UNCHANGED <<work, matches, live, failed, runs>>

Ok(h) == q[h].err = "none"

\* A RawDocumentQuery has none of the methods that build clauses.
Builds(h) == Ok(h) /\ ~q[h].raw

Setting(h, name, new) == Ok(h) /\ Call(h, name, new) /\ UNCHANGED ghosts

Plain(h, name, new) == Builds(h) /\ Call(h, name, new) /\ UNCHANGED ghosts

c == calls + 1

\* An operand behind "true" or moreLikeThis gets no operator.
unjoined(h) == lastKind(q[h]) \in {"true", "mlt"}

\* The clause of this call is negated, or not, by the Not before it.
Uses(h, neg) ==
  /\ negs' = IF (h \in nots) # neg THEN negs \cup {c} ELSE negs
  /\ nots' = nots \ {h}
  /\ UNCHANGED named

Clause(h, name, new) ==
  /\ Builds(h)
  /\ Call(h, name, new)
  /\ Uses(h, FALSE)
  /\ odd' = IF unjoined(h) THEN odd \cup {h} ELSE odd

WhereLucene(h) ==
  /\ Builds(h)
  /\ Call(h, "WhereLucene", whereLucene(q[h], c))
  /\ Uses(h, FALSE)
  /\ odd' = IF q[h].negate \/ unjoined(h) \/ lastKind(q[h]) \in WhereKinds \cup {"close"}
            THEN odd \cup {h} ELSE odd

WhereNotEquals(h, args) ==
  /\ Builds(h)
  /\ Call(h, "WhereNotEquals", whereNotEqualsWithParams(q[h], args, c))
  /\ Uses(h, TRUE)
  /\ odd' = IF unjoined(h) THEN odd \cup {h} ELSE odd

Where(h, op) ==
  /\ Builds(h)
  /\ Call(h, "Where", where(q[h], op, c))
  /\ Uses(h, op = "!=")
  /\ odd' = IF unjoined(h) THEN odd \cup {h} ELSE odd

OpenSubclause(h) ==
  /\ Builds(h)
  /\ Call(h, "OpenSubclause", openSubclause(q[h], c))
  /\ Uses(h, FALSE)
  /\ odd' = IF unjoined(h) \/ q[h].inMlt THEN odd \cup {h} ELSE odd

CloseSubclause(h) ==
  /\ Builds(h)
  /\ Call(h, "CloseSubclause", closeSubclause(q[h]))
  /\ odd' = IF q[h].depth <= 0 \/ q[h].inMlt \/ lastKind(q[h]) \in {"none", "open", "and", "or", "intersect"}
            THEN odd \cup {h} ELSE odd
  /\ UNCHANGED <<nots, negs, named>>

Operator(h, name, new) ==
  /\ Builds(h)
  /\ Call(h, name, new)
  /\ odd' = IF lastKind(q[h]) \in {"open", "intersect"} THEN odd \cup {h} ELSE odd
  /\ UNCHANGED <<nots, negs, named>>

Not(h) ==
  /\ Call(h, "Not", negateNext(q[h]))
  /\ nots' = IF h \in nots THEN nots \ {h} ELSE nots \cup {h}
  /\ UNCHANGED <<negs, named, odd>>

AddParameter(h, n) ==
  /\ Ok(h)
  /\ Call(h, "AddParameter", addParameter(q[h], n, c))
  /\ named' = (named \/ n < 100)
  /\ UNCHANGED <<nots, negs, odd>>

MoreLikeThis(h, n) ==
  /\ Builds(h) /\ ~q[h].inMlt
  /\ Call(h, "MoreLikeThis", moreLikeThis(q[h], n, c))
  /\ odd' = IF unjoined(h) THEN odd \cup {h} ELSE odd
  /\ UNCHANGED <<nots, negs, named>>

\* The builder function returns: calls made in it went to the nested tokens.
CloseMoreLikeThis(h) ==
  /\ q[h].inMlt
  /\ q' = [q EXCEPT ![h] = mltClose(q[h])]
  /\ UNCHANGED <<live, work, calls, matches, last, ghosts, clash, failed, runs>>

\* The old query gets the fields token too; the new one replaces query 2.
SelectFields(h) ==
  /\ Builds(h) /\ ~q[h].inMlt
  /\ May("SelectFields")
  /\ h \in live
  /\ calls' = calls + 1
  /\ \E u \in {updateFieldsToFetchToken(q[h], c)} :
       q' = [q EXCEPT ![h] = u, ![2] = createDocumentQueryInternal(u)]
  /\ live' = {1, 2}
  /\ odd' = (odd \ {2}) \cup IF h \in odd \/ q[h].depth # 0 THEN {2} ELSE {}
  /\ nots' = (nots \ {2}) \cup IF h \in nots THEN {2} ELSE {}
  /\ failed' = failed \ {2}
  /\ runs' = [runs EXCEPT ![2] = runs[h]]
  /\ last' = NoRun
  /\ UNCHANGED <<work, matches, negs, named, clash>>

-----------------------------------------------------------------------------
(* Executions: first, or of a query that has a result already. *)

Ran(h, name, new, r) ==
  /\ May("Execute")
  /\ h \in live /\ ~q[h].inMlt
  /\ calls' = calls + 1
  /\ q' = [q EXCEPT ![h] = new]
  /\ last' = [h |-> h, m |-> name, out |-> r.out, n |-> r.n]
  /\ failed' = IF r.out = "error" /\ new.op = "built" THEN failed \cup {h} ELSE failed
  /\ runs' = [runs EXCEPT ![h] = @ + 1]
  /\ UNCHANGED <<live, work, matches, ghosts, clash>>

RunGetResults(h) == \E ans \in Answers : \E new \in {GetResults(q[h], ans, matches)} :
  Ok(h) /\ Ran(h, "GetResults", new, outcome(q[h], new, new.found))

RunFirst(h) == \E ans \in Answers : \E new \in {First(q[h], ans, matches)} :
  Ok(h) /\ Ran(h, "First", new, outcome(q[h], new, IF new.found = 0 THEN 0 ELSE 1))

RunSingle(h) == \E ans \in Answers : \E new \in {Single(q[h], ans, matches)} :
  Ok(h) /\ Ran(h, "Single", new,
    IF new.op = "done" /\ new.found # 1 THEN [out |-> "error", n |-> 0] ELSE outcome(q[h], new, 1))

RunCount(h) == \E ans \in Answers : \E new \in {Count(q[h], ans, matches)} :
  Ok(h) /\ Ran(h, "Count", new, outcome(q[h], new, new.total))

RunAny(h) == \E ans \in Answers : \E new \in {AnyResult(q[h], ans, matches)} :
  Ok(h) /\ Ran(h, "Any", new, outcome(q[h], new, IF new.total > 0 THEN 1 ELSE 0))

\* A failed build is returned by Lazily and kept in the query's error.
RunLazily(h, name, new) ==
  /\ name = "Lazily" => Ok(h)
  /\ May("Lazily")
  /\ h \in live /\ ~q[h].inMlt
  /\ calls' = calls + 1
  /\ q' = [q EXCEPT ![h] = new]
  /\ failed' = IF new.op = "built" THEN failed \cup {h} ELSE failed
  /\ runs' = [runs EXCEPT ![h] = @ + 1]
  /\ UNCHANGED <<live, work, matches, last, ghosts, clash>>

\* The session's multi-get brings the answer.
LazyAnswer(h) ==
  /\ May("Lazily") /\ q[h].lazies > 0
  /\ \E ans \in Answers : q' = [q EXCEPT ![h] = handleResponse(q[h], ans, matches)]
  /\ UNCHANGED <<live, work, calls, matches, last, ghosts, clash, failed, runs>>

RunAggregation(h) ==
  /\ q[h].agg # "none"
  /\ \E ans \in Answers : Ran(h, "Execute", q[h], aggregationOutcome(q[h], ans, matches))

-----------------------------------------------------------------------------
\* Where, WhereLucene, WhereEquals ... WhereRegex.
Comparisons(h) ==
  \/ \E op \in {"=", "!=", "<", "<=", ">", ">=", "?"} : Where(h, op)
  \/ WhereLucene(h)
  \/ Clause(h, "WhereEquals", whereEqualsWithParams(q[h], 1, c))
  \/ Clause(h, "WhereEqualsWithMethodCall", whereEqualsWithParams(q[h], 2, c))
  \/ \E args \in 1 .. 2 : WhereNotEquals(h, args)
  \/ Clause(h, "WhereIn", whereIn(q[h], c))
  \/ Clause(h, "WhereIn", whereStartsWith(q[h], c))
  \/ Clause(h, "WhereIn", whereEndsWith(q[h], c))
  \/ Clause(h, "WhereBetween", whereBetween(q[h], c))
  \/ Clause(h, "WhereExists", whereExists(q[h], c))
  \/ Clause(h, "WhereIn", whereRegex(q[h], c))
  \/ Plain(h, "Exact", markLastTokenExact(q[h]))

\* OpenSubclause ... Skip; the setters at the end do not look at the error.
Structure(h) ==
  \/ OpenSubclause(h)
  \/ CloseSubclause(h)
  \/ Clause(h, "Search", searchWithOperator(q[h], c))
  \/ Plain(h, "Intersect", intersect(q[h]))
  \/ Clause(h, "WhereIn", containsAny(q[h], c))
  \/ \E empty \in BOOLEAN : Clause(h, "ContainsAll", containsAll(q[h], empty, c))
  \/ \E o \in {"and", "or"} : Setting(h, "UsingDefaultOperator", usingDefaultOperator(q[h], o))
  \/ Call(h, "Settings", noTracking(q[h])) /\ UNCHANGED ghosts
  \/ Call(h, "Settings", noCaching(q[h])) /\ UNCHANGED ghosts
  \/ Call(h, "Settings", include(q[h], 1)) /\ UNCHANGED ghosts
  \/ Not(h)
  \/ \E n \in 0 .. 1 : Call(h, "Take", take(q[h], n)) /\ UNCHANGED ghosts

\* AndAlso ... RandomOrderingWithSeed.
Operators(h) ==
  \/ Operator(h, "AndAlso", andAlso(q[h]))
  \/ Operator(h, "OrElse", orElse(q[h]))
  \/ \E v \in {"no", "bad", "good"} : Plain(h, "Options", boost(q[h], v))
  \/ \E v \in {"bad", "good"} : Plain(h, "Options", fuzzy(q[h], v))
  \/ \E v \in {"bad", "good"} : Plain(h, "Options", proximity(q[h], v))
  \/ Plain(h, "OrderBy", randomOrderingWithSeed(q[h], c))

\* GroupBy ... OrderByDescendingWithOrdering, and what follows a GroupBy.
Groups(h) ==
  \/ Plain(h, "GroupBy", groupByFieldWithMethod(q[h]))
  \/ Plain(h, "OrderBy", orderByWithOrdering(q[h], c))
  \/ Plain(h, "OrderBy", orderByDescendingWithOrdering(q[h], c))

GroupSelects(h) ==
  \/ Plain(h, "GroupBy", groupByKey(q[h], c))
  \/ Plain(h, "GroupBy", groupBySum(q[h], c))
  \/ Plain(h, "GroupBy", groupByCount(q[h], c))

\* Distinct ... AddParameter.
Settings(h) ==
  \/ Plain(h, "Distinct", distinct(q[h], c))
  \/ Plain(h, "OrderBy", orderByScore(q[h], c))
  \/ Plain(h, "OrderBy", orderByScoreDescending(q[h], c))
  \/ Setting(h, "Wait", waitForNonStaleResults(q[h]))
  \/ \E n \in UserNames : AddParameter(h, n)

Aggregations(h) ==
  \/ \E n \in 0 .. 2 : Plain(h, "Aggregate", AggregateByFacet(q[h], aggregateBy(q[h], n, c)))
  \/ \E blank \in BOOLEAN : Plain(h, "Aggregate", AggregateByFacet(q[h], aggregateUsing(q[h], blank, c)))

\* Spatial3 ... OrderByDistanceDescendingWkt.
Spatials(h) ==
  \/ \E circle \in BOOLEAN : Clause(h, "Spatial", spatial3(q[h], circle, c))
  \/ \E circle \in BOOLEAN : Clause(h, "Spatial", spatial2(q[h], circle, c))
  \/ Clause(h, "WithinRadiusOf", withinRadiusOf(q[h], c))
  \/ \E known \in BOOLEAN : Clause(h, "RelatesToShape", spatial(q[h], known, c))
  \/ Plain(h, "OrderByDistance", orderByDistanceLatLong(q[h], c))
  \/ Plain(h, "OrderByDistance", orderByDistanceDescendingLatLong(q[h], c))
  \/ Plain(h, "OrderByDistance", orderByDistance3(q[h], c))
  \/ Plain(h, "OrderByDistance", orderByDistanceDescendingWkt(q[h], c))
  \/ \E f \in BOOLEAN : Plain(h, "OrderByDistance", orderByDistanceLatLongDynamic(q[h], f, c))
  \/ \E f \in BOOLEAN : Plain(h, "OrderByDistance", orderByDistanceWktDynamic(q[h], f, c))
  \/ \E f \in BOOLEAN : Plain(h, "OrderByDistance", orderByDistanceDescendingLatLongDynamic(q[h], f, c))
  \/ \E f \in BOOLEAN : Plain(h, "OrderByDistance", orderByDistanceDescendingWktDynamic(q[h], f, c))

\* MoreLikeThis, MoreLikeThisWithBuilder, SuggestUsing.
Likenesses(h) ==
  \/ \E n \in 0 .. 2 : MoreLikeThis(h, n)
  \/ CloseMoreLikeThis(h)
  \/ \E n \in 1 .. 2 : Plain(h, "SuggestUsing", suggestUsing(q[h], n, c))

Executions(h) ==
  \/ RunGetResults(h)
  \/ RunFirst(h)
  \/ RunSingle(h)
  \/ RunCount(h)
  \/ RunAny(h)
  \/ RunAggregation(h)
  \/ RunLazily(h, "Lazily", Lazily(q[h]))
  \/ RunLazily(h, "CountLazily", CountLazily(q[h]))
  \/ LazyAnswer(h)

Next == \E h \in Handles :
  \/ Comparisons(h) \/ Structure(h) \/ Operators(h) \/ Groups(h) \/ GroupSelects(h)
  \/ Settings(h) \/ Aggregations(h) \/ Spatials(h) \/ Likenesses(h)
  \/ SelectFields(h) \/ Executions(h)

Spec == Init /\ [][Next]_vars

-----------------------------------------------------------------------------
(* Properties. *)

\* Every token and parameter of a query is of the form the text writer knows,
\* the names in the text are parameters that exist, and a result is there
\* exactly when the query is done.
TypeOK ==
  \A h \in live :
    /\ q[h].op \in {"nil", "built", "done"}
    /\ q[h].err \in {"none", "state", "argument", "panic"}
    /\ \A i \in DOMAIN q[h].where : q[h].where[i].k = "mlt" \/ q[h].where[i].w = <<>>
    /\ \A s \in {q[h].where, q[h].select, q[h].order} : \A i \in DOMAIN s :
         Range(s[i].ps) \subseteq DOMAIN q[h].params
    /\ q[h].op # "done" => q[h].found = 0
    /\ q[h].found <= q[h].total

\* The grammar of a where clause, as a reader of the tokens from left to
\* right: "x" expects an operand, "o" has one, "bad" cannot go on.
read(st, t) ==
  CASE st.at = "x" /\ t.k \in WhereKinds \cup {"true", "mlt"} -> [st EXCEPT !.at = "o"]
    [] st.at = "x" /\ t.k = "open" -> [st EXCEPT !.d = @ + 1]
    [] st.at = "x" /\ t.k = "not" -> [st EXCEPT !.at = "n"]
    [] st.at = "n" /\ t.k \in WhereKinds \cup {"true", "mlt"} -> [st EXCEPT !.at = "o"]
    [] st.at = "n" /\ t.k = "open" -> [at |-> "x", d |-> st.d + 1]
    [] st.at = "o" /\ t.k = "close" /\ st.d > 0 -> [st EXCEPT !.d = @ - 1]
    [] st.at = "o" /\ t.k \in {"and", "or", "intersect"} -> [st EXCEPT !.at = "x"]
    [] OTHER -> [st EXCEPT !.at = "bad"]

parsed(toks) == FoldLeft(read, [at |-> "x", d |-> 0], toks)

\* The text of a query that was sent is a clause of the query language: every
\* operand is joined to the one before it, every subclause is closed, and a
\* negation stands before an operand (appendOperatorIfNeeded,
\* negateIfNeeded, the depth check of string()).  Excepted are the uses the
\* builder does not guard: WhereLucene behind another clause, a clause
\* behind an empty ContainsAll or MoreLikeThis, an operator next to a
\* bracket or at the end, a bracket closed that is not open, SelectFields in
\* an open subclause, and two queries writing into one array.
ClauseWellFormed ==
  \A h \in live : \A t \in {q[h].text} :
    t # <<>> /\ h \notin odd /\ ~clash /\ Last(t).k \notin {"and", "or", "intersect"}
      => parsed(t) = [at |-> "o", d |-> 0]

\* A clause is negated exactly when the caller asked for it: each Not counts
\* for the next clause and for no other, an equality turns into its opposite
\* instead, and a projection takes a pending Not along.  WhereLucene, which
\* loses the negation, is excepted.
NegationApplied ==
  \A h \in live : \A i \in DOMAIN q[h].where : \A t \in {q[h].where[i]} :
    t.c > 0 /\ t.k \notin {"lucene", "mlt"} /\ ~clash
      => (t.c \in negs <=> t.k = "neq" \/ (i > 1 /\ q[h].where[i - 1].k = "not"))

\* Every parameter a text names still has the value its clause gave it, in
\* every section of both queries, whichever query added it to the shared map.
\* Excepted is a program that itself adds a parameter called p<number>.
\* Types are kept.
ParametersKept ==
  TypeOK /\ \A h \in live : \A s \in {q[h].where, q[h].select, q[h].order} : \A i \in DOMAIN s :
    ~named
      => \A n \in Range(s[i].ps) : q[h].params[n] = s[i].c

\* The first execution of a query without a page size answers right: all the
\* matches, one of them, the only one or an error, their number, whether
\* there are any.
FirstRunIsRight ==
  \A h \in live :
    last.h = h /\ last.out = "ok" /\ runs[h] = 1 /\ "Take" \notin work
      => CASE last.m = "GetResults" -> last.n = matches
           [] last.m = "First" -> last.n = (IF matches = 0 THEN 0 ELSE 1)
           [] last.m = "Single" -> matches = 1
           [] last.m = "Count" -> last.n = matches
           [] last.m = "Any" -> (last.n = 1) = (matches > 0)
           [] OTHER -> TRUE

\* A method panics only on a query whose execution has failed or has only
\* been begun by Lazily, on Exact without a clause, and on an aggregation
\* whose index does not exist.
PanicsAreKnown ==
  last.out = "panic" => last.m \in {"Exact", "Execute"} \/ last.h \in failed

\* "If there is more than one result, it returns IllegalStateError."
\* (abstract_document_query.go, Single), whatever ran before on the query.
SingleIsUnique ==
  last.m = "Single" /\ last.out = "ok" /\ "Take" \notin work => matches = 1

\* A call on one query leaves the where clause of the other as it was.
QueriesIndependent == ~clash

\* WhereLucene, ContainsAll and MoreLikeThis give a text the language has,
\* like every other clause.
EveryClauseJoined ==
  \A h \in live : \A t \in {q[h].text} :
    t # <<>> /\ q[h].depth = 0 /\ work \cap {"AndAlso", "OrElse", "CloseSubclause", "SelectFields"} = {}
      => parsed(t).at = "o"

=============================================================================
