---------------------------- MODULE QueryBuilder ----------------------------
(***************************************************************************)
(* The fluent query builder (abstract_document_query.go, with the wrappers *)
(* of document_query.go and group_by_document_query.go).  A query is a     *)
(* record q; every Go method is an operator from the query before the call *)
(* to the query after it.  A method's error is kept in q.err, as           *)
(* DocumentQuery does with "q.err = q.method()".                           *)
(*                                                                         *)
(* A where token keeps what the methods look at: its kind k, the call c    *)
(* that made it, the parameters ps its text names, and the tokens w nested *)
(* in a moreLikeThis token.  Field names, values and options are left out. *)
(* Parameter name n stands for the text "pn".                              *)
(***************************************************************************)
EXTENDS Integers, Sequences, SequencesExt, FiniteSets

Token(k, c, ps) == [k |-> k, c |-> c, ps |-> ps, w |-> <<>>]

\* The kinds that are a *whereToken in the code.
WhereKinds == {"eq", "neq", "search", "exists", "clause", "lucene"}

\* A query on a collection (dyn), on a static index, or a raw query.
newAbstractDocumentQuery(dyn, raw, mustPage) ==
  [dyn |-> dyn, raw |-> raw, mustPage |-> mustPage, isGroupBy |-> FALSE,
   defop |-> "and", negate |-> FALSE, depth |-> 0, intersect |-> FALSE,
   inMlt |-> FALSE, err |-> "none", params |-> <<>>,
   where |-> <<>>, arr |-> 0, select |-> <<>>, group |-> 0, order |-> <<>>,
   includes |-> {}, page |-> 0, paged |-> FALSE, wait |-> FALSE,
   noTracking |-> FALSE, noCaching |-> FALSE,
   op |-> "nil", text |-> <<>>, found |-> 0, total |-> 0, lazies |-> 0, agg |-> "none"]

Fail(q, e) == [q EXCEPT !.err = e]

assertNoRawQuery(q) == ~q.raw

-----------------------------------------------------------------------------
(* Parameters. *)

nParams(q) == Cardinality(DOMAIN q.params)

\* The value of a parameter is the call that added it.
setParam(q, n, c) ==
  [q EXCEPT !.params = [x \in DOMAIN q.params \cup {n} |-> IF x = n THEN c ELSE q.params[x]]]

\* Mutant: the last name is given out again.
reuseLastName(q) == IF nParams(q) > 1 THEN nParams(q) - 1 ELSE nParams(q)

\* The name is the number of parameters there are.
parameterName(q) == nParams(q)

addQueryParameter(q, c) == setParam(q, parameterName(q), c)

\* n parameters added one after the other, and the names they got.
addParameters(q, n, c) ==
  FoldSet(LAMBDA i, p : addQueryParameter(p, c), q, 1 .. n)

newNames(q, n) == [i \in 1 .. n |-> parameterName(addParameters(q, i - 1, 0))]

addParameter(q, name, c) ==
  IF name \in DOMAIN q.params THEN Fail(q, "state") ELSE setParam(q, name, c)

-----------------------------------------------------------------------------
(* Where tokens. *)

\* Inside a MoreLikeThis builder the tokens go into the last where token.
getCurrentWhereTokens(q) == IF q.inMlt THEN Last(q.where).w ELSE q.where

tokensRefFails(q) == q.inMlt /\ (q.where = <<>> \/ Last(q.where).k # "mlt")

setTokens(q, t) ==
  IF q.inMlt THEN [q EXCEPT !.where[Len(q.where)].w = t] ELSE [q EXCEPT !.where = t]

put(q, k, c, ps) == setTokens(q, Append(getCurrentWhereTokens(q), Token(k, c, ps)))

lastKind(q) ==
  IF getCurrentWhereTokens(q) = <<>> THEN "none" ELSE Last(getCurrentWhereTokens(q)).k

\* The last *whereToken decides: after a search the operator is always OR.
joiner(q, wheres) ==
  IF wheres # <<>> /\ Last(wheres).k = "search" THEN "or" ELSE q.defop

\* Mutant: nothing is added behind a closed subclause.
appendAfterWhereOnly(q) ==
  IF q.raw THEN Fail(q, "state")
  ELSE IF lastKind(q) \notin WhereKinds THEN q
  ELSE put(q, joiner(q, SelectSeq(getCurrentWhereTokens(q), LAMBDA t : t.k \in WhereKinds)), 0, <<>>)

appendOperatorIfNeeded(q) ==
  IF q.raw THEN Fail(q, "state")
  ELSE IF lastKind(q) \notin WhereKinds \cup {"close"} THEN q
  ELSE put(q, joiner(q, SelectSeq(getCurrentWhereTokens(q), LAMBDA t : t.k \in WhereKinds)), 0, <<>>)

\* Mutant: the flag stays set and negates the next clause too.
negateAndKeep(q) == IF q.negate THEN put(q, "not", 0, <<>>) ELSE q

\* At the start of a clause the code also adds "exists(f) and", but to the
\* slice that its own copy then overwrites: only the negation stays.
negateIfNeeded(q) ==
  IF q.negate THEN put([q EXCEPT !.negate = FALSE], "not", 0, <<>>) ELSE q

\* The token of a clause with n parameters, behind the operator and negation.
addClause(q, k, n, c) ==
  IF q.err # "none" THEN q ELSE put(addParameters(q, n, c), k, c, newNames(q, n))

negated(q) == IF q.err # "none" THEN q ELSE negateIfNeeded(q)

operated(q) == IF tokensRefFails(q) THEN Fail(q, "state") ELSE appendOperatorIfNeeded(q)

clause(q, k, n, c) == addClause(negated(operated(q)), k, n, c)

whereExists(q, c) == clause(q, "exists", 0, c)
whereIn(q, c) == clause(q, "clause", 1, c)
containsAny(q, c) == clause(q, "clause", 1, c)
whereStartsWith(q, c) == clause(q, "clause", 1, c)
whereEndsWith(q, c) == clause(q, "clause", 1, c)
whereBetween(q, c) == clause(q, "clause", 2, c)
whereGreaterThan(q, c) == clause(q, "clause", 1, c)
whereGreaterThanOrEqual(q, c) == clause(q, "clause", 1, c)
whereLessThan(q, c) == clause(q, "clause", 1, c)
whereLessThanOrEqual(q, c) == clause(q, "clause", 1, c)
whereRegex(q, c) == clause(q, "clause", 1, c)
searchWithOperator(q, c) == clause(q, "search", 1, c)
withinRadiusOf(q, c) == clause(q, "clause", 3, c)

\* An empty list gives a "true" token and no parameter.
containsAll(q, empty, c) == IF empty THEN clause(q, "true", 0, c) ELSE clause(q, "clause", 1, c)

\* The tokens are read before the operator and the negation are added to
\* them, and written back after: both are lost.
lucene(q, t, c) ==
  IF q.err # "none" THEN q
  ELSE setTokens(addQueryParameter(q, c), Append(t, Token("lucene", c, newNames(q, 1))))

whereLucene(q, c) == lucene(negated(operated(q)), getCurrentWhereTokens(q), c)

\* An unknown relation is an error, after the operator has been added.
spatial(q, known, c) ==
  IF known THEN clause(q, "clause", 1, c)
  ELSE Fail(addParameters(negated(operated(q)), 1, c), "argument")

\* A circle has three parameters, a WKT shape one.
spatial3(q, circle, c) == clause(q, "clause", IF circle THEN 3 ELSE 1, c)

assertIsDynamicQuery(q) == q.dyn \/ q.raw

spatial2(q, circle, c) ==
  IF assertIsDynamicQuery(q) THEN spatial3(q, circle, c) ELSE Fail(q, "state")

\* A value is one parameter; a CmpXchg call has one per argument.
equality(q, k, args, c) == addClause(operated(q), k, args, c)

whereEqualsWithParams(q, args, c) ==
  equality([q EXCEPT !.negate = FALSE], IF q.negate THEN "neq" ELSE "eq", args, c)

whereNotEqualsWithParams(q, args, c) ==
  equality([q EXCEPT !.negate = FALSE], IF q.negate THEN "eq" ELSE "neq", args, c)

where(q, op, c) ==
  CASE op = "=" -> whereEqualsWithParams(q, 1, c)
    [] op = "!=" -> whereNotEqualsWithParams(q, 1, c)
    [] op = "<" -> whereLessThan(q, c)
    [] op = "<=" -> whereLessThanOrEqual(q, c)
    [] op = ">" -> whereGreaterThan(q, c)
    [] op = ">=" -> whereGreaterThanOrEqual(q, c)
    [] OTHER -> Fail(q, "argument")

openSubclause(q, c) == clause([q EXCEPT !.depth = @ + 1], "open", 0, c)

\* The depth may go below zero: nothing asks for an open subclause.
closeSubclause(q) ==
  IF tokensRefFails(q) THEN Fail([q EXCEPT !.depth = @ - 1], "state")
  ELSE put([q EXCEPT !.depth = @ - 1], "close", 0, <<>>)

addOperator(q, k) ==
  CASE tokensRefFails(q) -> Fail(q, "state")
    [] lastKind(q) = "none" -> q
    [] lastKind(q) \in {"and", "or"} -> Fail(q, "state")
    [] OTHER -> put(q, k, 0, <<>>)

andAlso(q) == addOperator(q, "and")
orElse(q) == addOperator(q, "or")

intersect(q) ==
  IF tokensRefFails(q) \/ lastKind(q) \notin WhereKinds \cup {"close"} THEN Fail(q, "state")
  ELSE put([q EXCEPT !.intersect = TRUE], "intersect", 0, <<>>)

negateNext(q) == [q EXCEPT !.negate = ~@]

usingDefaultOperator(q, o) ==
  IF q.where # <<>> THEN Fail(q, "state") ELSE [q EXCEPT !.defop = o]

\* The options of the last where token; "no" is the value that changes
\* nothing, "bad" one out of range.
tokenOption(q, v) ==
  CASE tokensRefFails(q) \/ lastKind(q) \notin WhereKinds -> Fail(q, "state")
    [] v = "bad" -> Fail(q, "argument")
    [] OTHER -> q

boost(q, v) == IF v = "no" THEN q ELSE tokenOption(q, v)
fuzzy(q, v) == tokenOption(q, v)
proximity(q, v) == tokenOption(q, v)

\* Without a token the code indexes an empty slice.
markLastTokenExact(q) ==
  CASE tokensRefFails(q) -> Fail(q, "state")
    [] lastKind(q) = "none" -> Fail(q, "panic")
    [] lastKind(q) \notin WhereKinds -> Fail(q, "state")
    [] OTHER -> q

-----------------------------------------------------------------------------
(* MoreLikeThis: the scope is open while the caller's builder runs. *)

\* n parameters: the options and the document, where given.
mltScope(q, n, c) ==
  IF q.err # "none" THEN q
  ELSE [addParameters(q, n, c) EXCEPT !.inMlt = TRUE,
          !.where = Append(q.where, Token("mlt", c, newNames(q, n)))]

moreLikeThis(q, n, c) == mltScope(appendOperatorIfNeeded(q), n, c)

mltClose(q) == [q EXCEPT !.inMlt = FALSE]

-----------------------------------------------------------------------------
(* Ordering, grouping, selecting. *)

ordered(q, n, c) ==
  [addParameters(q, n, c) EXCEPT !.order = Append(@, [c |-> c, ps |-> newNames(q, n)])]

orderByWithOrdering(q, c) == IF assertNoRawQuery(q) THEN ordered(q, 0, c) ELSE Fail(q, "state")
orderByDescendingWithOrdering(q, c) == IF assertNoRawQuery(q) THEN ordered(q, 0, c) ELSE Fail(q, "state")
orderByScore(q, c) == IF assertNoRawQuery(q) THEN ordered(q, 0, c) ELSE Fail(q, "state")
orderByScoreDescending(q, c) == IF assertNoRawQuery(q) THEN ordered(q, 0, c) ELSE Fail(q, "state")

noCaching(q) == [q EXCEPT !.noCaching = TRUE]

randomOrdering(q, c) == IF assertNoRawQuery(q) THEN ordered(noCaching(q), 0, c) ELSE Fail(q, "state")

\* A blank seed is randomOrdering; so is the query either way.
randomOrderingWithSeed(q, c) == randomOrdering(q, c)

orderByDistanceLatLong(q, c) == ordered(q, 2, c)
orderByDistanceDescendingLatLong(q, c) == ordered(q, 2, c)
orderByDistance3(q, c) == ordered(q, 1, c)
orderByDistanceDescendingWkt(q, c) == ordered(q, 1, c)

dynamicOrder(q, field, q2) ==
  CASE ~field -> Fail(q, "argument")
    [] ~assertIsDynamicQuery(q) -> Fail(q, "state")
    [] OTHER -> q2

orderByDistanceLatLongDynamic(q, field, c) == dynamicOrder(q, field, orderByDistanceLatLong(q, c))
orderByDistanceWktDynamic(q, field, c) == dynamicOrder(q, field, orderByDistance3(q, c))
orderByDistanceDescendingLatLongDynamic(q, field, c) ==
  dynamicOrder(q, field, orderByDistanceDescendingLatLong(q, c))
orderByDistanceDescendingWktDynamic(q, field, c) ==
  dynamicOrder(q, field, orderByDistanceDescendingWkt(q, c))

groupByFieldWithMethod(q) ==
  IF ~q.dyn \/ q.raw THEN Fail(q, "state")
  ELSE [q EXCEPT !.isGroupBy = TRUE, !.group = @ + 1]

selecting(q, k, n, c) ==
  [addParameters(q, n, c) EXCEPT !.select = Append(@, Token(k, c, newNames(q, n)))]

groupSelect(q, k, c) ==
  IF assertNoRawQuery(q) THEN selecting([q EXCEPT !.isGroupBy = TRUE], k, 0, c) ELSE Fail(q, "state")

groupByKey(q, c) == groupSelect(q, "key", c)
groupBySum(q, c) == groupSelect(q, "sum", c)
groupByCount(q, c) == groupSelect(q, "count", c)

isDistinct(q) == q.select # <<>> /\ Head(q.select).k = "distinct"

distinct(q, c) ==
  IF isDistinct(q) THEN Fail(q, "state")
  ELSE [q EXCEPT !.select = <<Token("distinct", c, <<>>)>> \o @]

\* The first fields token is replaced where it is.
updateFieldsToFetchToken(q, c) ==
  IF \E i \in DOMAIN q.select : q.select[i].k = "fields"
  THEN [q EXCEPT !.select = [i \in DOMAIN @ |->
          IF @[i].k = "fields" THEN Token("fields", c, <<>>) ELSE @[i]]]
  ELSE selecting(q, "fields", 0, c)

\* n parameters: the options and the bounds of the ranges.  The error is the
\* aggregation's own: the query it came from does not keep it.
aggregateBy(q, n, c) ==
  IF \E i \in DOMAIN q.select : q.select[i].k # "facet" THEN Fail(q, "state")
  ELSE selecting(q, "facet", n, c)

aggregateUsing(q, blank, c) == IF blank THEN Fail(q, "argument") ELSE selecting(q, "facet", 0, c)

assertCanSuggest(q) == q.where = <<>> /\ q.select = <<>> /\ q.order = <<>>

\* One parameter for the term or terms, one for options that are not the default.
suggestUsing(q, n, c) ==
  IF assertCanSuggest(q) THEN selecting(q, "suggest", n, c) ELSE Fail(q, "state")

include(q, p) == [q EXCEPT !.includes = @ \cup {p}]
take(q, n) == [q EXCEPT !.page = n, !.paged = TRUE]
noTracking(q) == [q EXCEPT !.noTracking = TRUE]
waitForNonStaleResults(q) == [q EXCEPT !.wait = TRUE]

\* The query of a projection: a new one that shares the old one's tokens and
\* parameters, and does not know its clause depth.
createDocumentQueryInternal(q) ==
  [q EXCEPT !.depth = 0, !.inMlt = FALSE, !.op = "nil", !.text = <<>>, !.found = 0,
            !.total = 0, !.lazies = 0, !.agg = "none"]

-----------------------------------------------------------------------------
(* Execution.  The server finds m documents; its answer is "fresh",        *)
(* "stale", "missing" (no such index) or "fail".                           *)

\* A raw query is sent as it is; a query with an open clause is not sent.
stringFails(q) == ~q.raw /\ q.depth # 0

assertPageSizeSet(q) == q.mustPage => q.page > 0

\* The text and the page size are fixed here, once.
initializeQueryOperation(q) ==
  IF stringFails(q) \/ ~assertPageSizeSet(q) THEN q ELSE [q EXCEPT !.op = "built", !.text = q.where]

\* Only a page size above zero is sent (jsonExtensionsWriteIndexQuery).
resultCount(q, m) == IF q.page > 0 /\ q.page < m THEN q.page ELSE m

queryOperationEnsureIsAcceptable(q, ans) == ~(q.wait /\ ans = "stale")

\* A refused or failed answer leaves an operation without a result.
setResult(q, ans, m) ==
  IF ans \in {"fresh", "stale"} /\ queryOperationEnsureIsAcceptable(q, ans)
  THEN [q EXCEPT !.op = "done", !.found = resultCount(q, m), !.total = m]
  ELSE q

executeActualQuery(q, ans, m) == IF q.op = "built" THEN setResult(q, ans, m) ELSE q

\* A query is sent once: later calls read the result that is there.
initSync(q, ans, m) ==
  IF q.op # "nil" THEN q ELSE executeActualQuery(initializeQueryOperation(q), ans, m)

\* What the call returns: reading a result that is not there panics, unless
\* this very call was the one that failed.
outcome(q, q2, n) ==
  CASE q2.op = "done" -> [out |-> "ok", n |-> n]
    [] q2.op # "done" /\ q.op = "nil" -> [out |-> "error", n |-> 0]
    [] OTHER -> [out |-> "panic", n |-> 0]

limited(q, n) == IF ~q.paged \/ q.page > n THEN take(q, n) ELSE q

First(q, ans, m) == initSync(limited(q, 1), ans, m)

\* Mutant: one result is enough to ask for.
SingleOfOne(q, ans, m) == initSync(limited(q, 1), ans, m)

Single(q, ans, m) == initSync(limited(q, 2), ans, m)
GetResults(q, ans, m) == initSync(q, ans, m)
Count(q, ans, m) == initSync(take(q, 0), ans, m)

\* "for distinct it is cheaper to do count 1"
AnyResult(q, ans, m) == initSync(take(q, IF isDistinct(q) THEN 1 ELSE 0), ans, m)

\* A lazy query is built now and answered when the session asks for all.
built(q) == IF q.op = "nil" THEN initializeQueryOperation(q) ELSE q

Lazily(q) ==
  IF built(q).op = "nil" THEN Fail(q, "state") ELSE [built(q) EXCEPT !.lazies = @ + 1]

CountLazily(q) ==
  IF built(IF q.op = "nil" THEN take(q, 0) ELSE q).op = "nil" THEN take(q, 0)
  ELSE [built(IF q.op = "nil" THEN take(q, 0) ELSE q) EXCEPT !.lazies = @ + 1]

handleResponse(q, ans, m) == [setResult(q, ans, m) EXCEPT !.lazies = @ - 1]

\* The aggregation has its own error; each execution builds the text anew.
AggregateByFacet(q, r) == IF r.err # "none" THEN [q EXCEPT !.agg = "error"] ELSE [r EXCEPT !.agg = "ok"]

aggregationOutcome(q, ans, m) ==
  CASE q.agg = "error" \/ stringFails(q) \/ ans = "fail" -> [out |-> "error", n |-> 0]
    [] ans = "missing" -> [out |-> "panic", n |-> 0]
    [] queryOperationEnsureIsAcceptable(q, ans) -> [out |-> "ok", n |-> resultCount(q, m)]
    [] OTHER -> [out |-> "error", n |-> 0]

=============================================================================
