----------------------------- MODULE HttpCache ------------------------------
(***************************************************************************)
(* The HTTP cache of a request executor and what RequestExecutor.Execute  *)
(* does with it: one operator per Go function, from a cache to the cache   *)
(* it leaves.                                                              *)
(*                                                                         *)
(* A payload is the request that the server answered and the version of    *)
(* the database the answer shows; the change vector of an answer is that   *)
(* version.                                                                *)
(***************************************************************************)
EXTENDS Integers, Commands

CONSTANT Nodes

NoVector == 0
NotFoundVector == -1                          \* "404 response"
NoPayload == [name |-> "", arg |-> 0, version |-> 0]
NoItem == [cv |-> NoVector, payload |-> NoPayload, gen |-> 0, expired |-> FALSE]

\* The URL of a request: the node, the resource and, where the URL tells it,
\* the argument.
Urls == {c.url : c \in Catalogue} \cup {"GET-docs"}
Args == 1..2
UrlOf(node, command, arg) ==
    <<node, command.url, IF command.keyed THEN arg ELSE 0>>

Payloads == [name : {c.name : c \in Catalogue} \cup {""}, arg : {0} \cup Args,
             version : Nat]
Items == [cv : Int, payload : Payloads, gen : Nat, expired : BOOLEAN]

-----------------------------------------------------------------------------
(* http_cache.go.  items is a function on the URLs that are cached.        *)

newHttpCache == [items |-> <<>>, gen |-> 0, open |-> TRUE]

put(c, url, item) ==
    [c EXCEPT !.items = [u \in DOMAIN c.items \cup {url} |->
                            IF u = url THEN item ELSE c.items[u]]]

set(c, url, cv, payload) ==
    put(c, url, [cv |-> cv, payload |-> payload, gen |-> c.gen,
                 expired |-> FALSE])

get(c, url) == IF url \in DOMAIN c.items THEN c.items[url] ELSE NoItem

setNotFound(c, url) == set(c, url, NotFoundVector, NoPayload)

\* mutant: the generation stays
ignoreChange(c) == c

incGeneration(c) == [c EXCEPT !.gen = @ + 1]

close(c) == [c EXCEPT !.items = <<>>, !.open = FALSE]

\* The item found before the request was sent: it may have been replaced.
notModified(c, url, item) ==
    IF item # NoItem /\ get(c, url) = item
    THEN put(c, url, [item EXCEPT !.expired = FALSE])
    ELSE c

getMightHaveBeenModified(c, item) == item.gen # c.gen

-----------------------------------------------------------------------------
(* request_executor.go and raven_command.go.                               *)

\* mutant: writes are cached as well
cacheableAnyVerb(command) == command.canCache /\ command.type = "object"

isCacheable(command) ==
    command.canCache /\ command.read /\ command.type = "object"

getFromCache(c, command, url) ==
    IF isCacheable(command) THEN get(c, url) ELSE NoItem

\* mutant: aggressive caching is not asked for
alwaysAggressive(c, aggressive, command, item) ==
    /\ item.cv # NoVector
    /\ ~item.expired
    /\ ~getMightHaveBeenModified(c, item)
    /\ command.aggressively

servedFromCache(c, aggressive, command, item) ==
    /\ item.cv # NoVector
    /\ aggressive
    /\ ~item.expired
    /\ ~getMightHaveBeenModified(c, item)
    /\ command.aggressively

SetResponse(command, payload) ==
    IF payload = NoPayload THEN command.empty ELSE command.body

\* An outcome: what the call returns ("result", "nil": no error and no
\* result, "error", "panic") and the payload of the result.
Outcome(kind, payload) ==
    [kind |-> kind, payload |-> IF kind = "result" THEN payload ELSE NoPayload]

cacheResponse(c, command, url, answer) ==
    IF command.canCache /\ answer.tagged
    THEN set(c, url, answer.payload.version, answer.payload)
    ELSE c

headResponse(answer) ==
    IF answer.tagged THEN Outcome("result", answer.payload)
    ELSE Outcome("error", NoPayload)

\* The commands of one multi-get: a single GET of the documents.
multiGetUrl(node, arg) == <<node, "GET-docs", arg>>

maybeSetCache(c, url, answer) ==
    IF answer.status = "ok" /\ answer.tagged
    THEN set(c, url, answer.payload.version, answer.payload)
    ELSE c

maybeReadFromCache(c, url, answer) ==
    IF answer.status = "submodified" THEN get(c, url).payload
    ELSE answer.payload

SetResponseRaw(c, url, answer) ==
    [cache |-> maybeSetCache(c, url, answer),
     out |-> Outcome("result", maybeReadFromCache(c, url, answer))]

Reply(c, out) == [cache |-> c, out |-> out]

ravenCommand_processResponse(c, command, url, rawUrl, answer) ==
    CASE command.own = "head" -> Reply(c, headResponse(answer))
      [] command.own = "stream" -> Reply(c, Outcome("result", answer.payload))
      [] command.own = "no" /\ (command.type = "empty" \/ answer.status = "empty") ->
            Reply(c, Outcome("nil", NoPayload))
      [] command.own = "no" /\ command.type = "object" /\ answer.status = "ok" ->
            Reply(cacheResponse(c, command, url, answer),
                  Outcome(SetResponse(command, answer.payload), answer.payload))
      [] OTHER -> SetResponseRaw(c, rawUrl, answer)

\* StatusNotFound: whatever SetResponse(nil) says is dropped; a raw command
\* reads from a nil reader.
notFound(c, command, url) ==
    Reply(setNotFound(c, url),
          Outcome(IF command.type = "raw" THEN "panic" ELSE "nil", NoPayload))

\* StatusNotModified.
unchanged(c, command, url, item) ==
    Reply(notModified(c, url, item),
          IF command.type = "object"
          THEN Outcome(SetResponse(command, item.payload), item.payload)
          ELSE Outcome("nil", NoPayload))

\* Execute from the arrival of an answer that is not a failure of the node.
\* A closed cache has no items to put the answer into.
Received(c, command, url, rawUrl, item, answer) ==
    CASE answer.status = "notmodified" -> unchanged(c, command, url, item)
      [] answer.status = "notfound" ->
            IF c.open THEN notFound(c, command, url)
            ELSE Reply(c, Outcome("panic", NoPayload))
      [] answer.status = "error" -> Reply(c, Outcome("error", NoPayload))
      [] OTHER ->
            LET r == ravenCommand_processResponse(c, command, url, rawUrl, answer)
            IN  IF ~c.open /\ (r.cache # c \/ answer.status = "submodified")
                THEN Reply(c, Outcome("panic", NoPayload))
                ELSE r
=============================================================================
