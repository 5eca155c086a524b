------------------------ MODULE DocumentStoreProofs ------------------------
(***************************************************************************)
(* Proofs about the document store (DocumentStore): what the eviction      *)
(* listener follows is current, a read is not older than its call, and     *)
(* only the known commands are given an answer to something else, for any  *)
(* number of callers, databases, nodes and versions and any workload.      *)
(***************************************************************************)
EXTENDS DocumentStore, FiniteSetTheorems, TLAPS

N == Cardinality(Callers)
AllArgs == {0} \cup Args
Keys == Nodes \X Urls \X AllArgs
Contents == UNION {[S -> Items] : S \in SUBSET Keys}
Caches == [items : Contents, gen : Nat, open : BOOLEAN]
Replies == [status : {"none", "ok", "empty", "notfound", "error",
                      "notmodified", "submodified"},
            tagged : BOOLEAN, payload : Payloads]
Outcomes == [kind : {"none", "result", "nil", "error", "panic"},
             payload : Payloads]
Thens == {"", "session", "options", "subscribe", "disable"}
CallerType ==
    [pc : {"idle", "lookup", "create", "listen", "options", "subscribe",
           "disable", "sent", "answered", "closing"},
     calls : Nat, db : Databases, ex : 0..N, target : Databases, re : 0..N,
     then : Thens, saved : Seq(Executors \X BOOLEAN), command : Catalogue,
     arg : AllArgs, node : Nodes, tried : SUBSET Nodes, item : Items,
     answer : Replies, start : Nat, aggressive : BOOLEAN, out : Outcomes,
     from : {"none", "cache", "server"}]

\* The types of the server and the listeners, of the store and of the callers.
ServerTypes ==
    /\ workload \in Workloads
    /\ version \in [Databases -> 1..MaxVersion]
    /\ listening \in [Executors -> Nat] /\ pending \in [Executors -> Nat]

StoreTypes ==
    /\ store \in [used : BOOLEAN, disposed : BOOLEAN,
                  registry : [Databases -> 0..N], created : [Databases -> 0..N]]
    /\ executor \in [Executors -> [cache : Caches, aggressive : BOOLEAN]]
    /\ tracked \in [Executors -> SUBSET Keys]

\* Callers that found no executor for the database and will each create one:
\* none joins them once there is one.
Creating(d) == {p \in Callers : caller[p].pc = "create" /\ caller[p].target = d}

Counted ==
    \A d \in Databases :
        /\ store.created[d] + Cardinality(Creating(d)) <= N
        /\ store.registry[d] = NoExecutor <=> store.created[d] = 0

-----------------------------------------------------------------------------

\* cacheResponse puts the answer to such a command into the cache.
Storable(c) == c.canCache /\ c.own = "no" /\ c.type = "object"

\* What an item in the cache can be: the answer to a command with that URL,
\* which shows the version its change vector says, or nothing.
Fits(u, i) ==
    /\ i.cv > 0 => i.payload.version = i.cv
    /\ u[2] = "GET-docs" =>
          i.payload.name = MultiGet.name /\ i.payload.arg = u[3]
    /\ u[2] # "GET-docs" /\ i.payload # NoPayload =>
          \E c \in Catalogue : /\ Storable(c) /\ i.payload.name = c.name
                               /\ u[2] = c.url /\ (c.keyed => u[3] = i.payload.arg)

Filled(c) ==
    /\ \A u \in DOMAIN c.items : Fits(u, c.items[u]) /\ c.items[u].gen <= c.gen
    /\ ~c.open => DOMAIN c.items = {}

\* An answer that is followed has a listener; it is current unless a change is
\* on its way to the listener or has raised the generation.
Followed ==
    \A e \in Executors : \A u \in tracked[e] :
        LET c == executor[e].cache
        IN  /\ listening[e] > 0 /\ u \in DOMAIN c.items
            /\ c.items[u].cv > 0 /\ c.items[u].gen = c.gen /\ pending[e] = 0
               => c.items[u].payload.version = version[e[1]]

-----------------------------------------------------------------------------

\* The item whose change vector the request carries.
Offered(c, x) ==
    c.item # NoItem =>
        IF c.command.type = "raw"
        THEN /\ Fits(multiGetUrl(c.node, c.arg), c.item)
             /\ x.open => multiGetUrl(c.node, c.arg) \in DOMAIN x.items
        ELSE isCacheable(c.command) /\ Fits(UrlOf(c.node, c.command, c.arg), c.item)

Asked(c, v, x) ==
    c.pc \in {"sent", "answered"} =>
        /\ c.ex # NoExecutor /\ c.start <= v[c.db]
        /\ Offered(c, x[<<c.db, c.ex>>].cache)

\* What the server says: "not modified" is said of the current version only.
Answered(c) ==
    c.pc = "answered" =>
        LET a == c.answer
        IN  /\ a.payload.name = c.command.name /\ a.payload.arg = c.arg
            /\ c.start <= a.payload.version /\ a.payload.version > 0
            /\ a.status \in {"notmodified", "submodified"} =>
                  c.item.cv = a.payload.version
            /\ a.status = "submodified" => c.command.type = "raw"

\* What a call returned.
Returned(c) ==
    /\ c.out.kind = "result" =>
          /\ ~c.aggressive /\ c.command # MultiGet => c.out.payload.version >= c.start
          /\ \/ c.out.payload.name = c.command.name /\ c.out.payload.arg = c.arg
             \/ c.command.name \in KnownToShare
    /\ c.from = "cache" /\ c.command.write => c.command.name \in KnownToShare

\* Where a caller is.
Placed(c) ==
    /\ c.pc \in {"lookup", "create"} => c.then # ""
    /\ c.pc \in {"options", "disable", "subscribe"} => c.re # NoExecutor
    /\ c.pc # "idle" => c.out.kind = "none" /\ c.from = "none"

Calling(c, v, x) == Placed(c) /\ Asked(c, v, x) /\ Answered(c) /\ Returned(c)

IInv ==
    /\ ServerTypes /\ StoreTypes /\ Counted
    /\ \A e \in Executors : Filled(executor[e].cache)
    /\ Followed
    /\ caller \in [Callers -> CallerType]
    /\ \A p \in Callers : Calling(caller[p], version, executor)

-----------------------------------------------------------------------------
(* The catalogue.                                                          *)

\* The URLs whose items only one command puts into the cache.
Holders == {<<"docs", "GetDocuments">>,
  <<"replication/conflicts", "GetConflicts">>,
  <<"revisions", "GetRevisions">>,
  <<"revisions/bin", "GetRevisionsBinEntry">>,
  <<"cmpxchg?key", "GetCompareExchangeValue">>,
  <<"cmpxchg", "GetCompareExchangeValues">>,
  <<"debug/identities", "GetIdentities">>,
  <<"indexes?name", "GetIndex">>,
  <<"indexes?start", "GetIndexes">>,
  <<"indexes?start&namesOnly", "GetIndexNames">>,
  <<"indexes/errors", "GetIndexErrors">>,
  <<"indexes/stats?name", "GetIndexStatistics">>,
  <<"indexes/stats", "GetIndexesStatistics">>,
  <<"indexes/status", "GetIndexingStatus">>,
  <<"indexes/terms", "GetTerms">>,
  <<"subscriptions?start", "GetSubscriptions">>,
  <<"subscriptions/state", "GetSubscriptionState">>,
  <<"info/tcp", "GetTcpInfo">>,
  <<"operations/state", "GetOperationState">>,
  <<"server/operations/state", "GetServerWideOperationState">>,
  <<"stats", "GetStatistics">>,
  <<"collections/stats", "GetCollectionStatistics">>,
  <<"databases", "GetDatabaseNames">>,
  <<"topology", "GetDatabaseTopology">>}

Plain(c) ==
    /\ c.bad \in {"accepted", "error", "panic"}
    /\ c.empty \in {"nil", "error"} /\ c.body \in {"result", "error"}
    /\ c.url # "GET-docs" /\ c.own \in {"no", "head", "stream"}
    /\ c.type \in {"object", "empty", "raw"}
    /\ isCacheable(c) /\ c.write => c.name \in KnownToShare
    /\ c.type = "raw" => c = MultiGet

Own(c) ==
    /\ isCacheable(c) /\ c.body = "result" /\ c.name \notin KnownToShare
       => c.keyed /\ <<c.url, c.name>> \in Holders
    /\ Storable(c) => \A h \in Holders : h[1] = c.url => h[2] = c.name /\ c.keyed

Regular(c) == Plain(c) /\ Own(c)

(* Every command of the catalogue is regular: its SetResponse and its       *)
(* constructor end as they can, and one that is not known to share its URL  *)
(* and takes answers from the cache is alone in putting them there.         *)
LEMMA CatalogueRegular == \A c \in Catalogue : Regular(c)
<1>1. Regular(GetDocuments) /\ Regular(GetDocumentsFull) /\
      Regular(PutDocument) /\ Regular(DeleteDocument) /\ Regular(HeadDocument)
      /\ Regular(Patch)
  BY
     DEF Regular, Plain, Own, KnownToShare, Holders, Storable, isCacheable,
       GetDocuments, Read, Base, NewRavenCommandBase, GetDocumentsFull,
       PutDocument, Write, DeleteDocument, EmptyWrite, HeadDocument, Patch
<1>2. Regular(Batch) /\ Regular(GetConflicts) /\ Regular(GetRevisions)
      /\ Regular(GetRevisionsBinEntry) /\ Regular(ConfigureRevisions) /\
      Regular(GetAttachment)
  BY
     DEF Regular, Plain, Own, KnownToShare, Holders, Storable, isCacheable,
       Batch, Write, Base, NewRavenCommandBase, GetConflicts, Read,
       GetRevisions, GetRevisionsBinEntry, ConfigureRevisions, GetAttachment
<1>3. Regular(HeadAttachment) /\ Regular(PutAttachment) /\
      Regular(DeleteAttachment) /\ Regular(GetCompareExchangeValue) /\
      Regular(GetCompareExchangeValues) /\ Regular(PutCompareExchangeValue)
  BY
     DEF Regular, Plain, Own, KnownToShare, Holders, Storable, isCacheable,
       HeadAttachment, Base, NewRavenCommandBase, PutAttachment, Write,
       DeleteAttachment, EmptyWrite, GetCompareExchangeValue, Read,
       GetCompareExchangeValues, PutCompareExchangeValue
<1>4. Regular(RemoveCompareExchangeValue) /\ Regular(Query) /\
      Regular(QueryNonStale) /\ Regular(QueryNoCaching) /\
      Regular(ExplainQuery) /\ Regular(QueryStream)
  BY
     DEF Regular, Plain, Own, KnownToShare, Holders, Storable, isCacheable,
       RemoveCompareExchangeValue, Write, Base, NewRavenCommandBase, Query,
       Read, QueryNonStale, QueryNoCaching, ExplainQuery, QueryStream
<1>5. Regular(Stream) /\ Regular(MultiGet) /\ Regular(PatchByQuery) /\
      Regular(DeleteByIndex) /\ Regular(BulkInsert) /\ Regular(NextHiLo)
  BY
     DEF Regular, Plain, Own, KnownToShare, Holders, Storable, isCacheable,
       Stream, Read, Base, NewRavenCommandBase, MultiGet, PatchByQuery, Write,
       DeleteByIndex, BulkInsert, NextHiLo
<1>6. Regular(HiLoReturn) /\ Regular(NextIdentityFor) /\
      Regular(SeedIdentityFor) /\ Regular(GetIdentities) /\
      Regular(PutIndexes) /\ Regular(DeleteIndex)
  BY
     DEF Regular, Plain, Own, KnownToShare, Holders, Storable, isCacheable,
       HiLoReturn, EmptyWrite, Write, Base, NewRavenCommandBase,
       NextIdentityFor, SeedIdentityFor, GetIdentities, Read, PutIndexes,
       DeleteIndex
<1>7. Regular(ResetIndex) /\ Regular(GetIndex) /\ Regular(GetIndexes) /\
      Regular(GetIndexNames) /\ Regular(GetIndexErrors) /\
      Regular(GetIndexStatistics)
  BY
     DEF Regular, Plain, Own, KnownToShare, Holders, Storable, isCacheable,
       ResetIndex, EmptyWrite, Write, Base, NewRavenCommandBase, GetIndex,
       Read, GetIndexes, GetIndexNames, GetIndexErrors, GetIndexStatistics
<1>8. Regular(GetIndexesStatistics) /\ Regular(GetIndexingStatus) /\
      Regular(GetTerms) /\ Regular(IndexHasChanged) /\ Regular(SetIndexesLock)
      /\ Regular(SetIndexesPriority)
  BY
     DEF Regular, Plain, Own, KnownToShare, Holders, Storable, isCacheable,
       GetIndexesStatistics, Read, Base, NewRavenCommandBase,
       GetIndexingStatus, GetTerms, IndexHasChanged, SetIndexesLock,
       EmptyWrite, Write, SetIndexesPriority
<1>9. Regular(StartIndex) /\ Regular(StopIndex) /\
      Regular(StartIndexing) /\ Regular(StopIndexing) /\ Regular(EnableIndex)
      /\ Regular(DisableIndex)
  BY
     DEF Regular, Plain, Own, KnownToShare, Holders, Storable, isCacheable,
       StartIndex, EmptyWrite, Write, Base, NewRavenCommandBase, StopIndex,
       StartIndexing, StopIndexing, EnableIndex, DisableIndex
<1>10. Regular(CreateSubscription) /\ Regular(DeleteSubscription) /\
      Regular(DropSubscriptionConnection) /\ Regular(GetSubscriptions) /\
      Regular(GetSubscriptionState) /\ Regular(GetTcpInfo)
  BY
     DEF Regular, Plain, Own, KnownToShare, Holders, Storable, isCacheable,
       CreateSubscription, Write, Base, NewRavenCommandBase,
       DeleteSubscription, EmptyWrite, DropSubscriptionConnection,
       GetSubscriptions, Read, GetSubscriptionState, GetTcpInfo
<1>11. Regular(GetNextOperationID) /\ Regular(GetOperationState) /\
      Regular(GetServerWideOperationState) /\ Regular(KillOperation) /\
      Regular(GetStatistics) /\ Regular(GetCollectionStatistics)
  BY
     DEF Regular, Plain, Own, KnownToShare, Holders, Storable, isCacheable,
       GetNextOperationID, Base, NewRavenCommandBase, GetOperationState, Read,
       GetServerWideOperationState, KillOperation, EmptyWrite, Write,
       GetStatistics, GetCollectionStatistics
<1>12. Regular(CreateDatabase) /\ Regular(DeleteDatabase) /\
      Regular(CompactDatabase) /\ Regular(GetDatabaseNames) /\
      Regular(GetDatabaseRecord) /\ Regular(GetDatabaseTopology)
  BY
     DEF Regular, Plain, Own, KnownToShare, Holders, Storable, isCacheable,
       CreateDatabase, Write, Base, NewRavenCommandBase, DeleteDatabase,
       CompactDatabase, GetDatabaseNames, Read, GetDatabaseRecord,
       GetDatabaseTopology
<1>13. Regular(GetClientConfiguration) /\
      Regular(PutClientConfiguration) /\ Regular(PutConnectionString) /\
      Regular(UpdateExternalReplication) /\ Regular(CreateSampleData) /\
      Regular(PutCertificate)
  BY
     DEF Regular, Plain, Own, KnownToShare, Holders, Storable, isCacheable,
       GetClientConfiguration, Base, NewRavenCommandBase,
       PutClientConfiguration, EmptyWrite, Write, PutConnectionString,
       UpdateExternalReplication, CreateSampleData, PutCertificate, ServerWide
<1>14. Regular(AddClusterNode) /\ Regular(RemoveClusterNode) /\
      Regular(AddDatabaseNode) /\ Regular(PromoteClusterNode) /\
      Regular(DemoteClusterNode) /\ Regular(Bootstrap)
  BY
     DEF Regular, Plain, Own, KnownToShare, Holders, Storable, isCacheable,
       AddClusterNode, ServerWide, Write, Base, NewRavenCommandBase,
       RemoveClusterNode, AddDatabaseNode, PromoteClusterNode,
       DemoteClusterNode, Bootstrap
<1>15. Regular(GetClusterTopology) /\ Regular(GetBuildNumber) /\
      Regular(DatabaseHealthCheck)
  BY
     DEF Regular, Plain, Own, KnownToShare, Holders, Storable, isCacheable,
       GetClusterTopology, ServerWide, Write, Base, NewRavenCommandBase,
       GetBuildNumber, DatabaseHealthCheck
<1>16. ASSUME NEW c \in Catalogue
       PROVE  Regular(c)
  BY ONLY <1>1, <1>2, <1>3, <1>4, <1>5, <1>6, <1>7, <1>8, <1>9, <1>10, <1>11,
     <1>12, <1>13, <1>14, <1>15, <1>16, ZenonT(30) DEF Catalogue
<1>. QED BY ONLY <1>16

(* MultiGet is a command of the catalogue, the only raw one, and is not in  *)
(* the cache under its own URL; no other command has its name.              *)
LEMMA MultiGetFields ==
    /\ MultiGet \in Catalogue /\ MultiGet.type = "raw" /\ MultiGet.own = "no"
    /\ GetDocuments \in Catalogue /\ PutDocument \in Catalogue
  BY DEF Catalogue, MultiGet, Read, Base, NewRavenCommandBase

-----------------------------------------------------------------------------
(* Types.                                                                  *)

(* The payload of no answer, and of an answer to a command.                *)
LEMMA PayloadTypes ==
    /\ NoPayload \in Payloads
    /\ \A x \in Payloads : x.version \in Nat
    /\ \A c \in Catalogue, a \in AllArgs, n \in Nat :
          [name |-> c.name, arg |-> a, version |-> n] \in Payloads
<1>1. NoPayload \in Payloads
  BY Zenon DEF NoPayload, Payloads
<1>2. \A x \in Payloads : x.version \in Nat
  BY Zenon DEF Payloads
<1>3. ASSUME NEW c \in Catalogue, NEW a \in AllArgs, NEW n \in Nat
      PROVE  [name |-> c.name, arg |-> a, version |-> n] \in Payloads
  <2>1. c.name \in {d.name : d \in Catalogue} \cup {""}
    BY Zenon
  <2>. QED BY ONLY <2>1, <1>3, Zenon DEF Payloads, AllArgs
<1>. QED BY ONLY <1>1, <1>2, <1>3, Zenon

(* The fields of an item, and the items the cache makes.                   *)
LEMMA ItemTypes ==
    /\ NoItem \in Items
    /\ \A i \in Items : /\ i.cv \in Int /\ i.payload \in Payloads /\ i.gen \in Nat
                        /\ i.expired \in BOOLEAN
    /\ \A v \in Int, x \in Payloads, g \in Nat, b \in BOOLEAN :
          [cv |-> v, payload |-> x, gen |-> g, expired |-> b] \in Items
<1>1. NoItem \in Items
  BY PayloadTypes DEF NoItem, Items, NoVector
<1>. QED BY ONLY <1>1 DEF Items

(* An item whose expiry is set keeps everything else.                      *)
LEMMA ItemExpiry ==
    ASSUME NEW i \in Items, NEW b \in BOOLEAN
    PROVE  LET j == [i EXCEPT !.expired = b]
           IN  /\ j \in Items /\ j.cv = i.cv /\ j.payload = i.payload
               /\ j.gen = i.gen /\ j.expired = b
  BY ONLY DEF Items

(* The number of callers is a positive number, and the number of those      *)
(* among them that do something is no larger.                               *)
LEMMA CallersCounted ==
    /\ N \in Nat /\ N >= 1
    /\ \A S : S \subseteq Callers => IsFiniteSet(S) /\ Cardinality(S) \in 0..N
<1>1. N \in Nat
  BY StoreAssumption, FS_CardinalityType DEF N
<1>2. ASSUME NEW S, S \subseteq Callers
      PROVE  IsFiniteSet(S) /\ Cardinality(S) \in 0..N
  <2>1. IsFiniteSet(S) /\ Cardinality(S) <= N
    BY <1>2, StoreAssumption, FS_Subset DEF N
  <2>2. Cardinality(S) \in Nat
    BY <2>1, FS_CardinalityType
  <2>. QED BY <2>1, <2>2, <1>1
<1>3. N # 0
  BY StoreAssumption, FS_EmptySet DEF N
<1>. QED BY <1>1, <1>2, <1>3

(* An executor is a database and a positive number.                        *)
LEMMA ExecutorTypes ==
    /\ \A d \in Databases, n \in 0..N : n # 0 => <<d, n>> \in Executors
    /\ \A e \in Executors : e = <<e[1], e[2]>> /\ e[1] \in Databases /\ e[2] \in 1..N
<1>1. Executors = Databases \X (1..N)
  BY Zenon DEF Executors, N
<1>. QED BY ONLY <1>1, CallersCounted

(* The URL of a request, and of a multi-get's, is a key of the cache.      *)
LEMMA KeyTypes ==
    ASSUME NEW n \in Nodes, NEW c \in Catalogue, NEW a \in AllArgs
    PROVE  /\ UrlOf(n, c, a) \in Keys /\ multiGetUrl(n, a) \in Keys
           /\ UrlOf(n, c, a)[2] = c.url
           /\ c.keyed => UrlOf(n, c, a)[3] = a
           /\ multiGetUrl(n, a)[2] = "GET-docs" /\ multiGetUrl(n, a)[3] = a
<1>1. c.url \in Urls /\ "GET-docs" \in Urls
  BY Zenon DEF Urls
<1>2. 0 \in AllArgs
  BY Zenon DEF AllArgs
<1>. QED BY ONLY <1>1, <1>2 DEF UrlOf, multiGetUrl, Keys

-----------------------------------------------------------------------------
(* The operations of the cache.                                            *)

(* A function from some keys to items is the content of a cache.           *)
LEMMA ContentsAre ==
    /\ \A f \in Contents : /\ DOMAIN f \in SUBSET Keys /\ f \in [DOMAIN f -> Items]
                           /\ \A u \in DOMAIN f : f[u] \in Items
    /\ \A S \in SUBSET Keys : \A f \in [S -> Items] : f \in Contents
<1>1. ASSUME NEW f \in Contents
      PROVE  /\ DOMAIN f \in SUBSET Keys /\ f \in [DOMAIN f -> Items]
             /\ \A u \in DOMAIN f : f[u] \in Items
  <2>1. PICK S \in SUBSET Keys : f \in [S -> Items]
    BY Zenon DEF Contents
  <2>2. DOMAIN f = S
    BY <2>1, Zenon
  <2>. QED BY ONLY <2>1, <2>2, Zenon
<1>2. \A S \in SUBSET Keys : \A f \in [S -> Items] : f \in Contents
  BY Zenon DEF Contents
<1>. QED BY ONLY <1>1, <1>2, Zenon

(* The fields of a cache, and the caches that can be made of them.         *)
LEMMA CacheTypes ==
    \A c \in Caches : /\ c.items \in Contents /\ c.gen \in Nat
                      /\ c.open \in BOOLEAN
  BY ONLY DEF Caches

(* A cache of any contents, generation and state.                          *)
LEMMA CacheOf ==
    ASSUME NEW f \in Contents, NEW g \in Nat, NEW b \in BOOLEAN
    PROVE  [items |-> f, gen |-> g, open |-> b] \in Caches
  BY ONLY DEF Caches

(* newHttpCache and close leave no items.                                  *)
LEMMA NewCache ==
    /\ newHttpCache \in Caches /\ Filled(newHttpCache)
<1>1. DOMAIN <<>> = {} /\ <<>> \in [{} -> Items]
  OBVIOUS
<1>2. <<>> \in Contents
  BY ONLY <1>1, ContentsAre, Zenon
<1>3. newHttpCache \in Caches
  BY <1>2, CacheOf DEF newHttpCache
<1>4. newHttpCache.items = <<>> /\ newHttpCache.open = TRUE
  BY Zenon DEF newHttpCache
<1>. QED BY ONLY <1>1, <1>3, <1>4, Zenon DEF Filled

(* close empties the cache.                                                *)
LEMMA CloseEffect ==
    ASSUME NEW c \in Caches
    PROVE  close(c) \in Caches /\ Filled(close(c)) /\ ~close(c).open
<1>1. DOMAIN <<>> = {} /\ <<>> \in [{} -> Items]
  OBVIOUS
<1>2. <<>> \in Contents
  BY ONLY <1>1, ContentsAre, Zenon
<1>3. ASSUME NEW f \in Contents
      PROVE  LET d == [c EXCEPT !.items = f, !.open = FALSE]
             IN  d \in Caches /\ d.items = f /\ d.open = FALSE
  BY ONLY <1>3 DEF Caches
<1>4. close(c) \in Caches /\ close(c).items = <<>> /\ close(c).open = FALSE
  BY ONLY <1>2, <1>3, Zenon DEF close
<1>. QED BY ONLY <1>1, <1>4, Zenon DEF Filled

(* incGeneration changes the generation alone.                             *)
LEMMA GenerationEffect ==
    ASSUME NEW c \in Caches
    PROVE  LET d == incGeneration(c)
           IN  /\ d \in Caches /\ d.items = c.items /\ d.open = c.open
               /\ d.gen = c.gen + 1
<1>1. incGeneration(c) = [items |-> c.items, gen |-> c.gen + 1, open |-> c.open]
  BY ONLY DEF incGeneration, Caches
<1>2. c.gen + 1 \in Nat
  BY CacheTypes
<1>3. incGeneration(c) \in Caches
  BY ONLY <1>1, <1>2, CacheTypes, CacheOf
<1>. QED BY ONLY <1>1, <1>3

(* put changes one item.                                                   *)
LEMMA PutEffect ==
    ASSUME NEW c \in Caches, NEW u \in Keys, NEW i \in Items
    PROVE  LET d == put(c, u, i)
           IN  /\ d \in Caches /\ d.gen = c.gen /\ d.open = c.open
               /\ DOMAIN d.items = DOMAIN c.items \cup {u} /\ d.items[u] = i
               /\ \A w \in DOMAIN c.items : w # u => d.items[w] = c.items[w]
<1>. DEFINE f == [w \in DOMAIN c.items \cup {u} |-> IF w = u THEN i ELSE c.items[w]]
<1>1. c.items \in Contents /\ c.gen \in Nat /\ c.open \in BOOLEAN
  BY ONLY CacheTypes, Zenon
<1>2. DOMAIN c.items \in SUBSET Keys /\ \A w \in DOMAIN c.items : c.items[w] \in Items
  BY ONLY <1>1, ContentsAre, Zenon
<1>3. DOMAIN c.items \cup {u} \in SUBSET Keys
  BY ONLY <1>2, Zenon
<1>4. f \in [DOMAIN c.items \cup {u} -> Items]
  BY ONLY <1>2
<1>5. f \in Contents
  BY ONLY <1>3, <1>4, ContentsAre, Zenon
<1>6. /\ DOMAIN f = DOMAIN c.items \cup {u} /\ f[u] = i
      /\ \A w \in DOMAIN c.items : w # u => f[w] = c.items[w]
  BY ONLY Zenon
<1>7. put(c, u, i) = [c EXCEPT !.items = f]
  BY ONLY Zenon DEF put
<1>. HIDE DEF f
<1>8. put(c, u, i) = [items |-> f, gen |-> c.gen, open |-> c.open]
  BY ONLY <1>7 DEF Caches
<1>9. put(c, u, i) \in Caches
  BY ONLY <1>8, <1>1, <1>5, CacheOf
<1>10. put(c, u, i).items = f /\ put(c, u, i).gen = c.gen /\ put(c, u, i).open = c.open
  BY ONLY <1>8
<1>. QED BY ONLY <1>9, <1>10, <1>6, Zenon

(* get returns an item.                                                    *)
LEMMA GetEffect ==
    ASSUME NEW c \in Caches, NEW u
    PROVE  /\ get(c, u) \in Items
           /\ u \in DOMAIN c.items => get(c, u) = c.items[u]
           /\ get(c, u) # NoItem => u \in DOMAIN c.items
<1>1. \A w \in DOMAIN c.items : c.items[w] \in Items
  BY ONLY CacheTypes, ContentsAre, Zenon
<1>. QED BY ONLY <1>1, ItemTypes, Zenon DEF get

-----------------------------------------------------------------------------
(* What the arrival of an answer does.                                     *)

\* The item i that enters the cache c under u: an answer with a change vector,
\* "not found", or the item that the server said is not modified.
Enters(c, command, url, raw, item, answer, u, i) ==
    \/ /\ i = [cv |-> answer.payload.version, payload |-> answer.payload,
               gen |-> c.gen, expired |-> FALSE]
       /\ (u = url /\ Storable(command)) \/ (u = raw /\ command.type = "raw")
    \/ /\ u = url
       /\ i = [cv |-> NotFoundVector, payload |-> NoPayload, gen |-> c.gen,
               expired |-> FALSE]
    \/ /\ u = url /\ i = [item EXCEPT !.expired = FALSE]
       /\ item # NoItem /\ get(c, url) = item /\ answer.status = "notmodified"

\* The payloads a result can have.
Yields(c, command, raw, item, answer, x) ==
    \/ x = answer.payload
    \/ /\ answer.status = "notmodified" /\ x = item.payload /\ x # NoPayload
       /\ command.type = "object" /\ command.body = "result"
    \/ answer.status = "submodified" /\ x = get(c, raw).payload /\ c.open

Kinds == {"result", "nil", "error", "panic"}

(* An outcome has a payload only when it is a result.                      *)
LEMMA OutcomeFields ==
    ASSUME NEW k \in Kinds, NEW x \in Payloads
    PROVE  /\ Outcome(k, x) \in Outcomes /\ Outcome(k, x).kind = k
           /\ k = "result" => Outcome(k, x).payload = x
  BY ONLY PayloadTypes DEF Outcome, Outcomes, Kinds

(* What Execute may give its caller.                                       *)
LEMMA KindsAre ==
    /\ "result" \in Kinds /\ "nil" \in Kinds /\ "error" \in Kinds
    /\ "panic" \in Kinds /\ \A k \in Kinds : k # "none"
    /\ \A k \in {"result", "nil", "error"} : k \in Kinds
  BY DEF Kinds

(* SetResponse ends in a result, an error or nothing.                      *)
LEMMA ResponseKinds ==
    ASSUME NEW c \in Catalogue, NEW x
    PROVE  /\ SetResponse(c, x) \in Kinds
           /\ SetResponse(c, x) = "result" => x # NoPayload /\ c.body = "result"
  BY ONLY CatalogueRegular DEF SetResponse, Regular, Plain, Kinds

(* A reply that leaves the cache alone.                                    *)
LEMMA KeptReply ==
    ASSUME NEW c, NEW k \in Kinds, NEW x \in Payloads
    PROVE  /\ Reply(c, Outcome(k, x)).cache = c
           /\ Reply(c, Outcome(k, x)).out \in Outcomes
           /\ Reply(c, Outcome(k, x)).out.kind = k
           /\ k = "result" => Reply(c, Outcome(k, x)).out.payload = x
<1>1. /\ Reply(c, Outcome(k, x)).cache = c
      /\ Reply(c, Outcome(k, x)).out = Outcome(k, x)
  BY Zenon DEF Reply
<1>. QED BY ONLY <1>1, OutcomeFields

\* How a reply r to the answer may differ from the cache c.
Processed(c, command, url, raw, item, answer, r) ==
    /\ \/ r.cache = c
       \/ c.open /\ \E u \in {url, raw}, i \in Items :
             r.cache = put(c, u, i) /\ Enters(c, command, url, raw, item, answer, u, i)
    /\ r.out \in Outcomes /\ r.out.kind # "none"
    /\ r.out.kind = "result" =>
          Yields(c, command, raw, item, answer, r.out.payload)

(* processResponse: the common way, HEAD, streams and multi-gets.          *)
LEMMA ProcessEffect ==
    ASSUME NEW c \in Caches, NEW command \in Catalogue, NEW url, NEW raw,
           NEW item \in Items, NEW answer \in Replies
    PROVE  LET r == ravenCommand_processResponse(c, command, url, raw, answer)
           IN  /\ \/ r.cache = c
                  \/ \E u \in {url, raw}, i \in Items :
                        /\ r.cache = put(c, u, i)
                        /\ Enters(c, command, url, raw, item, answer, u, i)
               /\ r.out \in Outcomes /\ r.out.kind # "none"
               /\ r.out.kind = "result" =>
                     \/ r.out.payload = answer.payload
                     \/ /\ answer.status = "submodified"
                        /\ r.out.payload = get(c, raw).payload
<1>. DEFINE r == ravenCommand_processResponse(c, command, url, raw, answer)
            new == [cv |-> answer.payload.version, payload |-> answer.payload,
                    gen |-> c.gen, expired |-> FALSE]
<1>1. /\ answer.payload \in Payloads /\ answer.payload.version \in Int
      /\ c.gen \in Nat /\ NoPayload \in Payloads
  BY PayloadTypes, CacheTypes DEF Replies
<1>2. new \in Items
  BY ONLY <1>1, ItemTypes
<1>3. command.own \in {"no", "head", "stream"} /\ command.type \in {"object", "empty", "raw"}
  BY ONLY CatalogueRegular DEF Regular, Plain
<1>. HIDE DEF new
<1>4. CASE command.own = "head"
  <2>1. r = Reply(c, headResponse(answer))
    BY ONLY <1>4 DEF ravenCommand_processResponse
  <2>2. CASE answer.tagged
    <3>1. r = Reply(c, Outcome("result", answer.payload))
      BY ONLY <2>1, <2>2, Zenon DEF headResponse
    <3>. HIDE DEF r
    <3>2. /\ r.cache = c /\ r.out \in Outcomes /\ r.out.kind = "result"
          /\ r.out.payload = answer.payload
      BY ONLY <3>1, <1>1, KeptReply, KindsAre
    <3>. QED BY ONLY <3>2 DEF r
  <2>3. CASE ~answer.tagged
    <3>1. r = Reply(c, Outcome("error", NoPayload))
      BY ONLY <2>1, <2>3, Zenon DEF headResponse
    <3>. HIDE DEF r
    <3>2. r.cache = c /\ r.out \in Outcomes /\ r.out.kind = "error"
      BY ONLY <3>1, <1>1, KeptReply, KindsAre
    <3>. QED BY ONLY <3>2 DEF r
  <2>. QED BY ONLY <2>2, <2>3
<1>5. CASE command.own = "stream"
  <2>1. r = Reply(c, Outcome("result", answer.payload))
    BY ONLY <1>5 DEF ravenCommand_processResponse
  <2>. HIDE DEF r
  <2>2. /\ r.cache = c /\ r.out \in Outcomes /\ r.out.kind = "result"
        /\ r.out.payload = answer.payload
    BY ONLY <2>1, <1>1, KeptReply, KindsAre
  <2>. QED BY ONLY <2>2 DEF r
<1>6. CASE command.own = "no" /\ (command.type = "empty" \/ answer.status = "empty")
  <2>1. r = Reply(c, Outcome("nil", NoPayload))
    BY ONLY <1>6 DEF ravenCommand_processResponse
  <2>. HIDE DEF r
  <2>2. r.cache = c /\ r.out \in Outcomes /\ r.out.kind = "nil"
    BY ONLY <2>1, <1>1, KeptReply, KindsAre
  <2>. QED BY ONLY <2>2 DEF r
<1>7. CASE command.own = "no" /\ command.type = "object" /\ answer.status = "ok"
  <2>. DEFINE k == SetResponse(command, answer.payload)
              d == cacheResponse(c, command, url, answer)
  <2>1. r = Reply(d, Outcome(k, answer.payload))
    BY ONLY <1>7 DEF ravenCommand_processResponse
  <2>2. k \in Kinds
    BY ONLY ResponseKinds
  <2>3. d = c \/ (d = put(c, url, new) /\ command.canCache)
    BY ONLY Zenon DEF cacheResponse, set, new
  <2>. HIDE DEF r, k, d
  <2>4. /\ r.cache = d /\ r.out \in Outcomes /\ r.out.kind = k
        /\ r.out.kind = "result" => r.out.payload = answer.payload
    BY ONLY <2>1, <2>2, <1>1, KeptReply, KindsAre
  <2>5. d # c => Enters(c, command, url, raw, item, answer, url, new)
    BY ONLY <2>3, <1>7, Zenon DEF Enters, new, Storable
  <2>6. r.out.kind # "none"
    BY ONLY <2>4, <2>2, KindsAre
  <2>7. r.cache = c \/ \E u \in {url, raw}, i \in Items :
           r.cache = put(c, u, i) /\ Enters(c, command, url, raw, item, answer, u, i)
    BY ONLY <2>3, <2>4, <2>5, <1>2, Zenon
  <2>. QED BY ONLY <2>4, <2>6, <2>7, Zenon DEF r
<1>8. CASE /\ command.own = "no" /\ command.type # "empty" /\ answer.status # "empty"
           /\ ~(command.type = "object" /\ answer.status = "ok")
  <2>. DEFINE d == maybeSetCache(c, raw, answer)
              x == maybeReadFromCache(c, raw, answer)
  <2>1. r = SetResponseRaw(c, raw, answer)
    BY ONLY <1>8 DEF ravenCommand_processResponse
  <2>2. r = Reply(d, Outcome("result", x))
    BY ONLY <2>1, Zenon DEF SetResponseRaw, Reply
  <2>3. d = c \/ (d = put(c, raw, new) /\ answer.status = "ok")
    BY ONLY Zenon DEF maybeSetCache, set, new
  <2>4. x = answer.payload \/ (answer.status = "submodified" /\ x = get(c, raw).payload)
    BY ONLY Zenon DEF maybeReadFromCache
  <2>5. x \in Payloads
    BY ONLY <2>4, <1>1, GetEffect, ItemTypes
  <2>. HIDE DEF r, d, x
  <2>6. r.cache = d /\ r.out \in Outcomes /\ r.out.kind = "result" /\ r.out.payload = x
    BY ONLY <2>2, <2>5, KeptReply, KindsAre
  <2>7. d # c => Enters(c, command, url, raw, item, answer, raw, new)
    <3>1. d # c => command.type = "raw"
      BY ONLY <2>3, <1>3, <1>8
    <3>. QED BY ONLY <3>1, Zenon DEF Enters, new
  <2>8. r.cache = c \/ \E u \in {url, raw}, i \in Items :
           r.cache = put(c, u, i) /\ Enters(c, command, url, raw, item, answer, u, i)
    BY ONLY <2>3, <2>6, <2>7, <1>2, Zenon
  <2>9. r.out.kind # "none"
    BY ONLY <2>6
  <2>. QED BY ONLY <2>4, <2>6, <2>8, <2>9, Zenon DEF r
<1>. QED BY ONLY <1>3, <1>4, <1>5, <1>6, <1>7, <1>8, Zenon

(* Execute from the arrival of an answer: what can enter the cache and what *)
(* the call can return.                                                     *)
LEMMA ReceivedEffect ==
    ASSUME NEW c \in Caches, NEW command \in Catalogue, NEW url, NEW raw,
           NEW item \in Items, NEW answer \in Replies, Filled(c)
    PROVE  Processed(c, command, url, raw, item, answer,
                     Received(c, command, url, raw, item, answer))
<1>. DEFINE r == Received(c, command, url, raw, item, answer)
            P(s) == Processed(c, command, url, raw, item, answer, s)
<1>1. /\ answer.payload \in Payloads /\ NoPayload \in Payloads
      /\ c.gen \in Nat /\ item.payload \in Payloads
  BY PayloadTypes, CacheTypes, ItemTypes DEF Replies
<1>2. \A k \in {"nil", "error", "panic"} : P(Reply(c, Outcome(k, NoPayload)))
  <2>. SUFFICES ASSUME NEW k \in {"nil", "error", "panic"}
                PROVE  P(Reply(c, Outcome(k, NoPayload)))
    OBVIOUS
  <2>. DEFINE s == Reply(c, Outcome(k, NoPayload))
  <2>1. k \in Kinds /\ k # "result" /\ k # "none"
    BY DEF Kinds
  <2>2. s = Reply(c, Outcome(k, NoPayload))
    OBVIOUS
  <2>. HIDE DEF s
  <2>3. s.cache = c /\ s.out \in Outcomes /\ s.out.kind = k
    BY ONLY <2>1, <2>2, <1>1, KeptReply
  <2>4. P(s)
    BY ONLY <2>1, <2>3, Zenon DEF Processed
  <2>. QED BY <2>4 DEF s
<1>3. CASE answer.status = "notmodified"
  <2>. DEFINE d == notModified(c, url, item)
              k == SetResponse(command, item.payload)
              new == [item EXCEPT !.expired = FALSE]
  <2>1. r = unchanged(c, command, url, item)
    BY ONLY <1>3 DEF Received
  <2>2. d = c \/ (d = put(c, url, new) /\ item # NoItem /\ get(c, url) = item)
    BY ONLY Zenon DEF notModified
  <2>3. new \in Items
    BY ONLY ItemExpiry
  <2>4. d # c => Enters(c, command, url, raw, item, answer, url, new)
    BY ONLY <2>2, <1>3, Zenon DEF Enters
  <2>. HIDE DEF d, new
  <2>5. \/ d = c
        \/ c.open /\ \E u \in {url, raw}, i \in Items :
              d = put(c, u, i) /\ Enters(c, command, url, raw, item, answer, u, i)
    <3>1. d # c => c.open
      BY <2>2, GetEffect, Zenon DEF Filled
    <3>. QED BY ONLY <3>1, <2>2, <2>3, <2>4, Zenon
  <2>6. CASE command.type = "object"
    <3>1. r = Reply(d, Outcome(k, item.payload))
      BY ONLY <2>1, <2>6, Zenon DEF unchanged, d
    <3>2. /\ k \in Kinds /\ k # "none"
          /\ k = "result" => item.payload # NoPayload /\ command.body = "result"
      BY ONLY ResponseKinds, KindsAre
    <3>. HIDE DEF r, k
    <3>3. /\ r.cache = d /\ r.out \in Outcomes /\ r.out.kind = k
          /\ k = "result" => r.out.payload = item.payload
      BY ONLY <3>1, <3>2, <1>1, KeptReply
    <3>4. r.out.kind = "result" => Yields(c, command, raw, item, answer, r.out.payload)
      BY ONLY <3>2, <3>3, <2>6, <1>3, Zenon DEF Yields
    <3>5. Processed(c, command, url, raw, item, answer, r)
      BY ONLY <3>2, <3>3, <3>4, <2>5, Zenon DEF Processed
    <3>. QED BY <3>5 DEF r
  <2>7. CASE command.type # "object"
    <3>1. r = Reply(d, Outcome("nil", NoPayload))
      BY ONLY <2>1, <2>7, Zenon DEF unchanged, d
    <3>. HIDE DEF r
    <3>3. r.cache = d /\ r.out \in Outcomes /\ r.out.kind = "nil"
      BY ONLY <3>1, <1>1, KeptReply, KindsAre
    <3>4. Processed(c, command, url, raw, item, answer, r)
      BY ONLY <3>3, <2>5, Zenon DEF Processed
    <3>. QED BY <3>4 DEF r
  <2>. QED BY <2>6, <2>7
<1>4. CASE answer.status = "notfound"
  <2>. DEFINE k == IF command.type = "raw" THEN "panic" ELSE "nil"
              new == [cv |-> NotFoundVector, payload |-> NoPayload, gen |-> c.gen,
                      expired |-> FALSE]
  <2>1. CASE c.open
    <3>1. r = Reply(put(c, url, new), Outcome(k, NoPayload))
      <4>1. r = notFound(c, command, url)
        BY ONLY <1>4, <2>1 DEF Received
      <4>. QED BY ONLY <4>1, Zenon DEF notFound, setNotFound, set
    <3>2. k \in Kinds /\ k # "result" /\ k # "none"
      <4>1. k = "panic" \/ k = "nil"
        BY ONLY Zenon
      <4>. HIDE DEF k
      <4>. QED BY ONLY <4>1 DEF Kinds
    <3>3. new \in Items
      <4>1. NotFoundVector \in Int /\ FALSE \in BOOLEAN
        BY DEF NotFoundVector
      <4>. QED BY ONLY <4>1, <1>1, ItemTypes, Zenon
    <3>4. Enters(c, command, url, raw, item, answer, url, new)
      BY ONLY Zenon DEF Enters
    <3>. HIDE DEF r, k, new
    <3>5. r.cache = put(c, url, new) /\ r.out \in Outcomes /\ r.out.kind = k
      BY ONLY <3>1, <3>2, <1>1, KeptReply
    <3>6. Processed(c, command, url, raw, item, answer, r)
      BY ONLY <2>1, <3>2, <3>3, <3>4, <3>5, Zenon DEF Processed
    <3>. QED BY <3>6 DEF r
  <2>2. CASE ~c.open
    <3>1. r = Reply(c, Outcome("panic", NoPayload))
      BY ONLY <1>4, <2>2 DEF Received
    <3>. QED BY <3>1, <1>2
  <2>. QED BY <2>1, <2>2
<1>5. CASE answer.status = "error"
  <2>1. r = Reply(c, Outcome("error", NoPayload))
    BY ONLY <1>5 DEF Received
  <2>. QED BY <2>1, <1>2
<1>6. CASE answer.status \notin {"notmodified", "notfound", "error"}
  <2>. DEFINE s == ravenCommand_processResponse(c, command, url, raw, answer)
  <2>1. r = IF ~c.open /\ (s.cache # c \/ answer.status = "submodified")
            THEN Reply(c, Outcome("panic", NoPayload)) ELSE s
    BY ONLY <1>6 DEF Received
  <2>2. /\ \/ s.cache = c
           \/ \E u \in {url, raw}, i \in Items :
                 /\ s.cache = put(c, u, i)
                 /\ Enters(c, command, url, raw, item, answer, u, i)
        /\ s.out \in Outcomes /\ s.out.kind # "none"
        /\ s.out.kind = "result" =>
              \/ s.out.payload = answer.payload
              \/ /\ answer.status = "submodified"
                 /\ s.out.payload = get(c, raw).payload
    BY ONLY ProcessEffect
  <2>. HIDE DEF s, r
  <2>3. CASE ~c.open /\ (s.cache # c \/ answer.status = "submodified")
    <3>1. r = Reply(c, Outcome("panic", NoPayload))
      BY ONLY <2>1, <2>3, Zenon
    <3>. QED BY <3>1, <1>2 DEF r
  <2>4. CASE ~(~c.open /\ (s.cache # c \/ answer.status = "submodified"))
    <3>1. r = s
      BY ONLY <2>1, <2>4, Zenon
    <3>2. s.out.kind = "result" => Yields(c, command, raw, item, answer, s.out.payload)
      BY ONLY <2>2, <2>4, Zenon DEF Yields
    <3>3. Processed(c, command, url, raw, item, answer, s)
      BY ONLY <2>2, <2>4, <3>2, Zenon DEF Processed
    <3>. QED BY <3>1, <3>3 DEF r
  <2>. QED BY <2>3, <2>4
<1>. QED BY <1>3, <1>4, <1>5, <1>6

(* The answer to a command fits the URL of its request.                    *)
LEMMA EnteredFits ==
    ASSUME NEW c \in Caches, NEW command \in Catalogue, NEW node \in Nodes,
           NEW arg \in AllArgs, NEW item \in Items, NEW answer \in Replies,
           answer.payload.name = command.name, answer.payload.arg = arg,
           Filled(c), NEW u, NEW i \in Items,
           Enters(c, command, UrlOf(node, command, arg), multiGetUrl(node, arg),
                  item, answer, u, i)
    PROVE  Fits(u, i) /\ i.gen <= c.gen
<1>. DEFINE url == UrlOf(node, command, arg)
            raw == multiGetUrl(node, arg)
<1>1. /\ url[2] = command.url /\ (command.keyed => url[3] = arg)
      /\ raw[2] = "GET-docs" /\ raw[3] = arg
  BY ONLY KeyTypes, Zenon
<1>2. command.url # "GET-docs" /\ (command.type = "raw" => command = MultiGet)
  BY ONLY CatalogueRegular DEF Regular, Plain
<1>3. c.gen \in Nat
  BY CacheTypes
<1>. HIDE DEF url, raw
<1>4. Enters(c, command, url, raw, item, answer, u, i)
  BY DEF url, raw
<1>5. CASE /\ i = [cv |-> answer.payload.version, payload |-> answer.payload,
                   gen |-> c.gen, expired |-> FALSE]
           /\ (u = url /\ Storable(command)) \/ (u = raw /\ command.type = "raw")
  <2>1. i.cv = answer.payload.version /\ i.payload = answer.payload /\ i.gen = c.gen
    BY ONLY <1>5
  <2>2. Fits(u, i)
    <3>1. CASE u = url /\ Storable(command)
      BY ONLY <3>1, <2>1, <1>1, <1>2, answer.payload.name = command.name,
         answer.payload.arg = arg, Zenon DEF Fits
    <3>2. CASE u = raw /\ command.type = "raw"
      BY ONLY <3>2, <2>1, <1>1, <1>2, answer.payload.name = command.name,
         answer.payload.arg = arg, Zenon DEF Fits
    <3>. QED BY <1>5, <3>1, <3>2
  <2>. QED BY ONLY <2>1, <2>2, <1>3
<1>6. CASE u = url /\ i = [cv |-> NotFoundVector, payload |-> NoPayload,
                           gen |-> c.gen, expired |-> FALSE]
  <2>1. i.payload = NoPayload /\ i.gen = c.gen /\ i.cv = NotFoundVector
    BY ONLY <1>6
  <2>2. ~(i.cv > 0)
    BY ONLY <2>1 DEF NotFoundVector
  <2>3. Fits(u, i)
    BY ONLY <2>1, <2>2, <1>6, <1>1, <1>2, Zenon DEF Fits
  <2>. QED BY ONLY <2>1, <2>3, <1>3
<1>7. CASE /\ u = url /\ i = [item EXCEPT !.expired = FALSE]
           /\ item # NoItem /\ get(c, url) = item
  <2>1. i.cv = item.cv /\ i.payload = item.payload /\ i.gen = item.gen
    BY ONLY <1>7, ItemExpiry
  <2>2. url \in DOMAIN c.items /\ c.items[url] = item
    BY <1>7, GetEffect, Zenon
  <2>3. Fits(url, item) /\ item.gen <= c.gen
    BY ONLY <2>2, Filled(c), Zenon DEF Filled
  <2>4. Fits(u, i)
    BY ONLY <2>1, <2>3, <1>7, Zenon DEF Fits
  <2>. QED BY ONLY <2>1, <2>3, <2>4
<1>. QED BY ONLY <1>4, <1>5, <1>6, <1>7, Zenon DEF Enters

(* An item that fits keeps the cache in order.                             *)
LEMMA PutFills ==
    ASSUME NEW c \in Caches, NEW u \in Keys, NEW i \in Items,
           Filled(c), c.open, Fits(u, i), i.gen <= c.gen
    PROVE  Filled(put(c, u, i))
<1>. DEFINE d == put(c, u, i)
<1>1. /\ d.gen = c.gen /\ d.open = c.open
      /\ DOMAIN d.items = DOMAIN c.items \cup {u} /\ d.items[u] = i
      /\ \A w \in DOMAIN c.items : w # u => d.items[w] = c.items[w]
  BY ONLY PutEffect
<1>. HIDE DEF d
<1>2. ASSUME NEW w \in DOMAIN d.items
      PROVE  Fits(w, d.items[w]) /\ d.items[w].gen <= d.gen
  <2>1. CASE w = u
    BY ONLY <2>1, <1>1, Fits(u, i), i.gen <= c.gen, Zenon
  <2>2. CASE w # u
    <3>1. w \in DOMAIN c.items /\ d.items[w] = c.items[w]
      BY ONLY <2>2, <1>1, <1>2, Zenon
    <3>. QED BY ONLY <3>1, <1>1, Filled(c), Zenon DEF Filled
  <2>. QED BY ONLY <2>1, <2>2
<1>3. Filled(d)
  BY ONLY <1>1, <1>2, c.open, Zenon DEF Filled
<1>. QED BY <1>3 DEF d

(* A command that takes answers from the cache and is not known to share    *)
(* its URL finds the answer to itself under the URL.                        *)
LEMMA CachedAnswerIsOwn ==
    ASSUME NEW c \in Catalogue, NEW node \in Nodes, NEW arg \in AllArgs,
           NEW i \in Items, isCacheable(c), c.body = "result",
           Fits(UrlOf(node, c, arg), i), i.payload # NoPayload
    PROVE  \/ i.payload.name = c.name /\ i.payload.arg = arg
           \/ c.name \in KnownToShare
<1>. SUFFICES ASSUME c.name \notin KnownToShare
              PROVE  i.payload.name = c.name /\ i.payload.arg = arg
  OBVIOUS
<1>. DEFINE url == UrlOf(node, c, arg)
<1>1. url[2] = c.url /\ (c.keyed => url[3] = arg)
  BY ONLY KeyTypes, Zenon
<1>2. Regular(c)
  BY ONLY CatalogueRegular, Zenon
<1>3. c.keyed /\ <<c.url, c.name>> \in Holders /\ c.url # "GET-docs"
  BY ONLY <1>2, isCacheable(c), c.body = "result", c.name \notin KnownToShare, Zenon
     DEF Regular, Plain, Own
<1>. HIDE DEF url
<1>4. Fits(url, i)
  BY DEF url
<1>5. PICK k \in Catalogue : /\ Storable(k) /\ i.payload.name = k.name
                             /\ url[2] = k.url /\ (k.keyed => url[3] = i.payload.arg)
  BY ONLY <1>4, <1>1, <1>3, i.payload # NoPayload, Zenon DEF Fits
<1>6. \A h \in Holders : h[1] = k.url => h[2] = k.name /\ k.keyed
  BY ONLY <1>5, CatalogueRegular, Zenon DEF Regular, Own
<1>7. <<c.url, c.name>>[1] = c.url /\ <<c.url, c.name>>[2] = c.name
  OBVIOUS
<1>8. c.name = k.name /\ k.keyed
  BY ONLY <1>6, <1>7, <1>3, <1>5, <1>1, Zenon
<1>. QED BY ONLY <1>8, <1>5, <1>1, <1>3, Zenon

-----------------------------------------------------------------------------
(* Callers.                                                                *)

(* The values that a caller begins with.                                   *)
LEMMA CallerBasics ==
    /\ AnyDatabase \in Databases /\ NoAnswer \in Replies
    /\ NoOutcome \in Outcomes /\ NoOutcome.kind = "none"
    /\ NoExecutor \in 0..N
<1>1. AnyDatabase \in Databases
  BY StoreAssumption, Zenon DEF AnyDatabase
<1>2. NoAnswer \in Replies
  BY PayloadTypes DEF NoAnswer, Replies
<1>3. NoOutcome \in Outcomes /\ NoOutcome.kind = "none"
  BY PayloadTypes DEF NoOutcome, Outcomes
<1>4. NoExecutor \in 0..N
  BY CallersCounted DEF NoExecutor
<1>. QED BY ONLY <1>1, <1>2, <1>3, <1>4, Zenon

(* What a method of the store does with an executor.                       *)
LEMMA ThenBasics ==
    /\ "" \in Thens /\ "session" \in Thens /\ "options" \in Thens
    /\ "subscribe" \in Thens /\ "disable" \in Thens
    /\ \A t \in Thens : t # "" => t \in {"session", "options", "subscribe", "disable"}
  BY Zenon DEF Thens

(* A caller at rest keeps its session and what its last call returned.     *)
LEMMA IdleFields ==
    ASSUME NEW c \in CallerType
    PROVE  LET r == Idle(c)
           IN  /\ r \in CallerType /\ r.pc = "idle" /\ r.out = c.out
               /\ r.from = c.from /\ r.command = c.command /\ r.arg = c.arg
               /\ r.start = c.start /\ r.aggressive = c.aggressive
  BY ONLY CallerBasics, ThenBasics, ItemTypes, Zenon DEF CallerType, Idle

(* A call begins with no outcome.                                          *)
LEMMA BeginFields ==
    ASSUME NEW p, caller[p] \in CallerType
    PROVE  LET r == Begin(p)
           IN  /\ r \in CallerType /\ r.pc = caller[p].pc /\ r.out.kind = "none"
               /\ r.from = "none" /\ r.db = caller[p].db /\ r.ex = caller[p].ex
<1>1. ASSUME NEW c \in CallerType, NEW n \in Nat
      PROVE  LET r == [c EXCEPT !.calls = n, !.out = NoOutcome, !.from = "none"]
             IN  /\ r \in CallerType /\ r.pc = c.pc /\ r.out = NoOutcome
                 /\ r.from = "none" /\ r.db = c.db /\ r.ex = c.ex
  BY ONLY <1>1, CallerBasics, Zenon DEF CallerType
<1>2. \A c \in CallerType : c.calls \in Nat
  BY Zenon DEF CallerType
<1>3. caller[p].calls + 1 \in Nat
  BY <1>2
<1>. QED BY <1>1, <1>3, CallerBasics, Zenon DEF Begin

(* A call that has returned nothing has returned nothing wrong.            *)
LEMMA QuietReturned ==
    ASSUME NEW c, c.out.kind = "none", c.from = "none"
    PROVE  Returned(c)
  BY ONLY c.out.kind = "none", c.from = "none" DEF Returned

(* At rest only what was returned matters.                                 *)
LEMMA RestingCalls ==
    ASSUME NEW c, c.pc = "idle", Returned(c), NEW v, NEW x
    PROVE  Calling(c, v, x)
  BY ONLY c.pc = "idle", Returned(c) DEF Calling, Placed, Asked, Answered

\* Versions only grow, and a cache that is open was open and keeps its keys.
Grows(v, x, w, y) ==
    /\ \A d \in Databases : v[d] <= w[d]
    /\ \A e \in Executors :
          y[e].cache.open => /\ x[e].cache.open
                             /\ DOMAIN x[e].cache.items \subseteq DOMAIN y[e].cache.items

(* What is said of a caller stays true as the others go on.                *)
LEMMA CallingStays ==
    ASSUME NEW c \in CallerType, NEW v, NEW x, NEW w, NEW y,
           v \in [Databases -> Nat], w \in [Databases -> Nat],
           Calling(c, v, x), Grows(v, x, w, y)
    PROVE  Calling(c, w, y)
<1>1. Placed(c) /\ Asked(c, v, x) /\ Answered(c) /\ Returned(c)
  BY ONLY Calling(c, v, x), Zenon DEF Calling
<1>2. ASSUME c.pc \in {"sent", "answered"}
      PROVE  /\ c.ex # NoExecutor /\ c.start <= w[c.db]
             /\ Offered(c, y[<<c.db, c.ex>>].cache)
  <2>1. /\ c.ex # NoExecutor /\ c.start <= v[c.db]
        /\ Offered(c, x[<<c.db, c.ex>>].cache)
    BY ONLY <1>1, <1>2, Zenon DEF Asked
  <2>2. c.db \in Databases /\ c.ex \in 0..N /\ c.start \in Nat
    BY ONLY DEF CallerType
  <2>3. c.start <= w[c.db]
    BY ONLY <2>1, <2>2, v \in [Databases -> Nat], w \in [Databases -> Nat],
       Grows(v, x, w, y) DEF Grows
  <2>4. <<c.db, c.ex>> \in Executors
    BY <2>1, <2>2, ExecutorTypes DEF NoExecutor
  <2>5. Offered(c, y[<<c.db, c.ex>>].cache)
    BY ONLY <2>1, <2>4, Grows(v, x, w, y), Zenon DEF Grows, Offered
  <2>. QED BY ONLY <2>1, <2>3, <2>5
<1>. QED BY ONLY <1>1, <1>2, Zenon DEF Calling, Asked

-----------------------------------------------------------------------------
(* Steps of one caller.                                                    *)

\* The caller p becomes r.
Becomes(p, r) == caller' = [caller EXCEPT ![p] = r]

(* The parts of the invariant that are about a caller's record.            *)
LEMMA CallersKept ==
    ASSUME IInv, NEW p \in Callers, NEW r \in CallerType, Becomes(p, r),
           Calling(r, version', executor'), version' \in [Databases -> 1..MaxVersion],
           Grows(version, executor, version', executor')
    PROVE  /\ caller' \in [Callers -> CallerType]
           /\ \A q \in Callers : Calling(caller'[q], version', executor')
<1>1. /\ caller \in [Callers -> CallerType] /\ ServerTypes
      /\ \A q \in Callers : Calling(caller[q], version, executor)
  BY Zenon DEF IInv
<1>2. version \in [Databases -> Nat] /\ version' \in [Databases -> Nat]
  <2>1. 1..MaxVersion \subseteq Nat
    BY StoreAssumption
  <2>2. version \in [Databases -> 1..MaxVersion]
    BY <1>1, Zenon DEF ServerTypes
  <2>. QED BY ONLY <2>1, <2>2, version' \in [Databases -> 1..MaxVersion]
<1>3. caller' \in [Callers -> CallerType]
  BY <1>1, Zenon DEF Becomes
<1>4. ASSUME NEW q \in Callers
      PROVE  Calling(caller'[q], version', executor')
  <2>1. CASE q = p
    <3>1. caller'[q] = r
      BY <1>1, <2>1, Zenon DEF Becomes
    <3>. QED BY <3>1
  <2>2. CASE q # p
    <3>1. caller'[q] = caller[q] /\ caller[q] \in CallerType
      BY <1>1, <2>2, Zenon DEF Becomes
    <3>2. Calling(caller[q], version, executor)
      BY <1>1, Zenon
    <3>. DEFINE c == caller[q]
    <3>3. c \in CallerType /\ Calling(c, version, executor)
      BY <3>1, <3>2
    <3>. HIDE DEF c
    <3>4. Calling(c, version', executor')
      BY ONLY <3>3, <1>2, Grows(version, executor, version', executor'), CallingStays
    <3>. QED BY <3>1, <3>4 DEF c
  <2>. QED BY <2>1, <2>2
<1>. QED BY ONLY <1>3, <1>4, Zenon

(* The executors are enough while no caller is going to create one for a    *)
(* database that has one by now.                                            *)
LEMMA CountedKept ==
    ASSUME IInv, NEW p \in Callers, NEW r, Becomes(p, r),
           store'.created = store.created, store'.registry = store.registry,
           r.pc = "create" => store.registry[r.target] = NoExecutor
    PROVE  Counted'
<1>1. caller \in [Callers -> CallerType] /\ Counted /\ StoreTypes
  BY Zenon DEF IInv
<1>. SUFFICES ASSUME NEW d \in Databases
              PROVE  /\ store'.created[d] + Cardinality(Creating(d)') <= N
                     /\ store'.registry[d] = NoExecutor <=> store'.created[d] = 0
  BY Zenon DEF Counted
<1>2. /\ store.created[d] + Cardinality(Creating(d)) <= N
      /\ store.registry[d] = NoExecutor <=> store.created[d] = 0
  BY <1>1, Zenon DEF Counted
<1>3. store.created[d] \in Nat
  BY <1>1, CallersCounted DEF StoreTypes
<1>4. /\ Creating(d) \subseteq Callers /\ Creating(d)' \subseteq Callers
      /\ \A q \in Callers : q # p => caller'[q] = caller[q]
      /\ caller'[p] = r
  BY <1>1, Zenon DEF Creating, Becomes
<1>5. Cardinality(Creating(d)') \in 0..N /\ Cardinality(Creating(d)) \in 0..N
      /\ IsFiniteSet(Creating(d))
  BY <1>4, CallersCounted
<1>6. CASE r.pc = "create" /\ r.target = d
  <2>1. store.created[d] = 0
    BY <1>2, <1>6, Zenon
  <2>. QED BY ONLY <2>1, <1>2, <1>5, CallersCounted,
           store'.created = store.created, store'.registry = store.registry
<1>7. CASE ~(r.pc = "create" /\ r.target = d)
  <2>1. Creating(d)' \subseteq Creating(d)
    BY <1>4, <1>7, Zenon DEF Creating
  <2>2. Cardinality(Creating(d)') <= Cardinality(Creating(d))
    BY <2>1, <1>5, FS_Subset
  <2>. QED BY ONLY <2>2, <1>2, <1>3, <1>5, CallersCounted,
           store'.created = store.created, store'.registry = store.registry
<1>. QED BY <1>6, <1>7

(* A step that changes a caller only.                                      *)
LEMMA CallerMoves ==
    ASSUME IInv, NEW p \in Callers, NEW r \in CallerType, Becomes(p, r),
           Calling(r, version, executor),
           r.pc = "create" => store.registry[r.target] = NoExecutor,
           UNCHANGED <<workload, version, store, executor, listening, pending, tracked>>
    PROVE  IInv'
<1>1. /\ version' = version /\ executor' = executor /\ store' = store
      /\ workload' = workload /\ listening' = listening /\ pending' = pending
      /\ tracked' = tracked
  OBVIOUS
<1>2. version \in [Databases -> 1..MaxVersion]
  BY Zenon DEF IInv, ServerTypes
<1>3. Grows(version, executor, version', executor')
  <2>1. \A d \in Databases : version[d] <= version[d]
    BY <1>2, StoreAssumption
  <2>. QED BY ONLY <2>1, <1>1, Zenon DEF Grows
<1>4. /\ caller' \in [Callers -> CallerType]
      /\ \A q \in Callers : Calling(caller'[q], version', executor')
  BY <1>1, <1>2, <1>3, CallersKept
<1>5. Counted'
  BY <1>1, CountedKept
<1>6. ServerTypes' /\ StoreTypes'
  BY <1>1, Zenon DEF IInv, ServerTypes, StoreTypes
<1>7. Followed' /\ \A e \in Executors : Filled(executor'[e].cache)
  BY <1>1, Zenon DEF IInv, Followed
<1>. QED BY ONLY <1>4, <1>5, <1>6, <1>7, Zenon DEF IInv

(* A method of the store begins, or goes on to look for its executor.      *)
LEMMA MethodBegins ==
    ASSUME NEW c \in CallerType, c.out.kind = "none", c.from = "none",
           NEW k \in {"lookup", "listen"}, NEW t \in Thens, t # "",
           NEW d \in Databases, NEW v, NEW x
    PROVE  LET r == [c EXCEPT !.pc = k, !.then = t, !.target = d]
           IN  r \in CallerType /\ Calling(r, v, x) /\ r.pc # "create"
<1>. DEFINE r == [c EXCEPT !.pc = k, !.then = t, !.target = d]
<1>1. k \in {"idle", "lookup", "create", "listen", "options", "subscribe",
             "disable", "sent", "answered", "closing"}
  BY Zenon
<1>2. /\ r \in CallerType /\ r.pc = k /\ r.then = t
      /\ r.out.kind = "none" /\ r.from = "none"
  BY <1>1, Zenon DEF CallerType
<1>. HIDE DEF r
<1>3. Returned(r)
  BY ONLY <1>2, QuietReturned
<1>4. Placed(r) /\ Asked(r, v, x) /\ Answered(r)
  BY ONLY <1>2, t # "", k \in {"lookup", "listen"}, Zenon DEF Placed, Asked, Answered
<1>5. r.pc # "create"
  BY ONLY <1>2
<1>6. Calling(r, v, x)
  BY ONLY <1>3, <1>4, Zenon DEF Calling
<1>. QED BY ONLY <1>2, <1>5, <1>6, Zenon DEF r

(* A method that was given an executor goes on with it.                    *)
LEMMA HoldingCalls ==
    ASSUME NEW c \in CallerType, c.out.kind = "none", c.from = "none",
           c.then # "", NEW e \in 0..N, e # NoExecutor, NEW v, NEW x
    PROVE  /\ Holding(c, e) \in CallerType /\ Calling(Holding(c, e), v, x)
           /\ Holding(c, e).pc # "create"
<1>1. c.then \in Thens /\ c.target \in Databases
  BY Zenon DEF CallerType
<1>2. CASE c.then = "session"
  <2>. DEFINE b == [c EXCEPT !.db = c.target, !.ex = e]
              r == Idle(b)
  <2>1. b \in CallerType /\ b.out.kind = "none" /\ b.from = "none"
    BY <1>1, Zenon DEF CallerType
  <2>. HIDE DEF b
  <2>2. /\ r \in CallerType /\ r.pc = "idle" /\ r.out.kind = "none"
        /\ r.from = "none"
    BY ONLY <2>1, IdleFields, Zenon
  <2>. HIDE DEF r
  <2>3. Calling(r, v, x)
    BY ONLY <2>2, QuietReturned, RestingCalls
  <2>4. r.pc # "create"
    BY ONLY <2>2
  <2>5. r = Holding(c, e)
    BY <1>2, Zenon DEF Holding, r, b
  <2>. QED BY ONLY <2>2, <2>3, <2>4, <2>5, Zenon
<1>3. CASE c.then # "session"
  <2>. DEFINE k == c.then
              r == [c EXCEPT !.pc = k, !.re = e]
  <2>1. k \in {"session", "options", "subscribe", "disable"}
    BY ONLY <1>1, c.then # "", ThenBasics, Zenon
  <2>2. k \in {"options", "subscribe", "disable"}
    BY ONLY <2>1, <1>3, Zenon
  <2>3. r = Holding(c, e)
    BY <1>3, Zenon DEF Holding
  <2>. HIDE DEF k
  <2>4. k \in {"idle", "lookup", "create", "listen", "options", "subscribe",
               "disable", "sent", "answered", "closing"}
    BY ONLY <2>2
  <2>5. /\ r \in CallerType /\ r.pc = k /\ r.re = e
        /\ r.out.kind = "none" /\ r.from = "none"
    BY <2>4, Zenon DEF CallerType
  <2>. HIDE DEF r
  <2>6. Returned(r)
    BY ONLY <2>5, QuietReturned
  <2>7. Placed(r) /\ Asked(r, v, x) /\ Answered(r)
    BY ONLY <2>5, <2>2, e # NoExecutor, Zenon DEF Placed, Asked, Answered
  <2>8. r.pc # "create"
    BY ONLY <2>5, <2>2
  <2>9. Calling(r, v, x)
    BY ONLY <2>6, <2>7, Zenon DEF Calling
  <2>. QED BY ONLY <2>3, <2>5, <2>8, <2>9, Zenon
<1>. QED BY ONLY <1>2, <1>3

(* The database a method is called with.                                   *)
LEMMA TargetsAre ==
    ASSUME NEW p, caller[p] \in CallerType, NEW d \in Targets(p)
    PROVE  d \in Databases
<1>1. caller[p].db \in Databases
  BY Zenon DEF CallerType
<1>. QED BY <1>1, Zenon DEF Targets

(* OpenSession, AggressivelyCacheForDatabase and DisableAggressiveCaching. *)
LEMMA MethodsKeep ==
    ASSUME IInv, NEW p \in Callers,
           \/ OpenSession(p) \/ AggressivelyCacheForDatabase(p)
           \/ DisableAggressiveCaching(p)
    PROVE  IInv'
<1>. DEFINE b == Begin(p)
            r(k, t, d) == [b EXCEPT !.pc = k, !.then = t, !.target = d]
<1>1. caller[p] \in CallerType
  BY Zenon DEF IInv
<1>2. /\ b \in CallerType /\ b.pc = caller[p].pc /\ b.out.kind = "none"
      /\ b.from = "none"
  BY ONLY <1>1, BeginFields
<1>3. caller[p].pc = "idle"
  BY Zenon DEF OpenSession, AggressivelyCacheForDatabase, DisableAggressiveCaching, Calls
<1>4. /\ UNCHANGED <<workload, version, store, executor, listening, pending, tracked>>
      /\ \/ Becomes(p, b)
         \/ \E d \in Targets(p) :
               \/ Becomes(p, r("lookup", "session", d))
               \/ Becomes(p, r("lookup", "options", d))
               \/ Becomes(p, r("listen", "options", d))
               \/ Becomes(p, r("lookup", "disable", d))
  <2>1. CASE OpenSession(p)
    BY ONLY <2>1, Zenon DEF OpenSession, Becomes
  <2>2. CASE AggressivelyCacheForDatabase(p)
    BY ONLY <2>2, Zenon DEF AggressivelyCacheForDatabase, Becomes
  <2>3. CASE DisableAggressiveCaching(p)
    BY ONLY <2>3, Zenon DEF DisableAggressiveCaching, Becomes
  <2>. QED BY <2>1, <2>2, <2>3, Zenon
<1>. HIDE DEF b
<1>5. CASE Becomes(p, b)
  <2>1. b.pc = "idle" /\ Calling(b, version, executor)
    BY ONLY <1>2, <1>3, QuietReturned, RestingCalls
  <2>2. b.pc # "create"
    BY ONLY <2>1
  <2>. QED BY <1>2, <1>4, <1>5, <2>1, <2>2, CallerMoves
<1>6. ASSUME NEW d \in Targets(p), NEW k \in {"lookup", "listen"}, NEW t \in Thens,
             t # "", Becomes(p, r(k, t, d))
      PROVE  IInv'
  <2>1. d \in Databases
    BY <1>1, TargetsAre
  <2>. DEFINE s == r(k, t, d)
  <2>2. s \in CallerType /\ Calling(s, version, executor) /\ s.pc # "create"
    BY ONLY <1>2, <1>6, <2>1, MethodBegins, Zenon
  <2>3. Becomes(p, s)
    BY <1>6, Zenon
  <2>. HIDE DEF s, r
  <2>. QED BY <2>2, <2>3, <1>4, CallerMoves
<1>7. /\ "session" # "" /\ "options" # "" /\ "disable" # ""
      /\ "lookup" \in {"lookup", "listen"} /\ "listen" \in {"lookup", "listen"}
  BY ONLY Zenon
<1>. HIDE DEF r
<1>. QED BY ONLY <1>4, <1>5, <1>6, <1>7, ThenBasics, Zenon

(* GetRequestExecutor finds an executor, or is going to create one.        *)
LEMMA GetRequestExecutorKeeps ==
    ASSUME IInv, NEW p \in Callers, GetRequestExecutor(p)
    PROVE  IInv'
<1>. DEFINE c == caller[p]
            e == store.registry[c.target]
<1>1. /\ c \in CallerType /\ Placed(c) /\ StoreTypes
  BY Zenon DEF IInv, Calling
<1>2. /\ c.pc = "lookup"
      /\ Becomes(p, IF e # NoExecutor THEN Holding(c, e) ELSE [c EXCEPT !.pc = "create"])
      /\ UNCHANGED <<workload, version, store, executor, listening, pending, tracked>>
  <2>1. caller \in [Callers -> CallerType]
    BY Zenon DEF IInv
  <2>. QED BY <2>1, Zenon DEF GetRequestExecutor, Becomes
<1>3. c.out.kind = "none" /\ c.from = "none" /\ c.then # ""
  BY ONLY <1>1, <1>2, Zenon DEF Placed
<1>4. c.target \in Databases
  BY ONLY <1>1, Zenon DEF CallerType
<1>5. e \in 0..N
  BY ONLY <1>1, <1>4, Zenon DEF StoreTypes
<1>6. CASE e # NoExecutor
  <2>. HIDE DEF c, e
  <2>1. Becomes(p, Holding(c, e))
    BY ONLY <1>2, <1>6, Zenon
  <2>2. /\ Holding(c, e) \in CallerType /\ Calling(Holding(c, e), version, executor)
        /\ Holding(c, e).pc # "create"
    BY ONLY <1>1, <1>3, <1>5, <1>6, HoldingCalls, Zenon
  <2>. QED BY <2>1, <2>2, <1>2, CallerMoves
<1>7. CASE e = NoExecutor
  <2>. DEFINE r == [c EXCEPT !.pc = "create"]
  <2>1. Becomes(p, r)
    BY ONLY <1>2, <1>7, Zenon
  <2>2. /\ r \in CallerType /\ r.pc = "create" /\ r.out.kind = "none"
        /\ r.from = "none" /\ r.then = c.then /\ r.target = c.target
    BY ONLY <1>1, <1>3, Zenon DEF CallerType
  <2>3. store.registry[r.target] = NoExecutor
    BY ONLY <2>2, <1>7, Zenon
  <2>. HIDE DEF r, c, e
  <2>4. Placed(r) /\ Asked(r, version, executor) /\ Answered(r)
    BY ONLY <2>2, <1>3, Zenon DEF Placed, Asked, Answered
  <2>5. Calling(r, version, executor)
    BY ONLY <2>2, <2>4, QuietReturned, Zenon DEF Calling
  <2>. QED BY <2>1, <2>2, <2>3, <2>5, <1>2, CallerMoves
<1>. QED BY <1>6, <1>7, Zenon

(* RequestExecutorCreate: the caller is one of those that were going to     *)
(* create an executor, so there is a number left for it.                    *)
LEMMA RequestExecutorCreateKeeps ==
    ASSUME IInv, NEW p \in Callers, RequestExecutorCreate(p)
    PROVE  IInv'
<1>. DEFINE c == caller[p]
            d == c.target
            e == store.created[d] + 1
            r == Holding(c, e)
<1>1. /\ c \in CallerType /\ Placed(c) /\ StoreTypes /\ ServerTypes /\ Counted
      /\ caller \in [Callers -> CallerType] /\ Followed
      /\ \A x \in Executors : Filled(executor[x].cache)
  BY Zenon DEF IInv, Calling
<1>2. /\ c.pc = "create"
      /\ store' = [store EXCEPT !.created[d] = e, !.registry[d] = e]
      /\ Becomes(p, r)
      /\ UNCHANGED <<workload, version, executor, listening, pending, tracked>>
  BY <1>1, Zenon DEF RequestExecutorCreate, Becomes
<1>3. c.out.kind = "none" /\ c.from = "none" /\ c.then # ""
  BY ONLY <1>1, <1>2, Zenon DEF Placed
<1>4. d \in Databases
  BY ONLY <1>1, Zenon DEF CallerType
<1>5. store.created[d] \in 0..N
  BY ONLY <1>1, <1>4, Zenon DEF StoreTypes
<1>6. /\ Creating(d) \subseteq Callers /\ p \in Creating(d)
  BY ONLY <1>2, Zenon DEF Creating
<1>7. IsFiniteSet(Creating(d)) /\ Cardinality(Creating(d)) \in Nat
  BY <1>6, CallersCounted
<1>8. Cardinality(Creating(d)) >= 1
  BY <1>6, <1>7, FS_EmptySet
<1>9. store.created[d] + Cardinality(Creating(d)) <= N
  BY ONLY <1>1, <1>4, Zenon DEF Counted
<1>10. e \in 0..N /\ e # NoExecutor /\ e # 0
  BY ONLY <1>5, <1>7, <1>8, <1>9, CallersCounted DEF NoExecutor
<1>11. r \in CallerType /\ Calling(r, version, executor) /\ r.pc # "create"
  <2>. HIDE DEF c, e
  <2>. QED BY ONLY <1>1, <1>3, <1>10, HoldingCalls, Zenon
<1>. HIDE DEF r, e
<1>12. StoreTypes'
  <2>1. store' \in [used : BOOLEAN, disposed : BOOLEAN,
                    registry : [Databases -> 0..N], created : [Databases -> 0..N]]
    <3>. HIDE DEF d
    <3>. QED BY ONLY <1>1, <1>2, <1>4, <1>10 DEF StoreTypes
  <2>. QED BY ONLY <2>1, <1>1, <1>2, Zenon DEF StoreTypes
<1>13. ServerTypes' /\ Followed' /\ \A x \in Executors : Filled(executor'[x].cache)
  BY ONLY <1>1, <1>2, Zenon DEF ServerTypes, Followed
<1>14. Counted'
  <2>. SUFFICES ASSUME NEW b \in Databases
                PROVE  /\ store'.created[b] + Cardinality(Creating(b)') <= N
                       /\ store'.registry[b] = NoExecutor <=> store'.created[b] = 0
    BY Zenon DEF Counted
  <2>1. /\ store'.created[b] = IF b = d THEN e ELSE store.created[b]
        /\ store'.registry[b] = IF b = d THEN e ELSE store.registry[b]
    <3>. HIDE DEF d
    <3>. QED BY ONLY <1>1, <1>2, <1>4 DEF StoreTypes
  <2>2. /\ store.created[b] + Cardinality(Creating(b)) <= N
        /\ store.registry[b] = NoExecutor <=> store.created[b] = 0
    BY ONLY <1>1, Zenon DEF Counted
  <2>3. store.created[b] \in 0..N
    BY ONLY <1>1, Zenon DEF StoreTypes
  <2>4. /\ Creating(b) \subseteq Callers /\ caller'[p] = r
        /\ \A q \in Callers : q # p => caller'[q] = caller[q]
    BY ONLY <1>1, <1>2, Zenon DEF Creating, Becomes
  <2>5. IsFiniteSet(Creating(b)) /\ Cardinality(Creating(b)) \in Nat
    BY <2>4, CallersCounted
  <2>6. Creating(b)' \subseteq Creating(b) \ {p}
    BY ONLY <2>4, <1>11, Zenon DEF Creating
  <2>7. CASE b = d
    <3>1. /\ IsFiniteSet(Creating(b) \ {p})
          /\ Cardinality(Creating(b) \ {p}) = Cardinality(Creating(b)) - 1
      BY <2>7, <2>5, <1>6, FS_RemoveElement
    <3>2. /\ Cardinality(Creating(b)') <= Cardinality(Creating(b) \ {p})
          /\ IsFiniteSet(Creating(b)')
      BY <2>6, <3>1, FS_Subset
    <3>3. Cardinality(Creating(b)') \in Nat
      BY <3>2, FS_CardinalityType
    <3>4. e = store.created[b] + 1
      BY <2>7, Zenon DEF e
    <3>5. /\ store'.created[b] = e /\ store'.registry[b] = e
          /\ e # NoExecutor /\ e # 0 /\ e \in 0..N
      BY ONLY <2>1, <2>7, <1>10, Zenon
    <3>6. store'.created[b] + Cardinality(Creating(b)') <= N
      BY ONLY <2>2, <2>3, <2>5, <3>1, <3>2, <3>3, <3>4, <3>5, CallersCounted
    <3>. QED BY ONLY <3>5, <3>6, Zenon
  <2>8. CASE b # d
    <3>1. Creating(b)' \subseteq Creating(b)
      BY ONLY <2>6, Zenon
    <3>2. Cardinality(Creating(b)') <= Cardinality(Creating(b)) /\ IsFiniteSet(Creating(b)')
      BY <3>1, <2>5, FS_Subset
    <3>3. Cardinality(Creating(b)') \in Nat
      BY <3>2, FS_CardinalityType
    <3>. QED BY ONLY <2>1, <2>2, <2>3, <2>5, <2>8, <3>2, <3>3, CallersCounted
  <2>. QED BY <2>7, <2>8
<1>15. version' = version /\ executor' = executor /\ version \in [Databases -> 1..MaxVersion]
  BY ONLY <1>1, <1>2, Zenon DEF ServerTypes
<1>16. Grows(version, executor, version', executor')
  <2>1. \A x \in Databases : version[x] <= version[x]
    BY <1>15, StoreAssumption
  <2>. QED BY ONLY <2>1, <1>15, Zenon DEF Grows
<1>17. /\ caller' \in [Callers -> CallerType]
       /\ \A q \in Callers : Calling(caller'[q], version', executor')
  BY <1>2, <1>11, <1>15, <1>16, CallersKept
<1>. QED BY ONLY <1>12, <1>13, <1>14, <1>17, Zenon DEF IInv

(* Versions that stay have not shrunk.                                     *)
LEMMA VersionsStay ==
    ASSUME ServerTypes
    PROVE  /\ version \in [Databases -> 1..MaxVersion]
           /\ \A d \in Databases : version[d] <= version[d] /\ version[d] \in Nat
<1>1. version \in [Databases -> 1..MaxVersion]
  BY Zenon DEF ServerTypes
<1>. QED BY <1>1, StoreAssumption

(* listenToChangesAndUpdateTheCache marks the store.                       *)
LEMMA ListenKeeps ==
    ASSUME IInv, NEW p \in Callers, listenToChangesAndUpdateTheCache(p)
    PROVE  IInv'
<1>. DEFINE c == caller[p]
            t == IF \E e \in Executors : e[1] = c.target /\ listening[e] > 0
                 THEN "options" ELSE "subscribe"
            r == [c EXCEPT !.pc = "lookup", !.then = t, !.target = c.target]
<1>1. /\ c \in CallerType /\ Placed(c) /\ StoreTypes /\ ServerTypes
      /\ caller \in [Callers -> CallerType] /\ Followed
      /\ \A x \in Executors : Filled(executor[x].cache)
  BY Zenon DEF IInv, Calling
<1>2. /\ c.pc = "listen" /\ store' = [store EXCEPT !.used = TRUE]
      /\ caller' = [caller EXCEPT ![p].pc = "lookup", ![p].then = t]
      /\ UNCHANGED <<workload, version, executor, listening, pending, tracked>>
  BY Zenon DEF listenToChangesAndUpdateTheCache
<1>3. t \in Thens /\ t # "" /\ "lookup" \in {"lookup", "listen"} /\ c.target \in Databases
  BY <1>1, ThenBasics, Zenon DEF CallerType
<1>. HIDE DEF t
<1>4. Becomes(p, r)
  <2>1. [c EXCEPT !.pc = "lookup", !.then = t] = r
    BY <1>1, Zenon DEF CallerType
  <2>. QED BY <1>1, <1>2, <2>1, Zenon DEF Becomes
<1>5. c.out.kind = "none" /\ c.from = "none"
  BY ONLY <1>1, <1>2, Zenon DEF Placed
<1>6. r \in CallerType /\ Calling(r, version, executor) /\ r.pc # "create"
  <2>. HIDE DEF c
  <2>. QED BY ONLY <1>1, <1>3, <1>5, MethodBegins, Zenon
<1>. HIDE DEF r, c
<1>7. /\ store' \in [used : BOOLEAN, disposed : BOOLEAN,
                     registry : [Databases -> 0..N], created : [Databases -> 0..N]]
      /\ store'.created = store.created /\ store'.registry = store.registry
  BY ONLY <1>1, <1>2, Zenon DEF StoreTypes
<1>8. StoreTypes' /\ ServerTypes' /\ Followed'
      /\ \A x \in Executors : Filled(executor'[x].cache)
  BY ONLY <1>1, <1>2, <1>7, Zenon DEF StoreTypes, ServerTypes, Followed
<1>9. Counted'
  BY <1>4, <1>6, <1>7, CountedKept
<1>10. version' = version /\ executor' = executor
  BY ONLY <1>2, Zenon
<1>11. Grows(version, executor, version', executor')
  BY ONLY <1>1, <1>10, VersionsStay, Zenon DEF Grows
<1>12. /\ caller' \in [Callers -> CallerType]
       /\ \A q \in Callers : Calling(caller'[q], version', executor')
  BY <1>1, <1>4, <1>6, <1>10, <1>11, CallersKept, VersionsStay
<1>. QED BY ONLY <1>8, <1>9, <1>12, Zenon DEF IInv

(* newEvictItemsFromCacheBasedOnChanges adds a listener, or fails.         *)
LEMMA SubscribeKeeps ==
    ASSUME IInv, NEW p \in Callers, newEvictItemsFromCacheBasedOnChanges(p)
    PROVE  IInv'
<1>. DEFINE c == caller[p]
            f == <<c.target, c.re>>
            r == [c EXCEPT !.pc = "lookup", !.then = "options", !.target = c.target]
<1>1. /\ c \in CallerType /\ Placed(c) /\ StoreTypes /\ ServerTypes /\ Counted
      /\ caller \in [Callers -> CallerType] /\ Followed
      /\ \A x \in Executors : Filled(executor[x].cache)
  BY Zenon DEF IInv, Calling
<1>2. /\ c.pc = "subscribe"
      /\ UNCHANGED <<workload, version, store, executor, pending, tracked>>
  BY Zenon DEF newEvictItemsFromCacheBasedOnChanges
<1>3. c.out.kind = "none" /\ c.from = "none" /\ c.re # NoExecutor
  BY ONLY <1>1, <1>2, Zenon DEF Placed
<1>4. CASE /\ caller' = [caller EXCEPT ![p] = Idle(@)]
           /\ UNCHANGED listening
  <2>1. Becomes(p, Idle(c))
    BY <1>1, <1>4, Zenon DEF Becomes
  <2>. HIDE DEF c
  <2>2. /\ Idle(c) \in CallerType /\ Idle(c).pc = "idle" /\ Idle(c).from = "none"
        /\ Idle(c).out.kind = "none"
    BY ONLY <1>1, <1>3, IdleFields, Zenon
  <2>3. Calling(Idle(c), version, executor)
    BY ONLY <2>2, QuietReturned, RestingCalls
  <2>4. Idle(c).pc # "create"
    BY ONLY <2>2
  <2>5. UNCHANGED <<workload, version, store, executor, listening, pending, tracked>>
    BY ONLY <1>2, <1>4, Zenon
  <2>. QED BY <2>1, <2>2, <2>3, <2>4, <2>5, CallerMoves
<1>5. CASE /\ listening' = [listening EXCEPT ![f] = @ + 1]
           /\ caller' = [caller EXCEPT ![p].pc = "lookup", ![p].then = "options"]
  <2>1. c.target \in Databases /\ c.re \in 0..N
    BY <1>1, Zenon DEF CallerType
  <2>2. f \in Executors
    BY ONLY <2>1, <1>3, ExecutorTypes DEF NoExecutor
  <2>3. Becomes(p, r)
    <3>1. [c EXCEPT !.pc = "lookup", !.then = "options"] = r
      BY <1>1, Zenon DEF CallerType
    <3>. QED BY <1>1, <1>5, <3>1, Zenon DEF Becomes
  <2>. HIDE DEF c, f
  <2>4. "options" \in Thens /\ "options" # "" /\ "lookup" \in {"lookup", "listen"}
    BY ThenBasics, Zenon
  <2>5. r \in CallerType /\ Calling(r, version, executor) /\ r.pc # "create"
    BY ONLY <1>1, <1>3, <2>1, <2>4, MethodBegins, Zenon
  <2>. HIDE DEF r
  <2>6. /\ listening' \in [Executors -> Nat]
        /\ \A e \in Executors : listening[e] > 0 => listening'[e] > 0
    BY ONLY <1>1, <1>5, <2>2 DEF ServerTypes
  <2>7. ServerTypes' /\ StoreTypes'
    BY ONLY <1>1, <1>2, <2>6, Zenon DEF ServerTypes, StoreTypes
  <2>8. Followed' /\ \A x \in Executors : Filled(executor'[x].cache)
    BY ONLY <1>1, <1>2, <2>6, Zenon DEF Followed
  <2>9. version' = version /\ executor' = executor /\ store' = store
    BY ONLY <1>2, Zenon
  <2>10. Counted'
    BY <2>3, <2>5, <2>9, CountedKept
  <2>11. Grows(version, executor, version', executor')
    BY ONLY <1>1, <2>9, VersionsStay, Zenon DEF Grows
  <2>12. /\ caller' \in [Callers -> CallerType]
         /\ \A q \in Callers : Calling(caller'[q], version', executor')
    BY <1>1, <2>3, <2>5, <2>9, <2>11, CallersKept, VersionsStay
  <2>. QED BY ONLY <2>7, <2>8, <2>10, <2>12, Zenon DEF IInv
<1>. QED BY <1>4, <1>5, Zenon DEF newEvictItemsFromCacheBasedOnChanges

(* The options of an executor are exchanged: its cache stays.              *)
LEMMA OptionsExchanged ==
    ASSUME IInv, NEW p \in Callers, NEW r \in CallerType, Becomes(p, r),
           r.pc # "create", Calling(r, version', executor'),
           NEW e \in Executors, NEW b \in BOOLEAN,
           executor' = [executor EXCEPT ![e].aggressive = b],
           UNCHANGED <<workload, version, store, listening, pending, tracked>>
    PROVE  IInv'
<1>1. /\ StoreTypes /\ ServerTypes /\ Followed
      /\ \A x \in Executors : Filled(executor[x].cache)
  BY Zenon DEF IInv
<1>2. executor \in [Executors -> [cache : Caches, aggressive : BOOLEAN]]
  BY <1>1, Zenon DEF StoreTypes
<1>3. /\ executor' \in [Executors -> [cache : Caches, aggressive : BOOLEAN]]
      /\ \A x \in Executors : executor'[x].cache = executor[x].cache
  BY <1>2
<1>4. /\ version' = version /\ store' = store /\ workload' = workload
      /\ listening' = listening /\ pending' = pending /\ tracked' = tracked
  OBVIOUS
<1>5. StoreTypes' /\ ServerTypes'
  BY ONLY <1>1, <1>3, <1>4, Zenon DEF StoreTypes, ServerTypes
<1>6. \A x \in Executors : Filled(executor'[x].cache)
  BY ONLY <1>1, <1>3, Zenon
<1>7. Followed'
  BY ONLY <1>1, <1>3, <1>4, Zenon DEF Followed
<1>8. Counted'
  BY <1>4, CountedKept
<1>9. Grows(version, executor, version', executor')
  BY ONLY <1>1, <1>3, <1>4, VersionsStay, Zenon DEF Grows
<1>10. /\ caller' \in [Callers -> CallerType]
       /\ \A q \in Callers : Calling(caller'[q], version', executor')
  BY <1>1, <1>4, <1>9, CallersKept, VersionsStay
<1>. QED BY ONLY <1>5, <1>6, <1>7, <1>8, <1>10, Zenon DEF IInv

(* AggressivelyCacheForDatabase and DisableAggressiveCaching exchange the   *)
(* options of the executor they were given.                                 *)
LEMMA ExchangeOptionsKeeps ==
    ASSUME IInv, NEW p \in Callers, ExchangeOptions(p)
    PROVE  IInv'
<1>. DEFINE c == caller[p]
            e == <<c.target, c.re>>
            s == Append(c.saved, <<e, executor[e].aggressive>>)
            b == [c EXCEPT !.saved = s]
            on == c.pc = "options"
<1>1. /\ c \in CallerType /\ Placed(c) /\ StoreTypes /\ ServerTypes
      /\ caller \in [Callers -> CallerType]
  BY Zenon DEF IInv, Calling
<1>2. /\ c.pc \in {"options", "disable"}
      /\ executor' = [executor EXCEPT ![e].aggressive = on]
      /\ Becomes(p, Idle(b))
      /\ UNCHANGED <<workload, version, store, listening, pending, tracked>>
  <2>1. /\ c.pc \in {"options", "disable"}
        /\ executor' = [executor EXCEPT ![e].aggressive = on]
        /\ UNCHANGED <<workload, version, store, listening, pending, tracked>>
    BY Zenon DEF ExchangeOptions
  <2>2. caller' = [caller EXCEPT ![p] = Idle(b)]
    BY DEF ExchangeOptions
  <2>. QED BY <2>1, <2>2, Zenon DEF Becomes
<1>3. c.out.kind = "none" /\ c.from = "none" /\ c.re # NoExecutor
  BY ONLY <1>1, <1>2, Zenon DEF Placed
<1>4. c.target \in Databases /\ c.re \in 0..N /\ c.saved \in Seq(Executors \X BOOLEAN)
  BY <1>1, Zenon DEF CallerType
<1>5. e \in Executors
  BY ONLY <1>3, <1>4, ExecutorTypes DEF NoExecutor
<1>6. executor[e].aggressive \in BOOLEAN
  BY ONLY <1>1, <1>5, Zenon DEF StoreTypes
<1>7. s \in Seq(Executors \X BOOLEAN)
  <2>. HIDE DEF e, c
  <2>1. <<e, executor[e].aggressive>> \in Executors \X BOOLEAN
    BY ONLY <1>5, <1>6
  <2>. QED BY ONLY <2>1, <1>4
<1>. HIDE DEF s, e
<1>8. b \in CallerType /\ b.out.kind = "none" /\ b.from = "none"
  BY <1>1, <1>3, <1>7, Zenon DEF CallerType
<1>. HIDE DEF b
<1>9. /\ Idle(b) \in CallerType /\ Idle(b).pc = "idle" /\ Idle(b).out.kind = "none"
      /\ Idle(b).from = "none"
  BY ONLY <1>8, IdleFields, Zenon
<1>10. Calling(Idle(b), version', executor')
  BY ONLY <1>9, QuietReturned, RestingCalls
<1>11. on \in BOOLEAN /\ Idle(b).pc # "create"
  BY <1>9
<1>. HIDE DEF on
<1>. QED BY <1>2, <1>5, <1>9, <1>10, <1>11, OptionsExchanged

(* A restorer puts the options back that it remembers.                     *)
LEMMA RestoreKeeps ==
    ASSUME IInv, NEW p \in Callers, Restore(p)
    PROVE  IInv'
<1>. DEFINE c == caller[p]
<1>1. /\ c \in CallerType /\ Calling(c, version, executor)
      /\ caller \in [Callers -> CallerType] /\ c.pc = "idle"
  BY Zenon DEF IInv, Restore
<1>2. c.saved \in Seq(Executors \X BOOLEAN)
  BY <1>1, Zenon DEF CallerType
<1>3. PICK i \in DOMAIN c.saved :
         /\ executor' = [executor EXCEPT ![c.saved[i][1]].aggressive = c.saved[i][2]]
         /\ caller' = [caller EXCEPT ![p].saved =
               SubSeq(@, 1, i - 1) \o SubSeq(@, i + 1, Len(@))]
  BY Zenon DEF Restore
<1>. DEFINE s == SubSeq(c.saved, 1, i - 1) \o SubSeq(c.saved, i + 1, Len(c.saved))
            r == [c EXCEPT !.saved = s]
            e == c.saved[i][1]
            b == c.saved[i][2]
<1>4. UNCHANGED <<workload, version, store, listening, pending, tracked>>
  BY Zenon DEF Restore
<1>5. e \in Executors /\ b \in BOOLEAN
  <2>. HIDE DEF c
  <2>1. c.saved[i] \in Executors \X BOOLEAN
    BY ONLY <1>2, <1>3
  <2>. QED BY ONLY <2>1
<1>6. s \in Seq(Executors \X BOOLEAN)
  <2>1. ASSUME NEW S, NEW t \in Seq(S), NEW k \in DOMAIN t
        PROVE  SubSeq(t, 1, k - 1) \o SubSeq(t, k + 1, Len(t)) \in Seq(S)
    BY ONLY <2>1
  <2>. HIDE DEF c
  <2>. QED BY ONLY <2>1, <1>2, <1>3, Zenon
<1>7. Becomes(p, r)
  BY <1>1, <1>3, Zenon DEF Becomes
<1>. HIDE DEF s
<1>8. /\ r \in CallerType /\ r.pc = "idle" /\ r.out = c.out /\ r.from = c.from
      /\ r.command = c.command /\ r.arg = c.arg /\ r.start = c.start
      /\ r.aggressive = c.aggressive
  BY <1>1, <1>6, Zenon DEF CallerType
<1>9. executor' = [executor EXCEPT ![e].aggressive = b]
  BY <1>3, Zenon
<1>. HIDE DEF r, c, e, b
<1>10. Returned(r)
  <2>1. Returned(c)
    BY ONLY <1>1, Zenon DEF Calling
  <2>. QED BY ONLY <2>1, <1>8, Zenon DEF Returned
<1>11. Calling(r, version', executor') /\ r.pc # "create"
  BY ONLY <1>8, <1>10, RestingCalls
<1>. QED BY <1>4, <1>5, <1>7, <1>8, <1>9, <1>11, OptionsExchanged

-----------------------------------------------------------------------------
(* The execution of a command.                                             *)

(* A call that ends returns the outcome; a caller that uses the result of a *)
(* command without testing it panics instead of returning nothing.          *)
LEMMA FinishedFields ==
    ASSUME NEW c \in CallerType, NEW out \in Outcomes,
           NEW from \in {"none", "cache", "server"}
    PROVE  LET r == Finished(c, out, from)
           IN  /\ r \in CallerType /\ r.pc = "idle" /\ r.from = from
               /\ r.command = c.command /\ r.arg = c.arg /\ r.start = c.start
               /\ r.aggressive = c.aggressive
               /\ r.out.kind = "result" => r.out = out
<1>. DEFINE o == IF c.command.deref /\ out.kind = "nil"
                 THEN Outcome("panic", NoPayload) ELSE out
            b == [c EXCEPT !.from = from, !.out = o]
            r == Idle(b)
<1>1. Outcome("panic", NoPayload) \in Outcomes /\ Outcome("panic", NoPayload).kind = "panic"
  BY OutcomeFields, KindsAre, PayloadTypes
<1>2. o \in Outcomes
  BY ONLY <1>1, Zenon
<1>3. o.kind = "result" => o = out
  BY ONLY <1>1
<1>. HIDE DEF o
<1>4. /\ b \in CallerType /\ b.from = from /\ b.out = o /\ b.command = c.command
      /\ b.arg = c.arg /\ b.start = c.start /\ b.aggressive = c.aggressive
  BY <1>2, Zenon DEF CallerType
<1>. HIDE DEF b
<1>5. /\ r \in CallerType /\ r.pc = "idle" /\ r.out = b.out /\ r.from = b.from
      /\ r.command = b.command /\ r.arg = b.arg /\ r.start = b.start
      /\ r.aggressive = b.aggressive
  BY ONLY <1>4, IdleFields, Zenon
<1>6. r = Finished(c, out, from)
  BY Zenon DEF Finished, r, b, o
<1>. HIDE DEF r
<1>7. r.out.kind = "result" => r.out = out
  BY ONLY <1>3, <1>4, <1>5, Zenon
<1>8. /\ r \in CallerType /\ r.pc = "idle" /\ r.from = from
      /\ r.command = c.command /\ r.arg = c.arg /\ r.start = c.start
      /\ r.aggressive = c.aggressive
  BY ONLY <1>4, <1>5, Zenon
<1>. QED BY ONLY <1>6, <1>7, <1>8, Zenon

(* A call that ends without a result and without asking the cache.         *)
LEMMA FailedCalls ==
    ASSUME NEW c \in CallerType, NEW k \in {"error", "panic"}, NEW v, NEW x
    PROVE  LET r == Finished(c, Outcome(k, NoPayload), "none")
           IN  r \in CallerType /\ Calling(r, v, x) /\ r.pc # "create"
<1>. DEFINE o == Outcome(k, NoPayload)
            r == Finished(c, o, "none")
<1>1. k \in Kinds /\ k # "result"
  BY DEF Kinds
<1>2. o \in Outcomes /\ o.kind # "result"
  BY ONLY <1>1, OutcomeFields, PayloadTypes
<1>3. "none" \in {"none", "cache", "server"} /\ "none" # "cache"
  OBVIOUS
<1>. HIDE DEF o
<1>4. /\ r \in CallerType /\ r.pc = "idle" /\ r.from = "none"
      /\ r.out.kind = "result" => r.out = o
  BY ONLY <1>2, <1>3, FinishedFields, Zenon
<1>. HIDE DEF r
<1>5. Returned(r)
  BY ONLY <1>2, <1>3, <1>4, Zenon DEF Returned
<1>6. Calling(r, v, x) /\ r.pc # "create"
  BY ONLY <1>4, <1>5, RestingCalls
<1>. QED BY ONLY <1>4, <1>6, Zenon DEF r, o

(* Execute up to the sending: the cache answers under aggressive caching,   *)
(* or the request carries the change vector of what was found.              *)
LEMMA ExecuteCalls ==
    ASSUME StoreTypes, \A e \in Executors : Filled(executor[e].cache),
           NEW c \in CallerType, c.ex # NoExecutor, c.out.kind = "none",
           c.from = "none", c.start <= version[c.db], NEW node \in Nodes
    PROVE  LET r == Execute(c, node)
           IN  r \in CallerType /\ Calling(r, version, executor) /\ r.pc # "create"
<1>. DEFINE x == executor[<<c.db, c.ex>>]
            url == UrlOf(node, c.command, c.arg)
            raw == multiGetUrl(node, c.arg)
            uses == isCacheable(c.command) \/ c.command.type = "raw"
            found == IF x.cache.open THEN getFromCache(x.cache, c.command, url)
                     ELSE NoItem
            item == IF c.command.type = "raw" THEN get(x.cache, raw) ELSE found
            sent == [c EXCEPT !.pc = "sent", !.node = node, !.tried = c.tried \cup {node},
                              !.aggressive = x.aggressive, !.answer = NoAnswer,
                              !.item = item]
            served == Finished([c EXCEPT !.aggressive = x.aggressive],
                          Outcome(SetResponse(c.command, found.payload), found.payload),
                          "cache")
<1>1. /\ c.db \in Databases /\ c.ex \in 0..N /\ c.command \in Catalogue
      /\ c.arg \in AllArgs /\ c.tried \in SUBSET Nodes
  BY Zenon DEF CallerType
<1>2. <<c.db, c.ex>> \in Executors
  BY ONLY <1>1, c.ex # NoExecutor, ExecutorTypes DEF NoExecutor
<1>3. /\ x.cache \in Caches /\ x.aggressive \in BOOLEAN /\ Filled(x.cache)
  BY <1>2, Zenon DEF StoreTypes
<1>4. Execute(c, node) =
         IF uses /\ ~x.cache.open
         THEN Finished(c, Outcome("panic", NoPayload), "none")
         ELSE IF servedFromCache(x.cache, x.aggressive, c.command, found)
         THEN served ELSE sent
  BY Zenon DEF Execute
<1>5. url \in Keys /\ raw \in Keys
  BY ONLY <1>1, KeyTypes, Zenon
<1>. HIDE DEF x, url, raw
<1>6. /\ found \in Items
      /\ found # NoItem => /\ isCacheable(c.command) /\ Fits(url, found)
  <2>1. /\ get(x.cache, url) \in Items
        /\ get(x.cache, url) # NoItem => Fits(url, get(x.cache, url))
    BY ONLY <1>3, GetEffect, Zenon DEF Filled
  <2>. QED BY ONLY <2>1, ItemTypes, Zenon DEF getFromCache
<1>. HIDE DEF found
<1>7. CASE uses /\ ~x.cache.open
  <2>1. Execute(c, node) = Finished(c, Outcome("panic", NoPayload), "none")
    BY ONLY <1>4, <1>7, Zenon
  <2>2. "panic" \in {"error", "panic"}
    OBVIOUS
  <2>. QED BY <2>1, <2>2, FailedCalls, Zenon
<1>8. CASE /\ ~(uses /\ ~x.cache.open)
           /\ servedFromCache(x.cache, x.aggressive, c.command, found)
  <2>. DEFINE k == SetResponse(c.command, found.payload)
              o == Outcome(k, found.payload)
              b == [c EXCEPT !.aggressive = x.aggressive]
  <2>1. Execute(c, node) = served
    BY ONLY <1>4, <1>8, Zenon
  <2>2. found.cv # NoVector /\ x.aggressive = TRUE
    BY ONLY <1>3, <1>8, Zenon DEF servedFromCache
  <2>3. found # NoItem
    <3>1. NoItem.cv = NoVector
      BY ONLY Zenon DEF NoItem
    <3>. QED BY ONLY <2>2, <3>1, Zenon
  <2>4. found.payload \in Payloads
    BY ONLY <1>6, ItemTypes, Zenon
  <2>5. /\ k \in Kinds
        /\ k = "result" => found.payload # NoPayload /\ c.command.body = "result"
    BY ONLY <1>1, ResponseKinds
  <2>. HIDE DEF k
  <2>6. /\ o \in Outcomes /\ o.kind = k /\ (k = "result" => o.payload = found.payload)
    BY ONLY <2>4, <2>5, OutcomeFields
  <2>7. /\ b \in CallerType /\ b.command = c.command /\ b.arg = c.arg
        /\ b.aggressive = TRUE
    BY <1>3, <2>2, ZenonT(30) DEF CallerType
  <2>8. "cache" \in {"none", "cache", "server"}
    OBVIOUS
  <2>. HIDE DEF o, b
  <2>9. LET r == Finished(b, o, "cache")
        IN  /\ r \in CallerType /\ r.pc = "idle" /\ r.from = "cache"
            /\ r.command = b.command /\ r.arg = b.arg /\ r.aggressive = b.aggressive
            /\ r.out.kind = "result" => r.out = o
    <3>1. o \in Outcomes /\ b \in CallerType
      BY ONLY <2>6, <2>7, Zenon
    <3>. QED BY ONLY <3>1, <2>8, FinishedFields
  <2>. DEFINE r == Finished(b, o, "cache")
  <2>10. /\ r \in CallerType /\ r.pc = "idle" /\ r.command = c.command /\ r.arg = c.arg
         /\ r.aggressive = TRUE /\ (r.out.kind = "result" => r.out = o)
    BY ONLY <2>7, <2>9, Zenon
  <2>. HIDE DEF r
  <2>11. o.kind = "result" =>
            \/ o.payload.name = c.command.name /\ o.payload.arg = c.arg
            \/ c.command.name \in KnownToShare
    <3>. SUFFICES ASSUME o.kind = "result"
                  PROVE  \/ o.payload.name = c.command.name /\ o.payload.arg = c.arg
                         \/ c.command.name \in KnownToShare
      OBVIOUS
    <3>1. found.payload # NoPayload /\ c.command.body = "result" /\ o.payload = found.payload
      BY <2>5, <2>6, Zenon
    <3>2. isCacheable(c.command) /\ Fits(UrlOf(node, c.command, c.arg), found)
      BY <1>6, <2>3, Zenon DEF url
    <3>3. \/ found.payload.name = c.command.name /\ found.payload.arg = c.arg
          \/ c.command.name \in KnownToShare
      BY <1>1, <1>6, <3>1, <3>2, CachedAnswerIsOwn
    <3>. QED BY ONLY <3>1, <3>3, Zenon
  <2>12. c.command.write => c.command.name \in KnownToShare
    BY ONLY <1>1, <1>6, <2>3, CatalogueRegular, Zenon DEF Regular, Plain
  <2>13. Returned(r)
    BY ONLY <2>10, <2>11, <2>12, Zenon DEF Returned
  <2>14. Calling(r, version, executor) /\ r.pc # "create"
    BY ONLY <2>10, <2>13, RestingCalls
  <2>15. r = Execute(c, node)
    BY <2>1, Zenon DEF r, o, k, b
  <2>. QED BY ONLY <2>10, <2>14, <2>15, Zenon
<1>9. CASE /\ ~(uses /\ ~x.cache.open)
           /\ ~servedFromCache(x.cache, x.aggressive, c.command, found)
  <2>1. Execute(c, node) = sent
    BY ONLY <1>4, <1>9, Zenon
  <2>2. get(x.cache, raw) \in Items /\ (get(x.cache, raw) # NoItem =>
              raw \in DOMAIN x.cache.items /\ Fits(raw, get(x.cache, raw)))
    BY ONLY <1>3, GetEffect, Zenon DEF Filled
  <2>3. item \in Items
    BY ONLY <2>2, <1>6, Zenon
  <2>4. item # NoItem => IF c.command.type = "raw"
                         THEN Fits(raw, item) /\ raw \in DOMAIN x.cache.items
                         ELSE isCacheable(c.command) /\ Fits(url, item)
    BY ONLY <2>2, <1>6, Zenon
  <2>. HIDE DEF item
  <2>5. c.tried \cup {node} \in SUBSET Nodes
    BY <1>1, Zenon
  <2>6. /\ sent \in CallerType /\ sent.pc = "sent" /\ sent.node = node
        /\ sent.item = item /\ sent.db = c.db /\ sent.ex = c.ex
        /\ sent.command = c.command /\ sent.arg = c.arg /\ sent.start = c.start
        /\ sent.out = c.out /\ sent.from = c.from
    BY <1>3, <2>3, <2>5, CallerBasics, Zenon DEF CallerType
  <2>. HIDE DEF sent
  <2>7. /\ sent.out.kind = "none" /\ sent.from = "none" /\ sent.ex # NoExecutor
        /\ sent.start <= version[sent.db]
    BY <2>6, Zenon
  <2>8. Offered(sent, executor[<<sent.db, sent.ex>>].cache)
    BY ONLY <2>4, <2>6, Zenon DEF Offered, x, url, raw
  <2>9. Asked(sent, version, executor)
    BY ONLY <2>7, <2>8, Zenon DEF Asked
  <2>10. Placed(sent) /\ Answered(sent) /\ sent.pc # "create"
    BY ONLY <2>6, <2>7, Zenon DEF Placed, Answered
  <2>11. Calling(sent, version, executor)
    BY ONLY <2>7, <2>9, <2>10, QuietReturned, Zenon DEF Calling
  <2>. QED BY ONLY <2>1, <2>6, <2>10, <2>11, Zenon
<1>. QED BY <1>7, <1>8, <1>9, Zenon

(* What a caller may execute is a command of the catalogue.                *)
LEMMA ChoicesAre ==
    ASSUME NEW c, NEW x \in Choices(c)
    PROVE  x[1] \in Catalogue /\ x[2] \in AllArgs
<1>1. CASE x \in Catalogue \X Args
  <2>1. x[1] \in Catalogue /\ x[2] \in Args
    BY ONLY <1>1
  <2>. QED BY ONLY <2>1, Zenon DEF AllArgs
<1>2. CASE x \in {GetDocuments, PutDocument, MultiGet} \X {1}
  <2>1. x[1] \in {GetDocuments, PutDocument, MultiGet} /\ x[2] = 1
    BY ONLY <1>2
  <2>2. 1 \in Args
    BY DEF Args
  <2>. QED BY ONLY <2>1, <2>2, MultiGetFields, Zenon DEF AllArgs
<1>3. x \in Catalogue \X Args \/ x \in {GetDocuments, PutDocument, MultiGet} \X {1}
  BY Zenon DEF Choices
<1>. QED BY ONLY <1>1, <1>2, <1>3

(* The session's executor is asked, from the first node or any.            *)
LEMMA ExecuteCommandKeeps ==
    ASSUME IInv, NEW p \in Callers, ExecuteCommand(p)
    PROVE  IInv'
<1>1. /\ caller[p] \in CallerType /\ StoreTypes /\ ServerTypes
      /\ \A e \in Executors : Filled(executor[e].cache)
  BY Zenon DEF IInv
<1>2. /\ caller[p].ex # NoExecutor
      /\ UNCHANGED <<workload, version, store, executor, listening, pending, tracked>>
  BY Zenon DEF ExecuteCommand
<1>3. PICK x \in Choices(caller[p]), n \in ChosenNodes :
         caller' = [caller EXCEPT ![p] =
              Execute([Begin(p) EXCEPT !.command = x[1], !.arg = x[2],
                                       !.start = version[caller[p].db]], n)]
  BY Zenon DEF ExecuteCommand
<1>. DEFINE b == Begin(p)
            k == x[1]
            a == x[2]
            t == version[caller[p].db]
            c == [b EXCEPT !.command = k, !.arg = a, !.start = t]
<1>4. n \in Nodes
  BY <1>3, StoreAssumption, Zenon DEF ChosenNodes
<1>5. k \in Catalogue /\ a \in AllArgs
  BY ChoicesAre
<1>6. /\ b \in CallerType /\ b.out.kind = "none" /\ b.from = "none"
      /\ b.db = caller[p].db /\ b.ex = caller[p].ex
  BY ONLY <1>1, BeginFields, Zenon
<1>7. b.db \in Databases
  BY ONLY <1>6, Zenon DEF CallerType
<1>8. t \in Nat /\ t <= version[b.db]
  BY ONLY <1>1, <1>6, <1>7, VersionsStay, Zenon
<1>9. Becomes(p, Execute(c, n))
  BY <1>3, Zenon DEF Becomes
<1>. HIDE DEF b, k, a, t
<1>10. /\ c \in CallerType /\ c.out = b.out /\ c.from = b.from /\ c.start = t
       /\ c.db = b.db /\ c.ex = b.ex
  BY ONLY <1>5, <1>6, <1>8, Zenon DEF CallerType
<1>. HIDE DEF c
<1>11. /\ c.out.kind = "none" /\ c.from = "none" /\ c.ex # NoExecutor
       /\ c.start <= version[c.db]
  BY ONLY <1>2, <1>6, <1>8, <1>10, Zenon
<1>12. LET r == Execute(c, n)
       IN  r \in CallerType /\ Calling(r, version, executor) /\ r.pc # "create"
  BY ONLY <1>1, <1>4, <1>10, <1>11, ExecuteCalls
<1>. DEFINE r == Execute(c, n)
<1>13. r \in CallerType /\ Calling(r, version, executor) /\ r.pc # "create" /\ Becomes(p, r)
  BY ONLY <1>9, <1>12, Zenon
<1>. HIDE DEF r
<1>. QED BY <1>2, <1>13, CallerMoves

(* A constructor that refuses its argument ends the call.                  *)
LEMMA RejectCommandKeeps ==
    ASSUME IInv, NEW p \in Callers, RejectCommand(p)
    PROVE  IInv'
<1>1. caller[p] \in CallerType
  BY Zenon DEF IInv
<1>2. /\ caller[p].pc = "idle"
      /\ UNCHANGED <<workload, version, store, executor, listening, pending, tracked>>
  BY Zenon DEF RejectCommand, Calls
<1>3. PICK k \in Catalogue :
         /\ k.bad # "accepted"
         /\ caller' = [caller EXCEPT ![p] =
                [Begin(p) EXCEPT !.command = k, !.from = "none", !.arg = 1,
                                 !.out = Outcome(k.bad, NoPayload)]]
  BY Zenon DEF RejectCommand
<1>. DEFINE b == Begin(p)
            o == Outcome(k.bad, NoPayload)
            r == [b EXCEPT !.command = k, !.from = "none", !.arg = 1, !.out = o]
<1>4. k.bad \in Kinds /\ k.bad # "result"
  BY ONLY <1>3, CatalogueRegular DEF Regular, Plain, Kinds
<1>5. o \in Outcomes /\ o.kind # "result"
  BY ONLY <1>4, OutcomeFields, PayloadTypes
<1>6. b \in CallerType /\ b.pc = "idle"
  BY ONLY <1>1, <1>2, BeginFields, Zenon
<1>7. 1 \in AllArgs /\ "none" # "cache"
  BY DEF AllArgs, Args
<1>8. Becomes(p, r)
  BY <1>3, Zenon DEF Becomes
<1>. HIDE DEF o, b
<1>9. r \in CallerType /\ r.pc = "idle" /\ r.from = "none" /\ r.out = o
  BY ONLY <1>3, <1>5, <1>6, <1>7, Zenon DEF CallerType
<1>. HIDE DEF r
<1>10. Returned(r)
  BY ONLY <1>5, <1>7, <1>9, Zenon DEF Returned
<1>11. Calling(r, version, executor) /\ r.pc # "create"
  BY ONLY <1>9, <1>10, RestingCalls
<1>. QED BY <1>2, <1>8, <1>9, <1>11, CallerMoves

(* handleServerDown asks another node from the start, or gives up.         *)
LEMMA handleServerDownKeeps ==
    ASSUME IInv, NEW p \in Callers, handleServerDown(p)
    PROVE  IInv'
<1>. DEFINE c == caller[p]
<1>1. /\ c \in CallerType /\ StoreTypes /\ ServerTypes /\ Calling(c, version, executor)
      /\ \A e \in Executors : Filled(executor[e].cache)
  BY Zenon DEF IInv
<1>2. /\ c.pc \in {"sent", "answered"}
      /\ Becomes(p, IF Nodes \subseteq c.tried
                    THEN Finished(c, Outcome("error", NoPayload), "none")
                    ELSE Execute(c, CHOOSE n \in Nodes \ c.tried : TRUE))
      /\ UNCHANGED <<workload, version, store, executor, listening, pending, tracked>>
  BY Zenon DEF handleServerDown, Becomes
<1>3. /\ c.out.kind = "none" /\ c.from = "none" /\ c.ex # NoExecutor
      /\ c.start <= version[c.db]
  BY ONLY <1>1, <1>2, Zenon DEF Calling, Placed, Asked
<1>4. CASE Nodes \subseteq c.tried
  <2>. DEFINE r == Finished(c, Outcome("error", NoPayload), "none")
  <2>1. Becomes(p, r)
    BY ONLY <1>2, <1>4, Zenon
  <2>2. "error" \in {"error", "panic"}
    OBVIOUS
  <2>. HIDE DEF c
  <2>3. r \in CallerType /\ Calling(r, version, executor) /\ r.pc # "create"
    BY ONLY <1>1, <2>2, FailedCalls, Zenon
  <2>. HIDE DEF r
  <2>. QED BY <1>2, <2>1, <2>3, CallerMoves
<1>5. CASE ~(Nodes \subseteq c.tried)
  <2>. DEFINE n == CHOOSE n \in Nodes \ c.tried : TRUE
              r == Execute(c, n)
  <2>1. n \in Nodes
    BY ONLY <1>5, Zenon
  <2>2. Becomes(p, r)
    BY ONLY <1>2, <1>5, Zenon
  <2>. HIDE DEF n, c
  <2>3. r \in CallerType /\ Calling(r, version, executor) /\ r.pc # "create"
    BY ONLY <1>1, <1>3, <2>1, ExecuteCalls
  <2>. HIDE DEF r
  <2>. QED BY <1>2, <2>2, <2>3, CallerMoves
<1>. QED BY <1>4, <1>5

-----------------------------------------------------------------------------
(* The server.                                                             *)

(* A new version of a database: its listeners have a change to hear.       *)
LEMMA ChangedFollowed ==
    ASSUME ServerTypes, StoreTypes, Followed, NEW d \in Databases, Changed(d),
           UNCHANGED <<workload, executor, listening, tracked>>
    PROVE  /\ ServerTypes' /\ Followed'
           /\ \A b \in Databases : version[b] <= version'[b]
<1>1. /\ workload' = workload /\ executor' = executor /\ listening' = listening
      /\ tracked' = tracked
  OBVIOUS
<1>2. /\ version \in [Databases -> 1..MaxVersion] /\ listening \in [Executors -> Nat]
      /\ pending \in [Executors -> Nat] /\ workload \in Workloads
  BY Zenon DEF ServerTypes
<1>3. /\ version[d] < MaxVersion /\ version' = [version EXCEPT ![d] = @ + 1]
      /\ pending' = [e \in Executors |->
                        IF e[1] = d THEN pending[e] + listening[e] ELSE pending[e]]
  BY Zenon DEF Changed
<1>4. /\ version' \in [Databases -> 1..MaxVersion]
      /\ \A b \in Databases : version[b] <= version'[b]
      /\ \A b \in Databases : b # d => version'[b] = version[b]
  BY ONLY <1>2, <1>3, StoreAssumption
<1>5. /\ pending' \in [Executors -> Nat]
      /\ \A e \in Executors : /\ e[1] = d /\ listening[e] > 0 => pending'[e] # 0
                              /\ e[1] # d => pending'[e] = pending[e]
  BY ONLY <1>2, <1>3
<1>6. ServerTypes'
  BY ONLY <1>1, <1>2, <1>4, <1>5, Zenon DEF ServerTypes
<1>7. Followed'
  <2>. SUFFICES ASSUME NEW e \in Executors, NEW u \in tracked[e]
                PROVE  LET c == executor[e].cache
                       IN  /\ listening[e] > 0 /\ u \in DOMAIN c.items
                           /\ c.items[u].cv > 0 /\ c.items[u].gen = c.gen /\ pending'[e] = 0
                              => c.items[u].payload.version = version'[e[1]]
    BY <1>1, Zenon DEF Followed
  <2>. DEFINE c == executor[e].cache
  <2>1. /\ listening[e] > 0 /\ u \in DOMAIN c.items
        /\ c.items[u].cv > 0 /\ c.items[u].gen = c.gen /\ pending[e] = 0
           => c.items[u].payload.version = version[e[1]]
    BY Zenon DEF Followed
  <2>2. e[1] \in Databases
    BY ExecutorTypes, Zenon
  <2>. HIDE DEF c
  <2>3. CASE e[1] = d
    BY <1>5, <2>1, <2>3, Zenon DEF c
  <2>4. CASE e[1] # d
    BY <1>4, <1>5, <2>1, <2>2, <2>4, Zenon DEF c
  <2>. QED BY <2>3, <2>4, Zenon
<1>. QED BY ONLY <1>4, <1>6, <1>7, Zenon

(* Callers that do not move stay where they are.                           *)
LEMMA CallersStay ==
    ASSUME IInv, caller' = caller, store' = store, ServerTypes',
           Grows(version, executor, version', executor')
    PROVE  /\ caller' \in [Callers -> CallerType] /\ Counted'
           /\ \A q \in Callers : Calling(caller'[q], version', executor')
<1>1. /\ caller \in [Callers -> CallerType] /\ ServerTypes /\ Counted
      /\ \A q \in Callers : Calling(caller[q], version, executor)
  BY Zenon DEF IInv
<1>2. version \in [Databases -> Nat] /\ version' \in [Databases -> Nat]
  <2>1. 1..MaxVersion \subseteq Nat
    BY StoreAssumption
  <2>2. version \in [Databases -> 1..MaxVersion] /\ version' \in [Databases -> 1..MaxVersion]
    BY <1>1, Zenon DEF ServerTypes
  <2>. QED BY ONLY <2>1, <2>2
<1>3. ASSUME NEW q \in Callers
      PROVE  Calling(caller'[q], version', executor')
  <2>. DEFINE c == caller[q]
  <2>1. c \in CallerType /\ Calling(c, version, executor) /\ caller'[q] = c
    BY <1>1, Zenon
  <2>. HIDE DEF c
  <2>2. Calling(c, version', executor')
    BY ONLY <2>1, <1>2, Grows(version, executor, version', executor'), CallingStays
  <2>. QED BY <2>1, <2>2
<1>4. Counted'
  BY <1>1, Zenon DEF Counted, Creating
<1>. QED BY <1>1, <1>3, <1>4, Zenon

(* Another client writes.                                                  *)
LEMMA WriteElsewhereKeeps ==
    ASSUME IInv, NEW d \in Databases, WriteElsewhere(d)
    PROVE  IInv'
<1>1. /\ StoreTypes /\ ServerTypes /\ Followed
      /\ \A e \in Executors : Filled(executor[e].cache)
  BY Zenon DEF IInv
<1>2. /\ Changed(d) /\ workload' = workload /\ store' = store /\ executor' = executor
      /\ listening' = listening /\ caller' = caller /\ tracked' = tracked
  BY Zenon DEF WriteElsewhere
<1>3. ServerTypes' /\ Followed' /\ \A b \in Databases : version[b] <= version'[b]
  BY <1>1, <1>2, ChangedFollowed
<1>4. StoreTypes' /\ \A e \in Executors : Filled(executor'[e].cache)
  BY ONLY <1>1, <1>2, Zenon DEF StoreTypes
<1>5. Grows(version, executor, version', executor')
  BY ONLY <1>2, <1>3, Zenon DEF Grows
<1>6. /\ caller' \in [Callers -> CallerType] /\ Counted'
      /\ \A q \in Callers : Calling(caller'[q], version', executor')
  BY <1>2, <1>3, <1>5, CallersStay
<1>. QED BY ONLY <1>3, <1>4, <1>6, Zenon DEF IInv

(* The statuses an answer can have: "not modified" is said of the current   *)
(* version, to a command that changes nothing.                              *)
LEMMA StatusesAre ==
    ASSUME NEW c, NEW s \in Statuses(c)
    PROVE  /\ s \in {"ok", "empty", "notfound", "error", "notmodified", "submodified"}
           /\ s \in {"notmodified", "submodified"} =>
                 c.item.cv = version[c.db] /\ ~c.command.write
           /\ s = "submodified" => c.command.type = "raw"
<1>1. \/ s \in {"ok", "empty", "notfound", "error"}
      \/ /\ c.item.cv = version[c.db] /\ ~c.command.write
         /\ s = IF c.command.type = "raw" THEN "submodified" ELSE "notmodified"
  BY Zenon DEF Statuses
<1>2. CASE s \in {"ok", "empty", "notfound", "error"}
  BY ONLY <1>2
<1>3. CASE /\ c.item.cv = version[c.db] /\ ~c.command.write
           /\ s = IF c.command.type = "raw" THEN "submodified" ELSE "notmodified"
  <2>1. CASE c.command.type = "raw"
    BY ONLY <1>3, <2>1
  <2>2. CASE c.command.type # "raw"
    BY ONLY <1>3, <2>2
  <2>. QED BY ONLY <2>1, <2>2
<1>. QED BY ONLY <1>1, <1>2, <1>3

(* The server answers.                                                     *)
LEMMA AnswerCommandKeeps ==
    ASSUME IInv, NEW p \in Callers, AnswerCommand(p)
    PROVE  IInv'
<1>. DEFINE c == caller[p]
<1>1. /\ c \in CallerType /\ StoreTypes /\ ServerTypes /\ Calling(c, version, executor)
      /\ \A e \in Executors : Filled(executor[e].cache)
      /\ Followed /\ caller \in [Callers -> CallerType]
  BY Zenon DEF IInv
<1>2. /\ c.pc = "sent" /\ workload' = workload /\ store' = store
      /\ executor' = executor /\ listening' = listening /\ tracked' = tracked
  BY Zenon DEF AnswerCommand
<1>3. PICK s \in Statuses(c), t \in (IF Does("commands") THEN BOOLEAN ELSE {TRUE}) :
         /\ IF c.command.write /\ s \in {"ok", "empty"} THEN Changed(c.db)
            ELSE UNCHANGED <<version, pending>>
         /\ caller' = [caller EXCEPT
                ![p].pc = "answered",
                ![p].answer = [status |-> s, tagged |-> t,
                               payload |-> [name |-> c.command.name,
                                            arg |-> c.arg,
                                            version |-> version'[c.db]]]]
  BY Zenon DEF AnswerCommand
<1>. DEFINE w == version'[c.db]
            y == [name |-> c.command.name, arg |-> c.arg, version |-> w]
            a == [status |-> s, tagged |-> t, payload |-> y]
            r == [c EXCEPT !.pc = "answered", !.answer = a]
<1>4. /\ c.db \in Databases /\ c.command \in Catalogue /\ c.arg \in AllArgs
      /\ c.start \in Nat
  BY ONLY <1>1, Zenon DEF CallerType
<1>5. t \in BOOLEAN
  BY ONLY <1>3, Zenon
<1>6. /\ s \in {"ok", "empty", "notfound", "error", "notmodified", "submodified"}
      /\ s \in {"notmodified", "submodified"} =>
            c.item.cv = version[c.db] /\ ~c.command.write
      /\ s = "submodified" => c.command.type = "raw"
  BY ONLY <1>3, StatusesAre
<1>7. Becomes(p, r)
  BY <1>1, <1>3, Zenon DEF Becomes
<1>8. /\ ServerTypes' /\ Followed' /\ \A b \in Databases : version[b] <= version'[b]
      /\ s \in {"notmodified", "submodified"} => version' = version
  <2>1. CASE c.command.write /\ s \in {"ok", "empty"}
    <3>1. Changed(c.db)
      BY ONLY <1>3, <2>1, Zenon
    <3>2. ServerTypes' /\ Followed' /\ \A b \in Databases : version[b] <= version'[b]
      <4>. HIDE DEF c
      <4>. QED BY <1>1, <1>2, <1>4, <3>1, ChangedFollowed
    <3>. QED BY ONLY <3>2, <2>1, <1>6, Zenon
  <2>2. CASE ~(c.command.write /\ s \in {"ok", "empty"})
    <3>1. version' = version /\ pending' = pending
      BY ONLY <1>3, <2>2, Zenon
    <3>2. ServerTypes' /\ Followed'
      BY ONLY <1>1, <1>2, <3>1, Zenon DEF ServerTypes, Followed
    <3>. QED BY ONLY <3>1, <3>2, <1>1, VersionsStay, Zenon
  <2>. QED BY ONLY <2>1, <2>2
<1>9. version' \in [Databases -> 1..MaxVersion]
  BY ONLY <1>8, Zenon DEF ServerTypes
<1>10. w \in Nat /\ w > 0 /\ version[c.db] <= w /\ version[c.db] \in Nat
  <2>. HIDE DEF c
  <2>. QED BY ONLY <1>1, <1>4, <1>8, <1>9, StoreAssumption, VersionsStay
<1>. HIDE DEF w
<1>11. y \in Payloads /\ y.name = c.command.name /\ y.arg = c.arg /\ y.version = w
  BY ONLY <1>4, <1>10, PayloadTypes, Zenon
<1>. HIDE DEF y
<1>12. a \in Replies /\ a.status = s /\ a.payload = y
  BY ONLY <1>5, <1>6, <1>11, Zenon DEF Replies
<1>. HIDE DEF a
<1>13. /\ r \in CallerType /\ r.pc = "answered" /\ r.answer = a
       /\ r.item = c.item /\ r.db = c.db /\ r.ex = c.ex /\ r.node = c.node
       /\ r.command = c.command /\ r.arg = c.arg /\ r.start = c.start
       /\ r.out = c.out /\ r.from = c.from
  BY ONLY <1>1, <1>12, Zenon DEF CallerType
<1>14. /\ c.out.kind = "none" /\ c.from = "none" /\ c.ex # NoExecutor
       /\ c.start <= version[c.db] /\ Offered(c, executor[<<c.db, c.ex>>].cache)
  BY ONLY <1>1, <1>2, Zenon DEF Calling, Placed, Asked
<1>. HIDE DEF r
<1>15. r.start <= version'[r.db]
  BY ONLY <1>4, <1>10, <1>13, <1>14, SMTT(30) DEF w
<1>. HIDE DEF c
<1>16. Offered(r, executor'[<<r.db, r.ex>>].cache)
  BY ONLY <1>2, <1>13, <1>14, Zenon DEF Offered
<1>17. Asked(r, version', executor')
  BY ONLY <1>13, <1>14, <1>15, <1>16, Zenon DEF Asked
<1>18. Answered(r)
  <2>1. a.payload.name = r.command.name /\ a.payload.arg = r.arg /\ a.payload.version = w
    BY ONLY <1>11, <1>12, <1>13, Zenon
  <2>2. r.start <= a.payload.version /\ a.payload.version > 0
    BY ONLY <2>1, <1>10, <1>13, <1>15 DEF w
  <2>3. a.status \in {"notmodified", "submodified"} => r.item.cv = a.payload.version
    BY ONLY <2>1, <1>6, <1>8, <1>12, <1>13, Zenon DEF w
  <2>4. a.status = "submodified" => r.command.type = "raw"
    BY ONLY <1>6, <1>12, <1>13, Zenon
  <2>. QED BY ONLY <2>1, <2>2, <2>3, <2>4, <1>13, Zenon DEF Answered
<1>19. Placed(r) /\ r.pc # "create" /\ r.out.kind = "none" /\ r.from = "none"
  BY ONLY <1>13, <1>14, Zenon DEF Placed
<1>20. Calling(r, version', executor')
  BY ONLY <1>17, <1>18, <1>19, QuietReturned, Zenon DEF Calling
<1>21. Grows(version, executor, version', executor')
  BY ONLY <1>2, <1>8, Zenon DEF Grows
<1>22. /\ caller' \in [Callers -> CallerType]
       /\ \A q \in Callers : Calling(caller'[q], version', executor')
  BY <1>7, <1>9, <1>13, <1>20, <1>21, CallersKept
<1>23. Counted'
  BY <1>2, <1>7, <1>19, CountedKept
<1>24. StoreTypes' /\ \A e \in Executors : Filled(executor'[e].cache)
  BY ONLY <1>1, <1>2, Zenon DEF StoreTypes
<1>. QED BY ONLY <1>8, <1>22, <1>23, <1>24, Zenon DEF IInv

-----------------------------------------------------------------------------
(* Steps that change the caches.                                           *)

(* The cache of one executor is replaced.                                  *)
LEMMA CacheReplaced ==
    ASSUME StoreTypes, NEW e \in Executors, NEW d \in Caches,
           executor' = [executor EXCEPT ![e].cache = d]
    PROVE  /\ executor' \in [Executors -> [cache : Caches, aggressive : BOOLEAN]]
           /\ executor'[e].cache = d
           /\ \A x \in Executors : x # e => executor'[x].cache = executor[x].cache
<1>1. executor \in [Executors -> [cache : Caches, aggressive : BOOLEAN]]
  BY Zenon DEF StoreTypes
<1>. QED BY ONLY <1>1, executor' = [executor EXCEPT ![e].cache = d]

(* A change notification: what is cached is no longer of the generation.   *)
LEMMA NotifyChangeKeeps ==
    ASSUME IInv, NEW e \in Executors, NotifyChange(e)
    PROVE  IInv'
<1>. DEFINE c == executor[e].cache
            d == incGeneration(c)
<1>1. /\ StoreTypes /\ ServerTypes /\ Followed
      /\ \A x \in Executors : Filled(executor[x].cache)
  BY Zenon DEF IInv
<1>2. /\ pending[e] > 0 /\ pending' = [pending EXCEPT ![e] = @ - 1]
      /\ workload' = workload /\ store' = store /\ version' = version
      /\ listening' = listening /\ caller' = caller /\ tracked' = tracked
      /\ executor' = [executor EXCEPT ![e].cache = d]
  BY Zenon DEF NotifyChange
<1>3. c \in Caches /\ Filled(c)
  BY <1>1, Zenon DEF StoreTypes
<1>. HIDE DEF c
<1>4. d \in Caches /\ d.items = c.items /\ d.open = c.open /\ d.gen = c.gen + 1
  BY ONLY <1>3, GenerationEffect
<1>5. c.gen \in Nat /\ c.items \in Contents
  BY ONLY <1>3, CacheTypes, Zenon
<1>. HIDE DEF d
<1>6. \A u \in DOMAIN c.items : c.items[u].gen \in Nat
  BY ONLY <1>5, ContentsAre, ItemTypes, Zenon
<1>7. /\ \A u \in DOMAIN c.items : c.items[u].gen <= c.gen
      /\ ~c.open => DOMAIN c.items = {}
      /\ \A u \in DOMAIN c.items : Fits(u, c.items[u])
  BY ONLY <1>3, Zenon DEF Filled
<1>8. \A u \in DOMAIN c.items : c.items[u].gen <= d.gen /\ c.items[u].gen # d.gen
  BY ONLY <1>4, <1>5, <1>6, <1>7
<1>9. Filled(d)
  BY ONLY <1>4, <1>7, <1>8, Zenon DEF Filled
<1>10. /\ executor' \in [Executors -> [cache : Caches, aggressive : BOOLEAN]]
       /\ executor'[e].cache = d
       /\ \A x \in Executors : x # e => executor'[x].cache = executor[x].cache
  BY ONLY <1>1, <1>2, <1>4, CacheReplaced
<1>11. \A x \in Executors : Filled(executor'[x].cache)
  BY ONLY <1>1, <1>9, <1>10, Zenon
<1>12. /\ pending' \in [Executors -> Nat]
       /\ \A x \in Executors : x # e => pending'[x] = pending[x]
  BY ONLY <1>1, <1>2 DEF ServerTypes
<1>13. ServerTypes' /\ StoreTypes'
  BY ONLY <1>1, <1>2, <1>10, <1>12, Zenon DEF ServerTypes, StoreTypes
<1>14. Followed'
  <2>. SUFFICES ASSUME NEW x \in Executors, NEW u \in tracked[x]
                PROVE  LET b == executor'[x].cache
                       IN  /\ listening[x] > 0 /\ u \in DOMAIN b.items
                           /\ b.items[u].cv > 0 /\ b.items[u].gen = b.gen /\ pending'[x] = 0
                              => b.items[u].payload.version = version[x[1]]
    BY <1>2, Zenon DEF Followed
  <2>1. /\ listening[x] > 0 /\ u \in DOMAIN executor[x].cache.items
        /\ /\ executor[x].cache.items[u].cv > 0 /\ pending[x] = 0
           /\ executor[x].cache.items[u].gen = executor[x].cache.gen
           => executor[x].cache.items[u].payload.version = version[x[1]]
    BY <1>1, Zenon DEF Followed
  <2>2. CASE x = e
    BY ONLY <2>1, <2>2, <1>4, <1>8, <1>10, Zenon DEF c
  <2>3. CASE x # e
    BY ONLY <2>1, <2>3, <1>10, <1>12, Zenon
  <2>. QED BY <2>2, <2>3, Zenon
<1>15. Grows(version, executor, version', executor')
  BY ONLY <1>1, <1>2, <1>4, <1>10, VersionsStay, Zenon DEF Grows, c
<1>16. /\ caller' \in [Callers -> CallerType] /\ Counted'
       /\ \A q \in Callers : Calling(caller'[q], version', executor')
  BY <1>2, <1>13, <1>15, CallersStay
<1>. QED BY ONLY <1>11, <1>13, <1>14, <1>16, Zenon DEF IInv

(* An item expires: nothing else of it changes.                            *)
LEMMA ExpireEffect ==
    ASSUME NEW c \in Caches, NEW u \in DOMAIN c.items, Filled(c)
    PROVE  LET d == [c EXCEPT !.items[u].expired = TRUE]
           IN  /\ d \in Caches /\ Filled(d) /\ d.open = c.open /\ d.gen = c.gen
               /\ DOMAIN d.items = DOMAIN c.items
               /\ \A w \in DOMAIN c.items :
                     /\ d.items[w].cv = c.items[w].cv
                     /\ d.items[w].payload = c.items[w].payload
                     /\ d.items[w].gen = c.items[w].gen
<1>. DEFINE f == c.items
            j == [f[u] EXCEPT !.expired = TRUE]
            g == [f EXCEPT ![u] = j]
            d == [c EXCEPT !.items = g]
<1>1. f \in Contents /\ c.gen \in Nat /\ c.open \in BOOLEAN
  BY ONLY CacheTypes, Zenon
<1>2. DOMAIN f \in SUBSET Keys /\ f \in [DOMAIN f -> Items] /\ f[u] \in Items
  BY ONLY <1>1, ContentsAre, u \in DOMAIN c.items, Zenon
<1>3. j \in Items /\ j.cv = f[u].cv /\ j.payload = f[u].payload /\ j.gen = f[u].gen
  <2>1. ASSUME NEW i \in Items
        PROVE  LET k == [i EXCEPT !.expired = TRUE]
               IN  k \in Items /\ k.cv = i.cv /\ k.payload = i.payload /\ k.gen = i.gen
    BY ONLY <2>1, ItemExpiry, TRUE \in BOOLEAN
  <2>. QED BY ONLY <2>1, <1>2, Zenon
<1>4. d = [c EXCEPT !.items[u].expired = TRUE]
  OBVIOUS
<1>. HIDE DEF j, f
<1>5. /\ g \in [DOMAIN f -> Items] /\ DOMAIN g = DOMAIN f
      /\ \A w \in DOMAIN f : /\ g[w].cv = f[w].cv /\ g[w].payload = f[w].payload
                             /\ g[w].gen = f[w].gen
  BY ONLY <1>2, <1>3, Zenon
<1>6. g \in Contents
  BY ONLY <1>2, <1>5, ContentsAre, Zenon
<1>. HIDE DEF g
<1>7. d \in Caches /\ d.items = g /\ d.gen = c.gen /\ d.open = c.open
  BY ONLY <1>6 DEF Caches
<1>. HIDE DEF d
<1>8. Filled(d)
  <2>1. /\ \A w \in DOMAIN f : Fits(w, f[w]) /\ f[w].gen <= c.gen
        /\ ~c.open => DOMAIN f = {}
    BY Zenon DEF Filled, f
  <2>2. \A w \in DOMAIN f : Fits(w, g[w]) /\ g[w].gen <= c.gen
    <3>. SUFFICES ASSUME NEW w \in DOMAIN f
                  PROVE  Fits(w, g[w]) /\ g[w].gen <= c.gen
      OBVIOUS
    <3>1. /\ g[w].cv = f[w].cv /\ g[w].payload = f[w].payload /\ g[w].gen = f[w].gen
      BY ONLY <1>5, Zenon
    <3>2. Fits(w, f[w]) /\ f[w].gen <= c.gen
      BY ONLY <2>1, Zenon
    <3>3. g[w].gen <= c.gen
      BY ONLY <3>1, <3>2, Zenon
    <3>4. Fits(w, g[w])
      <4>. HIDE DEF f
      <4>. QED BY ONLY <3>1, <3>2, Zenon DEF Fits
    <3>. QED BY ONLY <3>3, <3>4
  <2>. QED BY ONLY <2>1, <2>2, <1>5, <1>7, Zenon DEF Filled
<1>. QED BY ONLY <1>4, <1>5, <1>7, <1>8, Zenon DEF f

(* The duration of aggressive caching passes.                              *)
LEMMA ExpireKeeps ==
    ASSUME IInv, Expire
    PROVE  IInv'
<1>1. /\ StoreTypes /\ ServerTypes /\ Followed
      /\ \A x \in Executors : Filled(executor[x].cache)
  BY Zenon DEF IInv
<1>2. /\ workload' = workload /\ store' = store /\ version' = version
      /\ listening' = listening /\ caller' = caller /\ tracked' = tracked
      /\ pending' = pending
  BY Zenon DEF Expire
<1>3. PICK e \in Executors : \E u \in DOMAIN executor[e].cache.items :
         executor' = [executor EXCEPT ![e].cache.items[u].expired = TRUE]
  BY Zenon DEF Expire
<1>expired. PICK u \in DOMAIN executor[e].cache.items :
         executor' = [executor EXCEPT ![e].cache.items[u].expired = TRUE]
  BY <1>3
<1>. DEFINE c == executor[e].cache
            d == [c EXCEPT !.items[u].expired = TRUE]
<1>4. executor' = [executor EXCEPT ![e].cache = d]
  BY <1>expired
<1>5. c \in Caches /\ Filled(c) /\ u \in DOMAIN c.items
  BY <1>1, <1>expired, Zenon DEF StoreTypes
<1>. HIDE DEF c
<1>6. /\ d \in Caches /\ Filled(d) /\ d.open = c.open /\ d.gen = c.gen
      /\ DOMAIN d.items = DOMAIN c.items
      /\ \A w \in DOMAIN c.items :
            /\ d.items[w].cv = c.items[w].cv
            /\ d.items[w].payload = c.items[w].payload
            /\ d.items[w].gen = c.items[w].gen
  BY ONLY <1>5, ExpireEffect
<1>. HIDE DEF d
<1>7. /\ executor' \in [Executors -> [cache : Caches, aggressive : BOOLEAN]]
      /\ executor'[e].cache = d
      /\ \A x \in Executors : x # e => executor'[x].cache = executor[x].cache
  BY ONLY <1>1, <1>4, <1>6, CacheReplaced
<1>8. \A x \in Executors : Filled(executor'[x].cache)
  BY ONLY <1>1, <1>6, <1>7, Zenon
<1>9. ServerTypes' /\ StoreTypes'
  BY ONLY <1>1, <1>2, <1>7, Zenon DEF ServerTypes, StoreTypes
<1>10. Followed'
  <2>. SUFFICES ASSUME NEW x \in Executors, NEW w \in tracked[x]
                PROVE  LET b == executor'[x].cache
                       IN  /\ listening[x] > 0 /\ w \in DOMAIN b.items
                           /\ b.items[w].cv > 0 /\ b.items[w].gen = b.gen /\ pending[x] = 0
                              => b.items[w].payload.version = version[x[1]]
    BY <1>2, Zenon DEF Followed
  <2>1. /\ listening[x] > 0 /\ w \in DOMAIN executor[x].cache.items
        /\ /\ executor[x].cache.items[w].cv > 0 /\ pending[x] = 0
           /\ executor[x].cache.items[w].gen = executor[x].cache.gen
           => executor[x].cache.items[w].payload.version = version[x[1]]
    BY <1>1, Zenon DEF Followed
  <2>2. CASE x = e
    BY ONLY <2>1, <2>2, <1>6, <1>7, Zenon DEF c
  <2>3. CASE x # e
    BY ONLY <2>1, <2>3, <1>7, Zenon
  <2>. QED BY <2>2, <2>3, Zenon
<1>11. Grows(version, executor, version', executor')
  BY ONLY <1>1, <1>2, <1>6, <1>7, VersionsStay, Zenon DEF Grows, c
<1>12. /\ caller' \in [Callers -> CallerType] /\ Counted'
       /\ \A q \in Callers : Calling(caller'[q], version', executor')
  BY <1>2, <1>9, <1>11, CallersStay
<1>. QED BY ONLY <1>8, <1>9, <1>10, <1>12, Zenon DEF IInv

(* Close: the listeners go, and with them what they followed.              *)
LEMMA CloseListenersKeeps ==
    ASSUME IInv, NEW p \in Callers, CloseListeners(p)
    PROVE  IInv'
<1>. DEFINE b == Begin(p)
            s == [b EXCEPT !.pc = "closing"]
            r == IF store.disposed THEN b ELSE s
<1>1. /\ caller[p] \in CallerType /\ StoreTypes /\ ServerTypes /\ Followed
      /\ \A e \in Executors : Filled(executor[e].cache)
  BY Zenon DEF IInv
<1>2. /\ caller[p].pc = "idle" /\ Becomes(p, r)
      /\ workload' = workload /\ version' = version /\ store' = store
      /\ executor' = executor
  BY Zenon DEF CloseListeners, Calls, Becomes
<1>3. /\ listening' = IF store.disposed THEN listening ELSE [e \in Executors |-> 0]
      /\ pending' = IF store.disposed THEN pending ELSE [e \in Executors |-> 0]
      /\ tracked' = IF store.disposed THEN tracked ELSE [e \in Executors |-> {}]
  BY Zenon DEF CloseListeners
<1>4. /\ b \in CallerType /\ b.pc = "idle" /\ b.out.kind = "none" /\ b.from = "none"
  BY ONLY <1>1, <1>2, BeginFields, Zenon
<1>. HIDE DEF b
<1>5. s \in CallerType /\ s.pc = "closing" /\ s.out.kind = "none" /\ s.from = "none"
  BY ONLY <1>4, Zenon DEF CallerType
<1>. HIDE DEF s
<1>6. b.pc # "create" /\ Calling(b, version', executor')
  BY ONLY <1>4, QuietReturned, RestingCalls
<1>7. s.pc # "create" /\ Calling(s, version', executor')
  <2>1. Placed(s) /\ Asked(s, version', executor') /\ Answered(s) /\ s.pc # "create"
    BY ONLY <1>5, Zenon DEF Placed, Asked, Answered
  <2>. QED BY ONLY <2>1, <1>5, QuietReturned, Zenon DEF Calling
<1>8. r \in CallerType /\ Calling(r, version', executor') /\ r.pc # "create"
  BY ONLY <1>4, <1>5, <1>6, <1>7, Zenon
<1>. HIDE DEF r
<1>9. listening' \in [Executors -> Nat] /\ pending' \in [Executors -> Nat]
  <2>1. [e \in Executors |-> 0] \in [Executors -> Nat]
    OBVIOUS
  <2>. QED BY ONLY <2>1, <1>1, <1>3, Zenon DEF ServerTypes
<1>10. tracked' \in [Executors -> SUBSET Keys]
  <2>1. [e \in Executors |-> {}] \in [Executors -> SUBSET Keys]
    OBVIOUS
  <2>. QED BY ONLY <2>1, <1>1, <1>3, Zenon DEF StoreTypes
<1>11. ServerTypes' /\ StoreTypes' /\ \A e \in Executors : Filled(executor'[e].cache)
  BY ONLY <1>1, <1>2, <1>9, <1>10, Zenon DEF ServerTypes, StoreTypes
<1>12. Followed'
  <2>1. CASE store.disposed
    BY ONLY <2>1, <1>1, <1>2, <1>3, Zenon DEF Followed
  <2>2. CASE ~store.disposed
    <3>1. \A e \in Executors : tracked'[e] = {}
      BY ONLY <2>2, <1>3, Zenon
    <3>. QED BY ONLY <3>1, Zenon DEF Followed
  <2>. QED BY ONLY <2>1, <2>2
<1>13. Counted'
  BY <1>2, <1>8, CountedKept
<1>14. Grows(version, executor, version', executor')
  BY ONLY <1>1, <1>2, VersionsStay, Zenon DEF Grows
<1>15. /\ caller' \in [Callers -> CallerType]
       /\ \A q \in Callers : Calling(caller'[q], version', executor')
  BY <1>1, <1>2, <1>8, <1>14, CallersKept, VersionsStay
<1>. QED BY ONLY <1>11, <1>12, <1>13, <1>15, Zenon DEF IInv

(* The registered executors close their caches.                            *)
LEMMA CloseExecutorsKeeps ==
    ASSUME IInv, NEW p \in Callers, CloseExecutors(p)
    PROVE  IInv'
<1>. DEFINE c == caller[p]
            r == Idle(c)
            R(e) == store.registry[e[1]] = e[2]
<1>1. /\ c \in CallerType /\ StoreTypes /\ ServerTypes /\ Followed /\ Placed(c)
      /\ \A e \in Executors : Filled(executor[e].cache)
      /\ caller \in [Callers -> CallerType]
  BY Zenon DEF IInv, Calling
<1>2. /\ c.pc = "closing" /\ Becomes(p, r)
      /\ store' = [store EXCEPT !.disposed = TRUE]
      /\ workload' = workload /\ version' = version
      /\ listening' = listening /\ pending' = pending
  BY <1>1, Zenon DEF CloseExecutors, Becomes
<1>3. /\ executor' = [e \in Executors |->
                         IF R(e) THEN [executor[e] EXCEPT !.cache = close(@)]
                         ELSE executor[e]]
      /\ tracked' = [e \in Executors |-> IF R(e) THEN {} ELSE tracked[e]]
  BY Zenon DEF CloseExecutors
<1>4. c.out.kind = "none" /\ c.from = "none"
  BY ONLY <1>1, <1>2, Zenon DEF Placed
<1>. HIDE DEF c, R
<1>5. r \in CallerType /\ r.pc = "idle" /\ r.out.kind = "none" /\ r.from = "none"
  BY ONLY <1>1, <1>4, IdleFields, Zenon
<1>. HIDE DEF r
<1>6. Calling(r, version', executor') /\ r.pc # "create"
  BY ONLY <1>5, QuietReturned, RestingCalls
<1>7. ASSUME NEW e \in Executors
      PROVE  /\ executor'[e] \in [cache : Caches, aggressive : BOOLEAN]
             /\ Filled(executor'[e].cache)
             /\ executor'[e].cache.open => executor'[e] = executor[e]
             /\ tracked'[e] # {} => executor'[e] = executor[e] /\ tracked'[e] = tracked[e]
             /\ tracked'[e] \in SUBSET Keys
  <2>1. /\ executor[e] \in [cache : Caches, aggressive : BOOLEAN]
        /\ Filled(executor[e].cache) /\ tracked[e] \in SUBSET Keys
    BY ONLY <1>1, Zenon DEF StoreTypes
  <2>2. CASE R(e)
    <3>. DEFINE x == [executor[e] EXCEPT !.cache = close(executor[e].cache)]
    <3>1. executor'[e] = x /\ tracked'[e] = {}
      BY ONLY <2>2, <1>3, Zenon
    <3>2. /\ close(executor[e].cache) \in Caches /\ Filled(close(executor[e].cache))
          /\ ~close(executor[e].cache).open
      BY ONLY <2>1, CloseEffect
    <3>3. x \in [cache : Caches, aggressive : BOOLEAN] /\ x.cache = close(executor[e].cache)
      BY ONLY <2>1, <3>2, Zenon
    <3>. HIDE DEF x
    <3>. QED BY ONLY <3>1, <3>2, <3>3, Zenon
  <2>3. CASE ~R(e)
    <3>1. executor'[e] = executor[e] /\ tracked'[e] = tracked[e]
      BY ONLY <2>3, <1>3, Zenon
    <3>. QED BY ONLY <3>1, <2>1, Zenon
  <2>. QED BY ONLY <2>2, <2>3
<1>8. /\ executor' \in [Executors -> [cache : Caches, aggressive : BOOLEAN]]
      /\ tracked' \in [Executors -> SUBSET Keys]
  <2>1. /\ executor' = [e \in Executors |-> executor'[e]]
        /\ tracked' = [e \in Executors |-> tracked'[e]]
    BY ONLY <1>3, Zenon
  <2>. QED BY ONLY <2>1, <1>7, Zenon
<1>9. /\ store' \in [used : BOOLEAN, disposed : BOOLEAN,
                     registry : [Databases -> 0..N], created : [Databases -> 0..N]]
      /\ store'.created = store.created /\ store'.registry = store.registry
  BY ONLY <1>1, <1>2, Zenon DEF StoreTypes
<1>10. ServerTypes' /\ StoreTypes' /\ \A e \in Executors : Filled(executor'[e].cache)
  BY ONLY <1>1, <1>2, <1>7, <1>8, <1>9, Zenon DEF ServerTypes, StoreTypes
<1>11. Followed'
  <2>. SUFFICES ASSUME NEW e \in Executors, NEW u \in tracked'[e]
                PROVE  LET b == executor'[e].cache
                       IN  /\ listening'[e] > 0 /\ u \in DOMAIN b.items
                           /\ b.items[u].cv > 0 /\ b.items[u].gen = b.gen /\ pending'[e] = 0
                              => b.items[u].payload.version = version'[e[1]]
    BY Zenon DEF Followed
  <2>1. executor'[e] = executor[e] /\ u \in tracked[e]
    BY <1>7, Zenon
  <2>. QED BY ONLY <2>1, <1>1, <1>2, Zenon DEF Followed
<1>12. Counted'
  BY <1>2, <1>6, <1>9, CountedKept
<1>13. Grows(version, executor, version', executor')
  BY ONLY <1>1, <1>2, <1>7, VersionsStay, Zenon DEF Grows
<1>14. /\ caller' \in [Callers -> CallerType]
       /\ \A q \in Callers : Calling(caller'[q], version', executor')
  BY <1>1, <1>2, <1>5, <1>6, <1>13, CallersKept, VersionsStay
<1>. QED BY ONLY <1>10, <1>11, <1>12, <1>14, Zenon DEF IInv

(* An answer arrives: the cache stays in order, and an item that is new in  *)
(* it shows the version of the answer.                                      *)
LEMMA ReceivedCache ==
    ASSUME NEW old \in Caches, Filled(old), NEW command \in Catalogue,
           NEW node \in Nodes, NEW arg \in AllArgs, NEW item \in Items,
           NEW answer \in Replies,
           answer.payload.name = command.name, answer.payload.arg = arg,
           answer.status = "notmodified" => item.cv = answer.payload.version
    PROVE  LET d == Received(old, command, UrlOf(node, command, arg),
                             multiGetUrl(node, arg), item, answer).cache
           IN  /\ d \in Caches /\ Filled(d) /\ d.open = old.open /\ d.gen = old.gen
               /\ DOMAIN old.items \subseteq DOMAIN d.items
               /\ \A w : get(d, w) # get(old, w) =>
                     /\ w \in DOMAIN d.items
                     /\ d.items[w].cv > 0 =>
                           d.items[w].payload.version = answer.payload.version
<1>. DEFINE url == UrlOf(node, command, arg)
            raw == multiGetUrl(node, arg)
            q == Received(old, command, url, raw, item, answer)
            d == q.cache
<1>1. \/ d = old
      \/ old.open /\ \E u \in {url, raw}, i \in Items :
            d = put(old, u, i) /\ Enters(old, command, url, raw, item, answer, u, i)
  <2>1. Processed(old, command, url, raw, item, answer, q)
    BY ReceivedEffect
  <2>. HIDE DEF q, url, raw
  <2>. QED BY ONLY <2>1, Zenon DEF Processed
<1>2. url \in Keys /\ raw \in Keys
  BY ONLY KeyTypes, Zenon
<1>. HIDE DEF d, q
<1>3. CASE d = old
  <2>1. /\ d \in Caches /\ Filled(d) /\ d.open = old.open /\ d.gen = old.gen
        /\ DOMAIN old.items \subseteq DOMAIN d.items
        /\ \A w : get(d, w) = get(old, w)
    BY <1>3, Zenon
  <2>. QED BY ONLY <2>1, Zenon DEF d, q
<1>4. ASSUME old.open, NEW u \in {url, raw}, NEW i \in Items, d = put(old, u, i),
             Enters(old, command, url, raw, item, answer, u, i)
      PROVE  /\ d \in Caches /\ Filled(d) /\ d.open = old.open /\ d.gen = old.gen
             /\ DOMAIN old.items \subseteq DOMAIN d.items
             /\ \A w : get(d, w) # get(old, w) =>
                   /\ w \in DOMAIN d.items
                   /\ d.items[w].cv > 0 =>
                         d.items[w].payload.version = answer.payload.version
  <2>1. u \in Keys
    BY <1>2, <1>4, Zenon
  <2>2. Fits(u, i) /\ i.gen <= old.gen
    BY <1>4, EnteredFits
  <2>. HIDE DEF url, raw
  <2>3. Filled(d)
    BY <2>1, <2>2, <1>4, PutFills
  <2>4. /\ d \in Caches /\ d.gen = old.gen /\ d.open = old.open
        /\ DOMAIN d.items = DOMAIN old.items \cup {u} /\ d.items[u] = i
        /\ \A w \in DOMAIN old.items : w # u => d.items[w] = old.items[w]
    BY ONLY <2>1, d = put(old, u, i), i \in Items, PutEffect
  <2>5. i.cv > 0 => i.payload.version = answer.payload.version
    <3>1. CASE i = [cv |-> answer.payload.version, payload |-> answer.payload,
                    gen |-> old.gen, expired |-> FALSE]
      BY ONLY <3>1
    <3>2. CASE i = [cv |-> NotFoundVector, payload |-> NoPayload, gen |-> old.gen,
                    expired |-> FALSE]
      <4>1. i.cv = NotFoundVector
        BY ONLY <3>2, Zenon
      <4>. QED BY ONLY <4>1 DEF NotFoundVector
    <3>3. CASE i = [item EXCEPT !.expired = FALSE] /\ answer.status = "notmodified"
      <4>1. i.cv = item.cv
        BY ONLY <3>3, ItemExpiry
      <4>2. i.cv = answer.payload.version
        BY <4>1, <3>3
      <4>. QED BY ONLY <4>2, <2>2, Zenon DEF Fits
    <3>. QED BY ONLY <3>1, <3>2, <3>3, <1>4, Zenon DEF Enters
  <2>6. ASSUME NEW w, get(d, w) # get(old, w)
        PROVE  w = u
    BY ONLY <2>4, <2>6, Zenon DEF get
  <2>. QED BY ONLY <2>3, <2>4, <2>5, <2>6, Zenon
<1>5. CASE old.open /\ \E u \in {url, raw}, i \in Items :
            d = put(old, u, i) /\ Enters(old, command, url, raw, item, answer, u, i)
  <2>1. /\ d \in Caches /\ Filled(d) /\ d.open = old.open /\ d.gen = old.gen
        /\ DOMAIN old.items \subseteq DOMAIN d.items
        /\ \A w : get(d, w) # get(old, w) =>
              /\ w \in DOMAIN d.items
              /\ d.items[w].cv > 0 =>
                    d.items[w].payload.version = answer.payload.version
    BY ONLY <1>4, <1>5
  <2>. QED BY ONLY <2>1, Zenon DEF d, q
<1>. QED BY ONLY <1>1, <1>3, <1>5, Zenon

(* What a call returns when its answer has arrived: the answer, the item    *)
(* whose change vector it sent, or what a multi-get finds in the cache.     *)
LEMMA ReceivedReturned ==
    ASSUME NEW c \in CallerType, c.pc = "answered", NEW old \in Caches,
           Filled(old), Offered(c, old), Answered(c), NEW v, NEW x
    PROVE  LET q == Received(old, c.command, UrlOf(c.node, c.command, c.arg),
                             multiGetUrl(c.node, c.arg), c.item, c.answer)
               r == Finished(c, q.out, "server")
           IN  r \in CallerType /\ Calling(r, v, x) /\ r.pc # "create"
<1>. DEFINE url == UrlOf(c.node, c.command, c.arg)
            raw == multiGetUrl(c.node, c.arg)
            q == Received(old, c.command, url, raw, c.item, c.answer)
            r == Finished(c, q.out, "server")
            a == c.answer
            y == q.out.payload
<1>1. /\ c.command \in Catalogue /\ c.arg \in AllArgs /\ c.node \in Nodes
      /\ c.item \in Items /\ a \in Replies /\ c.start \in Nat
  BY Zenon DEF CallerType
<1>2. Processed(old, c.command, url, raw, c.item, a, q)
  BY ONLY <1>1, Filled(old), ReceivedEffect
<1>3. /\ a.payload.name = c.command.name /\ a.payload.arg = c.arg
      /\ c.start <= a.payload.version /\ a.payload.version > 0
      /\ a.status \in {"notmodified", "submodified"} =>
            c.item.cv = a.payload.version
      /\ a.status = "submodified" => c.command.type = "raw"
  BY Zenon DEF Answered
<1>4. /\ raw[2] = "GET-docs" /\ raw[3] = c.arg
  BY ONLY <1>1, KeyTypes, Zenon
<1>5. c.command.type = "raw" => c.command = MultiGet
  BY ONLY <1>1, CatalogueRegular, Zenon DEF Regular, Plain
<1>. HIDE DEF q, url, raw
<1>6. q.out \in Outcomes
  BY ONLY <1>2, Zenon DEF Processed
<1>7. ASSUME q.out.kind = "result"
      PROVE  /\ ~c.aggressive /\ c.command # MultiGet => y.version >= c.start
             /\ \/ y.name = c.command.name /\ y.arg = c.arg
                \/ c.command.name \in KnownToShare
  <2>1. Yields(old, c.command, raw, c.item, a, y)
    BY ONLY <1>2, <1>7, Zenon DEF Processed
  <2>. HIDE DEF y
  <2>2. CASE y = a.payload
    BY ONLY <2>2, <1>1, <1>3, PayloadTypes DEF Replies
  <2>3. CASE /\ a.status = "notmodified" /\ y = c.item.payload /\ y # NoPayload
             /\ c.command.type = "object" /\ c.command.body = "result"
    <3>1. c.item # NoItem
      <4>1. NoItem.payload = NoPayload
        BY ONLY Zenon DEF NoItem
      <4>. QED BY ONLY <2>3, <4>1, Zenon
    <3>2. isCacheable(c.command) /\ Fits(UrlOf(c.node, c.command, c.arg), c.item)
      <4>1. c.command.type # "raw"
        BY ONLY <2>3
      <4>. QED BY ONLY <3>1, <4>1, Offered(c, old), Zenon DEF Offered
    <3>3. \/ y.name = c.command.name /\ y.arg = c.arg
          \/ c.command.name \in KnownToShare
      <4>1. \/ c.item.payload.name = c.command.name /\ c.item.payload.arg = c.arg
            \/ c.command.name \in KnownToShare
        BY <1>1, <2>3, <3>2, CachedAnswerIsOwn
      <4>. QED BY ONLY <4>1, <2>3, Zenon
    <3>4. c.item.cv = a.payload.version
      BY ONLY <1>3, <2>3, Zenon
    <3>5. c.item.payload.version = c.item.cv
      BY ONLY <3>2, <3>4, <1>3, Zenon DEF Fits
    <3>. QED BY ONLY <3>3, <3>4, <3>5, <2>3, <1>3, <1>1, PayloadTypes DEF Replies
  <2>4. CASE a.status = "submodified" /\ y = get(old, raw).payload /\ old.open
    <3>1. c.command = MultiGet /\ c.command.type = "raw"
      BY ONLY <1>3, <1>5, <2>4, Zenon
    <3>2. c.item # NoItem
      <4>1. c.item.cv > 0
        BY ONLY <1>3, <2>4, Zenon
      <4>2. NoItem.cv = 0
        BY ONLY DEF NoItem, NoVector
      <4>. QED BY ONLY <4>1, <4>2
    <3>3. raw \in DOMAIN old.items
      BY ONLY <3>1, <3>2, <2>4, Offered(c, old), Zenon DEF Offered, raw
    <3>4. Fits(raw, get(old, raw))
      BY ONLY <3>3, Filled(old), Zenon DEF Filled, get
    <3>5. y.name = c.command.name /\ y.arg = c.arg
      BY ONLY <3>1, <3>4, <1>4, <2>4, Zenon DEF Fits
    <3>. QED BY ONLY <3>1, <3>5, Zenon
  <2>. QED BY ONLY <2>1, <2>2, <2>3, <2>4, Zenon DEF Yields
<1>8. "server" \in {"none", "cache", "server"} /\ "server" # "cache"
  OBVIOUS
<1>9. /\ r \in CallerType /\ r.pc = "idle" /\ r.from = "server"
      /\ r.command = c.command /\ r.arg = c.arg /\ r.start = c.start
      /\ r.aggressive = c.aggressive
      /\ r.out.kind = "result" => r.out = q.out
  BY ONLY <1>6, <1>8, FinishedFields, Zenon
<1>. HIDE DEF r
<1>10. Returned(r)
  BY ONLY <1>7, <1>8, <1>9, Zenon DEF Returned
<1>11. Calling(r, v, x) /\ r.pc # "create"
  BY ONLY <1>9, <1>10, RestingCalls
<1>. QED BY ONLY <1>9, <1>11, Zenon DEF r, q, url, raw

(* An answer changes no other item than the two of its URLs.               *)
LEMMA ReceivedElsewhere ==
    ASSUME NEW old \in Caches, Filled(old), NEW command \in Catalogue,
           NEW node \in Nodes, NEW arg \in AllArgs, NEW item \in Items,
           NEW answer \in Replies,
           NEW w, w # UrlOf(node, command, arg), w # multiGetUrl(node, arg)
    PROVE  get(Received(old, command, UrlOf(node, command, arg),
                        multiGetUrl(node, arg), item, answer).cache, w)
              = get(old, w)
<1>. DEFINE url == UrlOf(node, command, arg)
            raw == multiGetUrl(node, arg)
            q == Received(old, command, url, raw, item, answer)
            d == q.cache
<1>1. d = old \/ \E u \in {url, raw}, i \in Items : d = put(old, u, i)
  <2>1. Processed(old, command, url, raw, item, answer, q)
    BY ReceivedEffect
  <2>. HIDE DEF q, url, raw
  <2>. QED BY ONLY <2>1, Zenon DEF Processed
<1>2. url \in Keys /\ raw \in Keys
  BY ONLY KeyTypes, Zenon
<1>. HIDE DEF d, q
<1>3. ASSUME NEW u \in {url, raw}, NEW i \in Items, d = put(old, u, i)
      PROVE  get(d, w) = get(old, w)
  <2>1. u \in Keys /\ w # u
    BY <1>2, <1>3, Zenon
  <2>2. /\ DOMAIN d.items = DOMAIN old.items \cup {u}
        /\ \A x \in DOMAIN old.items : x # u => d.items[x] = old.items[x]
    BY ONLY <2>1, d = put(old, u, i), i \in Items, PutEffect
  <2>. QED BY ONLY <2>1, <2>2, Zenon DEF get
<1>4. get(d, w) = get(old, w)
  BY ONLY <1>1, <1>3, Zenon
<1>. QED BY <1>4 DEF d, q

(* The answer arrives: what has entered the cache is followed when it is    *)
(* current and there is a listener, and is not followed otherwise.          *)
LEMMA ReceiveAnswerKeeps ==
    ASSUME IInv, NEW p \in Callers, ReceiveAnswer(p)
    PROVE  IInv'
<1>. DEFINE c == caller[p]
            e == <<c.db, c.ex>>
            old == executor[e].cache
            url == UrlOf(c.node, c.command, c.arg)
            raw == multiGetUrl(c.node, c.arg)
            q == Received(old, c.command, url, raw, c.item, c.answer)
            d == q.cache
            r == Finished(c, q.out, "server")
            stored == {u \in {url, raw} : get(d, u) # get(old, u)}
            current == listening[e] > 0 /\ c.answer.payload.version = version[c.db]
<1>1. /\ c \in CallerType /\ StoreTypes /\ ServerTypes /\ Calling(c, version, executor)
      /\ \A x \in Executors : Filled(executor[x].cache)
      /\ Followed /\ caller \in [Callers -> CallerType]
  BY Zenon DEF IInv
<1>2. /\ c.pc = "answered" /\ workload' = workload /\ version' = version
      /\ store' = store /\ listening' = listening /\ pending' = pending
  BY Zenon DEF ReceiveAnswer
<1>3. /\ executor' = [executor EXCEPT ![e].cache = d]
      /\ caller' = [caller EXCEPT ![p] = r]
      /\ tracked' = [tracked EXCEPT ![e] = IF current THEN @ \cup stored ELSE @ \ stored]
  <2>. DEFINE S(s) == {u \in {url, raw} : get(s.cache, u) # get(old, u)}
  <2>1. PICK s \in {q} :
           /\ executor' = [executor EXCEPT ![e].cache = s.cache]
           /\ caller' = [caller EXCEPT ![p] = Finished(c, s.out, "server")]
           /\ tracked' = [tracked EXCEPT ![e] =
                             IF current THEN @ \cup S(s) ELSE @ \ S(s)]
    BY ReceiveAnswer(p), Zenon DEF ReceiveAnswer
  <2>2. s = q
    OBVIOUS
  <2>. HIDE DEF q
  <2>. QED BY ONLY <2>1, <2>2, Zenon
<1>4. /\ c.db \in Databases /\ c.ex \in 0..N /\ c.command \in Catalogue
      /\ c.arg \in AllArgs /\ c.node \in Nodes /\ c.item \in Items
      /\ c.answer \in Replies
  BY ONLY <1>1, Zenon DEF CallerType
<1>5. c.ex # NoExecutor /\ Offered(c, old) /\ Answered(c)
  BY ONLY <1>1, <1>2, Zenon DEF Calling, Asked
<1>6. e \in Executors /\ e[1] = c.db
  BY ONLY <1>4, <1>5, ExecutorTypes DEF NoExecutor
<1>7. old \in Caches /\ Filled(old)
  BY ONLY <1>1, <1>6, Zenon DEF StoreTypes
<1>8. /\ c.answer.payload.name = c.command.name /\ c.answer.payload.arg = c.arg
      /\ c.answer.status = "notmodified" => c.item.cv = c.answer.payload.version
  BY ONLY <1>2, <1>5, Zenon DEF Answered
<1>9. url \in Keys /\ raw \in Keys
  BY ONLY <1>4, KeyTypes, Zenon
<1>. HIDE DEF c, e, old
<1>10. /\ d \in Caches /\ Filled(d) /\ d.open = old.open /\ d.gen = old.gen
       /\ DOMAIN old.items \subseteq DOMAIN d.items
       /\ \A w : get(d, w) # get(old, w) =>
             /\ w \in DOMAIN d.items
             /\ d.items[w].cv > 0 =>
                   d.items[w].payload.version = c.answer.payload.version
  BY ONLY <1>4, <1>7, <1>8, ReceivedCache, Zenon
<1>11. r \in CallerType /\ Calling(r, version', executor') /\ r.pc # "create"
  BY ONLY <1>1, <1>2, <1>5, <1>7, ReceivedReturned, Zenon
<1>12. Becomes(p, r)
  BY <1>3, Zenon DEF Becomes
<1>. HIDE DEF r, d, q, url, raw
<1>13. /\ executor' \in [Executors -> [cache : Caches, aggressive : BOOLEAN]]
       /\ executor'[e].cache = d
       /\ \A x \in Executors : x # e => executor'[x].cache = executor[x].cache
  BY ONLY <1>1, <1>3, <1>6, <1>10, CacheReplaced
<1>14. \A x \in Executors : Filled(executor'[x].cache)
  BY ONLY <1>1, <1>10, <1>13, Zenon
<1>15. /\ stored \in SUBSET Keys
       /\ \A u \in stored : get(d, u) # get(old, u)
       /\ \A u : u \notin stored => u \notin {url, raw} \/ get(d, u) = get(old, u)
  BY ONLY <1>9, Zenon
<1>16. \A w \in DOMAIN old.items : w \notin stored => d.items[w] = old.items[w]
  <2>. SUFFICES ASSUME NEW w \in DOMAIN old.items, w \notin stored
                PROVE  d.items[w] = old.items[w]
    OBVIOUS
  <2>1. get(d, w) = get(old, w)
    <3>1. CASE w \in {url, raw}
      BY <3>1, <1>15, Zenon
    <3>2. CASE w \notin {url, raw}
      BY <3>2, <1>4, <1>7, ReceivedElsewhere DEF d, q, url, raw
    <3>. QED BY <3>1, <3>2
  <2>2. w \in DOMAIN d.items
    BY <1>10, Zenon
  <2>. QED BY <2>1, <2>2, Zenon DEF get
<1>. HIDE DEF stored
<1>17. /\ tracked' \in [Executors -> SUBSET Keys]
       /\ \A x \in Executors : x # e => tracked'[x] = tracked[x]
       /\ tracked'[e] = IF current THEN tracked[e] \cup stored ELSE tracked[e] \ stored
  <2>1. tracked \in [Executors -> SUBSET Keys]
    BY ONLY <1>1, Zenon DEF StoreTypes
  <2>2. (IF current THEN tracked[e] \cup stored ELSE tracked[e] \ stored) \in SUBSET Keys
    BY ONLY <2>1, <1>6, <1>15, Zenon
  <2>. HIDE DEF current
  <2>. QED BY ONLY <2>1, <2>2, <1>3, <1>6, Zenon
<1>18. ServerTypes' /\ StoreTypes'
  BY ONLY <1>1, <1>2, <1>13, <1>17, Zenon DEF ServerTypes, StoreTypes
<1>19. Followed'
  <2>. SUFFICES ASSUME NEW x \in Executors, NEW u \in tracked'[x]
                PROVE  LET b == executor'[x].cache
                       IN  /\ listening[x] > 0 /\ u \in DOMAIN b.items
                           /\ b.items[u].cv > 0 /\ b.items[u].gen = b.gen /\ pending[x] = 0
                              => b.items[u].payload.version = version[x[1]]
    BY <1>2, Zenon DEF Followed
  <2>1. CASE x # e
    <3>1. executor'[x].cache = executor[x].cache /\ u \in tracked[x]
      BY <2>1, <1>13, <1>17, Zenon
    <3>. QED BY ONLY <3>1, <1>1, Zenon DEF Followed
  <2>2. CASE x = e /\ u \in stored
    <3>1. current
      BY <2>2, <1>17, Zenon
    <3>2. /\ u \in DOMAIN d.items
          /\ d.items[u].cv > 0 =>
                d.items[u].payload.version = c.answer.payload.version
      BY ONLY <2>2, <1>10, <1>15, Zenon
    <3>. QED BY ONLY <3>1, <3>2, <2>2, <1>6, <1>13, Zenon
  <2>3. CASE x = e /\ u \notin stored
    <3>1. u \in tracked[e]
      BY <2>3, <1>17, Zenon
    <3>2. /\ listening[e] > 0 /\ u \in DOMAIN old.items
          /\ old.items[u].cv > 0 /\ old.items[u].gen = old.gen /\ pending[e] = 0
             => old.items[u].payload.version = version[e[1]]
      BY ONLY <3>1, <1>1, <1>6, Zenon DEF Followed, old
    <3>3. d.items[u] = old.items[u] /\ u \in DOMAIN d.items
      BY ONLY <3>2, <2>3, <1>10, <1>16, Zenon
    <3>. QED BY ONLY <3>2, <3>3, <2>3, <1>10, <1>13, Zenon
  <2>. QED BY <2>1, <2>2, <2>3, Zenon
<1>20. Counted'
  BY <1>2, <1>11, <1>12, CountedKept
<1>21. Grows(version, executor, version', executor')
  <2>1. \A x \in Executors :
           /\ executor'[x].cache.open = executor[x].cache.open
           /\ DOMAIN executor[x].cache.items \subseteq DOMAIN executor'[x].cache.items
    BY ONLY <1>10, <1>13, Zenon DEF old
  <2>. QED BY ONLY <2>1, <1>1, <1>2, VersionsStay, Zenon DEF Grows
<1>22. /\ caller' \in [Callers -> CallerType]
       /\ \A x \in Callers : Calling(caller'[x], version', executor')
  BY <1>1, <1>2, <1>11, <1>12, <1>21, CallersKept, VersionsStay
<1>. QED BY ONLY <1>14, <1>18, <1>19, <1>20, <1>22, Zenon DEF IInv

-----------------------------------------------------------------------------
(* The inductive invariant.                                                *)

(* The store begins with empty caches and no executors.                    *)
LEMMA InitEstablishes ==
    ASSUME Init
    PROVE  IInv
<1>. DEFINE base == NewCaller
            with == [base EXCEPT !.ex = 1]
<1>1. /\ workload \in Workloads /\ version = [d \in Databases |-> 1]
      /\ store = [used |-> FALSE, disposed |-> FALSE,
                  registry |-> [d \in Databases |-> NoExecutor],
                  created |-> [d \in Databases |-> 0]]
      /\ listening = [e \in Executors |-> 0] /\ pending = [e \in Executors |-> 0]
      /\ caller = [p \in Callers |-> IF Does("commands") THEN with ELSE base]
      /\ tracked = [e \in Executors |-> {}]
  BY Zenon DEF Init
<1>2. PICK a \in BOOLEAN :
         executor = [e \in Executors |-> [cache |-> newHttpCache, aggressive |-> a]]
  <2>1. (IF Does("commands") THEN BOOLEAN ELSE {FALSE}) \subseteq BOOLEAN
    BY Zenon
  <2>. QED BY <2>1, Zenon DEF Init
<1>3. ServerTypes
  <2>1. 1 \in 1..MaxVersion /\ 0 \in Nat
    BY StoreAssumption
  <2>. QED BY ONLY <1>1, <2>1, Zenon DEF ServerTypes
<1>4. [cache |-> newHttpCache, aggressive |-> a] \in [cache : Caches, aggressive : BOOLEAN]
  BY NewCache, Zenon
<1>5. /\ executor \in [Executors -> [cache : Caches, aggressive : BOOLEAN]]
      /\ \A e \in Executors : executor[e].cache = newHttpCache
  BY ONLY <1>2, <1>4, Zenon
<1>6. StoreTypes
  <2>1. 0 \in 0..N /\ NoExecutor \in 0..N
    BY CallersCounted DEF NoExecutor
  <2>2. /\ [d \in Databases |-> NoExecutor] \in [Databases -> 0..N]
        /\ [d \in Databases |-> 0] \in [Databases -> 0..N]
    BY ONLY <2>1, Zenon
  <2>3. store \in [used : BOOLEAN, disposed : BOOLEAN,
                   registry : [Databases -> 0..N], created : [Databases -> 0..N]]
    BY ONLY <1>1, <2>2, Zenon
  <2>4. [e \in Executors |-> {}] \in [Executors -> SUBSET Keys]
    OBVIOUS
  <2>. QED BY ONLY <1>1, <1>5, <2>3, <2>4, Zenon DEF StoreTypes
<1>7. \A e \in Executors : Filled(executor[e].cache)
  BY ONLY <1>5, NewCache, Zenon
<1>8. Followed
  BY ONLY <1>1, Zenon DEF Followed
<1>9. /\ base \in CallerType /\ base.pc = "idle" /\ base.out.kind = "none"
      /\ base.from = "none"
  <2>1. /\ 0 \in Nat /\ 0 \in AllArgs /\ <<>> \in Seq(Executors \X BOOLEAN)
    BY DEF AllArgs
  <2>2. (CHOOSE n \in Nodes : TRUE) \in Nodes
    BY StoreAssumption, Zenon
  <2>. QED BY ONLY <2>1, <2>2, CallerBasics, ThenBasics, ItemTypes, MultiGetFields, Zenon
           DEF NewCaller, CallerType
<1>. HIDE DEF base
<1>10. with \in CallerType /\ with.pc = "idle" /\ with.out.kind = "none" /\ with.from = "none"
  <2>1. 1 \in 0..N
    BY CallersCounted
  <2>. QED BY ONLY <1>9, <2>1, Zenon DEF CallerType
<1>. HIDE DEF with
<1>11. \A p \in Callers : /\ caller[p] \in CallerType /\ caller[p].pc = "idle"
                          /\ caller[p].out.kind = "none" /\ caller[p].from = "none"
  BY ONLY <1>1, <1>9, <1>10, Zenon
<1>12. caller \in [Callers -> CallerType]
  BY ONLY <1>1, <1>9, <1>10, Zenon
<1>13. \A p \in Callers : Calling(caller[p], version, executor)
  BY ONLY <1>11, QuietReturned, RestingCalls
<1>14. Counted
  <2>. SUFFICES ASSUME NEW d \in Databases
                PROVE  /\ store.created[d] + Cardinality(Creating(d)) <= N
                       /\ store.registry[d] = NoExecutor <=> store.created[d] = 0
    BY Zenon DEF Counted
  <2>1. Creating(d) = {}
    BY ONLY <1>11 DEF Creating
  <2>2. store.created[d] = 0 /\ store.registry[d] = NoExecutor
    BY ONLY <1>1, Zenon
  <2>. QED BY <2>1, <2>2, FS_EmptySet, CallersCounted
<1>. QED BY ONLY <1>3, <1>6, <1>7, <1>8, <1>12, <1>13, <1>14, Zenon DEF IInv

(* Every step of the store keeps the invariant.                            *)
LEMMA NextKeeps ==
    ASSUME IInv, [Next]_vars
    PROVE  IInv'
<1>1. CASE UNCHANGED vars
  <2>1. /\ workload' = workload /\ version' = version /\ store' = store
        /\ executor' = executor /\ listening' = listening /\ pending' = pending
        /\ caller' = caller /\ tracked' = tracked
    BY <1>1, Zenon DEF vars
  <2>. QED BY <2>1, Zenon DEF IInv, ServerTypes, StoreTypes, Counted, Creating, Followed
<1>2. ASSUME NEW p \in Callers, Step(p)
      PROVE  IInv'
  <2>1. CASE OpenSession(p) \/ AggressivelyCacheForDatabase(p) \/ DisableAggressiveCaching(p)
    BY <2>1, MethodsKeep
  <2>2. CASE GetRequestExecutor(p)
    BY <2>2, GetRequestExecutorKeeps
  <2>3. CASE RequestExecutorCreate(p)
    BY <2>3, RequestExecutorCreateKeeps
  <2>4. CASE listenToChangesAndUpdateTheCache(p)
    BY <2>4, ListenKeeps
  <2>5. CASE newEvictItemsFromCacheBasedOnChanges(p)
    BY <2>5, SubscribeKeeps
  <2>6. CASE ExchangeOptions(p)
    BY <2>6, ExchangeOptionsKeeps
  <2>7. CASE Restore(p)
    BY <2>7, RestoreKeeps
  <2>8. CASE ExecuteCommand(p)
    BY <2>8, ExecuteCommandKeeps
  <2>9. CASE RejectCommand(p)
    BY <2>9, RejectCommandKeeps
  <2>10. CASE AnswerCommand(p)
    BY <2>10, AnswerCommandKeeps
  <2>11. CASE ReceiveAnswer(p)
    BY <2>11, ReceiveAnswerKeeps
  <2>12. CASE handleServerDown(p)
    BY <2>12, handleServerDownKeeps
  <2>13. CASE CloseListeners(p)
    BY <2>13, CloseListenersKeeps
  <2>14. CASE CloseExecutors(p)
    BY <2>14, CloseExecutorsKeeps
  <2>. QED BY ONLY <1>2, <2>1, <2>2, <2>3, <2>4, <2>5, <2>6, <2>7, <2>8, <2>9,
           <2>10, <2>11, <2>12, <2>13, <2>14, Zenon DEF Step
<1>3. ASSUME NEW e \in Executors, NotifyChange(e)
      PROVE  IInv'
  BY <1>3, NotifyChangeKeeps
<1>4. ASSUME NEW d \in Databases, WriteElsewhere(d)
      PROVE  IInv'
  BY <1>4, WriteElsewhereKeeps
<1>5. CASE Expire
  BY <1>5, ExpireKeeps
<1>. QED BY ONLY <1>1, <1>2, <1>3, <1>4, <1>5, [Next]_vars, Zenon DEF Next

(* The invariant implies what the run checks of the caches.                *)
LEMMA InvariantFollows ==
    ASSUME IInv
    PROVE  TrackedItemsAreCurrent /\ ReadIsCurrent /\ ForeignAnswersKnown
<1>1. /\ StoreTypes /\ ServerTypes /\ Followed /\ caller \in [Callers -> CallerType]
      /\ \A p \in Callers : Calling(caller[p], version, executor)
  BY Zenon DEF IInv
<1>2. ASSUME NEW e \in Executors
      PROVE  /\ executor[e].cache \in Caches /\ executor[e].aggressive \in BOOLEAN
             /\ executor[e].cache.gen \in Nat
             /\ \A u \in DOMAIN executor[e].cache.items :
                   executor[e].cache.items[u] \in Items
             /\ tracked[e] \subseteq DOMAIN executor[e].cache.items
  <2>1. executor[e].cache \in Caches /\ executor[e].aggressive \in BOOLEAN
    BY ONLY <1>1, Zenon DEF StoreTypes
  <2>2. executor[e].cache.gen \in Nat /\ executor[e].cache.items \in Contents
    BY ONLY <2>1, CacheTypes, Zenon
  <2>3. \A u \in DOMAIN executor[e].cache.items : executor[e].cache.items[u] \in Items
    BY ONLY <2>2, ContentsAre, Zenon
  <2>4. tracked[e] \subseteq DOMAIN executor[e].cache.items
    BY ONLY <1>1, Zenon DEF Followed
  <2>. QED BY ONLY <2>1, <2>2, <2>3, <2>4
<1>3. \A p \in Callers : caller[p].out.payload \in Payloads
  <2>1. \A c \in CallerType : c.out \in Outcomes
    BY Zenon DEF CallerType
  <2>2. \A o \in Outcomes : o.payload \in Payloads
    BY Zenon DEF Outcomes
  <2>. QED BY ONLY <2>1, <2>2, <1>1, Zenon
<1>4. TypeOK
  BY ONLY <1>1, <1>2, <1>3, Zenon DEF TypeOK, ServerTypes, StoreTypes, N
<1>5. ASSUME NEW e \in Executors, NEW u \in tracked[e]
      PROVE  LET c == executor[e].cache
                 i == get(c, u)
             IN  (/\ i.cv > 0 /\ ~getMightHaveBeenModified(c, i)
                  /\ listening[e] > 0 /\ pending[e] = 0)
                 => i.payload.version = version[e[1]]
  BY ONLY <1>1, <1>5, Zenon DEF Followed, get, getMightHaveBeenModified
<1>6. TrackedItemsAreCurrent
  BY ONLY <1>4, <1>5, Zenon DEF TrackedItemsAreCurrent
<1>7. \A p \in Callers : Returned(caller[p])
  BY ONLY <1>1, Zenon DEF Calling
<1>8. ReadIsCurrent
  BY ONLY <1>7, Zenon DEF Returned, ReadIsCurrent
<1>9. ForeignAnswersKnown
  <2>. SUFFICES ASSUME NEW p \in Callers
                PROVE  LET c == caller[p]
                       IN  /\ (/\ c.pc = "idle" /\ c.out.kind = "result"
                               /\ <<c.out.payload.name, c.out.payload.arg>> #
                                  <<c.command.name, c.arg>>)
                              => c.command.name \in KnownToShare
                           /\ (c.pc = "idle" /\ c.from = "cache" /\ c.command.write)
                              => c.command.name \in KnownToShare
    BY Zenon DEF ForeignAnswersKnown
  <2>1. Returned(caller[p])
    BY <1>7
  <2>. QED BY ONLY <2>1, Zenon DEF Returned
<1>. QED BY ONLY <1>6, <1>8, <1>9

(* The invariant of the document store: what its caches hold, what is       *)
(* followed in them, and where every caller of its methods and of           *)
(* RequestExecutor.Execute is, whatever the others do meanwhile.            *)
THEOREM StoreInvariant == Spec => []IInv
<1>1. Init => IInv
  BY InitEstablishes
<1>2. IInv /\ [Next]_vars => IInv'
  BY NextKeeps
<1>. QED BY <1>1, <1>2, PTL DEF Spec

(* The eviction listener (evictItemsFromCacheBasedOnChanges) keeps its      *)
(* promise for any number of callers, databases and versions: an answer     *)
(* that was current when it was stored, with a listener since, and that     *)
(* getMightHaveBeenModified lets through, is current.                       *)
THEOREM CacheStaysCurrent == Spec => []TrackedItemsAreCurrent
<1>1. IInv => TrackedItemsAreCurrent
  BY InvariantFollows
<1>. QED BY <1>1, StoreInvariant, PTL

(* Without aggressive caching RequestExecutor.Execute never returns an      *)
(* answer older than the call, through retries, "not modified" and what     *)
(* other callers put into the cache meanwhile; multi-gets are excepted.     *)
THEOREM ReadsAreCurrent == Spec => []ReadIsCurrent
<1>1. IInv => ReadIsCurrent
  BY InvariantFollows
<1>. QED BY <1>1, StoreInvariant, PTL

(* Of the whole catalogue only the five commands of KnownToShare can be     *)
(* given the answer to another request by the cache (getFromCache), and no  *)
(* other command that changes the server is answered without being sent.    *)
THEOREM AnswersAreOwn == Spec => []ForeignAnswersKnown
<1>1. IInv => ForeignAnswersKnown
  BY InvariantFollows
<1>. QED BY <1>1, StoreInvariant, PTL
=============================================================================
