------------------------------ MODULE Commands ------------------------------
(***************************************************************************)
(* The catalogue of the client's server commands.  A command is what the  *)
(* request executor can tell about it:                                     *)
(*                                                                         *)
(*   name, verb    the Go type (without "Command") and the HTTP method     *)
(*   url           the resource: two commands with the same url can send   *)
(*                 the same URL, which is the key of the HTTP cache        *)
(*   keyed         the URL determines the request (FALSE: the body of the  *)
(*                 request says more than its URL)                         *)
(*   write         executing it changes the server                         *)
(*   read, canCache, aggressively, type                                    *)
(*                 IsReadRequest, CanCache, CanCacheAggressively and       *)
(*                 ResponseType of RavenCommandBase                        *)
(*   empty, body   what SetResponse makes of an empty body (nil: accepted, *)
(*                 no result) and of any other                             *)
(*   own           how it processes an answer when not in the common way   *)
(*   bad           what the constructor does with an invalid argument      *)
(*   deref         the library's own caller uses Result without testing it *)
(***************************************************************************)

NewRavenCommandBase ==
    [name |-> "", verb |-> "GET", url |-> "", keyed |-> TRUE, write |-> FALSE,
     read |-> FALSE, canCache |-> TRUE, aggressively |-> TRUE,
     type |-> "object", empty |-> "error", body |-> "result", own |-> "no",
     bad |-> "accepted", deref |-> FALSE]

Base(name, verb, url) ==
    [NewRavenCommandBase EXCEPT !.name = name, !.verb = verb, !.url = url]

Read(name, verb, url) == [Base(name, verb, url) EXCEPT !.read = TRUE]
Write(name, verb, url) == [Base(name, verb, url) EXCEPT !.write = TRUE]
EmptyWrite(name, verb, url) ==
    [Write(name, verb, url) EXCEPT !.type = "empty"]
\* The commands of serverwide/ fill in RavenCommandBase by hand.
ServerWide(name, verb, url) ==
    [Write(name, verb, url) EXCEPT !.canCache = FALSE, !.aggressively = FALSE]

-----------------------------------------------------------------------------
(* Documents, attachments, compare-exchange values.                       *)

GetDocuments ==
    [Read("GetDocuments", "GET", "docs") EXCEPT !.empty = "nil", !.bad = "error"]
\* NewGetDocumentsCommandFull does not set IsReadRequest.
GetDocumentsFull ==
    [Base("GetDocumentsFull", "GET", "docs?start") EXCEPT !.empty = "nil",
                                                          !.bad = "error"]
PutDocument ==
    [Write("PutDocument", "PUT", "docs?id") EXCEPT !.bad = "panic"]
DeleteDocument == EmptyWrite("DeleteDocument", "DELETE", "docs?id")
HeadDocument ==
    [Base("HeadDocument", "HEAD", "docs?id") EXCEPT
        !.empty = "nil", !.body = "error", !.own = "head", !.bad = "panic"]
Patch ==
    [Write("Patch", "PATCH", "docs?id") EXCEPT
        !.empty = "nil", !.bad = "error", !.deref = TRUE]
Batch ==
    [Write("Batch", "POST", "bulk_docs") EXCEPT !.bad = "error", !.deref = TRUE]
GetConflicts ==
    [Read("GetConflicts", "GET", "replication/conflicts") EXCEPT !.bad = "panic"]
GetRevisions == Read("GetRevisions", "GET", "revisions")
GetRevisionsBinEntry == Read("GetRevisionsBinEntry", "GET", "revisions/bin")
ConfigureRevisions ==
    Write("ConfigureRevisions", "POST", "admin/revisions/config")

GetAttachment ==
    [Read("GetAttachment", "GET", "attachments") EXCEPT
        !.keyed = FALSE, !.body = "error", !.own = "stream", !.bad = "error"]
HeadAttachment ==
    [Base("HeadAttachment", "GET", "attachments") EXCEPT
        !.empty = "nil", !.body = "error", !.own = "head", !.bad = "error"]
PutAttachment ==
    [Write("PutAttachment", "PUT", "attachments") EXCEPT !.bad = "error"]
DeleteAttachment ==
    [EmptyWrite("DeleteAttachment", "DELETE", "attachments") EXCEPT
        !.bad = "error"]

GetCompareExchangeValue ==
    [Read("GetCompareExchangeValue", "GET", "cmpxchg?key") EXCEPT
        !.empty = "nil", !.bad = "error"]
GetCompareExchangeValues ==
    [Read("GetCompareExchangeValues", "GET", "cmpxchg") EXCEPT !.bad = "error"]
PutCompareExchangeValue ==
    [Write("PutCompareExchangeValue", "PUT", "cmpxchg?index") EXCEPT
        !.bad = "error"]
\* A DELETE that sets IsReadRequest.
RemoveCompareExchangeValue ==
    [Write("RemoveCompareExchangeValue", "DELETE", "cmpxchg?index") EXCEPT
        !.read = TRUE, !.bad = "error"]

-----------------------------------------------------------------------------
(* Queries, streams, identities.                                          *)

\* The URL holds a hash of the query; the query's own options decide about
\* caching (disableCaching, waitForNonStaleResults).
Query ==
    [Read("Query", "POST", "queries?hash") EXCEPT !.empty = "nil",
                                                  !.bad = "error"]
QueryNonStale == [Query EXCEPT !.name = "QueryNonStale", !.aggressively = FALSE]
QueryNoCaching ==
    [QueryNonStale EXCEPT !.name = "QueryNoCaching", !.canCache = FALSE]
ExplainQuery ==
    [Read("ExplainQuery", "POST", "queries?explain") EXCEPT !.keyed = FALSE,
                                                            !.bad = "panic"]
QueryStream ==
    [Read("QueryStream", "POST", "streams/queries") EXCEPT
        !.keyed = FALSE, !.body = "error", !.own = "stream", !.bad = "panic"]
Stream ==
    [Read("Stream", "GET", "streams/docs") EXCEPT !.body = "error",
                                                  !.own = "stream"]
MultiGet ==
    [Base("MultiGet", "POST", "multi_get") EXCEPT !.keyed = FALSE,
                                                  !.type = "raw"]
PatchByQuery ==
    [Write("PatchByQuery", "PATCH", "queries?stale") EXCEPT
        !.keyed = FALSE, !.bad = "error", !.deref = TRUE]
DeleteByIndex ==
    [Write("DeleteByIndex", "DELETE", "queries?stale") EXCEPT
        !.keyed = FALSE, !.bad = "error", !.deref = TRUE]
BulkInsert ==
    [Write("BulkInsert", "POST", "bulk_insert") EXCEPT !.body = "error"]

\* GET and PUT commands of the HiLo protocol, both marked as reads.
NextHiLo ==
    [Write("NextHiLo", "GET", "hilo/next") EXCEPT
        !.read = TRUE, !.bad = "panic", !.deref = TRUE]
HiLoReturn ==
    [EmptyWrite("HiLoReturn", "PUT", "hilo/return") EXCEPT
        !.read = TRUE, !.bad = "error"]
NextIdentityFor ==
    [Write("NextIdentityFor", "POST", "identity/next") EXCEPT !.bad = "panic"]
SeedIdentityFor ==
    [Write("SeedIdentityFor", "POST", "identity/seed") EXCEPT !.bad = "error"]
GetIdentities == Read("GetIdentities", "GET", "debug/identities")

-----------------------------------------------------------------------------
(* Indexes.                                                                *)

PutIndexes == [Write("PutIndexes", "PUT", "admin/indexes") EXCEPT !.bad = "error"]
DeleteIndex ==
    [EmptyWrite("DeleteIndex", "DELETE", "indexes?name") EXCEPT !.bad = "panic"]
ResetIndex ==
    [EmptyWrite("ResetIndex", "RESET", "indexes?name") EXCEPT !.bad = "error"]
GetIndex == [Read("GetIndex", "GET", "indexes?name") EXCEPT !.bad = "panic"]
GetIndexes == Read("GetIndexes", "GET", "indexes?start")
GetIndexNames == Read("GetIndexNames", "GET", "indexes?start&namesOnly")
GetIndexErrors == Read("GetIndexErrors", "GET", "indexes/errors")
GetIndexStatistics ==
    [Read("GetIndexStatistics", "GET", "indexes/stats?name") EXCEPT
        !.bad = "panic"]
GetIndexesStatistics == Read("GetIndexesStatistics", "GET", "indexes/stats")
GetIndexingStatus == Read("GetIndexingStatus", "GET", "indexes/status")
GetTerms == [Read("GetTerms", "GET", "indexes/terms") EXCEPT !.bad = "error"]
IndexHasChanged ==
    [Base("IndexHasChanged", "POST", "indexes/has-changed") EXCEPT
        !.keyed = FALSE]
SetIndexesLock ==
    [EmptyWrite("SetIndexesLock", "POST", "indexes/set-lock") EXCEPT
        !.bad = "error"]
SetIndexesPriority ==
    [EmptyWrite("SetIndexesPriority", "POST", "indexes/set-priority") EXCEPT
        !.bad = "error"]
StartIndex ==
    [EmptyWrite("StartIndex", "POST", "indexes/start?name") EXCEPT
        !.bad = "error"]
StopIndex ==
    [EmptyWrite("StopIndex", "POST", "indexes/stop?name") EXCEPT !.bad = "error"]
StartIndexing == EmptyWrite("StartIndexing", "POST", "indexes/start")
StopIndexing == EmptyWrite("StopIndexing", "POST", "indexes/stop")
EnableIndex ==
    [EmptyWrite("EnableIndex", "POST", "indexes/enable") EXCEPT !.bad = "error"]
DisableIndex ==
    [EmptyWrite("DisableIndex", "POST", "indexes/disable") EXCEPT
        !.bad = "error"]

-----------------------------------------------------------------------------
(* Subscriptions, operations, statistics.                                  *)

CreateSubscription ==
    [Write("CreateSubscription", "PUT", "subscriptions") EXCEPT !.deref = TRUE]
DeleteSubscription ==
    EmptyWrite("DeleteSubscription", "DELETE", "subscriptions?taskName")
DropSubscriptionConnection ==
    EmptyWrite("DropSubscriptionConnection", "POST", "subscriptions/drop")
GetSubscriptions ==
    [Read("GetSubscriptions", "GET", "subscriptions?start") EXCEPT
        !.empty = "nil"]
GetSubscriptionState ==
    Read("GetSubscriptionState", "GET", "subscriptions/state")
GetTcpInfo ==
    [Read("GetTcpInfo", "GET", "info/tcp") EXCEPT !.deref = TRUE]

GetNextOperationID ==
    [Base("GetNextOperationID", "GET", "operations/next") EXCEPT !.write = TRUE]
GetOperationState ==
    [Read("GetOperationState", "GET", "operations/state") EXCEPT !.empty = "nil"]
GetServerWideOperationState ==
    [GetOperationState EXCEPT !.name = "GetServerWideOperationState",
                              !.url = "server/operations/state"]
KillOperation ==
    [EmptyWrite("KillOperation", "POST", "operations/kill") EXCEPT
        !.bad = "error"]
GetStatistics == Read("GetStatistics", "GET", "stats")
GetCollectionStatistics ==
    Read("GetCollectionStatistics", "GET", "collections/stats")

-----------------------------------------------------------------------------
(* Databases, configuration, cluster.                                      *)

CreateDatabase ==
    [Write("CreateDatabase", "PUT", "admin/databases?name") EXCEPT
        !.bad = "error"]
DeleteDatabase == Write("DeleteDatabase", "DELETE", "admin/databases")
CompactDatabase ==
    [Write("CompactDatabase", "POST", "admin/compact") EXCEPT
        !.keyed = FALSE, !.bad = "error", !.deref = TRUE]
GetDatabaseNames == Read("GetDatabaseNames", "GET", "databases")
GetDatabaseRecord ==
    [Base("GetDatabaseRecord", "GET", "admin/databases?name") EXCEPT
        !.empty = "nil"]
GetDatabaseTopology ==
    [Read("GetDatabaseTopology", "GET", "topology") EXCEPT !.deref = TRUE]
GetClientConfiguration ==
    [Base("GetClientConfiguration", "GET", "configuration/client") EXCEPT
        !.empty = "nil"]
PutClientConfiguration ==
    [EmptyWrite("PutClientConfiguration", "PUT", "admin/configuration") EXCEPT
        !.bad = "error"]
PutConnectionString ==
    Write("PutConnectionString", "PUT", "admin/connection-strings")
UpdateExternalReplication ==
    Write("UpdateExternalReplication", "POST", "admin/tasks/replication")
CreateSampleData == EmptyWrite("CreateSampleData", "POST", "sample-data")

PutCertificate == ServerWide("PutCertificate", "PUT", "admin/certificates")
AddClusterNode == ServerWide("AddClusterNode", "PUT", "cluster/node?url")
RemoveClusterNode == ServerWide("RemoveClusterNode", "DELETE", "cluster/node")
AddDatabaseNode == ServerWide("AddDatabaseNode", "PUT", "admin/databases/node")
PromoteClusterNode == ServerWide("PromoteClusterNode", "POST", "cluster/promote")
DemoteClusterNode == ServerWide("DemoteClusterNode", "POST", "cluster/demote")
Bootstrap == ServerWide("Bootstrap", "POST", "cluster/bootstrap")
GetClusterTopology ==
    [ServerWide("GetClusterTopology", "GET", "cluster/topology") EXCEPT
        !.write = FALSE]
GetBuildNumber ==
    [ServerWide("GetBuildNumber", "GET", "build/version") EXCEPT !.write = FALSE]
DatabaseHealthCheck ==
    [ServerWide("DatabaseHealthCheck", "GET", "healthcheck") EXCEPT
        !.write = FALSE, !.type = "empty"]

-----------------------------------------------------------------------------

Catalogue ==
    {GetDocuments, GetDocumentsFull, PutDocument, DeleteDocument, HeadDocument,
     Patch, Batch, GetConflicts, GetRevisions, GetRevisionsBinEntry,
     ConfigureRevisions, GetAttachment, HeadAttachment, PutAttachment,
     DeleteAttachment, GetCompareExchangeValue, GetCompareExchangeValues,
     PutCompareExchangeValue, RemoveCompareExchangeValue,
     Query, QueryNonStale, QueryNoCaching, ExplainQuery, QueryStream, Stream,
     MultiGet, PatchByQuery, DeleteByIndex, BulkInsert, NextHiLo, HiLoReturn,
     NextIdentityFor, SeedIdentityFor, GetIdentities,
     PutIndexes, DeleteIndex, ResetIndex, GetIndex, GetIndexes, GetIndexNames,
     GetIndexErrors, GetIndexStatistics, GetIndexesStatistics,
     GetIndexingStatus, GetTerms, IndexHasChanged, SetIndexesLock,
     SetIndexesPriority, StartIndex, StopIndex, StartIndexing, StopIndexing,
     EnableIndex, DisableIndex,
     CreateSubscription, DeleteSubscription, DropSubscriptionConnection,
     GetSubscriptions, GetSubscriptionState, GetTcpInfo, GetNextOperationID,
     GetOperationState, GetServerWideOperationState, KillOperation,
     GetStatistics, GetCollectionStatistics,
     CreateDatabase, DeleteDatabase, CompactDatabase, GetDatabaseNames,
     GetDatabaseRecord, GetDatabaseTopology, GetClientConfiguration,
     PutClientConfiguration, PutConnectionString, UpdateExternalReplication,
     CreateSampleData, PutCertificate, AddClusterNode, RemoveClusterNode,
     AddDatabaseNode, PromoteClusterNode, DemoteClusterNode, Bootstrap,
     GetClusterTopology, GetBuildNumber, DatabaseHealthCheck}
=============================================================================
