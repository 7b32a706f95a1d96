-------------------------- MODULE EndpointRegistry --------------------------
(***************************************************************************)
(* EndpointService of the user application: how many live endpoints a user *)
(* has and under which URLs.  Every handler checks with queries of its own *)
(* and writes with a later one; no transaction and no unique index         *)
(* (monitoring.prisma) joins them, so concurrent requests of one user      *)
(* interleave between the checks and the write.                            *)
(***************************************************************************)
EXTENDS Integers, FiniteSets

CONSTANTS
    Rows,         \* rows api_endpoint may come to hold for the user
    Urls,
    Requests,     \* requests the server works on at the same time
    MaxEndpoints  \* MAX_ENDPOINTS_PER_USER

ASSUME RegistryAssumption ==
    /\ IsFiniteSet(Rows)
    /\ IsFiniteSet(Requests)
    /\ Requests # {}
    /\ MaxEndpoints \in Nat

VARIABLES
    live,   \* rows of the user with isDeleted = false
    used,   \* rows ever inserted: ids are not reused
    url,    \* column url
    pc,     \* per request, the await it is at
    row,    \* per request, the row found by id
    dtoUrl  \* per request, the URL of its dto, if any

vars == <<live, used, url, pc, row, dtoUrl>>

NoRow == "no row"
NoUrl == "no url"

Copies(u) == {e \in live : url[e] = u}

TypeOK ==
    /\ live \subseteq used
    /\ used \subseteq Rows
    /\ url \in [Rows -> Urls \cup {NoUrl}]
    /\ pc \in [Requests -> {"idle", "createUrl", "create", "updateUrl", "update", "delete"}]
    /\ row \in [Requests -> Rows \cup {NoRow}]
    /\ dtoUrl \in [Requests -> Urls \cup {NoUrl}]

Init ==
    /\ live = {}
    /\ used = {}
    /\ url = [e \in Rows |-> NoUrl]
    /\ pc = [q \in Requests |-> "idle"]
    /\ row = [q \in Requests |-> NoRow]
    /\ dtoUrl = [q \in Requests |-> NoUrl]

-----------------------------------------------------------------------------
Finish(q) ==
    /\ pc' = [pc EXCEPT ![q] = "idle"]
    /\ row' = [row EXCEPT ![q] = NoRow]
    /\ dtoUrl' = [dtoUrl EXCEPT ![q] = NoUrl]

(* createEndpoint *)

\* Mutant: the limit is one row too high.
CreateCountAtLimit(q) ==
    /\ pc[q] = "idle"
    /\ Cardinality(live) <= MaxEndpoints
    /\ \E u \in Urls : dtoUrl' = [dtoUrl EXCEPT ![q] = u]
    /\ pc' = [pc EXCEPT ![q] = "createUrl"]
    /\ UNCHANGED <<live, used, url, row>>

\* At the limit the request is answered ENDPOINT_LIMIT_EXCEEDED and changes nothing.
CreateCount(q) ==
    /\ pc[q] = "idle"
    /\ Cardinality(live) < MaxEndpoints
    /\ \E u \in Urls : dtoUrl' = [dtoUrl EXCEPT ![q] = u]
    /\ pc' = [pc EXCEPT ![q] = "createUrl"]
    /\ UNCHANGED <<live, used, url, row>>

CreateFindUrl(q) ==
    /\ pc[q] = "createUrl"
    /\ Copies(dtoUrl[q]) = {}
    /\ pc' = [pc EXCEPT ![q] = "create"]
    /\ UNCHANGED <<live, used, url, row, dtoUrl>>

CreateInsert(q) ==
    /\ pc[q] = "create"
    /\ \E e \in Rows \ used :
         /\ live' = live \cup {e}
         /\ used' = used \cup {e}
         /\ url' = [url EXCEPT ![e] = dtoUrl[q]]
    /\ Finish(q)

(* updateEndpoint with a URL; without one it changes nothing that is modelled *)

\* Mutant: an update does not look for the URL.
UpdateFindUnchecked(q) ==
    /\ pc[q] = "idle"
    /\ \E e \in live, u \in Urls :
         /\ row' = [row EXCEPT ![q] = e]
         /\ dtoUrl' = [dtoUrl EXCEPT ![q] = u]
         /\ pc' = [pc EXCEPT ![q] = "update"]
    /\ UNCHANGED <<live, used, url>>

UpdateFind(q) ==
    /\ pc[q] = "idle"
    /\ \E e \in live, u \in Urls :
         /\ row' = [row EXCEPT ![q] = e]
         /\ dtoUrl' = [dtoUrl EXCEPT ![q] = u]
         /\ pc' = [pc EXCEPT ![q] = IF u # url[e] THEN "updateUrl" ELSE "update"]
    /\ UNCHANGED <<live, used, url>>

UpdateFindUrl(q) ==
    /\ pc[q] = "updateUrl"
    /\ Copies(dtoUrl[q]) = {}
    /\ pc' = [pc EXCEPT ![q] = "update"]
    /\ UNCHANGED <<live, used, url, row, dtoUrl>>

\* WHERE id: the row may have been deleted or given another URL since it was found.
UpdateWrite(q) ==
    /\ pc[q] = "update"
    /\ url' = [url EXCEPT ![row[q]] = dtoUrl[q]]
    /\ Finish(q)
    /\ UNCHANGED <<live, used>>

(* deleteEndpoint, and the same of the admin application *)

DeleteFind(q) ==
    /\ pc[q] = "idle"
    /\ \E e \in live : row' = [row EXCEPT ![q] = e]
    /\ pc' = [pc EXCEPT ![q] = "delete"]
    /\ UNCHANGED <<live, used, url, dtoUrl>>

DeleteWrite(q) ==
    /\ pc[q] = "delete"
    /\ live' = live \ {row[q]}
    /\ Finish(q)
    /\ UNCHANGED <<used, url>>

\* DUPLICATE_URL, a query that rejects, or the death of the process: nothing of
\* what the request has read is kept.
Reject(q) ==
    /\ pc[q] # "idle"
    /\ Finish(q)
    /\ UNCHANGED <<live, used, url>>

-----------------------------------------------------------------------------
Next ==
    \E q \in Requests :
      \/ CreateCount(q) \/ CreateFindUrl(q) \/ CreateInsert(q)
      \/ UpdateFind(q) \/ UpdateFindUrl(q) \/ UpdateWrite(q)
      \/ DeleteFind(q) \/ DeleteWrite(q)
      \/ Reject(q)

Spec == Init /\ [][Next]_vars

-----------------------------------------------------------------------------
(* Properties *)

\* The count is read before the insert, so n requests at a time can exceed the
\* limit, but by n - 1 rows at most: one at a time respects it exactly.
LimitOvershoot ==
    Cardinality(live) <= MaxEndpoints + Cardinality(Requests) - 1

\* A URL is registered again only by requests that overlap: n at a time leave at
\* most n live rows of the same URL, one at a time leaves one.
UrlCopies ==
    \A u \in Urls : Cardinality(Copies(u)) <= Cardinality(Requests)

-----------------------------------------------------------------------------
(* What makes the invariants inductive *)

\* Requests whose count was below the limit and whose row is not inserted yet.
Creating == {q \in Requests : pc[q] \in {"createUrl", "create"}}

\* Every row beyond the limit, and every row that may still come, is one request's.
LimitTracked ==
    Creating # {} =>
      Cardinality(live) + Cardinality(Creating) <= MaxEndpoints + Cardinality(Requests) - 1

=============================================================================
