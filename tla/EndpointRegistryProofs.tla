----------------------- MODULE EndpointRegistryProofs -----------------------
(***************************************************************************)
(* How far concurrent requests can exceed MAX_ENDPOINTS_PER_USER, and how  *)
(* many endpoints of one URL they leave, for every limit and every number  *)
(* of requests.                                                            *)
(***************************************************************************)
EXTENDS EndpointRegistry, FiniteSetTheorems, TLAPS

-----------------------------------------------------------------------------
(* Type correctness *)

\* The registry starts empty with every request idle.
LEMMA TypeInit == Init => TypeOK
BY DEF Init, TypeOK

\* Every handler keeps the types; a row is inserted under a new id.
LEMMA TypeStep == TypeOK /\ [Next]_vars => TypeOK'
<1> SUFFICES ASSUME TypeOK, [Next]_vars
             PROVE  TypeOK'
  OBVIOUS
<1> USE DEF TypeOK
<1>1. ASSUME NEW q \in Requests, CreateCount(q) PROVE TypeOK'
  BY <1>1 DEF CreateCount
<1>2. ASSUME NEW q \in Requests, CreateFindUrl(q) PROVE TypeOK'
  BY <1>2 DEF CreateFindUrl
<1>3. ASSUME NEW q \in Requests, CreateInsert(q) PROVE TypeOK'
  BY <1>3 DEF CreateInsert, Finish
<1>4. ASSUME NEW q \in Requests, UpdateFind(q) PROVE TypeOK'
  BY <1>4 DEF UpdateFind
<1>5. ASSUME NEW q \in Requests, UpdateFindUrl(q) PROVE TypeOK'
  BY <1>5 DEF UpdateFindUrl
<1>6. ASSUME NEW q \in Requests, UpdateWrite(q) PROVE TypeOK'
  BY <1>6 DEF UpdateWrite, Finish
<1>7. ASSUME NEW q \in Requests, DeleteFind(q) PROVE TypeOK'
  BY <1>7 DEF DeleteFind
<1>8. ASSUME NEW q \in Requests, DeleteWrite(q) PROVE TypeOK'
  BY <1>8 DEF DeleteWrite, Finish
<1>9. ASSUME NEW q \in Requests, Reject(q) PROVE TypeOK'
  BY <1>9 DEF Reject, Finish
<1>10. CASE UNCHANGED vars
  BY <1>10 DEF vars
<1> QED
  BY <1>1, <1>2, <1>3, <1>4, <1>5, <1>6, <1>7, <1>8, <1>9, <1>10 DEF Next

\* Every variable keeps its type in every reachable state.
THEOREM TypeCorrect == Spec => []TypeOK
BY TypeInit, TypeStep, PTL DEF Spec

-----------------------------------------------------------------------------
(* The limit *)

LimitInv == TypeOK /\ LimitOvershoot /\ LimitTracked

\* The sets that are counted are finite, so their cardinalities are numbers.
LEMMA Counted ==
    ASSUME TypeOK
    PROVE  /\ IsFiniteSet(live)
           /\ Cardinality(live) \in Nat
           /\ IsFiniteSet(Creating)
           /\ Cardinality(Creating) \in Nat
           /\ Cardinality(Creating) <= Cardinality(Requests)
           /\ Cardinality(Requests) \in Nat \ {0}
<1>1. IsFiniteSet(live)
  BY FS_Subset, RegistryAssumption DEF TypeOK
<1>2. IsFiniteSet(Creating) /\ Cardinality(Creating) <= Cardinality(Requests)
  BY FS_Subset, RegistryAssumption DEF Creating
<1>3. Cardinality(Requests) \in Nat \ {0}
  BY FS_CardinalityType, FS_EmptySet, RegistryAssumption
<1> QED
  BY <1>1, <1>2, <1>3, FS_CardinalityType

\* A step that inserts no row and lets no request past the count keeps the bounds.
LEMMA LimitKept ==
    ASSUME TypeOK, TypeOK', LimitOvershoot, LimitTracked,
           live' \subseteq live, Creating' \subseteq Creating
    PROVE  LimitOvershoot' /\ LimitTracked'
<1>1. Cardinality(live') <= Cardinality(live) /\ Cardinality(live') \in Nat
  BY Counted, FS_Subset, FS_CardinalityType
<1>2. Cardinality(Creating') <= Cardinality(Creating) /\ Cardinality(Creating') \in Nat
  BY Counted, FS_Subset, FS_CardinalityType
<1>3. LimitOvershoot'
  BY <1>1, Counted, RegistryAssumption DEF LimitOvershoot
<1>4. LimitTracked'
  BY <1>1, <1>2, Counted, RegistryAssumption DEF LimitTracked
<1> QED
  BY <1>3, <1>4

\* No row is live and no request is creating one initially.
LEMMA LimitInit == Init => LimitInv
<1> SUFFICES ASSUME Init
             PROVE  LimitInv
  OBVIOUS
<1>1. TypeOK
  BY TypeInit
<1>2. Cardinality(live) = 0 /\ Creating = {}
  BY FS_EmptySet DEF Init, Creating
<1> QED
  BY <1>1, <1>2, Counted, RegistryAssumption DEF LimitInv, LimitOvershoot, LimitTracked

\* A request that passes the count found a row to spare; one that inserts gives up
\* the place it had among the creating requests.
LEMMA LimitStep == LimitInv /\ [Next]_vars => LimitInv'
<1> SUFFICES ASSUME LimitInv, [Next]_vars
             PROVE  LimitInv'
  OBVIOUS
<1>t. TypeOK /\ TypeOK' /\ LimitOvershoot /\ LimitTracked
  BY TypeStep DEF LimitInv
<1> SUFFICES LimitOvershoot' /\ LimitTracked'
  BY <1>t DEF LimitInv
<1>c. /\ Cardinality(live) \in Nat
      /\ Cardinality(Creating) \in Nat
      /\ Cardinality(Requests) \in Nat \ {0}
  BY <1>t, Counted
<1>1. ASSUME NEW q \in Requests, CreateCount(q) PROVE LimitOvershoot' /\ LimitTracked'
  <2>1. live' = live /\ Cardinality(live) < MaxEndpoints
    BY <1>1 DEF CreateCount
  <2>2. Creating' \subseteq Requests
    BY DEF Creating
  <2>3. Cardinality(Creating') <= Cardinality(Requests) /\ Cardinality(Creating') \in Nat
    BY <2>2, FS_Subset, FS_CardinalityType, RegistryAssumption
  <2> QED
    BY <1>t, <1>c, <2>1, <2>3, RegistryAssumption DEF LimitOvershoot, LimitTracked
<1>2. ASSUME NEW q \in Requests, CreateInsert(q) PROVE LimitOvershoot' /\ LimitTracked'
  <2>1. PICK e \in Rows \ used : live' = live \cup {e}
    BY <1>2 DEF CreateInsert
  <2>2. Cardinality(live') = Cardinality(live) + 1
    BY <1>t, <2>1, Counted, FS_AddElement DEF TypeOK
  <2>3. q \in Creating /\ Creating' = Creating \ {q}
    BY <1>t, <1>2 DEF Creating, CreateInsert, Finish, TypeOK
  <2>4. Cardinality(Creating') = Cardinality(Creating) - 1
    BY <1>t, <2>3, Counted, FS_RemoveElement
  <2>5. Creating # {} /\ Cardinality(Creating') \in Nat
    BY <1>t, <2>3, Counted, FS_RemoveElement, FS_CardinalityType
  <2> QED
    BY <1>t, <1>c, <2>2, <2>4, <2>5, RegistryAssumption
    DEF LimitOvershoot, LimitTracked
<1>3. ASSUME NEW q \in Requests,
             \/ CreateFindUrl(q)
             \/ UpdateFind(q) \/ UpdateFindUrl(q) \/ UpdateWrite(q)
             \/ DeleteFind(q) \/ DeleteWrite(q)
             \/ Reject(q)
      PROVE LimitOvershoot' /\ LimitTracked'
  <2>1. live' \subseteq live
    BY <1>3 DEF CreateFindUrl, UpdateFind, UpdateFindUrl, UpdateWrite, DeleteFind,
                DeleteWrite, Reject
  <2>2. Creating' \subseteq Creating
    BY <1>t, <1>3 DEF Creating, CreateFindUrl, UpdateFind, UpdateFindUrl, UpdateWrite,
                      DeleteFind, DeleteWrite, Reject, Finish, TypeOK
  <2> QED
    BY <1>t, <2>1, <2>2, LimitKept
<1>4. CASE UNCHANGED vars
  <2>1. live' = live /\ Creating' = Creating
    BY <1>4 DEF vars, Creating
  <2> QED
    BY <1>t, <2>1, LimitKept
<1> QED
  BY <1>1, <1>2, <1>3, <1>4 DEF Next

\* For every limit and every number n of requests at a time, a user never has more
\* live endpoints than the limit and n - 1; with n = 1 the limit holds exactly.
THEOREM LimitBounded == Spec => []LimitOvershoot
<1>1. LimitInv => LimitOvershoot
  BY DEF LimitInv
<1> QED
  BY <1>1, LimitInit, LimitStep, PTL DEF Spec

-----------------------------------------------------------------------------
(* The URLs *)

\* Requests that are about to insert a row of URL u, or to give a row that URL.
Inserting(u) == {q \in Requests : pc[q] = "create" /\ dtoUrl[q] = u}
Updating(u) == {q \in Requests : pc[q] = "update" /\ dtoUrl[q] = u}

\* The live rows that have URL u, or that such a request gives it.
Held(u) == {e \in live : url[e] = u \/ \E q \in Updating(u) : row[q] = e}

\* A row that an update leaves as it is keeps its place among those held, even when
\* another request gives it a different URL in between.
UrlTracked ==
    \A u \in Urls : Cardinality(Held(u)) + Cardinality(Inserting(u)) <= Cardinality(Requests)

\* A request that is about to write has found its row.
RowFound == \A q \in Requests : pc[q] \in {"updateUrl", "update", "delete"} => row[q] \in used

\* What is held of a URL that no live row has.
HeldUnused ==
    \A u \in Urls :
      Copies(u) = {} => Cardinality(Held(u)) + Cardinality(Inserting(u)) <= Cardinality(Requests)

UrlInv == TypeOK /\ RowFound /\ UrlTracked

\* The sets that are counted are finite, so their cardinalities are numbers.
LEMMA UrlCounted ==
    ASSUME TypeOK, NEW u \in Urls
    PROVE  /\ IsFiniteSet(Held(u)) /\ Cardinality(Held(u)) \in Nat
           /\ IsFiniteSet(Inserting(u)) /\ Cardinality(Inserting(u)) \in Nat
           /\ IsFiniteSet(Updating(u)) /\ Cardinality(Updating(u)) \in Nat
           /\ Cardinality(Requests) \in Nat
           /\ Cardinality(Updating(u)) + Cardinality(Inserting(u)) <= Cardinality(Requests)
<1>1. IsFiniteSet(Held(u))
  BY FS_Subset, Counted DEF Held
<1>2. IsFiniteSet(Inserting(u)) /\ IsFiniteSet(Updating(u))
  BY FS_Subset, RegistryAssumption DEF Inserting, Updating
<1>3. Cardinality(Updating(u) \cap Inserting(u)) = 0
  <2>1. Updating(u) \cap Inserting(u) = {}
    BY DEF Inserting, Updating
  <2> QED
    BY <2>1, FS_EmptySet
<1>4. /\ IsFiniteSet(Updating(u) \cup Inserting(u))
      /\ Cardinality(Updating(u) \cup Inserting(u))
           = Cardinality(Updating(u)) + Cardinality(Inserting(u))
  <2>1. /\ IsFiniteSet(Updating(u) \cup Inserting(u))
        /\ Cardinality(Updating(u) \cup Inserting(u))
             = Cardinality(Updating(u)) + Cardinality(Inserting(u))
                 - Cardinality(Updating(u) \cap Inserting(u))
    BY <1>2, FS_Union
  <2>2. Cardinality(Updating(u)) \in Nat /\ Cardinality(Inserting(u)) \in Nat
    BY <1>2, FS_CardinalityType
  <2> QED
    BY <1>3, <2>1, <2>2
<1>5. Cardinality(Updating(u) \cup Inserting(u)) <= Cardinality(Requests)
  BY FS_Subset, RegistryAssumption DEF Inserting, Updating
<1> QED
  BY <1>1, <1>2, <1>4, <1>5, FS_CardinalityType, RegistryAssumption

\* When no live row has the URL, every row held is that of a request.
LEMMA HeldByRequests == TypeOK => HeldUnused
<1> SUFFICES ASSUME TypeOK, NEW u \in Urls, Copies(u) = {}
             PROVE  Cardinality(Held(u)) + Cardinality(Inserting(u)) <= Cardinality(Requests)
  BY DEF HeldUnused
<1> DEFINE Target == [q \in Updating(u) |-> row[q]]
           Targets == {row[q] : q \in Updating(u)}
<1>1. Target \in Surjection(Updating(u), Targets)
  BY DEF Surjection
<1>2. IsFiniteSet(Targets) /\ Cardinality(Targets) <= Cardinality(Updating(u))
  BY <1>1, FS_Surjection, UrlCounted
<1>3. Held(u) \subseteq Targets
  BY DEF Held, Copies
<1>4. Cardinality(Held(u)) <= Cardinality(Updating(u))
  BY <1>2, <1>3, FS_Subset, FS_CardinalityType, UrlCounted
<1> QED
  BY <1>4, UrlCounted

\* A step after which fewer rows are held and fewer requests insert keeps the bound.
LEMMA UrlKept ==
    ASSUME TypeOK, TypeOK', NEW u \in Urls, UrlTracked,
           Held(u)' \subseteq Held(u), Inserting(u)' \subseteq Inserting(u)
    PROVE  Cardinality(Held(u)') + Cardinality(Inserting(u)') <= Cardinality(Requests)
<1>1. Cardinality(Held(u)') <= Cardinality(Held(u)) /\ Cardinality(Held(u)') \in Nat
  BY UrlCounted, FS_Subset, FS_CardinalityType
<1>2. Cardinality(Inserting(u)') <= Cardinality(Inserting(u)) /\ Cardinality(Inserting(u)') \in Nat
  BY UrlCounted, FS_Subset, FS_CardinalityType
<1> QED
  BY <1>1, <1>2, UrlCounted DEF UrlTracked

\* No row is live and no request is under way initially.
LEMMA UrlInit == Init => UrlInv
<1> SUFFICES ASSUME Init
             PROVE  UrlInv
  OBVIOUS
<1>1. TypeOK
  BY TypeInit
<1>2. RowFound
  BY DEF Init, RowFound
<1>3. ASSUME NEW u \in Urls
      PROVE  Cardinality(Held(u)) + Cardinality(Inserting(u)) <= Cardinality(Requests)
  <2>1. Copies(u) = {}
    BY DEF Init, Copies
  <2> QED
    BY <1>1, <2>1, HeldByRequests DEF HeldUnused
<1> QED
  BY <1>1, <1>2, <1>3 DEF UrlInv, UrlTracked

\* Only a request that has found no row of the URL adds to the rows held; an insert
\* turns an inserting request into a row.
LEMMA UrlStep == UrlInv /\ [Next]_vars => UrlInv'
<1> SUFFICES ASSUME UrlInv, [Next]_vars
             PROVE  UrlInv'
  OBVIOUS
<1>t. TypeOK /\ TypeOK' /\ RowFound /\ UrlTracked
  BY TypeStep DEF UrlInv
<1>r. RowFound'
  BY <1>t DEF RowFound, TypeOK, Next, vars, CreateCount, CreateFindUrl, CreateInsert,
              UpdateFind, UpdateFindUrl, UpdateWrite, DeleteFind, DeleteWrite, Reject, Finish
<1> SUFFICES ASSUME NEW u \in Urls
             PROVE  Cardinality(Held(u)') + Cardinality(Inserting(u)') <= Cardinality(Requests)
  BY <1>t, <1>r DEF UrlInv, UrlTracked
<1> DEFINE Goal == Cardinality(Held(u)') + Cardinality(Inserting(u)') <= Cardinality(Requests)
<1>c. /\ IsFiniteSet(Held(u)) /\ Cardinality(Held(u)) \in Nat
      /\ IsFiniteSet(Inserting(u)) /\ Cardinality(Inserting(u)) \in Nat
      /\ Cardinality(Requests) \in Nat
  BY <1>t, UrlCounted
<1>k. ASSUME Held(u)' \subseteq Held(u), Inserting(u)' \subseteq Inserting(u) PROVE Goal
  BY <1>t, <1>k, UrlKept
<1>f. ASSUME Copies(u)' = {} PROVE Goal
  <2>1. TypeOK' => HeldUnused'
    BY HeldByRequests, PTL
  <2> QED
    BY <1>t, <1>f, <2>1 DEF HeldUnused
<1>1. ASSUME NEW q \in Requests, CreateFindUrl(q) \/ UpdateFindUrl(q) PROVE Goal
  <2>1. CASE dtoUrl[q] = u
    <3>1. Copies(u)' = {}
      BY <1>1, <2>1 DEF CreateFindUrl, UpdateFindUrl, Copies
    <3> QED
      BY <3>1, <1>f
  <2>2. CASE dtoUrl[q] # u
    <3>1. Inserting(u)' \subseteq Inserting(u)
      BY <1>1, <1>t, <2>2 DEF CreateFindUrl, UpdateFindUrl, Inserting, TypeOK
    <3>2. Updating(u)' \subseteq Updating(u)
      BY <1>1, <1>t, <2>2 DEF CreateFindUrl, UpdateFindUrl, Updating, TypeOK
    <3>3. Held(u)' \subseteq Held(u)
      BY <1>1, <3>2 DEF CreateFindUrl, UpdateFindUrl, Held
    <3> QED
      BY <3>1, <3>3, <1>k
  <2> QED
    BY <2>1, <2>2
<1>2. ASSUME NEW q \in Requests, CreateInsert(q) PROVE Goal
  <2>1. PICK e \in Rows \ used : live' = live \cup {e} /\ url' = [url EXCEPT ![e] = dtoUrl[q]]
    BY <1>2 DEF CreateInsert
  <2>2. Updating(u)' = Updating(u) /\ \A x \in Updating(u) : row'[x] = row[x]
    BY <1>2, <1>t DEF CreateInsert, Finish, Updating, TypeOK
  <2>3. \A x \in live : x # e /\ url'[x] = url[x]
    BY <1>t, <2>1 DEF TypeOK
  <2>4. CASE dtoUrl[q] = u
    <3>1. Held(u)' \subseteq Held(u) \cup {e}
      BY <2>1, <2>2, <2>3 DEF Held
    <3>2. /\ IsFiniteSet(Held(u) \cup {e})
          /\ Cardinality(Held(u) \cup {e}) <= Cardinality(Held(u)) + 1
      <4>1. /\ IsFiniteSet(Held(u) \cup {e})
            /\ Cardinality(Held(u) \cup {e})
                 = IF e \in Held(u) THEN Cardinality(Held(u)) ELSE Cardinality(Held(u)) + 1
        BY <1>c, FS_AddElement
      <4> QED
        BY <1>c, <4>1
    <3>3. Cardinality(Held(u)') <= Cardinality(Held(u)) + 1
      BY <1>c, <3>1, <3>2, FS_Subset, FS_CardinalityType
    <3>4. q \in Inserting(u) /\ Inserting(u)' = Inserting(u) \ {q}
      BY <1>2, <1>t, <2>4 DEF CreateInsert, Finish, Inserting, TypeOK
    <3>5. Cardinality(Inserting(u)') = Cardinality(Inserting(u)) - 1
      BY <1>c, <3>4, FS_RemoveElement
    <3>6. Cardinality(Held(u)') \in Nat
      BY <1>c, <3>1, <3>2, FS_Subset, FS_CardinalityType
    <3> QED
      BY <1>t, <1>c, <3>3, <3>5, <3>6 DEF UrlTracked
  <2>5. CASE dtoUrl[q] # u
    <3>1. Inserting(u)' \subseteq Inserting(u)
      BY <1>2, <1>t DEF CreateInsert, Finish, Inserting, TypeOK
    <3>2. ~ \E x \in Updating(u) : row[x] = e
      BY <1>t, <2>1 DEF RowFound, Updating
    <3>3. url'[e] # u
      BY <1>t, <2>1, <2>5 DEF TypeOK
    <3>4. Held(u)' \subseteq Held(u)
      BY <2>1, <2>2, <2>3, <3>2, <3>3 DEF Held
    <3> QED
      BY <3>1, <3>4, <1>k
  <2> QED
    BY <2>4, <2>5
<1>3. ASSUME NEW q \in Requests, UpdateFind(q) PROVE Goal
  <2>1. PICK e \in live, v \in Urls :
          /\ row' = [row EXCEPT ![q] = e]
          /\ dtoUrl' = [dtoUrl EXCEPT ![q] = v]
          /\ pc' = [pc EXCEPT ![q] = IF v # url[e] THEN "updateUrl" ELSE "update"]
    BY <1>3 DEF UpdateFind
  <2>2. Inserting(u)' \subseteq Inserting(u)
    BY <1>t, <2>1 DEF Inserting, TypeOK
  <2>3. \A x \in Updating(u)' : url[row'[x]] = u \/ (x \in Updating(u) /\ row'[x] = row[x])
    <3>1. \A x \in Updating(u)' \ {q} : x \in Updating(u) /\ row'[x] = row[x]
      BY <1>t, <2>1 DEF Updating, TypeOK
    <3>2. q \in Updating(u)' => v = u /\ v = url[e]
      BY <1>t, <2>1 DEF Updating, TypeOK
    <3>3. row'[q] = e
      BY <1>t, <2>1 DEF TypeOK
    <3> QED
      BY <3>1, <3>2, <3>3
  <2>4. Held(u)' \subseteq Held(u)
    BY <1>3, <2>3 DEF UpdateFind, Held
  <2> QED
    BY <2>2, <2>4, <1>k
<1>4. ASSUME NEW q \in Requests, UpdateWrite(q) PROVE Goal
  <2>1. pc[q] = "update" /\ live' = live /\ url' = [url EXCEPT ![row[q]] = dtoUrl[q]]
    BY <1>4 DEF UpdateWrite
  <2>2. Inserting(u)' \subseteq Inserting(u)
    BY <1>4, <1>t DEF UpdateWrite, Finish, Inserting, TypeOK
  <2>3. \A x \in Updating(u)' : x \in Updating(u) /\ row'[x] = row[x]
    BY <1>4, <1>t DEF UpdateWrite, Finish, Updating, TypeOK
  <2>4. \A e \in live : url'[e] = url[e] \/ (e = row[q] /\ url'[e] = dtoUrl[q])
    BY <1>t, <2>1 DEF TypeOK
  <2>5. dtoUrl[q] = u => q \in Updating(u)
    BY <2>1 DEF Updating
  <2>6. Held(u)' \subseteq Held(u)
    BY <2>1, <2>3, <2>4, <2>5 DEF Held
  <2> QED
    BY <2>2, <2>6, <1>k
<1>5. ASSUME NEW q \in Requests,
             CreateCount(q) \/ DeleteFind(q) \/ DeleteWrite(q) \/ Reject(q)
      PROVE Goal
  <2>1. live' \subseteq live /\ url' = url
    BY <1>5 DEF CreateCount, DeleteFind, DeleteWrite, Reject
  <2>2. Inserting(u)' \subseteq Inserting(u)
    BY <1>5, <1>t DEF CreateCount, DeleteFind, DeleteWrite, Reject, Finish, Inserting, TypeOK
  <2>3. \A x \in Updating(u)' : x \in Updating(u) /\ row'[x] = row[x]
    BY <1>5, <1>t DEF CreateCount, DeleteFind, DeleteWrite, Reject, Finish, Updating, TypeOK
  <2>4. Held(u)' \subseteq Held(u)
    BY <2>1, <2>3 DEF Held
  <2> QED
    BY <2>2, <2>4, <1>k
<1>6. CASE UNCHANGED vars
  <2>1. Held(u)' = Held(u) /\ Inserting(u)' = Inserting(u)
    BY <1>6 DEF vars, Held, Inserting, Updating
  <2> QED
    BY <2>1, <1>k
<1> QED
  BY <1>1, <1>2, <1>3, <1>4, <1>5, <1>6 DEF Next

\* checkDuplicateUrl and the write it is for are two queries: for every number n of
\* requests at a time, a user has at most n live endpoints of the same URL.
THEOREM UrlsBounded == Spec => []UrlCopies
<1>1. UrlInv => UrlCopies
  <2> SUFFICES ASSUME UrlInv, NEW u \in Urls
               PROVE  Cardinality(Copies(u)) <= Cardinality(Requests)
    BY DEF UrlCopies
  <2>1. TypeOK /\ Copies(u) \subseteq Held(u)
    BY DEF UrlInv, Copies, Held
  <2>2. Cardinality(Copies(u)) <= Cardinality(Held(u)) /\ Cardinality(Copies(u)) \in Nat
    BY <2>1, UrlCounted, FS_Subset, FS_CardinalityType
  <2> QED
    BY <2>1, <2>2, UrlCounted DEF UrlInv, UrlTracked
<1> QED
  BY <1>1, UrlInit, UrlStep, PTL DEF Spec

=============================================================================
