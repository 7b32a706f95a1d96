---------------------------- MODULE TablesProofs ----------------------------
(***************************************************************************)
(* The tables of users and admins implement soft deletion, and what their  *)
(* concurrent calls overrun is bounded, for every number of calls.  Every  *)
(* argument counts the calls that have found a row together with what      *)
(* such calls have already done to it.                                     *)
(***************************************************************************)
EXTENDS Posts, ChannelRegistry, Notifications, Accounts, FiniteSetTheorems, TLAPS

-----------------------------------------------------------------------------
(* Counting calls *)

\* Calls that are counted are finitely many, at most all of them.
LEMMA CallsCounted ==
    ASSUME NEW S, S \subseteq Calls
    PROVE  /\ IsFiniteSet(S)
           /\ Cardinality(S) \in Nat
           /\ Cardinality(S) <= Cardinality(Calls)
           /\ Cardinality(Calls) \in Nat
           /\ Others \in Nat
<1>1. IsFiniteSet(S) /\ Cardinality(S) <= Cardinality(Calls)
  BY FS_Subset, CallsAssumption
<1>2. Cardinality(Calls) \in Nat /\ Cardinality(Calls) # 0
  BY FS_CardinalityType, FS_EmptySet, CallsAssumption
<1> QED
  BY <1>1, <1>2, FS_CardinalityType DEF Others

\* Without one of its members a set of calls counts one less, and less than all.
LEMMA CallLeaves ==
    ASSUME NEW S, S \subseteq Calls, NEW T, NEW q \in Calls, T \subseteq S \ {q}
    PROVE  /\ Cardinality(T) \in Nat
           /\ Cardinality(T) <= Others
           /\ q \in S => Cardinality(T) <= Cardinality(S) - 1
<1>1. /\ IsFiniteSet(S)
      /\ IsFiniteSet(S \ {q})
      /\ IsFiniteSet(Calls \ {q})
  BY CallsCounted, FS_Subset, CallsAssumption
<1>2. /\ Cardinality(T) \in Nat
      /\ Cardinality(T) <= Cardinality(S \ {q})
      /\ Cardinality(T) <= Cardinality(Calls \ {q})
  BY <1>1, FS_Subset, FS_CardinalityType
<1>3. Cardinality(Calls \ {q}) = Cardinality(Calls) - 1
  BY FS_RemoveElement, CallsAssumption
<1>4. q \in S => Cardinality(S \ {q}) = Cardinality(S) - 1
  BY <1>1, FS_RemoveElement
<1>5. Cardinality(S) \in Nat /\ Cardinality(S \ {q}) \in Nat
  BY <1>1, FS_CardinalityType
<1> QED
  BY <1>2, <1>3, <1>4, <1>5 DEF Others

\* Late writes and holders stay within their bound when holders leave.
LEMMA LateKept ==
    ASSUME NEW H, H \subseteq Calls, NEW K, K \subseteq H, NEW late \in Nat,
           late + Cardinality(H) <= Others
    PROVE  late + Cardinality(K) <= Others
<1>1. /\ Cardinality(H) \in Nat
      /\ Cardinality(K) \in Nat
      /\ Cardinality(K) <= Cardinality(H)
      /\ Others \in Nat
  BY CallsCounted, FS_Subset, FS_CardinalityType
<1> QED
  BY <1>1

\* So they do when a holder makes way for a late write, for which there is room.
LEMMA LateTaken ==
    ASSUME NEW H, H \subseteq Calls, NEW q \in H, NEW K, K \subseteq H \ {q},
           NEW late \in Nat, late + Cardinality(H) <= Others
    PROVE  late < Others /\ (late + 1) + Cardinality(K) <= Others
<1>1. /\ Cardinality(H) \in Nat
      /\ Cardinality(K) \in Nat
      /\ Cardinality(K) <= Cardinality(H) - 1
      /\ Others \in Nat
  BY CallsCounted, CallLeaves
<1> QED
  BY <1>1

-----------------------------------------------------------------------------
(* Posts *)

PostsTypeOK ==
    /\ postLive \subseteq Posts
    /\ postGone \subseteq Posts
    /\ postLive \cap postGone = {}
    /\ views \in [Posts -> 0..MaxViews]
    /\ postCall \in [Calls -> PostCalls]
    /\ postLate \in [Posts -> Nat]
    /\ told \in [Posts -> [1..MaxViews -> Nat]]

\* A call holds a post that it has found live, now or before.
PostsHeld ==
    \A q \in Calls : postCall[q] # Idle =>
      /\ postCall[q].post \in postLive \cup postGone
      /\ postCall[q].seen <= views[postCall[q].post]

HoldingPost(p) == {q \in Calls : postCall[q] # Idle /\ postCall[q].post = p}

\* What has reached a deleted post and what still may is less than all the calls.
LatePostsTracked ==
    \A p \in Posts :
      IF p \in postGone
        THEN postLate[p] + Cardinality(HoldingPost(p)) <= Others
        ELSE postLate[p] = 0

\* The calls that will tell the reader of p the number n.
Telling(p, n) == {q \in HoldingPost(p) : postCall[q].seen + 1 = n}

\* A number is told only once the counter has reached it, by a call that had found
\* the one before; no call finds that one any more.
TellingTracked ==
    \A p \in Posts, n \in 1..MaxViews :
      IF n <= views[p]
        THEN told[p][n] + Cardinality(Telling(p, n)) <= Cardinality(Calls)
        ELSE told[p][n] = 0

PostsInv == PostsTypeOK /\ PostsHeld /\ LatePostsTracked /\ TellingTracked

\* A call is idle or names a post and a number.
LEMMA PostCallTyped ==
    ASSUME PostsTypeOK, NEW q \in Calls, postCall[q] # Idle
    PROVE  /\ postCall[q].op \in PostOps
           /\ postCall[q].post \in Posts
           /\ postCall[q].seen \in 0..MaxViews
BY DEF PostsTypeOK, PostCalls

\* The mark of an idle call is that of no operation.
LEMMA PostCallBusy ==
    ASSUME NEW q \in Calls, postCall[q].op \in PostOps
    PROVE  postCall[q] # Idle
BY DEF Idle, PostOps

\* No posts, no calls.
LEMMA PostsInvInit == PostsInit => PostsInv
<1> SUFFICES ASSUME PostsInit
             PROVE  PostsInv
  OBVIOUS
<1>1. PostsTypeOK
  BY PostsAssumption DEF PostsInit, PostsTypeOK, PostCalls
<1>2. PostsHeld
  BY DEF PostsInit, PostsHeld
<1>3. LatePostsTracked
  BY DEF PostsInit, LatePostsTracked
<1>4. TellingTracked
  BY DEF PostsInit, TellingTracked
<1> QED
  BY <1>1, <1>2, <1>3, <1>4 DEF PostsInv

\* The row counts one view more, and its reader is told at most that count.
LEMMA ViewTold ==
    ASSUME PostsTypeOK, PostsHeld, NEW q \in Calls, IncrementViewCount(q)
    PROVE  LET p == postCall[q].post
               n == postCall[q].seen + 1
           IN  /\ postCall[q] # Idle
               /\ p \in Posts
               /\ n \in 1..MaxViews
               /\ n <= views[p] + 1
               /\ views' = [views EXCEPT ![p] = @ + 1]
               /\ views' \in [Posts -> 0..MaxViews]
               /\ told' \in [Posts -> [1..MaxViews -> Nat]]
               /\ \A r \in Posts, k \in 1..MaxViews :
                    told'[r][k] = IF r = p /\ k = n THEN told[r][k] + 1 ELSE told[r][k]
<1> DEFINE p == postCall[q].post
           n == postCall[q].seen + 1
<1>1. postCall[q].op \in PostOps
  BY DEF IncrementViewCount, WritePost, PostOps
<1>2. postCall[q] # Idle /\ p \in Posts /\ postCall[q].seen \in 0..MaxViews
  BY <1>1, PostCallBusy, PostCallTyped
<1>3. views[p] \in 0..MaxViews /\ views[p] < MaxViews /\ postCall[q].seen <= views[p]
  BY <1>2 DEF IncrementViewCount, PostsHeld, PostsTypeOK
<1>4. n \in 1..MaxViews /\ n <= views[p] + 1
  BY <1>2, <1>3, PostsAssumption
<1>5. /\ views' = [views EXCEPT ![p] = views[p] + 1]
      /\ told' = [told EXCEPT ![p] = [told[p] EXCEPT ![n] = told[p][n] + 1]]
  BY DEF IncrementViewCount
<1>6. views' \in [Posts -> 0..MaxViews]
  BY <1>2, <1>3, <1>5, PostsAssumption DEF PostsTypeOK
<1> HIDE DEF p, n
<1>7. told[p] \in [1..MaxViews -> Nat] /\ told[p][n] \in Nat
  BY <1>2, <1>4 DEF PostsTypeOK
<1>8. [told[p] EXCEPT ![n] = told[p][n] + 1] \in [1..MaxViews -> Nat]
  BY <1>4, <1>7
<1>9. told' \in [Posts -> [1..MaxViews -> Nat]]
  BY <1>2, <1>5, <1>8 DEF PostsTypeOK
<1>10. ASSUME NEW r \in Posts, NEW k \in 1..MaxViews
       PROVE  told'[r][k] = IF r = p /\ k = n THEN told[r][k] + 1 ELSE told[r][k]
  <2>1. CASE r = p
    <3>1. told'[r] = [told[r] EXCEPT ![n] = told[r][n] + 1]
      BY <1>2, <1>5, <2>1 DEF PostsTypeOK
    <3> QED
      BY <1>4, <1>7, <2>1, <3>1
  <2>2. CASE r # p
    BY <1>2, <1>5, <2>2 DEF PostsTypeOK
  <2> QED
    BY <2>1, <2>2
<1> QED
  BY <1>2, <1>4, <1>5, <1>6, <1>9, <1>10 DEF p, n

\* Every handler keeps the types.
LEMMA PostsTypeStep == PostsInv /\ [PostsNext]_postVars => PostsTypeOK'
<1> SUFFICES ASSUME PostsInv, [PostsNext]_postVars
             PROVE  PostsTypeOK'
  OBVIOUS
<1>t. PostsTypeOK /\ PostsHeld
  BY DEF PostsInv
<1>i. Idle \in PostCalls
  BY DEF PostCalls
<1>1. CASE SavePost
  BY <1>t, <1>1 DEF SavePost, PostsTypeOK
<1>2. ASSUME NEW q \in Calls, NEW op \in PostOps, NEW p \in Posts, FoundPost(q, op, p)
      PROVE  PostsTypeOK'
  <2>1. [op |-> op, post |-> p, seen |-> views[p]] \in PostCalls
    BY <1>t DEF PostsTypeOK, PostCalls
  <2> QED
    BY <1>t, <1>2, <2>1 DEF FoundPost, PostsTypeOK
<1>3. ASSUME NEW q \in Calls, FindOwnPost(q) \/ FindAnyPost(q) PROVE PostsTypeOK'
  BY <1>t, <1>2, <1>3 DEF FindOwnPost, FindAnyPost, PostOps, PostsTypeOK
<1>4. ASSUME NEW q \in Calls, IncrementViewCount(q) PROVE PostsTypeOK'
  <2>1. /\ postCall[q].post \in Posts
        /\ views' \in [Posts -> 0..MaxViews]
        /\ told' \in [Posts -> [1..MaxViews -> Nat]]
    BY <1>t, <1>4, ViewTold
  <2>2. postCall' \in [Calls -> PostCalls] /\ postLate' \in [Posts -> Nat]
    BY <1>t, <1>i, <1>4, <2>1 DEF IncrementViewCount, WritePost, PostsTypeOK
  <2> QED
    BY <1>t, <1>4, <2>1, <2>2 DEF IncrementViewCount, PostsTypeOK
<1>5. ASSUME NEW q \in Calls, UpdatePost(q) PROVE PostsTypeOK'
  BY <1>t, <1>i, <1>5 DEF UpdatePost, WritePost, PostsTypeOK
<1>6. ASSUME NEW q \in Calls, SoftDeletePost(q) PROVE PostsTypeOK'
  <2>1. postCall[q].op \in PostOps
    BY <1>6 DEF SoftDeletePost, WritePost, PostOps
  <2>2. postCall[q].post \in Posts
    BY <1>t, <2>1, PostCallBusy, PostCallTyped
  <2> QED
    BY <1>t, <1>i, <1>6, <2>2 DEF SoftDeletePost, WritePost, PostsTypeOK
<1>7. ASSUME NEW q \in Calls, AbandonPost(q) PROVE PostsTypeOK'
  BY <1>t, <1>i, <1>7 DEF AbandonPost, PostsTypeOK
<1>8. CASE UNCHANGED postVars
  BY <1>t, <1>8 DEF postVars, PostsTypeOK
<1> QED
  BY <1>1, <1>3, <1>4, <1>5, <1>6, <1>7, <1>8 DEF PostsNext

\* A call that ends holds no post any more and tells no number.
LEMMA PostCallEnds ==
    ASSUME PostsTypeOK, NEW q \in Calls, postCall' = [postCall EXCEPT ![q] = Idle],
           NEW p, NEW n
    PROVE  /\ HoldingPost(p)' \subseteq HoldingPost(p) \ {q}
           /\ Telling(p, n)' \subseteq Telling(p, n) \ {q}
BY DEF PostsTypeOK, HoldingPost, Telling

\* A call that finds a post holds that post.
LEMMA PostCallBegins ==
    ASSUME PostsTypeOK, NEW q \in Calls, NEW op, NEW p, FoundPost(q, op, p),
           NEW r, NEW n
    PROVE  /\ r # p => HoldingPost(r)' \subseteq HoldingPost(r)
           /\ (r # p \/ n # views[p] + 1) => Telling(r, n)' \subseteq Telling(r, n)
BY DEF PostsTypeOK, HoldingPost, Telling, FoundPost

\* The steps of a call that write nothing a held post depends on.
LEMMA PostsHeldStep == PostsInv /\ [PostsNext]_postVars => PostsHeld'
<1> SUFFICES ASSUME PostsInv, [PostsNext]_postVars
             PROVE  PostsHeld'
  OBVIOUS
<1>t. PostsTypeOK /\ PostsHeld
  BY DEF PostsInv
<1>1. CASE SavePost
  BY <1>t, <1>1 DEF SavePost, PostsHeld
<1>2. ASSUME NEW q \in Calls, NEW op, NEW p \in postLive, FoundPost(q, op, p)
      PROVE  PostsHeld'
  <2>1. views[p] \in 0..MaxViews
    BY <1>t DEF PostsTypeOK
  <2> QED
    BY <1>t, <1>2, <2>1, PostsAssumption DEF FoundPost, PostsHeld, PostsTypeOK
<1>3. ASSUME NEW q \in Calls, FindOwnPost(q) \/ FindAnyPost(q) PROVE PostsHeld'
  BY <1>2, <1>3 DEF FindOwnPost, FindAnyPost
<1>4. ASSUME NEW q \in Calls, IncrementViewCount(q) PROVE PostsHeld'
  <2>1. \A p \in Posts : views[p] <= views'[p]
    <3>1. PICK p \in Posts : views' = [views EXCEPT ![p] = views[p] + 1]
      BY <1>t, <1>4, ViewTold
    <3>2. \A r \in Posts : views[r] \in Nat
      BY <1>t, PostsAssumption DEF PostsTypeOK
    <3> QED
      BY <1>t, <3>1, <3>2 DEF PostsTypeOK
  <2>2. postCall' = [postCall EXCEPT ![q] = Idle] /\ UNCHANGED <<postLive, postGone>>
    BY <1>4 DEF IncrementViewCount, WritePost
  <2>3. \A r \in Calls : postCall'[r] # Idle =>
          /\ postCall[r] # Idle
          /\ postCall'[r] = postCall[r]
    BY <1>t, <2>2 DEF PostsTypeOK
  <2>4. ASSUME NEW r \in Calls, postCall'[r] # Idle
        PROVE  /\ postCall'[r].post \in postLive' \cup postGone'
               /\ postCall'[r].seen <= views'[postCall'[r].post]
    <3>1. /\ postCall[r].post \in Posts
          /\ postCall[r].seen \in 0..MaxViews
      BY <1>t, <2>3, <2>4, PostCallTyped
    <3>2. /\ views[postCall[r].post] \in 0..MaxViews
          /\ views'[postCall[r].post] \in 0..MaxViews
      BY <1>t, <1>4, <3>1, ViewTold DEF PostsTypeOK
    <3> QED
      BY <1>t, <2>1, <2>2, <2>3, <2>4, <3>1, <3>2, PostsAssumption DEF PostsHeld
  <2> QED
    BY <2>4 DEF PostsHeld
<1>5. ASSUME NEW q \in Calls, UpdatePost(q) \/ SoftDeletePost(q) \/ AbandonPost(q)
      PROVE  PostsHeld'
  BY <1>t, <1>5 DEF UpdatePost, SoftDeletePost, AbandonPost, WritePost, PostsHeld, PostsTypeOK
<1>6. CASE UNCHANGED postVars
  BY <1>t, <1>6 DEF postVars, PostsHeld
<1> QED
  BY <1>1, <1>3, <1>4, <1>5, <1>6 DEF PostsNext

\* A write of a held post: a late one takes the place of its call, and the first
\* deletion leaves the calls other than its own.
LEMMA LateWriteOfPost ==
    ASSUME PostsInv, NEW q \in Calls, NEW ops \in SUBSET PostOps, WritePost(q, ops),
           \/ postGone' = postGone
           \/ postGone' = postGone \cup {postCall[q].post}
    PROVE  LatePostsTracked'
<1> DEFINE p == postCall[q].post
<1>t. PostsTypeOK /\ LatePostsTracked
  BY DEF PostsInv
<1>1. postCall[q] # Idle /\ p \in Posts
  BY <1>t, PostCallBusy, PostCallTyped DEF WritePost
<1>2. postCall' = [postCall EXCEPT ![q] = Idle]
  BY DEF WritePost
<1>3. postLate' = IF p \in postGone THEN [postLate EXCEPT ![p] = postLate[p] + 1] ELSE postLate
  BY DEF WritePost
<1> SUFFICES ASSUME NEW r \in Posts
             PROVE  IF r \in postGone'
                      THEN postLate'[r] + Cardinality(HoldingPost(r)') <= Others
                      ELSE postLate'[r] = 0
  BY DEF LatePostsTracked, HoldingPost
<1>4. HoldingPost(r) \subseteq Calls /\ HoldingPost(r)' \subseteq HoldingPost(r) \ {q}
  BY <1>t, <1>2, PostCallEnds DEF HoldingPost
<1>5. r = p => q \in HoldingPost(r)
  BY <1>1 DEF HoldingPost
<1>6. /\ Cardinality(HoldingPost(r)) \in Nat
      /\ Cardinality(HoldingPost(r)') \in Nat
      /\ Cardinality(HoldingPost(r)') <= Cardinality(HoldingPost(r))
      /\ Cardinality(HoldingPost(r)') <= Others
      /\ r = p => Cardinality(HoldingPost(r)') <= Cardinality(HoldingPost(r)) - 1
      /\ Others \in Nat
  <2>1. Cardinality(HoldingPost(r)') <= Cardinality(HoldingPost(r))
    BY <1>4, CallsCounted, FS_Subset
  <2> QED
    BY <1>4, <1>5, <2>1, CallsCounted, CallLeaves
<1>7. /\ postLate[r] \in Nat
      /\ IF r \in postGone
           THEN postLate[r] + Cardinality(HoldingPost(r)) <= Others
           ELSE postLate[r] = 0
  BY <1>t DEF PostsTypeOK, LatePostsTracked
<1>8. postLate'[r] = IF r = p /\ r \in postGone THEN postLate[r] + 1 ELSE postLate[r]
  BY <1>t, <1>1, <1>3 DEF PostsTypeOK
<1> HIDE DEF p
<1>9. \/ postGone' = postGone
      \/ postGone' = postGone \cup {p}
  BY DEF p
<1> QED
  BY <1>6, <1>7, <1>8, <1>9

\* Only calls that find a post are added, and they find live ones.
LEMMA LatePostsStep == PostsInv /\ [PostsNext]_postVars => LatePostsTracked'
<1> SUFFICES ASSUME PostsInv, [PostsNext]_postVars
             PROVE  LatePostsTracked'
  OBVIOUS
<1>t. PostsTypeOK /\ LatePostsTracked
  BY DEF PostsInv
<1>k. ASSUME UNCHANGED <<postGone, postLate>>,
             \A r \in postGone : HoldingPost(r)' \subseteq HoldingPost(r)
      PROVE  LatePostsTracked'
  <2>1. ASSUME NEW r \in postGone
        PROVE  /\ Cardinality(HoldingPost(r)') <= Cardinality(HoldingPost(r))
               /\ Cardinality(HoldingPost(r)') \in Nat
               /\ Cardinality(HoldingPost(r)) \in Nat
    <3>1. HoldingPost(r) \subseteq Calls /\ HoldingPost(r)' \subseteq Calls
      BY <1>k, <2>1 DEF HoldingPost
    <3> QED
      BY <1>k, <2>1, <3>1, CallsCounted, FS_Subset
  <2>2. \A r \in Posts : postLate[r] \in Nat
    BY <1>t DEF PostsTypeOK
  <2>3. Others \in Nat
    BY CallsCounted
  <2> HIDE DEF HoldingPost
  <2> QED
    BY <1>t, <1>k, <2>1, <2>2, <2>3 DEF LatePostsTracked
<1>1. CASE SavePost
  BY <1>1, <1>k DEF SavePost, HoldingPost
<1>2. ASSUME NEW q \in Calls, NEW op, NEW p \in postLive, FoundPost(q, op, p)
      PROVE  LatePostsTracked'
  <2>1. UNCHANGED <<postGone, postLate>> /\ p \notin postGone
    BY <1>t, <1>2 DEF FoundPost, PostsTypeOK
  <2> QED
    BY <1>t, <1>2, <1>k, <2>1, PostCallBegins
<1>3. ASSUME NEW q \in Calls, FindOwnPost(q) \/ FindAnyPost(q) PROVE LatePostsTracked'
  BY <1>2, <1>3 DEF FindOwnPost, FindAnyPost
<1>4. ASSUME NEW q \in Calls, IncrementViewCount(q) \/ UpdatePost(q) PROVE LatePostsTracked'
  BY <1>4, LateWriteOfPost DEF IncrementViewCount, UpdatePost, PostOps
<1>5. ASSUME NEW q \in Calls, SoftDeletePost(q) PROVE LatePostsTracked'
  BY <1>5, LateWriteOfPost DEF SoftDeletePost, PostOps
<1>6. ASSUME NEW q \in Calls, AbandonPost(q) PROVE LatePostsTracked'
  BY <1>t, <1>6, <1>k, PostCallEnds DEF AbandonPost
<1>7. CASE UNCHANGED postVars
  BY <1>7, <1>k DEF postVars, HoldingPost
<1> QED
  BY <1>1, <1>3, <1>4, <1>5, <1>6, <1>7 DEF PostsNext

\* A count of tellers bounds what they have told and will tell.
LEMMA TellersCounted ==
    ASSUME PostsTypeOK, NEW p \in Posts, NEW n \in 1..MaxViews
    PROVE  /\ Telling(p, n) \subseteq Calls
           /\ Cardinality(Telling(p, n)) \in Nat
           /\ told[p][n] \in Nat
           /\ views[p] \in Nat
           /\ n \in Nat
           /\ Cardinality(Calls) \in Nat
<1>1. Telling(p, n) \subseteq Calls
  BY DEF Telling, HoldingPost
<1> QED
  BY <1>1, CallsCounted, PostsAssumption DEF PostsTypeOK

\* The teller of a number that is new was the last that could tell it for the first
\* time; calls that begin tell numbers the counter has yet to reach.
LEMMA TellingStep == PostsInv /\ [PostsNext]_postVars => TellingTracked'
<1> SUFFICES ASSUME PostsInv, [PostsNext]_postVars,
                    NEW p \in Posts, NEW n \in 1..MaxViews
             PROVE  IF n <= views'[p]
                      THEN told'[p][n] + Cardinality(Telling(p, n)') <= Cardinality(Calls)
                      ELSE told'[p][n] = 0
  BY DEF TellingTracked, Telling, HoldingPost
<1>t. PostsTypeOK /\ PostsTypeOK' /\ PostsHeld
  BY PostsTypeStep DEF PostsInv
<1>c. /\ Telling(p, n) \subseteq Calls
      /\ Telling(p, n)' \subseteq Calls
      /\ Cardinality(Telling(p, n)) \in Nat
      /\ Cardinality(Telling(p, n)') \in Nat
      /\ Cardinality(Telling(p, n)') <= Cardinality(Calls)
      /\ Cardinality(Calls) \in Nat
      /\ told[p][n] \in Nat
      /\ views[p] \in Nat
      /\ n \in Nat
  <2>1. Telling(p, n)' \subseteq Calls
    BY DEF Telling, HoldingPost
  <2> QED
    BY <1>t, <2>1, TellersCounted, CallsCounted
<1>p. IF n <= views[p]
        THEN told[p][n] + Cardinality(Telling(p, n)) <= Cardinality(Calls)
        ELSE told[p][n] = 0
  BY DEF PostsInv, TellingTracked
<1> DEFINE Goal == IF n <= views'[p]
                     THEN told'[p][n] + Cardinality(Telling(p, n)') <= Cardinality(Calls)
                     ELSE told'[p][n] = 0
<1>k. ASSUME UNCHANGED <<views, told>>,
             n <= views[p] => Telling(p, n)' \subseteq Telling(p, n)
      PROVE  Goal
  <2>1. n <= views[p] => Cardinality(Telling(p, n)') <= Cardinality(Telling(p, n))
    BY <1>c, <1>k, CallsCounted, FS_Subset
  <2>2. views' = views /\ told' = told
    BY <1>k
  <2> QED
    BY <1>c, <1>p, <2>1, <2>2
<1>1. CASE SavePost
  BY <1>1, <1>k DEF SavePost, Telling, HoldingPost
<1>2. ASSUME NEW q \in Calls, NEW op, NEW r, FoundPost(q, op, r)
      PROVE  Goal
  <2>1. UNCHANGED <<views, told>>
    BY <1>2 DEF FoundPost
  <2>2. n <= views[p] => (p # r \/ n # views[r] + 1)
    BY <1>c
  <2> QED
    BY <1>t, <1>2, <1>k, <2>1, <2>2, PostCallBegins
<1>3. ASSUME NEW q \in Calls, FindOwnPost(q) \/ FindAnyPost(q) PROVE Goal
  BY <1>2, <1>3 DEF FindOwnPost, FindAnyPost
<1>4. ASSUME NEW q \in Calls, IncrementViewCount(q) PROVE Goal
  <2> DEFINE r == postCall[q].post
             k == postCall[q].seen + 1
  <2>1. /\ postCall[q] # Idle
        /\ r \in Posts
        /\ k <= views[r] + 1
        /\ views' = [views EXCEPT ![r] = @ + 1]
        /\ told'[p][n] = IF p = r /\ n = k THEN told[p][n] + 1 ELSE told[p][n]
    BY <1>t, <1>4, ViewTold
  <2>2. postCall' = [postCall EXCEPT ![q] = Idle]
    BY <1>4 DEF IncrementViewCount, WritePost
  <2>3. Telling(p, n)' \subseteq Telling(p, n) \ {q}
    BY <1>t, <2>2, PostCallEnds
  <2>4. p = r /\ n = k => q \in Telling(p, n)
    BY <2>1 DEF Telling, HoldingPost
  <2>5. /\ Cardinality(Telling(p, n)') <= Cardinality(Telling(p, n))
        /\ Cardinality(Telling(p, n)') <= Cardinality(Calls) - 1
        /\ p = r /\ n = k => Cardinality(Telling(p, n)') <= Cardinality(Telling(p, n)) - 1
    <3>1. Cardinality(Telling(p, n)') <= Cardinality(Telling(p, n))
      BY <1>c, <2>3, CallsCounted, FS_Subset
    <3> QED
      BY <1>c, <2>3, <2>4, <3>1, CallLeaves DEF Others
  <2>6. views'[p] = IF p = r THEN views[p] + 1 ELSE views[p]
    BY <1>t, <2>1 DEF PostsTypeOK
  <2> HIDE DEF r, k
  <2> QED
    BY <1>c, <1>p, <2>1, <2>5, <2>6
<1>5. ASSUME NEW q \in Calls, UpdatePost(q) \/ SoftDeletePost(q) \/ AbandonPost(q)
      PROVE  Goal
  <2>1. postCall' = [postCall EXCEPT ![q] = Idle] /\ UNCHANGED <<views, told>>
    BY <1>5 DEF UpdatePost, SoftDeletePost, AbandonPost, WritePost
  <2> QED
    BY <1>t, <1>k, <2>1, PostCallEnds
<1>6. CASE UNCHANGED postVars
  BY <1>6, <1>k DEF postVars, Telling, HoldingPost
<1> QED
  BY <1>1, <1>3, <1>4, <1>5, <1>6 DEF PostsNext

\* Every handler keeps what is tracked.
LEMMA PostsInvStep == PostsInv /\ [PostsNext]_postVars => PostsInv'
BY PostsTypeStep, PostsHeldStep, LatePostsStep, TellingStep DEF PostsInv

\* getPost answers with the number it has read and one, while the increment is a
\* statement of its own: for every number n of calls at a time, no reader is told
\* a number the counter has not reached, and at most n are told the same one.
THEOREM ViewsAlwaysCounted == PostsSpec => []ViewsCounted
<1>1. ASSUME PostsInv PROVE ViewsCounted
  <2>1. ASSUME NEW p \in Posts, NEW n \in 1..MaxViews
        PROVE  (told[p][n] > 0 => n <= views[p]) /\ told[p][n] <= Cardinality(Calls)
    BY <1>1, TellersCounted DEF PostsInv, TellingTracked
  <2> QED
    BY <2>1 DEF ViewsCounted
<1> QED
  BY <1>1, PostsInvInit, PostsInvStep, PTL DEF PostsSpec

\* An edit, a view and a second deletion of a deleted post are late writes, a first
\* deletion is a removal, and every other step leaves the rows alone.
LEMMA PostsRefine == PostsInv /\ [PostsNext]_postVars => [PostRows!Next]_(PostRows!vars)
<1> SUFFICES ASSUME PostsInv, [PostsNext]_postVars
             PROVE  PostRows!Next \/ UNCHANGED <<postLive, postGone, postLate>>
  BY DEF PostRows!vars
<1>t. PostsTypeOK /\ PostsHeld /\ LatePostsTracked
  BY DEF PostsInv
<1>w. ASSUME NEW q \in Calls, NEW ops \in SUBSET PostOps, WritePost(q, ops)
      PROVE  LET p == postCall[q].post IN
             /\ p \in Posts
             /\ p \in postLive \cup postGone
             /\ p \in postGone => postLate[p] < Others /\ postLate' = [postLate EXCEPT ![p] = @ + 1]
             /\ p \notin postGone => postLate' = postLate
  <2> DEFINE p == postCall[q].post
  <2>1. postCall[q] # Idle /\ p \in Posts
    BY <1>t, <1>w, PostCallBusy, PostCallTyped DEF WritePost
  <2>2. p \in postLive \cup postGone
    BY <1>t, <2>1 DEF PostsHeld
  <2>3. HoldingPost(p) \subseteq Calls /\ q \in HoldingPost(p)
    BY <2>1 DEF HoldingPost
  <2>4. /\ Cardinality(HoldingPost(p)) \in Nat
        /\ Cardinality(HoldingPost(p) \ {q}) \in Nat
        /\ Cardinality(HoldingPost(p) \ {q}) <= Cardinality(HoldingPost(p)) - 1
        /\ Others \in Nat
    BY <2>3, CallsCounted, CallLeaves
  <2>5. p \in postGone => postLate[p] + Cardinality(HoldingPost(p)) <= Others
    BY <1>t, <2>1 DEF LatePostsTracked
  <2>6. postLate[p] \in Nat
    BY <1>t, <2>1 DEF PostsTypeOK
  <2>7. p \in postGone => postLate[p] < Others
    <3> HIDE DEF p
    <3> QED
      BY <2>4, <2>5, <2>6
  <2> QED
    BY <1>w, <2>1, <2>2, <2>7 DEF WritePost
<1>1. CASE SavePost
  BY <1>t, <1>1 DEF SavePost, PostRows!Next, PostRows!Add, PostsTypeOK
<1>2. ASSUME NEW q \in Calls, FindOwnPost(q) \/ FindAnyPost(q) \/ AbandonPost(q)
      PROVE  UNCHANGED <<postLive, postGone, postLate>>
  BY <1>2 DEF FindOwnPost, FindAnyPost, FoundPost, AbandonPost
<1>3. ASSUME NEW q \in Calls, NEW ops \in SUBSET PostOps, WritePost(q, ops),
             UNCHANGED <<postLive, postGone>>
      PROVE  PostRows!Next \/ UNCHANGED <<postLive, postGone, postLate>>
  BY <1>w, <1>3 DEF PostRows!Next, PostRows!WriteLate
<1>4. ASSUME NEW q \in Calls, IncrementViewCount(q) \/ UpdatePost(q)
      PROVE  PostRows!Next \/ UNCHANGED <<postLive, postGone, postLate>>
  BY <1>3, <1>4 DEF IncrementViewCount, UpdatePost, PostOps
<1>5. ASSUME NEW q \in Calls, SoftDeletePost(q)
      PROVE  PostRows!Next \/ UNCHANGED <<postLive, postGone, postLate>>
  <2> DEFINE p == postCall[q].post
  <2>1. /\ WritePost(q, {"deletePost", "adminDeletePost"})
        /\ {"deletePost", "adminDeletePost"} \in SUBSET PostOps
        /\ postLive' = postLive \ {p}
        /\ postGone' = postGone \cup {p}
    BY <1>5 DEF SoftDeletePost, PostOps
  <2>2. CASE p \in postGone
    <3>1. UNCHANGED <<postLive, postGone>>
      BY <1>t, <2>1, <2>2 DEF PostsTypeOK
    <3> QED
      BY <1>3, <2>1, <3>1
  <2>3. CASE p \notin postGone
    <3>1. p \in postLive /\ p \in Posts /\ postLate' = postLate
      BY <1>w, <2>1, <2>3
    <3> QED
      BY <2>1, <3>1 DEF PostRows!Next, PostRows!Remove
  <2> QED
    BY <2>2, <2>3
<1>6. CASE UNCHANGED postVars
  BY <1>6 DEF postVars
<1> QED
  BY <1>1, <1>2, <1>4, <1>5, <1>6 DEF PostsNext

\* The post services find a live row and write it by its id alone in a later query:
\* for every number of calls no deleted post comes back, and only the calls other
\* than the one that deleted it still write to it, each at most once.
THEOREM PostsRefineSoftDeleted == PostsSpec => PostsAreSoftDeleted
<1>1. PostsInit => PostRows!Init
  BY DEF PostsInit, PostRows!Init
<1> QED
  BY <1>1, PostsInvInit, PostsInvStep, PostsRefine, PTL
  DEF PostsSpec, PostsAreSoftDeleted, PostRows!Spec

-----------------------------------------------------------------------------
(* Channels *)

CreatingOps == {"checkNew", "insert"}
WritingOps == {"checkEdit", "edit", "remove"}
ChannelCalls ==
    {Idle}
    \cup [op : CreatingOps, channel : {NoChannel}, url : ChannelUrls]
    \cup [op : WritingOps, channel : Channels, url : ChannelUrls \cup {NoChannelUrl}]

ChannelsTypeOK ==
    /\ chLive \subseteq Channels
    /\ chGone \subseteq Channels
    /\ chLive \cap chGone = {}
    /\ chCall \in [Calls -> ChannelCalls]
    /\ chLate \in [Channels -> Nat]

\* A call about to write holds a channel that it has found live, now or before.
ChannelsHeld ==
    \A q \in Calls : chCall[q].op \in WritingOps => chCall[q].channel \in chLive \cup chGone

HoldingChannel(c) == {q \in Calls : chCall[q].op \in WritingOps /\ chCall[q].channel = c}

LateChannelsTracked ==
    \A c \in Channels :
      IF c \in chGone
        THEN chLate[c] + Cardinality(HoldingChannel(c)) <= Others
        ELSE chLate[c] = 0

\* The calls that have passed the count and may still insert.
CreatingChannels == {q \in Calls : chCall[q].op \in CreatingOps}

CreatingTracked == Cardinality(chLive) + Cardinality(CreatingChannels) <= MaxChannels + Others

ChannelsInv == ChannelsTypeOK /\ ChannelsHeld /\ LateChannelsTracked /\ CreatingTracked

\* No channels, no calls.
LEMMA ChannelsInvInit == ChannelsInit => ChannelsInv
<1> SUFFICES ASSUME ChannelsInit
             PROVE  ChannelsInv
  OBVIOUS
<1>1. ChannelsTypeOK
  BY DEF ChannelsInit, ChannelsTypeOK, ChannelCalls
<1>2. ChannelsHeld
  BY DEF ChannelsInit, ChannelsHeld, Idle, WritingOps
<1>3. LateChannelsTracked
  BY DEF ChannelsInit, LateChannelsTracked
<1>4. chLive = {} /\ CreatingChannels = {}
  BY DEF ChannelsInit, CreatingChannels, Idle, CreatingOps
<1>5. Cardinality(chLive) = 0 /\ Cardinality(CreatingChannels) = 0
  BY <1>4, FS_EmptySet
<1>6. Others \in Nat
  BY CallsCounted
<1> QED
  BY <1>1, <1>2, <1>3, <1>5, <1>6, ChannelsAssumption DEF ChannelsInv, CreatingTracked

\* What a call is about says what it holds.
LEMMA ChannelCallTyped ==
    ASSUME ChannelsTypeOK, NEW q \in Calls
    PROVE  /\ chCall[q].op \in CreatingOps => chCall[q].url \in ChannelUrls /\ chCall[q].channel = NoChannel
           /\ chCall[q].op \in WritingOps =>
                /\ chCall[q].channel \in Channels
                /\ chCall[q].url \in ChannelUrls \cup {NoChannelUrl}
           /\ chCall[q].op \in CreatingOps \cup WritingOps => chCall[q] = [op |-> chCall[q].op, channel |-> chCall[q].channel, url |-> chCall[q].url]
BY DEF ChannelsTypeOK, ChannelCalls, CreatingOps, WritingOps, Idle

\* A call that goes on is at its next query.
LEMMA ChannelCallGoesOn ==
    ASSUME ChannelsTypeOK, NEW q \in Calls, NEW op
    PROVE  [chCall[q] EXCEPT !.op = op].op = op
BY DEF ChannelsTypeOK, ChannelCalls, Idle

\* Every handler keeps the types and what its calls hold.
LEMMA ChannelsTypeStep == ChannelsInv /\ [ChannelsNext]_chVars => ChannelsTypeOK' /\ ChannelsHeld'
<1> SUFFICES ASSUME ChannelsInv, [ChannelsNext]_chVars
             PROVE  ChannelsTypeOK' /\ ChannelsHeld'
  OBVIOUS
<1>t. ChannelsTypeOK /\ ChannelsHeld
  BY DEF ChannelsInv
<1>i. Idle \in ChannelCalls /\ Idle.op \notin WritingOps
  BY DEF ChannelCalls, Idle, WritingOps
<1>c. ASSUME NEW q \in Calls, NEW c \in ChannelCalls, chCall' = [chCall EXCEPT ![q] = c],
             c.op \in WritingOps => c.channel \in chLive \cup chGone,
             chLive \cup chGone \subseteq chLive' \cup chGone'
      PROVE  chCall' \in [Calls -> ChannelCalls] /\ ChannelsHeld'
  BY <1>t, <1>c DEF ChannelsTypeOK, ChannelsHeld
<1>1. ASSUME NEW q \in Calls, CountChannels(q) PROVE ChannelsTypeOK' /\ ChannelsHeld'
  <2>1. PICK u \in ChannelUrls :
          chCall' = [chCall EXCEPT ![q] = [op |-> "checkNew", channel |-> NoChannel, url |-> u]]
    BY <1>1 DEF CountChannels, ChannelCall
  <2>2. [op |-> "checkNew", channel |-> NoChannel, url |-> u] \in ChannelCalls
    BY DEF ChannelCalls, CreatingOps
  <2>3. UNCHANGED <<chLive, chGone, chLate>>
    BY <1>1 DEF CountChannels
  <2> QED
    BY <1>t, <1>c, <2>1, <2>2, <2>3 DEF ChannelsTypeOK, WritingOps
<1>2. ASSUME NEW q \in Calls, CheckNewUrl(q) PROVE ChannelsTypeOK' /\ ChannelsHeld'
  <2>1. chCall' = [chCall EXCEPT ![q] = [chCall[q] EXCEPT !.op = "insert"]]
    BY <1>2 DEF CheckNewUrl, ChannelCall
  <2>2. [chCall[q] EXCEPT !.op = "insert"] = [op |-> "insert", channel |-> NoChannel, url |-> chCall[q].url]
    <3>1. PICK u \in ChannelUrls :
            chCall[q] = [op |-> "checkNew", channel |-> NoChannel, url |-> u]
      BY <1>t, <1>2, ChannelCallTyped DEF CheckNewUrl, CreatingOps
    <3> QED
      BY <3>1
  <2>3. [op |-> "insert", channel |-> NoChannel, url |-> chCall[q].url] \in ChannelCalls
    BY <1>t, <1>2, ChannelCallTyped DEF CheckNewUrl, ChannelCalls, CreatingOps
  <2>4. UNCHANGED <<chLive, chGone, chLate>>
    BY <1>2 DEF CheckNewUrl
  <2> QED
    BY <1>t, <1>c, <2>1, <2>2, <2>3, <2>4 DEF ChannelsTypeOK, WritingOps
<1>3. ASSUME NEW q \in Calls, InsertChannel(q) PROVE ChannelsTypeOK' /\ ChannelsHeld'
  <2>1. /\ chCall' = [chCall EXCEPT ![q] = Idle]
        /\ UNCHANGED <<chGone, chLate>>
        /\ \E c \in Channels \ (chLive \cup chGone) : chLive' = chLive \cup {c}
    BY <1>3 DEF InsertChannel, ChannelCall
  <2> QED
    BY <1>t, <1>i, <1>c, <2>1 DEF ChannelsTypeOK
<1>4. ASSUME NEW q \in Calls, FindOwnChannel(q) PROVE ChannelsTypeOK' /\ ChannelsHeld'
  <2>1. PICK c \in chLive, op \in WritingOps, u \in ChannelUrls \cup {NoChannelUrl} :
          chCall' = [chCall EXCEPT ![q] = [op |-> op, channel |-> c, url |-> u]]
    BY <1>4 DEF FindOwnChannel, ChannelCall, WritingOps
  <2>2. [op |-> op, channel |-> c, url |-> u] \in ChannelCalls
    BY <1>t DEF ChannelCalls, ChannelsTypeOK
  <2>3. UNCHANGED <<chLive, chGone, chLate>>
    BY <1>4 DEF FindOwnChannel
  <2> QED
    BY <1>t, <1>c, <2>1, <2>2, <2>3 DEF ChannelsTypeOK
<1>5. ASSUME NEW q \in Calls, CheckEditedUrl(q) PROVE ChannelsTypeOK' /\ ChannelsHeld'
  <2>1. /\ chCall' = [chCall EXCEPT ![q] = [chCall[q] EXCEPT !.op = "edit"]]
        /\ chCall[q].op = "checkEdit"
        /\ UNCHANGED <<chLive, chGone, chLate>>
    BY <1>5 DEF CheckEditedUrl, ChannelCall
  <2>2. /\ [chCall[q] EXCEPT !.op = "edit"]
             = [op |-> "edit", channel |-> chCall[q].channel, url |-> chCall[q].url]
        /\ chCall[q].channel \in Channels
        /\ chCall[q].url \in ChannelUrls \cup {NoChannelUrl}
        /\ chCall[q].channel \in chLive \cup chGone
    <3>1. PICK c \in Channels, u \in ChannelUrls \cup {NoChannelUrl} :
            chCall[q] = [op |-> "checkEdit", channel |-> c, url |-> u]
      BY <1>t, <2>1, ChannelCallTyped DEF WritingOps
    <3>2. chCall[q].channel \in chLive \cup chGone
      BY <1>t, <2>1 DEF WritingOps, ChannelsHeld
    <3> QED
      BY <3>1, <3>2
  <2>3. [op |-> "edit", channel |-> chCall[q].channel, url |-> chCall[q].url] \in ChannelCalls
    BY <2>2 DEF ChannelCalls, WritingOps
  <2> QED
    BY <1>t, <1>c, <2>1, <2>2, <2>3 DEF ChannelsTypeOK
<1>6. ASSUME NEW q \in Calls, UpdateChannel(q) PROVE ChannelsTypeOK' /\ ChannelsHeld'
  <2>1. /\ chCall' = [chCall EXCEPT ![q] = Idle]
        /\ UNCHANGED <<chLive, chGone>>
        /\ chLate' \in [Channels -> Nat]
    BY <1>t, <1>6 DEF UpdateChannel, ChannelCall, LateWrite, ChannelsTypeOK
  <2> QED
    BY <1>t, <1>i, <1>c, <2>1 DEF ChannelsTypeOK
<1>7. ASSUME NEW q \in Calls, SoftDeleteChannel(q) PROVE ChannelsTypeOK' /\ ChannelsHeld'
  <2>1. /\ chCall' = [chCall EXCEPT ![q] = Idle]
        /\ chLive' = chLive \ {chCall[q].channel}
        /\ chGone' = chGone \cup {chCall[q].channel}
        /\ chLate' \in [Channels -> Nat]
    BY <1>t, <1>7 DEF SoftDeleteChannel, ChannelCall, LateWrite, ChannelsTypeOK
  <2>2. chCall[q].channel \in Channels
    BY <1>t, <1>7, ChannelCallTyped DEF SoftDeleteChannel, WritingOps
  <2> QED
    BY <1>t, <1>i, <1>c, <2>1, <2>2 DEF ChannelsTypeOK
<1>8. ASSUME NEW q \in Calls, AbandonChannel(q) PROVE ChannelsTypeOK' /\ ChannelsHeld'
  BY <1>t, <1>i, <1>c, <1>8 DEF AbandonChannel, ChannelCall, ChannelsTypeOK
<1>9. CASE ReplaceKey
  BY <1>t, <1>i, <1>9 DEF ReplaceKey, ChannelsTypeOK, ChannelsHeld
<1>10. CASE UNCHANGED chVars
  BY <1>t, <1>10 DEF chVars, ChannelsTypeOK, ChannelsHeld
<1> QED
  BY <1>1, <1>2, <1>3, <1>4, <1>5, <1>6, <1>7, <1>8, <1>9, <1>10 DEF ChannelsNext

\* A late write takes the place of its call; the first removal leaves the calls
\* other than its own.
LEMMA LateWriteOfChannel ==
    ASSUME ChannelsInv, NEW q \in Calls, chCall[q].op \in WritingOps,
           chCall' = [chCall EXCEPT ![q] = Idle], LateWrite(chCall[q].channel),
           \/ chGone' = chGone
           \/ chGone' = chGone \cup {chCall[q].channel}
    PROVE  LateChannelsTracked'
<1> DEFINE c == chCall[q].channel
<1>t. ChannelsTypeOK /\ LateChannelsTracked /\ c \in Channels
  BY ChannelCallTyped DEF ChannelsInv
<1> SUFFICES ASSUME NEW d \in Channels
             PROVE  IF d \in chGone'
                      THEN chLate'[d] + Cardinality(HoldingChannel(d)') <= Others
                      ELSE chLate'[d] = 0
  BY DEF LateChannelsTracked, HoldingChannel
<1>1. /\ HoldingChannel(d) \subseteq Calls
      /\ HoldingChannel(d)' \subseteq HoldingChannel(d)
      /\ d = c => /\ q \in HoldingChannel(d)
                  /\ HoldingChannel(d)' \subseteq HoldingChannel(d) \ {q}
  BY <1>t DEF HoldingChannel, ChannelsTypeOK, Idle, WritingOps
<1>2. d = c => Cardinality(HoldingChannel(d)') \in Nat /\ Cardinality(HoldingChannel(d)') <= Others
  BY <1>1, CallLeaves
<1>3. /\ chLate[d] \in Nat
      /\ IF d \in chGone
           THEN chLate[d] + Cardinality(HoldingChannel(d)) <= Others
           ELSE chLate[d] = 0
  BY <1>t DEF ChannelsTypeOK, LateChannelsTracked
<1>4. chLate'[d] = IF d = c /\ d \in chGone THEN chLate[d] + 1 ELSE chLate[d]
  BY <1>t DEF LateWrite, ChannelsTypeOK
<1>5. d \in chGone => chLate[d] + Cardinality(HoldingChannel(d)') <= Others
  BY <1>1, <1>3, LateKept
<1>8. d = c /\ d \in chGone => (chLate[d] + 1) + Cardinality(HoldingChannel(d)') <= Others
  BY <1>1, <1>3, LateTaken
<1>6. Others \in Nat
  BY CallsCounted
<1> HIDE DEF c
<1>7. \/ chGone' = chGone
      \/ chGone' = chGone \cup {c}
  BY DEF c
<1> QED
  BY <1>2, <1>3, <1>4, <1>5, <1>6, <1>7, <1>8

\* Only calls that find a channel are added, and they find live ones.
LEMMA LateChannelsStep == ChannelsInv /\ [ChannelsNext]_chVars => LateChannelsTracked'
<1> SUFFICES ASSUME ChannelsInv, [ChannelsNext]_chVars
             PROVE  LateChannelsTracked'
  OBVIOUS
<1>t. ChannelsTypeOK /\ LateChannelsTracked
  BY DEF ChannelsInv
<1>k. ASSUME UNCHANGED <<chGone, chLate>>,
             \A d \in chGone : HoldingChannel(d)' \subseteq HoldingChannel(d)
      PROVE  LateChannelsTracked'
  <2>1. ASSUME NEW d \in chGone
        PROVE  chLate[d] + Cardinality(HoldingChannel(d)') <= Others
    <3>1. HoldingChannel(d) \subseteq Calls
      BY DEF HoldingChannel
    <3>2. chLate[d] \in Nat /\ chLate[d] + Cardinality(HoldingChannel(d)) <= Others
      BY <1>t, <2>1 DEF ChannelsTypeOK, LateChannelsTracked
    <3> QED
      BY <1>k, <2>1, <3>1, <3>2, LateKept
  <2> QED
    BY <1>t, <1>k, <2>1 DEF LateChannelsTracked
<1>o. ASSUME NEW q \in Calls, NEW c, chCall' = [chCall EXCEPT ![q] = c],
             c.op \notin WritingOps, UNCHANGED <<chGone, chLate>>
      PROVE  LateChannelsTracked'
  <2>1. ASSUME NEW d PROVE HoldingChannel(d)' \subseteq HoldingChannel(d)
    BY <1>t, <1>o DEF HoldingChannel, ChannelsTypeOK
  <2> QED
    BY <1>k, <1>o, <2>1
<1>1. ASSUME NEW q \in Calls,
             CountChannels(q) \/ CheckNewUrl(q) \/ InsertChannel(q) \/ AbandonChannel(q)
      PROVE  LateChannelsTracked'
  <2>1. UNCHANGED <<chGone, chLate>>
    BY <1>1 DEF CountChannels, CheckNewUrl, InsertChannel, AbandonChannel
  <2>2. CASE CountChannels(q)
    <3>1. PICK u \in ChannelUrls :
            chCall' = [chCall EXCEPT ![q] = [op |-> "checkNew", channel |-> NoChannel, url |-> u]]
      BY <2>2 DEF CountChannels, ChannelCall
    <3> QED
      BY <1>o, <2>1, <3>1 DEF WritingOps
  <2>3. CASE CheckNewUrl(q)
    <3>1. chCall' = [chCall EXCEPT ![q] = [chCall[q] EXCEPT !.op = "insert"]]
      BY <2>3 DEF CheckNewUrl, ChannelCall
    <3>2. [chCall[q] EXCEPT !.op = "insert"].op \notin WritingOps
      BY <1>t, ChannelCallGoesOn DEF WritingOps
    <3> QED
      BY <1>o, <2>1, <3>1, <3>2
  <2>4. CASE InsertChannel(q) \/ AbandonChannel(q)
    <3>1. chCall' = [chCall EXCEPT ![q] = Idle]
      BY <2>4 DEF InsertChannel, AbandonChannel, ChannelCall
    <3> QED
      BY <1>o, <2>1, <3>1 DEF WritingOps, Idle
  <2> QED
    BY <1>1, <2>2, <2>3, <2>4
<1>2. ASSUME NEW q \in Calls, FindOwnChannel(q) PROVE LateChannelsTracked'
  <2>1. PICK c \in chLive, op \in WritingOps, u \in ChannelUrls \cup {NoChannelUrl} :
          chCall' = [chCall EXCEPT ![q] = [op |-> op, channel |-> c, url |-> u]]
    BY <1>2 DEF FindOwnChannel, ChannelCall, WritingOps
  <2>2. UNCHANGED <<chGone, chLate>> /\ c \notin chGone
    BY <1>t, <1>2 DEF FindOwnChannel, ChannelsTypeOK
  <2>3. ASSUME NEW d \in chGone PROVE HoldingChannel(d)' \subseteq HoldingChannel(d)
    BY <1>t, <2>1, <2>2, <2>3 DEF HoldingChannel, ChannelsTypeOK
  <2> QED
    BY <1>k, <2>2, <2>3
<1>3. ASSUME NEW q \in Calls, CheckEditedUrl(q) PROVE LateChannelsTracked'
  <2>1. /\ UNCHANGED <<chGone, chLate>>
        /\ chCall[q].op \in WritingOps
        /\ chCall' = [chCall EXCEPT ![q] = [chCall[q] EXCEPT !.op = "edit"]]
    BY <1>3 DEF CheckEditedUrl, ChannelCall, WritingOps
  <2>2. [chCall[q] EXCEPT !.op = "edit"].channel = chCall[q].channel
    OBVIOUS
  <2>3. ASSUME NEW d PROVE HoldingChannel(d)' \subseteq HoldingChannel(d)
    BY <1>t, <2>1, <2>2 DEF HoldingChannel, ChannelsTypeOK
  <2> QED
    BY <1>k, <2>1, <2>3
<1>4. ASSUME NEW q \in Calls, UpdateChannel(q) PROVE LateChannelsTracked'
  BY <1>4, LateWriteOfChannel DEF UpdateChannel, ChannelCall, WritingOps
<1>5. ASSUME NEW q \in Calls, SoftDeleteChannel(q) PROVE LateChannelsTracked'
  BY <1>5, LateWriteOfChannel DEF SoftDeleteChannel, ChannelCall, WritingOps
<1>6. CASE ReplaceKey
  <2>1. \A d : HoldingChannel(d)' = {}
    BY <1>6 DEF ReplaceKey, HoldingChannel, Idle, WritingOps
  <2> QED
    BY <1>6, <1>k, <2>1 DEF ReplaceKey
<1>7. CASE UNCHANGED chVars
  BY <1>7, <1>k DEF chVars, HoldingChannel
<1> QED
  BY <1>1, <1>2, <1>3, <1>4, <1>5, <1>6, <1>7 DEF ChannelsNext

\* A call that passes the count found a channel to spare; one that inserts gives up
\* its place among the creating calls.
LEMMA CreatingStep == ChannelsInv /\ [ChannelsNext]_chVars => CreatingTracked'
<1> SUFFICES ASSUME ChannelsInv, [ChannelsNext]_chVars
             PROVE  CreatingTracked'
  OBVIOUS
<1>t. ChannelsTypeOK /\ ChannelsTypeOK' /\ CreatingTracked
  BY ChannelsTypeStep DEF ChannelsInv
<1>c. /\ IsFiniteSet(chLive) /\ IsFiniteSet(chLive')
      /\ Cardinality(chLive) \in Nat /\ Cardinality(chLive') \in Nat
      /\ CreatingChannels \subseteq Calls /\ CreatingChannels' \subseteq Calls
      /\ Cardinality(CreatingChannels) \in Nat /\ Cardinality(CreatingChannels') \in Nat
      /\ Cardinality(CreatingChannels') <= Cardinality(Calls)
      /\ Cardinality(Calls) \in Nat
  <2>1. IsFiniteSet(chLive) /\ IsFiniteSet(chLive')
    BY <1>t, FS_Subset, ChannelsAssumption DEF ChannelsTypeOK
  <2>2. CreatingChannels \subseteq Calls /\ CreatingChannels' \subseteq Calls
    BY DEF CreatingChannels
  <2> QED
    BY <2>1, <2>2, CallsCounted, FS_CardinalityType
<1>k. ASSUME chLive' \subseteq chLive, CreatingChannels' \subseteq CreatingChannels
      PROVE  CreatingTracked'
  <2>1. /\ Cardinality(chLive') <= Cardinality(chLive)
        /\ Cardinality(CreatingChannels') <= Cardinality(CreatingChannels)
    BY <1>c, <1>k, CallsCounted, FS_Subset
  <2>2. Others \in Nat
    BY CallsCounted
  <2> QED
    BY <1>t, <1>c, <2>1, <2>2, ChannelsAssumption DEF CreatingTracked
<1>1. ASSUME NEW q \in Calls, CountChannels(q) PROVE CreatingTracked'
  <2>1. chLive' = chLive /\ Cardinality(chLive) < MaxChannels
    BY <1>1 DEF CountChannels
  <2> QED
    BY <1>c, <2>1, ChannelsAssumption DEF CreatingTracked, Others
<1>2. ASSUME NEW q \in Calls, InsertChannel(q) PROVE CreatingTracked'
  <2>1. PICK c \in Channels \ (chLive \cup chGone) : chLive' = chLive \cup {c}
    BY <1>2 DEF InsertChannel
  <2>2. Cardinality(chLive') = Cardinality(chLive) + 1
    BY <1>c, <2>1, FS_AddElement
  <2>3. q \in CreatingChannels /\ CreatingChannels' \subseteq CreatingChannels \ {q}
    BY <1>t, <1>2
    DEF InsertChannel, ChannelCall, CreatingChannels, CreatingOps, Idle, ChannelsTypeOK
  <2>4. Cardinality(CreatingChannels') <= Cardinality(CreatingChannels) - 1
    BY <1>c, <2>3, CallLeaves
  <2>5. Others \in Nat
    BY CallsCounted
  <2> QED
    BY <1>t, <1>c, <2>2, <2>4, <2>5, ChannelsAssumption DEF CreatingTracked
<1>3. ASSUME NEW q \in Calls,
             \/ CheckNewUrl(q) \/ FindOwnChannel(q) \/ CheckEditedUrl(q)
             \/ UpdateChannel(q) \/ SoftDeleteChannel(q) \/ AbandonChannel(q)
      PROVE  CreatingTracked'
  <2>1. chLive' \subseteq chLive
    BY <1>3 DEF CheckNewUrl, FindOwnChannel, CheckEditedUrl, UpdateChannel,
                SoftDeleteChannel, AbandonChannel
  <2>c. ASSUME NEW c, chCall' = [chCall EXCEPT ![q] = c],
               c.op \in CreatingOps => q \in CreatingChannels
        PROVE  CreatingTracked'
    <3>1. CreatingChannels' \subseteq CreatingChannels
      BY <1>t, <2>c DEF CreatingChannels, ChannelsTypeOK
    <3> QED
      BY <1>k, <2>1, <3>1
  <2>2. CASE CheckNewUrl(q)
    <3>1. chCall' = [chCall EXCEPT ![q] = [chCall[q] EXCEPT !.op = "insert"]]
      BY <2>2 DEF CheckNewUrl, ChannelCall
    <3>2. q \in CreatingChannels
      BY <2>2 DEF CheckNewUrl, CreatingChannels, CreatingOps
    <3> QED
      BY <2>c, <3>1, <3>2
  <2>3. CASE FindOwnChannel(q)
    <3>1. PICK c \in chLive, op \in WritingOps, u \in ChannelUrls \cup {NoChannelUrl} :
            chCall' = [chCall EXCEPT ![q] = [op |-> op, channel |-> c, url |-> u]]
      BY <2>3 DEF FindOwnChannel, ChannelCall, WritingOps
    <3> QED
      BY <2>c, <3>1 DEF WritingOps, CreatingOps
  <2>4. CASE CheckEditedUrl(q)
    <3>1. chCall' = [chCall EXCEPT ![q] = [chCall[q] EXCEPT !.op = "edit"]]
      BY <2>4 DEF CheckEditedUrl, ChannelCall
    <3>2. [chCall[q] EXCEPT !.op = "edit"].op \notin CreatingOps
      BY <1>t, ChannelCallGoesOn DEF CreatingOps
    <3> QED
      BY <2>c, <3>1, <3>2
  <2>5. CASE UpdateChannel(q) \/ SoftDeleteChannel(q) \/ AbandonChannel(q)
    <3>1. chCall' = [chCall EXCEPT ![q] = Idle]
      BY <2>5 DEF UpdateChannel, SoftDeleteChannel, AbandonChannel, ChannelCall
    <3> QED
      BY <2>c, <3>1 DEF CreatingOps, Idle
  <2> QED
    BY <1>3, <2>2, <2>3, <2>4, <2>5
<1>4. CASE ReplaceKey
  <2>1. chLive' = chLive /\ CreatingChannels' = {}
    BY <1>4 DEF ReplaceKey, CreatingChannels, CreatingOps, Idle
  <2> QED
    BY <1>k, <2>1
<1>5. CASE UNCHANGED chVars
  BY <1>5, <1>k DEF chVars, CreatingChannels
<1> QED
  BY <1>1, <1>2, <1>3, <1>4, <1>5 DEF ChannelsNext

\* Every handler keeps what is tracked.
LEMMA ChannelsInvStep == ChannelsInv /\ [ChannelsNext]_chVars => ChannelsInv'
BY ChannelsTypeStep, LateChannelsStep, CreatingStep DEF ChannelsInv

\* create counts before it inserts: for every limit and number n of calls at a time
\* a user has at most n - 1 channels beyond the limit.
THEOREM ChannelsBounded == ChannelsSpec => []ChannelOvershoot
<1>1. ASSUME ChannelsInv PROVE ChannelOvershoot
  <2>1. IsFiniteSet(chLive) /\ CreatingChannels \subseteq Calls
    BY <1>1, FS_Subset, ChannelsAssumption DEF ChannelsInv, ChannelsTypeOK, CreatingChannels
  <2>2. Cardinality(chLive) \in Nat /\ Cardinality(CreatingChannels) \in Nat /\ Others \in Nat
    BY <2>1, CallsCounted, FS_CardinalityType
  <2> QED
    BY <1>1, <2>2, ChannelsAssumption DEF ChannelsInv, CreatingTracked, ChannelOvershoot
<1> QED
  BY <1>1, ChannelsInvInit, ChannelsInvStep, PTL DEF ChannelsSpec

\* An edit and a second removal of a removed channel are late writes.
LEMMA ChannelsRefine == ChannelsInv /\ [ChannelsNext]_chVars => [ChannelRows!Next]_(ChannelRows!vars)
<1> SUFFICES ASSUME ChannelsInv, [ChannelsNext]_chVars
             PROVE  ChannelRows!Next \/ UNCHANGED <<chLive, chGone, chLate>>
  BY DEF ChannelRows!vars
<1>t. ChannelsTypeOK /\ ChannelsHeld /\ LateChannelsTracked
  BY DEF ChannelsInv
<1>w. ASSUME NEW q \in Calls, chCall[q].op \in WritingOps
      PROVE  /\ chCall[q].channel \in Channels
             /\ chCall[q].channel \in chLive \cup chGone
             /\ chCall[q].channel \in chGone => chLate[chCall[q].channel] < Others
  <2> DEFINE c == chCall[q].channel
  <2>1. c \in Channels /\ c \in chLive \cup chGone
    BY <1>t, <1>w, ChannelCallTyped DEF ChannelsHeld
  <2>2. HoldingChannel(c) \subseteq Calls /\ q \in HoldingChannel(c)
    BY <1>w DEF HoldingChannel
  <2>3. c \in chGone => chLate[c] \in Nat /\ chLate[c] + Cardinality(HoldingChannel(c)) <= Others
    BY <1>t, <2>1 DEF ChannelsTypeOK, LateChannelsTracked
  <2>4. HoldingChannel(c) \ {q} \subseteq HoldingChannel(c) \ {q}
    OBVIOUS
  <2> QED
    BY <2>1, <2>2, <2>3, <2>4, LateTaken
<1>1. ASSUME NEW q \in Calls, InsertChannel(q)
      PROVE  ChannelRows!Next
  BY <1>t, <1>1 DEF InsertChannel, ChannelRows!Next, ChannelRows!Add, ChannelsTypeOK
<1>2. ASSUME NEW q \in Calls,
             \/ CountChannels(q) \/ CheckNewUrl(q) \/ FindOwnChannel(q)
             \/ CheckEditedUrl(q) \/ AbandonChannel(q)
      PROVE  UNCHANGED <<chLive, chGone, chLate>>
  BY <1>2 DEF CountChannels, CheckNewUrl, FindOwnChannel, CheckEditedUrl, AbandonChannel
<1>3. ASSUME NEW q \in Calls, chCall[q].op \in WritingOps, LateWrite(chCall[q].channel),
             UNCHANGED <<chLive, chGone>>
      PROVE  ChannelRows!Next \/ UNCHANGED <<chLive, chGone, chLate>>
  BY <1>w, <1>3 DEF LateWrite, ChannelRows!Next, ChannelRows!WriteLate
<1>4. ASSUME NEW q \in Calls, UpdateChannel(q)
      PROVE  ChannelRows!Next \/ UNCHANGED <<chLive, chGone, chLate>>
  BY <1>3, <1>4 DEF UpdateChannel, WritingOps
<1>5. ASSUME NEW q \in Calls, SoftDeleteChannel(q)
      PROVE  ChannelRows!Next \/ UNCHANGED <<chLive, chGone, chLate>>
  <2> DEFINE c == chCall[q].channel
  <2>1. /\ chCall[q].op \in WritingOps
        /\ LateWrite(c)
        /\ chLive' = chLive \ {c}
        /\ chGone' = chGone \cup {c}
    BY <1>5 DEF SoftDeleteChannel, WritingOps
  <2>2. CASE c \in chGone
    <3>1. UNCHANGED <<chLive, chGone>>
      BY <1>t, <2>1, <2>2 DEF ChannelsTypeOK
    <3> QED
      BY <1>3, <2>1, <3>1
  <2>3. CASE c \notin chGone
    <3>1. c \in chLive /\ c \in Channels /\ chLate' = chLate
      BY <1>w, <2>1, <2>3 DEF LateWrite
    <3> QED
      BY <2>1, <3>1 DEF ChannelRows!Next, ChannelRows!Remove
  <2> QED
    BY <2>2, <2>3
<1>6. CASE ReplaceKey
  BY <1>6 DEF ReplaceKey
<1>7. CASE UNCHANGED chVars
  BY <1>7 DEF chVars
<1> QED
  BY <1>1, <1>2, <1>4, <1>5, <1>6, <1>7 DEF ChannelsNext

\* update and remove find a live channel and write it by its id alone: no removed
\* channel comes back, and only calls that had found it before still write to it.
THEOREM ChannelsRefineSoftDeleted == ChannelsSpec => ChannelsAreSoftDeleted
<1>1. ChannelsInit => ChannelRows!Init
  BY DEF ChannelsInit, ChannelRows!Init
<1> QED
  BY <1>1, ChannelsInvInit, ChannelsInvStep, ChannelsRefine, PTL
  DEF ChannelsSpec, ChannelsAreSoftDeleted, ChannelRows!Spec

-----------------------------------------------------------------------------
(* The URLs of the channels *)

\* Calls that are about to insert a channel of URL u, or to give a channel that URL.
InsertingUrl(u) == {q \in Calls : chCall[q].op = "insert" /\ chCall[q].url = u}
EditingUrl(u) == {q \in Calls : chCall[q].op = "edit" /\ chCall[q].url = u}
EditedTo(u) == {chCall[q].channel : q \in EditingUrl(u)}

\* The live channels of URL u that the check can read, and those such an edit gives it.
ReadableCopies(u) == {c \in chLive \cap readable : chUrl[c] = u}
HeldChannels(u) == ReadableCopies(u) \cup (chLive \cap EditedTo(u))

\* The live channels of URL u that were stored under a key since replaced.
LostCopies(u) == {c \in chLive \ readable : chUrl[c] = u}

UrlTypes == chUrl \in [Channels -> ChannelUrls \cup {NoChannelUrl}] /\ keyChanges \in Nat

\* What the present key reads is bounded by the calls, what it does not by the
\* calls of every key before it.
ChannelUrlTracked ==
    \A u \in ChannelUrls :
      /\ Cardinality(HeldChannels(u)) + Cardinality(InsertingUrl(u)) <= Cardinality(Calls)
      /\ Cardinality(LostCopies(u)) <= Cardinality(Calls) * keyChanges

\* What is held when every copy the check can read is about to be given its URL again.
HeldByEdits ==
    \A u \in ChannelUrls :
      ReadableCopies(u) \subseteq EditedTo(u) =>
        Cardinality(HeldChannels(u)) + Cardinality(InsertingUrl(u)) <= Cardinality(Calls)

ChannelUrlInv == ChannelsInv /\ UrlTypes /\ ChannelUrlTracked

\* The sets that are counted are finite, so their cardinalities are numbers.
LEMMA ChannelUrlCounted ==
    ASSUME ChannelsTypeOK, NEW u \in ChannelUrls
    PROVE  /\ IsFiniteSet(HeldChannels(u)) /\ Cardinality(HeldChannels(u)) \in Nat
           /\ IsFiniteSet(LostCopies(u)) /\ Cardinality(LostCopies(u)) \in Nat
           /\ IsFiniteSet(InsertingUrl(u)) /\ Cardinality(InsertingUrl(u)) \in Nat
           /\ IsFiniteSet(EditingUrl(u)) /\ Cardinality(EditingUrl(u)) \in Nat
           /\ Cardinality(Calls) \in Nat
           /\ Cardinality(EditingUrl(u)) + Cardinality(InsertingUrl(u)) <= Cardinality(Calls)
<1>0. IsFiniteSet(chLive)
  BY FS_Subset, ChannelsAssumption DEF ChannelsTypeOK
<1>1. IsFiniteSet(HeldChannels(u)) /\ IsFiniteSet(LostCopies(u))
  BY <1>0, FS_Subset DEF HeldChannels, ReadableCopies, LostCopies
<1>2. IsFiniteSet(InsertingUrl(u)) /\ IsFiniteSet(EditingUrl(u))
  BY FS_Subset, CallsAssumption DEF InsertingUrl, EditingUrl
<1>3. Cardinality(EditingUrl(u) \cap InsertingUrl(u)) = 0
  <2>1. EditingUrl(u) \cap InsertingUrl(u) = {}
    BY DEF InsertingUrl, EditingUrl
  <2> QED
    BY <2>1, FS_EmptySet
<1>4. Cardinality(EditingUrl(u) \cup InsertingUrl(u))
        = Cardinality(EditingUrl(u)) + Cardinality(InsertingUrl(u))
  <2>1. Cardinality(EditingUrl(u) \cup InsertingUrl(u))
          = Cardinality(EditingUrl(u)) + Cardinality(InsertingUrl(u))
              - Cardinality(EditingUrl(u) \cap InsertingUrl(u))
    BY <1>2, FS_Union
  <2>2. Cardinality(EditingUrl(u)) \in Nat /\ Cardinality(InsertingUrl(u)) \in Nat
    BY <1>2, FS_CardinalityType
  <2> QED
    BY <1>3, <2>1, <2>2
<1>5. Cardinality(EditingUrl(u) \cup InsertingUrl(u)) <= Cardinality(Calls)
  BY FS_Subset, CallsAssumption DEF InsertingUrl, EditingUrl
<1> QED
  BY <1>1, <1>2, <1>4, <1>5, FS_CardinalityType, CallsAssumption

\* The channels edits are about to write are no more than the edits.
LEMMA EditsHold == ChannelsTypeOK => HeldByEdits
<1> SUFFICES ASSUME ChannelsTypeOK, NEW u \in ChannelUrls, ReadableCopies(u) \subseteq EditedTo(u)
             PROVE  Cardinality(HeldChannels(u)) + Cardinality(InsertingUrl(u)) <= Cardinality(Calls)
  BY DEF HeldByEdits
<1> DEFINE Target == [q \in EditingUrl(u) |-> chCall[q].channel]
<1>1. Target \in Surjection(EditingUrl(u), EditedTo(u))
  BY DEF Surjection, EditedTo
<1>2. IsFiniteSet(EditedTo(u)) /\ Cardinality(EditedTo(u)) <= Cardinality(EditingUrl(u))
  BY <1>1, FS_Surjection, ChannelUrlCounted
<1>3. HeldChannels(u) \subseteq EditedTo(u)
  BY DEF HeldChannels
<1>4. Cardinality(HeldChannels(u)) <= Cardinality(EditingUrl(u))
  BY <1>2, <1>3, FS_Subset, FS_CardinalityType, ChannelUrlCounted
<1> QED
  BY <1>4, ChannelUrlCounted

\* No channel is live and no call is under way initially.
LEMMA ChannelUrlInit == ChannelsInit => ChannelUrlInv
<1> SUFFICES ASSUME ChannelsInit
             PROVE  ChannelUrlInv
  OBVIOUS
<1>1. ChannelsInv
  BY ChannelsInvInit
<1>2. UrlTypes
  BY DEF ChannelsInit, UrlTypes
<1>3. ASSUME NEW u \in ChannelUrls
      PROVE  /\ Cardinality(HeldChannels(u)) + Cardinality(InsertingUrl(u)) <= Cardinality(Calls)
             /\ Cardinality(LostCopies(u)) <= Cardinality(Calls) * keyChanges
  <2>1. ReadableCopies(u) = {} /\ LostCopies(u) = {} /\ keyChanges = 0
    BY DEF ChannelsInit, ReadableCopies, LostCopies
  <2>2. Cardinality(LostCopies(u)) = 0
    BY <2>1, FS_EmptySet
  <2>3. Cardinality(HeldChannels(u)) + Cardinality(InsertingUrl(u)) <= Cardinality(Calls)
    BY <1>1, <2>1, EditsHold DEF HeldByEdits, ChannelsInv
  <2> QED
    BY <1>1, <2>1, <2>2, <2>3, ChannelUrlCounted DEF ChannelsInv
<1> QED
  BY <1>1, <1>2, <1>3 DEF ChannelUrlInv, ChannelUrlTracked

\* Every handler writes a URL it was given, and only a new key is counted.
LEMMA UrlTypesStep == ChannelsInv /\ UrlTypes /\ [ChannelsNext]_chVars => UrlTypes'
<1> SUFFICES ASSUME ChannelsInv, UrlTypes, [ChannelsNext]_chVars
             PROVE  UrlTypes'
  OBVIOUS
<1>t. ChannelsTypeOK
  BY DEF ChannelsInv
<1>1. ASSUME NEW q \in Calls, InsertChannel(q) PROVE UrlTypes'
  <2>1. chCall[q].url \in ChannelUrls
    BY <1>t, <1>1, ChannelCallTyped DEF InsertChannel, CreatingOps
  <2> QED
    BY <1>1, <2>1 DEF InsertChannel, UrlTypes
<1>2. ASSUME NEW q \in Calls, UpdateChannel(q) PROVE UrlTypes'
  <2>1. chCall[q].url \in ChannelUrls \cup {NoChannelUrl}
    BY <1>t, <1>2, ChannelCallTyped DEF UpdateChannel, WritingOps
  <2> QED
    BY <1>2, <2>1 DEF UpdateChannel, UrlTypes
<1>3. ASSUME NEW q \in Calls,
             \/ CountChannels(q) \/ CheckNewUrl(q) \/ FindOwnChannel(q) \/ CheckEditedUrl(q)
             \/ SoftDeleteChannel(q) \/ AbandonChannel(q)
      PROVE  UrlTypes'
  BY <1>3 DEF CountChannels, CheckNewUrl, FindOwnChannel, CheckEditedUrl, SoftDeleteChannel,
              AbandonChannel, UrlTypes
<1>4. CASE ReplaceKey
  BY <1>4 DEF ReplaceKey, UrlTypes
<1>5. CASE UNCHANGED chVars
  BY <1>5 DEF chVars, UrlTypes
<1> QED
  BY <1>1, <1>2, <1>3, <1>4, <1>5 DEF ChannelsNext

\* Only a call that has found no readable copy of the URL adds to what is held; an
\* insert turns a call into a channel; a new key turns what is held into lost copies.
LEMMA ChannelUrlStep == ChannelUrlInv /\ [ChannelsNext]_chVars => ChannelUrlInv'
<1> SUFFICES ASSUME ChannelUrlInv, [ChannelsNext]_chVars
             PROVE  ChannelUrlInv'
  OBVIOUS
<1>i. ChannelsInv' /\ UrlTypes'
  BY ChannelsInvStep, UrlTypesStep DEF ChannelUrlInv
<1>t. /\ ChannelsTypeOK /\ ChannelsTypeOK' /\ ChannelsHeld /\ UrlTypes /\ ChannelUrlTracked
  BY <1>i DEF ChannelUrlInv, ChannelsInv
<1>w. ASSUME NEW q \in Calls, chCall[q].op = "edit" PROVE chCall[q].channel \in chLive \cup chGone
  BY <1>t, <1>w DEF ChannelsHeld, WritingOps
<1> SUFFICES ASSUME NEW u \in ChannelUrls
             PROVE  /\ Cardinality(HeldChannels(u)') + Cardinality(InsertingUrl(u)') <= Cardinality(Calls)
                    /\ Cardinality(LostCopies(u)') <= Cardinality(Calls) * keyChanges'
  BY <1>i DEF ChannelUrlInv, ChannelUrlTracked
<1> DEFINE Goal == /\ Cardinality(HeldChannels(u)') + Cardinality(InsertingUrl(u)') <= Cardinality(Calls)
                   /\ Cardinality(LostCopies(u)') <= Cardinality(Calls) * keyChanges'
<1>c. /\ IsFiniteSet(HeldChannels(u)) /\ Cardinality(HeldChannels(u)) \in Nat
      /\ IsFiniteSet(InsertingUrl(u)) /\ Cardinality(InsertingUrl(u)) \in Nat
      /\ IsFiniteSet(LostCopies(u)) /\ Cardinality(LostCopies(u)) \in Nat
      /\ Cardinality(Calls) \in Nat /\ keyChanges \in Nat
  BY <1>t, ChannelUrlCounted DEF UrlTypes
<1>h. /\ Cardinality(HeldChannels(u)) + Cardinality(InsertingUrl(u)) <= Cardinality(Calls)
      /\ Cardinality(LostCopies(u)) <= Cardinality(Calls) * keyChanges
  BY <1>t DEF ChannelUrlTracked
<1>l. ASSUME LostCopies(u)' \subseteq LostCopies(u), keyChanges' = keyChanges
      PROVE  Cardinality(LostCopies(u)') <= Cardinality(Calls) * keyChanges'
  <2>1. Cardinality(LostCopies(u)') <= Cardinality(LostCopies(u)) /\ Cardinality(LostCopies(u)') \in Nat
    BY <1>c, <1>l, FS_Subset, FS_CardinalityType
  <2>2. Cardinality(Calls) * keyChanges \in Nat
    BY <1>c
  <2> QED
    BY <1>c, <1>h, <1>l, <2>1, <2>2
<1>k. ASSUME HeldChannels(u)' \subseteq HeldChannels(u), InsertingUrl(u)' \subseteq InsertingUrl(u),
             LostCopies(u)' \subseteq LostCopies(u), keyChanges' = keyChanges
      PROVE  Goal
  <2>1. Cardinality(HeldChannels(u)') <= Cardinality(HeldChannels(u)) /\ Cardinality(HeldChannels(u)') \in Nat
    BY <1>c, <1>k, FS_Subset, FS_CardinalityType
  <2>2. Cardinality(InsertingUrl(u)') <= Cardinality(InsertingUrl(u)) /\ Cardinality(InsertingUrl(u)') \in Nat
    BY <1>c, <1>k, FS_Subset, FS_CardinalityType
  <2> QED
    BY <1>c, <1>h, <1>k, <1>l, <2>1, <2>2
<1>f. ASSUME ReadableCopies(u)' \subseteq EditedTo(u)',
             LostCopies(u)' \subseteq LostCopies(u), keyChanges' = keyChanges
      PROVE  Goal
  <2>1. ChannelsTypeOK' => HeldByEdits'
    BY EditsHold, PTL
  <2> QED
    BY <1>t, <1>f, <1>l, <2>1 DEF HeldByEdits
<1>r. ASSUME UNCHANGED <<chLive, chUrl, readable>>
      PROVE  ReadableCopies(u)' = ReadableCopies(u) /\ LostCopies(u)' = LostCopies(u)
  BY <1>r DEF ReadableCopies, LostCopies
<1>e. ASSUME NEW q \in Calls, NEW c, chCall' = [chCall EXCEPT ![q] = c],
             c.op \in {"insert", "edit"} => c.url # u
      PROVE  InsertingUrl(u)' \subseteq InsertingUrl(u) /\ EditedTo(u)' \subseteq EditedTo(u)
  <2>1. \A x \in Calls : chCall'[x] = IF x = q THEN c ELSE chCall[x]
    BY <1>t, <1>e DEF ChannelsTypeOK
  <2>2. InsertingUrl(u)' \subseteq InsertingUrl(u)
    BY <1>e, <2>1 DEF InsertingUrl
  <2>3. \A x \in EditingUrl(u)' : x \in EditingUrl(u) /\ chCall'[x] = chCall[x]
    BY <1>e, <2>1 DEF EditingUrl
  <2> QED
    BY <2>2, <2>3 DEF EditedTo
<1>s. ASSUME UNCHANGED <<chLive, chUrl, readable, keyChanges>>,
             NEW q \in Calls, NEW c, chCall' = [chCall EXCEPT ![q] = c],
             c.op \in {"insert", "edit"} => c.url # u
      PROVE  Goal
  <2>1. HeldChannels(u)' \subseteq HeldChannels(u)
    BY <1>s, <1>e, <1>r DEF HeldChannels
  <2> QED
    BY <1>s, <1>e, <1>r, <1>k, <2>1
<1>1. ASSUME NEW q \in Calls, CheckNewUrl(q) PROVE Goal
  <2>1. /\ chCall' = [chCall EXCEPT ![q] = [chCall[q] EXCEPT !.op = "insert"]]
        /\ UNCHANGED <<chLive, chUrl, readable, keyChanges>>
    BY <1>1 DEF CheckNewUrl, ChannelCall
  <2>2. CASE chCall[q].url = u
    <3>1. ReadableCopies(u) = {}
      BY <1>1, <2>2 DEF CheckNewUrl, Duplicates, ReadableCopies
    <3> QED
      BY <1>f, <1>r, <2>1, <3>1
  <2>3. CASE chCall[q].url # u
    <3>1. [chCall[q] EXCEPT !.op = "insert"].url # u
      BY <2>3
    <3> QED
      BY <1>s, <2>1, <3>1
  <2> QED
    BY <2>2, <2>3
<1>2. ASSUME NEW q \in Calls, CheckEditedUrl(q) PROVE Goal
  <2>1. /\ chCall' = [chCall EXCEPT ![q] = [chCall[q] EXCEPT !.op = "edit"]]
        /\ UNCHANGED <<chLive, chUrl, readable, keyChanges>>
    BY <1>2 DEF CheckEditedUrl, ChannelCall
  <2>2. CASE chCall[q].url = u
    <3>1. ReadableCopies(u) \subseteq {chCall[q].channel}
      BY <1>2, <2>2 DEF CheckEditedUrl, Duplicates, ReadableCopies
    <3>2. /\ [chCall[q] EXCEPT !.op = "edit"].op = "edit"
          /\ [chCall[q] EXCEPT !.op = "edit"].url = u
          /\ [chCall[q] EXCEPT !.op = "edit"].channel = chCall[q].channel
      BY <1>t, <2>2, ChannelCallGoesOn
    <3>3. chCall'[q] = [chCall[q] EXCEPT !.op = "edit"]
      BY <1>t, <2>1 DEF ChannelsTypeOK
    <3>4. chCall[q].channel \in EditedTo(u)'
      BY <3>2, <3>3 DEF EditedTo, EditingUrl
    <3> QED
      BY <1>f, <1>r, <2>1, <3>1, <3>4
  <2>3. CASE chCall[q].url # u
    <3>1. [chCall[q] EXCEPT !.op = "edit"].url # u
      BY <2>3
    <3> QED
      BY <1>s, <2>1, <3>1
  <2> QED
    BY <2>2, <2>3
<1>3. ASSUME NEW q \in Calls, InsertChannel(q) PROVE Goal
  <2>1. PICK c \in Channels \ (chLive \cup chGone) :
          /\ chLive' = chLive \cup {c}
          /\ chUrl' = [chUrl EXCEPT ![c] = chCall[q].url]
          /\ readable' = readable \cup {c}
    BY <1>3 DEF InsertChannel
  <2>2. /\ chCall' = [chCall EXCEPT ![q] = Idle] /\ keyChanges' = keyChanges
        /\ chCall[q].op = "insert"
    BY <1>3 DEF InsertChannel, ChannelCall
  <2>3. InsertingUrl(u)' \subseteq InsertingUrl(u) /\ EditedTo(u)' \subseteq EditedTo(u)
    BY <1>e, <2>2 DEF Idle
  <2>4. /\ \A x \in chLive : x # c /\ chUrl'[x] = chUrl[x]
        /\ chUrl'[c] = chCall[q].url
    BY <1>t, <2>1 DEF UrlTypes
  <2>5. LostCopies(u)' \subseteq LostCopies(u)
    BY <2>1, <2>4 DEF LostCopies
  <2>6. c \notin EditedTo(u)
    BY <1>w, <2>1 DEF EditedTo, EditingUrl
  <2>7. CASE chCall[q].url # u
    <3>1. HeldChannels(u)' \subseteq HeldChannels(u)
      BY <2>1, <2>3, <2>4, <2>6, <2>7 DEF HeldChannels, ReadableCopies
    <3> QED
      BY <1>k, <2>2, <2>3, <2>5, <3>1
  <2>8. CASE chCall[q].url = u
    <3>1. HeldChannels(u)' \subseteq HeldChannels(u) \cup {c}
      BY <2>1, <2>3, <2>4 DEF HeldChannels, ReadableCopies
    <3>2. /\ IsFiniteSet(HeldChannels(u) \cup {c})
          /\ Cardinality(HeldChannels(u) \cup {c}) <= Cardinality(HeldChannels(u)) + 1
      <4>1. /\ IsFiniteSet(HeldChannels(u) \cup {c})
            /\ Cardinality(HeldChannels(u) \cup {c})
                 = IF c \in HeldChannels(u) THEN Cardinality(HeldChannels(u))
                                            ELSE Cardinality(HeldChannels(u)) + 1
        BY <1>c, FS_AddElement
      <4> QED
        BY <1>c, <4>1
    <3>3. Cardinality(HeldChannels(u)') <= Cardinality(HeldChannels(u)) + 1 /\ Cardinality(HeldChannels(u)') \in Nat
      BY <1>c, <3>1, <3>2, FS_Subset, FS_CardinalityType
    <3>4. q \in InsertingUrl(u) /\ InsertingUrl(u)' \subseteq InsertingUrl(u) \ {q}
      <4>1. chCall'[q].op # "insert"
        BY <1>t, <2>2 DEF ChannelsTypeOK, Idle
      <4> QED
        BY <2>2, <2>3, <2>8, <4>1 DEF InsertingUrl
    <3>5. /\ Cardinality(InsertingUrl(u)') <= Cardinality(InsertingUrl(u)) - 1
          /\ Cardinality(InsertingUrl(u)') \in Nat
      BY <1>c, <3>4, FS_RemoveElement, FS_Subset, FS_CardinalityType
    <3> QED
      BY <1>c, <1>h, <1>l, <2>2, <2>5, <3>3, <3>5
  <2> QED
    BY <2>7, <2>8
<1>4. ASSUME NEW q \in Calls, UpdateChannel(q) PROVE Goal
  <2>1. /\ chCall' = [chCall EXCEPT ![q] = Idle] /\ UNCHANGED <<chLive, keyChanges>>
        /\ chCall[q].op = "edit"
    BY <1>4 DEF UpdateChannel, ChannelCall
  <2>2. InsertingUrl(u)' \subseteq InsertingUrl(u) /\ EditedTo(u)' \subseteq EditedTo(u)
    BY <1>e, <2>1 DEF Idle
  <2>3. CASE chCall[q].url = NoChannelUrl
    <3>1. UNCHANGED <<chUrl, readable>>
      BY <1>4, <2>3 DEF UpdateChannel
    <3>2. HeldChannels(u)' \subseteq HeldChannels(u)
      BY <1>r, <2>1, <2>2, <3>1 DEF HeldChannels
    <3> QED
      BY <1>k, <1>r, <2>1, <2>2, <3>1, <3>2
  <2>4. CASE chCall[q].url # NoChannelUrl
    <3> DEFINE c == chCall[q].channel
    <3>1. chUrl' = [chUrl EXCEPT ![c] = chCall[q].url] /\ readable' = readable \cup {c}
      BY <1>4, <2>4 DEF UpdateChannel
    <3>2. \A x \in Channels : chUrl'[x] = IF x = c THEN chCall[q].url ELSE chUrl[x]
      BY <1>t, <3>1 DEF UrlTypes
    <3>3. chCall[q].url = u => c \in EditedTo(u)
      BY <2>1 DEF EditedTo, EditingUrl
    <3>4. chLive \subseteq Channels
      BY <1>t DEF ChannelsTypeOK
    <3> HIDE DEF c
    <3>5. HeldChannels(u)' \subseteq HeldChannels(u)
      BY <2>1, <2>2, <3>1, <3>2, <3>3, <3>4 DEF HeldChannels, ReadableCopies
    <3>6. LostCopies(u)' \subseteq LostCopies(u)
      BY <2>1, <3>1, <3>2, <3>4 DEF LostCopies
    <3> QED
      BY <1>k, <2>1, <2>2, <3>5, <3>6
  <2> QED
    BY <2>3, <2>4
<1>5. ASSUME NEW q \in Calls, SoftDeleteChannel(q) PROVE Goal
  <2>1. /\ chCall' = [chCall EXCEPT ![q] = Idle] /\ chLive' \subseteq chLive
        /\ UNCHANGED <<chUrl, readable, keyChanges>>
    BY <1>5 DEF SoftDeleteChannel, ChannelCall
  <2>2. InsertingUrl(u)' \subseteq InsertingUrl(u) /\ EditedTo(u)' \subseteq EditedTo(u)
    BY <1>e, <2>1 DEF Idle
  <2>3. HeldChannels(u)' \subseteq HeldChannels(u) /\ LostCopies(u)' \subseteq LostCopies(u)
    BY <2>1, <2>2 DEF HeldChannels, ReadableCopies, LostCopies
  <2> QED
    BY <1>k, <2>1, <2>2, <2>3
<1>6. ASSUME NEW q \in Calls, CountChannels(q) PROVE Goal
  <2>1. /\ UNCHANGED <<chLive, chUrl, readable, keyChanges>>
        /\ \E v \in ChannelUrls :
             chCall' = [chCall EXCEPT ![q] = [op |-> "checkNew", channel |-> NoChannel, url |-> v]]
    BY <1>6 DEF CountChannels, ChannelCall
  <2> QED
    BY <1>s, <2>1
<1>7. ASSUME NEW q \in Calls, FindOwnChannel(q) PROVE Goal
  <2>1. /\ UNCHANGED <<chLive, chUrl, readable, keyChanges>>
        /\ \E d \in chLive, op \in WritingOps, v \in ChannelUrls \cup {NoChannelUrl} :
             /\ op = "edit" => v = NoChannelUrl
             /\ chCall' = [chCall EXCEPT ![q] = [op |-> op, channel |-> d, url |-> v]]
    BY <1>7 DEF FindOwnChannel, ChannelCall, WritingOps
  <2>2. NoChannelUrl # u
    BY ChannelUrlsAssumption
  <2>3. PICK d \in chLive, op \in WritingOps, v \in ChannelUrls \cup {NoChannelUrl} :
          /\ op = "edit" => v = NoChannelUrl
          /\ chCall' = [chCall EXCEPT ![q] = [op |-> op, channel |-> d, url |-> v]]
    BY <2>1
  <2>4. op \in {"insert", "edit"} => v # u
    BY <2>2, <2>3 DEF WritingOps
  <2> QED
    BY <1>s, <2>1, <2>3, <2>4
<1>8. ASSUME NEW q \in Calls, AbandonChannel(q) PROVE Goal
  <2>1. /\ chCall' = [chCall EXCEPT ![q] = Idle]
        /\ UNCHANGED <<chLive, chUrl, readable, keyChanges>>
    BY <1>8 DEF AbandonChannel, ChannelCall
  <2> QED
    BY <1>s, <2>1 DEF Idle
<1>9. CASE ReplaceKey
  <2>1. /\ chLive' = chLive /\ chUrl' = chUrl /\ readable' = {}
        /\ keyChanges' = keyChanges + 1 /\ chCall' = [q \in Calls |-> Idle]
    BY <1>9 DEF ReplaceKey
  <2>2. HeldChannels(u)' = {} /\ InsertingUrl(u)' = {}
    BY <2>1 DEF HeldChannels, ReadableCopies, EditedTo, EditingUrl, InsertingUrl, Idle
  <2>3. Cardinality(HeldChannels(u)') + Cardinality(InsertingUrl(u)') <= Cardinality(Calls)
    BY <1>c, <2>2, FS_EmptySet
  <2>4. LostCopies(u)' \subseteq LostCopies(u) \cup HeldChannels(u)
    BY <2>1 DEF LostCopies, HeldChannels, ReadableCopies
  <2>5. /\ IsFiniteSet(LostCopies(u) \cup HeldChannels(u))
        /\ Cardinality(LostCopies(u) \cup HeldChannels(u))
             = Cardinality(LostCopies(u)) + Cardinality(HeldChannels(u))
                 - Cardinality(LostCopies(u) \cap HeldChannels(u))
        /\ Cardinality(LostCopies(u) \cap HeldChannels(u)) \in Nat
    BY <1>c, FS_Union, FS_Intersection, FS_CardinalityType
  <2>6. /\ Cardinality(LostCopies(u)') <= Cardinality(LostCopies(u)) + Cardinality(HeldChannels(u))
        /\ Cardinality(LostCopies(u)') \in Nat
    <3>1. /\ Cardinality(LostCopies(u)') <= Cardinality(LostCopies(u) \cup HeldChannels(u))
          /\ Cardinality(LostCopies(u)') \in Nat
      BY <2>4, <2>5, FS_Subset, FS_CardinalityType
    <3> QED
      BY <1>c, <2>5, <3>1
  <2>7. Cardinality(Calls) * (keyChanges + 1) = Cardinality(Calls) * keyChanges + Cardinality(Calls)
    BY <1>c
  <2>8. Cardinality(Calls) * keyChanges \in Nat
    BY <1>c
  <2>9. Cardinality(LostCopies(u)') <= Cardinality(Calls) * keyChanges'
    <3> HIDE DEF Goal
    <3> QED
      BY <1>c, <1>h, <2>1, <2>6, <2>7, <2>8
  <2> QED
    BY <2>3, <2>9
<1>10. CASE UNCHANGED chVars
  <2>1. /\ HeldChannels(u)' = HeldChannels(u) /\ InsertingUrl(u)' = InsertingUrl(u)
        /\ LostCopies(u)' = LostCopies(u) /\ keyChanges' = keyChanges
    BY <1>10 DEF chVars, HeldChannels, ReadableCopies, EditedTo, EditingUrl, InsertingUrl, LostCopies
  <2> QED
    BY <2>1, <1>k
<1> QED
  BY <1>1, <1>2, <1>3, <1>4, <1>5, <1>6, <1>7, <1>8, <1>9, <1>10 DEF ChannelsNext

\* checkDuplicateUrl decrypts the live channels and the write comes in a later query:
\* for every number n of calls at a time and however often the key is replaced, a
\* user has at most n live channels of one URL per key.
THEOREM ChannelUrlsBounded == ChannelsSpec => []ChannelUrlCopies
<1>1. ChannelUrlInv => ChannelUrlCopies
  <2> SUFFICES ASSUME ChannelUrlInv, NEW u \in ChannelUrls
               PROVE  Cardinality({c \in chLive : chUrl[c] = u}) <= Cardinality(Calls) * (keyChanges + 1)
    BY DEF ChannelUrlCopies
  <2> DEFINE Copies == {c \in chLive : chUrl[c] = u}
  <2>1. Copies \subseteq LostCopies(u) \cup HeldChannels(u)
    BY DEF LostCopies, HeldChannels, ReadableCopies
  <2>2. /\ IsFiniteSet(LostCopies(u)) /\ IsFiniteSet(HeldChannels(u))
        /\ Cardinality(LostCopies(u)) \in Nat /\ Cardinality(HeldChannels(u)) \in Nat
        /\ Cardinality(InsertingUrl(u)) \in Nat
        /\ Cardinality(Calls) \in Nat /\ keyChanges \in Nat
    BY ChannelUrlCounted DEF ChannelUrlInv, ChannelsInv, UrlTypes
  <2>3. /\ IsFiniteSet(LostCopies(u) \cup HeldChannels(u))
        /\ Cardinality(LostCopies(u) \cup HeldChannels(u))
             = Cardinality(LostCopies(u)) + Cardinality(HeldChannels(u))
                 - Cardinality(LostCopies(u) \cap HeldChannels(u))
        /\ Cardinality(LostCopies(u) \cap HeldChannels(u)) \in Nat
    BY <2>2, FS_Union, FS_Intersection, FS_CardinalityType
  <2>4. /\ Cardinality(Copies) <= Cardinality(LostCopies(u) \cup HeldChannels(u))
        /\ Cardinality(Copies) \in Nat
    BY <2>1, <2>3, FS_Subset, FS_CardinalityType
  <2>5. /\ Cardinality(HeldChannels(u)) + Cardinality(InsertingUrl(u)) <= Cardinality(Calls)
        /\ Cardinality(LostCopies(u)) <= Cardinality(Calls) * keyChanges
    BY DEF ChannelUrlInv, ChannelUrlTracked
  <2>6. /\ Cardinality(Calls) * (keyChanges + 1) = Cardinality(Calls) * keyChanges + Cardinality(Calls)
        /\ Cardinality(Calls) * keyChanges \in Nat
    BY <2>2
  <2> HIDE DEF Copies
  <2>7. Cardinality(Copies) <= Cardinality(Calls) * (keyChanges + 1)
    BY <2>2, <2>3, <2>4, <2>5, <2>6
  <2> QED
    BY <2>7 DEF Copies
<1> QED
  BY <1>1, ChannelUrlInit, ChannelUrlStep, PTL DEF ChannelsSpec

-----------------------------------------------------------------------------
(* Notifications *)

OneNoteOps == {"readNotification", "createRead", "deleteNotification"}
NoteCalls ==
    {Idle}
    \cup [op : OneNoteOps, user : Readers, note : Notes]
    \cup [op : {"createManyReads"}, user : Readers, ids : SUBSET Notes, shown : SUBSET Notes]

NotesTypeOK ==
    /\ noteLive \subseteq Notes
    /\ noteGone \subseteq Notes
    /\ noteLive \cap noteGone = {}
    /\ markers \in [Readers -> [Notes -> Nat]]
    /\ noteCall \in [Calls -> NoteCalls]
    /\ noteLate \in [Notes -> Nat]
    /\ readAll \in [Readers -> SUBSET Notes]

\* What a call will do to the notifications and the markers is founded on what it
\* has found: a live row, and markers that are there or that it will insert.
NoteCallFounded(q) ==
    /\ noteCall[q].op = "deleteNotification" => noteCall[q].note \in noteLive \cup noteGone
    /\ noteCall[q].op = "createManyReads" =>
         \A n \in noteCall[q].shown : n \in noteCall[q].ids \/ markers[noteCall[q].user][n] > 0

NotesFounded == (\A q \in Calls : NoteCallFounded(q)) /\ ReadAllCovers

HoldingNote(n) == {q \in Calls : noteCall[q].op = "deleteNotification" /\ noteCall[q].note = n}

LateNotesTracked ==
    \A n \in Notes :
      IF n \in noteGone
        THEN noteLate[n] + Cardinality(HoldingNote(n)) <= Others
        ELSE noteLate[n] = 0

\* The calls that will insert a marker of u for n.
Marking(u, n) ==
    {q \in Calls :
       \/ noteCall[q].op = "createRead" /\ noteCall[q].user = u /\ noteCall[q].note = n
       \/ noteCall[q].op = "createManyReads" /\ noteCall[q].user = u /\ n \in noteCall[q].ids}

\* Once there is a marker, no call that looks for one goes on to insert another.
MarkersTracked ==
    \A u \in Readers, n \in Notes :
      markers[u][n] > 0 => markers[u][n] + Cardinality(Marking(u, n)) <= Cardinality(Calls)

NotesInv == NotesTypeOK /\ NotesFounded /\ LateNotesTracked /\ MarkersTracked

\* No notifications, no calls.
LEMMA NotesInvInit == NotesInit => NotesInv
<1> SUFFICES ASSUME NotesInit
             PROVE  NotesInv
  OBVIOUS
<1>1. NotesTypeOK
  BY DEF NotesInit, NotesTypeOK, NoteCalls
<1>2. NotesFounded
  BY DEF NotesInit, NotesFounded, NoteCallFounded, ReadAllCovers, Idle
<1>3. LateNotesTracked
  BY DEF NotesInit, LateNotesTracked
<1>4. MarkersTracked
  BY DEF NotesInit, MarkersTracked
<1> QED
  BY <1>1, <1>2, <1>3, <1>4 DEF NotesInv

\* What a call is at says what it holds.
LEMMA NoteCallTyped ==
    ASSUME NotesTypeOK, NEW q \in Calls
    PROVE  /\ noteCall[q].op \in OneNoteOps =>
                /\ noteCall[q].user \in Readers
                /\ noteCall[q].note \in Notes
                /\ noteCall[q] = [op |-> noteCall[q].op, user |-> noteCall[q].user,
                                  note |-> noteCall[q].note]
           /\ noteCall[q].op = "createManyReads" =>
                /\ noteCall[q].user \in Readers
                /\ noteCall[q].ids \subseteq Notes
                /\ noteCall[q].shown \subseteq Notes
BY DEF NotesTypeOK, NoteCalls, OneNoteOps, Idle

\* Idle calls are at no query.
LEMMA IdleNote ==
    /\ Idle \in NoteCalls
    /\ Idle.op \notin OneNoteOps
    /\ Idle.op # "createManyReads"
BY DEF NoteCalls, OneNoteOps, Idle

\* createRead and createMany add one marker to each notification of K.
MarkersAdded(u0, K) ==
    \A u \in Readers, n \in Notes :
      markers'[u][n] = IF u = u0 /\ n \in K THEN markers[u][n] + 1 ELSE markers[u][n]

\* What createRead does.
LEMMA CreateReadAdds ==
    ASSUME NotesTypeOK, NEW q \in Calls, CreateRead(q)
    PROVE  /\ noteCall[q].user \in Readers
           /\ noteCall[q].note \in Notes
           /\ markers' \in [Readers -> [Notes -> Nat]]
           /\ MarkersAdded(noteCall[q].user, {noteCall[q].note})
<1> DEFINE u0 == noteCall[q].user
           n0 == noteCall[q].note
<1>1. u0 \in Readers /\ n0 \in Notes
  BY NoteCallTyped DEF CreateRead, OneNoteOps
<1>2. markers' = [markers EXCEPT ![u0] = [markers[u0] EXCEPT ![n0] = markers[u0][n0] + 1]]
  BY DEF CreateRead
<1> HIDE DEF u0, n0
<1>3. markers[u0] \in [Notes -> Nat] /\ markers[u0][n0] \in Nat
  BY <1>1 DEF NotesTypeOK
<1>4. [markers[u0] EXCEPT ![n0] = markers[u0][n0] + 1] \in [Notes -> Nat]
  BY <1>1, <1>3
<1>5. markers' \in [Readers -> [Notes -> Nat]]
  BY <1>1, <1>2, <1>4 DEF NotesTypeOK
<1>6. MarkersAdded(u0, {n0})
  <2> SUFFICES ASSUME NEW u \in Readers, NEW n \in Notes
               PROVE  markers'[u][n] = IF u = u0 /\ n \in {n0} THEN markers[u][n] + 1 ELSE markers[u][n]
    BY DEF MarkersAdded
  <2>1. CASE u = u0
    BY <1>1, <1>2, <1>3, <2>1 DEF NotesTypeOK
  <2>2. CASE u # u0
    BY <1>1, <1>2, <2>2 DEF NotesTypeOK
  <2> QED
    BY <2>1, <2>2
<1> QED
  BY <1>1, <1>5, <1>6 DEF u0, n0

\* What createMany does.
LEMMA CreateManyAdds ==
    ASSUME NotesTypeOK, NEW q \in Calls, CreateManyReads(q)
    PROVE  /\ noteCall[q].user \in Readers
           /\ noteCall[q].ids \subseteq Notes
           /\ noteCall[q].shown \subseteq Notes
           /\ markers' \in [Readers -> [Notes -> Nat]]
           /\ MarkersAdded(noteCall[q].user, noteCall[q].ids)
<1> DEFINE u0 == noteCall[q].user
           K == noteCall[q].ids
           added == [n \in Notes |-> IF n \in K THEN markers[u0][n] + 1 ELSE markers[u0][n]]
<1>1. u0 \in Readers /\ K \subseteq Notes /\ noteCall[q].shown \subseteq Notes
  BY NoteCallTyped DEF CreateManyReads
<1>2. markers' = [markers EXCEPT ![u0] = added]
  BY DEF CreateManyReads
<1> HIDE DEF u0, K
<1>3. markers[u0] \in [Notes -> Nat]
  BY <1>1 DEF NotesTypeOK
<1>4. added \in [Notes -> Nat]
  BY <1>3
<1>5. \A n \in Notes : added[n] = IF n \in K THEN markers[u0][n] + 1 ELSE markers[u0][n]
  OBVIOUS
<1> HIDE DEF added
<1>6. markers' \in [Readers -> [Notes -> Nat]]
  BY <1>1, <1>2, <1>4 DEF NotesTypeOK
<1>7. MarkersAdded(u0, K)
  <2> SUFFICES ASSUME NEW u \in Readers, NEW n \in Notes
               PROVE  markers'[u][n] = IF u = u0 /\ n \in K THEN markers[u][n] + 1 ELSE markers[u][n]
    BY DEF MarkersAdded
  <2>1. CASE u = u0
    BY <1>1, <1>2, <1>5, <2>1 DEF NotesTypeOK
  <2>2. CASE u # u0
    BY <1>1, <1>2, <2>2 DEF NotesTypeOK
  <2> QED
    BY <2>1, <2>2
<1> QED
  BY <1>1, <1>6, <1>7 DEF u0, K

\* A call that finds a notification for its user.
FindsNote(q, op, u, n) == noteCall' = [noteCall EXCEPT ![q] = [op |-> op, user |-> u, note |-> n]]

\* A call that will mark what it has found unread.
FindsUnread(q, u) ==
    noteCall' = [noteCall EXCEPT ![q] =
                   [op |-> "createManyReads", user |-> u, ids |-> Unread(u), shown |-> Seen(u)]]

\* What looking for a marker leads to.
LEMMA FindReadEnds ==
    ASSUME NotesTypeOK, NEW q \in Calls, FindRead(q)
    PROVE  \/ noteCall' = [noteCall EXCEPT ![q] = Idle]
           \/ \E u \in Readers, n \in Notes : markers[u][n] = 0 /\ FindsNote(q, "createRead", u, n)
<1>1. PICK u \in Readers, n \in Notes :
        noteCall[q] = [op |-> "readNotification", user |-> u, note |-> n]
  BY NoteCallTyped DEF FindRead, OneNoteOps
<1>2. markers[u][n] \in Nat
  BY DEF NotesTypeOK
<1>5. noteCall[q].user = u /\ noteCall[q].note = n
  BY <1>1
<1>6. noteCall' = [noteCall EXCEPT ![q] = IF markers[noteCall[q].user][noteCall[q].note] > 0 THEN Idle
                                         ELSE [noteCall[q] EXCEPT !.op = "createRead"]]
  BY Zenon DEF FindRead, NoteGoesOn
<1>3. CASE markers[u][n] > 0
  BY <1>3, <1>5, <1>6
<1>4. CASE ~(markers[u][n] > 0)
  <2>1. [noteCall[q] EXCEPT !.op = "createRead"] = [op |-> "createRead", user |-> u, note |-> n]
    BY <1>1
  <2>2. noteCall' = [noteCall EXCEPT ![q] = [noteCall[q] EXCEPT !.op = "createRead"]]
    BY <1>4, <1>5, <1>6
  <2>3. markers[u][n] = 0
    BY <1>2, <1>4
  <2> QED
    BY <2>1, <2>2, <2>3 DEF FindsNote
<1> QED
  BY <1>3, <1>4

\* What looking for unread notifications leads to.
LEMMA FindUnreadEnds ==
    ASSUME NotesTypeOK, NEW q \in Calls, FindUnread(q)
    PROVE  \E u \in Readers :
             /\ Seen(u) \subseteq Notes
             /\ Unread(u) \subseteq Seen(u)
             /\ \A n \in Unread(u) : markers[u][n] = 0
             /\ \A n \in Seen(u) \ Unread(u) : markers[u][n] > 0
             /\ \/ /\ Unread(u) = {}
                   /\ readAll' = [readAll EXCEPT ![u] = @ \cup Seen(u)]
                   /\ noteCall' = noteCall
                \/ FindsUnread(q, u) /\ readAll' = readAll
<1>1. PICK u \in Readers :
        IF Unread(u) = {}
          THEN /\ readAll' = [readAll EXCEPT ![u] = @ \cup Seen(u)]
               /\ UNCHANGED noteCall
          ELSE /\ NoteGoesOn(q, [op |-> "createManyReads", user |-> u, ids |-> Unread(u), shown |-> Seen(u)])
               /\ UNCHANGED readAll
  BY DEF FindUnread
<1>2. \/ /\ Unread(u) = {}
         /\ readAll' = [readAll EXCEPT ![u] = @ \cup Seen(u)]
         /\ noteCall' = noteCall
      \/ FindsUnread(q, u) /\ readAll' = readAll
  BY <1>1 DEF NoteGoesOn, FindsUnread
<1>3. \A n \in Notes : markers[u][n] \in Nat
  BY DEF NotesTypeOK
<1>4. /\ Seen(u) \subseteq Notes
      /\ Unread(u) \subseteq Seen(u)
      /\ \A n \in Unread(u) : markers[u][n] = 0
      /\ \A n \in Seen(u) \ Unread(u) : markers[u][n] > 0
  BY <1>3 DEF Seen, Unread, NotesTypeOK
<1> QED
  BY <1>2, <1>4

\* Every handler keeps the types.
LEMMA NotesTypeStep == NotesInv /\ [NotesNext]_noteVars => NotesTypeOK'
<1> SUFFICES ASSUME NotesInv, [NotesNext]_noteVars
             PROVE  NotesTypeOK'
  OBVIOUS
<1>t. NotesTypeOK
  BY DEF NotesInv
<1>i. Idle \in NoteCalls
  BY IdleNote
<1>1. CASE CreateNotification
  BY <1>t, <1>1 DEF CreateNotification, NotesTypeOK
<1>2. ASSUME NEW q \in Calls, FindForUser(q) PROVE NotesTypeOK'
  <2>1. PICK u \in Readers, n \in Notes, op \in OneNoteOps : FindsNote(q, op, u, n)
    BY <1>t, <1>2 DEF FindForUser, NoteGoesOn, FindsNote, Seen, OneNoteOps, NotesTypeOK
  <2>2. [op |-> op, user |-> u, note |-> n] \in NoteCalls
    BY DEF NoteCalls
  <2> QED
    BY <1>t, <1>2, <2>1, <2>2 DEF FindForUser, FindsNote, NotesTypeOK
<1>3. ASSUME NEW q \in Calls, FindRead(q) PROVE NotesTypeOK'
  <2>1. UNCHANGED <<noteLive, noteGone, markers, noteLate, readAll>>
    BY <1>3 DEF FindRead
  <2>2. \A u \in Readers, n \in Notes : [op |-> "createRead", user |-> u, note |-> n] \in NoteCalls
    BY DEF NoteCalls, OneNoteOps
  <2>3. noteCall' \in [Calls -> NoteCalls]
    BY <1>t, <1>i, <1>3, <2>2, FindReadEnds DEF FindsNote, NotesTypeOK
  <2> QED
    BY <1>t, <2>1, <2>3 DEF NotesTypeOK
<1>4. ASSUME NEW q \in Calls, CreateRead(q) PROVE NotesTypeOK'
  BY <1>t, <1>i, <1>4, CreateReadAdds DEF CreateRead, NoteGoesOn, NotesTypeOK
<1>5. ASSUME NEW q \in Calls, FindUnread(q) PROVE NotesTypeOK'
  <2>1. UNCHANGED <<noteLive, noteGone, markers, noteLate>>
    BY <1>5 DEF FindUnread
  <2>2. PICK u \in Readers :
          /\ Seen(u) \subseteq Notes
          /\ Unread(u) \subseteq Notes
          /\ \/ /\ readAll' = [readAll EXCEPT ![u] = @ \cup Seen(u)]
                /\ noteCall' = noteCall
             \/ FindsUnread(q, u) /\ readAll' = readAll
    BY <1>t, <1>5, FindUnreadEnds
  <2>3. [op |-> "createManyReads", user |-> u, ids |-> Unread(u), shown |-> Seen(u)] \in NoteCalls
    BY <2>2 DEF NoteCalls
  <2>4. noteCall' \in [Calls -> NoteCalls] /\ readAll' \in [Readers -> SUBSET Notes]
    BY <1>t, <2>2, <2>3 DEF FindsUnread, NotesTypeOK
  <2> QED
    BY <1>t, <2>1, <2>4 DEF NotesTypeOK
<1>6. ASSUME NEW q \in Calls, CreateManyReads(q) PROVE NotesTypeOK'
  <2>1. /\ markers' \in [Readers -> [Notes -> Nat]]
        /\ noteCall[q].shown \subseteq Notes
    BY <1>t, <1>6, CreateManyAdds
  <2>2. readAll' \in [Readers -> SUBSET Notes]
    BY <1>t, <1>6, <2>1 DEF CreateManyReads, NotesTypeOK
  <2> QED
    BY <1>t, <1>i, <1>6, <2>1, <2>2 DEF CreateManyReads, NoteGoesOn, NotesTypeOK
<1>7. ASSUME NEW q \in Calls, SoftDeleteNote(q) PROVE NotesTypeOK'
  <2>1. noteCall[q].note \in Notes
    BY <1>t, <1>7, NoteCallTyped DEF SoftDeleteNote, OneNoteOps
  <2> QED
    BY <1>t, <1>i, <1>7, <2>1 DEF SoftDeleteNote, NoteGoesOn, NotesTypeOK
<1>8. ASSUME NEW q \in Calls, AbandonNote(q) PROVE NotesTypeOK'
  BY <1>t, <1>i, <1>8 DEF AbandonNote, NoteGoesOn, NotesTypeOK
<1>9. CASE UNCHANGED noteVars
  BY <1>t, <1>9 DEF noteVars, NotesTypeOK
<1> QED
  BY <1>1, <1>2, <1>3, <1>4, <1>5, <1>6, <1>7, <1>8, <1>9 DEF NotesNext

\* Markers are only added, so that what a call counts on stays; the rows a call has
\* found are at worst deleted meanwhile.
LEMMA FoundedKept ==
    ASSUME NotesTypeOK, NotesFounded,
           noteLive \cup noteGone \subseteq noteLive' \cup noteGone',
           \A u \in Readers, n \in Notes : markers[u][n] > 0 => markers'[u][n] > 0,
           NEW q \in Calls, noteCall'[q] = noteCall[q]
    PROVE  NoteCallFounded(q)'
BY NoteCallTyped DEF NotesFounded, NoteCallFounded

\* Every handler leaves the calls with what they have found and begun with.
LEMMA NotesFoundedStep == NotesInv /\ [NotesNext]_noteVars => NotesFounded'
<1> SUFFICES ASSUME NotesInv, [NotesNext]_noteVars
             PROVE  NotesFounded'
  OBVIOUS
<1>t. NotesTypeOK /\ NotesFounded
  BY DEF NotesInv
<1>m. /\ noteLive \cup noteGone \subseteq noteLive' \cup noteGone'
      /\ \A u \in Readers, n \in Notes : markers[u][n] > 0 => markers'[u][n] > 0
  <2>1. noteLive \cup noteGone \subseteq noteLive' \cup noteGone'
    BY DEF NotesNext, noteVars, CreateNotification, FindForUser, FindRead, CreateRead,
           FindUnread, CreateManyReads, SoftDeleteNote, AbandonNote
  <2>2. ASSUME NEW u0, NEW K, MarkersAdded(u0, K)
        PROVE  \A u \in Readers, n \in Notes : markers[u][n] > 0 => markers'[u][n] > 0
    <3> SUFFICES ASSUME NEW u \in Readers, NEW n \in Notes, markers[u][n] > 0
                 PROVE  markers'[u][n] > 0
      OBVIOUS
    <3>1. markers[u][n] \in Nat
      BY <1>t DEF NotesTypeOK
    <3>2. markers'[u][n] \in {markers[u][n], markers[u][n] + 1}
      BY <2>2 DEF MarkersAdded
    <3> QED
      BY <3>1, <3>2
  <2>3. ASSUME NEW q \in Calls, CreateRead(q) \/ CreateManyReads(q)
        PROVE  \A u \in Readers, n \in Notes : markers[u][n] > 0 => markers'[u][n] > 0
    BY <1>t, <2>2, <2>3, CreateReadAdds, CreateManyAdds
  <2>4. CASE markers' = markers
    BY <2>1, <2>4
  <2>5. markers' = markers \/ \E q \in Calls : CreateRead(q) \/ CreateManyReads(q)
    BY DEF NotesNext, noteVars, CreateNotification, FindForUser, FindRead, FindUnread,
           SoftDeleteNote, AbandonNote
  <2> QED
    BY <2>1, <2>3, <2>4, <2>5
<1>r. ASSUME readAll' = readAll PROVE ReadAllCovers'
  BY <1>t, <1>m, <1>r DEF NotesFounded, ReadAllCovers, NotesTypeOK
<1>o. ASSUME NEW q \in Calls, NEW c, noteCall' = [noteCall EXCEPT ![q] = c],
             NoteCallFounded(q)'
      PROVE  \A r \in Calls : NoteCallFounded(r)'
  <2>1. ASSUME NEW r \in Calls, r # q PROVE NoteCallFounded(r)'
    <3>1. noteCall'[r] = noteCall[r]
      BY <1>t, <1>o, <2>1 DEF NotesTypeOK
    <3> QED
      BY <1>t, <1>m, <3>1, FoundedKept
  <2> QED
    BY <1>o, <2>1
<1>e. ASSUME NEW q \in Calls, noteCall' = [noteCall EXCEPT ![q] = Idle]
      PROVE  \A r \in Calls : NoteCallFounded(r)'
  <2>1. NoteCallFounded(q)'
    BY <1>t, <1>e DEF NoteCallFounded, Idle, NotesTypeOK
  <2> QED
    BY <1>o, <1>e, <2>1
<1>u. ASSUME noteCall' = noteCall PROVE \A r \in Calls : NoteCallFounded(r)'
  BY <1>t, <1>m, <1>u, FoundedKept
<1>1. CASE CreateNotification
  BY <1>1, <1>r, <1>u DEF CreateNotification, NotesFounded
<1>2. ASSUME NEW q \in Calls, FindForUser(q) PROVE NotesFounded'
  <2>1. PICK u \in Readers, n \in noteLive, op \in OneNoteOps : FindsNote(q, op, u, n)
    BY <1>2 DEF FindForUser, NoteGoesOn, FindsNote, Seen, OneNoteOps
  <2>2. UNCHANGED <<noteLive, noteGone, readAll>>
    BY <1>2 DEF FindForUser
  <2>3. noteCall'[q] = [op |-> op, user |-> u, note |-> n]
    BY <1>t, <2>1 DEF FindsNote, NotesTypeOK
  <2>4. NoteCallFounded(q)'
    BY <2>2, <2>3 DEF NoteCallFounded, OneNoteOps
  <2> QED
    BY <1>r, <1>o, <2>1, <2>2, <2>4 DEF FindsNote, NotesFounded
<1>3. ASSUME NEW q \in Calls, FindRead(q) PROVE NotesFounded'
  <2>1. readAll' = readAll
    BY <1>3 DEF FindRead
  <2>2. ASSUME NEW u \in Readers, NEW n \in Notes, FindsNote(q, "createRead", u, n)
        PROVE  NotesFounded'
    <3>1. noteCall'[q] = [op |-> "createRead", user |-> u, note |-> n]
      BY <1>t, <2>2 DEF FindsNote, NotesTypeOK
    <3>2. NoteCallFounded(q)'
      BY <3>1 DEF NoteCallFounded
    <3> QED
      BY <1>r, <1>o, <2>1, <2>2, <3>2 DEF FindsNote, NotesFounded
  <2>3. CASE noteCall' = [noteCall EXCEPT ![q] = Idle]
    BY <1>r, <1>e, <2>1, <2>3 DEF NotesFounded
  <2> QED
    BY <1>t, <1>3, <2>2, <2>3, FindReadEnds
<1>4. ASSUME NEW q \in Calls, CreateRead(q) \/ SoftDeleteNote(q) \/ AbandonNote(q)
      PROVE  NotesFounded'
  <2>1. noteCall' = [noteCall EXCEPT ![q] = Idle] /\ readAll' = readAll
    BY <1>4 DEF CreateRead, SoftDeleteNote, AbandonNote, NoteGoesOn
  <2> QED
    BY <1>r, <1>e, <2>1 DEF NotesFounded
<1>5. ASSUME NEW q \in Calls, FindUnread(q) PROVE NotesFounded'
  <2>1. markers' = markers
    BY <1>5 DEF FindUnread
  <2>2. PICK u \in Readers :
             /\ Seen(u) \subseteq Notes
             /\ Unread(u) \subseteq Seen(u)
             /\ \A n \in Unread(u) : markers[u][n] = 0
             /\ \A n \in Seen(u) \ Unread(u) : markers[u][n] > 0
             /\ \/ /\ Unread(u) = {}
                   /\ readAll' = [readAll EXCEPT ![u] = @ \cup Seen(u)]
                   /\ noteCall' = noteCall
                \/ FindsUnread(q, u) /\ readAll' = readAll
    BY <1>t, <1>5, FindUnreadEnds
  <2>3. CASE FindsUnread(q, u) /\ readAll' = readAll
    <3>1. noteCall'[q] = [op |-> "createManyReads", user |-> u, ids |-> Unread(u), shown |-> Seen(u)]
      BY <1>t, <2>3 DEF FindsUnread, NotesTypeOK
    <3>2. NoteCallFounded(q)'
      BY <2>1, <2>2, <3>1 DEF NoteCallFounded
    <3> QED
      BY <1>r, <1>o, <2>3, <3>2 DEF FindsUnread, NotesFounded
  <2>4. CASE /\ Unread(u) = {}
             /\ readAll' = [readAll EXCEPT ![u] = @ \cup Seen(u)]
             /\ noteCall' = noteCall
    <3>1. ReadAllCovers'
      BY <1>t, <2>1, <2>2, <2>4 DEF NotesFounded, ReadAllCovers, NotesTypeOK
    <3> QED
      BY <1>u, <2>4, <3>1 DEF NotesFounded
  <2> QED
    BY <2>2, <2>3, <2>4
<1>6. ASSUME NEW q \in Calls, CreateManyReads(q) PROVE NotesFounded'
  <2>1. /\ noteCall' = [noteCall EXCEPT ![q] = Idle]
        /\ noteCall[q].op = "createManyReads"
        /\ readAll' = [readAll EXCEPT ![noteCall[q].user] = @ \cup noteCall[q].shown]
    BY <1>6 DEF CreateManyReads, NoteGoesOn
  <2>2. /\ noteCall[q].user \in Readers
        /\ noteCall[q].ids \subseteq Notes
        /\ noteCall[q].shown \subseteq Notes
        /\ MarkersAdded(noteCall[q].user, noteCall[q].ids)
    BY <1>t, <1>6, CreateManyAdds
  <2>3. ASSUME NEW n \in noteCall[q].shown PROVE markers'[noteCall[q].user][n] > 0
    <3>1. n \in noteCall[q].ids \/ markers[noteCall[q].user][n] > 0
      BY <1>t, <2>1, <2>3 DEF NotesFounded, NoteCallFounded
    <3>2. markers[noteCall[q].user][n] \in Nat
      BY <1>t, <2>2, <2>3 DEF NotesTypeOK
    <3>3. n \in noteCall[q].ids =>
            markers'[noteCall[q].user][n] = markers[noteCall[q].user][n] + 1
      BY <2>2 DEF MarkersAdded
    <3> QED
      BY <1>m, <2>2, <3>1, <3>2, <3>3
  <2>4. ReadAllCovers'
    BY <1>t, <1>m, <2>1, <2>2, <2>3 DEF NotesFounded, ReadAllCovers, NotesTypeOK
  <2> QED
    BY <1>e, <2>1, <2>4 DEF NotesFounded
<1>7. CASE UNCHANGED noteVars
  BY <1>7, <1>r, <1>u DEF noteVars, NotesFounded
<1> QED
  BY <1>1, <1>2, <1>3, <1>4, <1>5, <1>6, <1>7 DEF NotesNext

\* A deletion after the first takes the place of its call; the first leaves the
\* calls other than its own.
LEMMA LateNotesStep == NotesInv /\ [NotesNext]_noteVars => LateNotesTracked'
<1> SUFFICES ASSUME NotesInv, [NotesNext]_noteVars
             PROVE  LateNotesTracked'
  OBVIOUS
<1>t. NotesTypeOK /\ LateNotesTracked
  BY DEF NotesInv
<1>k. ASSUME UNCHANGED <<noteGone, noteLate>>,
             \A n \in noteGone : HoldingNote(n)' \subseteq HoldingNote(n)
      PROVE  LateNotesTracked'
  <2>1. ASSUME NEW n \in noteGone
        PROVE  noteLate[n] + Cardinality(HoldingNote(n)') <= Others
    <3>1. HoldingNote(n) \subseteq Calls
      BY DEF HoldingNote
    <3>2. noteLate[n] \in Nat /\ noteLate[n] + Cardinality(HoldingNote(n)) <= Others
      BY <1>t, <2>1 DEF NotesTypeOK, LateNotesTracked
    <3> QED
      BY <1>k, <2>1, <3>1, <3>2, LateKept
  <2> QED
    BY <1>t, <1>k, <2>1 DEF LateNotesTracked
<1>o. ASSUME NEW q \in Calls, NEW c, noteCall' = [noteCall EXCEPT ![q] = c],
             c.op = "deleteNotification" => c.note \notin noteGone,
             UNCHANGED <<noteGone, noteLate>>
      PROVE  LateNotesTracked'
  <2>1. ASSUME NEW n \in noteGone PROVE HoldingNote(n)' \subseteq HoldingNote(n)
    BY <1>t, <1>o, <2>1 DEF HoldingNote, NotesTypeOK
  <2> QED
    BY <1>k, <1>o, <2>1
<1>1. CASE CreateNotification
  BY <1>1, <1>k DEF CreateNotification, HoldingNote
<1>2. ASSUME NEW q \in Calls, FindForUser(q) PROVE LateNotesTracked'
  <2>1. PICK u \in Readers, n \in noteLive, op \in OneNoteOps : FindsNote(q, op, u, n)
    BY <1>2 DEF FindForUser, NoteGoesOn, FindsNote, Seen, OneNoteOps
  <2>2. UNCHANGED <<noteGone, noteLate>> /\ n \notin noteGone
    BY <1>t, <1>2 DEF FindForUser, NotesTypeOK
  <2> QED
    BY <1>o, <2>1, <2>2 DEF FindsNote
<1>3. ASSUME NEW q \in Calls, FindRead(q) PROVE LateNotesTracked'
  <2>1. UNCHANGED <<noteGone, noteLate>>
    BY <1>3 DEF FindRead
  <2>2. CASE noteCall' = [noteCall EXCEPT ![q] = Idle]
    BY <1>o, <2>1, <2>2 DEF Idle
  <2>3. ASSUME NEW u \in Readers, NEW n \in Notes, FindsNote(q, "createRead", u, n)
        PROVE  LateNotesTracked'
    BY <1>o, <2>1, <2>3 DEF FindsNote
  <2> QED
    BY <1>t, <1>3, <2>2, <2>3, FindReadEnds
<1>4. ASSUME NEW q \in Calls, CreateRead(q) \/ CreateManyReads(q) \/ AbandonNote(q)
      PROVE  LateNotesTracked'
  <2>1. noteCall' = [noteCall EXCEPT ![q] = Idle] /\ UNCHANGED <<noteGone, noteLate>>
    BY <1>4 DEF CreateRead, CreateManyReads, AbandonNote, NoteGoesOn
  <2> QED
    BY <1>o, <2>1 DEF Idle
<1>5. ASSUME NEW q \in Calls, FindUnread(q) PROVE LateNotesTracked'
  <2>1. UNCHANGED <<noteGone, noteLate>>
    BY <1>5 DEF FindUnread
  <2>2. ASSUME NEW u \in Readers, FindsUnread(q, u) PROVE LateNotesTracked'
    BY <1>o, <2>1, <2>2 DEF FindsUnread
  <2>3. CASE noteCall' = noteCall
    BY <1>k, <2>1, <2>3 DEF HoldingNote
  <2> QED
    BY <1>t, <1>5, <2>2, <2>3, FindUnreadEnds
<1>6. ASSUME NEW q \in Calls, SoftDeleteNote(q) PROVE LateNotesTracked'
  <2> DEFINE m == noteCall[q].note
  <2>1. /\ noteCall[q].op = "deleteNotification"
        /\ m \in Notes
        /\ noteCall' = [noteCall EXCEPT ![q] = Idle]
        /\ noteGone' = noteGone \cup {m}
        /\ noteLate' = IF m \in noteGone THEN [noteLate EXCEPT ![m] = noteLate[m] + 1] ELSE noteLate
    BY <1>t, <1>6, NoteCallTyped DEF SoftDeleteNote, NoteGoesOn, OneNoteOps
  <2> SUFFICES ASSUME NEW n \in Notes
               PROVE  IF n \in noteGone'
                        THEN noteLate'[n] + Cardinality(HoldingNote(n)') <= Others
                        ELSE noteLate'[n] = 0
    BY DEF LateNotesTracked, HoldingNote
  <2>2. /\ HoldingNote(n) \subseteq Calls
        /\ HoldingNote(n)' \subseteq HoldingNote(n)
        /\ n = m => q \in HoldingNote(n) /\ HoldingNote(n)' \subseteq HoldingNote(n) \ {q}
    BY <1>t, <2>1 DEF HoldingNote, NotesTypeOK, Idle
  <2>3. n = m => Cardinality(HoldingNote(n)') \in Nat /\ Cardinality(HoldingNote(n)') <= Others
    BY <2>2, CallLeaves
  <2>4. /\ noteLate[n] \in Nat
        /\ IF n \in noteGone
             THEN noteLate[n] + Cardinality(HoldingNote(n)) <= Others
             ELSE noteLate[n] = 0
    BY <1>t DEF NotesTypeOK, LateNotesTracked
  <2>5. noteLate'[n] = IF n = m /\ n \in noteGone THEN noteLate[n] + 1 ELSE noteLate[n]
    BY <1>t, <2>1 DEF NotesTypeOK
  <2>6. n \in noteGone => noteLate[n] + Cardinality(HoldingNote(n)') <= Others
    BY <2>2, <2>4, LateKept
  <2>7. n = m /\ n \in noteGone => (noteLate[n] + 1) + Cardinality(HoldingNote(n)') <= Others
    BY <2>2, <2>4, LateTaken
  <2>8. Others \in Nat /\ noteGone' = noteGone \cup {m}
    BY <2>1, CallsCounted
  <2> HIDE DEF m
  <2> QED
    BY <2>3, <2>4, <2>5, <2>6, <2>7, <2>8
<1>7. CASE UNCHANGED noteVars
  BY <1>7, <1>k DEF noteVars, HoldingNote
<1> QED
  BY <1>1, <1>2, <1>3, <1>4, <1>5, <1>6, <1>7 DEF NotesNext

\* The calls that mark are counted.
LEMMA MarkingCounted ==
    ASSUME NotesTypeOK, NEW u \in Readers, NEW n \in Notes
    PROVE  /\ Marking(u, n) \subseteq Calls
           /\ Cardinality(Marking(u, n)) \in Nat
           /\ Cardinality(Marking(u, n)) <= Cardinality(Calls)
           /\ Cardinality(Calls) \in Nat
           /\ markers[u][n] \in Nat
<1>1. Marking(u, n) \subseteq Calls
  BY DEF Marking
<1> QED
  BY <1>1, CallsCounted DEF NotesTypeOK

\* Calls that stop marking keep the bound, and so do calls that begin where there
\* is no marker yet.
LEMMA MarkingKept ==
    ASSUME NotesTypeOK, MarkersTracked, markers' = markers,
           \A u \in Readers, n \in Notes :
             markers[u][n] > 0 => Marking(u, n)' \subseteq Marking(u, n)
    PROVE  MarkersTracked'
<1> SUFFICES ASSUME NEW u \in Readers, NEW n \in Notes, markers[u][n] > 0
             PROVE  markers[u][n] + Cardinality(Marking(u, n)') <= Cardinality(Calls)
  BY DEF MarkersTracked, Marking
<1>1. Marking(u, n) \subseteq Calls /\ Marking(u, n)' \subseteq Marking(u, n)
  BY MarkingCounted
<1>2. /\ Cardinality(Marking(u, n)') <= Cardinality(Marking(u, n))
      /\ Cardinality(Marking(u, n)') \in Nat
  BY <1>1, CallsCounted, FS_Subset
<1> QED
  BY <1>2, MarkingCounted DEF MarkersTracked

\* Whoever inserts markers makes way for them.
LEMMA MarkersWritten ==
    ASSUME NotesTypeOK, NotesTypeOK', MarkersTracked, NEW q \in Calls, NEW u0, NEW K,
           MarkersAdded(u0, K), noteCall' = [noteCall EXCEPT ![q] = Idle],
           \A n \in K : q \in Marking(u0, n)
    PROVE  MarkersTracked'
<1> SUFFICES ASSUME NEW u \in Readers, NEW n \in Notes, markers'[u][n] > 0
             PROVE  markers'[u][n] + Cardinality(Marking(u, n)') <= Cardinality(Calls)
  BY DEF MarkersTracked, Marking
<1>1. /\ Marking(u, n) \subseteq Calls
      /\ Marking(u, n)' \subseteq Marking(u, n) \ {q}
      /\ Marking(u, n)' \subseteq Marking(u, n)
  BY DEF Marking, NotesTypeOK, Idle
<1>2. /\ Cardinality(Marking(u, n)) \in Nat
      /\ Cardinality(Marking(u, n)') \in Nat
      /\ Cardinality(Marking(u, n)') <= Cardinality(Marking(u, n))
      /\ Cardinality(Marking(u, n)') <= Cardinality(Calls) - 1
      /\ q \in Marking(u, n) => Cardinality(Marking(u, n)') <= Cardinality(Marking(u, n)) - 1
  <2>1. Cardinality(Marking(u, n)') <= Cardinality(Marking(u, n))
    BY <1>1, CallsCounted, FS_Subset
  <2> QED
    BY <1>1, <2>1, CallsCounted, CallLeaves DEF Others
<1>3. /\ Cardinality(Calls) \in Nat
      /\ markers[u][n] \in Nat
      /\ markers[u][n] > 0 => markers[u][n] + Cardinality(Marking(u, n)) <= Cardinality(Calls)
  BY MarkingCounted DEF MarkersTracked
<1>4. CASE u = u0 /\ n \in K
  <2>1. markers'[u][n] = markers[u][n] + 1 /\ q \in Marking(u, n)
    BY <1>4 DEF MarkersAdded
  <2> QED
    BY <1>2, <1>3, <2>1
<1>5. CASE ~(u = u0 /\ n \in K)
  <2>1. markers'[u][n] = markers[u][n]
    BY <1>5 DEF MarkersAdded
  <2> QED
    BY <1>2, <1>3, <2>1
<1> QED
  BY <1>4, <1>5

\* Only a call that is marking gives its user one marker more, and stops marking.
LEMMA MarkersStep == NotesInv /\ [NotesNext]_noteVars => MarkersTracked'
<1> SUFFICES ASSUME NotesInv, [NotesNext]_noteVars
             PROVE  MarkersTracked'
  OBVIOUS
<1>t. NotesTypeOK /\ NotesTypeOK' /\ MarkersTracked
  BY NotesTypeStep DEF NotesInv
<1>o. ASSUME NEW q \in Calls, NEW c, noteCall' = [noteCall EXCEPT ![q] = c],
             c.op = "createRead" => markers[c.user][c.note] = 0,
             c.op = "createManyReads" => \A n \in c.ids : markers[c.user][n] = 0,
             markers' = markers
      PROVE  MarkersTracked'
  <2>1. ASSUME NEW u \in Readers, NEW n \in Notes, markers[u][n] > 0
        PROVE  Marking(u, n)' \subseteq Marking(u, n)
    <3>1. markers[u][n] # 0
      BY <2>1
    <3> QED
      BY <1>t, <1>o, <3>1 DEF Marking, NotesTypeOK
  <2> QED
    BY <1>t, <1>o, <2>1, MarkingKept
<1>u. ASSUME noteCall' = noteCall, markers' = markers PROVE MarkersTracked'
  BY <1>t, <1>u, MarkingKept DEF Marking
<1>1. CASE CreateNotification
  BY <1>1, <1>u DEF CreateNotification
<1>2. ASSUME NEW q \in Calls, FindForUser(q) PROVE MarkersTracked'
  <2>1. PICK u \in Readers, n \in noteLive, op \in {"readNotification", "deleteNotification"} :
          FindsNote(q, op, u, n)
    BY <1>2 DEF FindForUser, NoteGoesOn, FindsNote, Seen
  <2>2. markers' = markers
    BY <1>2 DEF FindForUser
  <2> QED
    BY <1>o, <2>1, <2>2 DEF FindsNote
<1>3. ASSUME NEW q \in Calls, FindRead(q) PROVE MarkersTracked'
  <2>1. markers' = markers
    BY <1>3 DEF FindRead
  <2>2. CASE noteCall' = [noteCall EXCEPT ![q] = Idle]
    BY <1>o, <2>1, <2>2 DEF Idle
  <2>3. ASSUME NEW u \in Readers, NEW n \in Notes, markers[u][n] = 0,
               FindsNote(q, "createRead", u, n)
        PROVE  MarkersTracked'
    BY <1>o, <2>1, <2>3 DEF FindsNote
  <2> QED
    BY <1>t, <1>3, <2>2, <2>3, FindReadEnds
<1>4. ASSUME NEW q \in Calls, CreateRead(q) PROVE MarkersTracked'
  <2> DEFINE K == {noteCall[q].note}
  <2>1. /\ noteCall' = [noteCall EXCEPT ![q] = Idle]
        /\ MarkersAdded(noteCall[q].user, K)
        /\ \A n \in K : q \in Marking(noteCall[q].user, n)
    BY <1>t, <1>4, CreateReadAdds DEF CreateRead, NoteGoesOn, Marking
  <2> HIDE DEF K
  <2> QED
    BY <1>t, <2>1, MarkersWritten
<1>5. ASSUME NEW q \in Calls, FindUnread(q) PROVE MarkersTracked'
  <2>1. markers' = markers
    BY <1>5 DEF FindUnread
  <2>2. ASSUME NEW u \in Readers, \A n \in Unread(u) : markers[u][n] = 0, FindsUnread(q, u)
        PROVE  MarkersTracked'
    BY <1>o, <2>1, <2>2 DEF FindsUnread
  <2>3. CASE noteCall' = noteCall
    BY <1>u, <2>1, <2>3
  <2> QED
    BY <1>t, <1>5, <2>2, <2>3, FindUnreadEnds
<1>6. ASSUME NEW q \in Calls, CreateManyReads(q) PROVE MarkersTracked'
  <2>1. /\ noteCall' = [noteCall EXCEPT ![q] = Idle]
        /\ MarkersAdded(noteCall[q].user, noteCall[q].ids)
        /\ \A n \in noteCall[q].ids : q \in Marking(noteCall[q].user, n)
    BY <1>t, <1>6, CreateManyAdds DEF CreateManyReads, NoteGoesOn, Marking
  <2> QED
    BY <1>t, <2>1, MarkersWritten
<1>7. ASSUME NEW q \in Calls, SoftDeleteNote(q) \/ AbandonNote(q) PROVE MarkersTracked'
  <2>1. noteCall' = [noteCall EXCEPT ![q] = Idle] /\ markers' = markers
    BY <1>7 DEF SoftDeleteNote, AbandonNote, NoteGoesOn
  <2> QED
    BY <1>o, <2>1 DEF Idle
<1>8. CASE UNCHANGED noteVars
  BY <1>8, <1>u DEF noteVars
<1> QED
  BY <1>1, <1>2, <1>3, <1>4, <1>5, <1>6, <1>7, <1>8 DEF NotesNext

\* Every handler keeps what is tracked.
LEMMA NotesInvStep == NotesInv /\ [NotesNext]_noteVars => NotesInv'
BY NotesTypeStep, NotesFoundedStep, LateNotesStep, MarkersStep DEF NotesInv

\* readNotification looks for a marker and inserts one in two queries: for every
\* number n of calls at a time a user has at most n markers of a notification.
THEOREM MarkersBounded == NotesSpec => []MarkerCopies
<1>1. ASSUME NotesInv PROVE MarkerCopies
  <2>1. ASSUME NEW u \in Readers, NEW n \in Notes PROVE markers[u][n] <= Cardinality(Calls)
    BY <1>1, MarkingCounted DEF NotesInv, MarkersTracked
  <2> QED
    BY <2>1 DEF MarkerCopies
<1> QED
  BY <1>1, NotesInvInit, NotesInvStep, PTL DEF NotesSpec

\* readAllNotifications inserts what was unread when it looked, while others read,
\* delete and create: what was on show when it began is marked once it has answered.
THEOREM ReadAllAlwaysCovers == NotesSpec => []ReadAllCovers
<1>1. NotesInv => ReadAllCovers
  BY DEF NotesInv, NotesFounded
<1> QED
  BY <1>1, NotesInvInit, NotesInvStep, PTL DEF NotesSpec

\* A second deletion of a notification is a late write.
LEMMA NotesRefine == NotesInv /\ [NotesNext]_noteVars => [NoteRows!Next]_(NoteRows!vars)
<1> SUFFICES ASSUME NotesInv, [NotesNext]_noteVars
             PROVE  NoteRows!Next \/ UNCHANGED <<noteLive, noteGone, noteLate>>
  BY DEF NoteRows!vars
<1>t. NotesTypeOK /\ NotesFounded /\ LateNotesTracked
  BY DEF NotesInv
<1>1. CASE CreateNotification
  BY <1>t, <1>1 DEF CreateNotification, NoteRows!Next, NoteRows!Add, NotesTypeOK
<1>2. ASSUME NEW q \in Calls,
             \/ FindForUser(q) \/ FindRead(q) \/ CreateRead(q) \/ FindUnread(q)
             \/ CreateManyReads(q) \/ AbandonNote(q)
      PROVE  UNCHANGED <<noteLive, noteGone, noteLate>>
  BY <1>2 DEF FindForUser, FindRead, CreateRead, FindUnread, CreateManyReads, AbandonNote
<1>3. ASSUME NEW q \in Calls, SoftDeleteNote(q) PROVE NoteRows!Next
  <2> DEFINE m == noteCall[q].note
  <2>1. /\ m \in Notes
        /\ noteCall[q].op = "deleteNotification"
        /\ m \in noteLive \cup noteGone
        /\ noteLive' = noteLive \ {m}
        /\ noteGone' = noteGone \cup {m}
        /\ noteLate' = IF m \in noteGone THEN [noteLate EXCEPT ![m] = @ + 1] ELSE noteLate
    BY <1>t, <1>3, NoteCallTyped DEF SoftDeleteNote, OneNoteOps, NotesFounded, NoteCallFounded
  <2>2. CASE m \in noteGone
    <3>1. HoldingNote(m) \subseteq Calls /\ q \in HoldingNote(m)
      BY <2>1 DEF HoldingNote
    <3>2. noteLate[m] \in Nat /\ noteLate[m] + Cardinality(HoldingNote(m)) <= Others
      BY <1>t, <2>1, <2>2 DEF NotesTypeOK, LateNotesTracked
    <3>3. noteLate[m] < Others
      <4>1. HoldingNote(m) \ {q} \subseteq HoldingNote(m) \ {q}
        OBVIOUS
      <4> QED
        BY <3>1, <3>2, <4>1, LateTaken
    <3>4. UNCHANGED <<noteLive, noteGone>>
      BY <1>t, <2>1, <2>2 DEF NotesTypeOK
    <3> QED
      BY <2>1, <2>2, <3>3, <3>4 DEF NoteRows!Next, NoteRows!WriteLate
  <2>3. CASE m \notin noteGone
    BY <2>1, <2>3 DEF NoteRows!Next, NoteRows!Remove
  <2> QED
    BY <2>2, <2>3
<1>4. CASE UNCHANGED noteVars
  BY <1>4 DEF noteVars
<1> QED
  BY <1>1, <1>2, <1>3, <1>4 DEF NotesNext

\* deleteNotification finds a live row and deletes it by its id alone, also for the
\* other users of a notification for everyone: it never comes back.
THEOREM NotesRefineSoftDeleted == NotesSpec => NotesAreSoftDeleted
<1>1. NotesInit => NoteRows!Init
  BY DEF NotesInit, NoteRows!Init
<1> QED
  BY <1>1, NotesInvInit, NotesInvStep, NotesRefine, PTL
  DEF NotesSpec, NotesAreSoftDeleted, NoteRows!Spec

-----------------------------------------------------------------------------
(* Accounts *)

ActOps == {"signin", "withdraw", "updatePassword", "update", "updateStatus"}
AccountCalls ==
    {Idle}
    \cup [op : {"create"}, to : Emails]
    \cup [op : {"signin", "withdraw", "updatePassword"}, account : Accounts, to : {""}]
    \cup [op : {"update"}, account : Accounts, to : Emails]
    \cup [op : {"updateStatus"}, account : Accounts, to : Statuses]

AccountsTypeOK ==
    /\ accLive \subseteq Accounts
    /\ accGone \subseteq Accounts
    /\ accLive \cap accGone = {}
    /\ status \in [Accounts -> Statuses]
    /\ accCall \in [Calls -> AccountCalls]
    /\ accLate \in [Accounts -> Nat]

\* A call that acts holds an account that it has found live, now or before.
AccountsHeld ==
    \A q \in Calls : accCall[q].op \in ActOps => accCall[q].account \in accLive \cup accGone

HoldingAccount(a) == {q \in Calls : accCall[q].op \in ActOps /\ accCall[q].account = a}

LateAccountsTracked ==
    \A a \in Accounts :
      IF a \in accGone
        THEN accLate[a] + Cardinality(HoldingAccount(a)) <= Others
        ELSE accLate[a] = 0

AccountsInv == AccountsTypeOK /\ AccountsHeld /\ LateAccountsTracked /\ WithdrawnUnlessLate

\* No accounts, no calls.
LEMMA AccountsInvInit == AccountsInit => AccountsInv
<1> SUFFICES ASSUME AccountsInit
             PROVE  AccountsInv
  OBVIOUS
<1>1. AccountsTypeOK
  BY DEF AccountsInit, AccountsTypeOK, AccountCalls, Statuses
<1>2. AccountsHeld
  BY DEF AccountsInit, AccountsHeld, Idle, ActOps
<1>3. LateAccountsTracked
  BY DEF AccountsInit, LateAccountsTracked
<1>4. WithdrawnUnlessLate
  BY DEF AccountsInit, WithdrawnUnlessLate
<1> QED
  BY <1>1, <1>2, <1>3, <1>4 DEF AccountsInv

\* A call that acts names an account, and an admin's status is one of the enum.
LEMMA AccountCallTyped ==
    ASSUME AccountsTypeOK, NEW q \in Calls
    PROVE  /\ accCall[q].op \in ActOps => accCall[q].account \in Accounts
           /\ accCall[q].op = "updateStatus" => accCall[q].to \in Statuses
<1> DEFINE c == accCall[q]
<1>1. c \in AccountCalls
  BY DEF AccountsTypeOK
<1> HIDE DEF c
<1>2. /\ c.op \in ActOps => c.account \in Accounts
      /\ c.op = "updateStatus" => c.to \in Statuses
  <2>1. CASE c = Idle
    BY <2>1 DEF Idle, ActOps
  <2>2. CASE c \in [op : {"create"}, to : Emails]
    BY <2>2 DEF ActOps
  <2>3. CASE c \in [op : {"signin", "withdraw", "updatePassword"}, account : Accounts, to : {""}]
    BY <2>3 DEF ActOps
  <2>4. CASE c \in [op : {"update"}, account : Accounts, to : Emails]
    BY <2>4 DEF ActOps
  <2>5. CASE c \in [op : {"updateStatus"}, account : Accounts, to : Statuses]
    BY <2>5 DEF ActOps
  <2> QED
    BY <1>1, <2>1, <2>2, <2>3, <2>4, <2>5 DEF AccountCalls
<1> QED
  BY <1>2 DEF c

\* What a look-up leads to.
LEMMA FindAccountHolds ==
    ASSUME AccountsTypeOK, NEW q \in Calls, FindAccount(q)
    PROVE  \E a \in accLive, c \in AccountCalls :
             /\ accCall' = [accCall EXCEPT ![q] = c]
             /\ c.op \in ActOps
             /\ c.account = a
<1>1. PICK a \in accLive, i \in Intents : AccountCall(q, [op |-> i[1], account |-> a, to |-> i[2]])
  BY DEF FindAccount
<1> DEFINE c == [op |-> i[1], account |-> a, to |-> i[2]]
<1>2. a \in Accounts
  BY DEF AccountsTypeOK
<1>3. \/ i[1] \in {"signin", "withdraw", "updatePassword"} /\ i[2] = ""
      \/ i[1] = "update" /\ i[2] \in Emails
      \/ i[1] = "updateStatus" /\ i[2] \in Statuses
  <2>1. CASE i \in {<<"signin", "">>, <<"withdraw", "">>, <<"updatePassword", "">>}
    <3>1. i = <<"signin", "">> \/ i = <<"withdraw", "">> \/ i = <<"updatePassword", "">>
      BY <2>1
    <3>2. CASE i = <<"signin", "">>
      BY <3>2, Zenon
    <3>3. CASE i = <<"withdraw", "">>
      BY <3>3, Zenon
    <3>4. CASE i = <<"updatePassword", "">>
      BY <3>4, Zenon
    <3> QED
      BY <3>1, <3>2, <3>3, <3>4
  <2>2. CASE i \in {"update"} \X Emails
    BY <2>2
  <2>3. CASE i \in {"updateStatus"} \X Statuses
    BY <2>3
  <2> QED
    BY <2>1, <2>2, <2>3 DEF Intents
<1>4. c \in AccountCalls
  BY <1>2, <1>3 DEF AccountCalls
<1>5. c.op \in ActOps /\ c.account = a
  BY <1>3 DEF ActOps
<1>6. accCall' = [accCall EXCEPT ![q] = c]
  BY <1>1 DEF AccountCall
<1> HIDE DEF c
<1> QED
  BY <1>4, <1>5, <1>6

\* What a call does that acts on the account it has found.
LEMMA ActsOnAccount ==
    ASSUME AccountsTypeOK, AccountsHeld, LateAccountsTracked,
           NEW q \in Calls, NEW op \in ActOps, ActOnAccount(q, op)
    PROVE  LET a == accCall[q].account IN
           /\ accCall[q].op = op
           /\ accCall' = [accCall EXCEPT ![q] = Idle]
           /\ a \in Accounts
           /\ a \in accLive \cup accGone
           /\ a \in accGone => accLate[a] < Others
           /\ accLate' = IF a \in accGone THEN [accLate EXCEPT ![a] = @ + 1] ELSE accLate
           /\ accLate' \in [Accounts -> Nat]
<1> DEFINE a == accCall[q].account
<1>1. accCall[q].op = op /\ accCall' = [accCall EXCEPT ![q] = Idle]
  BY DEF ActOnAccount, AccountCall
<1>2. a \in Accounts /\ a \in accLive \cup accGone
  BY <1>1, AccountCallTyped DEF AccountsHeld
<1>3. accLate' = IF a \in accGone THEN [accLate EXCEPT ![a] = @ + 1] ELSE accLate
  BY DEF ActOnAccount, LateFor
<1>4. accLate' \in [Accounts -> Nat]
  BY <1>2, <1>3 DEF AccountsTypeOK
<1>5. HoldingAccount(a) \subseteq Calls /\ q \in HoldingAccount(a)
  BY <1>1 DEF HoldingAccount
<1>6. a \in accGone => accLate[a] \in Nat /\ accLate[a] + Cardinality(HoldingAccount(a)) <= Others
  BY <1>2 DEF AccountsTypeOK, LateAccountsTracked
<1>7. HoldingAccount(a) \ {q} \subseteq HoldingAccount(a) \ {q}
  OBVIOUS
<1>8. a \in accGone => accLate[a] < Others
  BY <1>5, <1>6, <1>7, LateTaken
<1> QED
  BY <1>1, <1>2, <1>3, <1>4, <1>8

\* Every handler keeps the types and what its calls hold.
LEMMA AccountsTypeStep == AccountsInv /\ [AccountsNext]_accVars => AccountsTypeOK' /\ AccountsHeld'
<1> SUFFICES ASSUME AccountsInv, [AccountsNext]_accVars
             PROVE  AccountsTypeOK' /\ AccountsHeld'
  OBVIOUS
<1>t. AccountsTypeOK /\ AccountsHeld /\ LateAccountsTracked
  BY DEF AccountsInv
<1>i. Idle \in AccountCalls /\ Idle.op \notin ActOps
  BY DEF AccountCalls, Idle, ActOps
<1>c. ASSUME NEW q \in Calls, NEW c \in AccountCalls, accCall' = [accCall EXCEPT ![q] = c],
             c.op \in ActOps => c.account \in accLive \cup accGone,
             accLive \cup accGone \subseteq accLive' \cup accGone'
      PROVE  accCall' \in [Calls -> AccountCalls] /\ AccountsHeld'
  BY <1>t, <1>c DEF AccountsTypeOK, AccountsHeld
<1>1. ASSUME NEW q \in Calls, ExistsByEmail(q) PROVE AccountsTypeOK' /\ AccountsHeld'
  <2>1. PICK e \in Emails : accCall' = [accCall EXCEPT ![q] = [op |-> "create", to |-> e]]
    BY <1>1 DEF ExistsByEmail, AccountCall
  <2>2. [op |-> "create", to |-> e] \in AccountCalls
    BY DEF AccountCalls
  <2>3. UNCHANGED <<accLive, accGone, status, accLate>>
    BY <1>1 DEF ExistsByEmail
  <2> QED
    BY <1>t, <1>c, <2>1, <2>2, <2>3 DEF AccountsTypeOK, ActOps
<1>2. ASSUME NEW q \in Calls, CreateUser(q) PROVE AccountsTypeOK' /\ AccountsHeld'
  <2>1. /\ accCall' = [accCall EXCEPT ![q] = Idle]
        /\ UNCHANGED <<accGone, status, accLate>>
        /\ \E a \in Accounts \ (accLive \cup accGone) : accLive' = accLive \cup {a}
    BY <1>2 DEF CreateUser, AccountCall
  <2> QED
    BY <1>t, <1>i, <1>c, <2>1 DEF AccountsTypeOK
<1>3. ASSUME NEW q \in Calls, FindAccount(q) PROVE AccountsTypeOK' /\ AccountsHeld'
  <2>1. PICK a \in accLive, c \in AccountCalls :
          /\ accCall' = [accCall EXCEPT ![q] = c]
          /\ c.op \in ActOps
          /\ c.account = a
    BY <1>t, <1>3, FindAccountHolds
  <2>2. UNCHANGED <<accLive, accGone, status, accLate>>
    BY <1>3 DEF FindAccount
  <2> QED
    BY <1>t, <1>c, <2>1, <2>2 DEF AccountsTypeOK
<1>4. ASSUME NEW q \in Calls, IssueTokens(q) \/ UpdatePassword(q) \/ UpdateEmail(q)
      PROVE  AccountsTypeOK' /\ AccountsHeld'
  <2>1. PICK op \in ActOps : ActOnAccount(q, op)
    BY <1>4 DEF IssueTokens, UpdatePassword, UpdateEmail, ActOps
  <2>2. accCall' = [accCall EXCEPT ![q] = Idle] /\ accLate' \in [Accounts -> Nat]
    BY <1>t, <2>1, ActsOnAccount
  <2>3. UNCHANGED <<accLive, accGone, status>>
    BY <1>4 DEF IssueTokens, UpdatePassword, UpdateEmail
  <2> QED
    BY <1>t, <1>i, <1>c, <2>2, <2>3 DEF AccountsTypeOK
<1>5. ASSUME NEW q \in Calls, UpdateStatus(q) PROVE AccountsTypeOK' /\ AccountsHeld'
  <2>1. /\ accCall' = [accCall EXCEPT ![q] = Idle]
        /\ accLate' \in [Accounts -> Nat]
        /\ accCall[q].to \in Statuses
    BY <1>t, <1>5, ActsOnAccount, AccountCallTyped DEF UpdateStatus, ActOps
  <2>2. UNCHANGED <<accLive, accGone>> /\ status' \in [Accounts -> Statuses]
    BY <1>t, <1>5, <2>1 DEF UpdateStatus, AccountsTypeOK
  <2> QED
    BY <1>t, <1>i, <1>c, <2>1, <2>2 DEF AccountsTypeOK
<1>6. ASSUME NEW q \in Calls, SoftDeleteAccount(q) PROVE AccountsTypeOK' /\ AccountsHeld'
  <2>1. /\ accCall' = [accCall EXCEPT ![q] = Idle]
        /\ accLate' \in [Accounts -> Nat]
        /\ accCall[q].account \in Accounts
    BY <1>t, <1>6, ActsOnAccount DEF SoftDeleteAccount, ActOps
  <2>2. /\ accLive' = accLive \ {accCall[q].account}
        /\ accGone' = accGone \cup {accCall[q].account}
        /\ status' \in [Accounts -> Statuses]
    BY <1>t, <1>6 DEF SoftDeleteAccount, AccountsTypeOK, Statuses
  <2> QED
    BY <1>t, <1>i, <1>c, <2>1, <2>2 DEF AccountsTypeOK
<1>7. ASSUME NEW q \in Calls, AbandonAccount(q) PROVE AccountsTypeOK' /\ AccountsHeld'
  BY <1>t, <1>i, <1>c, <1>7 DEF AbandonAccount, AccountCall, AccountsTypeOK
<1>8. CASE UNCHANGED accVars
  BY <1>t, <1>8 DEF accVars, AccountsTypeOK, AccountsHeld
<1> QED
  BY <1>1, <1>2, <1>3, <1>4, <1>5, <1>6, <1>7, <1>8 DEF AccountsNext

\* A late write takes the place of its call; the first deletion leaves the calls
\* other than its own.
LEMMA LateActOnAccount ==
    ASSUME AccountsInv, NEW q \in Calls, NEW op \in ActOps, ActOnAccount(q, op),
           \/ accGone' = accGone
           \/ accGone' = accGone \cup {accCall[q].account}
    PROVE  LateAccountsTracked'
<1> DEFINE c == accCall[q].account
<1>t. AccountsTypeOK /\ AccountsHeld /\ LateAccountsTracked
  BY DEF AccountsInv
<1>0. /\ accCall[q].op \in ActOps
      /\ accCall' = [accCall EXCEPT ![q] = Idle]
      /\ c \in Accounts
      /\ accLate' = IF c \in accGone THEN [accLate EXCEPT ![c] = accLate[c] + 1] ELSE accLate
  BY <1>t, ActsOnAccount
<1> SUFFICES ASSUME NEW d \in Accounts
             PROVE  IF d \in accGone'
                      THEN accLate'[d] + Cardinality(HoldingAccount(d)') <= Others
                      ELSE accLate'[d] = 0
  BY DEF LateAccountsTracked, HoldingAccount
<1>1. /\ HoldingAccount(d) \subseteq Calls
      /\ HoldingAccount(d)' \subseteq HoldingAccount(d)
      /\ d = c => /\ q \in HoldingAccount(d)
                  /\ HoldingAccount(d)' \subseteq HoldingAccount(d) \ {q}
  BY <1>t, <1>0 DEF HoldingAccount, AccountsTypeOK, Idle, ActOps
<1>2. d = c => Cardinality(HoldingAccount(d)') \in Nat /\ Cardinality(HoldingAccount(d)') <= Others
  BY <1>1, CallLeaves
<1>3. /\ accLate[d] \in Nat
      /\ IF d \in accGone
           THEN accLate[d] + Cardinality(HoldingAccount(d)) <= Others
           ELSE accLate[d] = 0
  BY <1>t DEF AccountsTypeOK, LateAccountsTracked
<1>4. accLate'[d] = IF d = c /\ d \in accGone THEN accLate[d] + 1 ELSE accLate[d]
  BY <1>t, <1>0 DEF AccountsTypeOK
<1>5. d \in accGone => accLate[d] + Cardinality(HoldingAccount(d)') <= Others
  BY <1>1, <1>3, LateKept
<1>6. d = c /\ d \in accGone => (accLate[d] + 1) + Cardinality(HoldingAccount(d)') <= Others
  BY <1>1, <1>3, LateTaken
<1>7. Others \in Nat
  BY CallsCounted
<1> HIDE DEF c
<1>8. \/ accGone' = accGone
      \/ accGone' = accGone \cup {c}
  BY DEF c
<1> QED
  BY <1>2, <1>3, <1>4, <1>5, <1>6, <1>7, <1>8

\* A late write or sign-in takes the place of the call that found the account.
LEMMA LateAccountsStep == AccountsInv /\ [AccountsNext]_accVars => LateAccountsTracked'
<1> SUFFICES ASSUME AccountsInv, [AccountsNext]_accVars
             PROVE  LateAccountsTracked'
  OBVIOUS
<1>t. AccountsTypeOK /\ LateAccountsTracked
  BY DEF AccountsInv
<1>k. ASSUME UNCHANGED <<accGone, accLate>>,
             \A d \in accGone : HoldingAccount(d)' \subseteq HoldingAccount(d)
      PROVE  LateAccountsTracked'
  <2>1. ASSUME NEW d \in accGone
        PROVE  accLate[d] + Cardinality(HoldingAccount(d)') <= Others
    <3>1. HoldingAccount(d) \subseteq Calls
      BY DEF HoldingAccount
    <3>2. accLate[d] \in Nat /\ accLate[d] + Cardinality(HoldingAccount(d)) <= Others
      BY <1>t, <2>1 DEF AccountsTypeOK, LateAccountsTracked
    <3> QED
      BY <1>k, <2>1, <3>1, <3>2, LateKept
  <2> QED
    BY <1>t, <1>k, <2>1 DEF LateAccountsTracked
<1>o. ASSUME NEW q \in Calls, NEW c, accCall' = [accCall EXCEPT ![q] = c],
             c.op \in ActOps => c.account \notin accGone, UNCHANGED <<accGone, accLate>>
      PROVE  LateAccountsTracked'
  <2>1. ASSUME NEW d \in accGone PROVE HoldingAccount(d)' \subseteq HoldingAccount(d)
    BY <1>t, <1>o, <2>1 DEF HoldingAccount, AccountsTypeOK
  <2> QED
    BY <1>k, <1>o, <2>1
<1>1. ASSUME NEW q \in Calls, ExistsByEmail(q) PROVE LateAccountsTracked'
  <2>1. PICK e \in Emails : accCall' = [accCall EXCEPT ![q] = [op |-> "create", to |-> e]]
    BY <1>1 DEF ExistsByEmail, AccountCall
  <2> QED
    BY <1>1, <1>o, <2>1 DEF ExistsByEmail, ActOps
<1>2. ASSUME NEW q \in Calls, CreateUser(q) \/ AbandonAccount(q) PROVE LateAccountsTracked'
  <2>1. accCall' = [accCall EXCEPT ![q] = Idle] /\ UNCHANGED <<accGone, accLate>>
    BY <1>2 DEF CreateUser, AbandonAccount, AccountCall
  <2> QED
    BY <1>o, <2>1 DEF Idle, ActOps
<1>3. ASSUME NEW q \in Calls, FindAccount(q) PROVE LateAccountsTracked'
  <2>1. PICK a \in accLive, c \in AccountCalls :
          /\ accCall' = [accCall EXCEPT ![q] = c]
          /\ c.op \in ActOps
          /\ c.account = a
    BY <1>t, <1>3, FindAccountHolds
  <2>2. UNCHANGED <<accGone, accLate>> /\ a \notin accGone
    BY <1>t, <1>3 DEF FindAccount, AccountsTypeOK
  <2> QED
    BY <1>o, <2>1, <2>2
<1>4. ASSUME NEW q \in Calls,
             \/ IssueTokens(q) \/ UpdatePassword(q) \/ UpdateEmail(q)
             \/ UpdateStatus(q) \/ SoftDeleteAccount(q)
      PROVE  LateAccountsTracked'
  BY <1>4, LateActOnAccount
  DEF IssueTokens, UpdatePassword, UpdateEmail, UpdateStatus, SoftDeleteAccount, ActOps
<1>5. CASE UNCHANGED accVars
  BY <1>5, <1>k DEF accVars, HoldingAccount
<1> QED
  BY <1>1, <1>2, <1>3, <1>4, <1>5 DEF AccountsNext

\* A withdrawal writes the status with the mark of deletion; only a late write of an
\* admin changes it again.
LEMMA WithdrawnStep == AccountsInv /\ [AccountsNext]_accVars => WithdrawnUnlessLate'
<1> SUFFICES ASSUME AccountsInv, [AccountsNext]_accVars
             PROVE  WithdrawnUnlessLate'
  OBVIOUS
<1>t. AccountsTypeOK /\ AccountsHeld /\ LateAccountsTracked /\ WithdrawnUnlessLate
  BY DEF AccountsInv
<1>a. ASSUME NEW q \in Calls, NEW op \in ActOps, ActOnAccount(q, op)
      PROVE  /\ accCall[q].account \in Accounts
             /\ \A a \in accGone : accLate[a] > 0 => accLate'[a] > 0
             /\ accCall[q].account \in accGone => accLate'[accCall[q].account] > 0
  <2>1. LET c == accCall[q].account IN
        /\ c \in Accounts
        /\ accLate' = IF c \in accGone THEN [accLate EXCEPT ![c] = @ + 1] ELSE accLate
    BY <1>t, <1>a, ActsOnAccount
  <2> QED
    BY <1>t, <2>1 DEF AccountsTypeOK
<1>1. ASSUME NEW q \in Calls, IssueTokens(q) \/ UpdatePassword(q) \/ UpdateEmail(q)
      PROVE  WithdrawnUnlessLate'
  BY <1>t, <1>a, <1>1 DEF IssueTokens, UpdatePassword, UpdateEmail, ActOps, WithdrawnUnlessLate
<1>2. ASSUME NEW q \in Calls, UpdateStatus(q) PROVE WithdrawnUnlessLate'
  BY <1>t, <1>a, <1>2 DEF UpdateStatus, ActOps, WithdrawnUnlessLate, AccountsTypeOK
<1>3. ASSUME NEW q \in Calls, SoftDeleteAccount(q) PROVE WithdrawnUnlessLate'
  BY <1>t, <1>a, <1>3 DEF SoftDeleteAccount, ActOps, WithdrawnUnlessLate, AccountsTypeOK
<1>4. ASSUME NEW q \in Calls,
             ExistsByEmail(q) \/ CreateUser(q) \/ FindAccount(q) \/ AbandonAccount(q)
      PROVE  WithdrawnUnlessLate'
  BY <1>t, <1>4 DEF ExistsByEmail, CreateUser, FindAccount, AbandonAccount, WithdrawnUnlessLate
<1>5. CASE UNCHANGED accVars
  BY <1>t, <1>5 DEF accVars, WithdrawnUnlessLate
<1> QED
  BY <1>1, <1>2, <1>3, <1>4, <1>5 DEF AccountsNext

\* Every handler keeps what is tracked.
LEMMA AccountsInvStep == AccountsInv /\ [AccountsNext]_accVars => AccountsInv'
BY AccountsTypeStep, LateAccountsStep, WithdrawnStep DEF AccountsInv

\* updateUserStatus does not look at isDeleted when it writes: a deleted account has
\* another status than WITHDRAWN only if there was a late write.
THEOREM WithdrawnAlways == AccountsSpec => []WithdrawnUnlessLate
<1>1. AccountsInv => WithdrawnUnlessLate
  BY DEF AccountsInv
<1> QED
  BY <1>1, AccountsInvInit, AccountsInvStep, PTL DEF AccountsSpec

\* Whatever a call does to a deleted account is a late write.
LEMMA AccountsRefine == AccountsInv /\ [AccountsNext]_accVars => [AccountRows!Next]_(AccountRows!vars)
<1> SUFFICES ASSUME AccountsInv, [AccountsNext]_accVars
             PROVE  AccountRows!Next \/ UNCHANGED <<accLive, accGone, accLate>>
  BY DEF AccountRows!vars
<1>t. AccountsTypeOK /\ AccountsHeld /\ LateAccountsTracked
  BY DEF AccountsInv
<1>w. ASSUME NEW q \in Calls, NEW op \in ActOps, ActOnAccount(q, op),
             UNCHANGED <<accLive, accGone>>
      PROVE  AccountRows!Next \/ UNCHANGED <<accLive, accGone, accLate>>
  <2>1. LET a == accCall[q].account IN
        /\ a \in Accounts
        /\ a \in accGone => accLate[a] < Others
        /\ accLate' = IF a \in accGone THEN [accLate EXCEPT ![a] = @ + 1] ELSE accLate
    BY <1>t, <1>w, ActsOnAccount
  <2> QED
    BY <1>w, <2>1 DEF AccountRows!Next, AccountRows!WriteLate
<1>1. ASSUME NEW q \in Calls, CreateUser(q) PROVE AccountRows!Next
  BY <1>t, <1>1 DEF CreateUser, AccountRows!Next, AccountRows!Add, AccountsTypeOK
<1>2. ASSUME NEW q \in Calls, ExistsByEmail(q) \/ FindAccount(q) \/ AbandonAccount(q)
      PROVE  UNCHANGED <<accLive, accGone, accLate>>
  BY <1>2 DEF ExistsByEmail, FindAccount, AbandonAccount
<1>3. ASSUME NEW q \in Calls,
             IssueTokens(q) \/ UpdatePassword(q) \/ UpdateEmail(q) \/ UpdateStatus(q)
      PROVE  AccountRows!Next \/ UNCHANGED <<accLive, accGone, accLate>>
  BY <1>3, <1>w DEF IssueTokens, UpdatePassword, UpdateEmail, UpdateStatus, ActOps
<1>4. ASSUME NEW q \in Calls, SoftDeleteAccount(q)
      PROVE  AccountRows!Next \/ UNCHANGED <<accLive, accGone, accLate>>
  <2> DEFINE a == accCall[q].account
  <2>1. /\ ActOnAccount(q, "withdraw")
        /\ "withdraw" \in ActOps
        /\ accLive' = accLive \ {a}
        /\ accGone' = accGone \cup {a}
    BY <1>4 DEF SoftDeleteAccount, ActOps
  <2>2. /\ a \in Accounts
        /\ a \in accLive \cup accGone
        /\ accLate' = IF a \in accGone THEN [accLate EXCEPT ![a] = @ + 1] ELSE accLate
    BY <1>t, <2>1, ActsOnAccount
  <2>3. CASE a \in accGone
    <3>1. UNCHANGED <<accLive, accGone>>
      BY <1>t, <2>1, <2>3 DEF AccountsTypeOK
    <3> QED
      BY <1>w, <2>1, <3>1
  <2>4. CASE a \notin accGone
    BY <2>1, <2>2, <2>4 DEF AccountRows!Next, AccountRows!Remove
  <2> QED
    BY <2>3, <2>4
<1>5. CASE UNCHANGED accVars
  BY <1>5 DEF accVars
<1> QED
  BY <1>1, <1>2, <1>3, <1>4, <1>5 DEF AccountsNext

\* A withdrawal ends no call that has found the account before: for every number of
\* calls, no other gets a session for it or writes to it, and it never comes back.
THEOREM AccountsRefineSoftDeleted == AccountsSpec => AccountsAreSoftDeleted
<1>1. AccountsInit => AccountRows!Init
  BY DEF AccountsInit, AccountRows!Init
<1> QED
  BY <1>1, AccountsInvInit, AccountsInvStep, AccountsRefine, PTL
  DEF AccountsSpec, AccountsAreSoftDeleted, AccountRows!Spec

=============================================================================
