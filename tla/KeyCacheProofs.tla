--------------------------- MODULE KeyCacheProofs ---------------------------
(* Theorems about KeyCache, for every number of requests and keys, every   *)
(* schedule of the provider and every value of the intervals.              *)
EXTENDS KeyCache, FiniteSetTheorems, SequenceTheorems, TLAPS

(* The queue of the refresh mutex: a request stands in it once.            *)
Line ==
  /\ waiting \in Seq(Requests) /\ owner \in Requests \cup {Free}
  /\ \A i, j \in DOMAIN waiting : waiting[i] = waiting[j] => i = j

(* A request has no answer before it ends.                                 *)
Silent == \A p \in Requests : pc[p] # "idle" => answer[p] = "none"

(* Who fetches found its key neither in the cache nor trusted, and the     *)
(* cache is still as it was.                                               *)
Owed == \A p \in Requests : pc[p] \in {"fetch", "arriving"} => ~Cached(kid[p])

(* Keys are on their way to somebody.                                      *)
OnTheWay == arriving.keys # {} => \E p \in Requests : pc[p] = "arriving"

(* How long what the provider has done may be missing from the key set on  *)
(* its way, from a cache that is still trusted, from the memory of absent  *)
(* ids.                                                                    *)
ArrivingLag ==
  \A k \in ProviderKids :
    (\E p \in Requests : pc[p] = "arriving") /\ (k \in arriving.keys <=> k \notin published)
       => changed[k] <= arriving.age
CacheLag ==
  \A k \in ProviderKids :
    Fresh /\ (k \in cache.keys <=> k \notin published)
       => changed[k] <= cache.age + FetchTimeout
UnknownLag ==
  \A k \in DOMAIN unknown \cap published :
    unknown[k] < UnknownTtl => changed[k] <= unknown[k] + RefreshInterval + FetchTimeout

(* What the state of the cache tells of the last refresh to end.           *)
LastRefresh ==
  /\ ended.outcome = "ok" => ended.age = RefreshInterval \/ cache.age <= ended.age
  /\ ended.outcome = "failed" => failure <= ended.age

IInv ==
  /\ TypeOK /\ Line /\ Silent /\ Owed /\ OnTheWay
  /\ ArrivingLag /\ CacheLag /\ UnknownLag /\ LastRefresh

-----------------------------------------------------------------------------
(* The refresh mutex.                                                      *)

(* The part of the invariant that is about the mutex.                      *)
MutexOK ==
  /\ pc \in [Requests -> {"idle", "inspect", "lock", "wait", "recheck", "fetch", "arriving"}]
  /\ \A p \in Requests : pc[p] \in {"recheck", "fetch", "arriving"} <=> owner = p
  /\ \A p \in Requests : pc[p] = "wait" <=> \E i \in DOMAIN waiting : waiting[i] = p
  /\ Line

(* What a sequence without its n-th element is.                            *)
LEMMA RemoveAtProperties ==
  ASSUME NEW S, NEW s \in Seq(S), NEW n \in 1..Len(s)
  PROVE  /\ RemoveAt(s, n) \in Seq(S) /\ Len(RemoveAt(s, n)) = Len(s) - 1
         /\ DOMAIN RemoveAt(s, n) = 1..Len(s) - 1
         /\ \A i \in 1..Len(s) - 1 : RemoveAt(s, n)[i] = s[IF i < n THEN i ELSE i + 1]
<1> DEFINE a == SubSeq(s, 1, n - 1)
           b == SubSeq(s, n + 1, Len(s))
<1>1. Len(s) \in Nat /\ \A i \in 1..Len(s) : s[i] \in S
  BY LenProperties, ElementOfSeq
<1>2. /\ a \in Seq(S) /\ Len(a) = n - 1
      /\ \A i \in 1..n - 1 : a[i] = s[i]
  <2>1. \A i \in 1..n - 1 : s[i] \in S BY <1>1
  <2>2. n - 1 \in Int /\ 1 \in Int BY <1>1
  <2>3. /\ a \in Seq(S) /\ Len(a) = IF 1 <= n - 1 THEN (n - 1) - 1 + 1 ELSE 0
        /\ \A i \in 1..(n - 1) - 1 + 1 : a[i] = s[1 + i - 1]
    BY <2>1, <2>2, SubSeqProperties
  <2> HIDE DEF a
  <2> QED BY <1>1, <2>3
<1>3. /\ b \in Seq(S) /\ Len(b) = Len(s) - n
      /\ \A i \in 1..Len(s) - n : b[i] = s[n + i]
  <2>1. \A i \in n + 1..Len(s) : s[i] \in S BY <1>1
  <2>2. n + 1 \in Int /\ Len(s) \in Int BY <1>1
  <2>3. /\ b \in Seq(S) /\ Len(b) = IF n + 1 <= Len(s) THEN Len(s) - (n + 1) + 1 ELSE 0
        /\ \A i \in 1..Len(s) - (n + 1) + 1 : b[i] = s[(n + 1) + i - 1]
    BY <2>1, <2>2, SubSeqProperties
  <2> HIDE DEF b
  <2> QED BY <1>1, <2>3
<1>4. RemoveAt(s, n) = a \o b BY DEF RemoveAt
<1> HIDE DEF a, b
<1>5. /\ a \o b \in Seq(S) /\ Len(a \o b) = Len(a) + Len(b)
      /\ \A i \in 1..Len(a) + Len(b) : (a \o b)[i] =
           IF i <= Len(a) THEN a[i] ELSE b[i - Len(a)]
  BY <1>2, <1>3, ConcatProperties
<1>6. Len(a \o b) = Len(s) - 1 BY <1>1, <1>2, <1>3, <1>5
<1>7. ASSUME NEW i \in 1..Len(s) - 1
      PROVE  (a \o b)[i] = s[IF i < n THEN i ELSE i + 1]
  <2>1. i \in 1..Len(a) + Len(b) BY <1>1, <1>2, <1>3
  <2>2. CASE i < n
    BY <1>1, <1>2, <1>5, <2>1, <2>2
  <2>3. CASE ~(i < n)
    <3>1. (a \o b)[i] = b[i - (n - 1)] BY <1>1, <1>2, <1>5, <2>1, <2>3
    <3>2. i - (n - 1) \in 1..Len(s) - n /\ n + (i - (n - 1)) = i + 1 BY <1>1, <2>3
    <3> QED BY <1>3, <2>3, <3>1, <3>2
  <2> QED BY <2>2, <2>3
<1>8. DOMAIN (a \o b) = 1..Len(a \o b) BY <1>5, LenProperties
<1> QED BY <1>4, <1>5, <1>6, <1>7, <1>8

(* Handing the mutex over to the next in line.                             *)
LEMMA ReleaseStep ==
  ASSUME MutexOK, NEW p \in Requests, owner = p, Release(p)
  PROVE  MutexOK'
<1> USE RequestsAssumption DEF MutexOK, Line
<1>1. CASE waiting = <<>>
  BY <1>1 DEF Release
<1>2. CASE waiting # <<>>
  <2> DEFINE h == Head(waiting)
  <2>1. /\ owner' = h /\ waiting' = Tail(waiting)
        /\ pc' = [pc EXCEPT ![p] = "idle", ![h] = "recheck"]
    BY <1>2 DEF Release
  <2>2. /\ h = waiting[1] /\ 1 \in DOMAIN waiting /\ h \in Requests
        /\ waiting' \in Seq(Requests) /\ Len(waiting') = Len(waiting) - 1
        /\ \A i \in 1..Len(waiting') : waiting'[i] = waiting[i + 1]
        /\ DOMAIN waiting = 1..Len(waiting) /\ DOMAIN waiting' = 1..Len(waiting')
        /\ Len(waiting) \in Nat
    BY <1>2, <2>1, HeadTailProperties, ElementOfSeq, LenProperties
  <2> HIDE DEF h
  <2>3. pc[h] = "wait" /\ h # p BY <2>2
  <2>4. \A i, j \in DOMAIN waiting' : waiting'[i] = waiting'[j] => i = j
    <3> SUFFICES ASSUME NEW i \in DOMAIN waiting', NEW j \in DOMAIN waiting',
                        waiting'[i] = waiting'[j]
                 PROVE  i = j
      OBVIOUS
    <3>1. i + 1 \in DOMAIN waiting /\ j + 1 \in DOMAIN waiting BY <2>2
    <3> QED BY <2>2, <3>1
  <2>5. \A q \in Requests \ {h} :
          (\E i \in DOMAIN waiting : waiting[i] = q)
            <=> (\E i \in DOMAIN waiting' : waiting'[i] = q)
    <3> SUFFICES ASSUME NEW q \in Requests \ {h}
                 PROVE  (\E i \in DOMAIN waiting : waiting[i] = q)
                          <=> (\E i \in DOMAIN waiting' : waiting'[i] = q)
      OBVIOUS
    <3>1. ASSUME NEW i \in DOMAIN waiting, waiting[i] = q
          PROVE  \E j \in DOMAIN waiting' : waiting'[j] = q
      <4>1. i # 1 BY <2>2, <3>1
      <4>2. i - 1 \in DOMAIN waiting' /\ (i - 1) + 1 = i BY <2>2, <4>1
      <4> QED BY <2>2, <3>1, <4>2
    <3>2. ASSUME NEW i \in DOMAIN waiting', waiting'[i] = q
          PROVE  \E j \in DOMAIN waiting : waiting[j] = q
      <4>1. i + 1 \in DOMAIN waiting BY <2>2
      <4> QED BY <2>2, <3>2, <4>1
    <3> QED BY <3>1, <3>2
  <2>6. ~ \E i \in DOMAIN waiting' : waiting'[i] = h
    <3> SUFFICES ASSUME NEW i \in DOMAIN waiting', waiting'[i] = h PROVE FALSE
      OBVIOUS
    <3>1. i + 1 \in DOMAIN waiting /\ i + 1 # 1 BY <2>2
    <3> QED BY <2>2, <3>1
  <2>7. \A q \in Requests : pc'[q] = IF q = h THEN "recheck" ELSE IF q = p THEN "idle" ELSE pc[q]
    BY <2>1, <2>3
  <2>8. pc' \in [Requests -> {"idle", "inspect", "lock", "wait", "recheck", "fetch", "arriving"}]
    BY <2>1
  <2>9. \A q \in Requests : pc'[q] \in {"recheck", "fetch", "arriving"} <=> owner' = q
    BY <2>1, <2>2, <2>7
  <2>10. \A q \in Requests : pc'[q] = "wait" <=> \E i \in DOMAIN waiting' : waiting'[i] = q
    BY <2>3, <2>5, <2>6, <2>7
  <2> QED BY <2>1, <2>2, <2>4, <2>8, <2>9, <2>10
<1> QED BY <1>1, <1>2

(* A request that leaves the line leaves the others their places.          *)
LEMMA LeaveLineStep ==
  ASSUME MutexOK, NEW p \in Requests, pc[p] = "wait", LeaveLine(p)
  PROVE  MutexOK'
<1> USE DEF MutexOK, Line
<1>1. PICK n \in DOMAIN waiting : waiting[n] = p /\ waiting' = RemoveAt(waiting, n)
  BY DEF LeaveLine
<1>2. owner' = owner /\ pc' = [pc EXCEPT ![p] = "idle"] BY DEF LeaveLine
<1>3. /\ waiting' \in Seq(Requests) /\ Len(waiting') = Len(waiting) - 1
      /\ \A i \in 1..Len(waiting') : waiting'[i] = waiting[IF i < n THEN i ELSE i + 1]
      /\ DOMAIN waiting = 1..Len(waiting) /\ DOMAIN waiting' = 1..Len(waiting')
      /\ Len(waiting) \in Nat /\ n \in 1..Len(waiting)
  <2>1. /\ DOMAIN waiting = 1..Len(waiting) /\ Len(waiting) \in Nat
        /\ n \in 1..Len(waiting)
    BY LenProperties
  <2>2. waiting' = RemoveAt(waiting, n) BY <1>1
  <2>3. /\ RemoveAt(waiting, n) \in Seq(Requests)
        /\ Len(RemoveAt(waiting, n)) = Len(waiting) - 1
        /\ DOMAIN RemoveAt(waiting, n) = 1..Len(waiting) - 1
        /\ \A i \in 1..Len(waiting) - 1 :
             RemoveAt(waiting, n)[i] = waiting[IF i < n THEN i ELSE i + 1]
    <3>1. waiting \in Seq(Requests) OBVIOUS
    <3> QED BY ONLY <2>1, <3>1, RemoveAtProperties
  <2> QED BY <2>1, <2>2, <2>3
<1>4. \A i, j \in DOMAIN waiting' : waiting'[i] = waiting'[j] => i = j
  <2> SUFFICES ASSUME NEW i \in DOMAIN waiting', NEW j \in DOMAIN waiting',
                      waiting'[i] = waiting'[j]
               PROVE  i = j
    OBVIOUS
  <2> DEFINE a == IF i < n THEN i ELSE i + 1
             b == IF j < n THEN j ELSE j + 1
  <2>1. a \in DOMAIN waiting /\ b \in DOMAIN waiting BY <1>3
  <2>2. waiting[a] = waiting[b] BY <1>3
  <2>3. a = b BY <2>1, <2>2
  <2> QED BY <1>3, <2>3
<1>5. \A q \in Requests \ {p} :
        (\E i \in DOMAIN waiting : waiting[i] = q)
          <=> (\E i \in DOMAIN waiting' : waiting'[i] = q)
  <2> SUFFICES ASSUME NEW q \in Requests \ {p}
               PROVE  (\E i \in DOMAIN waiting : waiting[i] = q)
                        <=> (\E i \in DOMAIN waiting' : waiting'[i] = q)
    OBVIOUS
  <2>1. ASSUME NEW i \in DOMAIN waiting, waiting[i] = q
        PROVE  \E j \in DOMAIN waiting' : waiting'[j] = q
    <3>1. i # n BY <1>1, <2>1
    <3>2. CASE i < n
      <4>1. i \in DOMAIN waiting' BY <1>3, <3>2
      <4> QED BY <1>3, <2>1, <3>2, <4>1
    <3>3. CASE i > n
      <4>1. i - 1 \in DOMAIN waiting' /\ ~(i - 1 < n) /\ (i - 1) + 1 = i BY <1>3, <3>3
      <4> QED BY <1>3, <2>1, <4>1
    <3> QED BY <1>3, <3>1, <3>2, <3>3
  <2>2. ASSUME NEW i \in DOMAIN waiting', waiting'[i] = q
        PROVE  \E j \in DOMAIN waiting : waiting[j] = q
    <3>1. (IF i < n THEN i ELSE i + 1) \in DOMAIN waiting BY <1>3
    <3> QED BY <1>3, <2>2, <3>1
  <2> QED BY <2>1, <2>2
<1>6. ~ \E i \in DOMAIN waiting' : waiting'[i] = p
  <2> SUFFICES ASSUME NEW i \in DOMAIN waiting', waiting'[i] = p PROVE FALSE
    OBVIOUS
  <2>1. (IF i < n THEN i ELSE i + 1) \in DOMAIN waiting BY <1>3
  <2> QED BY <1>1, <1>3, <2>1
<1>7. \A q \in Requests : pc'[q] = IF q = p THEN "idle" ELSE pc[q] BY <1>2
<1>8. \A q \in Requests : pc'[q] = "wait" <=> \E i \in DOMAIN waiting' : waiting'[i] = q
  BY <1>5, <1>6, <1>7
<1>9. \A q \in Requests : pc'[q] \in {"recheck", "fetch", "arriving"} <=> owner' = q
  BY <1>2, <1>7
<1> QED BY <1>2, <1>3, <1>4, <1>8, <1>9

(* Who hands the mutex over ends; at most one other moves, out of line.    *)
LEMMA ReleaseMoves ==
  ASSUME MutexOK, NEW p \in Requests, owner = p, Release(p)
  PROVE  /\ pc'[p] = "idle"
         /\ \A q \in Requests \ {p} :
              pc'[q] = pc[q] \/ (pc[q] = "wait" /\ pc'[q] = "recheck")
<1> USE RequestsAssumption DEF MutexOK, Line
<1>1. CASE waiting = <<>>
  <2>1. pc' = [pc EXCEPT ![p] = "idle"] BY <1>1 DEF Release
  <2> QED BY <2>1
<1>2. CASE waiting # <<>>
  <2> DEFINE h == Head(waiting)
  <2>1. h = waiting[1] /\ 1 \in DOMAIN waiting /\ h \in Requests
    <3>1. Len(waiting) \in Nat /\ Len(waiting) # 0 BY <1>2, LenProperties, EmptySeq
    <3>2. DOMAIN waiting = 1..Len(waiting) BY LenProperties
    <3> QED BY <1>2, <3>1, <3>2, HeadTailProperties, ElementOfSeq
  <2>2. pc' = [pc EXCEPT ![p] = "idle", ![h] = "recheck"] BY <1>2 DEF Release
  <2> HIDE DEF h
  <2>3. pc[h] = "wait" /\ h # p BY <2>1
  <2> QED BY <2>2, <2>3
<1> QED BY <1>1, <1>2

(* Every step keeps the mutex in order.                                    *)
LEMMA MutexStep ==
  ASSUME MutexOK, kid \in [Requests -> Kids], [Next]_vars
  PROVE  MutexOK'
<1> USE RequestsAssumption DEF MutexOK, Line
<1>1. ASSUME NEW p \in Requests, Ask(p) PROVE MutexOK'
  BY <1>1 DEF Ask, mutexVars
<1>2. ASSUME NEW p \in Requests, Inspect(p) PROVE MutexOK'
  BY <1>2 DEF Inspect, mutexVars
<1>3. ASSUME NEW p \in Requests, LockRefresh(p) PROVE MutexOK'
  <2>1. pc[p] = "lock" /\ ~ \E i \in DOMAIN waiting : waiting[i] = p
    BY <1>3 DEF LockRefresh
  <2>2. CASE owner = Free BY <1>3, <2>2 DEF LockRefresh
  <2>3. CASE owner # Free
    <3>1. /\ waiting' = Append(waiting, p) /\ owner' = owner
          /\ pc' = [pc EXCEPT ![p] = "wait"]
      BY <1>3, <2>3 DEF LockRefresh
    <3>2. Len(waiting) \in Nat /\ DOMAIN waiting = 1..Len(waiting) BY LenProperties
    <3>3. /\ waiting' \in Seq(Requests) /\ DOMAIN waiting' = 1..Len(waiting) + 1
          /\ \A i \in 1..Len(waiting) : waiting'[i] = waiting[i]
          /\ waiting'[Len(waiting) + 1] = p
      BY <3>1, <3>2, AppendProperties, LenProperties
    <3>4. \A i, j \in DOMAIN waiting' : waiting'[i] = waiting'[j] => i = j
      BY <2>1, <3>2, <3>3
    <3>5. \A q \in Requests : (\E i \in DOMAIN waiting' : waiting'[i] = q)
                               <=> q = p \/ \E i \in DOMAIN waiting : waiting[i] = q
      <4>1. DOMAIN waiting' = DOMAIN waiting \cup {Len(waiting) + 1} BY <3>2, <3>3
      <4>2. \A i \in DOMAIN waiting : waiting'[i] = waiting[i] BY <3>2, <3>3
      <4> QED BY <3>3, <4>1, <4>2, Zenon
    <3>6. \A q \in Requests : pc'[q] = IF q = p THEN "wait" ELSE pc[q] BY <3>1
    <3>7. \A q \in Requests : pc'[q] = "wait" <=> \E i \in DOMAIN waiting' : waiting'[i] = q
      BY <3>5, <3>6
    <3>8. \A q \in Requests : pc'[q] \in {"recheck", "fetch", "arriving"} <=> owner' = q
      BY <2>1, <3>1, <3>6
    <3> QED BY <3>1, <3>3, <3>4, <3>7, <3>8
  <2> QED BY <2>2, <2>3
<1>4. ASSUME NEW p \in Requests, Recheck(p) PROVE MutexOK'
  <2>1. pc[p] = "recheck" /\ owner = p BY <1>4 DEF Recheck
  <2>2. CASE Verdict(kid[p]) = "refresh"
    BY <1>4, <2>1, <2>2 DEF Recheck, StartFetch, mutexVars
  <2>3. CASE Verdict(kid[p]) # "refresh"
    BY <1>4, <2>1, <2>3, ReleaseStep DEF Recheck
  <2> QED BY <2>2, <2>3
<1>5. ASSUME NEW p \in Requests, Serve(p) PROVE MutexOK'
  BY <1>5 DEF Serve, mutexVars
<1>6. ASSUME NEW p \in Requests, StoreKeys(p) PROVE MutexOK'
  BY <1>6, ReleaseStep DEF StoreKeys
<1>7. ASSUME NEW p \in Requests, FetchFails(p) PROVE MutexOK'
  BY <1>7, ReleaseStep DEF FetchFails
<1>8. ASSUME NEW p \in Requests, Cancel(p) PROVE MutexOK'
  <2>1. CASE pc[p] = "inspect" /\ pc' = [pc EXCEPT ![p] = "idle"] /\ UNCHANGED mutexVars
    BY <2>1 DEF mutexVars
  <2>2. CASE pc[p] = "wait" /\ LeaveLine(p) BY <2>2, LeaveLineStep
  <2>3. CASE owner = p /\ Release(p) BY <2>3, ReleaseStep
  <2> QED BY <1>8, <2>1, <2>2, <2>3 DEF Cancel
<1>9. ASSUME NEW k \in ProviderKids, Rotate(k) PROVE MutexOK'
  BY <1>9 DEF Rotate, mutexVars
<1>10. CASE Tick BY <1>10 DEF Tick, mutexVars
<1>11. CASE UNCHANGED vars BY <1>11 DEF vars, mutexVars
<1> QED BY <1>1, <1>2, <1>3, <1>4, <1>5, <1>6, <1>7, <1>8, <1>9, <1>10, <1>11
        DEF Next, RequestStep, FetchStep

-----------------------------------------------------------------------------
(* The memory of absent ids.                                               *)

(* The part of the type invariant that is about unknown_kids.              *)
MemoryOK(u) ==
  /\ DOMAIN u \subseteq Kids /\ Cardinality(DOMAIN u) <= UnknownCap
  /\ \A k \in DOMAIN u : u[k] \in 0..UnknownTtl

(* remember_unknown stays within its cap.                                  *)
LEMMA RememberOK ==
  ASSUME NEW u, MemoryOK(u), NEW k \in Kids
  PROVE  MemoryOK(Remember(u, k))
<1> USE TimesAssumption, KidsAssumption DEF MemoryOK, Remember
<1>1. IsFiniteSet(DOMAIN u) BY FS_Subset
<1>2. CASE k \in DOMAIN u
  <2>1. DOMAIN u \cup {k} = DOMAIN u BY <1>2
  <2> QED BY <1>2, <2>1
<1>3. CASE k \notin DOMAIN u
  <2>1. Cardinality(DOMAIN u \cup {k}) = Cardinality(DOMAIN u) + 1
    BY <1>1, <1>3, FS_AddElement
  <2>2. Cardinality(DOMAIN u) \in Nat BY <1>1, FS_CardinalityType
  <2> QED BY <1>3, <2>1, <2>2
<1> QED BY <1>2, <1>3

(* inspect_key_state forgets the old and remembers at most one more.       *)
LEMMA InspectedOK ==
  ASSUME MemoryOK(unknown), NEW k \in Kids
  PROVE  MemoryOK(Inspected(k))
<1>1. MemoryOK(Retained)
  <2>1. /\ DOMAIN Retained \subseteq DOMAIN unknown
        /\ \A j \in DOMAIN Retained : Retained[j] = unknown[j]
    BY DEF Retained
  <2>2. IsFiniteSet(DOMAIN unknown) BY KidsAssumption, FS_Subset DEF MemoryOK
  <2>3. /\ Cardinality(DOMAIN Retained) <= Cardinality(DOMAIN unknown)
        /\ Cardinality(DOMAIN Retained) \in Nat /\ Cardinality(DOMAIN unknown) \in Nat
    BY <2>1, <2>2, FS_Subset, FS_CardinalityType
  <2> HIDE DEF Retained
  <2> QED BY <2>1, <2>3, TimesAssumption DEF MemoryOK
<1> QED BY <1>1, RememberOK DEF Inspected

(* Every step keeps every variable in its type.                            *)
LEMMA TypeStep ==
  ASSUME TypeOK, Line, [Next]_vars
  PROVE  TypeOK' /\ Line'
<1> USE TimesAssumption, KidsAssumption
<1>1. MutexOK' /\ Line' BY MutexStep DEF TypeOK, MutexOK
<1>2. MaxChanged \in Nat
  BY DEF MaxChanged, Larger, RevokedBound, NoticedBound
<1> DEFINE PublishedOK ==
             /\ published \subseteq ProviderKids /\ changed \in [ProviderKids -> 0..MaxChanged]
             /\ rotations \in 0..MaxRotations
           CacheOK ==
             /\ cache \in [keys : SUBSET ProviderKids, age : 0..Ttl]
             /\ failure \in 0..FailureBackoff
             /\ arriving \in [keys : SUBSET ProviderKids, age : 0..FetchTimeout]
           AnswersOK ==
             /\ kid \in [Requests -> Kids]
             /\ answer \in [Requests -> {"none", "key", "unknown", "unavailable"}]
           HistoryOK ==
             /\ ended \in [outcome : {"never", "ok", "failed"}, age : 0..RefreshInterval]
             /\ sinceStart \in 0..RefreshInterval
<1>3. PublishedOK /\ CacheOK /\ AnswersOK /\ HistoryOK /\ MemoryOK(unknown)
  BY DEF TypeOK, MemoryOK
<1>4. PublishedOK'
  <2>1. ASSUME NEW k \in ProviderKids, Rotate(k) PROVE PublishedOK'
    BY <1>2, <1>3, <2>1 DEF Rotate
  <2>2. CASE Tick BY <1>2, <1>3, <2>2 DEF Tick, Older
  <2> QED BY <1>3, <2>1, <2>2 DEF Next, RequestStep, FetchStep, vars, providerVars, Ask, Inspect,
            LockRefresh, Recheck, Serve, StoreKeys, FetchFails, Cancel
<1>5. CacheOK'
  <2>1. CASE Tick
    <3>1. arriving' \in [keys : SUBSET ProviderKids, age : 0..FetchTimeout]
      BY <1>3, <2>1 DEF Tick
    <3> QED BY <1>3, <2>1, <3>1 DEF Tick, Older
  <2>2. ASSUME NEW p \in Requests, StoreKeys(p) PROVE CacheOK'
    BY <1>3, <2>2 DEF StoreKeys, NewKeys, Nothing
  <2>3. ASSUME NEW p \in Requests, FetchFails(p) PROVE CacheOK'
    BY <1>3, <2>3 DEF FetchFails, Nothing
  <2>4. ASSUME NEW p \in Requests, Cancel(p) PROVE CacheOK'
    BY <1>3, <2>4 DEF Cancel, Nothing, stateVars
  <2>5. ASSUME NEW p \in Requests, Serve(p) PROVE CacheOK'
    BY <1>3, <2>5 DEF Serve, stateVars
  <2> QED BY <1>3, <2>1, <2>2, <2>3, <2>4, <2>5
          DEF Next, RequestStep, FetchStep, vars, stateVars, Ask, Inspect, LockRefresh, Recheck,
              Rotate
<1>6. AnswersOK'
  <2>1. \A p \in Requests :
          Verdict(kid[p]) \in {"key", "unknown", "unavailable", "refresh"}
    BY DEF Verdict
  <2> QED BY <1>3, <2>1 DEF Next, RequestStep, FetchStep, vars, Return, StartFetch, Ask, Inspect,
            LockRefresh, Recheck, Serve, StoreKeys, FetchFails, Cancel, Rotate, Tick
<1>7. HistoryOK'
  <2>1. CASE Tick
    <3>1. \A age \in 0..RefreshInterval : Older(age, RefreshInterval) \in 0..RefreshInterval
      BY TimesAssumption DEF Older
    <3>2. ended' = [ended EXCEPT !.age = Older(@, RefreshInterval)]
          /\ sinceStart' = Older(sinceStart, RefreshInterval)
      BY <2>1 DEF Tick
    <3>3. ended.age \in 0..RefreshInterval /\ sinceStart \in 0..RefreshInterval BY <1>3
    <3>4. /\ Older(ended.age, RefreshInterval) \in 0..RefreshInterval
          /\ Older(sinceStart, RefreshInterval) \in 0..RefreshInterval
      BY <3>1, <3>3
    <3> QED BY <1>3, <3>2, <3>4
  <2>2. ASSUME NEW p \in Requests, StoreKeys(p) \/ FetchFails(p) PROVE HistoryOK'
    <3>1. sinceStart' = sinceStart /\ ended' \in {[outcome |-> o, age |-> 0] : o \in {"ok", "failed"}}
      BY <2>2 DEF StoreKeys, FetchFails
    <3> QED BY <1>3, <3>1, TimesAssumption
  <2>3. ASSUME NEW p \in Requests, Recheck(p) PROVE HistoryOK'
    <3>1. ended' = ended /\ sinceStart' \in {sinceStart, 0}
      BY <2>3 DEF Recheck, StartFetch, historyVars
    <3> QED BY <1>3, <3>1, TimesAssumption
  <2>4. UNCHANGED historyVars => HistoryOK' BY <1>3 DEF historyVars
  <2> HIDE DEF HistoryOK
  <2>5. \A p \in Requests :
          Ask(p) \/ Inspect(p) \/ LockRefresh(p) \/ Serve(p) \/ Cancel(p) => UNCHANGED historyVars
    BY DEF Ask, Inspect, LockRefresh, Serve, Cancel
  <2>6. \A k \in ProviderKids : Rotate(k) => UNCHANGED historyVars BY DEF Rotate
  <2>7. UNCHANGED vars => UNCHANGED historyVars BY DEF vars
  <2> QED BY <1>3, <2>1, <2>2, <2>3, <2>4, <2>5, <2>6, <2>7 DEF Next, RequestStep, FetchStep
<1>8. MemoryOK(unknown)'
  <2>1. ASSUME NEW p \in Requests, Inspect(p) \/ Recheck(p) PROVE MemoryOK(unknown)'
    <3>1. unknown' = Inspected(kid[p]) /\ kid[p] \in Kids BY <1>3, <2>1 DEF Inspect, Recheck
    <3>2. MemoryOK(Inspected(kid[p])) BY <1>3, <3>1, InspectedOK
    <3> QED BY <3>1, <3>2 DEF MemoryOK
  <2>2. ASSUME NEW p \in Requests, StoreKeys(p) PROVE MemoryOK(unknown)'
    <3>1. unknown' \in {unknown, Remember(unknown, kid[p])} /\ kid[p] \in Kids
      BY <1>3, <2>2 DEF StoreKeys
    <3>2. MemoryOK(Remember(unknown, kid[p])) BY <1>3, <3>1, RememberOK
    <3> QED BY <1>3, <3>1, <3>2 DEF MemoryOK
  <2>3. CASE Tick BY <1>3, <2>3 DEF Tick, MemoryOK, Older
  <2>4. CASE UNCHANGED unknown BY <1>3, <2>4 DEF MemoryOK
  <2> QED BY <2>1, <2>2, <2>3, <2>4
          DEF Next, RequestStep, FetchStep, vars, stateVars, Ask, LockRefresh, Serve, FetchFails,
              Cancel, Rotate
<1> QED BY <1>1, <1>4, <1>5, <1>6, <1>7, <1>8 DEF TypeOK, MutexOK, MemoryOK

-----------------------------------------------------------------------------
(* Who asks, who fetches, what is on its way.                              *)

(* What a step may do to a request: whose turn it is not stays where it    *)
(* is, with its key and its answer, or comes out of the line.              *)
LEMMA StepOfOthers ==
  ASSUME TypeOK, Line, NEW p \in Requests,
         Ask(p) \/ RequestStep(p) \/ Cancel(p)
  PROVE  \A q \in Requests \ {p} :
           /\ pc'[q] = pc[q] \/ (pc[q] = "wait" /\ pc'[q] = "recheck")
           /\ kid'[q] = kid[q] /\ answer'[q] = answer[q]
<1> USE DEF TypeOK, mutexVars, Return
<1>1. MutexOK BY DEF MutexOK
<1>2. CASE owner = p /\ Release(p) /\ UNCHANGED kid /\ answer' \in {answer, [answer EXCEPT ![p] = answer'[p]]}
  BY <1>1, <1>2, ReleaseMoves
<1>3. CASE ~(owner = p /\ Release(p))
  BY <1>3 DEF RequestStep, FetchStep, Ask, Inspect, LockRefresh, Recheck, StartFetch, Serve,
              StoreKeys, FetchFails, Cancel, LeaveLine
<1> QED BY <1>2, <1>3 DEF RequestStep, FetchStep, Ask, Inspect, LockRefresh, Recheck, StartFetch,
              Serve, StoreKeys, FetchFails, Cancel, LeaveLine

(* A request that is not done has no answer yet.                           *)
LEMMA SilentStep ==
  ASSUME TypeOK, Line, Silent, [Next]_vars
  PROVE  Silent'
<1> USE DEF Silent
<1>1. ASSUME NEW p \in Requests, Ask(p) \/ RequestStep(p) \/ Cancel(p) PROVE Silent'
  <2>1. \A q \in Requests \ {p} : pc'[q] # "idle" => answer'[q] = "none"
    BY <1>1, StepOfOthers
  <2>2. pc'[p] # "idle" => answer'[p] = "none"
    <3>1. CASE owner = p /\ Release(p)
      <4>1. MutexOK BY DEF MutexOK, TypeOK
      <4> QED BY <3>1, <4>1, ReleaseMoves
    <3>2. CASE ~(owner = p /\ Release(p))
      BY <1>1, <3>2 DEF TypeOK, Return, RequestStep, FetchStep, Ask, Inspect, LockRefresh, Recheck,
            StartFetch, Serve, StoreKeys, FetchFails, Cancel, LeaveLine, mutexVars
    <3> QED BY <3>1, <3>2
  <2> QED BY <2>1, <2>2
<1>2. ASSUME NEW k \in ProviderKids, Rotate(k) PROVE Silent' BY <1>2 DEF Rotate
<1>3. CASE Tick BY <1>3 DEF Tick
<1>4. CASE UNCHANGED vars BY <1>4 DEF vars
<1> QED BY <1>1, <1>2, <1>3, <1>4 DEF Next

(* While somebody fetches, the cache only ages: what it did not hold, it   *)
(* does not hold.                                                          *)
LEMMA OwedStep ==
  ASSUME TypeOK, Line, Owed, [Next]_vars
  PROVE  Owed'
<1> USE TimesAssumption DEF Owed
<1>1. ASSUME NEW p \in Requests, Ask(p) \/ RequestStep(p) \/ Cancel(p) PROVE Owed'
  <2>1. CASE StoreKeys(p)
    <3>1. pc[p] = "arriving" /\ owner = p BY <2>1 DEF StoreKeys, TypeOK
    <3>2. MutexOK' BY MutexStep DEF MutexOK, TypeOK
    <3>3. pc'[p] = "idle" BY <2>1, <3>1, ReleaseMoves DEF StoreKeys, MutexOK, TypeOK
    <3>4. \A q \in Requests \ {p} : pc'[q] \notin {"fetch", "arriving"}
      BY <1>1, <3>1, StepOfOthers DEF TypeOK
    <3> QED BY <3>3, <3>4
  <2>2. CASE ~StoreKeys(p)
    <3>1. cache' = cache
      BY <1>1, <2>2 DEF RequestStep, FetchStep, Ask, Inspect, LockRefresh, Recheck, Serve,
                        FetchFails, Cancel, stateVars
    <3>2. \A q \in Requests \ {p} : pc'[q] \in {"fetch", "arriving"} => ~Cached(kid[q])'
      BY <1>1, <3>1, StepOfOthers DEF Cached, Fresh
    <3>3. pc'[p] \in {"fetch", "arriving"} => ~Cached(kid[p])'
      <4>1. CASE owner = p /\ Release(p)
        BY <4>1, ReleaseMoves DEF MutexOK, TypeOK
      <4>2. CASE ~(owner = p /\ Release(p))
        <5>1. pc'[p] \in {"fetch", "arriving"} =>
                /\ kid'[p] = kid[p]
                /\ pc[p] \in {"fetch", "arriving"} \/ Verdict(kid[p]) = "refresh"
          BY <1>1, <2>2, <4>2 DEF TypeOK, RequestStep, FetchStep, Ask, Inspect, LockRefresh,
                Recheck, StartFetch, Serve, FetchFails, Cancel, LeaveLine, mutexVars
        <5> QED BY <3>1, <5>1 DEF Verdict, Cached, Fresh
      <4> QED BY <4>1, <4>2
    <3> QED BY <3>2, <3>3
  <2> QED BY <2>1, <2>2
<1>2. ASSUME NEW k \in ProviderKids, Rotate(k) PROVE Owed'
  BY <1>2 DEF Rotate, stateVars, Cached, Fresh
<1>3. CASE Tick
  <2>1. \A k : Cached(k)' => Cached(k)
    BY <1>3 DEF Tick, TypeOK, Cached, Fresh, Older
  <2> QED BY <1>3, <2>1 DEF Tick
<1>4. CASE UNCHANGED vars BY <1>4 DEF vars, stateVars, Cached, Fresh
<1> QED BY <1>1, <1>2, <1>3, <1>4 DEF Next

(* Only one request has keys on their way to it.                           *)
LEMMA OneArrives ==
  ASSUME TypeOK, NEW p \in Requests, pc[p] = "arriving",
         NEW q \in Requests, pc[q] \in {"recheck", "fetch", "arriving"}
  PROVE  q = p
BY RequestsAssumption DEF TypeOK

(* What keys are on their way, and to whom, changes only at the ends of a  *)
(* fetch: its answer leaves the provider, it ends, or it gets older.       *)
LEMMA StepOfArriving ==
  ASSUME TypeOK, Line, OnTheWay, [Next]_vars
  PROVE  \/ /\ arriving' = arriving
            /\ \A q \in Requests : pc'[q] = "arriving" <=> pc[q] = "arriving"
         \/ /\ arriving' = [keys |-> published, age |-> 0] /\ UNCHANGED <<published, changed>>
            /\ \E q \in Requests : pc'[q] = "arriving"
         \/ arriving' = Nothing /\ \A q \in Requests : pc'[q] # "arriving"
         \/ Tick
<1> USE RequestsAssumption DEF TypeOK
<1>1. ASSUME NEW p \in Requests, StoreKeys(p) \/ FetchFails(p) \/ Cancel(p), owner = p
      PROVE  arriving' = Nothing /\ \A q \in Requests : pc'[q] # "arriving"
  <2>1. Release(p) /\ arriving' = Nothing
    BY <1>1 DEF StoreKeys, FetchFails, Cancel
  <2>2. pc'[p] = "idle" BY <1>1, <2>1, ReleaseMoves DEF MutexOK
  <2>3. \A q \in Requests \ {p} : pc'[q] # "arriving"
    BY <1>1, StepOfOthers DEF RequestStep, FetchStep
  <2> QED BY <2>1, <2>2, <2>3
<1>2. ASSUME NEW p \in Requests, Recheck(p) \/ Cancel(p), Recheck(p) \/ owner # p
      PROVE  /\ arriving' = arriving
             /\ \A q \in Requests : pc'[q] = "arriving" <=> pc[q] = "arriving"
  <2>1. arriving' = arriving BY <1>2 DEF Recheck, Cancel
  <2>2. \A q \in Requests \ {p} : pc'[q] = "arriving" <=> pc[q] = "arriving"
    BY <1>2, StepOfOthers DEF RequestStep
  <2>3. pc[p] # "arriving" /\ pc'[p] # "arriving"
    <3>1. CASE owner = p /\ Release(p)
      BY <1>2, <3>1, ReleaseMoves DEF MutexOK, Recheck
    <3>2. CASE ~(owner = p /\ Release(p))
      BY <1>2, <3>2 DEF Recheck, StartFetch, Cancel, LeaveLine
    <3> QED BY <3>1, <3>2
  <2> QED BY <2>1, <2>2, <2>3
<1>3. ASSUME NEW p \in Requests, Ask(p) \/ Inspect(p) \/ LockRefresh(p)
      PROVE  /\ arriving' = arriving
             /\ \A q \in Requests : pc'[q] = "arriving" <=> pc[q] = "arriving"
  BY <1>3 DEF Ask, Inspect, LockRefresh
<1>4. ASSUME NEW p \in Requests, Serve(p)
      PROVE  /\ arriving' = [keys |-> published, age |-> 0] /\ UNCHANGED <<published, changed>>
             /\ pc'[p] = "arriving"
  BY <1>4 DEF Serve, providerVars
<1>5. ASSUME (\E k \in ProviderKids : Rotate(k)) \/ UNCHANGED vars
      PROVE  /\ arriving' = arriving
             /\ \A q \in Requests : pc'[q] = "arriving" <=> pc[q] = "arriving"
  BY <1>5 DEF Rotate, vars
<1>6. \A p \in Requests : StoreKeys(p) \/ FetchFails(p) => owner = p
  BY DEF StoreKeys, FetchFails
<1> QED
  <2>1. ASSUME NEW p \in Requests, Ask(p) \/ RequestStep(p) \/ Cancel(p)
        PROVE  \/ Ask(p) \/ Inspect(p) \/ LockRefresh(p)
               \/ (Recheck(p) \/ Cancel(p)) /\ (Recheck(p) \/ owner # p)
               \/ Serve(p)
               \/ (StoreKeys(p) \/ FetchFails(p) \/ Cancel(p)) /\ owner = p
    BY <1>6, <2>1 DEF RequestStep, FetchStep
  <2> QED BY <1>1, <1>2, <1>3, <1>4, <1>5, <2>1 DEF Next

(* Keys are on their way as long as somebody waits for them.               *)
LEMMA OnTheWayStep ==
  ASSUME TypeOK, Line, OnTheWay, [Next]_vars
  PROVE  OnTheWay'
<1>1. CASE Tick BY <1>1 DEF Tick, OnTheWay, TypeOK
<1>2. CASE ~Tick BY <1>2, StepOfArriving DEF OnTheWay, Nothing
<1> QED BY <1>1, <1>2

-----------------------------------------------------------------------------
(* How stale what the cache believes may be.                               *)

(* Time adds at most one to every age, and exactly one to those that are   *)
(* below their limit.                                                      *)
LEMMA StepOfTime ==
  ASSUME TypeOK, Tick
  PROVE  /\ published' = published
         /\ \A k \in ProviderKids :
              changed[k] \in Nat /\ changed'[k] \in Nat /\ changed'[k] <= changed[k] + 1
         /\ cache'.keys = cache.keys /\ (Fresh' => Fresh /\ cache'.age = cache.age + 1)
         /\ DOMAIN unknown' = DOMAIN unknown
         /\ \A k \in DOMAIN unknown : unknown'[k] < UnknownTtl =>
              unknown[k] < UnknownTtl /\ unknown'[k] = unknown[k] + 1
         /\ arriving'.keys = arriving.keys
         /\ (\E p \in Requests : pc'[p] = "arriving") =>
              (\E p \in Requests : pc[p] = "arriving") /\ arriving'.age = arriving.age + 1
<1> USE TimesAssumption DEF Tick, TypeOK, Older
<1>1. published' = published /\ DOMAIN unknown' = DOMAIN unknown OBVIOUS
<1>2. ASSUME NEW k \in ProviderKids
      PROVE  changed[k] \in Nat /\ changed'[k] \in Nat /\ changed'[k] <= changed[k] + 1
  <2>1. changed[k] \in 0..MaxChanged /\ changed'[k] = Older(changed[k], MaxChanged) OBVIOUS
  <2>2. MaxChanged \in Nat BY DEF MaxChanged, Larger, RevokedBound, NoticedBound
  <2> QED BY <2>1, <2>2
<1>3. cache'.keys = cache.keys /\ (Fresh' => Fresh /\ cache'.age = cache.age + 1)
  <2>1. cache'.keys = cache.keys /\ cache'.age = Older(cache.age, Ttl) /\ cache.age \in 0..Ttl
    OBVIOUS
  <2> QED BY <2>1 DEF Fresh
<1>4. ASSUME NEW k \in DOMAIN unknown, unknown'[k] < UnknownTtl
      PROVE  unknown[k] < UnknownTtl /\ unknown'[k] = unknown[k] + 1
  <2>1. unknown'[k] = Older(unknown[k], UnknownTtl) /\ unknown[k] \in 0..UnknownTtl OBVIOUS
  <2> QED BY <1>4, <2>1
<1>5. arriving'.keys = arriving.keys OBVIOUS
<1>6. (\E p \in Requests : pc'[p] = "arriving") =>
        (\E p \in Requests : pc[p] = "arriving") /\ arriving'.age = arriving.age + 1
  OBVIOUS
<1> QED BY <1>1, <1>2, <1>3, <1>4, <1>5, <1>6

(* The key set on its way is as stale as it has been under way.            *)
LEMMA ArrivingLagStep ==
  ASSUME TypeOK, Line, OnTheWay, ArrivingLag, [Next]_vars
  PROVE  ArrivingLag'
<1> USE TimesAssumption DEF ArrivingLag, TypeOK
<1>1. CASE Tick BY <1>1, StepOfTime
<1>2. CASE UNCHANGED <<published, changed>> /\ ~Tick
  BY <1>2, StepOfArriving DEF Nothing
<1>3. CASE \E k \in ProviderKids : Rotate(k)
  <2>1. /\ pc' = pc /\ arriving' = arriving
        /\ \A k \in ProviderKids :
             changed'[k] = 0 \/ (changed'[k] = changed[k] /\ (k \in published' <=> k \in published))
    BY <1>3 DEF Rotate
  <2> QED BY <2>1
<1>4. \/ Tick \/ UNCHANGED <<published, changed>> \/ \E k \in ProviderKids : Rotate(k)
  BY DEF Next, RequestStep, FetchStep, vars, providerVars, Ask, Inspect, LockRefresh, Recheck,
         Serve, StoreKeys, FetchFails, Cancel
<1> QED BY <1>1, <1>2, <1>3, <1>4

(* A cache that is still trusted is as stale as it is old, and as the      *)
(* fetch took.                                                             *)
LEMMA CacheLagStep ==
  ASSUME TypeOK, ArrivingLag, CacheLag, [Next]_vars
  PROVE  CacheLag'
<1> USE TimesAssumption DEF CacheLag, TypeOK, Fresh
<1>1. CASE Tick BY <1>1, StepOfTime
<1>2. ASSUME NEW p \in Requests, StoreKeys(p) PROVE CacheLag'
  <2>1. /\ cache' = [keys |-> arriving.keys, age |-> 0] /\ pc[p] = "arriving"
        /\ UNCHANGED <<published, changed>>
    BY <1>2 DEF StoreKeys, NewKeys, providerVars
  <2>2. arriving.age <= FetchTimeout /\ arriving.age \in Nat OBVIOUS
  <2> QED BY <2>1, <2>2 DEF ArrivingLag
<1>3. CASE UNCHANGED <<published, changed, cache>> BY <1>3
<1>4. ASSUME NEW k \in ProviderKids, Rotate(k) PROVE CacheLag'
  BY <1>4 DEF Rotate, stateVars
<1> QED BY <1>1, <1>2, <1>3, <1>4
        DEF Next, RequestStep, FetchStep, vars, providerVars, stateVars, Ask, Inspect, LockRefresh,
            Recheck, Serve, FetchFails, Cancel

(* What an inspection answers tells how recent the provider's change is.   *)
LEMMA VerdictLag ==
  ASSUME TypeOK, CacheLag, UnknownLag, NEW k \in Kids
  PROVE  /\ Verdict(k) = "key" /\ k \notin published => changed[k] < RevokedBound
         /\ Verdict(k) = "unknown" /\ k \in published =>
              /\ changed[k] < NoticedBound
              /\ k \notin DOMAIN Retained => changed[k] <= RefreshInterval + FetchTimeout
<1> USE TimesAssumption, KidsAssumption DEF TypeOK
<1>1. ASSUME Verdict(k) = "key", k \notin published
      PROVE  changed[k] < RevokedBound
  <2>1. Cached(k) BY <1>1 DEF Verdict
  <2>2. k \in ProviderKids /\ Fresh BY <2>1 DEF Cached
  <2> QED BY <1>1, <2>1, <2>2 DEF CacheLag, Cached, Fresh, RevokedBound
<1>2. ASSUME Verdict(k) = "unknown", k \in published
      PROVE  /\ changed[k] < NoticedBound
             /\ k \notin DOMAIN Retained => changed[k] <= RefreshInterval + FetchTimeout
  <2>1. CASE k \in DOMAIN Retained
    <3>1. k \in DOMAIN unknown /\ unknown[k] < UnknownTtl BY <2>1 DEF Retained
    <3> QED BY <1>2, <2>1, <3>1 DEF UnknownLag, NoticedBound
  <2>2. CASE k \notin DOMAIN Retained
    <3>1. JustFetched(k) BY <1>2, <2>2 DEF Verdict
    <3>2. changed[k] <= cache.age + FetchTimeout BY <1>2, <3>1 DEF CacheLag, JustFetched
    <3> QED BY <1>2, <3>1, <3>2 DEF JustFetched, NoticedBound
  <2> QED BY <2>1, <2>2
<1> QED BY <1>1, <1>2

(* The memory of an absent id is as stale as it is old, and as the cache   *)
(* it was taken from was.                                                  *)
LEMMA UnknownLagStep ==
  ASSUME TypeOK, ArrivingLag, CacheLag, UnknownLag, [Next]_vars
  PROVE  UnknownLag'
<1> USE TimesAssumption, KidsAssumption DEF UnknownLag, TypeOK
<1>1. CASE Tick BY <1>1, StepOfTime
<1>2. ASSUME NEW p \in Requests, Inspect(p) \/ Recheck(p) PROVE UnknownLag'
  <2> DEFINE k == kid[p]
  <2>1. unknown' = Inspected(k) /\ UNCHANGED <<published, changed>> /\ k \in Kids
    BY <1>2 DEF Inspect, Recheck, providerVars
  <2>2. /\ DOMAIN Retained \subseteq DOMAIN unknown
        /\ \A j \in DOMAIN Retained : Retained[j] = unknown[j]
    BY DEF Retained
  <2>3. \A j \in DOMAIN Inspected(k) :
          \/ j \in DOMAIN Retained /\ Inspected(k)[j] = Retained[j]
          \/ /\ j = k /\ Inspected(k)[j] = 0
             /\ Verdict(k) = "unknown" /\ k \notin DOMAIN Retained
    BY DEF Inspected, Remember
  <2>4. Verdict(k) = "unknown" /\ k \notin DOMAIN Retained /\ k \in published =>
          changed[k] <= RefreshInterval + FetchTimeout
    BY <2>1, VerdictLag
  <2> HIDE DEF k
  <2>5. ASSUME NEW j \in DOMAIN unknown' \cap published', unknown'[j] < UnknownTtl
        PROVE  changed'[j] <= unknown'[j] + RefreshInterval + FetchTimeout
    <3>1. j \in ProviderKids /\ changed[j] \in Nat BY <2>1, <2>5
    <3>2. CASE j \in DOMAIN Retained /\ Inspected(k)[j] = Retained[j]
      BY <2>1, <2>2, <2>5, <3>2
    <3>3. CASE j = k /\ Inspected(k)[j] = 0 /\ Verdict(k) = "unknown" /\ k \notin DOMAIN Retained
      BY <2>1, <2>4, <2>5, <3>1, <3>3
    <3> QED BY <2>1, <2>3, <2>5, <3>2, <3>3
  <2> QED BY <2>5
<1>3. ASSUME NEW p \in Requests, StoreKeys(p) PROVE UnknownLag'
  <2> DEFINE k == kid[p]
  <2>1. /\ pc[p] = "arriving" /\ UNCHANGED <<published, changed>>
        /\ unknown' = IF k \in arriving.keys THEN unknown ELSE Remember(unknown, k)
    BY <1>3 DEF StoreKeys, providerVars
  <2>2. k \notin arriving.keys /\ k \in published => changed[k] <= FetchTimeout
    BY <2>1 DEF ArrivingLag
  <2>3. \A j \in DOMAIN unknown' :
          \/ j \in DOMAIN unknown /\ unknown'[j] = unknown[j]
          \/ j = k /\ unknown'[j] = 0 /\ k \notin arriving.keys
    BY <2>1 DEF Remember
  <2> HIDE DEF k
  <2> QED BY <2>1, <2>2, <2>3
<1>4. CASE UNCHANGED <<published, changed, unknown>> BY <1>4
<1>5. ASSUME NEW k \in ProviderKids, Rotate(k) PROVE UnknownLag'
  BY <1>5 DEF Rotate, stateVars
<1> QED BY <1>1, <1>2, <1>3, <1>4, <1>5
        DEF Next, RequestStep, FetchStep, vars, providerVars, stateVars, Ask, LockRefresh,
            Serve, FetchFails, Cancel

(* The last refresh to end leaves its trace in the cache or in the backoff.*)
LEMMA LastRefreshStep ==
  ASSUME TypeOK, LastRefresh, [Next]_vars
  PROVE  LastRefresh'
<1> USE TimesAssumption DEF LastRefresh, TypeOK
<1>1. CASE Tick BY <1>1 DEF Tick, Older
<1>2. ASSUME NEW p \in Requests, StoreKeys(p) PROVE LastRefresh' BY <1>2 DEF StoreKeys
<1>3. ASSUME NEW p \in Requests, FetchFails(p) PROVE LastRefresh' BY <1>3 DEF FetchFails
<1>4. CASE UNCHANGED <<cache, failure, ended>> BY <1>4
<1> QED BY <1>1, <1>2, <1>3, <1>4
        DEF Next, RequestStep, FetchStep, vars, stateVars, historyVars, StartFetch, Ask, Inspect,
            LockRefresh, Recheck, Serve, Cancel, Rotate

-----------------------------------------------------------------------------
(* The inductive invariant holds of every behaviour.                       *)
LEMMA Invariance == Spec => []IInv
<1>1. Init => IInv
  <2> SUFFICES ASSUME Init PROVE IInv OBVIOUS
  <2>1. TypeOK
    <3>1. MaxChanged \in Nat
      BY TimesAssumption DEF MaxChanged, Larger, RevokedBound, NoticedBound
    <3>2. DOMAIN unknown = {} /\ Cardinality(DOMAIN unknown) = 0
      BY FS_EmptySet DEF Init
    <3>3. DOMAIN waiting = {} BY DEF Init
    <3> QED BY <3>1, <3>2, <3>3, RequestsAssumption, TimesAssumption
            DEF Init, TypeOK, NoCache, Nothing
  <2>2. Line BY DEF Init, Line
  <2>3. Silent /\ Owed /\ OnTheWay BY DEF Init, Silent, Owed, OnTheWay, Nothing
  <2>4. ArrivingLag /\ CacheLag /\ UnknownLag /\ LastRefresh
    BY TimesAssumption DEF Init, ArrivingLag, CacheLag, UnknownLag, LastRefresh, Fresh, NoCache
  <2> QED BY <2>1, <2>2, <2>3, <2>4 DEF IInv
<1>2. IInv /\ [Next]_vars => IInv'
  BY TypeStep, SilentStep, OwedStep, OnTheWayStep, ArrivingLagStep, CacheLagStep, UnknownLagStep,
     LastRefreshStep DEF IInv
<1> QED BY <1>1, <1>2, PTL DEF Spec

(* Every variable keeps its type, the memory of absent ids its cap, and    *)
(* the refresh mutex belongs to the one request that refreshes, whoever    *)
(* hangs up while it waits or fetches.                                     *)
THEOREM TypeCorrect == Spec => []TypeOK
<1>1. IInv => TypeOK BY DEF IInv
<1> QED BY <1>1, Invariance, PTL

(* An answer comes from an inspection or from the end of a fetch, never    *)
(* from what another request does, and hanging up gives none.              *)
LEMMA WhoAnswers ==
  ASSUME TypeOK, Line, Silent, [Next]_vars, NEW p \in Requests, NEW r, r # "none",
         Answers(p, r)
  PROVE  \/ r = Verdict(kid[p])
         \/ /\ StoreKeys(p)
            /\ r = IF kid[p] \in arriving.keys THEN "key" ELSE "unknown"
         \/ FetchFails(p) /\ r = "unavailable"
<1> USE DEF TypeOK, Answers
<1>1. ASSUME NEW q \in Requests, Ask(q) \/ RequestStep(q) \/ Cancel(q)
      PROVE  q = p
  BY <1>1, StepOfOthers
<1>2. CASE Ask(p) \/ RequestStep(p) \/ Cancel(p)
  <2>1. pc[p] # "idle" /\ answer[p] = "none" BY DEF Silent
  <2> QED BY <1>2, <2>1
          DEF Return, RequestStep, FetchStep, Ask, Inspect, LockRefresh, Recheck, StartFetch,
              Serve, StoreKeys, FetchFails, Cancel
<1>3. CASE Tick \/ (\E k \in ProviderKids : Rotate(k)) \/ UNCHANGED vars
  BY <1>3 DEF Tick, Rotate, vars
<1> QED BY <1>1, <1>2, <1>3 DEF Next

(* A withdrawn key stops working within the cache's lifetime and a fetch,  *)
(* however fetches, failures and requests interleave.                      *)
THEOREM WithdrawnKeysExpire == Spec => WithdrawnKeyExpires
<1>1. IInv /\ [Next]_vars =>
        \A p \in Requests : Answers(p, "key") =>
          kid[p] \in published \/ changed[kid[p]] < RevokedBound
  <2> SUFFICES ASSUME IInv, [Next]_vars, NEW p \in Requests, Answers(p, "key"),
                      kid[p] \notin published
               PROVE  changed[kid[p]] < RevokedBound
    OBVIOUS
  <2> USE DEF IInv
  <2>1. kid[p] \in Kids BY DEF TypeOK
  <2>2. CASE Verdict(kid[p]) = "key" BY <2>1, <2>2, VerdictLag
  <2>3. CASE StoreKeys(p) /\ kid[p] \in arriving.keys
    <3>1. kid[p] \in ProviderKids /\ arriving.age \in 0..FetchTimeout /\ changed[kid[p]] \in 0..MaxChanged
      BY <2>3 DEF TypeOK
    <3>2. changed[kid[p]] <= arriving.age BY <2>3, <3>1 DEF StoreKeys, ArrivingLag
    <3>3. MaxChanged \in Nat
      BY TimesAssumption DEF MaxChanged, Larger, RevokedBound, NoticedBound
    <3> QED BY <3>1, <3>2, <3>3, TimesAssumption DEF RevokedBound
  <2> QED BY <2>2, <2>3, WhoAnswers
<1> QED BY <1>1, Invariance, PTL DEF Spec, WithdrawnKeyExpires

(* A new key is noticed within a fetch, the refresh interval and the       *)
(* memory of absent ids, whoever else asks for it meanwhile.               *)
THEOREM NewKeysNoticed == Spec => NewKeyNoticed
<1>1. IInv /\ [Next]_vars =>
        \A p \in Requests : Answers(p, "unknown") =>
          kid[p] \notin published \/ changed[kid[p]] < NoticedBound
  <2> SUFFICES ASSUME IInv, [Next]_vars, NEW p \in Requests, Answers(p, "unknown"),
                      kid[p] \in published
               PROVE  changed[kid[p]] < NoticedBound
    OBVIOUS
  <2> USE DEF IInv
  <2>1. kid[p] \in Kids BY DEF TypeOK
  <2>2. CASE Verdict(kid[p]) = "unknown" BY <2>1, <2>2, VerdictLag
  <2>3. CASE StoreKeys(p) /\ kid[p] \notin arriving.keys
    <3>1. kid[p] \in ProviderKids /\ arriving.age \in 0..FetchTimeout /\ changed[kid[p]] \in 0..MaxChanged
      BY DEF TypeOK
    <3>2. changed[kid[p]] <= arriving.age BY <2>3, <3>1 DEF StoreKeys, ArrivingLag
    <3>3. MaxChanged \in Nat
      BY TimesAssumption DEF MaxChanged, Larger, RevokedBound, NoticedBound
    <3> QED BY <3>1, <3>2, <3>3, TimesAssumption DEF NoticedBound
  <2> QED BY <2>2, <2>3, WhoAnswers
<1> QED BY <1>1, Invariance, PTL DEF Spec, NewKeyNoticed

(* Nobody is told the provider is unavailable for a key the cache holds    *)
(* and trusts: it was not there when the fetch began, and only the fetch   *)
(* could have brought it.                                                  *)
THEOREM OutagesSpareKnownKeys == Spec => OutageSparesKnownKeys
<1>1. IInv /\ [Next]_vars =>
        \A p \in Requests : Answers(p, "unavailable") => ~Cached(kid[p])
  <2> SUFFICES ASSUME IInv, [Next]_vars, NEW p \in Requests, Answers(p, "unavailable")
               PROVE  ~Cached(kid[p])
    OBVIOUS
  <2> USE DEF IInv
  <2>1. CASE Verdict(kid[p]) = "unavailable" BY <2>1 DEF Verdict
  <2>2. CASE FetchFails(p) BY <2>2 DEF FetchFails, Owed
  <2> QED BY <2>1, <2>2, WhoAnswers
<1> QED BY <1>1, Invariance, PTL DEF Spec, OutageSparesKnownKeys

(* Requests that pile up behind a refresh share its outcome, whether it    *)
(* brought keys or failed.                                                 *)
THEOREM RefreshesShared == Spec => RefreshShared
<1>1. IInv /\ [Next]_vars =>
        \A p \in Requests : Refreshes(p) =>
          /\ ended.outcome = "ok" => ended.age >= RefreshInterval
          /\ ended.outcome = "failed" => ended.age >= FailureBackoff
  <2> SUFFICES ASSUME IInv, [Next]_vars, NEW p \in Requests, Refreshes(p)
               PROVE  /\ ended.outcome = "ok" => ended.age >= RefreshInterval
                      /\ ended.outcome = "failed" => ended.age >= FailureBackoff
    OBVIOUS
  <2> USE DEF IInv
  <2>1. Verdict(kid[p]) = "refresh"
    <3>1. ASSUME NEW q \in Requests, Ask(q) \/ RequestStep(q) \/ Cancel(q) PROVE q = p
      BY <3>1, StepOfOthers DEF Refreshes
    <3>2. Ask(p) \/ RequestStep(p) \/ Cancel(p)
      BY <3>1 DEF Next, Refreshes, Tick, Rotate, vars
    <3>3. ~(owner = p /\ Release(p))
      BY ReleaseMoves DEF Refreshes, MutexOK, TypeOK
    <3> QED BY <3>2, <3>3
            DEF Refreshes, TypeOK, RequestStep, FetchStep, Ask, Inspect, LockRefresh, Recheck,
                StartFetch, Serve, StoreKeys, FetchFails, Cancel, LeaveLine
  <2>2. ~Cached(kid[p]) /\ ~JustFetched(kid[p]) /\ ~BackingOff BY <2>1 DEF Verdict
  <2>3. cache.age >= RefreshInterval /\ failure >= FailureBackoff
    BY <2>2, TimesAssumption DEF Cached, JustFetched, BackingOff, Fresh, TypeOK
  <2> QED BY <2>3, TimesAssumption DEF LastRefresh, TypeOK
<1> QED BY <1>1, Invariance, PTL DEF Spec, RefreshShared

=============================================================================
