------------------------ MODULE CompileServiceProofs ------------------------
(* Theorems about CompileService, for every number of requests and slots.  *)
EXTENDS CompileService, FiniteSetTheorems, SequenceTheorems, TLAPS

Holders == {p \in Requests : pc[p] \in Holding}
Started == {p \in Requests : pc[p] # "idle"}

(* Those who stand in line wait for a permit, each in one place.           *)
LineOK ==
  /\ \A i \in 1..Len(queue) : pc[queue[i]] = "queued"
  /\ \A i, j \in 1..Len(queue) : queue[i] = queue[j] => i = j

(* A worker has a request that holds a permit.                             *)
ChildrenOK == \A p \in Requests : child[p] # "none" => pc[p] \in {"run", "kill"}

IInv == TypeOK /\ LineOK /\ ChildrenOK /\ PermitsConserved /\ GaugeExact

-----------------------------------------------------------------------------
(* The ways a step moves requests and permits around.                      *)

(* Release passes the permit on or returns it: either way none is lost.    *)
LEMMA ReleaseStep ==
  ASSUME IInv, NEW p \in Requests, pc[p] \in Holding, Release(p)
  PROVE  /\ permits' \in 0..MaxConcurrent /\ queue' \in Seq(Requests)
         /\ pc' \in [Requests -> {"idle", "assemble", "acquire", "queued"} \cup Holding]
         /\ LineOK' /\ PermitsConserved'
         /\ pc'[p] = "idle"
         /\ Started' = Started \ {p}
         /\ \A q \in Requests \ {p} :
              pc'[q] = pc[q] \/ (pc[q] = "queued" /\ pc'[q] = "granted")
<1> USE LimitsAssumption DEF IInv, TypeOK, Holding
<1>0. IsFiniteSet(Holders) /\ p \in Holders BY FS_Subset DEF Holders
<1>1. /\ IsFiniteSet(Holders \ {p}) /\ Cardinality(Holders \ {p}) = Cardinality(Holders) - 1
      /\ Cardinality(Holders \ {p}) \in Nat /\ Cardinality(Holders) \in Nat
  BY <1>0, FS_RemoveElement, FS_CardinalityType
<1>2. CASE queue = <<>>
  <2>1. permits' = permits + 1 /\ queue' = queue /\ pc' = [pc EXCEPT ![p] = "idle"]
    BY <1>2 DEF Release
  <2>2. Holders' = Holders \ {p} BY <2>1 DEF Holders
  <2>3. permits + Cardinality(Holders) = MaxConcurrent BY DEF PermitsConserved, Holders
  <2>4. PermitsConserved'
    <3>1. permits' + Cardinality(Holders') = MaxConcurrent
      BY ONLY <1>1, <2>1, <2>2, <2>3, permits \in Nat
    <3> QED BY <3>1 DEF PermitsConserved, Holders
  <2>5. permits' \in 0..MaxConcurrent BY <1>1, <2>1, <2>3
  <2>6. LineOK' BY <1>2, <2>1 DEF LineOK
  <2> QED BY <2>1, <2>4, <2>5, <2>6 DEF Started
<1>3. CASE queue # <<>>
  <2> DEFINE h == Head(queue)
  <2>1. /\ permits' = permits /\ queue' = Tail(queue)
        /\ pc' = [pc EXCEPT ![p] = "idle", ![h] = "granted"]
    BY <1>3 DEF Release
  <2>2. h = queue[1] /\ 1 \in 1..Len(queue) /\ h \in Requests
    BY <1>3, HeadTailProperties, EmptySeq
  <2>3. pc[h] = "queued" /\ h # p BY <2>2 DEF LineOK
  <2>4. Holders' = (Holders \ {p}) \cup {h} BY <2>1, <2>2, <2>3 DEF Holders
  <2>5. h \notin Holders \ {p} BY <2>3 DEF Holders
  <2>6. Cardinality(Holders') = Cardinality(Holders)
    <3>1. Cardinality((Holders \ {p}) \cup {h}) = Cardinality(Holders \ {p}) + 1
      BY <1>1, <2>5, FS_AddElement
    <3> QED BY ONLY <1>1, <2>4, <3>1
  <2>7. PermitsConserved'
    <3>1. permits + Cardinality(Holders) = MaxConcurrent BY DEF PermitsConserved, Holders
    <3>2. permits' + Cardinality(Holders') = MaxConcurrent BY ONLY <2>1, <2>6, <3>1
    <3> QED BY <3>2 DEF PermitsConserved, Holders
  <2>8. /\ queue' \in Seq(Requests) /\ Len(queue') = Len(queue) - 1
        /\ \A i \in 1..Len(queue') : queue'[i] = queue[i + 1]
    BY <1>3, <2>1, HeadTailProperties
  <2>9. LineOK'
    <3>1. \A i \in 1..Len(queue') : i + 1 \in 1..Len(queue) BY <2>8
    <3>2. \A i \in 1..Len(queue') : queue'[i] # h
      BY <2>2, <2>8, <3>1 DEF LineOK
    <3>3. \A i \in 1..Len(queue') : pc[queue'[i]] = "queued"
      BY <2>8, <3>1 DEF LineOK
    <3>5. \A i \in 1..Len(queue') : queue'[i] # p BY <3>3
    <3>6. \A i \in 1..Len(queue') : queue'[i] \in Requests BY <2>8
    <3>4. \A i, j \in 1..Len(queue') : queue'[i] = queue'[j] => i = j
      BY <2>8, <3>1 DEF LineOK
    <3>7. \A i \in 1..Len(queue') : pc'[queue'[i]] = "queued"
      BY <2>1, <3>2, <3>3, <3>5, <3>6
    <3> QED BY <3>4, <3>7 DEF LineOK
  <2> QED BY <2>1, <2>2, <2>3, <2>7, <2>8, <2>9 DEF Started
<1> QED BY <1>2, <1>3

(* Leaving the line frees nothing and disturbs nobody else's place.        *)
LEMMA LeaveStep ==
  ASSUME IInv, NEW p \in Requests, pc[p] = "queued", Leave(p)
  PROVE  /\ permits' = permits /\ queue' \in Seq(Requests)
         /\ LineOK' /\ Holders' = Holders
         /\ Started' = Started \ {p}
         /\ pc' = [pc EXCEPT ![p] = "idle"]
<1> USE DEF IInv, TypeOK
<1>1. PICK i \in 1..Len(queue) : queue[i] = p /\ queue' = RemoveAt(queue, i)
  BY DEF Leave
<1>2. /\ permits' = permits /\ pc' = [pc EXCEPT ![p] = "idle"] BY DEF Leave
<1>3. /\ queue' \in Seq(Requests) /\ Len(queue') = Len(queue) - 1
      /\ \A j \in 1..Len(queue') : queue'[j] = IF j < i THEN queue[j] ELSE queue[j + 1]
  <2> DEFINE a == SubSeq(queue, 1, i - 1)
             b == SubSeq(queue, i + 1, Len(queue))
  <2>1. Len(queue) \in Nat /\ queue' = a \o b BY <1>1, LenProperties DEF RemoveAt
  <2>2. a \in Seq(Requests) /\ Len(a) = i - 1 /\ \A j \in 1..i - 1 : a[j] = queue[j]
    BY <2>1, SubSeqProperties
  <2>3. /\ b \in Seq(Requests) /\ Len(b) = Len(queue) - i
        /\ \A j \in 1..Len(queue) - i : b[j] = queue[i + j]
    BY <2>1, SubSeqProperties
  <2> HIDE DEF a, b
  <2>4. /\ a \o b \in Seq(Requests) /\ Len(a \o b) = Len(queue) - 1
        /\ \A j \in 1..Len(a \o b) : (a \o b)[j] = IF j <= i - 1 THEN a[j] ELSE b[j - (i - 1)]
    <3>1. /\ a \o b \in Seq(Requests) /\ Len(a \o b) = Len(a) + Len(b)
          /\ \A j \in 1..Len(a) + Len(b) :
               (a \o b)[j] = IF j <= Len(a) THEN a[j] ELSE b[j - Len(a)]
      BY ONLY <2>2, <2>3, ConcatProperties
    <3>2. Len(a) + Len(b) = Len(queue) - 1 BY ONLY <2>1, <2>2, <2>3, i \in 1..Len(queue)
    <3> QED BY ONLY <2>2, <3>1, <3>2
  <2>5. \A j \in 1..Len(queue) - 1 : j > i - 1 => j - (i - 1) \in 1..Len(queue) - i
    BY <2>1
  <2> QED BY <2>1, <2>2, <2>3, <2>4, <2>5
<1>4. LineOK'
  <2> DEFINE at(j) == IF j < i THEN j ELSE j + 1
  <2>1. Len(queue) \in Nat BY LenProperties
  <2>2. \A j \in 1..Len(queue') :
          at(j) \in 1..Len(queue) /\ at(j) # i /\ queue'[j] = queue[at(j)]
    BY ONLY <1>3, <2>1, i \in 1..Len(queue)
  <2>3. \A j, k \in 1..Len(queue') : at(j) = at(k) => j = k
    BY ONLY <1>3, <2>1, i \in 1..Len(queue)
  <2> HIDE DEF at
  <2>4. \A j \in 1..Len(queue') : queue'[j] # p BY <1>1, <2>2 DEF LineOK
  <2>5. \A j \in 1..Len(queue') : pc[queue'[j]] = "queued" BY <2>2 DEF LineOK
  <2>6. \A j \in 1..Len(queue') : queue'[j] \in Requests BY <1>3
  <2>7. \A j \in 1..Len(queue') : pc'[queue'[j]] = "queued"
    BY <1>2, <2>4, <2>5, <2>6
  <2>8. \A j, k \in 1..Len(queue') : queue'[j] = queue'[k] => j = k
    BY <2>2, <2>3 DEF LineOK
  <2> QED BY <2>7, <2>8 DEF LineOK
<1>5. Holders' = Holders /\ Started' = Started \ {p}
  BY <1>2 DEF Holders, Started, Holding
<1> QED BY <1>2, <1>3, <1>4, <1>5

(* Counting a request up when it starts and down when it ends is exact.    *)
LEMMA CountUp ==
  ASSUME IInv, NEW p \in Requests, p \notin Started, Started' = Started \cup {p},
         inFlight' = inFlight + 1
  PROVE  GaugeExact'
<1>1. IsFiniteSet(Started) BY LimitsAssumption, FS_Subset DEF Started
<1>2. Cardinality(Started') = Cardinality(Started) + 1 BY <1>1, FS_AddElement
<1>3. inFlight = Cardinality(Started) BY DEF IInv, GaugeExact, Started
<1>4. inFlight' = Cardinality(Started') BY ONLY <1>2, <1>3, inFlight' = inFlight + 1
<1> QED BY <1>4 DEF GaugeExact, Started

(* The same for a request that ends.                                       *)
LEMMA CountDown ==
  ASSUME IInv, NEW p \in Requests, p \in Started, Started' = Started \ {p},
         inFlight' = inFlight - 1
  PROVE  GaugeExact'
<1>1. IsFiniteSet(Started) BY LimitsAssumption, FS_Subset DEF Started
<1>2. Cardinality(Started') = Cardinality(Started) - 1 BY <1>1, FS_RemoveElement
<1>3. inFlight = Cardinality(Started) BY DEF IInv, GaugeExact, Started
<1>4. inFlight' = Cardinality(Started') BY ONLY <1>2, <1>3, inFlight' = inFlight - 1
<1> QED BY <1>4 DEF GaugeExact, Started

(* Any step by which a request that holds a permit ends.                   *)
LEMMA EndHolding ==
  ASSUME IInv, NEW p \in Requests, pc[p] \in Holding, Release(p),
         NEW r \in {"io", "result", "died", "timeout", "cancelled"}, End(p, r),
         child' = [child EXCEPT ![p] = "none"], orphans' \in 0..MaxOrphans
  PROVE  IInv'
<1> USE DEF IInv, TypeOK
<1>1. /\ permits' \in 0..MaxConcurrent /\ queue' \in Seq(Requests)
      /\ pc' \in [Requests -> {"idle", "assemble", "acquire", "queued"} \cup Holding]
      /\ LineOK' /\ PermitsConserved' /\ pc'[p] = "idle" /\ Started' = Started \ {p}
      /\ \A q \in Requests \ {p} : pc'[q] = pc[q] \/ (pc[q] = "queued" /\ pc'[q] = "granted")
  BY ReleaseStep
<1>2. GaugeExact'
  <2>1. p \in Started /\ inFlight' = inFlight - 1 BY DEF Started, Holding, End
  <2> QED BY <1>1, <2>1, CountDown
<1>3. ChildrenOK' BY <1>1 DEF ChildrenOK
<1>4. workspaces' = {q \in Requests : pc'[q] \notin {"idle", "assemble"}}
  BY <1>1 DEF End, Holding
<1>5. /\ outcome' \in [Requests -> {"none", "invalid", "overloaded", "io", "result", "died",
                                    "timeout", "cancelled"}]
      /\ inFlight' \in Int
  BY DEF End
<1>6. child' \in [Requests -> {"none", "running", "killed", "answered", "died"}]
  OBVIOUS
<1>7. TypeOK' BY ONLY <1>1, <1>4, <1>5, <1>6, orphans' \in 0..MaxOrphans DEF TypeOK
<1> QED BY ONLY <1>1, <1>2, <1>3, <1>7 DEF IInv

(* Any step that moves one request without touching the semaphore.         *)
LEMMA MoveOne ==
  ASSUME IInv, NEW p \in Requests, UNCHANGED semVars,
         NEW to \in {"idle", "assemble", "acquire"} \cup Holding,
         pc' = [pc EXCEPT ![p] = to], pc[p] # "queued", to \in Holding <=> pc[p] \in Holding
  PROVE  LineOK' /\ PermitsConserved'
<1> USE DEF IInv, TypeOK
<1>1. LineOK' BY DEF LineOK, semVars
<1>2. Holders' = Holders BY DEF Holders
<1> QED BY <1>1, <1>2 DEF PermitsConserved, Holders, semVars

(* A step that leaves the requests and the semaphore where they are.       *)
LEMMA MoveNone ==
  ASSUME IInv, UNCHANGED <<semVars, pc, inFlight>>
  PROVE  LineOK' /\ PermitsConserved' /\ GaugeExact'
BY DEF IInv, LineOK, PermitsConserved, GaugeExact, semVars

(* A request that goes on, keeping what it holds and staying counted.      *)
LEMMA GoOn ==
  ASSUME IInv, NEW p \in Requests, UNCHANGED <<semVars, outcome, orphans, inFlight>>,
         NEW to \in {"acquire"} \cup Holding, pc' = [pc EXCEPT ![p] = to],
         pc[p] \in {"assemble"} \cup Holding, to \in Holding <=> pc[p] \in Holding,
         workspaces' = workspaces \cup {p},
         child' \in [Requests -> {"none", "running", "killed", "answered", "died"}],
         \A q \in Requests : child'[q] # "none" => pc'[q] \in {"run", "kill"}
  PROVE  IInv'
<1> USE DEF IInv, TypeOK
<1>1. LineOK' /\ PermitsConserved'
  <2>1. pc[p] # "queued" BY DEF Holding
  <2> QED BY <2>1, MoveOne
<1>2. Started' = Started /\ workspaces' = {q \in Requests : pc'[q] \notin {"idle", "assemble"}}
  BY DEF Started, Holding
<1>3. GaugeExact' BY <1>2 DEF GaugeExact, Started
<1>4. TypeOK'
  <2>1. pc' \in [Requests -> {"idle", "assemble", "acquire", "queued"} \cup Holding]
    OBVIOUS
  <2> QED BY <1>2, <2>1 DEF semVars
<1> QED BY ONLY <1>1, <1>3, <1>4, \A q \in Requests : child'[q] # "none" => pc'[q] \in {"run", "kill"}
        DEF IInv, ChildrenOK

(* Any step by which a request leaves the line and ends.                   *)
LEMMA EndWaiting ==
  ASSUME IInv, NEW p \in Requests, pc[p] = "queued", Leave(p),
         NEW r \in {"overloaded", "cancelled"}, End(p, r), UNCHANGED <<child, orphans>>
  PROVE  IInv'
<1> USE DEF IInv, TypeOK
<1>1. /\ permits' = permits /\ queue' \in Seq(Requests) /\ LineOK' /\ Holders' = Holders
      /\ Started' = Started \ {p} /\ pc' = [pc EXCEPT ![p] = "idle"]
  BY LeaveStep
<1>2. PermitsConserved' BY <1>1 DEF PermitsConserved, Holders
<1>3. GaugeExact'
  <2>1. p \in Started /\ inFlight' = inFlight - 1 BY DEF Started, End
  <2> QED BY <1>1, <2>1, CountDown
<1>4. ChildrenOK' BY <1>1 DEF ChildrenOK
<1>5. workspaces' = {q \in Requests : pc'[q] \notin {"idle", "assemble"}} BY <1>1 DEF End
<1>6. TypeOK' BY <1>1, <1>5 DEF End
<1> QED BY ONLY <1>1, <1>2, <1>3, <1>4, <1>6 DEF IInv

-----------------------------------------------------------------------------
(* The invariant, action by action.                                        *)

(* A compile that starts is counted up and holds nothing yet.              *)
LEMMA StartKeeps == ASSUME IInv, NEW p \in Requests, Start(p) PROVE IInv'
<1> USE DEF IInv, TypeOK, Start
<1>1. LineOK' /\ PermitsConserved'
  <2>1. "assemble" \notin Holding /\ pc[p] \notin Holding /\ pc[p] # "queued" BY DEF Holding
  <2> QED BY <2>1, MoveOne
<1>2. p \notin Started /\ Started' = Started \cup {p} BY DEF Started
<1>3. GaugeExact' BY <1>2, CountUp
<1>4. ChildrenOK' BY DEF ChildrenOK
<1>5. workspaces' = {q \in Requests : pc'[q] \notin {"idle", "assemble"}} OBVIOUS
<1>6. TypeOK' BY <1>5 DEF semVars
<1> QED BY ONLY <1>1, <1>3, <1>4, <1>6 DEF IInv

(* A document that cannot be assembled is counted down.                    *)
LEMMA AssembleFailsKeeps == ASSUME IInv, NEW p \in Requests, AssembleFails(p) PROVE IInv'
<1> USE DEF IInv, TypeOK, AssembleFails, End
<1>1. LineOK' /\ PermitsConserved'
  <2>1. "idle" \notin Holding /\ pc[p] \notin Holding /\ pc[p] # "queued" BY DEF Holding
  <2> QED BY <2>1, MoveOne
<1>2. p \in Started /\ Started' = Started \ {p} BY DEF Started
<1>3. GaugeExact' BY <1>2, CountDown
<1>4. ChildrenOK' BY DEF ChildrenOK
<1>5. workspaces' = {q \in Requests : pc'[q] \notin {"idle", "assemble"}} OBVIOUS
<1>6. TypeOK' BY <1>5 DEF semVars
<1> QED BY ONLY <1>1, <1>3, <1>4, <1>6 DEF IInv

(* acquire takes a free permit or the last place in line.                  *)
LEMMA AcquireKeeps == ASSUME IInv, NEW p \in Requests, Acquire(p) PROVE IInv'
<1> USE DEF IInv, TypeOK, Acquire
<1>1. ChildrenOK' BY DEF ChildrenOK
<1>2. GaugeExact'
  <2>1. Started' = Started BY DEF Started
  <2>2. inFlight' = inFlight OBVIOUS
  <2> QED BY <2>1, <2>2 DEF GaugeExact, Started
<1>3. workspaces' = {q \in Requests : pc'[q] \notin {"idle", "assemble"}} OBVIOUS
<1>4. CASE permits > 0
  <2>1. permits' = permits - 1 /\ queue' = queue /\ pc' = [pc EXCEPT ![p] = "spawn"] BY <1>4
  <2>2. LineOK' BY <2>1 DEF LineOK
  <2>3. IsFiniteSet(Holders) /\ p \notin Holders /\ Holders' = Holders \cup {p}
    BY <2>1, LimitsAssumption, FS_Subset DEF Holders, Holding
  <2>4. Cardinality(Holders') = Cardinality(Holders) + 1 /\ Cardinality(Holders) \in Nat
    BY <2>3, FS_AddElement, FS_CardinalityType
  <2>5. permits + Cardinality(Holders) = MaxConcurrent BY DEF PermitsConserved, Holders
  <2>6. permits' + Cardinality(Holders') = MaxConcurrent
    BY ONLY <2>1, <2>4, <2>5, permits \in 0..MaxConcurrent, LimitsAssumption
  <2>7. PermitsConserved' BY <2>6 DEF PermitsConserved, Holders
  <2>8. TypeOK' BY <1>3, <1>4, <2>1, LimitsAssumption DEF Holding
  <2> QED BY ONLY <1>1, <1>2, <2>2, <2>7, <2>8 DEF IInv
<1>5. CASE ~(permits > 0)
  <2>1. permits' = permits /\ queue' = Append(queue, p) /\ pc' = [pc EXCEPT ![p] = "queued"]
    BY <1>5
  <2>2. /\ queue' \in Seq(Requests) /\ Len(queue') = Len(queue) + 1 /\ Len(queue) \in Nat
        /\ \A i \in 1..Len(queue) : queue'[i] = queue[i]
        /\ queue'[Len(queue) + 1] = p
    BY <2>1, AppendProperties, LenProperties
  <2>3. \A i \in 1..Len(queue) : pc[queue[i]] = "queued" /\ queue[i] # p BY DEF LineOK
  <2>4. \A i \in 1..Len(queue') : i \in 1..Len(queue) \/ i = Len(queue) + 1 BY <2>2
  <2>5. \A i \in 1..Len(queue') : pc'[queue'[i]] = "queued"
    <3> TAKE i \in 1..Len(queue')
    <3>1. CASE i \in 1..Len(queue)
      <4>1. queue[i] \in Requests BY <3>1
      <4> QED BY <2>1, <2>2, <2>3, <3>1, <4>1
    <3>2. CASE i = Len(queue) + 1 BY <2>1, <2>2, <3>2
    <3> QED BY <2>4, <3>1, <3>2
  <2>6. \A i, j \in 1..Len(queue') : queue'[i] = queue'[j] => i = j
    BY <2>2, <2>3, <2>4 DEF LineOK
  <2>7. LineOK' BY <2>5, <2>6 DEF LineOK
  <2>8. Holders' = Holders BY <2>1 DEF Holders, Holding
  <2>9. PermitsConserved' BY <2>1, <2>8 DEF PermitsConserved, Holders
  <2>10. TypeOK' BY <1>3, <2>1, <2>2
  <2> QED BY ONLY <1>1, <1>2, <2>7, <2>9, <2>10 DEF IInv
<1> QED BY <1>4, <1>5

(* The steps of a request that goes on.                                    *)
LEMMA GoingOnKeeps ==
  ASSUME IInv, NEW p \in Requests, Stage(p) \/ Granted(p) \/ Spawn(p) \/ Deadline(p)
  PROVE  IInv'
<1> USE DEF IInv, TypeOK
<1>1. \A to : pc' = [pc EXCEPT ![p] = to] => pc'[p] = to /\ \A q \in Requests \ {p} : pc'[q] = pc[q]
  OBVIOUS
<1>2. CASE Stage(p)
  <2>1. "acquire" \notin Holding /\ pc[p] \notin Holding BY <1>2 DEF Stage, Holding
  <2>2. \A q \in Requests : child'[q] # "none" => pc'[q] \in {"run", "kill"}
    BY <1>2 DEF Stage, ChildrenOK
  <2>3. child' = child /\ UNCHANGED <<semVars, outcome, orphans, inFlight>> BY <1>2 DEF Stage
  <2> QED BY <1>2, <2>1, <2>2, <2>3, GoOn DEF Stage
<1>3. CASE Granted(p)
  <2>1. "spawn" \in Holding /\ pc[p] \in Holding /\ p \in workspaces BY <1>3 DEF Granted, Holding
  <2>2. \A q \in Requests : child'[q] # "none" => pc'[q] \in {"run", "kill"}
    BY <1>3 DEF Granted, ChildrenOK
  <2>3. workspaces' = workspaces \cup {p} BY <1>3, <2>1 DEF Granted
  <2>4. UNCHANGED <<semVars, outcome, orphans, inFlight>> BY <1>3 DEF Granted
  <2>5. child' \in [Requests -> {"none", "running", "killed", "answered", "died"}]
    BY <1>3 DEF Granted
  <2>6. pc' = [pc EXCEPT ![p] = "spawn"] BY <1>3 DEF Granted
  <2> QED BY ONLY IInv, <2>1, <2>2, <2>3, <2>4, <2>5, <2>6, GoOn
<1>4. CASE Spawn(p)
  <2>1. "run" \in Holding /\ pc[p] \in Holding /\ p \in workspaces BY <1>4 DEF Spawn, Holding
  <2>2. \A q \in Requests : child'[q] # "none" => pc'[q] \in {"run", "kill"}
    BY <1>4 DEF Spawn, ChildrenOK
  <2>3. workspaces' = workspaces \cup {p} BY <1>4, <2>1 DEF Spawn
  <2>4. UNCHANGED <<semVars, outcome, orphans, inFlight>> BY <1>4 DEF Spawn
  <2>5. child' \in [Requests -> {"none", "running", "killed", "answered", "died"}]
    BY <1>4 DEF Spawn
  <2> QED BY <1>4, <2>1, <2>2, <2>3, <2>4, <2>5, GoOn DEF Spawn
<1>5. CASE Deadline(p)
  <2>1. "kill" \in Holding /\ pc[p] \in Holding /\ p \in workspaces BY <1>5 DEF Deadline, Holding
  <2>2. \A q \in Requests : child'[q] # "none" => pc'[q] \in {"run", "kill"}
    BY <1>5 DEF Deadline, ChildrenOK
  <2>3. workspaces' = workspaces \cup {p} BY <1>5, <2>1 DEF Deadline
  <2>4. UNCHANGED <<semVars, outcome, orphans, inFlight>> BY <1>5 DEF Deadline
  <2>5. child' \in [Requests -> {"none", "running", "killed", "answered", "died"}]
    BY <1>5 DEF Deadline
  <2> QED BY <1>5, <2>1, <2>2, <2>3, <2>4, <2>5, GoOn DEF Deadline
<1> QED BY <1>2, <1>3, <1>4, <1>5

(* The ways a request that holds a permit ends.                            *)
LEMMA EndingKeeps ==
  ASSUME IInv, NEW p \in Requests,
         SpawnFails(p) \/ Collect(p) \/ IoFails(p) \/ Reap(p) \/ (Cancel(p) /\ pc[p] # "queued")
  PROVE  IInv'
<1> USE DEF IInv, TypeOK
<1>1. pc[p] \in Holding /\ Release(p)
  BY DEF SpawnFails, Collect, IoFails, Reap, Cancel, Awaiting, Holding
<1>2. \E r \in {"io", "result", "died", "timeout", "cancelled"} : End(p, r)
  BY DEF SpawnFails, Collect, IoFails, Reap, Cancel
<1>3. child' = [child EXCEPT ![p] = "none"]
  <2>1. SpawnFails(p) => child[p] = "none" /\ child' = child BY DEF SpawnFails, ChildrenOK
  <2> QED BY <2>1 DEF Collect, IoFails, Reap, Cancel, DropChild
<1>4. orphans' \in 0..MaxOrphans
  <2>1. DropChild(p) => orphans' \in 0..MaxOrphans BY LimitsAssumption DEF DropChild
  <2> QED BY <2>1 DEF SpawnFails, Collect, IoFails, Reap, Cancel
<1> QED BY <1>1, <1>2, <1>3, <1>4, EndHolding

(* The ways a request that waits in line ends.                             *)
LEMMA LeavingKeeps ==
  ASSUME IInv, NEW p \in Requests, QueueTimeout(p) \/ (Cancel(p) /\ pc[p] = "queued")
  PROVE  IInv'
<1> USE DEF IInv, TypeOK
<1>1. pc[p] = "queued" /\ Leave(p) BY DEF QueueTimeout, Cancel
<1>2. \E r \in {"overloaded", "cancelled"} : End(p, r) BY DEF QueueTimeout, Cancel
<1>3. child[p] = "none" BY <1>1 DEF ChildrenOK
<1>4. UNCHANGED <<child, orphans>> BY <1>3 DEF QueueTimeout, Cancel, DropChild, Running
<1> QED BY <1>1, <1>2, <1>4, EndWaiting

(* A worker that changes, and a killed one that is gone.                   *)
LEMMA WorkerKeeps ==
  ASSUME IInv, (\E p \in Requests : WorkerEnds(p) \/ KilledDies(p)) \/ OrphanDies
  PROVE  IInv'
<1> USE DEF IInv, TypeOK
<1>1. UNCHANGED <<semVars, pc, inFlight, outcome, workspaces>>
  BY DEF WorkerEnds, KilledDies, OrphanDies
<1>2. LineOK' /\ PermitsConserved' /\ GaugeExact' BY <1>1, MoveNone
<1>3. /\ child' \in [Requests -> {"none", "running", "killed", "answered", "died"}]
      /\ \A q \in Requests : child'[q] # "none" => child[q] # "none"
  BY DEF WorkerEnds, KilledDies, OrphanDies
<1>4. orphans' \in 0..MaxOrphans BY LimitsAssumption DEF WorkerEnds, KilledDies, OrphanDies
<1>5. ChildrenOK' BY <1>1, <1>3 DEF ChildrenOK
<1>6. TypeOK' BY <1>1, <1>3, <1>4 DEF semVars
<1> QED BY ONLY <1>2, <1>5, <1>6 DEF IInv

(* A new service has all its permits and counts nothing.                   *)
LEMMA InitHolds == Init => IInv
<1> SUFFICES ASSUME Init PROVE IInv OBVIOUS
<1> USE LimitsAssumption DEF Init
<1>1. TypeOK BY DEF TypeOK, Holding
<1>2. LineOK /\ ChildrenOK BY DEF LineOK, ChildrenOK
<1>3. {p \in Requests : pc[p] \in Holding} = {} /\ {p \in Requests : pc[p] # "idle"} = {}
  BY DEF Holding
<1>4. Cardinality({p \in Requests : pc[p] \in Holding}) = 0
      /\ Cardinality({p \in Requests : pc[p] # "idle"}) = 0
  BY <1>3, FS_EmptySet
<1>5. permits = MaxConcurrent /\ inFlight = 0 /\ MaxConcurrent \in Nat OBVIOUS
<1>6. PermitsConserved /\ GaugeExact BY ONLY <1>4, <1>5 DEF PermitsConserved, GaugeExact
<1> QED BY <1>1, <1>2, <1>6 DEF IInv

(* Every step of every actor keeps the invariant.                          *)
LEMMA NextKeeps == IInv /\ [Next]_vars => IInv'
<1> SUFFICES ASSUME IInv, [Next]_vars PROVE IInv' OBVIOUS
<1>1. CASE UNCHANGED vars
  <2>1. UNCHANGED <<semVars, pc, inFlight, outcome, workspaces, child, orphans>> BY <1>1 DEF vars
  <2>2. LineOK' /\ PermitsConserved' /\ GaugeExact' BY <2>1, MoveNone
  <2>3. TypeOK' /\ ChildrenOK' BY <2>1 DEF IInv, TypeOK, ChildrenOK, semVars
  <2> QED BY <2>2, <2>3 DEF IInv
<1>2. ASSUME NEW p \in Requests, Start(p) PROVE IInv' BY <1>2, StartKeeps
<1>3. ASSUME NEW p \in Requests, RequestStep(p) PROVE IInv'
  BY <1>3, AssembleFailsKeeps, AcquireKeeps, GoingOnKeeps, EndingKeeps, LeavingKeeps DEF RequestStep
<1>4. ASSUME NEW p \in Requests, Cancel(p) PROVE IInv' BY <1>4, EndingKeeps, LeavingKeeps
<1>5. ASSUME (\E p \in Requests : WorkerEnds(p) \/ KilledDies(p)) \/ OrphanDies PROVE IInv'
  BY <1>5, WorkerKeeps
<1> QED BY <1>1, <1>2, <1>3, <1>4, <1>5 DEF Next

(* A worker has a request that holds a permit, so the permits bound them.  *)
LEMMA Bounded == IInv => WorkersBounded
<1> SUFFICES ASSUME IInv PROVE WorkersBounded OBVIOUS
<1>1. Running \subseteq Holders BY DEF IInv, ChildrenOK, Running, Holders, Holding
<1>2. IsFiniteSet(Holders) BY LimitsAssumption, FS_Subset DEF Holders
<1>3. Cardinality(Running) <= Cardinality(Holders) /\ Cardinality(Holders) \in Nat
      /\ Cardinality(Running) \in Nat
  BY <1>1, <1>2, FS_Subset, FS_CardinalityType
<1>4. permits + Cardinality(Holders) = MaxConcurrent /\ permits \in Nat
  BY LimitsAssumption DEF IInv, TypeOK, PermitsConserved, Holders
<1>5. Cardinality(Running) <= MaxConcurrent BY ONLY <1>3, <1>4
<1> QED BY <1>5 DEF WorkersBounded

-----------------------------------------------------------------------------
(* The inductive invariant, from which the theorems below follow.          *)
THEOREM Invariance == Spec => []IInv
BY InitHolds, NextKeeps, PTL DEF Spec

(* Every variable of the compile service keeps its type.                   *)
THEOREM TypeCorrect == Spec => []TypeOK
<1>1. IInv => TypeOK BY DEF IInv
<1> QED BY <1>1, Invariance, PTL

(* acquire, its timeout, and every way a compile ends, a dropped future    *)
(* included, keep the number of permits: the service never loses a slot.   *)
THEOREM PermitsNeverLost == Spec => []PermitsConserved
<1>1. IInv => PermitsConserved BY DEF IInv
<1> QED BY <1>1, Invariance, PTL

(* No more workers run for requests than max_concurrent, a worker killed   *)
(* at its deadline counted until it has been waited for.                   *)
THEOREM WorkersWithinSlots == Spec => []WorkersBounded
BY Bounded, Invariance, PTL

(* The in-flight gauge is exact: CompileObservation counts each compile    *)
(* down once, whether it finishes or is dropped.                           *)
THEOREM GaugeNeverDrifts == Spec => []GaugeExact
<1>1. IInv => GaugeExact BY DEF IInv
<1> QED BY <1>1, Invariance, PTL
=============================================================================
