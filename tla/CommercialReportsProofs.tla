---------------------- MODULE CommercialReportsProofs ----------------------
EXTENDS CommercialReports, FiniteSetTheorems, SequenceTheorems, WellFoundedInduction, TLAPS

(***************************************************************************)
(* Sums.  SumFunction is a fold, which no prover can do an induction over; *)
(* but a sum of cardinalities of disjoint sets is the cardinality of their *)
(* union, which obeys the equation of the fold, and so does nothing else.  *)
(***************************************************************************)

Some(s) == CHOOSE x \in s : TRUE
Adds(w, f) == f = [s \in SUBSET DOMAIN w |-> IF s = {} THEN 0 ELSE w[Some(s)] + f[s \ {Some(s)}]]

LEMMA SumIsFold ==
    ASSUME NEW w, \E f : Adds(w, f)
    PROVE  \E f : Adds(w, f) /\ SumFunction(w) = f[DOMAIN w]
  BY DEF SumFunction, SumFunctionOnSet, FoldFunctionOnSet, MapThenFoldSet, Adds, Some

\* The equation of the fold has one solution.
LEMMA FoldIsUnique ==
    ASSUME NEW w, IsFiniteSet(DOMAIN w), NEW f, NEW g, Adds(w, f), Adds(w, g),
           NEW s \in SUBSET DOMAIN w
    PROVE  f[s] = g[s]
  <1> DEFINE Bad == {t \in SUBSET DOMAIN w : f[t] # g[t]}
             Sizes == {n \in Nat : \E t \in Bad : Cardinality(t) = n}
  <1>1. \A t \in SUBSET DOMAIN w : IsFiniteSet(t) /\ Cardinality(t) \in Nat
    BY FS_Subset, FS_CardinalityType
  <1> SUFFICES ASSUME f[s] # g[s] PROVE FALSE
    OBVIOUS
  <1>2. Cardinality(s) \in Sizes
    BY <1>1
  <1>3. PICK n \in Sizes : \A m \in Sizes : ~ (<<m, n>> \in OpToRel(<, Nat))
    <2>1. Sizes \subseteq Nat /\ Sizes # {}
      BY <1>2
    <2> HIDE DEF Sizes
    <2> QED
      BY <2>1, NatLessThanWellFounded, WFMin, Zenon
  <1>4. n \in Nat /\ \A m \in Sizes : ~ (m < n)
    BY <1>3 DEF OpToRel
  <1>5. PICK t \in Bad : Cardinality(t) = n
    BY DEF Sizes
  <1>6. t # {}
    <2>1. f[{}] = 0 /\ g[{}] = 0
      BY DEF Adds
    <2> QED
      BY <1>5, <2>1
  <1> DEFINE x == Some(t)
             rest == t \ {x}
  <1>7. x \in t
    BY <1>6 DEF Some
  <1>8. /\ rest \in SUBSET DOMAIN w
        /\ Cardinality(rest) = n - 1 /\ n - 1 \in Nat
    <2>1. IsFiniteSet(t) /\ t \in SUBSET DOMAIN w
      BY <1>1, <1>5
    <2>2. Cardinality(rest) = n - 1
      BY <1>5, <1>7, <2>1, FS_RemoveElement
    <2>3. Cardinality(rest) \in Nat
      BY <1>1, <2>1
    <2> QED
      BY <2>1, <2>2, <2>3
  <1>9. rest \notin Bad
    BY <1>4, <1>8
  <1>10. f[rest] = g[rest]
    BY <1>8, <1>9
  <1>11. f[t] = w[x] + f[rest] /\ g[t] = w[x] + g[rest]
    BY <1>5, <1>6 DEF Adds
  <1> QED
    BY <1>5, <1>10, <1>11

\* Finitely many finite sets have a finite union.
LEMMA UnionIsFinite ==
    ASSUME NEW D, IsFiniteSet(D), NEW P, \A d \in D : IsFiniteSet(P[d])
    PROVE  IsFiniteSet(UNION {P[d] : d \in D})
  <1> DEFINE parts == {P[d] : d \in D}
             f == [d \in D |-> P[d]]
  <1>1. f \in Surjection(D, parts)
    BY DEF Surjection
  <1>2. IsFiniteSet(parts)
    BY <1>1, FS_Surjection
  <1> QED
    BY <1>2, FS_UNION

\* The sum of the sizes of disjoint sets is the size of their union.
LEMMA SumOfSizes ==
    ASSUME NEW D, IsFiniteSet(D), NEW P, \A d \in D : IsFiniteSet(P[d]),
           \A d, e \in D : d # e => P[d] \cap P[e] = {},
           NEW w \in [D -> Nat], \A d \in D : w[d] = Cardinality(P[d]),
           NEW all, all = UNION {P[d] : d \in D}
    PROVE  SumFunction(w) = Cardinality(all) /\ IsFiniteSet(all)
  <1> DEFINE All(s) == UNION {P[d] : d \in s}
             f == [s \in SUBSET D |-> Cardinality(All(s))]
  <1>1. ASSUME NEW s \in SUBSET D PROVE IsFiniteSet(All(s))
    <2>1. IsFiniteSet(s)
      BY FS_Subset
    <2>2. \A d \in s : IsFiniteSet(P[d])
      OBVIOUS
    <2> QED
      BY <2>1, <2>2, UnionIsFinite
  <1>2. ASSUME NEW s \in SUBSET D
        PROVE  f[s] = IF s = {} THEN 0 ELSE w[Some(s)] + f[s \ {Some(s)}]
    <2>1. CASE s = {}
      <3>1. All(s) = {}
        BY <2>1
      <3> QED
        BY <2>1, <3>1, FS_EmptySet
    <2>2. CASE s # {}
      <3>1. PICK x : x = Some(s)
        OBVIOUS
      <3>2. x \in s
        BY <2>2, <3>1 DEF Some
      <3>3. All(s) = P[x] \cup All(s \ {x}) /\ P[x] \cap All(s \ {x}) = {}
        BY <3>2
      <3>4. IsFiniteSet(P[x]) /\ IsFiniteSet(All(s \ {x})) /\ s \ {x} \in SUBSET D
        BY <1>1, <3>2
      <3>5. Cardinality(All(s)) = Cardinality(P[x]) + Cardinality(All(s \ {x}))
        <4> HIDE DEF All
        <4>1. Cardinality(P[x] \cup All(s \ {x}))
                  = Cardinality(P[x]) + Cardinality(All(s \ {x})) - Cardinality(P[x] \cap All(s \ {x}))
          BY <3>4, FS_Union
        <4>2. Cardinality(P[x] \cap All(s \ {x})) = 0
          BY <3>3, FS_EmptySet
        <4>3. Cardinality(P[x]) \in Nat /\ Cardinality(All(s \ {x})) \in Nat
          BY <3>4, FS_CardinalityType
        <4> DEFINE left == Cardinality(P[x])
                   right == Cardinality(All(s \ {x}))
        <4>4. Cardinality(All(s)) = left + right - 0
          BY <3>3, <4>1, <4>2
        <4>5. left \in Nat /\ right \in Nat
          BY <4>3
        <4> HIDE DEF left, right
        <4>6. Cardinality(All(s)) = left + right
          BY <4>4, <4>5
        <4> QED
          BY <4>6 DEF left, right
      <3> HIDE DEF All
      <3> QED
        BY <2>2, <3>1, <3>2, <3>4, <3>5
    <2> QED
      BY <2>1, <2>2
  <1>3. Adds(w, f)
    <2>1. DOMAIN w = D
      OBVIOUS
    <2>2. f = [s \in SUBSET D |-> f[s]]
      OBVIOUS
    <2>3. f = [s \in SUBSET D |-> IF s = {} THEN 0 ELSE w[Some(s)] + f[s \ {Some(s)}]]
      <3> HIDE DEF f
      <3> QED
        BY <1>2, <2>2
    <2> HIDE DEF f
    <2> QED
      BY <2>1, <2>3 DEF Adds
  <1>4. PICK g : Adds(w, g) /\ SumFunction(w) = g[DOMAIN w]
    <2> HIDE DEF f
    <2> QED
      BY <1>3, SumIsFold
  <1>5. g[DOMAIN w] = f[DOMAIN w]
    <2>1. IsFiniteSet(DOMAIN w)
      OBVIOUS
    <2> HIDE DEF f
    <2> QED
      BY <1>3, <1>4, <2>1, FoldIsUnique
  <1>6. f[DOMAIN w] = Cardinality(All(D))
    OBVIOUS
  <1>7. all = All(D)
    OBVIOUS
  <1> QED
    BY <1>1, <1>4, <1>5, <1>6, <1>7

\* A weight of each element as a pile of pairs, and the sum as its size.
Pile(u) == UNION {{x} \X (1..u[x]) : x \in DOMAIN u}

LEMMA SumOfWeights ==
    ASSUME NEW S, IsFiniteSet(S), NEW u \in [S -> Nat]
    PROVE  SumFunction(u) = Cardinality(Pile(u)) /\ IsFiniteSet(Pile(u))
  <1> DEFINE P == [x \in S |-> {x} \X (1..u[x])]
  <1>1. ASSUME NEW x \in S PROVE IsFiniteSet(P[x]) /\ Cardinality(P[x]) = u[x]
    <2>1. PICK n \in Nat : n = u[x]
      OBVIOUS
    <2>2. IsFiniteSet(1..n) /\ Cardinality(1..n) = n
      BY FS_Interval
    <2>3. IsFiniteSet({x}) /\ Cardinality({x}) = 1
      BY FS_Singleton
    <2> DEFINE one == {x}
               upTo == 1..n
    <2> HIDE DEF one, upTo
    <2>4. IsFiniteSet(one \X upTo) /\ Cardinality(one \X upTo) = Cardinality(one) * Cardinality(upTo)
      BY <2>2, <2>3, FS_Product DEF one, upTo
    <2>5. Cardinality(one \X upTo) = n
      BY <2>2, <2>3, <2>4 DEF one, upTo
    <2> QED
      BY <2>1, <2>4, <2>5 DEF one, upTo
  <1>2. \A x, y \in S : x # y => P[x] \cap P[y] = {}
    OBVIOUS
  <1>3. Pile(u) = UNION {P[x] : x \in S}
    BY DEF Pile
  <1> HIDE DEF P
  <1>4. (\A x \in S : IsFiniteSet(P[x])) /\ \A x \in S : u[x] = Cardinality(P[x])
    BY <1>1
  <1> QED
    BY <1>2, <1>3, <1>4, SumOfSizes
-----------------------------------------------------------------------------
(* What the reports read *)

RunRow == [kind : Kinds, created : Nat, job : Jobs \cup {NoJob}]

\* Every run has a checkpoint of its own.
TypeInvariant ==
    /\ now \in Nat /\ now <= MaxTime
    /\ template \in [Templates -> Policies]
    /\ runs \in Seq(RunRow) /\ \A r \in DOMAIN runs : runs[r].created <= now
    /\ link \in [Jobs -> 0..Len(runs)]
    /\ IsFiniteSet(checkpoints)
    /\ \A c \in checkpoints : c.run \in 0..Len(runs) /\ c.job \in Jobs \cup {NoJob}
    /\ \A r \in DOMAIN runs : \E c \in checkpoints : c.run = r /\ c.job = NoJob
    /\ blockLogs \in Seq([subject : Subjects, reason : BlockReasons, created : Nat])
    /\ \A b \in DOMAIN blockLogs : blockLogs[b].created <= now

LEMMA TypesInitially == Init => TypeInvariant
  <1> SUFFICES ASSUME Init PROVE TypeInvariant
    OBVIOUS
  <1>1. now \in Nat /\ now <= MaxTime
    BY ReportsAssumption DEF Init
  <1>2. link \in [Jobs -> 0..Len(runs)]
    BY DEF Init
  <1>3. IsFiniteSet(checkpoints)
    BY FS_EmptySet DEF Init
  <1> QED
    BY <1>1, <1>2, <1>3 DEF Init, TypeInvariant

LEMMA OneMoreRun ==
    ASSUME TypeInvariant, NEW kind \in Kinds, NEW job \in Jobs \cup {NoJob}, runs' = Ended(kind, job)
    PROVE  /\ Len(runs) \in Nat /\ DOMAIN runs = 1..Len(runs)
           /\ runs' \in Seq(RunRow)
           /\ Len(runs') = Len(runs) + 1 /\ DOMAIN runs' = 1..(Len(runs) + 1)
           /\ \A r \in 1..(Len(runs) + 1) : runs'[r].created <= now
  <1> DEFINE row == [kind |-> kind, created |-> now, job |-> job]
             length == Len(runs)
  <1>1. row \in RunRow /\ row.created = now
    BY DEF TypeInvariant, RunRow
  <1>2. runs' = Append(runs, row) /\ runs \in Seq(RunRow)
    BY DEF Ended, TypeInvariant
  <1> HIDE DEF row
  <1>3. /\ length \in Nat /\ DOMAIN runs = 1..length
        /\ runs' \in Seq(RunRow) /\ Len(runs') = length + 1 /\ DOMAIN runs' = 1..(length + 1)
        /\ \A r \in 1..length : runs'[r] = runs[r]
        /\ runs'[length + 1] = row
    BY <1>1, <1>2, AppendProperties
  <1> HIDE DEF length
  <1>4. \A r \in 1..(length + 1) : runs'[r].created <= now
    <2> SUFFICES ASSUME NEW r \in 1..(length + 1) PROVE runs'[r].created <= now
      OBVIOUS
    <2>1. CASE r \in 1..length
      BY <1>3, <2>1 DEF TypeInvariant
    <2>2. CASE r = length + 1
      BY <1>1, <1>3, <2>2 DEF TypeInvariant
    <2> QED
      BY <1>3, <2>1, <2>2
  <1> QED
    BY <1>3, <1>4 DEF length

\* One run more, with checkpoints that name it or what was there before.
LEMMA RunKeepsTypes ==
    ASSUME TypeInvariant, NEW kind \in Kinds, NEW job \in Jobs \cup {NoJob}, runs' = Ended(kind, job),
           NEW more, IsFiniteSet(more), checkpoints' = checkpoints \cup more,
           \A c \in more : c.run \in 0..Len(runs') /\ c.job \in Jobs \cup {NoJob},
           \E c \in more : c.run = Len(runs') /\ c.job = NoJob,
           link' \in [Jobs -> 0..Len(runs')],
           UNCHANGED <<now, template, blockLogs>>
    PROVE  TypeInvariant'
  <1> DEFINE length == Len(runs)
  <1>1. /\ length \in Nat /\ DOMAIN runs = 1..length
        /\ runs' \in Seq(RunRow)
        /\ Len(runs') = length + 1 /\ DOMAIN runs' = 1..(length + 1)
        /\ \A r \in 1..(length + 1) : runs'[r].created <= now
    BY OneMoreRun
  <1> HIDE DEF length
  <1>2. IsFiniteSet(checkpoints')
    BY FS_Union DEF TypeInvariant
  <1>3. \A c \in checkpoints' : c.run \in 0..(length + 1) /\ c.job \in Jobs \cup {NoJob}
    BY <1>1 DEF TypeInvariant, length
  <1>4. \A r \in 1..(length + 1) : \E c \in checkpoints' : c.run = r /\ c.job = NoJob
    <2> SUFFICES ASSUME NEW r \in 1..(length + 1)
                 PROVE  \E c \in checkpoints' : c.run = r /\ c.job = NoJob
      OBVIOUS
    <2>1. CASE r \in 1..length
      BY <1>1, <2>1 DEF TypeInvariant
    <2>2. CASE r = length + 1
      BY <1>1, <2>2
    <2> QED
      BY <1>1, <2>1, <2>2
  <1>5. /\ now' \in Nat /\ now' <= MaxTime /\ template' \in [Templates -> Policies]
        /\ blockLogs' \in Seq([subject : Subjects, reason : BlockReasons, created : Nat])
        /\ \A b \in DOMAIN blockLogs' : blockLogs'[b].created <= now'
    BY DEF TypeInvariant
  <1> QED
    BY <1>1, <1>2, <1>3, <1>4, <1>5 DEF TypeInvariant

LEMMA AtOnceKeepsTypes ==
    ASSUME TypeInvariant, NEW kind \in Kinds, NEW subject \in Subjects, RunAtOnce(kind, subject)
    PROVE  TypeInvariant'
  <1> DEFINE c == Checkpoint(Len(runs'), NoJob)
  <1>1. runs' = Ended(kind, NoJob) /\ checkpoints' = checkpoints \cup {c}
        /\ UNCHANGED <<now, template, link, blockLogs>>
    BY DEF RunAtOnce
  <1>2. Len(runs) \in Nat /\ Len(runs') = Len(runs) + 1
    BY <1>1, OneMoreRun
  <1>3. c.run = Len(runs') /\ c.job = NoJob
    BY DEF Checkpoint
  <1> HIDE DEF c
  <1>4. IsFiniteSet({c})
    BY FS_Singleton
  <1>5. link' \in [Jobs -> 0..Len(runs')]
    BY <1>1, <1>2 DEF TypeInvariant
  <1>6. Len(runs') \in 0..Len(runs')
    BY <1>2
  <1> QED
    BY <1>1, <1>3, <1>4, <1>5, <1>6, RunKeepsTypes

LEMMA JobKeepsTypes ==
    ASSUME TypeInvariant, NEW job \in Jobs, NEW kind \in Kinds, RunJob(job, kind)
    PROVE  TypeInvariant'
  <1>1. PICK a, b, c :
           /\ checkpoints' = checkpoints \cup {a, b, c}
           /\ a.run = link[job] /\ a.job = job
           /\ b.run = Len(runs') /\ b.job = NoJob
           /\ c.run = Len(runs') /\ c.job = job
    <2> DEFINE a == [id |-> Cardinality(checkpoints) + 1, run |-> link[job], job |-> job]
               b == [id |-> Cardinality(checkpoints) + 2, run |-> Len(runs'), job |-> NoJob]
               c == [id |-> Cardinality(checkpoints) + 3, run |-> Len(runs'), job |-> job]
    <2>1. checkpoints' = checkpoints \cup {a, b, c}
      BY DEF RunJob
    <2>2. /\ a.run = link[job] /\ a.job = job
          /\ b.run = Len(runs') /\ b.job = NoJob
          /\ c.run = Len(runs') /\ c.job = job
      OBVIOUS
    <2> HIDE DEF a, b, c
    <2> QED
      BY <2>1, <2>2
  <1>2. runs' = Ended(kind, job) /\ link' = [link EXCEPT ![job] = Len(runs')]
        /\ UNCHANGED <<now, template, blockLogs>>
    BY DEF RunJob
  <1>3. Len(runs) \in Nat /\ Len(runs') = Len(runs) + 1
    BY <1>2, OneMoreRun
  <1>4. link[job] \in 0..Len(runs') /\ Len(runs') \in 0..Len(runs')
        /\ link' \in [Jobs -> 0..Len(runs')]
    BY <1>2, <1>3 DEF TypeInvariant
  <1>5. IsFiniteSet({a, b, c})
    <2>1. IsFiniteSet({a}) /\ IsFiniteSet({a} \cup {b}) /\ IsFiniteSet(({a} \cup {b}) \cup {c})
      BY FS_Singleton, FS_AddElement
    <2>2. {a, b, c} = ({a} \cup {b}) \cup {c}
      OBVIOUS
    <2> QED
      BY <2>1, <2>2
  <1>6. \A d \in {a, b, c} : d.run \in 0..Len(runs') /\ d.job \in Jobs \cup {NoJob}
    BY <1>1, <1>4
  <1>7. \E d \in {a, b, c} : d.run = Len(runs') /\ d.job = NoJob
    BY <1>1
  <1> QED
    BY <1>1, <1>2, <1>4, <1>5, <1>6, <1>7, RunKeepsTypes

LEMMA TypesNext == TypeInvariant /\ [Next]_vars => TypeInvariant'
  <1> SUFFICES ASSUME TypeInvariant, [Next]_vars PROVE TypeInvariant'
    OBVIOUS
  <1>1. ASSUME NEW kind \in Kinds, NEW subject \in Subjects, RunAtOnce(kind, subject)
        PROVE  TypeInvariant'
    BY <1>1, AtOnceKeepsTypes
  <1>2. ASSUME NEW job \in Jobs, NEW subject \in Subjects, Enqueue(job, subject)
        PROVE  TypeInvariant'
    <2> DEFINE c == Checkpoint(0, job)
    <2>1. checkpoints' = checkpoints \cup {c}
          /\ UNCHANGED <<now, template, runs, link, blockLogs>>
      BY <1>2 DEF Enqueue
    <2>2. c.run = 0 /\ c.job = job
      BY DEF Checkpoint
    <2> HIDE DEF c
    <2>3. IsFiniteSet(checkpoints')
      BY <2>1, FS_AddElement DEF TypeInvariant
    <2>4. 0 \in 0..Len(runs)
      BY DEF TypeInvariant
    <2> QED
      BY <2>1, <2>2, <2>3, <2>4 DEF TypeInvariant
  <1>3. ASSUME NEW job \in Jobs, NEW kind \in Kinds, RunJob(job, kind) PROVE TypeInvariant'
    BY <1>3, JobKeepsTypes
  <1>4. ASSUME NEW t \in Templates, NEW policy \in Policies, EditTemplate(t, policy)
        PROVE  TypeInvariant'
    BY <1>4 DEF EditTemplate, TypeInvariant
  <1>5. ASSUME NEW subject \in Subjects, NEW reason \in BlockReasons, Block(subject, reason)
        PROVE  TypeInvariant'
    <2> DEFINE Log == [subject : Subjects, reason : BlockReasons, created : Nat]
               log == [subject |-> subject, reason |-> reason, created |-> now]
    <2>1. log \in Log /\ log.created = now /\ blockLogs \in Seq(Log) /\ now \in Nat
      BY DEF TypeInvariant
    <2>2. blockLogs' = Append(blockLogs, log)
          /\ UNCHANGED <<now, template, runs, link, checkpoints>>
      BY <1>5 DEF Block
    <2> HIDE DEF log, Log
    <2>3. /\ blockLogs' \in Seq(Log) /\ Len(blockLogs) \in Nat
          /\ DOMAIN blockLogs = 1..Len(blockLogs)
          /\ DOMAIN blockLogs' = 1..(Len(blockLogs) + 1)
          /\ \A b \in 1..Len(blockLogs) : blockLogs'[b] = blockLogs[b]
          /\ blockLogs'[Len(blockLogs) + 1] = log
      BY <2>1, <2>2, AppendProperties
    <2>4. \A b \in DOMAIN blockLogs' : b \in DOMAIN blockLogs \/ b = Len(blockLogs) + 1
      BY <2>3
    <2>5. \A b \in DOMAIN blockLogs' : blockLogs'[b].created <= now'
      BY <2>1, <2>2, <2>3, <2>4 DEF TypeInvariant
    <2> QED
      BY <2>2, <2>3, <2>5 DEF TypeInvariant, Log
  <1>6. CASE Tick
    <2>1. now' = now + 1 /\ now < MaxTime /\ now \in Nat /\ MaxTime \in Nat
          /\ UNCHANGED <<template, runs, link, checkpoints, blockLogs>>
      BY <1>6, ReportsAssumption DEF Tick, TypeInvariant
    <2>2. now' \in Nat /\ now' <= MaxTime
      BY <2>1
    <2>3. \A r \in DOMAIN runs : runs[r].created <= now'
      <3>1. \A r \in DOMAIN runs : runs[r] \in RunRow /\ runs[r].created <= now
        BY DEF TypeInvariant
      <3> QED
        BY <2>1, <3>1 DEF RunRow
    <2>4. \A b \in DOMAIN blockLogs : blockLogs[b].created <= now'
      <3> DEFINE Log == [subject : Subjects, reason : BlockReasons, created : Nat]
      <3>t. blockLogs \in Seq(Log) /\ \A log \in Log : log.created \in Nat
        BY DEF TypeInvariant
      <3> HIDE DEF Log
      <3>1. \A b \in DOMAIN blockLogs : blockLogs[b].created \in Nat /\ blockLogs[b].created <= now
        BY <3>t DEF TypeInvariant
      <3> QED
        BY <2>1, <3>1
    <2> QED
      BY <2>1, <2>2, <2>3, <2>4 DEF TypeInvariant
  <1>7. CASE UNCHANGED vars
    BY <1>7 DEF vars, TypeInvariant
  <1> QED
    BY <1>1, <1>2, <1>3, <1>4, <1>5, <1>6, <1>7 DEF Next

LEMMA TypesHold == Spec => []TypeInvariant
  BY TypesInitially, TypesNext, PTL DEF Spec
-----------------------------------------------------------------------------
(* Checkpoints *)

CountedOf(run) == OwnCheckpoints(run) \cup JobCheckpoints(run)

LEMMA CountOfRun ==
    ASSUME TypeInvariant, NEW r
    PROVE  /\ CountedOf(r) \subseteq checkpoints /\ IsFiniteSet(CountedOf(r))
           /\ Cardinality(CountedOf(r)) = CheckpointCount(r)
           /\ CheckpointCount(r) \in Nat
  <1> DEFINE own == OwnCheckpoints(r)
             jobs == JobCheckpoints(r)
  <1>1. own \subseteq checkpoints /\ jobs \subseteq checkpoints /\ own \cap jobs = {}
    BY DEF OwnCheckpoints, JobCheckpoints
  <1>2. IsFiniteSet(checkpoints)
    BY DEF TypeInvariant
  <1>3. CountedOf(r) = own \cup jobs
    BY DEF CountedOf
  <1>4. CheckpointCount(r) = Cardinality(own) + Cardinality(jobs)
    BY DEF CheckpointCount
  <1> HIDE DEF own, jobs
  <1>5. IsFiniteSet(own) /\ IsFiniteSet(jobs)
    BY <1>1, <1>2, FS_Subset
  <1>6. /\ IsFiniteSet(own \cup jobs)
        /\ Cardinality(own \cup jobs) = Cardinality(own) + Cardinality(jobs) - Cardinality(own \cap jobs)
    BY <1>5, FS_Union
  <1>7. Cardinality(own \cap jobs) = 0
    BY <1>1, FS_EmptySet
  <1>8. Cardinality(own) \in Nat /\ Cardinality(jobs) \in Nat
    BY <1>5, FS_CardinalityType
  <1> DEFINE a == Cardinality(own)
             b == Cardinality(jobs)
  <1>9. Cardinality(own \cup jobs) = a + b - 0 /\ CheckpointCount(r) = a + b /\ a \in Nat /\ b \in Nat
    BY <1>4, <1>6, <1>7, <1>8
  <1> HIDE DEF a, b
  <1>10. Cardinality(own \cup jobs) = CheckpointCount(r) /\ CheckpointCount(r) \in Nat
    BY <1>9
  <1> QED
    BY <1>1, <1>3, <1>6, <1>10

LEMMA RecordsAreFinite ==
    ASSUME TypeInvariant
    PROVE  /\ Len(runs) \in Nat /\ DOMAIN runs = 1..Len(runs) /\ IsFiniteSet(DOMAIN runs)
           /\ \A R \in SUBSET DOMAIN runs : IsFiniteSet(R) /\ Cardinality(R) \in Nat
  <1>1. runs \in Seq(RunRow)
    BY DEF TypeInvariant
  <1>2. Len(runs) \in Nat /\ DOMAIN runs = 1..Len(runs)
    BY <1>1
  <1>3. IsFiniteSet(DOMAIN runs)
    BY <1>2, FS_Interval
  <1>4. ASSUME NEW R \in SUBSET DOMAIN runs PROVE IsFiniteSet(R) /\ Cardinality(R) \in Nat
    <2>1. IsFiniteSet(R)
      BY <1>3, FS_Subset
    <2> QED
      BY <2>1, FS_CardinalityType
  <1> QED
    BY <1>2, <1>3, <1>4

\* However often jobs are retried, no checkpoint is counted for two runs,
\* every run counts its own, and only such as its page lists
\* (summarize_checkpoint_counts, list_checkpoints_for_orchestration).
THEOREM NoCheckpointCountsTwice == Spec => []CheckpointsCountOnce
  <1>1. TypeInvariant => CheckpointsCountOnce
    <2> SUFFICES ASSUME TypeInvariant PROVE CheckpointsCountOnce
      OBVIOUS
    <2> DEFINE D == DOMAIN runs
               P == [r \in D |-> CountedOf(r)]
               w == [r \in D |-> CheckpointCount(r)]
               all == UNION {P[r] : r \in D}
    <2>1. IsFiniteSet(D)
      BY RecordsAreFinite
    <2>2. \A r \in D : /\ P[r] = CountedOf(r) /\ w[r] = CheckpointCount(r)
                       /\ IsFiniteSet(P[r]) /\ Cardinality(P[r]) = w[r]
                       /\ w[r] \in Nat /\ P[r] \subseteq checkpoints
      BY CountOfRun
    <2>3. \A r, s \in D : r # s => P[r] \cap P[s] = {}
      BY DEF CountedOf, OwnCheckpoints, JobCheckpoints
    <2>4. w \in [D -> Nat] /\ w = [r \in DOMAIN runs |-> CheckpointCount(r)]
      BY <2>2
    <2>5. all \subseteq checkpoints /\ all = UNION {P[r] : r \in D}
      BY <2>2
    <2> HIDE DEF P, w, all, D
    <2>6. SumFunction(w) = Cardinality(all)
      BY <2>1, <2>2, <2>3, <2>4, <2>5, SumOfSizes
    <2>7. Cardinality(all) <= Cardinality(checkpoints)
      BY <2>5, FS_Subset DEF TypeInvariant
    <2>8. ASSUME NEW r \in DOMAIN runs
          PROVE  CheckpointCount(r) <= Cardinality(ListedCheckpoints(r)) /\ CheckpointCount(r) > 0
      <3>1. CountedOf(r) \subseteq ListedCheckpoints(r) /\ ListedCheckpoints(r) \subseteq checkpoints
        BY DEF CountedOf, OwnCheckpoints, JobCheckpoints, ListedCheckpoints
      <3>2. IsFiniteSet(ListedCheckpoints(r))
        BY <3>1, FS_Subset DEF TypeInvariant
      <3>3. Cardinality(CountedOf(r)) <= Cardinality(ListedCheckpoints(r))
        BY <3>1, <3>2, FS_Subset
      <3>4. CountedOf(r) # {}
        BY DEF TypeInvariant, CountedOf, OwnCheckpoints
      <3>5. Cardinality(CountedOf(r)) # 0
        BY <3>4, CountOfRun, FS_EmptySet
      <3> QED
        BY <3>3, <3>5, CountOfRun
    <2> QED
      BY <2>4, <2>6, <2>7, <2>8 DEF CheckpointsCountOnce
  <1> QED
    BY <1>1, TypesHold, PTL
-----------------------------------------------------------------------------
(* Policies, value and completeness *)

LEMMA RowIsTyped ==
    ASSUME TypeInvariant, NEW r \in DOMAIN runs
    PROVE  /\ runs[r].kind \in Kinds /\ runs[r].created \in Nat
           /\ runs[r].kind.template \in Templates \cup {0} /\ runs[r].kind.steps \in Nat
           /\ runs[r].kind.risks \in Nat /\ runs[r].kind.metadata \in 0..4
  <1>1. runs[r] \in RunRow
    BY DEF TypeInvariant
  <1>2. runs[r].kind \in Kinds /\ runs[r].created \in Nat
    BY <1>1 DEF RunRow
  <1> QED
    BY <1>2, ReportsAssumption

LEMMA PolicyIsTyped ==
    ASSUME TypeInvariant, NEW r \in DOMAIN runs
    PROVE  /\ PolicyForRecord(r).units \in Nat \ {0}
           /\ PolicyForRecord(r).risk \in RiskLevels
           /\ PolicyForRecord(r).approval \in BOOLEAN
  <1> DEFINE kind == runs[r].kind
             policy == template[kind.template]
  <1>2. kind.template \in Templates \cup {0} /\ kind.steps \in Nat
    BY RowIsTyped
  <1>3. CASE kind.template # 0
    <2>1. policy \in [units : Nat, risk : RiskLevels, approval : BOOLEAN]
      BY <1>2, <1>3, ReportsAssumption DEF TypeInvariant
    <2>2. PolicyForRecord(r) = [policy EXCEPT !.units = IF policy.units = 0 THEN 1 ELSE policy.units]
      BY <1>3 DEF PolicyForRecord
    <2> HIDE DEF policy
    <2> QED
      BY <2>1, <2>2
  <1>4. CASE kind.template = 0
    BY <1>2, <1>4 DEF PolicyForRecord, AtLeastOne, RiskLevels
  <1> QED
    BY <1>3, <1>4

LEMMA OneOfTwo ==
    ASSUME NEW a \in Nat, NEW b \in Nat
    PROVE  /\ Min({a, b}) \in Nat
           /\ Max({a, b}) \in Nat /\ Max({a, b}) >= a /\ Max({a, b}) >= b
  <1>1. \E x \in {a, b} : \A y \in {a, b} : x <= y
    OBVIOUS
  <1>2. \E x \in {a, b} : \A y \in {a, b} : x >= y
    OBVIOUS
  <1>3. Min({a, b}) \in {a, b}
    BY <1>1 DEF Min
  <1>4. Max({a, b}) \in {a, b} /\ \A y \in {a, b} : Max({a, b}) >= y
    BY <1>2 DEF Max
  <1> QED
    BY <1>3, <1>4

LEMMA ValueIsNatural ==
    ASSUME TypeInvariant, NEW r \in DOMAIN runs
    PROVE  RoiEvidence(r).value \in Nat /\ RoiEvidence(r).units = PolicyForRecord(r).units
  <1> DEFINE kind == runs[r].kind
             policy == PolicyForRecord(r)
             count == CheckpointCount(r)
             review == policy.units * 6 + (IF policy.approval THEN 15 ELSE 5)
             audit == policy.units * 3 + Min({20, 2 * count}) + 10
             named == IF kind.decision = "block" THEN Max({kind.risks, 1}) ELSE kind.risks
             blocked == IF named = 0 /\ policy.approval /\ policy.risk \in {"high", "critical"}
                        THEN 1 ELSE named
  <1>1. policy.units \in Nat /\ policy.risk \in RiskLevels
    BY PolicyIsTyped
  <1>2. count \in Nat /\ kind.risks \in Nat
    BY CountOfRun, RowIsTyped
  <1>3. RoiEvidence(r).value = blocked * RiskValue[policy.risk] + (5 * (review + audit) + 1) \div 2
        /\ RoiEvidence(r).units = policy.units
    BY DEF RoiEvidence
  <1> HIDE DEF policy, count
  <1>4. review \in Nat
    BY <1>1
  <1>5. audit \in Nat
    <2>1. 20 \in Nat /\ 2 * count \in Nat
      BY <1>2
    <2>2. Min({20, 2 * count}) \in Nat
      BY <2>1, OneOfTwo
    <2> QED
      BY <1>1, <2>2
  <1>6. named \in Nat
    BY <1>2, OneOfTwo
  <1>7. blocked \in Nat
    BY <1>6
  <1>8. RiskValue[policy.risk] \in Nat
    BY <1>1 DEF RiskValue, RiskLevels
  <1> HIDE DEF review, audit, named, blocked
  <1>9. (5 * (review + audit) + 1) \div 2 \in Nat
    BY <1>4, <1>5
  <1>10. blocked * RiskValue[policy.risk] \in Nat
    BY <1>7, <1>8
  <1> QED
    BY <1>3, <1>9, <1>10 DEF policy

LEMMA PercentIsBounded ==
    ASSUME NEW part \in Nat, NEW total \in Nat \ {0}, part <= total
    PROVE  (200 * part + total) \div (2 * total) \in 0..100
  OBVIOUS

LEMMA MetadataIsBounded ==
    ASSUME TypeInvariant, NEW R \in SUBSET DOMAIN runs
    PROVE  LET present == SumFunction([r \in R |-> runs[r].kind.metadata])
           IN  present \in Nat /\ present <= 4 * Cardinality(R)
  <1> DEFINE u == [r \in R |-> runs[r].kind.metadata]
             most == R \X (1..4)
  <1>1. IsFiniteSet(R) /\ Cardinality(R) \in Nat
    BY RecordsAreFinite
  <1>2. \A r \in R : u[r] \in 0..4
    BY RowIsTyped
  <1>3. u \in [R -> Nat] /\ DOMAIN u = R
    BY <1>2
  <1> HIDE DEF u
  <1>4. SumFunction(u) = Cardinality(Pile(u)) /\ IsFiniteSet(Pile(u))
    BY <1>1, <1>3, SumOfWeights
  <1>5. Pile(u) \subseteq most
    BY <1>2, <1>3 DEF Pile
  <1>6. IsFiniteSet(1..4) /\ Cardinality(1..4) = 4
    <2>1. \A n \in Nat : IsFiniteSet(1..n) /\ Cardinality(1..n) = n
      BY FS_Interval
    <2>2. 4 \in Nat
      OBVIOUS
    <2> QED
      BY <2>1, <2>2, Zenon
  <1>7. IsFiniteSet(most) /\ Cardinality(most) = Cardinality(R) * 4
    <2> DEFINE four == 1..4
    <2> HIDE DEF four
    <2>1. IsFiniteSet(R \X four) /\ Cardinality(R \X four) = Cardinality(R) * Cardinality(four)
      BY <1>1, <1>6, FS_Product DEF four
    <2> QED
      BY <1>6, <2>1 DEF four
  <1> HIDE DEF most
  <1>8. Cardinality(Pile(u)) <= Cardinality(most)
    BY <1>5, <1>7, FS_Subset
  <1>9. Cardinality(Pile(u)) \in Nat
    BY <1>4, FS_CardinalityType
  <1> QED
    BY <1>1, <1>4, <1>7, <1>8, <1>9 DEF u

LEMMA CompletenessIsPercent ==
    ASSUME TypeInvariant, NEW R \in SUBSET DOMAIN runs
    PROVE  Completeness(R) \in 0..100
  <1> DEFINE present == SumFunction([r \in R |-> runs[r].kind.metadata])
             total == 4 * Cardinality(R)
  <1>1. present \in Nat /\ total \in Nat /\ present <= total
    BY MetadataIsBounded, RecordsAreFinite
  <1>2. Completeness(R) = IF total = 0 THEN 0 ELSE (200 * present + total) \div (2 * total)
    BY DEF Completeness
  <1> HIDE DEF present, total
  <1> QED
    BY <1>1, <1>2, PercentIsBounded

LEMMA PilotRecordsAreRuns ==
    ASSUME NEW subject PROVE PilotRecords(subject) \in SUBSET DOMAIN runs
  BY DEF PilotRecords, Audited, RunsOf

\* Every variable keeps its type, every run has a value and every pilot a
\* completeness that is a percentage.
THEOREM ReportsTyped == Spec => []TypeOK
  <1>1. TypeInvariant => TypeOK
    <2> SUFFICES ASSUME TypeInvariant PROVE TypeOK
      OBVIOUS
    <2>1. now \in 0..MaxTime
      BY ReportsAssumption DEF TypeInvariant
    <2>2. ASSUME NEW r \in DOMAIN runs
          PROVE  /\ runs[r].kind \in Kinds /\ runs[r].created \in 0..now
                 /\ runs[r].job \in Jobs \cup {NoJob}
      <3>1. runs[r] \in RunRow /\ runs[r].created <= now
        BY DEF TypeInvariant
      <3> QED
        BY <3>1 DEF RunRow, TypeInvariant
    <2>3. \A r \in DOMAIN runs : RoiEvidence(r).value \in Nat
      BY ValueIsNatural
    <2>4. \A subject \in Scopes : Completeness(PilotRecords(subject)) \in 0..100
      BY PilotRecordsAreRuns, CompletenessIsPercent
    <2> QED
      BY <2>1, <2>2, <2>3, <2>4 DEF TypeInvariant, TypeOK
  <1> QED
    BY <1>1, TypesHold, PTL
-----------------------------------------------------------------------------
(* Readiness *)

LEMMA PackIsAsLong ==
    IsFiniteSet(Pack) /\ Cardinality(Pack) = Len(Scenarios) /\ Len(Scenarios) \in Nat \ {0}
  <1> DEFINE length == Len(Scenarios)
             f == [i \in 1..length |-> Scenarios[i]]
  <1>1. length \in Nat \ {0} /\ DOMAIN Scenarios = 1..length
    BY ReportsAssumption, EmptySeq
  <1> HIDE DEF length
  <1>2. f \in Bijection(1..length, Pack)
    BY <1>1, ReportsAssumption DEF Bijection, Injection, Surjection, IsInjective, Pack
  <1>3. ExistsBijection(1..length, Pack)
    BY <1>2 DEF ExistsBijection
  <1> HIDE DEF f
  <1>4. IsFiniteSet(1..length) /\ Cardinality(1..length) = length
    <2>1. 1 \in Int /\ length \in Int
      BY <1>1
    <2>2. IsFiniteSet(1..length) /\ Cardinality(1..length) = IF 1 > length THEN 0 ELSE length - 1 + 1
      BY <2>1, FS_Interval
    <2> QED
      BY <1>1, <2>2
  <1>5. IsFiniteSet(Pack) /\ Cardinality(Pack) = Cardinality(1..length)
    BY <1>3, <1>4, FS_Bijection
  <1> QED
    BY <1>1, <1>4, <1>5 DEF length

LEMMA NothingLeftToDo ==
    ASSUME NEW R, Recommendations(R) = {}
    PROVE  /\ Completed(R) = Pack
           /\ ~(Cardinality(R) < Cardinality(Pack))
           /\ \A shown \in {Exportable(R), Verified(R), WithCheckpoints(R)} :
                 ~(Cardinality(shown) < Max({Cardinality(R), Cardinality(Pack)}))
           /\ ~(Completeness(R) < 80)
  <1> DEFINE All == {"next scenario", "complete pack", "run pack", "export evidence",
                     "verify ledger", "confirm checkpoints", "fill metadata"}
  <1>1. \A todo \in All : todo \notin Recommendations(R)
    OBVIOUS
  <1>2. Completed(R) = Pack
    <2>1. "complete pack" \notin Recommendations(R)
      BY <1>1
    <2> QED
      BY <2>1 DEF Recommendations
  <1>3. ~(Cardinality(R) < Cardinality(Pack))
    <2>1. "run pack" \notin Recommendations(R)
      BY <1>1
    <2> QED
      BY <2>1 DEF Recommendations
  <1>4. ~(Cardinality(Exportable(R)) < Max({Cardinality(R), Cardinality(Pack)}))
    <2>1. "export evidence" \notin Recommendations(R)
      BY <1>1
    <2> QED
      BY <2>1 DEF Recommendations
  <1>5. ~(Cardinality(Verified(R)) < Max({Cardinality(R), Cardinality(Pack)}))
    <2>1. "verify ledger" \notin Recommendations(R)
      BY <1>1
    <2> QED
      BY <2>1 DEF Recommendations
  <1>6. ~(Cardinality(WithCheckpoints(R)) < Max({Cardinality(R), Cardinality(Pack)}))
    <2>1. "confirm checkpoints" \notin Recommendations(R)
      BY <1>1
    <2> QED
      BY <2>1 DEF Recommendations
  <1>7. ~(Completeness(R) < 80)
    <2>1. "fill metadata" \notin Recommendations(R)
      BY <1>1
    <2> QED
      BY <2>1 DEF Recommendations
  <1> QED
    BY <1>2, <1>3, <1>4, <1>5, <1>6, <1>7

LEMMA NothingLeftIsReady ==
    ASSUME TypeInvariant, NEW R \in SUBSET DOMAIN runs, Recommendations(R) = {}
    PROVE  ReadinessStatus(R) = "ready"
  <1>1. Completeness(R) \in 0..100 /\ ~(Completeness(R) < 80)
    BY CompletenessIsPercent, NothingLeftToDo
  <1>2. Cardinality(R) \in Nat /\ Cardinality(Pack) \in Nat \ {0}
    BY RecordsAreFinite, PackIsAsLong
  <1>3. Max({Cardinality(R), Cardinality(Pack)}) \in Nat
        /\ Max({Cardinality(R), Cardinality(Pack)}) >= Cardinality(Pack)
    BY <1>2, OneOfTwo
  <1>4. ASSUME NEW shown \in {Exportable(R), Verified(R), WithCheckpoints(R)}
        PROVE  Cardinality(shown) >= Cardinality(Pack)
    <2>1. shown \in SUBSET DOMAIN runs
      BY DEF Exportable, Verified, WithCheckpoints
    <2>2. Cardinality(shown) \in Nat
      BY <2>1, RecordsAreFinite
    <2>3. ~(Cardinality(shown) < Max({Cardinality(R), Cardinality(Pack)}))
      BY NothingLeftToDo
    <2> QED
      BY <1>2, <1>3, <2>2, <2>3
  <1>5. Completeness(R) >= 80
    BY <1>1
  <1>6. Cardinality(Pack) > 0 /\ Cardinality(R) >= Cardinality(Pack)
    <2>1. ~(Cardinality(R) < Cardinality(Pack))
      BY NothingLeftToDo
    <2> QED
      BY <1>2, <2>1
  <1>7. ReadyForBuyerReview(R)
    BY <1>4, <1>5, <1>6, NothingLeftToDo DEF ReadyForBuyerReview
  <1> QED
    BY <1>1, <1>6, <1>7 DEF ReadinessStatus

LEMMA ReadyHasEvidence ==
    ASSUME NEW R, ReadinessStatus(R) = "ready"
    PROVE  /\ \A s \in Pack : \E a, b, c \in ScenarioRuns(R, s) :
                  LedgerValid(a) /\ Checkpointed(b) /\ HasMetadata(c)
           /\ Cardinality(Verified(R)) >= Len(Scenarios)
  <1>1. ReadyForBuyerReview(R)
    BY DEF ReadinessStatus
  <1>2. Cardinality(Verified(R)) >= Len(Scenarios)
    BY <1>1, PackIsAsLong DEF ReadyForBuyerReview
  <1>3. ASSUME NEW s \in Pack
        PROVE  \E a, b, c \in ScenarioRuns(R, s) : LedgerValid(a) /\ Checkpointed(b) /\ HasMetadata(c)
    <2> DEFINE own == ScenarioRuns(R, s)
    <2>1. ScenarioStatus(R, s) = "completed"
      BY <1>1 DEF ReadyForBuyerReview, Completed
    <2>2. Verified(own) # {} /\ WithCheckpoints(own) # {} /\ \E r \in own : HasMetadata(r)
      BY <2>1 DEF ScenarioStatus
    <2> QED
      BY <2>2 DEF Verified, WithCheckpoints
  <1> QED
    BY <1>2, <1>3

\* A pilot is ready only with every kind of evidence for every scenario of
\* the pack and as many verified runs as it is long; and nothing is left to
\* recommend only when it is ready (get_pilot_readiness_report).
THEOREM ReadinessIsEarned == Spec => []ReadyIsEarned
  <1>1. TypeInvariant => ReadyIsEarned
    BY PilotRecordsAreRuns, NothingLeftIsReady, ReadyHasEvidence DEF ReadyIsEarned
  <1> QED
    BY <1>1, TypesHold, PTL
-----------------------------------------------------------------------------
(* Totals *)

UnitPile(R) == Pile([r \in R |-> PolicyForRecord(r).units])

LEMMA UnitsArePile ==
    ASSUME TypeInvariant, NEW R \in SUBSET DOMAIN runs
    PROVE  /\ UnitPile(R) = UNION {{r} \X (1..PolicyForRecord(r).units) : r \in R}
           /\ IsFiniteSet(UnitPile(R))
           /\ Units(R) = Cardinality(UnitPile(R)) /\ Units(R) \in Nat
  <1> DEFINE u == [r \in R |-> PolicyForRecord(r).units]
  <1>1. u \in [R -> Nat] /\ IsFiniteSet(R)
    BY PolicyIsTyped, RecordsAreFinite
  <1>2. Units(R) = SumFunction(u) /\ UnitPile(R) = Pile(u)
    BY DEF Units, UnitPile
  <1>3. Pile(u) = UNION {{r} \X (1..PolicyForRecord(r).units) : r \in R}
    BY DEF Pile
  <1> HIDE DEF u
  <1>4. SumFunction(u) = Cardinality(Pile(u)) /\ IsFiniteSet(Pile(u))
    BY <1>1, SumOfWeights
  <1>5. Cardinality(Pile(u)) \in Nat
    BY <1>4, FS_CardinalityType
  <1> QED
    BY <1>2, <1>3, <1>4, <1>5

\* A pile is of its runs, and of no run there is nothing.
LEMMA PilesFollowRuns ==
    ASSUME TypeInvariant, NEW R \in SUBSET DOMAIN runs, NEW S \in SUBSET DOMAIN runs
    PROVE  /\ R \subseteq S => UnitPile(R) \subseteq UnitPile(S)
           /\ R \cap S = {} => UnitPile(R) \cap UnitPile(S) = {}
           /\ \A p : p \in UnitPile(R) <=> \E r \in R : p \in UnitPile({r})
           /\ R = {} <=> UnitPile(R) = {}
  <1>1. \A T \in SUBSET DOMAIN runs :
           UnitPile(T) = UNION {{r} \X (1..PolicyForRecord(r).units) : r \in T}
    BY UnitsArePile
  <1>2. \A T \in SUBSET DOMAIN runs : \A p :
           p \in UnitPile(T) <=> \E r \in T : p \in {r} \X (1..PolicyForRecord(r).units)
    BY <1>1
  <1>3. \A r \in R : UnitPile({r}) = {r} \X (1..PolicyForRecord(r).units)
    BY <1>1
  <1>4. R # {} => UnitPile(R) # {}
    <2> SUFFICES ASSUME NEW r \in R PROVE UnitPile(R) # {}
      OBVIOUS
    <2>1. <<r, 1>> \in {r} \X (1..PolicyForRecord(r).units)
      BY PolicyIsTyped
    <2> QED
      BY <1>2, <2>1
  <1>5. R \cap S = {} => UnitPile(R) \cap UnitPile(S) = {}
    BY <1>2
  <1>6. R \subseteq S => UnitPile(R) \subseteq UnitPile(S)
    BY <1>2
  <1>7. R = {} => UnitPile(R) = {}
    BY <1>2
  <1>8. \A p : p \in UnitPile(R) <=> \E r \in R : p \in UnitPile({r})
    <2>1. \A p : \A r \in R : p \in UnitPile({r}) <=> p \in {r} \X (1..PolicyForRecord(r).units)
      BY <1>3
    <2>2. \A p : p \in UnitPile(R) <=> \E r \in R : p \in {r} \X (1..PolicyForRecord(r).units)
      BY <1>2
    <2> QED
      BY <2>1, <2>2, Zenon
  <1> QED
    BY <1>4, <1>5, <1>6, <1>7, <1>8

LEMMA QuotientsAreOrdered ==
    ASSUME NEW T \in Nat \ {0}, NEW days \in Nat, NEW t \in Nat, NEW n \in Nat,
           t <= n, t >= n - days * T
    PROVE  t \div T <= n \div T /\ t \div T >= n \div T - days
  <1> DEFINE a == t \div T
             b == n \div T
  <1>1. /\ a \in Nat /\ T * a <= t /\ t < T * a + T
        /\ b \in Nat /\ T * b <= n /\ n < T * b + T
    OBVIOUS
  <1> HIDE DEF a, b
  <1>2. a <= b
    <2> SUFFICES ASSUME a >= b + 1 PROVE FALSE
      BY <1>1
    <2>1. T * a >= T * (b + 1) /\ T * (b + 1) = T * b + T
      BY <1>1
    <2> QED
      BY <1>1, <2>1
  <1>3. a >= b - days
    <2> SUFFICES ASSUME b >= a + days + 1 PROVE FALSE
      BY <1>1
    <2>1. T * b >= T * (a + days + 1) /\ T * (a + days + 1) = T * a + days * T + T
      BY <1>1
    <2> QED
      BY <1>1, <2>1
  <1> QED
    BY <1>2, <1>3 DEF a, b

LEMMA DatesAreOfTheWindow ==
    ASSUME TypeInvariant, NEW t \in Nat, t <= now, InWindow(t)
    PROVE  Date(t) \in DatesOfWindow
  <1>1. /\ now \in Nat /\ Days \in Nat /\ TicksPerDay \in Nat \ {0}
        /\ t >= now - Days * TicksPerDay
    BY ReportsAssumption DEF TypeInvariant, InWindow
  <1>2. Date(t) <= Date(now) /\ Date(t) >= Date(now) - Days
    BY <1>1, QuotientsAreOrdered DEF Date
  <1>3. Date(t) \in Int /\ Date(now) \in Int
    BY <1>1 DEF Date
  <1> QED
    BY <1>1, <1>2, <1>3 DEF DatesOfWindow

\* What falls on the dates of the trend and on the oldest day is everything.
LEMMA DaysAddUp ==
    ASSUME TypeInvariant, NEW P, NEW w \in [DateKeys -> Nat], NEW all,
           \A d \in DatesOfWindow : IsFiniteSet(P[d]),
           \A d, e \in DatesOfWindow : d # e => P[d] \cap P[e] = {},
           \A d \in DateKeys : w[d] = Cardinality(P[d]),
           all = UNION {P[d] : d \in DatesOfWindow}
    PROVE  SumFunction(w) + Cardinality(P[Date(now) - Days]) = Cardinality(all)
  <1> DEFINE oldest == Date(now) - Days
             newer == UNION {P[d] : d \in DateKeys}
  <1>1. oldest \in Int /\ oldest <= Date(now) /\ Date(now) \in Int /\ Days \in Nat
    BY ReportsAssumption DEF TypeInvariant, Date
  <1>2. DatesOfWindow = DateKeys \cup {oldest} /\ oldest \notin DateKeys
    BY <1>1 DEF DatesOfWindow, DateKeys
  <1>3. IsFiniteSet(DateKeys)
    <2>1. oldest + 1 \in Int /\ DateKeys = (oldest + 1)..Date(now)
      BY <1>1 DEF DateKeys
    <2> QED
      BY <1>1, <2>1, FS_Interval
  <1>4. all = newer \cup P[oldest] /\ newer \cap P[oldest] = {}
    BY <1>2
  <1>5. IsFiniteSet(P[oldest])
    BY <1>2
  <1>6. SumFunction(w) = Cardinality(newer) /\ IsFiniteSet(newer)
    BY <1>2, <1>3, SumOfSizes
  <1> DEFINE last == P[oldest]
  <1> HIDE DEF newer, last
  <1>7. Cardinality(newer \cup last) = Cardinality(newer) + Cardinality(last) - Cardinality(newer \cap last)
    BY <1>5, <1>6, FS_Union DEF last
  <1>8. Cardinality(newer \cap last) = 0
    BY <1>4, FS_EmptySet DEF last
  <1>9. Cardinality(newer) \in Nat /\ Cardinality(last) \in Nat
    BY <1>5, <1>6, FS_CardinalityType DEF last
  <1> DEFINE m == Cardinality(newer)
             n == Cardinality(last)
  <1>10. Cardinality(all) = m + n - 0 /\ m \in Nat /\ n \in Nat
    BY <1>4, <1>7, <1>8, <1>9 DEF last
  <1> HIDE DEF m, n
  <1>11. Cardinality(all) = m + n
    BY <1>10
  <1> QED
    BY <1>6, <1>11 DEF m, n, last

\* A pile is divided like its runs.
LEMMA PilesOfParts ==
    ASSUME TypeInvariant, NEW R \in SUBSET DOMAIN runs, NEW D, NEW part \in [D -> SUBSET R],
           R = UNION {part[d] : d \in D}
    PROVE  UnitPile(R) = UNION {UnitPile(part[d]) : d \in D}
  <1>1. \A d \in D : part[d] \in SUBSET DOMAIN runs
    OBVIOUS
  <1>2. \A p : p \in UnitPile(R) <=> \E r \in R : p \in UnitPile({r})
    BY PilesFollowRuns
  <1>3. ASSUME NEW d \in D
        PROVE  \A p : p \in UnitPile(part[d]) <=> \E r \in part[d] : p \in UnitPile({r})
    <2>1. PICK T \in SUBSET DOMAIN runs : T = part[d]
      BY <1>1
    <2>2. \A p : p \in UnitPile(T) <=> \E r \in T : p \in UnitPile({r})
      BY PilesFollowRuns
    <2> QED
      BY <2>1, <2>2
  <1>4. ASSUME NEW p \in UnitPile(R) PROVE \E d \in D : p \in UnitPile(part[d])
    <2>1. PICK r \in R : p \in UnitPile({r})
      BY <1>2
    <2>2. PICK d \in D : r \in part[d]
      OBVIOUS
    <2> QED
      BY <1>3, <2>1, <2>2
  <1>5. ASSUME NEW d \in D, NEW p \in UnitPile(part[d]) PROVE p \in UnitPile(R)
    <2>1. PICK r \in part[d] : p \in UnitPile({r})
      BY <1>3
    <2>2. r \in R
      OBVIOUS
    <2> QED
      BY <1>2, <2>1, <2>2
  <1> QED
    BY <1>4, <1>5

Used(R) == {t \in Templates \cup {0} : RunsOfTemplate(R, t) # {}}
TemplateUnits(R, t) == Units(RunsOfTemplate(R, t))
Ahead(R, t) ==
    {s \in Used(R) : \/ TemplateUnits(R, s) > TemplateUnits(R, t)
                     \/ TemplateUnits(R, s) = TemplateUnits(R, t) /\ s > t}

LEMMA TopIsLeast == \A R : TopTemplates(R) = {t \in Used(R) : Cardinality(Ahead(R, t)) < TopLimit}
  BY DEF TopTemplates, Used, TemplateUnits, Ahead

LEMMA UsedIsFinite ==
    ASSUME TypeInvariant, NEW R \in SUBSET DOMAIN runs
    PROVE  /\ IsFiniteSet(Used(R)) /\ Used(R) \subseteq Nat
           /\ \A t : RunsOfTemplate(R, t) \in SUBSET R /\ TemplateUnits(R, t) \in Nat
           /\ \A r \in R : \E t \in Used(R) : r \in RunsOfTemplate(R, t)
           /\ R = {} <=> Used(R) = {}
  <1> DEFINE f == [r \in R |-> runs[r].kind.template]
  <1>1. \A t : RunsOfTemplate(R, t) \in SUBSET R
    BY DEF RunsOfTemplate
  <1>2. \A r \in R : f[r] \in Used(R) /\ r \in RunsOfTemplate(R, f[r])
    BY RowIsTyped DEF RunsOfTemplate, Used
  <1>3. \A t \in Used(R) : \E r \in R : f[r] = t
    BY DEF Used, RunsOfTemplate
  <1>4. f \in Surjection(R, Used(R))
    BY <1>2, <1>3 DEF Surjection
  <1> HIDE DEF f
  <1>5. IsFiniteSet(Used(R))
    BY <1>4, RecordsAreFinite, FS_Surjection
  <1>6. Used(R) \subseteq Nat
    <2>1. Used(R) \subseteq Templates \cup {0}
      BY DEF Used
    <2>2. Templates \subseteq Nat /\ 0 \in Nat
      BY ReportsAssumption
    <2> QED
      BY <2>1, <2>2
  <1>7. ASSUME NEW t PROVE TemplateUnits(R, t) \in Nat
    <2>1. RunsOfTemplate(R, t) \in SUBSET DOMAIN runs
      BY <1>1
    <2> QED
      BY <2>1, UnitsArePile DEF TemplateUnits
  <1>8. R = {} <=> Used(R) = {}
    BY <1>2, <1>3
  <1> QED
    BY <1>1, <1>2, <1>5, <1>6, <1>7, <1>8

\* Those ahead of one that is ahead are fewer.
LEMMA AheadIsOrdered ==
    ASSUME TypeInvariant, NEW R \in SUBSET DOMAIN runs, NEW t \in Used(R), NEW s \in Ahead(R, t)
    PROVE  /\ s \in Used(R)
           /\ Cardinality(Ahead(R, s)) \in Nat /\ Cardinality(Ahead(R, t)) \in Nat
           /\ Cardinality(Ahead(R, s)) < Cardinality(Ahead(R, t))
  <1> DEFINE here == Ahead(R, t)
             there == Ahead(R, s)
  <1>1. s \in Used(R) /\ Used(R) \subseteq Nat /\ IsFiniteSet(Used(R))
    BY UsedIsFinite DEF Ahead
  <1>2. \A x : TemplateUnits(R, x) \in Nat
    BY UsedIsFinite
  <1>3. there \subseteq here /\ here \subseteq Used(R) /\ there # here
    BY <1>1, <1>2 DEF Ahead
  <1> HIDE DEF here, there
  <1>4. IsFiniteSet(here)
    BY <1>1, <1>3, FS_Subset
  <1>5. /\ IsFiniteSet(there) /\ Cardinality(there) <= Cardinality(here)
        /\ Cardinality(here) # Cardinality(there)
    BY <1>3, <1>4, FS_Subset
  <1>6. Cardinality(here) \in Nat /\ Cardinality(there) \in Nat
    BY <1>4, <1>5, FS_CardinalityType
  <1> QED
    BY <1>1, <1>5, <1>6 DEF here, there

\* The list leaves a template out only when it is full: the first that is
\* left out has all those ahead of it on the list.
LEMMA ListIsFilled ==
    ASSUME TypeInvariant, NEW R \in SUBSET DOMAIN runs,
           Cardinality(TopTemplates(R)) < TopLimit
    PROVE  TopTemplates(R) = Used(R)
  <1> DEFINE Top == TopTemplates(R)
             Left == Used(R) \ Top
             Ranks == {n \in Nat : \E t \in Left : Cardinality(Ahead(R, t)) = n}
  <1>1. Top \subseteq Used(R) /\ \A t \in Used(R) : t \in Top <=> Cardinality(Ahead(R, t)) < TopLimit
    BY TopIsLeast
  <1>2. IsFiniteSet(Used(R))
    BY UsedIsFinite
  <1>3. ASSUME NEW t PROVE IsFiniteSet(Ahead(R, t)) /\ Cardinality(Ahead(R, t)) \in Nat
    <2>1. Ahead(R, t) \subseteq Used(R)
      BY DEF Ahead
    <2>2. IsFiniteSet(Ahead(R, t))
      BY <1>2, <2>1, FS_Subset
    <2> QED
      BY <2>2, FS_CardinalityType
  <1> HIDE DEF Top
  <1> SUFFICES ASSUME Left # {} PROVE FALSE
    BY <1>1 DEF Top
  <1>4. PICK n \in Ranks : \A m \in Ranks : ~ (<<m, n>> \in OpToRel(<, Nat))
    <2>1. Ranks \subseteq Nat /\ Ranks # {}
      BY <1>3
    <2> HIDE DEF Ranks
    <2> QED
      BY <2>1, NatLessThanWellFounded, WFMin, Zenon
  <1>5. n \in Nat /\ \A m \in Ranks : ~ (m < n)
    BY <1>4 DEF OpToRel
  <1>6. PICK t \in Left : Cardinality(Ahead(R, t)) = n
    BY DEF Ranks
  <1>7. Ahead(R, t) \subseteq Top
    <2> SUFFICES ASSUME NEW s \in Ahead(R, t), s \notin Top PROVE FALSE
      OBVIOUS
    <2>1. s \in Used(R) /\ Cardinality(Ahead(R, s)) \in Nat /\ Cardinality(Ahead(R, s)) < n
      BY <1>6, AheadIsOrdered
    <2>2. Cardinality(Ahead(R, s)) \in Ranks
      BY <2>1
    <2> QED
      BY <1>5, <2>1, <2>2
  <1>8. IsFiniteSet(Top) /\ Cardinality(Top) \in Nat
    <2>1. IsFiniteSet(Top)
      BY <1>1, <1>2, FS_Subset
    <2> QED
      BY <2>1, FS_CardinalityType
  <1>9. Cardinality(Ahead(R, t)) <= Cardinality(Top)
    BY <1>7, <1>8, FS_Subset
  <1>10. ~(n < TopLimit)
    BY <1>1, <1>6
  <1>11. TopLimit \in Nat /\ Cardinality(Top) < TopLimit
    BY ReportsAssumption DEF Top
  <1> QED
    BY <1>5, <1>6, <1>8, <1>9, <1>10, <1>11

\* What is listed adds up to some of the units, to all when the list is not
\* full, and to nothing only when there is no run.
LEMMA TotalOfTheList ==
    ASSUME TypeInvariant, NEW R \in SUBSET DOMAIN runs
    PROVE  /\ BillableTotal(R) \in Nat /\ BillableTotal(R) <= Units(R)
           /\ Cardinality(TopTemplates(R)) < TopLimit => BillableTotal(R) = Units(R)
           /\ BillableTotal(R) = 0 <=> R = {}
  <1> DEFINE Top == TopTemplates(R)
             part == [t \in Used(R) |-> RunsOfTemplate(R, t)]
             P == [t \in Used(R) |-> UnitPile(part[t])]
             w == [t \in Top |-> Units(RunsOfTemplate(R, t))]
             all == UNION {P[t] : t \in Top}
  <1>1. Top \subseteq Used(R)
    BY TopIsLeast
  <1>2. IsFiniteSet(Top)
    BY <1>1, UsedIsFinite, FS_Subset
  <1>3. part \in [Used(R) -> SUBSET R] /\ R = UNION {part[t] : t \in Used(R)}
    BY UsedIsFinite
  <1>4. ASSUME NEW t \in Used(R)
        PROVE  /\ P[t] = UnitPile(part[t]) /\ part[t] \in SUBSET DOMAIN runs /\ part[t] # {}
               /\ IsFiniteSet(P[t]) /\ Cardinality(P[t]) = Units(part[t]) /\ Units(part[t]) \in Nat
               /\ P[t] # {} /\ part[t] = RunsOfTemplate(R, t)
    <2> PICK T : T = part[t]
      OBVIOUS
    <2>1. T \in SUBSET DOMAIN runs /\ T # {} /\ P[t] = UnitPile(T) /\ T = RunsOfTemplate(R, t)
      BY <1>3 DEF Used
    <2>2. UnitPile(T) # {}
      BY <2>1, PilesFollowRuns
    <2> QED
      BY <2>1, <2>2, UnitsArePile
  <1>5. ASSUME NEW s \in Used(R), NEW t \in Used(R), s # t PROVE P[s] \cap P[t] = {}
    <2> PICK S, T : S = part[s] /\ T = part[t]
      OBVIOUS
    <2>1. S \cap T = {} /\ S \in SUBSET DOMAIN runs /\ T \in SUBSET DOMAIN runs
          /\ P[s] = UnitPile(S) /\ P[t] = UnitPile(T)
      BY <1>4, <1>5 DEF RunsOfTemplate
    <2> QED
      BY <2>1, PilesFollowRuns
  <1>6. w \in [Top -> Nat] /\ (\A t \in Top : w[t] = Cardinality(P[t])) /\ BillableTotal(R) = SumFunction(w)
    BY <1>1, <1>4 DEF BillableTotal
  <1>7. UnitPile(R) = UNION {UnitPile(part[t]) : t \in Used(R)}
    <2> HIDE DEF part
    <2> QED
      BY <1>3, PilesOfParts
  <1>8. UnitPile(R) = UNION {P[t] : t \in Used(R)}
    BY <1>7
  <1> HIDE DEF part, P, w
  <1>9. BillableTotal(R) = Cardinality(all) /\ IsFiniteSet(all)
    <2> HIDE DEF Top
    <2>1. \A t \in Top : IsFiniteSet(P[t])
      BY <1>1, <1>4
    <2>2. \A s, t \in Top : s # t => P[s] \cap P[t] = {}
      BY <1>1, <1>5
    <2> QED
      BY <1>2, <1>6, <2>1, <2>2, SumOfSizes
  <1>10. all \subseteq UnitPile(R)
    BY <1>1, <1>8
  <1>11. Units(R) = Cardinality(UnitPile(R)) /\ IsFiniteSet(UnitPile(R))
    BY UnitsArePile
  <1>12. Cardinality(Top) < TopLimit => Top = Used(R)
    BY ListIsFilled
  <1>13. Top = {} <=> R = {}
    <2>1. CASE Top = {}
      <3>1. Cardinality(Top) < TopLimit
        BY <2>1, FS_EmptySet, ReportsAssumption
      <3> QED
        BY <2>1, <3>1, <1>12, UsedIsFinite
    <2>2. CASE R = {}
      BY <1>1, <2>2, UsedIsFinite
    <2> QED
      BY <2>1, <2>2
  <1>14. all = {} <=> R = {}
    BY <1>1, <1>4, <1>13
  <1> HIDE DEF Top
  <1>15. Top = Used(R) => all = UnitPile(R)
    BY <1>8
  <1> HIDE DEF all
  <1>16. Cardinality(all) \in Nat /\ Cardinality(all) <= Cardinality(UnitPile(R))
    BY <1>9, <1>10, <1>11, FS_Subset, FS_CardinalityType
  <1>17. Cardinality(all) = 0 <=> R = {}
    BY <1>9, <1>14, FS_EmptySet
  <1> QED
    BY <1>9, <1>11, <1>12, <1>15, <1>16, <1>17 DEF Top

\* The oldest day and the dates of the trend divide the units of the window.
LEMMA UnitsByDate ==
    ASSUME TypeInvariant, NEW subject
    PROVE  SumFunction([d \in DateKeys |-> Trend(subject)[d].units])
               + Units({r \in RunsOf(subject) : Date(runs[r].created) = Date(now) - Days})
           = Units(RunsOf(subject))
  <1> DEFINE R == RunsOf(subject)
             part == [d \in DatesOfWindow |-> {r \in R : Date(runs[r].created) = d}]
             P == [d \in DatesOfWindow |-> UnitPile(part[d])]
             w == [d \in DateKeys |-> Trend(subject)[d].units]
             oldest == Date(now) - Days
  <1>1. R \in SUBSET DOMAIN runs
    BY DEF RunsOf
  <1>2. \A r \in R : Date(runs[r].created) \in DatesOfWindow
    BY RowIsTyped, DatesAreOfTheWindow DEF RunsOf, TypeInvariant
  <1>3. part \in [DatesOfWindow -> SUBSET R] /\ R = UNION {part[d] : d \in DatesOfWindow}
    BY <1>2
  <1>4. oldest \in DatesOfWindow /\ DateKeys \subseteq DatesOfWindow
    BY ReportsAssumption DEF TypeInvariant, Date, DatesOfWindow, DateKeys
  <1>5. ASSUME NEW d \in DatesOfWindow
        PROVE  /\ P[d] = UnitPile(part[d]) /\ part[d] \in SUBSET DOMAIN runs
               /\ IsFiniteSet(P[d]) /\ Cardinality(P[d]) = Units(part[d]) /\ Units(part[d]) \in Nat
    <2> PICK T : T = part[d]
      OBVIOUS
    <2>1. T \in SUBSET DOMAIN runs /\ P[d] = UnitPile(T)
      BY <1>1
    <2> QED
      BY <2>1, UnitsArePile
  <1>6. ASSUME NEW d \in DatesOfWindow, NEW e \in DatesOfWindow, d # e PROVE P[d] \cap P[e] = {}
    <2> PICK S, T : S = part[d] /\ T = part[e]
      OBVIOUS
    <2>1. S \cap T = {} /\ S \in SUBSET DOMAIN runs /\ T \in SUBSET DOMAIN runs
          /\ P[d] = UnitPile(S) /\ P[e] = UnitPile(T)
      BY <1>5, <1>6
    <2> QED
      BY <2>1, PilesFollowRuns
  <1>7. \A d \in DateKeys : w[d] = Units(part[d])
    BY <1>4 DEF Trend
  <1>8. w \in [DateKeys -> Nat] /\ \A d \in DateKeys : w[d] = Cardinality(P[d])
    BY <1>4, <1>5, <1>7
  <1>9. UnitPile(R) = UNION {UnitPile(part[d]) : d \in DatesOfWindow}
    <2> HIDE DEF part, R
    <2> QED
      BY <1>1, <1>3, PilesOfParts
  <1>10. UnitPile(R) = UNION {P[d] : d \in DatesOfWindow}
    BY <1>9
  <1>11. Units(R) = Cardinality(UnitPile(R))
    BY <1>1, UnitsArePile
  <1>12. Units({r \in RunsOf(subject) : Date(runs[r].created) = Date(now) - Days}) = Cardinality(P[oldest])
    BY <1>4, <1>5
  <1> HIDE DEF P, w, R, part
  <1>13. SumFunction(w) + Cardinality(P[Date(now) - Days]) = Cardinality(UnitPile(R))
    BY <1>5, <1>6, <1>8, <1>10, DaysAddUp
  <1> QED
    BY <1>11, <1>12, <1>13 DEF w, R

LEMMA AuditedByDate ==
    ASSUME TypeInvariant, NEW subject
    PROVE  SumFunction([d \in DateKeys |-> Trend(subject)[d].audited])
               + Cardinality(Audited({r \in RunsOf(subject) : Date(runs[r].created) = Date(now) - Days}))
           = Cardinality(Audited(RunsOf(subject)))
  <1> DEFINE R == RunsOf(subject)
             P == [d \in DatesOfWindow |-> Audited({r \in R : Date(runs[r].created) = d})]
             w == [d \in DateKeys |-> Trend(subject)[d].audited]
             oldest == Date(now) - Days
  <1>1. R \in SUBSET DOMAIN runs
    BY DEF RunsOf
  <1>2. \A r \in R : Date(runs[r].created) \in DatesOfWindow
    BY RowIsTyped, DatesAreOfTheWindow DEF RunsOf, TypeInvariant
  <1>3. oldest \in DatesOfWindow /\ DateKeys \subseteq DatesOfWindow
    BY ReportsAssumption DEF TypeInvariant, Date, DatesOfWindow, DateKeys
  <1>4. ASSUME NEW d \in DatesOfWindow PROVE IsFiniteSet(P[d]) /\ Cardinality(P[d]) \in Nat
    <2>1. P[d] \in SUBSET DOMAIN runs
      BY <1>1 DEF Audited
    <2> QED
      BY <2>1, RecordsAreFinite
  <1>5. \A d, e \in DatesOfWindow : d # e => P[d] \cap P[e] = {}
    BY DEF Audited
  <1>6. Audited(R) = UNION {P[d] : d \in DatesOfWindow}
    BY <1>2 DEF Audited
  <1>7. \A d \in DateKeys : w[d] = Cardinality(P[d])
    BY <1>3 DEF Trend
  <1>8. w \in [DateKeys -> Nat]
    BY <1>3, <1>4, <1>7
  <1>9. Audited({r \in RunsOf(subject) : Date(runs[r].created) = Date(now) - Days}) = P[oldest]
    BY <1>3
  <1> HIDE DEF P, w, R
  <1>10. SumFunction(w) + Cardinality(P[Date(now) - Days]) = Cardinality(Audited(R))
    BY <1>4, <1>5, <1>6, <1>7, <1>8, DaysAddUp
  <1> QED
    BY <1>9, <1>10 DEF w, R

LEMMA BlocksByDate ==
    ASSUME TypeInvariant, NEW subject
    PROVE  SumFunction([d \in DateKeys |-> Trend(subject)[d].blocks])
               + Cardinality({b \in BlocksOf(subject) : Date(blockLogs[b].created) = Date(now) - Days})
           = Cardinality(BlocksOf(subject))
  <1> DEFINE B == BlocksOf(subject)
             P == [d \in DatesOfWindow |-> {b \in B : Date(blockLogs[b].created) = d}]
             w == [d \in DateKeys |-> Trend(subject)[d].blocks]
             oldest == Date(now) - Days
  <1>1. B \in SUBSET DOMAIN blockLogs /\ IsFiniteSet(DOMAIN blockLogs)
        /\ \A b \in DOMAIN blockLogs : blockLogs[b].created \in Nat
    <2> DEFINE Log == [subject : Subjects, reason : BlockReasons, created : Nat]
    <2>1. blockLogs \in Seq(Log) /\ \A log \in Log : log.created \in Nat
      BY DEF TypeInvariant
    <2> HIDE DEF Log
    <2>2. Len(blockLogs) \in Nat /\ DOMAIN blockLogs = 1..Len(blockLogs)
          /\ \A b \in DOMAIN blockLogs : blockLogs[b] \in Log
      BY <2>1
    <2>3. IsFiniteSet(DOMAIN blockLogs)
      BY <2>2, FS_Interval
    <2> QED
      BY <2>1, <2>2, <2>3 DEF BlocksOf
  <1>2. \A b \in B : Date(blockLogs[b].created) \in DatesOfWindow
    BY <1>1, DatesAreOfTheWindow DEF BlocksOf, TypeInvariant
  <1>3. oldest \in DatesOfWindow /\ DateKeys \subseteq DatesOfWindow
    BY ReportsAssumption DEF TypeInvariant, Date, DatesOfWindow, DateKeys
  <1>4. ASSUME NEW d \in DatesOfWindow PROVE IsFiniteSet(P[d]) /\ Cardinality(P[d]) \in Nat
    <2>1. P[d] \in SUBSET DOMAIN blockLogs
      BY <1>1
    <2> HIDE DEF P
    <2>2. IsFiniteSet(P[d])
      BY <1>1, <2>1, FS_Subset
    <2> QED
      BY <2>2, FS_CardinalityType
  <1>5. \A d, e \in DatesOfWindow : d # e => P[d] \cap P[e] = {}
    OBVIOUS
  <1>6. B = UNION {P[d] : d \in DatesOfWindow}
    BY <1>2
  <1>7. \A d \in DateKeys : w[d] = Cardinality(P[d])
    BY <1>3 DEF Trend
  <1>8. w \in [DateKeys -> Nat]
    BY <1>3, <1>4, <1>7
  <1>9. {b \in BlocksOf(subject) : Date(blockLogs[b].created) = Date(now) - Days} = P[oldest]
    BY <1>3
  <1> HIDE DEF P, w, B
  <1>10. SumFunction(w) + Cardinality(P[Date(now) - Days]) = Cardinality(B)
    BY <1>4, <1>5, <1>6, <1>7, <1>8, DaysAddUp
  <1> QED
    BY <1>9, <1>10 DEF w, B

LEMMA EvidenceIsOfTheRuns ==
    ASSUME TypeInvariant, NEW R \in SUBSET DOMAIN runs
    PROVE  RoiSummary(R).units <= Units(R) /\ RoiSummary(R).runs = Cardinality(Audited(R))
  <1> DEFINE A == Audited(R)
  <1>1. A \in SUBSET R /\ A \in SUBSET DOMAIN runs
    BY DEF Audited
  <1>2. /\ RoiSummary(R).units = SumFunction([r \in A |-> RoiEvidence(r).units])
        /\ RoiSummary(R).runs = Cardinality(A)
    BY DEF RoiSummary
  <1>3. [r \in A |-> RoiEvidence(r).units] = [r \in A |-> PolicyForRecord(r).units]
    BY <1>1, ValueIsNatural
  <1>4. RoiSummary(R).units = Units(A)
    BY <1>2, <1>3 DEF Units
  <1> HIDE DEF A
  <1>5. UnitPile(A) \subseteq UnitPile(R) /\ IsFiniteSet(UnitPile(R))
    BY <1>1, PilesFollowRuns, UnitsArePile
  <1>6. Cardinality(UnitPile(A)) <= Cardinality(UnitPile(R))
    BY <1>5, FS_Subset
  <1>7. Units(A) = Cardinality(UnitPile(A)) /\ Units(R) = Cardinality(UnitPile(R))
    BY <1>1, UnitsArePile
  <1> QED
    BY <1>2, <1>4, <1>6, <1>7 DEF A

\* The figures of one report agree: trend and window, list and total, hint
\* and runs, ROI and units (get_commercial_metrics).
THEOREM FiguresAgree == Spec => []TotalsAgree
  <1>1. TypeInvariant => TotalsAgree
    <2> SUFFICES ASSUME TypeInvariant PROVE TotalsAgree
      OBVIOUS
    <2>1. ASSUME NEW subject \in Scopes
          PROVE  /\ BillableTotal(RunsOf(subject)) <= Units(RunsOf(subject))
                 /\ Cardinality(TopTemplates(RunsOf(subject))) < TopLimit
                       => BillableTotal(RunsOf(subject)) = Units(RunsOf(subject))
                 /\ "no_billable_activity" \in Hints(subject, TRUE) <=> RunsOf(subject) = {}
                 /\ RoiSummary(RunsOf(subject)).units <= Units(RunsOf(subject))
                 /\ RoiSummary(RunsOf(subject)).runs = Cardinality(Audited(RunsOf(subject)))
      <3>1. RunsOf(subject) \in SUBSET DOMAIN runs
        BY DEF RunsOf
      <3>2. "no_billable_activity" \in Hints(subject, TRUE) <=> BillableTotal(RunsOf(subject)) = 0
        BY DEF Hints
      <3> QED
        BY <3>1, <3>2, TotalOfTheList, EvidenceIsOfTheRuns
    <2> QED
      BY <2>1, UnitsByDate, AuditedByDate, BlocksByDate DEF TotalsAgree
  <1> QED
    BY <1>1, TypesHold, PTL
=============================================================================
