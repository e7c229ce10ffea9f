------------------------ MODULE UsageMeteringProofs ------------------------
EXTENDS UsageMetering, FiniteSetTheorems, WellFoundedInduction, TLAPS

(* Rows of the counter *)

\* Who can still insert a row: a session that has read that there is none,
\* or has yet to look while there is none.
Fresh(s) ==
    \/ pc[s] \in {"idle", "admitted", "executed", "logged"} /\ present = {}
    \/ pc[s] \in {"checking", "recording", "refreshing"} /\ copy[s].id = 0

Settled == {s \in Sessions : ~ Fresh(s)}

PCs == {"idle", "checking", "admitted", "refused", "executed", "logged",
        "recording", "refreshing", "counting", "done", "lost"}

\* The types, with the ids bounded by those given out; and what makes them
\* few: each session inserts once, so the ids are no more than the sessions
\* that will insert no more.
MeteringInvariant ==
    /\ subscribed \in BOOLEAN
    /\ used \in [Ids -> Nat]
    /\ usageLog \subseteq Calls /\ executed \subseteq Calls /\ billed \subseteq Calls
    /\ pc \in [Sessions -> PCs]
    /\ copy \in [Sessions -> [id : Nat, used : Nat]]
    /\ counted \in [Refreshes -> Nat]
    /\ crashes \in Nat
    /\ raced \subseteq Sessions
    /\ lastId \in Nat /\ lastId <= Cardinality(Settled)
    /\ present \subseteq 1..lastId
    /\ \A s \in Sessions :
          /\ copy[s].id <= lastId
          /\ copy[s].id # 0 /\ pc[s] # "counting" => present # {}
          /\ pc[s] = "counting" => copy[s].id # 0

LEMMA SessionsAreFinite == IsFiniteSet(Sessions)
  BY MeteringAssumption, FS_Union DEF Sessions

LEMMA IdsAreEnough ==
    ASSUME lastId \in Nat, lastId <= Cardinality(Settled)
    PROVE  1..lastId \subseteq Ids
  <1>1. Cardinality(Settled) <= Cardinality(Sessions) /\ Cardinality(Settled) \in Nat
    BY SessionsAreFinite, FS_Subset, FS_CardinalityType DEF Settled
  <1>2. Cardinality(Sessions) \in Nat
    BY SessionsAreFinite, FS_CardinalityType
  <1> QED
    BY <1>1, <1>2 DEF Ids

LEMMA NewestIs ==
    ASSUME MeteringInvariant
    PROVE  /\ NewestCopy \in [id : Nat, used : Nat] /\ NewestCopy.id <= lastId
           /\ NewestCopy.id = 0 <=> present = {}
           /\ NewestCopy.id # 0 => NewestCopy.id \in Ids /\ NewestCopy.used = used[NewestCopy.id]
           /\ NewestCopy.id = 0 => NewestCopy.used = 0
  <1>1. CASE present = {}
    BY <1>1 DEF NewestCopy, NoCopy, MeteringInvariant
  <1>2. CASE present # {}
    <2>1. present \subseteq 1..lastId /\ lastId \in Nat /\ 1..lastId \subseteq Ids
      BY IdsAreEnough DEF MeteringInvariant
    <2> DEFINE ages == {lastId - i : i \in present}
    <2>2. ages \subseteq Nat /\ ages # {}
      <3>1. \A i \in present : lastId - i \in Nat
        BY <2>1
      <3> QED
        BY <1>2, <3>1
    <2>3. PICK least \in ages : \A age \in ages : ~ (<<age, least>> \in OpToRel(<, Nat))
      <3> HIDE DEF ages
      <3> QED
        BY <2>2, NatLessThanWellFounded, WFMin, Zenon
    <2>4. \A age \in ages : ~ (age < least)
      BY <2>2, <2>3 DEF OpToRel
    <2>5. PICK i \in present : least = lastId - i
      BY DEF ages
    <2>6. \A k \in present : k <= i
      <3> SUFFICES ASSUME NEW k \in present PROVE k <= i
        OBVIOUS
      <3>1. ~ (lastId - k < lastId - i)
        BY <2>4, <2>5
      <3> QED
        BY <2>1, <3>1
    <2> DEFINE newest == CHOOSE x \in present : \A k \in present : k <= x
    <2>7. newest \in present
      BY <2>6
    <2>8. NewestCopy = [id |-> newest, used |-> used[newest]]
      BY <1>2 DEF NewestCopy
    <2>9. used[newest] \in Nat
      BY <2>1, <2>7 DEF MeteringInvariant
    <2> HIDE DEF newest
    <2> QED
      BY <1>2, <2>1, <2>7, <2>8, <2>9
  <1> QED
    BY <1>1, <1>2

\* Ids and sessions that will insert no more grow together.
LEMMA SettledGrows ==
    ASSUME lastId \in Nat, lastId <= Cardinality(Settled), Settled \subseteq Settled',
           \/ lastId' = lastId
           \/ lastId' = lastId + 1 /\ \E s \in Settled' : s \notin Settled
    PROVE  lastId' \in Nat /\ lastId' <= Cardinality(Settled')
  <1>1. IsFiniteSet(Settled) /\ IsFiniteSet(Settled')
    <2>1. Settled \in SUBSET Sessions /\ Settled' \in SUBSET Sessions
      BY DEF Settled
    <2> QED
      BY <2>1, SessionsAreFinite, FS_Subset
  <1>2. /\ Cardinality(Settled) \in Nat /\ Cardinality(Settled') \in Nat
        /\ Cardinality(Settled) <= Cardinality(Settled')
    BY <1>1, FS_Subset, FS_CardinalityType
  <1>3. ASSUME NEW s \in Settled', s \notin Settled
        PROVE  Cardinality(Settled) + 1 <= Cardinality(Settled')
    <2>1. Cardinality(Settled \cup {s}) = Cardinality(Settled) + 1
      BY <1>1, <1>3, FS_AddElement
    <2>2. Settled \cup {s} \in SUBSET Settled'
      BY <1>3
    <2> QED
      BY <1>1, <2>1, <2>2, FS_Subset
  <1> QED
    BY <1>2, <1>3

LEMMA MeteringInit == Init => MeteringInvariant
  <1> SUFFICES ASSUME Init PROVE MeteringInvariant
    OBVIOUS
  <1>1. lastId \in Nat /\ present \subseteq 1..lastId
    <2>1. CASE present = {}
      BY <2>1, FS_EmptySet DEF Init
    <2>2. CASE present = {1}
      <3>1. lastId = 1
        BY <2>2, FS_Singleton DEF Init
      <3> QED
        BY <2>2, <3>1
    <2> QED
      BY <2>1, <2>2 DEF Init
  <1>2. lastId <= Cardinality(Settled)
    <2>1. IsFiniteSet(Settled)
      BY SessionsAreFinite, FS_Subset DEF Settled
    <2>2. CASE present = {}
      BY <2>1, <2>2, FS_EmptySet, FS_CardinalityType DEF Init
    <2>3. CASE present = {1}
      <3>1. Settled # {}
        BY <2>3, MeteringAssumption DEF Init, Settled, Fresh, Sessions
      <3>2. Cardinality(Settled) # 0 /\ Cardinality(Settled) \in Nat
        BY <2>1, <3>1, FS_EmptySet, FS_CardinalityType
      <3>3. lastId = 1
        BY <2>3, FS_Singleton DEF Init
      <3> QED
        BY <3>2, <3>3
    <2> QED
      BY <2>2, <2>3 DEF Init
  <1>3. /\ copy \in [Sessions -> [id : Nat, used : Nat]]
        /\ \A s \in Sessions : copy[s].id = 0 /\ pc[s] = "idle"
    BY DEF Init, NoCopy
  <1>4. pc \in [Sessions -> PCs]
    BY DEF Init, PCs
  <1>5. \A s \in Sessions : copy[s].id <= lastId
    BY <1>1, <1>3
  <1> QED
    BY <1>1, <1>2, <1>3, <1>4, <1>5 DEF Init, MeteringInvariant

\* The bound on the ids survives the step of one session, if it makes the
\* session no fresher and takes an id only for the last time.
LEMMA OneSettles ==
    ASSUME MeteringInvariant, NEW s \in Sessions,
           \A r \in Sessions \ {s} : pc'[r] = pc[r] /\ copy'[r] = copy[r],
           present \subseteq present',
           Fresh(s)' => Fresh(s),
           \/ lastId' = lastId
           \/ lastId' = lastId + 1 /\ Fresh(s) /\ ~ Fresh(s)'
    PROVE  lastId' \in Nat /\ lastId' <= Cardinality(Settled')
  <1>1. \A r \in Sessions : Fresh(r)' => Fresh(r)
    BY DEF Fresh
  <1>2. Settled \subseteq Settled'
    BY <1>1 DEF Settled
  <1>3. Fresh(s) /\ ~ Fresh(s)' => s \in Settled' /\ s \notin Settled
    BY DEF Settled
  <1> QED
    BY <1>2, <1>3, SettledGrows DEF MeteringInvariant

LEMMA ReadKeepsInvariant ==
    ASSUME MeteringInvariant, raced' \subseteq Sessions,
           NEW s \in Sessions, NEW there \in {"checking", "recording", "refreshing"},
           pc[s] \in {"idle", "logged"}, ReadCounter(s, there)
    PROVE  MeteringInvariant'
  <1>1. /\ copy' = [copy EXCEPT ![s] = NewestCopy] /\ pc' = [pc EXCEPT ![s] = there]
        /\ UNCHANGED <<subscribed, present, used, lastId, usageLog, executed, billed, counted, crashes>>
    BY DEF ReadCounter, Goto
  <1>2. /\ NewestCopy \in [id : Nat, used : Nat] /\ NewestCopy.id <= lastId
        /\ NewestCopy.id = 0 <=> present = {}
    BY NewestIs
  <1>3. pc \in [Sessions -> PCs] /\ copy \in [Sessions -> [id : Nat, used : Nat]]
    BY DEF MeteringInvariant
  <1>4. /\ pc'[s] = there /\ copy'[s] = NewestCopy
        /\ \A r \in Sessions \ {s} : pc'[r] = pc[r] /\ copy'[r] = copy[r]
    BY <1>1, <1>3
  <1>5. pc' \in [Sessions -> PCs] /\ copy' \in [Sessions -> [id : Nat, used : Nat]]
    BY <1>1, <1>2, <1>3 DEF PCs
  <1>6. lastId' \in Nat /\ lastId' <= Cardinality(Settled')
    <2>1. Fresh(s)' => Fresh(s)
      BY <1>1, <1>2, <1>4 DEF Fresh
    <2> QED
      BY <1>1, <1>4, <2>1, OneSettles
  <1>7. \A r \in Sessions : /\ copy'[r].id <= lastId'
                            /\ copy'[r].id # 0 /\ pc'[r] # "counting" => present' # {}
                            /\ pc'[r] = "counting" => copy'[r].id # 0
    BY <1>1, <1>2, <1>4 DEF MeteringInvariant
  <1> QED
    BY <1>1, <1>5, <1>6, <1>7 DEF MeteringInvariant

\* A commit of a call: into the row of its copy, or into a new one.
LEMMA CommitKeepsInvariant ==
    ASSUME MeteringInvariant, raced' \subseteq Sessions,
           NEW c \in Calls, pc[c] \in {"checking", "recording"}, Flush(c),
           \/ \E n \in Nat : CommitRow(IF copy[c].id = 0 THEN lastId' ELSE copy[c].id, n)
           \/ copy[c].id # 0 /\ UNCHANGED <<present, used>>,
           NEW there \in {"admitted", "refused", "done"}, Goto(c, there),
           copy' = [copy EXCEPT ![c] = NoCopy], billed' \subseteq Calls,
           UNCHANGED <<subscribed, usageLog, executed, counted, crashes>>
    PROVE  MeteringInvariant'
  <1>1. c \in Sessions
    BY DEF Sessions
  <1>2. pc \in [Sessions -> PCs] /\ copy \in [Sessions -> [id : Nat, used : Nat]]
    BY DEF MeteringInvariant
  <1>3. /\ pc'[c] = there /\ copy'[c] = NoCopy
        /\ \A r \in Sessions \ {c} : pc'[r] = pc[r] /\ copy'[r] = copy[r]
    BY <1>1, <1>2 DEF Goto
  <1>4. pc' \in [Sessions -> PCs] /\ copy' \in [Sessions -> [id : Nat, used : Nat]]
    BY <1>2 DEF Goto, PCs, NoCopy
  <1>5. /\ lastId \in Nat /\ present \subseteq 1..lastId /\ copy[c].id \in Nat
        /\ copy[c].id <= lastId
        /\ copy[c].id # 0 => present # {}
    BY <1>1, <1>2 DEF MeteringInvariant
  <1>6. lastId' = IF copy[c].id = 0 THEN lastId + 1 ELSE lastId
    BY DEF Flush
  <1>7. present \subseteq present' /\ present' # {} /\ present' \subseteq 1..lastId'
    <2> DEFINE row == IF copy[c].id = 0 THEN lastId' ELSE copy[c].id
    <2>1. present' = present \cup {row} \/ (copy[c].id # 0 /\ present' = present)
      <3>1. CASE \E n \in Nat : CommitRow(row, n)
        BY <3>1, Zenon DEF CommitRow
      <3>2. CASE copy[c].id # 0 /\ UNCHANGED <<present, used>>
        BY <3>2
      <3> QED
        BY <3>1, <3>2, Zenon
    <2>2. row \in 1..lastId' /\ 1..lastId \subseteq 1..lastId'
      BY <1>5, <1>6
    <2> HIDE DEF row
    <2> QED
      BY <1>5, <2>1, <2>2
  <1>8. lastId' \in Nat /\ lastId' <= Cardinality(Settled')
    <2>1. ~ Fresh(c)'
      BY <1>3, <1>7 DEF Fresh
    <2>2. copy[c].id = 0 => Fresh(c)
      BY DEF Fresh
    <2> QED
      BY <1>1, <1>3, <1>6, <1>7, <2>1, <2>2, OneSettles
  <1>9. used' \in [Ids -> Nat]
    <2>1. used \in [Ids -> Nat]
      BY DEF MeteringInvariant
    <2>2. ASSUME NEW i, NEW n \in Nat, CommitRow(i, n) PROVE used' \in [Ids -> Nat]
      BY <2>1, <2>2 DEF CommitRow
    <2> QED
      BY <2>1, <2>2
  <1>10. \A r \in Sessions : /\ copy'[r].id <= lastId'
                             /\ copy'[r].id # 0 /\ pc'[r] # "counting" => present' # {}
                             /\ pc'[r] = "counting" => copy'[r].id # 0
    <2>1. lastId <= lastId'
      BY <1>5, <1>6
    <2>2. \A r \in Sessions : copy[r].id \in Nat /\ copy[r].id <= lastId
      BY <1>2 DEF MeteringInvariant
    <2>3. \A r \in Sessions : pc[r] = "counting" => copy[r].id # 0
      BY DEF MeteringInvariant
    <2> QED
      BY <1>3, <1>5, <1>7, <1>8, <2>1, <2>2, <2>3 DEF NoCopy
  <1> QED
    BY <1>4, <1>7, <1>8, <1>9, <1>10 DEF MeteringInvariant

\* A step that only moves a session on.
LEMMA MoveKeepsInvariant ==
    ASSUME MeteringInvariant, raced' \subseteq Sessions,
           NEW s \in Sessions, NEW there \in {"admitted", "refused", "executed", "logged", "done"},
           pc[s] \in {"idle", "admitted", "executed"}, Goto(s, there),
           usageLog' \subseteq Calls, executed' \subseteq Calls, crashes' \in Nat,
           UNCHANGED <<subscribed, present, used, lastId, billed, copy, counted>>
    PROVE  MeteringInvariant'
  <1>1. pc \in [Sessions -> PCs]
    BY DEF MeteringInvariant
  <1>2. pc'[s] = there /\ \A r \in Sessions \ {s} : pc'[r] = pc[r]
    BY <1>1 DEF Goto
  <1>3. pc' \in [Sessions -> PCs]
    BY <1>1 DEF Goto, PCs
  <1>4. lastId' \in Nat /\ lastId' <= Cardinality(Settled')
    <2>1. Fresh(s)' => Fresh(s)
      BY <1>2 DEF Fresh
    <2> QED
      BY <1>2, <2>1, OneSettles
  <1>5. \A r \in Sessions : /\ copy'[r].id <= lastId'
                            /\ copy'[r].id # 0 /\ pc'[r] # "counting" => present' # {}
                            /\ pc'[r] = "counting" => copy'[r].id # 0
    BY <1>2 DEF MeteringInvariant
  <1> QED
    BY <1>3, <1>4, <1>5 DEF MeteringInvariant

LEMMA RefreshKeepsInvariant ==
    ASSUME MeteringInvariant, raced' \subseteq Sessions,
           NEW b \in Refreshes, RefreshCount(b) \/ RefreshCommit(b)
    PROVE  MeteringInvariant'
  <1>1. b \in Sessions
    BY DEF Sessions
  <1>2. pc \in [Sessions -> PCs] /\ copy \in [Sessions -> [id : Nat, used : Nat]]
    BY DEF MeteringInvariant
  <1>3. /\ lastId \in Nat /\ present \subseteq 1..lastId /\ copy[b].id \in Nat
        /\ copy[b].id <= lastId
        /\ copy[b].id # 0 /\ pc[b] # "counting" => present # {}
        /\ pc[b] = "counting" => copy[b].id # 0
    BY <1>1, <1>2 DEF MeteringInvariant
  <1>4. CASE RefreshCount(b)
    <2>1. lastId' = IF copy[b].id = 0 THEN lastId + 1 ELSE lastId
      BY <1>4 DEF RefreshCount, Flush
    <2>2. /\ pc'[b] = "counting" /\ copy'[b].id = (IF copy[b].id = 0 THEN lastId' ELSE copy[b].id)
          /\ copy' \in [Sessions -> [id : Nat, used : Nat]]
          /\ \A r \in Sessions \ {b} : pc'[r] = pc[r] /\ copy'[r] = copy[r]
      BY <1>1, <1>2, <1>3, <1>4, <2>1 DEF RefreshCount, Goto
    <2>3. pc' \in [Sessions -> PCs]
      BY <1>2, <1>4 DEF RefreshCount, Goto, PCs
    <2>4. lastId' \in Nat /\ lastId' <= Cardinality(Settled')
      <3>1. ~ Fresh(b)'
        BY <2>2 DEF Fresh
      <3>2. copy[b].id = 0 => Fresh(b)
        BY <1>4 DEF Fresh, RefreshCount
      <3>3. present' = present
        BY <1>4 DEF RefreshCount
      <3> QED
        BY <1>1, <2>1, <2>2, <3>1, <3>2, <3>3, OneSettles
    <2>5. counted' \in [Refreshes -> Nat]
      <3>1. Cardinality(usageLog) \in Nat
        BY MeteringAssumption, FS_Subset, FS_CardinalityType DEF MeteringInvariant
      <3> QED
        BY <1>4, <3>1 DEF RefreshCount, MeteringInvariant
    <2>6. \A r \in Sessions : /\ copy'[r].id <= lastId'
                              /\ copy'[r].id # 0 /\ pc'[r] # "counting" => present' # {}
                              /\ pc'[r] = "counting" => copy'[r].id # 0
      <3> SUFFICES ASSUME NEW r \in Sessions
                   PROVE  /\ copy'[r].id <= lastId'
                          /\ copy'[r].id # 0 /\ pc'[r] # "counting" => present' # {}
                          /\ pc'[r] = "counting" => copy'[r].id # 0
        OBVIOUS
      <3>1. CASE r = b
        BY <1>3, <2>1, <2>2, <3>1
      <3>2. CASE r # b
        <4>1. /\ copy[r].id \in Nat /\ copy[r].id <= lastId
              /\ copy[r].id # 0 /\ pc[r] # "counting" => present # {}
              /\ pc[r] = "counting" => copy[r].id # 0
          BY <1>2 DEF MeteringInvariant
        <4>2. present' = present
          BY <1>4 DEF RefreshCount
        <4> QED
          BY <1>3, <2>1, <2>2, <3>2, <4>1, <4>2
      <3> QED
        BY <3>1, <3>2
    <2>7. present' \subseteq 1..lastId'
      BY <1>3, <1>4, <2>1 DEF RefreshCount
    <2> QED
      BY <1>4, <2>2, <2>3, <2>4, <2>5, <2>6, <2>7 DEF MeteringInvariant, RefreshCount
  <1>5. CASE RefreshCommit(b)
    <2>1. /\ pc'[b] = "done" /\ copy'[b] = NoCopy
          /\ copy' \in [Sessions -> [id : Nat, used : Nat]]
          /\ \A r \in Sessions \ {b} : pc'[r] = pc[r] /\ copy'[r] = copy[r]
      BY <1>1, <1>2, <1>5 DEF RefreshCommit, Goto, NoCopy
    <2>2. pc' \in [Sessions -> PCs]
      BY <1>2, <1>5 DEF RefreshCommit, Goto, PCs
    <2>3. present' = present \cup {copy[b].id} /\ lastId' = lastId
      BY <1>5 DEF RefreshCommit, CommitRow
    <2>4. copy[b].id \in 1..lastId
      BY <1>3, <1>5 DEF RefreshCommit
    <2>5. lastId' \in Nat /\ lastId' <= Cardinality(Settled')
      <3>1. ~ Fresh(b)'
        BY <2>1 DEF Fresh
      <3> QED
        BY <1>1, <2>1, <2>3, <3>1, OneSettles
    <2>6. used' \in [Ids -> Nat]
      <3>1. used \in [Ids -> Nat] /\ 1..lastId \subseteq Ids /\ counted \in [Refreshes -> Nat]
        BY IdsAreEnough DEF MeteringInvariant
      <3>2. used[copy[b].id] \in Nat /\ Refreshed(b) \in Nat
        BY <1>1, <1>2, <2>4, <3>1 DEF Refreshed
      <3> QED
        BY <1>5, <3>1, <3>2 DEF RefreshCommit, CommitRow
    <2>7. \A r \in Sessions : /\ copy'[r].id <= lastId'
                              /\ copy'[r].id # 0 /\ pc'[r] # "counting" => present' # {}
                              /\ pc'[r] = "counting" => copy'[r].id # 0
      BY <1>3, <2>1, <2>3 DEF MeteringInvariant, NoCopy
    <2> QED
      BY <1>3, <1>5, <2>1, <2>2, <2>3, <2>4, <2>5, <2>6, <2>7
      DEF MeteringInvariant, RefreshCommit
  <1> QED
    BY <1>4, <1>5

LEMMA InterruptKeepsInvariant ==
    ASSUME MeteringInvariant, raced' \subseteq Sessions, Interrupt
    PROVE  MeteringInvariant'
  <1>1. PICK gone \in (SUBSET Working) \ {{}} :
           /\ pc' = [s \in Sessions |-> IF s \in gone THEN "lost" ELSE pc[s]]
           /\ copy' = [s \in Sessions |-> IF s \in gone THEN NoCopy ELSE copy[s]]
    BY DEF Interrupt
  <1>2. UNCHANGED <<subscribed, present, used, lastId, usageLog, executed, billed, counted>>
    BY DEF Interrupt
  <1>3. \A s \in Sessions : \/ pc'[s] = "lost" /\ copy'[s] = NoCopy
                            \/ pc'[s] = pc[s] /\ copy'[s] = copy[s]
    BY <1>1
  <1>4. pc' \in [Sessions -> PCs] /\ copy' \in [Sessions -> [id : Nat, used : Nat]]
    BY <1>1 DEF MeteringInvariant, PCs, NoCopy
  <1>5. lastId' \in Nat /\ lastId' <= Cardinality(Settled')
    <2>1. \A s \in Sessions : Fresh(s)' => Fresh(s)
      BY <1>2, <1>3 DEF Fresh
    <2>2. Settled \subseteq Settled'
      BY <2>1 DEF Settled
    <2> QED
      BY <1>2, <2>2, SettledGrows DEF MeteringInvariant
  <1>6. \A s \in Sessions : /\ copy'[s].id <= lastId'
                            /\ copy'[s].id # 0 /\ pc'[s] # "counting" => present' # {}
                            /\ pc'[s] = "counting" => copy'[s].id # 0
    BY <1>2, <1>3, <1>5 DEF MeteringInvariant, NoCopy
  <1>7. crashes' \in Nat
    BY DEF Interrupt, MeteringInvariant
  <1> QED
    BY <1>2, <1>4, <1>5, <1>6, <1>7 DEF MeteringInvariant

LEMMA StepKeepsInvariant ==
    ASSUME MeteringInvariant, raced' \subseteq Sessions, Step
    PROVE  MeteringInvariant'
  <1>1. ASSUME NEW c \in Calls, CallProceeds(c) PROVE MeteringInvariant'
    <2>1. c \in Sessions
      BY DEF Sessions
    <2>2. /\ copy[c].id \in Nat /\ copy[c].used \in Nat
          /\ usageLog \subseteq Calls /\ executed \subseteq Calls /\ billed \subseteq Calls
          /\ crashes \in Nat
      BY <2>1 DEF MeteringInvariant
    <2>3. CASE CheckRead(c)
      BY <2>1, <2>3, ReadKeepsInvariant DEF CheckRead
    <2>4. CASE CheckCommit(c)
      <3>1. \/ \E n \in Nat : CommitRow(IF copy[c].id = 0 THEN lastId' ELSE copy[c].id, n)
            \/ copy[c].id # 0 /\ UNCHANGED <<present, used>>
        BY <2>4 DEF CheckCommit
      <3>2. PICK there \in {"admitted", "refused"} : Goto(c, there)
        BY <2>4 DEF CheckCommit
      <3> QED
        BY <2>2, <2>4, <3>1, <3>2, CommitKeepsInvariant DEF CheckCommit
    <2>5. CASE CheckLogs(c)
      <3>1. PICK there \in {"admitted", "refused"} : Goto(c, there)
        BY <2>5 DEF CheckLogs
      <3> QED
        BY <2>1, <2>2, <2>5, <3>1, MoveKeepsInvariant DEF CheckLogs
    <2>6. CASE Execute(c)
      BY <2>1, <2>2, <2>6, MoveKeepsInvariant DEF Execute
    <2>7. CASE LogUsage(c)
      <3>1. PICK there \in {"logged", "done"} : Goto(c, there)
        BY <2>7 DEF LogUsage
      <3> QED
        BY <2>1, <2>2, <2>7, <3>1, MoveKeepsInvariant DEF LogUsage
    <2>8. CASE RecordRead(c)
      BY <2>1, <2>8, ReadKeepsInvariant DEF RecordRead
    <2>9. CASE RecordCommit(c)
      <3>1. copy[c].used + 1 \in Nat
        BY <2>2
      <3> QED
        BY <2>2, <2>9, <3>1, CommitKeepsInvariant DEF RecordCommit
    <2>10. CASE CountFails(c)
      <3>1. PICK there \in {"admitted", "refused"} : Goto(c, there)
        BY <2>10 DEF CountFails
      <3> QED
        BY <2>1, <2>2, <2>10, <3>1, MoveKeepsInvariant DEF CountFails
    <2> QED
      BY <1>1, <2>3, <2>4, <2>5, <2>6, <2>7, <2>8, <2>9, <2>10 DEF CallProceeds
  <1>2. ASSUME NEW b \in Refreshes, RefreshProceeds(b) PROVE MeteringInvariant'
    <2>1. b \in Sessions
      BY DEF Sessions
    <2>2. CASE RefreshRead(b)
      BY <2>1, <2>2, ReadKeepsInvariant DEF RefreshRead
    <2>3. CASE RefreshCount(b) \/ RefreshCommit(b)
      BY <2>3, RefreshKeepsInvariant
    <2>4. CASE RefreshNothing(b)
      <3>1. usageLog \subseteq Calls /\ executed \subseteq Calls /\ crashes \in Nat
        BY DEF MeteringInvariant
      <3> QED
        BY <2>1, <2>4, <3>1, MoveKeepsInvariant DEF RefreshNothing
    <2> QED
      BY <1>2, <2>2, <2>3, <2>4 DEF RefreshProceeds
  <1>3. CASE UNCHANGED state
    <2>1. Settled' = Settled
      BY <1>3 DEF Settled, Fresh, state
    <2> QED
      BY <1>3, <2>1 DEF MeteringInvariant, state
  <1> QED
    BY <1>1, <1>2, <1>3, InterruptKeepsInvariant DEF Step, Quiet

LEMMA MeteringNext == MeteringInvariant /\ [Next]_vars => MeteringInvariant'
  <1>1. ASSUME MeteringInvariant, Next PROVE MeteringInvariant'
    <2>1. raced' \subseteq Sessions
      BY <1>1 DEF Next, NoteOverlap, MeteringInvariant, Working
    <2> QED
      BY <1>1, <2>1, StepKeepsInvariant DEF Next
  <1>2. ASSUME MeteringInvariant, UNCHANGED vars PROVE MeteringInvariant'
    <2>1. Settled' = Settled
      BY <1>2 DEF Settled, Fresh, vars, state
    <2> QED
      BY <1>2, <2>1 DEF MeteringInvariant, vars, state
  <1> QED
    BY <1>1, <1>2

LEMMA MeteringHolds == Spec => []MeteringInvariant
  BY MeteringInit, MeteringNext, PTL DEF Spec

\* The counter's rows, a session's copy of one and what a refresh has counted
\* stay what their types say; each session inserts one row at most, so the
\* ids never run out (_upsert_current_period_counters).
THEOREM TypeCorrect == Spec => []TypeOK
  <1>1. ASSUME MeteringInvariant PROVE TypeOK
    <2>1. 1..lastId \subseteq Ids /\ lastId \in Nat
      BY <1>1, IdsAreEnough DEF MeteringInvariant
    <2>2. copy \in [Sessions -> [id : Ids \cup {0}, used : Nat]]
      <3>1. \A s \in Sessions : copy[s].id \in Ids \cup {0}
        BY <1>1, <2>1 DEF MeteringInvariant
      <3>2. copy \in [Sessions -> [id : Nat, used : Nat]]
        BY <1>1 DEF MeteringInvariant
      <3>3. \A s \in Sessions : copy[s] \in [id : Ids \cup {0}, used : Nat]
        BY <3>1, <3>2
      <3> QED
        BY <3>2, <3>3
    <2> QED
      BY <1>1, <2>1, <2>2 DEF MeteringInvariant, TypeOK, PCs
  <1> QED
    BY <1>1, MeteringHolds, PTL
-----------------------------------------------------------------------------
(* What a subject is billed *)

Total == Cardinality(usageLog) + Cardinality(billed)

\* BilledTwiceAtMost is not inductive: a session writes what it copied, so
\* what is bounded is every value that may still be written, in rows not yet
\* committed too; and who has billed is done, so nobody bills twice.
BillingInvariant ==
    /\ \A i \in Ids : used[i] <= Total
    /\ \A s \in Sessions : copy[s].used <= Total
    /\ \A b \in Refreshes : counted[b] <= Cardinality(usageLog)
    /\ \A c \in billed : pc[c] = "done"

LEMMA CountsAreNumbers ==
    ASSUME NEW S \in SUBSET Calls
    PROVE  IsFiniteSet(S) /\ Cardinality(S) \in Nat
  <1>1. IsFiniteSet(S)
    BY MeteringAssumption, FS_Subset
  <1> QED
    BY <1>1, FS_CardinalityType

LEMMA BillingInit == Init => BillingInvariant
  <1> SUFFICES ASSUME Init PROVE BillingInvariant
    OBVIOUS
  <1>1. Total = 0 /\ Cardinality(usageLog) = 0
    BY FS_EmptySet DEF Init, Total
  <1> QED
    BY <1>1 DEF Init, BillingInvariant, NoCopy

\* A step that writes nothing above the total and does not lower it.
LEMMA TotalsKept ==
    ASSUME MeteringInvariant, MeteringInvariant', BillingInvariant,
           Total <= Total', Cardinality(usageLog) <= Cardinality(usageLog'),
           \A i \in Ids : used'[i] = used[i] \/ used'[i] <= Total',
           \A s \in Sessions : copy'[s].used = copy[s].used \/ copy'[s].used <= Total',
           \A b \in Refreshes : counted'[b] = counted[b] \/ counted'[b] <= Cardinality(usageLog'),
           \A c \in billed' : pc'[c] = "done"
    PROVE  BillingInvariant'
  <1>1. /\ Cardinality(usageLog) \in Nat /\ Cardinality(usageLog') \in Nat
        /\ Cardinality(billed) \in Nat /\ Cardinality(billed') \in Nat
    BY CountsAreNumbers DEF MeteringInvariant
  <1>2. Total \in Nat /\ Total' \in Nat
    BY <1>1 DEF Total
  <1>3. \A i \in Ids : used'[i] <= Total'
    <2>1. \A i \in Ids : used[i] \in Nat /\ used[i] <= Total
      BY DEF MeteringInvariant, BillingInvariant
    <2> QED
      BY <1>2, <2>1
  <1>4. \A s \in Sessions : copy'[s].used <= Total'
    <2>1. \A s \in Sessions : copy[s].used \in Nat /\ copy[s].used <= Total
      BY DEF MeteringInvariant, BillingInvariant
    <2> QED
      BY <1>2, <2>1
  <1>5. \A b \in Refreshes : counted'[b] <= Cardinality(usageLog')
    <2>1. \A b \in Refreshes : counted[b] \in Nat /\ counted[b] <= Cardinality(usageLog)
      BY DEF MeteringInvariant, BillingInvariant
    <2> QED
      BY <1>1, <2>1
  <1> QED
    BY <1>3, <1>4, <1>5 DEF BillingInvariant

LEMMA BillingStep ==
    ASSUME MeteringInvariant, MeteringInvariant', BillingInvariant, Step
    PROVE  BillingInvariant'
  <1>1. /\ IsFiniteSet(usageLog) /\ IsFiniteSet(billed)
        /\ Cardinality(usageLog) \in Nat /\ Cardinality(billed) \in Nat
    BY CountsAreNumbers DEF MeteringInvariant
  <1>2. Total \in Nat
    BY <1>1 DEF Total
  <1>3. /\ pc \in [Sessions -> PCs] /\ copy \in [Sessions -> [id : Nat, used : Nat]]
        /\ used \in [Ids -> Nat] /\ billed \subseteq Sessions
    BY DEF MeteringInvariant, Sessions
  <1>4. /\ \A c \in billed : pc[c] = "done"
        /\ \A s \in Sessions : copy[s].used \in Nat /\ copy[s].used <= Total
    BY <1>3 DEF BillingInvariant
  <1>5. ASSUME NEW s \in Sessions, NEW there, ReadCounter(s, there), pc[s] # "done"
        PROVE  BillingInvariant'
    <2>1. NewestCopy.used <= Total
      <3>1. CASE NewestCopy.id = 0
        BY <1>2, <3>1, NewestIs
      <3>2. CASE NewestCopy.id # 0
        BY <3>2, NewestIs DEF BillingInvariant
      <3> QED
        BY <3>1, <3>2
    <2>2. Total' = Total /\ UNCHANGED <<used, usageLog, billed, counted>>
      BY <1>5 DEF ReadCounter, Total
    <2>3. \A r \in Sessions : copy'[r].used = copy[r].used \/ copy'[r].used <= Total'
      BY <1>3, <1>5, <2>1, <2>2 DEF ReadCounter
    <2>4. \A c \in billed' : pc'[c] = "done"
      BY <1>3, <1>4, <1>5, <2>2 DEF ReadCounter, Goto
    <2> QED
      BY <1>1, <1>2, <2>2, <2>3, <2>4, TotalsKept
  <1>6. ASSUME NEW s \in Sessions, NEW there, Goto(s, there), pc[s] # "done",
               UNCHANGED <<used, copy, counted, billed>>,
               usageLog' = usageLog \/ \E c \in Calls : usageLog' = usageLog \cup {c}
        PROVE  BillingInvariant'
    <2>1. Cardinality(usageLog) <= Cardinality(usageLog') /\ Cardinality(usageLog') \in Nat
      <3>1. CASE usageLog' = usageLog
        BY <1>1, <3>1
      <3>2. ASSUME NEW c \in Calls, usageLog' = usageLog \cup {c}
            PROVE  /\ Cardinality(usageLog) <= Cardinality(usageLog')
                   /\ Cardinality(usageLog') \in Nat
        <4>1. Cardinality(usageLog') \in {Cardinality(usageLog), Cardinality(usageLog) + 1}
          BY <1>1, <3>2, FS_AddElement
        <4> QED
          BY <1>1, <4>1
      <3> QED
        BY <1>6, <3>1, <3>2
    <2>2. Total <= Total'
      BY <1>1, <1>6, <2>1 DEF Total
    <2>3. \A c \in billed' : pc'[c] = "done"
      BY <1>3, <1>4, <1>6 DEF Goto
    <2> QED
      BY <1>6, <2>1, <2>2, <2>3, TotalsKept
  <1>7. ASSUME NEW c \in Calls, CheckCommit(c) PROVE BillingInvariant'
    <2>1. Total' = Total /\ UNCHANGED <<usageLog, billed, counted>> /\ c \in Sessions
      BY <1>7 DEF CheckCommit, Total, Sessions
    <2>2. \A i \in Ids : used'[i] = used[i] \/ used'[i] <= Total'
      BY <1>2, <1>3, <1>7, <2>1 DEF CheckCommit, CommitRow
    <2>3. \A r \in Sessions : copy'[r].used = copy[r].used \/ copy'[r].used <= Total'
      BY <1>2, <1>3, <1>7, <2>1 DEF CheckCommit, NoCopy
    <2>4. \A a \in billed' : pc'[a] = "done"
      BY <1>3, <1>4, <1>7, <2>1 DEF CheckCommit, Goto
    <2> QED
      BY <1>1, <1>2, <2>1, <2>2, <2>3, <2>4, TotalsKept
  <1>8. ASSUME NEW c \in Calls, RecordCommit(c) PROVE BillingInvariant'
    <2>1. UNCHANGED <<usageLog, counted>> /\ billed' = billed \cup {c} /\ c \in Sessions
      BY <1>8 DEF RecordCommit, Sessions
    <2>2. Total' = Total + 1
      <3>1. c \notin billed
        BY <1>4, <1>8 DEF RecordCommit
      <3>2. Cardinality(billed') = Cardinality(billed) + 1
        BY <1>1, <2>1, <3>1, FS_AddElement
      <3> QED
        BY <1>1, <2>1, <3>2 DEF Total
    <2>3. \A i \in Ids : used'[i] = used[i] \/ used'[i] <= Total'
      <3>1. copy[c].used + 1 <= Total'
        BY <1>2, <1>4, <2>1, <2>2
      <3> QED
        BY <1>3, <1>8, <3>1 DEF RecordCommit, CommitRow
    <2>4. \A r \in Sessions : copy'[r].used = copy[r].used \/ copy'[r].used <= Total'
      BY <1>2, <1>3, <1>8, <2>2 DEF RecordCommit, NoCopy
    <2>5. \A a \in billed' : pc'[a] = "done"
      BY <1>3, <1>4, <1>8, <2>1 DEF RecordCommit, Goto
    <2> QED
      BY <1>1, <1>2, <2>1, <2>2, <2>3, <2>4, <2>5, TotalsKept
  <1>9. ASSUME NEW b \in Refreshes, RefreshCount(b) PROVE BillingInvariant'
    <2>1. Total' = Total /\ UNCHANGED <<used, usageLog, billed>> /\ b \in Sessions
      BY <1>9 DEF RefreshCount, Total, Sessions
    <2>2. \A r \in Sessions : copy'[r].used = copy[r].used
      BY <1>3, <1>9 DEF RefreshCount
    <2>3. \A a \in Refreshes : counted'[a] = counted[a] \/ counted'[a] <= Cardinality(usageLog')
      <3>1. counted \in [Refreshes -> Nat]
        BY DEF MeteringInvariant
      <3> QED
        BY <1>1, <1>9, <2>1, <3>1 DEF RefreshCount
    <2>4. \A a \in billed' : pc'[a] = "done"
      BY <1>3, <1>4, <1>9, <2>1 DEF RefreshCount, Goto
    <2> QED
      BY <1>1, <1>2, <2>1, <2>2, <2>3, <2>4, TotalsKept
  <1>10. ASSUME NEW b \in Refreshes, RefreshCommit(b) PROVE BillingInvariant'
    <2>1. Total' = Total /\ UNCHANGED <<usageLog, billed, counted>> /\ b \in Sessions
      BY <1>10 DEF RefreshCommit, Total, Sessions
    <2>2. Refreshed(b) <= Total
      <3>1. counted[b] \in Nat /\ counted[b] <= Cardinality(usageLog)
        BY DEF MeteringInvariant, BillingInvariant
      <3>2. copy[b].used \in Nat /\ copy[b].used <= Total
        BY <1>4, <2>1
      <3> QED
        BY <1>1, <3>1, <3>2 DEF Refreshed, Total
    <2>3. \A i \in Ids : used'[i] = used[i] \/ used'[i] <= Total'
      BY <1>3, <1>10, <2>1, <2>2 DEF RefreshCommit, CommitRow
    <2>4. \A r \in Sessions : copy'[r].used = copy[r].used \/ copy'[r].used <= Total'
      BY <1>2, <1>3, <1>10, <2>1 DEF RefreshCommit, NoCopy
    <2>5. \A a \in billed' : pc'[a] = "done"
      BY <1>3, <1>4, <1>10, <2>1 DEF RefreshCommit, Goto
    <2> QED
      BY <1>1, <1>2, <2>1, <2>3, <2>4, <2>5, TotalsKept
  <1>11. CASE Interrupt
    <2>1. PICK gone \in (SUBSET Working) \ {{}} :
             /\ pc' = [s \in Sessions |-> IF s \in gone THEN "lost" ELSE pc[s]]
             /\ copy' = [s \in Sessions |-> IF s \in gone THEN NoCopy ELSE copy[s]]
      BY <1>11 DEF Interrupt
    <2>2. Total' = Total /\ UNCHANGED <<used, usageLog, billed, counted>>
      BY <1>11 DEF Interrupt, Total
    <2>3. \A r \in Sessions : copy'[r].used = copy[r].used \/ copy'[r].used <= Total'
      BY <1>2, <2>1, <2>2 DEF NoCopy
    <2>4. \A a \in billed' : pc'[a] = "done"
      BY <1>3, <1>4, <2>1, <2>2 DEF Working
    <2> QED
      BY <1>1, <1>2, <2>2, <2>3, <2>4, TotalsKept
  <1>12. CASE Quiet
    BY <1>12 DEF Quiet, state, BillingInvariant, Total
  <1>13. ASSUME NEW c \in Calls, CallProceeds(c) PROVE BillingInvariant'
    <2>1. c \in Sessions
      BY DEF Sessions
    <2>2. CASE CheckRead(c) \/ RecordRead(c)
      BY <1>5, <2>1, <2>2 DEF CheckRead, RecordRead
    <2>3. CASE CheckLogs(c) \/ CountFails(c) \/ Execute(c) \/ LogUsage(c)
      BY <1>6, <2>1, <2>3 DEF CheckLogs, CountFails, Execute, LogUsage
    <2> QED
      BY <1>7, <1>8, <1>13, <2>2, <2>3 DEF CallProceeds
  <1>14. ASSUME NEW b \in Refreshes, RefreshProceeds(b) PROVE BillingInvariant'
    <2>1. b \in Sessions
      BY DEF Sessions
    <2>2. CASE RefreshRead(b)
      BY <1>5, <2>1, <2>2 DEF RefreshRead
    <2>3. CASE RefreshNothing(b)
      BY <1>6, <2>1, <2>3 DEF RefreshNothing
    <2> QED
      BY <1>9, <1>10, <1>14, <2>2, <2>3 DEF RefreshProceeds
  <1> QED
    BY <1>11, <1>12, <1>13, <1>14 DEF Step

LEMMA BillingNext ==
    MeteringInvariant /\ MeteringInvariant' /\ BillingInvariant /\ [Next]_vars => BillingInvariant'
  <1>1. ASSUME BillingInvariant, UNCHANGED vars PROVE BillingInvariant'
    BY <1>1 DEF vars, state, BillingInvariant, Total
  <1> QED
    BY <1>1, BillingStep DEF Next

\* However many calls and refreshes interleave and fail, no counter row holds
\* more than two units for a run: one for its log, one for its recording
\* (record_plan_usage, backfill_current_period_usage_counters).
THEOREM RunsAreBilledTwiceAtMost == Spec => []BilledTwiceAtMost
  <1>1. ASSUME MeteringInvariant, BillingInvariant PROVE BilledTwiceAtMost
    <2>1. present \subseteq Ids
      BY <1>1, IdsAreEnough DEF MeteringInvariant
    <2> QED
      BY <1>1, <2>1 DEF BillingInvariant, BilledTwiceAtMost, Total
  <1> QED
    BY <1>1, BillingInit, BillingNext, MeteringHolds, PTL DEF Spec
-----------------------------------------------------------------------------
(* One session at a time *)

\* What the checks compare with the plan.
Value == IF subscribed THEN NewestCopy.used ELSE Cardinality(usageLog)

\* The counter has at most one row, and no row exists without a profile.
OneRow ==
    /\ \A i, k \in present : i = k
    /\ \A i \in Ids \ present : used[i] = 0
    /\ ~subscribed => present = {}

\* A session's copy is still the row when it writes; its count of the logs is
\* still theirs.
Current(s) ==
    /\ pc[s] \in {"checking", "recording", "refreshing"} => copy[s] = NewestCopy
    /\ pc[s] = "counting" => /\ present # {} => copy[s].id = NewestCopy.id
                             /\ copy[s].used = NewestCopy.used
                             /\ counted[s] = Cardinality(usageLog)
    /\ pc[s] \in {"checking", "logged", "recording", "refreshing", "counting"} => subscribed
    /\ pc[s] = "admitted" => Cardinality(executed) < Limit + crashes
    /\ pc[s] \in {"logged", "recording"} => Value < Cardinality(usageLog)

Trailed ==
    /\ usageLog \subseteq executed
    /\ \A c \in Calls : pc[c] = "executed" => c \in executed
    /\ \A c \in executed : pc[c] \notin {"idle", "checking", "admitted", "refused"}
    /\ \A c \in usageLog : pc[c] # "executed"

\* The counter lags behind the runs by one that is still to be recorded and
\* by one for each failure.
Counts ==
    /\ Value <= Cardinality(usageLog)
    /\ Cardinality(executed) <= Limit + crashes
    /\ \/ Cardinality(executed) <= Value + crashes
       \/ /\ Cardinality(executed) <= Value + crashes + 1
          /\ \E c \in Calls : pc[c] \in {"executed", "logged", "recording"}
    /\ crashes = 0 => \A c \in Calls : pc[c] = "refused" => Cardinality(executed) >= Limit

OneAtATime ==
    /\ \A s, t \in Working : s = t
    /\ OneRow
    /\ Trailed
    /\ \A s \in Sessions : Current(s)
    /\ Counts

SequentialInvariant == ~overlapped => OneAtATime

Resting == {"idle", "refused", "done", "lost"}

LEMMA NewestOfOne ==
    MeteringInvariant /\ OneRow =>
       /\ present = {} => NewestCopy = NoCopy
       /\ \A i \in present : present = {i} /\ NewestCopy = [id |-> i, used |-> used[i]]
  <1> SUFFICES ASSUME MeteringInvariant, OneRow
               PROVE  /\ present = {} => NewestCopy = NoCopy
                      /\ \A i \in present : /\ present = {i}
                                            /\ NewestCopy = [id |-> i, used |-> used[i]]
    OBVIOUS
  <1>1. ASSUME NEW i \in present
        PROVE  present = {i} /\ NewestCopy = [id |-> i, used |-> used[i]]
    <2>1. present = {i}
      BY <1>1 DEF OneRow
    <2>2. i \in Nat
      <3>1. present \subseteq 1..lastId /\ lastId \in Nat
        BY DEF MeteringInvariant
      <3> QED
        BY <1>1, <3>1
    <2>3. (CHOOSE x \in present : \A k \in present : k <= x) = i
      BY <2>1, <2>2
    <2> QED
      BY <2>1, <2>3 DEF NewestCopy
  <1> QED
    BY <1>1 DEF NewestCopy

LEMMA NewestOfOneNext ==
    MeteringInvariant' /\ OneRow' =>
       /\ present' = {} => NewestCopy' = NoCopy
       /\ \A i \in present' : present' = {i} /\ NewestCopy' = [id |-> i, used |-> used'[i]]
  <1>1. (MeteringInvariant /\ OneRow =>
            /\ present = {} => NewestCopy = NoCopy
            /\ \A i \in present : present = {i} /\ NewestCopy = [id |-> i, used |-> used[i]])'
    BY NewestOfOne, PTL
  <1> QED
    BY <1>1 DEF NoCopy

\* The commit of the one row.
LEMMA CommitsOneRow ==
    ASSUME MeteringInvariant, MeteringInvariant', OneRow, subscribed, subscribed',
           NEW i \in Ids, NEW n, CommitRow(i, n),
           present # {} => i = NewestCopy.id
    PROVE  OneRow' /\ present' = {i} /\ used'[i] = n /\ Value' = n
  <1>1. present' = {i} /\ used' = [used EXCEPT ![i] = n] /\ used \in [Ids -> Nat]
    <2>1. present = {} \/ present = {i}
      BY NewestOfOne
    <2> QED
      BY <2>1 DEF CommitRow, MeteringInvariant
  <1>2. OneRow'
    BY <1>1, NewestOfOne DEF OneRow
  <1>3. NewestCopy' = [id |-> i, used |-> n]
    BY <1>1, <1>2, NewestOfOneNext
  <1> QED
    BY <1>1, <1>2, <1>3 DEF Value

\* While one session works the others rest, before its step and after it.
LEMMA Alone ==
    ASSUME MeteringInvariant, OneAtATime, \A p, q \in Working' : p = q,
           NEW s \in Sessions, NEW there, Goto(s, there), s \in Working \cup Working'
    PROVE  /\ pc'[s] = there
           /\ \A r \in Sessions \ {s} : pc'[r] = pc[r] /\ pc[r] \in Resting /\ Current(r)'
  <1>1. pc \in [Sessions -> PCs] /\ pc' = [pc EXCEPT ![s] = there]
    BY DEF MeteringInvariant, Goto
  <1>2. ASSUME NEW r \in Sessions \ {s}
        PROVE  pc'[r] = pc[r] /\ pc[r] \in Resting
    <2>1. pc'[r] = pc[r]
      BY <1>1
    <2>2. r \in Working <=> r \in Working'
      BY <2>1 DEF Working
    <2>3. r \notin Working
      BY <1>2, <2>2 DEF OneAtATime
    <2> QED
      BY <2>1, <2>3 DEF Working, Resting
  <1>3. \A r \in Sessions : pc'[r] \in Resting => Current(r)'
    BY DEF Current, Resting
  <1> QED
    BY <1>1, <1>2, <1>3

LEMMA OneWorks ==
    ASSUME NEW S \in SUBSET Sessions, Cardinality(S) <= 1
    PROVE  \A s, t \in S : s = t
  <1> SUFFICES ASSUME NEW s \in S, NEW t \in S, s # t PROVE FALSE
    OBVIOUS
  <1>1. IsFiniteSet(S) /\ Cardinality(S) \in Nat
    BY SessionsAreFinite, FS_Subset, FS_CardinalityType
  <1>2. IsFiniteSet({s}) /\ Cardinality({s}) = 1
    BY FS_Singleton
  <1>3. Cardinality({s} \cup {t}) = 2
    BY <1>2, FS_AddElement
  <1>4. {s} \cup {t} \in SUBSET S
    OBVIOUS
  <1> QED
    BY <1>1, <1>3, <1>4, FS_Subset

\* The lag that is due to s, when all others rest.
LEMMA Lag ==
    ASSUME MeteringInvariant, OneAtATime, NEW s \in Sessions,
           \A r \in Sessions \ {s} : pc[r] \in Resting
    PROVE  /\ Value \in Nat /\ Value <= Cardinality(usageLog)
           /\ Cardinality(usageLog) \in Nat /\ Cardinality(executed) \in Nat
           /\ Cardinality(usageLog) <= Cardinality(executed)
           /\ Cardinality(executed) <= Limit + crashes
           /\ Cardinality(executed) <= Value + crashes + 1
           /\ pc[s] \notin {"executed", "logged", "recording"} =>
                 Cardinality(executed) <= Value + crashes
  <1>1. usageLog \in SUBSET Calls /\ executed \in SUBSET Calls
    BY DEF MeteringInvariant
  <1>2. /\ Cardinality(usageLog) \in Nat /\ Cardinality(executed) \in Nat
        /\ IsFiniteSet(executed) /\ crashes \in Nat /\ subscribed \in BOOLEAN
    BY <1>1, CountsAreNumbers DEF MeteringInvariant
  <1>3. Cardinality(usageLog) <= Cardinality(executed)
    <2>1. usageLog \in SUBSET executed
      BY DEF OneAtATime, Trailed
    <2> QED
      BY <1>2, <2>1, FS_Subset
  <1>4. Value \in Nat
    BY <1>2, NewestIs DEF Value
  <1>5. (\E c \in Calls : pc[c] \in {"executed", "logged", "recording"})
           => pc[s] \in {"executed", "logged", "recording"}
    BY DEF Resting, Sessions
  <1> QED
    BY <1>2, <1>3, <1>4, <1>5 DEF OneAtATime, Counts

\* What is left to show of a step of s while the others rest.
LEMMA StepAlone ==
    ASSUME MeteringInvariant, OneAtATime, \A p, q \in Working' : p = q,
           NEW s \in Sessions, NEW there, Goto(s, there), s \in Working \cup Working',
           OneRow', Trailed', Current(s)', Counts'
    PROVE  OneAtATime'
  <1>1. \A r \in Sessions \ {s} : Current(r)'
    BY Alone
  <1> QED
    BY <1>1 DEF OneAtATime

LEMMA AloneRead ==
    ASSUME MeteringInvariant, OneAtATime, \A p, q \in Working' : p = q,
           NEW s \in Sessions,
           \/ subscribed /\ pc[s] = "idle" /\ ReadCounter(s, "checking")
           \/ subscribed /\ pc[s] = "idle" /\ ReadCounter(s, "refreshing")
           \/ s \in Calls /\ pc[s] = "logged" /\ ReadCounter(s, "recording")
    PROVE  OneAtATime'
  <1>1. PICK there \in {"checking", "refreshing", "recording"} : ReadCounter(s, there)
    OBVIOUS
  <1>2. /\ Goto(s, there) /\ copy' = [copy EXCEPT ![s] = NewestCopy]
        /\ UNCHANGED <<subscribed, present, used, usageLog, executed, crashes>>
    BY <1>1 DEF ReadCounter
  <1>3. pc \in [Sessions -> PCs] /\ copy \in [Sessions -> [id : Nat, used : Nat]]
    BY DEF MeteringInvariant
  <1>4. s \in Working'
    BY <1>2, <1>3 DEF Goto, Working
  <1>5. /\ pc'[s] = there /\ copy'[s] = NewestCopy
        /\ \A r \in Sessions \ {s} : pc'[r] = pc[r] /\ pc[r] \in Resting
    BY <1>2, <1>3, <1>4, Alone
  <1>6. NewestCopy' = NewestCopy /\ Value' = Value
    BY <1>2 DEF NewestCopy, Value
  <1>7. OneRow'
    BY <1>2 DEF OneAtATime, OneRow
  <1>8. Current(s)
    BY DEF OneAtATime
  <1>9. \/ there = "checking" /\ pc[s] = "idle" /\ subscribed
        \/ there = "refreshing" /\ pc[s] = "idle" /\ subscribed
        \/ there = "recording" /\ pc[s] = "logged" /\ s \in Calls
    BY <1>3, <1>5 DEF ReadCounter, Goto
  <1>10. Current(s)'
    BY <1>2, <1>5, <1>6, <1>8, <1>9 DEF Current
  <1>11. Trailed'
    BY <1>2, <1>5, <1>9 DEF OneAtATime, Trailed, MeteringInvariant, Sessions
  <1>12. Counts'
    <2>1. \A c \in Calls : pc'[c] = "refused" => pc[c] = "refused"
      BY <1>5 DEF Sessions
    <2>2. \/ Cardinality(executed) <= Value + crashes
          \/ pc[s] \in {"executed", "logged", "recording"}
      BY <1>5, Lag
    <2>3. Cardinality(executed) <= Value + crashes + 1
      BY <1>5, Lag
    <2>4. pc[s] \in {"executed", "logged", "recording"} => pc'[s] = "recording" /\ s \in Calls
      BY <1>5, <1>9
    <2> QED
      BY <1>2, <1>6, <2>1, <2>2, <2>3, <2>4 DEF OneAtATime, Counts
  <1> QED
    BY <1>2, <1>4, <1>7, <1>10, <1>11, <1>12, StepAlone

LEMMA NextIds == MeteringInvariant' => 1..lastId' \subseteq Ids
  <1>1. (lastId \in Nat /\ lastId <= Cardinality(Settled) => 1..lastId \subseteq Ids)'
    BY IdsAreEnough, PTL
  <1> QED
    BY <1>1 DEF MeteringInvariant, Ids

LEMMA AloneCheckCommit ==
    ASSUME MeteringInvariant, MeteringInvariant', OneAtATime, \A p, q \in Working' : p = q,
           NEW c \in Calls, CheckCommit(c)
    PROVE  OneAtATime'
  <1>1. c \in Sessions /\ c \in Working /\ pc[c] = "checking"
    BY DEF Sessions, Working, CheckCommit
  <1>2. PICK there \in {"admitted", "refused"} :
           Goto(c, there) /\ there = IF HasRoom(copy[c].used) THEN "admitted" ELSE "refused"
    BY DEF CheckCommit
  <1>3. UNCHANGED <<subscribed, usageLog, executed, crashes>>
    BY DEF CheckCommit
  <1>4. /\ pc'[c] = there
        /\ \A r \in Sessions \ {c} : pc'[r] = pc[r] /\ pc[r] \in Resting
    BY <1>1, <1>2, Alone
  <1>5. Current(c) /\ subscribed /\ copy[c] = NewestCopy /\ OneRow
    BY <1>1 DEF OneAtATime, Current
  <1>6. OneRow' /\ Value' = Value
    <2>1. CASE copy[c].id = 0
      <3>1. CommitRow(lastId', 0) /\ lastId' = lastId + 1
        BY <2>1 DEF CheckCommit, Flush
      <3>2. present = {} /\ Value = 0
        BY <1>5, <2>1, NewestIs DEF Value
      <3>3. lastId' \in Ids
        BY <3>1, NextIds DEF MeteringInvariant
      <3> QED
        BY <1>3, <1>5, <3>1, <3>2, <3>3, CommitsOneRow
    <2>2. CASE copy[c].id # 0
      BY <1>3, <1>5, <2>2 DEF CheckCommit, OneRow, Value, NewestCopy
    <2> QED
      BY <2>1, <2>2
  <1>7. Value = copy[c].used
    BY <1>5 DEF Value
  <1>8. Current(c)'
    <2>1. /\ Value \in Nat /\ Cardinality(executed) \in Nat
          /\ Cardinality(executed) <= Value + crashes /\ crashes \in Nat
      BY <1>1, <1>4, Lag DEF MeteringInvariant
    <2>2. there = "admitted" => Cardinality(executed) < Limit + crashes
      BY <1>2, <1>7, <2>1, MeteringAssumption DEF HasRoom
    <2> QED
      BY <1>2, <1>3, <1>4, <2>2 DEF Current
  <1>9. Trailed'
    BY <1>1, <1>3, <1>4 DEF OneAtATime, Trailed, MeteringInvariant, Sessions
  <1>10. Counts'
    <2>1. /\ Value \in Nat /\ Value <= Cardinality(usageLog)
          /\ Cardinality(usageLog) \in Nat /\ Cardinality(executed) \in Nat
          /\ Cardinality(usageLog) <= Cardinality(executed)
          /\ Cardinality(executed) <= Limit + crashes
          /\ Cardinality(executed) <= Value + crashes
      BY <1>1, <1>4, Lag
    <2>2. pc'[c] = "refused" => Cardinality(executed) >= Limit
      BY <1>2, <1>4, <1>7, <2>1, MeteringAssumption DEF HasRoom
    <2>3. \A r \in Calls : pc'[r] = "refused" => pc[r] = "refused" \/ r = c
      BY <1>4 DEF Sessions
    <2> QED
      BY <1>3, <1>6, <2>1, <2>2, <2>3 DEF OneAtATime, Counts
  <1> QED
    BY <1>1, <1>2, <1>6, <1>8, <1>9, <1>10, StepAlone

\* A decision that leaves its session resting may come while another works.
LEMMA RestsAtOnce ==
    ASSUME MeteringInvariant, OneAtATime, NEW s \in Sessions, pc[s] = "idle",
           NEW there \in {"refused", "done"}, Goto(s, there),
           there = "refused" => Cardinality(executed) >= Limit,
           UNCHANGED <<subscribed, present, used, usageLog, executed, copy, counted, crashes>>
    PROVE  OneAtATime'
  <1>1. pc \in [Sessions -> PCs]
    BY DEF MeteringInvariant
  <1>2. pc'[s] = there /\ \A r \in Sessions \ {s} : pc'[r] = pc[r]
    BY <1>1 DEF Goto
  <1>3. NewestCopy' = NewestCopy /\ Value' = Value
    BY DEF NewestCopy, Value
  <1>4. \A p \in Working' : p \in Working
    BY <1>2 DEF Working
  <1>5. ASSUME NEW r \in Sessions PROVE Current(r)'
    <2>1. CASE r = s
      BY <1>2, <2>1 DEF Current
    <2>2. CASE r # s
      BY <1>2, <1>3, <2>2 DEF OneAtATime, Current
    <2> QED
      BY <2>1, <2>2
  <1>6. Trailed'
    BY <1>2 DEF OneAtATime, Trailed, MeteringInvariant, Sessions
  <1>7. Counts'
    <2>1. \A c \in Calls : pc[c] \in {"executed", "logged", "recording"} => pc'[c] = pc[c]
      BY <1>2 DEF Sessions
    <2>2. \A c \in Calls : pc'[c] = "refused" => pc[c] = "refused" \/ there = "refused"
      BY <1>2 DEF Sessions
    <2> QED
      BY <1>3, <2>1, <2>2 DEF OneAtATime, Counts
  <1> QED
    BY <1>4, <1>5, <1>6, <1>7 DEF OneAtATime, OneRow

LEMMA AloneCheckLogs ==
    ASSUME MeteringInvariant, OneAtATime, \A p, q \in Working' : p = q,
           NEW c \in Calls, CheckLogs(c)
    PROVE  OneAtATime'
  <1>1. /\ c \in Sessions /\ pc[c] = "idle"
        /\ UNCHANGED <<subscribed, present, used, usageLog, executed, copy, counted, crashes>>
    BY DEF Sessions, CheckLogs
  <1>2. Value = Cardinality(usageLog) /\ ~subscribed
    BY DEF CheckLogs, Value
  <1>3. /\ Cardinality(usageLog) \in Nat /\ Cardinality(executed) \in Nat
        /\ Cardinality(usageLog) <= Cardinality(executed)
    <2>1. usageLog \in SUBSET executed /\ executed \in SUBSET Calls /\ usageLog \in SUBSET Calls
      BY DEF OneAtATime, Trailed, MeteringInvariant
    <2>2. IsFiniteSet(executed)
      BY <2>1, CountsAreNumbers
    <2> QED
      BY <2>1, <2>2, CountsAreNumbers, FS_Subset
  <1>4. CASE HasRoom(Cardinality(usageLog))
    <2>1. Goto(c, "admitted")
      BY <1>4 DEF CheckLogs
    <2>2. c \in Working'
      BY <1>1, <2>1 DEF Goto, Working, MeteringInvariant
    <2>3. /\ pc'[c] = "admitted"
          /\ \A r \in Sessions \ {c} : pc'[r] = pc[r] /\ pc[r] \in Resting
      BY <1>1, <2>1, <2>2, Alone
    <2>4. NewestCopy' = NewestCopy /\ Value' = Value
      BY <1>1 DEF NewestCopy, Value
    <2>5. Current(c)'
      <3>1. /\ Value \in Nat /\ Cardinality(executed) <= Value + crashes /\ crashes \in Nat
        BY <1>1, <2>3, Lag DEF MeteringInvariant
      <3>2. Cardinality(executed) < Limit + crashes
        BY <1>2, <1>3, <1>4, <3>1, MeteringAssumption DEF HasRoom
      <3> QED
        BY <1>1, <2>3, <3>2 DEF Current
    <2>6. Trailed'
      BY <1>1, <2>3 DEF OneAtATime, Trailed, MeteringInvariant, Sessions
    <2>7. Counts'
      <3>1. Cardinality(executed) <= Value + crashes
        BY <1>1, <2>3, Lag
      <3>2. \A r \in Calls : pc'[r] = "refused" => pc[r] = "refused"
        BY <2>3 DEF Sessions
      <3> QED
        BY <1>1, <2>4, <3>1, <3>2 DEF OneAtATime, Counts
    <2>8. OneRow'
      BY <1>1 DEF OneAtATime, OneRow
    <2> QED
      BY <1>1, <2>1, <2>2, <2>5, <2>6, <2>7, <2>8, StepAlone
  <1>5. CASE ~HasRoom(Cardinality(usageLog))
    <2>1. Goto(c, "refused")
      BY <1>5 DEF CheckLogs
    <2>2. Cardinality(executed) >= Limit
      BY <1>3, <1>5, MeteringAssumption DEF HasRoom
    <2> QED
      BY <1>1, <2>1, <2>2, RestsAtOnce
  <1> QED
    BY <1>4, <1>5

LEMMA AloneCountFails ==
    ASSUME MeteringInvariant, OneAtATime, \A p, q \in Working' : p = q,
           NEW c \in Calls, CountFails(c)
    PROVE  OneAtATime'
  <1>1. /\ c \in Sessions /\ pc[c] = "idle" /\ crashes' = crashes + 1 /\ Goto(c, "admitted")
        /\ UNCHANGED <<subscribed, present, used, usageLog, executed, copy, counted>>
    BY MeteringAssumption DEF Sessions, CountFails, HasRoom
  <1>2. c \in Working'
    BY <1>1 DEF Goto, Working, MeteringInvariant
  <1>3. /\ pc'[c] = "admitted"
        /\ \A r \in Sessions \ {c} : pc'[r] = pc[r] /\ pc[r] \in Resting
    BY <1>1, <1>2, Alone
  <1>4. NewestCopy' = NewestCopy /\ Value' = Value
    BY <1>1 DEF NewestCopy, Value
  <1>5. /\ Value \in Nat /\ Cardinality(executed) \in Nat /\ crashes \in Nat /\ Limit \in Nat
        /\ Cardinality(executed) <= Value + crashes /\ Cardinality(executed) <= Limit + crashes
    BY <1>1, <1>3, Lag, MeteringAssumption DEF MeteringInvariant
  <1>6. Current(c)'
    <2>1. Cardinality(executed) < Limit + crashes'
      BY <1>1, <1>5
    <2> QED
      BY <1>1, <1>3, <2>1 DEF Current
  <1>7. Trailed'
    BY <1>1, <1>3 DEF OneAtATime, Trailed, MeteringInvariant, Sessions
  <1>8. Counts'
    <2>1. /\ Cardinality(executed) <= Value + crashes'
          /\ Cardinality(executed) <= Limit + crashes' /\ crashes' # 0
      BY <1>1, <1>5
    <2> QED
      BY <1>1, <1>4, <2>1 DEF OneAtATime, Counts
  <1>9. OneRow'
    BY <1>1 DEF OneAtATime, OneRow
  <1> QED
    BY <1>1, <1>2, <1>6, <1>7, <1>8, <1>9, StepAlone

LEMMA AloneExecute ==
    ASSUME MeteringInvariant, OneAtATime, \A p, q \in Working' : p = q,
           NEW c \in Calls, Execute(c)
    PROVE  OneAtATime'
  <1>1. /\ c \in Sessions /\ c \in Working /\ pc[c] = "admitted" /\ Goto(c, "executed")
        /\ executed' = executed \cup {c}
        /\ UNCHANGED <<subscribed, present, used, usageLog, crashes>>
    BY DEF Sessions, Working, Execute
  <1>2. /\ pc'[c] = "executed"
        /\ \A r \in Sessions \ {c} : pc'[r] = pc[r] /\ pc[r] \in Resting
    BY <1>1, Alone
  <1>3. NewestCopy' = NewestCopy /\ Value' = Value
    BY <1>1 DEF NewestCopy, Value
  <1>4. Cardinality(executed) < Limit + crashes /\ c \notin executed
    BY <1>1 DEF OneAtATime, Current, Trailed
  <1>5. Current(c)'
    BY <1>2 DEF Current
  <1>6. Trailed'
    BY <1>1, <1>2, <1>4 DEF OneAtATime, Trailed, MeteringInvariant, Sessions
  <1>7. Counts'
    <2>1. /\ Value \in Nat /\ Value <= Cardinality(usageLog)
          /\ Cardinality(executed) <= Value + crashes
          /\ crashes \in Nat /\ Limit \in Nat /\ Cardinality(executed) \in Nat
      BY <1>1, <1>2, Lag, MeteringAssumption DEF MeteringInvariant
    <2>2. Cardinality(executed') = Cardinality(executed) + 1
      <3>1. IsFiniteSet(executed)
        BY CountsAreNumbers DEF MeteringInvariant
      <3> QED
        BY <1>1, <1>4, <3>1, FS_AddElement
    <2>3. \A r \in Calls : pc'[r] = "refused" => pc[r] = "refused"
      BY <1>2 DEF Sessions
    <2>4. crashes = 0 => \A r \in Calls : pc'[r] = "refused" => Cardinality(executed') >= Limit
      BY <2>1, <2>2, <2>3 DEF OneAtATime, Counts
    <2>5. /\ Cardinality(executed') <= Limit + crashes
          /\ Cardinality(executed') <= Value + crashes + 1
      BY <1>4, <2>1, <2>2
    <2> QED
      BY <1>1, <1>2, <1>3, <2>1, <2>4, <2>5 DEF Counts
  <1>8. OneRow'
    BY <1>1 DEF OneAtATime, OneRow
  <1> QED
    BY <1>1, <1>5, <1>6, <1>7, <1>8, StepAlone

LEMMA AloneLogUsage ==
    ASSUME MeteringInvariant, OneAtATime, \A p, q \in Working' : p = q,
           NEW c \in Calls, LogUsage(c)
    PROVE  OneAtATime'
  <1>1. PICK there : Goto(c, there) /\ there = IF subscribed THEN "logged" ELSE "done"
    BY DEF LogUsage
  <1>2. /\ c \in Sessions /\ c \in Working /\ pc[c] = "executed"
        /\ usageLog' = usageLog \cup {c}
        /\ UNCHANGED <<subscribed, present, used, executed, crashes>>
    BY DEF Sessions, Working, LogUsage
  <1>3. /\ pc'[c] = there
        /\ \A r \in Sessions \ {c} : pc'[r] = pc[r] /\ pc[r] \in Resting
    BY <1>1, <1>2, Alone
  <1>4. c \in executed /\ c \notin usageLog
    BY <1>2 DEF OneAtATime, Trailed
  <1>5. Cardinality(usageLog') = Cardinality(usageLog) + 1
    <2>1. IsFiniteSet(usageLog)
      BY CountsAreNumbers DEF MeteringInvariant
    <2> QED
      BY <1>2, <1>4, <2>1, FS_AddElement
  <1>6. NewestCopy' = NewestCopy
    BY <1>2 DEF NewestCopy
  <1>7. Value' = IF subscribed THEN Value ELSE Value + 1
    BY <1>2, <1>5, <1>6 DEF Value
  <1>8. /\ Value \in Nat /\ Value <= Cardinality(usageLog) /\ Cardinality(usageLog) \in Nat
        /\ Cardinality(executed) <= Value + crashes + 1
        /\ Cardinality(executed) <= Limit + crashes
        /\ crashes \in Nat /\ Cardinality(executed) \in Nat
    BY <1>2, <1>3, Lag DEF MeteringInvariant
  <1>9. Current(c)'
    BY <1>1, <1>2, <1>3, <1>5, <1>7, <1>8 DEF Current
  <1>10. Trailed'
    <2>1. there \in {"logged", "done"}
      BY <1>1
    <2> QED
      BY <1>2, <1>3, <1>4, <2>1 DEF OneAtATime, Trailed, MeteringInvariant, Sessions
  <1>11. Counts'
    <2>1. \A r \in Calls : pc'[r] = "refused" => pc[r] = "refused"
      BY <1>1, <1>3 DEF Sessions
    <2>2. crashes = 0 => \A r \in Calls : pc'[r] = "refused" => Cardinality(executed) >= Limit
      BY <2>1 DEF OneAtATime, Counts
    <2>3. CASE subscribed
      BY <1>1, <1>2, <1>3, <1>5, <1>7, <1>8, <2>2, <2>3 DEF Counts
    <2>4. CASE ~subscribed
      BY <1>2, <1>5, <1>7, <1>8, <2>2, <2>4 DEF Counts
    <2> QED
      BY <2>3, <2>4
  <1>12. OneRow'
    BY <1>2 DEF OneAtATime, OneRow
  <1> QED
    BY <1>1, <1>2, <1>9, <1>10, <1>11, <1>12, StepAlone

LEMMA AloneRecordCommit ==
    ASSUME MeteringInvariant, MeteringInvariant', OneAtATime, \A p, q \in Working' : p = q,
           NEW c \in Calls, RecordCommit(c)
    PROVE  OneAtATime'
  <1>1. /\ c \in Sessions /\ c \in Working /\ pc[c] = "recording" /\ Goto(c, "done")
        /\ UNCHANGED <<subscribed, usageLog, executed, crashes>>
    BY DEF Sessions, Working, RecordCommit
  <1>2. /\ pc'[c] = "done"
        /\ \A r \in Sessions \ {c} : pc'[r] = pc[r] /\ pc[r] \in Resting
    BY <1>1, Alone
  <1>3. /\ subscribed /\ copy[c] = NewestCopy /\ OneRow
        /\ Value < Cardinality(usageLog) /\ Value = copy[c].used
    BY <1>1 DEF OneAtATime, Current, Value
  <1>4. OneRow' /\ Value' = Value + 1
    <2> DEFINE row == IF copy[c].id = 0 THEN lastId' ELSE copy[c].id
    <2>1. CommitRow(row, copy[c].used + 1)
      BY DEF RecordCommit
    <2>2. row \in Ids
      <3>1. CASE copy[c].id = 0
        <4>1. lastId' = lastId + 1 /\ lastId \in Nat
          BY <3>1 DEF RecordCommit, Flush, MeteringInvariant
        <4> QED
          BY <3>1, <4>1, NextIds
      <3>2. CASE copy[c].id # 0
        BY <1>3, <3>2, NewestIs
      <3> QED
        BY <3>1, <3>2
    <2>3. present # {} => row = NewestCopy.id
      BY <1>3, NewestIs
    <2> HIDE DEF row
    <2> QED
      BY <1>1, <1>3, <2>1, <2>2, <2>3, CommitsOneRow
  <1>5. Current(c)'
    BY <1>2 DEF Current
  <1>6. Trailed'
    BY <1>1, <1>2 DEF OneAtATime, Trailed, MeteringInvariant, Sessions
  <1>7. Counts'
    <2>1. /\ Value \in Nat /\ Cardinality(usageLog) \in Nat
          /\ Cardinality(executed) <= Value + crashes + 1
          /\ Cardinality(executed) <= Limit + crashes
          /\ crashes \in Nat /\ Cardinality(executed) \in Nat
      BY <1>1, <1>2, Lag DEF MeteringInvariant
    <2>2. \A r \in Calls : pc'[r] = "refused" => pc[r] = "refused"
      BY <1>2 DEF Sessions
    <2>3. crashes = 0 => \A r \in Calls : pc'[r] = "refused" => Cardinality(executed) >= Limit
      BY <2>2 DEF OneAtATime, Counts
    <2>4. Value + 1 <= Cardinality(usageLog) /\ Cardinality(executed) <= (Value + 1) + crashes
      BY <1>3, <2>1
    <2> QED
      BY <1>1, <1>4, <2>1, <2>3, <2>4 DEF Counts
  <1> QED
    BY <1>1, <1>4, <1>5, <1>6, <1>7, StepAlone

LEMMA AloneRefreshCount ==
    ASSUME MeteringInvariant, OneAtATime, \A p, q \in Working' : p = q,
           NEW b \in Refreshes, RefreshCount(b)
    PROVE  OneAtATime'
  <1>1. /\ b \in Sessions /\ b \in Working /\ pc[b] = "refreshing" /\ Goto(b, "counting")
        /\ UNCHANGED <<subscribed, present, used, usageLog, executed, crashes>>
    BY DEF Sessions, Working, RefreshCount
  <1>2. /\ pc'[b] = "counting"
        /\ \A r \in Sessions \ {b} : pc'[r] = pc[r] /\ pc[r] \in Resting
    BY <1>1, Alone
  <1>3. subscribed /\ copy[b] = NewestCopy /\ OneRow
    BY <1>1 DEF OneAtATime, Current
  <1>4. NewestCopy' = NewestCopy /\ Value' = Value
    BY <1>1 DEF NewestCopy, Value
  <1>5. /\ copy'[b].used = copy[b].used
        /\ copy[b].id # 0 => copy'[b].id = copy[b].id
        /\ counted'[b] = Cardinality(usageLog)
    BY <1>1 DEF RefreshCount, MeteringInvariant
  <1>6. Current(b)'
    BY <1>1, <1>2, <1>3, <1>4, <1>5, NewestIs DEF Current
  <1>7. Trailed'
    BY <1>1, <1>2 DEF OneAtATime, Trailed, MeteringInvariant, Sessions
  <1>8. Counts'
    <2>1. Cardinality(executed) <= Value + crashes
      BY <1>1, <1>2, Lag
    <2>2. \A r \in Calls : pc'[r] = "refused" => pc[r] = "refused"
      BY <1>2 DEF Sessions
    <2> QED
      BY <1>1, <1>4, <2>1, <2>2 DEF OneAtATime, Counts
  <1>9. OneRow'
    BY <1>1 DEF OneAtATime, OneRow
  <1> QED
    BY <1>1, <1>6, <1>7, <1>8, <1>9, StepAlone

\* A refresh that nobody disturbs leaves in the counter what the logs say.
LEMMA RefreshSets ==
    ASSUME MeteringInvariant, MeteringInvariant', OneAtATime, NEW b \in Refreshes, RefreshCommit(b)
    PROVE  /\ OneRow' /\ Value' = Cardinality(usageLog)
           /\ \E i \in present' : used'[i] = Cardinality(usageLog)
  <1> DEFINE row == copy[b].id
  <1>1. /\ b \in Sessions /\ pc[b] = "counting"
        /\ UNCHANGED <<subscribed, usageLog>>
    BY DEF Sessions, RefreshCommit
  <1>2. /\ subscribed /\ OneRow
        /\ present # {} => row = NewestCopy.id
        /\ copy[b].used = NewestCopy.used /\ counted[b] = Cardinality(usageLog)
        /\ Value = NewestCopy.used
    BY <1>1 DEF OneAtATime, Current, Value
  <1>3. row \in Ids
    <2>1. row \in 1..lastId /\ 1..lastId \subseteq Ids
      BY <1>1, IdsAreEnough DEF MeteringInvariant
    <2> QED
      BY <2>1
  <1>4. used[row] = copy[b].used
    <2>1. CASE present = {}
      BY <1>2, <1>3, <2>1, NewestOfOne DEF OneRow, NoCopy
    <2>2. CASE present # {}
      BY <1>2, <2>2, NewestIs
    <2> QED
      BY <2>1, <2>2
  <1>5. /\ copy[b].used \in Nat /\ Cardinality(usageLog) \in Nat
        /\ copy[b].used <= Cardinality(usageLog)
    <2>1. Cardinality(usageLog) \in Nat
      BY CountsAreNumbers DEF MeteringInvariant
    <2>2. copy[b].used \in Nat
      BY <1>1 DEF MeteringInvariant
    <2> QED
      BY <1>2, <2>1, <2>2 DEF OneAtATime, Counts
  <1>6. Refreshed(b) = Cardinality(usageLog)
    BY <1>2, <1>5 DEF Refreshed
  <1>7. CommitRow(row, Cardinality(usageLog))
    BY <1>4, <1>6 DEF RefreshCommit
  <1> HIDE DEF row
  <1>8. OneRow' /\ present' = {row} /\ used'[row] = Cardinality(usageLog)
        /\ Value' = Cardinality(usageLog)
    BY <1>1, <1>2, <1>3, <1>7, CommitsOneRow
  <1> QED
    BY <1>8

LEMMA AloneRefreshCommit ==
    ASSUME MeteringInvariant, MeteringInvariant', OneAtATime, \A p, q \in Working' : p = q,
           NEW b \in Refreshes, RefreshCommit(b)
    PROVE  OneAtATime'
  <1>1. /\ b \in Sessions /\ b \in Working /\ pc[b] = "counting" /\ Goto(b, "done")
        /\ UNCHANGED <<subscribed, usageLog, executed, crashes>>
    BY DEF Sessions, Working, RefreshCommit
  <1>2. /\ pc'[b] = "done"
        /\ \A r \in Sessions \ {b} : pc'[r] = pc[r] /\ pc[r] \in Resting
    BY <1>1, Alone
  <1>3. OneRow' /\ Value' = Cardinality(usageLog)
    BY RefreshSets
  <1>4. Current(b)'
    BY <1>2 DEF Current
  <1>5. Trailed'
    BY <1>1, <1>2 DEF OneAtATime, Trailed, MeteringInvariant, Sessions
  <1>6. Counts'
    <2>1. /\ Value \in Nat /\ Value <= Cardinality(usageLog) /\ Cardinality(usageLog) \in Nat
          /\ Cardinality(executed) <= Value + crashes
          /\ crashes \in Nat /\ Cardinality(executed) \in Nat
      BY <1>1, <1>2, Lag DEF MeteringInvariant
    <2>2. Cardinality(executed) <= Cardinality(usageLog) + crashes
      BY <2>1
    <2>3. \A r \in Calls : pc'[r] = "refused" => pc[r] = "refused"
      BY <1>2 DEF Sessions
    <2> QED
      BY <1>1, <1>3, <2>1, <2>2, <2>3 DEF OneAtATime, Counts
  <1> QED
    BY <1>1, <1>3, <1>4, <1>5, <1>6, StepAlone

LEMMA AloneInterrupt ==
    ASSUME MeteringInvariant, OneAtATime, Interrupt
    PROVE  OneAtATime'
  <1>1. PICK gone \in (SUBSET Working) \ {{}} :
           pc' = [s \in Sessions |-> IF s \in gone THEN "lost" ELSE pc[s]]
    BY DEF Interrupt
  <1>2. UNCHANGED <<subscribed, present, used, usageLog, executed>> /\ crashes' = crashes + 1
    BY DEF Interrupt
  <1>3. PICK w \in Sessions : w \in gone
    BY DEF Working
  <1>4. pc \in [Sessions -> PCs] /\ crashes \in Nat
    BY DEF MeteringInvariant
  <1>5. \A r \in Sessions \ {w} : pc[r] \in Resting /\ pc'[r] = pc[r]
    BY <1>1, <1>3 DEF OneAtATime, Working, Resting
  <1>6. pc'[w] = "lost" /\ \A r \in Sessions : pc'[r] \in Resting
    BY <1>1, <1>3, <1>5 DEF Resting
  <1>7. NewestCopy' = NewestCopy /\ Value' = Value
    BY <1>2 DEF NewestCopy, Value
  <1>8. \A r \in Sessions : r \notin Working' /\ Current(r)'
    BY <1>6 DEF Working, Resting, Current
  <1>9. Trailed'
    BY <1>2, <1>5, <1>6 DEF OneAtATime, Trailed, MeteringInvariant, Sessions
  <1>10. Counts'
    <2>1. /\ Value \in Nat /\ Value <= Cardinality(usageLog)
          /\ Cardinality(executed) <= Value + crashes + 1
          /\ Cardinality(executed) <= Limit + crashes
          /\ Cardinality(executed) \in Nat /\ Limit \in Nat
      BY <1>5, Lag, MeteringAssumption
    <2>2. /\ Cardinality(executed) <= Value + crashes'
          /\ Cardinality(executed) <= Limit + crashes' /\ crashes' # 0
      BY <1>2, <1>4, <2>1
    <2> QED
      BY <1>2, <1>7, <2>1, <2>2 DEF Counts
  <1>11. \A p, q \in Working' : p = q
    BY <1>8 DEF Working
  <1>12. OneRow'
    BY <1>2 DEF OneAtATime, OneRow
  <1> QED
    BY <1>8, <1>9, <1>10, <1>11, <1>12 DEF OneAtATime

LEMMA OneAtATimeStep ==
    ASSUME MeteringInvariant, MeteringInvariant', OneAtATime, \A p, q \in Working' : p = q, Step
    PROVE  OneAtATime'
  <1>1. ASSUME NEW c \in Calls, CallProceeds(c) PROVE OneAtATime'
    <2>1. c \in Sessions
      BY DEF Sessions
    <2>2. CASE CheckRead(c)
      BY <2>1, <2>2, AloneRead DEF CheckRead
    <2>3. CASE RecordRead(c)
      BY <2>1, <2>3, AloneRead DEF RecordRead
    <2> QED
      BY <1>1, <2>2, <2>3, AloneCheckCommit, AloneCheckLogs, AloneCountFails, AloneExecute,
         AloneLogUsage, AloneRecordCommit DEF CallProceeds
  <1>2. ASSUME NEW b \in Refreshes, RefreshProceeds(b) PROVE OneAtATime'
    <2>1. b \in Sessions
      BY DEF Sessions
    <2>2. CASE RefreshRead(b)
      BY <2>1, <2>2, AloneRead DEF RefreshRead
    <2>3. CASE RefreshNothing(b)
      BY <2>1, <2>3, RestsAtOnce DEF RefreshNothing
    <2> QED
      BY <1>2, <2>2, <2>3, AloneRefreshCount, AloneRefreshCommit DEF RefreshProceeds
  <1>3. CASE Quiet
    <2>1. Working' = Working /\ Value' = Value /\ NewestCopy' = NewestCopy
      BY <1>3 DEF Quiet, state, Working, Value, NewestCopy
    <2>2. \A s \in Sessions : Current(s) => Current(s)'
      BY <1>3, <2>1 DEF Quiet, state, Current
    <2> QED
      BY <1>3, <2>1, <2>2 DEF Quiet, state, OneAtATime, OneRow, Trailed, Counts
  <1> QED
    BY <1>1, <1>2, <1>3, AloneInterrupt DEF Step

LEMMA SequentialNext ==
    ASSUME MeteringInvariant, MeteringInvariant', SequentialInvariant, [Next]_vars
    PROVE  SequentialInvariant'
  <1>1. CASE UNCHANGED vars
    <2>1. Working' = Working /\ Value' = Value /\ NewestCopy' = NewestCopy
      BY <1>1 DEF vars, state, Working, Value, NewestCopy
    <2>2. \A s \in Sessions : Current(s) => Current(s)'
      BY <1>1, <2>1 DEF vars, state, Current
    <2> QED
      BY <1>1, <2>1, <2>2 DEF vars, state, overlapped, SequentialInvariant, OneAtATime, OneRow,
                              Trailed, Counts
  <1>2. ASSUME Next, ~overlapped' PROVE OneAtATime'
    <2>1. ~overlapped /\ ~ (Cardinality(Working') > 1)
      <3>1. raced' = {} /\ raced' = IF Cardinality(Working') > 1 THEN raced \cup Working' ELSE raced
        BY <1>2 DEF Next, NoteOverlap, overlapped
      <3>2. ASSUME Cardinality(Working') > 1 PROVE FALSE
        <4>1. Working' = {}
          BY <3>1, <3>2
        <4> QED
          BY <3>2, <4>1, FS_EmptySet
      <3> QED
        BY <3>1, <3>2 DEF overlapped
    <2>2. Working' \in SUBSET Sessions
      BY DEF Working
    <2>3. Cardinality(Working') \in Nat
      BY <2>2, SessionsAreFinite, FS_Subset, FS_CardinalityType
    <2>4. \A p, q \in Working' : p = q
      BY <2>1, <2>2, <2>3, OneWorks
    <2> QED
      BY <1>2, <2>1, <2>4, OneAtATimeStep DEF Next, SequentialInvariant
  <1> QED
    BY <1>1, <1>2 DEF SequentialInvariant

LEMMA SequentialInit == Init => SequentialInvariant
  <1> SUFFICES ASSUME Init PROVE OneAtATime
    BY DEF SequentialInvariant
  <1>1. MeteringInvariant
    BY MeteringInit
  <1>2. OneRow
    BY DEF Init, OneRow
  <1>3. NewestCopy.used = 0
    BY <1>1, NewestIs DEF Init
  <1>4. /\ Cardinality(usageLog) = 0 /\ Cardinality(executed) = 0 /\ Value = 0
        /\ crashes = 0 /\ Limit \in Nat
    BY <1>3, FS_EmptySet, MeteringAssumption DEF Init, Value
  <1>5. Working = {}
    BY DEF Init, Working
  <1>6. \A s \in Sessions : Current(s)
    BY DEF Init, Current
  <1>7. Trailed
    BY DEF Init, Trailed, Sessions
  <1>8. Counts
    BY <1>4 DEF Counts, Init, Sessions
  <1> QED
    BY <1>2, <1>5, <1>6, <1>7, <1>8 DEF OneAtATime

LEMMA SequentialHolds == Spec => [](MeteringInvariant /\ SequentialInvariant)
  <1>1. MeteringInvariant /\ MeteringInvariant' /\ SequentialInvariant /\ [Next]_vars
           => SequentialInvariant'
    BY SequentialNext
  <1> QED
    BY <1>1, SequentialInit, MeteringHolds, PTL DEF Spec

\* One session at a time a subject gets the runs its plan allows, no more but
\* for one for each failure and no fewer unless something failed
\* (enforce_monetization_policy_for_run).
THEOREM QuotaIsKept == Spec => []QuotaIsExact
  <1>1. MeteringInvariant /\ SequentialInvariant => QuotaIsExact
    <2> SUFFICES ASSUME MeteringInvariant, OneAtATime
                 PROVE  /\ Cardinality(executed) <= Limit + crashes
                        /\ crashes = 0 =>
                              \A c \in Calls : pc[c] = "refused" => Cardinality(executed) = Limit
      BY DEF SequentialInvariant, QuotaIsExact
    <2>1. Cardinality(executed) \in Nat /\ Limit \in Nat
      BY CountsAreNumbers, MeteringAssumption DEF MeteringInvariant
    <2> QED
      BY <2>1 DEF OneAtATime, Counts
  <1> QED
    BY <1>1, SequentialHolds, PTL

\* One session at a time the period has one counter; it never runs ahead of
\* the logs and, at rest and with no failure, is their number
\* (record_plan_usage, _upsert_current_period_counters).
THEOREM CounterIsInStep == Spec => []CounterFollowsLogs
  <1>1. MeteringInvariant /\ SequentialInvariant => CounterFollowsLogs
    <2> SUFFICES ASSUME MeteringInvariant, OneAtATime
                 PROVE  /\ Cardinality(present) <= 1
                        /\ \A i \in present :
                              /\ used[i] <= Cardinality(usageLog)
                              /\ Working = {} /\ crashes = 0 => used[i] = Cardinality(usageLog)
      BY DEF SequentialInvariant, CounterFollowsLogs
    <2>1. OneRow
      BY DEF OneAtATime
    <2>2. Cardinality(present) <= 1
      <3>1. CASE present = {}
        BY <3>1, FS_EmptySet
      <3>2. ASSUME NEW i \in present PROVE Cardinality(present) = 1
        BY <2>1, <3>2, NewestOfOne, FS_Singleton
      <3> QED
        BY <3>1, <3>2
    <2>3. ASSUME NEW i \in present
          PROVE  /\ used[i] <= Cardinality(usageLog)
                 /\ Working = {} /\ crashes = 0 => used[i] = Cardinality(usageLog)
      <3>1. Value = used[i]
        BY <2>1, NewestOfOne DEF OneRow, Value
      <3>2. ASSUME Working = {}, crashes = 0 PROVE used[i] = Cardinality(usageLog)
        <4>1. PICK s \in Sessions : TRUE
          BY MeteringAssumption DEF Sessions
        <4>2. \A r \in Sessions : pc[r] \in Resting
          BY <3>2 DEF Working, Resting
        <4>3. /\ Value <= Cardinality(usageLog) /\ Value \in Nat
              /\ Cardinality(usageLog) \in Nat /\ Cardinality(executed) \in Nat
              /\ Cardinality(usageLog) <= Cardinality(executed)
              /\ pc[s] \notin {"executed", "logged", "recording"} =>
                    Cardinality(executed) <= Value + crashes
          BY <4>2, Lag
        <4>4. Cardinality(executed) <= Value + 0
          BY <3>2, <4>2, <4>3 DEF Resting
        <4> QED
          BY <3>1, <4>3, <4>4
      <3> QED
        BY <3>1, <3>2 DEF OneAtATime, Counts
    <2> QED
      BY <2>2, <2>3
  <1> QED
    BY <1>1, SequentialHolds, PTL

\* One session at a time a refresh leaves the counter at the number of logs,
\* whatever recordings failures have cost
\* (backfill_current_period_usage_counters).
THEOREM RefreshMakesGood == Spec => RefreshRepairs
  <1>1. MeteringInvariant /\ MeteringInvariant' /\ SequentialInvariant /\ [Next]_vars =>
           [\A b \in Refreshes :
               ~overlapped /\ pc[b] = "counting" /\ pc'[b] = "done" =>
                   \E i \in present' : used'[i] = Cardinality(usageLog)]_vars
    <2> SUFFICES ASSUME MeteringInvariant, MeteringInvariant', OneAtATime, Step,
                        NEW b \in Refreshes, pc[b] = "counting", pc'[b] = "done"
                 PROVE  \E i \in present' : used'[i] = Cardinality(usageLog)
      BY DEF SequentialInvariant, Next
    <2>1. pc \in [Sessions -> PCs] /\ b \in Sessions /\ b \notin Calls
      BY MeteringAssumption DEF MeteringInvariant, Sessions
    <2>2. ASSUME NEW c \in Calls, CallProceeds(c) PROVE FALSE
      <3>1. \E there : Goto(c, there)
        BY <2>2 DEF CallProceeds, CheckRead, CheckCommit, CheckLogs, CountFails, Execute, LogUsage,
                    RecordRead, RecordCommit, ReadCounter
      <3>2. pc'[b] = pc[b]
        BY <2>1, <3>1 DEF Goto
      <3> QED
        BY <3>2
    <2>3. ASSUME NEW a \in Refreshes, RefreshProceeds(a), ~ RefreshCommit(b) PROVE FALSE
      <3>1. a \in Sessions
        BY DEF Sessions
      <3>2. CASE a # b
        <4>1. \E there : Goto(a, there)
          BY <2>3 DEF RefreshProceeds, RefreshRead, RefreshCount, RefreshCommit,
                      RefreshNothing, ReadCounter
        <4>2. pc'[b] = pc[b]
          BY <2>1, <3>2, <4>1 DEF Goto
        <4> QED
          BY <4>2
      <3>3. CASE a = b
        BY <2>3, <3>3 DEF RefreshProceeds, RefreshRead, RefreshCount, RefreshNothing
      <3> QED
        BY <3>2, <3>3
    <2>4. ~Interrupt
      BY <2>1 DEF Interrupt
    <2>5. ~Quiet
      BY <2>1 DEF Quiet
    <2> QED
      BY <2>2, <2>3, <2>4, <2>5, RefreshSets DEF Step
  <1> QED
    BY <1>1, SequentialHolds, PTL DEF Spec, RefreshRepairs
=============================================================================
