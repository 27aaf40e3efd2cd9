------------------------- MODULE ImageTables_proofs -------------------------
(***************************************************************************)
(* Theorems about the weight-image cache and attention's resident table,   *)
(* for every arena, planner, hash function and table size.                 *)
(*                                                                         *)
(* ImagesIntact needs to know that the areas of the cached images lie      *)
(* below the bump pointer (Below); TableSound, whose probes are only       *)
(* sound because nothing is ever removed, is inductive once no two slots   *)
(* name one entry (OneSlot), which is also why a slot is always empty.     *)
(***************************************************************************)
EXTENDS ImageTables, TLAPS, FiniteSetTheorems

Below ==
  \A i \in 1 .. Len(cache) :
    BytesOf[cache[i].shape] > 0 /\ cache[i].pa + BytesOf[cache[i].shape] <= imgNext

OneSlot == \A g, h \in 0 .. HashN - 1 : ix[g] = ix[h] /\ ix[g] # 0 => g = h

\* A resident image was built for this inference or an earlier one.
Past == \A i \in 1 .. Len(resident) : resident[i].ver <= kv

TablesInv == TypeOK /\ Below /\ ImagesIntact /\ OneSlot /\ TableSound /\ Past
             /\ ServesWhatWasAsked

CacheStep    == (\E k \in Layers, s \in Shapes : ImageBits(k, s)) \/ RtForget
                \/ \E k \in Layers : Rewrite(k)
ResidentStep == (\E k \in Heads, s \in Lens : WResident(k, s)) \/ NextInput
-----------------------------------------------------------------------------
\* A probe stays in the table.
LEMMA SlotType == 
  ASSUME hash \in [Heads -> 0 .. HashN - 1], NEW k \in Heads, NEW d \in 0 .. HashN - 1
  PROVE  Slot(k, d) \in 0 .. HashN - 1
BY TablesAssumption DEF Slot

\* A step is on one of the two tables.
LEMMA Steps ==
  ASSUME Next
  PROVE  \/ CacheStep /\ UNCHANGED residentVars
         \/ ResidentStep /\ UNCHANGED cacheVars
BY DEF Next, CacheStep, ResidentStep

\* Both tables start empty.
LEMMA InitInv == Init => TablesInv
<1> SUFFICES ASSUME Init PROVE TablesInv
  OBVIOUS
<1> USE TablesAssumption DEF Init
<1>1. TypeOK
  BY DEF TypeOK, Versions, LayerImages
<1>2. Below /\ ImagesIntact /\ OneSlot /\ Past
  BY DEF Below, ImagesIntact, OneSlot, Past
<1>3. TableSound
  <2>1. 0 \in 0 .. HashN - 1 /\ ix[0] = 0
    OBVIOUS
  <2>2. Len(resident) = 0 /\ 0 <= ResidentN
    OBVIOUS
  <2>3. \A i \in 1 .. 0 : FALSE
    OBVIOUS
  <2> QED BY <2>1, <2>2, <2>3 DEF TableSound
<1>4. ServesWhatWasAsked
  BY DEF ServesWhatWasAsked
<1> QED BY <1>1, <1>2, <1>3, <1>4 DEF TablesInv

\* The weight cache keeps its types.
LEMMA CacheType == 
  ASSUME TypeOK, CacheStep, UNCHANGED residentVars
  PROVE  TypeOK'
<1> USE TablesAssumption DEF TypeOK, residentVars
<1>1. ASSUME NEW k \in Layers, NEW s \in Shapes, CacheHit(k, s) \/ CacheRefuses(k, s)
      PROVE  TypeOK'
  BY <1>1 DEF CacheHit, CacheRefuses, cacheVars
<1>2. ASSUME NEW k \in Layers, NEW s \in Shapes, CacheBuild(k, s) PROVE TypeOK'
  <2> DEFINE e == [key |-> k, shape |-> s, pa |-> imgNext]
  <2>1. e \in CacheEntries /\ cache' = Append(cache, e) /\ cache' \in Seq(CacheEntries)
    BY <1>2 DEF CacheBuild, CacheEntries
  <2>2. imgNext' \in 0 .. ArenaEnd
    BY <1>2 DEF CacheBuild, Refused, Advance
  <2>3. Image(k, s, weights[k]) \in LayerImages
    BY DEF Image, LayerImages
  <2>4. arena' \in [0 .. ArenaEnd - 1 -> LayerImages \cup {None}]
    BY <1>2, <2>3 DEF CacheBuild
  <2> QED BY <1>2, <2>1, <2>2, <2>4 DEF CacheBuild
<1>3. CASE RtForget
  BY <1>3 DEF RtForget
<1>4. ASSUME NEW k \in Layers, Rewrite(k) PROVE TypeOK'
  BY <1>4 DEF Rewrite, Versions
<1> QED BY <1>1, <1>2, <1>3, <1>4 DEF CacheStep, ImageBits

\* What the type says of a cached image, and how a build adds one.
LEMMA CachedType ==
  ASSUME TypeOK, NEW i \in 1 .. Len(cache)
  PROVE  /\ cache[i].key \in Layers /\ cache[i].shape \in Shapes /\ cache[i].pa \in Nat
         /\ BytesOf[cache[i].shape] \in Nat
<1>1. cache \in Seq(CacheEntries) /\ BytesOf \in [Shapes -> Nat]
  BY TablesAssumption DEF TypeOK
<1>2. cache[i] \in CacheEntries
  BY <1>1
<1> QED BY <1>1, <1>2 DEF CacheEntries

\* What a build does to the cache and the arena.
LEMMA CacheGrows ==
  ASSUME TypeOK, NEW k \in Layers, NEW s \in Shapes, CacheBuild(k, s)
  PROVE  LET e == [key |-> k, shape |-> s, pa |-> imgNext] IN
           /\ BytesOf[s] \in Nat /\ BytesOf[s] > 0
           /\ imgNext \in Nat /\ ArenaEnd \in Nat
           /\ imgNext + BytesOf[s] <= ArenaEnd /\ imgNext' = imgNext + BytesOf[s]
           /\ weights' = weights
           /\ Len(cache) \in Nat /\ Len(cache') = Len(cache) + 1 /\ cache'[Len(cache) + 1] = e
           /\ \A i \in 1 .. Len(cache) : cache'[i] = cache[i]
           /\ \A b \in 0 .. ArenaEnd - 1 :
                arena'[b] = IF b \in Area(e) THEN Image(k, s, weights[k]) ELSE arena[b]
<1> DEFINE e == [key |-> k, shape |-> s, pa |-> imgNext]
<1>1. /\ BytesOf[s] \in Nat /\ imgNext \in Nat /\ ArenaEnd \in Nat
      /\ arena \in [0 .. ArenaEnd - 1 -> LayerImages \cup {None}]
      /\ cache \in Seq(CacheEntries) /\ e \in CacheEntries
  BY TablesAssumption DEF TypeOK, CacheEntries
<1>2. BytesOf[s] # 0 /\ ~(imgNext + BytesOf[s] > ArenaEnd) /\ imgNext' = imgNext + BytesOf[s]
  BY DEF CacheBuild, Refused, Advance
<1>3. cache' = Append(cache, e) /\ weights' = weights
      /\ arena' = [b \in DOMAIN arena |->
                     IF b \in Area(e) THEN Image(k, s, weights[k]) ELSE arena[b]]
  BY DEF CacheBuild
<1> HIDE DEF e
<1>4. /\ Len(cache) \in Nat /\ Len(cache') = Len(cache) + 1 /\ cache'[Len(cache) + 1] = e
      /\ \A i \in 1 .. Len(cache) : cache'[i] = cache[i]
  BY <1>1, <1>3
<1> QED BY <1>1, <1>2, <1>3, <1>4 DEF e

\* A build writes above everything cached, so the images stay intact.
LEMMA IntactStep ==
  ASSUME TypeOK, Below, ImagesIntact, CacheStep
  PROVE  Below' /\ ImagesIntact'
<1>1. ASSUME NEW k \in Layers, NEW s \in Shapes, CacheHit(k, s) \/ CacheRefuses(k, s)
      PROVE  Below' /\ ImagesIntact'
  BY <1>1 DEF CacheHit, CacheRefuses, cacheVars, Below, ImagesIntact, Area
<1>2. ASSUME NEW k \in Layers, NEW s \in Shapes, CacheBuild(k, s)
      PROVE  Below' /\ ImagesIntact'
  <2> DEFINE e == [key |-> k, shape |-> s, pa |-> imgNext]
             n == Len(cache) + 1
  <2>1. /\ BytesOf[s] \in Nat /\ BytesOf[s] > 0 /\ imgNext \in Nat /\ ArenaEnd \in Nat
        /\ imgNext + BytesOf[s] <= ArenaEnd /\ imgNext' = imgNext + BytesOf[s]
        /\ weights' = weights
        /\ Len(cache) \in Nat /\ Len(cache') = n /\ cache'[n] = e
        /\ \A i \in 1 .. Len(cache) : cache'[i] = cache[i]
        /\ \A b \in 0 .. ArenaEnd - 1 :
             arena'[b] = IF b \in Area(e) THEN Image(k, s, weights[k]) ELSE arena[b]
    BY <1>2, CacheGrows
  <2>2. Area(e) = imgNext .. imgNext + BytesOf[s] - 1 /\ e.key = k /\ e.shape = s /\ e.pa = imgNext
    BY DEF Area
  <2> HIDE DEF e
  <2>3. ASSUME NEW i \in 1 .. Len(cache)
        PROVE  /\ BytesOf[cache[i].shape] > 0
               /\ cache[i].pa + BytesOf[cache[i].shape] <= imgNext'
               /\ \A b \in Area(cache[i]) : b < ArenaEnd /\ arena'[b] = arena[b]
    <3>1. cache[i].pa \in Nat /\ BytesOf[cache[i].shape] \in Nat
      BY CachedType
    <3>2. BytesOf[cache[i].shape] > 0 /\ cache[i].pa + BytesOf[cache[i].shape] <= imgNext
      BY DEF Below
    <3>3. Area(cache[i]) = cache[i].pa .. cache[i].pa + BytesOf[cache[i].shape] - 1
      BY DEF Area
    <3>4. ASSUME NEW b \in Area(cache[i])
          PROVE  b \in 0 .. ArenaEnd - 1 /\ b \notin Area(e) /\ b < ArenaEnd
      <4>1. b \in Nat /\ b < imgNext
        BY <3>1, <3>2, <3>3, <2>1
      <4>2. b \in 0 .. ArenaEnd - 1 /\ b < ArenaEnd
        BY <4>1, <2>1
      <4>3. b \notin Area(e)
        BY <4>1, <2>1, <2>2
      <4> QED BY <4>2, <4>3
    <3> QED BY <2>1, <3>1, <3>2, <3>4
  <2>4. Below'
    BY <2>1, <2>2, <2>3 DEF Below
  <2>5. ASSUME NEW b \in Area(e)
        PROVE  b < ArenaEnd /\ arena'[b] = Image(k, s, weights[k])
    <3>1. b \in 0 .. ArenaEnd - 1 /\ b < ArenaEnd
      BY <2>1, <2>2
    <3> QED BY <2>1, <3>1
  <2>6. ASSUME NEW i \in 1 .. n, NEW b \in Area(cache'[i])
        PROVE  b < ArenaEnd /\ arena'[b] = Image(cache'[i].key, cache'[i].shape, weights'[cache'[i].key])
    <3>1. CASE i = n
      BY <3>1, <2>1, <2>2, <2>5
    <3>2. CASE i \in 1 .. Len(cache)
      BY <3>2, <2>1, <2>3 DEF ImagesIntact
    <3> QED BY <3>1, <3>2, <2>1
  <2>7. ImagesIntact'
    BY <2>1, <2>6 DEF ImagesIntact, Area
  <2> QED BY <2>4, <2>7
<1>3. CASE RtForget
  BY <1>3 DEF RtForget, Below, ImagesIntact
<1>4. ASSUME NEW k \in Layers, Rewrite(k) PROVE Below' /\ ImagesIntact'
  <2>1. ASSUME NEW i \in 1 .. Len(cache) PROVE FALSE
    BY <1>4, CachedType DEF Rewrite, Below
  <2> QED BY <1>4, <2>1 DEF Rewrite, Below, ImagesIntact
<1> QED BY <1>1, <1>2, <1>3, <1>4 DEF CacheStep, ImageBits
-----------------------------------------------------------------------------
\* What a miss does to the table.
LEMMA TableGrows ==
  ASSUME TypeOK, NEW k \in Heads, NEW s \in Lens, NEW d \in 0 .. HashN - 1,
         ResidentMiss(k, s, d)
  PROVE  LET n == Len(resident) IN
           /\ n \in Nat /\ n < ResidentN /\ Len(resident') = n + 1
           /\ resident' \in Seq(HeadImages) /\ resident'[n + 1] = Image(k, s, kv)
           /\ \A i \in 1 .. n : resident'[i] = resident[i]
           /\ Slot(k, d) \in 0 .. HashN - 1 /\ ix[Slot(k, d)] = 0 /\ Stops(k, s, d)
           /\ ix' = [ix EXCEPT ![Slot(k, d)] = n + 1]
           /\ kv' = kv /\ hash' = hash
<1> DEFINE e == Image(k, s, kv)
<1>1. resident \in Seq(HeadImages) /\ e \in HeadImages
  BY DEF TypeOK, Image, HeadImages
<1>2. /\ Stops(k, s, d) /\ ix[Slot(k, d)] = 0 /\ ~(Len(resident) >= ResidentN)
      /\ resident' = Append(resident, e) /\ kv' = kv /\ hash' = hash
      /\ ix' = [ix EXCEPT ![Slot(k, d)] = Len(resident) + 1]
  BY DEF ResidentMiss, TableFull, EmptySlot
<1>3. Slot(k, d) \in 0 .. HashN - 1
  BY SlotType DEF TypeOK
<1> HIDE DEF e
<1>4. /\ Len(resident) \in Nat /\ Len(resident') = Len(resident) + 1
      /\ resident' \in Seq(HeadImages) /\ resident'[Len(resident) + 1] = e
      /\ \A i \in 1 .. Len(resident) : resident'[i] = resident[i]
  BY <1>1, <1>2
<1> QED BY <1>2, <1>3, <1>4, TablesAssumption DEF e

\* What the type says of a resident image.
LEMMA ResidentEntry ==
  ASSUME TypeOK, NEW i \in 1 .. Len(resident)
  PROVE  resident[i].key \in Heads /\ resident[i].ver \in Nat
<1>1. resident \in Seq(HeadImages)
  BY DEF TypeOK
<1>2. resident[i] \in HeadImages
  BY <1>1
<1> QED BY <1>2, TablesAssumption DEF HeadImages, Versions

\* An empty slot is given the next number.
LEMMA SlotTaken ==
  ASSUME NEW D, NEW n \in Nat, NEW x \in [D -> 0 .. n], NEW z \in D, x[z] = 0
  PROVE  LET y == [x EXCEPT ![z] = n + 1] IN
           /\ y \in [D -> 0 .. n + 1] /\ y[z] = n + 1
           /\ \A h \in D : h # z => y[h] = x[h]
           /\ \A h \in D : x[h] # 0 => y[h] = x[h]
           /\ \A h \in D : x[h] # n + 1
<1>1. \A h \in D : x[h] \in 0 .. n /\ x[h] \in 0 .. n + 1 /\ x[h] # n + 1
  OBVIOUS
<1>2. n + 1 \in 0 .. n + 1
  OBVIOUS
<1> QED BY <1>1, <1>2

\* The resident table keeps its types.
LEMMA ResidentType ==
  ASSUME TypeOK, ResidentStep, UNCHANGED cacheVars
  PROVE  TypeOK'
<1>1. ASSUME NEW k \in Heads, NEW s \in Lens, NEW d \in 0 .. HashN - 1,
             Bypass(k, s) \/ ResidentHit(k, s, d) \/ ResidentFull(k, s, d)
      PROVE  TypeOK'
  BY <1>1 DEF TypeOK, cacheVars, residentVars, Bypass, ResidentHit, ResidentFull
<1>2. ASSUME NEW k \in Heads, NEW s \in Lens, NEW d \in 0 .. HashN - 1, ResidentMiss(k, s, d)
      PROVE  TypeOK'
  <2> DEFINE n == Len(resident)
  <2>1. /\ n \in Nat /\ Len(resident') = n + 1 /\ resident' \in Seq(HeadImages)
        /\ ix' = [ix EXCEPT ![Slot(k, d)] = n + 1] /\ kv' = kv /\ hash' = hash
    BY <1>2, TableGrows
  <2>2. Slot(k, d) \in 0 .. HashN - 1 /\ ix[Slot(k, d)] = 0 /\ ix \in [0 .. HashN - 1 -> 0 .. n]
    BY <1>2, TableGrows DEF TypeOK
  <2>3. ix' \in [0 .. HashN - 1 -> 0 .. n + 1]
    BY <2>1, <2>2, SlotTaken
  <2> QED BY <2>1, <2>3 DEF TypeOK, cacheVars
<1>3. CASE NextInput
  BY <1>3, TablesAssumption DEF NextInput, TypeOK, cacheVars, Versions
<1>4. ASSUME NEW k \in Heads, NEW s \in Lens, Bypass(k, s) PROVE TypeOK'
  BY <1>4 DEF TypeOK, cacheVars, residentVars, Bypass
<1> QED BY <1>1, <1>2, <1>3, <1>4 DEF ResidentStep, WResident

\* Distinct slots name distinct entries and the table has more slots than
\* entries: one is empty.
LEMMA SlotLeft ==
  ASSUME NEW n \in Nat, n <= ResidentN, NEW x \in [0 .. HashN - 1 -> 0 .. n],
         \A g, h \in 0 .. HashN - 1 : x[g] = x[h] /\ x[g] # 0 => g = h
  PROVE  \E h \in 0 .. HashN - 1 : x[h] = 0
<1> SUFFICES ASSUME \A h \in 0 .. HashN - 1 : x[h] # 0 PROVE FALSE
  OBVIOUS
<1>1. x \in [0 .. HashN - 1 -> 1 .. n]
  OBVIOUS
<1>2. /\ IsFiniteSet(0 .. HashN - 1) /\ Cardinality(0 .. HashN - 1) = HashN
      /\ IsFiniteSet(1 .. n) /\ Cardinality(1 .. n) = n
  BY FS_Interval, TablesAssumption
<1>3. Cardinality(1 .. n) < Cardinality(0 .. HashN - 1)
  BY <1>2, TablesAssumption
<1>4. \E g, h \in 0 .. HashN - 1 : g # h /\ x[g] = x[h]
  BY ONLY <1>1, <1>2, <1>3, FS_PigeonHole, Zenon
<1> QED BY <1>4

\* A miss takes an empty slot, so no two slots name one image and a path that was full stays full.
LEMMA TableStep ==
  ASSUME TypeOK, OneSlot, TableSound, Past, ResidentStep
  PROVE  OneSlot' /\ TableSound' /\ Past'
<1>1. ASSUME UNCHANGED residentVars PROVE OneSlot' /\ TableSound' /\ Past'
  <2>1. \A j, c : Slot(j, c)' = Slot(j, c)
    BY <1>1 DEF residentVars, Slot
  <2>2. OneSlot' /\ Past'
    BY <1>1 DEF residentVars, OneSlot, Past
  <2>3. TableSound'
    BY <1>1, <2>1 DEF residentVars, TableSound
  <2> QED BY <2>2, <2>3
<1>2. ASSUME NEW k \in Heads, NEW s \in Lens, NEW d \in 0 .. HashN - 1, ResidentMiss(k, s, d)
      PROVE  OneSlot' /\ TableSound' /\ Past'
  <2> DEFINE n == Len(resident)
             z == Slot(k, d)
  <2>1. /\ n \in Nat /\ n < ResidentN /\ Len(resident') = n + 1
        /\ resident'[n + 1] = Image(k, s, kv)
        /\ \A i \in 1 .. n : resident'[i] = resident[i]
        /\ z \in 0 .. HashN - 1 /\ ix[z] = 0 /\ Stops(k, s, d)
        /\ ix' = [ix EXCEPT ![z] = n + 1]
        /\ kv' = kv /\ hash' = hash
    BY <1>2, TableGrows
  <2>2. ix \in [0 .. HashN - 1 -> 0 .. n]
    BY DEF TypeOK
  <2>3. /\ ix'[z] = n + 1 /\ \A h \in 0 .. HashN - 1 : h # z => ix'[h] = ix[h]
        /\ \A h \in 0 .. HashN - 1 : ix[h] # 0 => ix'[h] = ix[h]
        /\ \A h \in 0 .. HashN - 1 : ix[h] # n + 1
    BY <2>1, <2>2, SlotTaken
  <2>4. \A j \in Heads, c \in 0 .. HashN - 1 : Slot(j, c) \in 0 .. HashN - 1
    BY SlotType DEF TypeOK
  <2>6. OneSlot'
    BY <2>1, <2>2, <2>3 DEF OneSlot
  <2>7. \E h \in 0 .. HashN - 1 : ix'[h] = 0
    <3>1. \A g, h \in 0 .. HashN - 1 : ix'[g] = ix'[h] /\ ix'[g] # 0 => g = h
      BY <2>6 DEF OneSlot
    <3>2. n + 1 \in Nat /\ n + 1 <= ResidentN
      BY <2>1, TablesAssumption
    <3>3. ix' \in [0 .. HashN - 1 -> 0 .. n + 1]
      BY <2>1, <2>2, SlotTaken
    <3> HIDE DEF n, z
    <3> QED BY <3>1, <3>2, <3>3, SlotLeft
  <2>8. ASSUME NEW i \in 1 .. n PROVE ~(resident[i].key = k /\ resident[i].shape = s)
    <3> SUFFICES ASSUME resident[i].key = k, resident[i].shape = s PROVE FALSE
      OBVIOUS
    <3>1. PICK c \in 0 .. HashN - 1 :
            ix[Slot(k, c)] = i /\ \A b \in 0 .. c - 1 : ix[Slot(k, b)] # 0
      BY DEF TableSound
    <3>2. Ends(k, s, c)
      BY <3>1 DEF Ends, Holds
    <3>3. CASE c < d
      BY <3>2, <3>3, <2>1 DEF Stops
    <3>4. CASE c = d
      BY <3>1, <3>4, <2>1
    <3>5. CASE d < c
      BY <3>1, <3>5, <2>1
    <3> QED BY <3>3, <3>4, <3>5
  <2>9. Len(resident') <= ResidentN
    BY <2>1, TablesAssumption
  <2>10. ASSUME NEW i \in 1 .. n + 1, NEW j \in 1 .. n + 1,
                resident'[i].key = resident'[j].key, resident'[i].shape = resident'[j].shape
         PROVE  i = j
    <3>1. resident'[n + 1].key = k /\ resident'[n + 1].shape = s
      BY <2>1 DEF Image
    <3>2. CASE i \in 1 .. n /\ j \in 1 .. n
      BY <3>2, <2>10, <2>1 DEF TableSound
    <3>3. CASE i = n + 1 /\ j \in 1 .. n
      BY <3>1, <3>3, <2>10, <2>1, <2>8
    <3>4. CASE j = n + 1 /\ i \in 1 .. n
      BY <3>1, <3>4, <2>10, <2>1, <2>8
    <3> QED BY <3>2, <3>3, <3>4, <2>1
  <2>11. ASSUME NEW i \in 1 .. n + 1
         PROVE  \E c \in 0 .. HashN - 1 :
                  /\ ix'[Slot(resident'[i].key, c)] = i
                  /\ \A b \in 0 .. c - 1 : ix'[Slot(resident'[i].key, b)] # 0
    <3>1. CASE i \in 1 .. n
      <4> DEFINE j == resident[i].key
      <4>1. j \in Heads /\ resident'[i].key = j
        BY <3>1, <2>1, ResidentEntry
      <4>2. PICK c \in 0 .. HashN - 1 :
              ix[Slot(j, c)] = i /\ \A b \in 0 .. c - 1 : ix[Slot(j, b)] # 0
        BY <3>1 DEF TableSound
      <4> HIDE DEF j
      <4>3. ix'[Slot(j, c)] = i
        <5>1. Slot(j, c) \in 0 .. HashN - 1 /\ i # 0
          BY <3>1, <4>1, <2>1, <2>4
        <5> QED BY <4>2, <5>1, <2>3
      <4>4. ASSUME NEW b \in 0 .. c - 1 PROVE ix'[Slot(j, b)] # 0
        <5>0. b \in 0 .. HashN - 1
          BY TablesAssumption
        <5>1. Slot(j, b) \in 0 .. HashN - 1
          BY <4>1, <5>0, <2>4
        <5> QED BY <4>2, <5>1, <2>3
      <4> QED BY <4>1, <4>3, <4>4
    <3>2. CASE i = n + 1
      <4>1. resident'[i].key = k /\ ix'[Slot(k, d)] = i
        <5>1. Image(k, s, kv).key = k
          BY DEF Image
        <5> QED BY <3>2, <5>1, <2>1, <2>3
      <4>2. ASSUME NEW b \in 0 .. d - 1 PROVE ix'[Slot(k, b)] # 0
        <5>1. ~Ends(k, s, b) /\ b \in 0 .. HashN - 1
          BY <2>1, TablesAssumption DEF Stops
        <5>2. ix[Slot(k, b)] # 0
          BY <5>1 DEF Ends
        <5>3. Slot(k, b) \in 0 .. HashN - 1
          BY <5>1, <2>4
        <5> QED BY <5>2, <5>3, <2>3
      <4> QED BY <4>1, <4>2
    <3> QED BY <3>1, <3>2, <2>1
  <2>12. TableSound'
    BY <2>1, <2>7, <2>9, <2>10, <2>11 DEF TableSound, Slot
  <2>13. Past'
    <3>1. \A i \in 1 .. n : resident'[i].ver <= kv
      BY <2>1 DEF Past
    <3>2. Image(k, s, kv).ver = kv /\ kv <= kv
      BY TablesAssumption DEF Image, TypeOK, Versions
    <3> QED BY <2>1, <3>1, <3>2 DEF Past
  <2> QED BY <2>6, <2>12, <2>13
<1>3. CASE NextInput
  <2>1. hash' = hash /\ ix' = ix /\ resident' = resident /\ kv' = kv + 1
    BY <1>3 DEF NextInput
  <2>2. Past'
    <3>1. kv \in Nat
      BY TablesAssumption DEF TypeOK, Versions
    <3> QED BY <2>1, <3>1, ResidentEntry DEF Past
  <2> QED BY <2>1, <2>2 DEF OneSlot, TableSound, Slot
<1> QED BY <1>1, <1>2, <1>3 DEF ResidentStep, WResident, Bypass, ResidentHit, ResidentFull
-----------------------------------------------------------------------------
\* What is handed out is what was asked for.
LEMMA ServesStep ==
  ASSUME TablesInv, Next
  PROVE  ServesWhatWasAsked'
<1> USE DEF TablesInv
<1>1. ASSUME answer' = answer, kv' = kv \/ kv' > 0 PROVE ServesWhatWasAsked'
  BY <1>1 DEF ServesWhatWasAsked
<1>2. ASSUME NEW want, NEW got, Answer(want, got), kv' = kv,
             got # None => /\ got.key = want.key /\ got.shape = want.shape
                           /\ got.ver = want.ver \/ (kv > 0 /\ want.key \in Heads)
      PROVE  ServesWhatWasAsked'
  BY <1>2 DEF Answer, ServesWhatWasAsked
<1>3. CASE CacheStep /\ UNCHANGED residentVars
  <2>1. kv' = kv
    BY <1>3 DEF residentVars
  <2>2. ASSUME NEW k \in Layers, NEW s \in Shapes, CacheHit(k, s) PROVE ServesWhatWasAsked'
    <3>1. PICK i \in Cached(k, s) : Answer(Image(k, s, weights[k]), InArena(cache[i]))
      BY <2>2 DEF CacheHit
    <3>2. i \in 1 .. Len(cache) /\ cache[i].key = k /\ cache[i].shape = s
      BY DEF Cached, IsFor
    <3>3. cache[i].pa \in Area(cache[i])
      BY <3>2, CachedType DEF Below, Area
    <3>4. InArena(cache[i]) = Image(k, s, weights[k])
      BY <3>2, <3>3 DEF ImagesIntact, InArena
    <3> QED BY <3>1, <3>4, <2>1, <1>2
  <2>3. ASSUME NEW k \in Layers, NEW s \in Shapes, CacheRefuses(k, s) \/ CacheBuild(k, s)
        PROVE  ServesWhatWasAsked'
    BY <2>3, <2>1, <1>2 DEF CacheRefuses, CacheBuild
  <2>4. CASE RtForget \/ \E k \in Layers : Rewrite(k)
    BY <2>4, <2>1, <1>1 DEF RtForget, Rewrite
  <2> QED BY <1>3, <2>2, <2>3, <2>4 DEF CacheStep, ImageBits
<1>4. CASE ResidentStep
  <2>1. ASSUME NEW k \in Heads, NEW s \in Lens, NEW d \in 0 .. HashN - 1, ResidentHit(k, s, d)
        PROVE  ServesWhatWasAsked'
    <3> DEFINE n == ix[Slot(k, d)]
    <3>1. n \in 1 .. Len(resident)
      BY <2>1, SlotType DEF ResidentHit, TypeOK
    <3>2. resident[n].key = k /\ resident[n].shape = s
      BY <2>1 DEF ResidentHit, Stops, Ends, Holds
    <3>3. resident[n].ver \in Nat /\ resident[n].ver <= kv /\ kv \in Nat
      <4>1. kv \in Nat
        BY TablesAssumption DEF TypeOK, Versions
      <4> HIDE DEF n
      <4> QED BY <3>1, <4>1, ResidentEntry DEF Past
    <3>4. /\ Answer(Image(k, s, kv), resident[n]) /\ kv' = kv
          /\ Image(k, s, kv).key = k /\ Image(k, s, kv).shape = s /\ Image(k, s, kv).ver = kv
      BY <2>1 DEF ResidentHit, residentVars, Image
    <3>5. resident[n].ver = kv \/ kv > 0
      BY <3>3
    <3> HIDE DEF n
    <3> QED BY <3>2, <3>4, <3>5, <1>2
  <2>2. ASSUME NEW k \in Heads, NEW s \in Lens,
               Bypass(k, s) \/ \E d \in 0 .. HashN - 1 : ResidentFull(k, s, d) \/ ResidentMiss(k, s, d)
        PROVE  ServesWhatWasAsked'
    BY <2>2, <1>2 DEF Bypass, ResidentFull, ResidentMiss, residentVars
  <2>3. CASE NextInput
    BY <2>3, <1>1, TablesAssumption DEF NextInput, TypeOK, Versions
  <2> QED BY <1>4, <2>1, <2>2, <2>3 DEF ResidentStep, WResident
<1> QED BY <1>3, <1>4, Steps

\* Every step keeps the whole invariant.
LEMMA InvStep == TablesInv /\ [Next]_vars => TablesInv'
<1> SUFFICES ASSUME TablesInv, [Next]_vars PROVE TablesInv'
  OBVIOUS
<1> USE DEF TablesInv
<1>1. CASE UNCHANGED vars
  <2>1. UNCHANGED <<weights, cache, imgNext, arena, kv, hash, ix, resident, answer>>
    BY <1>1 DEF vars, cacheVars, residentVars
  <2>2. TypeOK' /\ Below' /\ OneSlot' /\ Past' /\ ServesWhatWasAsked'
    BY <2>1 DEF TypeOK, Below, OneSlot, Past, ServesWhatWasAsked
  <2>3. ImagesIntact'
    BY <2>1 DEF ImagesIntact, Area
  <2>4. TableSound'
    BY <2>1 DEF TableSound, Slot
  <2> QED BY <2>2, <2>3, <2>4
<1>2. CASE CacheStep /\ UNCHANGED residentVars
  <2>1. OneSlot' /\ Past'
    BY <1>2 DEF residentVars, OneSlot, Past
  <2>2. TableSound'
    BY <1>2 DEF residentVars, TableSound, Slot
  <2>3. ServesWhatWasAsked'
    BY <1>2, ServesStep DEF Next, CacheStep
  <2> QED BY <1>2, <2>1, <2>2, <2>3, CacheType, IntactStep
<1>3. CASE ResidentStep /\ UNCHANGED cacheVars
  <2>1. Below' /\ ImagesIntact'
    BY <1>3 DEF cacheVars, Below, ImagesIntact, Area
  <2>2. ServesWhatWasAsked'
    BY <1>3, ServesStep DEF Next, ResidentStep
  <2> QED BY <1>3, <2>1, <2>2, ResidentType, TableStep
<1> QED BY <1>1, <1>2, <1>3, Steps
-----------------------------------------------------------------------------
(* THEOREMS *)

\* The inductive invariant of both tables.
THEOREM TablesHold == Spec => []TablesInv
BY InitInv, InvStep, PTL DEF Spec

\* Every variable keeps its type; in particular the bump pointer stays in the
\* arena.
THEOREM TypeCorrect == Spec => []TypeOK
<1>1. TablesInv => TypeOK
  BY DEF TablesInv
<1> QED BY TablesHold, <1>1, PTL

\* A cached weight image is whole and the image of its layer's bytes.
THEOREM ImagesIntactHolds == Spec => []ImagesIntact
<1>1. TablesInv => ImagesIntact
  BY DEF TablesInv
<1> QED BY TablesHold, <1>1, PTL

\* Every probe of the resident table ends and finds what was built.
THEOREM TableSoundHolds == Spec => []TableSound
<1>1. TablesInv => TableSound
  BY DEF TablesInv
<1> QED BY TablesHold, <1>1, PTL

\* Both tables hand out what was asked for.
THEOREM ServesWhatWasAskedHolds == Spec => []ServesWhatWasAsked
<1>1. TablesInv => ServesWhatWasAsked
  BY DEF TablesInv
<1> QED BY TablesHold, <1>1, PTL
=============================================================================
