---------------------------- MODULE ImageTables ----------------------------
(***************************************************************************)
(* The two tables in which hart 0 keeps the weight images the units read:  *)
(* mbxr_rt_image_bits's cache of layer images in a 64 MB arena (mbxr_rt.h) *)
(* and attention's resident table of packed K/V images, an open-addressed  *)
(* index that never evicts (roccmoon_attention_s8_roccmoon_lane.c).        *)
(*                                                                         *)
(* Both are keyed by addresses, never by bytes, so what they hand out is   *)
(* right only as long as the bytes behind a key last.  A version stands    *)
(* for the bytes; an image is the key, the shape and the version it was    *)
(* built from.                                                             *)
(***************************************************************************)
EXTENDS Naturals, Sequences, FiniteSets

CONSTANTS
  Layers,       \* the addresses of weight arrays, or of chunks of one
  Shapes,       \* kind, N, Kp and wbits of a layer
  BytesOf,      \* the planner: what a shape's image takes; 0 is a refusal
  ArenaEnd,     \* MBXR_RT_IMG_END - MBXR_RT_IMG_BASE
  MaxLayers,    \* MBXR_RT_MAX_LAYERS
  Heads,        \* the addresses of one head's K and V
  Lens,         \* the S of a call and the dimensions that follow from it
  ShortLens,    \* those with S < MBXA_RES_MINS
  ResidentN,    \* MBXA_RESIDENT_N
  HashN,        \* MBXA_RES_HASH
  MaxRewrites   \* bound: times the harness rewrites weights, or an inference
                \* gets a new input

ASSUME TablesAssumption ==
  /\ BytesOf \in [Shapes -> Nat] /\ ArenaEnd \in Nat /\ MaxLayers \in Nat
  /\ MaxRewrites \in Nat /\ ResidentN \in Nat \ {0}
  /\ HashN \in Nat /\ HashN >= 2 * ResidentN
  /\ Layers \cap Heads = {} /\ "none" \notin Layers \cup Heads

VARIABLES
  weights,  \* version of the bytes of each layer and its bias
  cache,    \* mbxr_rt_cache[0 .. mbxr_rt_ncache - 1]
  imgNext,  \* mbxr_rt_img_next
  arena,    \* what lies in each byte of the arena
  kv,       \* version of the K and V tensors: the inference they are of
  hash,     \* mbxa_res_h
  ix,       \* mbxa_res_ix: entry index + 1, 0 = empty
  resident, \* mbxa_res_key[0 .. mbxa_res_n - 1] with mbxa_res_img
  answer    \* history: the image last asked for and the one handed out

cacheVars    == <<weights, cache, imgNext, arena>>
residentVars == <<kv, hash, ix, resident>>
vars         == <<cacheVars, residentVars, answer>>

Versions == 0 .. MaxRewrites
Image(key, shape, ver) == [key |-> key, shape |-> shape, ver |-> ver]
None == Image("none", "none", 0)   \* NULL, and what no build has written
Answer(want, got) == answer' = [want |-> want, got |-> got]

Init ==
  /\ weights = [k \in Layers |-> 0] /\ cache = <<>> /\ imgNext = 0
  /\ arena = [b \in 0 .. ArenaEnd - 1 |-> None]
  /\ kv = 0 /\ hash \in [Heads -> 0 .. HashN - 1]
  /\ ix = [h \in 0 .. HashN - 1 |-> 0] /\ resident = <<>>
  /\ answer = [want |-> None, got |-> None]
-----------------------------------------------------------------------------
(* THE WEIGHT-IMAGE CACHE *)

ByKey(e, k, s)  == e.key = k            \* mutant of IsFor: Lab B25 run 7
IsFor(e, k, s)  == e.key = k /\ e.shape = s
Cached(k, s)    == {i \in 1 .. Len(cache) : IsFor(cache[i], k, s)}
Area(e)         == e.pa .. e.pa + BytesOf[e.shape] - 1
InArena(e)      == arena[e.pa]

CacheHit(k, s) ==
  \E i \in Cached(k, s) :
    /\ \A j \in Cached(k, s) : i <= j
    /\ Answer(Image(k, s, weights[k]), InArena(cache[i]))
    /\ UNCHANGED cacheVars

\* No entry left, a plan the planner refuses, or no room for its bytes.
Refused(s) == \/ Len(cache) = MaxLayers \/ BytesOf[s] = 0
              \/ imgNext + BytesOf[s] > ArenaEnd

CacheRefuses(k, s) ==
  /\ Cached(k, s) = {} /\ Refused(s)
  /\ Answer(Image(k, s, weights[k]), None) /\ UNCHANGED cacheVars

Stays(s)   == imgNext                   \* mutant of Advance
Advance(s) == imgNext + BytesOf[s]

CacheBuild(k, s) ==
  /\ Cached(k, s) = {} /\ ~Refused(s)
  /\ LET e == [key |-> k, shape |-> s, pa |-> imgNext] IN
       /\ cache' = Append(cache, e)
       /\ arena' = [b \in DOMAIN arena |->
                      IF b \in Area(e) THEN Image(k, s, weights[k]) ELSE arena[b]]
  /\ imgNext' = Advance(s)
  /\ Answer(Image(k, s, weights[k]), Image(k, s, weights[k]))
  /\ UNCHANGED weights

\* mbxr_rt_image_bits
ImageBits(k, s) == CacheHit(k, s) \/ CacheRefuses(k, s) \/ CacheBuild(k, s)

\* mbxr_rt_forget
RtForget == /\ cache # <<>> /\ cache' = <<>> /\ imgNext' = 0
            /\ UNCHANGED <<weights, arena, answer>>

\* "the same weight buffer, rewritten": a harness calls mbxr_rt_forget first,
\* and every image is built after it.
Rewrite(k) ==
  /\ imgNext = 0 /\ weights[k] < MaxRewrites
  /\ weights' = [weights EXCEPT ![k] = @ + 1]
  /\ UNCHANGED <<cache, imgNext, arena, answer>>
-----------------------------------------------------------------------------
(* THE RESIDENT TABLE *)

\* The slots a probe for head k visits, in order, are Slot(k, 0), Slot(k, 1)...
Slot(k, d)        == (hash[k] + d) % HashN
Holds(e, k, s)    == e.key = k /\ e.shape = s
Ends(k, s, d)     == LET n == ix[Slot(k, d)] IN n # 0 => Holds(resident[n], k, s)
\* the first slot that is empty or holds the entry
Stops(k, s, d)    == Ends(k, s, d) /\ \A c \in 0 .. d - 1 : ~Ends(k, s, c)

\* self-attention's shapes never enter the table
Bypass(k, s) ==
  /\ s \in ShortLens
  /\ Answer(Image(k, s, kv), Image(k, s, kv)) /\ UNCHANGED residentVars

ResidentHit(k, s, d) ==
  /\ s \notin ShortLens /\ Stops(k, s, d) /\ ix[Slot(k, d)] # 0
  /\ LET e == resident[ix[Slot(k, d)]] IN Answer(Image(k, s, kv), e)
  /\ UNCHANGED residentVars

TableFull == Len(resident) >= ResidentN

\* full: the caller's scratch
ResidentFull(k, s, d) ==
  /\ s \notin ShortLens /\ Stops(k, s, d) /\ ix[Slot(k, d)] = 0 /\ TableFull
  /\ Answer(Image(k, s, kv), Image(k, s, kv)) /\ UNCHANGED residentVars

FirstSlot(k, d) == Slot(k, 0)           \* mutant of EmptySlot
EmptySlot(k, d) == Slot(k, d)

ResidentMiss(k, s, d) ==
  /\ s \notin ShortLens /\ Stops(k, s, d) /\ ix[Slot(k, d)] = 0 /\ ~TableFull
  /\ resident' = Append(resident, Image(k, s, kv))
  /\ ix' = [ix EXCEPT ![EmptySlot(k, d)] = Len(resident) + 1]
  /\ Answer(Image(k, s, kv), Image(k, s, kv)) /\ UNCHANGED <<kv, hash>>

\* mbxa_w_resident
WResident(k, s) ==
  \/ Bypass(k, s)
  \/ \E d \in 0 .. HashN - 1 :
       ResidentHit(k, s, d) \/ ResidentFull(k, s, d) \/ ResidentMiss(k, s, d)

\* The encoder writes the next utterance's K and V where the last one's were.
NextInput == /\ kv < MaxRewrites /\ kv' = kv + 1
             /\ UNCHANGED <<hash, ix, resident, answer>>
-----------------------------------------------------------------------------
Next ==
  \/ /\ \/ \E k \in Layers, s \in Shapes : ImageBits(k, s)
        \/ RtForget \/ \E k \in Layers : Rewrite(k)
     /\ UNCHANGED residentVars
  \/ /\ \/ \E k \in Heads, s \in Lens : WResident(k, s)
        \/ NextInput
     /\ UNCHANGED cacheVars

Spec == Init /\ [][Next]_vars
-----------------------------------------------------------------------------
(* PROPERTIES *)

CacheEntries == [key : Layers, shape : Shapes, pa : Nat]
LayerImages  == [key : Layers, shape : Shapes, ver : Versions]
HeadImages   == [key : Heads, shape : Lens, ver : Versions]

TypeOK ==
  /\ weights \in [Layers -> Versions] /\ imgNext \in 0 .. ArenaEnd
  /\ cache \in Seq(CacheEntries)
  /\ arena \in [0 .. ArenaEnd - 1 -> LayerImages \cup {None}]
  /\ kv \in Versions /\ hash \in [Heads -> 0 .. HashN - 1]
  /\ resident \in Seq(HeadImages)
  /\ ix \in [0 .. HashN - 1 -> 0 .. Len(resident)]

\* Every cached image lies whole in the arena, in an area nobody else's build
\* has touched, and is the image of the bytes its layer has now, although the
\* arena is reused and the weights are rewritten.
ImagesIntact ==
  \A i \in 1 .. Len(cache) :
    \A b \in Area(cache[i]) :
      /\ b < ArenaEnd
      /\ arena[b] = Image(cache[i].key, cache[i].shape, weights[cache[i].key])

\* The resident table: no head and shape is built twice, and a probe for one
\* that was built finds it before it finds an empty slot, whatever the hash.
\* There is always an empty slot, so every probe ends, and no build goes past
\* the last image.
TableSound ==
  /\ Len(resident) <= ResidentN
  /\ \E h \in 0 .. HashN - 1 : ix[h] = 0
  /\ \A i, j \in 1 .. Len(resident) :
       resident[i].key = resident[j].key /\ resident[i].shape = resident[j].shape => i = j
  /\ \A i \in 1 .. Len(resident) : \E d \in 0 .. HashN - 1 :
       ix[Slot(resident[i].key, d)] = i
       /\ \A c \in 0 .. d - 1 : ix[Slot(resident[i].key, c)] # 0

\* Both tables hand out the image that was asked for: the right tensor, the
\* right shape, the bytes of now.  The resident table does so as long as K and
\* V are the first inference's: nothing clears it for the next one.
ServesWhatWasAsked ==
  answer.got # None =>
    /\ answer.got.key = answer.want.key /\ answer.got.shape = answer.want.shape
    /\ answer.got.ver = answer.want.ver \/ (kv > 0 /\ answer.want.key \in Heads)
=============================================================================
