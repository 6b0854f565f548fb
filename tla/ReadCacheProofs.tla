-------------------------- MODULE ReadCacheProofs ---------------------------
(***************************************************************************)
(* What the cache of state_reader guarantees, whoever writes the file and  *)
(* clears the cache, for any readers, any TTL and any times. CacheStep is  *)
(* all that the modules over ReadCache do to its variables.                *)
(***************************************************************************)
EXTENDS ReadCache, Integers, TLAPS

(* A write, and a clearing after which a request is answered. *)
Writes == Replace /\ UNCHANGED <<now, readers, promised>>

Confirms ==
  ClearCache /\ Promise
    /\ UNCHANGED <<now, replaced, stage, began, loaded, floor>>

CacheStep ==
  \/ \E r \in Reader : Read(r)
  \/ Writes \/ Confirms \/ ClearedByOthers \/ Tick
  \/ UNCHANGED cacheVars

-----------------------------------------------------------------------------
(* Nothing lies in the future. *)
Past ==
  /\ \A v \in 1..Len(replaced) : replaced[v] <= now
  /\ \A e \in cached : e.at <= now
  /\ \A r \in Reader : began[r] <= now

(* A version was in the file at a time, or was put there later. *)
InFileSince(version, at) ==
  /\ version <= Version
  /\ version < Version => replaced[version] >= at

(* An entry, and what is about to become one, was in the file when the     *)
(* read began or later, and is as new as what was promised.                *)
EntriesHold ==
  \A e \in cached : InFileSince(e.version, e.at) /\ promised <= e.version

LoadsHold ==
  \A r \in Reader : stage[r] = "storing" =>
    /\ InFileSince(loaded[r], began[r])
    /\ promised <= loaded[r] /\ floor[r] <= loaded[r]

PromisesHold == promised <= Version /\ \A r \in Reader : floor[r] <= promised

CacheInv == CacheTypeOK /\ Past /\ EntriesHold /\ LoadsHold /\ PromisesHold

LEMMA CacheInitInv == CacheInit => CacheInv
BY ReadCacheAssumption
   DEF ReadCacheAssumption, CacheInit, CacheInv, CacheTypeOK, Past,
       EntriesHold, LoadsHold, PromisesHold, Version, Versions

(* What a writer appends to, in terms of the old and the new file. *)
LEMMA ReplaceFacts ==
  ASSUME CacheTypeOK, Replace
  PROVE  /\ replaced' \in Seq(0..MaxTime)
         /\ Version \in Nat /\ Version' = Version + 1 /\ Version' \in Versions
         /\ \A v \in 1..Len(replaced) : replaced'[v] = replaced[v]
         /\ replaced'[Version] = now
         /\ Len(replaced') = Len(replaced) + 1
<1>1. /\ replaced \in Seq(0..MaxTime) /\ now \in 0..MaxTime
      /\ Len(replaced) \in Nat
  BY DEF CacheTypeOK
<1>2. replaced' = Append(replaced, now) /\ Len(replaced) + 1 < MaxVersions
  BY DEF Replace, Version
<1>3. QED
  BY <1>1, <1>2, ReadCacheAssumption DEF ReadCacheAssumption, Version, Versions

LEMMA ReadInv ==
  ASSUME CacheInv, NEW r \in Reader, Read(r)
  PROVE  CacheInv'
<1> USE DEF CacheInv
<1>1. /\ now \in Nat /\ Len(replaced) \in Nat /\ promised \in Nat
      /\ Version \in Versions
      /\ \A s \in Reader : floor[s] \in Nat
  BY ReadCacheAssumption DEF CacheTypeOK, Versions, ReadCacheAssumption
<1>2. CASE Miss(r)
  BY <1>1, <1>2
     DEF Miss, CacheTypeOK, Past, EntriesHold, LoadsHold, PromisesHold,
         InFileSince, Version
<1>3. CASE Load(r)
  BY <1>1, <1>3
     DEF Load, CacheTypeOK, Past, EntriesHold, LoadsHold, PromisesHold,
         InFileSince, Version, Versions
<1>4. CASE Store(r)
  <2>1. /\ stage[r] = "storing"
        /\ cached' = {[at |-> began[r], version |-> loaded[r]]}
        /\ stage' = [stage EXCEPT ![r] = "idle"]
        /\ began' = [began EXCEPT ![r] = 0]
        /\ loaded' = [loaded EXCEPT ![r] = 1]
        /\ floor' = [floor EXCEPT ![r] = 1]
        /\ UNCHANGED <<now, replaced, promised>>
    BY <1>4 DEF Store, Return
  <2>2. CacheTypeOK'
    BY <2>1, ReadCacheAssumption
       DEF CacheTypeOK, Version, Versions, ReadCacheAssumption
  <2>3. EntriesHold'
    BY <2>1 DEF EntriesHold, LoadsHold, InFileSince, Version
  <2>4. Past' /\ LoadsHold' /\ PromisesHold'
    BY <1>1, <2>1, ReadCacheAssumption
       DEF Past, LoadsHold, PromisesHold, InFileSince, Version, CacheTypeOK,
           Versions, ReadCacheAssumption
  <2>5. QED
    BY <2>2, <2>3, <2>4
<1>5. QED
  BY <1>2, <1>3, <1>4 DEF Read

LEMMA WritesInv == CacheInv /\ Writes => CacheInv'
<1> SUFFICES ASSUME CacheInv, Writes
             PROVE  CacheInv'
  OBVIOUS
<1> USE DEF CacheInv
<1>1. /\ UNCHANGED <<now, cached, stage, began, loaded, floor, promised>>
      /\ Replace
  BY DEF Writes, readers
<1>2. /\ replaced' \in Seq(0..MaxTime)
      /\ Version \in Nat /\ Version' = Version + 1 /\ Version' \in Versions
      /\ \A v \in 1..Len(replaced) : replaced'[v] = replaced[v]
      /\ replaced'[Version] = now
      /\ Len(replaced') = Len(replaced) + 1
      /\ Len(replaced) \in Nat /\ now \in Nat
  BY <1>1, ReplaceFacts DEF CacheTypeOK
<1>3. CacheTypeOK'
  BY <1>1, <1>2 DEF CacheTypeOK
<1>4. ASSUME NEW version \in Versions, NEW at \in 0..MaxTime, at <= now,
             InFileSince(version, at)
      PROVE  InFileSince(version, at)'
  <2>1. version <= Version /\ (version < Version => replaced[version] >= at)
    BY <1>4 DEF InFileSince
  <2>2. /\ version \in Nat /\ version >= 1 /\ at \in Nat
        /\ Version = Len(replaced) + 1
    BY ReadCacheAssumption DEF Version, Versions, ReadCacheAssumption
  <2>3. version < Version => replaced'[version] = replaced[version]
    BY <1>2, <2>2
  <2>4. version <= Version' /\ (version < Version' => replaced'[version] >= at)
    BY <1>2, <1>4, <2>1, <2>2, <2>3
  <2>5. QED
    BY <1>1, <2>4 DEF InFileSince
<1>5. EntriesHold' /\ LoadsHold'
  BY <1>1, <1>4 DEF EntriesHold, LoadsHold, Past, CacheTypeOK, InFileSince
<1>6. Past'
  BY <1>1, <1>2 DEF Past, Version
<1>7. PromisesHold'
  BY <1>1, <1>2, ReadCacheAssumption
     DEF PromisesHold, CacheTypeOK, Versions, ReadCacheAssumption
<1>8. QED
  BY <1>3, <1>5, <1>6, <1>7

LEMMA ConfirmsInv == CacheInv /\ Confirms => CacheInv'
<1> SUFFICES ASSUME CacheInv, Confirms
             PROVE  CacheInv'
  OBVIOUS
<1> USE DEF CacheInv
<1>1. /\ UNCHANGED <<now, replaced, stage, began, loaded, floor>>
      /\ cached' = {}
      /\ \/ promised' = promised
         \/ promised' = Version /\ \A r \in Reader : stage[r] # "storing"
  BY DEF Confirms, ClearCache, Promise
<1>2. Version' = Version /\ Version \in Versions /\ promised \in Versions
      /\ Versions \subseteq Nat
  BY <1>1, ReadCacheAssumption
     DEF CacheTypeOK, Version, Versions, ReadCacheAssumption
<1>3. CacheTypeOK' /\ Past' /\ EntriesHold'
  BY <1>1, <1>2 DEF CacheTypeOK, Past, EntriesHold
<1>4. PromisesHold'
  <2>1. \A r \in Reader : floor[r] \in Nat /\ floor'[r] = floor[r]
    BY <1>1, <1>2 DEF CacheTypeOK
  <2>2. QED
    BY <1>1, <1>2, <2>1 DEF PromisesHold
<1>5. LoadsHold'
  BY <1>1, <1>2 DEF LoadsHold, InFileSince
<1>6. QED
  BY <1>3, <1>4, <1>5

(* The invariant is preserved by whatever is done to the cache and its file. *)
LEMMA CacheInvStep == CacheInv /\ CacheStep => CacheInv'
<1> SUFFICES ASSUME CacheInv, CacheStep
             PROVE  CacheInv'
  OBVIOUS
<1>1. CASE \E r \in Reader : Read(r)
  BY <1>1, ReadInv
<1>2. CASE ClearedByOthers
  BY <1>2
     DEF ClearedByOthers, ClearCache, CacheInv, CacheTypeOK, Past, EntriesHold,
         LoadsHold, PromisesHold, InFileSince, Version
<1>3. CASE Tick
  <2>1. /\ now' = now + 1 /\ now < MaxTime
        /\ UNCHANGED <<replaced, cached, stage, began, loaded, floor, promised>>
    BY <1>3 DEF Tick, readers
  <2>2. CacheTypeOK' /\ Past'
    BY <2>1, ReadCacheAssumption
       DEF CacheInv, CacheTypeOK, Past, Version, ReadCacheAssumption
  <2>3. EntriesHold' /\ LoadsHold' /\ PromisesHold'
    BY <2>1
       DEF CacheInv, EntriesHold, LoadsHold, PromisesHold, InFileSince, Version
  <2>4. QED
    BY <2>2, <2>3 DEF CacheInv
<1>4. CASE UNCHANGED cacheVars
  BY <1>4
     DEF cacheVars, CacheInv, CacheTypeOK, Past, EntriesHold, LoadsHold,
         PromisesHold, InFileSince, Version
<1>5. QED
  BY <1>1, <1>2, <1>3, <1>4, WritesInv, ConfirmsInv DEF CacheStep

-----------------------------------------------------------------------------
LEMMA InvBoundsStaleness == CacheInv => BoundedStaleness
<1> SUFFICES ASSUME CacheInv, NEW a \in Answers, a.version < Version
             PROVE  replaced[a.version] + TTL > a.asked
  BY DEF BoundedStaleness
<1>1. /\ TTL \in Nat \ {0} /\ now \in Nat
      /\ replaced \in Seq(0..MaxTime) /\ Len(replaced) \in Nat
  BY ReadCacheAssumption DEF CacheInv, CacheTypeOK, ReadCacheAssumption
<1>2. ASSUME NEW v \in Versions, v < Version
      PROVE  replaced[v] \in Nat
  BY <1>1, <1>2, ReadCacheAssumption DEF Version, Versions, ReadCacheAssumption
<1>3. ASSUME NEW e \in Hits,
             a = [version |-> e.version, asked |-> now, floor |-> promised]
      PROVE  replaced[a.version] + TTL > a.asked
  <2>1. e \in [at : 0..MaxTime, version : Versions] /\ now - e.at < TTL
        /\ InFileSince(e.version, e.at)
    BY <1>3 DEF Hits, Fresh, CacheInv, CacheTypeOK, EntriesHold
  <2>2. QED
    BY <1>1, <1>2, <1>3, <2>1, ReadCacheAssumption
       DEF InFileSince, ReadCacheAssumption
<1>4. ASSUME NEW r \in Reader, stage[r] = "storing",
             a = [version |-> loaded[r], asked |-> began[r], floor |-> floor[r]]
      PROVE  replaced[a.version] + TTL > a.asked
  <2>1. /\ loaded[r] \in Versions /\ began[r] \in 0..MaxTime
        /\ InFileSince(loaded[r], began[r])
    BY <1>4 DEF CacheInv, CacheTypeOK, LoadsHold
  <2>2. QED
    BY <1>1, <1>2, <1>4, <2>1, ReadCacheAssumption
       DEF InFileSince, ReadCacheAssumption
<1>5. QED
  BY <1>3, <1>4 DEF Answers

LEMMA InvReadsOwnWrites == CacheInv => ReadYourWrites
<1> SUFFICES ASSUME CacheInv, NEW a \in Answers
             PROVE  a.version >= a.floor
  BY DEF ReadYourWrites
<1>1. ASSUME NEW e \in Hits,
             a = [version |-> e.version, asked |-> now, floor |-> promised]
      PROVE  a.version >= a.floor
  BY <1>1, ReadCacheAssumption
     DEF Hits, CacheInv, CacheTypeOK, EntriesHold, Versions, ReadCacheAssumption
<1>2. ASSUME NEW r \in Reader, stage[r] = "storing",
             a = [version |-> loaded[r], asked |-> began[r], floor |-> floor[r]]
      PROVE  a.version >= a.floor
  BY <1>2, ReadCacheAssumption
     DEF CacheInv, CacheTypeOK, LoadsHold, Versions, ReadCacheAssumption
<1>3. QED
  BY <1>1, <1>2 DEF Answers
=============================================================================
