----------------------------- MODULE ReadCache ------------------------------
(***************************************************************************)
(* The 5 s cache of state_reader.py in front of one file (a strategy's     *)
(* state.json or merged config, or the allocation). A read takes the time, *)
(* looks the entry up, and if there is none or it is too old loads the     *)
(* file and stores what it loaded under the time it began with. Requests   *)
(* run in threads of the pool and nothing orders a load and a clearing.    *)
(*                                                                         *)
(* What the file says is abstracted to its version: the n-th content it    *)
(* has had. The modules that write the file (ConfigCommit, ManualActions,  *)
(* Allocation) extend this one and use Replace and ClearCache.             *)
(***************************************************************************)
EXTENDS Naturals, Sequences

CONSTANTS
  Reader,      \* requests that read the file through the cache
  TTL,         \* _CACHE_TTL, in ticks
  MaxTime,     \* bound: ticks
  MaxVersions  \* bound: contents of the file

ASSUME ReadCacheAssumption ==
  /\ TTL \in Nat \ {0}
  /\ MaxTime \in Nat
  /\ MaxVersions \in Nat \ {0}

VARIABLES
  now,       \* time.monotonic()
  replaced,  \* replaced[v]: when version v was replaced
  cached,    \* the entry of the cache; empty: none
  stage,     \* where each reader is
  began,     \* the time its read began with
  loaded,    \* the version it has loaded
  promised,  \* history: the oldest version a read that begins now may show
  floor      \* history: promised when the read began

readers   == <<cached, stage, began, loaded, floor>>
cacheVars == <<now, replaced, cached, stage, began, loaded, promised, floor>>

Version == Len(replaced) + 1

-----------------------------------------------------------------------------
(* What a writer does. *)

(* The file is replaced as a whole, as every writer of it does. *)
Replace ==
  /\ Version < MaxVersions
  /\ replaced' = Append(replaced, now)

(* Mutation: the entry is left where it is. *)
ClearNothing == UNCHANGED cached

(* clear_cache. *)
ClearCache == cached' = {}

(* A request that has written is answered, after it has cleared the cache: *)
(* a read that begins from here on is to show what the file says now,      *)
(* unless a load that is already done is yet to be stored.                 *)
Promise ==
  promised' = IF \E r \in Reader : stage[r] = "storing"
              THEN promised ELSE Version

-----------------------------------------------------------------------------
(* _cached, step by step. *)
Fresh(entry) == now - entry.at < TTL

(* A read that finds a fresh entry changes nothing: its answer is below.   *)
Hits == {entry \in cached : Fresh(entry)}

Miss(r) ==
  /\ stage[r] = "idle"
  /\ Hits = {}
  /\ stage' = [stage EXCEPT ![r] = "loading"]
  /\ began' = [began EXCEPT ![r] = now]
  /\ floor' = [floor EXCEPT ![r] = promised]
  /\ UNCHANGED <<now, replaced, cached, loaded, promised>>

Load(r) ==
  /\ stage[r] = "loading"
  /\ stage' = [stage EXCEPT ![r] = "storing"]
  /\ loaded' = [loaded EXCEPT ![r] = Version]
  /\ UNCHANGED <<now, replaced, cached, began, promised, floor>>

Return(r) ==
  /\ stage' = [stage EXCEPT ![r] = "idle"]
  /\ began' = [began EXCEPT ![r] = 0]
  /\ loaded' = [loaded EXCEPT ![r] = 1]
  /\ floor' = [floor EXCEPT ![r] = 1]

(* Mutation: the entry is stamped with the time at which it is stored. *)
StoreStampedLate(r) ==
  /\ stage[r] = "storing"
  /\ cached' = {[at |-> now, version |-> loaded[r]]}
  /\ Return(r)
  /\ UNCHANGED <<now, replaced, promised>>

(* Whatever another thread has stored or cleared meanwhile. *)
Store(r) ==
  /\ stage[r] = "storing"
  /\ cached' = {[at |-> began[r], version |-> loaded[r]]}
  /\ Return(r)
  /\ UNCHANGED <<now, replaced, promised>>

(* A process outside the server writes the file and clears nothing: a run  *)
(* of the strategy, an editor.                                             *)
WriteOutside ==
  /\ Replace
  /\ UNCHANGED <<now, readers, promised>>

(* A request for something else clears the whole cache. *)
ClearedByOthers ==
  /\ cached # {}
  /\ ClearCache
  /\ UNCHANGED <<now, replaced, stage, began, loaded, promised, floor>>

Tick ==
  /\ now < MaxTime
  /\ now' = now + 1
  /\ UNCHANGED <<replaced, readers, promised>>

-----------------------------------------------------------------------------
CacheInit ==
  /\ now = 0
  /\ replaced = <<>>
  /\ cached = {}
  /\ stage = [r \in Reader |-> "idle"]
  /\ began = [r \in Reader |-> 0]
  /\ loaded = [r \in Reader |-> 1]
  /\ promised = 1
  /\ floor = [r \in Reader |-> 1]

Read(r) == Miss(r) \/ Load(r) \/ Store(r)

CacheNext ==
  \/ \E r \in Reader : Read(r)
  \/ WriteOutside
  \/ ClearedByOthers
  \/ Tick

Versions == 1..MaxVersions

CacheTypeOK ==
  /\ now \in 0..MaxTime
  /\ replaced \in Seq(0..MaxTime)
  /\ Version \in Versions
  /\ cached \in SUBSET [at : 0..MaxTime, version : Versions]
  /\ stage \in [Reader -> {"idle", "loading", "storing"}]
  /\ began \in [Reader -> 0..MaxTime]
  /\ loaded \in [Reader -> Versions]
  /\ promised \in Versions
  /\ floor \in [Reader -> Versions]

(* Every answer that a read can be given next: from a fresh entry, or what *)
(* it has loaded.                                                          *)
Answers ==
  {[version |-> entry.version, asked |-> now, floor |-> promised] :
     entry \in Hits}
  \cup
  {[version |-> loaded[r], asked |-> began[r], floor |-> floor[r]] :
     r \in {r \in Reader : stage[r] = "storing"}}

(* No answer is older than the cache allows: what a read shows is in the   *)
(* file, or was there less than TTL before the read began, however long a  *)
(* load takes and whatever is cleared meanwhile ("STOP file changes        *)
(* propagate to UI within ~5 seconds").                                    *)
BoundedStaleness ==
  \A a \in Answers :
    a.version < Version => replaced[a.version] + TTL > a.asked

(* A read that begins after a request was confirmed shows what that        *)
(* request has written or something newer, unless a load was already done  *)
(* and not yet stored when the request cleared the cache ("the very next   *)
(* GET sees the new YAML value instead of the pre-write cached copy").     *)
ReadYourWrites == \A a \in Answers : a.version >= a.floor
=============================================================================
