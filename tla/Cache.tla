------------------------------- MODULE Cache -------------------------------
(***************************************************************************)
(* infrastructure/caching/cache.service.ts: one value of the database,     *)
(* cached in Redis under the prefix `cache:'.  remember reads the cache,   *)
(* computes the value when it is missing, and stores it, three awaits in   *)
(* all; an invalidation is one DEL, or a KEYS followed by a DEL of the     *)
(* keys found.  The cache invalidation worker deletes names without the    *)
(* prefix, and patterns as if they were names.                             *)
(***************************************************************************)
EXTENDS Naturals

CONSTANTS
  Readers,       \* calls of remember
  MaxVersions,   \* bound on versions of the cached value
  Missing

ASSUME CacheAssumption == MaxVersions \in Nat \ {0} /\ Missing \notin Nat

VARIABLES
  latest,     \* the value in the database: its version
  entry,      \* the entry `cache:<key>', or Missing
  computed,   \* the value a call of remember has computed and not yet stored
  reader,     \* where each call of remember is
  sweep,      \* the invalidation after each version's change
  straddles,  \* history: calls whose value was changed after they computed it
  straddled   \* history: the entry was stored by such a call

cacheVars == <<latest, entry, computed, reader, sweep, straddles, straddled>>

AllVersions == 1 .. MaxVersions
Sweeps == {"none", "due", "found", "empty", "swept", "literal"}

CacheTypeOK ==
  /\ latest \in AllVersions
  /\ entry \in AllVersions \cup {Missing}
  /\ computed \in [Readers -> AllVersions \cup {Missing}]
  /\ reader \in [Readers -> {"idle", "missed", "computed"}]
  /\ sweep \in [AllVersions -> Sweeps]
  /\ straddles \subseteq Readers
  /\ straddled \in BOOLEAN

CacheInit ==
  /\ latest = 1
  /\ entry = Missing
  /\ computed = [r \in Readers |-> Missing]
  /\ reader = [r \in Readers |-> "idle"]
  /\ sweep = [v \in AllVersions |-> "none"]
  /\ straddles = {}
  /\ straddled = FALSE

At(r, step) == reader' = [reader EXCEPT ![r] = step]
Sweep(v, step) == sweep' = [sweep EXCEPT ![v] = step]

(* remember: get finds nothing.  (A value it finds is returned.)           *)
Miss(r) ==
  /\ reader[r] = "idle"
  /\ entry = Missing
  /\ At(r, "missed")
  /\ UNCHANGED <<latest, entry, computed, sweep, straddles, straddled>>

(* await fn()                                                              *)
Compute(r) ==
  /\ reader[r] = "missed"
  /\ computed' = [computed EXCEPT ![r] = latest]
  /\ At(r, "computed")
  /\ UNCHANGED <<latest, entry, sweep, straddles, straddled>>

(* set, always with a time to live (300 seconds unless another is given).  *)
Store(r) ==
  /\ reader[r] = "computed"
  /\ entry' = computed[r]
  /\ straddled' = (r \in straddles)
  /\ straddles' = straddles \ {r}
  /\ computed' = [computed EXCEPT ![r] = Missing]
  /\ At(r, "idle")
  /\ UNCHANGED <<latest, sweep>>

(* A command changes the value; its invalidation is due.                   *)
ChangeValue ==
  /\ latest < MaxVersions
  /\ latest' = latest + 1
  /\ Sweep(latest + 1, "due")
  /\ straddles' = {r \in Readers : reader[r] = "computed"}
  /\ UNCHANGED <<entry, computed, reader, straddled>>

(* CacheService.del                                                        *)
DeleteEntry(v) ==
  /\ sweep[v] = "due"
  /\ entry' = Missing
  /\ Sweep(v, "swept")
  /\ straddled' = FALSE
  /\ UNCHANGED <<latest, computed, reader, straddles>>

(* invalidatePattern: KEYS ...                                             *)
FindKeys(v) ==
  /\ sweep[v] = "due"
  /\ Sweep(v, IF entry = Missing THEN "empty" ELSE "found")
  /\ UNCHANGED <<latest, entry, computed, reader, straddles, straddled>>

(* Variant: the keys found are not deleted.                                *)
ForgetFound(v) ==
  /\ sweep[v] \in {"found", "empty"}
  /\ Sweep(v, "swept")
  /\ UNCHANGED <<latest, entry, computed, reader, straddles, straddled>>

(* ... then DEL of the keys found.                                         *)
DeleteFound(v) ==
  /\ sweep[v] \in {"found", "empty"}
  /\ IF sweep[v] = "found" THEN entry' = Missing /\ straddled' = FALSE
                           ELSE UNCHANGED <<entry, straddled>>
  /\ Sweep(v, "swept")
  /\ UNCHANGED <<latest, computed, reader, straddles>>

(* The worker deletes `booking:<id>', `sector:<id>:bookings' and so on: no *)
(* entry of the service has such a name.                                   *)
WorkerDeletes(v) ==
  /\ sweep[v] = "due"
  /\ Sweep(v, "literal")
  /\ UNCHANGED <<latest, entry, computed, reader, straddles, straddled>>

(* External: the entry's time to live is over.                             *)
ExpireEntry ==
  /\ entry # Missing
  /\ entry' = Missing
  /\ straddled' = FALSE
  /\ UNCHANGED <<latest, computed, reader, sweep, straddles>>

CacheNext ==
  \/ \E r \in Readers : Miss(r) \/ Compute(r) \/ Store(r)
  \/ \E v \in AllVersions : DeleteEntry(v) \/ FindKeys(v) \/ DeleteFound(v) \/ WorkerDeletes(v)
  \/ ChangeValue
  \/ ExpireEntry

CacheSpec == CacheInit /\ [][CacheNext]_cacheVars

-----------------------------------------------------------------------------
(* Why a cached value may be stale: the invalidation of a later change is  *)
(* still due or was made by the worker, or the value was computed before a *)
(* change and stored after it.  An invalidation through the service misses *)
(* nothing else, although KEYS and DEL are two commands.                   *)
StaleEntriesHaveACause ==
  entry # Missing /\ entry < latest =>
    \/ straddled
    \/ \E v \in entry + 1 .. latest : sweep[v] # "swept"
=============================================================================
