------------------------------ MODULE Settings ------------------------------
(***************************************************************************)
(* The operator settings that override the config file                     *)
(* (crates/alamo/src/settings.rs, crates/alamo-store/src/settings.rs): a   *)
(* patch from the dashboard is checked as a whole, written to the          *)
(* settings table one key at a time, applied to the running pool and       *)
(* remembered; at startup the stored keys are tried one at a time, in key  *)
(* order, on top of the file, and those that no longer validate are        *)
(* dropped.                                                                *)
(*                                                                         *)
(* Five keys stand for the settings: the vardiff range, whose three values *)
(* constrain one another; a fallback address, valid on one network only;   *)
(* and the pool name, valid or not by itself.  Values are numbers, and 0   *)
(* is one that is out of range by itself (a difficulty that is not         *)
(* positive, an empty or overlong name).  A text may also be written with  *)
(* blanks around it: it is stored and shown as it is written, and is       *)
(* checked and used without them.                                          *)
(***************************************************************************)
EXTENDS Naturals, Sequences, FiniteSets, FiniteSetsExt

CONSTANTS MaxValue,    \* values are 0 .. MaxValue, without blanks
          MaxChanges,  \* bound on the keys one patch changes
          MaxPatches,  \* bound on patches
          MaxFailures, \* bound on failed statements of the store
          MaxStops,    \* bound on restarts
          MaxEdits     \* bound on edits of the config file between runs

ASSUME SettingsAssumption ==
  MaxValue \in Nat \ {0} /\ MaxChanges \in Nat /\ MaxPatches \in Nat /\ MaxFailures \in Nat
  /\ MaxStops \in Nat /\ MaxEdits \in Nat

Fallback == "coins.ltc.fallback_address"
Name     == "pool.name"
InitDiff == "stratum.vardiff.initial_difficulty"
MaxDiff  == "stratum.vardiff.max_difficulty"
MinDiff  == "stratum.vardiff.min_difficulty"

(* In the order of the BTreeMap that load_settings returns.                *)
KeyOrder == <<Fallback, Name, InitDiff, MaxDiff, MinDiff>>
Keys     == {Fallback, Name, InitDiff, MaxDiff, MinDiff}
Texts    == {Fallback, Name}
Values   == 0..(2 * MaxValue)
Networks == 1..MaxValue

(* The value v with blanks around it is v + MaxValue; numbers have none.   *)
Trim(v)   == IF v > MaxValue THEN v - MaxValue ELSE v
Typable(k, v) == k \in Texts \/ v <= MaxValue

Settings  == [Keys -> Values]
Overrides == UNION {[K -> Values] : K \in SUBSET Keys}
NoOverrides == [k \in {} |-> 0]

VARIABLES
  file,      \* the config file's values
  network,   \* the network the node is on
  db,        \* the settings table
  overrides, \* the overrides in memory
  live,      \* the values the running pool uses
  phase,     \* "down", "starting", "up", or "panicked"
  start,     \* startup: the keys still to be tried, and those kept so far
  patch,     \* the patch being written: its overrides, the statements left
  patches, failures, stops, edits,   \* spent so far, each up to its bound
  torn       \* history: a patch stopped half way and its remains are stored

counters == <<patches, failures, stops, edits>>
vars == <<file, network, db, overrides, live, phase, start, patch, counters, torn>>

NoStart == [todo |-> {}, kept |-> NoOverrides]
NoPatch == [next |-> NoOverrides, sets |-> {}, clears |-> {}, busy |-> FALSE]

(* VardiffConfig::validate.                                                *)
VardiffOK(v) ==
  /\ v[MinDiff] > 0 /\ v[MaxDiff] >= v[MinDiff]
  /\ v[InitDiff] >= v[MinDiff] /\ v[InitDiff] <= v[MaxDiff]

(* The file's values with the overrides on top, trimmed.                   *)
Written(ov)   == [k \in Keys |-> IF k \in DOMAIN ov THEN ov[k] ELSE file[k]]
Effective(ov) == [k \in Keys |-> Trim(Written(ov)[k])]

(* LiveSettings::validate.                                                 *)
Valid(v) == v[Fallback] = network /\ v[Name] > 0 /\ VardiffOK(v)

(* What Config::load and connect_node let through: they check the vardiff  *)
(* range and that the fallback address, which they do not trim, is of the  *)
(* node's network, not the pool's name.                                    *)
Loads(f, n) == VardiffOK(f) /\ f[Fallback] = n /\ \A k \in Keys : Typable(k, f[k])

(* The first file is valid: what Loads lets through beside comes by Edit.  *)
Init ==
  /\ network = 1
  /\ file \in {f \in Settings : Loads(f, network) /\ f[Name] > 0}
  /\ db = NoOverrides /\ overrides = NoOverrides /\ live = file
  /\ phase = "down" /\ start = NoStart /\ patch = NoPatch
  /\ patches = 0 /\ failures = 0 /\ stops = 0 /\ edits = 0
  /\ torn = FALSE

----------------------------------------------------------------------------
With(ov, k, value) == [x \in DOMAIN ov \union {k} |-> IF x = k THEN value ELSE ov[x]]
Without(ov, k)     == [x \in DOMAIN ov \ {k} |-> ov[x]]

First(K) == KeyOrder[CHOOSE i \in DOMAIN KeyOrder :
              KeyOrder[i] \in K /\ \A j \in 1..(i - 1) : KeyOrder[j] \notin K]

(* LiveSettings::start, up to the stored overrides.                        *)
Boot ==
  /\ phase = "down"
  /\ phase' = "starting"
  /\ start' = [todo |-> DOMAIN db, kept |-> NoOverrides]
  /\ UNCHANGED <<file, network, db, overrides, live, patch, counters, torn>>

AnyTrial(trial) == TRUE
TrialKept(trial) == Valid(Effective(trial))

(* One stored key: kept if the keys kept so far and it validate, deleted   *)
(* from the table otherwise.                                               *)
TryKey ==
  /\ phase = "starting" /\ start.todo # {}
  /\ LET k     == First(start.todo)
         trial == With(start.kept, k, db[k])
     IN IF TrialKept(trial)
        THEN start' = [todo |-> start.todo \ {k}, kept |-> trial] /\ db' = db
        ELSE start' = [start EXCEPT !.todo = @ \ {k}] /\ db' = Without(db, k)
  /\ UNCHANGED <<file, network, overrides, live, phase, patch, counters, torn>>

(* The kept overrides are validated once more and applied; the code        *)
(* expects that they validate.                                             *)
Started ==
  /\ phase = "starting" /\ start.todo = {}
  /\ IF Valid(Effective(start.kept))
     THEN /\ phase' = "up" /\ live' = Effective(start.kept)
          /\ overrides' = start.kept /\ torn' = FALSE
     ELSE phase' = "panicked" /\ UNCHANGED <<live, overrides, torn>>
  /\ start' = NoStart
  /\ UNCHANGED <<file, network, db, patch, counters>>

----------------------------------------------------------------------------
(* A patch gives some keys a value and reverts others to the file's.       *)
Revert == 2 * MaxValue + 1

Patched(changes) ==
  LET set == {k \in DOMAIN changes : changes[k] # Revert}
  IN [k \in (DOMAIN overrides \ DOMAIN changes) \union set |->
        IF k \in set THEN changes[k] ELSE overrides[k]]

Changes(K) ==
  {c \in [K -> Values \union {Revert}] : \A k \in K : c[k] = Revert \/ Typable(k, c[k])}
Patches == UNION {Changes(K) : K \in UNION {kSubset(n, Keys) : n \in 1..MaxChanges}}

Changed(next) == {k \in DOMAIN next : k \notin DOMAIN overrides \/ overrides[k] # next[k]}
Reverted(next) == DOMAIN overrides \ DOMAIN next

(* apply_patch, up to its first statement: nothing happens unless the      *)
(* whole patch validates.  apply_lock keeps other patches out till it ends.*)
Put ==
  /\ phase = "up" /\ ~ patch.busy /\ patches < MaxPatches
  /\ patches' = patches + 1
  /\ \E changes \in Patches : LET next == Patched(changes) IN
       /\ Valid(Effective(next))
       /\ patch' = [next |-> next, sets |-> Changed(next), clears |-> Reverted(next),
                    busy |-> TRUE]
  /\ UNCHANGED <<file, network, db, overrides, live, phase, start, failures, stops, edits, torn>>

SetKey ==
  /\ patch.busy /\ patch.sets # {}
  /\ LET k == First(patch.sets) IN
       /\ db' = With(db, k, patch.next[k])
       /\ patch' = [patch EXCEPT !.sets = @ \ {k}]
  /\ UNCHANGED <<file, network, overrides, live, phase, start, counters, torn>>

ClearKey ==
  /\ patch.busy /\ patch.sets = {} /\ patch.clears # {}
  /\ LET k == First(patch.clears) IN
       /\ db' = Without(db, k)
       /\ patch' = [patch EXCEPT !.clears = @ \ {k}]
  /\ UNCHANGED <<file, network, overrides, live, phase, start, counters, torn>>

(* apply_live, then the overrides in memory, then the answer.              *)
ForgottenOverrides(next) == overrides
Remembered(next) == next

Finish ==
  /\ patch.busy /\ patch.sets = {} /\ patch.clears = {}
  /\ live' = Effective(patch.next)
  /\ overrides' = Remembered(patch.next)
  /\ patch' = NoPatch
  /\ UNCHANGED <<file, network, db, phase, start, counters, torn>>

(* A statement fails, or the client goes away while one is awaited and the *)
(* handler is dropped: the patch is given up where it is, at the latest    *)
(* when its last statement has run.                                        *)
PatchFails ==
  /\ patch.busy
  /\ failures < MaxFailures
  /\ failures' = failures + 1
  /\ torn' = (torn \/ db # overrides)
  /\ patch' = NoPatch
  /\ UNCHANGED <<file, network, db, overrides, live, phase, start, patches, stops, edits>>

\* doc: what GET /api/settings shows of every setting.
Doc(ov) ==
  [k \in Keys |-> IF k \in DOMAIN ov
                  THEN [value |-> ov[k], file |-> file[k], overridden |-> TRUE]
                  ELSE [value |-> file[k], file |-> file[k], overridden |-> FALSE]]

----------------------------------------------------------------------------
(* The process stops, in the middle of anything, and its memory is gone;   *)
(* a pool that is down is as one that runs on the file alone.              *)
Stop ==
  /\ phase # "down" /\ stops < MaxStops
  /\ stops' = stops + 1
  /\ phase' = "down" /\ start' = NoStart /\ patch' = NoPatch
  /\ live' = file /\ overrides' = NoOverrides
  /\ torn' = (torn \/ patch.busy)
  /\ UNCHANGED <<file, network, db, patches, failures, edits>>

(* The operator edits the file, or the node changes network, while the     *)
(* pool is down.                                                           *)
Edit ==
  /\ phase = "down" /\ stops > 0 /\ edits < MaxEdits
  /\ edits' = edits + 1
  /\ \E n \in Networks, f \in Settings :
       Loads(f, n) /\ file' = f /\ live' = f /\ network' = n
  /\ UNCHANGED <<db, overrides, phase, start, patch, patches, failures, stops, torn>>

Next ==
  \/ Boot \/ TryKey \/ Started
  \/ Put \/ SetKey \/ ClearKey \/ Finish \/ PatchFails
  \/ Stop \/ Edit

Spec == Init /\ [][Next]_vars

----------------------------------------------------------------------------
\* The table of overrides, the live values and a patch in progress (settings.rs) keep their types:
\* a key that is reverted has no value left anywhere.
TypeOK ==
  /\ file \in Settings /\ live \in Settings /\ network \in Networks
  /\ db \in Overrides /\ overrides \in Overrides
  /\ phase \in {"down", "starting", "up", "panicked"}
  /\ start \in [todo : SUBSET Keys, kept : Overrides]
  /\ patch \in [next : Overrides, sets : SUBSET Keys, clears : SUBSET Keys, busy : BOOLEAN]
  /\ patches \in 0..MaxPatches /\ failures \in 0..MaxFailures /\ stops \in 0..MaxStops /\ edits \in 0..MaxEdits
  /\ torn \in BOOLEAN

(* The running pool uses valid values, and those the settings document     *)
(* shows, less the blanks around a text.  It holds across patches that     *)
(* were refused or given up half way, restarts on what such a patch left   *)
(* in the table, and edits of the file.                                    *)
ShownIsLive ==
  phase = "up" => Valid(live) /\ \A k \in Keys : Trim(Doc(overrides)[k].value) = live[k]

(* Between patches a setting is shown as overridden exactly when the table *)
(* would override it at the next start, by the value shown, unless a patch *)
(* was given up half way since the pool started.                           *)
ShownIsStored ==
  phase = "up" /\ ~ patch.busy /\ ~ torn =>
    \A k \in Keys : LET shown == Doc(overrides)[k] IN
      IF k \in DOMAIN db THEN shown.overridden /\ shown.value = db[k] ELSE ~ shown.overridden

(* The three copies of the configuration, in the table, in memory and in   *)
(* the running pool, agree.                                                *)
ConfigurationAgrees == ShownIsLive /\ ShownIsStored

(* A file whose own values validate never fails to start, whatever the     *)
(* table holds.                                                            *)
ValidFileStarts == Valid(Effective(NoOverrides)) => phase # "panicked"

=============================================================================
