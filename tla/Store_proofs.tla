---------------------------- MODULE Store_proofs ----------------------------
(***************************************************************************)
(* Proofs about what the store keeps besides shares and blocks, for any    *)
(* values of the constants.  Settings: the table, the memory and the       *)
(* running pool agree about the configuration, and a valid file never      *)
(* fails to start.  Retention: however passes over the hashrate samples    *)
(* are cut short, no sample that is still wanted is lost and the rows are  *)
(* the buckets of their age; the shares a hashrate is estimated from are   *)
(* the newest of those that arrived, whatever is trimmed, capped, lost and *)
(* read back; and while the pool runs steadily a row is the exact mean of  *)
(* its samples, however often it was folded.                               *)
(***************************************************************************)
EXTENDS Settings, Retention, TLAPS, SequenceTheorems, WellFoundedInduction, FiniteSetTheorems

-----------------------------------------------------------------------------
(* The inductive invariant, in named parts. *)

\* At startup the table holds the keys kept so far, with their values, and those still to be
\* tried; once a key is kept, the kept ones validate.
StartAgrees == phase = "starting" =>
  /\ start.todo \intersect DOMAIN start.kept = {}
  /\ DOMAIN db = start.todo \union DOMAIN start.kept
  /\ \A k \in DOMAIN start.kept : db[k] = start.kept[k]
  /\ DOMAIN start.kept = {} \/ Valid(Effective(start.kept))

\* The pool runs on valid values: the file's with the overrides in memory on top.
PoolAgrees == phase = "up" => Valid(live) /\ live = Effective(overrides)

\* A patch in progress is valid as a whole; what it has written, or need not write, is in the
\* table.
PatchAgrees == patch.busy =>
  /\ phase = "up" /\ Valid(Effective(patch.next))
  /\ patch.sets \subseteq DOMAIN patch.next /\ patch.clears \intersect DOMAIN patch.next = {}
  /\ ~torn => /\ \A k \in DOMAIN patch.next \ patch.sets : k \in DOMAIN db /\ db[k] = patch.next[k]
              /\ DOMAIN db \subseteq DOMAIN patch.next \union patch.clears

\* Between patches the table holds what memory holds.
TableIsMemory == phase = "up" /\ ~patch.busy /\ ~torn => db = overrides

PanicsTruly == phase = "panicked" => ~Valid(Effective(NoOverrides))

SettingsInv ==
  TypeOK /\ StartAgrees /\ PoolAgrees /\ PatchAgrees /\ TableIsMemory /\ PanicsTruly

-----------------------------------------------------------------------------
(* Overrides: functions on some of the keys. *)

LEMMA OverridesAre ==
  \A ov : ov \in Overrides <=>
    /\ ov = [k \in DOMAIN ov |-> ov[k]] /\ DOMAIN ov \subseteq Keys
    /\ \A k \in DOMAIN ov : ov[k] \in Values
  BY DEF Overrides

LEMMA NoneOverridden == NoOverrides \in Overrides /\ DOMAIN NoOverrides = {}
  BY OverridesAre DEF NoOverrides

\* Setting a key.
LEMMA WithIs ==
  ASSUME NEW ov \in Overrides, NEW k \in Keys, NEW v \in Values
  PROVE  /\ With(ov, k, v) \in Overrides /\ DOMAIN With(ov, k, v) = DOMAIN ov \union {k}
         /\ With(ov, k, v)[k] = v
         /\ \A x \in DOMAIN ov \ {k} : With(ov, k, v)[x] = ov[x]
  <1> DEFINE new == With(ov, k, v)
  <1>1. new = [x \in DOMAIN ov \union {k} |-> IF x = k THEN v ELSE ov[x]]
    BY DEF With
  <1>2. /\ DOMAIN new = DOMAIN ov \union {k} /\ new[k] = v
        /\ \A x \in DOMAIN ov \ {k} : new[x] = ov[x]
    BY <1>1
  <1>3. new = [x \in DOMAIN new |-> new[x]]
    BY <1>1
  <1> HIDE DEF new
  <1>4. DOMAIN ov \subseteq Keys /\ \A x \in DOMAIN ov : ov[x] \in Values
    BY OverridesAre
  <1>5. new \in Overrides
    BY <1>2, <1>3, <1>4, OverridesAre
  <1> QED
    BY <1>2, <1>5 DEF new

\* Clearing one.
LEMMA WithoutIs ==
  ASSUME NEW ov \in Overrides, NEW k
  PROVE  /\ Without(ov, k) \in Overrides /\ DOMAIN Without(ov, k) = DOMAIN ov \ {k}
         /\ \A x \in DOMAIN ov \ {k} : Without(ov, k)[x] = ov[x]
  <1> DEFINE new == Without(ov, k)
  <1>1. new = [x \in DOMAIN ov \ {k} |-> ov[x]]
    BY DEF Without
  <1>2. DOMAIN new = DOMAIN ov \ {k} /\ \A x \in DOMAIN ov \ {k} : new[x] = ov[x]
    BY <1>1
  <1>3. new = [x \in DOMAIN new |-> new[x]]
    BY <1>1
  <1> HIDE DEF new
  <1>4. DOMAIN ov \subseteq Keys /\ \A x \in DOMAIN ov : ov[x] \in Values
    BY OverridesAre
  <1>5. new \in Overrides
    BY <1>2, <1>3, <1>4, OverridesAre
  <1> QED
    BY <1>2, <1>5 DEF new

\* Overrides are the same when they override the same keys by the same values.
LEMMA SameOverrides ==
  ASSUME NEW a \in Overrides, NEW b \in Overrides,
         DOMAIN a = DOMAIN b, \A k \in DOMAIN a : a[k] = b[k]
  PROVE  a = b
  <1>1. a = [k \in DOMAIN a |-> a[k]] /\ b = [k \in DOMAIN b |-> b[k]]
    BY OverridesAre
  <1> QED
    BY <1>1

\* Trimming gives a value.
LEMMA TrimIs == \A v \in Values : Trim(v) \in Values
  BY SettingsAssumption DEF Values, Trim

\* The file with overrides on top has a value for every key.
LEMMA EffectiveIs ==
  ASSUME file \in Settings
  PROVE  /\ \A ov \in Overrides : Effective(ov) \in Settings
         /\ \A ov \in Overrides : DOMAIN ov = {} => Effective(ov) = Effective(NoOverrides)
  <1>1. ASSUME NEW ov \in Overrides PROVE Effective(ov) \in Settings
    <2>1. \A k \in DOMAIN ov : ov[k] \in Values
      BY OverridesAre
    <2>2. \A k \in Keys : Written(ov)[k] \in Values
      BY <2>1 DEF Written, Settings
    <2> QED
      BY <2>2, TrimIs DEF Effective, Settings
  <1>2. ASSUME NEW ov \in Overrides, DOMAIN ov = {} PROVE Effective(ov) = Effective(NoOverrides)
    <2>1. Written(ov) = Written(NoOverrides)
      BY <1>2, NoneOverridden DEF Written
    <2> QED
      BY <2>1 DEF Effective
  <1> QED
    BY <1>1, <1>2

\* The first of some keys, in the order of the table, is one of them.
LEMMA FirstIsOne == ASSUME NEW K \in SUBSET Keys, K # {} PROVE First(K) \in K
  <1> DEFINE IsFirst(i) == KeyOrder[i] \in K /\ \A j \in 1..(i - 1) : KeyOrder[j] \notin K
  <1>1. /\ DOMAIN KeyOrder = 1..5
        /\ KeyOrder[1] = Fallback /\ KeyOrder[2] = Name /\ KeyOrder[3] = InitDiff
        /\ KeyOrder[4] = MaxDiff /\ KeyOrder[5] = MinDiff
    BY DEF KeyOrder
  <1>2. Fallback \in K \/ Name \in K \/ InitDiff \in K \/ MaxDiff \in K \/ MinDiff \in K
    BY DEF Keys
  <1>3. \E i \in DOMAIN KeyOrder : IsFirst(i)
    <2>1. CASE Fallback \in K
      <3>1. IsFirst(1)
        BY <1>1, <2>1
      <3> QED
        BY <1>1, <3>1
    <2>2. CASE Fallback \notin K /\ Name \in K
      <3>1. \A j \in 1..(2 - 1) : j = 1
        OBVIOUS
      <3>2. IsFirst(2)
        BY <1>1, <2>2, <3>1
      <3> QED
        BY <1>1, <3>2
    <2>3. CASE Fallback \notin K /\ Name \notin K /\ InitDiff \in K
      <3>1. \A j \in 1..(3 - 1) : j = 1 \/ j = 2
        OBVIOUS
      <3>2. IsFirst(3)
        BY <1>1, <2>3, <3>1
      <3> QED
        BY <1>1, <3>2
    <2>4. CASE Fallback \notin K /\ Name \notin K /\ InitDiff \notin K /\ MaxDiff \in K
      <3>1. \A j \in 1..(4 - 1) : j = 1 \/ j = 2 \/ j = 3
        OBVIOUS
      <3>2. IsFirst(4)
        BY <1>1, <2>4, <3>1
      <3> QED
        BY <1>1, <3>2
    <2>5. CASE Fallback \notin K /\ Name \notin K /\ InitDiff \notin K /\ MaxDiff \notin K /\ MinDiff \in K
      <3>1. \A j \in 1..(5 - 1) : j = 1 \/ j = 2 \/ j = 3 \/ j = 4
        OBVIOUS
      <3>2. IsFirst(5)
        BY <1>1, <2>5, <3>1
      <3> QED
        BY <1>1, <3>2
    <2> QED
      BY <1>2, <2>1, <2>2, <2>3, <2>4, <2>5
  <1>4. First(K) = KeyOrder[CHOOSE i \in DOMAIN KeyOrder : IsFirst(i)]
    BY DEF First
  <1>5. IsFirst(CHOOSE i \in DOMAIN KeyOrder : IsFirst(i))
    BY <1>3
  <1> QED
    BY <1>4, <1>5

\* A patch gives the overrides it asks for.
LEMMA PatchedIs ==
  ASSUME overrides \in Overrides, NEW changes \in Patches PROVE Patched(changes) \in Overrides
  <1> DEFINE set == {k \in DOMAIN changes : changes[k] # Revert}
             new == Patched(changes)
  <1>1. DOMAIN changes \subseteq Keys /\ \A k \in DOMAIN changes : changes[k] \in Values \union {Revert}
    BY DEF Patches, Changes, kSubset
  <1>2. DOMAIN overrides \subseteq Keys /\ \A k \in DOMAIN overrides : overrides[k] \in Values
    BY OverridesAre
  <1>3. new = [k \in (DOMAIN overrides \ DOMAIN changes) \union set |->
                 IF k \in set THEN changes[k] ELSE overrides[k]]
    BY DEF Patched
  <1>4. DOMAIN new = (DOMAIN overrides \ DOMAIN changes) \union set
        /\ new = [k \in DOMAIN new |-> new[k]]
    BY <1>3
  <1>5. DOMAIN new \subseteq Keys /\ \A k \in DOMAIN new : new[k] \in Values
    BY <1>1, <1>2, <1>3
  <1> HIDE DEF new
  <1>6. new \in Overrides
    BY <1>4, <1>5, OverridesAre
  <1> QED
    BY <1>6 DEF new

-----------------------------------------------------------------------------
(* The steps. *)

LEMMA Types ==
  ASSUME TypeOK
  PROVE  /\ file \in Settings /\ db \in Overrides /\ overrides \in Overrides
         /\ start.todo \subseteq Keys /\ start.kept \in Overrides
         /\ patch.next \in Overrides /\ patch.sets \subseteq Keys /\ patch.clears \subseteq Keys
  BY DEF TypeOK

LEMMA InitSettings == Init => SettingsInv
  <1> SUFFICES ASSUME Init PROVE SettingsInv
    OBVIOUS
  <1>1. TypeOK
    <2>1. start \in [todo : SUBSET Keys, kept : Overrides]
      BY NoneOverridden DEF Init, NoStart
    <2>2. patch \in [next : Overrides, sets : SUBSET Keys, clears : SUBSET Keys, busy : BOOLEAN]
      BY NoneOverridden DEF Init, NoPatch
    <2>3. patches \in 0..MaxPatches /\ failures \in 0..MaxFailures /\ stops \in 0..MaxStops
          /\ edits \in 0..MaxEdits /\ network \in Networks
      BY SettingsAssumption DEF Init, Networks
    <2> QED
      BY NoneOverridden, <2>1, <2>2, <2>3 DEF Init, TypeOK
  <1>2. ~patch.busy
    BY DEF Init, NoPatch
  <1> QED
    BY <1>1, <1>2 DEF Init, SettingsInv, StartAgrees, PoolAgrees, PatchAgrees, TableIsMemory, PanicsTruly

LEMMA BootKeeps == SettingsInv /\ Boot => SettingsInv'
  <1> SUFFICES ASSUME SettingsInv, Boot PROVE SettingsInv'
    OBVIOUS
  <1>1. /\ phase = "down" /\ phase' = "starting" /\ start'.todo = DOMAIN db /\ start'.kept = NoOverrides
        /\ UNCHANGED <<file, network, db, overrides, live, patch, counters, torn>>
    BY DEF Boot
  <1>2. db \in Overrides /\ DOMAIN db \subseteq Keys
    BY Types, OverridesAre DEF SettingsInv
  <1>3. TypeOK'
    <2>1. start' \in [todo : SUBSET Keys, kept : Overrides]
      BY <1>2, NoneOverridden DEF Boot
    <2> QED
      BY <1>1, <2>1 DEF SettingsInv, TypeOK, counters
  <1>4. StartAgrees'
    BY <1>1, NoneOverridden DEF StartAgrees
  <1>5. ~patch.busy
    BY <1>1 DEF SettingsInv, PatchAgrees
  <1> QED
    BY <1>1, <1>3, <1>4, <1>5 DEF SettingsInv, PoolAgrees, PatchAgrees, TableIsMemory, PanicsTruly

LEMMA TryKeyKeeps == SettingsInv /\ TryKey => SettingsInv'
  <1> SUFFICES ASSUME SettingsInv, TryKey PROVE SettingsInv'
    OBVIOUS
  <1> DEFINE k == First(start.todo)
             trial == With(start.kept, k, db[k])
  <1>1. /\ phase = "starting" /\ start.todo # {}
        /\ \/ /\ Valid(Effective(trial))
              /\ start' = [todo |-> start.todo \ {k}, kept |-> trial] /\ db' = db
           \/ /\ start' = [start EXCEPT !.todo = @ \ {k}] /\ db' = Without(db, k)
        /\ UNCHANGED <<file, network, overrides, live, phase, patch, counters, torn>>
    BY DEF TryKey, TrialKept
  <1>2. /\ db \in Overrides /\ start.kept \in Overrides /\ start.todo \subseteq Keys
        /\ start \in [todo : SUBSET Keys, kept : Overrides]
    BY Types DEF SettingsInv, TypeOK
  <1>3. /\ start.todo \intersect DOMAIN start.kept = {}
        /\ DOMAIN db = start.todo \union DOMAIN start.kept
        /\ \A x \in DOMAIN start.kept : db[x] = start.kept[x]
        /\ DOMAIN start.kept = {} \/ Valid(Effective(start.kept))
    BY <1>1 DEF SettingsInv, StartAgrees
  <1>4. k \in start.todo
    BY <1>1, <1>2, FirstIsOne
  <1> HIDE DEF k
  <1>5. k \in Keys /\ db[k] \in Values
    BY <1>2, <1>3, <1>4, OverridesAre
  <1>6. /\ trial \in Overrides /\ DOMAIN trial = DOMAIN start.kept \union {k} /\ trial[k] = db[k]
        /\ \A x \in DOMAIN start.kept \ {k} : trial[x] = start.kept[x]
    BY <1>2, <1>5, WithIs, ZenonT(30)
  <1>7. /\ Without(db, k) \in Overrides /\ DOMAIN Without(db, k) = DOMAIN db \ {k}
        /\ \A x \in DOMAIN db \ {k} : Without(db, k)[x] = db[x]
    BY <1>2, WithoutIs
  <1> HIDE DEF trial
  <1>8. ~patch.busy
    BY <1>1 DEF SettingsInv, PatchAgrees
  <1>9. TypeOK' /\ StartAgrees'
    <2>1. CASE /\ Valid(Effective(trial))
               /\ start' = [todo |-> start.todo \ {k}, kept |-> trial] /\ db' = db
      <3>1. start'.todo = start.todo \ {k} /\ start'.kept = trial
        BY <2>1
      <3>2. TypeOK'
        BY <1>1, <1>2, <1>6, <2>1 DEF SettingsInv, TypeOK, counters
      <3>3. Effective(start.kept)' = Effective(trial)
        BY <1>1, <3>1 DEF Effective, Written
      <3>4. Valid(Effective(start.kept))'
        BY <1>1, <2>1, <3>3 DEF Valid
      <3>5. /\ start'.todo \intersect DOMAIN start'.kept = {}
            /\ DOMAIN db' = start'.todo \union DOMAIN start'.kept
            /\ \A x \in DOMAIN start'.kept : db'[x] = start'.kept[x]
        BY <1>3, <1>4, <1>6, <2>1, <3>1
      <3> QED
        BY <3>2, <3>4, <3>5 DEF StartAgrees
    <2>2. CASE start' = [start EXCEPT !.todo = @ \ {k}] /\ db' = Without(db, k)
      <3>1. start'.todo = start.todo \ {k} /\ start'.kept = start.kept
        BY <1>2, <2>2
      <3>2. TypeOK'
        BY <1>1, <1>2, <1>7, <2>2 DEF SettingsInv, TypeOK, counters
      <3>3. Valid(Effective(start.kept))' <=> Valid(Effective(start.kept))
        BY <1>1, <3>1 DEF Valid, Effective, Written
      <3>4. /\ start'.todo \intersect DOMAIN start'.kept = {}
            /\ DOMAIN db' = start'.todo \union DOMAIN start'.kept
            /\ \A x \in DOMAIN start'.kept : db'[x] = start'.kept[x]
            /\ DOMAIN start'.kept = {} \/ Valid(Effective(start.kept))'
        BY <1>3, <1>4, <1>7, <2>2, <3>1, <3>3
      <3> QED
        BY <3>2, <3>4 DEF StartAgrees
    <2> QED
      BY <1>1, <2>1, <2>2
  <1> QED
    BY <1>1, <1>8, <1>9 DEF SettingsInv, PoolAgrees, PatchAgrees, TableIsMemory, PanicsTruly

LEMMA StartedKeeps == SettingsInv /\ Started => SettingsInv'
  <1> SUFFICES ASSUME SettingsInv, Started PROVE SettingsInv'
    OBVIOUS
  <1> DEFINE kept == start.kept
  <1>1. /\ phase = "starting" /\ start.todo = {} /\ start' = NoStart
        /\ \/ /\ Valid(Effective(kept)) /\ phase' = "up" /\ live' = Effective(kept)
              /\ overrides' = kept /\ torn' = FALSE
           \/ /\ ~Valid(Effective(kept)) /\ phase' = "panicked" /\ UNCHANGED <<live, overrides, torn>>
        /\ UNCHANGED <<file, network, db, patch, counters>>
    BY DEF Started
  <1>2. db \in Overrides /\ kept \in Overrides /\ file \in Settings
    BY Types DEF SettingsInv
  <1>3. /\ DOMAIN db = DOMAIN kept /\ \A k \in DOMAIN kept : db[k] = kept[k]
        /\ DOMAIN kept = {} \/ Valid(Effective(kept))
    BY <1>1 DEF SettingsInv, StartAgrees
  <1> HIDE DEF kept
  <1>4. db = kept
    BY <1>2, <1>3, SameOverrides
  <1>5. ~patch.busy
    BY <1>1 DEF SettingsInv, PatchAgrees
  <1>6. start' \in [todo : SUBSET Keys, kept : Overrides] /\ Effective(kept) \in Settings
    BY <1>1, <1>2, NoneOverridden, EffectiveIs DEF NoStart
  <1>7. TypeOK'
    BY <1>1, <1>2, <1>6 DEF SettingsInv, TypeOK, counters
  <1>8. CASE /\ Valid(Effective(kept)) /\ phase' = "up" /\ live' = Effective(kept)
             /\ overrides' = kept /\ torn' = FALSE
    <2>1. Valid(live)' /\ live' = Effective(overrides)'
      BY <1>1, <1>8 DEF Valid, Effective, Written
    <2> QED
      BY <1>1, <1>4, <1>5, <1>7, <1>8, <2>1
         DEF SettingsInv, StartAgrees, PoolAgrees, PatchAgrees, TableIsMemory, PanicsTruly
  <1>9. CASE ~Valid(Effective(kept)) /\ phase' = "panicked"
    <2>1. ~Valid(Effective(NoOverrides))
      BY <1>2, <1>3, <1>9, EffectiveIs
    <2>2. ~Valid(Effective(NoOverrides))'
      BY <1>1, <2>1 DEF Valid, Effective, Written
    <2> QED
      BY <1>1, <1>5, <1>7, <1>9, <2>2
         DEF SettingsInv, StartAgrees, PoolAgrees, PatchAgrees, TableIsMemory, PanicsTruly
  <1> QED
    BY <1>1, <1>8, <1>9

\* While a patch is on its way the pool is up, so the rest of the invariant asks nothing.
LEMMA UpOnly ==
  ASSUME SettingsInv, TypeOK', phase = "up", UNCHANGED <<file, network, overrides, live, phase>>
  PROVE  StartAgrees' /\ PoolAgrees' /\ PanicsTruly'
  <1>1. Valid(live) /\ live = Effective(overrides)
    BY DEF SettingsInv, PoolAgrees
  <1>2. Valid(live)' /\ live' = Effective(overrides)'
    BY <1>1 DEF Valid, Effective, Written
  <1> QED
    BY <1>2 DEF StartAgrees, PoolAgrees, PanicsTruly

LEMMA PutKeeps == ASSUME SettingsInv, Put PROVE SettingsInv'
  <1>0. PICK changes \in Patches :
          /\ Valid(Effective(Patched(changes)))
          /\ patch' = [next |-> Patched(changes), sets |-> Changed(Patched(changes)),
                       clears |-> Reverted(Patched(changes)), busy |-> TRUE]
    BY DEF Put
  <1> DEFINE next == Patched(changes)
  <1>1. /\ phase = "up" /\ ~patch.busy /\ patches < MaxPatches /\ patches' = patches + 1
        /\ Valid(Effective(next))
        /\ patch' = [next |-> next, sets |-> Changed(next), clears |-> Reverted(next), busy |-> TRUE]
        /\ UNCHANGED <<file, network, db, overrides, live, phase, start, failures, stops, edits, torn>>
    BY <1>0 DEF Put
  <1>2. overrides \in Overrides /\ next \in Overrides
    BY PatchedIs, Types DEF SettingsInv
  <1> HIDE DEF next
  <1>3. DOMAIN next \subseteq Keys /\ DOMAIN overrides \subseteq Keys
    BY <1>2, OverridesAre
  <1>4. TypeOK'
    <2>1. patch' \in [next : Overrides, sets : SUBSET Keys, clears : SUBSET Keys, busy : BOOLEAN]
      BY <1>1, <1>2, <1>3 DEF Changed, Reverted
    <2>2. patches' \in 0..MaxPatches
      BY <1>1, SettingsAssumption DEF SettingsInv, TypeOK
    <2> QED
      BY <1>1, <2>1, <2>2 DEF SettingsInv, TypeOK
  <1>5. PatchAgrees'
    <2>1. Effective(patch.next)' = Effective(next)
      BY <1>1 DEF Effective, Written
    <2>2. Valid(Effective(patch.next))'
      BY <1>1, <2>1 DEF Valid
    <2>3. ~torn => db = overrides
      BY <1>1 DEF SettingsInv, TableIsMemory
    <2> QED
      BY <1>1, <2>2, <2>3 DEF PatchAgrees, Changed, Reverted
  <1>6. TableIsMemory'
    BY <1>1 DEF TableIsMemory
  <1> QED
    BY <1>1, <1>4, <1>5, <1>6, UpOnly DEF SettingsInv

\* The next statement of a patch, which gives one of its keys its value in the table, or
\* takes one from it.
LEMMA StatementKeeps == SettingsInv /\ (SetKey \/ ClearKey) => SettingsInv'
  <1> SUFFICES ASSUME SettingsInv, SetKey \/ ClearKey PROVE SettingsInv'
    OBVIOUS
  <1> DEFINE next == patch.next
             set == First(patch.sets)
             cleared == First(patch.clears)
  <1>1. /\ patch.busy
        /\ \/ /\ patch.sets # {} /\ db' = With(db, set, next[set])
              /\ patch' = [patch EXCEPT !.sets = @ \ {set}]
           \/ /\ patch.sets = {} /\ patch.clears # {} /\ db' = Without(db, cleared)
              /\ patch' = [patch EXCEPT !.clears = @ \ {cleared}]
        /\ UNCHANGED <<file, network, overrides, live, phase, start, counters, torn>>
    BY DEF SetKey, ClearKey
  <1>2. /\ patch \in [next : Overrides, sets : SUBSET Keys, clears : SUBSET Keys, busy : BOOLEAN]
        /\ db \in Overrides /\ next \in Overrides /\ patch.sets \subseteq Keys
        /\ patch.clears \subseteq Keys
    BY Types DEF SettingsInv, TypeOK
  <1>3. /\ phase = "up" /\ Valid(Effective(next)) /\ patch.sets \subseteq DOMAIN next
        /\ ~torn => /\ \A k \in DOMAIN next \ patch.sets : k \in DOMAIN db /\ db[k] = next[k]
                    /\ DOMAIN db \subseteq DOMAIN next \union patch.clears
    BY <1>1 DEF SettingsInv, PatchAgrees
  <1>4. patch'.next = next /\ patch'.busy
    BY <1>1, <1>2
  <1>5. Valid(Effective(patch.next))'
    <2>1. Effective(patch.next)' = Effective(next)
      BY <1>1, <1>4 DEF Effective, Written
    <2> QED
      BY <1>1, <1>3, <2>1 DEF Valid
  <1>6. CASE /\ patch.sets # {} /\ db' = With(db, set, next[set])
             /\ patch' = [patch EXCEPT !.sets = @ \ {set}]
    <2>1. set \in patch.sets
      BY <1>2, <1>6, FirstIsOne
    <2> HIDE DEF set
    <2> DEFINE value == next[set]
    <2>2. set \in Keys /\ value \in Values /\ db' = With(db, set, value)
      BY <1>2, <1>3, <1>6, <2>1, OverridesAre
    <2> HIDE DEF value
    <2>3. /\ db' \in Overrides /\ DOMAIN db' = DOMAIN db \union {set} /\ db'[set] = value
          /\ \A x \in DOMAIN db \ {set} : db'[x] = db[x]
      BY <1>2, <2>2, WithIs
    <2>4. patch'.sets = patch.sets \ {set} /\ patch'.clears = patch.clears
      BY <1>2, <1>6
    <2>5. TypeOK'
      BY <1>1, <1>2, <1>6, <2>3 DEF SettingsInv, TypeOK, counters
    <2>6. ~torn => /\ \A k \in DOMAIN next \ patch'.sets : k \in DOMAIN db' /\ db'[k] = next[k]
                   /\ DOMAIN db' \subseteq DOMAIN next \union patch'.clears
      BY <1>3, <2>1, <2>3, <2>4 DEF value
    <2>7. PatchAgrees'
      BY <1>1, <1>3, <1>4, <1>5, <2>4, <2>6 DEF SettingsInv, PatchAgrees
    <2> QED
      BY <1>1, <1>3, <1>4, <2>5, <2>7, UpOnly DEF SettingsInv, TableIsMemory
  <1>7. CASE /\ patch.sets = {} /\ patch.clears # {} /\ db' = Without(db, cleared)
             /\ patch' = [patch EXCEPT !.clears = @ \ {cleared}]
    <2>1. cleared \in patch.clears
      BY <1>2, <1>7, FirstIsOne
    <2> HIDE DEF cleared
    <2>2. /\ db' \in Overrides /\ DOMAIN db' = DOMAIN db \ {cleared}
          /\ \A x \in DOMAIN db \ {cleared} : db'[x] = db[x]
      BY <1>2, <1>7, WithoutIs
    <2>3. patch'.sets = patch.sets /\ patch'.clears = patch.clears \ {cleared}
      BY <1>2, <1>7
    <2>4. TypeOK'
      BY <1>1, <1>2, <1>7, <2>2 DEF SettingsInv, TypeOK, counters
    <2>5. cleared \notin DOMAIN next
      BY <1>1, <2>1 DEF SettingsInv, PatchAgrees
    <2>6. ~torn => /\ \A k \in DOMAIN next \ patch'.sets : k \in DOMAIN db' /\ db'[k] = next[k]
                   /\ DOMAIN db' \subseteq DOMAIN next \union patch'.clears
      BY <1>3, <2>1, <2>2, <2>3, <2>5
    <2>7. PatchAgrees'
      BY <1>1, <1>3, <1>4, <1>5, <2>3, <2>5, <2>6 DEF SettingsInv, PatchAgrees
    <2> QED
      BY <1>1, <1>3, <1>4, <2>4, <2>7, UpOnly DEF SettingsInv, TableIsMemory
  <1> QED
    BY <1>1, <1>6, <1>7

LEMMA FinishKeeps == SettingsInv /\ Finish => SettingsInv'
  <1> SUFFICES ASSUME SettingsInv, Finish PROVE SettingsInv'
    OBVIOUS
  <1> DEFINE next == patch.next
  <1>1. /\ patch.busy /\ patch.sets = {} /\ patch.clears = {}
        /\ live' = Effective(next) /\ overrides' = next /\ patch' = NoPatch
        /\ UNCHANGED <<file, network, db, phase, start, counters, torn>>
    BY DEF Finish, Remembered
  <1>2. db \in Overrides /\ next \in Overrides /\ file \in Settings
    BY Types DEF SettingsInv
  <1>3. /\ phase = "up" /\ Valid(Effective(next))
        /\ ~torn => (\A k \in DOMAIN next : k \in DOMAIN db /\ db[k] = next[k])
                    /\ DOMAIN db \subseteq DOMAIN next
    BY <1>1 DEF SettingsInv, PatchAgrees
  <1>4. ~torn => db = next
    BY <1>2, <1>3, SameOverrides
  <1>5. patch' \in [next : Overrides, sets : SUBSET Keys, clears : SUBSET Keys, busy : BOOLEAN]
        /\ ~patch'.busy
    BY <1>1, NoneOverridden DEF NoPatch
  <1> HIDE DEF next
  <1>6. TypeOK'
    BY <1>1, <1>2, <1>5, EffectiveIs DEF SettingsInv, TypeOK, counters
  <1>7. Valid(live)' /\ live' = Effective(overrides)'
    BY <1>1, <1>3 DEF Valid, Effective, Written
  <1> QED
    BY <1>1, <1>3, <1>4, <1>5, <1>6, <1>7
       DEF SettingsInv, StartAgrees, PoolAgrees, PatchAgrees, TableIsMemory, PanicsTruly

LEMMA PatchFailsKeeps == SettingsInv /\ PatchFails => SettingsInv'
  <1> SUFFICES ASSUME SettingsInv, PatchFails PROVE SettingsInv'
    OBVIOUS
  <1>1. /\ patch.busy /\ failures < MaxFailures /\ failures' = failures + 1
        /\ torn' = (torn \/ db # overrides) /\ patch' = NoPatch
        /\ UNCHANGED <<file, network, db, overrides, live, phase, start, patches, stops, edits>>
    BY DEF PatchFails
  <1>2. patch' \in [next : Overrides, sets : SUBSET Keys, clears : SUBSET Keys, busy : BOOLEAN]
        /\ ~patch'.busy
    BY <1>1, NoneOverridden DEF NoPatch
  <1>3. failures' \in 0..MaxFailures
    BY <1>1, SettingsAssumption DEF SettingsInv, TypeOK
  <1>4. torn' \in BOOLEAN
    BY <1>1
  <1>5. TypeOK'
    BY <1>1, <1>2, <1>3, <1>4 DEF SettingsInv, TypeOK
  <1>6. phase = "up"
    BY <1>1 DEF SettingsInv, PatchAgrees
  <1>7. PatchAgrees' /\ TableIsMemory'
    BY <1>1, <1>2 DEF PatchAgrees, TableIsMemory
  <1> QED
    BY <1>1, <1>5, <1>6, <1>7, UpOnly DEF SettingsInv

LEMMA StopKeeps == SettingsInv /\ Stop => SettingsInv'
  <1> SUFFICES ASSUME SettingsInv, Stop PROVE SettingsInv'
    OBVIOUS
  <1>1. /\ stops < MaxStops /\ stops' = stops + 1 /\ phase' = "down" /\ start' = NoStart
        /\ patch' = NoPatch /\ live' = file /\ overrides' = NoOverrides
        /\ torn' = (torn \/ patch.busy)
        /\ UNCHANGED <<file, network, db, patches, failures, edits>>
    BY DEF Stop
  <1>2. /\ patch' \in [next : Overrides, sets : SUBSET Keys, clears : SUBSET Keys, busy : BOOLEAN]
        /\ ~patch'.busy /\ start' \in [todo : SUBSET Keys, kept : Overrides]
        /\ overrides' \in Overrides
    BY <1>1, NoneOverridden DEF NoPatch, NoStart
  <1>3. stops' \in 0..MaxStops /\ torn' \in BOOLEAN
    BY <1>1, SettingsAssumption DEF SettingsInv, TypeOK
  <1>4. TypeOK'
    BY <1>1, <1>2, <1>3 DEF SettingsInv, TypeOK
  <1> QED
    BY <1>1, <1>2, <1>4
       DEF SettingsInv, StartAgrees, PoolAgrees, PatchAgrees, TableIsMemory, PanicsTruly

LEMMA EditKeeps == SettingsInv /\ Edit => SettingsInv'
  <1> SUFFICES ASSUME SettingsInv, Edit PROVE SettingsInv'
    OBVIOUS
  <1>1. /\ phase = "down" /\ edits < MaxEdits /\ edits' = edits + 1
        /\ file' \in Settings /\ live' = file' /\ network' \in Networks
        /\ UNCHANGED <<db, overrides, phase, start, patch, patches, failures, stops, torn>>
    BY DEF Edit
  <1>2. edits' \in 0..MaxEdits
    BY <1>1, SettingsAssumption DEF SettingsInv, TypeOK
  <1>3. TypeOK'
    BY <1>1, <1>2 DEF SettingsInv, TypeOK
  <1>4. ~patch.busy
    BY <1>1 DEF SettingsInv, PatchAgrees
  <1> QED
    BY <1>1, <1>3, <1>4
       DEF SettingsInv, StartAgrees, PoolAgrees, PatchAgrees, TableIsMemory, PanicsTruly

LEMMA NextSettings == SettingsInv /\ [Next]_vars => SettingsInv'
  <1> SUFFICES ASSUME SettingsInv, [Next]_vars PROVE SettingsInv'
    OBVIOUS
  <1>1. CASE UNCHANGED vars
    BY <1>1 DEF vars, counters, SettingsInv, TypeOK, StartAgrees, PoolAgrees, PatchAgrees,
       TableIsMemory, PanicsTruly, Valid, Effective, Written
  <1> QED
    BY <1>1, BootKeeps, TryKeyKeeps, StartedKeeps, PutKeeps, StatementKeeps, FinishKeeps,
       PatchFailsKeeps, StopKeeps, EditKeeps DEF Next

-----------------------------------------------------------------------------
(* What follows. *)

\* In every reachable state table, memory and running pool are where the patch in progress, or
\* the start, has brought them (settings.rs).
THEOREM SettingsInvariant == Spec => []SettingsInv
  BY InitSettings, NextSettings, PTL DEF Spec

\* The settings' copies keep their types (settings.rs): a key that is reverted has no value left
\* anywhere.
THEOREM TypesKept == Spec => []TypeOK
  <1>1. SettingsInv => TypeOK
    BY DEF SettingsInv
  <1> QED
    BY <1>1, SettingsInvariant, PTL

\* The configuration the document shows is valid, is the one the running pool uses and, unless
\* a patch was given up half way, the one the table restores (apply_patch, start and doc in
\* settings.rs).
THEOREM ConfigurationsAgree == Spec => []ConfigurationAgrees
  <1>1. SettingsInv => ConfigurationAgrees
    <2> SUFFICES ASSUME SettingsInv PROVE ConfigurationAgrees
      OBVIOUS
    <2>1. overrides \in Overrides /\ DOMAIN overrides \subseteq Keys
      BY Types, OverridesAre DEF SettingsInv
    <2>2. ShownIsLive
      <3> SUFFICES ASSUME phase = "up"
                   PROVE  Valid(live) /\ \A k \in Keys : Trim(Doc(overrides)[k].value) = live[k]
        BY DEF ShownIsLive
      <3>1. Valid(live) /\ live = Effective(overrides)
        BY DEF SettingsInv, PoolAgrees
      <3> QED
        BY <3>1 DEF Doc, Effective, Written
    <2>3. ShownIsStored
      <3> SUFFICES ASSUME phase = "up", ~patch.busy, ~torn, NEW k \in Keys
                   PROVE  IF k \in DOMAIN db
                            THEN Doc(overrides)[k].overridden /\ Doc(overrides)[k].value = db[k]
                            ELSE ~Doc(overrides)[k].overridden
        BY DEF ShownIsStored
      <3>1. db = overrides
        BY DEF SettingsInv, TableIsMemory
      <3> QED
        BY <3>1 DEF Doc
    <2> QED
      BY <2>2, <2>3 DEF ConfigurationAgrees
  <1> QED
    BY <1>1, SettingsInvariant, PTL

\* A file that validates by itself never makes the start panic, whatever the settings table
\* holds (the trials of LiveSettings::start).
THEOREM ValidFilesStart == Spec => []ValidFileStarts
  <1>1. SettingsInv => ValidFileStarts
    BY DEF SettingsInv, PanicsTruly, ValidFileStarts
  <1> QED
    BY <1>1, SettingsInvariant, PTL

-----------------------------------------------------------------------------
(* Samples and the passes over them. *)

PassTyped == pass \in {Idle} \union [step : Steps, at : {now}]

RetentionTypes ==
  /\ now \in Nat /\ folded \in 0 .. now
  /\ DOMAIN samples \subseteq Nat /\ DOMAIN covers = DOMAIN samples
  /\ DOMAIN recorded \subseteq 0 .. now
  /\ PassTyped

\* A row averages samples of its own hour, none of them before it.
RowsStartTheirSamples == \A r \in DOMAIN covers : \A t \in covers[r] :
  t \in DOMAIN recorded /\ r <= t /\ BucketOf(r, LongBucket) = BucketOf(t, LongBucket)

\* Between the two statements of downsample_range: a row of the range has gone into the row at
\* the start of its bucket.
Absorbed(lo, hi, bucket) == \A t \in Between(lo, hi) :
  BucketOf(t, bucket) \in DOMAIN covers /\ covers[t] \subseteq covers[BucketOf(t, bucket)]

\* After both: only the starts are left.
AtStarts(lo, hi, bucket) == \A t \in Between(lo, hi) : t % bucket = 0

PassAgrees ==
  /\ pass.step = "drop long" => Absorbed(LongStart, LongEnd, LongBucket)
  /\ pass.step = "drop mid" => Absorbed(MidStart, MidEnd, MidBucket)
  /\ pass.step \in {"fold mid", "drop mid", "expire"} => AtStarts(LongStart, LongEnd, LongBucket)
  /\ pass.step = "expire" => AtStarts(MidStart, MidEnd, MidBucket)

\* What the last pass that finished made of the table, also while a later one is under way.
Tidy == folded > 0 =>
  /\ \A t \in DOMAIN samples : t >= AlignDown(folded - LongAge, LongBucket)
  /\ AtStarts(AlignDown(folded - MidAge, MidBucket), AlignDown(folded - RawAge, MidBucket), MidBucket)
  /\ AtStarts(AlignDown(folded - LongAge, LongBucket), AlignDown(folded - MidAge, LongBucket), LongBucket)

RetentionInv ==
  RetentionTypes /\ RowsStartTheirSamples /\ SamplesAreCovered /\ PassAgrees /\ Tidy

-----------------------------------------------------------------------------
(* Buckets. *)

LEMMA BucketStart ==
  ASSUME NEW t \in Int, NEW b \in Nat \ {0}
  PROVE  /\ BucketOf(t, b) \in Int /\ BucketOf(t, b) <= t /\ t < BucketOf(t, b) + b
         /\ BucketOf(BucketOf(t, b), b) = BucketOf(t, b)
         /\ t % b = 0 <=> BucketOf(t, b) = t
         /\ t \in Nat => BucketOf(t, b) \in Nat
         /\ AlignDown(t, b) = BucketOf(t, b)
  <1>1. t \div b \in Int /\ BucketOf(t, b) \in Int /\ BucketOf(t, b) <= t /\ t < BucketOf(t, b) + b
    BY DEF BucketOf
  <1>2. BucketOf(BucketOf(t, b), b) = BucketOf(t, b)
    <2>1. ASSUME NEW k \in Int PROVE (k * b) \div b = k
      OBVIOUS
    <2> QED
      BY <1>1, <2>1 DEF BucketOf
  <1>3. t % b = 0 <=> BucketOf(t, b) = t
    BY DEF BucketOf
  <1>4. t \in Nat => BucketOf(t, b) \in Nat
    BY DEF BucketOf
  <1> QED
    BY <1>1, <1>2, <1>3, <1>4 DEF AlignDown, BucketOf

LEMMA NotAfter ==
  ASSUME NEW t \in Int, NEW b \in Nat \ {0}
  PROVE  AlignDown(t, b) \in Int /\ AlignDown(t, b) <= t
  BY BucketStart

LEMMA ProductsInOrder ==
  ASSUME NEW b \in Nat \ {0}, NEW i \in Int, NEW j \in Int, i <= j
  PROVE  i * b <= j * b
  OBVIOUS

LEMMA BucketsInOrder ==
  ASSUME NEW s \in Int, NEW t \in Int, NEW b \in Nat \ {0}, s <= t
  PROVE  BucketOf(s, b) <= BucketOf(t, b)
  <1>1. s \div b \in Int /\ t \div b \in Int /\ s \div b <= t \div b
    OBVIOUS
  <1> QED
    BY <1>1, ProductsInOrder DEF BucketOf

\* The start of an hour is the start of a minute (LongBucket is a multiple of MidBucket).
LEMMA LongStartsAreMid ==
  ASSUME NEW t \in Int
  PROVE  /\ BucketOf(BucketOf(t, LongBucket), MidBucket) = BucketOf(t, LongBucket)
         /\ BucketOf(BucketOf(t, MidBucket), LongBucket) = BucketOf(t, LongBucket)
         /\ BucketOf(t, LongBucket) <= BucketOf(t, MidBucket)
  <1> USE RetentionAssumption
  <1> DEFINE k == LongBucket \div MidBucket
             q == t \div LongBucket
  <1>1. k \in Int /\ q \in Int /\ LongBucket = k * MidBucket
    BY DEF k, q
  <1>2. BucketOf(t, LongBucket) = (q * k) * MidBucket /\ q * k \in Int
    <2>1. q * (k * MidBucket) = (q * k) * MidBucket /\ q * k \in Int
      BY <1>1
    <2> QED
      BY <1>1, <2>1 DEF BucketOf
  <1>3. BucketOf(BucketOf(t, LongBucket), MidBucket) = BucketOf(t, LongBucket)
    <2>1. ASSUME NEW n \in Int PROVE BucketOf(n * MidBucket, MidBucket) = n * MidBucket
      <3>1. (n * MidBucket) \div MidBucket = n
        OBVIOUS
      <3> QED
        BY <3>1 DEF BucketOf
    <2> QED
      BY <1>2, <2>1
  <1>4. BucketOf(t, LongBucket) <= BucketOf(t, MidBucket)
    BY <1>3, BucketStart, BucketsInOrder
  <1>5. BucketOf(BucketOf(t, MidBucket), LongBucket) = BucketOf(t, LongBucket)
    <2> DEFINE m == BucketOf(t, MidBucket)
    <2>1. m \in Int /\ m <= t /\ BucketOf(t, LongBucket) \in Int
      BY BucketStart
    <2>2. BucketOf(m, LongBucket) <= BucketOf(t, LongBucket)
      BY <2>1, BucketsInOrder
    <2>3. BucketOf(t, LongBucket) <= BucketOf(m, LongBucket)
      BY <1>4, <2>1, BucketStart, BucketsInOrder
    <2>4. BucketOf(m, LongBucket) \in Int
      BY <2>1, BucketStart
    <2> QED
      BY <2>1, <2>2, <2>3, <2>4
  <1> QED
    BY <1>3, <1>4, <1>5

\* A bucket of either size, in terms of the hour.
LEMMA BucketInHour ==
  ASSUME NEW t \in Int, NEW bucket \in {MidBucket, LongBucket}
  PROVE  /\ bucket \in Nat \ {0}
         /\ BucketOf(BucketOf(t, bucket), LongBucket) = BucketOf(t, LongBucket)
  <1>1. CASE bucket = LongBucket
    BY <1>1, BucketStart, RetentionAssumption
  <1>2. CASE bucket = MidBucket
    BY <1>2, LongStartsAreMid, RetentionAssumption
  <1> QED
    BY <1>1, <1>2

-----------------------------------------------------------------------------
(* The two statements of downsample_range. *)

\* The new rows are starts of buckets in the range; no sample is lost to them, and every row of
\* the range has gone into one.
LEMMA FoldRows ==
  ASSUME RetentionInv, NEW lo \in Int, NEW hi \in Int, NEW bucket \in {MidBucket, LongBucket},
         BucketOf(lo, bucket) = lo, Fold(lo, hi, bucket), UNCHANGED <<now, recorded>>
  PROVE  /\ DOMAIN samples' \subseteq Nat /\ DOMAIN covers' = DOMAIN samples'
         /\ \A r \in DOMAIN samples' \ DOMAIN samples : lo <= r /\ r < hi /\ r % bucket = 0
         /\ RowsStartTheirSamples' /\ SamplesAreCovered'
         /\ \A t \in DOMAIN samples' : lo <= t /\ t < hi =>
              /\ BucketOf(t, bucket) \in DOMAIN covers'
              /\ covers'[t] \subseteq covers'[BucketOf(t, bucket)]
  <1> DEFINE starts == {BucketOf(t, bucket) : t \in Between(lo, hi)}
             Of(b)  == {t \in Between(lo, hi) : BucketOf(t, bucket) = b}
  <1>1. bucket \in Nat \ {0} /\ DOMAIN samples \subseteq Nat /\ DOMAIN covers = DOMAIN samples
        /\ Between(lo, hi) \subseteq DOMAIN samples
    BY BucketInHour DEF RetentionInv, RetentionTypes, Between
  <1>2. /\ DOMAIN samples' = DOMAIN samples \union starts
        /\ DOMAIN covers' = DOMAIN samples \union starts
        /\ \A b \in starts : covers'[b] = UNION {covers[x] : x \in Of(b)}
        /\ \A t \in DOMAIN samples \ starts : covers'[t] = covers[t]
    BY DEF Fold
  <1>3. ASSUME NEW t \in Between(lo, hi)
        PROVE  /\ t \in DOMAIN samples /\ t \in Nat /\ lo <= t /\ t < hi
               /\ BucketOf(t, bucket) \in starts /\ BucketOf(t, bucket) \in Nat
               /\ lo <= BucketOf(t, bucket) /\ BucketOf(t, bucket) <= t
               /\ BucketOf(t, bucket) % bucket = 0
               /\ covers[t] \subseteq covers'[BucketOf(t, bucket)]
    <2>1. t \in DOMAIN samples /\ t \in Nat /\ lo <= t /\ t < hi
      BY <1>1 DEF Between
    <2>2. /\ BucketOf(t, bucket) \in Nat /\ BucketOf(t, bucket) <= t
          /\ BucketOf(BucketOf(t, bucket), bucket) = BucketOf(t, bucket)
      BY <1>1, <2>1, BucketStart
    <2>3. BucketOf(t, bucket) % bucket = 0
      BY <1>1, <2>2, BucketStart
    <2>4. lo <= BucketOf(t, bucket)
      BY <1>1, <2>1, BucketsInOrder
    <2>5. BucketOf(t, bucket) \in starts /\ t \in Of(BucketOf(t, bucket))
      OBVIOUS
    <2>6. covers[t] \subseteq covers'[BucketOf(t, bucket)]
      BY <1>2, <2>5
    <2> QED
      BY <2>1, <2>2, <2>3, <2>4, <2>5, <2>6
  <1> HIDE DEF starts
  <1>4. ASSUME NEW b \in starts
        PROVE  b \in Nat /\ lo <= b /\ b < hi /\ b % bucket = 0 /\ BucketOf(b, bucket) = b
    <2>1. PICK t \in Between(lo, hi) : b = BucketOf(t, bucket)
      BY DEF starts
    <2>2. b \in Nat /\ lo <= b /\ b <= t /\ t < hi /\ t \in Nat /\ b % bucket = 0
      BY <1>3, <2>1
    <2> QED
      BY <1>1, <2>2, BucketStart
  <1>5. DOMAIN samples' \subseteq Nat
    BY <1>1, <1>2, <1>4
  <1>6. ASSUME NEW r \in DOMAIN covers
        PROVE  r \in DOMAIN covers' /\ covers[r] \subseteq covers'[r]
    <2>1. CASE r \in starts
      <3>1. r \in Between(lo, hi) /\ BucketOf(r, bucket) = r
        BY <1>1, <1>4, <2>1 DEF Between
      <3> QED
        BY <1>2, <1>3, <2>1, <3>1
    <2>2. CASE r \notin starts
      BY <1>1, <1>2, <2>2
    <2> QED
      BY <2>1, <2>2
  <1>7. SamplesAreCovered'
    BY <1>6 DEF RetentionInv, SamplesAreCovered
  <1>8. RowsStartTheirSamples'
    <2> SUFFICES ASSUME NEW r \in DOMAIN covers', NEW t \in covers'[r]
                 PROVE  t \in DOMAIN recorded /\ r <= t /\ BucketOf(r, LongBucket) = BucketOf(t, LongBucket)
      BY DEF RowsStartTheirSamples, BucketOf
    <2>1. CASE r \in starts
      <3>1. PICK x \in Of(r) : t \in covers[x]
        BY <1>2, <2>1
      <3>2. x \in Between(lo, hi) /\ r = BucketOf(x, bucket)
        BY <3>1
      <3>3. x \in DOMAIN covers /\ x \in Nat /\ r \in Nat /\ r <= x
        BY <1>1, <1>3, <3>2
      <3>4. t \in DOMAIN recorded /\ x <= t /\ BucketOf(x, LongBucket) = BucketOf(t, LongBucket)
        BY <3>1, <3>3 DEF RetentionInv, RowsStartTheirSamples
      <3>5. BucketOf(r, LongBucket) = BucketOf(x, LongBucket)
        BY <3>2, <3>3, BucketInHour
      <3>6. t \in Nat
        BY <3>4 DEF RetentionInv, RetentionTypes
      <3> QED
        BY <3>3, <3>4, <3>5, <3>6
    <2>2. CASE r \notin starts
      BY <1>1, <1>2, <2>2 DEF RetentionInv, RowsStartTheirSamples
    <2> QED
      BY <2>1, <2>2
  <1>9. ASSUME NEW t \in DOMAIN samples', lo <= t, t < hi
        PROVE  BucketOf(t, bucket) \in DOMAIN covers' /\ covers'[t] \subseteq covers'[BucketOf(t, bucket)]
    <2>1. CASE t \in starts
      BY <1>2, <1>4, <2>1
    <2>2. CASE t \notin starts
      <3>1. t \in Between(lo, hi) /\ covers'[t] = covers[t]
        BY <1>2, <1>9, <2>2 DEF Between
      <3> QED
        BY <1>2, <1>3, <3>1
    <2> QED
      BY <2>1, <2>2
  <1> QED
    BY <1>2, <1>4, <1>5, <1>7, <1>8, <1>9

\* Of the rows of the range the starts are left, and with them every sample.
LEMMA DropRows ==
  ASSUME RetentionInv, NEW lo \in Int, NEW hi \in Int, NEW bucket \in {MidBucket, LongBucket},
         BucketOf(lo, bucket) = lo, Absorbed(lo, hi, bucket), Drop(lo, hi, bucket),
         UNCHANGED <<now, recorded>>
  PROVE  /\ DOMAIN samples' \subseteq DOMAIN samples /\ DOMAIN covers' = DOMAIN samples'
         /\ RowsStartTheirSamples' /\ SamplesAreCovered'
         /\ \A t \in DOMAIN samples' : lo <= t /\ t < hi => t % bucket = 0
  <1>1. bucket \in Nat \ {0} /\ DOMAIN samples \subseteq Nat /\ DOMAIN covers = DOMAIN samples
    BY BucketInHour DEF RetentionInv, RetentionTypes
  <1>2. /\ DOMAIN samples' = {t \in DOMAIN samples : t \in Between(lo, hi) => BucketOf(t, bucket) = t}
        /\ DOMAIN covers' = DOMAIN samples'
        /\ \A t \in DOMAIN samples' : covers'[t] = covers[t]
    BY DEF Drop, Keep
  <1>3. ASSUME NEW t \in DOMAIN samples', lo <= t, t < hi PROVE t % bucket = 0
    BY <1>1, <1>2, <1>3, BucketStart DEF Between
  <1>4. ASSUME NEW r \in DOMAIN covers
        PROVE  \E x \in DOMAIN covers' : covers[r] \subseteq covers'[x]
    <2>1. CASE r \in DOMAIN samples'
      BY <1>2, <2>1
    <2>2. CASE r \notin DOMAIN samples'
      <3>1. r \in Between(lo, hi) /\ r \in Nat
        BY <1>1, <1>2, <2>2
      <3>2. BucketOf(r, bucket) \in DOMAIN covers /\ covers[r] \subseteq covers[BucketOf(r, bucket)]
        BY <3>1 DEF Absorbed
      <3>3. BucketOf(BucketOf(r, bucket), bucket) = BucketOf(r, bucket)
        BY <1>1, <3>1, BucketStart
      <3> QED
        BY <1>1, <1>2, <3>2, <3>3
    <2> QED
      BY <2>1, <2>2
  <1>5. SamplesAreCovered'
    BY <1>4 DEF RetentionInv, SamplesAreCovered
  <1>6. RowsStartTheirSamples'
    BY <1>1, <1>2 DEF RetentionInv, RowsStartTheirSamples, BucketOf
  <1> QED
    BY <1>2, <1>3, <1>5, <1>6

-----------------------------------------------------------------------------
LEMMA InitRetention == RetentionInit => RetentionInv
  <1> SUFFICES ASSUME RetentionInit PROVE RetentionInv
    OBVIOUS
  <1>1. RetentionTypes
    BY RetentionAssumption DEF RetentionInit, RetentionTypes, PassTyped
  <1>2. PassAgrees
    BY DEF RetentionInit, PassAgrees, Idle
  <1> QED
    BY <1>1, <1>2 DEF RetentionInit, RetentionInv, RowsStartTheirSamples, SamplesAreCovered, Tidy

\* The types of a pass and of its ranges.
LEMMA PassTypes ==
  ASSUME RetentionInv, pass # Idle
  PROVE  /\ pass.step \in Steps /\ pass.at = now /\ now \in Nat
         /\ \A next : [pass EXCEPT !.step = next] = [step |-> next, at |-> now]
         /\ LongStart \in Int /\ LongEnd \in Int /\ MidStart \in Int /\ MidEnd \in Int
         /\ BucketOf(LongStart, LongBucket) = LongStart /\ BucketOf(MidStart, MidBucket) = MidStart
         /\ LongEnd <= MidStart
  <1> USE RetentionAssumption
  <1>1. /\ pass \in [step : Steps, at : {now}] /\ now \in Nat
    BY DEF RetentionInv, RetentionTypes, PassTyped
  <1>2. \A next : [pass EXCEPT !.step = next] = [step |-> next, at |-> now]
    BY <1>1
  <1>3. pass.at - LongAge \in Int /\ pass.at - MidAge \in Int /\ pass.at - RawAge \in Int
    BY <1>1
  <1> QED
    BY <1>1, <1>2, <1>3, BucketStart, LongStartsAreMid DEF LongStart, LongEnd, MidStart, MidEnd

LEMMA IdleIsNoStep == Idle.step \notin Steps
  BY DEF Idle, Steps

LEMMA IntervalsGrow == ASSUME NEW m \in Nat, NEW n \in Nat, m <= n PROVE 0 .. m \subseteq 0 .. n
  OBVIOUS

\* What leaves the rows alone keeps what a pass has done with them.
LEMMA RowsKept ==
  ASSUME RetentionInv, UNCHANGED <<rows, recorded, folded>>, now' \in Nat, now <= now',
         PassTyped', PassAgrees'
  PROVE  RetentionInv'
  <1>1. RetentionTypes'
    <2>1. now \in Nat /\ folded \in 0 .. now /\ DOMAIN recorded \subseteq 0 .. now
      BY DEF RetentionInv, RetentionTypes
    <2>2. folded' \in 0 .. now' /\ DOMAIN recorded' \subseteq 0 .. now'
      BY <2>1, IntervalsGrow
    <2> QED
      BY <2>2 DEF RetentionInv, RetentionTypes, rows
  <1>2. RowsStartTheirSamples'
    BY DEF RetentionInv, RowsStartTheirSamples, BucketOf, rows
  <1>3. SamplesAreCovered'
    <2>1. \A t \in DOMAIN recorded : t \in Int /\ (t >= now' - LongAge => t >= now - LongAge)
      <3>1. LongAge \in Nat /\ now \in Nat /\ DOMAIN recorded \subseteq 0 .. now
        BY RetentionAssumption DEF RetentionInv, RetentionTypes
      <3> QED
        BY <3>1
    <2> QED
      BY <2>1 DEF RetentionInv, SamplesAreCovered, rows
  <1>5. Tidy'
    BY DEF RetentionInv, Tidy, AtStarts, Between, AlignDown, rows
  <1> QED
    BY <1>1, <1>2, <1>3, <1>5 DEF RetentionInv

\* Before a pass reaches the samples it has nothing to agree with.
LEMMA NothingFoldedYet ==
  ASSUME pass'.step \notin {"drop long", "fold mid", "drop mid", "expire"}
  PROVE  PassAgrees'
  BY DEF PassAgrees

LEMMA SameRowsSamePass ==
  ASSUME PassAgrees, UNCHANGED <<rows, pass>>
  PROVE  PassAgrees'
  <1>1. UNCHANGED <<LongStart, LongEnd, MidStart, MidEnd>>
    BY DEF LongStart, LongEnd, MidStart, MidEnd, AlignDown
  <1> QED
    BY <1>1 DEF PassAgrees, Absorbed, AtStarts, Between, BucketOf, rows

LEMMA SampleKeeps == RetentionInv /\ Sample => RetentionInv'
  <1> SUFFICES ASSUME RetentionInv, Sample PROVE RetentionInv'
    OBVIOUS
  <1>1. /\ now \in Nat /\ pass = Idle /\ UNCHANGED <<now, pass, folded>> /\ folded \in 0 .. now
        /\ DOMAIN samples' = DOMAIN samples \union {now} /\ DOMAIN samples \subseteq Nat
        /\ DOMAIN recorded' = DOMAIN recorded \union {now} /\ DOMAIN recorded \subseteq 0 .. now
        /\ DOMAIN covers = DOMAIN samples /\ covers' = Write(covers, now, {now})
    BY DEF RetentionInv, RetentionTypes, Sample, Write
  <1>2. /\ DOMAIN covers' = DOMAIN covers \union {now} /\ covers'[now] = {now}
        /\ \A t \in DOMAIN covers \ {now} : covers'[t] = covers[t]
    BY <1>1 DEF Write
  <1>3. RetentionTypes'
    BY <1>1, <1>2 DEF RetentionTypes, PassTyped
  <1>4. RowsStartTheirSamples'
    <2> SUFFICES ASSUME NEW r \in DOMAIN covers', NEW t \in covers'[r]
                 PROVE  t \in DOMAIN recorded' /\ r <= t /\ BucketOf(r, LongBucket) = BucketOf(t, LongBucket)
      BY DEF RowsStartTheirSamples, BucketOf
    <2>1. CASE r = now
      BY <1>1, <1>2, <2>1
    <2>2. CASE r # now
      BY <1>1, <1>2, <2>2 DEF RetentionInv, RowsStartTheirSamples
    <2> QED
      BY <2>1, <2>2
  <1>5. now \in DOMAIN covers => covers[now] \subseteq {now}
    <2>1. ASSUME now \in DOMAIN covers, NEW t \in covers[now] PROVE t = now
      <3>1. t \in DOMAIN recorded /\ now <= t
        BY <2>1 DEF RetentionInv, RowsStartTheirSamples
      <3> QED
        BY <1>1, <3>1
    <2> QED
      BY <2>1
  <1>6. SamplesAreCovered'
    BY <1>1, <1>2, <1>5 DEF RetentionInv, SamplesAreCovered
  <1>7. PassAgrees'
    BY <1>1 DEF PassAgrees, Idle
  <1>8. Tidy'
    <2> SUFFICES ASSUME folded > 0
                 PROVE  /\ now >= AlignDown(folded - LongAge, LongBucket)
                        /\ now >= AlignDown(folded - RawAge, MidBucket)
                        /\ now >= AlignDown(folded - MidAge, LongBucket)
                        /\ AlignDown(folded - RawAge, MidBucket) \in Int
                        /\ AlignDown(folded - MidAge, LongBucket) \in Int
      BY <1>1 DEF RetentionInv, Tidy, AtStarts, Between, AlignDown
    <2>1. ASSUME NEW oldness \in Nat, NEW bucket \in Nat \ {0}
          PROVE  now >= AlignDown(folded - oldness, bucket) /\ AlignDown(folded - oldness, bucket) \in Int
      <3>1. folded - oldness \in Int /\ folded - oldness <= now
        BY <1>1
      <3>2. /\ AlignDown(folded - oldness, bucket) \in Int
            /\ AlignDown(folded - oldness, bucket) <= folded - oldness
        BY <3>1, NotAfter
      <3> QED
        BY <1>1, <3>1, <3>2
    <2> QED
      BY <2>1, RetentionAssumption
  <1> QED
    BY <1>3, <1>4, <1>6, <1>7, <1>8 DEF RetentionInv

-----------------------------------------------------------------------------
\* What the last pass that finished made of the table survives the folding of a later one.
LEMMA StillTidy ==
  ASSUME RetentionInv, UNCHANGED folded, DOMAIN samples' \subseteq Nat,
         \A r \in DOMAIN samples' \ DOMAIN samples :
           folded > 0 =>
             /\ r >= AlignDown(folded - LongAge, LongBucket)
             /\ r % MidBucket = 0
             /\ r % LongBucket = 0 \/ r >= AlignDown(folded - MidAge, LongBucket)
  PROVE  Tidy'
  <1>1. folded \in Nat /\ DOMAIN samples \subseteq Nat
    BY DEF RetentionInv, RetentionTypes
  <1>2. folded > 0 => AlignDown(folded - MidAge, LongBucket) \in Int
    BY <1>1, BucketStart, RetentionAssumption
  <1> SUFFICES ASSUME folded > 0, NEW t \in DOMAIN samples'
               PROVE  /\ t >= AlignDown(folded - LongAge, LongBucket)
                      /\ (/\ AlignDown(folded - MidAge, MidBucket) <= t
                          /\ t < AlignDown(folded - RawAge, MidBucket)) => t % MidBucket = 0
                      /\ (/\ AlignDown(folded - LongAge, LongBucket) <= t
                          /\ t < AlignDown(folded - MidAge, LongBucket)) => t % LongBucket = 0
    BY DEF Tidy, AtStarts, Between, AlignDown
  <1>3. CASE t \in DOMAIN samples
    BY <1>3 DEF RetentionInv, Tidy, AtStarts, Between
  <1>4. CASE t \notin DOMAIN samples
    BY <1>1, <1>2, <1>4
  <1> QED
    BY <1>3, <1>4

\* The ranges of a pass lie after those of an earlier one.
LEMMA LaterRanges ==
  ASSUME RetentionInv, pass # Idle
  PROVE  /\ LongStart >= AlignDown(folded - LongAge, LongBucket)
         /\ MidStart >= AlignDown(folded - MidAge, LongBucket)
         /\ MidStart >= AlignDown(folded - LongAge, LongBucket)
  <1> USE RetentionAssumption
  <1> DEFINE a == pass.at - LongAge
             b == pass.at - MidAge
             c == folded - LongAge
             d == folded - MidAge
  <1>1. a \in Int /\ b \in Int /\ c \in Int /\ d \in Int /\ c <= a /\ d <= b /\ c <= d
    BY PassTypes DEF RetentionInv, RetentionTypes
  <1>2. /\ BucketOf(c, LongBucket) <= BucketOf(a, LongBucket)
        /\ BucketOf(d, LongBucket) <= BucketOf(b, LongBucket)
        /\ BucketOf(c, LongBucket) <= BucketOf(d, LongBucket)
    BY <1>1, BucketsInOrder
  <1>3. BucketOf(b, LongBucket) <= BucketOf(b, MidBucket)
    BY <1>1, LongStartsAreMid
  <1>4. /\ BucketOf(a, LongBucket) \in Int /\ BucketOf(b, LongBucket) \in Int /\ BucketOf(b, MidBucket) \in Int
        /\ BucketOf(c, LongBucket) \in Int /\ BucketOf(d, LongBucket) \in Int
    BY <1>1, BucketStart
  <1> HIDE DEF a, b, c, d
  <1>5. /\ BucketOf(a, LongBucket) >= BucketOf(c, LongBucket)
        /\ BucketOf(b, MidBucket) >= BucketOf(d, LongBucket)
        /\ BucketOf(b, MidBucket) >= BucketOf(c, LongBucket)
    BY <1>2, <1>3, <1>4
  <1> QED
    BY <1>5 DEF a, b, c, d, LongStart, MidStart, AlignDown, BucketOf

LEMMA Stepped ==
  ASSUME RetentionInv, NEW step \in Steps, NEW next \in Steps, Statement(step, next)
  PROVE  /\ pass # Idle /\ pass.step = step /\ pass' = [step |-> next, at |-> now]
         /\ UNCHANGED <<now, recorded, folded, LongStart, LongEnd, MidStart, MidEnd>>
         /\ pass' \in [step : Steps, at : {now'}]
  <1>1. pass # Idle /\ pass.step = step
    BY IdleIsNoStep DEF Statement
  <1> QED
    BY <1>1, PassTypes DEF Statement, LongStart, LongEnd, MidStart, MidEnd, AlignDown

LEMMA FoldLongKeeps == RetentionInv /\ FoldLong => RetentionInv'
  <1> SUFFICES ASSUME RetentionInv, FoldLong PROVE RetentionInv'
    OBVIOUS
  <1> USE RetentionAssumption
  <1>1. /\ pass # Idle /\ pass' = [step |-> "drop long", at |-> now]
        /\ UNCHANGED <<now, recorded, folded, LongStart, LongEnd, MidStart, MidEnd>>
        /\ pass' \in [step : Steps, at : {now'}]
    BY Stepped DEF FoldLong, Steps
  <1>2. /\ DOMAIN samples' \subseteq Nat /\ DOMAIN covers' = DOMAIN samples'
        /\ \A r \in DOMAIN samples' \ DOMAIN samples : LongStart <= r /\ r % LongBucket = 0
        /\ RowsStartTheirSamples' /\ SamplesAreCovered'
        /\ \A t \in DOMAIN samples' : LongStart <= t /\ t < LongEnd =>
             /\ BucketOf(t, LongBucket) \in DOMAIN covers'
             /\ covers'[t] \subseteq covers'[BucketOf(t, LongBucket)]
    BY <1>1, PassTypes, FoldRows DEF FoldLong
  <1>3. RetentionTypes'
    BY <1>1, <1>2 DEF RetentionInv, RetentionTypes, PassTyped
  <1>4. PassAgrees'
    BY <1>1, <1>2 DEF PassAgrees, Absorbed, Between, BucketOf
  <1>5. Tidy'
    <2>1. ASSUME NEW r \in DOMAIN samples' \ DOMAIN samples
          PROVE  r >= AlignDown(folded - LongAge, LongBucket) /\ r % LongBucket = 0 /\ r % MidBucket = 0
      <3>1. r \in Nat /\ LongStart <= r /\ r % LongBucket = 0
        BY <1>2
      <3>2. r % MidBucket = 0
        BY <3>1, BucketStart, LongStartsAreMid
      <3>3. LongStart >= AlignDown(folded - LongAge, LongBucket) /\ LongStart \in Int
            /\ AlignDown(folded - LongAge, LongBucket) \in Int
        <4>1. folded - LongAge \in Int
          BY DEF RetentionInv, RetentionTypes
        <4> QED
          BY <1>1, <4>1, LaterRanges, PassTypes, BucketStart, ZenonT(30)
      <3> QED
        BY <3>1, <3>2, <3>3
    <2> QED
      BY <1>1, <1>2, <2>1, StillTidy
  <1> QED
    BY <1>2, <1>3, <1>4, <1>5 DEF RetentionInv

LEMMA FoldMidKeeps == RetentionInv /\ FoldMid => RetentionInv'
  <1> SUFFICES ASSUME RetentionInv, FoldMid PROVE RetentionInv'
    OBVIOUS
  <1> USE RetentionAssumption
  <1>1. /\ pass # Idle /\ pass.step = "fold mid" /\ pass' = [step |-> "drop mid", at |-> now]
        /\ UNCHANGED <<now, recorded, folded, LongStart, LongEnd, MidStart, MidEnd>>
        /\ pass' \in [step : Steps, at : {now'}]
    BY Stepped DEF FoldMid, Steps
  <1>2. /\ DOMAIN samples' \subseteq Nat /\ DOMAIN covers' = DOMAIN samples'
        /\ \A r \in DOMAIN samples' \ DOMAIN samples : MidStart <= r /\ r % MidBucket = 0
        /\ RowsStartTheirSamples' /\ SamplesAreCovered'
        /\ \A t \in DOMAIN samples' : MidStart <= t /\ t < MidEnd =>
             /\ BucketOf(t, MidBucket) \in DOMAIN covers'
             /\ covers'[t] \subseteq covers'[BucketOf(t, MidBucket)]
    BY <1>1, PassTypes, FoldRows DEF FoldMid
  <1>3. RetentionTypes'
    BY <1>1, <1>2 DEF RetentionInv, RetentionTypes, PassTyped
  <1>4. AtStarts(LongStart, LongEnd, LongBucket)'
    <2> SUFFICES ASSUME NEW t \in DOMAIN samples', LongStart <= t, t < LongEnd PROVE t % LongBucket = 0
      BY <1>1 DEF AtStarts, Between
    <2>1. t \in DOMAIN samples
      <3>1. LongEnd <= MidStart /\ LongEnd \in Int /\ MidStart \in Int
        BY <1>1, PassTypes
      <3> QED
        BY <1>2, <3>1
    <2> QED
      BY <1>1, <2>1 DEF RetentionInv, PassAgrees, AtStarts, Between
  <1>5. PassAgrees'
    BY <1>1, <1>2, <1>4 DEF PassAgrees, Absorbed, Between, BucketOf
  <1>6. Tidy'
    <2>1. ASSUME NEW r \in DOMAIN samples' \ DOMAIN samples
          PROVE  /\ r >= AlignDown(folded - LongAge, LongBucket) /\ r % MidBucket = 0
                 /\ r >= AlignDown(folded - MidAge, LongBucket)
      <3>1. r \in Nat /\ MidStart <= r /\ r % MidBucket = 0
        BY <1>2
      <3>2. /\ MidStart >= AlignDown(folded - MidAge, LongBucket) /\ MidStart \in Int
            /\ MidStart >= AlignDown(folded - LongAge, LongBucket)
        BY <1>1, LaterRanges, PassTypes
      <3>3. folded - LongAge \in Int /\ folded - MidAge \in Int
        BY DEF RetentionInv, RetentionTypes
      <3>4. /\ AlignDown(folded - LongAge, LongBucket) \in Int
            /\ AlignDown(folded - MidAge, LongBucket) \in Int
        BY <3>3, NotAfter
      <3> QED
        BY <3>1, <3>2, <3>4
    <2> QED
      BY <1>1, <1>2, <2>1, StillTidy
  <1> QED
    BY <1>2, <1>3, <1>5, <1>6 DEF RetentionInv

LEMMA DropLongKeeps == RetentionInv /\ DropLong => RetentionInv'
  <1> SUFFICES ASSUME RetentionInv, DropLong PROVE RetentionInv'
    OBVIOUS
  <1> USE RetentionAssumption
  <1>1. /\ pass # Idle /\ pass.step = "drop long" /\ pass' = [step |-> "fold mid", at |-> now]
        /\ UNCHANGED <<now, recorded, folded, LongStart, LongEnd, MidStart, MidEnd>>
        /\ pass' \in [step : Steps, at : {now'}]
    BY Stepped DEF DropLong, Steps
  <1>2. Absorbed(LongStart, LongEnd, LongBucket)
    BY <1>1 DEF RetentionInv, PassAgrees
  <1>3. /\ DOMAIN samples' \subseteq DOMAIN samples /\ DOMAIN covers' = DOMAIN samples'
        /\ RowsStartTheirSamples' /\ SamplesAreCovered'
        /\ \A t \in DOMAIN samples' : LongStart <= t /\ t < LongEnd => t % LongBucket = 0
    BY <1>1, <1>2, PassTypes, DropRows DEF DropLong
  <1>4. RetentionTypes'
    BY <1>1, <1>3 DEF RetentionInv, RetentionTypes, PassTyped
  <1>5. PassAgrees'
    BY <1>1, <1>3 DEF PassAgrees, AtStarts, Between
  <1>6. Tidy'
    BY <1>1, <1>3, <1>4, StillTidy DEF RetentionTypes
  <1> QED
    BY <1>3, <1>4, <1>5, <1>6 DEF RetentionInv

LEMMA DropMidKeeps == RetentionInv /\ DropMid => RetentionInv'
  <1> SUFFICES ASSUME RetentionInv, DropMid PROVE RetentionInv'
    OBVIOUS
  <1> USE RetentionAssumption
  <1>1. /\ pass # Idle /\ pass.step = "drop mid" /\ pass' = [step |-> "expire", at |-> now]
        /\ UNCHANGED <<now, recorded, folded, LongStart, LongEnd, MidStart, MidEnd>>
        /\ pass' \in [step : Steps, at : {now'}]
    BY Stepped DEF DropMid, Steps
  <1>2. Absorbed(MidStart, MidEnd, MidBucket) /\ AtStarts(LongStart, LongEnd, LongBucket)
    BY <1>1 DEF RetentionInv, PassAgrees
  <1>3. /\ DOMAIN samples' \subseteq DOMAIN samples /\ DOMAIN covers' = DOMAIN samples'
        /\ RowsStartTheirSamples' /\ SamplesAreCovered'
        /\ \A t \in DOMAIN samples' : MidStart <= t /\ t < MidEnd => t % MidBucket = 0
    BY <1>1, <1>2, PassTypes, DropRows DEF DropMid
  <1>4. RetentionTypes'
    BY <1>1, <1>3 DEF RetentionInv, RetentionTypes, PassTyped
  <1>5. PassAgrees'
    BY <1>1, <1>2, <1>3 DEF PassAgrees, AtStarts, Between
  <1>6. Tidy'
    BY <1>1, <1>3, <1>4, StillTidy DEF RetentionTypes
  <1> QED
    BY <1>3, <1>4, <1>5, <1>6 DEF RetentionInv

\* A row that goes is of an hour before the long window, and so are its samples.
LEMMA ExpireKeeps == RetentionInv /\ Expire => RetentionInv'
  <1> SUFFICES ASSUME RetentionInv, Expire PROVE RetentionInv'
    OBVIOUS
  <1> USE RetentionAssumption
  <1>1. /\ pass # Idle /\ pass.step = "expire" /\ pass' = Idle /\ pass.at = now
        /\ now \in Nat /\ UNCHANGED <<now, recorded>> /\ folded' = now
        /\ LongStart \in Int
    BY IdleIsNoStep, PassTypes DEF Expire, Steps
  <1>2. /\ DOMAIN samples' = {t \in DOMAIN samples : t >= LongStart}
        /\ DOMAIN covers' = DOMAIN samples'
        /\ \A t \in DOMAIN samples' : covers'[t] = covers[t]
    BY DEF Expire, Keep, Horizon
  <1>3. DOMAIN samples \subseteq Nat /\ DOMAIN covers = DOMAIN samples /\ DOMAIN recorded \subseteq 0 .. now
    BY DEF RetentionInv, RetentionTypes
  <1>4. RetentionTypes'
    BY <1>1, <1>2, <1>3 DEF RetentionTypes, PassTyped
  <1>5. RowsStartTheirSamples'
    BY <1>1, <1>2, <1>3 DEF RetentionInv, RowsStartTheirSamples, BucketOf
  <1>6. SamplesAreCovered'
    <2> SUFFICES ASSUME NEW t \in DOMAIN recorded, t >= now - LongAge
                 PROVE  \E r \in DOMAIN covers' : t \in covers'[r]
      BY <1>1 DEF SamplesAreCovered
    <2>1. PICK r \in DOMAIN covers : t \in covers[r]
      BY DEF RetentionInv, SamplesAreCovered
    <2>2. t \in Int /\ r \in Int /\ now - LongAge \in Int /\ now - LongAge <= t
      BY <1>1, <1>3
    <2>3. BucketOf(r, LongBucket) = BucketOf(t, LongBucket)
      BY <2>1 DEF RetentionInv, RowsStartTheirSamples
    <2>4. BucketOf(now - LongAge, LongBucket) <= BucketOf(t, LongBucket)
      BY <2>2, BucketsInOrder
    <2>5. LongStart = BucketOf(now - LongAge, LongBucket)
      BY <1>1 DEF LongStart, AlignDown, BucketOf
    <2>6. BucketOf(r, LongBucket) <= r /\ BucketOf(r, LongBucket) \in Int
      BY <2>2, BucketStart
    <2>7. r >= LongStart
      BY <1>1, <2>2, <2>3, <2>4, <2>5, <2>6
    <2> QED
      BY <1>2, <1>3, <2>1, <2>7
  <1>7. PassAgrees'
    BY <1>1, NothingFoldedYet DEF Idle
  <1>8. Tidy'
    <2>1. AtStarts(LongStart, LongEnd, LongBucket) /\ AtStarts(MidStart, MidEnd, MidBucket)
      BY <1>1 DEF RetentionInv, PassAgrees
    <2>2. /\ AlignDown(now - LongAge, LongBucket) = LongStart /\ AlignDown(now - MidAge, LongBucket) = LongEnd
          /\ AlignDown(now - MidAge, MidBucket) = MidStart /\ AlignDown(now - RawAge, MidBucket) = MidEnd
      BY <1>1 DEF LongStart, LongEnd, MidStart, MidEnd
    <2>3. /\ AlignDown(folded - LongAge, LongBucket)' = LongStart
          /\ AlignDown(folded - MidAge, LongBucket)' = LongEnd
          /\ AlignDown(folded - MidAge, MidBucket)' = MidStart
          /\ AlignDown(folded - RawAge, MidBucket)' = MidEnd
      BY <1>1, <2>2 DEF AlignDown
    <2> QED
      BY <1>2, <2>1, <2>3 DEF Tidy, AtStarts, Between
  <1> QED
    BY <1>4, <1>5, <1>6, <1>7, <1>8 DEF RetentionInv

-----------------------------------------------------------------------------
\* Everything else leaves the rows alone.
LEMMA ElsewhereKeeps ==
  ASSUME RetentionInv,
         \/ Tick \/ Flush \/ StartPass \/ TrimShares \/ CapShares \/ StatementFails \/ Kill
         \/ \E w \in Workers, accepted \in BOOLEAN : Share(w, accepted)
  PROVE  RetentionInv'
  <1>0. now \in Nat /\ now <= now /\ PassTyped
    BY DEF RetentionInv, RetentionTypes
  <1>1. CASE Tick
    <2>1. now' \in Nat /\ now <= now' /\ pass' = Idle
      BY <1>0, <1>1 DEF Tick
    <2>2. PassTyped' /\ PassAgrees'
      BY <2>1, NothingFoldedYet DEF PassTyped, Idle
    <2> QED
      BY <1>1, <2>1, <2>2, RowsKept DEF Tick, sampleVars
  <1>2. CASE \/ Flush \/ StatementFails \/ Kill
            \/ \E w \in Workers, accepted \in BOOLEAN : Share(w, accepted)
    <2>1. pass' = Idle /\ UNCHANGED <<now, rows, recorded, folded>>
      BY <1>0, <1>2 DEF Flush, Share, StatementFails, Kill, sampleVars
    <2>2. PassTyped' /\ PassAgrees'
      BY <2>1, NothingFoldedYet DEF PassTyped, Idle
    <2> QED
      BY <1>0, <2>1, <2>2, RowsKept
  <1>3. CASE StartPass \/ TrimShares \/ CapShares
    <2>1. PICK next \in {"trim", "cap", "fold long"} : pass' = [step |-> next, at |-> now]
      BY <1>3, Stepped DEF StartPass, TrimShares, CapShares, Steps
    <2>2. UNCHANGED <<now, recorded, folded, rows>>
      <3>1. CASE StartPass
        BY <1>0, <3>1 DEF StartPass, sampleVars
      <3>2. CASE TrimShares \/ CapShares
        BY <1>0, <3>2 DEF TrimShares, CapShares, Statement
      <3> QED
        BY <1>3, <3>1, <3>2
    <2>3. PassTyped' /\ PassAgrees'
      BY <2>1, <2>2, NothingFoldedYet DEF PassTyped, Steps
    <2> QED
      BY <1>0, <2>2, <2>3, RowsKept
  <1> QED
    BY <1>1, <1>2, <1>3

LEMMA NextRetention == RetentionInv /\ [RetentionNext]_retentionVars => RetentionInv'
  <1> SUFFICES ASSUME RetentionInv, [RetentionNext]_retentionVars PROVE RetentionInv'
    OBVIOUS
  <1>1. CASE UNCHANGED retentionVars
    <2>1. UNCHANGED <<now, rows, recorded, folded, pass>>
      BY <1>1 DEF retentionVars, sampleVars
    <2>2. now \in Nat /\ now <= now /\ PassTyped /\ PassAgrees
      BY DEF RetentionInv, RetentionTypes
    <2>3. PassTyped' /\ PassAgrees'
      BY <2>1, <2>2, SameRowsSamePass DEF PassTyped
    <2> QED
      BY <2>1, <2>2, <2>3, RowsKept
  <1>2. CASE Sample \/ FoldLong \/ DropLong \/ FoldMid \/ DropMid \/ Expire
    BY <1>2, SampleKeeps, FoldLongKeeps, DropLongKeeps, FoldMidKeeps, DropMidKeeps, ExpireKeeps
  <1>3. CASE \/ Tick \/ Flush \/ StartPass \/ TrimShares \/ CapShares \/ StatementFails \/ Kill
            \/ \E w \in Workers, accepted \in BOOLEAN : Share(w, accepted)
    BY <1>3, ElsewhereKeeps
  <1> QED
    BY <1>1, <1>2, <1>3 DEF RetentionNext

\* A pass, its statements and the rows they leave agree, wherever passes are cut short.
THEOREM RetentionInvariant == RetentionSpec => []RetentionInv
  BY InitRetention, NextRetention, PTL DEF RetentionSpec

\* No sample that is younger than the long window (retention.rs, downsample_range and the last
\* DELETE) is missing from the averages, not even between two statements of a pass or after
\* passes that were not finished.
THEOREM NoSampleLost == RetentionSpec => []SamplesAreCovered
  <1>1. RetentionInv => SamplesAreCovered
    BY DEF RetentionInv
  <1> QED
    BY <1>1, RetentionInvariant, PTL

\* Once a pass has finished, the rows of its two older windows are at the starts of their
\* buckets and none is older than the long window, however many passes did not finish.
THEOREM RowsFoldedByAge == RetentionSpec => []FoldedByAge
  <1>1. RetentionInv => FoldedByAge
    <2> SUFFICES ASSUME RetentionInv, folded > 0, NEW t \in DOMAIN samples
                 PROVE  /\ t >= AlignDown(folded - LongAge, LongBucket)
                        /\ (/\ AlignDown(folded - MidAge, MidBucket) <= t
                            /\ t < AlignDown(folded - RawAge, MidBucket)) => t % MidBucket = 0
                        /\ (/\ AlignDown(folded - LongAge, LongBucket) <= t
                            /\ t < AlignDown(folded - MidAge, LongBucket)) => t % LongBucket = 0
      BY DEF FoldedByAge
    <2> QED
      BY DEF RetentionInv, Tidy, AtStarts, Between
  <1> QED
    BY <1>1, RetentionInvariant, PTL

-----------------------------------------------------------------------------
(* Induction over the numbers, in a form without an operator parameter. *)

Below == {p \in Nat \X Nat : p[1] < p[2]}

\* Every set of numbers has a least one.
LEMMA LeastNumber ==
  ASSUME NEW N, N \subseteq Nat, N # {}
  PROVE  \E x \in N : \A y \in N : x <= y
  <1>1. IsWellFoundedOn(Below, Nat)
    BY NatLessThanWellFounded DEF OpToRel, Below
  <1>2. PICK x \in N : \A y \in N : ~ (<<y, x>> \in Below)
    BY <1>1, WFMin
  <1>3. \A y \in N : ~ (y < x)
    BY <1>2 DEF Below
  <1> QED
    BY <1>3

\* A set with 0 and every successor has all the numbers.
LEMMA NumberInduction ==
  ASSUME NEW N, 0 \in N, \A n \in Nat : n \in N => n + 1 \in N
  PROVE  Nat \subseteq N
  <1> SUFFICES ASSUME Nat \ N # {}
               PROVE  FALSE
    OBVIOUS
  <1>1. PICK x \in Nat \ N : \A y \in Nat \ N : x <= y
    BY LeastNumber
  <1>2. x # 0 /\ x - 1 \in Nat
    BY <1>1
  <1>3. x - 1 \in N
    BY <1>1, <1>2
  <1> QED
    BY <1>1, <1>2, <1>3

-----------------------------------------------------------------------------
(* Loops: a recursive function of the number of rounds. *)

\* The function whose first value is given and whose k-th is a step from the
\* one before, all in the sets S.
IsLoop(f, n, S, first, step) ==
  /\ f = [k \in 0..n |-> f[k]]
  /\ f[0] = first
  /\ \A k \in 1..n : f[k] = step[k][f[k - 1]]
  /\ \A k \in 0..n : f[k] \in S[k]

\* A loop whose k-th round takes S[k - 1] to S[k] runs, and is in S[k] then.
LEMMA LoopRuns ==
  ASSUME NEW n \in Nat, NEW S, NEW first, NEW step,
         first \in S[0],
         \A k \in 1..n : \A x \in S[k - 1] : step[k][x] \in S[k]
  PROVE  \E f : IsLoop(f, n, S, first, step)
  <1> DEFINE N == {m \in Nat : m <= n => \E f : IsLoop(f, m, S, first, step)}
  <1>1. 0 \in N
    <2> DEFINE f == [k \in 0..0 |-> first]
    <2>1. IsLoop(f, 0, S, first, step)
      BY DEF IsLoop
    <2> QED
      BY <2>1
  <1>2. ASSUME NEW m \in Nat, m \in N
        PROVE  m + 1 \in N
    <2> SUFFICES ASSUME m + 1 <= n
                 PROVE  \E f : IsLoop(f, m + 1, S, first, step)
      OBVIOUS
    <2>1. PICK f : IsLoop(f, m, S, first, step)
      BY <1>2
    <2> DEFINE g == [k \in 0..(m + 1) |-> IF k = m + 1 THEN step[m + 1][f[m]] ELSE f[k]]
    <2>2. /\ g[m + 1] = step[m + 1][f[m]]
          /\ \A k \in 0..m : g[k] = f[k]
          /\ g = [k \in 0..(m + 1) |-> g[k]]
      OBVIOUS
    <2> HIDE DEF g
    <2>3. \A k \in 1..(m + 1) : g[k] = step[k][g[k - 1]]
      <3> SUFFICES ASSUME NEW k \in 1..(m + 1)
                   PROVE  g[k] = step[k][g[k - 1]]
        OBVIOUS
      <3>1. CASE k = m + 1
        BY <2>2, <3>1
      <3>2. CASE k # m + 1
        <4>1. k \in 1..m /\ k \in 0..m /\ k - 1 \in 0..m
          BY <3>2
        <4> QED
          BY <2>1, <2>2, <4>1 DEF IsLoop
      <3> QED
        BY <3>1, <3>2
    <2>4. \A k \in 0..(m + 1) : g[k] \in S[k]
      <3> SUFFICES ASSUME NEW k \in 0..(m + 1)
                   PROVE  g[k] \in S[k]
        OBVIOUS
      <3>1. CASE k = m + 1
        <4>1. f[m] \in S[m] /\ m + 1 \in 1..n /\ m = (m + 1) - 1
          BY <2>1 DEF IsLoop
        <4>2. step[m + 1][f[m]] \in S[m + 1]
          BY <4>1
        <4> QED
          BY <2>2, <3>1, <4>2
      <3>2. CASE k # m + 1
        <4>1. k \in 0..m
          BY <3>2
        <4> QED
          BY <2>1, <2>2, <4>1 DEF IsLoop
      <3> QED
        BY <3>1, <3>2
    <2>5. g[0] = first
      BY <2>1, <2>2 DEF IsLoop
    <2>6. IsLoop(g, m + 1, S, first, step)
      BY <2>2, <2>3, <2>4, <2>5 DEF IsLoop
    <2> QED
      BY <2>6
  <1>3. Nat \subseteq N
    <2> HIDE DEF N
    <2> QED
      BY <1>1, <1>2, NumberInduction
  <1> QED
    BY <1>3

\* Two loops that start alike and whose rounds agree are the same.
SameRounds(f, g, n) == f[0] = g[0] /\ \A k \in 1..n : f[k - 1] = g[k - 1] => f[k] = g[k]

LEMMA SameLoop ==
  ASSUME NEW n \in Nat, NEW f, NEW g, SameRounds(f, g, n)
  PROVE  \A k \in 0..n : f[k] = g[k]
  <1> DEFINE N == {m \in Nat : m <= n => f[m] = g[m]}
  <1>1. 0 \in N
    BY DEF SameRounds
  <1>2. ASSUME NEW m \in Nat, m \in N
        PROVE  m + 1 \in N
    <2> SUFFICES ASSUME m + 1 <= n
                 PROVE  f[m + 1] = g[m + 1]
      OBVIOUS
    <2>1. m + 1 \in 1..n /\ (m + 1) - 1 = m /\ f[m] = g[m]
      BY <1>2
    <2> QED
      BY <2>1 DEF SameRounds
  <1>3. Nat \subseteq N
    <2> HIDE DEF N
    <2> QED
      BY <1>1, <1>2, NumberInduction
  <1> QED
    BY <1>3

-----------------------------------------------------------------------------
(* Sequences, from their ends. *)

\* A set with the empty sequence and every extension of a member has all sequences.
LEMMA SequenceInduction ==
  ASSUME NEW R, NEW Q, <<>> \in Q,
         \A s \in Seq(R) : s \in Q => \A x \in R : Append(s, x) \in Q
  PROVE  Seq(R) \subseteq Q
  <1> DEFINE N == {n \in Nat : \A s \in Seq(R) : Len(s) = n => s \in Q}
  <1>1. 0 \in N
    BY EmptySeq
  <1>2. ASSUME NEW n \in Nat, n \in N PROVE n + 1 \in N
    <2> SUFFICES ASSUME NEW s \in Seq(R), Len(s) = n + 1 PROVE s \in Q
      OBVIOUS
    <2>1. s # <<>>
      BY EmptySeq
    <2>2. PICK t \in Seq(R), x \in R : s = Append(t, x)
      BY <2>1, SequenceEmptyOrAppend
    <2>3. Len(s) = Len(t) + 1
      BY <2>2, AppendProperties
    <2>4. Len(t) = n
      BY <2>3, LenProperties
    <2> QED
      BY <1>2, <2>2, <2>4
  <1>3. Nat \subseteq N
    <2> HIDE DEF N
    <2> QED
      BY <1>1, <1>2, NumberInduction
  <1> QED
    BY <1>3, LenProperties

LEMMA ElementsOf ==
  ASSUME NEW R, NEW s \in Seq(R)
  PROVE  /\ ToSet(s) = {s[i] : i \in 1..Len(s)} /\ ToSet(s) \subseteq R
         /\ ToSet(<<>>) = {}
         /\ \A x \in R : ToSet(Append(s, x)) = ToSet(s) \union {x}
  <1>1. ToSet(s) = {s[i] : i \in 1..Len(s)} /\ ToSet(s) \subseteq R
    BY LenProperties, ElementOfSeq DEF ToSet
  <1>2. ToSet(<<>>) = {}
    BY DEF ToSet
  <1>3. ASSUME NEW x \in R PROVE ToSet(Append(s, x)) = ToSet(s) \union {x}
    <2>1. /\ Append(s, x) \in Seq(R) /\ Len(Append(s, x)) = Len(s) + 1 /\ Append(s, x)[Len(s) + 1] = x
          /\ \A i \in 1..Len(s) : Append(s, x)[i] = s[i]
      BY AppendProperties
    <2>2. Len(s) \in Nat /\ DOMAIN Append(s, x) = 1..(Len(s) + 1) /\ DOMAIN s = 1..Len(s)
      BY <2>1, LenProperties
    <2> QED
      BY <2>1, <2>2 DEF ToSet
  <1> QED
    BY <1>1, <1>2, <1>3

-----------------------------------------------------------------------------
(* The elements of a sequence that are in a set. *)

IsKept(s, S, f) ==
  f = [k \in 0..Len(s) |->
        IF k = 0 THEN <<>>
        ELSE IF s[k] \in S THEN Append(f[k - 1], s[k]) ELSE f[k - 1]]

LEMMA KeptRounds ==
  ASSUME NEW s, Len(s) \in Nat, NEW S, NEW f
  PROVE  IsKept(s, S, f) <=>
           /\ f = [k \in 0..Len(s) |-> f[k]] /\ f[0] = <<>>
           /\ \A k \in 1..Len(s) : f[k] = IF s[k] \in S THEN Append(f[k - 1], s[k]) ELSE f[k - 1]
  <1> DEFINE n == Len(s)
             Round(k) == IF k = 0 THEN <<>> ELSE IF s[k] \in S THEN Append(f[k - 1], s[k]) ELSE f[k - 1]
  <1>1. IsKept(s, S, f) <=> f = [k \in 0..n |-> Round(k)]
    BY DEF IsKept
  <1>2. f = [k \in 0..n |-> Round(k)] <=> f = [k \in 0..n |-> f[k]] /\ \A k \in 0..n : f[k] = Round(k)
    <2> HIDE DEF Round
    <2> QED
      OBVIOUS
  <1>3. (\A k \in 0..n : f[k] = Round(k)) <=> f[0] = Round(0) /\ \A k \in 1..n : f[k] = Round(k)
    <2>1. \A k : k \in 0..n <=> k = 0 \/ k \in 1..n
      OBVIOUS
    <2> HIDE DEF Round, n
    <2> QED
      BY <2>1
  <1>4. \A k \in 1..n : Round(k) = IF s[k] \in S THEN Append(f[k - 1], s[k]) ELSE f[k - 1]
    <2>1. \A k \in 1..n : k # 0
      OBVIOUS
    <2> QED
      BY <2>1
  <1>5. Round(0) = <<>>
    OBVIOUS
  <1> HIDE DEF Round
  <1> QED
    BY <1>1, <1>2, <1>3, <1>4, <1>5

\* The loop of Kept runs.
LEMMA KeptRuns ==
  ASSUME NEW R, NEW s \in Seq(R), NEW S
  PROVE  \E f : /\ IsKept(s, S, f) /\ Kept(s, S) = f[Len(s)]
                /\ \A k \in 0..Len(s) : f[k] \in Seq(R)
  <1> DEFINE n == Len(s)
             T == [k \in 0..n |-> Seq(R)]
             Longer(k, x) == IF s[k] \in S THEN Append(x, s[k]) ELSE x
             step == [k \in 1..n |-> [x \in Seq(R) |-> Longer(k, x)]]
             loop == CHOOSE f : IsKept(s, S, f)
  <1>1. n \in Nat /\ \A k \in 1..n : s[k] \in R /\ k - 1 \in 0..n /\ k \in 0..n
    BY LenProperties, ElementOfSeq
  <1>2. <<>> \in T[0]
    BY <1>1, EmptySeq
  <1>3. ASSUME NEW k \in 1..n, NEW x \in T[k - 1] PROVE step[k][x] = Longer(k, x) /\ step[k][x] \in T[k]
    <2>1. x \in Seq(R) /\ T[k] = Seq(R) /\ s[k] \in R
      BY <1>1
    <2>2. Append(x, s[k]) \in Seq(R)
      BY <2>1, AppendProperties
    <2> QED
      BY <2>1, <2>2
  <1>4. PICK g : IsLoop(g, n, T, <<>>, step)
    <2>1. \A k \in 1..n : \A x \in T[k - 1] : step[k][x] \in T[k]
      BY <1>3
    <2>2. n \in Nat /\ <<>> \in T[0]
      BY <1>1, <1>2
    <2> HIDE DEF n, T, step, loop
    <2> QED
      BY <2>1, <2>2, LoopRuns
  <1>5. /\ g = [k \in 0..n |-> g[k]] /\ g[0] = <<>>
        /\ \A k \in 1..n : g[k] = Longer(k, g[k - 1])
        /\ \A k \in 0..n : g[k] \in Seq(R)
    <2>1. \A k \in 1..n : g[k] = step[k][g[k - 1]] /\ g[k - 1] \in T[k - 1]
      BY <1>1, <1>4 DEF IsLoop
    <2>2. \A k \in 1..n : g[k] = Longer(k, g[k - 1])
      BY <1>3, <2>1
    <2> QED
      BY <1>4, <2>2 DEF IsLoop
  <1>6. IsKept(s, S, g)
    BY <1>1, <1>5, KeptRounds
  <1>7. IsKept(s, S, loop)
    BY <1>6, Zenon
  <1>8. Kept(s, S) = loop[n]
    BY DEF Kept, IsKept
  <1> HIDE DEF loop
  <1>9. loop[0] = <<>> /\ \A k \in 1..n : loop[k] = Longer(k, loop[k - 1])
    BY <1>1, <1>7, KeptRounds
  <1>10. \A k \in 0..n : loop[k] = g[k]
    <2>1. \A k \in 1..n : loop[k - 1] = g[k - 1] => loop[k] = g[k]
      BY <1>5, <1>9
    <2>2. n \in Nat /\ loop[0] = g[0]
      BY <1>1, <1>5, <1>9
    <2> HIDE DEF n, Longer
    <2>3. SameRounds(loop, g, n)
      BY <2>1, <2>2 DEF SameRounds
    <2> QED
      BY <2>2, <2>3, SameLoop
  <1> QED
    BY <1>1, <1>5, <1>7, <1>8, <1>10

\* From the end: Kept of a longer sequence.
LEMMA KeptIs ==
  ASSUME NEW R, NEW s \in Seq(R), NEW S
  PROVE  /\ Kept(<<>>, S) = <<>> /\ Kept(s, S) \in Seq(R)
         /\ \A x \in R : Kept(Append(s, x), S) = IF x \in S THEN Append(Kept(s, S), x) ELSE Kept(s, S)
  <1>1. Kept(s, S) \in Seq(R)
    BY KeptRuns, LenProperties
  <1>2. Kept(<<>>, S) = <<>>
    <2>1. PICK f : IsKept(<<>>, S, f) /\ Kept(<<>>, S) = f[Len(<<>>)]
      BY EmptySeq, KeptRuns
    <2>2. Len(<<>>) = 0 /\ 0 \in 0..0
      OBVIOUS
    <2> QED
      BY <2>1, <2>2 DEF IsKept
  <1>3. ASSUME NEW x \in R
        PROVE  Kept(Append(s, x), S) = IF x \in S THEN Append(Kept(s, S), x) ELSE Kept(s, S)
    <2> DEFINE n == Len(s)
               t == Append(s, x)
    <2>1. /\ t \in Seq(R) /\ Len(t) = n + 1 /\ t[n + 1] = x /\ n \in Nat
          /\ \A k \in 1..n : t[k] = s[k]
      BY AppendProperties, LenProperties
    <2>2. PICK f : IsKept(s, S, f) /\ Kept(s, S) = f[n]
      BY KeptRuns
    <2>3. PICK g : IsKept(t, S, g) /\ Kept(t, S) = g[n + 1]
      <3> HIDE DEF t
      <3> QED
        BY <2>1, KeptRuns
    <2> HIDE DEF t
    <2>4. f[0] = <<>> /\ \A k \in 1..n : f[k] = IF s[k] \in S THEN Append(f[k - 1], s[k]) ELSE f[k - 1]
      BY <2>1, <2>2, KeptRounds
    <2>5. g[0] = <<>> /\ \A k \in 1..(n + 1) : g[k] = IF t[k] \in S THEN Append(g[k - 1], t[k]) ELSE g[k - 1]
      BY <2>1, <2>3, KeptRounds
    <2>6. \A k \in 0..n : f[k] = g[k]
      <3>1. \A k \in 1..n : f[k - 1] = g[k - 1] => f[k] = g[k]
        BY <2>1, <2>4, <2>5
      <3>2. n \in Nat /\ f[0] = g[0]
        BY <2>1, <2>4, <2>5
      <3> HIDE DEF n
      <3>3. SameRounds(f, g, n)
        BY <3>1, <3>2 DEF SameRounds
      <3> QED
        BY <3>2, <3>3, SameLoop
    <2>7. n + 1 \in 1..(n + 1) /\ (n + 1) - 1 = n /\ n \in 0..n
      BY <2>1
    <2>8. g[n + 1] = IF x \in S THEN Append(f[n], x) ELSE f[n]
      BY <2>1, <2>5, <2>6, <2>7
    <2> QED
      BY <2>2, <2>3, <2>8 DEF t
  <1> QED
    BY <1>1, <1>2, <1>3

LEMMA KeptLonger ==
  ASSUME NEW R, NEW s \in Seq(R), NEW x \in R, NEW S
  PROVE  /\ x \in S => Kept(Append(s, x), S) = Append(Kept(s, S), x)
         /\ x \notin S => Kept(Append(s, x), S) = Kept(s, S)
  BY KeptIs

\* What is kept: the elements in the set.
LEMMA KeptElements ==
  ASSUME NEW R, NEW s \in Seq(R), NEW S
  PROVE  ToSet(Kept(s, S)) = ToSet(s) \intersect S
  <1> DEFINE Q == {t \in Seq(R) : ToSet(Kept(t, S)) = ToSet(t) \intersect S}
  <1>1. <<>> \in Q
    BY KeptIs, ElementsOf, EmptySeq
  <1>2. ASSUME NEW t \in Seq(R), t \in Q, NEW x \in R PROVE Append(t, x) \in Q
    <2>1. Append(t, x) \in Seq(R) /\ ToSet(Append(t, x)) = ToSet(t) \union {x}
      BY AppendProperties, ElementsOf
    <2>2. Kept(t, S) \in Seq(R) /\ Kept(Append(t, x), S) = IF x \in S THEN Append(Kept(t, S), x) ELSE Kept(t, S)
      BY KeptIs, SMTT(20)
    <2>3. ToSet(Append(Kept(t, S), x)) = ToSet(Kept(t, S)) \union {x}
      BY <2>2, ElementsOf
    <2> QED
      BY <1>2, <2>1, <2>2, <2>3
  <1>3. Seq(R) \subseteq Q
    <2> HIDE DEF Q
    <2> QED
      BY <1>1, <1>2, SequenceInduction
  <1> QED
    BY <1>3

\* Only which elements are in the set matters.
LEMMA KeptSame ==
  ASSUME NEW R, NEW s \in Seq(R), NEW S, NEW T, ToSet(s) \intersect S = ToSet(s) \intersect T
  PROVE  Kept(s, S) = Kept(s, T)
  <1> DEFINE Q == {t \in Seq(R) : ToSet(t) \intersect S = ToSet(t) \intersect T => Kept(t, S) = Kept(t, T)}
  <1>1. <<>> \in Q
    BY KeptIs, EmptySeq
  <1>2. ASSUME NEW t \in Seq(R), t \in Q, NEW x \in R PROVE Append(t, x) \in Q
    <2>1. Append(t, x) \in Seq(R) /\ ToSet(Append(t, x)) = ToSet(t) \union {x}
      BY AppendProperties, ElementsOf
    <2> SUFFICES ASSUME ToSet(Append(t, x)) \intersect S = ToSet(Append(t, x)) \intersect T
                 PROVE  Kept(Append(t, x), S) = Kept(Append(t, x), T)
      BY <2>1
    <2>2. ToSet(t) \intersect S = ToSet(t) \intersect T /\ (x \in S <=> x \in T)
      BY <2>1
    <2>3. Kept(t, S) = Kept(t, T)
      BY <1>2, <2>2
    <2>4. CASE x \in S
      <3>1. Kept(Append(t, x), S) = Append(Kept(t, S), x)
        BY <2>4, KeptLonger
      <3>2. Kept(Append(t, x), T) = Append(Kept(t, T), x)
        BY <2>2, <2>4, KeptLonger
      <3> QED
        BY <2>3, <3>1, <3>2
    <2>5. CASE x \notin S
      <3>1. Kept(Append(t, x), S) = Kept(t, S)
        BY <2>5, KeptLonger
      <3>2. Kept(Append(t, x), T) = Kept(t, T)
        BY <2>2, <2>5, KeptLonger
      <3> QED
        BY <2>3, <3>1, <3>2
    <2> QED
      BY <2>4, <2>5
  <1>3. Seq(R) \subseteq Q
    <2> HIDE DEF Q
    <2> QED
      BY <1>1, <1>2, SequenceInduction
  <1> QED
    BY <1>3

\* Keeping twice.
LEMMA KeptTwice ==
  ASSUME NEW R, NEW s \in Seq(R), NEW S, NEW T
  PROVE  Kept(Kept(s, S), T) = Kept(s, S \intersect T)
  <1> DEFINE Q == {t \in Seq(R) : Kept(Kept(t, S), T) = Kept(t, S \intersect T)}
  <1>1. <<>> \in Q
    BY KeptIs, EmptySeq
  <1>2. ASSUME NEW t \in Seq(R), t \in Q, NEW x \in R PROVE Append(t, x) \in Q
    <2> DEFINE kept == Kept(t, S)
    <2>1. Append(t, x) \in Seq(R)
      BY AppendProperties
    <2>2. kept \in Seq(R) /\ Kept(kept, T) = Kept(t, S \intersect T)
      BY <1>2, KeptIs
    <2>3. CASE x \notin S
      <3>1. Kept(Append(t, x), S) = kept /\ Kept(Append(t, x), S \intersect T) = Kept(t, S \intersect T)
        BY <2>3, KeptLonger
      <3> QED
        BY <2>1, <2>2, <3>1
    <2>4. CASE x \in S
      <3> HIDE DEF kept
      <3>1. Kept(Append(t, x), S) = Append(kept, x)
        BY <2>4, KeptLonger DEF kept
      <3>2. x \in T => Kept(Append(kept, x), T) = Append(Kept(kept, T), x)
        BY <2>2, KeptLonger, ZenonT(30)
      <3>3. x \notin T => Kept(Append(kept, x), T) = Kept(kept, T)
        BY <2>2, KeptLonger
      <3>4. x \in T => Kept(Append(t, x), S \intersect T) = Append(Kept(t, S \intersect T), x)
        BY <2>4, KeptLonger
      <3>5. x \notin T => Kept(Append(t, x), S \intersect T) = Kept(t, S \intersect T)
        BY <2>4, KeptLonger
      <3>6. Kept(Kept(Append(t, x), S), T) = Kept(Append(t, x), S \intersect T)
        BY <2>2, <3>1, <3>2, <3>3, <3>4, <3>5
      <3> QED
        BY <2>1, <3>6
    <2> QED
      BY <2>3, <2>4
  <1>3. Seq(R) \subseteq Q
    <2> HIDE DEF Q
    <2> QED
      BY <1>1, <1>2, SequenceInduction
  <1> QED
    BY <1>3

\* All elements, or none.
LEMMA KeptAllOrNone ==
  ASSUME NEW R, NEW s \in Seq(R), NEW S
  PROVE  /\ ToSet(s) \subseteq S => Kept(s, S) = s
         /\ ToSet(s) \intersect S = {} => Kept(s, S) = <<>>
  <1> DEFINE Q == {t \in Seq(R) : /\ ToSet(t) \subseteq S => Kept(t, S) = t
                                  /\ ToSet(t) \intersect S = {} => Kept(t, S) = <<>>}
  <1>1. <<>> \in Q
    BY KeptIs, EmptySeq
  <1>2. ASSUME NEW t \in Seq(R), t \in Q, NEW x \in R PROVE Append(t, x) \in Q
    <2>1. Append(t, x) \in Seq(R) /\ ToSet(Append(t, x)) = ToSet(t) \union {x}
      BY AppendProperties, ElementsOf
    <2>2. Kept(Append(t, x), S) = IF x \in S THEN Append(Kept(t, S), x) ELSE Kept(t, S)
      BY KeptIs
    <2> QED
      BY <1>2, <2>1, <2>2
  <1>3. Seq(R) \subseteq Q
    <2> HIDE DEF Q
    <2> QED
      BY <1>1, <1>2, SequenceInduction
  <1> QED
    BY <1>3

\* A larger set keeps no fewer.
LEMMA KeptMore ==
  ASSUME NEW R, NEW s \in Seq(R), NEW S, NEW T, ToSet(s) \intersect S \subseteq T
  PROVE  /\ Len(Kept(s, S)) <= Len(Kept(s, T))
         /\ Len(Kept(s, S)) \in Nat /\ Len(Kept(s, T)) \in Nat
  <1> DEFINE Q == {t \in Seq(R) : ToSet(t) \intersect S \subseteq T => Len(Kept(t, S)) <= Len(Kept(t, T))}
  <1>1. <<>> \in Q
    BY KeptIs, EmptySeq
  <1>2. ASSUME NEW t \in Seq(R), t \in Q, NEW x \in R PROVE Append(t, x) \in Q
    <2>1. Append(t, x) \in Seq(R) /\ ToSet(Append(t, x)) = ToSet(t) \union {x}
      BY AppendProperties, ElementsOf
    <2> SUFFICES ASSUME ToSet(Append(t, x)) \intersect S \subseteq T
                 PROVE  Len(Kept(Append(t, x), S)) <= Len(Kept(Append(t, x), T))
      BY <2>1
    <2>2. Kept(t, S) \in Seq(R) /\ Kept(t, T) \in Seq(R)
      BY KeptIs
    <2>3. /\ Len(Append(Kept(t, S), x)) = Len(Kept(t, S)) + 1 /\ Len(Kept(t, S)) \in Nat
          /\ Len(Append(Kept(t, T), x)) = Len(Kept(t, T)) + 1 /\ Len(Kept(t, T)) \in Nat
      BY <2>2, AppendProperties, LenProperties
    <2>4. Len(Kept(t, S)) <= Len(Kept(t, T)) /\ (x \in S => x \in T)
      BY <1>2, <2>1
    <2>5. CASE x \in S
      <3>1. Kept(Append(t, x), S) = Append(Kept(t, S), x) /\ Kept(Append(t, x), T) = Append(Kept(t, T), x)
        BY <2>4, <2>5, KeptLonger
      <3> QED
        BY <2>3, <2>4, <3>1
    <2>6. CASE x \notin S
      <3>1. /\ Kept(Append(t, x), S) = Kept(t, S)
            /\ Kept(Append(t, x), T) = Append(Kept(t, T), x) \/ Kept(Append(t, x), T) = Kept(t, T)
        BY <2>6, KeptLonger
      <3> QED
        BY <2>3, <2>4, <3>1
    <2> QED
      BY <2>5, <2>6
  <1>3. Seq(R) \subseteq Q
    <2> HIDE DEF Q
    <2> QED
      BY <1>1, <1>2, SequenceInduction
  <1>4. Kept(s, S) \in Seq(R) /\ Kept(s, T) \in Seq(R)
    BY KeptIs
  <1> QED
    BY <1>3, <1>4, LenProperties

\* Kept of a concatenation.
LEMMA KeptOfConcat ==
  ASSUME NEW R, NEW s \in Seq(R), NEW t \in Seq(R), NEW S
  PROVE  Kept(s \o t, S) = Kept(s, S) \o Kept(t, S)
  <1> DEFINE Q == {u \in Seq(R) : Kept(s \o u, S) = Kept(s, S) \o Kept(u, S)}
  <1>1. <<>> \in Q
    <2>1. Kept(s, S) \in Seq(R) /\ Kept(<<>>, S) = <<>>
      BY KeptIs
    <2> QED
      BY <2>1, EmptySeq, ConcatEmptySeq
  <1>2. ASSUME NEW u \in Seq(R), u \in Q, NEW x \in R PROVE Append(u, x) \in Q
    <2>1. Append(u, x) \in Seq(R) /\ s \o u \in Seq(R) /\ Kept(s, S) \in Seq(R) /\ Kept(u, S) \in Seq(R)
      BY AppendProperties, ConcatProperties, KeptIs
    <2>2. \A a, b \in Seq(R) : a \o Append(b, x) = Append(a \o b, x)
      OBVIOUS
    <2> DEFINE v == s \o u
               a == Kept(s, S)
               c == Kept(u, S)
    <2>3. s \o Append(u, x) = Append(v, x) /\ a \o Append(c, x) = Append(a \o c, x)
      BY <2>1, <2>2
    <2>4. v \in Seq(R) /\ Kept(v, S) = a \o c
      BY <1>2, <2>1
    <2> HIDE DEF v
    <2>5. CASE x \in S
      <3>1. Kept(Append(v, x), S) = Append(Kept(v, S), x) /\ Kept(Append(u, x), S) = Append(c, x)
        BY <2>4, <2>5, KeptLonger
      <3>2. Kept(s \o Append(u, x), S) = Append(a \o c, x)
        BY <2>3, <2>4, <3>1
      <3>3. Kept(s, S) \o Kept(Append(u, x), S) = Append(a \o c, x)
        BY <2>3, <3>1
      <3> QED
        BY <2>1, <3>2, <3>3
    <2>6. CASE x \notin S
      <3>1. Kept(Append(v, x), S) = Kept(v, S) /\ Kept(Append(u, x), S) = c
        BY <2>4, <2>6, KeptLonger
      <3> QED
        BY <2>1, <2>3, <2>4, <3>1
    <2> QED
      BY <2>5, <2>6
  <1>3. Seq(R) \subseteq Q
    <2> HIDE DEF Q
    <2> QED
      BY <1>1, <1>2, SequenceInduction
  <1> QED
    BY <1>3

\* The elements of s in U are its last ones.
AtEnd(s, U) == \A i, j \in 1..Len(s) : i < j /\ s[i] \in U => s[j] \in U

LEMMA EndOfLonger ==
  ASSUME NEW R, NEW s \in Seq(R), NEW x \in R, NEW U, AtEnd(Append(s, x), U)
  PROVE  AtEnd(s, U) /\ (ToSet(s) \intersect U # {} => x \in U)
  <1>1. /\ Len(Append(s, x)) = Len(s) + 1 /\ Append(s, x)[Len(s) + 1] = x /\ Len(s) \in Nat
        /\ \A i \in 1..Len(s) : Append(s, x)[i] = s[i] /\ i \in 1..(Len(s) + 1) /\ i < Len(s) + 1
    BY AppendProperties, LenProperties
  <1> DEFINE b == Append(s, x)
             n == Len(s)
  <1>2. \A i, j \in 1..(n + 1) : i < j /\ b[i] \in U => b[j] \in U
    BY <1>1 DEF AtEnd
  <1> HIDE DEF b
  <1>3. AtEnd(s, U)
    <2> SUFFICES ASSUME NEW i \in 1..n, NEW j \in 1..n, i < j, s[i] \in U PROVE s[j] \in U
      BY DEF AtEnd
    <2>1. i \in 1..(n + 1) /\ j \in 1..(n + 1) /\ b[i] = s[i] /\ b[j] = s[j]
      BY <1>1 DEF b
    <2> QED
      BY <1>2, <2>1
  <1>4. ASSUME NEW i \in 1..n, s[i] \in U PROVE x \in U
    <2>1. n + 1 \in 1..(n + 1) /\ i \in 1..(n + 1) /\ i < n + 1 /\ b[i] = s[i] /\ b[n + 1] = x
      BY <1>1 DEF b
    <2> QED
      BY <1>2, <1>4, <2>1
  <1> QED
    BY <1>3, <1>4, ElementsOf

\* What is kept of the others comes before what is kept of the last ones.
LEMMA KeptSplit ==
  ASSUME NEW R, NEW s \in Seq(R), NEW S, NEW U, AtEnd(s, U)
  PROVE  Kept(s, S \ U) \o Kept(s, S \intersect U) = Kept(s, S)
  <1> DEFINE Q == {t \in Seq(R) : AtEnd(t, U) => Kept(t, S \ U) \o Kept(t, S \intersect U) = Kept(t, S)}
  <1>1. <<>> \in Q
    <2>1. /\ Kept(<<>>, S \ U) = <<>> /\ Kept(<<>>, S \intersect U) = <<>> /\ Kept(<<>>, S) = <<>>
          /\ <<>> \in Seq(R) /\ <<>> \o <<>> = <<>>
      BY KeptIs, EmptySeq
    <2> QED
      BY <2>1
  <1>2. ASSUME NEW t \in Seq(R), t \in Q, NEW x \in R PROVE Append(t, x) \in Q
    <2> DEFINE before == Kept(t, S \ U)
               after  == Kept(t, S \intersect U)
    <2>1. Append(t, x) \in Seq(R)
      BY AppendProperties
    <2> SUFFICES ASSUME AtEnd(Append(t, x), U)
                 PROVE  Kept(Append(t, x), S \ U) \o Kept(Append(t, x), S \intersect U) = Kept(Append(t, x), S)
      BY <2>1
    <2>2. AtEnd(t, U) /\ (ToSet(t) \intersect U # {} => x \in U)
      BY EndOfLonger
    <2>3. before \in Seq(R) /\ after \in Seq(R) /\ before \o after = Kept(t, S)
      BY <1>2, <2>2, KeptIs
    <2>4. x \notin U => after = <<>>
      <3>1. x \notin U => ToSet(t) \intersect (S \intersect U) = {}
        BY <2>2
      <3> QED
        BY <3>1, KeptAllOrNone
    <2>5. CASE x \notin S
      <3>1. /\ Kept(Append(t, x), S \ U) = before /\ Kept(Append(t, x), S \intersect U) = after
            /\ Kept(Append(t, x), S) = Kept(t, S)
        BY <2>5, KeptLonger
      <3> QED
        BY <2>3, <3>1
    <2>6. CASE x \in S /\ x \in U
      <3>1. x \notin S \ U /\ x \in S \intersect U /\ x \in S
        BY <2>6
      <3>2. Kept(Append(t, x), S \ U) = before
        BY <3>1, KeptLonger
      <3>3. Kept(Append(t, x), S \intersect U) = Append(after, x)
        BY <3>1, KeptLonger
      <3>4. Kept(Append(t, x), S) = Append(Kept(t, S), x)
        BY <3>1, KeptLonger
      <3> HIDE DEF before, after
      <3>5. \A a, c \in Seq(R) : a \o Append(c, x) = Append(a \o c, x)
        OBVIOUS
      <3> QED
        BY <2>3, <3>2, <3>3, <3>4, <3>5
    <2>7. CASE x \in S /\ x \notin U
      <3>1. x \in S \ U /\ x \notin S \intersect U /\ x \in S
        BY <2>7
      <3>2. Kept(Append(t, x), S \ U) = Append(before, x)
        BY <3>1, KeptLonger
      <3>3. Kept(Append(t, x), S \intersect U) = after
        BY <3>1, KeptLonger
      <3>4. Kept(Append(t, x), S) = Append(Kept(t, S), x)
        BY <3>1, KeptLonger
      <3> HIDE DEF before, after
      <3>5. Append(before, x) \o <<>> = Append(before, x) /\ before \o <<>> = before
        BY <2>3, AppendProperties, ConcatEmptySeq
      <3> QED
        BY <2>3, <2>4, <2>7, <3>2, <3>3, <3>4, <3>5
    <2> QED
      BY <2>5, <2>6, <2>7
  <1>3. Seq(R) \subseteq Q
    <2> HIDE DEF Q
    <2> QED
      BY <1>1, <1>2, SequenceInduction
  <1> QED
    BY <1>3

\* The end of a concatenation is a suffix of it.
LEMMA EndIsSuffix ==
  ASSUME NEW R, NEW s \in Seq(R), NEW t \in Seq(R)
  PROVE  IsSuffix(t, s \o t)
  <1> DEFINE u == s \o t
             m == Len(s)
             n == Len(t)
  <1>1. /\ u \in Seq(R) /\ Len(u) = m + n /\ m \in Nat /\ n \in Nat
        /\ \A i \in 1..n : u[m + i] = t[i]
    BY ConcatProperties, LenProperties
  <1> HIDE DEF u
  <1>2. /\ Reverse(t) = [i \in 1..n |-> t[(n - i) + 1]]
        /\ Reverse(u) = [i \in 1..(m + n) |-> u[((m + n) - i) + 1]]
    BY <1>1 DEF Reverse
  <1>3. \A i \in 1..n : t[(n - i) + 1] \in R /\ (n - i) + 1 \in 1..n
    BY <1>1, ElementOfSeq
  <1>4. \A i \in 1..(m + n) : u[((m + n) - i) + 1] \in R
    <2>1. \A i \in 1..(m + n) : ((m + n) - i) + 1 \in 1..(m + n)
      BY <1>1
    <2> QED
      BY <1>1, <2>1, ElementOfSeq
  <1>5. Reverse(t) \in Seq(R) /\ Len(Reverse(t)) = n /\ Reverse(u) \in Seq(R) /\ Len(Reverse(u)) = m + n
    BY <1>1, <1>2, <1>3, <1>4, IsASeq
  <1>6. \A i \in 1..n : Reverse(t)[i] = Reverse(u)[i]
    <2> SUFFICES ASSUME NEW i \in 1..n PROVE t[(n - i) + 1] = u[((m + n) - i) + 1]
      BY <1>1, <1>2
    <2>1. ((m + n) - i) + 1 = m + ((n - i) + 1)
      BY <1>1
    <2> QED
      BY <1>1, <1>3, <2>1
  <1>7. SubSeq(Reverse(t), 1, n) = SubSeq(Reverse(u), 1, n)
    <2> DEFINE a == Reverse(t)
               b == Reverse(u)
    <2>1. a \in Seq(R) /\ b \in Seq(R) /\ Len(a) = n /\ Len(b) = m + n /\ \A i \in 1..n : a[i] = b[i]
      BY <1>5, <1>6
    <2> HIDE DEF a, b, m, n
    <2>2. /\ SubSeq(a, 1, n) \in Seq(R) /\ SubSeq(b, 1, n) \in Seq(R)
          /\ Len(SubSeq(a, 1, n)) = n /\ Len(SubSeq(b, 1, n)) = n
          /\ \A i \in 1..n : SubSeq(a, 1, n)[i] = a[i] /\ SubSeq(b, 1, n)[i] = b[i]
      BY <1>1, <2>1
    <2> QED
      BY <2>1, <2>2, SeqEqual DEF a, b
  <1> QED
    BY <1>1, <1>5, <1>7 DEF IsSuffix, IsPrefix, u

-----------------------------------------------------------------------------
(* Shares, in the order of their ids, and the newest of them. *)

ShareRecords == [id : Nat, worker : Workers, accepted : BOOLEAN, at : Nat]

From(k) == {share \in ShareRecords : share.id >= k}

InOrder(s) == \A i, j \in 1..Len(s) : i < j => s[i].id < s[j].id

LEMMA OrderOfLonger ==
  ASSUME NEW R, NEW s \in Seq(R), NEW x \in R
  PROVE  InOrder(Append(s, x)) <=> InOrder(s) /\ \A y \in ToSet(s) : y.id < x.id
  <1> DEFINE t == Append(s, x)
             n == Len(s)
  <1>1. /\ n \in Nat /\ Len(t) = n + 1 /\ t[n + 1] = x /\ \A i \in 1..n : t[i] = s[i]
        /\ ToSet(s) = {s[i] : i \in 1..n}
    BY AppendProperties, LenProperties, ElementsOf
  <1>2. \A i \in 1..n : i \in 1..(n + 1) /\ i < n + 1
    BY <1>1
  <1>3. \A i \in 1..(n + 1) : i \in 1..n \/ i = n + 1
    BY <1>1
  <1>4. n + 1 \in 1..(n + 1) /\ ~ (n + 1 < n + 1)
    BY <1>1
  <1> HIDE DEF t
  <1>5. ASSUME InOrder(t) PROVE InOrder(s) /\ \A y \in ToSet(s) : y.id < x.id
    <2>1. ASSUME NEW i \in 1..n, NEW j \in 1..n, i < j PROVE s[i].id < s[j].id
      BY <1>1, <1>2, <1>5, <2>1 DEF InOrder
    <2>2. ASSUME NEW i \in 1..n PROVE s[i].id < x.id
      BY <1>1, <1>2, <1>4, <1>5 DEF InOrder
    <2> QED
      BY <1>1, <2>1, <2>2 DEF InOrder
  <1>6. ASSUME InOrder(s), \A y \in ToSet(s) : y.id < x.id PROVE InOrder(t)
    <2> SUFFICES ASSUME NEW i \in 1..(n + 1), NEW j \in 1..(n + 1), i < j PROVE t[i].id < t[j].id
      BY <1>1 DEF InOrder
    <2>1. i \in 1..n
      BY <1>1
    <2>2. CASE j \in 1..n
      BY <1>1, <1>6, <2>1, <2>2 DEF InOrder
    <2>3. CASE j = n + 1
      BY <1>1, <1>6, <2>1, <2>3
    <2> QED
      BY <1>3, <2>2, <2>3
  <1> QED
    BY <1>5, <1>6 DEF t

LEMMA KeptInOrder ==
  ASSUME NEW R, NEW s \in Seq(R), NEW S, InOrder(s)
  PROVE  InOrder(Kept(s, S))
  <1> DEFINE Q == {t \in Seq(R) : InOrder(t) => InOrder(Kept(t, S))}
  <1>1. <<>> \in Q
    BY KeptIs, EmptySeq DEF InOrder
  <1>2. ASSUME NEW t \in Seq(R), t \in Q, NEW x \in R PROVE Append(t, x) \in Q
    <2>1. Append(t, x) \in Seq(R)
      BY AppendProperties
    <2> SUFFICES ASSUME InOrder(Append(t, x)) PROVE InOrder(Kept(Append(t, x), S))
      BY <2>1
    <2>2. InOrder(t) /\ \A y \in ToSet(t) : y.id < x.id
      BY OrderOfLonger
    <2>3. InOrder(Kept(t, S)) /\ Kept(t, S) \in Seq(R) /\ ToSet(Kept(t, S)) \subseteq ToSet(t)
      BY <1>2, <2>2, KeptIs, KeptElements
    <2>4. CASE x \in S
      <3>1. InOrder(Append(Kept(t, S), x))
        BY <2>2, <2>3, OrderOfLonger
      <3> QED
        BY <2>4, <3>1, KeptLonger
    <2>5. CASE x \notin S
      BY <2>3, <2>5, KeptLonger
    <2> QED
      BY <2>4, <2>5
  <1>3. Seq(R) \subseteq Q
    <2> HIDE DEF Q
    <2> QED
      BY <1>1, <1>2, SequenceInduction
  <1> QED
    BY <1>3

\* The shares from an id on are an end of the sequence.
LEMMA EndFrom ==
  ASSUME NEW s \in Seq(ShareRecords), NEW i \in 0..Len(s), NEW k,
         \A j \in 1..i : ~ (s[j].id >= k), \A j \in (i + 1)..Len(s) : s[j].id >= k
  PROVE  Kept(s, From(k)) = SubSeq(s, i + 1, Len(s)) /\ Len(SubSeq(s, i + 1, Len(s))) = Len(s) - i
  <1> DEFINE n == Len(s)
             a == SubSeq(s, 1, i)
             b == SubSeq(s, i + 1, n)
  <1>1. n \in Nat /\ \A j \in 1..n : s[j] \in ShareRecords
    BY LenProperties, ElementOfSeq
  <1>2. i \in Int /\ i <= n /\ i + 1 \in Int /\ n \in Int /\ 1 \in Int
    BY <1>1
  <1>3. /\ \A j \in 1..i : j \in 1..n
        /\ \A j \in (i + 1)..n : j \in 1..n
    BY <1>1
  <1>4. /\ a \in Seq(ShareRecords) /\ Len(a) = i /\ \A j \in 1..i : a[j] = s[j]
    <2>1. \A j \in 1..i : s[j] \in ShareRecords
      BY <1>1, <1>3
    <2>2. /\ a \in Seq(ShareRecords) /\ Len(a) = (IF 1 <= i THEN i - 1 + 1 ELSE 0)
          /\ \A j \in 1..(i - 1 + 1) : a[j] = s[1 + j - 1]
      BY <1>2, <2>1, SubSeqProperties
    <2> QED
      BY <2>2
  <1>5. /\ b \in Seq(ShareRecords) /\ Len(b) = n - i /\ \A j \in 1..(n - i) : b[j] = s[i + j]
    <2>1. \A j \in (i + 1)..n : s[j] \in ShareRecords
      BY <1>1, <1>3
    <2>2. /\ b \in Seq(ShareRecords) /\ Len(b) = (IF i + 1 <= n THEN n - (i + 1) + 1 ELSE 0)
          /\ \A j \in 1..(n - (i + 1) + 1) : b[j] = s[(i + 1) + j - 1]
      BY <1>2, <2>1, SubSeqProperties
    <2>3. n - (i + 1) + 1 = n - i /\ \A j \in 1..(n - i) : (i + 1) + j - 1 = i + j
      BY <1>2
    <2>4. (IF i + 1 <= n THEN n - (i + 1) + 1 ELSE 0) = n - i
      BY <1>2
    <2>5. \A j \in 1..(n - i) : b[j] = s[i + j]
      <3> HIDE DEF b
      <3> QED
        BY <2>2, <2>3
    <2> QED
      BY <2>2, <2>4, <2>5
  <1>6. a \o b = s
    <2>1. SubSeq(s, 1, i) \o SubSeq(s, i + 1, n) = SubSeq(s, 1, n)
      BY <1>1, ConcatAdjacentSubSeq, SMTT(20)
    <2> QED
      BY <2>1, SubSeqFull
  <1> HIDE DEF a, b
  <1>7. Kept(a, From(k)) = <<>>
    <2>1. ToSet(a) \intersect From(k) = {}
      BY <1>4, ElementsOf DEF From
    <2> QED
      BY <1>4, <2>1, KeptAllOrNone
  <1>8. Kept(b, From(k)) = b
    <2>1. \A j \in 1..(n - i) : i + j \in (i + 1)..n
      BY <1>2
    <2>2. ToSet(b) \subseteq From(k)
      BY <1>1, <1>3, <1>5, <2>1, ElementsOf DEF From
    <2> QED
      BY <1>5, <2>2, KeptAllOrNone
  <1>9. Kept(a \o b, From(k)) = Kept(a, From(k)) \o Kept(b, From(k))
    BY <1>4, <1>5, KeptOfConcat
  <1>10. Kept(s, From(k)) = b
    BY <1>5, <1>6, <1>7, <1>8, <1>9, ConcatEmptySeq
  <1> QED
    BY <1>5, <1>10 DEF b

\* The newest m shares are those from an id on, and from any earlier id on there are more.
LEMMA NewestIs ==
  ASSUME NEW s \in Seq(ShareRecords), InOrder(s), NEW m \in Nat
  PROVE  \E d \in Nat : /\ Newest(s, m) = Kept(s, From(d))
                        /\ \A k \in Nat : k < d => Len(Kept(s, From(k))) > m
  <1> DEFINE n == Len(s)
  <1>1. n \in Nat /\ \A j \in 1..n : s[j] \in ShareRecords /\ s[j].id \in Nat
    <2>1. n \in Nat /\ \A j \in 1..n : s[j] \in ShareRecords
      BY LenProperties, ElementOfSeq
    <2> QED
      BY <2>1 DEF ShareRecords
  <1>2. CASE n <= m
    <2>1. ToSet(s) \subseteq From(0)
      BY <1>1, ElementsOf DEF From
    <2>2. Newest(s, m) = Kept(s, From(0))
      BY <1>2, <2>1, KeptAllOrNone DEF Newest
    <2> QED
      BY <2>2
  <1>3. CASE n > m
    <2> DEFINE i == n - m
               d == s[i].id + 1
    <2>1. i \in 1..n /\ i \in 0..n /\ i - 1 \in 0..n /\ i \in Int /\ d \in Nat
      BY <1>1, <1>3
    <2>2. \A j \in 1..n : j < i => s[j].id < s[i].id
      BY <2>1 DEF InOrder
    <2>3. \A j \in 1..n : i < j => s[i].id < s[j].id
      BY <2>1 DEF InOrder
    <2>4. ASSUME NEW j \in 1..i PROVE ~ (s[j].id >= d)
      <3>1. j \in 1..n /\ (j < i \/ j = i)
        BY <1>1, <2>1
      <3>2. s[j].id \in Nat /\ s[i].id \in Nat /\ s[j].id <= s[i].id
        BY <1>1, <2>1, <2>2, <3>1
      <3> QED
        BY <3>2
    <2>5. ASSUME NEW j \in (i + 1)..n PROVE s[j].id >= d
      <3>1. j \in 1..n /\ i < j
        BY <1>1, <2>1
      <3>2. s[j].id \in Nat /\ s[i].id \in Nat /\ s[i].id < s[j].id
        BY <1>1, <2>1, <2>3, <3>1
      <3> HIDE DEF i
      <3> QED
        BY <3>2
    <2>6. Kept(s, From(d)) = SubSeq(s, i + 1, n)
      <3> HIDE DEF i, d
      <3> QED
        BY <2>1, <2>4, <2>5, EndFrom
    <2>7. Newest(s, m) = Kept(s, From(d))
      <3>1. Newest(s, m) = SubSeq(s, i + 1, n)
        BY <1>1, <1>3 DEF Newest
      <3> QED
        BY <2>6, <3>1
    <2>8. Len(Kept(s, From(d - 1))) = n - (i - 1)
      <3>0. d - 1 = s[i].id /\ s[i].id \in Nat
        BY <1>1, <2>1
      <3>1. \A j \in 1..(i - 1) : ~ (s[j].id >= d - 1)
        <4>1. \A j \in 1..(i - 1) : j \in 1..n /\ j < i
          BY <1>1, <2>1
        <4> QED
          BY <1>1, <2>2, <3>0, <4>1
      <3>2. \A j \in ((i - 1) + 1)..n : s[j].id >= d - 1
        <4>1. \A j \in ((i - 1) + 1)..n : j \in 1..n /\ (j = i \/ i < j)
          BY <1>1, <2>1
        <4> QED
          BY <1>1, <2>3, <3>0, <4>1
      <3> HIDE DEF i, d
      <3> QED
        BY <2>1, <3>1, <3>2, EndFrom
    <2>9. ASSUME NEW k \in Nat, k < d PROVE Len(Kept(s, From(k))) > m
      <3> HIDE DEF d
      <3>1. From(d - 1) \subseteq From(k)
        BY <2>1, <2>9 DEF From, ShareRecords
      <3>2. /\ Len(Kept(s, From(d - 1))) <= Len(Kept(s, From(k)))
            /\ Len(Kept(s, From(d - 1))) \in Nat /\ Len(Kept(s, From(k))) \in Nat
        BY <3>1, KeptMore
      <3>3. n - (i - 1) = m + 1
        BY <1>1
      <3> QED
        BY <2>8, <3>2, <3>3
    <2> QED
      BY <2>1, <2>7, <2>9
  <1> QED
    BY <1>1, <1>2, <1>3

-----------------------------------------------------------------------------
(* The shares that arrived, a, by the time t, and the newest of them in the   *)
(* queue q, the table s and a worker's window v.                              *)

AcceptedShares == {share \in ShareRecords : share.accepted}
AcceptedBy(w)  == {share \in AcceptedShares : share.worker = w}
Since(t)       == {share \in ShareRecords : share.at >= t}

\* Shares arrive in the order of their ids and of their times.
Arrivals(a, t) ==
  /\ a \in Seq(ShareRecords)
  /\ \A i \in 1..Len(a) : a[i].id = i /\ a[i].at <= t
  /\ \A i, j \in 1..Len(a) : i < j => a[i].at <= a[j].at

\* The queue has the last of them.
LastQueued(a, q) == q = Kept(a, ToSet(q)) /\ AtEnd(a, ToSet(q))

\* The table has the last of the others, and what is missing is too old or has too many after it.
OutOfTable(a, Q, t, share) ==
  share.at < t - ShareAge \/ Len(Kept(a, From(share.id) \ Q)) > ShareMaxRows

NewestStored(a, q, s, t) == \E U \in SUBSET ShareRecords :
  /\ AtEnd(a, U) /\ s = Kept(a, U \ ToSet(q))
  /\ \A share \in ToSet(a) \ U : OutOfTable(a, ToSet(q), t, share)

\* The window of w has the last accepted shares of w; what is missing is too old, or has too many
\* after it for the table to keep or a start to read.
OutOfWindow(a, t, share) ==
  \/ share.at < t - Window
  \/ Len(Kept(a, From(share.id))) > ShareMaxRows
  \/ Len(Kept(a, From(share.id) \intersect AcceptedShares)) > RestoreCap

NewestInWindow(a, v, w, t) == \E U \in SUBSET ShareRecords :
  /\ AtEnd(a, U) /\ v = Kept(a, AcceptedBy(w) \intersect U)
  /\ \A share \in ToSet(a) \ U : OutOfWindow(a, t, share)

SharesInv ==
  /\ now \in Nat /\ DOMAIN window = Workers
  /\ Arrivals(arrived, now) /\ LastQueued(arrived, queue) /\ NewestStored(arrived, queue, shares, now)
  /\ \A w \in Workers : NewestInWindow(arrived, window[w], w, now)

LEMMA EndsOf ==
  ASSUME NEW t \in Nat, NEW a, Arrivals(a, t)
  PROVE  /\ a \in Seq(ShareRecords) /\ InOrder(a) /\ ToSet(a) \subseteq ShareRecords
         /\ \A k \in Nat : AtEnd(a, From(k))
         /\ \A k \in Int : AtEnd(a, Since(k))
         /\ \A U, V : AtEnd(a, U) /\ AtEnd(a, V) => AtEnd(a, U \intersect V) /\ AtEnd(a, U \union V)
  <1>1. a \in Seq(ShareRecords) /\ ToSet(a) \subseteq ShareRecords
    BY ElementsOf DEF Arrivals
  <1>2. \A i \in 1..Len(a) : a[i] \in ShareRecords /\ a[i].id = i /\ a[i].at \in Nat
    <2>1. \A i \in 1..Len(a) : a[i] \in ShareRecords
      BY <1>1, ElementOfSeq
    <2> QED
      BY <2>1 DEF Arrivals, ShareRecords
  <1>3. InOrder(a)
    BY <1>2 DEF InOrder
  <1>4. \A k \in Nat : AtEnd(a, From(k))
    BY <1>2 DEF AtEnd, From
  <1>5. \A k \in Int : AtEnd(a, Since(k))
    BY <1>2 DEF AtEnd, Since, Arrivals
  <1>6. \A U, V : AtEnd(a, U) /\ AtEnd(a, V) => AtEnd(a, U \intersect V) /\ AtEnd(a, U \union V)
    BY DEF AtEnd
  <1> QED
    BY <1>1, <1>3, <1>4, <1>5, <1>6

\* Nothing has arrived.
LEMMA NothingArrived ==
  ASSUME NEW t \in Nat
  PROVE  /\ Arrivals(<<>>, t) /\ LastQueued(<<>>, <<>>) /\ NewestStored(<<>>, <<>>, <<>>, t)
         /\ \A w \in Workers : NewestInWindow(<<>>, <<>>, w, t)
  <1>1. <<>> \in Seq(ShareRecords) /\ Len(<<>>) = 0 /\ ToSet(<<>>) = {} /\ \A S : Kept(<<>>, S) = <<>>
    BY EmptySeq, ElementsOf, KeptIs
  <1>2. \A U : AtEnd(<<>>, U)
    BY <1>1 DEF AtEnd
  <1>3. {} \in SUBSET ShareRecords
    OBVIOUS
  <1> QED
    BY <1>1, <1>2, <1>3 DEF Arrivals, LastQueued, NewestStored, NewestInWindow

\* Time passes.
LEMMA LaterStill ==
  ASSUME NEW t \in Nat, NEW u \in Nat, t <= u, NEW a, Arrivals(a, t)
  PROVE  /\ Arrivals(a, u)
         /\ \A q, s : NewestStored(a, q, s, t) => NewestStored(a, q, s, u)
         /\ \A v, w : NewestInWindow(a, v, w, t) => NewestInWindow(a, v, w, u)
  <1>1. \A share \in ToSet(a) : share.at \in Nat
    BY EndsOf DEF ShareRecords
  <1>2. ShareAge \in Nat /\ Window \in Nat
    BY WindowAssumption
  <1>3. Arrivals(a, u)
    <2>1. \A i \in 1..Len(a) : a[i].at \in Nat
      BY <1>1, ElementsOf DEF Arrivals
    <2> QED
      BY <2>1 DEF Arrivals
  <1>4. \A share \in ToSet(a) : \A Q : OutOfTable(a, Q, t, share) => OutOfTable(a, Q, u, share)
    BY <1>1, <1>2 DEF OutOfTable
  <1>5. \A share \in ToSet(a) : OutOfWindow(a, t, share) => OutOfWindow(a, u, share)
    BY <1>1, <1>2 DEF OutOfWindow
  <1>6. \A q, s : NewestStored(a, q, s, t) => NewestStored(a, q, s, u)
    BY <1>4 DEF NewestStored
  <1>7. \A v, w : NewestInWindow(a, v, w, t) => NewestInWindow(a, v, w, u)
    BY <1>5 DEF NewestInWindow
  <1> QED
    BY <1>3, <1>6, <1>7

\* A share arrives: the sets of the last ones get it.
LEMMA EndGrows ==
  ASSUME NEW a \in Seq(ShareRecords), NEW x \in ShareRecords, x \notin ToSet(a), NEW U, AtEnd(a, U)
  PROVE  AtEnd(Append(a, x), U \union {x})
  <1> DEFINE b == Append(a, x)
             n == Len(a)
  <1>1. n \in Nat /\ Len(b) = n + 1 /\ b[n + 1] = x /\ \A i \in 1..n : b[i] = a[i] /\ a[i] # x
    BY AppendProperties, LenProperties, ElementsOf
  <1> HIDE DEF b
  <1>2. ASSUME NEW i \in 1..(n + 1), NEW j \in 1..(n + 1), i < j, b[i] \in U \union {x}
        PROVE  b[j] \in U \union {x}
    <2>1. i \in 1..n /\ a[i] \in U
      BY <1>1, <1>2
    <2>2. CASE j = n + 1
      BY <1>1, <2>2
    <2>3. CASE j # n + 1
      <3>1. j \in 1..n
        BY <1>1, <2>3
      <3> QED
        BY <1>1, <1>2, <2>1, <3>1 DEF AtEnd
    <2> QED
      BY <2>2, <2>3
  <1> QED
    BY <1>1, <1>2 DEF AtEnd, b

\* As many are kept of a longer sequence.
LEMMA KeptGrows ==
  ASSUME NEW R, NEW s \in Seq(R), NEW x \in R, NEW S
  PROVE  /\ Len(Kept(s, S)) <= Len(Kept(Append(s, x), S))
         /\ Len(Kept(s, S)) \in Nat /\ Len(Kept(Append(s, x), S)) \in Nat
  <1>1. Kept(s, S) \in Seq(R) /\ Kept(s, S) \in Seq(R)
    BY KeptIs
  <1>2. Len(Append(Kept(s, S), x)) = Len(Kept(s, S)) + 1 /\ Len(Kept(s, S)) \in Nat
    BY <1>1, AppendProperties, LenProperties
  <1>3. Kept(Append(s, x), S) = Append(Kept(s, S), x) \/ Kept(Append(s, x), S) = Kept(s, S)
    BY KeptLonger
  <1> QED
    BY <1>2, <1>3

-----------------------------------------------------------------------------
(* The steps, on arrivals a, queue q, table s and window v. *)

\* A share arrives.
LEMMA ShareArrives ==
  ASSUME NEW t \in Nat, NEW a, Arrivals(a, t), NEW x \in ShareRecords, x.id = Len(a) + 1, x.at = t
  PROVE  /\ Arrivals(Append(a, x), t) /\ x \notin ToSet(a)
         /\ \A share \in ToSet(a) : \A Q : OutOfTable(a, Q, t, share) => OutOfTable(Append(a, x), Q \union {x}, t, share)
         /\ \A share \in ToSet(a) : OutOfWindow(a, t, share) => OutOfWindow(Append(a, x), t, share)
  <1> DEFINE b == Append(a, x)
             n == Len(a)
  <1>1. a \in Seq(ShareRecords) /\ InOrder(a) /\ ToSet(a) \subseteq ShareRecords
    BY EndsOf
  <1>2. /\ n \in Nat /\ b \in Seq(ShareRecords) /\ Len(b) = n + 1 /\ b[n + 1] = x
        /\ \A i \in 1..n : b[i] = a[i] /\ a[i].id = i /\ a[i].at <= t
        /\ \A i, j \in 1..n : i < j => a[i].at <= a[j].at
    BY <1>1, AppendProperties, LenProperties DEF Arrivals
  <1>3. Arrivals(b, t)
    <2> HIDE DEF b
    <2>1. \A i \in 1..(n + 1) : i \in 1..n \/ i = n + 1
      BY <1>2
    <2>2. \A i \in 1..(n + 1) : b[i].id = i /\ b[i].at <= t
      BY <1>2, <2>1
    <2>3. ASSUME NEW i \in 1..(n + 1), NEW j \in 1..(n + 1), i < j PROVE b[i].at <= b[j].at
      <3>1. i \in 1..n
        BY <1>2, <2>3
      <3>2. CASE j \in 1..n
        BY <1>2, <2>3, <3>1, <3>2
      <3>3. CASE j = n + 1
        BY <1>2, <3>1, <3>3
      <3> QED
        BY <2>1, <3>2, <3>3
    <2> QED
      BY <1>2, <2>2, <2>3 DEF Arrivals
  <1>4. x \notin ToSet(a)
    <2>1. \A i \in 1..n : a[i].id # n + 1
      BY <1>2
    <2> QED
      BY <1>1, <2>1, ElementsOf
  <1>5. ASSUME NEW share \in ToSet(a), NEW Q, OutOfTable(a, Q, t, share)
        PROVE  OutOfTable(b, Q \union {x}, t, share)
    <2> DEFINE S == From(share.id) \ Q
               T == From(share.id) \ (Q \union {x})
    <2>1. Kept(b, T) = Kept(a, T)
      BY <1>1, KeptLonger
    <2>2. ToSet(a) \intersect T = ToSet(a) \intersect S
      BY <1>4
    <2>3. Kept(a, T) = Kept(a, S)
      <3> HIDE DEF S, T
      <3> QED
        BY <1>1, <2>2, KeptSame
    <2> QED
      BY <1>5, <2>1, <2>3 DEF OutOfTable
  <1>6. ASSUME NEW share \in ToSet(a), OutOfWindow(a, t, share)
        PROVE  OutOfWindow(b, t, share)
    <2> DEFINE S == From(share.id)
               T == From(share.id) \intersect AcceptedShares
    <2>1. Len(Kept(a, S)) <= Len(Kept(b, S)) /\ Len(Kept(a, S)) \in Nat /\ Len(Kept(b, S)) \in Nat
      BY <1>1, KeptGrows
    <2>2. Len(Kept(a, T)) <= Len(Kept(b, T)) /\ Len(Kept(a, T)) \in Nat /\ Len(Kept(b, T)) \in Nat
      BY <1>1, KeptGrows
    <2>3. ShareMaxRows \in Nat /\ RestoreCap \in Nat
      BY WindowAssumption
    <2> HIDE DEF S, T
    <2>4. \/ share.at < t - Window \/ Len(Kept(a, S)) > ShareMaxRows \/ Len(Kept(a, T)) > RestoreCap
      BY <1>6 DEF OutOfWindow, S, T
    <2>5. \/ share.at < t - Window \/ Len(Kept(b, S)) > ShareMaxRows \/ Len(Kept(b, T)) > RestoreCap
      BY <2>1, <2>2, <2>3, <2>4
    <2> QED
      BY <2>5 DEF OutOfWindow, S, T
  <1> QED
    BY <1>3, <1>4, <1>5, <1>6

\* It is queued.
LEMMA ShareQueued ==
  ASSUME NEW t \in Nat, NEW a, Arrivals(a, t), NEW x \in ShareRecords, x.id = Len(a) + 1, x.at = t,
         NEW q, LastQueued(a, q), NEW s, NewestStored(a, q, s, t)
  PROVE  LastQueued(Append(a, x), Append(q, x)) /\ NewestStored(Append(a, x), Append(q, x), s, t)
  <1> DEFINE Q == ToSet(q)
             b == Append(a, x)
  <1>1. a \in Seq(ShareRecords) /\ x \notin ToSet(a)
    BY EndsOf, ShareArrives
  <1>2. q = Kept(a, Q) /\ AtEnd(a, Q) /\ q \in Seq(ShareRecords)
    BY <1>1, KeptIs DEF LastQueued
  <1>3. Q = ToSet(a) \intersect Q
    BY <1>1, <1>2, KeptElements
  <1>4. ToSet(Append(q, x)) = Q \union {x}
    BY <1>2, ElementsOf
  <1> HIDE DEF Q
  <1>5. AtEnd(b, Q \union {x}) /\ Kept(b, Q \union {x}) = Append(Kept(a, Q), x)
    <2> DEFINE P == Q \union {x}
    <2>1. AtEnd(b, P)
      BY <1>1, <1>2, EndGrows
    <2>2. ToSet(a) \intersect P = ToSet(a) \intersect Q /\ x \in P
      BY <1>1
    <2> HIDE DEF P
    <2>3. Kept(b, P) = Append(Kept(a, P), x)
      BY <1>1, <2>2, KeptLonger
    <2>4. Kept(a, P) = Kept(a, Q)
      BY <1>1, <2>2, KeptSame
    <2> QED
      BY <2>1, <2>3, <2>4 DEF P
  <1>6. LastQueued(b, Append(q, x))
    BY <1>2, <1>4, <1>5 DEF LastQueued
  <1>7. PICK U \in SUBSET ShareRecords :
          /\ AtEnd(a, U) /\ s = Kept(a, U \ Q)
          /\ \A share \in ToSet(a) \ U : OutOfTable(a, Q, t, share)
    BY DEF NewestStored, Q
  <1> DEFINE V == U \union {x}
             P == Q \union {x}
  <1>8. AtEnd(b, V) /\ V \in SUBSET ShareRecords
    BY <1>1, <1>7, EndGrows
  <1>9. Kept(b, V \ P) = s
    <2>1. ToSet(a) \intersect (V \ P) = ToSet(a) \intersect (U \ Q) /\ x \notin V \ P
      BY <1>1
    <2>2. Kept(b, V \ P) = Kept(a, V \ P)
      BY <1>1, <2>1, KeptLonger
    <2>3. Kept(a, V \ P) = Kept(a, U \ Q)
      <3> HIDE DEF V, P
      <3> QED
        BY <1>1, <2>1, KeptSame
    <2> QED
      BY <1>7, <2>2, <2>3
  <1>10. ASSUME NEW share \in ToSet(b) \ V PROVE OutOfTable(b, P, t, share)
    <2>1. ToSet(b) = ToSet(a) \union {x}
      BY <1>1, ElementsOf
    <2>2. share \in ToSet(a) /\ OutOfTable(a, Q, t, share)
      BY <1>7, <2>1
    <2> QED
      BY <2>2, ShareArrives
  <1>11. NewestStored(b, Append(q, x), s, t)
    <2> HIDE DEF b, V, P
    <2>1. \A share \in ToSet(b) \ V : OutOfTable(b, P, t, share)
      BY <1>10
    <2>2. P = ToSet(Append(q, x))
      BY <1>4 DEF P
    <2> QED
      BY <1>8, <1>9, <2>1, <2>2, ZenonT(30) DEF NewestStored
  <1> QED
    BY <1>6, <1>11

\* The window of another worker, and of its own.
LEMMA ShareCounted ==
  ASSUME NEW t \in Nat, NEW a, Arrivals(a, t), NEW x \in ShareRecords, x.id = Len(a) + 1, x.at = t,
         NEW w, NEW v, NewestInWindow(a, v, w, t)
  PROVE  /\ x.worker # w => NewestInWindow(Append(a, x), v, w, t)
         /\ x.worker = w => NewestInWindow(Append(a, x), Applied(v, x, t), w, t)
  <1> DEFINE b == Append(a, x)
             A == AcceptedBy(w)
  <1>1. /\ a \in Seq(ShareRecords) /\ x \notin ToSet(a) /\ Arrivals(b, t) /\ ToSet(b) = ToSet(a) \union {x}
        /\ b \in Seq(ShareRecords) /\ ToSet(b) \subseteq ShareRecords
    <2>1. a \in Seq(ShareRecords) /\ x \notin ToSet(a) /\ Arrivals(b, t)
      BY EndsOf, ShareArrives
    <2> QED
      BY <2>1, EndsOf, ElementsOf
  <1>2. PICK U \in SUBSET ShareRecords :
          /\ AtEnd(a, U) /\ v = Kept(a, A \intersect U)
          /\ \A share \in ToSet(a) \ U : OutOfWindow(a, t, share)
    BY DEF NewestInWindow
  <1> DEFINE V == U \union {x}
             S == A \intersect V
  <1>3. AtEnd(b, V) /\ V \in SUBSET ShareRecords
    BY <1>1, <1>2, EndGrows
  <1>4. \A share \in ToSet(b) \ V : OutOfWindow(b, t, share)
    <2>1. \A share \in ToSet(b) \ V : share \in ToSet(a) /\ OutOfWindow(a, t, share)
      BY <1>1, <1>2
    <2> QED
      BY <2>1, ShareArrives
  <1>5. x \in A <=> x.accepted /\ x.worker = w
    BY DEF AcceptedBy, AcceptedShares
  <1>6. IF x \in A THEN Kept(b, S) = Append(v, x) ELSE Kept(b, S) = v
    <2>1. ToSet(a) \intersect S = ToSet(a) \intersect (A \intersect U)
      BY <1>1
    <2>2. Kept(a, S) = v
      <3> HIDE DEF S, A
      <3> QED
        BY <1>1, <1>2, <2>1, KeptSame
    <2>3. x \in S <=> x \in A
      OBVIOUS
    <2>4. CASE x \in A
      <3>1. Kept(b, S) = Append(Kept(a, S), x)
        BY <1>1, <2>3, <2>4, KeptLonger
      <3> QED
        BY <2>2, <2>4, <3>1
    <2>5. CASE x \notin A
      <3>1. Kept(b, S) = Kept(a, S)
        BY <1>1, <2>3, <2>5, KeptLonger
      <3> QED
        BY <2>2, <2>5, <3>1
    <2> QED
      BY <2>4, <2>5
  <1> HIDE DEF b, V
  <1>7. ASSUME x.worker # w PROVE NewestInWindow(b, v, w, t)
    BY <1>3, <1>4, <1>5, <1>6, <1>7 DEF NewestInWindow
  <1>8. ASSUME x.worker = w PROVE NewestInWindow(b, Applied(v, x, t), w, t)
    <2> DEFINE young == Since(t - Window)
               W == V \intersect young
    <2>1. Applied(v, x, t) = Trimmed(Kept(b, S), t)
      BY <1>5, <1>6, <1>8 DEF Applied
    <2>2. Trimmed(Kept(b, S), t) = Kept(b, A \intersect W)
      <3> DEFINE kept == Kept(b, S)
                 recent == {share \in ToSet(kept) : t - share.at <= Window}
      <3>1. kept \in Seq(ShareRecords) /\ ToSet(kept) \subseteq ShareRecords
        BY <1>1, KeptIs, ElementsOf
      <3>2. ToSet(kept) \intersect recent = ToSet(kept) \intersect young
        <4>1. \A share \in ShareRecords : share.at \in Nat
          BY DEF ShareRecords
        <4>2. \A n \in Nat : t - n <= Window <=> n >= t - Window
          BY WindowAssumption
        <4>3. \A share \in ToSet(kept) : share \in recent <=> share \in young
          <5> HIDE DEF kept
          <5> QED
            BY <3>1, <4>1, <4>2 DEF Since
        <4> HIDE DEF kept, recent, young
        <4> QED
          BY <4>3
      <3>3. Kept(kept, recent) = Kept(kept, young)
        <4> HIDE DEF kept, recent, young
        <4> QED
          BY <3>1, <3>2, KeptSame
      <3>4. Kept(kept, young) = Kept(b, S \intersect young)
        <4> HIDE DEF S, young
        <4> QED
          BY <1>1, KeptTwice
      <3>5. S \intersect young = A \intersect W
        OBVIOUS
      <3> QED
        BY <3>3, <3>4, <3>5 DEF Trimmed
    <2>3. AtEnd(b, W) /\ W \in SUBSET ShareRecords
      <3>1. AtEnd(b, young)
        BY <1>1, EndsOf, WindowAssumption
      <3> HIDE DEF young
      <3> QED
        BY <1>1, <1>3, <3>1, EndsOf
    <2>4. \A share \in ToSet(b) \ W : OutOfWindow(b, t, share)
      <3>1. \A share \in ToSet(b) : share \in ShareRecords /\ share.at \in Nat
        BY <1>1 DEF ShareRecords
      <3>2. \A share \in ToSet(b) \ young : share.at < t - Window
        BY <3>1, WindowAssumption DEF Since
      <3> QED
        BY <1>4, <3>2 DEF OutOfWindow
    <2> HIDE DEF W
    <2> QED
      BY <2>1, <2>2, <2>3, <2>4 DEF NewestInWindow
  <1> QED
    BY <1>7, <1>8 DEF b

\* The queue goes to the table.
LEMMA QueueFlushed ==
  ASSUME NEW t \in Nat, NEW a, Arrivals(a, t), NEW q, LastQueued(a, q), NEW s, NewestStored(a, q, s, t)
  PROVE  LastQueued(a, <<>>) /\ NewestStored(a, <<>>, s \o q, t)
  <1> DEFINE Q == ToSet(q)
  <1>1. a \in Seq(ShareRecords) /\ ToSet(<<>>) = {}
    BY EndsOf, ElementsOf
  <1>2. q = Kept(a, Q) /\ AtEnd(a, Q) /\ q \in Seq(ShareRecords) /\ Q \subseteq ShareRecords
    BY <1>1, KeptIs, ElementsOf DEF LastQueued
  <1>3. PICK U \in SUBSET ShareRecords :
          /\ AtEnd(a, U) /\ s = Kept(a, U \ Q)
          /\ \A share \in ToSet(a) \ U : OutOfTable(a, Q, t, share)
    BY DEF NewestStored
  <1> HIDE DEF Q
  <1>4. LastQueued(a, <<>>)
    <2>1. Kept(a, {}) = <<>>
      BY <1>1, KeptAllOrNone
    <2> QED
      BY <1>1, <2>1 DEF LastQueued, AtEnd
  <1> DEFINE V == U \union Q
  <1>5. AtEnd(a, V) /\ V \in SUBSET ShareRecords
    BY <1>2, <1>3, EndsOf
  <1>6. s \o q = Kept(a, V \ {})
    <2>1. Kept(a, V \ Q) \o Kept(a, V \intersect Q) = Kept(a, V)
      <3> HIDE DEF V
      <3> QED
        BY <1>1, <1>2, KeptSplit
    <2>2. V \ Q = U \ Q /\ V \intersect Q = Q /\ V \ {} = V
      OBVIOUS
    <2> QED
      BY <1>2, <1>3, <2>1, <2>2
  <1>7. ASSUME NEW share \in ToSet(a) \ V PROVE OutOfTable(a, {}, t, share)
    <2> DEFINE S == From(share.id) \ Q
               T == From(share.id) \ {}
    <2>1. OutOfTable(a, Q, t, share)
      BY <1>3
    <2>2. Len(Kept(a, S)) <= Len(Kept(a, T)) /\ Len(Kept(a, S)) \in Nat /\ Len(Kept(a, T)) \in Nat
      <3>1. ToSet(a) \intersect S \subseteq T
        OBVIOUS
      <3> HIDE DEF S, T
      <3> QED
        BY <1>1, <3>1, KeptMore
    <2> QED
      BY <2>1, <2>2, WindowAssumption DEF OutOfTable
  <1> HIDE DEF V
  <1>8. NewestStored(a, <<>>, s \o q, t)
    BY <1>1, <1>5, <1>6, <1>7 DEF NewestStored
  <1> QED
    BY <1>4, <1>8

\* Shares that are too old go.
LEMMA TableAged ==
  ASSUME NEW t \in Nat, NEW a, Arrivals(a, t), NEW q, NEW s, NewestStored(a, q, s, t)
  PROVE  NewestStored(a, q, Aged(s, t), t)
  <1> DEFINE Q == ToSet(q)
             young == Since(t - ShareAge)
  <1>1. a \in Seq(ShareRecords) /\ ToSet(a) \subseteq ShareRecords
    BY EndsOf
  <1>2. PICK U \in SUBSET ShareRecords :
          /\ AtEnd(a, U) /\ s = Kept(a, U \ Q)
          /\ \A share \in ToSet(a) \ U : OutOfTable(a, Q, t, share)
    BY DEF NewestStored
  <1> HIDE DEF Q
  <1> DEFINE V == U \intersect young
  <1>3. AtEnd(a, V) /\ V \in SUBSET ShareRecords
    <2>1. AtEnd(a, young)
      BY EndsOf, WindowAssumption
    <2> HIDE DEF young
    <2> QED
      BY <1>2, <2>1, EndsOf
  <1>4. Aged(s, t) = Kept(a, V \ Q)
    <2> DEFINE recent == {share \in ToSet(s) : share.at >= t - ShareAge}
               S == U \ Q
    <2>1. s \in Seq(ShareRecords) /\ ToSet(s) \subseteq ShareRecords
      BY <1>1, <1>2, KeptIs, ElementsOf
    <2>2. ToSet(s) \intersect recent = ToSet(s) \intersect young
      BY <2>1 DEF Since
    <2>3. Kept(s, recent) = Kept(s, young)
      <3> HIDE DEF recent, young
      <3> QED
        BY <2>1, <2>2, KeptSame
    <2>4. Kept(s, young) = Kept(a, S \intersect young)
      <3> HIDE DEF young
      <3> QED
        BY <1>1, <1>2, KeptTwice
    <2>5. S \intersect young = V \ Q
      OBVIOUS
    <2> QED
      BY <2>3, <2>4, <2>5 DEF Aged
  <1>5. \A share \in ToSet(a) \ V : OutOfTable(a, Q, t, share)
    <2>1. \A share \in ToSet(a) : share \in ShareRecords /\ share.at \in Nat
      BY <1>1 DEF ShareRecords
    <2>2. \A share \in ToSet(a) \ young : share.at < t - ShareAge
      BY <2>1, WindowAssumption DEF Since
    <2> QED
      BY <1>2, <2>2 DEF OutOfTable
  <1> HIDE DEF V
  <1> QED
    BY <1>3, <1>4, <1>5 DEF NewestStored, Q

\* The oldest above the maximum go.
LEMMA TableCapped ==
  ASSUME NEW t \in Nat, NEW a, Arrivals(a, t), NEW q, NEW s, NewestStored(a, q, s, t)
  PROVE  NewestStored(a, q, Capped(s), t)
  <1> DEFINE Q == ToSet(q)
  <1>1. a \in Seq(ShareRecords) /\ InOrder(a) /\ ToSet(a) \subseteq ShareRecords
    BY EndsOf
  <1>2. PICK U \in SUBSET ShareRecords :
          /\ AtEnd(a, U) /\ s = Kept(a, U \ Q)
          /\ \A share \in ToSet(a) \ U : OutOfTable(a, Q, t, share)
    BY DEF NewestStored
  <1> HIDE DEF Q
  <1> DEFINE S == U \ Q
  <1>3. s \in Seq(ShareRecords) /\ InOrder(s) /\ ShareMaxRows \in Nat
    BY <1>1, <1>2, KeptIs, KeptInOrder, WindowAssumption
  <1>4. PICK d \in Nat : /\ Newest(s, ShareMaxRows) = Kept(s, From(d))
                         /\ \A k \in Nat : k < d => Len(Kept(s, From(k))) > ShareMaxRows
    BY <1>3, NewestIs
  <1> DEFINE V == U \intersect From(d)
  <1>5. AtEnd(a, V) /\ V \in SUBSET ShareRecords
    BY <1>2, EndsOf
  <1>6. \A k \in Nat : Kept(s, From(k)) = Kept(a, S \intersect From(k))
    <2> HIDE DEF S
    <2> QED
      BY <1>1, <1>2, KeptTwice DEF S
  <1>7. Capped(s) = Kept(a, V \ Q)
    <2>1. S \intersect From(d) = V \ Q
      OBVIOUS
    <2> QED
      BY <1>4, <1>6, <2>1 DEF Capped
  <1>8. ASSUME NEW share \in ToSet(a) \ V PROVE OutOfTable(a, Q, t, share)
    <2>1. CASE share \notin U
      BY <1>2, <2>1
    <2>2. CASE share \in U
      <3>1. share \in ShareRecords /\ share.id \in Nat /\ share.id < d
        <4>1. share \in ShareRecords /\ share \notin From(d)
          BY <1>1, <2>2
        <4> QED
          BY <4>1 DEF From, ShareRecords
      <3> DEFINE k == share.id
                 T == S \intersect From(k)
                 W == From(k) \ Q
      <3>2. Len(Kept(a, T)) > ShareMaxRows
        BY <1>4, <1>6, <3>1
      <3>3. Len(Kept(a, T)) <= Len(Kept(a, W)) /\ Len(Kept(a, T)) \in Nat /\ Len(Kept(a, W)) \in Nat
        <4>1. ToSet(a) \intersect T \subseteq W
          OBVIOUS
        <4> HIDE DEF T, W
        <4> QED
          BY <1>1, <4>1, KeptMore
      <3> HIDE DEF T
      <3> QED
        BY <1>3, <3>2, <3>3 DEF OutOfTable
    <2> QED
      BY <2>1, <2>2
  <1> HIDE DEF V
  <1> QED
    BY <1>5, <1>7, <1>8 DEF NewestStored, Q

\* The queue is lost.
LEMMA QueueLost ==
  ASSUME NEW t \in Nat, NEW a, Arrivals(a, t), NEW q, LastQueued(a, q), NEW s, NewestStored(a, q, s, t),
         NEW b, b = Kept(a, ToSet(a) \ ToSet(q))
  PROVE  Arrivals(b, t) /\ LastQueued(b, <<>>) /\ NewestStored(b, <<>>, s, t)
  <1> DEFINE Q == ToSet(q)
  <1>1. a \in Seq(ShareRecords) /\ ToSet(<<>>) = {}
    BY EndsOf, ElementsOf
  <1>2. q = Kept(a, Q) /\ AtEnd(a, Q) /\ q \in Seq(ShareRecords) /\ b \in Seq(ShareRecords)
    BY <1>1, KeptIs DEF LastQueued
  <1>3. PICK U \in SUBSET ShareRecords :
          /\ AtEnd(a, U) /\ s = Kept(a, U \ Q)
          /\ \A share \in ToSet(a) \ U : OutOfTable(a, Q, t, share)
    BY DEF NewestStored
  <1> HIDE DEF Q
  <1> DEFINE all == ToSet(a)
  <1>4. b = Kept(a, all \ Q)
    BY DEF Q
  <1> HIDE DEF all
  <1>5. b \o q = a
    <2>1. Kept(a, all \ Q) \o Kept(a, all \intersect Q) = Kept(a, all)
      BY <1>1, <1>2, KeptSplit
    <2>2. Kept(a, all) = a
      BY <1>1, KeptAllOrNone DEF all
    <2>3. Kept(a, all \intersect Q) = Kept(a, Q)
      <3>1. ToSet(a) \intersect (all \intersect Q) = ToSet(a) \intersect Q
        BY DEF all
      <3> QED
        BY <1>1, <3>1, KeptSame
    <2> QED
      BY <1>2, <1>4, <2>1, <2>2, <2>3
  <1>6. /\ Len(b) \in Nat /\ Len(a) \in Nat /\ Len(b) <= Len(a) /\ \A i \in 1..Len(b) : b[i] = a[i]
    <2> DEFINE m == Len(b)
    <2>1. m \in Nat /\ Len(q) \in Nat /\ Len(a) = m + Len(q)
      BY <1>2, <1>5, ConcatProperties, LenProperties
    <2>2. \A i \in 1..(m + Len(q)) : (b \o q)[i] = IF i <= m THEN b[i] ELSE q[i - m]
      BY <1>2, ConcatProperties
    <2>3. \A i \in 1..m : i \in 1..(m + Len(q)) /\ i <= m
      BY <2>1
    <2>4. \A i \in 1..m : b[i] = a[i]
      BY <1>5, <2>2, <2>3
    <2>5. m <= Len(a) /\ Len(a) \in Nat
      BY <2>1
    <2> QED
      BY <2>1, <2>4, <2>5
  <1>7. \A i \in 1..Len(b) : i \in 1..Len(a)
    BY <1>6
  <1>8. Arrivals(b, t)
    BY <1>2, <1>6, <1>7, ZenonT(30) DEF Arrivals
  <1>9. \A V : AtEnd(a, V) => AtEnd(b, V)
    BY <1>6, <1>7 DEF AtEnd
  <1>10. ASSUME NEW S PROVE Kept(b, S) = Kept(a, S \ Q)
    <2>1. Kept(b, S) = Kept(a, (all \ Q) \intersect S)
      BY <1>1, <1>4, KeptTwice
    <2>2. ToSet(a) \intersect ((all \ Q) \intersect S) = ToSet(a) \intersect (S \ Q)
      BY DEF all
    <2>3. Kept(a, (all \ Q) \intersect S) = Kept(a, S \ Q)
      BY <1>1, <2>2, KeptSame
    <2> QED
      BY <2>1, <2>3
  <1>11. LastQueued(b, <<>>)
    <2>1. Kept(b, {}) = <<>>
      BY <1>2, KeptAllOrNone
    <2> QED
      BY <1>1, <2>1 DEF LastQueued, AtEnd
  <1>12. NewestStored(b, <<>>, s, t)
    <2>1. AtEnd(b, U) /\ s = Kept(b, U \ {})
      <3>1. (U \ {}) \ Q = U \ Q
        OBVIOUS
      <3> QED
        BY <1>3, <1>9, <1>10, <3>1
    <2>2. ASSUME NEW share \in ToSet(b) \ U PROVE OutOfTable(b, {}, t, share)
      <3>1. ToSet(b) = all \intersect (all \ Q)
        BY <1>1, <1>4, KeptElements DEF all
      <3>2. OutOfTable(a, Q, t, share)
        BY <1>3, <3>1 DEF all
      <3>3. Kept(b, From(share.id) \ {}) = Kept(a, From(share.id) \ Q)
        <4>1. (From(share.id) \ {}) \ Q = From(share.id) \ Q
          OBVIOUS
        <4> QED
          BY <1>10, <4>1
      <3> QED
        BY <3>2, <3>3 DEF OutOfTable
    <2> DEFINE none == ToSet(<<>>)
    <2>3. none = {}
      BY <1>1
    <2> HIDE DEF none
    <2>4. /\ AtEnd(b, U) /\ s = Kept(b, U \ none)
          /\ \A share \in ToSet(b) \ U : OutOfTable(b, none, t, share)
      BY <2>1, <2>2, <2>3
    <2>5. \E V \in SUBSET ShareRecords :
            /\ AtEnd(b, V) /\ s = Kept(b, V \ none)
            /\ \A share \in ToSet(b) \ V : OutOfTable(b, none, t, share)
      BY <2>4
    <2> QED
      BY <2>5 DEF NewestStored, none
  <1> QED
    BY <1>8, <1>11, <1>12

\* A start restores a window from the table.
LEMMA WindowRestored ==
  ASSUME NEW t \in Nat, NEW a, Arrivals(a, t), NEW s, NewestStored(a, <<>>, s, t), NEW w \in Workers
  PROVE  NewestInWindow(a, Restored(s, w, t), w, t)
  <1> DEFINE A == AcceptedShares
             young == Since(t - Window)
  <1>1. /\ a \in Seq(ShareRecords) /\ InOrder(a) /\ ToSet(a) \subseteq ShareRecords
        /\ Window \in Nat /\ RestoreCap \in Nat /\ ShareAge \in Nat /\ ShareAge >= Window
        /\ ToSet(<<>>) = {}
    BY EndsOf, ElementsOf, WindowAssumption
  <1>2. PICK U \in SUBSET ShareRecords :
          /\ AtEnd(a, U) /\ s = Kept(a, U \ {})
          /\ \A share \in ToSet(a) \ U : OutOfTable(a, {}, t, share)
    BY <1>1 DEF NewestStored
  <1>3. s = Kept(a, U)
    <2>1. U \ {} = U
      OBVIOUS
    <2> QED
      BY <1>2, <2>1
  <1>4. \A S : Kept(a, S) \in Seq(ShareRecords) /\ ToSet(Kept(a, S)) \subseteq ShareRecords
    BY <1>1, KeptIs, ElementsOf
  <1> DEFINE P == U \intersect (A \intersect young)
             read == Kept(a, P)
  <1>5. AcceptedSince(s, t - Window) = read
    <2> DEFINE read1 == {share \in ToSet(s) : share.accepted /\ share.at >= t - Window}
               T == A \intersect young
    <2>1. ToSet(Kept(a, U)) \intersect read1 = ToSet(Kept(a, U)) \intersect T
      BY <1>3, <1>4 DEF AcceptedShares, Since
    <2>2. Kept(s, read1) = Kept(a, U \intersect T)
      <3> HIDE DEF read1, T
      <3>1. a \in Seq(ShareRecords)
        BY <1>1
      <3>2. Kept(Kept(a, U), T) = Kept(a, U \intersect T)
        BY <3>1, KeptTwice
      <3>3. Kept(s, read1) = Kept(s, T)
        <4>1. s \in Seq(ShareRecords) /\ ToSet(s) \intersect read1 = ToSet(s) \intersect T
          BY <1>3, <1>4, <2>1
        <4> QED
          BY <4>1, KeptSame
      <3> QED
        BY <1>3, <3>2, <3>3
    <2> QED
      BY <2>2 DEF AcceptedSince
  <1>6. read \in Seq(ShareRecords) /\ InOrder(read)
    BY <1>1, <1>4, KeptInOrder
  <1>7. PICK d \in Nat : /\ Newest(read, RestoreCap) = Kept(read, From(d))
                         /\ \A k \in Nat : k < d => Len(Kept(read, From(k))) > RestoreCap
    <2> HIDE DEF read
    <2> QED
      BY <1>1, <1>6, NewestIs
  <1>8. \A k : Kept(read, From(k)) = Kept(a, P \intersect From(k))
    <2> HIDE DEF P
    <2> QED
      BY <1>1, KeptTwice
  <1> DEFINE N == P \intersect From(d)
             newest == Kept(a, N)
             V == U \intersect (young \intersect From(d))
  <1>9. ReadSince(s, t) = newest
    BY <1>5, <1>7, <1>8 DEF ReadSince
  <1>10. AcceptedOf(newest, w) = Kept(a, AcceptedBy(w) \intersect V)
    <2> DEFINE own == {share \in ToSet(newest) : share.accepted /\ share.worker = w}
               T == AcceptedBy(w)
    <2>1. ToSet(Kept(a, N)) \intersect own = ToSet(Kept(a, N)) \intersect T
      BY <1>4 DEF AcceptedBy, AcceptedShares
    <2>2. Kept(newest, own) = Kept(a, N \intersect T)
      <3> HIDE DEF own, N, T
      <3>1. a \in Seq(ShareRecords)
        BY <1>1
      <3>2. Kept(Kept(a, N), T) = Kept(a, N \intersect T)
        BY <3>1, KeptTwice
      <3>3. newest \in Seq(ShareRecords) /\ ToSet(newest) \intersect own = ToSet(newest) \intersect T
        BY <1>4, <2>1
      <3>4. Kept(newest, own) = Kept(newest, T)
        <4> HIDE DEF newest
        <4> QED
          BY <3>3, KeptSame
      <3> QED
        BY <3>2, <3>4
    <2>3. N \intersect AcceptedBy(w) = AcceptedBy(w) \intersect V
      BY DEF AcceptedBy
    <2> QED
      BY <2>2, <2>3 DEF AcceptedOf
  <1>11. Trimmed(Kept(a, AcceptedBy(w) \intersect V), t) = Kept(a, AcceptedBy(w) \intersect V)
    <2> DEFINE own == Kept(a, AcceptedBy(w) \intersect V)
               recent == {share \in ToSet(own) : t - share.at <= Window}
    <2>1. own \in Seq(ShareRecords) /\ ToSet(own) = ToSet(a) \intersect (AcceptedBy(w) \intersect V)
      BY <1>1, <1>4, KeptElements
    <2>2. \A share \in ToSet(own) : share.at \in Nat /\ share.at >= t - Window
      BY <1>1, <2>1 DEF Since, ShareRecords
    <2> HIDE DEF own
    <2>3. \A share \in ToSet(own) : t - share.at <= Window
      BY <1>1, <2>2
    <2>4. Kept(own, recent) = own
      BY <2>1, <2>3, KeptAllOrNone
    <2> QED
      BY <2>4 DEF Trimmed, own
  <1>12. Restored(s, w, t) = Kept(a, AcceptedBy(w) \intersect V)
    <2> HIDE DEF newest, V
    <2> QED
      BY <1>9, <1>10, <1>11 DEF Restored
  <1>13. AtEnd(a, V) /\ V \in SUBSET ShareRecords
    <2>1. AtEnd(a, young) /\ AtEnd(a, From(d))
      BY <1>1, EndsOf
    <2> HIDE DEF young
    <2>2. AtEnd(a, young \intersect From(d))
      BY <2>1, EndsOf
    <2> QED
      BY <1>2, <2>2, EndsOf
  <1>14. ASSUME NEW share \in ToSet(a) \ V PROVE OutOfWindow(a, t, share)
    <2>1. share \in ShareRecords /\ share.at \in Nat /\ share.id \in Nat
      BY <1>1 DEF ShareRecords
    <2>2. CASE share \notin U
      <3>1. From(share.id) \ {} = From(share.id)
        OBVIOUS
      <3>2. share.at < t - ShareAge \/ Len(Kept(a, From(share.id))) > ShareMaxRows
        BY <1>2, <2>2, <3>1 DEF OutOfTable
      <3> QED
        BY <1>1, <2>1, <3>2 DEF OutOfWindow
    <2>3. CASE share \notin young
      BY <1>1, <2>1, <2>3 DEF Since, OutOfWindow
    <2>4. CASE share \notin From(d)
      <3> DEFINE S == P \intersect From(share.id)
                 T == From(share.id) \intersect AcceptedShares
      <3>1. share.id < d
        BY <2>1, <2>4 DEF From
      <3>2. Len(Kept(a, S)) > RestoreCap
        BY <1>7, <1>8, <2>1, <3>1
      <3>3. Len(Kept(a, S)) <= Len(Kept(a, T)) /\ Len(Kept(a, S)) \in Nat /\ Len(Kept(a, T)) \in Nat
        <4>1. ToSet(a) \intersect S \subseteq T
          OBVIOUS
        <4> HIDE DEF S, T
        <4> QED
          BY <1>1, <4>1, KeptMore
      <3> HIDE DEF S
      <3> QED
        BY <1>1, <3>2, <3>3 DEF OutOfWindow
    <2> QED
      BY <2>2, <2>3, <2>4
  <1> HIDE DEF V
  <1> QED
    BY <1>12, <1>13, <1>14 DEF NewestInWindow

-----------------------------------------------------------------------------
(* The steps of the specification. *)

LEMMA InitShares == RetentionInit => SharesInv
  <1> SUFFICES ASSUME RetentionInit PROVE SharesInv
    OBVIOUS
  <1>1. /\ now \in Nat /\ window = [w \in Workers |-> <<>>]
        /\ queue = <<>> /\ shares = <<>> /\ arrived = <<>>
    BY RetentionAssumption DEF RetentionInit
  <1> QED
    BY <1>1, NothingArrived DEF SharesInv

LEMMA ShareKeeps ==
  ASSUME SharesInv, NEW w \in Workers, NEW accepted \in BOOLEAN, Share(w, accepted)
  PROVE  SharesInv'
  <1> DEFINE x == [id |-> Len(arrived) + 1, worker |-> w, accepted |-> accepted, at |-> now]
  <1>1. /\ now \in Nat /\ DOMAIN window = Workers /\ Arrivals(arrived, now) /\ LastQueued(arrived, queue)
        /\ NewestStored(arrived, queue, shares, now) /\ \A v \in Workers : NewestInWindow(arrived, window[v], v, now)
    BY DEF SharesInv
  <1>2. x \in ShareRecords /\ x.id = Len(arrived) + 1 /\ x.at = now /\ x.worker = w
    <2>1. Len(arrived) \in Nat
      BY <1>1, EndsOf, LenProperties
    <2> QED
      BY <1>1, <2>1 DEF ShareRecords
  <1>3. /\ window' = [window EXCEPT ![w] = Applied(@, x, now)]
        /\ queue' = Append(queue, x) /\ arrived' = Append(arrived, x)
        /\ UNCHANGED <<now, shares>>
    BY DEF Share
  <1> HIDE DEF x
  <1>4. Arrivals(Append(arrived, x), now)
    BY <1>1, <1>2, ShareArrives
  <1>5. /\ LastQueued(Append(arrived, x), Append(queue, x))
        /\ NewestStored(Append(arrived, x), Append(queue, x), shares, now)
    BY <1>1, <1>2, ShareQueued
  <1>6. ASSUME NEW v \in Workers PROVE NewestInWindow(Append(arrived, x), window'[v], v, now)
    <2>1. CASE v = w
      <3>1. window'[v] = Applied(window[v], x, now)
        BY <1>1, <1>3, <2>1
      <3> QED
        BY <1>1, <1>2, <2>1, <3>1, ShareCounted
    <2>2. CASE v # w
      <3>1. window'[v] = window[v]
        BY <1>1, <1>3, <2>2
      <3> QED
        BY <1>1, <1>2, <2>2, <3>1, ShareCounted
    <2> QED
      BY <2>1, <2>2
  <1>7. DOMAIN window' = Workers
    BY <1>1, <1>3
  <1> QED
    BY <1>1, <1>3, <1>4, <1>5, <1>6, <1>7 DEF SharesInv

LEMMA KillKeeps == SharesInv /\ Kill => SharesInv'
  <1> SUFFICES ASSUME SharesInv, Kill PROVE SharesInv'
    OBVIOUS
  <1>1. /\ now \in Nat /\ Arrivals(arrived, now) /\ LastQueued(arrived, queue)
        /\ NewestStored(arrived, queue, shares, now)
    BY DEF SharesInv
  <1>2. /\ queue' = <<>> /\ arrived' = Kept(arrived, ToSet(arrived) \ ToSet(queue))
        /\ window' = [w \in Workers |-> Restored(shares, w, now)]
        /\ UNCHANGED <<now, shares>>
    BY DEF Kill
  <1>3. Arrivals(arrived', now) /\ LastQueued(arrived', <<>>) /\ NewestStored(arrived', <<>>, shares, now)
    BY <1>1, <1>2, QueueLost
  <1>4. \A w \in Workers : NewestInWindow(arrived', Restored(shares, w, now), w, now)
    BY <1>1, <1>3, WindowRestored
  <1> QED
    BY <1>1, <1>2, <1>3, <1>4 DEF SharesInv

LEMMA TableKeeps ==
  ASSUME RetentionInv, SharesInv, Flush \/ TrimShares \/ CapShares
  PROVE  SharesInv'
  <1>1. /\ now \in Nat /\ Arrivals(arrived, now) /\ LastQueued(arrived, queue)
        /\ NewestStored(arrived, queue, shares, now)
    BY DEF SharesInv
  <1>2. CASE Flush
    <2>1. shares' = shares \o queue /\ queue' = <<>> /\ UNCHANGED <<now, window, arrived>>
      BY <1>2 DEF Flush
    <2>2. LastQueued(arrived, <<>>) /\ NewestStored(arrived, <<>>, shares \o queue, now)
      BY <1>1, QueueFlushed
    <2> QED
      BY <2>1, <2>2 DEF SharesInv
  <1>3. CASE TrimShares
    <2>1. shares' = Aged(shares, pass.at) /\ UNCHANGED <<now, window, queue, arrived>>
      BY <1>3 DEF TrimShares, Statement
    <2>2. pass.at = now
      <3>1. pass # Idle
        BY <1>3, IdleIsNoStep DEF TrimShares, Statement, Steps
      <3> QED
        BY <3>1, PassTypes
    <2>3. NewestStored(arrived, queue, Aged(shares, now), now)
      BY <1>1, TableAged
    <2> QED
      BY <2>1, <2>2, <2>3 DEF SharesInv
  <1>4. CASE CapShares
    <2>1. shares' = Capped(shares) /\ UNCHANGED <<now, window, queue, arrived>>
      BY <1>4 DEF CapShares, Statement
    <2>2. NewestStored(arrived, queue, Capped(shares), now)
      BY <1>1, TableCapped
    <2> QED
      BY <2>1, <2>2 DEF SharesInv
  <1> QED
    BY <1>2, <1>3, <1>4

LEMMA NextShares == RetentionInv /\ SharesInv /\ [RetentionNext]_retentionVars => SharesInv'
  <1> SUFFICES ASSUME RetentionInv, SharesInv, [RetentionNext]_retentionVars PROVE SharesInv'
    OBVIOUS
  <1>1. CASE Tick
    <2>1. now' = now + 1 /\ UNCHANGED shareVars
      BY <1>1 DEF Tick
    <2>2. now \in Nat /\ Arrivals(arrived, now)
      BY DEF SharesInv
    <2>3. now' \in Nat /\ now <= now'
      BY <2>1, <2>2
    <2>4. /\ Arrivals(arrived, now')
          /\ \A q, s : NewestStored(arrived, q, s, now) => NewestStored(arrived, q, s, now')
          /\ \A v, w : NewestInWindow(arrived, v, w, now) => NewestInWindow(arrived, v, w, now')
      BY <2>2, <2>3, LaterStill
    <2> QED
      BY <2>1, <2>3, <2>4 DEF SharesInv, shareVars
  <1>2. CASE UNCHANGED <<now, shareVars>>
    BY <1>2 DEF SharesInv, shareVars
  <1>3. CASE \/ Sample \/ StartPass \/ FoldLong \/ DropLong \/ FoldMid \/ DropMid \/ Expire
            \/ StatementFails \/ UNCHANGED retentionVars
    BY <1>2, <1>3 DEF Sample, StartPass, FoldLong, DropLong, FoldMid, DropMid, Expire, StatementFails,
                      Statement, retentionVars
  <1> QED
    BY <1>1, <1>3, ShareKeeps, KillKeeps, TableKeeps DEF RetentionNext

\* Queue, table and windows have the newest of the shares that arrived (Persistence's pending
\* shares, the shares table and HashrateWindow), whatever is trimmed, capped or lost.
THEOREM SharesInvariant == RetentionSpec => []SharesInv
  BY InitShares, NextShares, RetentionInvariant, PTL DEF RetentionSpec

\* The accepted shares a worker's hashrate is estimated from (HashrateWindow in stats.rs) are its
\* latest with none missing in between, also after restarts that read them back from the log
\* (restore in stats.rs, accepted_shares_since in accounting.rs), and one that is missing is too
\* old or has more shares after it than the log keeps and a start reads.
THEOREM WindowsAreNewest == RetentionSpec => []WindowIsNewest
  <1>1. SharesInv => WindowIsNewest
    <2> SUFFICES ASSUME SharesInv PROVE WindowIsNewest
      OBVIOUS
    <2> DEFINE all == ToSet(arrived)
               After(share) == Kept(arrived, {other \in all : other.id >= share.id})
               AcceptedAfter(share) == Kept(After(share), {other \in all : other.accepted})
    <2>1. /\ now \in Nat /\ Arrivals(arrived, now) /\ arrived \in Seq(ShareRecords) /\ all \subseteq ShareRecords
          /\ Window \in Nat /\ ShareMaxRows \in Nat /\ RestoreCap \in Nat
      BY EndsOf, WindowAssumption DEF SharesInv
    <2>2. ASSUME NEW share \in all
          PROVE  /\ After(share) = Kept(arrived, From(share.id))
                 /\ AcceptedAfter(share) = Kept(arrived, From(share.id) \intersect AcceptedShares)
      <3> DEFINE S == From(share.id)
                 P == {other \in all : other.id >= share.id}
                 A == {other \in all : other.accepted}
                 T == AcceptedShares
                 after == Kept(arrived, S)
      <3>1. ToSet(arrived) \intersect P = ToSet(arrived) \intersect S
        BY <2>1 DEF From
      <3>2. Kept(arrived, P) = after
        <4> HIDE DEF P, S
        <4> QED
          BY <2>1, <3>1, KeptSame
      <3>3. after \in Seq(ShareRecords) /\ ToSet(after) \subseteq all
        BY <2>1, KeptIs, KeptElements
      <3>4. ToSet(after) \intersect A = ToSet(after) \intersect T
        <4> HIDE DEF after
        <4> QED
          BY <2>1, <3>3 DEF AcceptedShares
      <3>5. Kept(after, A) = Kept(after, T)
        <4> HIDE DEF after, A, T
        <4> QED
          BY <3>3, <3>4, KeptSame
      <3>6. Kept(after, T) = Kept(arrived, S \intersect T)
        BY <2>1, KeptTwice
      <3> QED
        BY <3>2, <3>5, <3>6
    <2> DEFINE late(share) == /\ now - share.at <= Window
                              /\ Len(After(share)) <= ShareMaxRows
                              /\ Len(AcceptedAfter(share)) <= RestoreCap
    <2>3. ASSUME NEW w \in Workers
          PROVE  LET accepted == AcceptedOf(arrived, w)
                 IN /\ IsSuffix(window[w], accepted)
                    /\ \A i \in DOMAIN accepted : late(accepted[i]) => Contains(window[w], accepted[i])
      <3> DEFINE A == AcceptedBy(w)
                 accepted == AcceptedOf(arrived, w)
      <3>1. PICK U \in SUBSET ShareRecords :
              /\ AtEnd(arrived, U) /\ window[w] = Kept(arrived, A \intersect U)
              /\ \A share \in all \ U : OutOfWindow(arrived, now, share)
        BY DEF SharesInv, NewestInWindow
      <3>2. accepted = Kept(arrived, A)
        <4> DEFINE own == {share \in all : share.accepted /\ share.worker = w}
        <4>1. ToSet(arrived) \intersect own = ToSet(arrived) \intersect A
          BY <2>1 DEF AcceptedBy, AcceptedShares
        <4>2. Kept(arrived, own) = Kept(arrived, A)
          <5> HIDE DEF own, A
          <5> QED
            BY <2>1, <4>1, KeptSame
        <4> QED
          BY <4>2 DEF AcceptedOf
      <3> HIDE DEF A, accepted
      <3>3. IsSuffix(window[w], accepted)
        <4>1. Kept(arrived, A \ U) \o Kept(arrived, A \intersect U) = Kept(arrived, A)
          BY <2>1, <3>1, KeptSplit
        <4>2. Kept(arrived, A \ U) \in Seq(ShareRecords) /\ Kept(arrived, A \intersect U) \in Seq(ShareRecords)
          BY <2>1, KeptIs
        <4>3. IsSuffix(Kept(arrived, A \intersect U), Kept(arrived, A \ U) \o Kept(arrived, A \intersect U))
          BY <4>2, EndIsSuffix
        <4> QED
          BY <3>1, <3>2, <4>1, <4>3
      <3>4. ASSUME NEW i \in DOMAIN accepted, late(accepted[i]) PROVE Contains(window[w], accepted[i])
        <4> DEFINE share == accepted[i]
        <4>1. share \in ToSet(accepted) /\ ToSet(accepted) = all \intersect A
          BY <2>1, <3>2, KeptElements DEF ToSet
        <4>2. share \in all /\ share \in A /\ share.at \in Nat
          BY <2>1, <4>1 DEF ShareRecords
        <4> HIDE DEF all
        <4>3. share \in U
          <5> SUFFICES ASSUME share \notin U PROVE FALSE
            OBVIOUS
          <5>1. OutOfWindow(arrived, now, share)
            BY <3>1, <4>2
          <5>2. /\ now - share.at <= Window
                /\ Len(Kept(arrived, From(share.id))) <= ShareMaxRows
                /\ Len(Kept(arrived, From(share.id) \intersect AcceptedShares)) <= RestoreCap
            BY <2>2, <3>4, <4>2
          <5>3. \A S : Len(Kept(arrived, S)) \in Nat
            BY <2>1, KeptIs, LenProperties
          <5> HIDE DEF share
          <5> QED
            BY <2>1, <4>2, <5>1, <5>2, <5>3 DEF OutOfWindow
        <4>4. window[w] \in Seq(ShareRecords) /\ ToSet(window[w]) = all \intersect (A \intersect U)
          <5> DEFINE S == A \intersect U
          <5>1. Kept(arrived, S) \in Seq(ShareRecords) /\ ToSet(Kept(arrived, S)) = ToSet(arrived) \intersect S
            BY <2>1, KeptIs, KeptElements
          <5> QED
            BY <3>1, <5>1 DEF all
        <4>5. share \in ToSet(window[w])
          BY <4>2, <4>3, <4>4
        <4> QED
          BY <4>4, <4>5, ElementsOf DEF Contains
      <3> QED
        BY <3>3, <3>4 DEF accepted
    <2> QED
      BY <2>3 DEF WindowIsNewest
  <1> QED
    BY <1>1, SharesInvariant, PTL

-----------------------------------------------------------------------------
(* Averages. *)

Fractions == Nat \X (Nat \ {0})

\* The rounds of a sum: one for each time of the clock.
Ends == MaxTime + 1

IsSum(f, T, s) ==
  s = [t \in 0..Ends |->
        IF t = 0 THEN <<0, 1>>
        ELSE IF t - 1 \in T THEN Plus(s[t - 1], f[t - 1]) ELSE s[t - 1]]

\* The same, in a form to use.
Sums(f, T, s) ==
  /\ s[0] = <<0, 1>>
  /\ \A t \in 1..Ends : s[t] = IF t - 1 \in T THEN Plus(s[t - 1], f[t - 1]) ELSE s[t - 1]

LEMMA FractionsAdd ==
  ASSUME NEW p \in Fractions, NEW q \in Fractions
  PROVE  /\ p[1] \in Nat /\ p[2] \in Nat \ {0} /\ p = <<p[1], p[2]>>
         /\ Plus(p, q) \in Fractions
         /\ Plus(p, q)[1] = p[1] * q[2] + q[1] * p[2] /\ Plus(p, q)[2] = p[2] * q[2]
  <1>1. /\ p[1] \in Nat /\ p[2] \in Nat \ {0} /\ p = <<p[1], p[2]>>
        /\ q[1] \in Nat /\ q[2] \in Nat \ {0}
    BY DEF Fractions
  <1>2. /\ p[1] * q[2] \in Nat /\ q[1] * p[2] \in Nat /\ p[2] * q[2] \in Nat \ {0}
    BY <1>1
  <1>3. p[1] * q[2] + q[1] * p[2] \in Nat
    BY <1>2
  <1> QED
    BY <1>1, <1>2, <1>3 DEF Plus, Fractions

LEMMA SumRounds ==
  ASSUME NEW f, NEW T, NEW s
  PROVE  IsSum(f, T, s) <=> s = [t \in 0..Ends |-> s[t]] /\ Sums(f, T, s)
  <1> DEFINE n == Ends
             Round(t) == IF t = 0 THEN <<0, 1>> ELSE IF t - 1 \in T THEN Plus(s[t - 1], f[t - 1]) ELSE s[t - 1]
  <1>0. n \in Nat
    BY RetentionAssumption DEF Ends
  <1>1. IsSum(f, T, s) <=> s = [t \in 0..n |-> Round(t)]
    BY DEF IsSum
  <1>2. s = [t \in 0..n |-> Round(t)] <=> s = [t \in 0..n |-> s[t]] /\ \A t \in 0..n : s[t] = Round(t)
    <2> HIDE DEF Round
    <2> QED
      OBVIOUS
  <1>3. (\A t \in 0..n : s[t] = Round(t)) <=> s[0] = Round(0) /\ \A t \in 1..n : s[t] = Round(t)
    <2>1. \A t : t \in 0..n <=> t = 0 \/ t \in 1..n
      BY <1>0
    <2> HIDE DEF Round, n
    <2> QED
      BY <2>1
  <1>4. \A t \in 1..n : Round(t) = IF t - 1 \in T THEN Plus(s[t - 1], f[t - 1]) ELSE s[t - 1]
    <2>1. \A t \in 1..n : t # 0
      BY <1>0
    <2> QED
      BY <2>1
  <1>5. Round(0) = <<0, 1>>
    OBVIOUS
  <1> HIDE DEF Round
  <1> QED
    BY <1>1, <1>2, <1>3, <1>4, <1>5 DEF Sums

\* What Mean divides is a sum of fractions.
LEMMA SumRuns ==
  ASSUME NEW f, NEW T, \A t \in T : f[t] \in Fractions
  PROVE  \E s : /\ Sums(f, T, s) /\ \A t \in 0..Ends : s[t] \in Fractions
                /\ Mean(f, T) = <<s[Ends][1], s[Ends][2] * Cardinality(T)>>
  <1> DEFINE n == Ends
             S == [t \in 0..n |-> Fractions]
             Longer(t, x) == IF t - 1 \in T THEN Plus(x, f[t - 1]) ELSE x
             step == [t \in 1..n |-> [x \in Fractions |-> Longer(t, x)]]
             loop == CHOOSE s : IsSum(f, T, s)
  <1>1. n \in Nat /\ \A t \in 1..n : t - 1 \in 0..n /\ t \in 0..n
    BY RetentionAssumption DEF Ends
  <1>2. <<0, 1>> \in S[0]
    BY <1>1 DEF Fractions
  <1>3. ASSUME NEW t \in 1..n, NEW x \in S[t - 1] PROVE step[t][x] = Longer(t, x) /\ step[t][x] \in S[t]
    <2>1. x \in Fractions /\ S[t] = Fractions
      BY <1>1
    <2>2. t - 1 \in T => Plus(x, f[t - 1]) \in Fractions
      BY <2>1, FractionsAdd
    <2> QED
      BY <2>1, <2>2
  <1>4. PICK g : IsLoop(g, n, S, <<0, 1>>, step)
    <2>1. \A t \in 1..n : \A x \in S[t - 1] : step[t][x] \in S[t]
      BY <1>3
    <2>2. n \in Nat /\ <<0, 1>> \in S[0]
      BY <1>1, <1>2
    <2> HIDE DEF n, S, step, loop
    <2> QED
      BY <2>1, <2>2, LoopRuns
  <1>5. /\ g = [t \in 0..n |-> g[t]] /\ g[0] = <<0, 1>>
        /\ \A t \in 1..n : g[t] = Longer(t, g[t - 1])
        /\ \A t \in 0..n : g[t] \in Fractions
    <2>1. \A t \in 1..n : g[t] = step[t][g[t - 1]] /\ g[t - 1] \in S[t - 1]
      BY <1>1, <1>4 DEF IsLoop
    <2>2. \A t \in 1..n : g[t] = Longer(t, g[t - 1])
      BY <1>3, <2>1
    <2> QED
      BY <1>4, <2>2 DEF IsLoop
  <1>6. IsSum(f, T, g)
    BY <1>5, SumRounds DEF Sums
  <1>7. IsSum(f, T, loop)
    BY <1>6, Zenon
  <1>8. Mean(f, T) = <<loop[n][1], loop[n][2] * Cardinality(T)>>
    BY DEF Mean, IsSum, Ends
  <1> HIDE DEF loop
  <1>9. Sums(f, T, loop)
    BY <1>7, SumRounds
  <1>10. \A t \in 0..n : loop[t] = g[t]
    <2>1. \A t \in 1..n : loop[t - 1] = g[t - 1] => loop[t] = g[t]
      BY <1>5, <1>9 DEF Sums
    <2>2. n \in Nat /\ loop[0] = g[0]
      BY <1>1, <1>5, <1>9 DEF Sums
    <2> HIDE DEF n, Longer
    <2>3. SameRounds(loop, g, n)
      BY <2>1, <2>2 DEF SameRounds
    <2> QED
      BY <2>2, <2>3, SameLoop
  <1> QED
    BY <1>1, <1>5, <1>8, <1>9, <1>10

\* Where there is nothing to add a sum stays the same.
LEMMA QuietSum ==
  ASSUME NEW f, NEW T, NEW s, Sums(f, T, s), NEW a \in 0..Ends, NEW b \in 0..Ends, a <= b,
         \A t \in T : ~ (a <= t /\ t < b)
  PROVE  s[b] = s[a]
  <1> DEFINE N == {n \in Nat : a + n <= b => s[a + n] = s[a]}
  <1>0. a \in Nat /\ b \in Nat /\ Ends \in Nat /\ a + 0 = a
    BY RetentionAssumption DEF Ends
  <1>1. 0 \in N
    BY <1>0
  <1>2. ASSUME NEW n \in Nat, n \in N PROVE n + 1 \in N
    <2> SUFFICES ASSUME a + (n + 1) <= b PROVE s[a + (n + 1)] = s[a]
      OBVIOUS
    <2>1. /\ a + (n + 1) \in 1..Ends /\ (a + (n + 1)) - 1 = a + n /\ a <= a + n /\ a + n < b
      BY <1>0
    <2>2. s[a + n] = s[a]
      BY <1>0, <1>2, <2>1
    <2>3. a + n \notin T
      BY <2>1
    <2>4. s[a + (n + 1)] = s[(a + (n + 1)) - 1]
      BY <2>1, <2>3 DEF Sums
    <2> QED
      BY <2>1, <2>2, <2>4
  <1>3. Nat \subseteq N
    <2> HIDE DEF N
    <2> QED
      BY <1>1, <1>2, NumberInduction
  <1>4. b - a \in Nat /\ a + (b - a) = b
    BY <1>0
  <1> QED
    BY <1>3, <1>4

-----------------------------------------------------------------------------
(* The average of rows that are averages of neighbouring spans of equal length. *)

\* The number v is the average of the samples from lo on for w ticks; total[t] is the sum of
\* the samples before t.
IsAverage(total, v, lo, w) == v[1] * w = v[2] * (total[lo + w] - total[lo])

Tiles(b, m, q) == {b + m * i : i \in 0..(q - 1)}

LEMMA Multiples ==
  ASSUME NEW m \in Nat \ {0}, NEW i \in Int, NEW j \in Int
  PROVE  /\ m * i \in Int /\ m * (i + 1) = m * i + m
         /\ i <= j => m * i <= m * j
         /\ i < j => m * i + m <= m * j
         /\ m * i = m * j => i = j
  <1>1. \A k, l \in Int : k <= l => m * k <= m * l
    <2> SUFFICES ASSUME NEW k \in Int, NEW l \in Int, k <= l PROVE m * k <= m * l
      OBVIOUS
    <2>1. k * m <= l * m
      BY ProductsInOrder
    <2> QED
      BY <2>1
  <1>2. m * i \in Int /\ m * j \in Int /\ m * (i + 1) = m * i + m /\ m * (j + 1) = m * j + m
    OBVIOUS
  <1>3. i < j => m * i + m <= m * j
    <2>1. i < j => i + 1 <= j /\ i + 1 \in Int
      OBVIOUS
    <2> QED
      BY <1>1, <1>2, <2>1
  <1>4. j < i => m * j + m <= m * i
    <2>1. j < i => j + 1 <= i /\ j + 1 \in Int
      OBVIOUS
    <2> QED
      BY <1>1, <1>2, <2>1
  <1>5. m * i = m * j => i = j
    BY <1>2, <1>3, <1>4
  <1> QED
    BY <1>1, <1>2, <1>3, <1>5

LEMMA TilesAre ==
  ASSUME NEW b \in Nat, NEW m \in Nat \ {0}, NEW q \in Nat
  PROVE  /\ Tiles(b, m, q) \subseteq b..(b + m * q - 1)
         /\ Cardinality(Tiles(b, m, q)) = q
         /\ \A i \in 0..(q - 1) : \A t \in Tiles(b, m, q) : b + m * i < t => b + m * (i + 1) <= t
  <1>1. ASSUME NEW i \in 0..(q - 1)
        PROVE  /\ b + m * i \in b..(b + m * q - 1)
    <2>1. 0 <= i /\ i < q /\ i \in Int /\ q \in Int /\ 0 \in Int
      OBVIOUS
    <2>2. m * i \in Int /\ m * q \in Int /\ m * 0 <= m * i /\ m * i + m <= m * q
      BY <2>1, Multiples
    <2> QED
      BY <2>2
  <1>2. Tiles(b, m, q) \subseteq b..(b + m * q - 1)
    BY <1>1 DEF Tiles
  <1>3. Cardinality(Tiles(b, m, q)) = q
    <2> DEFINE F == [i \in 1..q |-> b + m * (i - 1)]
    <2>1. \A i \in 1..q : i - 1 \in 0..(q - 1) /\ i - 1 \in Int
      OBVIOUS
    <2>2. \A i \in 0..(q - 1) : i + 1 \in 1..q /\ (i + 1) - 1 = i
      OBVIOUS
    <2>3. F \in [1..q -> Tiles(b, m, q)]
      BY <2>1 DEF Tiles
    <2>4. ASSUME NEW i \in 1..q, NEW j \in 1..q, F[i] = F[j] PROVE i = j
      <3>1. b + m * (i - 1) = b + m * (j - 1)
        BY <2>4
      <3>2. m * (i - 1) \in Int /\ m * (j - 1) \in Int
        BY <2>1, Multiples
      <3>3. m * (i - 1) = m * (j - 1)
        BY <3>1, <3>2
      <3>4. i - 1 = j - 1
        BY <2>1, <3>3, Multiples
      <3> QED
        BY <3>4
    <2>5. \A t \in Tiles(b, m, q) : \E i \in 1..q : F[i] = t
      <3>1. ASSUME NEW k \in 0..(q - 1) PROVE \E i \in 1..q : F[i] = b + m * k
        <4>1. k + 1 \in 1..q /\ (k + 1) - 1 = k
          BY <2>2
        <4>2. F[k + 1] = b + m * k
          BY <4>1
        <4> HIDE DEF F
        <4> QED
          BY <4>1, <4>2
      <3> HIDE DEF F
      <3> QED
        BY <3>1 DEF Tiles
    <2>6. F \in Bijection(1..q, Tiles(b, m, q))
      <3> HIDE DEF F
      <3> QED
        BY <2>3, <2>4, <2>5 DEF Bijection, Injection, Surjection, IsInjective
    <2>7. ExistsBijection(1..q, Tiles(b, m, q))
      BY <2>6 DEF ExistsBijection
    <2> QED
      BY <2>7, FS_CountingElements
  <1>4. ASSUME NEW i \in 0..(q - 1), NEW j \in 0..(q - 1), b + m * i < b + m * j
        PROVE  b + m * (i + 1) <= b + m * j
    <2>1. i \in Int /\ j \in Int /\ m * i \in Int /\ m * j \in Int /\ m * (i + 1) = m * i + m
      BY Multiples
    <2>2. i < j
      <3>1. j <= i => m * j <= m * i
        BY <2>1, Multiples
      <3> QED
        BY <1>4, <2>1, <3>1
    <2>3. m * i + m <= m * j
      BY <2>1, <2>2, Multiples
    <2> QED
      BY <2>1, <2>3
  <1> QED
    BY <1>2, <1>3, <1>4 DEF Tiles

LEMMA MeanOfTiles ==
  ASSUME NEW f, NEW b \in Nat, NEW m \in Nat \ {0}, NEW q \in Nat \ {0}, b + m * q <= Ends,
         NEW total, \A t \in 0..Ends : total[t] \in Nat,
         \A t \in Tiles(b, m, q) : f[t] \in Fractions /\ IsAverage(total, f[t], t, m)
  PROVE  /\ Mean(f, Tiles(b, m, q)) \in Fractions
         /\ IsAverage(total, Mean(f, Tiles(b, m, q)), b, m * q)
  <1> DEFINE T == Tiles(b, m, q)
             At(i) == b + m * i
  <1>1. /\ T \subseteq b..(b + m * q - 1) /\ Cardinality(T) = q
        /\ \A i \in 0..(q - 1) : \A t \in T : At(i) < t => At(i + 1) <= t
    BY TilesAre
  <1>2. PICK s : /\ Sums(f, T, s) /\ \A t \in 0..Ends : s[t] \in Fractions
                 /\ Mean(f, T) = <<s[Ends][1], s[Ends][2] * Cardinality(T)>>
    BY SumRuns
  <1>3. Ends \in Nat /\ 0 \in 0..Ends /\ Ends \in 0..Ends /\ m * q \in Nat /\ b \in 0..Ends
    <2>1. Ends \in Nat /\ m * q \in Nat
      BY RetentionAssumption DEF Ends
    <2> QED
      BY <2>1
  <1>4. ASSUME NEW i \in 0..q
        PROVE  At(i) \in 0..Ends /\ At(i) <= At(q) /\ total[At(i)] \in Nat /\ s[At(i)] \in Fractions
    <2>1. i \in Int /\ q \in Int /\ 0 \in Int /\ 0 <= i /\ i <= q
      OBVIOUS
    <2>2. m * i \in Int /\ m * 0 <= m * i /\ m * i <= m * q
      BY <2>1, Multiples
    <2>3. At(i) \in 0..Ends /\ At(i) <= At(q)
      BY <1>3, <2>2
    <2> QED
      BY <1>2, <2>3
  <1>5. /\ At(0) = b
        /\ \A i \in 0..(q - 1) : i \in 0..q /\ i + 1 \in 0..q /\ At(i + 1) = At(i) + m /\ At(i) \in T
    BY Multiples DEF Tiles
  <1> DEFINE N == {i \in Nat : i <= q => s[At(i)][1] * m = s[At(i)][2] * (total[At(i)] - total[b])}
  <1> HIDE DEF T, At
  <1>6. s[b] = <<0, 1>>
    <2>1. \A t \in T : ~ (0 <= t /\ t < b)
      BY <1>1
    <2>2. s[b] = s[0]
      BY <1>2, <1>3, <2>1, QuietSum
    <2> QED
      BY <1>2, <2>2 DEF Sums
  <1>7. 0 \in N
    BY <1>3, <1>5, <1>6
  <1>8. ASSUME NEW i \in Nat, i \in N PROVE i + 1 \in N
    <2> SUFFICES ASSUME i + 1 <= q
                 PROVE  s[At(i + 1)][1] * m = s[At(i + 1)][2] * (total[At(i + 1)] - total[b])
      OBVIOUS
    <2> DEFINE x == At(i)
               y == At(i + 1)
    <2>1. i \in 0..(q - 1) /\ i \in 0..q /\ i + 1 \in 0..q /\ i <= q
      OBVIOUS
    <2>2. /\ x \in 0..Ends /\ y \in 0..Ends /\ y = x + m /\ x \in T
          /\ total[x] \in Nat /\ total[y] \in Nat /\ total[b] \in Nat /\ s[x] \in Fractions
      BY <1>3, <1>4, <1>5, <2>1
    <2>3. \A t \in T : x < t => y <= t
      BY <1>1, <2>1
    <2>4. s[x][1] * m = s[x][2] * (total[x] - total[b])
      BY <1>8, <2>1
    <2> HIDE DEF x, y
    <2>5. x + 1 \in 1..Ends /\ x + 1 \in 0..Ends /\ (x + 1) - 1 = x /\ x + 1 <= y
      BY <1>3, <2>2
    <2>6. s[x + 1] = Plus(s[x], f[x])
      BY <1>2, <2>2, <2>5 DEF Sums
    <2>7. s[y] = s[x + 1]
      <3>1. \A t \in T : ~ (x + 1 <= t /\ t < y)
        <4>1. T \subseteq Nat
          BY <1>1
        <4> QED
          BY <2>2, <2>3, <4>1
      <3>2. Sums(f, T, s) /\ x + 1 \in 0..Ends /\ y \in 0..Ends /\ x + 1 <= y
        BY <1>2, <2>2, <2>5
      <3> QED
        BY <3>1, <3>2, QuietSum
    <2>8. f[x] \in Fractions /\ f[x][1] * m = f[x][2] * (total[y] - total[x])
      BY <2>2 DEF T, IsAverage
    <2>9. /\ s[y][1] = s[x][1] * f[x][2] + f[x][1] * s[x][2] /\ s[y][2] = s[x][2] * f[x][2]
          /\ s[x][1] \in Nat /\ s[x][2] \in Nat /\ f[x][1] \in Nat /\ f[x][2] \in Nat
      BY <2>2, <2>6, <2>7, <2>8, FractionsAdd
    <2> DEFINE s1 == s[x][1]
               s2 == s[x][2]
               f1 == f[x][1]
               f2 == f[x][2]
               dx == total[x] - total[b]
               dy == total[y] - total[x]
    <2>10. dx \in Int /\ dy \in Int /\ dx + dy = total[y] - total[b]
      BY <2>2
    <2>11. /\ s1 \in Nat /\ s2 \in Nat /\ f1 \in Nat /\ f2 \in Nat /\ m \in Nat
           /\ s1 * m = s2 * dx /\ f1 * m = f2 * dy
           /\ s[y][1] = s1 * f2 + f1 * s2 /\ s[y][2] = s2 * f2
      BY <2>4, <2>8, <2>9
    <2> HIDE DEF s1, s2, f1, f2, dx, dy
    <2>12. (s1 * f2 + f1 * s2) * m = (s2 * f2) * (dx + dy)
      <3>1. (s1 * f2 + f1 * s2) * m = (s1 * m) * f2 + (f1 * m) * s2
        BY <2>11
      <3>2. (s1 * m) * f2 = (s2 * dx) * f2 /\ (f1 * m) * s2 = (f2 * dy) * s2
        BY <2>11
      <3>3. (s2 * dx) * f2 + (f2 * dy) * s2 = (s2 * f2) * (dx + dy)
        BY <2>10, <2>11
      <3> QED
        BY <3>1, <3>2, <3>3
    <2>13. s[y][1] * m = s[y][2] * (total[y] - total[b])
      BY <2>10, <2>11, <2>12
    <2> QED
      BY <2>13 DEF y
  <1>9. Nat \subseteq N
    <2> HIDE DEF N
    <2> QED
      BY <1>7, <1>8, NumberInduction
  <1>10. s[At(q)][1] * m = s[At(q)][2] * (total[At(q)] - total[b])
    BY <1>9
  <1>11. s[Ends] = s[At(q)]
    <2>1. q \in 0..q
      OBVIOUS
    <2>2. At(q) \in 0..Ends /\ At(q) <= Ends
      BY <1>3, <1>4, <2>1
    <2>3. \A t \in T : ~ (At(q) <= t /\ t < Ends)
      BY <1>1, <1>3 DEF At
    <2> QED
      BY <1>2, <1>3, <2>2, <2>3, QuietSum
  <1>12. /\ s[Ends][1] \in Nat /\ s[Ends][2] \in Nat \ {0}
         /\ total[At(q)] \in Nat /\ total[b] \in Nat
    <2>1. Ends \in 0..Ends /\ b \in 0..Ends /\ At(q) \in 0..Ends
      <3>1. q \in 0..q
        OBVIOUS
      <3> QED
        BY <1>3, <1>4, <3>1
    <2>2. s[Ends] \in Fractions
      BY <1>2, <2>1
    <2> HIDE DEF At
    <2> QED
      BY <2>1, <2>2, FractionsAdd
  <1> DEFINE u == s[Ends][1]
             v == s[Ends][2]
             d == total[At(q)] - total[b]
  <1>13. u * m = v * d /\ u \in Nat /\ v \in Nat \ {0} /\ d \in Int /\ Mean(f, T) = <<u, v * q>>
    BY <1>1, <1>2, <1>10, <1>11, <1>12
  <1>14. d = total[b + m * q] - total[b]
    BY DEF At
  <1> HIDE DEF u, v, d
  <1>15. u * (m * q) = (v * q) * d /\ v * q \in Nat \ {0}
    <2>1. u * (m * q) = (u * m) * q /\ (v * q) * d = (v * d) * q
      BY <1>13
    <2> QED
      BY <1>13, <2>1
  <1>16. Mean(f, T) \in Fractions /\ Mean(f, T)[1] * (m * q) = Mean(f, T)[2] * d
    BY <1>13, <1>15 DEF Fractions
  <1> QED
    BY <1>14, <1>16 DEF T, IsAverage

\* The samples as they were taken have running totals.
LEMMA Totals ==
  ASSUME NEW f, \A t \in DOMAIN f : f[t][1] \in Nat
  PROVE  \E total : /\ \A t \in 0..Ends : total[t] \in Nat
                    /\ \A t \in DOMAIN f : t \in 0..MaxTime => total[t + 1] = total[t] + f[t][1]
  <1> DEFINE n == Ends
             S == [t \in 0..n |-> Nat]
             Longer(t, x) == IF t - 1 \in DOMAIN f THEN x + f[t - 1][1] ELSE x
             step == [t \in 1..n |-> [x \in Nat |-> Longer(t, x)]]
  <1>1. n \in Nat /\ \A t \in 1..n : t - 1 \in 0..n /\ t \in 0..n
    BY RetentionAssumption DEF Ends
  <1>2. 0 \in S[0]
    BY <1>1
  <1>3. ASSUME NEW t \in 1..n, NEW x \in S[t - 1] PROVE step[t][x] = Longer(t, x) /\ step[t][x] \in S[t]
    <2>1. x \in Nat /\ S[t] = Nat
      BY <1>1
    <2>2. Longer(t, x) \in Nat
      BY <2>1
    <2> QED
      BY <2>1, <2>2
  <1>4. PICK g : IsLoop(g, n, S, 0, step)
    <2>1. \A t \in 1..n : \A x \in S[t - 1] : step[t][x] \in S[t]
      BY <1>3
    <2>2. n \in Nat /\ 0 \in S[0]
      BY <1>1, <1>2
    <2> HIDE DEF n, S, step
    <2> QED
      BY <2>1, <2>2, LoopRuns
  <1>5. \A t \in 0..n : g[t] \in Nat
    BY <1>4 DEF IsLoop
  <1>6. \A t \in 1..n : g[t] = Longer(t, g[t - 1])
    <2>1. \A t \in 1..n : g[t] = step[t][g[t - 1]] /\ g[t - 1] \in S[t - 1]
      BY <1>1, <1>4 DEF IsLoop
    <2> QED
      BY <1>3, <2>1
  <1>7. ASSUME NEW t \in DOMAIN f, t \in 0..MaxTime PROVE g[t + 1] = g[t] + f[t][1]
    <2>1. t + 1 \in 1..n /\ (t + 1) - 1 = t
      BY <1>7, RetentionAssumption DEF Ends
    <2> QED
      BY <1>6, <2>1
  <1> QED
    BY <1>5, <1>7

\* Samples: one for each tick of a span.
Sampled(f, lo, hi) == \A t \in lo..hi : t \in DOMAIN f /\ f[t] \in Fractions /\ f[t][2] = 1

LEMMA MeanOfSpan ==
  ASSUME NEW f, NEW lo \in Nat, NEW w \in Nat \ {0}, lo + w <= Ends, Sampled(f, lo, lo + w - 1),
         NEW total, \A t \in 0..Ends : total[t] \in Nat,
         \A t \in DOMAIN f : t \in 0..MaxTime => total[t + 1] = total[t] + f[t][1]
  PROVE  Mean(f, lo..(lo + w - 1)) \in Fractions /\ IsAverage(total, Mean(f, lo..(lo + w - 1)), lo, w)
  <1>1. Tiles(lo, 1, w) = lo..(lo + w - 1)
    <2>1. \A t \in lo..(lo + w - 1) : t - lo \in 0..(w - 1) /\ lo + 1 * (t - lo) = t
      OBVIOUS
    <2>2. \A i \in 0..(w - 1) : lo + 1 * i \in lo..(lo + w - 1)
      OBVIOUS
    <2>3. lo..(lo + w - 1) \subseteq Tiles(lo, 1, w)
      BY <2>1 DEF Tiles
    <2>4. Tiles(lo, 1, w) \subseteq lo..(lo + w - 1)
      BY <2>2 DEF Tiles
    <2> QED
      BY <2>3, <2>4
  <1>2. ASSUME NEW t \in lo..(lo + w - 1) PROVE f[t] \in Fractions /\ IsAverage(total, f[t], t, 1)
    <2>1. t \in 0..MaxTime /\ t \in 0..Ends /\ t + 1 \in 0..Ends
      BY RetentionAssumption DEF Ends
    <2>2. f[t] \in Fractions /\ f[t][2] = 1 /\ total[t + 1] = total[t] + f[t][1]
      BY <2>1 DEF Sampled
    <2>3. f[t][1] \in Nat /\ total[t] \in Nat
      BY <2>1, <2>2, FractionsAdd
    <2>4. f[t][1] * 1 = 1 * ((total[t] + f[t][1]) - total[t])
      BY <2>3
    <2> QED
      BY <2>2, <2>4 DEF IsAverage
  <1>3. 1 \in Nat \ {0} /\ lo + 1 * w <= Ends /\ 1 * w = w
    BY RetentionAssumption DEF Ends
  <1>4. /\ Mean(f, Tiles(lo, 1, w)) \in Fractions
        /\ IsAverage(total, Mean(f, Tiles(lo, 1, w)), lo, 1 * w)
    <2>1. \A t \in Tiles(lo, 1, w) : f[t] \in Fractions /\ IsAverage(total, f[t], t, 1)
      BY <1>1, <1>2
    <2> QED
      BY <1>3, <2>1, MeanOfTiles
  <1> QED
    BY <1>1, <1>3, <1>4

LEMMA SameAverage ==
  ASSUME NEW total, NEW lo, NEW w \in Nat \ {0}, total[lo] \in Nat, total[lo + w] \in Nat,
         NEW p \in Fractions, NEW v \in Fractions, IsAverage(total, p, lo, w)
  PROVE  IsAverage(total, v, lo, w) <=> Same(v, p)
  <1> DEFINE d == total[lo + w] - total[lo]
             p1 == p[1]
             p2 == p[2]
             v1 == v[1]
             v2 == v[2]
  <1>1. d \in Int /\ p1 \in Nat /\ p2 \in Nat \ {0} /\ v1 \in Nat /\ v2 \in Nat \ {0} /\ p1 * w = p2 * d
    BY FractionsAdd DEF IsAverage
  <1> HIDE DEF d, p1, p2, v1, v2
  <1>2. ASSUME v1 * w = v2 * d PROVE v1 * p2 = p1 * v2
    <2>1. (v1 * p2) * w = (v2 * d) * p2
      <3>1. (v1 * p2) * w = (v1 * w) * p2
        BY <1>1
      <3> QED
        BY <1>2, <3>1
    <2>2. (p1 * v2) * w = (p2 * d) * v2
      <3>1. (p1 * v2) * w = (p1 * w) * v2
        BY <1>1
      <3> QED
        BY <1>1, <3>1
    <2>3. (v2 * d) * p2 = (p2 * d) * v2
      BY <1>1
    <2>4. v1 * p2 \in Int /\ p1 * v2 \in Int /\ w * (v1 * p2) = w * (p1 * v2)
      BY <1>1, <2>1, <2>2, <2>3
    <2> QED
      BY <2>4, Multiples
  <1>3. ASSUME v1 * p2 = p1 * v2 PROVE v1 * w = v2 * d
    <2>1. p2 * (v1 * w) = (v1 * p2) * w
      BY <1>1
    <2>2. (p1 * v2) * w = (p1 * w) * v2
      BY <1>1
    <2>3. (p2 * d) * v2 = p2 * (v2 * d)
      BY <1>1
    <2>4. v1 * w \in Int /\ v2 * d \in Int /\ p2 * (v1 * w) = p2 * (v2 * d)
      BY <1>1, <1>3, <2>1, <2>2, <2>3
    <2> QED
      BY <1>1, <2>4, Multiples
  <1>4. (IsAverage(total, v, lo, w) <=> v1 * w = v2 * d) /\ (Same(v, p) <=> v1 * p2 = p1 * v2)
    BY DEF IsAverage, Same, d, p1, p2, v1, v2
  <1> QED
    BY <1>2, <1>3, <1>4

LEMMA WithinSpan ==
  ASSUME NEW b \in Nat, NEW n \in Nat, NEW m \in Nat \ {0}, NEW k \in Nat, k + m <= n
  PROVE  b + k \in b..(b + n - 1) /\ (b + k) + m <= b + n
  OBVIOUS

\* Rows that are exact for neighbouring spans have an exact mean.
LEMMA MeanOfMeans ==
  ASSUME NEW f, NEW g, NEW b \in Nat, NEW m \in Nat \ {0}, NEW q \in Nat \ {0}, b + m * q <= Ends,
         Sampled(g, b, b + m * q - 1), \A t \in DOMAIN g : g[t][1] \in Nat,
         \A t \in Tiles(b, m, q) : f[t] \in Fractions /\ Same(f[t], Mean(g, t..(t + m - 1)))
  PROVE  /\ Mean(f, Tiles(b, m, q)) \in Fractions
         /\ Same(Mean(f, Tiles(b, m, q)), Mean(g, b..(b + m * q - 1)))
  <1> DEFINE n == m * q
  <1>1. n \in Nat \ {0} /\ b + n <= Ends /\ b \in 0..Ends /\ b + n \in 0..Ends /\ Ends \in Nat
    BY RetentionAssumption DEF Ends
  <1>2. PICK total : /\ \A t \in 0..Ends : total[t] \in Nat
                     /\ \A t \in DOMAIN g : t \in 0..MaxTime => total[t + 1] = total[t] + g[t][1]
    BY Totals
  <1> HIDE DEF n
  <1>3. ASSUME NEW t \in Tiles(b, m, q) PROVE IsAverage(total, f[t], t, m)
    <2>1. t \in b..(b + n - 1) /\ t + m <= b + n
      <3>1. PICK i \in 0..(q - 1) : t = b + m * i
        BY DEF Tiles
      <3>2. i \in Int /\ q \in Int /\ 0 \in Int /\ 0 <= i /\ i < q
        BY <3>1
      <3>3. m * i \in Int /\ m * 0 <= m * i /\ m * i + m <= m * q
        BY <3>2, Multiples
      <3>4. PICK k \in Nat : t = b + k /\ k + m <= n
        <4>1. m * i \in Nat
          BY <3>3
        <4>2. t = b + (m * i) /\ (m * i) + m <= n
          BY <3>1, <3>3 DEF n
        <4> QED
          BY <4>1, <4>2
      <3>5. b + k \in b..(b + n - 1) /\ (b + k) + m <= b + n
        BY <1>1, <3>4, WithinSpan
      <3> QED
        BY <3>4, <3>5
    <2>2. /\ t \in Nat /\ t + m <= Ends /\ t \in 0..Ends /\ t + m \in 0..Ends
      BY <1>1, <2>1
    <2>3. Sampled(g, t, t + m - 1)
      <3>1. \A u \in t..(t + m - 1) : u \in b..(b + n - 1)
        BY <1>1, <2>1
      <3> QED
        BY <3>1 DEF Sampled, n
    <2>4. /\ Mean(g, t..(t + m - 1)) \in Fractions
          /\ IsAverage(total, Mean(g, t..(t + m - 1)), t, m)
      BY <1>2, <2>2, <2>3, MeanOfSpan
    <2> QED
      BY <1>2, <2>2, <2>4, SameAverage
  <1>4. /\ Mean(f, Tiles(b, m, q)) \in Fractions
        /\ IsAverage(total, Mean(f, Tiles(b, m, q)), b, n)
    BY <1>2, <1>3, MeanOfTiles DEF n
  <1>5. Mean(g, b..(b + n - 1)) \in Fractions /\ IsAverage(total, Mean(g, b..(b + n - 1)), b, n)
    <2>1. Sampled(g, b, b + n - 1)
      BY DEF n
    <2> QED
      BY <1>1, <1>2, <2>1, MeanOfSpan
  <1>6. Same(Mean(f, Tiles(b, m, q)), Mean(g, b..(b + n - 1)))
    BY <1>1, <1>2, <1>4, <1>5, SameAverage
  <1> QED
    BY <1>4, <1>6 DEF n

\* A sample is its own mean.
LEMMA MeanOfOne ==
  ASSUME NEW g, NEW t \in 0..MaxTime, t \in DOMAIN g, g[t] \in Fractions, g[t][2] = 1,
         \A u \in DOMAIN g : g[u][1] \in Nat
  PROVE  Same(g[t], Mean(g, {t}))
  <1>1. PICK total : /\ \A u \in 0..Ends : total[u] \in Nat
                     /\ \A u \in DOMAIN g : u \in 0..MaxTime => total[u + 1] = total[u] + g[u][1]
    BY Totals
  <1>2. t \in Nat /\ t \in 0..Ends /\ t + 1 \in 0..Ends /\ t + 1 <= Ends
    BY RetentionAssumption DEF Ends
  <1>3. t..(t + 1 - 1) = {t} /\ 1 \in Nat \ {0}
    BY <1>2
  <1>4. Sampled(g, t, t + 1 - 1)
    BY <1>3 DEF Sampled
  <1>5. Mean(g, t..(t + 1 - 1)) \in Fractions /\ IsAverage(total, Mean(g, t..(t + 1 - 1)), t, 1)
    BY <1>1, <1>2, <1>3, <1>4, MeanOfSpan
  <1>6. IsAverage(total, g[t], t, 1)
    <2>1. total[t + 1] = total[t] + g[t][1] /\ total[t] \in Nat /\ g[t][1] \in Nat
      BY <1>1, <1>2
    <2>2. g[t][1] * 1 = 1 * ((total[t] + g[t][1]) - total[t])
      BY <2>1
    <2> QED
      BY <2>1, <2>2 DEF IsAverage
  <1>7. Same(g[t], Mean(g, t..(t + 1 - 1)))
    BY <1>1, <1>2, <1>3, <1>5, <1>6, SameAverage
  <1> QED
    BY <1>3, <1>7

\* A mean is of the rows it is of.
LEMMA MeanAgrees ==
  ASSUME NEW f, NEW g, NEW T, \A t \in T : f[t] \in Fractions /\ g[t] = f[t]
  PROVE  Mean(g, T) = Mean(f, T)
  <1>1. PICK r : Sums(f, T, r) /\ Mean(f, T) = <<r[Ends][1], r[Ends][2] * Cardinality(T)>>
    BY SumRuns
  <1>2. PICK s : Sums(g, T, s) /\ Mean(g, T) = <<s[Ends][1], s[Ends][2] * Cardinality(T)>>
    BY SumRuns
  <1>3. Ends \in Nat /\ Ends \in 0..Ends
    BY RetentionAssumption DEF Ends
  <1>4. \A t \in 1..Ends : r[t - 1] = s[t - 1] => r[t] = s[t]
    BY <1>1, <1>2 DEF Sums
  <1>5. r[0] = s[0]
    BY <1>1, <1>2 DEF Sums
  <1>6. SameRounds(r, s, Ends)
    BY <1>4, <1>5 DEF SameRounds
  <1>7. r[Ends] = s[Ends]
    BY <1>3, <1>6, SameLoop
  <1> QED
    BY <1>1, <1>2, <1>7

-----------------------------------------------------------------------------
(* One bucket of rows. *)

LEMMA WholeMultiples ==
  ASSUME NEW t \in Int, NEW m \in Nat \ {0}
  PROVE  /\ t % m = 0 <=> \E k \in Int : t = m * k
         /\ t % m = 0 <=> BucketOf(t, m) = t
  <1>1. t % m = 0 <=> BucketOf(t, m) = t
    BY BucketStart
  <1>2. t % m = 0 => \E k \in Int : t = m * k
    <2>1. t \div m \in Int /\ (t % m = 0 => t = m * (t \div m))
      OBVIOUS
    <2> QED
      BY <2>1
  <1>3. ASSUME NEW k \in Int PROVE BucketOf(m * k, m) = m * k
    <2>1. (m * k) \div m = k
      OBVIOUS
    <2> QED
      BY <2>1 DEF BucketOf
  <1> QED
    BY <1>1, <1>2, <1>3

\* Two starts of buckets are a bucket apart.
LEMMA NextBucket ==
  ASSUME NEW s \in Int, NEW t \in Int, NEW m \in Nat \ {0}, s % m = 0, t % m = 0, s < t
  PROVE  s + m <= t
  <1>1. PICK i \in Int : s = m * i
    BY WholeMultiples
  <1>2. PICK j \in Int : t = m * j
    BY WholeMultiples
  <1>3. i < j
    <2>1. j <= i => m * j <= m * i
      BY Multiples
    <2>2. m * i \in Int /\ m * j \in Int
      BY Multiples
    <2> QED
      BY <1>1, <1>2, <2>1, <2>2
  <1>4. m * i + m <= m * j
    BY <1>3, Multiples
  <1> QED
    BY <1>1, <1>2, <1>4

LEMMA TilesByRemainder ==
  ASSUME NEW b \in Nat, NEW m \in Nat \ {0}, NEW q \in Nat, b % m = 0
  PROVE  {t \in b..(b + m * q - 1) : t % m = 0} = Tiles(b, m, q)
  <1>1. PICK j \in Int : b = m * j
    <2>1. b \in Int
      OBVIOUS
    <2>2. \E j \in Int : b = m * j
      BY <2>1, WholeMultiples
    <2> QED
      BY <2>2
  <1>2. ASSUME NEW t \in b..(b + m * q - 1), t % m = 0 PROVE t \in Tiles(b, m, q)
    <2>1. t \in Int
      BY <1>2
    <2>2. PICK k \in Int : t = m * k
      BY <1>2, <2>1, WholeMultiples
    <2> DEFINE i == k - j
    <2>3. i \in Int /\ q \in Int /\ 0 \in Int /\ m * i = t - b
      <3>1. m * (k - j) = m * k - m * j
        OBVIOUS
      <3> QED
        BY <1>1, <2>2, <3>1
    <2> HIDE DEF i
    <2>4. 0 <= t - b /\ t - b < m * q /\ m * q \in Int
      BY <1>2
    <2>5. 0 <= i
      <3>1. i < 0 => m * i + m <= m * 0
        BY <2>3, Multiples
      <3>2. m * 0 = 0
        OBVIOUS
      <3> QED
        BY <2>1, <2>3, <2>4, <3>1, <3>2
    <2>6. i < q
      <3>1. q <= i => m * q <= m * i
        BY <2>3, Multiples
      <3> QED
        BY <2>1, <2>3, <2>4, <3>1
    <2>7. t = b + m * i /\ i \in 0..(q - 1)
      BY <2>1, <2>3, <2>5, <2>6
    <2> QED
      BY <2>7 DEF Tiles
  <1>3. ASSUME NEW t \in Tiles(b, m, q) PROVE t \in b..(b + m * q - 1) /\ t % m = 0
    <2>1. PICK i \in 0..(q - 1) : t = b + m * i
      BY DEF Tiles
    <2>2. t = m * (j + i) /\ j + i \in Int
      BY <1>1, <2>1
    <2>3. t \in b..(b + m * q - 1)
      BY TilesAre
    <2>4. t % m = 0
      <3>1. t \in Int /\ \E k \in Int : t = m * k
        BY <2>2, <2>3
      <3> QED
        BY <3>1, WholeMultiples
    <2> QED
      BY <2>3, <2>4
  <1> QED
    BY <1>2, <1>3

Spans(b, m, q) == UNION {t..(t + m - 1) : t \in Tiles(b, m, q)}

\* The spans of neighbouring tiles are one span.
LEMMA SpansOfTiles ==
  ASSUME NEW b \in Nat, NEW m \in Nat \ {0}, NEW q \in Nat
  PROVE  Spans(b, m, q) = b..(b + m * q - 1)
  <1>1. ASSUME NEW i \in 0..(q - 1), NEW u \in (b + m * i)..(b + m * i + m - 1) PROVE u \in b..(b + m * q - 1)
    <2>1. i \in Int /\ q \in Int /\ 0 \in Int /\ 0 <= i /\ i < q
      BY <1>1
    <2>2. m * i \in Int /\ m * q \in Int /\ m * 0 <= m * i /\ m * i + m <= m * q
      BY <2>1, Multiples
    <2> QED
      BY <2>2
  <1>2. ASSUME NEW u \in b..(b + m * q - 1)
        PROVE  \E i \in 0..(q - 1) : u \in (b + m * i)..(b + m * i + m - 1)
    <2> DEFINE d == u - b
               i == d \div m
    <2>1. d \in Nat /\ d < m * q /\ i \in Nat
      OBVIOUS
    <2>2. m * i <= d /\ d < m * i + m
      <3> HIDE DEF d
      <3> QED
        BY <2>1
    <2> HIDE DEF i
    <2>3. i < q
      <3>1. q <= i => m * q <= m * i
        BY <2>1, Multiples
      <3>2. m * q \in Int /\ m * i \in Int
        BY <2>1
      <3> QED
        BY <2>1, <2>2, <3>1, <3>2
    <2>4. i \in 0..(q - 1) /\ u \in (b + m * i)..(b + m * i + m - 1)
      BY <2>1, <2>2, <2>3
    <2> QED
      BY <2>4
  <1>3. \A u : u \in Spans(b, m, q) <=> \E i \in 0..(q - 1) : u \in (b + m * i)..(b + m * i + m - 1)
    BY DEF Spans, Tiles
  <1> QED
    BY <1>1, <1>2, <1>3

-----------------------------------------------------------------------------
(* While the pool runs steadily. *)

NextSample == IF lastSample = 0 THEN LongBucket ELSE lastSample + 1

\* Every tick was sampled, and a pass never came late.
SteadyClock ==
  /\ lastSample \in Nat /\ lastRetain \in LongBucket..now /\ now <= MaxTime
  /\ NextSample \in {now, now + 1} /\ now - lastRetain <= RetainInterval
  /\ recorded \in [LongBucket..(NextSample - 1) -> Rates \X {1}]
  /\ \A t \in DOMAIN samples : samples[t] \in Fractions

\* What a pass at a time leaves: hours before LongDone, minutes before MidDone, and none
\* before WindowAt.
WindowAt(at)   == AlignDown(at - LongAge, LongBucket)
LongDone(at) == AlignDown(at - MidAge, LongBucket)
MidDone(at)  == AlignDown(at - RawAge, MidBucket)

\* The time of the last pass that executed one of the statements before these.
PassAfter(steps) == IF pass.step \in steps THEN pass.at ELSE lastRetain

FoldedLong  == LongDone(PassAfter({"drop long", "fold mid", "drop mid", "expire"}))
DroppedLong == LongDone(PassAfter({"fold mid", "drop mid", "expire"}))
FoldedMid   == MidDone(PassAfter({"drop mid", "expire"}))
DroppedMid  == MidDone(PassAfter({"expire"}))
WindowStart == WindowAt(PassAfter({"drop long", "fold mid", "drop mid", "expire"}))

\* The times that have a row when those before long are hours and those before mid minutes,
\* and how many samples it stands for.
IsRow(t, long, mid) ==
  /\ LongBucket <= t /\ t < NextSample
  /\ t < long => t % LongBucket = 0
  /\ t < mid => t % MidBucket = 0
Width(t, long, mid) == IF t < long THEN LongBucket ELSE IF t < mid THEN MidBucket ELSE 1

RowsAre(from, long, mid) ==
  /\ \A t \in DOMAIN samples : t >= from => IsRow(t, long, mid)
  /\ \A t \in LongBucket..(NextSample - 1) : t >= from /\ IsRow(t, long, mid) => t \in DOMAIN samples

RowsAverage(from, long, mid) ==
  \A t \in DOMAIN samples : t >= from /\ IsRow(t, long, mid) =>
    /\ covers[t] = t..(t + Width(t, long, mid) - 1)
    /\ Same(samples[t], Mean(recorded, covers[t]))

SteadyRows ==
  /\ \A t \in DOMAIN samples : t >= WindowAt(lastRetain)
  /\ RowsAre(WindowStart, DroppedLong, DroppedMid)
  /\ RowsAverage(WindowStart, FoldedLong, FoldedMid)

SteadyInv == steady => SteadyClock /\ SteadyRows

\* Buckets of hours and minutes at the times of a pass and of the one before it: the range of
\* each statement begins no later than the last pass ended its own.
LEMMA PassTimes ==
  ASSUME RetentionInv, SteadyClock
  PROVE  /\ now \in Nat /\ lastRetain \in Nat /\ lastRetain <= now
         /\ \A at \in {now, lastRetain} :
              /\ WindowAt(at) \in Int /\ LongDone(at) \in Int /\ MidDone(at) \in Int
              /\ WindowAt(at) % LongBucket = 0 /\ LongDone(at) % LongBucket = 0 /\ LongDone(at) % MidBucket = 0
              /\ MidDone(at) % MidBucket = 0
              /\ WindowAt(at) <= at /\ LongDone(at) <= at /\ MidDone(at) <= at
         /\ WindowAt(lastRetain) <= WindowAt(now) /\ LongDone(lastRetain) <= LongDone(now)
         /\ MidDone(lastRetain) <= MidDone(now)
  <1> USE RetentionAssumption
  <1>1. now \in Nat /\ lastRetain \in Nat /\ lastRetain <= now
    BY DEF RetentionInv, RetentionTypes, SteadyClock
  <1>2. ASSUME NEW t \in Int, NEW b \in Nat \ {0}
        PROVE  AlignDown(t, b) \in Int /\ AlignDown(t, b) <= t /\ AlignDown(t, b) % b = 0
    <2>1. BucketOf(t, b) \in Int /\ BucketOf(BucketOf(t, b), b) = BucketOf(t, b)
      BY BucketStart
    <2>2. BucketOf(t, b) % b = 0
      BY <2>1, BucketStart
    <2> QED
      BY <2>1, <2>2, BucketStart
  <1>3. ASSUME NEW at \in {now, lastRetain}
        PROVE  /\ WindowAt(at) \in Int /\ LongDone(at) \in Int /\ MidDone(at) \in Int
               /\ WindowAt(at) % LongBucket = 0 /\ LongDone(at) % LongBucket = 0 /\ LongDone(at) % MidBucket = 0
               /\ MidDone(at) % MidBucket = 0
               /\ WindowAt(at) <= at /\ LongDone(at) <= at /\ MidDone(at) <= at
    <2>1. /\ at - LongAge \in Int /\ at - MidAge \in Int /\ at - RawAge \in Int
          /\ at - LongAge <= at /\ at - MidAge <= at /\ at - RawAge <= at /\ at \in Int
      BY <1>1
    <2>2. /\ WindowAt(at) \in Int /\ WindowAt(at) <= at - LongAge /\ WindowAt(at) % LongBucket = 0
          /\ LongDone(at) \in Int /\ LongDone(at) <= at - MidAge /\ LongDone(at) % LongBucket = 0
          /\ MidDone(at) \in Int /\ MidDone(at) <= at - RawAge /\ MidDone(at) % MidBucket = 0
      BY <1>2, <2>1 DEF WindowAt, LongDone, MidDone
    <2>3. LongDone(at) % MidBucket = 0
      <3>1. BucketOf(at - MidAge, LongBucket) \in Int
            /\ BucketOf(BucketOf(at - MidAge, LongBucket), MidBucket) = BucketOf(at - MidAge, LongBucket)
        BY <2>1, BucketStart, LongStartsAreMid
      <3>2. BucketOf(at - MidAge, LongBucket) % MidBucket = 0
        BY <3>1, BucketStart
      <3> QED
        BY <3>2 DEF LongDone, AlignDown, BucketOf
    <2> QED
      BY <2>1, <2>2, <2>3
  <1>4. /\ BucketOf(lastRetain - LongAge, LongBucket) <= BucketOf(now - LongAge, LongBucket)
        /\ BucketOf(lastRetain - MidAge, LongBucket) <= BucketOf(now - MidAge, LongBucket)
        /\ BucketOf(lastRetain - RawAge, MidBucket) <= BucketOf(now - RawAge, MidBucket)
    <2>1. ASSUME NEW oldness \in Nat, NEW b \in Nat \ {0}
          PROVE  BucketOf(lastRetain - oldness, b) <= BucketOf(now - oldness, b)
      <3>1. lastRetain - oldness \in Int /\ now - oldness \in Int /\ lastRetain - oldness <= now - oldness
        BY <1>1
      <3> QED
        BY <3>1, BucketsInOrder
    <2> QED
      BY <2>1
  <1> QED
    BY <1>1, <1>3, <1>4 DEF WindowAt, LongDone, MidDone, AlignDown, BucketOf

\* The ranges of a pass, in the same terms.  Minutes are complete up to where hours begin
\* because a pass comes more often than a row needs to age from one to the other.
LEMMA PassRanges ==
  ASSUME RetentionInv, SteadyClock, pass # Idle, RetainInterval <= MidAge - RawAge
  PROVE  /\ pass.at = now /\ pass.step \in Steps
         /\ LongStart = WindowAt(now) /\ LongEnd = LongDone(now) /\ MidEnd = MidDone(now)
         /\ MidStart \in Int /\ MidStart % MidBucket = 0
         /\ LongDone(now) <= MidStart /\ MidStart <= MidDone(lastRetain)
         /\ WindowAt(now) <= MidStart
  <1> USE RetentionAssumption
  <1>1. pass.at = now /\ pass.step \in Steps
    BY PassTypes
  <1>2. LongStart = WindowAt(now) /\ LongEnd = LongDone(now) /\ MidEnd = MidDone(now)
    BY <1>1 DEF LongStart, LongEnd, MidEnd, WindowAt, LongDone, MidDone
  <1>3. LongDone(now) <= MidStart /\ MidStart \in Int
    BY <1>2, PassTypes
  <1>4. MidStart % MidBucket = 0
    BY <1>3, PassTypes, BucketStart
  <1>5. now \in Nat /\ lastRetain \in Nat /\ now - lastRetain <= RetainInterval
    BY PassTimes DEF SteadyClock
  <1>6. MidStart <= MidDone(lastRetain)
    <2>1. now - MidAge \in Int /\ lastRetain - RawAge \in Int /\ now - MidAge <= lastRetain - RawAge
      BY <1>5
    <2>2. BucketOf(now - MidAge, MidBucket) <= BucketOf(lastRetain - RawAge, MidBucket)
      BY <2>1, BucketsInOrder
    <2> QED
      BY <1>1, <2>2 DEF MidStart, MidDone, AlignDown, BucketOf
  <1>7. WindowAt(now) <= LongDone(now)
    <2>1. now - LongAge \in Int /\ now - MidAge \in Int /\ now - LongAge <= now - MidAge
      BY <1>5
    <2>2. BucketOf(now - LongAge, LongBucket) <= BucketOf(now - MidAge, LongBucket)
      BY <2>1, BucketsInOrder
    <2> QED
      BY <2>2 DEF WindowAt, LongDone, AlignDown, BucketOf
  <1>8. WindowAt(now) \in Int /\ LongDone(now) \in Int
    BY PassTimes
  <1> QED
    BY <1>1, <1>2, <1>3, <1>4, <1>6, <1>7, <1>8

-----------------------------------------------------------------------------
(* Folding and dropping while the pool runs steadily. *)

\* The rows of a bucket are its tiles.
Tiled(b, bucket, long, mid) ==
  \E m \in Nat \ {0}, q \in Nat \ {0} :
    /\ m * q = bucket /\ b % m = 0
    /\ \A t \in b..(b + bucket - 1) :
         /\ IsRow(t, long, mid) <=> t % m = 0
         /\ IsRow(t, long, mid) => Width(t, long, mid) = m

LEMMA RatesAreFractions ==
  ASSUME Rates \subseteq Nat
  PROVE  \A v \in Rates \X {1} : v \in Fractions /\ v[2] = 1 /\ v[1] \in Nat
  <1>1. ASSUME NEW v \in Rates \X {1}
        PROVE  v = <<v[1], v[2]>> /\ v[1] \in Nat /\ v[2] = 1
    <2>1. v[1] \in Rates /\ v[2] \in {1} /\ v = <<v[1], v[2]>>
      OBVIOUS
    <2> QED
      BY <2>1
  <1>2. \A v \in Rates \X {1} : v \in Fractions
    <2>1. 1 \in Nat \ {0}
      OBVIOUS
    <2> QED
      BY <1>1, <2>1 DEF Fractions
  <1> QED
    BY <1>1, <1>2

\* What was sampled, while none is missed.
LEMMA RecordedAre ==
  ASSUME SteadyClock
  PROVE  /\ DOMAIN recorded = LongBucket..(NextSample - 1)
         /\ \A t \in DOMAIN recorded : recorded[t] \in Fractions /\ recorded[t][2] = 1 /\ recorded[t][1] \in Nat
  <1>1. recorded \in [LongBucket..(NextSample - 1) -> Rates \X {1}] /\ Rates \subseteq Nat
    BY RetentionAssumption DEF SteadyClock
  <1>2. \A v \in Rates \X {1} : v \in Fractions /\ v[2] = 1 /\ v[1] \in Nat
    BY <1>1, RatesAreFractions
  <1> QED
    BY <1>1, <1>2

RowsOf(b, bucket) == {t \in DOMAIN samples : b <= t /\ t < b + bucket}

\* One bucket: its mean is exact and covers it.
LEMMA BucketFolds ==
  ASSUME SteadyClock, NEW from \in Int, NEW long \in Int, NEW mid \in Int,
         RowsAre(from, long, mid), RowsAverage(from, long, mid),
         NEW bucket \in Nat \ {0}, NEW b \in Nat, from <= b, LongBucket <= b, b + bucket <= NextSample,
         b + bucket <= Ends, Tiled(b, bucket, long, mid),
         DOMAIN samples \subseteq Nat
  PROVE  /\ b \in RowsOf(b, bucket) /\ Mean(samples, RowsOf(b, bucket)) \in Fractions
         /\ UNION {covers[x] : x \in RowsOf(b, bucket)} = b..(b + bucket - 1)
         /\ Same(Mean(samples, RowsOf(b, bucket)), Mean(recorded, b..(b + bucket - 1)))
  <1> USE RetentionAssumption
  <1> DEFINE Of == RowsOf(b, bucket)
  <1>1. PICK m \in Nat \ {0}, q \in Nat \ {0} :
          /\ m * q = bucket /\ b % m = 0
          /\ \A t \in b..(b + bucket - 1) :
               /\ IsRow(t, long, mid) <=> t % m = 0
               /\ IsRow(t, long, mid) => Width(t, long, mid) = m
    BY DEF Tiled
  <1>2. NextSample \in Int /\ LongBucket \in Int
    BY DEF SteadyClock, NextSample
  <1>3. \A t \in b..(b + bucket - 1) : /\ t >= from /\ t \in LongBucket..(NextSample - 1) /\ t \in Nat
                                       /\ b <= t /\ t < b + bucket
    BY <1>2
  <1>4. \A t \in b..(b + bucket - 1) : t \in DOMAIN samples <=> t % m = 0
    BY <1>1, <1>3 DEF RowsAre
  <1>5. Of = {t \in b..(b + bucket - 1) : t % m = 0}
    BY <1>3, <1>4 DEF RowsOf
  <1> HIDE DEF Of
  <1>6. Of = Tiles(b, m, q)
    BY <1>1, <1>5, TilesByRemainder
  <1>7. ASSUME NEW t \in Of
        PROVE  covers[t] = t..(t + m - 1) /\ samples[t] \in Fractions /\ Same(samples[t], Mean(recorded, t..(t + m - 1)))
    <2>1. t \in b..(b + bucket - 1) /\ t % m = 0 /\ t \in DOMAIN samples /\ t >= from
      BY <1>3, <1>4, <1>5
    <2>2. IsRow(t, long, mid) /\ Width(t, long, mid) = m
      BY <1>1, <2>1
    <2> QED
      BY <2>1, <2>2 DEF RowsAverage, SteadyClock
  <1>8. Sampled(recorded, b, b + m * q - 1) /\ \A t \in DOMAIN recorded : recorded[t][1] \in Nat
    BY <1>1, <1>3, RecordedAre DEF Sampled
  <1>9. /\ Mean(samples, Tiles(b, m, q)) \in Fractions
        /\ Same(Mean(samples, Tiles(b, m, q)), Mean(recorded, b..(b + m * q - 1)))
    BY <1>1, <1>6, <1>7, <1>8, MeanOfMeans
  <1>10. UNION {covers[x] : x \in Of} = b..(b + bucket - 1)
    <2>1. UNION {covers[x] : x \in Of} = Spans(b, m, q)
      <3>1. {covers[x] : x \in Of} = {t..(t + m - 1) : t \in Tiles(b, m, q)}
        BY <1>6, <1>7
      <3> QED
        BY <3>1 DEF Spans
    <2>2. Spans(b, m, q) = b..(b + m * q - 1)
      BY SpansOfTiles
    <2> QED
      BY <1>1, <2>1, <2>2
  <1>11. b \in Of
    BY <1>1, <1>5
  <1> QED
    BY <1>1, <1>6, <1>9, <1>10, <1>11 DEF Of

\* The rows, and the range that is to be folded.
Foldable(from, long, mid, lo, hi, bucket) ==
  /\ from \in Int /\ long \in Int /\ mid \in Int /\ lo \in Int /\ hi \in Int /\ bucket \in {MidBucket, LongBucket}
  /\ RowsAre(from, long, mid) /\ RowsAverage(from, long, mid)
  /\ lo % bucket = 0 /\ hi % bucket = 0 /\ from <= lo /\ hi <= now
  /\ \A b \in Nat : lo <= b /\ b < hi /\ b % bucket = 0 /\ LongBucket <= b => Tiled(b, bucket, long, mid)

\* The first statement of downsample_range: every bucket of the range becomes the exact mean of
\* its samples, and the other rows stay.
LEMMA SteadyFold ==
  ASSUME RetentionInv, SteadyClock, NEW from, NEW long, NEW mid, NEW lo, NEW hi, NEW bucket,
         Foldable(from, long, mid, lo, hi, bucket), Fold(lo, hi, bucket)
  PROVE  /\ DOMAIN samples' = DOMAIN samples
         /\ \A t \in DOMAIN samples : samples'[t] \in Fractions
         /\ \A t \in DOMAIN samples : lo <= t /\ t < hi /\ t % bucket = 0 =>
              covers'[t] = t..(t + bucket - 1) /\ Same(samples'[t], Mean(recorded, covers'[t]))
         /\ \A t \in DOMAIN samples : ~ (lo <= t /\ t < hi /\ t % bucket = 0) =>
              covers'[t] = covers[t] /\ samples'[t] = samples[t]
  <1> USE RetentionAssumption
  <1> DEFINE starts == {BucketOf(t, bucket) : t \in Between(lo, hi)}
             Of(b)  == {t \in Between(lo, hi) : BucketOf(t, bucket) = b}
  <1>0. /\ from \in Int /\ long \in Int /\ mid \in Int /\ lo \in Int /\ hi \in Int /\ bucket \in {MidBucket, LongBucket}
        /\ RowsAre(from, long, mid) /\ RowsAverage(from, long, mid)
        /\ lo % bucket = 0 /\ hi % bucket = 0 /\ from <= lo /\ hi <= now
        /\ \A b \in Nat : lo <= b /\ b < hi /\ b % bucket = 0 /\ LongBucket <= b => Tiled(b, bucket, long, mid)
    BY DEF Foldable
  <1> USE <1>0
  <1>1. /\ bucket \in Nat \ {0} /\ DOMAIN samples \subseteq Nat /\ DOMAIN covers = DOMAIN samples
        /\ now \in Nat /\ now <= MaxTime /\ NextSample \in {now, now + 1} /\ LongBucket % bucket = 0
    <2>1. LongBucket % bucket = 0
      <3>1. LongBucket % LongBucket = 0
        OBVIOUS
      <3> QED
        BY <3>1
    <2>2. bucket \in Nat \ {0}
      OBVIOUS
    <2> QED
      BY <2>1, <2>2 DEF RetentionInv, RetentionTypes, SteadyClock
  <1>2. /\ DOMAIN samples' = DOMAIN samples \union starts
        /\ \A b \in starts : samples'[b] = Mean(samples, Of(b))
        /\ \A b \in starts : covers'[b] = UNION {covers[x] : x \in Of(b)}
        /\ \A t \in DOMAIN samples \ starts : samples'[t] = samples[t]
        /\ \A t \in DOMAIN samples \ starts : covers'[t] = covers[t]
    BY <1>1 DEF Fold
  <1>3. ASSUME NEW b \in starts
        PROVE  /\ b \in Nat /\ lo <= b /\ b + bucket <= hi /\ b < hi /\ b % bucket = 0 /\ LongBucket <= b
    <2>1. PICK t \in Between(lo, hi) : b = BucketOf(t, bucket)
      OBVIOUS
    <2>2. t \in DOMAIN samples /\ t \in Nat /\ lo <= t /\ t < hi
      BY <1>1, <2>1 DEF Between
    <2>3. b \in Nat /\ b <= t /\ BucketOf(b, bucket) = b
      BY <1>1, <2>1, <2>2, BucketStart
    <2>4. b % bucket = 0 /\ BucketOf(lo, bucket) = lo /\ BucketOf(LongBucket, bucket) = LongBucket
      BY <1>1, <2>3, BucketStart
    <2>5. IsRow(t, long, mid)
      BY <2>2, <1>1 DEF RowsAre
    <2>6. LongBucket <= t
      BY <2>5 DEF IsRow
    <2>7. lo <= b /\ LongBucket <= b
      BY <1>1, <2>1, <2>2, <2>4, <2>6, BucketsInOrder
    <2>8. b < hi
      BY <2>2, <2>3
    <2>9. b + bucket <= hi
      <3>1. b \in Int /\ hi \in Int /\ bucket \in Nat \ {0} /\ b % bucket = 0 /\ hi % bucket = 0 /\ b < hi
        BY <1>1, <2>3, <2>4, <2>8
      <3> QED
        BY <3>1, NextBucket
    <2> QED
      BY <2>3, <2>4, <2>7, <2>8, <2>9
  <1>4. ASSUME NEW b \in starts
        PROVE  Of(b) = {t \in DOMAIN samples : b <= t /\ t < b + bucket}
    <2>1. /\ b \in Nat /\ lo <= b /\ b + bucket <= hi /\ b % bucket = 0 /\ BucketOf(b, bucket) = b
      BY <1>1, <1>3, BucketStart
    <2>2. ASSUME NEW t \in Of(b) PROVE t \in DOMAIN samples /\ b <= t /\ t < b + bucket
      <3>1. t \in DOMAIN samples /\ t \in Nat /\ BucketOf(t, bucket) = b
        BY <1>1 DEF Between
      <3> QED
        BY <1>1, <3>1, BucketStart
    <2>3. ASSUME NEW t \in DOMAIN samples, b <= t, t < b + bucket PROVE t \in Of(b)
      <3>1. t \in Nat /\ lo <= t /\ t < hi
        BY <1>1, <2>1, <2>3
      <3>2. b <= BucketOf(t, bucket) /\ BucketOf(t, bucket) \in Int /\ BucketOf(t, bucket) <= t
            /\ BucketOf(t, bucket) % bucket = 0
        <4>1. BucketOf(b, bucket) <= BucketOf(t, bucket)
          BY <1>1, <2>1, <2>3, <3>1, BucketsInOrder
        <4>2. BucketOf(t, bucket) \in Int /\ BucketOf(t, bucket) <= t
              /\ BucketOf(BucketOf(t, bucket), bucket) = BucketOf(t, bucket)
          <5>1. t \in Int /\ bucket \in Nat \ {0}
            BY <1>1, <3>1
          <5> QED
            BY <5>1, BucketStart
        <4>3. BucketOf(t, bucket) % bucket = 0
          BY <1>1, <4>2, BucketStart
        <4> QED
          BY <2>1, <4>1, <4>2, <4>3
      <3>3. b < BucketOf(t, bucket) => b + bucket <= BucketOf(t, bucket)
        BY <1>1, <2>1, <3>2, NextBucket
      <3>4. BucketOf(t, bucket) = b
        BY <1>1, <2>1, <2>3, <3>1, <3>2, <3>3
      <3> QED
        BY <3>1, <3>4 DEF Between
    <2> QED
      BY <2>2, <2>3
  <1>5. ASSUME NEW b \in starts
        PROVE  /\ b \in DOMAIN samples /\ samples'[b] \in Fractions
               /\ covers'[b] = b..(b + bucket - 1) /\ Same(samples'[b], Mean(recorded, covers'[b]))
    <2>1. b \in Nat /\ lo <= b /\ b + bucket <= hi /\ b < hi /\ b % bucket = 0 /\ LongBucket <= b
      BY <1>3
    <2>2. from <= b /\ b + bucket <= NextSample /\ b + bucket <= Ends
      BY <1>1, <2>1 DEF Ends
    <2>3. Tiled(b, bucket, long, mid)
      BY <2>1
    <2> DEFINE O == RowsOf(b, bucket)
    <2>4. O = Of(b)
      BY <1>4 DEF RowsOf
    <2>5. samples'[b] = Mean(samples, O) /\ covers'[b] = UNION {covers[x] : x \in O}
      BY <1>2, <2>4
    <2>6. /\ b \in O /\ Mean(samples, O) \in Fractions
          /\ UNION {covers[x] : x \in O} = b..(b + bucket - 1)
          /\ Same(Mean(samples, O), Mean(recorded, b..(b + bucket - 1)))
      BY <1>1, <2>1, <2>2, <2>3, BucketFolds
    <2>7. b \in DOMAIN samples
      BY <2>6 DEF RowsOf
    <2> HIDE DEF O
    <2> QED
      BY <2>5, <2>6, <2>7
  <1>6. \A t \in DOMAIN samples : t \in starts <=> lo <= t /\ t < hi /\ t % bucket = 0
    <2>1. ASSUME NEW t \in DOMAIN samples, lo <= t, t < hi, t % bucket = 0 PROVE t \in starts
      <3>1. t \in Between(lo, hi) /\ BucketOf(t, bucket) = t
        BY <1>1, <2>1, BucketStart DEF Between
      <3> QED
        BY <3>1
    <2> QED
      BY <1>3, <2>1
  <1> HIDE DEF starts, Of
  <1>7. \A t \in DOMAIN samples : samples'[t] \in Fractions
    BY <1>2, <1>5 DEF SteadyClock
  <1> QED
    BY <1>2, <1>5, <1>6, <1>7

LEMMA HoursAreMinutes == ASSUME NEW t \in Int, t % LongBucket = 0 PROVE t % MidBucket = 0
  <1> USE RetentionAssumption
  <1>1. BucketOf(t, LongBucket) = t
    BY BucketStart
  <1>2. BucketOf(t, MidBucket) = t
    BY <1>1, LongStartsAreMid
  <1> QED
    BY <1>2, BucketStart

\* An hour to fold is one row already, or minutes.
LEMMA HoursTiled ==
  ASSUME RetentionInv, SteadyClock, pass # Idle, RetainInterval <= MidAge - RawAge, NEW b \in Nat,
         LongStart <= b, b < LongEnd, b % LongBucket = 0, LongBucket <= b
  PROVE  Tiled(b, LongBucket, LongDone(lastRetain), MidDone(lastRetain))
  <1> USE RetentionAssumption
  <1> DEFINE long == LongDone(lastRetain)
             mid  == MidDone(lastRetain)
  <1>1. /\ LongEnd = LongDone(now) /\ LongDone(now) % LongBucket = 0 /\ LongDone(now) \in Int
        /\ LongDone(now) <= now /\ now \in Nat /\ NextSample \in {now, now + 1}
    BY PassRanges, PassTimes DEF SteadyClock
  <1>2. long \in Int /\ mid \in Int /\ long % LongBucket = 0 /\ LongDone(now) <= mid
    <2>1. MidStart \in Int /\ LongDone(now) <= MidStart /\ MidStart <= mid
      BY PassRanges
    <2> QED
      BY <1>1, <2>1, PassTimes
  <1>3. b \in Int /\ b % MidBucket = 0 /\ b + LongBucket <= LongDone(now)
    <2>1. b \in Int /\ b < LongDone(now)
      BY <1>1
    <2> QED
      BY <1>1, <2>1, HoursAreMinutes, NextBucket
  <1> HIDE DEF long, mid
  <1>4. ASSUME NEW t \in b..(b + LongBucket - 1)
        PROVE  t \in Int /\ LongBucket <= t /\ t < NextSample /\ t < mid /\ b <= t /\ t < b + LongBucket
    BY <1>1, <1>2, <1>3
  <1>5. CASE b < long
    <2>1. b + LongBucket <= long
      BY <1>2, <1>3, <1>5, NextBucket
    <2>2. ASSUME NEW t \in b..(b + LongBucket - 1)
          PROVE  /\ IsRow(t, long, mid) <=> t % LongBucket = 0
                 /\ IsRow(t, long, mid) => Width(t, long, mid) = LongBucket
      <3>1. t < long
        BY <1>2, <1>4, <2>1
      <3>2. t % LongBucket = 0 => t % MidBucket = 0
        BY <1>4, HoursAreMinutes
      <3> QED
        BY <1>4, <3>1, <3>2 DEF IsRow, Width
    <2>3. LongBucket \in Nat \ {0} /\ 1 \in Nat \ {0} /\ LongBucket * 1 = LongBucket
      OBVIOUS
    <2>4. Tiled(b, LongBucket, long, mid)
      BY <2>2, <2>3 DEF Tiled
    <2> QED
      BY <2>4 DEF long, mid
  <1>6. CASE ~ (b < long)
    <2> DEFINE q == LongBucket \div MidBucket
    <2>1. q \in Nat \ {0} /\ MidBucket * q = LongBucket
      <3>1. q \in Nat /\ LongBucket = MidBucket * q + (LongBucket % MidBucket)
        OBVIOUS
      <3>2. MidBucket * q = LongBucket /\ q # 0
        BY <3>1
      <3> QED
        BY <3>1, <3>2
    <2> HIDE DEF q
    <2>2. ASSUME NEW t \in b..(b + LongBucket - 1)
          PROVE  /\ IsRow(t, long, mid) <=> t % MidBucket = 0
                 /\ IsRow(t, long, mid) => Width(t, long, mid) = MidBucket
      <3>1. ~ (t < long)
        BY <1>2, <1>4, <1>6
      <3> QED
        BY <1>4, <3>1 DEF IsRow, Width
    <2>3. Tiled(b, LongBucket, long, mid)
      BY <1>3, <2>1, <2>2 DEF Tiled
    <2> QED
      BY <2>3 DEF long, mid
  <1> QED
    BY <1>5, <1>6

\* A minute to fold is one row already, or samples.
LEMMA MinutesTiled ==
  ASSUME RetentionInv, SteadyClock, pass # Idle, RetainInterval <= MidAge - RawAge, NEW b \in Nat,
         MidStart <= b, b < MidEnd, b % MidBucket = 0, LongBucket <= b
  PROVE  Tiled(b, MidBucket, LongDone(now), MidDone(lastRetain))
  <1> USE RetentionAssumption
  <1> DEFINE long == LongDone(now)
             mid  == MidDone(lastRetain)
  <1>1. /\ MidEnd = MidDone(now) /\ MidDone(now) % MidBucket = 0 /\ MidDone(now) \in Int
        /\ MidDone(now) <= now /\ now \in Nat /\ NextSample \in {now, now + 1}
    BY PassRanges, PassTimes DEF SteadyClock
  <1>2. long \in Int /\ mid \in Int /\ mid % MidBucket = 0 /\ long <= b
    <2>1. MidStart \in Int /\ long <= MidStart
      BY PassRanges
    <2> QED
      BY <1>1, <2>1, PassTimes
  <1>3. b \in Int /\ b + MidBucket <= MidDone(now)
    <2>1. b \in Int /\ b < MidDone(now)
      BY <1>1
    <2> QED
      BY <1>1, <2>1, NextBucket
  <1> HIDE DEF long, mid
  <1>4. ASSUME NEW t \in b..(b + MidBucket - 1)
        PROVE  t \in Int /\ LongBucket <= t /\ t < NextSample /\ ~ (t < long) /\ b <= t /\ t < b + MidBucket
    BY <1>1, <1>2, <1>3
  <1>5. CASE b < mid
    <2>1. b + MidBucket <= mid
      BY <1>2, <1>3, <1>5, NextBucket
    <2>2. ASSUME NEW t \in b..(b + MidBucket - 1)
          PROVE  /\ IsRow(t, long, mid) <=> t % MidBucket = 0
                 /\ IsRow(t, long, mid) => Width(t, long, mid) = MidBucket
      <3>1. t < mid
        BY <1>2, <1>4, <2>1
      <3> QED
        BY <1>4, <3>1 DEF IsRow, Width
    <2>3. MidBucket \in Nat \ {0} /\ 1 \in Nat \ {0} /\ MidBucket * 1 = MidBucket
      OBVIOUS
    <2>4. Tiled(b, MidBucket, long, mid)
      BY <2>2, <2>3 DEF Tiled
    <2> QED
      BY <2>4 DEF long, mid
  <1>6. CASE ~ (b < mid)
    <2>1. ASSUME NEW t \in b..(b + MidBucket - 1)
          PROVE  /\ IsRow(t, long, mid) <=> t % 1 = 0
                 /\ IsRow(t, long, mid) => Width(t, long, mid) = 1
      <3>1. ~ (t < mid)
        BY <1>2, <1>4, <1>6
      <3>2. t % 1 = 0
        BY <1>4
      <3> QED
        BY <1>4, <3>1, <3>2 DEF IsRow, Width
    <2>2. MidBucket \in Nat \ {0} /\ 1 \in Nat \ {0} /\ 1 * MidBucket = MidBucket /\ b % 1 = 0
      OBVIOUS
    <2>3. Tiled(b, MidBucket, long, mid)
      BY <2>1, <2>2 DEF Tiled
    <2> QED
      BY <2>3 DEF long, mid
  <1> QED
    BY <1>5, <1>6

\* The rows, and the range of which the starts are to be left.
Droppable(from, long, mid, longer, later, lo, hi, bucket) ==
  /\ from \in Int /\ long \in Int /\ mid \in Int /\ longer \in Int /\ later \in Int
  /\ lo \in Int /\ hi \in Int /\ bucket \in {MidBucket, LongBucket}
  /\ RowsAre(from, long, mid)
  /\ \A t \in Nat : t >= from =>
       (IsRow(t, longer, later) <=> IsRow(t, long, mid) /\ (lo <= t /\ t < hi => t % bucket = 0))

\* Its second statement: the rows that are left are those that hours and minutes have now.
LEMMA SteadyDrop ==
  ASSUME SteadyClock, RetentionInv, NEW from, NEW long, NEW mid, NEW longer, NEW later,
         NEW lo, NEW hi, NEW bucket, Droppable(from, long, mid, longer, later, lo, hi, bucket),
         Drop(lo, hi, bucket)
  PROVE  /\ DOMAIN samples' \subseteq DOMAIN samples
         /\ \A t \in DOMAIN samples' : samples'[t] = samples[t] /\ covers'[t] = covers[t]
         /\ \A t \in DOMAIN samples' : t >= from => IsRow(t, longer, later)
         /\ \A t \in LongBucket..(NextSample - 1) : t >= from /\ IsRow(t, longer, later) => t \in DOMAIN samples'
  <1> USE RetentionAssumption
  <1>0. /\ from \in Int /\ long \in Int /\ mid \in Int /\ longer \in Int /\ later \in Int
        /\ lo \in Int /\ hi \in Int /\ bucket \in Nat \ {0}
        /\ RowsAre(from, long, mid)
        /\ \A t \in Nat : t >= from =>
             (IsRow(t, longer, later) <=> IsRow(t, long, mid) /\ (lo <= t /\ t < hi => t % bucket = 0))
    BY DEF Droppable
  <1> USE <1>0
  <1>1. DOMAIN samples \subseteq Nat /\ NextSample \in Int
    BY DEF RetentionInv, RetentionTypes, SteadyClock, NextSample
  <1>2. /\ DOMAIN samples' = {t \in DOMAIN samples : t \in Between(lo, hi) => BucketOf(t, bucket) = t}
        /\ \A t \in DOMAIN samples' : samples'[t] = samples[t] /\ covers'[t] = covers[t]
    BY DEF Drop, Keep
  <1>3. \A t \in DOMAIN samples : BucketOf(t, bucket) = t <=> t % bucket = 0
    <2>1. \A t \in Nat : BucketOf(t, bucket) = t <=> t % bucket = 0
      <3>1. \A t \in Nat : t \in Int
        OBVIOUS
      <3> QED
        BY <3>1, BucketStart
    <2> QED
      BY <1>1, <2>1
  <1>4. \A t \in DOMAIN samples : t \in DOMAIN samples' <=> (lo <= t /\ t < hi => t % bucket = 0)
    BY <1>2, <1>3 DEF Between
  <1>5. \A t \in DOMAIN samples' : t >= from => IsRow(t, longer, later)
    BY <1>1, <1>2, <1>4 DEF RowsAre
  <1>6. \A t \in LongBucket..(NextSample - 1) : t >= from /\ IsRow(t, longer, later) => t \in DOMAIN samples'
    BY <1>1, <1>4 DEF RowsAre
  <1> QED
    BY <1>2, <1>5, <1>6

-----------------------------------------------------------------------------
(* The steps. *)

\* The rows of the next state, told from where the statements have come to in it.
RowsAfter(from, longer, later, long, mid) ==
  /\ WindowStart' = from /\ DroppedLong' = longer /\ DroppedMid' = later
  /\ FoldedLong' = long /\ FoldedMid' = mid
  /\ UNCHANGED <<recorded, lastSample>>
  /\ \A t \in DOMAIN samples' : t >= WindowAt(lastRetain')
  /\ \A t \in DOMAIN samples' : t >= from => IsRow(t, longer, later)
  /\ \A t \in LongBucket..(NextSample - 1) : t >= from /\ IsRow(t, longer, later) => t \in DOMAIN samples'
  /\ \A t \in DOMAIN samples' : t >= from /\ IsRow(t, long, mid) =>
       covers'[t] = t..(t + Width(t, long, mid) - 1) /\ Same(samples'[t], Mean(recorded, covers'[t]))

LEMMA SteadyAgain ==
  ASSUME NEW from, NEW longer, NEW later, NEW long, NEW mid, RowsAfter(from, longer, later, long, mid)
  PROVE  SteadyRows'
  <1>1. NextSample' = NextSample
    BY DEF RowsAfter, NextSample
  <1>2. (\A t \in DOMAIN samples : t >= WindowAt(lastRetain))'
    BY DEF RowsAfter, WindowAt, AlignDown
  <1>3. RowsAre(WindowStart, DroppedLong, DroppedMid)'
    BY <1>1 DEF RowsAfter, RowsAre, IsRow
  <1>4. RowsAverage(WindowStart, FoldedLong, FoldedMid)'
    BY <1>1 DEF RowsAfter, RowsAverage, IsRow, Width
  <1> QED
    BY <1>2, <1>3, <1>4 DEF SteadyRows

\* Where the statements have come to.
LEMMA Progress ==
  /\ pass.step \notin {"drop long", "fold mid", "drop mid", "expire"} =>
       /\ WindowStart = WindowAt(lastRetain)
       /\ FoldedLong = LongDone(lastRetain) /\ DroppedLong = LongDone(lastRetain)
       /\ FoldedMid = MidDone(lastRetain) /\ DroppedMid = MidDone(lastRetain)
  /\ pass.step \in {"drop long", "fold mid", "drop mid", "expire"} => WindowStart = WindowAt(pass.at)
  /\ pass.step = "drop long" =>
       /\ FoldedLong = LongDone(pass.at) /\ DroppedLong = LongDone(lastRetain)
       /\ FoldedMid = MidDone(lastRetain) /\ DroppedMid = MidDone(lastRetain)
  /\ pass.step = "fold mid" =>
       /\ FoldedLong = LongDone(pass.at) /\ DroppedLong = LongDone(pass.at)
       /\ FoldedMid = MidDone(lastRetain) /\ DroppedMid = MidDone(lastRetain)
  /\ pass.step = "drop mid" =>
       /\ FoldedLong = LongDone(pass.at) /\ DroppedLong = LongDone(pass.at)
       /\ FoldedMid = MidDone(pass.at) /\ DroppedMid = MidDone(lastRetain)
  /\ pass.step = "expire" =>
       /\ FoldedLong = LongDone(pass.at) /\ DroppedLong = LongDone(pass.at)
       /\ FoldedMid = MidDone(pass.at) /\ DroppedMid = MidDone(pass.at)
  BY DEF WindowStart, FoldedLong, DroppedLong, FoldedMid, DroppedMid, PassAfter

LEMMA InitSteady == RetentionInit => SteadyInv
  <1> SUFFICES ASSUME RetentionInit PROVE SteadyInv
    OBVIOUS
  <1> USE RetentionAssumption
  <1>1. /\ now = LongBucket /\ lastSample = 0 /\ lastRetain = LongBucket /\ samples = <<>> /\ recorded = <<>>
        /\ NextSample = LongBucket
    BY DEF RetentionInit, NextSample
  <1>2. DOMAIN samples = {} /\ \A t : t \notin LongBucket..(NextSample - 1)
    BY <1>1
  <1>3. recorded \in [LongBucket..(NextSample - 1) -> Rates \X {1}]
    <2>1. LongBucket..(NextSample - 1) = {} /\ DOMAIN recorded = {} /\ recorded = [t \in {} |-> 0]
      BY <1>1, <1>2
    <2> QED
      BY <2>1
  <1>4. SteadyClock
    BY <1>1, <1>2, <1>3 DEF SteadyClock
  <1>5. SteadyRows
    BY <1>2 DEF SteadyRows, RowsAre, RowsAverage
  <1> QED
    BY <1>4, <1>5 DEF SteadyInv

\* The sample of a tick is a row of its own, and the averages so far are not of it.
LEMMA SampleSteady ==
  ASSUME RetentionInv, steady, SteadyClock, SteadyRows, Sample
  PROVE  SteadyClock' /\ SteadyRows'
  <1> USE RetentionAssumption
  <1> DEFINE from == WindowAt(lastRetain)
             long == LongDone(lastRetain)
             mid  == MidDone(lastRetain)
  <1>1. /\ pass = Idle /\ now > lastSample /\ lastSample' = now /\ UNCHANGED <<now, pass, lastRetain>>
        /\ covers' = Write(covers, now, {now})
    BY DEF Sample
  <1>2. PICK rate \in Rates : samples' = Write(samples, now, <<rate, 1>>) /\ recorded' = Write(recorded, now, <<rate, 1>>)
    BY DEF Sample, RatesNow
  <1>3. /\ now \in Nat /\ lastRetain \in Nat /\ lastRetain <= now /\ LongBucket <= lastRetain /\ now <= MaxTime
        /\ from \in Int /\ long \in Int /\ mid \in Int /\ from <= now /\ long <= now /\ mid <= now
    <2>1. /\ now \in Nat /\ lastRetain \in Nat /\ lastRetain <= now /\ LongBucket <= lastRetain /\ now <= MaxTime
      BY PassTimes DEF SteadyClock
    <2>2. /\ from \in Int /\ long \in Int /\ mid \in Int
          /\ from <= lastRetain /\ long <= lastRetain /\ mid <= lastRetain
      BY PassTimes
    <2> QED
      BY <2>1, <2>2
  <1>4. NextSample = now /\ NextSample' = now + 1
    <2>1. lastSample \in Nat /\ NextSample \in {now, now + 1}
      BY DEF SteadyClock
    <2> QED
      BY <1>1, <1>3, <2>1 DEF NextSample
  <1>5. /\ DOMAIN samples \subseteq Nat /\ DOMAIN covers = DOMAIN samples
        /\ DOMAIN samples' = DOMAIN samples \union {now} /\ samples'[now] = <<rate, 1>>
        /\ \A t \in DOMAIN samples \ {now} : samples'[t] = samples[t] /\ covers'[t] = covers[t]
        /\ covers'[now] = {now}
    BY <1>1, <1>2 DEF RetentionInv, RetentionTypes, Write
  <1>6. /\ WindowStart = from /\ FoldedLong = long /\ DroppedLong = long /\ FoldedMid = mid /\ DroppedMid = mid
        /\ WindowStart' = from /\ FoldedLong' = long /\ DroppedLong' = long /\ FoldedMid' = mid /\ DroppedMid' = mid
    <2>1. pass.step \notin {"drop long", "fold mid", "drop mid", "expire"}
      BY <1>1 DEF Idle
    <2>2. /\ WindowStart = from /\ FoldedLong = long /\ DroppedLong = long /\ FoldedMid = mid /\ DroppedMid = mid
      BY <2>1, Progress
    <2>3. UNCHANGED <<WindowStart, FoldedLong, DroppedLong, FoldedMid, DroppedMid>>
      BY <1>1 DEF WindowStart, FoldedLong, DroppedLong, FoldedMid, DroppedMid, PassAfter
    <2> QED
      BY <2>2, <2>3
  <1>7. \A t \in DOMAIN samples : t >= from /\ IsRow(t, long, mid) /\ t < now
    BY <1>4, <1>6 DEF SteadyRows, RowsAre, IsRow
  <1>8. /\ \A t \in LongBucket..(NextSample - 1) : t >= from /\ IsRow(t, long, mid) => t \in DOMAIN samples
        /\ \A t \in DOMAIN samples : /\ covers[t] = t..(t + Width(t, long, mid) - 1)
                                     /\ Same(samples[t], Mean(recorded, covers[t]))
    BY <1>6, <1>7 DEF SteadyRows, RowsAre, RowsAverage
  <1>9. /\ DOMAIN recorded = LongBucket..(now - 1)
        /\ \A t \in DOMAIN recorded : recorded[t] \in Fractions /\ recorded[t][1] \in Nat
    BY <1>4, RecordedAre
  <1>10. <<rate, 1>> \in Rates \X {1} /\ <<rate, 1>> \in Fractions
    <2>1. <<rate, 1>> \in Rates \X {1}
      OBVIOUS
    <2> QED
      BY <2>1, RatesAreFractions
  <1>11. /\ recorded' \in [LongBucket..now -> Rates \X {1}] /\ DOMAIN recorded' = LongBucket..now
         /\ recorded'[now] = <<rate, 1>>
         /\ \A t \in DOMAIN recorded : t # now /\ t \in DOMAIN recorded' /\ recorded'[t] = recorded[t]
    <2>1. recorded \in [LongBucket..(now - 1) -> Rates \X {1}]
      BY <1>4 DEF SteadyClock
    <2>2. LongBucket..now = LongBucket..(now - 1) \union {now} /\ now \notin LongBucket..(now - 1)
      BY <1>3
    <2> QED
      BY <1>2, <1>10, <2>1, <2>2 DEF Write
  <1> HIDE DEF from, long, mid
  <1>12. SteadyClock'
    <2>1. \A t \in DOMAIN samples' : samples'[t] \in Fractions
      BY <1>5, <1>10 DEF SteadyClock
    <2>2. NextSample' - 1 = now /\ lastSample' \in Nat /\ NextSample' \in {now', now' + 1}
      BY <1>1, <1>3, <1>4
    <2> QED
      BY <1>1, <1>11, <2>1, <2>2 DEF SteadyClock
  <1> DEFINE Row(t) == /\ LongBucket <= t /\ t < now + 1
                       /\ t < long => t % LongBucket = 0
                       /\ t < mid => t % MidBucket = 0
  <1>13. ASSUME NEW t \in Nat, t # now PROVE Row(t) <=> IsRow(t, long, mid)
    BY <1>3, <1>4, <1>13 DEF IsRow
  <1>14. Row(now) /\ Width(now, long, mid) = 1
    BY <1>3 DEF Width
  <1>15. \A t : Row(t) <=> IsRow(t, DroppedLong, DroppedMid)'
    BY <1>4, <1>6 DEF IsRow
  <1>16. \A t : Row(t) <=> IsRow(t, FoldedLong, FoldedMid)'
    BY <1>4, <1>6 DEF IsRow
  <1> HIDE DEF Row
  <1>17. RowsAre(WindowStart, DroppedLong, DroppedMid)'
    <2>1. \A t \in DOMAIN samples' : Row(t)
      BY <1>5, <1>7, <1>13, <1>14
    <2>2. ASSUME NEW t \in LongBucket..(NextSample' - 1), t >= from, Row(t) PROVE t \in DOMAIN samples'
      <3>1. CASE t = now
        BY <1>5, <3>1
      <3>2. CASE t # now
        <4>1. t \in Nat /\ t \in LongBucket..(NextSample - 1)
          BY <1>3, <1>4, <2>2, <3>2
        <4> QED
          BY <1>5, <1>8, <1>13, <2>2, <3>2, <4>1
      <3> QED
        BY <3>1, <3>2
    <2> QED
      BY <1>6, <1>15, <2>1, <2>2 DEF RowsAre
  <1>18. ASSUME NEW t \in DOMAIN samples'
         PROVE  /\ covers'[t] = t..(t + Width(t, long, mid) - 1)
                /\ Same(samples'[t], Mean(recorded', covers'[t]))
    <2>1. CASE t = now
      <3>1. \A u \in DOMAIN recorded' : recorded'[u][1] \in Nat
        BY <1>9, <1>10, <1>11, RatesAreFractions
      <3>2. now \in 0..MaxTime /\ now \in DOMAIN recorded' /\ recorded'[now][2] = 1 /\ recorded'[now] \in Fractions
        BY <1>3, <1>10, <1>11
      <3>3. Same(recorded'[now], Mean(recorded', {now}))
        BY <3>1, <3>2, MeanOfOne
      <3>4. now..(now + 1 - 1) = {now}
        BY <1>3
      <3> QED
        BY <1>5, <1>11, <1>14, <2>1, <3>3, <3>4
    <2>2. CASE t # now
      <3>1. /\ t \in DOMAIN samples /\ samples'[t] = samples[t] /\ covers'[t] = covers[t]
            /\ covers[t] = t..(t + Width(t, long, mid) - 1) /\ Same(samples[t], Mean(recorded, covers[t]))
        BY <1>5, <1>8, <2>2
      <3>2. covers[t] \subseteq DOMAIN recorded
        BY <1>5, <3>1 DEF RetentionInv, RowsStartTheirSamples
      <3>3. \A u \in covers[t] : recorded[u] \in Fractions /\ recorded'[u] = recorded[u]
        BY <1>9, <1>11, <3>2
      <3>4. Mean(recorded', covers[t]) = Mean(recorded, covers[t])
        BY <3>3, MeanAgrees
      <3> QED
        BY <3>1, <3>4
    <2> QED
      BY <2>1, <2>2
  <1>19. RowsAverage(WindowStart, FoldedLong, FoldedMid)'
    BY <1>6, <1>18 DEF RowsAverage
  <1>20. (\A t \in DOMAIN samples : t >= WindowAt(lastRetain))'
    BY <1>1, <1>3, <1>5, <1>7 DEF from, WindowAt, AlignDown
  <1> QED
    BY <1>12, <1>17, <1>19, <1>20 DEF SteadyRows

\* Time passes when nothing is due.
LEMMA TickSteady ==
  ASSUME RetentionInv, steady, SteadyClock, SteadyRows, Tick
  PROVE  SteadyClock' /\ SteadyRows'
  <1> USE RetentionAssumption
  <1>1. /\ pass = Idle /\ lastSample = now /\ ~ RetainDue /\ now' = now + 1 /\ now < MaxTime
        /\ UNCHANGED <<samples, covers, recorded, lastSample, pass, lastRetain>>
    BY DEF Tick, steady, sampleVars, rows
  <1>2. now \in Nat /\ lastRetain \in LongBucket..now /\ now # 0 /\ lastSample \in Nat
    BY PassTimes DEF SteadyClock
  <1>3. NextSample' = NextSample /\ NextSample = now'
    BY <1>1, <1>2 DEF NextSample
  <1>4. SteadyClock'
    <2>1. now' - lastRetain' <= RetainInterval /\ lastRetain' \in LongBucket..now' /\ now' <= MaxTime
      BY <1>1, <1>2 DEF RetainDue
    <2> QED
      BY <1>1, <1>2, <1>3, <2>1 DEF SteadyClock
  <1>5. SteadyRows'
    <2>1. UNCHANGED <<WindowStart, FoldedLong, DroppedLong, FoldedMid, DroppedMid>>
      BY <1>1 DEF WindowStart, FoldedLong, DroppedLong, FoldedMid, DroppedMid, PassAfter
    <2> QED
      BY <1>1, <1>3, <2>1 DEF SteadyRows, RowsAre, RowsAverage, IsRow, Width, WindowAt, AlignDown
  <1> QED
    BY <1>4, <1>5

\* What changes neither the clock nor what a pass has done with the rows.
LEMMA SameSteady ==
  ASSUME SteadyClock, SteadyRows, UNCHANGED <<now, rows, recorded, lastSample, lastRetain>>,
         pass' = pass \/ /\ pass.step \notin {"drop long", "fold mid", "drop mid", "expire"}
                         /\ pass'.step \notin {"drop long", "fold mid", "drop mid", "expire"}
  PROVE  SteadyClock' /\ SteadyRows'
  <1>1. NextSample' = NextSample /\ UNCHANGED <<samples, covers>>
    BY DEF NextSample, rows
  <1>2. SteadyClock'
    BY <1>1 DEF SteadyClock
  <1>3. UNCHANGED <<WindowStart, FoldedLong, DroppedLong, FoldedMid, DroppedMid>>
    BY DEF WindowStart, FoldedLong, DroppedLong, FoldedMid, DroppedMid, PassAfter
  <1>4. SteadyRows'
    BY <1>1, <1>3 DEF SteadyRows, RowsAre, RowsAverage, IsRow, Width, WindowAt, AlignDown
  <1> QED
    BY <1>2, <1>4

\* Hours are exact means of minutes, or stay.
LEMMA FoldLongSteady ==
  ASSUME RetentionInv, SteadyClock, SteadyRows, FoldLong, RetainInterval <= MidAge - RawAge
  PROVE  SteadyClock' /\ SteadyRows'
  <1> USE RetentionAssumption
  <1> DEFINE from == WindowAt(now)
             before == WindowAt(lastRetain)
             longer == LongDone(lastRetain)
             long == LongDone(now)
             mid  == MidDone(lastRetain)
  <1>1. /\ pass # Idle /\ pass.step = "fold long" /\ pass' = [step |-> "drop long", at |-> now]
        /\ UNCHANGED <<now, recorded, lastSample, lastRetain>>
    BY Stepped DEF FoldLong, Statement, Steps
  <1>2. LongStart = from /\ LongEnd = long
    BY <1>1, PassRanges
  <1>3. /\ from \in Int /\ before \in Int /\ longer \in Int /\ long \in Int /\ mid \in Int /\ now \in Nat
        /\ from % LongBucket = 0 /\ long % LongBucket = 0 /\ before <= from /\ longer <= long /\ long <= now
    BY PassTimes
  <1>4. RowsAre(before, longer, mid) /\ RowsAverage(before, longer, mid) /\ \A t \in DOMAIN samples : t >= before
    BY <1>1, Progress DEF SteadyRows
  <1>5. /\ WindowStart' = from /\ FoldedLong' = long /\ DroppedLong' = longer
        /\ FoldedMid' = mid /\ DroppedMid' = mid
    BY <1>1 DEF WindowStart, FoldedLong, DroppedLong, FoldedMid, DroppedMid, PassAfter
  <1>6. /\ DOMAIN samples' = DOMAIN samples
        /\ \A t \in DOMAIN samples : samples'[t] \in Fractions
        /\ \A t \in DOMAIN samples : from <= t /\ t < long /\ t % LongBucket = 0 =>
             covers'[t] = t..(t + LongBucket - 1) /\ Same(samples'[t], Mean(recorded, covers'[t]))
        /\ \A t \in DOMAIN samples : ~ (from <= t /\ t < long /\ t % LongBucket = 0) =>
             covers'[t] = covers[t] /\ samples'[t] = samples[t]
    <2>1. \A b \in Nat : from <= b /\ b < long /\ b % LongBucket = 0 /\ LongBucket <= b => Tiled(b, LongBucket, longer, mid)
      BY <1>1, <1>2, HoursTiled
    <2>2. Fold(from, long, LongBucket) /\ LongBucket \in {MidBucket, LongBucket}
      BY <1>2 DEF FoldLong
    <2> HIDE DEF from, before, longer, long, mid
    <2>3. Foldable(before, longer, mid, from, long, LongBucket)
      BY <1>3, <1>4, <2>1, <2>2 DEF Foldable
    <2> QED
      BY <2>2, <2>3, SteadyFold
  <1>7. SteadyClock'
    <2>1. NextSample' = NextSample
      BY <1>1 DEF NextSample
    <2> QED
      BY <1>1, <1>6, <2>1 DEF SteadyClock
  <1>8. SteadyRows'
    <2>1. WindowAt(lastRetain') = before
      BY <1>1
    <2>2. DOMAIN samples \subseteq Nat /\ NextSample \in Int
      BY DEF RetentionInv, RetentionTypes, SteadyClock, NextSample
    <2> HIDE DEF from, before, longer, long, mid
    <2>3. /\ \A t \in DOMAIN samples' : t >= from => IsRow(t, longer, mid)
          /\ \A t \in LongBucket..(NextSample - 1) : t >= from /\ IsRow(t, longer, mid) => t \in DOMAIN samples'
      BY <1>3, <1>4, <1>6, <2>2 DEF RowsAre
    <2>4. ASSUME NEW t \in DOMAIN samples', t >= from, IsRow(t, long, mid)
          PROVE  covers'[t] = t..(t + Width(t, long, mid) - 1) /\ Same(samples'[t], Mean(recorded, covers'[t]))
      <3>0. t \in DOMAIN samples /\ t \in Nat
        BY <1>6, <2>2
      <3>1. CASE t < long
        <4>1. t % LongBucket = 0 /\ Width(t, long, mid) = LongBucket /\ from <= t
          BY <1>3, <2>4, <3>0, <3>1 DEF IsRow, Width
        <4> QED
          BY <1>6, <3>0, <3>1, <4>1
      <3>2. CASE ~ (t < long)
        <4>1. IsRow(t, longer, mid) /\ Width(t, longer, mid) = Width(t, long, mid) /\ t >= before
          BY <1>3, <2>4, <3>0, <3>2 DEF IsRow, Width
        <4>2. covers[t] = t..(t + Width(t, longer, mid) - 1) /\ Same(samples[t], Mean(recorded, covers[t]))
          BY <1>4, <3>0, <4>1 DEF RowsAverage
        <4> QED
          BY <1>6, <3>0, <3>2, <4>1, <4>2
      <3> QED
        BY <3>1, <3>2
    <2>5. RowsAfter(from, longer, mid, long, mid)
      BY <1>1, <1>4, <1>5, <1>6, <2>1, <2>3, <2>4 DEF RowsAfter
    <2> QED
      BY <2>5, SteadyAgain
  <1> QED
    BY <1>7, <1>8

LEMMA DropLongSteady ==
  ASSUME RetentionInv, SteadyClock, SteadyRows, DropLong, RetainInterval <= MidAge - RawAge
  PROVE  SteadyClock' /\ SteadyRows'
  <1> USE RetentionAssumption
  <1> DEFINE from == WindowAt(now)
             before == WindowAt(lastRetain)
             longer == LongDone(lastRetain)
             long == LongDone(now)
             mid  == MidDone(lastRetain)
  <1>1. /\ pass # Idle /\ pass.step = "drop long" /\ pass.at = now /\ pass' = [step |-> "fold mid", at |-> now]
        /\ UNCHANGED <<now, recorded, lastSample, lastRetain>>
    BY Stepped, PassTypes DEF DropLong, Statement, Steps
  <1>2. LongStart = from /\ LongEnd = long
    BY <1>1, PassRanges
  <1>3. /\ from \in Int /\ before \in Int /\ longer \in Int /\ long \in Int /\ mid \in Int /\ now \in Nat
        /\ from % LongBucket = 0 /\ long % LongBucket = 0 /\ before <= from /\ longer <= long /\ long <= now
    BY PassTimes
  <1>4. RowsAre(from, longer, mid) /\ RowsAverage(from, long, mid) /\ \A t \in DOMAIN samples : t >= before
    BY <1>1, Progress DEF SteadyRows
  <1>5. /\ WindowStart' = from /\ FoldedLong' = long /\ DroppedLong' = long
        /\ FoldedMid' = mid /\ DroppedMid' = mid
    BY <1>1 DEF WindowStart, FoldedLong, DroppedLong, FoldedMid, DroppedMid, PassAfter
  <1>6. Drop(from, long, LongBucket) /\ WindowAt(lastRetain') = before
    BY <1>1, <1>2 DEF DropLong
  <1> HIDE DEF from, before, longer, long, mid
  <1>7. \A t \in Nat : t >= from =>
          (IsRow(t, long, mid) <=> IsRow(t, longer, mid) /\ (from <= t /\ t < long => t % LongBucket = 0))
    BY <1>3 DEF IsRow
  <1>8. /\ DOMAIN samples' \subseteq DOMAIN samples
        /\ \A t \in DOMAIN samples' : samples'[t] = samples[t] /\ covers'[t] = covers[t]
        /\ \A t \in DOMAIN samples' : t >= from => IsRow(t, long, mid)
        /\ \A t \in LongBucket..(NextSample - 1) : t >= from /\ IsRow(t, long, mid) => t \in DOMAIN samples'
    <2>1. Droppable(from, longer, mid, long, mid, from, long, LongBucket)
      BY <1>3, <1>4, <1>7 DEF Droppable
    <2> QED
      BY <1>6, <2>1, SteadyDrop
  <1>9. SteadyClock'
    <2>1. NextSample' = NextSample
      BY <1>1 DEF NextSample
    <2> QED
      BY <1>1, <1>8, <2>1 DEF SteadyClock
  <1>10. \A t \in DOMAIN samples' : t >= from /\ IsRow(t, long, mid) =>
           covers'[t] = t..(t + Width(t, long, mid) - 1) /\ Same(samples'[t], Mean(recorded, covers'[t]))
    BY <1>4, <1>8 DEF RowsAverage
  <1>11. SteadyRows'
    <2>1. RowsAfter(from, long, mid, long, mid)
      BY <1>1, <1>4, <1>5, <1>6, <1>8, <1>10 DEF RowsAfter
    <2> QED
      BY <2>1, SteadyAgain
  <1> QED
    BY <1>9, <1>11

\* Minutes are exact means of samples, or stay; hours begin before them.
LEMMA FoldMidSteady ==
  ASSUME RetentionInv, SteadyClock, SteadyRows, FoldMid, RetainInterval <= MidAge - RawAge
  PROVE  SteadyClock' /\ SteadyRows'
  <1> USE RetentionAssumption
  <1> DEFINE from == WindowAt(now)
             before == WindowAt(lastRetain)
             long == LongDone(now)
             later == MidDone(lastRetain)
             mid  == MidDone(now)
             lo == MidStart
  <1>1. /\ pass # Idle /\ pass.step = "fold mid" /\ pass.at = now /\ pass' = [step |-> "drop mid", at |-> now]
        /\ UNCHANGED <<now, recorded, lastSample, lastRetain>>
    BY Stepped, PassTypes DEF FoldMid, Statement, Steps
  <1>2. /\ MidEnd = mid /\ lo \in Int /\ lo % MidBucket = 0 /\ long <= lo /\ lo <= later /\ from <= lo
    BY <1>1, PassRanges
  <1>3. /\ from \in Int /\ before \in Int /\ later \in Int /\ long \in Int /\ mid \in Int /\ now \in Nat
        /\ mid % MidBucket = 0 /\ later <= mid /\ mid <= now
    BY PassTimes
  <1>4. RowsAre(from, long, later) /\ RowsAverage(from, long, later) /\ \A t \in DOMAIN samples : t >= before
    BY <1>1, Progress DEF SteadyRows
  <1>5. /\ WindowStart' = from /\ FoldedLong' = long /\ DroppedLong' = long
        /\ FoldedMid' = mid /\ DroppedMid' = later
    BY <1>1 DEF WindowStart, FoldedLong, DroppedLong, FoldedMid, DroppedMid, PassAfter
  <1>6. /\ DOMAIN samples' = DOMAIN samples
        /\ \A t \in DOMAIN samples : samples'[t] \in Fractions
        /\ \A t \in DOMAIN samples : lo <= t /\ t < mid /\ t % MidBucket = 0 =>
             covers'[t] = t..(t + MidBucket - 1) /\ Same(samples'[t], Mean(recorded, covers'[t]))
        /\ \A t \in DOMAIN samples : ~ (lo <= t /\ t < mid /\ t % MidBucket = 0) =>
             covers'[t] = covers[t] /\ samples'[t] = samples[t]
    <2>1. \A b \in Nat : lo <= b /\ b < mid /\ b % MidBucket = 0 /\ LongBucket <= b => Tiled(b, MidBucket, long, later)
      BY <1>1, <1>2, MinutesTiled
    <2>2. Fold(lo, mid, MidBucket) /\ MidBucket \in {MidBucket, LongBucket}
      BY <1>2 DEF FoldMid
    <2> HIDE DEF from, before, later, long, mid, lo
    <2>3. Foldable(from, long, later, lo, mid, MidBucket)
      BY <1>2, <1>3, <1>4, <2>1, <2>2 DEF Foldable
    <2> QED
      BY <2>2, <2>3, SteadyFold
  <1>7. SteadyClock'
    <2>1. NextSample' = NextSample
      BY <1>1 DEF NextSample
    <2> QED
      BY <1>1, <1>6, <2>1 DEF SteadyClock
  <1>8. SteadyRows'
    <2>1. WindowAt(lastRetain') = before
      BY <1>1
    <2>2. DOMAIN samples \subseteq Nat /\ NextSample \in Int
      BY DEF RetentionInv, RetentionTypes, SteadyClock, NextSample
    <2> HIDE DEF from, before, later, long, mid, lo
    <2>3. /\ \A t \in DOMAIN samples' : t >= from => IsRow(t, long, later)
          /\ \A t \in LongBucket..(NextSample - 1) : t >= from /\ IsRow(t, long, later) => t \in DOMAIN samples'
      BY <1>4, <1>6 DEF RowsAre
    <2>4. ASSUME NEW t \in DOMAIN samples', t >= from, IsRow(t, long, mid)
          PROVE  covers'[t] = t..(t + Width(t, long, mid) - 1) /\ Same(samples'[t], Mean(recorded, covers'[t]))
      <3>0. t \in DOMAIN samples /\ t \in Nat
        BY <1>6, <2>2
      <3>1. CASE lo <= t /\ t < mid
        <4>1. t % MidBucket = 0 /\ Width(t, long, mid) = MidBucket
          BY <1>2, <1>3, <2>4, <3>0, <3>1 DEF IsRow, Width
        <4> QED
          BY <1>6, <3>0, <3>1, <4>1
      <3>2. CASE ~ (lo <= t /\ t < mid)
        <4>1. IsRow(t, long, later) /\ Width(t, long, later) = Width(t, long, mid)
          BY <1>2, <1>3, <2>4, <3>0, <3>2 DEF IsRow, Width
        <4>2. covers[t] = t..(t + Width(t, long, later) - 1) /\ Same(samples[t], Mean(recorded, covers[t]))
          BY <1>4, <2>4, <3>0, <4>1 DEF RowsAverage
        <4> QED
          BY <1>6, <3>0, <3>2, <4>1, <4>2
      <3> QED
        BY <3>1, <3>2
    <2>5. RowsAfter(from, long, later, long, mid)
      BY <1>1, <1>4, <1>5, <1>6, <2>1, <2>3, <2>4 DEF RowsAfter
    <2> QED
      BY <2>5, SteadyAgain
  <1> QED
    BY <1>7, <1>8

LEMMA DropMidSteady ==
  ASSUME RetentionInv, SteadyClock, SteadyRows, DropMid, RetainInterval <= MidAge - RawAge
  PROVE  SteadyClock' /\ SteadyRows'
  <1> USE RetentionAssumption
  <1> DEFINE from == WindowAt(now)
             before == WindowAt(lastRetain)
             long == LongDone(now)
             later == MidDone(lastRetain)
             mid  == MidDone(now)
             lo == MidStart
  <1>1. /\ pass # Idle /\ pass.step = "drop mid" /\ pass.at = now /\ pass' = [step |-> "expire", at |-> now]
        /\ UNCHANGED <<now, recorded, lastSample, lastRetain>>
    BY Stepped, PassTypes DEF DropMid, Statement, Steps
  <1>2. /\ MidEnd = mid /\ lo \in Int /\ lo % MidBucket = 0 /\ long <= lo /\ lo <= later /\ from <= lo
    BY <1>1, PassRanges
  <1>3. /\ from \in Int /\ before \in Int /\ later \in Int /\ long \in Int /\ mid \in Int /\ now \in Nat
        /\ later <= mid
    BY PassTimes
  <1>4. RowsAre(from, long, later) /\ RowsAverage(from, long, mid) /\ \A t \in DOMAIN samples : t >= before
    BY <1>1, Progress DEF SteadyRows
  <1>5. /\ WindowStart' = from /\ FoldedLong' = long /\ DroppedLong' = long
        /\ FoldedMid' = mid /\ DroppedMid' = mid
    BY <1>1 DEF WindowStart, FoldedLong, DroppedLong, FoldedMid, DroppedMid, PassAfter
  <1>6. Drop(lo, mid, MidBucket) /\ WindowAt(lastRetain') = before
    BY <1>1, <1>2 DEF DropMid
  <1> HIDE DEF from, before, later, long, mid, lo
  <1>7. \A t \in Nat : t >= from =>
          (IsRow(t, long, mid) <=> IsRow(t, long, later) /\ (lo <= t /\ t < mid => t % MidBucket = 0))
    BY <1>2, <1>3 DEF IsRow
  <1>8. /\ DOMAIN samples' \subseteq DOMAIN samples
        /\ \A t \in DOMAIN samples' : samples'[t] = samples[t] /\ covers'[t] = covers[t]
        /\ \A t \in DOMAIN samples' : t >= from => IsRow(t, long, mid)
        /\ \A t \in LongBucket..(NextSample - 1) : t >= from /\ IsRow(t, long, mid) => t \in DOMAIN samples'
    <2>1. Droppable(from, long, later, long, mid, lo, mid, MidBucket)
      BY <1>2, <1>3, <1>4, <1>7 DEF Droppable
    <2> QED
      BY <1>6, <2>1, SteadyDrop
  <1>9. SteadyClock'
    <2>1. NextSample' = NextSample
      BY <1>1 DEF NextSample
    <2> QED
      BY <1>1, <1>8, <2>1 DEF SteadyClock
  <1>10. \A t \in DOMAIN samples' : t >= from /\ IsRow(t, long, mid) =>
           covers'[t] = t..(t + Width(t, long, mid) - 1) /\ Same(samples'[t], Mean(recorded, covers'[t]))
    BY <1>4, <1>8 DEF RowsAverage
  <1>11. SteadyRows'
    <2>1. RowsAfter(from, long, mid, long, mid)
      BY <1>1, <1>4, <1>5, <1>6, <1>8, <1>10 DEF RowsAfter
    <2> QED
      BY <2>1, SteadyAgain
  <1> QED
    BY <1>9, <1>11

\* The rows before the long window go, and the pass has come to its end.
LEMMA ExpireSteady ==
  ASSUME RetentionInv, SteadyClock, SteadyRows, Expire
  PROVE  SteadyClock' /\ SteadyRows'
  <1> USE RetentionAssumption
  <1> DEFINE from == WindowAt(now)
             long == LongDone(now)
             mid  == MidDone(now)
  <1>1. /\ pass # Idle /\ pass.step = "expire" /\ pass.at = now /\ pass' = Idle /\ lastRetain' = now
        /\ UNCHANGED <<now, recorded, lastSample>>
    <2>1. pass # Idle
      BY IdleIsNoStep DEF Expire, Steps
    <2>2. pass.at = now
      BY <2>1, PassTypes
    <2> QED
      BY <2>1, <2>2 DEF Expire
  <1>2. LongStart = from
    BY <1>1 DEF LongStart, WindowAt
  <1>3. RowsAre(from, long, mid) /\ RowsAverage(from, long, mid)
    BY <1>1, Progress DEF SteadyRows
  <1>4. /\ WindowStart' = from /\ FoldedLong' = long /\ DroppedLong' = long
        /\ FoldedMid' = mid /\ DroppedMid' = mid /\ WindowAt(lastRetain') = from
    BY <1>1 DEF WindowStart, FoldedLong, DroppedLong, FoldedMid, DroppedMid, PassAfter, Idle
  <1> HIDE DEF from, long, mid
  <1>5. /\ DOMAIN samples' = {t \in DOMAIN samples : t >= from}
        /\ \A t \in DOMAIN samples' : samples'[t] = samples[t] /\ covers'[t] = covers[t]
    BY <1>2 DEF Expire, Keep, Horizon
  <1>6. SteadyClock'
    <2>1. NextSample' = NextSample /\ now \in Nat /\ lastRetain \in LongBucket..now
      BY <1>1, PassTimes DEF NextSample, SteadyClock
    <2>2. lastRetain' \in LongBucket..now' /\ now' - lastRetain' <= RetainInterval
      BY <1>1, <2>1
    <2> QED
      BY <1>1, <1>5, <2>1, <2>2 DEF SteadyClock
  <1>7. /\ \A t \in DOMAIN samples' : t >= from => IsRow(t, long, mid)
        /\ \A t \in LongBucket..(NextSample - 1) : t >= from /\ IsRow(t, long, mid) => t \in DOMAIN samples'
    BY <1>3, <1>5 DEF RowsAre
  <1>8. \A t \in DOMAIN samples' : t >= from /\ IsRow(t, long, mid) =>
          covers'[t] = t..(t + Width(t, long, mid) - 1) /\ Same(samples'[t], Mean(recorded, covers'[t]))
    BY <1>3, <1>5 DEF RowsAverage
  <1>9. SteadyRows'
    <2>1. RowsAfter(from, long, mid, long, mid)
      BY <1>1, <1>4, <1>5, <1>7, <1>8 DEF RowsAfter
    <2> QED
      BY <2>1, SteadyAgain
  <1> QED
    BY <1>6, <1>9

\* Everything else leaves the rows alone; what is never steady is no step of it.
LEMMA ElsewhereSteady ==
  ASSUME RetentionInv, steady, SteadyClock, SteadyRows,
         \/ Flush \/ StartPass \/ TrimShares \/ CapShares \/ StatementFails \/ Kill
         \/ \E w \in Workers, accepted \in BOOLEAN : Share(w, accepted)
         \/ UNCHANGED retentionVars
  PROVE  SteadyClock' /\ SteadyRows'
  <1> DEFINE late == {"drop long", "fold mid", "drop mid", "expire"}
  <1>1. CASE Flush \/ UNCHANGED retentionVars
    <2>1. UNCHANGED <<now, rows, recorded, lastSample, lastRetain, pass>>
      BY <1>1 DEF Flush, retentionVars, sampleVars
    <2> QED
      BY <2>1, SameSteady
  <1>2. CASE StartPass \/ TrimShares \/ CapShares
    <2>1. PICK next \in {"trim", "cap", "fold long"} : pass' = [step |-> next, at |-> now]
      BY <1>2, Stepped DEF StartPass, TrimShares, CapShares, Steps
    <2>2. UNCHANGED <<now, recorded, lastSample, lastRetain, rows>>
      BY <1>2 DEF StartPass, TrimShares, CapShares, Statement, sampleVars
    <2>3. pass.step \notin late
      <3>1. CASE StartPass
        BY <3>1 DEF StartPass, Idle
      <3>2. CASE TrimShares
        BY <3>2 DEF TrimShares, Statement
      <3>3. CASE CapShares
        BY <3>3 DEF CapShares, Statement
      <3> QED
        BY <1>2, <3>1, <3>2, <3>3
    <2>4. pass'.step \notin late
      BY <2>1
    <2> QED
      BY <2>2, <2>3, <2>4, SameSteady
  <1>3. ~ (StatementFails \/ Kill \/ \E w \in Workers, accepted \in BOOLEAN : Share(w, accepted))
    BY DEF StatementFails, Kill, Share, steady
  <1> QED
    BY <1>1, <1>2, <1>3

LEMMA NextSteady ==
  ASSUME RetainInterval <= MidAge - RawAge
  PROVE  RetentionInv /\ SteadyInv /\ [RetentionNext]_retentionVars => SteadyInv'
  <1> SUFFICES ASSUME RetentionInv, SteadyInv, [RetentionNext]_retentionVars, steady' PROVE SteadyClock' /\ SteadyRows'
    BY DEF SteadyInv
  <1>1. steady
    <2>1. scenario' = scenario
      BY DEF RetentionNext, retentionVars, Sample, Tick, Flush, Share, StartPass, TrimShares, CapShares,
             FoldLong, DropLong, FoldMid, DropMid, Expire, StatementFails, Kill, Statement
    <2> QED
      BY <2>1 DEF steady
  <1>2. SteadyClock /\ SteadyRows
    BY <1>1 DEF SteadyInv
  <1>3. CASE Sample
    BY <1>1, <1>2, <1>3, SampleSteady
  <1>4. CASE Tick
    BY <1>1, <1>2, <1>4, TickSteady
  <1>5. CASE FoldLong
    BY <1>2, <1>5, FoldLongSteady
  <1>6. CASE DropLong
    BY <1>2, <1>6, DropLongSteady
  <1>7. CASE FoldMid
    BY <1>2, <1>7, FoldMidSteady
  <1>8. CASE DropMid
    BY <1>2, <1>8, DropMidSteady
  <1>9. CASE Expire
    BY <1>2, <1>9, ExpireSteady
  <1>10. CASE \/ Flush \/ StartPass \/ TrimShares \/ CapShares \/ StatementFails \/ Kill
              \/ \E w \in Workers, accepted \in BOOLEAN : Share(w, accepted)
              \/ UNCHANGED retentionVars
    BY <1>1, <1>2, <1>10, ElsewhereSteady
  <1> QED
    BY <1>3, <1>4, <1>5, <1>6, <1>7, <1>8, <1>9, <1>10 DEF RetentionNext

\* While the pool runs steadily the rows are the hours, minutes and samples that the passes so
\* far have made, and each is the mean of its span, if a pass comes at least as often as a row
\* needs to age from the minutes to the hours (RETAIN_INTERVAL in persist.rs is ten minutes,
\* RetentionPolicy's default ages are a day and a week).
THEOREM SteadyInvariant ==
  ASSUME RetainInterval <= MidAge - RawAge
  PROVE  RetentionSpec => []SteadyInv
  <1>1. RetentionInv /\ SteadyInv /\ [RetentionNext]_retentionVars => SteadyInv'
    BY NextSteady
  <1> QED
    BY <1>1, InitSteady, RetentionInvariant, PTL DEF RetentionSpec

\* Averages never drift (docs/ARCHITECTURE.md): however often a row was folded it is the mean of
\* the samples it stands for, for every bucket width and age and any hashrates.
THEOREM AveragesStayExact ==
  ASSUME RetainInterval <= MidAge - RawAge
  PROVE  RetentionSpec => []AveragesExact
  <1>1. SteadyInv => AveragesExact
    <2> SUFFICES ASSUME SteadyInv, steady, pass = Idle, NEW t \in DOMAIN samples
                 PROVE  Same(samples[t], Mean(recorded, covers[t]))
      BY DEF AveragesExact
    <2>1. SteadyRows
      BY DEF SteadyInv
    <2>2. WindowStart = WindowAt(lastRetain) /\ DroppedLong = FoldedLong /\ DroppedMid = FoldedMid
      BY Progress DEF Idle
    <2>3. t >= WindowStart /\ IsRow(t, FoldedLong, FoldedMid)
      BY <2>1, <2>2 DEF SteadyRows, RowsAre
    <2> QED
      BY <2>1, <2>3 DEF SteadyRows, RowsAverage
  <1>2. RetentionSpec => []SteadyInv
    BY SteadyInvariant
  <1> QED
    BY <1>1, <1>2, PTL

\* The rows are what the documentation says they are: the buckets of their windows, however many
\* passes did not finish, and exact means while the pool runs steadily.
THEOREM RowsStayBuckets ==
  ASSUME RetainInterval <= MidAge - RawAge
  PROVE  RetentionSpec => []RowsAreBuckets
  <1>1. RetentionSpec => []AveragesExact
    BY AveragesStayExact
  <1>2. FoldedByAge /\ AveragesExact => RowsAreBuckets
    BY DEF RowsAreBuckets
  <1> QED
    BY <1>1, <1>2, RowsFoldedByAge, PTL
=============================================================================
