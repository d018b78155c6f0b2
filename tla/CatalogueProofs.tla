---------------------------- MODULE CatalogueProofs ----------------------------
(***************************************************************************)
(* What the catalogue promises, for any number of seeds, sellers' calls    *)
(* and runs of the script, any limit of a page and any listings committed  *)
(* while a client reads.  The invariant of the tables adds what each run   *)
(* of the script knows while it is in its loop; that of the reading is     *)
(* that a watch that was there at the beginning and has not been shown     *)
(* lies beyond the pages read so far, and what is listed later can only    *)
(* push it further.                                                        *)
(***************************************************************************)
EXTENDS CatalogueBrowsing, FiniteSetTheorems, SequenceTheorems, TLAPS

CreationOK(call) == call.pc # "idle" => call.watch \in Watch

\* In the loop at index i: the seeds before i are made, and at the second save
\* the passport of i as well.
RunOK(run) ==
    /\ run.pc = "count" => run.index = 1
    /\ run.pc \in {"savePassport", "saveWatch"} =>
          /\ run.index \in 1..SeedSize
          /\ \A j \in 1..(run.index - 1) : SeedWatch(j) \in watches
    /\ run.pc = "saveWatch" => run.index \in passports

CatalogueInv ==
    /\ TypeOK
    /\ IsFiniteSet(watches)
    /\ \A c \in Creators : CreationOK(creator[c])
    /\ \A p \in Seeders : RunOK(seeder[p])
    /\ EveryWatchHasItsPassport
    /\ OrphansAreSeeds
    /\ DoneMeansFull

USE CatalogueAssumption

-----------------------------------------------------------------------------
LEMMA SeedWatchType ==
    ASSUME NEW i \in 1..SeedSize
    PROVE  SeedWatch(i) \in Watch
  BY DEF SeedWatch, Watch, Number

\* When all seeds are there, there are SeedSize of them.
LEMMA AllSeedsCount ==
    ASSUME NEW set, IsFiniteSet(set),
           \A i \in 1..SeedSize : SeedWatch(i) \in set
    PROVE  Cardinality(set) \in Nat /\ Cardinality(set) >= SeedSize
  <1> DEFINE f == [i \in 1..SeedSize |-> SeedWatch(i)]
  <1>1. f \in [1..SeedSize -> set]
    OBVIOUS
  <1>2. \A i, j \in 1..SeedSize : f[i] = f[j] => i = j
    BY DEF SeedWatch
  <1>3. f \in Injection(1..SeedSize, set)
    BY <1>1, <1>2 DEF Injection, IsInjective
  <1>4. Cardinality(1..SeedSize) <= Cardinality(set)
    BY <1>3, FS_Injection
  <1>5. Cardinality(1..SeedSize) = SeedSize
    BY FS_Interval
  <1>6. QED  BY <1>4, <1>5, FS_CardinalityType

\* More watches, no fewer seeds.
LEMMA SeedsStay ==
    ASSUME CatalogueInv, NEW more, IsFiniteSet(more), watches \subseteq more,
           watches' = more, Cardinality(Seeded) >= SeedSize
    PROVE  (Cardinality(Seeded) >= SeedSize)'
  <1>1. Seeded \in SUBSET Seeded' /\ Seeded' \in SUBSET more
    BY DEF Seeded
  <1>2. IsFiniteSet(Seeded')
    BY <1>1, FS_Subset
  <1>3. Cardinality(Seeded) <= Cardinality(Seeded')
    BY <1>1, <1>2, FS_Subset
  <1>4. Cardinality(Seeded) \in Nat /\ Cardinality(Seeded') \in Nat
    BY <1>1, <1>2, FS_Subset, FS_CardinalityType
  <1>5. QED  BY <1>3, <1>4

-----------------------------------------------------------------------------
\* A step that only moves a creation or a run.
LEMMA RowsSame ==
    ASSUME CatalogueInv, UNCHANGED <<passports, watches>>,
           creator' \in [Creators -> Creation],
           seeder' \in [Seeders -> ScriptRun],
           \A c \in Creators : CreationOK(creator'[c]),
           \A p \in Seeders : RunOK(seeder'[p]),
           DoneMeansFull'
    PROVE  CatalogueInv'
  BY DEF CatalogueInv, TypeOK, CreationOK, RunOK, EveryWatchHasItsPassport,
     OrphansAreSeeds

\* A step of a creation that commits nothing.
LEMMA CreationMoves ==
    ASSUME CatalogueInv, NEW c \in Creators, NEW call \in Creation,
           CreationOK(call), creator' = [creator EXCEPT ![c] = call],
           UNCHANGED <<passports, watches, seeder>>
    PROVE  CatalogueInv'
  <1>1. /\ creator' \in [Creators -> Creation]
        /\ \A d \in Creators : CreationOK(creator'[d])
    BY DEF CatalogueInv, TypeOK
  <1>2. DoneMeansFull'
    BY DEF CatalogueInv, DoneMeansFull, Seeded
  <1>3. QED  BY <1>1, <1>2, RowsSame DEF CatalogueInv, TypeOK

\* A step of a run that saves nothing, and does not end the run as done
\* unless the count says so.
LEMMA RunMoves ==
    ASSUME CatalogueInv, NEW p \in Seeders, NEW run \in ScriptRun, RunOK(run),
           run.pc = "done" => Cardinality(Seeded) >= SeedSize,
           seeder' = [seeder EXCEPT ![p] = run],
           UNCHANGED <<passports, watches, creator>>
    PROVE  CatalogueInv'
  <1>1. /\ seeder' \in [Seeders -> ScriptRun]
        /\ \A q \in Seeders : RunOK(seeder'[q])
    BY DEF CatalogueInv, TypeOK
  <1>2. DoneMeansFull'
    BY DEF CatalogueInv, TypeOK, DoneMeansFull, Seeded
  <1>3. QED  BY <1>1, <1>2, RowsSame DEF CatalogueInv, TypeOK

LEMMA NoCallOK == NoCall \in Creation /\ CreationOK(NoCall)
  BY DEF NoCall, Creation, CreationOK

LEMMA NotRunOK == NotRun \in ScriptRun /\ RunOK(NotRun) /\ NotRun.pc = "off"
  BY DEF NotRun, ScriptRun, RunOK

-----------------------------------------------------------------------------
(* WatchesService.create *)

LEMMA CreateStep ==
    ASSUME CatalogueInv, NEW c \in Creators, NEW reference \in References,
           NEW serial \in Serials, Create(c, reference, serial)
    PROVE  CatalogueInv'
  <1> DEFINE watch == [ reference |-> reference, serial |-> serial,
                        passport |-> NULL ]
             call == [pc |-> "insertWatch", watch |-> watch]
  <1>1. watch \in Watch
    BY DEF Watch, Number
  <1>2. call \in Creation /\ CreationOK(call)
    BY <1>1 DEF Creation, CreationOK
  <1>3. QED  BY <1>2, CreationMoves DEF Create

\* A call in flight goes on to another of its steps, or is over.
LEMMA CreationProceeds ==
    ASSUME CatalogueInv, NEW c \in Creators, creator[c].pc # "idle",
           NEW pc \in {"insertPassport", "linkWatch"},
           \/ creator' = [creator EXCEPT ![c] = NoCall]
           \/ creator' = [creator EXCEPT ![c].pc = pc],
           UNCHANGED <<passports, watches, seeder>>
    PROVE  CatalogueInv'
  <1>1. CASE creator' = [creator EXCEPT ![c] = NoCall]
    BY <1>1, NoCallOK, CreationMoves
  <1>2. CASE creator' = [creator EXCEPT ![c].pc = pc]
    <2> DEFINE call == [creator[c] EXCEPT !.pc = pc]
    <2>1. call \in Creation /\ CreationOK(call)
      BY DEF CatalogueInv, TypeOK, Creation, CreationOK
    <2>2. creator' = [creator EXCEPT ![c] = call]
      BY <1>2 DEF CatalogueInv, TypeOK
    <2>3. QED  BY <2>1, <2>2, CreationMoves
  <1>3. QED  BY <1>1, <1>2

LEMMA LinkWatchStep ==
    ASSUME CatalogueInv, NEW c \in Creators, LinkWatch(c)
    PROVE  CatalogueInv'
  <1> DEFINE watch == creator[c].watch
             linked == [watch EXCEPT !.passport = watch.serial]
  <1>1. watch \in Watch
    BY DEF LinkWatch, CatalogueInv, CreationOK
  <1>2. /\ linked \in Watch /\ linked.serial = watch.serial
        /\ linked.passport = watch.serial /\ watch.serial \in Number
    BY <1>1 DEF Watch
  <1>3. /\ passports' = passports \cup {watch.serial}
        /\ watches' = watches \cup {linked}
        /\ creator' = [creator EXCEPT ![c] = NoCall]
        /\ seeder' = seeder
    BY DEF LinkWatch
  <1> HIDE DEF linked, watch
  <1>4. IsFiniteSet(watches')
    BY <1>3, FS_AddElement DEF CatalogueInv
  <1>5. TypeOK' /\ \A d \in Creators : CreationOK(creator[d])'
    BY <1>2, <1>3, NoCallOK DEF CatalogueInv, TypeOK, CreationOK
  <1>6. \A p \in Seeders : RunOK(seeder[p])'
    BY <1>3 DEF CatalogueInv, RunOK
  <1>7. EveryWatchHasItsPassport'
    BY <1>2, <1>3 DEF CatalogueInv, EveryWatchHasItsPassport
  <1>8. OrphansAreSeeds'
    BY <1>2, <1>3 DEF CatalogueInv, OrphansAreSeeds
  <1>9. DoneMeansFull'
    BY <1>3, <1>4, SeedsStay DEF CatalogueInv, DoneMeansFull
  <1>10. QED
    BY <1>4, <1>5, <1>6, <1>7, <1>8, <1>9 DEF CatalogueInv

-----------------------------------------------------------------------------
(* seed-watches.ts *)

\* A run moves to another of its steps without saving.
LEMMA RunGoesTo ==
    ASSUME CatalogueInv, NEW p \in Seeders,
           NEW pc \in {"count", "savePassport", "saveWatch", "done", "failed"},
           RunOK([seeder[p] EXCEPT !.pc = pc]),
           pc = "done" => Cardinality(Seeded) >= SeedSize,
           seeder' = [seeder EXCEPT ![p].pc = pc],
           UNCHANGED <<passports, watches, creator>>
    PROVE  CatalogueInv'
  <1> DEFINE run == [seeder[p] EXCEPT !.pc = pc]
  <1>1. run \in ScriptRun /\ run.pc = pc
    BY DEF CatalogueInv, TypeOK, ScriptRun
  <1>2. seeder' = [seeder EXCEPT ![p] = run]
    BY DEF CatalogueInv, TypeOK
  <1>3. QED  BY <1>1, <1>2, RunMoves

LEMMA CountStep ==
    ASSUME CatalogueInv, NEW p \in Seeders, Count(p)
    PROVE  CatalogueInv'
  <1>1. seeder[p] \in ScriptRun /\ seeder[p].index = 1
    BY DEF Count, CatalogueInv, TypeOK, RunOK
  <1>2. /\ RunOK([seeder[p] EXCEPT !.pc = "done"])
        /\ RunOK([seeder[p] EXCEPT !.pc = "savePassport"])
    BY <1>1 DEF RunOK, ScriptRun
  <1>3. QED  BY <1>2, RunGoesTo DEF Count

LEMMA SavePassportStep ==
    ASSUME CatalogueInv, NEW p \in Seeders, SavePassport(p)
    PROVE  CatalogueInv'
  <1> DEFINE i == seeder[p].index
             run == [seeder[p] EXCEPT !.pc = "saveWatch"]
  <1>1. seeder[p] \in ScriptRun /\ seeder[p].pc = "savePassport"
        /\ RunOK(seeder[p]) /\ i \in 1..SeedSize
    BY DEF SavePassport, CatalogueInv, TypeOK, RunOK
  <1>2. CASE /\ passports' = passports \cup {i}
             /\ seeder' = [seeder EXCEPT ![p].pc = "saveWatch"]
    <2>1. UNCHANGED <<watches, creator>>
      BY DEF SavePassport
    <2>2. run \in ScriptRun /\ seeder' = [seeder EXCEPT ![p] = run]
          /\ run.pc = "saveWatch" /\ run.index = i
      BY <1>1, <1>2 DEF CatalogueInv, TypeOK, ScriptRun
    <2> HIDE DEF run
    <2>3. TypeOK' /\ \A c \in Creators : CreationOK(creator[c])'
      BY <1>1, <1>2, <2>1, <2>2 DEF CatalogueInv, TypeOK, CreationOK, Number
    <2>4. \A q \in Seeders : RunOK(seeder[q])'
      BY <1>1, <1>2, <2>1, <2>2 DEF CatalogueInv, TypeOK, RunOK
    <2>5. EveryWatchHasItsPassport' /\ OrphansAreSeeds'
      BY <1>1, <1>2, <2>1
      DEF CatalogueInv, EveryWatchHasItsPassport, OrphansAreSeeds
    <2>6. DoneMeansFull'
      BY <2>1, <2>2 DEF CatalogueInv, TypeOK, DoneMeansFull, Seeded
    <2>7. QED
      BY <2>1, <2>3, <2>4, <2>5, <2>6 DEF CatalogueInv
  <1>3. CASE UNCHANGED passports /\ seeder' = [seeder EXCEPT ![p].pc = "failed"]
    <2>1. RunOK([seeder[p] EXCEPT !.pc = "failed"])
      BY <1>1 DEF RunOK, ScriptRun
    <2>2. QED  BY <1>3, <2>1, RunGoesTo DEF SavePassport
  <1>4. QED  BY <1>2, <1>3 DEF SavePassport

LEMMA SaveWatchStep ==
    ASSUME CatalogueInv, NEW p \in Seeders, SaveWatch(p)
    PROVE  CatalogueInv'
  <1> DEFINE i == seeder[p].index
             run == [ pc |-> IF i = SeedSize THEN "done" ELSE "savePassport",
                      index |-> i + 1 ]
  <1>1. /\ seeder[p].pc = "saveWatch" /\ RunOK(seeder[p])
        /\ seeder[p] \in ScriptRun
        /\ i \in 1..SeedSize /\ i \in passports
        /\ \A j \in 1..(i - 1) : SeedWatch(j) \in watches
    BY DEF SaveWatch, CatalogueInv, TypeOK, RunOK
  <1>2. CASE /\ watches' = watches \cup {SeedWatch(i)}
             /\ seeder' = [seeder EXCEPT ![p] = run]
    <2>1. UNCHANGED <<passports, creator>>
      BY DEF SaveWatch
    <2>2. IsFiniteSet(watches')
      BY <1>2, FS_AddElement DEF CatalogueInv
    <2>3. TypeOK' /\ \A c \in Creators : CreationOK(creator[c])'
      <3>1. run \in ScriptRun
        BY <1>1 DEF ScriptRun
      <3>2. QED
        BY <1>1, <1>2, <2>1, <3>1, SeedWatchType
        DEF CatalogueInv, TypeOK, CreationOK
    <2>4. \A j \in 1..i : SeedWatch(j) \in watches'
      BY <1>1, <1>2
    <2>5. seeder'[p] = run
      BY <1>2 DEF CatalogueInv, TypeOK
    <2>6. RunOK(seeder[p])'
      BY <1>1, <2>4, <2>5 DEF RunOK
    <2>7. \A q \in Seeders \ {p} : RunOK(seeder[q])'
      BY <1>2, <2>1 DEF CatalogueInv, TypeOK, RunOK
    <2>8. \A q \in Seeders : RunOK(seeder[q])'
      BY <2>6, <2>7
    <2>9. EveryWatchHasItsPassport' /\ OrphansAreSeeds'
      BY <1>1, <1>2, <2>1
      DEF CatalogueInv, EveryWatchHasItsPassport, OrphansAreSeeds, SeedWatch
    <2>10. DoneMeansFull'
      <3>1. ASSUME NEW q \in Seeders \ {p}, seeder'[q].pc = "done"
            PROVE  (Cardinality(Seeded) >= SeedSize)'
        <4>1. Cardinality(Seeded) >= SeedSize
          BY <1>2, <3>1 DEF CatalogueInv, TypeOK, DoneMeansFull
        <4>2. QED  BY <1>2, <2>2, <4>1, SeedsStay
      <3>2. ASSUME i = SeedSize
            PROVE  (Cardinality(Seeded) >= SeedSize)'
        <4>1. \A j \in 1..SeedSize : SeedWatch(j) \in Seeded'
          BY <2>4, <3>2 DEF Seeded, SeedWatch
        <4>2. IsFiniteSet(Seeded')
          BY <2>2, FS_Subset DEF Seeded
        <4>3. QED  BY <4>1, <4>2, AllSeedsCount
      <3>3. QED  BY <2>5, <3>1, <3>2 DEF DoneMeansFull
    <2>11. QED
      BY <2>2, <2>3, <2>8, <2>9, <2>10 DEF CatalogueInv
  <1>3. CASE UNCHANGED watches /\ seeder' = [seeder EXCEPT ![p].pc = "failed"]
    <2>1. RunOK([seeder[p] EXCEPT !.pc = "failed"])
      BY <1>1 DEF RunOK, ScriptRun
    <2>2. QED  BY <1>3, <2>1, RunGoesTo DEF SaveWatch
  <1>4. QED  BY <1>2, <1>3 DEF SaveWatch

LEMMA RunStep ==
    ASSUME CatalogueInv, NEW p \in Seeders, Run(p)
    PROVE  CatalogueInv'
  <1> DEFINE run == [NotRun EXCEPT !.pc = "count"]
  <1>1. run \in ScriptRun /\ RunOK(run) /\ run.pc # "done"
    BY DEF NotRun, ScriptRun, RunOK
  <1>2. QED  BY <1>1, RunMoves DEF Run

-----------------------------------------------------------------------------
LEMMA InitCatalogue == Init => CatalogueInv
  <1> SUFFICES ASSUME Init PROVE CatalogueInv
    OBVIOUS
  <1>1. TypeOK
    BY NoCallOK, NotRunOK DEF Init, TypeOK
  <1>2. QED
    BY <1>1, FS_EmptySet, NoCallOK, NotRunOK
    DEF Init, CatalogueInv, EveryWatchHasItsPassport, OrphansAreSeeds,
        DoneMeansFull

LEMMA NextCatalogue ==
    ASSUME CatalogueInv, [Next]_vars
    PROVE  CatalogueInv'
  <1>1. ASSUME NEW c \in Creators, CreateWatch(c) \/ CreatePassport(c)
        PROVE  CatalogueInv'
    BY <1>1, CreationProceeds DEF CreateWatch, CreatePassport
  <1>2. ASSUME NEW c \in Creators, CreateFails(c) PROVE CatalogueInv'
    BY <1>2, CreationProceeds DEF CreateFails
  <1>3. ASSUME NEW p \in Seeders, Kill(p) PROVE CatalogueInv'
    BY <1>3, NotRunOK, RunMoves DEF Kill
  <1>4. CASE UNCHANGED vars
    BY <1>4
    DEF vars, CatalogueInv, TypeOK, CreationOK, RunOK,
        EveryWatchHasItsPassport, OrphansAreSeeds, DoneMeansFull, Seeded
  <1>5. QED
    BY <1>1, <1>2, <1>3, <1>4, CreateStep, LinkWatchStep, RunStep, CountStep,
       SavePassportStep, SaveWatchStep
    DEF Next, Progress, Script

LEMMA CatalogueInvariance == Spec => []CatalogueInv
  BY InitCatalogue, NextCatalogue, PTL DEF Spec

\* Passports, watches, calls and runs stay well typed; a run's index never
\* passes SeedSize + 1.
THEOREM CatalogueTyped == Spec => []TypeOK
  <1>1. CatalogueInv => TypeOK
    BY DEF CatalogueInv
  <1>2. QED  BY <1>1, CatalogueInvariance, PTL

\* A committed watch is linked to the passport of its serial number, through
\* WatchesService.create and through the script alike.
THEOREM WatchesHavePassports == Spec => []EveryWatchHasItsPassport
  <1>1. CatalogueInv => EveryWatchHasItsPassport
    BY DEF CatalogueInv
  <1>2. QED  BY <1>1, CatalogueInvariance, PTL

\* Only the script's two separate saves can leave a passport without a watch.
THEOREM OrphansComeFromTheScript == Spec => []OrphansAreSeeds
  <1>1. CatalogueInv => OrphansAreSeeds
    BY DEF CatalogueInv
  <1>2. QED  BY <1>1, CatalogueInvariance, PTL

\* A run that says it is done leaves as many seeded watches as it was to make,
\* for any number of runs one after the other or at once.
THEOREM DoneIsFull == Spec => []DoneMeansFull
  <1>1. CatalogueInv => DoneMeansFull
    BY DEF CatalogueInv
  <1>2. QED  BY <1>1, CatalogueInvariance, PTL

-----------------------------------------------------------------------------
(* The keys of watches. *)

\* No two watches of the catalogue share a reference number or a serial number.
UniqueKeys == \A v, w \in watches : SameKey(v, w) => v = w

\* A call that has inserted its watch, and not committed it.
HoldsKey(c) == creator[c].pc \in {"insertPassport", "linkWatch"}

\* What has been inserted, committed or not, has keys of its own.
KeysInv ==
    /\ UniqueKeys
    /\ \A c \in Creators : HoldsKey(c) => ~Taken(creator[c].watch)
    /\ \A c, d \in Creators :
          c # d /\ HoldsKey(c) /\ HoldsKey(d)
              => ~SameKey(creator[c].watch, creator[d].watch)

LEMMA InitKeys == Init => KeysInv
  BY DEF Init, KeysInv, UniqueKeys, HoldsKey, NoCall

\* The table stays, and nobody holds a key who did not hold it before.
LEMMA KeysStay ==
    ASSUME CatalogueInv, KeysInv, UNCHANGED watches,
           \A c \in Creators : HoldsKey(c)' =>
               HoldsKey(c) /\ creator'[c].watch = creator[c].watch
    PROVE  KeysInv'
  BY DEF KeysInv, UniqueKeys, Taken, SameKey

LEMMA CreateWatchKeys ==
    ASSUME CatalogueInv, KeysInv, NEW c \in Creators, CreateWatch(c)
    PROVE  KeysInv'
  <1> DEFINE watch == creator[c].watch
  <1>1. creator[c].pc = "insertWatch" /\ ~WatchBusy(watch)
        /\ UNCHANGED watches /\ creator \in [Creators -> Creation]
    BY DEF CreateWatch, CatalogueInv, TypeOK
  <1>2. CASE Taken(watch) /\ creator' = [creator EXCEPT ![c] = NoCall]
    <2>1. \A d \in Creators : HoldsKey(d)' => d # c /\ creator'[d] = creator[d]
      BY <1>1, <1>2 DEF HoldsKey, NoCall
    <2>2. QED  BY <1>1, <2>1, KeysStay DEF HoldsKey
  <1>3. CASE ~Taken(watch) /\ creator' = [creator EXCEPT ![c].pc = "insertPassport"]
    <2>1. \A d \in Creators : creator'[d].watch = creator[d].watch
      BY <1>1, <1>3 DEF Creation
    <2>2. \A d \in Creators : HoldsKey(d)' => d = c \/ HoldsKey(d)
      BY <1>1, <1>3 DEF HoldsKey
    <2>3. \A d \in Creators : HoldsKey(d) =>
              ~SameKey(creator[d].watch, watch) /\ ~SameKey(watch, creator[d].watch)
      BY <1>1 DEF WatchBusy, SameKey, HoldsKey
    <2> HIDE DEF watch
    <2>4. \A d \in Creators : HoldsKey(d)' => ~Taken(creator[d].watch)'
      BY <1>1, <1>3, <2>1, <2>2 DEF KeysInv, Taken, SameKey, watch
    <2>5. ASSUME NEW d \in Creators, NEW e \in Creators, d # e,
                 HoldsKey(d)', HoldsKey(e)'
          PROVE  ~SameKey(creator'[d].watch, creator'[e].watch)
      <3>1. CASE d = c
        BY <2>1, <2>2, <2>3, <2>5, <3>1 DEF watch
      <3>2. CASE e = c
        BY <2>1, <2>2, <2>3, <2>5, <3>2 DEF watch
      <3>3. CASE d # c /\ e # c
        BY <2>1, <2>2, <2>5, <3>3 DEF KeysInv
      <3>4. QED  BY <3>1, <3>2, <3>3
    <2>6. UniqueKeys'
      BY <1>1 DEF KeysInv, UniqueKeys, SameKey
    <2>7. \A d, e \in Creators : d # e /\ HoldsKey(d)' /\ HoldsKey(e)'
              => ~SameKey(creator[d].watch, creator[e].watch)'
      BY <2>5 DEF SameKey
    <2>8. QED  BY <2>4, <2>6, <2>7 DEF KeysInv
  <1>4. QED  BY <1>2, <1>3 DEF CreateWatch

\* The keys of a committed watch are those its call held.
LEMMA LinkWatchKeys ==
    ASSUME CatalogueInv, KeysInv, NEW c \in Creators, LinkWatch(c)
    PROVE  KeysInv'
  <1> DEFINE watch == creator[c].watch
             linked == [watch EXCEPT !.passport = watch.serial]
  <1>1. /\ watch \in Watch /\ HoldsKey(c)
        /\ creator \in [Creators -> Creation]
    BY DEF LinkWatch, CatalogueInv, CreationOK, HoldsKey, TypeOK
  <1>2. linked.serial = watch.serial /\ linked.reference = watch.reference
    BY <1>1 DEF Watch
  <1>3. /\ watches' = watches \cup {linked}
        /\ creator' = [creator EXCEPT ![c] = NoCall]
    BY DEF LinkWatch
  <1> HIDE DEF linked
  <1>4. \A v : SameKey(v, linked) <=> SameKey(v, watch)
    BY <1>2 DEF SameKey
  <1>5. \A v \in watches : ~SameKey(v, watch) /\ ~SameKey(watch, v)
    BY <1>1 DEF KeysInv, Taken, SameKey
  <1>6. UniqueKeys'
    <2>1. \A v \in watches : ~SameKey(v, linked) /\ ~SameKey(linked, v)
      BY <1>2, <1>5 DEF SameKey
    <2>2. \A v, w \in watches \cup {linked} : SameKey(v, w) => v = w
      BY <2>1 DEF KeysInv, UniqueKeys
    <2>3. QED  BY <1>3, <2>2 DEF UniqueKeys, SameKey
  <1>7. ASSUME NEW d \in Creators, HoldsKey(d)'
        PROVE  /\ d # c /\ creator'[d] = creator[d] /\ HoldsKey(d)
               /\ ~Taken(creator[d].watch)'
    <2>1. d # c /\ creator'[d] = creator[d]
      BY <1>1, <1>3, <1>7 DEF HoldsKey, NoCall
    <2>2. HoldsKey(d)
      BY <1>7, <2>1 DEF HoldsKey
    <2>3. ~SameKey(watch, creator[d].watch) /\ ~Taken(creator[d].watch)
      BY <1>1, <2>1, <2>2 DEF KeysInv
    <2>4. ~SameKey(linked, creator[d].watch)
      BY <1>2, <2>3 DEF SameKey
    <2>5. \A v \in watches' : ~SameKey(v, creator'[d].watch)
      BY <1>3, <2>1, <2>3, <2>4 DEF Taken
    <2>6. QED  BY <2>1, <2>2, <2>5 DEF Taken, SameKey
  <1>8. \A d, e \in Creators : d # e /\ HoldsKey(d)' /\ HoldsKey(e)'
            => ~SameKey(creator[d].watch, creator[e].watch)'
    BY <1>7 DEF KeysInv, SameKey
  <1>9. QED  BY <1>6, <1>7, <1>8 DEF KeysInv

\* The script inserts only what nobody has or holds.
LEMMA SaveWatchKeys ==
    ASSUME CatalogueInv, KeysInv, NEW p \in Seeders, SaveWatch(p)
    PROVE  KeysInv'
  <1> DEFINE seed == SeedWatch(seeder[p].index)
  <1>1. ~WatchBusy(seed) /\ UNCHANGED creator
    BY DEF SaveWatch
  <1>2. CASE UNCHANGED watches
    BY <1>1, <1>2, KeysStay DEF HoldsKey
  <1>3. CASE ~Taken(seed) /\ watches' = watches \cup {seed}
    <2> HIDE DEF seed
    <2>1. \A v \in watches : ~SameKey(v, seed) /\ ~SameKey(seed, v)
      BY <1>3 DEF Taken, SameKey
    <2>2. UniqueKeys'
      <3>1. \A v, w \in watches \cup {seed} : SameKey(v, w) => v = w
        BY <2>1 DEF KeysInv, UniqueKeys
      <3>2. QED  BY <1>3, <3>1 DEF UniqueKeys, SameKey
    <2>3. \A d \in Creators : HoldsKey(d) => ~SameKey(seed, creator[d].watch)
      BY <1>1 DEF WatchBusy, HoldsKey, SameKey
    <2>4. \A d \in Creators : HoldsKey(d) =>
              \A v \in watches' : ~SameKey(v, creator[d].watch)
      BY <1>3, <2>3 DEF KeysInv, Taken
    <2>5. \A d \in Creators : HoldsKey(d)' => ~Taken(creator[d].watch)'
      BY <1>1, <2>4 DEF HoldsKey, Taken, SameKey
    <2>6. QED
      BY <1>1, <2>2, <2>5 DEF KeysInv, HoldsKey, SameKey
  <1>4. QED  BY <1>2, <1>3 DEF SaveWatch

LEMMA NextKeys ==
    ASSUME CatalogueInv, KeysInv, [Next]_vars
    PROVE  KeysInv'
  <1>0. creator \in [Creators -> Creation]
    BY DEF CatalogueInv, TypeOK
  <1>1. ASSUME NEW c \in Creators, NEW reference \in References,
               NEW serial \in Serials, Create(c, reference, serial)
        PROVE  KeysInv'
    <2>1. \A d \in Creators : HoldsKey(d)' => creator'[d] = creator[d]
      BY <1>0, <1>1 DEF Create, HoldsKey
    <2>2. QED  BY <1>1, <2>1, KeysStay DEF Create, HoldsKey
  <1>2. ASSUME NEW c \in Creators, CreatePassport(c) PROVE KeysInv'
    <2>1. \A d \in Creators : HoldsKey(d)' =>
              HoldsKey(d) /\ creator'[d].watch = creator[d].watch
      BY <1>0, <1>2 DEF CreatePassport, HoldsKey, NoCall, Creation
    <2>2. QED  BY <1>2, <2>1, KeysStay DEF CreatePassport
  <1>3. ASSUME NEW c \in Creators, CreateFails(c) PROVE KeysInv'
    <2>1. \A d \in Creators : HoldsKey(d)' => creator'[d] = creator[d]
      BY <1>0, <1>3 DEF CreateFails, HoldsKey, NoCall
    <2>2. QED  BY <1>3, <2>1, KeysStay DEF CreateFails, HoldsKey
  <1>4. ASSUME NEW p \in Seeders, Run(p) \/ Count(p) \/ SavePassport(p) \/ Kill(p)
        PROVE  KeysInv'
    BY <1>4, KeysStay DEF Run, Count, SavePassport, Kill, HoldsKey
  <1>5. CASE UNCHANGED vars
    BY <1>5, KeysStay DEF vars, HoldsKey
  <1>6. QED
    BY <1>1, <1>2, <1>3, <1>4, <1>5, CreateWatchKeys, LinkWatchKeys,
       SaveWatchKeys
    DEF Next, Progress, Script

\* Sellers and runs of the script that meet on a reference number or a serial
\* number: one watch of them gets into the catalogue, the others wait for its
\* transaction and are refused.
THEOREM KeysAreUnique == Spec => []UniqueKeys
  <1>1. KeysInv => UniqueKeys
    BY DEF KeysInv
  <1>2. QED
    BY <1>1, InitKeys, NextKeys, CatalogueInvariance, InitCatalogue,
       NextCatalogue, PTL DEF Spec

\* A call of create whose INSERT has to wait for another transaction.
Waits(c) ==
    \/ creator[c].pc = "insertWatch" /\ WatchBusy(creator[c].watch)
    \/ creator[c].pc = "insertPassport" /\ PassportBusy(creator[c].watch.serial)

OwnersNeverWait == \A c \in Creators : HoldsKey(c) => ~Waits(c)

\* A call that has its watch in the table, hence in both unique indexes, waits
\* for nothing more: the passport of a serial number is inserted by the
\* transaction that holds the watch of that number.  So create, with its two
\* INSERTs in one transaction, never deadlocks: whoever waits for a serial
\* number waits for such a call, and whoever waits for a reference waits for
\* one of them or for one that waits for a serial number.
THEOREM CreateNeverDeadlocks == Spec => []OwnersNeverWait
  <1>1. ASSUME KeysInv, NEW c \in Creators, creator[c].pc = "insertPassport",
               PassportBusy(creator[c].watch.serial)
        PROVE  FALSE
    <2>1. PICK d \in Creators : /\ creator[d].pc = "linkWatch"
                                /\ creator[d].watch.serial = creator[c].watch.serial
      BY <1>1 DEF PassportBusy
    <2>2. d # c /\ HoldsKey(c) /\ HoldsKey(d)
      BY <1>1, <2>1 DEF HoldsKey
    <2>3. QED  BY <1>1, <2>1, <2>2 DEF KeysInv, SameKey
  <1>2. KeysInv => OwnersNeverWait
    BY <1>1 DEF OwnersNeverWait, Waits, HoldsKey
  <1>3. QED
    BY <1>2, InitKeys, NextKeys, CatalogueInvariance, InitCatalogue,
       NextCatalogue, PTL DEF Spec

\* With one watch to a reference number there are no more watches than those.
LEMMA WatchesBounded ==
    ASSUME CatalogueInv, UniqueKeys, IsFiniteSet(References)
    PROVE  /\ Cardinality(References) \in Nat
           /\ Cardinality(watches) \in Nat
           /\ Cardinality(watches) <= Cardinality(References) + SeedSize
  <1> DEFINE Refs == References \cup (1..SeedSize)
             f == [w \in watches |-> w.reference]
  <1>1. IsFiniteSet(1..SeedSize) /\ Cardinality(1..SeedSize) = SeedSize
    BY FS_Interval
  <1>2. /\ IsFiniteSet(Refs)
        /\ Cardinality(Refs) = Cardinality(References) + SeedSize
                - Cardinality(References \cap (1..SeedSize))
    BY <1>1, FS_Union
  <1>3. /\ Cardinality(References) \in Nat /\ Cardinality(Refs) \in Nat
        /\ Cardinality(References \cap (1..SeedSize)) \in Nat
        /\ Cardinality(watches) \in Nat
    BY <1>1, <1>2, FS_CardinalityType, FS_Intersection DEF CatalogueInv
  <1>4. f \in [watches -> Refs]
    BY DEF CatalogueInv, TypeOK, Watch
  <1>5. \A v, w \in watches : f[v] = f[w] => v = w
    BY DEF UniqueKeys, SameKey
  <1>6. f \in Injection(watches, Refs)
    BY <1>4, <1>5 DEF Injection, IsInjective
  <1>7. Cardinality(watches) <= Cardinality(Refs)
    BY <1>2, <1>6, FS_Injection
  <1>8. QED
    <2> HIDE DEF Refs
    <2>1. QED  BY <1>2, <1>3, <1>7

-----------------------------------------------------------------------------
(* Reading the catalogue page by page. *)

\* The rows are those of the table, as many of them.
ListingOK ==
    /\ listing \in Seq(Watch)
    /\ \A w \in watches : \E k \in 1..Len(listing) : listing[k] = w
    /\ Len(listing) = Cardinality(watches)

\* What the client has not seen of the old watches lies after the first n.
UnseenBeyond(n) ==
    \A k \in 1..Len(listing) :
        listing[k] \in browser.since => listing[k] \in browser.seen \/ n < k

BrowserOK ==
    /\ browser \in [ pc : {"idle", "ask", "count", "done"}, page : Nat \ {0},
                     seen : SUBSET Watch, since : SUBSET watches ]
    /\ browser.pc = "ask" => UnseenBeyond(Skip(browser.page))
    /\ browser.pc = "count" => UnseenBeyond(Skip(browser.page + 1))
    /\ NothingSkipped

BrowsingInv == CatalogueInv /\ ListingOK /\ BrowserOK

USE LimitAssumption

-----------------------------------------------------------------------------
LEMMA SkipPage ==
    ASSUME NEW page \in Nat \ {0}
    PROVE  /\ Skip(page) \in Nat /\ Skip(page + 1) \in Nat
           /\ Skip(page + 1) = Skip(page) + Limit
  BY DEF Skip

\* The pages up to totalPages hold all of the total.
LEMMA PagesHoldAll ==
    ASSUME NEW total \in Nat, NEW page \in Nat \ {0},
           ~(page < TotalPages(total))
    PROVE  total <= Skip(page + 1)
  <1>1. CASE total = 0
    BY <1>1, SkipPage
  <1>2. CASE total # 0
    <2> DEFINE n == total + Limit - 1
               pages == n \div Limit
    <2>1. n \in Nat /\ pages \in Nat /\ n < pages * Limit + Limit
      OBVIOUS
    <2>2. TotalPages(total) = pages
      BY <1>2 DEF TotalPages
    <2>3. pages <= page
      BY <2>1, <2>2
    <2>4. pages * Limit <= page * Limit
      BY <2>1, <2>3
    <2>5. Skip(page + 1) = page * Limit
      BY DEF Skip
    <2>6. QED
      BY <2>1, <2>4, <2>5
  <1>3. QED  BY <1>1, <1>2

\* InsertAt puts the new element at i and moves the ones from i on by one.
LEMMA Inserted ==
    ASSUME NEW S, NEW seq \in Seq(S), NEW e \in S,
           NEW i \in 1..(Len(seq) + 1)
    PROVE  LET longer == InsertAt(seq, i, e) IN
           /\ longer \in Seq(S) /\ Len(longer) = Len(seq) + 1
           /\ \A k \in 1..(i - 1) : longer[k] = seq[k]
           /\ longer[i] = e
           /\ \A k \in i..Len(seq) : longer[k + 1] = seq[k]
  <1> DEFINE front == SubSeq(seq, 1, i - 1)
             back == SubSeq(seq, i, Len(seq))
             start == front \o <<e>>
             longer == start \o back
  <1>0. Len(seq) \in Nat /\ \A k \in 1..Len(seq) : seq[k] \in S
    BY ElementOfSeq, LenProperties
  <1>1. /\ front \in Seq(S) /\ Len(front) = i - 1
        /\ \A k \in 1..(i - 1) : front[k] = seq[k]
    <2>1. \A k \in 1..(i - 1) : seq[k] \in S
      BY <1>0
    <2>2. QED
      BY <1>0, <2>1, SubSeqProperties
  <1>2. /\ back \in Seq(S) /\ Len(back) = Len(seq) - i + 1
        /\ \A k \in 1..(Len(seq) - i + 1) : back[k] = seq[i + k - 1]
    <2>1. \A k \in i..Len(seq) : seq[k] \in S
      BY <1>0
    <2>2. QED
      BY <1>0, <2>1, SubSeqProperties
  <1>3. <<e>> \in Seq(S) /\ Len(<<e>>) = 1 /\ <<e>>[1] = e
    OBVIOUS
  <1> HIDE DEF front, back
  <1>4. /\ start \in Seq(S) /\ Len(start) = i
        /\ \A k \in 1..(i - 1) : start[k] = seq[k]
        /\ start[i] = e
    BY <1>0, <1>1, <1>3, ConcatProperties
  <1> HIDE DEF start
  <1>5. /\ longer \in Seq(S) /\ Len(longer) = Len(seq) + 1
        /\ \A k \in 1..(Len(seq) + 1) :
               longer[k] = IF k <= i THEN start[k] ELSE back[k - i]
    <2>1. /\ longer \in Seq(S) /\ Len(longer) = Len(start) + Len(back)
          /\ \A k \in 1..(Len(start) + Len(back)) : longer[k] =
                 IF k <= Len(start) THEN start[k] ELSE back[k - Len(start)]
      BY <1>2, <1>4, ConcatProperties
    <2>2. Len(start) + Len(back) = Len(seq) + 1 /\ Len(start) = i
      BY <1>0, <1>2, <1>4
    <2> HIDE DEF longer
    <2>3. QED  BY <2>1, <2>2
  <1>6. \A k \in 1..(i - 1) : longer[k] = seq[k]
    BY <1>0, <1>4, <1>5
  <1>7. longer[i] = e
    BY <1>0, <1>4, <1>5
  <1>8. ASSUME NEW k \in i..Len(seq) PROVE longer[k + 1] = seq[k]
    <2>1. longer[k + 1] = back[k + 1 - i]
      BY <1>0, <1>5
    <2>2. k + 1 - i \in 1..(Len(seq) - i + 1) /\ i + (k + 1 - i) - 1 = k
      BY <1>0
    <2>3. QED
      BY <1>2, <2>1, <2>2
  <1>9. InsertAt(seq, i, e) = longer
    BY DEF InsertAt, longer, start, front, back
  <1>10. QED
    BY <1>5, <1>6, <1>7, <1>8, <1>9

\* Nothing but a new row changes the table, and a row at a time.
LEMMA OneRowMore ==
    ASSUME CatalogueInv, Next
    PROVE  watches' = watches \/ \E w \in Watch : watches' = watches \cup {w}
  <1>1. ASSUME NEW c \in Creators, LinkWatch(c)
        PROVE  \E w \in Watch : watches' = watches \cup {w}
    <2> DEFINE watch == creator[c].watch
    <2>1. watch \in Watch
      BY <1>1 DEF CatalogueInv, CreationOK, LinkWatch
    <2>2. [watch EXCEPT !.passport = watch.serial] \in Watch
      BY <2>1 DEF Watch
    <2>3. QED
      BY <1>1, <2>2 DEF LinkWatch
  <1>2. ASSUME NEW p \in Seeders, SaveWatch(p)
        PROVE  \/ watches' = watches
               \/ \E w \in Watch : watches' = watches \cup {w}
    <2>1. seeder[p].index \in 1..SeedSize
      BY <1>2 DEF CatalogueInv, RunOK, SaveWatch
    <2>2. QED
      BY <1>2, <2>1, SeedWatchType DEF SaveWatch
  <1>3. QED
    BY <1>1, <1>2
    DEF Next, Progress, Script, Create, CreateWatch, CreatePassport,
        CreateFails, Run, Count, SavePassport, Kill

-----------------------------------------------------------------------------
LEMMA InitBrowsing == BrowseInit => BrowsingInv
  <1> SUFFICES ASSUME BrowseInit PROVE BrowsingInv
    OBVIOUS
  <1>1. CatalogueInv
    BY InitCatalogue DEF BrowseInit
  <1>2. ListingOK
    BY FS_EmptySet DEF BrowseInit, Init, ListingOK
  <1>3. BrowserOK
    BY DEF BrowseInit, BrowserOK, AtRest, NothingSkipped
  <1>4. QED  BY <1>1, <1>2, <1>3 DEF BrowsingInv

\* A new row goes in somewhere: the old ones move away from the first page.
LEMMA RowAppears ==
    ASSUME BrowsingInv, CatalogueInv', UNCHANGED browser,
           NEW w \in Watch, w \notin watches, watches' = watches \cup {w},
           NEW i \in 1..(Len(listing) + 1), listing' = InsertAt(listing, i, w)
    PROVE  BrowsingInv'
  <1>1. listing \in Seq(Watch) /\ Len(listing) \in Nat
    BY DEF BrowsingInv, ListingOK
  <1>2. /\ listing' \in Seq(Watch) /\ Len(listing') = Len(listing) + 1
        /\ \A k \in 1..(i - 1) : listing'[k] = listing[k]
        /\ listing'[i] = w
        /\ \A k \in i..Len(listing) : listing'[k + 1] = listing[k]
    BY <1>1, Inserted
  <1>3. \A v \in watches' : \E k \in 1..Len(listing') : listing'[k] = v
    <2> SUFFICES ASSUME NEW v \in watches'
                 PROVE  \E k \in 1..Len(listing') : listing'[k] = v
      OBVIOUS
    <2>1. CASE v = w
      BY <1>1, <1>2, <2>1
    <2>2. CASE v \in watches
      <3>1. PICK k \in 1..Len(listing) : listing[k] = v
        BY <2>2 DEF BrowsingInv, ListingOK
      <3>2. CASE k < i
        BY <1>1, <1>2, <3>1, <3>2
      <3>3. CASE i <= k
        <4>1. k + 1 \in 1..Len(listing') /\ listing'[k + 1] = v
          BY <1>1, <1>2, <3>1, <3>3
        <4>2. QED  BY <4>1
      <3>4. QED  BY <1>1, <3>2, <3>3
    <2>3. QED  BY <2>1, <2>2
  <1>4. Len(listing') = Cardinality(watches')
    <2>1. IsFiniteSet(watches) /\ Cardinality(watches) = Len(listing)
      BY DEF BrowsingInv, CatalogueInv, ListingOK
    <2>2. Cardinality(watches \cup {w}) = Cardinality(watches) + 1
      BY <2>1, FS_AddElement
    <2>3. QED  BY <1>2, <2>1, <2>2
  <1>5. ASSUME NEW n \in Nat, UnseenBeyond(n) PROVE UnseenBeyond(n)'
    <2> SUFFICES ASSUME NEW k \in 1..Len(listing'),
                        listing'[k] \in browser.since
                 PROVE  listing'[k] \in browser.seen \/ n < k
      BY DEF UnseenBeyond
    <2>0. w \notin browser.since
      BY DEF BrowsingInv, BrowserOK
    <2>1. CASE k < i
      BY <1>1, <1>2, <1>5, <2>1 DEF UnseenBeyond
    <2>2. CASE k = i
      BY <1>2, <2>0, <2>2
    <2>3. CASE i < k
      <3>1. k - 1 \in 1..Len(listing) /\ listing'[k] = listing[k - 1]
        <4>1. k - 1 \in i..Len(listing) /\ (k - 1) + 1 = k
          BY <1>1, <1>2, <2>3
        <4>2. QED  BY <1>1, <1>2, <4>1
      <3>2. listing[k - 1] \in browser.seen \/ n < k - 1
        BY <1>5, <3>1 DEF UnseenBeyond
      <3>3. QED  BY <1>1, <3>1, <3>2
    <2>4. QED  BY <1>1, <1>2, <2>1, <2>2, <2>3
  <1>6. BrowserOK'
    <2>1. BrowserOK /\ browser.page \in Nat \ {0}
      BY DEF BrowsingInv, BrowserOK
    <2>2. Skip(browser.page) \in Nat /\ Skip(browser.page + 1) \in Nat
      BY <2>1, SkipPage
    <2>3. UNCHANGED <<Skip(browser.page), Skip(browser.page + 1)>>
      BY DEF Skip
    <2>4. QED
      BY <1>5, <2>1, <2>2, <2>3 DEF BrowserOK, NothingSkipped
  <1>7. QED
    BY <1>2, <1>3, <1>4, <1>6 DEF BrowsingInv, ListingOK

LEMMA AppearKeeps ==
    ASSUME BrowsingInv, Appear, UNCHANGED browser
    PROVE  BrowsingInv'
  <1>1. CatalogueInv /\ CatalogueInv'
    BY NextCatalogue DEF BrowsingInv, Appear
  <1>2. CASE watches' = watches /\ UNCHANGED listing
    <2>1. ListingOK'
      BY <1>2 DEF BrowsingInv, ListingOK
    <2>2. BrowserOK'
      BY <1>2 DEF BrowsingInv, BrowserOK, UnseenBeyond, Skip, NothingSkipped
    <2>3. QED  BY <1>1, <2>1, <2>2 DEF BrowsingInv
  <1>3. CASE \E w \in watches' \ watches, i \in 1..(Len(listing) + 1) :
                 listing' = InsertAt(listing, i, w)
    <2>1. PICK w \in watches' \ watches, i \in 1..(Len(listing) + 1) :
              listing' = InsertAt(listing, i, w)
      BY <1>3
    <2>2. watches' = watches \cup {w} /\ w \in Watch
      BY <1>1, <2>1, OneRowMore DEF Appear
    <2>3. QED
      BY <1>1, <2>1, <2>2, RowAppears
  <1>4. QED  BY <1>2, <1>3 DEF Appear

LEMMA BeginKeeps ==
    ASSUME BrowsingInv, Begin, UNCHANGED <<vars, listing>>
    PROVE  BrowsingInv'
  <1>1. CatalogueInv' /\ ListingOK'
    <2>1. CatalogueInv'
      BY NextCatalogue DEF BrowsingInv
    <2>2. QED  BY <2>1 DEF BrowsingInv, ListingOK, vars
  <1>2. browser' = [ pc |-> "ask", page |-> 1, seen |-> {}, since |-> watches ]
    BY DEF Begin, AtRest
  <1>3. UnseenBeyond(Skip(1))'
    BY DEF UnseenBeyond, Skip
  <1>4. BrowserOK'
    BY <1>2, <1>3 DEF BrowserOK, NothingSkipped, vars
  <1>5. QED  BY <1>1, <1>4 DEF BrowsingInv

\* The page adds the rows after Skip(page) to what was seen; a page that is not
\* full is the end of the listing.
LEMMA SelectPageKeeps ==
    ASSUME BrowsingInv, SelectPage, UNCHANGED <<vars, listing>>
    PROVE  BrowsingInv'
  <1> DEFINE first == Skip(browser.page) + 1
             last == Skip(browser.page) + Limit
             rows == {listing[k] : k \in (first..last) \cap DOMAIN listing}
  <1>1. CatalogueInv' /\ ListingOK'
    <2>1. CatalogueInv'
      BY NextCatalogue DEF BrowsingInv
    <2>2. QED  BY <2>1 DEF BrowsingInv, ListingOK, vars
  <1>2. /\ listing \in Seq(Watch) /\ Len(listing) \in Nat
        /\ DOMAIN listing = 1..Len(listing)
        /\ \A k \in 1..Len(listing) : listing[k] \in Watch
    BY DEF BrowsingInv, ListingOK
  <1>3. /\ browser \in [ pc : {"idle", "ask", "count", "done"},
                         page : Nat \ {0}, seen : SUBSET Watch,
                         since : SUBSET watches ]
        /\ browser.pc = "ask" /\ UnseenBeyond(Skip(browser.page))
    BY DEF BrowsingInv, BrowserOK, SelectPage
  <1>4. /\ Skip(browser.page) \in Nat
        /\ Skip(browser.page + 1) = last
    BY <1>3, SkipPage
  <1>5. PICK pc \in {"done", "count"} :
            /\ browser' = [browser EXCEPT !.seen = @ \cup rows, !.pc = pc]
            /\ pc = "done" => last > Len(listing)
    BY DEF SelectPage
  <1>6. \A k \in 1..Len(listing) :
            listing[k] \in browser.since =>
                listing[k] \in browser.seen \cup rows \/ last < k
    BY <1>2, <1>3, <1>4 DEF UnseenBeyond
  <1>7. rows \subseteq Watch
    BY <1>2
  <1> HIDE DEF rows
  <1>8. /\ browser'.pc = pc /\ browser'.page = browser.page
        /\ browser'.seen = browser.seen \cup rows
        /\ browser'.since = browser.since
    BY <1>3, <1>5
  <1>9. browser' \in [ pc : {"idle", "ask", "count", "done"},
                       page : Nat \ {0}, seen : SUBSET Watch,
                       since : SUBSET watches' ]
    BY <1>3, <1>5, <1>7 DEF vars
  <1>10. pc = "count" => UnseenBeyond(Skip(browser.page + 1))'
    <2>1. Skip(browser.page + 1)' = last
      BY <1>4, <1>8 DEF Skip
    <2>2. QED
      BY <1>6, <1>8, <2>1 DEF UnseenBeyond
  <1>11. pc = "done" => browser.since \subseteq browser.seen \cup rows
    <2> SUFFICES ASSUME pc = "done", NEW w \in browser.since
                 PROVE  w \in browser.seen \cup rows
      OBVIOUS
    <2>1. PICK k \in 1..Len(listing) : listing[k] = w
      BY <1>3 DEF BrowsingInv, ListingOK
    <2>2. ~(last < k)
      BY <1>2, <1>4, <1>5, <2>1
    <2>3. QED  BY <1>6, <2>1, <2>2
  <1>12. BrowserOK'
    BY <1>8, <1>9, <1>10, <1>11 DEF BrowserOK, NothingSkipped
  <1>13. QED  BY <1>1, <1>12 DEF BrowsingInv

\* The client stops when the pages it has read hold all that was counted.
LEMMA CountAllKeeps ==
    ASSUME BrowsingInv, CountAll, UNCHANGED <<vars, listing>>
    PROVE  BrowsingInv'
  <1> DEFINE total == Cardinality(watches)
  <1>1. CatalogueInv' /\ ListingOK'
    <2>1. CatalogueInv'
      BY NextCatalogue DEF BrowsingInv
    <2>2. QED  BY <2>1 DEF BrowsingInv, ListingOK, vars
  <1>2. /\ browser \in [ pc : {"idle", "ask", "count", "done"},
                         page : Nat \ {0}, seen : SUBSET Watch,
                         since : SUBSET watches ]
        /\ browser.pc = "count" /\ UnseenBeyond(Skip(browser.page + 1))
    BY DEF BrowsingInv, BrowserOK, CountAll
  <1>3. CASE browser.page < TotalPages(total)
    <2>1. browser' = [browser EXCEPT !.pc = "ask", !.page = @ + 1]
      BY <1>3 DEF CountAll
    <2>2. /\ browser'.pc = "ask" /\ browser'.page = browser.page + 1
          /\ browser'.seen = browser.seen /\ browser'.since = browser.since
      BY <1>2, <2>1
    <2>3. UnseenBeyond(Skip(browser.page))'
      BY <1>2, <2>2 DEF UnseenBeyond, Skip
    <2>4. browser' \in [ pc : {"idle", "ask", "count", "done"},
                         page : Nat \ {0}, seen : SUBSET Watch,
                         since : SUBSET watches' ]
      <3>1. browser.page + 1 \in Nat \ {0}
        BY <1>2
      <3>2. QED  BY <1>2, <2>1, <3>1 DEF vars
    <2>5. QED
      BY <1>1, <2>2, <2>3, <2>4 DEF BrowsingInv, BrowserOK, NothingSkipped
  <1>4. CASE ~(browser.page < TotalPages(total))
    <2>1. browser' = [browser EXCEPT !.pc = "done"]
      BY <1>4 DEF CountAll
    <2>2. /\ browser'.pc = "done"
          /\ browser'.seen = browser.seen /\ browser'.since = browser.since
      BY <1>2, <2>1
    <2>3. total \in Nat /\ Len(listing) = total
      BY FS_CardinalityType DEF BrowsingInv, CatalogueInv, ListingOK
    <2>4. Len(listing) <= Skip(browser.page + 1)
      BY <1>2, <1>4, <2>3, PagesHoldAll
    <2>5. ASSUME NEW w \in browser.since PROVE w \in browser.seen
      <3>1. PICK k \in 1..Len(listing) : listing[k] = w
        BY <1>2 DEF BrowsingInv, ListingOK
      <3>2. Skip(browser.page + 1) \in Nat
        BY <1>2, SkipPage
      <3>3. ~(Skip(browser.page + 1) < k)
        BY <2>3, <2>4, <3>1, <3>2
      <3>4. QED  BY <1>2, <3>1, <3>3 DEF UnseenBeyond
    <2>6. browser' \in [ pc : {"idle", "ask", "count", "done"},
                         page : Nat \ {0}, seen : SUBSET Watch,
                         since : SUBSET watches' ]
      BY <1>2, <2>1 DEF vars
    <2>7. QED
      BY <1>1, <2>2, <2>5, <2>6 DEF BrowsingInv, BrowserOK, NothingSkipped
  <1>5. QED  BY <1>3, <1>4

LEMMA NextBrowsing ==
    ASSUME BrowsingInv, [BrowseNext]_<<vars, listing, browser>>
    PROVE  BrowsingInv'
  <1>1. CASE UNCHANGED <<vars, listing, browser>>
    <2>1. CatalogueInv'
      BY <1>1, NextCatalogue DEF BrowsingInv
    <2>2. ListingOK' /\ BrowserOK'
      BY <1>1 DEF BrowsingInv, ListingOK, BrowserOK, UnseenBeyond, Skip,
                  NothingSkipped, vars
    <2>3. QED  BY <2>1, <2>2 DEF BrowsingInv
  <1>2. QED
    BY <1>1, AppearKeeps, BeginKeeps, SelectPageKeeps, CountAllKeeps
    DEF BrowseNext

\* Reading to the last page shows every watch that was listed at the
\* beginning: WatchesService.findAll under any limit, whatever create and the
\* script commit between its pages and between a page and its count.
THEOREM PagesSkipNothing == BrowseSpec => []NothingSkipped
  <1>1. BrowsingInv => NothingSkipped
    BY DEF BrowsingInv, BrowserOK
  <1>2. QED
    BY <1>1, InitBrowsing, NextBrowsing, PTL DEF BrowseSpec

\* Reading disturbs nothing: what is proved of WatchCatalogue holds beside any
\* client of findAll.
THEOREM BrowsingOnlyReads == BrowseSpec => Spec
  <1>1. BrowseInit => Init
    BY DEF BrowseInit
  <1>2. [BrowseNext]_<<vars, listing, browser>> => [Next]_vars
    BY DEF BrowseNext, Appear
  <1>3. QED
    BY <1>1, <1>2, PTL DEF BrowseSpec, Spec
-----------------------------------------------------------------------------
(* What the pages show is the table, and how far the client can ask. *)

\* What TypeOK needs beside BrowsingInv.
PagesInv ==
    /\ KeysInv
    /\ \A k \in 1..Len(listing) : listing[k] \in watches
    /\ browser.page <= Cardinality(References) + SeedSize + 1

LEMMA InitPages == BrowseInit => PagesInv
  <1> SUFFICES ASSUME BrowseInit PROVE PagesInv
    OBVIOUS
  <1>1. KeysInv
    BY InitKeys DEF BrowseInit
  <1>2. Cardinality(References) \in Nat
    BY FS_CardinalityType
  <1>3. QED  BY <1>1, <1>2 DEF BrowseInit, AtRest, PagesInv

\* There are no more pages than watches.
LEMMA PagesBounded ==
    ASSUME NEW total \in Nat, NEW page \in Nat \ {0}, page < TotalPages(total)
    PROVE  page + 1 <= total
  <1>1. CASE total = 0
    BY <1>1 DEF TotalPages
  <1>2. CASE total # 0
    <2> DEFINE pages == (total + Limit - 1) \div Limit
    <2>1. TotalPages(total) = pages
      BY <1>2 DEF TotalPages
    <2>2. total + Limit - 1 \in Nat /\ pages \in Nat
          /\ pages * Limit <= total + Limit - 1
      OBVIOUS
    <2>3. ASSUME pages >= total + 1 PROVE FALSE
      <3>1. pages * Limit >= (total + 1) * Limit
        BY <2>2, <2>3
      <3>2. (total + 1) * Limit = total * Limit + Limit
        OBVIOUS
      <3>3. total * Limit >= total
        OBVIOUS
      <3>4. total * Limit \in Nat /\ (total + 1) * Limit \in Nat
            /\ pages * Limit \in Nat
        BY <2>2
      <3>5. QED  BY <2>2, <3>1, <3>2, <3>3, <3>4
    <2>4. QED  BY <2>1, <2>2, <2>3
  <1>3. QED  BY <1>1, <1>2

LEMMA NextPages ==
    ASSUME BrowsingInv, PagesInv, [BrowseNext]_<<vars, listing, browser>>
    PROVE  PagesInv'
  <1>1. KeysInv'
    BY NextKeys DEF BrowsingInv, PagesInv, BrowseNext, Appear
  <1>2. \A k \in 1..Len(listing') : listing'[k] \in watches'
    <2>1. CASE UNCHANGED listing
      <3>1. watches \subseteq watches'
        BY OneRowMore DEF BrowseNext, Appear, vars, BrowsingInv
      <3>2. QED  BY <2>1, <3>1 DEF PagesInv
    <2>2. ASSUME Next, NEW w \in watches' \ watches,
                 NEW i \in 1..(Len(listing) + 1),
                 listing' = InsertAt(listing, i, w)
          PROVE  \A k \in 1..Len(listing') : listing'[k] \in watches'
      <3>1. /\ listing \in Seq(Watch) /\ Len(listing) \in Nat
            /\ w \in Watch /\ watches \subseteq watches'
        BY <2>2, OneRowMore DEF BrowsingInv, ListingOK
      <3>2. /\ listing' \in Seq(Watch) /\ Len(listing') = Len(listing) + 1
            /\ \A k \in 1..(i - 1) : listing'[k] = listing[k]
            /\ listing'[i] = w
            /\ \A k \in i..Len(listing) : listing'[k + 1] = listing[k]
        BY <2>2, <3>1, Inserted
      <3>3. ASSUME NEW k \in 1..Len(listing') PROVE listing'[k] \in watches'
        <4>1. CASE k = i
          BY <3>2, <4>1
        <4>2. CASE k < i
          <5>1. listing'[k] = listing[k] /\ listing[k] \in watches
            BY <3>1, <3>2, <4>2 DEF PagesInv
          <5>2. QED  BY <3>1, <5>1
        <4>3. CASE i < k
          <5>1. k - 1 \in i..Len(listing) /\ (k - 1) + 1 = k
                /\ k - 1 \in 1..Len(listing)
            BY <3>1, <3>2, <4>3
          <5>2. listing'[k] = listing[k - 1] /\ listing[k - 1] \in watches
            BY <3>2, <5>1 DEF PagesInv
          <5>3. QED  BY <3>1, <5>2
        <4>4. QED  BY <3>1, <3>2, <4>1, <4>2, <4>3
      <3>4. QED  BY <3>3
    <2>3. QED  BY <2>1, <2>2 DEF BrowseNext, Appear
  <1>3. browser'.page <= Cardinality(References) + SeedSize + 1
    <2>0. /\ browser \in [ pc : {"idle", "ask", "count", "done"},
                           page : Nat \ {0}, seen : SUBSET Watch,
                           since : SUBSET watches ]
          /\ Cardinality(References) \in Nat /\ Cardinality(watches) \in Nat
          /\ Cardinality(watches) <= Cardinality(References) + SeedSize
      BY WatchesBounded DEF BrowsingInv, BrowserOK, PagesInv, KeysInv
    <2>1. CASE CountAll /\ browser.page < TotalPages(Cardinality(watches))
      <3>1. browser'.page = browser.page + 1
        BY <2>0, <2>1 DEF CountAll
      <3>2. QED  BY <2>0, <2>1, <3>1, PagesBounded
    <2>2. CASE browser'.page \in {1, browser.page}
      BY <2>0, <2>2 DEF PagesInv
    <2>3. QED
      BY <2>0, <2>1, <2>2
      DEF BrowseNext, Begin, SelectPage, CountAll, AtRest
  <1>4. QED  BY <1>1, <1>2, <1>3 DEF PagesInv

LEMMA PagesAreTable ==
    ASSUME BrowsingInv, PagesInv
    PROVE  BrowseTypeOK
  <1>1. /\ listing \in [1..Len(listing) -> watches] /\ Len(listing) \in Nat
        /\ DOMAIN listing = 1..Len(listing)
    BY DEF BrowsingInv, ListingOK, PagesInv
  <1>2. \A w \in watches : \E k \in 1..Len(listing) : listing[k] = w
    BY DEF BrowsingInv, ListingOK
  <1>3. Range(listing) = watches
    BY <1>1, <1>2 DEF Range
  <1>4. /\ IsFiniteSet(1..Len(listing))
        /\ Cardinality(1..Len(listing)) = Cardinality(watches)
    BY <1>1, FS_Interval DEF BrowsingInv, ListingOK
  <1>5. listing \in Surjection(1..Len(listing), watches)
    BY <1>1, <1>2 DEF Surjection
  <1>6. IsInjective(listing)
    BY <1>4, <1>5, FS_SurjSameCardinalityImpliesInj DEF Injection
  <1>7. browser \in Browser
    <2>1. Cardinality(References) \in Nat
      BY FS_CardinalityType
    <2>2. /\ browser \in [ pc : {"idle", "ask", "count", "done"},
                           page : Nat \ {0}, seen : SUBSET Watch,
                           since : SUBSET watches ]
          /\ watches \subseteq Watch
      BY DEF BrowsingInv, BrowserOK, CatalogueInv, TypeOK
    <2>3. browser.page \in 1..(Cardinality(References) + SeedSize + 1)
      BY <2>1, <2>2 DEF PagesInv
    <2>4. QED  BY <2>2, <2>3 DEF Browser
  <1>8. QED
    BY <1>3, <1>6, <1>7 DEF BrowseTypeOK, BrowsingInv, CatalogueInv

\* The listing is the table, every watch once, wherever rows appear in it; and a
\* client, told that there is one more page as long as watches are listed, never
\* asks past the pages that all possible watches fill.
THEOREM PagesAreTyped == BrowseSpec => []BrowseTypeOK
  <1>1. BrowsingInv /\ PagesInv => BrowseTypeOK
    BY PagesAreTable
  <1>2. QED
    BY <1>1, InitBrowsing, NextBrowsing, InitPages, NextPages, PTL
    DEF BrowseSpec
=============================================================================
