---------------------------- MODULE WatchCatalogue ----------------------------
(***************************************************************************)
(* Two ways into the catalogue: WatchesService.create, one transaction for *)
(* the watch, its passport and the link between them, and the script       *)
(* seed-watches.ts, which saves passports and watches one by one and may   *)
(* be killed and run again, or run twice at once.                          *)
(*                                                                         *)
(* Serial numbers and references are numbers; i in 1..SeedSize stands for  *)
(* SN-SEED-i and LUX-SEED-i.  A passport is named by its serial number.    *)
(***************************************************************************)
EXTENDS Naturals, FiniteSets

CONSTANTS
    NULL,
    SeedSize,     \* 100 in the script
    References,   \* the reference numbers that sellers use
    Lookalikes,   \* those of them that also match LUX-SEED-%
    Serials,      \* the serial numbers that sellers use
    Creators,     \* slots for POST /watches calls in flight
    Seeders       \* processes running the script

VARIABLES
    passports,    \* table passports: the serial numbers with a row
    watches,      \* table watches
    creator,      \* [Creators -> Creation]: calls in flight
    seeder        \* [Seeders -> ScriptRun]: the script's runs

vars == <<passports, watches, creator, seeder>>

Number == Serials \cup (1..SeedSize)
Watch == [ reference : References \cup (1..SeedSize),
           serial    : Number,
           passport  : Number \cup {NULL} ]

Creation == [ pc : {"idle", "insertWatch", "insertPassport", "linkWatch"},
              watch : Watch \cup {NULL} ]
ScriptRun == [ pc : {"off", "count", "savePassport", "saveWatch",
                     "done", "failed"},
               index : 1..(SeedSize + 1) ]

NoCall == [pc |-> "idle", watch |-> NULL]
NotRun == [pc |-> "off", index |-> 1]

TypeOK ==
    /\ passports \subseteq Number
    /\ watches \subseteq Watch
    /\ creator \in [Creators -> Creation]
    /\ seeder \in [Seeders -> ScriptRun]

Init ==
    /\ passports = {}
    /\ watches = {}
    /\ creator = [c \in Creators |-> NoCall]
    /\ seeder = [p \in Seeders |-> NotRun]

-----------------------------------------------------------------------------
(* Unique keys. *)

\* UQ_watches_reference_number, UQ_watches_serial_number.
SameKey(v, w) == v.reference = w.reference \/ v.serial = w.serial

Taken(w) == \E v \in watches : SameKey(v, w)

\* A call in flight has inserted, and not committed, a watch with the key of w:
\* the INSERT of w waits until that call commits or rolls back.  (PostgreSQL
\* enters a row in its indexes one after the other, so an INSERT that waits on
\* the serial number has its reference taken already; here it takes both when
\* the wait is over, and another INSERT may get the reference first.)
WatchBusy(w) ==
    \E c \in Creators : /\ creator[c].pc \in {"insertPassport", "linkWatch"}
                        /\ SameKey(creator[c].watch, w)

\* The same for the passport of a serial number.
PassportBusy(serial) ==
    \E c \in Creators : /\ creator[c].pc = "linkWatch"
                        /\ creator[c].watch.serial = serial

-----------------------------------------------------------------------------
(* WatchesService.create *)

Create(c, reference, serial) ==
    /\ creator[c].pc = "idle"
    /\ creator' = [creator EXCEPT ![c] =
            [ pc |-> "insertWatch",
              watch |-> [ reference |-> reference, serial |-> serial,
                          passport |-> NULL ] ]]
    /\ UNCHANGED <<passports, watches, seeder>>

\* A 23505 is not caught: the transaction rolls back and the reply is a 500.
CreateWatch(c) ==
    /\ creator[c].pc = "insertWatch"
    /\ ~WatchBusy(creator[c].watch)
    /\ creator' = IF Taken(creator[c].watch)
                      THEN [creator EXCEPT ![c] = NoCall]
                      ELSE [creator EXCEPT ![c].pc = "insertPassport"]
    /\ UNCHANGED <<passports, watches, seeder>>

\* Mutant: createForSerial is called without the manager.
CreatePassportAlone(c) ==
    LET serial == creator[c].watch.serial IN
    /\ creator[c].pc = "insertPassport"
    /\ serial \notin passports
    /\ passports' = passports \cup {serial}
    /\ creator' = [creator EXCEPT ![c].pc = "linkWatch"]
    /\ UNCHANGED <<watches, seeder>>

CreatePassport(c) ==
    LET serial == creator[c].watch.serial IN
    /\ creator[c].pc = "insertPassport"
    /\ ~PassportBusy(serial)
    /\ creator' = IF serial \in passports
                      THEN [creator EXCEPT ![c] = NoCall]
                      ELSE [creator EXCEPT ![c].pc = "linkWatch"]
    /\ UNCHANGED <<passports, watches, seeder>>

\* Mutant: the watch is not saved again after passportId is set.
LinkForgotten(c) ==
    LET watch == creator[c].watch IN
    /\ creator[c].pc = "linkWatch"
    /\ passports' = passports \cup {watch.serial}
    /\ watches' = watches \cup {watch}
    /\ creator' = [creator EXCEPT ![c] = NoCall]
    /\ UNCHANGED seeder

\* save(savedWatch) sets passport_id, and COMMIT publishes both rows.
LinkWatch(c) ==
    LET watch == creator[c].watch IN
    /\ creator[c].pc = "linkWatch"
    /\ passports' = passports \cup {watch.serial}
    /\ watches' = watches \cup {[watch EXCEPT !.passport = watch.serial]}
    /\ creator' = [creator EXCEPT ![c] = NoCall]
    /\ UNCHANGED seeder

\* The server dies: what was not committed is gone.
CreateFails(c) ==
    /\ creator[c].pc # "idle"
    /\ creator' = [creator EXCEPT ![c] = NoCall]
    /\ UNCHANGED <<passports, watches, seeder>>

-----------------------------------------------------------------------------
(* seed-watches.ts *)

Seeded == {w \in watches : w.reference \in (1..SeedSize) \cup Lookalikes}

SeedWatch(i) == [reference |-> i, serial |-> i, passport |-> i]

\* npm run seed:watches, at any time and as often as one likes.
Run(p) ==
    /\ seeder[p].pc \in {"off", "done", "failed"}
    /\ seeder' = [seeder EXCEPT ![p] = [NotRun EXCEPT !.pc = "count"]]
    /\ UNCHANGED <<passports, watches, creator>>

\* Mutant: one seeded watch counts for all of them.
CountAny(p) ==
    /\ seeder[p].pc = "count"
    /\ seeder' = [seeder EXCEPT ![p].pc =
            IF Seeded # {} THEN "done" ELSE "savePassport"]
    /\ UNCHANGED <<passports, watches, creator>>

Count(p) ==
    /\ seeder[p].pc = "count"
    /\ seeder' = [seeder EXCEPT ![p].pc =
            IF Cardinality(Seeded) >= SeedSize THEN "done" ELSE "savePassport"]
    /\ UNCHANGED <<passports, watches, creator>>

\* Not a transaction: the row is committed at once.  A 23505 ends the script.
SavePassport(p) ==
    LET i == seeder[p].index IN
    /\ seeder[p].pc = "savePassport"
    /\ ~PassportBusy(i)
    /\ \/ /\ i \notin passports
          /\ passports' = passports \cup {i}
          /\ seeder' = [seeder EXCEPT ![p].pc = "saveWatch"]
       \/ /\ i \in passports
          /\ seeder' = [seeder EXCEPT ![p].pc = "failed"]
          /\ UNCHANGED passports
    /\ UNCHANGED <<watches, creator>>

\* Mutant: the loop runs one step too far.
SaveWatchTooFar(p) ==
    LET i == seeder[p].index IN
    /\ seeder[p].pc = "saveWatch"
    /\ watches' = watches \cup {SeedWatch(i)}
    /\ seeder' = [seeder EXCEPT ![p] =
            [ pc |-> IF i > SeedSize THEN "done" ELSE "savePassport",
              index |-> i + 1 ]]
    /\ UNCHANGED <<passports, creator>>

SaveWatch(p) ==
    LET i == seeder[p].index IN
    /\ seeder[p].pc = "saveWatch"
    /\ ~WatchBusy(SeedWatch(i))
    /\ \/ /\ ~Taken(SeedWatch(i))
          /\ watches' = watches \cup {SeedWatch(i)}
          /\ seeder' = [seeder EXCEPT ![p] =
                [ pc |-> IF i = SeedSize THEN "done" ELSE "savePassport",
                  index |-> i + 1 ]]
       \/ /\ Taken(SeedWatch(i))
          /\ seeder' = [seeder EXCEPT ![p].pc = "failed"]
          /\ UNCHANGED watches
    /\ UNCHANGED <<passports, creator>>

Kill(p) ==
    /\ seeder[p].pc \in {"count", "savePassport", "saveWatch"}
    /\ seeder' = [seeder EXCEPT ![p] = NotRun]
    /\ UNCHANGED <<passports, watches, creator>>

-----------------------------------------------------------------------------
Progress(c) == CreateWatch(c) \/ CreatePassport(c) \/ LinkWatch(c)
Script(p) == Count(p) \/ SavePassport(p) \/ SaveWatch(p)

Next ==
    \/ \E c \in Creators :
        \/ \E reference \in References, serial \in Serials :
                Create(c, reference, serial)
        \/ Progress(c) \/ CreateFails(c)
    \/ \E p \in Seeders : Run(p) \/ Script(p) \/ Kill(p)

Spec == Init /\ [][Next]_vars

\* Whatever is in the catalogue can be traded: a committed watch is linked to
\* the passport of its own serial number, and that passport exists, although
\* the script saves the two apart and both ways in meet on the same keys.
EveryWatchHasItsPassport ==
    \A w \in watches : w.passport = w.serial /\ w.serial \in passports

\* A listing that fails, however late, leaves no passport behind: only the
\* script, killed or refused between its two saves, can leave one without a
\* watch, and with it a serial number that nobody can list any more.
OrphansAreSeeds ==
    \A s \in passports \ {w.serial : w \in watches} : s \in 1..SeedSize

\* A run of the script that says it is done, the skipped ones included, leaves
\* at least SeedSize watches that look seeded, whoever ran it before or beside it.
DoneMeansFull ==
    \A p \in Seeders :
        seeder[p].pc = "done" => Cardinality(Seeded) >= SeedSize

\* docs/watches/catalogue.md: "Idempotent": with nobody else about, the script
\* can be run once more whatever became of the runs before.
RerunNeverFails == \A p \in Seeders : seeder[p].pc # "failed"

ASSUME CatalogueAssumption ==
    /\ SeedSize \in Nat \ {0}
    /\ References \subseteq Nat /\ Serials \subseteq Nat
    /\ Lookalikes \subseteq References
    /\ NULL \notin Nat
=============================================================================
