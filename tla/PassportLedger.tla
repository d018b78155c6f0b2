---------------------------- MODULE PassportLedger ----------------------------
(***************************************************************************)
(* The ledger of one passport over time: entries appended by calls that    *)
(* may overlap, stored as PostgreSQL stores them and read back through the *)
(* server's configuration of the day, which a restart may change.          *)
(*                                                                         *)
(* created_at is TIMESTAMP without time zone: the driver writes the wall   *)
(* clock of the server's time zone and reads it back as such, while the    *)
(* hashes are taken over the instant itself.                               *)
(***************************************************************************)
EXTENDS HashChain, FiniteSets

CONSTANTS
    Contents,     \* what callers append: records [type, payload]
    JsonbOf,      \* of a payload, the same pairs in the order JSONB gives them
    Servers,      \* configurations [signingKey, zone] a server may run with
    Writers,      \* slots: appendEntry calls in flight
    MaxEntries,   \* bound on the entries in the table
    MaxClock      \* bound on the time that passes

VARIABLES
    clock,     \* the instant it is
    server,    \* the running server's configuration: signingKey, zone
    rows,      \* table ledger_entries, the rows of this passport
    writer,    \* [Writers -> entry inserted and not committed, <<>> if none]
    written,   \* history: the entries committed so far, as they were written
    upset      \* history: what happened that nobody appending one by one does

vars == <<clock, server, rows, writer, written, upset>>

Upset == {"overlap", "tie", "configuration", "damage"}

-----------------------------------------------------------------------------
(* Time stamps as they are stored.  A zone [at, before, after] is what it adds  *)
(* to UTC before and from the instant at.                                      *)

wallClock(zone, instant) ==
    instant + IF instant < zone.at THEN zone.before ELSE zone.after

\* new Date(year, month, ...): of two instants with this wall clock the first
\* is taken, and one that no instant has is read with the offset before.
instantOf(zone, wall) ==
    IF wall - zone.before >= zone.at /\ wall - zone.after >= zone.at
        THEN wall - zone.after
        ELSE wall - zone.before

\* Mutant: the payload column is JSON, which keeps the text it was given.
StoredAsText(entry, id) ==
    [ id |-> id, type |-> entry.type, payload |-> entry.payload,
      prevHash |-> entry.prevHash, thisHash |-> entry.thisHash,
      signature |-> entry.signature,
      created_at |-> wallClock(server.zone, entry.createdAt) ]

\* The row of a new entry.
Stored(entry, id) ==
    [ id |-> id, type |-> entry.type, payload |-> JsonbOf[entry.payload],
      prevHash |-> entry.prevHash, thisHash |-> entry.thisHash,
      signature |-> entry.signature,
      created_at |-> wallClock(server.zone, entry.createdAt) ]

\* The entity that a find() returns for the row.
Loaded(row) ==
    [ type |-> row.type, payload |-> row.payload, prevHash |-> row.prevHash,
      thisHash |-> row.thisHash, signature |-> row.signature,
      createdAt |-> instantOf(server.zone, row.created_at) ]

\* getEntriesOrdered: ORDER BY created_at ASC, rows of the same time stamp in
\* any order.
Orders ==
    {s \in [1..Cardinality(rows) -> rows] :
        \A i, j \in DOMAIN s :
            i < j => s[i] # s[j] /\ s[i].created_at <= s[j].created_at}

Entries(order) == [i \in DOMAIN order |-> Loaded(order[i])]

\* getPublicViewBySerial: verified, when the rows came in this order.
Verified(order) == verifyChain(Entries(order), server.signingKey)

-----------------------------------------------------------------------------
Init ==
    /\ clock = 0
    /\ server \in Servers
    /\ rows = {}
    /\ writer = [w \in Writers |-> <<>>]
    /\ written = {}
    /\ upset = {}

Tick ==
    /\ clock < MaxClock
    /\ clock' = clock + 1
    /\ UNCHANGED <<server, rows, writer, written, upset>>

InFlight == {w \in Writers : writer[w] # <<>>}

Pending == {writer[w][1] : w \in InFlight}

\* findOne with ORDER BY created_at DESC: a committed row of the latest time.
Newest ==
    {row \in rows : \A other \in rows : other.created_at <= row.created_at}

PreviousEntry == IF rows = {} THEN {<<>>} ELSE {<<Loaded(row)>> : row \in Newest}

\* appendEntry up to its INSERT, inside the caller's transaction.
AppendEntry(w, content) ==
    /\ writer[w] = <<>>
    /\ Cardinality(rows) + Cardinality(InFlight) < MaxEntries
    /\ \E previous \in PreviousEntry :
        writer' = [writer EXCEPT ![w] =
            <<buildLedgerEntryFields(content, clock, previous,
                                     server.signingKey)>>]
    /\ upset' = upset
            \cup (IF InFlight # {} THEN {"overlap"} ELSE {})
            \cup (IF \E e \in written \cup Pending : e.createdAt = clock
                    THEN {"tie"} ELSE {})
    /\ UNCHANGED <<clock, server, rows, written>>

\* gen_random_uuid(): an id that no row has.
FreshId(entry) ==
    CHOOSE id \in 0..Cardinality(rows) : \A row \in rows :
        row.thisHash = entry.thisHash => row.id # id

CommitEntry(w) ==
    /\ writer[w] # <<>>
    /\ rows' = rows \cup {Stored(writer[w][1], FreshId(writer[w][1]))}
    /\ written' = written \cup {writer[w][1]}
    /\ writer' = [writer EXCEPT ![w] = <<>>]
    /\ UNCHANGED <<clock, server, upset>>

RollBack(w) ==
    /\ writer[w] # <<>>
    /\ writer' = [writer EXCEPT ![w] = <<>>]
    /\ UNCHANGED <<clock, server, rows, written, upset>>

\* The process ends, and with it what it had not committed; the next one reads
\* its configuration anew.
Restart ==
    /\ server' \in Servers
    /\ writer' = [w \in Writers |-> <<>>]
    /\ upset' = IF server' = server THEN upset
                                    ELSE upset \cup {"configuration"}
    /\ UNCHANGED <<clock, rows, written>>

\* Something outside the program changes a row's columns or loses the row.
\* Bound: it does so once.
Damage(row) ==
    /\ "damage" \notin upset
    /\ \/ rows' = rows \ {row}
       \/ \E content \in Contents :
            rows' = (rows \ {row}) \cup
                {[row EXCEPT !.type = content.type,
                             !.payload = JsonbOf[content.payload]]}
       \/ \E wall \in {other.created_at : other \in rows} :
            rows' = (rows \ {row}) \cup {[row EXCEPT !.created_at = wall]}
    /\ rows' # rows
    /\ upset' = upset \cup {"damage"}
    /\ UNCHANGED <<clock, server, writer, written>>

Next ==
    \/ Tick
    \/ \E w \in Writers :
        \/ \E content \in Contents : AppendEntry(w, content)
        \/ CommitEntry(w) \/ RollBack(w)
    \/ Restart
    \/ \E row \in rows : Damage(row)

Spec == Init /\ [][Next]_vars

-----------------------------------------------------------------------------
ContentOf(entry) == [type |-> entry.type, payload |-> entry.payload]

StoredContents ==
    {[type |-> c.type, payload |-> JsonbOf[c.payload]] : c \in Contents}

RowOK(row) ==
    /\ DOMAIN row = { "id", "type", "payload", "prevHash", "thisHash",
                      "signature", "created_at" }
    /\ row.created_at \in Int
    /\ ContentOf(row) \in StoredContents

TypeOK ==
    /\ clock \in Nat
    /\ server \in Servers
    /\ IsFiniteSet(rows)
    /\ \A row \in rows : RowOK(row)
    /\ DOMAIN writer = Writers
    /\ \A e \in written \cup Pending :
            e.createdAt \in 0..clock /\ ContentOf(e) \in Contents
    /\ upset \subseteq Upset

\* The public view of entry tells what e was when it was written.
Shows(entry, e) ==
    /\ entry.type = e.type
    /\ canonicalJson(entry.payload) = canonicalJson(e.payload)
    /\ entry.createdAt = e.createdAt

\* A verified view is history: whatever was restarted, overlapped, damaged or
\* lost, every entry it shows was written as shown, under the present key, as
\* the first one or upon the very entry shown before it.
VerifiedIsGenuine ==
    \A s \in Orders : Verified(s) =>
        \A i \in DOMAIN s : \E e \in written :
            /\ Shows(Loaded(s[i]), e)
            /\ verifyEntrySignature(e, server.signingKey)
            /\ i = 1 => e.prevHash = GENESIS_PREV_HASH
            /\ i > 1 => \E d \in written :
                    /\ Shows(Loaded(s[i - 1]), d)
                    /\ e.prevHash = computePrevHashFromStoredEntry(d)

\* The instants whose wall clock the zone shows for the second time.
Repeated(zone) == zone.at..(zone.at + zone.before - zone.after - 1)

\* No false alarm: when appends did not overlap or share a time stamp, nothing
\* was damaged, and the server kept its key and its zone, the view is verified,
\* unless an entry was written in the hour that the zone's clock repeated.
NoFalseAlarm ==
    /\ upset = {}
    /\ \A e \in written : e.createdAt \notin Repeated(server.zone)
    => \A s \in Orders : Verified(s)

CanVerify == \E s \in Orders : Verified(s)

\* A broken ledger cannot be repaired by using it: as long as the configuration
\* stays and no row is changed or lost, entries appended to a ledger that does
\* not verify, and time, leave it so, if no two appends share a time stamp.
BrokenStaysBroken ==
    [][/\ rows \subseteq rows' /\ server' = server /\ "tie" \notin upset
       /\ ~CanVerify
       => ~CanVerify']_vars

-----------------------------------------------------------------------------
(* The inductive invariant of PassportLedgerProofs. *)

\* What was written was hashed as it is.
Hashed(e) == e.thisHash = computeThisHash(e)

HashedOrNone(held) ==
    \/ held = <<>>
    \/ held = <<held[1]>> /\ Hashed(held[1])

\* The columns that only appendEntry writes.
SameHashes(row, e) ==
    /\ row.prevHash = e.prevHash
    /\ row.thisHash = e.thisHash
    /\ row.signature = e.signature

\* A call in flight holds a hashed entry or nothing; the hashes in the table,
\* whatever became of the other columns, are those of an entry that was written.
LedgerInv ==
    /\ TypeOK
    /\ \A w \in Writers : HashedOrNone(writer[w])
    /\ \A e \in written : Hashed(e)
    /\ \A row \in rows : \E e \in written : SameHashes(row, e)

-----------------------------------------------------------------------------
SamePairs(p, q) ==
    /\ \A i \in DOMAIN p : \E j \in DOMAIN q : p[i] = q[j]
    /\ \A j \in DOMAIN q : \E i \in DOMAIN p : p[i] = q[j]

ASSUME LedgerAssumption ==
    /\ \A c \in Contents : c = [type |-> c.type, payload |-> c.payload]
    /\ \A c \in Contents : SamePairs(JsonbOf[c.payload], c.payload)
    /\ \A s \in Servers :
        /\ s = [signingKey |-> s.signingKey, zone |-> s.zone]
        /\ s.zone.at \in Int /\ s.zone.before \in Int /\ s.zone.after \in Int
    /\ MaxEntries \in Nat /\ MaxClock \in Nat
=============================================================================
