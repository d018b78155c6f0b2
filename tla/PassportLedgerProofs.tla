------------------------- MODULE PassportLedgerProofs -------------------------
(***************************************************************************)
(* A verified view is history, entries appended one by one verify, and a    *)
(* broken ledger stays broken: for any number of entries, calls in flight,  *)
(* configurations and time zones.                                          *)
(***************************************************************************)
EXTENDS PassportLedger, FiniteSetTheorems, TLAPS

\* Nothing is written in the beginning.
LEMMA LedgerInit == Init => LedgerInv
<1> SUFFICES ASSUME Init PROVE LedgerInv
  OBVIOUS
<1>1. InFlight = {}
  BY DEF Init, InFlight
<1>2. Pending = {}
  BY <1>1 DEF Pending
<1>3. written \cup Pending = {}
  BY <1>2 DEF Init
<1>4. TypeOK
  BY <1>3, FS_EmptySet DEF Init, TypeOK
<1>5. QED
  BY <1>4 DEF Init, LedgerInv, HashedOrNone

\* A new entry has its content and its time, and is hashed as it is.
LEMMA Built ==
    ASSUME NEW c \in Contents, NEW at, NEW previous, NEW key
    PROVE  LET e == buildLedgerEntryFields(c, at, previous, key) IN
           Hashed(e) /\ e.createdAt = at /\ ContentOf(e) = c
<1>1. c = [type |-> c.type, payload |-> c.payload]
  BY LedgerAssumption DEF LedgerAssumption
<1>2. QED
  BY <1>1 DEF buildLedgerEntryFields, Hashed, computeThisHash, ContentOf

\* What a step leaves alone.
LEMMA Keeps ==
    ASSUME LedgerInv, server' \in Servers,
           clock' \in Nat, clock' >= clock, upset' \subseteq Upset,
           DOMAIN writer' = Writers,
           \A w \in Writers : writer'[w] \in {<<>>, writer[w]},
           rows' = rows, written' = written
    PROVE  LedgerInv'
<1>1. Pending' \subseteq Pending
  BY DEF Pending, InFlight
<1>2. TypeOK'
  <2> USE DEF TypeOK
  <2>1. TypeOK
    BY DEF LedgerInv
  <2>2. IsFiniteSet(rows') /\ \A row \in rows' : RowOK(row)
    BY <2>1
  <2>3. \A e \in written' \cup Pending' :
            e.createdAt \in 0..clock' /\ ContentOf(e) \in Contents
    BY <1>1, <2>1
  <2>4. QED
    BY <2>2, <2>3 DEF RowOK, ContentOf, StoredContents
<1>3. \A w \in Writers :
        HashedOrNone(writer'[w])
  <2> TAKE w \in Writers
  <2>1. CASE writer'[w] = <<>>
    BY <2>1 DEF HashedOrNone
  <2>2. CASE writer'[w] = writer[w]
    BY <2>2 DEF LedgerInv
  <2>3. QED
    BY <2>1, <2>2
<1>4. \A e \in written' : Hashed(e)
  BY DEF LedgerInv
<1>5. \A row \in rows' : \E e \in written' : SameHashes(row, e)
  BY DEF LedgerInv
<1>6. QED
  BY <1>2, <1>3, <1>4, <1>5 DEF LedgerInv, Hashed, SameHashes

LEMMA TickKeeps == ASSUME LedgerInv, Tick PROVE LedgerInv'
<1>1. clock' \in Nat /\ clock' >= clock
  BY DEF Tick, LedgerInv, TypeOK
<1>2. QED
  BY <1>1, Keeps DEF Tick, LedgerInv, TypeOK

LEMMA RollBackKeeps ==
    ASSUME LedgerInv, NEW w \in Writers, RollBack(w) PROVE LedgerInv'
<1>1. DOMAIN writer' = Writers
  BY DEF RollBack, LedgerInv, TypeOK
<1>2. \A v \in Writers : writer'[v] \in {<<>>, writer[v]}
  BY DEF RollBack, LedgerInv, TypeOK
<1>3. clock' \in Nat /\ clock' >= clock
  BY DEF RollBack, LedgerInv, TypeOK
<1>4. QED
  BY <1>1, <1>2, <1>3, Keeps DEF RollBack, LedgerInv, TypeOK

LEMMA RestartKeeps == ASSUME LedgerInv, Restart PROVE LedgerInv'
<1>1. DOMAIN writer' = Writers /\ \A v \in Writers : writer'[v] \in {<<>>, writer[v]}
  BY DEF Restart
<1>2. clock' \in Nat /\ clock' >= clock
  BY DEF Restart, LedgerInv, TypeOK
<1>3. upset' \subseteq Upset
  BY DEF Restart, LedgerInv, TypeOK, Upset
<1>4. QED
  BY <1>1, <1>2, <1>3, Keeps DEF Restart

\* An append adds one hashed entry to those in flight.
LEMMA AppendEntryKeeps ==
    ASSUME LedgerInv, NEW w \in Writers, NEW content \in Contents,
           AppendEntry(w, content)
    PROVE  LedgerInv'
<1>1. PICK previous \in PreviousEntry :
        writer' = [writer EXCEPT ![w] =
            <<buildLedgerEntryFields(content, clock, previous,
                                     server.signingKey)>>]
  BY DEF AppendEntry
<1> DEFINE e == buildLedgerEntryFields(content, clock, previous, server.signingKey)
<1>2. Hashed(e) /\ e.createdAt = clock /\ ContentOf(e) = content
  BY Built
<1> HIDE DEF e
<1>3. writer' = [writer EXCEPT ![w] = <<e>>]
  BY <1>1 DEF e
<1>4. DOMAIN writer' = Writers /\ writer'[w] = <<e>>
      /\ \A v \in Writers \ {w} : writer'[v] = writer[v]
  BY <1>3 DEF LedgerInv, TypeOK
<1>5. Pending' \subseteq Pending \cup {e}
  BY <1>4 DEF Pending, InFlight
<1>6. TypeOK'
  <2>1. /\ TypeOK
        /\ UNCHANGED <<clock, server, rows, written>>
    BY DEF AppendEntry, LedgerInv
  <2>2. \A d \in written' \cup Pending' :
            d.createdAt \in 0..clock' /\ ContentOf(d) \in Contents
    BY <1>2, <1>5, <2>1 DEF TypeOK
  <2>3. upset' \subseteq Upset
    BY <2>1 DEF AppendEntry, TypeOK, Upset
  <2>4. QED
    BY <1>4, <2>1, <2>2, <2>3 DEF TypeOK, RowOK, ContentOf, StoredContents
<1>7. \A v \in Writers : HashedOrNone(writer'[v])
  <2> TAKE v \in Writers
  <2>1. CASE v = w
    BY <1>2, <1>4, <2>1 DEF HashedOrNone
  <2>2. CASE v # w
    BY <1>4, <2>2 DEF LedgerInv
  <2>3. QED
    BY <2>1, <2>2
<1>8. QED
  BY <1>6, <1>7 DEF LedgerInv, AppendEntry, Hashed, HashedOrNone, SameHashes

\* A commit adds the row of an entry that it records as written.
LEMMA CommitEntryKeeps ==
    ASSUME LedgerInv, NEW w \in Writers, CommitEntry(w)
    PROVE  LedgerInv'
<1> DEFINE e == writer[w][1]
           row == Stored(e, FreshId(e))
<1>1. /\ rows' = rows \cup {row}
      /\ written' = written \cup {e}
      /\ writer' = [writer EXCEPT ![w] = <<>>]
      /\ UNCHANGED <<clock, server, upset>>
  BY DEF CommitEntry
<1>2. e \in Pending /\ Hashed(e)
  BY DEF CommitEntry, Pending, InFlight, LedgerInv, HashedOrNone
<1>3. e.createdAt \in 0..clock /\ ContentOf(e) \in Contents
  BY <1>2 DEF LedgerInv, TypeOK
<1>4. RowOK(row)
  <2>1. ContentOf(row) = [type |-> ContentOf(e).type,
                          payload |-> JsonbOf[ContentOf(e).payload]]
    BY DEF Stored, ContentOf
  <2>2. server.zone.before \in Int /\ server.zone.after \in Int
    BY LedgerAssumption DEF LedgerAssumption, LedgerInv, TypeOK
  <2>3. e.createdAt \in Int
    BY <1>3 DEF LedgerInv, TypeOK
  <2>4. QED
    BY <1>3, <2>1, <2>2, <2>3 DEF RowOK, StoredContents, Stored, wallClock
<1>5. SameHashes(row, e)
  BY DEF SameHashes, Stored
<1> HIDE DEF e, row
<1>6. DOMAIN writer' = Writers
      /\ \A v \in Writers : writer'[v] \in {<<>>, writer[v]}
  BY <1>1 DEF LedgerInv, TypeOK
<1>7. Pending' \subseteq Pending
  BY <1>6 DEF Pending, InFlight
<1>8. TypeOK'
  <2>1. \A r \in rows' : RowOK(r)
    BY <1>1, <1>4 DEF LedgerInv, TypeOK
  <2>2. \A d \in written' \cup Pending' :
            d.createdAt \in 0..clock' /\ ContentOf(d) \in Contents
    BY <1>1, <1>3, <1>7 DEF LedgerInv, TypeOK
  <2>3. IsFiniteSet(rows')
    BY <1>1, FS_AddElement DEF LedgerInv, TypeOK
  <2>4. QED
    BY <1>1, <1>6, <2>1, <2>2, <2>3 DEF LedgerInv, TypeOK, RowOK, ContentOf, StoredContents
<1>9. \A v \in Writers : HashedOrNone(writer'[v])
  <2> TAKE v \in Writers
  <2>1. CASE writer'[v] = <<>>
    BY <2>1 DEF HashedOrNone
  <2>2. CASE writer'[v] = writer[v]
    BY <2>2 DEF LedgerInv
  <2>3. QED
    BY <1>6, <2>1, <2>2
<1>10. \A d \in written' : Hashed(d)
  BY <1>1, <1>2 DEF LedgerInv
<1>11. \A r \in rows' : \E d \in written' : SameHashes(r, d)
  BY <1>1, <1>5 DEF LedgerInv
<1>12. QED
  BY <1>8, <1>9, <1>10, <1>11 DEF LedgerInv, Hashed, HashedOrNone, SameHashes

\* Damage leaves the hashes of the rows that stay.
LEMMA DamageKeeps ==
    ASSUME LedgerInv, NEW row \in rows, Damage(row)
    PROVE  LedgerInv'
<1> DEFINE Sound(r) == RowOK(r) /\ \E e \in written : SameHashes(r, e)
<1>1. \A r \in rows : Sound(r)
  BY DEF LedgerInv, TypeOK
<1>2. ASSUME NEW content \in Contents
      PROVE  Sound([row EXCEPT !.type = content.type,
                               !.payload = JsonbOf[content.payload]])
  <2> DEFINE r == [row EXCEPT !.type = content.type,
                              !.payload = JsonbOf[content.payload]]
  <2>1. RowOK(row)
    BY <1>1
  <2>2. RowOK(r)
    BY <2>1 DEF RowOK, ContentOf, StoredContents
  <2>3. PICK e \in written : SameHashes(row, e)
    BY <1>1
  <2>4. SameHashes(r, e)
    BY <2>1, <2>3 DEF RowOK, SameHashes
  <2>5. QED
    BY <2>2, <2>4
<1>3. ASSUME NEW wall \in {other.created_at : other \in rows}
      PROVE  Sound([row EXCEPT !.created_at = wall])
  <2> DEFINE r == [row EXCEPT !.created_at = wall]
  <2>1. RowOK(row) /\ wall \in Int
    BY <1>1 DEF RowOK
  <2>2. RowOK(r)
    BY <2>1 DEF RowOK, ContentOf
  <2>3. PICK e \in written : SameHashes(row, e)
    BY <1>1
  <2>4. SameHashes(r, e)
    BY <2>1, <2>3 DEF RowOK, SameHashes
  <2>5. QED
    BY <2>2, <2>4
<1> HIDE DEF Sound
<1>4. \A r \in rows' : Sound(r)
  BY <1>1, <1>2, <1>3 DEF Damage
<1>5. /\ UNCHANGED <<clock, server, writer, written>>
      /\ upset' \subseteq Upset
  BY DEF Damage, LedgerInv, TypeOK, Upset
<1>6. Pending' = Pending
  BY <1>5 DEF Pending, InFlight
<1>7. TypeOK'
  <2>1. \A r \in rows' : RowOK(r)
    BY <1>4 DEF Sound
  <2>2. IsFiniteSet(rows')
    <3>1. IsFiniteSet(rows \ {row})
      BY FS_RemoveElement DEF LedgerInv, TypeOK
    <3>2. rows' = rows \ {row} \/ \E r : rows' = (rows \ {row}) \cup {r}
      BY DEF Damage
    <3>3. QED
      BY <3>1, <3>2, FS_AddElement
  <2>3. QED
    BY <1>5, <1>6, <2>1, <2>2 DEF LedgerInv, TypeOK, RowOK, ContentOf, StoredContents
<1>8. \A r \in rows' : \E e \in written' : SameHashes(r, e)
  BY <1>4, <1>5 DEF Sound
<1>9. QED
  BY <1>5, <1>7, <1>8 DEF LedgerInv, Hashed, HashedOrNone, SameHashes

LEMMA LedgerNext == LedgerInv /\ [Next]_vars => LedgerInv'
<1> SUFFICES ASSUME LedgerInv, [Next]_vars PROVE LedgerInv'
  OBVIOUS
<1>1. CASE Tick
  BY <1>1, TickKeeps
<1>2. ASSUME NEW w \in Writers, NEW content \in Contents, AppendEntry(w, content)
      PROVE  LedgerInv'
  BY <1>2, AppendEntryKeeps
<1>3. ASSUME NEW w \in Writers, CommitEntry(w) PROVE LedgerInv'
  BY <1>3, CommitEntryKeeps
<1>4. ASSUME NEW w \in Writers, RollBack(w) PROVE LedgerInv'
  BY <1>4, RollBackKeeps
<1>5. CASE Restart
  BY <1>5, RestartKeeps
<1>6. ASSUME NEW row \in rows, Damage(row) PROVE LedgerInv'
  BY <1>6, DamageKeeps
<1>7. CASE UNCHANGED vars
  <2>1. clock' \in Nat /\ clock' >= clock
    BY <1>7 DEF vars, LedgerInv, TypeOK
  <2>2. QED
    BY <1>7, <2>1, Keeps DEF vars, LedgerInv, TypeOK
<1>8. QED
  BY <1>1, <1>2, <1>3, <1>4, <1>5, <1>6, <1>7 DEF Next

LEMMA LedgerInvariant == Spec => []LedgerInv
BY LedgerInit, LedgerNext, PTL DEF Spec

-----------------------------------------------------------------------------
\* A row that hashes and signs as it is read was written as it is read.
LEMMA RowIsGenuine ==
    ASSUME LedgerInv, NEW row \in rows,
           Loaded(row).thisHash = computeThisHash(Loaded(row)),
           verifyEntrySignature(Loaded(row), server.signingKey)
    PROVE  \E e \in written :
                /\ SameHashes(row, e)
                /\ Shows(Loaded(row), e)
                /\ verifyEntrySignature(e, server.signingKey)
<1>1. PICK e \in written : SameHashes(row, e)
  BY DEF LedgerInv
<1>2. computeThisHash(Loaded(row)) = computeThisHash(e)
  BY <1>1 DEF LedgerInv, Hashed, SameHashes, Loaded
<1>3. Shows(Loaded(row), e)
  BY <1>2 DEF computeThisHash, sha256Hex, Shows
<1>4. verifyEntrySignature(e, server.signingKey)
  BY <1>1 DEF verifyEntrySignature, SameHashes, Loaded
<1>5. QED
  BY <1>1, <1>3, <1>4

\* An entry that shows another one, with its hashes, has its link.
LEMMA SameLink ==
    ASSUME NEW row, NEW e, SameHashes(row, e), Shows(Loaded(row), e)
    PROVE  computePrevHashFromStoredEntry(Loaded(row))
                = computePrevHashFromStoredEntry(e)
BY DEF SameHashes, Shows, Loaded, computePrevHashFromStoredEntry

LEMMA GenuineIfInv == LedgerInv => VerifiedIsGenuine
<1> SUFFICES ASSUME LedgerInv, NEW s \in Orders, Verified(s), NEW i \in DOMAIN s
             PROVE  \E e \in written :
                        /\ Shows(Loaded(s[i]), e)
                        /\ verifyEntrySignature(e, server.signingKey)
                        /\ i = 1 => e.prevHash = GENESIS_PREV_HASH
                        /\ i > 1 => \E d \in written :
                                /\ Shows(Loaded(s[i - 1]), d)
                                /\ e.prevHash = computePrevHashFromStoredEntry(d)
  BY DEF VerifiedIsGenuine
<1> DEFINE Genuine(j, e) ==
        /\ SameHashes(s[j], e)
        /\ Shows(Loaded(s[j]), e)
        /\ verifyEntrySignature(e, server.signingKey)
<1>1. /\ DOMAIN s = 1..Cardinality(rows) /\ \A j \in DOMAIN s : s[j] \in rows
      /\ Cardinality(rows) \in Nat
  BY FS_CardinalityType DEF Orders, LedgerInv, TypeOK
<1>2. \A j \in DOMAIN s :
        /\ Loaded(s[j]).prevHash = prevHashAfter(Before(Entries(s), j))
        /\ Loaded(s[j]).thisHash = computeThisHash(Loaded(s[j]))
        /\ verifyEntrySignature(Loaded(s[j]), server.signingKey)
  BY DEF Verified, verifyChain, Entries
<1>3. \A j \in DOMAIN s : \E e \in written : Genuine(j, e)
  BY <1>1, <1>2, RowIsGenuine
<1>4. PICK e \in written : Genuine(i, e)
  BY <1>3
<1>5. e.prevHash = prevHashAfter(Before(Entries(s), i))
  BY <1>2, <1>4 DEF SameHashes, Loaded
<1>6. ASSUME i = 1 PROVE e.prevHash = GENESIS_PREV_HASH
  <2>1. Before(Entries(s), i) = <<>>
    BY <1>6 DEF Before
  <2>2. QED
    BY <1>5, <2>1 DEF prevHashAfter
<1>7. ASSUME i > 1
      PROVE  \E d \in written :
                /\ Shows(Loaded(s[i - 1]), d)
                /\ e.prevHash = computePrevHashFromStoredEntry(d)
  <2>1. i - 1 \in DOMAIN s
    BY <1>1, <1>7
  <2>2. PICK d \in written : Genuine(i - 1, d)
    BY <1>3, <2>1
  <2>3. Entries(s)[i - 1] = Loaded(s[i - 1])
    BY <2>1 DEF Entries
  <2>4. e.prevHash = computePrevHashFromStoredEntry(Loaded(s[i - 1]))
    <3>1. Before(Entries(s), i) = <<Loaded(s[i - 1])>>
      BY <1>7, <2>3 DEF Before
    <3>2. <<Loaded(s[i - 1])>> # <<>> /\ <<Loaded(s[i - 1])>>[1] = Loaded(s[i - 1])
      OBVIOUS
    <3>3. QED
      BY <1>5, <3>1, <3>2 DEF prevHashAfter
  <2>5. QED
    BY <2>2, <2>4, SameLink
<1>8. QED
  BY <1>4, <1>6, <1>7

\* The rows, the calls in flight and the history have their types.
THEOREM LedgerTypes == Spec => []TypeOK
<1>1. LedgerInv => TypeOK
  BY DEF LedgerInv
<1>2. QED
  BY <1>1, LedgerInvariant, PTL

\* A view that says verified shows nothing but what appendEntry wrote, under
\* the key the server runs with, from the first entry on and without a gap.
THEOREM VerifiedHistory == Spec => []VerifiedIsGenuine
BY LedgerInvariant, GenuineIfInv, PTL
-----------------------------------------------------------------------------
(* Time stamps outside the repeated hour are read back as written and in    *)
(* the same order.                                                         *)

LEMMA ZoneType ==
    ASSUME NEW s \in Servers
    PROVE  s.zone.at \in Int /\ s.zone.before \in Int /\ s.zone.after \in Int
BY LedgerAssumption DEF LedgerAssumption

LEMMA RoundTrip ==
    ASSUME NEW s \in Servers, NEW i \in Int, i \notin Repeated(s.zone)
    PROVE  instantOf(s.zone, wallClock(s.zone, i)) = i
<1> DEFINE at == s.zone.at
           before == s.zone.before
           after == s.zone.after
<1>1. at \in Int /\ before \in Int /\ after \in Int
  BY ZoneType
<1>2. i < at \/ i >= at + before - after \/ i > at + before - after - 1
  BY <1>1 DEF Repeated
<1>3. CASE i < at
  <2>1. wallClock(s.zone, i) = i + before
    BY <1>3 DEF wallClock
  <2>2. (i + before) - before = i /\ ~(i >= at)
    BY <1>1, <1>3
  <2> HIDE DEF before
  <2>3. QED
    BY <2>1, <2>2 DEF instantOf, before
<1>4. CASE i >= at
  <2>1. wallClock(s.zone, i) = i + after
    BY <1>1, <1>4 DEF wallClock
  <2>2. (i + after) - after = i /\ (i + after) - before >= at
    BY <1>1, <1>2, <1>4
  <2>3. QED
    BY <1>4, <2>1, <2>2 DEF instantOf
<1>5. QED
  BY <1>1, <1>3, <1>4

LEMMA SameOrder ==
    ASSUME NEW s \in Servers, NEW i \in Int, NEW j \in Int, i < j,
           j \notin Repeated(s.zone)
    PROVE  /\ wallClock(s.zone, i) \in Int /\ wallClock(s.zone, j) \in Int
           /\ wallClock(s.zone, i) < wallClock(s.zone, j)
BY ZoneType DEF Repeated, wallClock

-----------------------------------------------------------------------------
(* While nothing upsets the ledger. *)

\* Entries were appended one by one, outside the repeated hour.
Calm ==
    /\ upset = {}
    /\ \A e \in written : e.createdAt \notin Repeated(server.zone)

\* The row is that of e.
IsRowOf(row, e) ==
    /\ SameHashes(row, e)
    /\ row.type = e.type
    /\ canonicalJson(row.payload) = canonicalJson(e.payload)
    /\ row.created_at = wallClock(server.zone, e.createdAt)

\* e is linked to the last entry written before it.
LinkOK(e) ==
    \/ /\ e.prevHash = GENESIS_PREV_HASH
       /\ \A d \in written : d.createdAt >= e.createdAt
    \/ \E d \in written :
          /\ e.prevHash = computePrevHashFromStoredEntry(d)
          /\ d.createdAt < e.createdAt
          /\ \A c \in written : \/ c.createdAt <= d.createdAt
                                \/ c.createdAt >= e.createdAt

\* The rows are those of the entries written, no two of one time; each is
\* linked to the one before and signed with the present key; an entry in flight
\* is alone and later than all.
CalmInv ==
    Calm =>
        /\ \A row \in rows : \E e \in written : IsRowOf(row, e)
        /\ \A e \in written : \E row \in rows : IsRowOf(row, e)
        /\ \A q, r \in rows : q.created_at = r.created_at => q = r
        /\ \A e \in written \cup Pending :
              LinkOK(e) /\ verifyEntrySignature(e, server.signingKey)
        /\ \A w \in InFlight :
              /\ InFlight = {w}
              /\ \A d \in written : d.createdAt < writer[w][1].createdAt

\* In a calm ledger a row shows its entry.
LEMMA RowShows ==
    ASSUME LedgerInv, Calm, NEW row, NEW e \in written, IsRowOf(row, e)
    PROVE  /\ Shows(Loaded(row), e)
           /\ computePrevHashFromStoredEntry(Loaded(row))
                = computePrevHashFromStoredEntry(e)
<1>1. server \in Servers /\ e.createdAt \in Int
  BY DEF LedgerInv, TypeOK
<1>2. instantOf(server.zone, wallClock(server.zone, e.createdAt)) = e.createdAt
  BY <1>1, RoundTrip DEF Calm
<1>3. Shows(Loaded(row), e)
  BY <1>2 DEF Shows, Loaded, IsRowOf
<1>4. QED
  BY <1>3, SameLink DEF IsRowOf

\* The rows are in the order of their entries.
LEMMA RowOrder ==
    ASSUME LedgerInv, Calm, NEW q, NEW r, NEW d \in written, NEW e \in written,
           IsRowOf(q, d), IsRowOf(r, e), q.created_at <= r.created_at
    PROVE  d.createdAt <= e.createdAt
<1>1. server \in Servers /\ d.createdAt \in Int /\ e.createdAt \in Int
  BY DEF LedgerInv, TypeOK
<1>2. SUFFICES ASSUME e.createdAt < d.createdAt PROVE FALSE
  BY <1>1
<1>3. /\ q.created_at = wallClock(server.zone, d.createdAt)
      /\ r.created_at = wallClock(server.zone, e.createdAt)
      /\ d.createdAt \notin Repeated(server.zone)
  BY DEF IsRowOf, Calm
<1>4. /\ r.created_at < q.created_at
      /\ r.created_at \in Int /\ q.created_at \in Int
  BY <1>1, <1>2, <1>3, SameOrder
<1>5. QED
  BY <1>4

LEMMA CalmInit == Init => CalmInv
<1> SUFFICES ASSUME Init PROVE CalmInv
  OBVIOUS
<1>1. InFlight = {} /\ rows = {} /\ written = {}
  BY DEF Init, InFlight
<1>2. Pending = {}
  BY <1>1 DEF Pending
<1>3. QED
  BY <1>1, <1>2 DEF CalmInv

\* A step that takes entries in flight away at most.
LEMMA CalmKeeps ==
    ASSUME LedgerInv, CalmInv, rows' = rows, written' = written,
           upset' = {} => upset = {} /\ server' = server,
           DOMAIN writer' = Writers,
           \A w \in Writers : writer'[w] \in {<<>>, writer[w]}
    PROVE  CalmInv'
<1> SUFFICES ASSUME Calm' PROVE CalmInv'
  BY DEF CalmInv
<1>1. Calm /\ server' = server
  BY DEF Calm
<1>2. /\ InFlight' \subseteq InFlight /\ Pending' \subseteq Pending
      /\ \A w \in InFlight' : writer'[w] = writer[w]
  BY DEF InFlight, Pending
<1>3. QED
  BY <1>1, <1>2 DEF CalmInv, IsRowOf, LinkOK

LEMMA BuiltLink ==
    ASSUME NEW c, NEW at, NEW previous, NEW key
    PROVE  LET e == buildLedgerEntryFields(c, at, previous, key) IN
           /\ e.prevHash = prevHashAfter(previous)
           /\ verifyEntrySignature(e, key)
BY DEF buildLedgerEntryFields, verifyEntrySignature

LEMMA CalmAppend ==
    ASSUME LedgerInv, CalmInv, NEW w \in Writers, NEW content \in Contents,
           AppendEntry(w, content)
    PROVE  CalmInv'
<1> SUFFICES ASSUME Calm' PROVE CalmInv'
  BY DEF CalmInv
<1>1. UNCHANGED <<clock, server, rows, written>>
  BY DEF AppendEntry
<1>2. /\ upset = {} /\ InFlight = {}
      /\ \A d \in written : d.createdAt # clock
  BY DEF Calm, AppendEntry
<1>3. Calm
  BY <1>1, <1>2 DEF Calm
<1>4. PICK previous \in PreviousEntry :
        writer' = [writer EXCEPT ![w] =
            <<buildLedgerEntryFields(content, clock, previous,
                                     server.signingKey)>>]
  BY DEF AppendEntry
<1> DEFINE e == buildLedgerEntryFields(content, clock, previous, server.signingKey)
<1>5. /\ e.createdAt = clock /\ e.prevHash = prevHashAfter(previous)
      /\ verifyEntrySignature(e, server.signingKey)
  BY Built, BuiltLink
<1> HIDE DEF e
<1>6. writer' = [writer EXCEPT ![w] = <<e>>]
  BY <1>4 DEF e
<1>7. DOMAIN writer' = Writers /\ writer'[w] = <<e>>
      /\ \A v \in Writers \ {w} : writer'[v] = <<>>
  BY <1>2, <1>6 DEF LedgerInv, TypeOK, InFlight
<1>8. InFlight' = {w}
  <2>1. <<e>> # <<>>
    OBVIOUS
  <2>2. QED
    BY <1>7, <2>1 DEF InFlight
<1>9. Pending' = {e}
  BY <1>7, <1>8 DEF Pending
<1>10. \A d \in written : d.createdAt < e.createdAt /\ d.createdAt \in Int
  BY <1>2, <1>5 DEF LedgerInv, TypeOK
<1>11. LinkOK(e)
  <2>1. CASE rows = {}
    <3>1. written = {}
      BY <1>3, <2>1 DEF CalmInv
    <3>2. previous = <<>>
      BY <2>1 DEF PreviousEntry
    <3>3. QED
      BY <1>5, <3>1, <3>2 DEF LinkOK, prevHashAfter
  <2>2. CASE rows # {}
    <3>1. PICK row \in Newest : previous = <<Loaded(row)>>
      BY <2>2 DEF PreviousEntry
    <3>2. row \in rows /\ \A other \in rows : other.created_at <= row.created_at
      BY <3>1 DEF Newest
    <3>3. PICK d \in written : IsRowOf(row, d)
      BY <1>3, <3>2 DEF CalmInv
    <3>4. e.prevHash = computePrevHashFromStoredEntry(Loaded(row))
      <4>1. <<Loaded(row)>> # <<>> /\ <<Loaded(row)>>[1] = Loaded(row)
        OBVIOUS
      <4>2. QED
        BY <1>5, <3>1, <4>1 DEF prevHashAfter
    <3>5. e.prevHash = computePrevHashFromStoredEntry(d)
      BY <1>3, <3>3, <3>4, RowShows
    <3>6. ASSUME NEW c \in written PROVE c.createdAt <= d.createdAt
      <4>1. PICK other \in rows : IsRowOf(other, c)
        BY <1>3 DEF CalmInv
      <4>2. QED
        BY <1>3, <3>2, <3>3, <4>1, RowOrder
    <3>7. QED
      BY <1>10, <3>5, <3>6 DEF LinkOK
  <2>3. QED
    BY <2>1, <2>2
<1>12. \A d \in written' \cup Pending' :
          LinkOK(d) /\ verifyEntrySignature(d, server.signingKey)
  BY <1>1, <1>3, <1>5, <1>9, <1>11 DEF CalmInv
<1>13. \A d \in written' \cup Pending' :
          LinkOK(d)' /\ verifyEntrySignature(d, server'.signingKey)
  BY <1>1, <1>12 DEF LinkOK
<1>14. \A v \in InFlight' :
          /\ InFlight' = {v}
          /\ \A d \in written' : d.createdAt < writer'[v][1].createdAt
  BY <1>1, <1>7, <1>8, <1>10
<1>15. QED
  BY <1>1, <1>3, <1>13, <1>14 DEF CalmInv, IsRowOf, verifyEntrySignature

LEMMA CalmCommit ==
    ASSUME LedgerInv, CalmInv, NEW w \in Writers, CommitEntry(w)
    PROVE  CalmInv'
<1> SUFFICES ASSUME Calm' PROVE CalmInv'
  BY DEF CalmInv
<1> DEFINE e == writer[w][1]
           row == Stored(e, FreshId(e))
<1>1. /\ rows' = rows \cup {row} /\ written' = written \cup {e}
      /\ writer' = [writer EXCEPT ![w] = <<>>]
      /\ UNCHANGED <<server, upset>> /\ w \in InFlight
  BY DEF CommitEntry, InFlight
<1>2. Calm /\ e \in Pending
  BY <1>1 DEF Calm, Pending
<1>3. /\ InFlight = {w} /\ \A d \in written : d.createdAt < e.createdAt
      /\ LinkOK(e) /\ verifyEntrySignature(e, server.signingKey)
  BY <1>1, <1>2 DEF CalmInv
<1>4. e.createdAt \in Int /\ e.createdAt \notin Repeated(server.zone)
      /\ server \in Servers /\ ContentOf(e) \in Contents
  BY <1>1, <1>2 DEF LedgerInv, TypeOK, Calm
<1>5. IsRowOf(row, e)
  <2>1. SamePairs(JsonbOf[e.payload], e.payload)
    BY <1>4, LedgerAssumption DEF LedgerAssumption, ContentOf
  <2>2. canonicalJson(JsonbOf[e.payload]) = canonicalJson(e.payload)
    BY <2>1 DEF SamePairs, canonicalJson
  <2>3. QED
    BY <2>2 DEF IsRowOf, SameHashes, Stored
<1> HIDE DEF e, row
<1>6. InFlight' = {}
  BY <1>1, <1>3 DEF InFlight, LedgerInv, TypeOK
<1>7. Pending' = {}
  BY <1>6 DEF Pending
<1>8. \A d \in written : d.createdAt \in Int
  BY DEF LedgerInv, TypeOK
<1>9. \A d \in written \cup {e} : LinkOK(d) => LinkOK(d)'
  <2> TAKE d \in written \cup {e}
  <2>1. e.createdAt >= d.createdAt
    BY <1>3, <1>4, <1>8
  <2>2. QED
    BY <1>1, <2>1 DEF LinkOK
<1>10. \A d \in written' \cup Pending' :
          LinkOK(d)' /\ verifyEntrySignature(d, server'.signingKey)
  BY <1>1, <1>2, <1>3, <1>7, <1>9 DEF CalmInv
<1>11. ASSUME NEW q \in rows PROVE q.created_at # row.created_at
  <2>1. PICK d \in written : IsRowOf(q, d)
    BY <1>2 DEF CalmInv
  <2>2. /\ q.created_at = wallClock(server.zone, d.createdAt)
        /\ row.created_at = wallClock(server.zone, e.createdAt)
    BY <1>5, <2>1 DEF IsRowOf
  <2>3. /\ wallClock(server.zone, d.createdAt) \in Int
        /\ wallClock(server.zone, d.createdAt) < wallClock(server.zone, e.createdAt)
    BY <1>3, <1>4, <1>8, SameOrder
  <2>4. QED
    BY <2>2, <2>3
<1>12. \A q, r \in rows' : q.created_at = r.created_at => q = r
  BY <1>1, <1>2, <1>11 DEF CalmInv
<1>13. /\ \A q \in rows' : \E d \in written' : IsRowOf(q, d)
       /\ \A d \in written' : \E q \in rows' : IsRowOf(q, d)
  BY <1>1, <1>2, <1>5 DEF CalmInv
<1>14. \A q, d : IsRowOf(q, d) => IsRowOf(q, d)'
  BY <1>1 DEF IsRowOf
<1>15. QED
  BY <1>6, <1>10, <1>12, <1>13, <1>14 DEF CalmInv, verifyEntrySignature

LEMMA CalmNext == LedgerInv /\ CalmInv /\ [Next]_vars => CalmInv'
<1> SUFFICES ASSUME LedgerInv, CalmInv, [Next]_vars PROVE CalmInv'
  OBVIOUS
<1>1. DOMAIN writer = Writers
  BY DEF LedgerInv, TypeOK
<1>2. CASE Tick \/ UNCHANGED vars
  BY <1>1, <1>2, CalmKeeps DEF Tick, vars
<1>3. ASSUME NEW w \in Writers, NEW content \in Contents, AppendEntry(w, content)
      PROVE  CalmInv'
  BY <1>3, CalmAppend
<1>4. ASSUME NEW w \in Writers, CommitEntry(w) PROVE CalmInv'
  BY <1>4, CalmCommit
<1>5. ASSUME NEW w \in Writers, RollBack(w) PROVE CalmInv'
  <2>1. DOMAIN writer' = Writers
        /\ \A v \in Writers : writer'[v] \in {<<>>, writer[v]}
    BY <1>1, <1>5 DEF RollBack
  <2>2. QED
    BY <1>5, <2>1, CalmKeeps DEF RollBack
<1>6. CASE Restart
  <2>1. upset' = {} => upset = {} /\ server' = server
    BY <1>6 DEF Restart
  <2>2. QED
    BY <1>6, <2>1, CalmKeeps DEF Restart
<1>7. ASSUME NEW row \in rows, Damage(row) PROVE CalmInv'
  BY <1>7 DEF Damage, CalmInv, Calm
<1>8. QED
  BY <1>2, <1>3, <1>4, <1>5, <1>6, <1>7 DEF Next

\* An enumeration of a set in which nothing occurs twice leaves nothing out.
LEMMA EnumeratesAll ==
    ASSUME NEW S, IsFiniteSet(S), NEW s \in [1..Cardinality(S) -> S],
           \A i, j \in DOMAIN s : i < j => s[i] # s[j]
    PROVE  /\ Cardinality(S) \in Nat
           /\ \A x \in S : \E i \in DOMAIN s : x = s[i]
<1> DEFINE n == Cardinality(S)
<1>1. n \in Nat
  BY FS_CardinalityType
<1>2. \A i, j \in 1..n : s[i] = s[j] => i = j
  <2> TAKE i, j \in 1..n
  <2>1. i < j \/ j < i \/ i = j
    BY <1>1
  <2>2. QED
    BY <2>1
<1>3. s \in Injection(1..n, S)
  BY <1>2 DEF Injection, IsInjective
<1>4. Cardinality(1..n) = n
  BY <1>1, FS_Interval
<1>5. s \in Surjection(1..n, S)
  BY <1>1, <1>3, <1>4, FS_Injection
<1>6. QED
  BY <1>1, <1>5 DEF Surjection

LEMMA OrdersAll ==
    ASSUME LedgerInv, NEW s \in Orders
    PROVE  /\ Cardinality(rows) \in Nat /\ DOMAIN s = 1..Cardinality(rows)
           /\ \A i \in DOMAIN s : s[i] \in rows
           /\ \A row \in rows : \E i \in DOMAIN s : row = s[i]
<1>1. /\ s \in [1..Cardinality(rows) -> rows] /\ IsFiniteSet(rows)
      /\ \A i, j \in DOMAIN s : i < j => s[i] # s[j]
  BY DEF Orders, LedgerInv, TypeOK
<1>2. QED
  BY <1>1, EnumeratesAll

LEMMA CalmVerifies == LedgerInv /\ CalmInv => NoFalseAlarm
<1> SUFFICES ASSUME LedgerInv, CalmInv, Calm, NEW s \in Orders,
                    NEW i \in DOMAIN s
             PROVE  LET entry == Entries(s)[i] IN
                    /\ entry.prevHash = prevHashAfter(Before(Entries(s), i))
                    /\ entry.thisHash = computeThisHash(entry)
                    /\ verifyEntrySignature(entry, server.signingKey)
  BY DEF NoFalseAlarm, Calm, Verified, verifyChain, Entries
<1>1. /\ DOMAIN s = 1..Cardinality(rows) /\ Cardinality(rows) \in Nat
      /\ \A j \in DOMAIN s : s[j] \in rows
      /\ \A row \in rows : \E j \in DOMAIN s : row = s[j]
  BY OrdersAll
<1>2. \A j, k \in DOMAIN s :
          j < k => s[j] # s[k] /\ s[j].created_at <= s[k].created_at
  BY DEF Orders
<1>3. Entries(s)[i] = Loaded(s[i])
  BY DEF Entries
<1>4. PICK e \in written : IsRowOf(s[i], e)
  BY <1>1 DEF CalmInv
<1>5. /\ LinkOK(e) /\ verifyEntrySignature(e, server.signingKey)
      /\ Hashed(e) /\ Shows(Loaded(s[i]), e)
  BY <1>4, RowShows DEF CalmInv, LedgerInv
<1>6. SameHashes(Loaded(s[i]), e)
  BY <1>4 DEF IsRowOf, SameHashes, Loaded
<1>7. /\ Loaded(s[i]).thisHash = computeThisHash(Loaded(s[i]))
      /\ verifyEntrySignature(Loaded(s[i]), server.signingKey)
  BY <1>5, <1>6
  DEF Hashed, Shows, SameHashes, computeThisHash, verifyEntrySignature
\* The row of an earlier entry comes earlier.
<1>8. ASSUME NEW d \in written, d.createdAt < e.createdAt, NEW j \in DOMAIN s,
             IsRowOf(s[j], d)
      PROVE  j < i
  <2>1. SUFFICES ASSUME i <= j PROVE FALSE
    BY <1>1
  <2>2. e.createdAt \in Int /\ d.createdAt \in Int
    BY DEF LedgerInv, TypeOK
  <2>3. s[i].created_at <= s[j].created_at
    <3>1. CASE i = j
      <4>1. s[i].created_at \in Int
        BY <1>1 DEF LedgerInv, TypeOK, RowOK
      <4>2. QED
        BY <3>1, <4>1
    <3>2. CASE i < j
      BY <1>2, <3>2
    <3>3. QED
      BY <1>1, <2>1, <3>1, <3>2
  <2>4. e.createdAt <= d.createdAt
    BY <1>4, <1>8, <2>3, RowOrder
  <2>5. QED
    BY <1>8, <2>2, <2>4
<1>9. CASE i = 1
  <2>1. ASSUME NEW d \in written, d.createdAt < e.createdAt PROVE FALSE
    <3>1. PICK j \in DOMAIN s : IsRowOf(s[j], d)
      BY <1>1 DEF CalmInv
    <3>2. j < i
      BY <1>8, <2>1, <3>1
    <3>3. QED
      BY <1>1, <1>9, <3>2
  <2>2. e.prevHash = GENESIS_PREV_HASH
    BY <1>5, <2>1 DEF LinkOK
  <2>3. Before(Entries(s), i) = <<>>
    BY <1>9 DEF Before
  <2>4. QED
    BY <1>3, <1>6, <1>7, <2>2, <2>3 DEF SameHashes, prevHashAfter
<1>10. CASE i # 1
  <2>1. i - 1 \in DOMAIN s /\ i - 1 < i
    BY <1>1, <1>10
  <2>2. PICK p \in written : IsRowOf(s[i - 1], p)
    BY <1>1, <2>1 DEF CalmInv
  <2>3. p.createdAt < e.createdAt
    <3>1. p.createdAt \in Int /\ e.createdAt \in Int
      BY DEF LedgerInv, TypeOK
    <3>2. s[i - 1].created_at <= s[i].created_at /\ s[i - 1] # s[i]
      BY <1>2, <2>1
    <3>3. p.createdAt <= e.createdAt
      BY <1>4, <2>2, <3>2, RowOrder
    <3>4. p.createdAt # e.createdAt
      <4>1. s[i - 1].created_at # s[i].created_at
        BY <1>1, <2>1, <3>2 DEF CalmInv
      <4>2. QED
        BY <1>4, <2>2, <4>1 DEF IsRowOf
    <3>5. QED
      BY <3>1, <3>3, <3>4
  <2>4. PICK d \in written :
            /\ e.prevHash = computePrevHashFromStoredEntry(d)
            /\ d.createdAt < e.createdAt
            /\ p.createdAt <= d.createdAt \/ p.createdAt >= e.createdAt
    <3>1. p.createdAt \in Int /\ e.createdAt \in Int
      BY DEF LedgerInv, TypeOK
    <3>2. ~(p.createdAt >= e.createdAt)
      BY <2>3, <3>1
    <3>3. QED
      BY <1>5, <3>2 DEF LinkOK
  <2>5. PICK j \in DOMAIN s : IsRowOf(s[j], d)
    BY <1>1 DEF CalmInv
  <2>6. j < i
    BY <1>8, <2>4, <2>5
  <2>7. j = i - 1
    <3>1. SUFFICES ASSUME j < i - 1 PROVE FALSE
      BY <1>1, <2>1, <2>6
    <3>2. s[j].created_at <= s[i - 1].created_at /\ s[j] # s[i - 1]
      BY <1>2, <2>1, <3>1
    <3>3. d.createdAt <= p.createdAt
      BY <2>2, <2>5, <3>2, RowOrder
    <3>4. /\ p.createdAt \in Int /\ e.createdAt \in Int
          /\ d.createdAt \in Int
      BY DEF LedgerInv, TypeOK
    <3>5. d.createdAt = p.createdAt
      BY <2>3, <2>4, <3>3, <3>4
    <3>6. s[j].created_at = s[i - 1].created_at
      BY <2>2, <2>5, <3>5 DEF IsRowOf
    <3>7. QED
      BY <1>1, <2>1, <3>2, <3>6 DEF CalmInv
  <2>8. e.prevHash = computePrevHashFromStoredEntry(Loaded(s[i - 1]))
    BY <2>4, <2>5, <2>7, RowShows
  <2>9. Before(Entries(s), i) = <<Loaded(s[i - 1])>>
    BY <1>10, <2>1 DEF Before, Entries
  <2>10. <<Loaded(s[i - 1])>> # <<>> /\ <<Loaded(s[i - 1])>>[1] = Loaded(s[i - 1])
    OBVIOUS
  <2>11. Loaded(s[i]).prevHash = e.prevHash
    BY <1>6 DEF SameHashes
  <2>12. QED
    BY <1>3, <1>7, <2>8, <2>9, <2>10, <2>11 DEF prevHashAfter
<1>11. QED
  BY <1>9, <1>10

\* Entries appended one by one by a server that keeps its key and its zone, in
\* hours that its clock shows once, always verify: JSONB's order of keys and the
\* trip of created_at through the zone never raise a false alarm.
THEOREM HonestLedgerVerifies == Spec => []NoFalseAlarm
<1>1. Spec => []CalmInv
  BY CalmInit, CalmNext, LedgerInvariant, PTL DEF Spec
<1>2. QED
  BY <1>1, CalmVerifies, LedgerInvariant, PTL
-----------------------------------------------------------------------------
(* A broken ledger. *)

\* e was built upon a row that carried the hash of a written entry, or none.
BuiltOn(e) ==
    \/ e.prevHash = GENESIS_PREV_HASH
    \/ \E d \in written : \E previous :
          /\ e.prevHash = computePrevHashFromStoredEntry(previous)
          /\ previous.thisHash = d.thisHash

\* Without a tie, no entry in flight has the time of another entry.
Untied ==
    \A w \in InFlight :
        /\ \A d \in written : d.createdAt # writer[w][1].createdAt
        /\ \A v \in InFlight :
              v # w => writer[v][1].createdAt # writer[w][1].createdAt

ChainInv ==
    /\ \A e \in written \cup Pending : BuiltOn(e)
    /\ "tie" \notin upset => Untied

LEMMA ChainInit == Init => ChainInv
<1> SUFFICES ASSUME Init PROVE ChainInv
  OBVIOUS
<1>1. InFlight = {} /\ written = {}
  BY DEF Init, InFlight
<1>2. QED
  BY <1>1 DEF ChainInv, Untied, Pending

LEMMA ChainKeeps ==
    ASSUME ChainInv, written' = written, upset \subseteq upset',
           \A w \in Writers : writer'[w] \in {<<>>, writer[w]}
    PROVE  ChainInv'
<1>1. /\ InFlight' \subseteq InFlight /\ Pending' \subseteq Pending
      /\ \A w \in InFlight' : writer'[w] = writer[w]
  BY DEF InFlight, Pending
<1>2. QED
  BY <1>1 DEF ChainInv, BuiltOn, Untied

LEMMA ChainAppend ==
    ASSUME LedgerInv, ChainInv, NEW w \in Writers, NEW content \in Contents,
           AppendEntry(w, content)
    PROVE  ChainInv'
<1>1. PICK previous \in PreviousEntry :
        writer' = [writer EXCEPT ![w] =
            <<buildLedgerEntryFields(content, clock, previous,
                                     server.signingKey)>>]
  BY DEF AppendEntry
<1> DEFINE e == buildLedgerEntryFields(content, clock, previous, server.signingKey)
<1>2. e.createdAt = clock /\ e.prevHash = prevHashAfter(previous)
  BY Built, BuiltLink
<1> HIDE DEF e
<1>3. writer' = [writer EXCEPT ![w] = <<e>>] /\ <<e>>[1] = e
  BY <1>1 DEF e
<1>4. /\ writer'[w] = <<e>> /\ writer[w] = <<>> /\ written' = written
      /\ \A v \in Writers \ {w} : writer'[v] = writer[v]
  BY <1>3 DEF LedgerInv, TypeOK, AppendEntry
<1>5. /\ InFlight' \subseteq InFlight \cup {w} /\ Pending' \subseteq Pending \cup {e}
      /\ w \notin InFlight
  BY <1>4 DEF InFlight, Pending
<1>6. BuiltOn(e)
  <2>1. CASE previous = <<>>
    BY <1>2, <2>1 DEF BuiltOn, prevHashAfter
  <2>2. CASE previous # <<>>
    <3>1. PICK row \in rows : previous = <<Loaded(row)>>
      BY <2>2 DEF PreviousEntry, Newest
    <3>2. e.prevHash = computePrevHashFromStoredEntry(Loaded(row))
      <4>1. <<Loaded(row)>>[1] = Loaded(row)
        OBVIOUS
      <4>2. QED
        BY <1>2, <2>2, <3>1, <4>1 DEF prevHashAfter
    <3>3. PICK d \in written : SameHashes(row, d)
      BY DEF LedgerInv
    <3>4. Loaded(row).thisHash = d.thisHash
      BY <3>3 DEF Loaded, SameHashes
    <3>5. QED
      BY <3>2, <3>4 DEF BuiltOn
  <2>3. QED
    BY <2>1, <2>2
<1>7. \A d \in written' \cup Pending' : BuiltOn(d)'
  BY <1>4, <1>5, <1>6 DEF ChainInv, BuiltOn
<1>8. ASSUME "tie" \notin upset' PROVE Untied'
  <2>1. Untied /\ \A d \in written \cup Pending : d.createdAt # clock
    BY <1>8 DEF AppendEntry, ChainInv
  <2>2. \A v \in InFlight : writer[v][1].createdAt # clock
    BY <2>1 DEF Pending
  <2>3. \A v \in InFlight : writer'[v] = writer[v]
    BY <1>4, <1>5 DEF InFlight
  <2>4. writer'[w][1].createdAt = clock
    BY <1>2, <1>3, <1>4
  <2>5. QED
    BY <1>4, <1>5, <2>1, <2>2, <2>3, <2>4 DEF Untied
<1>9. QED
  BY <1>7, <1>8 DEF ChainInv

LEMMA ChainCommit ==
    ASSUME LedgerInv, ChainInv, NEW w \in Writers, CommitEntry(w)
    PROVE  ChainInv'
<1> DEFINE e == writer[w][1]
<1>1. /\ written' = written \cup {e} /\ upset' = upset /\ w \in InFlight
      /\ writer' = [writer EXCEPT ![w] = <<>>] /\ e \in Pending
  BY DEF CommitEntry, InFlight, Pending
<1>2. writer'[w] = <<>> /\ \A v \in Writers \ {w} : writer'[v] = writer[v]
  BY <1>1 DEF LedgerInv, TypeOK
<1>3. /\ InFlight' \subseteq InFlight \ {w} /\ Pending' \subseteq Pending
      /\ \A v \in InFlight' : writer'[v] = writer[v]
  BY <1>2 DEF InFlight, Pending
<1>4. "tie" \notin upset => Untied'
  BY <1>1, <1>3 DEF ChainInv, Untied
<1> HIDE DEF e
<1>5. \A d \in written' \cup Pending' : BuiltOn(d)'
  BY <1>1, <1>3 DEF ChainInv, BuiltOn
<1>6. QED
  BY <1>1, <1>4, <1>5 DEF ChainInv

LEMMA ChainNext == LedgerInv /\ ChainInv /\ [Next]_vars => ChainInv'
<1> SUFFICES ASSUME LedgerInv, ChainInv, [Next]_vars PROVE ChainInv'
  OBVIOUS
<1>1. CASE Tick \/ UNCHANGED vars \/ Restart
  BY <1>1, ChainKeeps DEF Tick, vars, Restart
<1>2. ASSUME NEW w \in Writers, NEW content \in Contents, AppendEntry(w, content)
      PROVE  ChainInv'
  BY <1>2, ChainAppend
<1>3. ASSUME NEW w \in Writers, CommitEntry(w) PROVE ChainInv'
  BY <1>3, ChainCommit
<1>4. ASSUME NEW w \in Writers, RollBack(w) PROVE ChainInv'
  <2>1. \A v \in Writers : writer'[v] \in {<<>>, writer[v]}
    BY <1>4 DEF RollBack, LedgerInv, TypeOK
  <2>2. QED
    BY <1>4, <2>1, ChainKeeps DEF RollBack
<1>5. ASSUME NEW row \in rows, Damage(row) PROVE ChainInv'
  BY <1>5, ChainKeeps DEF Damage
<1>6. QED
  BY <1>1, <1>2, <1>3, <1>4, <1>5 DEF Next

\* Nothing in the table was built upon an entry that is still in flight.
LEMMA NothingFollows ==
    ASSUME LedgerInv, ChainInv, "tie" \notin upset, NEW w \in InFlight,
           NEW f \in written, NEW entry, entry.thisHash = writer[w][1].thisHash,
           f.prevHash = computePrevHashFromStoredEntry(entry)
    PROVE  FALSE
<1> DEFINE e == writer[w][1]
<1>1. Hashed(e) /\ \A d \in written : Hashed(d) /\ d.createdAt # e.createdAt
  BY DEF ChainInv, Untied, LedgerInv, InFlight, HashedOrNone
<1>2. f.prevHash # GENESIS_PREV_HASH
  <2>1. \A v : <<"sha256", v>> # <<"zeros">>
    OBVIOUS
  <2>2. QED
    BY <2>1 DEF computePrevHashFromStoredEntry, sha256Hex, GENESIS_PREV_HASH
<1>3a. PICK d \in written : \E previous :
        /\ f.prevHash = computePrevHashFromStoredEntry(previous)
        /\ previous.thisHash = d.thisHash
  BY <1>2 DEF ChainInv, BuiltOn
<1>3. PICK previous :
        /\ f.prevHash = computePrevHashFromStoredEntry(previous)
        /\ previous.thisHash = d.thisHash
  BY <1>3a
<1>4. previous.thisHash = entry.thisHash
  BY <1>3 DEF computePrevHashFromStoredEntry, sha256Hex
<1>5. computeThisHash(d) = computeThisHash(e)
  BY <1>1, <1>3, <1>4 DEF Hashed
<1>6. d.createdAt = e.createdAt
  BY <1>5 DEF computeThisHash, sha256Hex
<1>7. QED
  BY <1>1, <1>6

\* Of a ledger that verifies after a commit the new entry is the last, and what
\* is before it verified already.
LEMMA CommitMendsNothing ==
    ASSUME LedgerInv, ChainInv, "tie" \notin upset, NEW w \in Writers,
           CommitEntry(w), rows' # rows, CanVerify'
    PROVE  CanVerify
<1> DEFINE e == writer[w][1]
           row == Stored(e, FreshId(e))
           n == Cardinality(rows)
<1>1. rows' = rows \cup {row} /\ server' = server /\ w \in InFlight
  BY DEF CommitEntry, InFlight
<1>2. row \notin rows /\ row.thisHash = e.thisHash
  BY <1>1 DEF Stored
<1> HIDE DEF row
<1>3. /\ IsFiniteSet(rows) /\ IsFiniteSet(rows') /\ n \in Nat
      /\ Cardinality(rows') = n + 1
  BY <1>1, <1>2, FS_AddElement, FS_CardinalityType DEF LedgerInv, TypeOK
<1>4. PICK s \in Orders' : Verified(s)'
  BY DEF CanVerify
<1>5. /\ s \in [1..(n + 1) -> rows']
      /\ \A i, j \in 1..(n + 1) :
            i < j => s[i] # s[j] /\ s[i].created_at <= s[j].created_at
  BY <1>3, <1>4 DEF Orders
<1>6. \A i \in 1..(n + 1) :
        /\ Loaded(s[i]).prevHash
              = prevHashAfter(IF i = 1 THEN <<>> ELSE <<Loaded(s[i - 1])>>)
        /\ Loaded(s[i]).thisHash = computeThisHash(Loaded(s[i]))
        /\ verifyEntrySignature(Loaded(s[i]), server.signingKey)
  <2>1. \A r : Loaded(r)' = Loaded(r)
    BY <1>1 DEF Loaded
  <2>2. Entries(s)' = [i \in 1..(n + 1) |-> Loaded(s[i])]
    BY <1>5, <2>1 DEF Entries
  <2> DEFINE all == [i \in 1..(n + 1) |-> Loaded(s[i])]
  <2>3. verifyChain(all, server.signingKey)
    BY <1>1, <1>4, <2>2 DEF Verified
  <2>4. \A i \in 1..(n + 1) :
            Before(all, i) = IF i = 1 THEN <<>> ELSE <<Loaded(s[i - 1])>>
    BY <1>3 DEF Before
  <2>5. QED
    BY <2>3, <2>4 DEF verifyChain
<1>7. PICK k \in 1..(n + 1) : s[k] = row
  <2>1. \A x \in rows' : \E i \in DOMAIN s : x = s[i]
    BY <1>3, <1>5, EnumeratesAll
  <2>2. QED
    BY <1>1, <1>5, <2>1
<1>8. k = n + 1
  <2>1. SUFFICES ASSUME k < n + 1 PROVE FALSE
    BY <1>3
  <2>2. k + 1 \in 1..(n + 1) /\ k < k + 1 /\ k + 1 # 1 /\ (k + 1) - 1 = k
    BY <1>3, <2>1
  <2>3. s[k + 1] \in rows
    BY <1>1, <1>5, <1>7, <2>2
  <2>4. PICK f \in written : SameHashes(s[k + 1], f)
    BY <2>3 DEF LedgerInv
  <2>5. f.prevHash = prevHashAfter(<<Loaded(row)>>)
    <3>1. Loaded(s[k + 1]).prevHash = prevHashAfter(<<Loaded(row)>>)
      BY <1>6, <1>7, <2>2
    <3>2. QED
      BY <2>4, <3>1 DEF Loaded, SameHashes
  <2>6. <<Loaded(row)>> # <<>> /\ <<Loaded(row)>>[1] = Loaded(row)
    OBVIOUS
  <2>7. f.prevHash = computePrevHashFromStoredEntry(Loaded(row))
    BY <2>5, <2>6 DEF prevHashAfter
  <2>8. Loaded(row).thisHash = writer[w][1].thisHash
    BY <1>2 DEF Loaded
  <2>9. QED
    BY <1>1, <2>7, <2>8, NothingFollows
<1> DEFINE q == [i \in 1..n |-> s[i]]
<1>9. \A i \in 1..n : i \in 1..(n + 1) /\ i < n + 1 /\ q[i] = s[i]
  BY <1>3
<1>10. q \in Orders
  <2>1. \A i \in 1..n : s[i] \in rows
    BY <1>1, <1>3, <1>5, <1>7, <1>8, <1>9
  <2>2. q \in [1..n -> rows] /\ DOMAIN q = 1..n
    BY <2>1
  <2> HIDE DEF q
  <2>3. QED
    BY <1>5, <1>9, <2>2 DEF Orders
<1>11. Verified(q)
  <2> DEFINE kept == [i \in 1..n |-> Loaded(s[i])]
  <2>1. Entries(q) = kept
    BY DEF Entries
  <2>2. \A i \in 1..n : kept[i] = Loaded(s[i])
          /\ Before(kept, i) = IF i = 1 THEN <<>> ELSE <<Loaded(s[i - 1])>>
    BY <1>3 DEF Before
  <2>3. DOMAIN kept = 1..n
    OBVIOUS
  <2> HIDE DEF kept, q
  <2>4. ASSUME NEW i \in 1..n
        PROVE  /\ kept[i].prevHash = prevHashAfter(Before(kept, i))
               /\ kept[i].thisHash = computeThisHash(kept[i])
               /\ verifyEntrySignature(kept[i], server.signingKey)
    <3>1. i \in 1..(n + 1)
      BY <1>9
    <3>2. QED
      BY <1>6, <2>2, <3>1
  <2>5. verifyChain(kept, server.signingKey)
    BY <2>3, <2>4 DEF verifyChain
  <2>6. QED
    BY <2>1, <2>5 DEF Verified
<1>12. QED
  BY <1>10, <1>11 DEF CanVerify

\* While nobody touches the table and the configuration stays, a ledger that
\* does not verify is not mended by appending to it, for any number of entries.
THEOREM BrokenIsFinal == Spec => BrokenStaysBroken
<1> DEFINE Broken == /\ rows \subseteq rows' /\ server' = server
                     /\ "tie" \notin upset /\ ~CanVerify
                     => ~CanVerify'
<1>1. ASSUME LedgerInv, ChainInv, [Next]_vars PROVE [Broken]_vars
  <2> SUFFICES ASSUME Next, rows \subseteq rows', server' = server,
                      "tie" \notin upset, CanVerify'
               PROVE  CanVerify
    BY <1>1
  <2>1. CASE rows' = rows
    BY <2>1 DEF CanVerify, Orders, Verified, Entries, Loaded
  <2>2. CASE rows' # rows
    <3>1. ASSUME NEW row \in rows, Damage(row) PROVE FALSE
      <4>1. row \in rows'
        OBVIOUS
      <4>2. PICK r : rows' = (rows \ {row}) \cup {r}
        BY <3>1, <4>1 DEF Damage
      <4>3. r = row
        BY <4>1, <4>2
      <4>4. rows' = rows
        BY <4>2, <4>3
      <4>5. QED
        BY <2>2, <4>4
    <3>2. PICK w \in Writers : CommitEntry(w)
      BY <2>2, <3>1 DEF Next, Tick, AppendEntry, RollBack, Restart
    <3>3. QED
      BY <1>1, <2>2, <3>2, CommitMendsNothing
  <2>3. QED
    BY <2>1, <2>2
<1>2. Spec => []ChainInv
  BY ChainInit, ChainNext, LedgerInvariant, PTL DEF Spec
<1>3. QED
  BY <1>1, <1>2, LedgerInvariant, PTL DEF Spec, BrokenStaysBroken
=============================================================================
