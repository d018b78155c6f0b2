--------------------------- MODULE PassportService ---------------------------
(***************************************************************************)
(* The digital passport: an append-only ledger per watch, hash-chained.    *)
(* Appending runs inside the caller's transaction.                         *)
(***************************************************************************)
EXTENDS TradeStore

EntriesOf(p, entries) == {e \in entries : e.passport = p}

IsLast(e, entries) == \A f \in entries : f.createdAt <= e.createdAt

\* createdAt of the newest entry, the 0 of GENESIS when there is none.
Newest(entries) ==
    IF \E e \in entries : IsLast(e, entries)
        THEN (CHOOSE e \in entries : IsLast(e, entries)).createdAt
        ELSE 0

\* Entries written by requests in flight, visible to nobody else yet.
Uncommitted == {req[r].entry : r \in Requests} \ {NULL}

\* Mutant: the newest entry is read outside the isolation of transactions.
NewEntryDirtyRead(p, type, t) ==
    [ passport |-> p, type |-> type, tradeId |-> t,
      createdAt |-> Newest(EntriesOf(p, ledger \cup Uncommitted)) + 1,
      prevHash |-> Newest(EntriesOf(p, ledger \cup Uncommitted)) ]

\* Mutant: the entry is linked to the first entry (createdAt: 'ASC').
NewEntryAscending(p, type, t) ==
    [ passport |-> p, type |-> type, tradeId |-> t,
      createdAt |-> Newest(EntriesOf(p, ledger \cup Uncommitted)) + 1,
      prevHash |-> IF EntriesOf(p, ledger) = {} THEN 0 ELSE 1 ]

\* The entry is linked to the newest COMMITTED entry.  Its createdAt is read
\* from the clock afterwards: here later than that of every entry so far, which
\* leaves out two entries of one millisecond and a clock that is set back (those
\* are in PassportLedger).
NewEntry(p, type, t) ==
    [ passport  |-> p,
      type      |-> type,
      tradeId   |-> t,
      createdAt |-> Newest(EntriesOf(p, ledger \cup Uncommitted)) + 1,
      prevHash  |-> Newest(EntriesOf(p, ledger)) ]

\* findOne of the last entry, build, sign and insert the next.
AppendEntry(r, type) ==
    /\ req[r].pc = "appendEntry"
    /\ Become(r, [req[r] EXCEPT
                    !.pc = "selectTrade",
                    !.entry = NewEntry(req[r].mem.watchId, type, req[r].tradeId)])
    /\ UNCHANGED <<tables, clock>>

\* In createdAt order every entry must carry the hash of the entry before it.
VerifyChain(p) ==
    LET entries == EntriesOf(p, ledger) IN
    \A e \in entries :
        e.prevHash = Newest({f \in entries : f.createdAt < e.createdAt})
=============================================================================
