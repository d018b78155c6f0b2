------------------------- MODULE TradeSettlementProofs -------------------------
(***************************************************************************)
(* The pipeline implements Settlement, for any number of trades, keys and  *)
(* requests in flight: FundInsertRecord is PayIn, CommitVerdict is Judge,  *)
(* the first CommitRelease of a trade is PayOut and a later one, of a      *)
(* release that overlapped it, TransferAgain; all else is a stutter.       *)
(***************************************************************************)
EXTENDS TradePipelineProofs, TradeSettlement, FiniteSetTheorems

USE DEF TradeTable, HoldTable, ReportTable, RecordTable

SettlementSteps == [Promise!Next]_(Promise!vars)

LEMMA InitSettles ==
    ASSUME Init
    PROVE  Promise!Init
  <1>1. ASSUME NEW t, NEW what
        PROVE  Cardinality({e \in ledger : e.tradeId = t /\ e.type = what}) = 0
    <2>1. {e \in ledger : e.tradeId = t /\ e.type = what} = {}
      BY DEF Init
    <2>2. QED  BY <2>1, FS_EmptySet
  <1>2. History = [t \in Trades |-> [what \in LedgerEntryType |-> 0]]
    BY <1>1 DEF History
  <1>3. QED
    BY <1>2, StoreAssumption
    DEF Init, Promise!Init, Funding, Receipts, PaidOut, EscrowHoldStatus

LEMMA BooksSameStutters ==
    ASSUME UNCHANGED <<holds, reports, records, ledger>>
    PROVE  UNCHANGED Promise!vars
  BY DEF Promise!vars, Funding, Receipts, PaidOut, History

\* Only what was written is in the ledger, one entry at a time.
LedgerFinite == IsFiniteSet(ledger)

LEMMA LedgerStep ==
    ASSUME LedgerFinite, [Next]_vars
    PROVE  LedgerFinite'
  <1>1. ASSUME NEW entry, ledger' = ledger \cup {entry} PROVE LedgerFinite'
    BY <1>1, FS_AddElement DEF LedgerFinite
  <1>2. CASE UNCHANGED ledger
    BY <1>2 DEF LedgerFinite
  <1>3. ASSUME NEW r \in Requests,
               Arrive(r) \/ Serve(r) \/ DeadlockVictim(r) \/ Fail(r)
        PROVE  LedgerFinite'
    BY <1>1, <1>2, <1>3, ServeCommits, OthersCommitNothing
    DEF FundInsertRecord, CommitVerdict, CommitRelease
  <1>4. CASE Tick \/ UNCHANGED vars
    BY <1>2, <1>4 DEF Tick, tables, vars
  <1>5. QED  BY <1>3, <1>4 DEF Next

LEMMA LedgerStaysFinite == Spec => []LedgerFinite
  <1>1. Init => LedgerFinite
    BY FS_EmptySet DEF Init, LedgerFinite
  <1>2. QED  BY <1>1, LedgerStep, PTL DEF Spec

\* A new entry is one more line of its trade's history.
LEMMA EntryIsLine ==
    ASSUME LedgerFinite, NEW t \in Trades, NEW entry, entry \notin ledger,
           entry.tradeId = t, entry.type \in LedgerEntryType,
           ledger' = ledger \cup {entry}
    PROVE  Promise!Writes(t, entry.type)
  <1> DEFINE Lines(l, u, what) == {e \in l : e.tradeId = u /\ e.type = what}
  <1>1. ASSUME NEW u \in Trades, NEW what \in LedgerEntryType
        PROVE  Cardinality(Lines(ledger', u, what)) =
                 IF u = t /\ what = entry.type
                    THEN Cardinality(Lines(ledger, u, what)) + 1
                    ELSE Cardinality(Lines(ledger, u, what))
    <2>1. IsFiniteSet(Lines(ledger, u, what)) /\ entry \notin Lines(ledger, u, what)
      BY FS_Subset DEF LedgerFinite
    <2>2. CASE u = t /\ what = entry.type
      <3>1. Lines(ledger', u, what) = Lines(ledger, u, what) \cup {entry}
        BY <2>2
      <3>2. QED  BY <2>1, <2>2, <3>1, FS_AddElement
    <2>3. CASE ~(u = t /\ what = entry.type)
      <3>1. Lines(ledger', u, what) = Lines(ledger, u, what)
        BY <2>3
      <3>2. QED  BY <2>3, <3>1
    <2>4. QED  BY <2>2, <2>3
  <1>2. \A u \in Trades, what \in LedgerEntryType :
            /\ History[u][what] = Cardinality(Lines(ledger, u, what))
            /\ History'[u][what] = Cardinality(Lines(ledger', u, what))
    BY DEF History
  <1> HIDE DEF Lines
  <1>3. History' = [u \in Trades |-> [what \in LedgerEntryType |-> History'[u][what]]]
    BY DEF History
  <1>4. History = [u \in Trades |-> [what \in LedgerEntryType |-> History[u][what]]]
    BY DEF History
  <1>5. \A u \in Trades, what \in LedgerEntryType :
            History'[u][what] = IF u = t /\ what = entry.type
                                   THEN History[u][what] + 1
                                   ELSE History[u][what]
    BY <1>1, <1>2
  <1>6. History' = [History EXCEPT ![t][entry.type] = @ + 1]
    BY <1>3, <1>4, <1>5
  <1>7. QED  BY <1>6 DEF Promise!Writes

LEMMA FundingPaysIn ==
    ASSUME Inv, NEW r \in Requests, FundInsertRecord(r)
    PROVE  SettlementSteps
  <1>1. PICK t \in Trades : t = req[r].tradeId
    BY AtPc DEF FundInsertRecord, RequestOK
  <1>2. PICK k \in Keys : k = req[r].key
    BY AtPc, OpAt DEF FundInsertRecord, RequestOK, FundOK
  <1>3. CASE records[k] = NULL
    <2>1. holds[t] = NULL /\ reports[t] = "PASS" /\ req[r].body \in Body
      BY <1>1, AtPc, OpAt DEF FundInsertRecord, RequestOK, FundOK
    <2>2. PICK record : /\ record \in IdempotencyRecord /\ record.tradeId = t
                        /\ records' = [records EXCEPT ![k] = record]
      <3>1. computeRequestHash(t, req[r].body) \in Body
        BY <2>1, HashType
      <3>2. [ tradeId |-> t,
              requestHash |-> computeRequestHash(t, req[r].body) ]
                \in IdempotencyRecord
        BY <3>1 DEF IdempotencyRecord
      <3>3. QED
        BY <1>1, <1>2, <1>3, <3>2 DEF FundInsertRecord
    <2>3. holds' = [holds EXCEPT ![t] = "HELD"] /\ UNCHANGED <<reports, ledger>>
      BY <1>1, <1>2, <1>3 DEF FundInsertRecord
    <2>4. Funding' = Funding \cup {t} /\ t \notin Funding
      BY <2>1, <2>3, StoreAssumption
      DEF Funding, Inv, TypeOK, EscrowHoldStatus
    <2>5. PaidOut' = PaidOut
      BY <2>1, <2>3, StoreAssumption
      DEF PaidOut, Inv, TypeOK, EscrowHoldStatus
    <2>6. Receipts' = Receipts \cup {<<k, t>>}
      <3>1. {i \in Keys : records'[i] # NULL}
              = {i \in Keys : records[i] # NULL} \cup {k}
        BY <2>2, StoreAssumption DEF Inv, TypeOK
      <3>2. \A i \in Keys : records'[i] = IF i = k THEN record ELSE records[i]
        BY <2>2 DEF Inv, TypeOK
      <3>3. QED  BY <1>3, <2>2, <3>1, <3>2 DEF Receipts
    <2>7. \A u \in Trades : <<k, u>> \notin Receipts
      BY <1>3 DEF Receipts
    <2>8. Promise!PayIn(k, t)
      BY <2>1, <2>3, <2>4, <2>5, <2>6, <2>7 DEF Promise!PayIn, History
    <2>9. QED  BY <2>8 DEF SettlementSteps, Promise!Next
  <1>4. CASE records[k] # NULL
    BY <1>2, <1>4, BooksSameStutters DEF FundInsertRecord, SettlementSteps
  <1>5. QED  BY <1>3, <1>4

LEMMA VerdictJudges ==
    ASSUME Inv, LedgerFinite, NEW r \in Requests, CommitVerdict(r)
    PROVE  SettlementSteps
  <1>1. PICK t \in Trades : t = req[r].tradeId
    BY SavedRow DEF CommitVerdict, Saves
  <1>2. PICK v \in AuthVerdict : v = req[r].verdict
    BY AtPc DEF CommitVerdict, Saves, RequestOK, VerdictOK
  <1>3. /\ reports[t] = NULL /\ req[r].entry.tradeId = t
        /\ req[r].entry.type = Promise!Recorded(v)
        /\ req[r].entry.type \in LedgerEntryType \ {"TRANSFERRED"}
    BY <1>1, <1>2, AtPc
    DEF CommitVerdict, Saves, RequestOK, VerdictOK, EntryOK, SavePc,
        Promise!Recorded, LedgerEntryType
  <1>4. /\ reports' = [reports EXCEPT ![t] = v]
        /\ ledger' = ledger \cup {req[r].entry}
        /\ UNCHANGED <<holds, records>>
    BY <1>1, <1>2 DEF CommitVerdict
  <1>5. Promise!Writes(t, Promise!Recorded(v))
    <2>1. req[r].entry \notin ledger
      BY <1>3 DEF Inv, TablesOK, VerdictOnLedger
    <2>2. QED  BY <1>3, <1>4, <2>1, EntryIsLine
  <1>6. Promise!Judge(t, v)
    BY <1>3, <1>4, <1>5 DEF Promise!Judge, Funding, Receipts, PaidOut
  <1>7. QED
    BY <1>6 DEF SettlementSteps, Promise!Next, AuthVerdict

LEMMA ReleasePaysOut ==
    ASSUME Inv, LedgerFinite, NEW r \in Requests, CommitRelease(r)
    PROVE  SettlementSteps
  <1>1. PICK t \in Trades : t = req[r].tradeId
    BY SavedRow DEF CommitRelease, Saves
  <1>2. /\ holds[t] # NULL /\ req[r].entry.tradeId = t
        /\ req[r].entry.type = "TRANSFERRED"
    BY <1>1, AtPc
    DEF CommitRelease, Saves, RequestOK, ReleaseOK, EntryOK, SavePc, Paid
  <1>3. /\ holds' = [holds EXCEPT ![t] = "RELEASED"]
        /\ ledger' = ledger \cup {req[r].entry}
        /\ UNCHANGED <<reports, records>>
    BY <1>1 DEF CommitRelease
  <1>4. Funding' = Funding /\ t \in Funding /\ PaidOut' = PaidOut \cup {t}
    BY <1>2, <1>3, StoreAssumption
    DEF Funding, PaidOut, Inv, TypeOK, EscrowHoldStatus
  <1>5. Receipts' = Receipts
    BY <1>3 DEF Receipts
  <1>6. req[r].entry \notin ledger => Promise!Writes(t, "TRANSFERRED")
    BY <1>2, <1>3, EntryIsLine DEF LedgerEntryType
  <1>7. CASE t \notin PaidOut
    <2>1. req[r].entry \notin ledger
      BY <1>2, <1>7 DEF PaidOut, Inv, TablesOK, PayoutMatchesTransfer
    <2>2. Promise!PayOut(t)
      BY <1>3, <1>4, <1>5, <1>6, <1>7, <2>1 DEF Promise!PayOut
    <2>3. QED  BY <2>2 DEF SettlementSteps, Promise!Next
  <1>8. CASE t \in PaidOut /\ req[r].entry \notin ledger
    <2>1. Promise!TransferAgain(t)
      BY <1>3, <1>4, <1>5, <1>6, <1>8 DEF Promise!TransferAgain
    <2>2. QED  BY <2>1 DEF SettlementSteps, Promise!Next
  <1>9. CASE t \in PaidOut /\ req[r].entry \in ledger
    <2>1. ledger' = ledger
      BY <1>3, <1>9
    <2>2. UNCHANGED Promise!vars
      BY <1>3, <1>4, <1>5, <1>9, <2>1 DEF Promise!vars, History
    <2>3. QED  BY <2>2 DEF SettlementSteps
  <1>10. QED  BY <1>7, <1>8, <1>9

LEMMA StepSettles ==
    ASSUME Inv, LedgerFinite, [Next]_vars
    PROVE  SettlementSteps
  <1>1. CASE UNCHANGED <<holds, reports, records, ledger>>
    BY <1>1, BooksSameStutters DEF SettlementSteps
  <1>2. ASSUME NEW r \in Requests,
               Arrive(r) \/ Serve(r) \/ DeadlockVictim(r) \/ Fail(r)
        PROVE  SettlementSteps
    BY <1>1, <1>2, ServeCommits, OthersCommitNothing, FundingPaysIn,
       VerdictJudges, ReleasePaysOut
  <1>3. CASE Tick \/ UNCHANGED vars
    BY <1>1, <1>3 DEF Tick, tables, vars
  <1>4. QED  BY <1>2, <1>3 DEF Next

\* However calls interleave, retry and die, verdicts and money look as if
\* fundEscrow, release and the verdict each took effect at one instant and once,
\* but for the TRANSFERRED line that an overlapping release writes again.
THEOREM SettlementImplemented == Spec => ImplementsSettlement
  <1>1. Inv /\ LedgerFinite /\ [Next]_vars => [Promise!Next]_(Promise!vars)
    BY StepSettles DEF SettlementSteps
  <1>2. QED
    BY <1>1, InitSettles, Invariance, LedgerStaysFinite, PTL
    DEF Spec, ImplementsSettlement, Promise!Spec
=============================================================================
