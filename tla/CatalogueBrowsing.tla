--------------------------- MODULE CatalogueBrowsing ---------------------------
(***************************************************************************)
(* GET /watches, read page by page by a client while sellers and the       *)
(* script go on listing watches: WatchesService.findAll, whose page and    *)
(* total are two queries, over WatchCatalogue.                             *)
(*                                                                         *)
(* created_at is now(), the start of the transaction that inserts the      *)
(* watch, so a watch that commits late takes its place among those already *)
(* shown, not in front of them.  No two watches share a created_at.        *)
(***************************************************************************)
EXTENDS WatchCatalogue, SequencesExt

CONSTANT Limit    \* query.limit, 1..100

VARIABLES
    listing,    \* table watches in the order of ORDER BY created_at DESC
    browser     \* the client and the request it has in flight

Browser == [ pc : {"idle", "ask", "count", "done"},
             page : 1..(Cardinality(References) + SeedSize + 1),
             seen : SUBSET Watch,     \* the rows it was shown
             since : SUBSET Watch ]   \* history: those there when it began

AtRest == [pc |-> "idle", page |-> 1, seen |-> {}, since |-> {}]

BrowseTypeOK ==
    /\ TypeOK
    /\ IsInjective(listing) /\ Range(listing) = watches
    /\ browser \in Browser

BrowseInit == Init /\ listing = << >> /\ browser = AtRest

-----------------------------------------------------------------------------
Skip(page) == (page - 1) * Limit

\* Mutant: Math.floor for Math.ceil.
TotalPagesDown(total) == IF total < Limit THEN 1 ELSE total \div Limit

\* Math.ceil(total / limit) || 1
TotalPages(total) ==
    IF total = 0 THEN 1 ELSE (total + Limit - 1) \div Limit

\* A client asks for the first page.
Begin ==
    /\ browser.pc \in {"idle", "done"}
    /\ browser' = [AtRest EXCEPT !.pc = "ask", !.since = watches]

\* SELECT ... ORDER BY created_at DESC OFFSET skip LIMIT limit.  TypeORM may
\* take skip + rows for the total of a page that is not full, which makes this
\* page the last, or send the COUNT of a full one.
SelectPage ==
    LET first == Skip(browser.page) + 1
        last == Skip(browser.page) + Limit
        rows == {listing[k] : k \in (first..last) \cap DOMAIN listing} IN
    /\ browser.pc = "ask"
    /\ \/ browser' = [browser EXCEPT !.seen = @ \cup rows, !.pc = "count"]
       \/ /\ last > Len(listing)
          /\ browser' = [browser EXCEPT !.seen = @ \cup rows, !.pc = "done"]

\* SELECT COUNT(1), and the reply; the client asks for the next page, if any.
CountAll ==
    /\ browser.pc = "count"
    /\ browser' = IF browser.page < TotalPages(Cardinality(watches))
                      THEN [browser EXCEPT !.pc = "ask", !.page = @ + 1]
                      ELSE [browser EXCEPT !.pc = "done"]

\* The step of a seller or of the script: what it commits appears somewhere.
Appear ==
    /\ Next
    /\ \/ /\ watches' = watches
          /\ UNCHANGED listing
       \/ \E w \in watches' \ watches, i \in 1..(Len(listing) + 1) :
              listing' = InsertAt(listing, i, w)

BrowseNext ==
    \/ Appear /\ UNCHANGED browser
    \/ (Begin \/ SelectPage \/ CountAll) /\ UNCHANGED <<vars, listing>>

BrowseSpec == BrowseInit /\ [][BrowseNext]_<<vars, listing, browser>>

-----------------------------------------------------------------------------
\* A client that read its way to the last page was shown every watch that was
\* in the catalogue when it began, whatever was listed meanwhile and wherever
\* that fell among the pages already read: a page can repeat a row, never skip
\* one.
NothingSkipped == browser.pc = "done" => browser.since \subseteq browser.seen

\* A key of a unique index has a bounded length: there are finitely many.
ASSUME LimitAssumption == Limit \in Nat \ {0} /\ IsFiniteSet(References)
=============================================================================
