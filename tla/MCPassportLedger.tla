--------------------------- MODULE MCPassportLedger ---------------------------
(* Small instances of PassportLedger for TLC. *)
EXTENDS PassportLedger, TLC

CONSTANTS a1, a2

\* The payload of a verdict and of a transfer, shortened: as the services build
\* them, and as JSONB orders their keys, by length first.
Verdict == << <<"tradeId", "t">>, <<"notes", "n">> >>
StoredVerdict == << <<"notes", "n">>, <<"tradeId", "t">> >>
Transfer == << <<"tradeId", "t">>, <<"buyerId", "b">> >>
StoredTransfer == << <<"buyerId", "b">>, <<"tradeId", "t">> >>

MCJsonbOf ==
    [p \in {Verdict, Transfer} |-> IF p = Verdict THEN StoredVerdict
                                                 ELSE StoredTransfer]

MCContents == { [type |-> "AUTHENTICATED", payload |-> Verdict],
                [type |-> "TRANSFERRED", payload |-> Transfer] }

\* UTC, and a zone whose clock is set back by one unit at instant 1.
Utc == [at |-> 0, before |-> 0, after |-> 0]
SetBack == [at |-> 1, before |-> 1, after |-> 0]

MCServers == { [signingKey |-> "fallback", zone |-> SetBack],
               [signingKey |-> "secret",   zone |-> Utc] }

Symmetry == Permutations(Writers)
=============================================================================
