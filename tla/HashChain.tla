------------------------------- MODULE HashChain -------------------------------
(***************************************************************************)
(* The hash chain of a passport's ledger: how an entry is linked, hashed   *)
(* and signed, and when a list of entries verifies.                        *)
(*                                                                         *)
(* SHA-256 and HMAC are symbolic: equal digests have equal inputs.  An     *)
(* entry's type stands for its signer too, which is treated alike.  A      *)
(* payload is the sequence of its <<key, value>> pairs, in the order in    *)
(* which the object lists them.                                            *)
(***************************************************************************)
EXTENDS Integers, Sequences

GENESIS_PREV_HASH == <<"zeros">>

sha256Hex(value) == <<"sha256", value>>

hmacSha256Hex(key, value) == <<"hmac", key, value>>

\* Mutant: JSON.stringify alone, which keeps the order of the keys.
unsortedJson(payload) == payload

\* The keys are sorted: what is left of a payload is which pairs it has.
canonicalJson(payload) == {payload[i] : i \in DOMAIN payload}

computeThisHash(entry) ==
    sha256Hex([ type |-> entry.type, payload |-> canonicalJson(entry.payload),
                prevHash |-> entry.prevHash, createdAt |-> entry.createdAt ])

computePrevHashFromStoredEntry(entry) ==
    sha256Hex([ type |-> entry.type, payload |-> canonicalJson(entry.payload),
                prevHash |-> entry.prevHash, thisHash |-> entry.thisHash,
                signature |-> entry.signature, createdAt |-> entry.createdAt ])

signHash(thisHash, signingKey) == hmacSha256Hex(signingKey, thisHash)

verifyEntrySignature(entry, signingKey) ==
    entry.signature = signHash(entry.thisHash, signingKey)

\* The link to the entry before, GENESIS for the first.
prevHashAfter(previous) ==
    IF previous = <<>> THEN GENESIS_PREV_HASH
                       ELSE computePrevHashFromStoredEntry(previous[1])

\* A new entry: content [type, payload] at createdAt, after previous, which is
\* <<>> or <<the entry before>>.
buildLedgerEntryFields(content, createdAt, previous, signingKey) ==
    LET prevHash == prevHashAfter(previous)
        thisHash == computeThisHash([ type |-> content.type,
                                      payload |-> content.payload,
                                      prevHash |-> prevHash,
                                      createdAt |-> createdAt ])
    IN  [ type |-> content.type, payload |-> content.payload,
          prevHash |-> prevHash, thisHash |-> thisHash,
          signature |-> signHash(thisHash, signingKey),
          createdAt |-> createdAt ]

Before(entries, i) == IF i = 1 THEN <<>> ELSE <<entries[i - 1]>>

\* Mutant: the links are not compared.
verifyEntriesAlone(entries, signingKey) ==
    \A i \in DOMAIN entries :
        /\ entries[i].thisHash = computeThisHash(entries[i])
        /\ verifyEntrySignature(entries[i], signingKey)

\* Mutant: the loop goes on after a wrong entry and the last one decides.
verifyLast(entries, signingKey) ==
    \A i \in DOMAIN entries : i = Len(entries) =>
        /\ entries[i].prevHash = prevHashAfter(Before(entries, i))
        /\ entries[i].thisHash = computeThisHash(entries[i])
        /\ verifyEntrySignature(entries[i], signingKey)

\* The loop returns false at the first entry with a wrong link, a wrong hash or
\* a wrong signature.
verifyChain(entries, signingKey) ==
    \A i \in DOMAIN entries :
        /\ entries[i].prevHash = prevHashAfter(Before(entries, i))
        /\ entries[i].thisHash = computeThisHash(entries[i])
        /\ verifyEntrySignature(entries[i], signingKey)
=============================================================================
