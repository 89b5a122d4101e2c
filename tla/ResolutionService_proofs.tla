------------------------ MODULE ResolutionService_proofs ------------------------
(* The service beside its market, for any number of concurrent requests, packages *)
(* and transactions: it takes no step the market's specification does not allow,  *)
(* publishes what it proposes, and records the truth about what it sent.          *)
EXTENDS ResolutionService, ConditionalMarket_proofs, SequenceTheorems

-----------------------------------------------------------------------------
(* The inductive invariant. *)

Places == {"idle", "findStanding", "persist", "saveEvidence", "send", "markSubmitted",
           "wait", "waitFinal"}

CallRecord == [ at : Places, round : Nat, force : BOOLEAN, dryRun : BOOLEAN,
                row : Nat, tx : Nat ]

ServiceTyped ==
    /\ call \in [Calls -> CallRecord]
    /\ rows \in Seq(Row)
    /\ txs \in Seq(Tx)
    /\ committed \in Seq(Nat)

HasRow(c) == call[c].at \in {"saveEvidence", "send", "markSubmitted", "wait"}
HasTx(c)  == call[c].at \in {"markSubmitted", "wait"}

\* A row is worked on by the one call that inserted it.
RowsAreOwned ==
    /\ \A c \in Calls : HasRow(c) => call[c].row \in 1 .. Len(rows)
    /\ \A c, d \in Calls : HasRow(c) /\ HasRow(d) /\ call[c].row = call[d].row => c = d

\* What a call is about to send, what was sent and what was accepted is stored.
PackagesAreStored ==
    /\ \A c \in Calls : call[c].at = "send" => rows[call[c].row].evidenceHash \in evidence
    /\ \A t \in 1 .. Len(txs) :
          txs[t].function = "proposeResolution" => txs[t].evidenceHash \in evidence
    /\ EvidencePublished

\* The transaction a call waits for is the proposal of its own row.
CallsSentTheirRow ==
    \A c \in Calls : HasTx(c) =>
        /\ call[c].tx \in 1 .. Len(txs)
        /\ txs[call[c].tx].function = "proposeResolution"
        /\ txs[call[c].tx].evidenceHash = rows[call[c].row].evidenceHash
        /\ call[c].at = "wait" => rows[call[c].row].tx = call[c].tx

Accepted(t) == \E k \in 1 .. Len(committed) : committed[k] = t

AcceptedIsRecorded ==
    \A t \in 1 .. Len(txs) :
        txs[t].function = "proposeResolution" /\ txs[t].fate = "succeeded" => Accepted(t)

TruthOf(row) ==
    /\ row.tx # NoTransaction =>
          row.tx \in 1 .. Len(txs) /\ txs[row.tx].evidenceHash = row.evidenceHash
    /\ row.submissionState = "CONFIRMED" => Accepted(row.tx)
    /\ row.submissionState = "FAILED" =>
          row.tx \in 1 .. Len(txs) /\ txs[row.tx].fate = "reverted"

RowsAreTrue == \A i \in 1 .. Len(rows) : TruthOf(rows[i])

ServiceInv ==
    /\ ServiceTyped /\ RowsAreOwned /\ PackagesAreStored
    /\ CallsSentTheirRow /\ AcceptedIsRecorded /\ RowsAreTrue

-----------------------------------------------------------------------------
(* What the steps do to the tables. *)

\* A row that is appended is the last one, and the others stay.
LEMMA RowAppended ==
    ASSUME rows \in Seq(Row), NEW row \in Row, rows' = Append(rows, row)
    PROVE  /\ Len(rows) \in Nat
           /\ rows' \in Seq(Row) /\ Len(rows') = Len(rows) + 1
           /\ rows'[Len(rows) + 1] = row
           /\ \A i \in 1 .. Len(rows) : rows'[i] = rows[i]
PROOF
    BY LenProperties

\* A transaction that is sent is the last one, and the others stay.
LEMMA TxAppended ==
    ASSUME txs \in Seq(Tx), NEW tx \in Tx, txs' = Append(txs, tx)
    PROVE  /\ Len(txs) \in Nat
           /\ txs' \in Seq(Tx) /\ Len(txs') = Len(txs) + 1
           /\ txs'[Len(txs) + 1] = tx
           /\ \A t \in 1 .. Len(txs) : txs'[t] = txs[t]
PROOF
    BY LenProperties

\* An update of one row replaces that row.
LEMMA RowReplaced ==
    ASSUME rows \in Seq(Row), NEW i \in 1 .. Len(rows), NEW row \in Row,
           rows' = [rows EXCEPT ![i] = row]
    PROVE  /\ rows' \in Seq(Row) /\ Len(rows') = Len(rows)
           /\ \A j \in 1 .. Len(rows) : rows'[j] = IF j = i THEN row ELSE rows[j]
PROOF
    BY ExceptSeq

\* A transaction that meets its fate is otherwise the same.
LEMMA FateChanged ==
    ASSUME txs \in Seq(Tx), NEW t \in 1 .. Len(txs),
           NEW fate \in {"pending", "succeeded", "reverted"}, Fate(t, fate)
    PROVE  /\ txs' \in Seq(Tx) /\ Len(txs') = Len(txs)
           /\ \A u \in 1 .. Len(txs) :
                 /\ txs'[u].function = txs[u].function
                 /\ txs'[u].evidenceHash = txs[u].evidenceHash
                 /\ txs'[u].fate = IF u = t THEN fate ELSE txs[u].fate
PROOF
<1>1. txs[t] \in Tx
    BY ElementOfSeq
<1> DEFINE tx == [txs[t] EXCEPT !.fate = fate]
<1>2. /\ tx \in Tx /\ tx.fate = fate
      /\ tx.function = txs[t].function /\ tx.evidenceHash = txs[t].evidenceHash
    BY <1>1 DEF Tx
<1>3. txs' = [txs EXCEPT ![t] = tx]
    BY DEF Fate
<1> HIDE DEF tx
<1>4. /\ txs' \in Seq(Tx) /\ Len(txs') = Len(txs)
      /\ \A u \in 1 .. Len(txs) : txs'[u] = IF u = t THEN tx ELSE txs[u]
    BY <1>2, <1>3, ExceptSeq
<1> QED
    BY <1>2, <1>4

\* A proposal the contract accepts joins the ones it accepted.
LEMMA CommittedAppended ==
    ASSUME committed \in Seq(Nat), NEW t \in Nat, committed' = Append(committed, t)
    PROVE  /\ committed' \in Seq(Nat)
           /\ \A u : Accepted(u) => Accepted(u)'
           /\ Accepted(t)'
PROOF
<1>1. /\ Len(committed) \in Nat
      /\ committed' \in Seq(Nat) /\ Len(committed') = Len(committed) + 1
      /\ committed'[Len(committed) + 1] = t
      /\ \A k \in 1 .. Len(committed) : committed'[k] = committed[k]
    BY LenProperties
<1>2. Len(committed) + 1 \in 1 .. Len(committed')
    BY <1>1
<1>3. \A k \in 1 .. Len(committed) : k \in 1 .. Len(committed')
    BY <1>1
<1> QED
    BY <1>1, <1>2, <1>3 DEF Accepted

\* A call that returns forgets its locals, and one that goes on keeps them.
LEMMA CallReturns ==
    ASSUME call \in [Calls -> CallRecord], NEW c \in Calls, Return(c)
    PROVE  /\ call' \in [Calls -> CallRecord] /\ call'[c].at = "idle"
           /\ \A d \in Calls : d # c => call'[d] = call[d]
PROOF
<1>1. NoCall \in CallRecord /\ NoCall.at = "idle"
    BY DEF NoCall, CallRecord, Places
<1> QED
    BY <1>1 DEF Return

LEMMA CallGoesOn ==
    ASSUME call \in [Calls -> CallRecord], NEW c \in Calls, NEW place \in Places, Goto(c, place)
    PROVE  /\ call' \in [Calls -> CallRecord] /\ call'[c].at = place
           /\ call'[c].row = call[c].row /\ call'[c].tx = call[c].tx
           /\ \A d \in Calls : d # c => call'[d] = call[d]
PROOF
<1> DEFINE moved == [call[c] EXCEPT !.at = place]
<1>1. call[c] \in CallRecord
    OBVIOUS
<1>2. /\ moved \in CallRecord /\ moved.at = place
      /\ moved.row = call[c].row /\ moved.tx = call[c].tx
    BY <1>1 DEF CallRecord
<1>3. call' = [call EXCEPT ![c] = moved]
    BY DEF Goto
<1> QED
    BY <1>2, <1>3

LEMMA CallBegins ==
    ASSUME call \in [Calls -> CallRecord], NEW c \in Calls, NEW n \in Nat,
           NEW force \in BOOLEAN, NEW dryRun \in BOOLEAN,
           call' = [call EXCEPT ![c] = [NoCall EXCEPT !.at = "findStanding", !.round = n,
                                                      !.force = force, !.dryRun = dryRun]]
    PROVE  /\ call' \in [Calls -> CallRecord] /\ call'[c].at = "findStanding"
           /\ \A d \in Calls : d # c => call'[d] = call[d]
PROOF
<1>1. NoCall \in CallRecord /\ "findStanding" \in Places
    BY DEF NoCall, CallRecord, Places
<1>2. ASSUME NEW idle \in CallRecord, NEW place \in Places
      PROVE  [idle EXCEPT !.at = place, !.round = n, !.force = force, !.dryRun = dryRun]
                \in CallRecord
    BY DEF CallRecord
<1>3. ASSUME NEW idle \in CallRecord, NEW place \in Places
      PROVE  [idle EXCEPT !.at = place, !.round = n, !.force = force, !.dryRun = dryRun].at
                = place
    BY DEF CallRecord
<1> DEFINE begun == [NoCall EXCEPT !.at = "findStanding", !.round = n,
                                   !.force = force, !.dryRun = dryRun]
<1>4. begun \in CallRecord
    BY <1>1, <1>2
<1>5. begun.at = "findStanding"
    BY <1>1, <1>3
<1> HIDE DEF begun
<1>6. call' = [call EXCEPT ![c] = begun]
    BY DEF begun
<1> QED
    BY <1>4, <1>5, <1>6

\* A call that inserts or sends something remembers where, and goes on.
LEMMA CallRemembersRow ==
    ASSUME call \in [Calls -> CallRecord], NEW c \in Calls, NEW place \in Places, NEW n \in Nat,
           call' = [call EXCEPT ![c].at = place, ![c].row = n]
    PROVE  /\ call' \in [Calls -> CallRecord] /\ call'[c].at = place /\ call'[c].row = n
           /\ \A d \in Calls : d # c => call'[d] = call[d]
PROOF
<1> DEFINE moved == [call[c] EXCEPT !.at = place, !.row = n]
<1>1. call[c] \in CallRecord
    OBVIOUS
<1>2. moved \in CallRecord /\ moved.at = place /\ moved.row = n
    BY <1>1 DEF CallRecord
<1>3. call' = [call EXCEPT ![c] = moved]
    OBVIOUS
<1> QED
    BY <1>2, <1>3

LEMMA CallRemembersTx ==
    ASSUME call \in [Calls -> CallRecord], NEW c \in Calls, NEW place \in Places, NEW n \in Nat,
           call' = [call EXCEPT ![c].at = place, ![c].tx = n]
    PROVE  /\ call' \in [Calls -> CallRecord] /\ call'[c].at = place /\ call'[c].tx = n
           /\ call'[c].row = call[c].row
           /\ \A d \in Calls : d # c => call'[d] = call[d]
PROOF
<1> DEFINE moved == [call[c] EXCEPT !.at = place, !.tx = n]
<1>1. call[c] \in CallRecord
    OBVIOUS
<1>2. moved \in CallRecord /\ moved.at = place /\ moved.tx = n /\ moved.row = call[c].row
    BY <1>1 DEF CallRecord
<1>3. call' = [call EXCEPT ![c] = moved]
    OBVIOUS
<1> QED
    BY <1>2, <1>3

-----------------------------------------------------------------------------
(* One lemma per kind of step. *)

\* Steps that only move calls which work on no row, and the steps of others.
LEMMA QuietStep ==
    ASSUME ServiceInv, UNCHANGED <<rows, txs, committed, evidence, evidenceHash>>,
           call' \in [Calls -> CallRecord],
           \A c \in Calls : call'[c] = call[c]
                            \/ call'[c].at \in {"idle", "findStanding", "persist", "waitFinal"}
    PROVE  ServiceInv'
PROOF
<1>1. /\ \A c \in Calls : HasRow(c)' => HasRow(c) /\ call'[c] = call[c]
      /\ \A c \in Calls : HasTx(c)' => HasTx(c) /\ call'[c] = call[c]
      /\ \A c \in Calls : call'[c].at = "send" => call'[c] = call[c]
    BY DEF HasRow, HasTx
<1>2. ServiceTyped'
    BY DEF ServiceInv, ServiceTyped
<1>3. RowsAreOwned'
    BY <1>1 DEF ServiceInv, RowsAreOwned
<1>4. PackagesAreStored'
    BY <1>1 DEF ServiceInv, PackagesAreStored, EvidencePublished
<1>5. CallsSentTheirRow'
    BY <1>1 DEF ServiceInv, CallsSentTheirRow
<1>6. AcceptedIsRecorded' /\ RowsAreTrue'
    BY DEF ServiceInv, AcceptedIsRecorded, RowsAreTrue, TruthOf, Accepted
<1> QED
    BY <1>2, <1>3, <1>4, <1>5, <1>6 DEF ServiceInv

\* A new row is nobody else's, and says nothing yet of a transaction.
LEMMA PersistStep ==
    ASSUME ServiceInv, TypeOK, NEW c \in Calls, NEW status \in {"PROPOSED", "NO_PROPOSAL"},
           NEW hash \in EvidenceHashes \cup {NoHash}, call[c].at = "persist",
           rows' = Append(rows, NewRow(c, status, hash)),
           \/ Return(c)
           \/ call' = [call EXCEPT ![c].at = "saveEvidence", ![c].row = Len(rows) + 1],
           UNCHANGED <<vars, evidence, txs, committed>>
    PROVE  ServiceInv'
PROOF
<1> DEFINE row == NewRow(c, status, hash)
<1>1. /\ row \in Row /\ row.tx = NoTransaction /\ row.submissionState = "NOT_SUBMITTED"
    BY DEF NewRow, Row, SubmissionState, NoTransaction, ServiceInv, ServiceTyped, CallRecord
<1> HIDE DEF row
<1>2. /\ Len(rows) \in Nat
      /\ rows' \in Seq(Row) /\ Len(rows') = Len(rows) + 1
      /\ rows'[Len(rows) + 1] = row
      /\ \A i \in 1 .. Len(rows) : rows'[i] = rows[i]
    BY <1>1, RowAppended DEF ServiceInv, ServiceTyped, row
<1>3. /\ call' \in [Calls -> CallRecord]
      /\ \A d \in Calls : d # c => call'[d] = call[d]
      /\ call'[c].at \in {"idle", "saveEvidence"}
      /\ call'[c].at = "saveEvidence" => call'[c].row = Len(rows) + 1
    <2>1. call \in [Calls -> CallRecord] /\ Len(rows) + 1 \in Nat /\ "saveEvidence" \in Places
        BY <1>2 DEF ServiceInv, ServiceTyped, Places
    <2> QED
        BY <2>1, CallReturns, CallRemembersRow
<1>4. /\ \A d \in Calls : HasRow(d)' => (d # c /\ HasRow(d)) \/ call'[d].row = Len(rows) + 1
      /\ \A d \in Calls : HasTx(d)' => d # c /\ HasTx(d)
      /\ \A d \in Calls : call'[d].at = "send" => d # c
    BY <1>3 DEF HasRow, HasTx
<1>5. ServiceTyped'
    BY <1>2, <1>3 DEF ServiceInv, ServiceTyped
<1>6. RowsAreOwned'
    <2>1. ASSUME NEW d \in Calls, HasRow(d)' PROVE call'[d].row \in 1 .. Len(rows')
        BY <1>2, <1>3, <1>4, <2>1 DEF ServiceInv, RowsAreOwned
    <2>2. ASSUME NEW d \in Calls, NEW e \in Calls, HasRow(d)', HasRow(e)',
                 call'[d].row = call'[e].row
          PROVE  d = e
        <3>1. ASSUME NEW x \in Calls, x # c, HasRow(x)'
              PROVE  HasRow(x) /\ call'[x] = call[x] /\ call[x].row \in 1 .. Len(rows)
            BY <1>3, <3>1 DEF HasRow, ServiceInv, RowsAreOwned
        <3>2. HasRow(c)' => call'[c].row = Len(rows) + 1
            BY <1>3 DEF HasRow
        <3> QED
            BY <1>2, <2>2, <3>1, <3>2 DEF ServiceInv, RowsAreOwned
    <2> QED
        BY <2>1, <2>2 DEF RowsAreOwned
<1>7. PackagesAreStored'
    BY <1>2, <1>3, <1>4
    DEF ServiceInv, PackagesAreStored, RowsAreOwned, HasRow, EvidencePublished, vars, proposalVars
<1>8. CallsSentTheirRow'
    BY <1>2, <1>3, <1>4 DEF ServiceInv, CallsSentTheirRow, RowsAreOwned, HasRow, HasTx
<1>9. AcceptedIsRecorded'
    BY DEF ServiceInv, AcceptedIsRecorded, Accepted
<1>10. RowsAreTrue'
    <2>1. \A r : TruthOf(r)' <=> TruthOf(r)
        BY DEF TruthOf, Accepted
    <2>2. TruthOf(row)
        BY <1>1 DEF TruthOf
    <2> QED
        BY <1>2, <2>1, <2>2 DEF ServiceInv, RowsAreTrue
<1> QED
    BY <1>5, <1>6, <1>7, <1>8, <1>9, <1>10 DEF ServiceInv

\* What a call goes on to send is stored by then.
LEMMA SaveEvidenceStep ==
    ASSUME ServiceInv, NEW c \in Calls, SaveEvidence(c)
    PROVE  ServiceInv'
PROOF
<1>1. /\ call[c].at = "saveEvidence"
      /\ evidence' = evidence \cup {rows[call[c].row].evidenceHash}
      /\ UNCHANGED <<vars, rows, documents, txs, started, committed>>
      /\ Return(c) \/ Goto(c, "send")
    BY DEF SaveEvidence
<1>2. /\ call' \in [Calls -> CallRecord]
      /\ \A d \in Calls : d # c => call'[d] = call[d]
      /\ call'[c].at \in {"idle", "send"}
      /\ call'[c].at = "send" => call'[c].row = call[c].row
    <2>1. call \in [Calls -> CallRecord] /\ "send" \in Places
        BY DEF ServiceInv, ServiceTyped, Places
    <2> QED
        BY <1>1, <2>1, CallReturns, CallGoesOn
<1>3. /\ \A d \in Calls : HasRow(d)' => HasRow(d) /\ call'[d].row = call[d].row
      /\ \A d \in Calls : HasTx(d)' => d # c /\ HasTx(d)
    BY <1>1, <1>2 DEF HasRow, HasTx
<1>4. ServiceTyped'
    BY <1>1, <1>2 DEF ServiceInv, ServiceTyped
<1>5. RowsAreOwned'
    BY <1>1, <1>3 DEF ServiceInv, RowsAreOwned
<1>6. PackagesAreStored'
    BY <1>1, <1>2 DEF ServiceInv, PackagesAreStored, EvidencePublished, vars, proposalVars
<1>7. CallsSentTheirRow'
    BY <1>1, <1>2, <1>3 DEF ServiceInv, CallsSentTheirRow
<1>8. AcceptedIsRecorded' /\ RowsAreTrue'
    BY <1>1 DEF ServiceInv, AcceptedIsRecorded, RowsAreTrue, TruthOf, Accepted
<1> QED
    BY <1>4, <1>5, <1>6, <1>7, <1>8 DEF ServiceInv

\* What is sent for a row carries its package, which is stored.
LEMMA SendProposalStep ==
    ASSUME ServiceInv, NEW c \in Calls, SendProposal(c)
    PROVE  ServiceInv'
PROOF
<1> DEFINE tx == NewTx("proposeResolution", rows[call[c].row].evidenceHash)
<1>1. /\ call[c].at = "send" /\ HasRow(c)
      /\ txs' = Append(txs, tx)
      /\ call' = [call EXCEPT ![c].at = "markSubmitted", ![c].tx = Len(txs) + 1]
      /\ UNCHANGED <<vars, rows, evidence, documents, started, committed>>
    BY DEF SendProposal, HasRow
<1>2. /\ tx \in Tx /\ tx.function = "proposeResolution" /\ tx.fate = "pending"
      /\ tx.evidenceHash = rows[call[c].row].evidenceHash
      /\ tx.evidenceHash \in evidence
    <2>1. rows[call[c].row] \in Row
        BY <1>1, ElementOfSeq DEF ServiceInv, ServiceTyped, RowsAreOwned
    <2>2. rows[call[c].row].evidenceHash \in evidence
        BY <1>1 DEF ServiceInv, PackagesAreStored
    <2> QED
        BY <2>1, <2>2 DEF NewTx, Tx, Row
<1> HIDE DEF tx
<1>3. /\ Len(txs) \in Nat
      /\ txs' \in Seq(Tx) /\ Len(txs') = Len(txs) + 1
      /\ txs'[Len(txs) + 1] = tx
      /\ \A t \in 1 .. Len(txs) : txs'[t] = txs[t]
    BY <1>1, <1>2, TxAppended DEF ServiceInv, ServiceTyped
<1>4. /\ call' \in [Calls -> CallRecord]
      /\ call'[c].at = "markSubmitted" /\ call'[c].tx = Len(txs) + 1
      /\ call'[c].row = call[c].row
      /\ \A d \in Calls : d # c => call'[d] = call[d]
    <2>1. call \in [Calls -> CallRecord] /\ Len(txs) + 1 \in Nat /\ "markSubmitted" \in Places
        BY <1>3 DEF ServiceInv, ServiceTyped, Places
    <2> QED
        BY <1>1, <2>1, CallRemembersTx
<1>5. /\ \A d \in Calls : HasRow(d)' <=> HasRow(d)
      /\ \A d \in Calls : call'[d].row = call[d].row
    BY <1>1, <1>4 DEF HasRow
<1>6. ServiceTyped'
    BY <1>1, <1>3, <1>4 DEF ServiceInv, ServiceTyped
<1>7. RowsAreOwned'
    BY <1>1, <1>5 DEF ServiceInv, RowsAreOwned
<1>8. PackagesAreStored'
    BY <1>1, <1>2, <1>3, <1>4
    DEF ServiceInv, PackagesAreStored, EvidencePublished, vars, proposalVars
<1>9. CallsSentTheirRow'
    BY <1>1, <1>2, <1>3, <1>4 DEF ServiceInv, CallsSentTheirRow, HasTx
<1>10. AcceptedIsRecorded'
    BY <1>1, <1>2, <1>3 DEF ServiceInv, AcceptedIsRecorded, Accepted
<1>11. RowsAreTrue'
    BY <1>1, <1>3 DEF ServiceInv, RowsAreTrue, TruthOf, Accepted
<1> QED
    BY <1>6, <1>7, <1>8, <1>9, <1>10, <1>11 DEF ServiceInv

\* A transaction to finalize proposes no package.
LEMMA SendFinalizeStep ==
    ASSUME ServiceInv, NEW c \in Calls, FinalizeMarket(c)
    PROVE  ServiceInv'
PROOF
<1> DEFINE tx == NewTx("finalize", NoHash)
           waiting == [NoCall EXCEPT !.at = "waitFinal", !.tx = Len(txs) + 1]
<1>1. /\ txs' = Append(txs, tx)
      /\ call' = [call EXCEPT ![c] = waiting]
      /\ UNCHANGED <<vars, rows, evidence, documents, committed>>
    BY DEF FinalizeMarket
<1>2. tx \in Tx /\ tx.function = "finalize"
    BY DEF NewTx, Tx
<1> HIDE DEF tx
<1>3. /\ Len(txs) \in Nat
      /\ txs' \in Seq(Tx) /\ Len(txs') = Len(txs) + 1
      /\ txs'[Len(txs) + 1] = tx
      /\ \A t \in 1 .. Len(txs) : txs'[t] = txs[t]
    BY <1>1, <1>2, TxAppended DEF ServiceInv, ServiceTyped
<1>4. waiting \in CallRecord /\ waiting.at = "waitFinal"
    <2>1. NoCall \in CallRecord /\ "waitFinal" \in Places
        BY DEF NoCall, CallRecord, Places
    <2>2. ASSUME NEW idle \in CallRecord, NEW place \in Places, NEW n \in Nat
          PROVE  /\ [idle EXCEPT !.at = place, !.tx = n] \in CallRecord
                 /\ [idle EXCEPT !.at = place, !.tx = n].at = place
        BY DEF CallRecord
    <2>3. Len(txs) + 1 \in Nat
        BY <1>3
    <2> QED
        BY <2>1, <2>2, <2>3
<1> HIDE DEF waiting
<1>5. /\ call' \in [Calls -> CallRecord]
      /\ call'[c].at = "waitFinal"
      /\ \A d \in Calls : d # c => call'[d] = call[d]
    BY <1>1, <1>4 DEF ServiceInv, ServiceTyped
<1>6. /\ \A d \in Calls : HasRow(d)' => d # c /\ HasRow(d)
      /\ \A d \in Calls : HasTx(d)' => d # c /\ HasTx(d)
    BY <1>5 DEF HasRow, HasTx
<1>7. ServiceTyped'
    BY <1>1, <1>3, <1>5 DEF ServiceInv, ServiceTyped
<1>8. RowsAreOwned'
    BY <1>1, <1>5, <1>6 DEF ServiceInv, RowsAreOwned
<1>9. PackagesAreStored'
    BY <1>1, <1>2, <1>3, <1>5
    DEF ServiceInv, PackagesAreStored, EvidencePublished, vars, proposalVars
<1>10. CallsSentTheirRow'
    BY <1>1, <1>3, <1>5, <1>6 DEF ServiceInv, CallsSentTheirRow
<1>11. AcceptedIsRecorded'
    BY <1>1, <1>2, <1>3 DEF ServiceInv, AcceptedIsRecorded, Accepted
<1>12. RowsAreTrue'
    BY <1>1, <1>3 DEF ServiceInv, RowsAreTrue, TruthOf, Accepted
<1> QED
    BY <1>7, <1>8, <1>9, <1>10, <1>11, <1>12 DEF ServiceInv

\* An update of its row that keeps the package and stays true of the transaction,
\* by a call that then waits for that transaction or returns.
LEMMA MarkStep ==
    ASSUME ServiceInv, NEW c \in Calls, HasTx(c), NEW row \in Row,
           row.evidenceHash = rows[call[c].row].evidenceHash,
           row.tx = call[c].tx, TruthOf(row),
           rows' = [rows EXCEPT ![call[c].row] = row],
           Return(c) \/ Goto(c, "wait"),
           UNCHANGED <<vars, evidence, documents, txs, started, committed>>
    PROVE  ServiceInv'
PROOF
<1>1. HasRow(c) /\ call[c].row \in 1 .. Len(rows)
    BY DEF HasTx, HasRow, ServiceInv, RowsAreOwned
<1>2. /\ rows' \in Seq(Row) /\ Len(rows') = Len(rows)
      /\ \A j \in 1 .. Len(rows) : rows'[j] = IF j = call[c].row THEN row ELSE rows[j]
    BY <1>1, RowReplaced DEF ServiceInv, ServiceTyped
<1>3. \A j \in 1 .. Len(rows) : rows'[j].evidenceHash = rows[j].evidenceHash
    BY <1>2
<1>4. /\ call' \in [Calls -> CallRecord] /\ call'[c].at \in {"idle", "wait"}
      /\ \A d \in Calls : d # c => call'[d] = call[d]
      /\ call'[c].at = "wait" => call'[c].row = call[c].row /\ call'[c].tx = call[c].tx
    <2>1. call \in [Calls -> CallRecord] /\ "wait" \in Places
        BY DEF ServiceInv, ServiceTyped, Places
    <2> QED
        BY <2>1, CallReturns, CallGoesOn
<1>5. /\ \A d \in Calls : HasRow(d)' => HasRow(d) /\ call'[d].row = call[d].row
      /\ \A d \in Calls : HasTx(d)' => HasTx(d) /\ call'[d].tx = call[d].tx
    BY <1>1, <1>4 DEF HasRow, HasTx
<1>6. ServiceTyped'
    BY <1>2, <1>4 DEF ServiceInv, ServiceTyped
<1>7. RowsAreOwned'
    BY <1>2, <1>5 DEF ServiceInv, RowsAreOwned
<1>8. PackagesAreStored'
    <2>1. ASSUME NEW d \in Calls, call'[d].at = "send"
          PROVE  rows'[call'[d].row].evidenceHash \in evidence'
        <3>1. d # c /\ call'[d] = call[d] /\ HasRow(d)
            BY <1>4, <2>1 DEF HasRow
        <3> QED
            BY <1>3, <2>1, <3>1 DEF ServiceInv, PackagesAreStored, RowsAreOwned
    <2> QED
        BY <2>1 DEF ServiceInv, PackagesAreStored, EvidencePublished, vars, proposalVars
<1>9. CallsSentTheirRow'
    <2>1. ASSUME NEW d \in Calls, HasTx(d)'
          PROVE  /\ HasTx(d) /\ HasRow(d) /\ call[d].row \in 1 .. Len(rows)
                 /\ call'[d].tx = call[d].tx /\ call'[d].row = call[d].row
                 /\ d = c \/ call'[d] = call[d]
        BY <1>4, <1>5, <2>1 DEF HasTx, HasRow, ServiceInv, RowsAreOwned
    <2>2. ASSUME NEW d \in Calls, HasTx(d)', call'[d].at = "wait"
          PROVE  rows'[call'[d].row].tx = call'[d].tx
        BY <1>1, <1>2, <2>1, <2>2 DEF ServiceInv, CallsSentTheirRow, RowsAreOwned
    <2> QED
        BY <1>3, <2>1, <2>2 DEF ServiceInv, CallsSentTheirRow
<1>10. AcceptedIsRecorded'
    BY DEF ServiceInv, AcceptedIsRecorded, Accepted
<1>11. RowsAreTrue'
    <2>1. \A r : TruthOf(r)' <=> TruthOf(r)
        BY DEF TruthOf, Accepted
    <2> QED
        BY <1>2, <2>1 DEF ServiceInv, RowsAreTrue
<1> QED
    BY <1>6, <1>7, <1>8, <1>9, <1>10, <1>11 DEF ServiceInv

\* The row says it was submitted, and a receipt says what became of it.
LEMMA RowMarked ==
    ASSUME ServiceInv, NEW c \in Calls, HasTx(c), NEW what \in SubmissionState,
           what = "CONFIRMED" => Accepted(call[c].tx),
           what = "FAILED" => txs[call[c].tx].fate = "reverted",
           NEW row, row = [rows[call[c].row] EXCEPT !.submissionState = what, !.tx = call[c].tx]
    PROVE  /\ row \in Row /\ row.tx = call[c].tx /\ TruthOf(row)
           /\ row.evidenceHash = rows[call[c].row].evidenceHash
PROOF
<1>1. HasRow(c) /\ call[c] \in CallRecord
    BY DEF HasTx, HasRow, ServiceInv, ServiceTyped
<1>2. rows[call[c].row] \in Row
    BY <1>1, ElementOfSeq DEF ServiceInv, ServiceTyped, RowsAreOwned
<1>3. /\ row \in Row /\ row.tx = call[c].tx /\ row.submissionState = what
      /\ row.evidenceHash = rows[call[c].row].evidenceHash
    BY <1>1, <1>2 DEF Row, CallRecord
<1> QED
    BY <1>3 DEF TruthOf, ServiceInv, CallsSentTheirRow

LEMMA MarkSubmittedStep ==
    ASSUME ServiceInv, NEW c \in Calls, MarkSubmitted(c)
    PROVE  ServiceInv'
PROOF
<1> DEFINE row == [rows[call[c].row] EXCEPT !.submissionState = "SUBMITTED", !.tx = call[c].tx]
<1>1. /\ HasTx(c) /\ "SUBMITTED" \in SubmissionState
      /\ rows' = [rows EXCEPT ![call[c].row] = row]
      /\ Goto(c, "wait")
      /\ UNCHANGED <<vars, evidence, documents, txs, started, committed>>
    BY DEF MarkSubmitted, HasTx, SubmissionState
<1>2. /\ row \in Row /\ row.tx = call[c].tx /\ TruthOf(row)
      /\ row.evidenceHash = rows[call[c].row].evidenceHash
    BY <1>1, RowMarked
<1> QED
    BY <1>1, <1>2, MarkStep

LEMMA MarkReceiptStep ==
    ASSUME ServiceInv, NEW c \in Calls, NEW receipt \in SubmissionState, MarkReceipt(c, receipt)
    PROVE  ServiceInv'
PROOF
<1> DEFINE row == [rows[call[c].row] EXCEPT !.submissionState = receipt]
<1>1. /\ call[c].at = "wait" /\ HasTx(c)
      /\ receipt \in Receipts(txs[call[c].tx].fate)
      /\ rows' = [rows EXCEPT ![call[c].row] = row]
      /\ Return(c)
      /\ UNCHANGED <<vars, evidence, documents, txs, started, committed>>
    BY DEF MarkReceipt, HasTx
<1>2. /\ rows[call[c].row].tx = call[c].tx
      /\ call[c].tx \in 1 .. Len(txs)
      /\ txs[call[c].tx].function = "proposeResolution"
    BY <1>1 DEF ServiceInv, CallsSentTheirRow
<1>3. txs[call[c].tx].fate \in {"pending", "succeeded", "reverted"}
    <2>1. txs[call[c].tx] \in Tx
        BY <1>2, ElementOfSeq DEF ServiceInv, ServiceTyped
    <2> QED
        BY <2>1 DEF Tx
<1>4. /\ receipt = "CONFIRMED" => Accepted(call[c].tx)
      /\ receipt = "FAILED" => txs[call[c].tx].fate = "reverted"
    BY <1>1, <1>2, <1>3 DEF Receipts, ServiceInv, AcceptedIsRecorded
<1>5. row = [rows[call[c].row] EXCEPT !.submissionState = receipt, !.tx = call[c].tx]
    <2>1. rows[call[c].row] \in Row
        BY <1>1, ElementOfSeq DEF HasTx, HasRow, ServiceInv, ServiceTyped, RowsAreOwned
    <2> QED
        BY <1>2, <2>1 DEF Row
<1>6. /\ row \in Row /\ row.tx = call[c].tx /\ TruthOf(row)
      /\ row.evidenceHash = rows[call[c].row].evidenceHash
    <2> HIDE DEF row
    <2> QED
        BY <1>1, <1>4, <1>5, RowMarked
<1> HIDE DEF row
<1> QED
    BY <1>1, <1>6, MarkStep

LEMMA MarkFinalizedStep ==
    ASSUME ServiceInv, NEW c \in Calls, NEW receipt \in SubmissionState, MarkFinalized(c, receipt)
    PROVE  ServiceInv'
PROOF
<1>1. /\ Return(c)
      /\ UNCHANGED <<vars, evidence, documents, txs, started, committed>>
      /\ \/ rows' = rows
         \/ rows' = [i \in DOMAIN rows |-> [rows[i] EXCEPT !.finalized = TRUE]]
    BY DEF MarkFinalized
<1>2. /\ call' \in [Calls -> CallRecord] /\ call'[c].at = "idle"
      /\ \A d \in Calls : d # c => call'[d] = call[d]
    BY <1>1, CallReturns DEF ServiceInv, ServiceTyped
<1>3. CASE rows' = rows
    BY <1>1, <1>2, <1>3, QuietStep DEF vars, proposalVars
<1>4. CASE rows' = [i \in DOMAIN rows |-> [rows[i] EXCEPT !.finalized = TRUE]]
    <2>1. /\ Len(rows) \in Nat /\ DOMAIN rows = 1 .. Len(rows)
          /\ \A i \in 1 .. Len(rows) : rows[i] \in Row
        BY LenProperties, ElementOfSeq DEF ServiceInv, ServiceTyped
    <2>2. \A i \in 1 .. Len(rows) :
              /\ rows'[i] \in Row
              /\ rows'[i].evidenceHash = rows[i].evidenceHash
              /\ rows'[i].submissionState = rows[i].submissionState
              /\ rows'[i].tx = rows[i].tx
        BY <1>4, <2>1 DEF Row
    <2>3. rows' \in Seq(Row) /\ Len(rows') = Len(rows)
        <3>1. rows' \in [1 .. Len(rows) -> Row]
            BY <1>4, <2>1, <2>2
        <3> QED
            BY <2>1, <3>1
    <2>4. /\ \A d \in Calls : HasRow(d)' => HasRow(d) /\ call'[d] = call[d]
          /\ \A d \in Calls : HasTx(d)' => HasTx(d) /\ HasRow(d) /\ call'[d] = call[d]
          /\ \A d \in Calls : call'[d].at = "send" => HasRow(d) /\ call'[d] = call[d]
        BY <1>2 DEF HasRow, HasTx
    <2>5. ServiceTyped' /\ RowsAreOwned'
        BY <1>1, <1>2, <2>3, <2>4 DEF ServiceInv, ServiceTyped, RowsAreOwned
    <2>6. PackagesAreStored'
        BY <1>1, <2>2, <2>4
        DEF ServiceInv, PackagesAreStored, RowsAreOwned, EvidencePublished, vars, proposalVars
    <2>7. CallsSentTheirRow'
        BY <1>1, <2>2, <2>4 DEF ServiceInv, CallsSentTheirRow, RowsAreOwned
    <2>8. AcceptedIsRecorded'
        BY <1>1 DEF ServiceInv, AcceptedIsRecorded, Accepted
    <2>9. RowsAreTrue'
        BY <1>1, <2>2, <2>3 DEF ServiceInv, RowsAreTrue, TruthOf, Accepted
    <2> QED
        BY <2>5, <2>6, <2>7, <2>8, <2>9 DEF ServiceInv
<1> QED
    BY <1>1, <1>3, <1>4

\* A pending transaction that meets its fate: no row had called it reverted, and the
\* contract accepted it when it is a proposal that succeeded.
LEMMA FateStep ==
    ASSUME ServiceInv, NEW t \in 1 .. Len(txs), txs[t].fate = "pending",
           NEW fate \in {"succeeded", "reverted"}, Fate(t, fate),
           committed' \in Seq(Nat), \A u : Accepted(u) => Accepted(u)',
           txs[t].function = "proposeResolution" /\ fate = "succeeded" => Accepted(t)',
           EvidencePublished',
           UNCHANGED <<call, rows, evidence>>
    PROVE  ServiceInv'
PROOF
<1>1. /\ txs' \in Seq(Tx) /\ Len(txs') = Len(txs)
      /\ \A u \in 1 .. Len(txs) :
            /\ txs'[u].function = txs[u].function
            /\ txs'[u].evidenceHash = txs[u].evidenceHash
            /\ txs'[u].fate = IF u = t THEN fate ELSE txs[u].fate
    BY FateChanged DEF ServiceInv, ServiceTyped
<1>2. ServiceTyped' /\ RowsAreOwned'
    BY <1>1 DEF ServiceInv, ServiceTyped, RowsAreOwned, HasRow
<1>3. PackagesAreStored'
    BY <1>1 DEF ServiceInv, PackagesAreStored
<1>4. CallsSentTheirRow'
    BY <1>1 DEF ServiceInv, CallsSentTheirRow, HasTx
<1>5. AcceptedIsRecorded'
    BY <1>1 DEF ServiceInv, AcceptedIsRecorded
<1>6. RowsAreTrue'
    <2>1. ASSUME NEW i \in 1 .. Len(rows) PROVE TruthOf(rows[i])'
        BY <1>1, <2>1 DEF ServiceInv, RowsAreTrue, TruthOf
    <2> QED
        BY <2>1 DEF RowsAreTrue
<1> QED
    BY <1>2, <1>3, <1>4, <1>5, <1>6 DEF ServiceInv

\* A proposal is accepted with the package that its transaction carries.
LEMMA MineProposalStep ==
    ASSUME ServiceInv, NEW t \in 1 .. Len(txs), MineProposal(t)
    PROVE  ServiceInv'
PROOF
<1>1. /\ txs[t].fate = "pending" /\ txs[t].function = "proposeResolution"
      /\ Fate(t, "succeeded")
      /\ committed' = Append(committed, t)
      /\ evidenceHash' = txs[t].evidenceHash
      /\ UNCHANGED <<call, rows, evidence>>
    BY DEF MineProposal, Pending, ProposeResolution
<1>2. t \in Nat
    BY LenProperties DEF ServiceInv, ServiceTyped
<1>3. /\ committed' \in Seq(Nat) /\ \A u : Accepted(u) => Accepted(u)'
      /\ Accepted(t)'
    BY <1>1, <1>2, CommittedAppended DEF ServiceInv, ServiceTyped
<1>4. EvidencePublished'
    BY <1>1 DEF EvidencePublished, ServiceInv, PackagesAreStored
<1> QED
    BY <1>1, <1>3, <1>4, FateStep

\* Nothing the market does but a proposal changes the package it committed to.
LEMMA SettledStep ==
    ASSUME ServiceInv, NEW t \in 1 .. Len(txs), MineFinalize(t) \/ Revert(t)
    PROVE  ServiceInv'
PROOF
<1>1. /\ txs[t].fate = "pending"
      /\ evidenceHash' = evidenceHash
      /\ UNCHANGED <<call, rows, evidence, committed>>
    BY DEF MineFinalize, Revert, Pending, Finalize, vars, proposalVars
<1>2. \/ Fate(t, "succeeded") /\ txs[t].function = "finalize"
      \/ Fate(t, "reverted")
    BY DEF MineFinalize, Revert, Pending
<1>3. /\ committed' \in Seq(Nat) /\ \A u : Accepted(u) => Accepted(u)'
      /\ EvidencePublished'
    BY <1>1 DEF ServiceInv, ServiceTyped, Accepted, PackagesAreStored, EvidencePublished
<1> QED
    BY <1>1, <1>2, <1>3, FateStep

-----------------------------------------------------------------------------
(* The invariant of the composition, and the theorems. *)

LEMMA InitInv == ServiceInit => TypeOK /\ LifecycleInv /\ ServiceInv
PROOF
<1> SUFFICES ASSUME ServiceInit PROVE TypeOK /\ LifecycleInv /\ ServiceInv
    OBVIOUS
<1>1. TypeOK /\ LifecycleInv
    BY InitTypeOK, InitLifecycle DEF ServiceInit
<1>2. /\ call = [c \in Calls |-> NoCall] /\ rows = <<>> /\ txs = <<>> /\ committed = <<>>
      /\ evidenceHash = NoHash
    BY DEF ServiceInit, Init
<1>3. NoCall \in CallRecord /\ NoCall.at = "idle"
    BY DEF NoCall, CallRecord, Places
<1>4. ServiceTyped
    BY <1>2, <1>3, EmptySeq DEF ServiceTyped
<1>5. Len(rows) = 0 /\ Len(txs) = 0
    BY <1>2
<1>6. \A c \in Calls : call[c].at = "idle"
    BY <1>2, <1>3
<1>7. RowsAreOwned /\ PackagesAreStored /\ CallsSentTheirRow
    BY <1>2, <1>5, <1>6
    DEF RowsAreOwned, PackagesAreStored, CallsSentTheirRow, HasRow, HasTx, EvidencePublished
<1>8. AcceptedIsRecorded /\ RowsAreTrue
    BY <1>5 DEF AcceptedIsRecorded, RowsAreTrue
<1> QED
    BY <1>1, <1>4, <1>7, <1>8 DEF ServiceInv

\* Every step of the composition is a step the market allows anybody, or none.
LEMMA MarketStep ==
    ASSUME ServiceInv, [ServiceNext]_allVars
    PROVE  [Next]_vars
PROOF
<1>1. ASSUME NEW t \in DOMAIN txs, MineProposal(t) PROVE Next
    <2>1. t \in 1 .. Len(txs) /\ txs[t] \in Tx
        BY LenProperties, ElementOfSeq DEF ServiceInv, ServiceTyped
    <2>2. ProposeResolution(Service, OutcomeOf[txs[t].evidenceHash], txs[t].evidenceHash)
        BY <1>1 DEF MineProposal
    <2>3. /\ txs[t].evidenceHash \in EvidenceHashes
          /\ Service \in Resolvers
        BY <2>1, <2>2, ServiceAssumption DEF ServiceAssumption, Tx, ProposeResolution
    <2>4. OutcomeOf[txs[t].evidenceHash] \in Outcome
        BY <2>3, ServiceAssumption DEF ServiceAssumption, Outcome
    <2> QED
        BY <2>2, <2>3, <2>4 DEF Next
<1>2. ASSUME OthersStep PROVE Next
    <2>1. \A amount \in 1 .. Funds : amount \in 0 .. Funds
        BY MarketAssumption DEF MarketAssumption
    <2> QED
        BY <1>2, <2>1 DEF OthersStep, Next, Outcome
<1>3. ASSUME NEW t \in DOMAIN txs, MineFinalize(t) \/ Revert(t) PROVE [Next]_vars
    BY <1>3 DEF MineFinalize, Revert, Next
<1>4. ASSUME NEW c \in Calls, CallStep(c) \/ FinalizeMarket(c) \/ Abort(c) PROVE UNCHANGED vars
    BY <1>4
    DEF CallStep, FindStanding, PersistRefusal, SaveEvidence, SendProposal, MarkSubmitted,
        PersistProposal, MarkReceipt, MarkFinalized, FinalizeMarket, Abort
<1> QED
    BY <1>1, <1>2, <1>3, <1>4
    DEF ServiceNext, ResolveRoute, FinalizeRoute, ChallengeRoute, ResolveMarket, RecordChallenge,
        allVars

LEMMA CallStepInv ==
    ASSUME ServiceInv, TypeOK, NEW c \in Calls, CallStep(c)
    PROVE  ServiceInv'
PROOF
<1>1. CASE FindStanding(c)
    <2>1. /\ Return(c) \/ Goto(c, "persist")
          /\ UNCHANGED <<vars, rows, evidence, documents, txs, started, committed>>
        BY <1>1 DEF FindStanding
    <2>2. call \in [Calls -> CallRecord] /\ "persist" \in Places
        BY DEF ServiceInv, ServiceTyped, Places
    <2>3. /\ call' \in [Calls -> CallRecord] /\ call'[c].at \in {"idle", "persist"}
          /\ \A d \in Calls : d # c => call'[d] = call[d]
        BY <2>1, <2>2, CallReturns, CallGoesOn
    <2> QED
        BY <2>1, <2>3, QuietStep DEF vars, proposalVars
<1>2. CASE PersistRefusal(c)
    BY <1>2, PersistStep DEF PersistRefusal
<1>3. ASSUME NEW hash \in EvidenceHashes, PersistProposal(c, hash) PROVE ServiceInv'
    BY <1>3, PersistStep DEF PersistProposal
<1> QED
    BY <1>1, <1>2, <1>3, SaveEvidenceStep, SendProposalStep, MarkSubmittedStep,
       MarkReceiptStep, MarkFinalizedStep DEF CallStep

LEMMA StepInv ==
    ASSUME ServiceInv, TypeOK, [ServiceNext]_allVars
    PROVE  ServiceInv'
PROOF
<1> USE DEF vars, proposalVars
<1>1. ASSUME NEW c \in Calls, NEW force \in Forcing, NEW dryRun \in DryRuns,
             ResolveMarket(c, force, dryRun)
      PROVE  ServiceInv'
    <2>1. /\ call' = [call EXCEPT ![c] =
                        [NoCall EXCEPT !.at = "findStanding", !.round = proposalRound + 1,
                                       !.force = force, !.dryRun = dryRun]]
          /\ UNCHANGED <<vars, rows, evidence, documents, txs, committed>>
        BY <1>1 DEF ResolveMarket
    <2>2. proposalRound + 1 \in Nat /\ force \in BOOLEAN /\ dryRun \in BOOLEAN
        BY ServiceAssumption DEF ServiceAssumption, TypeOK, MAX_PROPOSAL_ROUNDS
    <2>3. /\ call' \in [Calls -> CallRecord] /\ call'[c].at = "findStanding"
          /\ \A d \in Calls : d # c => call'[d] = call[d]
        <3> HIDE DEF vars, proposalVars
        <3> QED
            BY <2>1, <2>2, CallBegins DEF ServiceInv, ServiceTyped
    <2> QED
        BY <2>1, <2>3, QuietStep
<1>2. ASSUME NEW c \in Calls, Abort(c) PROVE ServiceInv'
    <2>1. /\ call' \in [Calls -> CallRecord] /\ call'[c].at = "idle"
          /\ \A d \in Calls : d # c => call'[d] = call[d]
        BY <1>2, CallReturns DEF Abort, ServiceInv, ServiceTyped
    <2> QED
        BY <1>2, <2>1, QuietStep DEF Abort
<1>3. ASSUME NEW a \in Accounts, NEW reason \in ReasonHashes, RecordChallenge(a, reason)
      PROVE  ServiceInv'
    BY <1>3, QuietStep DEF RecordChallenge, ServiceInv, ServiceTyped
<1>4. ASSUME NEW t \in DOMAIN txs, MineProposal(t) \/ MineFinalize(t) \/ Revert(t)
      PROVE  ServiceInv'
    <2>1. t \in 1 .. Len(txs)
        BY LenProperties DEF ServiceInv, ServiceTyped
    <2> QED
        BY <1>4, <2>1, MineProposalStep, SettledStep
<1>5. CASE OthersStep
    <2>1. evidenceHash' = evidenceHash
        BY <1>5 DEF OthersStep, Tick, Close, Finalize, Stake, Challenge, Cancel
    <2> QED
        BY <1>5, <2>1, QuietStep DEF OthersStep, serviceVars, ServiceInv, ServiceTyped
<1>6. CASE UNCHANGED allVars
    BY <1>6, QuietStep DEF allVars, serviceVars, ServiceInv, ServiceTyped
<1> QED
    BY <1>1, <1>2, <1>3, <1>4, <1>5, <1>6, CallStepInv, SendFinalizeStep
    DEF ServiceNext, ResolveRoute, FinalizeRoute, ChallengeRoute

THEOREM ServiceInvariant == ServiceSpec => [](TypeOK /\ LifecycleInv /\ ServiceInv)
PROOF
<1>1. TypeOK /\ LifecycleInv /\ ServiceInv /\ [ServiceNext]_allVars
        => (TypeOK /\ LifecycleInv /\ ServiceInv)'
    BY MarketStep, StepInv, NextTypeOK, NextLifecycle
<1> QED
    BY <1>1, InitInv, PTL DEF ServiceSpec

\* The service and everything beside it are a behaviour of the market, so whatever is
\* proved of a market alone holds of the one the service works on.
THEOREM ServiceUsesMarket == ServiceSpec => Spec
PROOF
<1>1. ServiceInit => Init
    BY DEF ServiceInit
<1>2. ServiceInv /\ [ServiceNext]_allVars => [Next]_vars
    BY MarketStep
<1> QED
    BY <1>1, <1>2, ServiceInvariant, PTL DEF ServiceSpec, Spec

\* The package behind a commitment on the chain is in the evidence table, however
\* many requests run and wherever they are interrupted: what a call is about to send
\* was stored by that call, the evidence table only grows, and what is mined was sent.
THEOREM EvidenceIsPublished == ServiceSpec => []EvidencePublished
PROOF
<1>1. ServiceInv => EvidencePublished
    BY DEF ServiceInv, PackagesAreStored
<1> QED
    BY <1>1, ServiceInvariant, PTL

\* What a row says of its transaction is true for good: a row has one call, which
\* waits for the transaction it sent for it, and the fate of a transaction is final.
THEOREM SubmissionsAreTruthful == ServiceSpec => []SubmissionTruthful
PROOF
<1>1. ASSUME ServiceInv PROVE SubmissionTruthful
    <2>1. /\ rows \in Seq(Row) /\ txs \in Seq(Tx)
          /\ DOMAIN rows = 1 .. Len(rows) /\ DOMAIN committed = 1 .. Len(committed)
        BY <1>1, LenProperties DEF ServiceInv, ServiceTyped
    <2>2. \A t : Accepted(t) => t \in Range(committed)
        BY <2>1 DEF Accepted, Range
    <2>3. \A i \in DOMAIN rows : TruthOf(rows[i])
        BY <1>1, <2>1 DEF ServiceInv, RowsAreTrue
    <2> QED
        BY <2>1, <2>2, <2>3 DEF TruthOf, SubmissionTruthful
<1> QED
    BY <1>1, ServiceInvariant, PTL

=============================================================================
