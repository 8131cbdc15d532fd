----------------------------- MODULE CommandProofs -----------------------------
(***************************************************************************)
(* What the commands promise, for every value of the constants: raze fix   *)
(* (Repair), raze backfill (Backfill), the MongoDB mapping (Mongo) and the *)
(* health check that raze fix and the console run (Audit).                 *)
(*                                                                         *)
(* The theorems are about the behaviours that TLC checks, ConsoleSpec.  A  *)
(* part's state changes by the part's own steps only, so its invariant is  *)
(* proved of those steps and holds of the whole.                           *)
(***************************************************************************)
EXTENDS MCConsole, SequenceTheorems, TLAPS

-----------------------------------------------------------------------------
(* raze fix.  NothingIsLost speaks of the run's end; on the way there the  *)
(* version the run found moves: it is in the file until BackUp, in the     *)
(* backup while the loop writes the file, and in either afterwards.        *)

FoundIsKept ==
  /\ fix.at \in {"idle", "before", "repair"} => fix.found = file
  /\ fix.at \in {"first", "round", "verify"} => fix.found = backup
  /\ fix.at \in {"after", "over"} =>
       /\ fix.found \in {file, backup}
       /\ fix.verdict = "failed" => file = fix.found

\* the loop's counter stays in its range
RoundsAreLeft ==
  /\ fix.at \in {"before", "repair", "first"} => fix.round = 0
  /\ fix.at = "verify" => fix.round <= Rounds

RepairInv == R!TypeOK /\ FoundIsKept /\ RoundsAreLeft

LEMMA RepairStep ==
  ASSUME RepairInv, [R!Next]_repairVars
  PROVE  RepairInv'
<1> USE ConsoleAssumption DEF ConsoleAssumption, R!RepairAssumption
<1> USE DEF RepairInv, R!TypeOK, R!Steps, R!Verdicts, FoundIsKept, RoundsAreLeft
<1>1. CASE R!Begin
  BY <1>1 DEF R!Begin
<1>2. CASE R!Before
  BY <1>2 DEF R!Before, R!Restarted, R!Abandon
<1>3. CASE R!BackUp
  BY <1>3 DEF R!BackUp
<1>4. CASE R!Throw
  BY <1>4 DEF R!Throw, R!PutBack
<1>5. CASE R!Audited
  <2>1. fix.round \in 0..Rounds
    BY <1>5 DEF R!Audited
  <2>2. fix.round + 1 \in 0..(Rounds + 1)
    BY <2>1
  <2> QED BY <1>5, <2>2 DEF R!Audited, R!Restarted
<1>6. CASE R!Rejected
  BY <1>6 DEF R!Rejected
<1>7. CASE R!GiveUp
  BY <1>7, ZenonT(40) DEF R!GiveUp, R!PutBack
<1>8. CASE R!After
  BY <1>8, ZenonT(40) DEF R!After, R!Restarted, R!Abandon
<1>9. CASE R!Killed
  BY <1>9 DEF R!Killed, R!Abandon
<1>10. CASE R!Restore
  BY <1>10 DEF R!Restore
<1>11. CASE R!OrphanEnds
  BY <1>11 DEF R!OrphanEnds
<1>12. ASSUME NEW v \in Versions, R!Patch(v) PROVE RepairInv'
  BY <1>12 DEF R!Patch
<1>13. CASE UNCHANGED repairVars
  BY <1>13 DEF repairVars
<1> QED
  BY <1>1, <1>2, <1>3, <1>4, <1>5, <1>6, <1>7, <1>8, <1>9, <1>10, <1>11, <1>12, <1>13 DEF R!Next

(* Whatever throws in raze fix and whenever it is killed, the version that the run
   found is in the file or in the backup, and in the file when a repair failed. *)
THEOREM FoundVersionSurvives == ConsoleSpec => []NothingIsLost
<1>1. ConsoleInit => RepairInv
  BY ConsoleAssumption
  DEF ConsoleAssumption, R!RepairAssumption, ConsoleInit, R!Init, RepairInv, R!TypeOK, R!Steps,
      R!Verdicts, FoundIsKept, RoundsAreLeft
<1>2. [ConsoleNext]_allVars => [R!Next]_repairVars
  BY DEF ConsoleNext, Others, allVars
<1>3. RepairInv => NothingIsLost
  BY DEF RepairInv, R!TypeOK, R!Steps, FoundIsKept, NothingIsLost, R!NothingIsLost
<1> QED BY <1>1, <1>2, <1>3, RepairStep, PTL DEF ConsoleSpec
-----------------------------------------------------------------------------
(* raze backfill.  BackfillCovers speaks of runs that have ended and is    *)
(* not inductive.  A run under way without a failed chunk has asked about  *)
(* everything up to its last window, which is where its next chunk began   *)
(* (Contiguous); a run with a failed one has promised nothing any more,    *)
(* and keeps going.                                                        *)

\* what was paid between From and t is queued or has its order's row
AskedUpTo(t) ==
  \A p \in Payments : paid[p] \in From..t => p \in requeued \cup local

\* the cold start reaches back over a chunk
Reaches == Chunk + SettleTime <= ColdStart + Overlap

\* where the chunk under way began
ChunkFrom == IF cursor.last = None THEN From ELSE cursor.last

Contiguous ==
  cursor.to # None /\ cursor.failed = 0 =>
    /\ cursor.to = B!Least(To, ChunkFrom + Chunk)
    /\ Reaches /\ cursor.last # None => AskedUpTo(cursor.last)

BackfillInv == B!TypeOK /\ Contiguous /\ B!BackfillCovers

LEMMA SpanNumbers ==
  /\ From \in Int /\ To \in Int /\ From < To /\ None \notin Int
  /\ Chunk \in Nat /\ Chunk > 0
  /\ ColdStart \in Nat /\ Overlap \in Nat /\ SettleTime \in Nat
  /\ 0 # None /\ 1 # None
BY ConsoleAssumption DEF ConsoleAssumption, B!BackfillAssumption

(* Times in the span, and the end of the chunk after one. *)
LEMMA NextChunk ==
  ASSUME NEW t \in From..To, t < To
  PROVE  B!Least(To, t + Chunk) \in From..To /\ B!Least(To, t + Chunk) # None
BY SpanNumbers DEF B!Least

(* The initial states satisfy the invariant. *)
LEMMA BackfillStart == B!Init => BackfillInv
BY SpanNumbers
DEF B!Init, BackfillInv, B!TypeOK, Contiguous, B!BackfillCovers, B!Off

(* A pass that does not fail asks about all of its chunk. *)
LEMMA ChunkIsAsked ==
  ASSUME BackfillInv, B!Covered, Reaches, cursor.failed = 0
  PROVE  \A p \in Payments : paid[p] \in From..cursor.to => p \in requeued' \cup local'
<1> USE SpanNumbers
<1>1. /\ cursor.to \in From..To /\ (cursor.last = None \/ cursor.last \in From..To)
      /\ paid' = paid /\ local' = local /\ requeued' = requeued \cup (B!Window \ local)
  BY DEF B!Covered, BackfillInv, B!TypeOK
<1>2. cursor.to = B!Least(To, ChunkFrom + Chunk)
  BY DEF B!Covered, BackfillInv, Contiguous
<1> SUFFICES ASSUME NEW p \in Payments, paid[p] \in From..cursor.to
             PROVE  p \in requeued' \cup local'
  OBVIOUS
<1>3. CASE cursor.last = None
  <2>1. B!WindowFrom <= From
    BY <1>1, <1>2, <1>3 DEF B!WindowFrom, ChunkFrom, B!Least, Reaches
  <2>2. B!WindowFrom \in Int
    BY <1>1, <1>3 DEF B!WindowFrom
  <2> QED BY <1>1, <2>1, <2>2 DEF B!Window
<1>4. CASE cursor.last # None /\ paid[p] <= cursor.last
  <2>1. AskedUpTo(cursor.last)
    BY <1>4 DEF B!Covered, BackfillInv, Contiguous
  <2> QED BY <1>1, <1>4, <2>1 DEF AskedUpTo
<1>5. CASE cursor.last # None /\ paid[p] > cursor.last
  <2>1. B!WindowFrom = cursor.last - Overlap
    BY <1>5 DEF B!WindowFrom
  <2> QED BY <1>1, <1>5, <2>1 DEF B!Window
<1> QED BY <1>1, <1>3, <1>4, <1>5

(* Every step preserves the invariant. *)
LEMMA BackfillStep ==
  ASSUME BackfillInv, [B!Next]_backfillVars
  PROVE  BackfillInv'
<1> USE SpanNumbers
<1>1. CASE B!Begin
  <2>1. /\ cursor' = [to |-> B!Least(To, From + Chunk), last |-> None, failed |-> 0]
        /\ finished' = None /\ UNCHANGED <<paid, local, requeued>>
    BY <1>1 DEF B!Begin, B!Off
  <2>2. B!Least(To, From + Chunk) \in From..To
    BY NextChunk
  <2>3. B!TypeOK'
    BY <2>1, <2>2 DEF BackfillInv, B!TypeOK
  <2>4. Contiguous'
    BY <2>1 DEF Contiguous, ChunkFrom, B!Least
  <2> QED BY <2>1, <2>3, <2>4 DEF BackfillInv, B!BackfillCovers
<1>2. CASE B!Covered
  <2>1. /\ cursor.to \in From..To /\ cursor.to # None /\ cursor.failed \in Nat
        /\ requeued' = requeued \cup (B!Window \ local) /\ UNCHANGED <<paid, local>>
    BY <1>2 DEF B!Covered, BackfillInv, B!TypeOK
  <2>2. B!TypeOK' /\ requeued' \subseteq Payments
    <3>1. requeued' \subseteq Payments
      BY <2>1 DEF B!Window, BackfillInv, B!TypeOK
    <3>2. CASE cursor.to < To
      <4>1. /\ cursor' = [to |-> B!Least(To, cursor.to + Chunk), last |-> cursor.to, failed |-> cursor.failed]
            /\ finished' = finished
        BY <1>2, <3>2 DEF B!Covered, B!Advance
      <4>2. B!Least(To, cursor.to + Chunk) \in From..To
        BY <2>1, <3>2, NextChunk
      <4> QED BY <2>1, <3>1, <4>1, <4>2 DEF BackfillInv, B!TypeOK
    <3>3. CASE ~(cursor.to < To)
      <4>1. cursor' = B!Off /\ finished' \in {0, 1}
        BY <1>2, <3>3 DEF B!Covered, B!Advance, B!ExitCode
      <4> QED BY <2>1, <3>1, <4>1 DEF BackfillInv, B!TypeOK, B!Off
    <3> QED BY <3>1, <3>2, <3>3
  <2>3. Reaches /\ cursor.failed = 0 =>
         \A p \in Payments : paid[p] \in From..cursor.to => p \in requeued' \cup local'
    BY <1>2, ChunkIsAsked
  <2>4. CASE cursor.to < To
    <3>1. /\ cursor' = [to |-> B!Least(To, cursor.to + Chunk), last |-> cursor.to, failed |-> cursor.failed]
          /\ finished' = finished
      BY <1>2, <2>4 DEF B!Covered, B!Advance
    <3>2. Contiguous'
      BY <2>1, <2>3, <3>1 DEF Contiguous, ChunkFrom, B!Least, Reaches, AskedUpTo
    <3>3. B!BackfillCovers'
      BY <2>1, <3>1 DEF BackfillInv, B!BackfillCovers
    <3> QED BY <2>2, <3>2, <3>3 DEF BackfillInv
  <2>5. CASE ~(cursor.to < To)
    <3>1. cursor' = B!Off /\ finished' = B!ExitCode(cursor.failed) /\ cursor.to = To
      BY <1>2, <2>1, <2>5 DEF B!Covered, B!Advance
    <3>2. Contiguous'
      BY <3>1 DEF Contiguous, B!Off
    <3>3. B!BackfillCovers'
      BY <2>1, <2>3, <3>1 DEF B!BackfillCovers, B!ExitCode, Reaches
    <3> QED BY <2>2, <3>2, <3>3 DEF BackfillInv
  <2> QED BY <2>4, <2>5
<1>3. CASE B!Failed
  <2>1. /\ cursor.to \in From..To /\ cursor.to # None /\ cursor.failed + 1 \in Nat /\ cursor.failed + 1 > 0
        /\ cursor.last \in {None} \cup From..To
        /\ requeued \subseteq requeued' /\ requeued' \subseteq Payments /\ UNCHANGED <<paid, local>>
    BY <1>3 DEF B!Failed, BackfillInv, B!TypeOK, B!Window
  <2>2. CASE cursor.to < To
    <3>1. /\ cursor' = [to |-> B!Least(To, cursor.to + Chunk), last |-> cursor.last, failed |-> cursor.failed + 1]
          /\ finished' = finished
      BY <1>3, <2>2 DEF B!Failed, B!Advance
    <3>2. B!Least(To, cursor.to + Chunk) \in From..To
      BY <2>1, <2>2, NextChunk
    <3>3. B!TypeOK'
      BY <2>1, <3>1, <3>2 DEF BackfillInv, B!TypeOK
    <3> QED BY <2>1, <3>1, <3>3 DEF BackfillInv, Contiguous, B!BackfillCovers
  <2>3. CASE ~(cursor.to < To)
    <3>1. cursor' = B!Off /\ finished' = 1
      BY <1>3, <2>1, <2>3 DEF B!Failed, B!Advance, B!ExitCode
    <3>2. B!TypeOK'
      BY <2>1, <3>1 DEF BackfillInv, B!TypeOK, B!Off
    <3> QED BY <3>1, <3>2 DEF BackfillInv, Contiguous, B!BackfillCovers, B!Off
  <2> QED BY <2>2, <2>3
<1>4. ASSUME NEW p \in Payments, B!Written(p) PROVE BackfillInv'
  <2>1. /\ local' = local \cup {p} /\ UNCHANGED <<paid, requeued, cursor, finished>>
    BY <1>4 DEF B!Written
  <2>2. B!TypeOK'
    BY <2>1 DEF BackfillInv, B!TypeOK
  <2>3. Contiguous'
    BY <2>1 DEF BackfillInv, Contiguous, ChunkFrom, AskedUpTo, Reaches
  <2> QED BY <2>1, <2>2, <2>3 DEF BackfillInv, B!BackfillCovers
<1>5. CASE UNCHANGED backfillVars
  BY <1>5
  DEF backfillVars, BackfillInv, B!TypeOK, Contiguous, ChunkFrom, AskedUpTo, Reaches,
      B!BackfillCovers
<1> QED BY <1>1, <1>2, <1>3, <1>4, <1>5 DEF B!Next

(* A run of raze backfill that exits with 0 has left no payment of its span behind,
   however long its chunks (as far as the cold start reaches), and whatever runs and
   chunks failed before. *)
THEOREM ExitZeroCovers == ConsoleSpec => []BackfillCovers
<1>1. ConsoleInit => BackfillInv
  BY BackfillStart DEF ConsoleInit
<1>2. [ConsoleNext]_allVars => [B!Next]_backfillVars
  BY DEF ConsoleNext, Others, allVars
<1>3. BackfillInv => BackfillCovers
  BY DEF BackfillInv, BackfillCovers
<1> QED BY <1>1, <1>2, <1>3, BackfillStep, PTL DEF ConsoleSpec
-----------------------------------------------------------------------------
(* MongoDB.  Under a guard that holds there is never a second document, so *)
(* the filter has the only one to look at: what it lists as applied is     *)
(* what it shows.                                                          *)

Guarded == unique \/ ~upsert

Document ==
  [status : {None, "pending", "failed", "authorized", "paid", "refunded"},
   applied : SUBSET Delivered, credits : Nat]

\* a document shows the events it lists
ShowsApplied(d) ==
  /\ d.credits = IF "captured" \in d.applied THEN 1 ELSE 0
  /\ "refunded" \in d.applied => d.status = "refunded"

\* a refund that has been written is in the document, if one can be there
RefundIsListed ==
  \A e \in Delivered \cap {"refunded"} :
    delivery[e] \in {"written", "processed"} /\ (upsert \/ docs # <<>>) =>
      docs # <<>> /\ "refunded" \in docs[1].applied

MongoInv ==
  /\ M!TypeOK
  /\ Guarded =>
       /\ Len(docs) <= 1
       /\ \A i \in DOMAIN docs : ShowsApplied(docs[i])
       /\ RefundIsListed

LEMMA EventTables ==
  /\ Delivered \subseteq {"failed", "authorized", "captured", "order_paid", "refunded"}
  /\ \A e \in Delivered :
       /\ M!Rank[e] \in 0..3
       /\ M!StatusFor[e] \in {"failed", "authorized", "paid", "refunded"}
       /\ M!GuardFor[e] \in SUBSET {"paid", "refunded"}
       /\ e # "refunded" => "refunded" \in M!GuardFor[e]
       /\ e = "refunded" => M!GuardFor[e] = {} /\ M!StatusFor[e] = "refunded" /\ M!Rank[e] = 3
<1>1. Delivered \subseteq {"failed", "authorized", "captured", "order_paid", "refunded"}
  BY ConsoleAssumption DEF ConsoleAssumption, M!MongoAssumption
<1>2. /\ M!Rank["failed"] = 2 /\ M!Rank["authorized"] = 1 /\ M!Rank["captured"] = 2
      /\ M!Rank["order_paid"] = 2 /\ M!Rank["refunded"] = 3
  BY ONLY DEF M!Rank
<1>3. /\ M!StatusFor["failed"] = "failed" /\ M!StatusFor["authorized"] = "authorized"
      /\ M!StatusFor["captured"] = "paid" /\ M!StatusFor["order_paid"] = "paid"
      /\ M!StatusFor["refunded"] = "refunded"
  BY ONLY DEF M!StatusFor
<1>4. /\ M!GuardFor["failed"] = {"paid", "refunded"}
      /\ M!GuardFor["authorized"] = {"paid", "refunded"}
      /\ M!GuardFor["captured"] = {"refunded"} /\ M!GuardFor["order_paid"] = {"refunded"}
      /\ M!GuardFor["refunded"] = {}
  BY ONLY DEF M!GuardFor
<1>5. \A e \in Delivered : M!Rank[e] \in 0..3
  BY ONLY <1>1, <1>2
<1>6. \A e \in Delivered : M!StatusFor[e] \in {"failed", "authorized", "paid", "refunded"}
  BY ONLY <1>1, <1>3
<1>7. \A e \in Delivered : M!GuardFor[e] \in SUBSET {"paid", "refunded"}
  BY ONLY <1>1, <1>4
<1>8. \A e \in Delivered : e # "refunded" => "refunded" \in M!GuardFor[e]
  BY ONLY <1>1, <1>4
<1> QED BY ONLY <1>1, <1>2, <1>3, <1>4, <1>5, <1>6, <1>7, <1>8

LEMMA UpdatedDocument ==
  ASSUME NEW d \in Document, NEW e \in Delivered
  PROVE  /\ M!Updated(d, e) \in Document
         /\ M!Updated(d, e).applied = d.applied \cup {e}
         /\ M!Updated(d, e).status = M!StatusFor[e]
         /\ M!Updated(d, e).credits = IF e = "captured" THEN d.credits + 1 ELSE d.credits
BY EventTables DEF M!Updated, Document

(* A document that is updated shows the event too, where a refunded one is left
   to the refund. *)
LEMMA UpdatedShows ==
  ASSUME NEW d \in Document, NEW e \in Delivered, ShowsApplied(d),
         e \notin d.applied, "refunded" \in d.applied => d.status \notin M!GuardFor[e]
  PROVE  ShowsApplied(M!Updated(d, e))
BY UpdatedDocument, EventTables DEF ShowsApplied

LEMMA FirstShows ==
  ASSUME NEW e \in Delivered
  PROVE  /\ M!Updated(M!Blank, e) \in Document
         /\ ShowsApplied(M!Updated(M!Blank, e))
         /\ e \in M!Updated(M!Blank, e).applied
<1>1. M!Blank \in Document /\ ShowsApplied(M!Blank) /\ M!Blank.applied = {}
  BY DEF M!Blank, Document, ShowsApplied
<1> QED BY <1>1, UpdatedDocument, UpdatedShows

LEMMA MongoStart == M!Init => MongoInv
<1> SUFFICES ASSUME M!Init PROVE MongoInv
  OBVIOUS
<1>1. M!Blank \in Document /\ [M!Blank EXCEPT !.status = "pending"] \in Document
  BY DEF M!Blank, Document
<1>2. docs \in Seq(Document) /\ Len(docs) <= 1 /\ \A i \in DOMAIN docs : ShowsApplied(docs[i])
  <2>1. CASE docs = <<>>
    BY <2>1
  <2>2. CASE docs = <<[M!Blank EXCEPT !.status = "pending"]>>
    BY <1>1, <2>2 DEF M!Blank, ShowsApplied
  <2> QED BY <2>1, <2>2 DEF M!Init
<1>3. M!TypeOK
  BY <1>2, ConsoleAssumption
  DEF M!Init, M!TypeOK, Document, ConsoleAssumption, M!MongoAssumption
<1>4. RefundIsListed
  BY DEF M!Init, RefundIsListed
<1> QED BY <1>2, <1>3, <1>4 DEF MongoInv

(* Every step of the mapping preserves the invariant. *)
LEMMA MongoStep ==
  ASSUME MongoInv, [M!Next]_mongoVars
  PROVE  MongoInv'
<1> USE ConsoleAssumption DEF ConsoleAssumption, M!MongoAssumption
<1>1. /\ {upsert, unique} \subseteq BOOLEAN /\ docs \in Seq(Document)
      /\ delivery \in [Delivered -> {"none", "pending", "picked", "written", "processed", "parked"}]
      /\ reached \in 0..3 /\ locked \subseteq Delivered /\ died \in 0..MaxCrashes
  BY DEF MongoInv, M!TypeOK, Document
<1>2. ASSUME NEW e \in Delivered, M!Deliver(e) PROVE MongoInv'
  BY <1>1, <1>2 DEF M!Deliver, M!Move, MongoInv, M!TypeOK, Guarded, RefundIsListed
<1>3. ASSUME NEW e \in Delivered, M!Pick(e) PROVE MongoInv'
  <2>1. e = "refunded" => delivery'[e] # "processed"
    BY <1>1, <1>3, EventTables DEF M!Pick, M!Move
  <2> QED BY <1>1, <1>3, <2>1 DEF M!Pick, M!Move, MongoInv, M!TypeOK, Guarded, RefundIsListed
<1>4. ASSUME NEW e \in Delivered, M!Match(e) PROVE MongoInv'
  <2>1. PICK d \in DOMAIN docs : M!Filter(docs[d], e) /\ docs' = [docs EXCEPT ![d] = M!Updated(@, e)]
    BY <1>4 DEF M!Match
  <2> DEFINE u == M!Updated(docs[d], e)
  <2>2. /\ d \in 1..Len(docs) /\ docs[d] \in Document /\ u \in Document
        /\ e \notin docs[d].applied /\ docs[d].status \notin M!GuardFor[e]
        /\ u.applied = docs[d].applied \cup {e}
    BY <1>1, <2>1, UpdatedDocument DEF M!Filter
  <2>3. docs' = [docs EXCEPT ![d] = u] /\ docs' \in Seq(Document) /\ Len(docs') = Len(docs)
    BY <1>1, <2>1, <2>2
  <2>4. /\ delivery' = [delivery EXCEPT ![e] = "written"] /\ delivery[e] = "picked"
        /\ UNCHANGED <<upsert, unique, reached, locked, died>>
    BY <1>4 DEF M!Match, M!Move
  <2>5. M!TypeOK'
    BY <1>1, <2>3, <2>4 DEF M!TypeOK, Document
  <2>6. CASE Guarded
    <3>1. d = 1 /\ Len(docs) = 1 /\ ShowsApplied(docs[1])
      <4>1. Len(docs) <= 1
        BY <2>6 DEF MongoInv
      <4>2. Len(docs) \in Nat /\ d \in Nat /\ 1 <= d /\ d <= Len(docs)
        BY <1>1, <2>2
      <4>3. \A n, k \in Nat : n <= 1 /\ 1 <= k /\ k <= n => n = 1 /\ k = 1
        BY ONLY SMT
      <4>4. d = 1 /\ Len(docs) = 1
        BY ONLY <4>1, <4>2, <4>3, Zenon
      <4>5. \A i \in DOMAIN docs : ShowsApplied(docs[i])
        BY <2>6 DEF MongoInv
      <4> QED BY <2>2, <4>4, <4>5
    <3>2. ShowsApplied(u)
      BY <2>2, <3>1, UpdatedShows
    <3>3. docs' = <<u>> /\ docs # <<>>
      BY <1>1, <2>2, <2>3, <3>1
    <3>4. RefundIsListed'
      BY <1>1, <2>2, <2>4, <2>6, <3>1, <3>3 DEF MongoInv, RefundIsListed
    <3>5. Len(docs') <= 1 /\ \A i \in DOMAIN docs' : ShowsApplied(docs'[i])
      BY <3>2, <3>3
    <3> QED BY <2>5, <3>4, <3>5 DEF MongoInv
  <2> QED BY <2>4, <2>5, <2>6 DEF MongoInv, Guarded
<1>5. ASSUME NEW e \in Delivered, M!NoMatch(e) PROVE MongoInv'
  <2>1. delivery[e] = "picked" /\ UNCHANGED <<upsert, unique, reached, died>>
    BY <1>5 DEF M!NoMatch
  <2>2. CASE ~upsert /\ M!Move(e, "written") /\ UNCHANGED <<docs, locked>>
    <3>1. M!TypeOK'
      BY <1>1, <2>1, <2>2 DEF M!Move, M!TypeOK, Document
    <3>2. ASSUME Guarded, e = "refunded", docs # <<>>
          PROVE  "refunded" \in docs[1].applied
      <4>1. 1 \in DOMAIN docs
        BY <1>1, <3>2
      <4>2. ~M!Filter(docs[1], e)
        BY <1>5, <4>1 DEF M!NoMatch
      <4> QED BY <3>2, <4>2, EventTables DEF M!Filter
    <3> QED BY <1>1, <2>1, <2>2, <3>1, <3>2 DEF M!Move, MongoInv, Guarded, RefundIsListed
  <2>3. CASE /\ upsert /\ (unique => docs = <<>>)
             /\ docs' = Append(docs, M!Updated(M!Blank, e)) /\ M!Move(e, "written")
             /\ UNCHANGED locked
    <3>1. M!TypeOK'
      BY <1>1, <2>1, <2>3, FirstShows DEF M!Move, M!TypeOK, Document
    <3>2. CASE Guarded
      <4>1. docs' = <<M!Updated(M!Blank, e)>>
        BY <2>3, <3>2 DEF Guarded
      <4>2. RefundIsListed'
        <5>1. docs' # <<>> /\ e \in docs'[1].applied
          BY <4>1, FirstShows
        <5>2. docs = <<>>
          BY <2>3, <3>2 DEF Guarded
        <5>3. CASE e = "refunded"
          BY <5>1, <5>3 DEF RefundIsListed
        <5>4. CASE e # "refunded"
          BY <1>1, <2>3, <3>2, <5>2, <5>4 DEF M!Move, MongoInv, RefundIsListed
        <5> QED BY <5>3, <5>4
      <4> QED BY <3>1, <4>1, <4>2, FirstShows DEF MongoInv
    <3> QED BY <2>1, <3>1, <3>2 DEF MongoInv, Guarded
  <2>4. CASE \E to \in {"pending", "parked"} :
              M!Move(e, to) /\ locked' = locked \ {e} /\ UNCHANGED docs
    BY <1>1, <2>1, <2>4 DEF M!Move, MongoInv, M!TypeOK, Guarded, RefundIsListed
  <2> QED BY <1>5, <2>2, <2>3, <2>4 DEF M!NoMatch
<1>6. ASSUME NEW e \in Delivered, M!Commit(e) PROVE MongoInv'
  BY <1>1, <1>6, EventTables DEF M!Commit, M!Move, MongoInv, M!TypeOK, Guarded, RefundIsListed
<1>7. ASSUME NEW e \in Delivered, M!Crash(e) PROVE MongoInv'
  BY <1>1, <1>7 DEF M!Crash, M!Move, MongoInv, M!TypeOK, Guarded, RefundIsListed
<1>8. CASE UNCHANGED mongoVars
  BY <1>8 DEF mongoVars, MongoInv, M!TypeOK, Guarded, RefundIsListed
<1> QED BY <1>2, <1>3, <1>4, <1>5, <1>6, <1>7, <1>8 DEF M!Next

(* With a guard that holds - a document the mapping never inserts, or a key that
   cannot be there twice - the payment is added once, to one document, and what is
   processed after a refund leaves it refunded, whatever is delivered in whatever
   order and however often a worker dies between the two databases. *)
THEOREM GuardStandsIn == ConsoleSpec => []GuardedIsOnce
<1>1. ConsoleInit => MongoInv
  BY MongoStart DEF ConsoleInit
<1>2. [ConsoleNext]_allVars => [M!Next]_mongoVars
  BY DEF ConsoleNext, Others, allVars
<1>3. MongoInv => GuardedIsOnce
  <2> SUFFICES ASSUME MongoInv, Guarded
               PROVE  /\ M!CreditedOnce /\ Len(docs) <= 1
                      /\ \A e \in Delivered \cap {"refunded"} :
                           delivery[e] = "processed" /\ docs # <<>> => docs[1].status = "refunded"
    BY DEF GuardedIsOnce, M!GuardedIsOnce, Guarded
  <2>1. docs \in Seq(Document) /\ Len(docs) <= 1 /\ \A i \in DOMAIN docs : ShowsApplied(docs[i])
    BY DEF MongoInv, M!TypeOK, Document
  <2>2. DOMAIN docs \in SUBSET {1}
    BY <2>1
  <2>3. \A d \in DOMAIN docs : docs[d].credits <= 1
    BY <2>1 DEF ShowsApplied
  <2>4. M!CreditedOnce
    BY <2>2, <2>3 DEF M!CreditedOnce
  <2>5. ASSUME NEW e \in Delivered \cap {"refunded"}, delivery[e] = "processed", docs # <<>>
        PROVE  docs[1].status = "refunded"
    <3>1. 1 \in DOMAIN docs /\ "refunded" \in docs[1].applied
      BY <2>1, <2>5 DEF MongoInv, RefundIsListed
    <3> QED BY <2>1, <3>1 DEF ShowsApplied
  <2> QED BY <2>1, <2>4, <2>5
<1> QED BY <1>1, <1>2, <1>3, MongoStep, PTL DEF ConsoleSpec

-----------------------------------------------------------------------------
(* The audit.  VerdictsAreRight speaks of a check's end; the invariant says *)
(* of every place in its script what the fixtures' order looks like there.  *)
(* Places are counted from the end; without a secret the forgery is not     *)
(* sent, and its two places are passed over.                                *)

Fixtures == {"cap", "refcap", "lifecap", "forged", "auth", "paid", "refund"}
Customers == {"realcap", "realref", "recovered"}
Honest == kind # "broken"
Sound == Honest /\ trouble = {}
Heard == "lost" \notin trouble

Place(n) == IF ~secret /\ n >= 20 THEN n + 2 ELSE n
Places == <<H!Do("reconcile"), H!Do("reset"),
            H!Check("timeout"), H!Do("settle"), H!Send("cap"), H!Send("cap"), H!Send("cap"),
            H!Do("reset"), H!Do("note"), H!Do("settle"), H!Send("cap"), H!Do("reset"),
            H!Check("order"), H!Do("settle"), H!Send("auth"), H!Send("lifecap"),
            H!Send("paid"), H!Do("reset"),
            H!Check("tampered"), H!Send("forged"), H!Do("reset"),
            H!Check("refund"), H!Do("settle"), H!Send("refund"), H!Send("refund"),
            H!Do("settle"), H!Send("refcap"), H!Do("reset"),
            H!Check("duplicate"), H!Do("settle"), H!Send("cap"), H!Send("cap"), H!Do("reset")>>
ScriptSteps == {Places[i] : i \in 1..33}
at == Place(Len(script))

\* what is left of the script is the end of the whole one
ScriptIsTail ==
  /\ at <= 33
  /\ \A i \in 1..Len(script) : script[i] = Places[Place(Len(script) + 1 - i)]

Paid == [status |-> "paid", count |-> 1, credited |-> 1]
Refunded == [status |-> "refunded", count |-> 1, credited |-> 0]

Shows(r, l) == rows["probe"] = r /\ level["probe"] = l

\* of the fixtures' events at most e waits, and the order is at r before it and at s after
Quiet == \A i \in 1..Len(queue) : queue[i] \in Customers
Waits(e) == \E i \in 1..Len(queue) :
  queue[i] = e /\ \A j \in 1..Len(queue) : j # i => queue[j] \in Customers
Shown(r, l) == Quiet /\ Shows(r, l)
Coming(e, r, l, s, m) ==
  \/ Shown(s, m)
  \/ Waits(e) /\ Shows(r, l)

\* between two sends: no order, none of the fixtures' events handled yet, the order
\* captured, its capture or its refund just sent
Nothing == Shown(H!NoOrder, 0)
Unsent == \A e \in Fixtures : e \notin seen
Captured == Shown(Paid, 2)
Capturing(e) == e \in seen /\ Coming(e, H!NoOrder, 0, Paid, 2)
Refunding == "refund" \in seen /\ Coming("refund", Paid, 2, Refunded, 3)

\* order.paid, then the capture and the authorization that it outranks
Late == Customers \cup {"lifecap", "auth"}
Confirmed ==
  /\ rows["probe"].status = "paid" /\ level["probe"] = 2
  /\ \A i \in 1..Len(queue) : queue[i] \in Late
Confirming ==
  /\ level["probe"] = 0
  /\ \E i \in 1..Len(queue) :
       /\ queue[i] = "paid"
       /\ \A j \in 1..Len(queue) : j < i => queue[j] \in Customers
       /\ \A j \in 1..Len(queue) : j > i => queue[j] \in Late

OrderRows == [status : {None, "authorized", "paid", "refunded"}, count : Int, credited : Int]

AuditTypes ==
  /\ kind \in H!Kinds /\ secret \in BOOLEAN /\ checks \in Nat
  /\ kind = "protected" => secret
  /\ rows \in [H!Orders -> OrderRows]
  /\ level \in [H!Orders -> Int] /\ watched \in BOOLEAN
  /\ queue \in Seq(H!Events) /\ acked \subseteq H!Events
  /\ script \in Seq(ScriptSteps)
  /\ note \in [single : OrderRows, refused : BOOLEAN, watched : BOOLEAN]
  /\ report \in [H!Probes \cup {"protected"} -> {"none", "pass", "fail", "skipped"}]
  /\ kind # "protected" => Quiet
  /\ script # <<>> => checks > 0
  /\ trouble \subseteq {"early", "threw", "lost"}

\* at its place in the script, what an integration that dedupes has made of the fixtures
HonestPlaces ==
  /\ at \in {32, 27, 20, 17, 11, 7} => Nothing /\ Unsent
  /\ at \in {31, 30, 10, 6, 5, 4} => Capturing("cap")
  /\ at = 26 => Capturing("refcap") /\ "refund" \notin seen
  /\ at = 25 => Captured /\ "refund" \notin seen
  /\ at \in {24, 23} => Refunding
  /\ at \in {16, 15, 14} => Confirmed \/ Confirming
  /\ at \in {29, 9, 3} => Captured
  /\ at = 22 => Shown(Refunded, 3)
  /\ at = 13 => Confirmed
  /\ at = 19 /\ secret => Nothing /\ note.refused
  /\ at \in 3..8 => note.single = Paid

\* one that does not, and what has been said of it
Reporting == at > 0 \/ report["protected"] # "none"
BrokenPlaces ==
  /\ at = 32 => Shows(H!NoOrder, 0)
  /\ at = 31 => Shows(Paid, 2)
  /\ at \in {30, 29} => rows["probe"].count = 2
  /\ at = 19 /\ secret => ~note.refused
  /\ Reporting /\ at <= 28 => report["duplicate"] = "fail"
  /\ Reporting /\ at <= 18 /\ secret => report["tampered"] = "fail"

VerdictsSoFar ==
  /\ Sound => \A p \in H!Probes : report[p] # "fail"
  /\ ~secret => report["tampered"] # "pass"
  /\ report["protected"] = "pass" => secret /\ (Honest \/ ~Heard)

AuditInv ==
  /\ AuditTypes /\ ScriptIsTail /\ VerdictsSoFar
  /\ Sound => HonestPlaces
  /\ ~Honest /\ Heard => BrokenPlaces

(* What the probes' scripts and the merchant's events are. *)
LEMMA AuditConstants ==
  /\ None \notin {"authorized", "paid", "refunded"}
  /\ H!Events = Fixtures \cup Customers
  /\ \A e \in {"cap", "refcap", "lifecap", "forged", "realcap", "recovered"} : H!Type[e] = "captured"
  /\ \A e \in {"refund", "realref"} : H!Type[e] = "refunded"
  /\ H!Type["auth"] = "authorized" /\ H!Type["paid"] = "order_paid"
  /\ \A e \in Fixtures : H!OrderOf(e) = "probe"
  /\ \A e \in Customers : H!OrderOf(e) = "real"
BY ConsoleAssumption
   DEF ConsoleAssumption, H!AuditAssumption, H!Events, H!Type, H!OrderOf, Fixtures, Customers

LEMMA PlacesAre ==
  /\ Len(Places) = 33
  /\ \A i \in 1..33 :
       /\ Places[i].op = "reset" <=> i \in {2, 8, 12, 18, 21, 28, 33}
       /\ Places[i].op = "send" <=> i \in {5, 6, 7, 11, 15, 16, 17, 20, 24, 25, 27, 31, 32}
       /\ Places[i].op = "settle" <=> i \in {4, 10, 14, 23, 26, 30}
       /\ Places[i].op = "check" <=> i \in {3, 13, 19, 22, 29}
       /\ Places[i].op = "note" <=> i = 9
       /\ Places[i].op = "reconcile" <=> i = 1
       /\ i \in {5, 6, 7, 11, 31, 32} => Places[i].arg = "cap"
       /\ i = 15 => Places[i].arg = "auth"
       /\ i = 16 => Places[i].arg = "lifecap"
       /\ i = 17 => Places[i].arg = "paid"
       /\ i = 20 => Places[i].arg = "forged"
       /\ i \in {24, 25} => Places[i].arg = "refund"
       /\ i = 27 => Places[i].arg = "refcap"
       /\ i = 3 => Places[i].arg = "timeout"
       /\ i = 13 => Places[i].arg = "order"
       /\ i = 19 => Places[i].arg = "tampered"
       /\ i = 22 => Places[i].arg = "refund"
       /\ i = 29 => Places[i].arg = "duplicate"
<1>1. Len(Places) = 33
  BY DEF Places
<1>2. /\ Places[1] = H!Do("reconcile")
      /\ \A i \in {2, 8, 12, 18, 21, 28, 33} : Places[i] = H!Do("reset")
      /\ \A i \in {4, 10, 14, 23, 26, 30} : Places[i] = H!Do("settle")
      /\ \A i \in {5, 6, 7, 11, 31, 32} : Places[i] = H!Send("cap")
      /\ Places[9] = H!Do("note") /\ Places[15] = H!Send("auth")
      /\ Places[16] = H!Send("lifecap") /\ Places[17] = H!Send("paid")
      /\ Places[20] = H!Send("forged") /\ Places[27] = H!Send("refcap")
      /\ \A i \in {24, 25} : Places[i] = H!Send("refund")
      /\ Places[3] = H!Check("timeout") /\ Places[13] = H!Check("order")
      /\ Places[19] = H!Check("tampered") /\ Places[22] = H!Check("refund")
      /\ Places[29] = H!Check("duplicate")
  BY DEF Places
<1>3. /\ \A op : H!Do(op).op = op
      /\ \A e : H!Send(e).op = "send" /\ H!Send(e).arg = e
      /\ \A p : H!Check(p).op = "check" /\ H!Check(p).arg = p
  BY DEF H!Do, H!Send, H!Check
<1>4. \A i \in 1..33 :
        \/ i = 1 \/ i = 3 \/ i = 9 \/ i = 13 \/ i = 15 \/ i = 16 \/ i = 17 \/ i = 19 \/ i = 20
        \/ i = 22 \/ i = 27 \/ i = 29
        \/ i \in {2, 8, 12, 18, 21, 28, 33} \/ i \in {4, 10, 14, 23, 26, 30}
        \/ i \in {5, 6, 7, 11, 31, 32} \/ i \in {24, 25}
  OBVIOUS
<1> QED BY ONLY <1>1, <1>2, <1>3, <1>4

(* The whole script: its i-th step is Whole[i]. *)
Whole == [i \in 1..33 |-> Places[IF secret \/ i <= 12 THEN 34 - i ELSE 32 - i]]

(* A start of it, continued. *)
LEMMA Continued ==
  ASSUME NEW a \in Seq(ScriptSteps), NEW b \in Seq(ScriptSteps),
         \A i \in 1..Len(a) : a[i] = Whole[i],
         \A i \in 1..Len(b) : b[i] = Whole[Len(a) + i]
  PROVE  /\ a \o b \in Seq(ScriptSteps) /\ Len(a \o b) = Len(a) + Len(b)
         /\ \A i \in 1..(Len(a) + Len(b)) : (a \o b)[i] = Whole[i]
<1>1. /\ a \o b \in Seq(ScriptSteps) /\ Len(a \o b) = Len(a) + Len(b)
      /\ \A i \in 1..(Len(a) + Len(b)) : (a \o b)[i] = IF i <= Len(a) THEN a[i] ELSE b[i - Len(a)]
  BY ConcatProperties
<1>2. ASSUME NEW i \in 1..(Len(a) + Len(b)) PROVE (a \o b)[i] = Whole[i]
  <2>1. CASE i <= Len(a)
    BY <1>1, <2>1
  <2>2. CASE ~(i <= Len(a))
    <3>1. i - Len(a) \in 1..Len(b) /\ Len(a) + (i - Len(a)) = i
      BY <2>2
    <3> QED BY <1>1, <2>2, <3>1
  <2> QED BY <2>1, <2>2
<1> QED BY <1>1, <1>2

LEMMA WholeScript ==
  ASSUME secret \in BOOLEAN, H!Health
  PROVE  /\ script' \in Seq(ScriptSteps)
         /\ Len(script') = IF secret THEN 33 ELSE 31
         /\ \A i \in 1..Len(script') : script'[i] = Whole[i]
<1> DEFINE d == H!ScriptOf("duplicate")
           r == H!ScriptOf("refund")
           t == H!ScriptOf("tampered")
           o == H!ScriptOf("order")
           u == H!ScriptOf("timeout")
           e == <<H!Do("reset"), H!Do("reconcile")>>
           k == IF secret THEN 3 ELSE 1
<1>0. secret \in BOOLEAN /\ k = (IF secret THEN 3 ELSE 1)
  OBVIOUS
<1> HIDE DEF d, r, t, o, u, e, k
<1>1. script' = d \o r \o t \o o \o u \o e
  BY DEF H!Health, d, r, t, o, u, e
<1>2. \A i \in 1..33 : Places[i] \in ScriptSteps
  BY DEF ScriptSteps
<1>3. \A i \in 1..33 : Whole[i] = Places[IF secret \/ i <= 12 THEN 34 - i ELSE 32 - i]
  BY DEF Whole
<1>4. d \in Seq(ScriptSteps) /\ Len(d) = 5 /\ \A i \in 1..5 : d[i] = Whole[i]
  <2>1. d = <<Places[33], Places[32], Places[31], Places[30], Places[29]>>
    BY DEF H!ScriptOf, H!Duplicate, Places, d, r, t, o, u
  <2>2. d \in Seq(ScriptSteps)
    BY ONLY <2>1, <1>2
  <2>4. Len(d) = 5
    BY ONLY <2>1, <1>0
  <2>3. ASSUME NEW i \in 1..5 PROVE d[i] = Whole[i]
    <3>1. i = 1 \/ i = 2 \/ i = 3 \/ i = 4 \/ i = 5
      OBVIOUS
    <3> QED BY ONLY <3>1, <2>1, <1>3, <1>0
  <2> QED BY <2>2, <2>3, <2>4
<1>5. r \in Seq(ScriptSteps) /\ Len(r) = 7 /\ \A i \in 1..7 : r[i] = Whole[5 + i]
  <2>1. r = <<Places[28], Places[27], Places[26], Places[25], Places[24], Places[23], Places[22]>>
    BY DEF H!ScriptOf, H!Duplicate, Places, d, r, t, o, u
  <2>2. r \in Seq(ScriptSteps)
    BY ONLY <2>1, <1>2
  <2>4. Len(r) = 7
    BY ONLY <2>1, <1>0
  <2>3. ASSUME NEW i \in 1..7 PROVE r[i] = Whole[5 + i]
    <3>1. i = 1 \/ i = 2 \/ i = 3 \/ i = 4 \/ i = 5 \/ i = 6 \/ i = 7
      OBVIOUS
    <3> QED BY ONLY <3>1, <2>1, <1>3, <1>0
  <2> QED BY <2>2, <2>3, <2>4
<1>6. t \in Seq(ScriptSteps) /\ Len(t) = k /\ \A i \in 1..k : t[i] = Whole[12 + i]
  <2>1. t = IF secret THEN <<Places[21], Places[20], Places[19]>> ELSE <<Places[19]>>
    BY DEF H!ScriptOf, H!Duplicate, Places, d, r, t, o, u
  <2>2. t \in Seq(ScriptSteps)
    BY ONLY <2>1, <1>2, <1>0
  <2>4. Len(t) = k
    BY ONLY <2>1, <1>0
  <2>3. ASSUME NEW i \in 1..k PROVE t[i] = Whole[12 + i]
    <3>1. (secret /\ (i = 1 \/ i = 2 \/ i = 3)) \/ (~secret /\ i = 1)
      BY ONLY <1>0, <2>3
    <3> QED BY ONLY <3>1, <2>1, <1>3, <1>0
  <2> QED BY <2>2, <2>3, <2>4
<1>7. o \in Seq(ScriptSteps) /\ Len(o) = 6 /\ \A i \in 1..6 : o[i] = Whole[12 + k + i]
  <2>1. o = <<Places[18], Places[17], Places[16], Places[15], Places[14], Places[13]>>
    BY DEF H!ScriptOf, H!Duplicate, Places, d, r, t, o, u
  <2>2. o \in Seq(ScriptSteps)
    BY ONLY <2>1, <1>2
  <2>4. Len(o) = 6
    BY ONLY <2>1, <1>0
  <2>3. ASSUME NEW i \in 1..6 PROVE o[i] = Whole[12 + k + i]
    <3>1. i = 1 \/ i = 2 \/ i = 3 \/ i = 4 \/ i = 5 \/ i = 6
      OBVIOUS
    <3> QED BY ONLY <3>1, <2>1, <1>3, <1>0
  <2> QED BY <2>2, <2>3, <2>4
<1>8. u \in Seq(ScriptSteps) /\ Len(u) = 10 /\ \A i \in 1..10 : u[i] = Whole[18 + k + i]
  <2>1. u = <<Places[12], Places[11], Places[10], Places[9], Places[8],
              Places[7], Places[6], Places[5], Places[4], Places[3]>>
    BY DEF H!ScriptOf, H!Duplicate, Places, d, r, t, o, u
  <2>2. u \in Seq(ScriptSteps)
    BY ONLY <2>1, <1>2
  <2>4. Len(u) = 10
    BY ONLY <2>1, <1>0
  <2>3. ASSUME NEW i \in 1..10 PROVE u[i] = Whole[18 + k + i]
    <3>1. i = 1 \/ i = 2 \/ i = 3 \/ i = 4 \/ i = 5 \/ i = 6 \/ i = 7 \/ i = 8 \/ i = 9 \/ i = 10
      OBVIOUS
    <3> QED BY ONLY <3>1, <2>1, <1>3, <1>0
  <2> QED BY <2>2, <2>3, <2>4
<1>9. e \in Seq(ScriptSteps) /\ Len(e) = 2 /\ \A i \in 1..2 : e[i] = Whole[28 + k + i]
  <2>1. e = <<Places[2], Places[1]>>
    BY DEF Places, e
  <2>2. e \in Seq(ScriptSteps)
    BY ONLY <2>1, <1>2
  <2>4. Len(e) = 2
    BY ONLY <2>1, <1>0
  <2>3. ASSUME NEW i \in 1..2 PROVE e[i] = Whole[28 + k + i]
    <3>1. i = 1 \/ i = 2
      OBVIOUS
    <3> QED BY ONLY <3>1, <2>1, <1>3, <1>0
  <2> QED BY <2>2, <2>3, <2>4
<1> DEFINE x == d \o r
           y == x \o t
           z == y \o o
           w == z \o u
<1>10. x \in Seq(ScriptSteps) /\ Len(x) = 12 /\ \A i \in 1..12 : x[i] = Whole[i]
  <2>1. \A i \in 1..Len(d) : d[i] = Whole[i]
    BY ONLY <1>4, <1>0
  <2>2. \A i \in 1..Len(r) : r[i] = Whole[Len(d) + i]
    BY ONLY <1>4, <1>5, <1>0
  <2>3. /\ d \o r \in Seq(ScriptSteps) /\ Len(d \o r) = Len(d) + Len(r)
        /\ \A i \in 1..(Len(d) + Len(r)) : (d \o r)[i] = Whole[i]
    BY ONLY <1>4, <1>5, <2>1, <2>2, Continued
  <2>4. Len(d) + Len(r) = 12
    BY ONLY <1>4, <1>5, <1>0
  <2> QED BY ONLY <2>3, <2>4 DEF x
<1> HIDE DEF x
<1>11. /\ y \in Seq(ScriptSteps) /\ Len(y) = 12 + k
       /\ \A i \in 1..(12 + k) : y[i] = Whole[i]
  <2>1. \A i \in 1..Len(x) : x[i] = Whole[i]
    BY ONLY <1>10, <1>0
  <2>2. \A i \in 1..Len(t) : t[i] = Whole[Len(x) + i]
    BY ONLY <1>10, <1>6, <1>0
  <2>3. /\ x \o t \in Seq(ScriptSteps) /\ Len(x \o t) = Len(x) + Len(t)
        /\ \A i \in 1..(Len(x) + Len(t)) : (x \o t)[i] = Whole[i]
    BY ONLY <1>10, <1>6, <2>1, <2>2, Continued
  <2>4. Len(x) + Len(t) = 12 + k
    BY ONLY <1>10, <1>6, <1>0
  <2> QED BY ONLY <2>3, <2>4 DEF y
<1> HIDE DEF y
<1>12. /\ z \in Seq(ScriptSteps) /\ Len(z) = 18 + k
       /\ \A i \in 1..(18 + k) : z[i] = Whole[i]
  <2>1. \A i \in 1..Len(y) : y[i] = Whole[i]
    BY ONLY <1>11, <1>0
  <2>2. \A i \in 1..Len(o) : o[i] = Whole[Len(y) + i]
    BY ONLY <1>11, <1>7, <1>0
  <2>3. /\ y \o o \in Seq(ScriptSteps) /\ Len(y \o o) = Len(y) + Len(o)
        /\ \A i \in 1..(Len(y) + Len(o)) : (y \o o)[i] = Whole[i]
    BY ONLY <1>11, <1>7, <2>1, <2>2, Continued
  <2>4. Len(y) + Len(o) = 18 + k
    BY ONLY <1>11, <1>7, <1>0
  <2> QED BY ONLY <2>3, <2>4 DEF z
<1> HIDE DEF z
<1>13. /\ w \in Seq(ScriptSteps) /\ Len(w) = 28 + k
       /\ \A i \in 1..(28 + k) : w[i] = Whole[i]
  <2>1. \A i \in 1..Len(z) : z[i] = Whole[i]
    BY ONLY <1>12, <1>0
  <2>2. \A i \in 1..Len(u) : u[i] = Whole[Len(z) + i]
    BY ONLY <1>12, <1>8, <1>0
  <2>3. /\ z \o u \in Seq(ScriptSteps) /\ Len(z \o u) = Len(z) + Len(u)
        /\ \A i \in 1..(Len(z) + Len(u)) : (z \o u)[i] = Whole[i]
    BY ONLY <1>12, <1>8, <2>1, <2>2, Continued
  <2>4. Len(z) + Len(u) = 28 + k
    BY ONLY <1>12, <1>8, <1>0
  <2> QED BY ONLY <2>3, <2>4 DEF w
<1> HIDE DEF w
<1>14. /\ w \o e \in Seq(ScriptSteps) /\ Len(w \o e) = 30 + k
       /\ \A i \in 1..(30 + k) : (w \o e)[i] = Whole[i]
  <2>1. \A i \in 1..Len(w) : w[i] = Whole[i]
    BY ONLY <1>13, <1>0
  <2>2. \A i \in 1..Len(e) : e[i] = Whole[Len(w) + i]
    BY ONLY <1>13, <1>9, <1>0
  <2>3. /\ w \o e \in Seq(ScriptSteps) /\ Len(w \o e) = Len(w) + Len(e)
        /\ \A i \in 1..(Len(w) + Len(e)) : (w \o e)[i] = Whole[i]
    BY ONLY <1>13, <1>9, <2>1, <2>2, Continued
  <2>4. Len(w) + Len(e) = 30 + k
    BY ONLY <1>13, <1>9, <1>0
  <2> QED BY ONLY <2>3, <2>4
<1>15. script' = w \o e
  BY <1>1 DEF w, z, y, x
<1> QED BY ONLY <1>0, <1>14, <1>15

(* A step of the script: it is the one of its place, and the next place follows. *)
LEMMA NextPlace ==
  ASSUME AuditTypes, ScriptIsTail, NEW op, H!Following(op)
  PROVE  /\ at \in 1..33 /\ Head(script) = Places[at] /\ Places[at].op = op
         /\ at' = IF ~secret /\ at = 22 THEN 19 ELSE at - 1
         /\ ~secret => at \notin {20, 21}
         /\ script' \in Seq(ScriptSteps) /\ ScriptIsTail'
         /\ checks > 0 /\ UNCHANGED <<kind, secret, acked, checks>>
<1>1. /\ script # <<>> /\ Head(script).op = op /\ script' = Tail(script)
      /\ UNCHANGED <<kind, secret, acked, checks>>
  BY DEF H!Following
<1>2. /\ script \in Seq(ScriptSteps) /\ secret \in BOOLEAN /\ checks > 0
  BY <1>1 DEF AuditTypes
<1>3. /\ at <= 33
      /\ \A i \in 1..Len(script) : script[i] = Places[Place(Len(script) + 1 - i)]
  BY DEF ScriptIsTail
<1>4. /\ Len(script) \in Nat /\ Len(script) >= 1 /\ Len(script') = Len(script) - 1
      /\ script' \in Seq(ScriptSteps) /\ Head(script) = script[1]
      /\ \A i \in 1..(Len(script) - 1) : script'[i] = script[i + 1]
  BY ONLY <1>1, <1>2
<1>5. \A n : Place(n)' = Place(n)
  BY <1>1 DEF Place
<1>6. /\ at \in 1..33
      /\ ~secret => at \notin {20, 21}
      /\ at' = IF ~secret /\ at = 22 THEN 19 ELSE at - 1
  <2>1. at = (IF ~secret /\ Len(script) >= 20 THEN Len(script) + 2 ELSE Len(script))
    BY DEF at, Place
  <2>2. at' = (IF ~secret /\ Len(script) - 1 >= 20 THEN Len(script) + 1 ELSE Len(script) - 1)
    <3>1. at' = (IF ~secret' /\ Len(script') >= 20 THEN Len(script') + 2 ELSE Len(script'))
      BY DEF at, Place
    <3>2. Len(script') = Len(script) - 1 /\ secret' = secret /\ Len(script) \in Nat
      BY ONLY <1>1, <1>4
    <3> QED BY ONLY <3>1, <3>2
  <2>3. PICK n \in Nat : n = Len(script) /\ n >= 1
    BY ONLY <1>4
  <2>4. at = (IF ~secret /\ n >= 20 THEN n + 2 ELSE n) /\ at <= 33
    BY ONLY <2>1, <2>3, <1>3
  <2>5. at' = (IF ~secret /\ n - 1 >= 20 THEN n + 1 ELSE n - 1)
    BY ONLY <2>2, <2>3
  <2>6. secret \in BOOLEAN /\ n \in Nat /\ n >= 1
    BY <1>2, <2>3
  <2>7. at \in 1..33
    BY ONLY <2>4, <2>6
  <2>8. ~secret => at \notin {20, 21}
    BY ONLY <2>4, <2>6
  <2>9. at' = IF ~secret /\ at = 22 THEN 19 ELSE at - 1
    BY ONLY <2>4, <2>5, <2>6
  <2> QED BY ONLY <2>7, <2>8, <2>9
<1>7. Head(script) = Places[at]
  <2>1. script[1] = Places[Place(Len(script) + 1 - 1)]
    BY ONLY <1>3, <1>4
  <2>2. Len(script) + 1 - 1 = Len(script)
    BY ONLY <1>4
  <2> QED BY ONLY <2>1, <2>2, <1>4 DEF at
<1>8. ScriptIsTail'
  <2>1. at' <= 33
    BY ONLY <1>2, <1>6
  <2>2. ASSUME NEW i \in 1..(Len(script) - 1)
        PROVE  script'[i] = Places[Place(Len(script) - 1 + 1 - i)]
    <3>1. i + 1 \in 1..Len(script) /\ Len(script) + 1 - (i + 1) = Len(script) - 1 + 1 - i
      BY ONLY <1>4, <2>2
    <3>2. script'[i] = script[i + 1] /\ script[i + 1] = Places[Place(Len(script) + 1 - (i + 1))]
      BY ONLY <1>3, <1>4, <2>2, <3>1
    <3> QED BY ONLY <3>1, <3>2
  <2> QED BY <2>1, <2>2, <1>4, <1>5 DEF ScriptIsTail
<1> QED BY <1>1, <1>2, <1>4, <1>6, <1>7, <1>8

LEMMA FirstPlace ==
  ASSUME AuditTypes, H!Health
  PROVE  at' = 33 /\ ScriptIsTail' /\ script' \in Seq(ScriptSteps) /\ script' # <<>>
<1>1. secret \in BOOLEAN /\ secret' = secret
  BY DEF AuditTypes, H!Health
<1>2. /\ script' \in Seq(ScriptSteps)
      /\ Len(script') = IF secret THEN 33 ELSE 31
      /\ \A i \in 1..Len(script') : script'[i] = Whole[i]
  BY <1>1, WholeScript
<1>3. at' = 33
  BY ONLY <1>1, <1>2 DEF at, Place
<1>4. \A n : Place(n)' = Place(n)
  BY <1>1 DEF Place
<1>5. ASSUME NEW i \in 1..Len(script') PROVE script'[i] = Places[Place(Len(script') + 1 - i)]
  <2>1. i \in 1..33
    BY ONLY <1>1, <1>2, <1>5
  <2>2. Whole[i] = Places[IF secret \/ i <= 12 THEN 34 - i ELSE 32 - i]
    BY <2>1 DEF Whole
  <2>3. Place(Len(script') + 1 - i) = IF secret \/ i <= 12 THEN 34 - i ELSE 32 - i
    BY ONLY <1>1, <1>2, <2>1 DEF Place
  <2> QED BY ONLY <1>2, <1>5, <2>2, <2>3
<1>6. script' # <<>>
  BY ONLY <1>1, <1>2
<1> QED BY ONLY <1>2, <1>3, <1>4, <1>5, <1>6 DEF ScriptIsTail

(* The business rule, on the rows that the fixtures' order takes. *)
LEMMA Effects ==
  /\ H!NoOrder \in OrderRows /\ Paid \in OrderRows /\ Refunded \in OrderRows
  /\ H!Effect(H!NoOrder, "captured") = Paid
  /\ H!Effect(Paid, "captured").count = 2
  /\ H!Effect(Paid, "refunded") = Refunded
  /\ \A r \in OrderRows :
       /\ H!Effect(r, "captured") \in OrderRows /\ H!Effect(r, "captured").status = "paid"
       /\ H!Effect(r, "order_paid") \in OrderRows /\ H!Effect(r, "order_paid").status = "paid"
       /\ H!Effect(r, "authorized") \in OrderRows /\ H!Effect(r, "refunded") \in OrderRows
  /\ H!Rank["authorized"] = 1 /\ H!Rank["captured"] = 2
  /\ H!Rank["order_paid"] = 2 /\ H!Rank["refunded"] = 3
<1>1. H!NoOrder \in OrderRows /\ Paid \in OrderRows /\ Refunded \in OrderRows
  BY DEF H!NoOrder, Paid, Refunded, OrderRows
<1>2. H!Effect(H!NoOrder, "captured") = Paid
  BY DEF H!Effect, H!NoOrder, Paid
<1>3. H!Effect(Paid, "captured").count = 2
  BY DEF H!Effect, Paid
<1>4. H!Effect(Paid, "refunded") = Refunded
  <2>1. Paid.status # None
    BY AuditConstants DEF Paid
  <2>2. H!Effect(Paid, "refunded") = [status |-> "refunded", count |-> Paid.count,
                                      credited |-> Paid.credited - 1]
    BY ONLY <2>1 DEF H!Effect
  <2>3. Paid.count = 1 /\ Paid.credited - 1 = 0
    BY ONLY DEF Paid
  <2> QED BY ONLY <2>2, <2>3 DEF Refunded
<1>5. ASSUME NEW r \in OrderRows
      PROVE  /\ H!Effect(r, "captured") \in OrderRows /\ H!Effect(r, "captured").status = "paid"
             /\ H!Effect(r, "order_paid") \in OrderRows /\ H!Effect(r, "order_paid").status = "paid"
             /\ H!Effect(r, "authorized") \in OrderRows /\ H!Effect(r, "refunded") \in OrderRows
  <2>1. /\ H!Effect(r, "captured") = [status |-> "paid", count |-> r.count + 1, credited |-> r.credited + 1]
        /\ H!Effect(r, "order_paid") = [r EXCEPT !.status = "paid"]
        /\ H!Effect(r, "authorized") = [r EXCEPT !.status = "authorized"]
    BY ONLY DEF H!Effect
  <2>2. H!Effect(r, "refunded") =
          IF r.status = None THEN r
          ELSE [status |-> "refunded", count |-> r.count, credited |-> r.credited - 1]
    BY ONLY DEF H!Effect
  <2>3. r.count \in Int /\ r.count + 1 \in Int /\ r.credited + 1 \in Int /\ r.credited - 1 \in Int
    BY ONLY <1>5 DEF OrderRows
  <2>4. \A s \in {"authorized", "paid", "refunded"} :
          [r EXCEPT !.status = s] \in OrderRows /\ [r EXCEPT !.status = s].status = s
    BY ONLY <1>5 DEF OrderRows
  <2>5. H!Effect(r, "captured") \in OrderRows /\ H!Effect(r, "captured").status = "paid"
    BY ONLY <2>1, <2>3 DEF OrderRows
  <2>6. [status |-> "refunded", count |-> r.count, credited |-> r.credited - 1] \in OrderRows
    BY ONLY <1>5, <2>3 DEF OrderRows
  <2>7. H!Effect(r, "refunded") \in OrderRows
    BY ONLY <1>5, <2>2, <2>6
  <2> QED BY ONLY <2>1, <2>4, <2>5, <2>7
<1>6. /\ H!Rank["authorized"] = 1 /\ H!Rank["captured"] = 2
      /\ H!Rank["order_paid"] = 2 /\ H!Rank["refunded"] = 3
  BY DEF H!Rank
<1> QED BY <1>1, <1>2, <1>3, <1>4, <1>5, <1>6

RankOfEvent(e) == H!Rank[H!Type[e]]

LEMMA Applied ==
  ASSUME AuditTypes, NEW e \in H!Events, H!Apply(e)
  PROVE  /\ rows' \in [H!Orders -> OrderRows] /\ level' \in [H!Orders -> Int]
         /\ e \in Customers => rows'["probe"] = rows["probe"] /\ level'["probe"] = level["probe"]
         /\ e \in Fixtures /\ RankOfEvent(e) < level["probe"] =>
              rows'["probe"] = rows["probe"] /\ level'["probe"] = level["probe"]
         /\ e \in Fixtures /\ ~(RankOfEvent(e) < level["probe"]) =>
              /\ rows'["probe"] = H!Effect(rows["probe"], H!Type[e])
              /\ level'["probe"] = RankOfEvent(e)
<1> DEFINE o == H!OrderOf(e)
<1>1. /\ rows \in [H!Orders -> OrderRows] /\ level \in [H!Orders -> Int]
      /\ "probe" \in H!Orders /\ "real" \in H!Orders
  BY DEF AuditTypes, H!Orders
<1>2. /\ e \in Fixtures \cup Customers
      /\ e \in Fixtures => o = "probe"
      /\ e \in Customers => o = "real"
  BY AuditConstants
<1>3. H!Type[e] \in {"authorized", "captured", "order_paid", "refunded"}
  BY <1>2, AuditConstants DEF Fixtures, Customers
<1>4. RankOfEvent(e) \in Int /\ \A r \in OrderRows : H!Effect(r, H!Type[e]) \in OrderRows
  BY ONLY <1>3, Effects DEF RankOfEvent
<1> HIDE DEF o
<1>5. o \in H!Orders
  BY ONLY <1>1, <1>2
<1>6. CASE RankOfEvent(e) < level[o]
  <2>1. rows' = rows /\ level' = level
    BY <1>6 DEF H!Apply, RankOfEvent, o
  <2> QED BY ONLY <2>1, <1>1, <1>2, <1>6
<1>7. CASE ~(RankOfEvent(e) < level[o])
  <2>1. /\ rows' = [rows EXCEPT ![o] = H!Effect(rows[o], H!Type[e])]
        /\ level' = [level EXCEPT ![o] = RankOfEvent(e)]
    BY <1>7 DEF H!Apply, RankOfEvent, o
  <2>2. rows' \in [H!Orders -> OrderRows] /\ level' \in [H!Orders -> Int]
    BY ONLY <2>1, <1>1, <1>4, <1>5
  <2>3. /\ o = "real" => rows'["probe"] = rows["probe"] /\ level'["probe"] = level["probe"]
        /\ o = "probe" => /\ rows'["probe"] = H!Effect(rows["probe"], H!Type[e])
                          /\ level'["probe"] = RankOfEvent(e)
    BY ONLY <2>1, <1>1
  <2>4. ~(e \in Fixtures /\ RankOfEvent(e) < level["probe"])
    BY ONLY <1>2, <1>7
  <2> QED BY ONLY <2>2, <2>3, <2>4, <1>2
<1> QED BY <1>6, <1>7

Untouched == rows'["probe"] = rows["probe"] /\ level'["probe"] = level["probe"]

(* What the customers send, and what is done for them, passes the fixtures by. *)
LEMMA PassedBy ==
  ASSUME queue \in Seq(H!Events), Untouched, NEW c \in Customers,
         queue' = queue \/ queue' = Append(queue, c)
  PROVE  /\ Quiet => Quiet'
         /\ \A e, r, l : Waits(e) /\ Shows(r, l) => (Waits(e) /\ Shows(r, l))'
         /\ \A r, l : Shows(r, l) => Shows(r, l)'
         /\ Confirmed => Confirmed'
         /\ Confirming => Confirming'
<1>1. PICK n \in Nat : n = Len(queue)
  OBVIOUS
<1>2. PICK m \in Nat : m = Len(queue') /\ m \in {n, n + 1}
  BY <1>1
<1>3. /\ \A i \in 1..n : i \in 1..m /\ queue'[i] = queue[i]
      /\ \A i \in 1..m : i \in 1..n \/ (i = n + 1 /\ queue'[i] \in Customers)
  BY <1>1, <1>2
<1>4. ASSUME Quiet PROVE Quiet'
  <2>1. \A i \in 1..n : queue[i] \in Customers
    BY <1>1, <1>4 DEF Quiet
  <2>2. \A i \in 1..m : queue'[i] \in Customers
    BY ONLY <2>1, <1>3
  <2> QED BY <2>2, <1>2 DEF Quiet
<1>5. ASSUME NEW e, Waits(e) PROVE Waits(e)'
  <2>1. PICK i \in 1..n : queue[i] = e /\ \A j \in 1..n : j # i => queue[j] \in Customers
    BY <1>1, <1>5 DEF Waits
  <2>2. i \in 1..m /\ queue'[i] = e /\ \A j \in 1..m : j # i => queue'[j] \in Customers
    BY ONLY <2>1, <1>3
  <2> QED BY <2>2, <1>2 DEF Waits
<1>6. ASSUME NEW r, NEW l, Shows(r, l) PROVE Shows(r, l)'
  BY <1>6 DEF Shows, Untouched
<1>7. ASSUME Confirmed PROVE Confirmed'
  <2>1. \A i \in 1..n : queue[i] \in Late
    BY <1>1, <1>7 DEF Confirmed
  <2>2. \A i \in 1..m : queue'[i] \in Late
    BY ONLY <2>1, <1>3 DEF Late
  <2> QED BY <2>2, <1>2, <1>7 DEF Confirmed, Untouched
<1>8. ASSUME Confirming PROVE Confirming'
  <2>1. PICK i \in 1..n : /\ queue[i] = "paid"
                          /\ \A j \in 1..n : j < i => queue[j] \in Customers
                          /\ \A j \in 1..n : j > i => queue[j] \in Late
    BY <1>1, <1>8 DEF Confirming
  <2>2. /\ i \in 1..m /\ queue'[i] = "paid"
        /\ \A j \in 1..m : j < i => queue'[j] \in Customers
        /\ \A j \in 1..m : j > i => queue'[j] \in Late
    BY ONLY <2>1, <1>3 DEF Late
  <2> QED BY <2>2, <1>2, <1>8 DEF Confirming, Untouched
<1> QED BY <1>4, <1>5, <1>6, <1>7, <1>8

(* The worker: each of the places' conditions holds after its next event as well. *)
LEMMA WorkedOff ==
  ASSUME AuditTypes, H!Worker
  PROVE  /\ rows' \in [H!Orders -> OrderRows] /\ level' \in [H!Orders -> Int]
         /\ queue' \in Seq(H!Events)
         /\ \A r, l : Shown(r, l) => Shown(r, l)'
         /\ \A e \in {"cap", "refcap"} :
              Coming(e, H!NoOrder, 0, Paid, 2) => Coming(e, H!NoOrder, 0, Paid, 2)'
         /\ Coming("refund", Paid, 2, Refunded, 3) => Coming("refund", Paid, 2, Refunded, 3)'
         /\ Confirmed => Confirmed'
         /\ Confirming => Confirmed' \/ Confirming'
<1> DEFINE h == queue[1]
<1>1. PICK n \in Nat : n = Len(queue) /\ n >= 1 /\ Len(queue') = n - 1
  BY DEF AuditTypes, H!Worker
<1>2. /\ h \in H!Events /\ H!Apply(h) /\ queue' \in Seq(H!Events)
      /\ \A j \in 1..(n - 1) : queue'[j] = queue[j + 1]
  BY <1>1 DEF AuditTypes, H!Worker
<1>3. h \in Fixtures \cup Customers
  BY <1>2, AuditConstants
<1> HIDE DEF h
<1>4. /\ rows' \in [H!Orders -> OrderRows] /\ level' \in [H!Orders -> Int]
      /\ h \in Customers => Untouched
      /\ h \in Fixtures /\ RankOfEvent(h) < level["probe"] => Untouched
      /\ h \in Fixtures /\ ~(RankOfEvent(h) < level["probe"]) =>
           rows'["probe"] = H!Effect(rows["probe"], H!Type[h]) /\ level'["probe"] = RankOfEvent(h)
  BY <1>2, Applied DEF Untouched
<1>5. ASSUME Quiet PROVE Quiet' /\ Untouched
  <2>1. \A i \in 1..n : queue[i] \in Customers
    BY <1>1, <1>5 DEF Quiet
  <2>2. h \in Customers
    BY <1>1, <2>1 DEF h
  <2>3. \A j \in 1..(n - 1) : queue'[j] \in Customers
    BY ONLY <2>1, <1>2, <1>1
  <2> QED BY <2>2, <2>3, <1>1, <1>4 DEF Quiet
<1>6. ASSUME NEW r, NEW l, Shown(r, l) PROVE Shown(r, l)'
  BY <1>5, <1>6 DEF Shown, Shows, Untouched
<1>7. ASSUME NEW e, Waits(e)
      PROVE  (h = e /\ Quiet') \/ (h \in Customers /\ Waits(e)')
  <2>1. PICK i \in 1..n : queue[i] = e /\ \A j \in 1..n : j # i => queue[j] \in Customers
    BY <1>1, <1>7 DEF Waits
  <2>2. CASE i = 1
    <3>1. \A j \in 1..(n - 1) : queue'[j] \in Customers
      BY ONLY <2>1, <2>2, <1>2, <1>1
    <3> QED BY <2>1, <2>2, <3>1, <1>1 DEF h, Quiet
  <2>3. CASE i # 1
    <3>1. i - 1 \in 1..(n - 1) /\ queue'[i - 1] = e
      BY ONLY <2>1, <2>3, <1>2, <1>1
    <3>2. \A j \in 1..(n - 1) : j # i - 1 => queue'[j] \in Customers
      BY ONLY <2>1, <2>3, <1>2, <1>1
    <3>3. h \in Customers
      BY <2>1, <2>3, <1>1 DEF h
    <3> QED BY <3>1, <3>2, <3>3, <1>1 DEF Waits
  <2> QED BY <2>2, <2>3
<1>8. ASSUME NEW e \in Fixtures, NEW r, NEW l \in Int, NEW s, NEW m \in Int,
             l <= RankOfEvent(e), RankOfEvent(e) = m, H!Effect(r, H!Type[e]) = s, Coming(e, r, l, s, m)
      PROVE  Coming(e, r, l, s, m)'
  <2>1. CASE Shown(s, m)
    BY <2>1, <1>6 DEF Coming
  <2>2. CASE Waits(e) /\ Shows(r, l)
    <3>1. CASE h = e /\ Quiet'
      <4>1. ~(RankOfEvent(h) < level["probe"])
        BY ONLY <3>1, <2>2, <1>8 DEF Shows
      <4>2. rows'["probe"] = s /\ level'["probe"] = m
        BY <4>1, <3>1, <2>2, <1>4, <1>8 DEF Shows
      <4> QED BY <3>1, <4>2 DEF Coming, Shown, Shows
    <3>2. CASE h \in Customers /\ Waits(e)'
      <4>1. rows'["probe"] = r /\ level'["probe"] = l
        BY <3>2, <2>2, <1>4 DEF Untouched, Shows
      <4> QED BY <3>2, <4>1 DEF Coming, Shows
    <3> QED BY <2>2, <3>1, <3>2, <1>7
  <2> QED BY <1>8, <2>1, <2>2 DEF Coming
<1>9. /\ \A e \in {"cap", "refcap"} : RankOfEvent(e) = 2 /\ H!Effect(H!NoOrder, H!Type[e]) = Paid
      /\ RankOfEvent("refund") = 3 /\ H!Effect(Paid, H!Type["refund"]) = Refunded
      /\ RankOfEvent("auth") = 1 /\ RankOfEvent("lifecap") = 2 /\ RankOfEvent("paid") = 2
      /\ {"cap", "refcap", "refund", "auth", "lifecap", "paid"} \subseteq Fixtures
  BY AuditConstants, Effects DEF RankOfEvent, Fixtures
<1>10. ASSUME NEW e \in {"cap", "refcap"}, Coming(e, H!NoOrder, 0, Paid, 2)
       PROVE  Coming(e, H!NoOrder, 0, Paid, 2)'
  BY <1>8, <1>9, <1>10
<1>11. ASSUME Coming("refund", Paid, 2, Refunded, 3)
       PROVE  Coming("refund", Paid, 2, Refunded, 3)'
  BY <1>8, <1>9, <1>11
<1>12. rows["probe"] \in OrderRows
  BY DEF AuditTypes, H!Orders
<1>13. ASSUME Confirmed PROVE Confirmed'
  <2>1. \A i \in 1..n : queue[i] \in Late
    BY <1>1, <1>13 DEF Confirmed
  <2>2. h \in Late /\ \A j \in 1..(n - 1) : queue'[j] \in Late
    BY <2>1, <1>2, <1>1 DEF h
  <2>3. rows'["probe"].status = "paid" /\ level'["probe"] = 2
    <3>1. CASE h \in Customers \/ h = "auth"
      BY <3>1, <1>4, <1>9, <1>13 DEF Untouched, Confirmed
    <3>2. CASE h = "lifecap"
      <4>1. rows'["probe"] = H!Effect(rows["probe"], "captured") /\ level'["probe"] = 2
        BY <3>2, <1>4, <1>9, <1>13, AuditConstants DEF Confirmed
      <4> QED BY <4>1, <1>12, Effects
    <3> QED BY <2>2, <3>1, <3>2 DEF Late
  <2> QED BY <2>2, <2>3, <1>1 DEF Confirmed
<1>14. ASSUME Confirming PROVE Confirmed' \/ Confirming'
  <2>1. PICK i \in 1..n : /\ queue[i] = "paid"
                          /\ \A j \in 1..n : j < i => queue[j] \in Customers
                          /\ \A j \in 1..n : j > i => queue[j] \in Late
    BY <1>1, <1>14 DEF Confirming
  <2>2. level["probe"] = 0
    BY <1>14 DEF Confirming
  <2>3. CASE i = 1
    <3>1. h = "paid" /\ \A j \in 1..(n - 1) : queue'[j] \in Late
      BY <2>1, <2>3, <1>1, <1>2 DEF h
    <3>2. rows'["probe"] = H!Effect(rows["probe"], "order_paid") /\ level'["probe"] = 2
      BY <2>2, <3>1, <1>4, <1>9, AuditConstants
    <3>3. rows'["probe"].status = "paid"
      BY <3>2, <1>12, Effects
    <3> QED BY <3>1, <3>2, <3>3, <1>1 DEF Confirmed
  <2>4. CASE i # 1
    <3>1. i - 1 \in 1..(n - 1) /\ queue'[i - 1] = "paid" /\ h \in Customers
      BY <2>1, <2>4, <1>1, <1>2 DEF h
    <3>2. /\ \A j \in 1..(n - 1) : j < i - 1 => queue'[j] \in Customers
          /\ \A j \in 1..(n - 1) : j > i - 1 => queue'[j] \in Late
      BY ONLY <2>1, <2>4, <1>2, <1>1
    <3>3. level'["probe"] = 0
      BY <2>2, <3>1, <1>4 DEF Untouched
    <3> QED BY <3>1, <3>2, <3>3, <1>1 DEF Confirming
  <2> QED BY <2>3, <2>4
<1> QED BY <1>2, <1>4, <1>6, <1>10, <1>11, <1>13, <1>14

(* Where the script stands still, a place's condition stays. *)
LEMMA PlacesStay ==
  ASSUME HonestPlaces, at' = at, secret' = secret, note' = note,
         \A e \in Fixtures : e \in seen' <=> e \in seen,
         \A r, l : Shown(r, l) => Shown(r, l)',
         \A e \in {"cap", "refcap"} :
           Coming(e, H!NoOrder, 0, Paid, 2) => Coming(e, H!NoOrder, 0, Paid, 2)',
         Coming("refund", Paid, 2, Refunded, 3) => Coming("refund", Paid, 2, Refunded, 3)',
         Confirmed => Confirmed',
         Confirming => Confirmed' \/ Confirming'
  PROVE  HonestPlaces'
<1>1. /\ Nothing => Nothing'
      /\ Captured => Captured'
      /\ Shown(Refunded, 3) => Shown(Refunded, 3)'
  BY DEF Nothing, Captured, H!NoOrder, Paid, Refunded
<1>2. /\ Unsent => Unsent'
      /\ "refund" \notin seen => "refund" \notin seen'
  BY DEF Unsent, Fixtures
<1>3. /\ Capturing("cap") => Capturing("cap")'
      /\ Capturing("refcap") => Capturing("refcap")'
      /\ Refunding => Refunding'
  BY DEF Capturing, Refunding, Fixtures, H!NoOrder, Paid, Refunded
<1> QED BY <1>1, <1>2, <1>3 DEF HonestPlaces

LEMMA StepWorker == AuditInv /\ H!Worker => AuditInv'
<1> SUFFICES ASSUME AuditInv, H!Worker PROVE AuditInv'
  OBVIOUS
<1>1. AuditTypes /\ ScriptIsTail /\ VerdictsSoFar /\ kind = "protected"
  BY DEF AuditInv, H!Worker
<1>2. UNCHANGED <<kind, secret, seen, watched, acked, script, note, report, trouble, checks>>
  BY DEF H!Worker
<1>3. at' = at /\ ScriptIsTail' /\ VerdictsSoFar'
  BY <1>1, <1>2 DEF at, Place, ScriptIsTail, VerdictsSoFar, Sound, Heard, Honest
<1>4. AuditTypes'
  BY <1>1, <1>2, WorkedOff DEF AuditTypes
<1>5. Honest /\ Honest' /\ (Sound' <=> Sound)
  BY <1>1, <1>2 DEF Sound, Honest
<1>6. ASSUME Sound PROVE HonestPlaces'
  BY <1>1, <1>2, <1>3, <1>6, WorkedOff, PlacesStay DEF AuditInv
<1> QED BY <1>3, <1>4, <1>5, <1>6 DEF AuditInv

LEMMA StepTraffic ==
  ASSUME AuditInv, NEW c \in {"realcap", "realref"}, H!Traffic(c)
  PROVE  AuditInv'
<1>1. AuditTypes /\ ScriptIsTail /\ VerdictsSoFar /\ c \in Customers /\ c \in H!Events
  BY AuditConstants DEF AuditInv, Customers
<1>2. /\ UNCHANGED <<kind, secret, watched, script, note, report, trouble, checks>>
      /\ H!Receive(c) /\ acked' \subseteq H!Events
  BY <1>1 DEF H!Traffic, AuditTypes
<1>3. at' = at /\ ScriptIsTail' /\ VerdictsSoFar'
  BY <1>1, <1>2 DEF at, Place, ScriptIsTail, VerdictsSoFar, Sound, Heard, Honest
<1>4. /\ rows' \in [H!Orders -> OrderRows] /\ level' \in [H!Orders -> Int] /\ Untouched
      /\ queue' = queue \/ (kind = "protected" /\ queue' = Append(queue, c))
      /\ seen' = seen \/ seen' = seen \cup {c}
  <2>1. CASE H!Refuses(c) \/ (kind # "broken" /\ c \in seen)
    BY <1>1, <1>2, <2>1 DEF H!Receive, AuditTypes, Untouched
  <2>2. CASE ~(H!Refuses(c) \/ (kind # "broken" /\ c \in seen)) /\ kind = "protected"
    BY <1>1, <1>2, <2>2 DEF H!Receive, AuditTypes, Untouched
  <2>3. CASE ~(H!Refuses(c) \/ (kind # "broken" /\ c \in seen)) /\ kind # "protected"
    <3>1. /\ H!Apply(c) /\ queue' = queue
          /\ seen' = seen \/ seen' = seen \cup {c}
      BY <1>2, <2>3 DEF H!Receive
    <3> QED BY <1>1, <3>1, Applied DEF Untouched
  <2> QED BY <2>1, <2>2, <2>3
<1>5. /\ queue \in Seq(H!Events) /\ queue' \in Seq(H!Events)
      /\ queue' = queue \/ queue' = Append(queue, c)
  <2>1. queue \in Seq(H!Events)
    BY <1>1 DEF AuditTypes
  <2>2. CASE queue' = queue
    BY <2>1, <2>2
  <2>3. CASE queue' = Append(queue, c)
    BY <1>1, <2>1, <2>3
  <2> QED BY <1>4, <2>1, <2>2, <2>3
<1>6. /\ Quiet => Quiet'
      /\ \A e, r, l : Waits(e) /\ Shows(r, l) => (Waits(e) /\ Shows(r, l))'
      /\ \A r, l : Shows(r, l) => Shows(r, l)'
      /\ Confirmed => Confirmed'
      /\ Confirming => Confirming'
  BY <1>1, <1>4, <1>5, PassedBy
<1>7. AuditTypes'
  BY <1>1, <1>2, <1>4, <1>5, <1>6 DEF AuditTypes
<1>8. ASSUME Sound, Honest PROVE HonestPlaces'
  <2>1. \A e \in Fixtures : e \in seen' <=> e \in seen
    BY <1>1, <1>4 DEF Fixtures, Customers
  <2>2. \A r, l : Shown(r, l) => Shown(r, l)'
    BY <1>6 DEF Shown
  <2>3. \A e, r, l, s, m : Coming(e, r, l, s, m) => Coming(e, r, l, s, m)'
    BY <1>6, <2>2 DEF Coming
  <2> QED BY <1>2, <1>3, <1>6, <1>8, <2>1, <2>2, <2>3, PlacesStay DEF AuditInv
<1>9. ASSUME ~Honest, Heard PROVE BrokenPlaces'
  BY <1>2, <1>3, <1>4, <1>6, <1>9 DEF AuditInv, BrokenPlaces, Reporting, Untouched
<1> QED BY <1>2, <1>3, <1>7, <1>8, <1>9 DEF AuditInv, Sound, Heard, Honest

LEMMA StepHealth == AuditInv /\ H!Health => AuditInv'
<1> SUFFICES ASSUME AuditInv, H!Health PROVE AuditInv'
  OBVIOUS
<1>1. AuditTypes
  BY DEF AuditInv
<1>2. at' = 33 /\ ScriptIsTail' /\ script' \in Seq(ScriptSteps)
  BY <1>1, FirstPlace
<1>3. /\ UNCHANGED <<kind, secret, rows, level, seen, queue, watched, acked>>
      /\ checks' = checks + 1 /\ note' = [H!NoNote EXCEPT !.watched = watched] /\ report' = H!NoReport
      /\ trouble' = {}
  BY DEF H!Health, H!database
<1>4. note' \in [single : OrderRows, refused : BOOLEAN, watched : BOOLEAN]
  BY <1>1, <1>3, Effects DEF H!NoNote, AuditTypes
<1>5. /\ report' \in [H!Probes \cup {"protected"} -> {"none", "pass", "fail", "skipped"}]
      /\ \A p \in H!Probes \cup {"protected"} : report'[p] = "none"
  BY <1>3 DEF H!NoReport
<1>6. AuditTypes'
  BY <1>1, <1>2, <1>3, <1>4, <1>5 DEF AuditTypes, Quiet
<1>7. VerdictsSoFar'
  BY <1>5 DEF VerdictsSoFar, H!Probes
<1>8. HonestPlaces' /\ BrokenPlaces'
  BY ONLY <1>2 DEF HonestPlaces, BrokenPlaces
<1> QED BY <1>2, <1>6, <1>7, <1>8 DEF AuditInv

LEMMA StepReset == AuditInv /\ H!Reset => AuditInv'
<1> SUFFICES ASSUME AuditInv, H!Reset PROVE AuditInv'
  OBVIOUS
<1>1. AuditTypes /\ ScriptIsTail /\ VerdictsSoFar
  BY DEF AuditInv
<1>2. H!Following("reset")
  BY DEF H!Reset
<1>3. /\ at \in {2, 8, 12, 18, 21, 28, 33} /\ at' = at - 1
      /\ script' \in Seq(ScriptSteps) /\ ScriptIsTail'
      /\ checks > 0 /\ UNCHANGED <<kind, secret, acked, checks>>
  <2>1. at \in 1..33 /\ Places[at].op = "reset"
    BY <1>1, <1>2, NextPlace
  <2>2. at \in {2, 8, 12, 18, 21, 28, 33}
    BY ONLY <2>1, PlacesAre
  <2> QED BY <1>1, <1>2, <2>2, NextPlace
<1>4. /\ rows' = [o \in H!Orders |-> H!NoOrder] /\ level' = [o \in H!Orders |-> 0]
      /\ seen' = {} /\ queue' = <<>> /\ watched' = FALSE /\ UNCHANGED <<note, report, trouble>>
  BY DEF H!Reset, H!KeptByReset
<1>5. Nothing' /\ Unsent'
  BY <1>4 DEF Nothing, Shown, Shows, Quiet, Unsent, H!Orders
<1>6. AuditTypes'
  <2>1. rows' \in [H!Orders -> OrderRows] /\ level' \in [H!Orders -> Int]
    BY <1>4, Effects
  <2>2. queue' \in Seq(H!Events) /\ Quiet'
    BY <1>4 DEF Quiet
  <2> QED BY <1>1, <1>3, <1>4, <2>1, <2>2 DEF AuditTypes
<1>7. VerdictsSoFar'
  BY <1>1, <1>3, <1>4 DEF VerdictsSoFar, Sound, Heard, Honest
<1>8. ASSUME Sound, Honest PROVE HonestPlaces'
  <2>1. at = 8 => note.single = Paid
    BY <1>8 DEF AuditInv, HonestPlaces
  <2> QED BY ONLY <1>3, <1>4, <1>5, <2>1 DEF HonestPlaces
<1>9. ASSUME ~Honest, Heard PROVE BrokenPlaces'
  <2>1. Shows(H!NoOrder, 0)'
    BY <1>5 DEF Nothing, Shown
  <2>2. BrokenPlaces
    BY <1>9 DEF AuditInv
  <2> QED BY ONLY <1>3, <1>4, <2>1, <2>2 DEF BrokenPlaces, Reporting
<1> QED BY <1>3, <1>4, <1>6, <1>7, <1>8, <1>9 DEF AuditInv, Sound, Heard, Honest

LEMMA StepSettle == AuditInv /\ H!Settle => AuditInv'
<1> SUFFICES ASSUME AuditInv, H!Settle PROVE AuditInv'
  OBVIOUS
<1>1. AuditTypes /\ ScriptIsTail /\ VerdictsSoFar
  BY DEF AuditInv
<1>2. /\ H!Following("settle")
      /\ trouble' = IF H!Waiting THEN trouble \cup {"early"} ELSE trouble
  BY DEF H!Settle
<1>3. /\ at \in {4, 10, 14, 23, 26, 30} /\ at' = at - 1
      /\ script' \in Seq(ScriptSteps) /\ ScriptIsTail'
      /\ checks > 0 /\ UNCHANGED <<kind, secret, acked, checks>>
  <2>1. at \in 1..33 /\ Places[at].op = "settle"
    BY <1>1, <1>2, NextPlace
  <2>2. at \in {4, 10, 14, 23, 26, 30}
    BY ONLY <2>1, PlacesAre
  <2> QED BY <1>1, <1>2, <2>2, NextPlace
<1>4. UNCHANGED <<rows, level, seen, queue, watched, note, report>>
  BY DEF H!Settle, H!database
<1>5. AuditTypes' /\ VerdictsSoFar'
  <2>1. /\ AuditTypes'
        /\ Sound' => Sound
        /\ ~Heard => ~Heard'
    BY <1>1, <1>2, <1>3, <1>4 DEF AuditTypes, Sound, Heard, Honest, Quiet
  <2> QED BY <1>1, <1>3, <1>4, <2>1 DEF VerdictsSoFar, Honest
\* nothing was left behind
<1>6. ASSUME Sound' PROVE Sound /\ Quiet /\ ~Confirming /\ \A e \in Fixtures : ~Waits(e)
  <2>0. ~H!Waiting /\ Sound
    BY <1>2, <1>3, <1>6 DEF Sound, Honest
  <2>1. Quiet
    <3>1. \A i \in 1..Len(queue) : queue[i] \in H!Events /\ H!OrderOf(queue[i]) # "probe"
      BY <1>1, <2>0 DEF AuditTypes, H!Waiting
    <3> QED BY <3>1, AuditConstants DEF Quiet
  <2>2. ~Confirming
    BY <2>1 DEF Quiet, Confirming, Customers
  <2>3. \A e \in Fixtures : ~Waits(e)
    BY <2>1 DEF Quiet, Waits, Fixtures, Customers
  <2> QED BY <2>0, <2>1, <2>2, <2>3
<1>7. ASSUME Sound' PROVE HonestPlaces'
  <2>1. HonestPlaces
    BY <1>6, <1>7 DEF AuditInv
  <2>2. /\ Capturing("cap") => Captured
        /\ Capturing("refcap") => Captured
        /\ Refunding => Shown(Refunded, 3)
        /\ Confirmed \/ Confirming => Confirmed
    BY <1>6, <1>7 DEF Capturing, Refunding, Coming, Captured, Fixtures
  <2>3. /\ Captured => Captured'
        /\ Shown(Refunded, 3) => Shown(Refunded, 3)'
        /\ Confirmed => Confirmed'
    BY <1>4 DEF Captured, Shown, Shows, Quiet, Confirmed, Paid, Refunded
  <2> QED BY ONLY <1>3, <1>4, <2>1, <2>2, <2>3 DEF HonestPlaces
<1>8. ASSUME ~Honest, Heard PROVE BrokenPlaces'
  <2>1. BrokenPlaces
    BY <1>8 DEF AuditInv
  <2> QED BY ONLY <1>3, <1>4, <2>1 DEF BrokenPlaces, Reporting
<1> QED BY <1>2, <1>3, <1>5, <1>7, <1>8 DEF AuditInv, Heard, Honest

LEMMA StepRemember == AuditInv /\ H!Remember => AuditInv'
<1> SUFFICES ASSUME AuditInv, H!Remember PROVE AuditInv'
  OBVIOUS
<1>1. AuditTypes /\ ScriptIsTail /\ VerdictsSoFar
  BY DEF AuditInv
<1>2. H!Following("note")
  BY DEF H!Remember
<1>3. /\ at = 9 /\ at' = 8
      /\ script' \in Seq(ScriptSteps) /\ ScriptIsTail'
      /\ checks > 0 /\ UNCHANGED <<kind, secret, acked, checks>>
  <2>1. at \in 1..33 /\ Places[at].op = "note"
    BY <1>1, <1>2, NextPlace
  <2>2. at = 9
    BY ONLY <2>1, PlacesAre
  <2> QED BY <1>1, <1>2, <2>2, NextPlace
<1>4. /\ UNCHANGED <<rows, level, seen, queue, watched, report, trouble>>
      /\ note' = [note EXCEPT !.single = rows["probe"]]
  BY DEF H!Remember, H!database
<1>5. rows["probe"] \in OrderRows /\ note \in [single : OrderRows, refused : BOOLEAN, watched : BOOLEAN]
  BY <1>1 DEF AuditTypes, H!Orders
<1>6. note' \in [single : OrderRows, refused : BOOLEAN, watched : BOOLEAN] /\ note'.single = rows["probe"]
  BY ONLY <1>4, <1>5
<1>7. AuditTypes' /\ VerdictsSoFar'
  BY <1>1, <1>3, <1>4, <1>6 DEF AuditTypes, VerdictsSoFar, Sound, Heard, Honest, Quiet
<1>8. ASSUME Sound, Honest PROVE HonestPlaces'
  <2>1. rows["probe"] = Paid
    BY <1>3, <1>8 DEF AuditInv, HonestPlaces, Captured, Shown, Shows
  <2> QED BY <1>3, <1>6, <2>1 DEF HonestPlaces, Paid
<1>9. ASSUME ~Honest, Heard PROVE BrokenPlaces'
  <2>1. BrokenPlaces
    BY <1>9 DEF AuditInv
  <2> QED BY ONLY <1>3, <1>4, <2>1 DEF BrokenPlaces, Reporting
<1> QED BY <1>3, <1>4, <1>7, <1>8, <1>9 DEF AuditInv, Sound, Heard, Honest

(* What Judge writes for one probe. *)
Verdict(p) ==
  IF p = "tampered" /\ ~secret THEN "skipped" ELSE IF H!Holds(p) THEN "pass" ELSE "fail"

LEMMA StepJudge == AuditInv /\ H!Judge => AuditInv'
<1> SUFFICES ASSUME AuditInv, H!Judge PROVE AuditInv'
  OBVIOUS
<1>1. AuditTypes /\ ScriptIsTail /\ VerdictsSoFar /\ secret \in BOOLEAN
  BY DEF AuditInv, AuditTypes
<1>2. H!Following("check")
  BY DEF H!Judge
<1> DEFINE p == Head(script).arg
<1>3. /\ at \in {3, 13, 19, 22, 29}
      /\ at' = IF ~secret /\ at = 22 THEN 19 ELSE at - 1
      /\ script' \in Seq(ScriptSteps) /\ ScriptIsTail'
      /\ checks > 0 /\ UNCHANGED <<kind, secret, acked, checks>>
      /\ p = Places[at].arg
  <2>1. at \in 1..33 /\ Places[at].op = "check"
    BY <1>1, <1>2, NextPlace
  <2>2. at \in {3, 13, 19, 22, 29}
    BY ONLY <2>1, PlacesAre
  <2> QED BY <1>1, <1>2, <2>2, NextPlace
<1>4. \/ at = 3 /\ p = "timeout"
      \/ at = 13 /\ p = "order"
      \/ at = 19 /\ p = "tampered"
      \/ at = 22 /\ p = "refund"
      \/ at = 29 /\ p = "duplicate"
  <2>1. /\ Places[3].arg = "timeout" /\ Places[13].arg = "order" /\ Places[19].arg = "tampered"
        /\ Places[22].arg = "refund" /\ Places[29].arg = "duplicate"
    BY PlacesAre
  <2> HIDE DEF p
  <2> QED BY ONLY <1>3, <2>1
<1>5. /\ UNCHANGED <<rows, level, seen, queue, watched, note, trouble>>
      /\ report' = [report EXCEPT ![p] = Verdict(p)]
  BY DEF H!Judge, H!database, Verdict
<1> HIDE DEF p
<1>6. /\ report \in [H!Probes \cup {"protected"} -> {"none", "pass", "fail", "skipped"}]
      /\ p \in H!Probes /\ Verdict(p) \in {"pass", "fail", "skipped"}
  BY <1>1, <1>4 DEF AuditTypes, H!Probes, Verdict
<1>7. /\ report' \in [H!Probes \cup {"protected"} -> {"none", "pass", "fail", "skipped"}]
      /\ report'[p] = Verdict(p)
      /\ \A q \in H!Probes \cup {"protected"} : q # p => report'[q] = report[q]
  BY ONLY <1>5, <1>6
<1>8. AuditTypes'
  BY <1>1, <1>3, <1>5, <1>7 DEF AuditTypes, Quiet
<1>9. ASSUME Sound PROVE Verdict(p) # "fail"
  <2>1. HonestPlaces
    BY <1>9 DEF AuditInv
  <2>2. CASE at = 29
    <3>1. rows["probe"] = Paid /\ p = "duplicate"
      BY <2>1, <2>2, <1>4 DEF HonestPlaces, Captured, Shown, Shows
    <3> QED BY <3>1 DEF Verdict, H!Holds, Paid
  <2>3. CASE at = 22
    <3>1. rows["probe"] = Refunded /\ p = "refund"
      BY <2>1, <2>3, <1>4 DEF HonestPlaces, Shown, Shows
    <3> QED BY <3>1 DEF Verdict, H!Holds, Refunded
  <2>4. CASE at = 19
    <3>1. p = "tampered" /\ (secret => rows["probe"] = H!NoOrder /\ note.refused)
      BY <2>1, <2>4, <1>4 DEF HonestPlaces, Nothing, Shown, Shows
    <3> QED BY <3>1, <1>1 DEF Verdict, H!Holds, H!NoOrder
  <2>5. CASE at = 13
    <3>1. rows["probe"].status = "paid" /\ p = "order"
      BY <2>1, <2>5, <1>4 DEF HonestPlaces, Confirmed
    <3> QED BY <3>1 DEF Verdict, H!Holds
  <2>6. CASE at = 3
    <3>1. rows["probe"] = Paid /\ note.single = Paid /\ p = "timeout"
      BY <2>1, <2>6, <1>4 DEF HonestPlaces, Captured, Shown, Shows
    <3> QED BY <3>1 DEF Verdict, H!Holds
  <2> QED BY <1>4, <2>2, <2>3, <2>4, <2>5, <2>6
<1>10. VerdictsSoFar'
  <2>1. "tampered" \in H!Probes /\ p # "protected" /\ (~secret /\ p = "tampered" => Verdict(p) = "skipped")
    BY <1>4 DEF H!Probes, Verdict
  <2>2. (Honest' <=> Honest) /\ (Sound' <=> Sound) /\ (Heard' <=> Heard)
    BY <1>3, <1>5 DEF Honest, Sound, Heard
  <2> QED BY ONLY <1>1, <1>3, <1>6, <1>7, <1>9, <2>1, <2>2 DEF VerdictsSoFar
<1>11. HonestPlaces'
  BY ONLY <1>1, <1>3 DEF HonestPlaces
<1>12. ASSUME ~Honest, Heard PROVE BrokenPlaces'
  <2>1. BrokenPlaces
    BY <1>12 DEF AuditInv
  <2>2. at = 29 => Verdict(p) = "fail"
    <3>1. at = 29 => rows["probe"].count = 2 /\ p = "duplicate"
      BY <2>1, <1>4 DEF BrokenPlaces
    <3> QED BY <3>1 DEF Verdict, H!Holds
  <2>3. at = 19 /\ secret => Verdict(p) = "fail"
    <3>1. at = 19 /\ secret => ~note.refused /\ p = "tampered"
      BY <2>1, <1>4 DEF BrokenPlaces
    <3> QED BY <3>1 DEF Verdict, H!Holds
  <2>4. "duplicate" \in H!Probes /\ "tampered" \in H!Probes
    BY DEF H!Probes
  <2>5. at' <= 28 => report'["duplicate"] = "fail"
    <3>1. at = 29 => report'["duplicate"] = "fail"
      BY ONLY <1>4, <1>7, <2>2
    <3>2. at # 29 => p # "duplicate" /\ report["duplicate"] = "fail"
      BY ONLY <1>3, <1>4, <2>1 DEF BrokenPlaces, Reporting
    <3> QED BY ONLY <3>1, <3>2, <1>7, <2>4
  <2>6. at' <= 18 /\ secret => report'["tampered"] = "fail"
    <3>1. at = 19 /\ secret => report'["tampered"] = "fail"
      BY ONLY <1>4, <1>7, <2>3
    <3>2. at < 19 /\ secret => p # "tampered" /\ report["tampered"] = "fail"
      BY ONLY <1>3, <1>4, <2>1 DEF BrokenPlaces, Reporting
    <3> QED BY ONLY <3>1, <3>2, <1>3, <1>7, <2>4
  <2>7. secret' = secret /\ checks' = checks /\ (at' = 19 => ~secret)
        /\ at' \notin {32, 31, 30, 29}
    BY ONLY <1>1, <1>3
  <2> QED BY ONLY <2>5, <2>6, <2>7 DEF BrokenPlaces
<1> QED BY <1>3, <1>5, <1>8, <1>10, <1>11, <1>12 DEF AuditInv, Sound, Heard, Honest

LEMMA StepReconcile == AuditInv /\ H!Reconcile => AuditInv'
<1> SUFFICES ASSUME AuditInv, H!Reconcile PROVE AuditInv'
  OBVIOUS
<1>1. AuditTypes /\ ScriptIsTail /\ VerdictsSoFar
  BY DEF AuditInv
<1>2. H!Following("reconcile")
  BY DEF H!Reconcile
<1>3. /\ at = 1 /\ at' = 0
      /\ script' \in Seq(ScriptSteps) /\ ScriptIsTail'
      /\ checks > 0 /\ UNCHANGED <<kind, secret, acked, checks>>
  <2>1. at \in 1..33 /\ Places[at].op = "reconcile"
    BY <1>1, <1>2, NextPlace
  <2>2. at = 1
    BY ONLY <2>1, PlacesAre
  <2> QED BY <1>1, <1>2, <2>2, NextPlace
<1>4. /\ UNCHANGED <<rows, level, watched, note, trouble>>
      /\ queue' = queue \/ queue' = Append(queue, "recovered")
  BY DEF H!Reconcile
<1>5. PICK answered \in BOOLEAN :
        report' = [report EXCEPT !["protected"] =
                     IF answered /\ note.watched /\ \A p \in H!Probes : report[p] = "pass"
                     THEN "pass" ELSE "fail"]
  BY DEF H!Reconcile
<1>6. report \in [H!Probes \cup {"protected"} -> {"none", "pass", "fail", "skipped"}]
  BY <1>1 DEF AuditTypes
<1>7. /\ report' \in [H!Probes \cup {"protected"} -> {"none", "pass", "fail", "skipped"}]
      /\ \A p \in H!Probes : report'[p] = report[p]
      /\ report'["protected"] = "pass" => \A p \in H!Probes : report[p] = "pass"
  BY ONLY <1>5, <1>6 DEF H!Probes
<1>8. AuditTypes'
  <2>1. "recovered" \in Customers /\ "recovered" \in H!Events /\ Untouched /\ queue \in Seq(H!Events)
    BY <1>1, <1>4, AuditConstants DEF Customers, Untouched, AuditTypes
  <2>2. queue' \in Seq(H!Events) /\ (Quiet => Quiet')
    BY <2>1, <1>4, PassedBy
  <2> QED BY <1>1, <1>3, <1>4, <1>7, <2>2 DEF AuditTypes
<1>9. "duplicate" \in H!Probes /\ "tampered" \in H!Probes
  BY DEF H!Probes
<1>10. ASSUME ~Honest, Heard
       PROVE  report["duplicate"] = "fail" /\ (secret => report["tampered"] = "fail")
  BY <1>3, <1>10 DEF AuditInv, BrokenPlaces, Reporting
<1>11. VerdictsSoFar'
  <2>1. (Honest' <=> Honest) /\ (Sound' <=> Sound) /\ (Heard' <=> Heard)
    BY <1>3, <1>4 DEF Honest, Sound, Heard
  <2> QED BY ONLY <1>1, <1>3, <1>7, <1>9, <1>10, <2>1 DEF VerdictsSoFar
<1>12. HonestPlaces' /\ (~Honest /\ Heard => BrokenPlaces')
  BY ONLY <1>3, <1>7, <1>9, <1>10 DEF HonestPlaces, BrokenPlaces
<1> QED BY <1>3, <1>4, <1>8, <1>11, <1>12 DEF AuditInv, Sound, Heard, Honest

(* What a delivery of a fixture's event comes to. *)
LEMMA Received ==
  ASSUME AuditTypes, NEW e \in Fixtures, H!Receive(e)
  PROVE  /\ rows' \in [H!Orders -> OrderRows] /\ level' \in [H!Orders -> Int]
         /\ queue' \in Seq(H!Events)
         /\ kind # "protected" => Quiet'
         /\ Honest /\ e \in seen => UNCHANGED <<rows, level, seen, queue>>
         /\ Honest /\ secret /\ e = "forged" => UNCHANGED <<rows, level, seen, queue>>
         /\ Honest /\ e \notin seen /\ e # "forged" =>
              /\ seen' = seen \cup {e}
              /\ \/ queue' = Append(queue, e) /\ UNCHANGED <<rows, level>>
                 \/ queue' = queue /\ Quiet /\ H!Apply(e)
         /\ ~Honest => H!Apply(e) /\ UNCHANGED <<seen, queue>>
<1>1. /\ rows \in [H!Orders -> OrderRows] /\ level \in [H!Orders -> Int] /\ queue \in Seq(H!Events)
      /\ kind # "protected" => Quiet
      /\ e \in H!Events
  BY AuditConstants DEF AuditTypes
<1>2. H!Refuses(e) <=> e = "forged" /\ secret /\ Honest
  BY DEF H!Refuses, Honest
<1>3. CASE H!Refuses(e) \/ (kind # "broken" /\ e \in seen)
  <2>1. UNCHANGED <<rows, level, seen, queue>>
    BY <1>3 DEF H!Receive
  <2>2. Quiet => Quiet'
    BY <2>1 DEF Quiet
  <2> QED BY <1>1, <1>2, <1>3, <2>1, <2>2 DEF Honest
<1>4. CASE ~(H!Refuses(e) \/ (kind # "broken" /\ e \in seen)) /\ kind = "protected"
  <2>1. seen' = seen \cup {e} /\ queue' = Append(queue, e) /\ UNCHANGED <<rows, level>>
    BY <1>4 DEF H!Receive
  <2> QED BY <1>1, <1>2, <1>4, <2>1 DEF Honest
<1>5. CASE ~(H!Refuses(e) \/ (kind # "broken" /\ e \in seen)) /\ kind # "protected"
  <2>1. /\ H!Apply(e) /\ queue' = queue
        /\ seen' = IF kind = "correct" THEN seen \cup {e} ELSE seen
    BY <1>5 DEF H!Receive
  <2>2. rows' \in [H!Orders -> OrderRows] /\ level' \in [H!Orders -> Int]
    BY <1>1, <2>1, Applied
  <2>3. kind = "correct" <=> Honest
    BY <1>5 DEF AuditTypes, H!Kinds, Honest
  <2>4. Quiet => Quiet'
    BY <2>1 DEF Quiet
  <2> QED BY <1>1, <1>2, <1>5, <2>1, <2>2, <2>3, <2>4 DEF Honest
<1> QED BY <1>3, <1>4, <1>5

(* A first event waits behind customers' events only, or has had its effect. *)
LEMMA Sent ==
  ASSUME AuditTypes, Honest, NEW e \in Fixtures, e # "forged", e \notin seen, H!Receive(e),
         NEW r, NEW l \in Int, NEW s, NEW m \in Int, l <= RankOfEvent(e), RankOfEvent(e) = m,
         H!Effect(r, H!Type[e]) = s, Shown(r, l)
  PROVE  e \in seen' /\ Coming(e, r, l, s, m)'
<1>1. seen' = seen \cup {e} /\ queue \in Seq(H!Events) /\ e \in H!Events
  BY Received, AuditConstants DEF AuditTypes
<1>2. CASE queue' = Append(queue, e) /\ UNCHANGED <<rows, level>>
  <2>1. PICK n \in Nat : n = Len(queue) /\ Len(queue') = n + 1
    BY <1>1, <1>2
  <2>2. queue'[n + 1] = e /\ \A i \in 1..n : queue'[i] = queue[i]
    BY <1>1, <1>2, <2>1
  <2>3. \A i \in 1..n : queue[i] \in Customers
    BY <2>1 DEF Shown, Quiet
  <2>4. n + 1 \in 1..(n + 1) /\ \A j \in 1..(n + 1) : j # n + 1 => queue'[j] \in Customers
    BY ONLY <2>1, <2>2, <2>3
  <2>5. Waits(e)'
    BY <2>1, <2>2, <2>4 DEF Waits
  <2>6. Shows(r, l)'
    BY <1>2 DEF Shown, Shows
  <2> QED BY <1>1, <2>5, <2>6 DEF Coming
<1>3. CASE queue' = queue /\ Quiet /\ H!Apply(e)
  <2>1. rows["probe"] = r /\ level["probe"] = l
    BY DEF Shown, Shows
  <2>2. ~(RankOfEvent(e) < level["probe"])
    BY ONLY <2>1, l \in Int, m \in Int, l <= RankOfEvent(e), RankOfEvent(e) = m
  <2>3. rows'["probe"] = s /\ level'["probe"] = m
    BY <1>1, <1>3, <2>1, <2>2, Applied
  <2>4. Quiet'
    BY <1>3 DEF Quiet
  <2> QED BY <1>1, <2>3, <2>4 DEF Coming, Shown, Shows
<1> QED BY <1>2, <1>3, Received

(* order.paid first, and what it outranks after it. *)
LEMMA SentFirst ==
  ASSUME AuditTypes, Honest, "paid" \notin seen, H!Receive("paid"), Nothing
  PROVE  (Confirmed \/ Confirming)'
<1>1. /\ "paid" \in Fixtures /\ "paid" \in H!Events /\ H!Type["paid"] = "order_paid"
      /\ RankOfEvent("paid") = 2 /\ queue \in Seq(H!Events) /\ rows["probe"] \in OrderRows
  BY AuditConstants, Effects DEF AuditTypes, Fixtures, RankOfEvent, H!Orders
<1>2. Quiet /\ level["probe"] = 0
  BY DEF Nothing, Shown, Shows
<1>3. CASE queue' = Append(queue, "paid") /\ UNCHANGED <<rows, level>>
  <2>1. PICK n \in Nat : n = Len(queue) /\ Len(queue') = n + 1
    BY <1>1, <1>3
  <2>2. queue'[n + 1] = "paid" /\ \A i \in 1..n : queue'[i] = queue[i]
    BY <1>1, <1>3, <2>1
  <2>3. \A i \in 1..n : queue[i] \in Customers
    BY <1>2, <2>1 DEF Quiet
  <2>4. /\ n + 1 \in 1..(n + 1)
        /\ \A j \in 1..(n + 1) : j < n + 1 => queue'[j] \in Customers
        /\ \A j \in 1..(n + 1) : ~(j > n + 1)
    BY ONLY <2>1, <2>2, <2>3
  <2>5. Confirming'
    BY <1>2, <1>3, <2>1, <2>2, <2>4 DEF Confirming
  <2> QED BY <2>5
<1>4. CASE queue' = queue /\ Quiet /\ H!Apply("paid")
  <2>1. rows'["probe"] = H!Effect(rows["probe"], "order_paid") /\ level'["probe"] = 2
    <3>1. ~(RankOfEvent("paid") < level["probe"])
      BY ONLY <1>1, <1>2
    <3> QED BY <1>1, <1>4, <3>1, Applied
  <2>2. rows'["probe"].status = "paid"
    BY <1>1, <2>1, Effects
  <2>3. \A i \in 1..Len(queue') : queue'[i] \in Late
    BY <1>4 DEF Quiet, Late
  <2> QED BY <2>1, <2>2, <2>3 DEF Confirmed
<1> QED BY <1>1, <1>3, <1>4, Received

LEMMA SentLate ==
  ASSUME AuditTypes, Honest, NEW e \in {"lifecap", "auth"}, H!Receive(e), Confirmed \/ Confirming
  PROVE  (Confirmed \/ Confirming)'
<1>1. /\ e \in Fixtures /\ e \in H!Events /\ queue \in Seq(H!Events) /\ rows["probe"] \in OrderRows
      /\ \/ e = "auth" /\ RankOfEvent(e) = 1
         \/ H!Type[e] = "captured" /\ RankOfEvent(e) = 2
  <2>1. e \in Fixtures /\ e \in H!Events /\ queue \in Seq(H!Events) /\ rows["probe"] \in OrderRows
    BY AuditConstants DEF AuditTypes, Fixtures, H!Orders
  <2>2. CASE e = "auth"
    BY <2>1, <2>2, AuditConstants, Effects DEF RankOfEvent
  <2>3. CASE e = "lifecap"
    BY <2>1, <2>3, AuditConstants, Effects DEF RankOfEvent
  <2> QED BY <2>2, <2>3
<1>2. CASE UNCHANGED <<rows, level, seen, queue>>
  <2>1. (Confirmed => Confirmed') /\ (Confirming => Confirming')
    BY <1>2 DEF Confirmed, Confirming
  <2> QED BY <2>1
<1>3. CASE queue' = Append(queue, e) /\ UNCHANGED <<rows, level>>
  <2>1. PICK n \in Nat : n = Len(queue) /\ Len(queue') = n + 1
    BY <1>1, <1>3
  <2>2. /\ queue'[n + 1] \in Late
        /\ \A i \in 1..n : queue'[i] = queue[i]
    BY <1>1, <1>3, <2>1 DEF Late
  <2>3. CASE Confirmed
    <3>1. \A i \in 1..n : queue[i] \in Late
      BY <2>1, <2>3 DEF Confirmed
    <3>2. \A i \in 1..(n + 1) : queue'[i] \in Late
      BY ONLY <2>1, <2>2, <3>1
    <3> QED BY <1>3, <2>1, <2>3, <3>2 DEF Confirmed
  <2>4. CASE Confirming
    <3>1. PICK i \in 1..n : /\ queue[i] = "paid"
                            /\ \A j \in 1..n : j < i => queue[j] \in Customers
                            /\ \A j \in 1..n : j > i => queue[j] \in Late
      BY <2>1, <2>4 DEF Confirming
    <3>2. /\ i \in 1..(n + 1) /\ queue'[i] = "paid"
          /\ \A j \in 1..(n + 1) : j < i => queue'[j] \in Customers
          /\ \A j \in 1..(n + 1) : j > i => queue'[j] \in Late
      BY ONLY <2>1, <2>2, <3>1
    <3> QED BY <1>3, <2>1, <2>4, <3>2 DEF Confirming
  <2> QED BY <2>3, <2>4
<1>4. CASE queue' = queue /\ Quiet /\ H!Apply(e)
  <2>1. Confirmed
    BY <1>4 DEF Confirming, Quiet, Customers
  <2>2. rows["probe"].status = "paid" /\ level["probe"] = 2
    BY <2>1 DEF Confirmed
  <2>3. rows'["probe"].status = "paid" /\ level'["probe"] = 2
    <3>1. CASE e = "auth" /\ RankOfEvent(e) = 1
      BY <3>1, <1>1, <1>4, <2>2, Applied
    <3>2. CASE H!Type[e] = "captured" /\ RankOfEvent(e) = 2
      <4>1. ~(RankOfEvent(e) < level["probe"])
        BY ONLY <3>2, <2>2
      <4>2. rows'["probe"] = H!Effect(rows["probe"], "captured") /\ level'["probe"] = 2
        BY <3>2, <4>1, <1>1, <1>4, Applied
      <4> QED BY <4>2, <1>1, Effects
    <3> QED BY <1>1, <3>1, <3>2
  <2>4. \A i \in 1..Len(queue') : queue'[i] \in Late
    BY <1>4, <2>1 DEF Confirmed
  <2> QED BY <2>3, <2>4 DEF Confirmed
<1> QED BY <1>1, <1>2, <1>3, <1>4, Received

LEMMA StepSend == AuditInv /\ H!SendNext => AuditInv'
<1> SUFFICES ASSUME AuditInv, H!SendNext PROVE AuditInv'
  OBVIOUS
<1>1. AuditTypes /\ ScriptIsTail /\ VerdictsSoFar /\ secret \in BOOLEAN
  BY DEF AuditInv, AuditTypes
<1>2. H!Following("send")
  BY DEF H!SendNext
<1> DEFINE e == Head(script).arg
<1>3. /\ at \in {5, 6, 7, 11, 15, 16, 17, 20, 24, 25, 27, 31, 32} /\ at' = at - 1
      /\ at = 20 => secret
      /\ script' \in Seq(ScriptSteps) /\ ScriptIsTail'
      /\ checks > 0 /\ UNCHANGED <<kind, secret, acked, checks>>
      /\ e = Places[at].arg
  <2>1. at \in 1..33 /\ Places[at].op = "send"
    BY <1>1, <1>2, NextPlace
  <2>2. at \in {5, 6, 7, 11, 15, 16, 17, 20, 24, 25, 27, 31, 32}
    BY ONLY <2>1, PlacesAre
  <2>3. at = 20 => secret
    BY <1>1, <1>2, NextPlace
  <2> QED BY <1>1, <1>2, <2>2, <2>3, NextPlace
<1>4. /\ UNCHANGED <<watched, report, trouble>> /\ H!Receive(e)
      /\ note' = [note EXCEPT !.refused = H!Refuses(e)]
  BY DEF H!SendNext
<1> HIDE DEF e
<1>5. /\ at \in {5, 6, 7, 11, 31, 32} => e = "cap"
      /\ at = 15 => e = "auth"
      /\ at = 16 => e = "lifecap"
      /\ at = 17 => e = "paid"
      /\ at = 20 => e = "forged"
      /\ at \in {24, 25} => e = "refund"
      /\ at = 27 => e = "refcap"
  <2>1. /\ \A i \in {5, 6, 7, 11, 31, 32} : Places[i].arg = "cap"
        /\ \A i \in {24, 25} : Places[i].arg = "refund"
        /\ Places[15].arg = "auth" /\ Places[16].arg = "lifecap" /\ Places[17].arg = "paid"
        /\ Places[20].arg = "forged" /\ Places[27].arg = "refcap"
    BY PlacesAre
  <2> QED BY ONLY <1>3, <2>1
<1>6. e \in Fixtures /\ (e = "forged" => at = 20)
  BY <1>3, <1>5 DEF Fixtures
<1>7. /\ note' \in [single : OrderRows, refused : BOOLEAN, watched : BOOLEAN]
      /\ note'.single = note.single /\ note'.refused = H!Refuses(e)
  <2>1. note \in [single : OrderRows, refused : BOOLEAN, watched : BOOLEAN]
    BY <1>1 DEF AuditTypes
  <2>2. H!Refuses(e) \in BOOLEAN
    BY DEF H!Refuses
  <2> QED BY ONLY <1>4, <2>1, <2>2
<1>8. AuditTypes'
  BY <1>1, <1>3, <1>4, <1>6, <1>7, Received DEF AuditTypes
<1>9. VerdictsSoFar'
  BY <1>1, <1>3, <1>4 DEF VerdictsSoFar, Sound, Heard, Honest
<1>10. ASSUME Sound, Honest PROVE HonestPlaces'
  <2>1. HonestPlaces
    BY <1>10 DEF AuditInv
  <2>2. /\ RankOfEvent("cap") = 2 /\ H!Effect(H!NoOrder, H!Type["cap"]) = Paid
        /\ RankOfEvent("refcap") = 2 /\ H!Effect(H!NoOrder, H!Type["refcap"]) = Paid
        /\ RankOfEvent("refund") = 3 /\ H!Effect(Paid, H!Type["refund"]) = Refunded
        /\ {"cap", "refcap", "refund"} \subseteq Fixtures
    BY AuditConstants, Effects DEF RankOfEvent, Fixtures
  <2>3. at \in {32, 11, 7} => Capturing("cap")'
    <3>1. SUFFICES ASSUME at \in {32, 11, 7} PROVE Capturing("cap")'
      OBVIOUS
    <3>2. Shown(H!NoOrder, 0) /\ "cap" \notin seen /\ e = "cap"
      BY <2>1, <3>1, <1>5 DEF HonestPlaces, Nothing, Unsent, Fixtures
    <3>3. "cap" \in seen' /\ Coming("cap", H!NoOrder, 0, Paid, 2)'
      BY <3>2, <2>2, <1>1, <1>4, <1>10, Sent
    <3> QED BY <3>3 DEF Capturing, H!NoOrder, Paid
  <2>4. at = 27 => Capturing("refcap")' /\ "refund" \notin seen'
    <3>1. SUFFICES ASSUME at = 27 PROVE Capturing("refcap")' /\ "refund" \notin seen'
      OBVIOUS
    <3>2. Shown(H!NoOrder, 0) /\ "refcap" \notin seen /\ "refund" \notin seen /\ e = "refcap"
      BY <2>1, <3>1, <1>5 DEF HonestPlaces, Nothing, Unsent, Fixtures
    <3>3. "refcap" \in seen' /\ Coming("refcap", H!NoOrder, 0, Paid, 2)'
      BY <3>2, <2>2, <1>1, <1>4, <1>10, Sent
    <3>4. seen' = seen \cup {"refcap"}
      BY <3>2, <2>2, <1>1, <1>4, <1>10, Received
    <3> QED BY <3>2, <3>3, <3>4 DEF Capturing, H!NoOrder, Paid
  <2>5. at = 25 => Refunding'
    <3>1. SUFFICES ASSUME at = 25 PROVE Refunding'
      OBVIOUS
    <3>2. Shown(Paid, 2) /\ "refund" \notin seen /\ e = "refund"
      BY <2>1, <3>1, <1>5 DEF HonestPlaces, Captured
    <3>3. "refund" \in seen' /\ Coming("refund", Paid, 2, Refunded, 3)'
      BY <3>2, <2>2, <1>1, <1>4, <1>10, Sent
    <3> QED BY <3>3 DEF Refunding, Paid, Refunded
  <2>6. ASSUME UNCHANGED <<rows, level, seen, queue>>
        PROVE  /\ Capturing("cap") => Capturing("cap")'
               /\ Refunding => Refunding'
               /\ Nothing => Nothing'
    BY <2>6 DEF Capturing, Refunding, Nothing, Coming, Shown, Shows, Waits, Quiet, H!NoOrder, Paid, Refunded
  <2>7. at \in {31, 6, 5} => Capturing("cap")'
    <3>1. SUFFICES ASSUME at \in {31, 6, 5} PROVE Capturing("cap")'
      OBVIOUS
    <3>2. Capturing("cap") /\ e \in seen
      BY <2>1, <3>1, <1>5 DEF HonestPlaces, Capturing
    <3>3. UNCHANGED <<rows, level, seen, queue>>
      BY <3>2, <1>1, <1>4, <1>6, <1>10, Received
    <3> QED BY <3>2, <3>3, <2>6
  <2>8. at = 24 => Refunding'
    <3>1. SUFFICES ASSUME at = 24 PROVE Refunding'
      OBVIOUS
    <3>2. Refunding /\ e \in seen
      BY <2>1, <3>1, <1>5 DEF HonestPlaces, Refunding
    <3>3. UNCHANGED <<rows, level, seen, queue>>
      BY <3>2, <1>1, <1>4, <1>6, <1>10, Received
    <3> QED BY <3>2, <3>3, <2>6
  <2>9. at = 20 => Nothing' /\ note'.refused
    <3>1. SUFFICES ASSUME at = 20 PROVE Nothing' /\ note'.refused
      OBVIOUS
    <3>2. Nothing /\ e = "forged" /\ secret
      BY <2>1, <3>1, <1>3, <1>5 DEF HonestPlaces
    <3>3. UNCHANGED <<rows, level, seen, queue>>
      BY <3>2, <1>1, <1>4, <1>6, <1>10, Received
    <3>4. note'.refused
      BY <3>2, <1>7, <1>10 DEF H!Refuses, Honest
    <3> QED BY <3>2, <3>3, <3>4, <2>6
  <2>10. at \in {17, 16, 15} => (Confirmed \/ Confirming)'
    <3>1. CASE at = 17
      <4>1. Nothing /\ "paid" \notin seen /\ e = "paid"
        BY <2>1, <3>1, <1>5 DEF HonestPlaces, Unsent, Fixtures
      <4> QED BY <4>1, <1>1, <1>4, <1>10, SentFirst
    <3>2. CASE at \in {16, 15}
      <4>1. (Confirmed \/ Confirming) /\ e \in {"lifecap", "auth"}
        BY <2>1, <3>2, <1>5 DEF HonestPlaces
      <4> QED BY <4>1, <1>1, <1>4, <1>10, SentLate
    <3> QED BY <3>1, <3>2
  <2>11. at \in {5, 6, 7} => note'.single = Paid
    BY <2>1, <1>7 DEF HonestPlaces
  <2> QED BY ONLY <1>3, <2>3, <2>4, <2>5, <2>7, <2>8, <2>9, <2>10, <2>11 DEF HonestPlaces
<1>11. ASSUME ~Honest, Heard PROVE BrokenPlaces'
  <2>1. BrokenPlaces
    BY <1>11 DEF AuditInv
  <2>2. H!Apply(e) /\ e \in H!Events
    BY <1>1, <1>4, <1>6, <1>11, Received, AuditConstants
  <2>3. RankOfEvent("cap") = 2 /\ H!Type["cap"] = "captured" /\ "cap" \in Fixtures
    BY AuditConstants, Effects DEF RankOfEvent, Fixtures
  <2>4. at = 32 => Shows(Paid, 2)'
    <3>1. SUFFICES ASSUME at = 32 PROVE Shows(Paid, 2)'
      OBVIOUS
    <3>2. rows["probe"] = H!NoOrder /\ level["probe"] = 0 /\ e = "cap"
      BY <2>1, <3>1, <1>5 DEF BrokenPlaces, Shows
    <3>3. rows'["probe"] = H!Effect(H!NoOrder, "captured") /\ level'["probe"] = 2
      BY <3>2, <2>2, <2>3, <1>1, Applied
    <3> QED BY <3>3, Effects DEF Shows, Paid
  <2>5. at = 31 => rows'["probe"].count = 2
    <3>1. SUFFICES ASSUME at = 31 PROVE rows'["probe"].count = 2
      OBVIOUS
    <3>2. rows["probe"] = Paid /\ level["probe"] = 2 /\ e = "cap"
      BY <2>1, <3>1, <1>5 DEF BrokenPlaces, Shows
    <3>3. rows'["probe"] = H!Effect(Paid, "captured")
      BY <3>2, <2>2, <2>3, <1>1, Applied
    <3> QED BY <3>3, Effects
  <2>6. ~note'.refused
    BY <1>7, <1>11 DEF H!Refuses, Honest
  <2> QED BY ONLY <1>3, <1>4, <2>1, <2>4, <2>5, <2>6 DEF BrokenPlaces, Reporting
<1> QED BY <1>3, <1>4, <1>8, <1>9, <1>10, <1>11 DEF AuditInv, Sound, Heard, Honest

(* A delivery that fails: whatever it did, nothing is said of what it leads to. *)
LEMMA StepSendFails == AuditInv /\ H!SendFails => AuditInv'
<1> SUFFICES ASSUME AuditInv, H!SendFails PROVE AuditInv'
  OBVIOUS
<1>1. AuditTypes /\ ScriptIsTail /\ VerdictsSoFar
  BY DEF AuditInv
<1>2. H!Following("send")
  BY DEF H!SendFails
<1> DEFINE e == Head(script).arg
<1>3. /\ script' \in Seq(ScriptSteps) /\ ScriptIsTail' /\ checks > 0
      /\ UNCHANGED <<kind, secret, acked, checks>>
      /\ at \in 1..33 /\ Places[at].op = "send" /\ e = Places[at].arg
  BY <1>1, <1>2, NextPlace
<1>4. e \in Fixtures
  <2>1. at \in {5, 6, 7, 11, 15, 16, 17, 20, 24, 25, 27, 31, 32}
    BY ONLY <1>3, PlacesAre
  <2>2. /\ \A i \in {5, 6, 7, 11, 31, 32} : Places[i].arg = "cap"
        /\ \A i \in {24, 25} : Places[i].arg = "refund"
        /\ Places[15].arg = "auth" /\ Places[16].arg = "lifecap" /\ Places[17].arg = "paid"
        /\ Places[20].arg = "forged" /\ Places[27].arg = "refcap"
    BY PlacesAre
  <2> HIDE DEF e
  <2> QED BY ONLY <1>3, <2>1, <2>2 DEF Fixtures
<1>5. /\ UNCHANGED <<watched, report>> /\ trouble' = trouble \cup {"lost"}
      /\ H!Receive(e) \/ UNCHANGED <<rows, level, seen, queue>>
      /\ \E refused \in BOOLEAN : note' = [note EXCEPT !.refused = refused]
  BY DEF H!SendFails
<1> HIDE DEF e
<1>6. /\ rows' \in [H!Orders -> OrderRows] /\ level' \in [H!Orders -> Int]
      /\ queue' \in Seq(H!Events)
      /\ kind # "protected" => Quiet'
  <2>1. CASE H!Receive(e)
    BY <1>1, <1>4, <2>1, Received
  <2>2. CASE UNCHANGED <<rows, level, seen, queue>>
    BY <1>1, <2>2 DEF AuditTypes, Quiet
  <2> QED BY <1>5, <2>1, <2>2
<1>7. note' \in [single : OrderRows, refused : BOOLEAN, watched : BOOLEAN]
  BY <1>1, <1>5 DEF AuditTypes
<1>8. AuditTypes'
  BY <1>1, <1>3, <1>5, <1>6, <1>7 DEF AuditTypes
<1>9. ~Sound' /\ ~Heard'
  BY <1>5 DEF Sound, Heard
<1>10. VerdictsSoFar'
  BY <1>1, <1>3, <1>5, <1>9 DEF VerdictsSoFar
<1> QED BY <1>3, <1>8, <1>9, <1>10 DEF AuditInv

(* Where a probe that threw goes on: behind its check. *)
LEMMA NextProbe ==
  ASSUME AuditTypes, ScriptIsTail, NEW n \in DOMAIN script,
         script[n].op = "check", \A i \in 1..(n - 1) : script[i].op # "check",
         script[n].arg = "tampered" => secret,
         script' = SubSeq(script, n + 1, Len(script)), secret' = secret
  PROVE  /\ script' \in Seq(ScriptSteps) /\ ScriptIsTail'
         /\ at \in 1..33 /\ at' \in 0..28 /\ (secret => at' # 19)
         /\ script[n].arg \in H!Probes
         /\ at' > 0
         /\ at > 28 => script[n].arg = "duplicate"
         /\ secret /\ at > 18 /\ at' <= 18 => script[n].arg = "tampered"
<1>1. PICK k \in Nat : k = Len(script)
  BY DEF AuditTypes
<1>2. /\ script \in Seq(ScriptSteps) /\ secret \in BOOLEAN
      /\ n \in 1..k
      /\ at <= 33 /\ \A i \in 1..k : script[i] = Places[Place(k + 1 - i)]
  BY <1>1 DEF AuditTypes, ScriptIsTail
<1>3. /\ script' \in Seq(ScriptSteps) /\ Len(script') = k - n
      /\ \A i \in 1..(k - n) : script'[i] = script[n + i]
  BY ONLY <1>1, <1>2, script' = SubSeq(script, n + 1, Len(script))
<1>4. \A j \in Int : Place(j) = (IF ~secret /\ j >= 20 THEN j + 2 ELSE j)
  BY DEF Place
<1>5. \A j : Place(j)' = Place(j)
  BY DEF Place
<1>6. at = Place(k) /\ at' = Place(k - n)
  BY <1>1, <1>3, <1>5 DEF at
<1> DEFINE m == Place(k + 1 - n)
           l == Place(k)
           r == Place(k - n)
<1>0. /\ l = (IF ~secret /\ k >= 20 THEN k + 2 ELSE k)
      /\ r = (IF ~secret /\ k - n >= 20 THEN k - n + 2 ELSE k - n)
      /\ m = (IF ~secret /\ k + 1 - n >= 20 THEN k + 1 - n + 2 ELSE k + 1 - n)
  BY DEF Place
<1>61. at = l /\ at' = r /\ l <= 33 /\ script[n] = Places[m]
  BY <1>2, <1>6
<1> HIDE DEF l, r, m
<1>7. at \in 1..33
  BY ONLY <1>2, <1>0, <1>61
<1>8. m \in {3, 13, 19, 22, 29} /\ script[n] = Places[m]
  <2>0. secret \in BOOLEAN /\ k \in Nat /\ n \in 1..k
    BY <1>2
  <2>1. m \in 1..33
    BY ONLY <2>0, <1>0, <1>61
  <2>2. Places[m].op = "check"
    BY <1>61
  <2> QED BY ONLY <1>61, <2>1, <2>2, PlacesAre
<1>9. /\ Places[3].arg = "timeout" /\ Places[13].arg = "order" /\ Places[19].arg = "tampered"
      /\ Places[22].arg = "refund" /\ Places[29].arg = "duplicate"
  BY PlacesAre
\* the checks ahead are passed in their order
<1>10. ASSUME NEW i \in 1..k, Place(k + 1 - i) \in {19, 29} PROVE n <= i
  <2>1. script[i].op = "check"
    <3>1. Places[19].op = "check" /\ Places[29].op = "check"
      BY PlacesAre
    <3> QED BY ONLY <1>2, <1>10, <3>1
  <2>2. CASE i < n
    <3>1. i \in 1..(n - 1)
      BY ONLY <1>2, <1>10, <2>2
    <3> QED BY <2>1, <3>1
  <2> QED BY ONLY <1>2, <1>10, <2>2
<1>11. at > 28 => m = 29
  <2>1. SUFFICES ASSUME at > 28 PROVE m = 29
    OBVIOUS
  <2>2. PICK i \in 1..k : Place(k + 1 - i) = 29
    <3>1. CASE secret
      <4>1. k + 1 - 29 \in 1..k /\ Place(k + 1 - (k + 1 - 29)) = 29
        BY ONLY <1>2, <1>4, <1>0, <1>61, <2>1, <3>1
      <4> QED BY <4>1
    <3>2. CASE ~secret
      <4>1. k + 1 - 27 \in 1..k /\ Place(k + 1 - (k + 1 - 27)) = 29
        BY ONLY <1>2, <1>4, <1>0, <1>61, <2>1, <3>2
      <4> QED BY <4>1
    <3> QED BY <1>2, <3>1, <3>2
  <2>3. n <= i
    BY <1>10, <2>2
  <2>4. k + 1 - i = (IF secret THEN 29 ELSE 27)
    <3>1. 29 = (IF ~secret /\ k + 1 - i >= 20 THEN k + 1 - i + 2 ELSE k + 1 - i)
      BY <2>2 DEF Place
    <3> QED BY ONLY <1>2, <2>2, <3>1
  <2>5. m >= 29
    BY ONLY <1>2, <1>0, <2>2, <2>3, <2>4
  <2> QED BY ONLY <1>8, <2>5
<1>12. secret /\ at > 18 => m >= 19
  <2>1. SUFFICES ASSUME secret, at > 18 PROVE m >= 19
    OBVIOUS
  <2>2. k + 1 - 19 \in 1..k /\ Place(k + 1 - (k + 1 - 19)) = 19
    BY ONLY <1>2, <1>4, <1>0, <1>61, <2>1
  <2>3. n <= k + 1 - 19
    BY <1>10, <2>2
  <2> QED BY ONLY <1>2, <1>0, <2>1, <2>3
<1>13. at' = IF ~secret /\ m = 22 THEN 19 ELSE m - 1
  BY ONLY <1>2, <1>0, <1>61
<1>14. at' \in 0..28 /\ at' > 0 /\ (secret => at' # 19)
       /\ script[n].arg \in H!Probes
  <2> QED BY ONLY <1>8, <1>9, <1>13 DEF H!Probes
<1>15. /\ at > 28 => script[n].arg = "duplicate"
       /\ secret /\ at > 18 /\ at' <= 18 => script[n].arg = "tampered"
  <2> QED BY ONLY <1>8, <1>9, <1>11, <1>12, <1>13
<1>16. ScriptIsTail'
  <2>1. ASSUME NEW i \in 1..(k - n) PROVE script'[i] = Places[Place(k - n + 1 - i)]
    <3>1. n + i \in 1..k /\ k + 1 - (n + i) = k - n + 1 - i
      BY ONLY <1>2, <2>1
    <3> QED BY ONLY <1>2, <1>3, <2>1, <3>1
  <2>2. at' <= 33
    BY ONLY <1>14
  <2> QED BY <1>3, <1>5, <2>1, <2>2 DEF ScriptIsTail
<1> QED BY <1>3, <1>7, <1>14, <1>15, <1>16

LEMMA StepThrow == AuditInv /\ H!Throw => AuditInv'
<1> SUFFICES ASSUME AuditInv, H!Throw PROVE AuditInv'
  OBVIOUS
<1>1. AuditTypes /\ ScriptIsTail /\ VerdictsSoFar
  BY DEF AuditInv
<1>2. PICK n \in DOMAIN script :
        /\ script[n].op = "check" /\ \A i \in 1..(n - 1) : script[i].op # "check"
        /\ script[n].arg = "tampered" => secret
        /\ script' = SubSeq(script, n + 1, Len(script))
        /\ report' = [report EXCEPT ![script[n].arg] = "fail"]
  BY DEF H!Throw
<1>3. /\ UNCHANGED <<kind, secret, rows, level, seen, queue, watched, acked, note, checks>>
      /\ trouble' = trouble \cup {"threw"} /\ script # <<>>
  BY DEF H!Throw, H!database
<1> DEFINE p == script[n].arg
<1>4. /\ script' \in Seq(ScriptSteps) /\ ScriptIsTail'
      /\ at \in 1..33 /\ at' \in 0..28 /\ (secret => at' # 19)
      /\ at' > 0 /\ p \in H!Probes
      /\ at > 28 => p = "duplicate"
      /\ secret /\ at > 18 /\ at' <= 18 => p = "tampered"
  BY <1>1, <1>2, <1>3, NextProbe
<1>5. report \in [H!Probes \cup {"protected"} -> {"none", "pass", "fail", "skipped"}]
  BY <1>1 DEF AuditTypes
<1> HIDE DEF p
<1>6. /\ report' \in [H!Probes \cup {"protected"} -> {"none", "pass", "fail", "skipped"}]
      /\ report'[p] = "fail"
      /\ \A q \in H!Probes \cup {"protected"} : q # p => report'[q] = report[q]
  BY <1>2, <1>4, <1>5 DEF p
<1>7. AuditTypes'
  BY <1>1, <1>3, <1>4, <1>6 DEF AuditTypes, Quiet
<1>8. ~Sound' /\ (Honest' <=> Honest) /\ (Heard' <=> Heard)
  BY <1>3 DEF Sound, Honest, Heard
<1>9. {"duplicate", "tampered"} \subseteq H!Probes /\ "protected" \notin H!Probes
  BY DEF H!Probes
<1>10. VerdictsSoFar'
  BY ONLY <1>1, <1>3, <1>4, <1>6, <1>8, <1>9 DEF VerdictsSoFar
<1>11. ASSUME ~Honest, Heard PROVE BrokenPlaces'
  <2>1. BrokenPlaces
    BY <1>11 DEF AuditInv
  <2>2. report'["duplicate"] = "fail"
    <3>1. Reporting
      BY ONLY <1>4 DEF Reporting
    <3>2. at <= 28 => report["duplicate"] = "fail"
      BY ONLY <2>1, <3>1 DEF BrokenPlaces
    <3>3. at > 28 => p = "duplicate"
      BY ONLY <1>4
    <3>4. at <= 28 \/ at > 28
      BY ONLY <1>4
    <3> QED BY ONLY <1>6, <1>9, <3>2, <3>3, <3>4
  <2>3. at' <= 18 /\ secret => report'["tampered"] = "fail"
    <3>0. Reporting
      BY ONLY <1>4 DEF Reporting
    <3>1. at <= 18 /\ secret => report["tampered"] = "fail"
      BY ONLY <2>1, <3>0 DEF BrokenPlaces
    <3> QED BY ONLY <1>4, <1>6, <1>9, <3>1
  <2> QED BY ONLY <1>3, <1>4, <2>2, <2>3 DEF BrokenPlaces
<1> QED BY <1>4, <1>7, <1>8, <1>10, <1>11 DEF AuditInv

LEMMA StepGiveUp == AuditInv /\ H!GiveUp => AuditInv'
<1> SUFFICES ASSUME AuditInv, H!GiveUp PROVE AuditInv'
  OBVIOUS
<1>1. /\ AuditTypes /\ script' = <<>> /\ report' = H!NoReport
      /\ UNCHANGED <<kind, secret, rows, level, seen, queue, watched, acked, note, trouble, checks>>
  BY DEF AuditInv, H!GiveUp, H!database
<1>2. /\ report' \in [H!Probes \cup {"protected"} -> {"none", "pass", "fail", "skipped"}]
      /\ \A p \in H!Probes \cup {"protected"} : report'[p] = "none"
  BY <1>1 DEF H!NoReport
<1>3. AuditTypes'
  BY <1>1, <1>2 DEF AuditTypes, Quiet
<1>4. at' = 0 /\ ScriptIsTail'
  BY <1>1 DEF at, Place, ScriptIsTail
<1>5. VerdictsSoFar'
  BY <1>2 DEF VerdictsSoFar, H!Probes
<1>6. HonestPlaces' /\ BrokenPlaces'
  BY ONLY <1>2, <1>4 DEF HonestPlaces, BrokenPlaces, Reporting
<1> QED BY <1>3, <1>4, <1>5, <1>6 DEF AuditInv

LEMMA AuditStarts == H!Init => AuditInv
<1> SUFFICES ASSUME H!Init PROVE AuditInv
  OBVIOUS
<1>1. /\ kind \in H!Kinds /\ secret \in BOOLEAN /\ (kind = "protected" => secret)
      /\ rows = [o \in H!Orders |-> H!NoOrder] /\ level = [o \in H!Orders |-> 0]
      /\ queue = <<>> /\ watched = TRUE /\ acked = {}
      /\ script = <<>> /\ note = H!NoNote /\ report = H!NoReport /\ checks = 0
      /\ trouble = {}
  BY DEF H!Init
<1>2. /\ report \in [H!Probes \cup {"protected"} -> {"none", "pass", "fail", "skipped"}]
      /\ \A p \in H!Probes \cup {"protected"} : report[p] = "none"
  BY <1>1 DEF H!NoReport
<1>3. AuditTypes
  BY <1>1, <1>2, Effects DEF AuditTypes, Quiet, H!NoNote
<1>4. VerdictsSoFar
  BY <1>2 DEF VerdictsSoFar, H!Probes
<1>5. at = 0 /\ ScriptIsTail
  BY <1>1 DEF at, Place, ScriptIsTail
<1>6. HonestPlaces /\ BrokenPlaces
  BY ONLY <1>2, <1>5 DEF HonestPlaces, BrokenPlaces, Reporting
<1> QED BY <1>3, <1>4, <1>5, <1>6 DEF AuditInv

LEMMA AuditStep == AuditInv /\ [H!Next]_auditVars => AuditInv'
<1>1. ASSUME AuditInv, UNCHANGED auditVars PROVE AuditInv'
  <2>1. at' = at /\ ScriptIsTail' /\ VerdictsSoFar' /\ AuditTypes'
    BY <1>1 DEF auditVars, AuditInv, at, Place, ScriptIsTail, VerdictsSoFar, AuditTypes,
        Sound, Heard, Honest, Quiet
  <2>2. /\ \A r, l : Shown(r, l) => Shown(r, l)'
        /\ \A e, r, l, s, m : Coming(e, r, l, s, m) => Coming(e, r, l, s, m)'
        /\ Confirmed => Confirmed'
        /\ Confirming => Confirming'
    BY <1>1 DEF auditVars, Shown, Coming, Shows, Quiet, Waits, Confirmed, Confirming
  <2>3. HonestPlaces => HonestPlaces'
    BY <1>1, <2>1, <2>2, PlacesStay DEF auditVars
  <2>4. BrokenPlaces => BrokenPlaces'
    BY <1>1, <2>1 DEF auditVars, BrokenPlaces, Reporting, Shows
  <2> QED BY <1>1, <2>1, <2>3, <2>4 DEF AuditInv, Sound, Heard, Honest, auditVars
<1> QED
  BY <1>1, StepHealth, StepReset, StepSend, StepSettle, StepRemember, StepJudge, StepReconcile,
     StepSendFails, StepThrow, StepGiveUp, StepWorker, StepTraffic DEF H!Next

(* With no wait cut short, no query and no delivery failed, the report on an
   integration that dedupes, orders and checks signatures has no finding; the one on
   the integration that does not has them, with no delivery failed; and protected is
   said of no other - for any number of checks (audit/index.js:13-16), and whatever
   the customers' payments and refunds do to the tables meanwhile. *)
THEOREM VerdictsHold == ConsoleSpec => []VerdictsAreRight
<1>1. ConsoleInit => AuditInv
  BY AuditStarts DEF ConsoleInit
<1>2. [ConsoleNext]_allVars => [H!Next]_auditVars
  BY DEF ConsoleNext, Others, allVars
<1>3. AuditInv => VerdictsAreRight
  <2>1. ASSUME AuditInv
        PROVE  /\ Sound => \A p \in H!Probes : report[p] # "fail"
               /\ report["protected"] = "pass" => secret /\ (Honest \/ ~Heard)
    BY <2>1 DEF AuditInv, VerdictsSoFar
  <2>2. ASSUME AuditInv, H!Done, ~Honest, Heard
        PROVE  report["duplicate"] = "fail" /\ (secret => report["tampered"] = "fail")
    <3>1. at = 0 /\ Reporting
      BY <2>2 DEF at, Place, H!Done, Reporting
    <3> QED BY <2>2, <3>1 DEF AuditInv, BrokenPlaces
  <2> QED BY <2>1, <2>2 DEF VerdictsAreRight, H!VerdictsAreRight, Sound, Heard, Honest
<1> QED BY <1>1, <1>2, <1>3, AuditStep, PTL DEF ConsoleSpec

=============================================================================
