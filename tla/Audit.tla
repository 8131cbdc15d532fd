-------------------------------- MODULE Audit --------------------------------
(***************************************************************************)
(* src/audit/index.js against the three integrations of                    *)
(* examples/demo-merchant/server.js, run by computeHealth of               *)
(* src/health/index.js (and by /api/audit and /api/protection), while the  *)
(* merchant's own traffic goes on.                                         *)
(*                                                                         *)
(* A probe is a script of resets, deliveries, waits and one check.  All    *)
(* probes read and clear the same database; each starts with a reset, so   *)
(* one order stands for the order of every probe's fixtures.  settle()     *)
(* gives up after 600 ms without a change, or 4 s: a slow worker is left   *)
(* behind.  A query may fail in the middle of a probe - TRUNCATE takes     *)
(* part in deadlocks - and a delivery may go unanswered.                   *)
(***************************************************************************)
EXTENDS Integers, Sequences, FiniteSets

CONSTANTS
  MaxChecks,   \* bound: health checks asked for
  MaxTroubles, \* bound: kinds of failure in one check
  None

AuditAssumption == {MaxChecks, MaxTroubles} \subseteq Nat /\ None \notin {"authorized", "paid", "refunded"}

Kinds == {"broken", "correct", "protected"}
Probes == {"duplicate", "refund", "tampered", "order", "timeout"}
Orders == {"probe", "real"}
Type == [cap |-> "captured", refcap |-> "captured", lifecap |-> "captured",
         forged |-> "captured", auth |-> "authorized", paid |-> "order_paid",
         refund |-> "refunded", realcap |-> "captured", realref |-> "refunded",
         recovered |-> "captured"]
Events == DOMAIN Type
OrderOf(e) == IF e \in {"realcap", "realref", "recovered"} THEN "real" ELSE "probe"

VARIABLES
  kind,     \* the integration that is armed
  secret,   \* whether a webhook secret is configured
  rows,     \* rows[o]: shop_orders
  level,    \* level[o]: shop_order_rank, or raze_subject_state
  seen,     \* shop_seen_events, or the ids of raze_inbox
  queue,    \* raze_inbox: rows not processed
  watched,  \* raze_expectations holds a row
  acked,    \* the merchant's own events that were answered 200
  script,   \* what the health check still has to do
  note,     \* what it has read: state after a single delivery, the answer to the forgery
  report,   \* report[p]: pass, fail, skipped or none; protected is the verdict
  trouble,  \* what this check met: an early end of a wait, a probe that threw, a
            \* delivery that got no proper answer
  checks

vars == <<kind, secret, rows, level, seen, queue, watched, acked, script, note, report,
          trouble, checks>>
database == <<rows, level, seen, queue, watched>>

NoOrder == [status |-> None, count |-> 0, credited |-> 0]
NoNote == [single |-> NoOrder, refused |-> FALSE, watched |-> FALSE]
NoReport == [p \in Probes \cup {"protected"} |-> "none"]

TypeOK ==
  /\ kind \in Kinds /\ {secret, watched} \subseteq BOOLEAN
  /\ rows \in [Orders -> [status : {None, "authorized", "paid", "refunded"},
                          count : 0..3, credited : -1..3]]
  /\ level \in [Orders -> 0..3]
  /\ seen \subseteq Events /\ queue \in Seq(Events) /\ acked \subseteq Events
  /\ report \in [Probes \cup {"protected"} -> {"none", "pass", "fail", "skipped"}]
  /\ trouble \subseteq {"early", "threw", "lost"}

Init ==
  /\ kind \in Kinds /\ secret \in BOOLEAN
  /\ kind = "protected" => secret          \* raze.create() refuses to start without
  /\ rows = [o \in Orders |-> NoOrder] /\ level = [o \in Orders |-> 0]
  /\ seen = {} /\ queue = <<>> /\ watched = TRUE /\ acked = {}
  /\ script = <<>> /\ note = NoNote /\ report = NoReport
  /\ trouble = {} /\ checks = 0
-----------------------------------------------------------------------------
-----------------------------------------------------------------------------
(* The merchant *)

Rank == [authorized |-> 1, captured |-> 2, order_paid |-> 2, refunded |-> 3]

\* the business rule, the same in every integration
Effect(r, type) ==
  CASE type = "captured" -> [status |-> "paid", count |-> r.count + 1, credited |-> r.credited + 1]
    [] type = "authorized" -> [r EXCEPT !.status = "authorized"]
    [] type = "order_paid" -> [r EXCEPT !.status = "paid"]
    [] type = "refunded" ->
         IF r.status = None THEN r
         ELSE [status |-> "refunded", count |-> r.count, credited |-> r.credited - 1]

\* the ordering guard and the business rule, in one transaction
Apply(e) ==
  LET o == OrderOf(e)
      stale == Rank[Type[e]] < level[o]
  IN  /\ rows' = IF stale THEN rows ELSE [rows EXCEPT ![o] = Effect(@, Type[e])]
      /\ level' = IF stale THEN level ELSE [level EXCEPT ![o] = Rank[Type[e]]]

\* what the webhook does with a delivery, and whether it answers with an error
Refuses(e) == e = "forged" /\ secret /\ kind # "broken"

Receive(e) ==
  IF Refuses(e) \/ (kind # "broken" /\ e \in seen) THEN UNCHANGED <<rows, level, seen, queue>>
  ELSE IF kind = "protected"
    THEN seen' = seen \cup {e} /\ queue' = Append(queue, e) /\ UNCHANGED <<rows, level>>
  ELSE /\ Apply(e)
       /\ seen' = IF kind = "correct" THEN seen \cup {e} ELSE seen
       /\ UNCHANGED queue

Worker ==
  /\ kind = "protected" /\ queue # <<>>
  /\ Apply(Head(queue)) /\ queue' = Tail(queue)
  /\ UNCHANGED <<kind, secret, seen, watched, acked, script, note, report, trouble, checks>>

\* a customer pays, and is refunded later; the provider delivers both
Traffic(e) ==
  /\ e = "realref" => "realcap" \in acked
  /\ e \notin acked
  /\ Receive(e) /\ acked' = acked \cup {e}
  /\ UNCHANGED <<kind, secret, watched, script, note, report, trouble, checks>>
-----------------------------------------------------------------------------
(* The probes *)

Do(op) == [op |-> op, arg |-> None]
Send(e) == [op |-> "send", arg |-> e]
Check(p) == [op |-> "check", arg |-> p]

(* A faulty variant of the definition below: it judges without waiting for the
   integration's worker. *)
Duplicate_hasty == <<Do("reset"), Send("cap"), Send("cap"), Check("duplicate")>>

Duplicate == <<Do("reset"), Send("cap"), Send("cap"), Do("settle"), Check("duplicate")>>

ScriptOf(p) ==
  CASE p = "duplicate" -> Duplicate
    [] p = "refund" ->
         <<Do("reset"), Send("refcap"), Do("settle"), Send("refund"), Send("refund"),
           Do("settle"), Check(p)>>
    [] p = "tampered" ->
         IF secret THEN <<Do("reset"), Send("forged"), Check(p)>> ELSE <<Check(p)>>
    [] p = "order" ->
         <<Do("reset"), Send("paid"), Send("lifecap"), Send("auth"), Do("settle"), Check(p)>>
    [] p = "timeout" ->
         <<Do("reset"), Send("cap"), Do("settle"), Do("note"), Do("reset"),
           Send("cap"), Send("cap"), Send("cap"), Do("settle"), Check(p)>>

Holds(p) ==
  LET s == rows["probe"]
  IN  CASE p = "duplicate" -> s.count = 1
        [] p = "refund" -> s.status = "refunded" /\ s.credited = 0
        [] p = "tampered" -> secret => note.refused /\ s.count = 0
        [] p = "order" -> s.status = "paid"
        [] p = "timeout" -> s.count = note.single.count /\ s.credited = note.single.credited

\* computeHealth: the expectations are counted before the probes run
Health ==
  /\ script = <<>> /\ checks < MaxChecks
  /\ checks' = checks + 1
  /\ note' = [NoNote EXCEPT !.watched = watched]
  /\ report' = NoReport /\ trouble' = {}
  /\ script' = ScriptOf("duplicate") \o ScriptOf("refund") \o ScriptOf("tampered")
               \o ScriptOf("order") \o ScriptOf("timeout") \o <<Do("reset"), Do("reconcile")>>
  /\ UNCHANGED <<kind, secret, database, acked>>

\* what TRUNCATE of every table of the schema leaves of the dedupe table
KeptByReset == {}

\* the next step of the script
Following(op) ==
  /\ script # <<>> /\ Head(script).op = op
  /\ script' = Tail(script)
  /\ UNCHANGED <<kind, secret, acked, checks>>

Reset ==
  /\ Following("reset")
  /\ rows' = [o \in Orders |-> NoOrder] /\ level' = [o \in Orders |-> 0]
  /\ seen' = KeptByReset /\ queue' = <<>> /\ watched' = FALSE
  /\ UNCHANGED <<note, report, trouble>>

SendNext ==
  /\ Following("send")
  /\ Receive(Head(script).arg)
  /\ note' = [note EXCEPT !.refused = Refuses(Head(script).arg)]
  /\ UNCHANGED <<watched, report, trouble>>

\* (a wait that ends early is not counted)
MoreTrouble == Cardinality(trouble \ {"early"}) < MaxTroubles

\* no answer, or an error that is none of the merchant's verdicts; what was sent has
\* been handled or has not
SendFails ==
  /\ Following("send") /\ MoreTrouble
  /\ Receive(Head(script).arg) \/ UNCHANGED <<rows, level, seen, queue>>
  /\ \E refused \in BOOLEAN : note' = [note EXCEPT !.refused = refused]
  /\ trouble' = trouble \cup {"lost"}
  /\ UNCHANGED <<watched, report>>

Waiting == \E i \in DOMAIN queue : OrderOf(queue[i]) = "probe"

Settle ==
  /\ Following("settle")
  /\ trouble' = IF Waiting THEN trouble \cup {"early"} ELSE trouble
  /\ UNCHANGED <<database, note, report>>

Remember ==
  /\ Following("note")
  /\ note' = [note EXCEPT !.single = rows["probe"]]
  /\ UNCHANGED <<database, report, trouble>>

Judge ==
  /\ Following("check")
  /\ LET p == Head(script).arg
     IN  report' = [report EXCEPT ![p] =
           IF p = "tampered" /\ ~secret THEN "skipped" ELSE IF Holds(p) THEN "pass" ELSE "fail"]
  /\ UNCHANGED <<database, note, trouble>>

\* a query fails: the rest of the probe is not run, and counts as a finding
Throw ==
  /\ MoreTrouble /\ script # <<>> /\ Head(script).op \in {"reset", "settle", "note", "check"}
  /\ \E n \in DOMAIN script :
       /\ script[n].op = "check" /\ \A i \in 1..(n - 1) : script[i].op # "check"
       /\ script[n].arg = "tampered" => secret
       /\ script' = SubSeq(script, n + 1, Len(script))
       /\ report' = [report EXCEPT ![script[n].arg] = "fail"]
  /\ trouble' = trouble \cup {"threw"}
  /\ UNCHANGED <<kind, secret, database, acked, note, checks>>

\* the reset after the probes is not caught: there is no report
GiveUp ==
  /\ script = <<Do("reset"), Do("reconcile")>>
  /\ script' = <<>> /\ report' = NoReport
  /\ UNCHANGED <<kind, secret, database, acked, note, trouble, checks>>

\* the health check's own reconciliation: a captured payment whose order has no
\* row is queued again; then the verdict
Reconcile ==
  /\ Following("reconcile")
  /\ \E answered \in BOOLEAN :
       LET lost == answered /\ "realcap" \in acked /\ rows["real"].status = None
                   /\ "recovered" \notin seen
       IN  /\ queue' = IF lost THEN Append(queue, "recovered") ELSE queue
           /\ seen' = IF lost THEN seen \cup {"recovered"} ELSE seen
           /\ report' = [report EXCEPT !["protected"] =
                IF answered /\ note.watched /\ \A p \in Probes : report[p] = "pass"
                THEN "pass" ELSE "fail"]
  /\ UNCHANGED <<rows, level, watched, note, trouble>>

Next ==
  \/ Health \/ Reset \/ SendNext \/ Settle \/ Remember \/ Judge \/ Reconcile
  \/ SendFails \/ Throw \/ GiveUp
  \/ Worker
  \/ \E e \in {"realcap", "realref"} : Traffic(e)

Spec == Init /\ [][Next]_vars
-----------------------------------------------------------------------------
Done == script = <<>> /\ report["protected"] # "none"

(* "Auditing a correct integration must produce zero findings, every time"
   (audit/index.js:13-16), also the second time and whatever the merchant's own
   customers do meanwhile, unless a wait, a query or a delivery failed; the broken one
   is found to credit twice and to accept a forgery, unless a delivery failed; and what
   fails otherwise is held against an integration, never for it. *)
VerdictsAreRight ==
  /\ kind # "broken" /\ trouble = {} => \A p \in Probes : report[p] # "fail"
  /\ Done /\ kind = "broken" /\ "lost" \notin trouble =>
       report["duplicate"] = "fail" /\ (secret => report["tampered"] = "fail")
  /\ report["protected"] = "pass" => secret /\ (kind # "broken" \/ "lost" \in trouble)

(* The tools handed to an agent as reads only read (web/agent.js:34; raze_health
   is one of them): when a health check is over, every event the merchant has
   acknowledged still waits or still shows in its order. *)
ReadToolsOnlyRead ==
  script = <<>> =>
    /\ "realcap" \in acked =>
         \/ rows["real"].count > 0
         \/ \E i \in DOMAIN queue : queue[i] \in {"realcap", "recovered"}
    /\ "realref" \in acked =>
         \/ rows["real"].status = "refunded"
         \/ \E i \in DOMAIN queue : queue[i] = "realref"
=============================================================================
