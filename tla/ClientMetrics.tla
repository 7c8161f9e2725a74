--------------------------- MODULE ClientMetrics ---------------------------
(***************************************************************************)
(* The usage that SDKs report: each node keeps it in memory, and jobs of   *)
(* the node write it to the database, ClientMetricsServiceV2.bulkAdd into  *)
(* two tables of counters, LastSeenService.store into the dates of last    *)
(* use.  A statement that upserts several rows locks them one by one, in   *)
(* the order in which it lists them, until it is done.                     *)
(***************************************************************************)
EXTENDS Naturals, SequencesExt

CONSTANTS
    Nodes,
    Slots,          \* bound: bulkAdd calls of a node under way; none is awaited
    NumFeatures,    \* features, with application and environment, by name
    Hours,
    Reports         \* bound: reports that ever come

ASSUME NumFeaturesAssumption == NumFeatures \in Nat

VARIABLES
    arrived,        \* the features that each report has named
    unsaved,        \* unsavedMetrics: of each row, which reports, in order
    flushes,        \* bulkAdd calls: statement, rows, how many are locked
    counted,        \* how often each table counts each report
    lost,           \* history: reports that a table will never count
    seen, saving,   \* lastSeenToggles, and what store is writing
    lastSeen,       \* last_seen_at_metrics
    unseen          \* history: features whose use was not written down

metricVars == <<unsaved, flushes, counted, lost>>
seenVars == <<seen, saving, lastSeen, unseen>>
vars == <<arrived, metricVars, seenVars>>

Features == 1..NumFeatures
Rows == Features \X Hours
Tables == {"totals", "variants"}
Entries == [row : Rows, reports : SUBSET Reports]
Calls == Nodes \X Slots

NoCall == [table |-> "none", batch |-> <<>>, locked |-> 0]

Flush == [table : Tables \cup {"none"}, batch : Seq(Entries), locked : Nat]

TypeOK ==
    /\ arrived \in [Reports -> SUBSET Features]
    /\ unsaved \in [Nodes -> Seq(Entries)]
    /\ flushes \in [Calls -> Flush]
    /\ \A x \in Calls : flushes[x].locked <= Len(flushes[x].batch)
    /\ counted \in [Tables -> [Reports -> Nat]]
    /\ lost \subseteq Tables \X Reports
    /\ seen \in [Nodes -> SUBSET Features] /\ saving \in [Nodes -> SUBSET Features]
    /\ lastSeen \subseteq Features /\ unseen \subseteq Features

Init ==
    /\ arrived = [r \in Reports |-> {}]
    /\ unsaved = [n \in Nodes |-> <<>>]
    /\ flushes = [x \in Calls |-> NoCall]
    /\ counted = [t \in Tables |-> [r \in Reports |-> 0]]
    /\ lost = {}
    /\ seen = [n \in Nodes |-> {}] /\ saving = [n \in Nodes |-> {}]
    /\ lastSeen = {} /\ unseen = {}

-----------------------------------------------------------------------------
ReportsOf(entries) == UNION {entries[i].reports : i \in DOMAIN entries}

RowsOf(entries) == {entries[i].row : i \in DOMAIN entries}

(* collapseHourlyMetrics, for the counters that report r has for `rows': a *)
(* row that is there keeps its place, `fresh' are the others.              *)
Collapsed(entries, rows, fresh, r) ==
    [i \in DOMAIN entries |->
        IF entries[i].row \in rows THEN [entries[i] EXCEPT !.reports = @ \cup {r}]
        ELSE entries[i]]
    \o [i \in DOMAIN fresh |-> [row |-> fresh[i], reports |-> {r}]]

(* registerBulkMetrics, with the features that were evaluated, in whatever *)
(* order the report names them: the counters, and the last use.            *)
Register(n, r) ==
    /\ arrived[r] = {}
    /\ \E fs \in (SUBSET Features) \ {{}}, hour \in Hours :
           /\ \E fresh \in SetToSeqs((fs \X {hour}) \ RowsOf(unsaved[n])) :
                  unsaved' = [unsaved EXCEPT ![n] = Collapsed(@, fs \X {hour}, fresh, r)]
           /\ arrived' = [arrived EXCEPT ![r] = fs]
           /\ seen' = [seen EXCEPT ![n] = @ \cup fs]
    /\ UNCHANGED <<flushes, counted, lost, saving, lastSeen, unseen>>

(* Seeded fault: the rows in the order in which they came.                 *)
AsTheyCame(entries) == {[i \in DOMAIN entries |-> i]}

(* The places of the entries sorted by feature, application and            *)
(* environment; among rows that differ in the hour alone the sort is       *)
(* stable.                                                                 *)
InOrder(entries) ==
    {place \in Bijection(DOMAIN entries, DOMAIN entries) :
        \A i, j \in DOMAIN entries :
            LET e == entries[place[i]].row
                f == entries[place[j]].row
            IN  i < j => e[1] < f[1] \/ (e[1] = f[1] /\ place[i] < place[j])}

(* Seeded fault: what has been written still in memory.                    *)
Uncleared(n) == unsaved[n]

(* What bulkAdd leaves in memory: it takes a copy before it waits.         *)
Remaining(n) == <<>>

StartFlush(n) ==
    /\ unsaved[n] # <<>>
    /\ \E s \in Slots, place \in InOrder(unsaved[n]) :
           /\ flushes[<<n, s>>] = NoCall
           /\ flushes' = [flushes EXCEPT ![<<n, s>>] =
                  [table |-> "totals", locked |-> 0,
                   batch |-> [i \in DOMAIN unsaved[n] |-> unsaved[n][place[i]]]]]
    /\ unsaved' = [unsaved EXCEPT ![n] = Remaining(n)]
    /\ UNCHANGED <<arrived, counted, lost, seenVars>>

-----------------------------------------------------------------------------
Writing(x) == flushes[x].table # "none"
Held(x) == {flushes[x].batch[i].row : i \in 1..flushes[x].locked}
Done(x) == flushes[x].locked = Len(flushes[x].batch)
NextRow(x) == flushes[x].batch[flushes[x].locked + 1].row

WaitsFor(x, y) ==
    /\ x # y /\ Writing(x) /\ ~Done(x)
    /\ flushes[y].table = flushes[x].table
    /\ NextRow(x) \in Held(y)

LockRow(x) ==
    /\ Writing(x) /\ ~Done(x)
    /\ \A y \in Calls : ~WaitsFor(x, y)
    /\ flushes' = [flushes EXCEPT ![x].locked = @ + 1]
    /\ UNCHANGED <<arrived, unsaved, counted, lost, seenVars>>

(* batchInsertMetrics: one statement for the totals, then one for the      *)
(* variants, each committed by itself.                                     *)
Commit(x) ==
    LET call == flushes[x] IN
    /\ Writing(x) /\ Done(x)
    /\ counted' = [counted EXCEPT ![call.table] =
           [r \in Reports |-> IF r \in ReportsOf(call.batch) THEN @[r] + 1 ELSE @[r]]]
    /\ flushes' = [flushes EXCEPT ![x] =
           IF call.table = "totals" THEN [call EXCEPT !.table = "variants", !.locked = 0]
           ELSE NoCall]
    /\ UNCHANGED <<arrived, unsaved, lost, seenVars>>

Pending(x) == IF flushes[x].table = "totals" THEN Tables ELSE {flushes[x].table} \ {"none"}

(* A statement fails: its rows are rolled back, bulkAdd rejects, the       *)
(* rejection is printed, and the copy is gone.                             *)
FlushFails(x) ==
    /\ Writing(x)
    /\ lost' = lost \cup (Pending(x) \X ReportsOf(flushes[x].batch))
    /\ flushes' = [flushes EXCEPT ![x] = NoCall]
    /\ UNCHANGED <<arrived, unsaved, counted, seenVars>>

-----------------------------------------------------------------------------
(* LastSeenService.store, one at a time: the map is replaced, ...          *)
StartSaving(n) ==
    /\ seen[n] # {} /\ saving[n] = {}
    /\ saving' = [saving EXCEPT ![n] = seen[n]]
    /\ seen' = [seen EXCEPT ![n] = {}]
    /\ UNCHANGED <<arrived, metricVars, lastSeen, unseen>>

(* Seeded fault: the map emptied only when it has been written.            *)
SavingClears(n) ==
    /\ saving[n] # {}
    /\ lastSeen' = lastSeen \cup saving[n]
    /\ saving' = [saving EXCEPT ![n] = {}]
    /\ seen' = [seen EXCEPT ![n] = {}]
    /\ UNCHANGED <<arrived, metricVars, unseen>>

(* ... and written, or setLastSeen logs its error and the dates are lost.  *)
SavingEnds(n) ==
    /\ saving[n] # {}
    /\ \/ lastSeen' = lastSeen \cup saving[n] /\ UNCHANGED unseen
       \/ unseen' = unseen \cup saving[n] /\ UNCHANGED lastSeen
    /\ saving' = [saving EXCEPT ![n] = {}]
    /\ UNCHANGED <<arrived, metricVars, seen>>

(* The node stops, gracefully or not, and starts again: nothing is written *)
(* before it does.                                                         *)
NodeStops(n) ==
    LET mine == {<<n, s>> : s \in Slots} IN
    /\ lost' = lost \cup (Tables \X ReportsOf(unsaved[n]))
                    \cup UNION {Pending(x) \X ReportsOf(flushes[x].batch) : x \in mine}
    /\ unsaved' = [unsaved EXCEPT ![n] = <<>>]
    /\ flushes' = [x \in Calls |-> IF x \in mine THEN NoCall ELSE flushes[x]]
    /\ unseen' = unseen \cup seen[n] \cup saving[n]
    /\ seen' = [seen EXCEPT ![n] = {}]
    /\ saving' = [saving EXCEPT ![n] = {}]
    /\ UNCHANGED <<arrived, counted, lastSeen>>

Next ==
    \/ \E n \in Nodes : \/ \E r \in Reports : Register(n, r)
                        \/ StartFlush(n) \/ StartSaving(n) \/ SavingEnds(n) \/ NodeStops(n)
    \/ \E x \in Calls : LockRow(x) \/ Commit(x) \/ FlushFails(x)

Spec == Init /\ [][Next]_vars

(* Fairness: both jobs keep running and the database goes on; nothing is   *)
(* assumed of failures, of reports or of nodes.                            *)
Fairness ==
    /\ \A n \in Nodes : WF_vars(StartFlush(n)) /\ WF_vars(StartSaving(n)) /\ WF_vars(SavingEnds(n))
    /\ \A x \in Calls : WF_vars(LockRow(x) \/ Commit(x))

FairSpec == Spec /\ Fairness

-----------------------------------------------------------------------------
(* No report is counted twice, and none vanishes: in each table it is      *)
(* counted once, or is still in memory or under way, or was lost with a    *)
(* failed statement or a stopped node.                                     *)
CountedOnce ==
    \A t \in Tables, r \in Reports :
        counted[t][r]
          + Cardinality({n \in Nodes : r \in ReportsOf(unsaved[n])})
          + Cardinality({x \in Calls : t \in Pending(x) /\ r \in ReportsOf(flushes[x].batch)})
          + (IF <<t, r>> \in lost THEN 1 ELSE 0)
        = IF arrived[r] = {} THEN 0 ELSE 1

(* "Sort the rows to avoid deadlocks": no bulkAdd calls, of one node or of *)
(* several, wait for each other in a circle.                               *)
NoDeadlock ==
    \A xs \in SUBSET {x \in Calls : Writing(x)} :
        xs # {} => \E x \in xs : \A y \in xs : ~WaitsFor(x, y)

(* Every report is counted in the end, unless it is lost; and so is the    *)
(* use of its feature.  Nobody waits for ever on rows that others hold.    *)
ReportsSettle ==
    \A r \in Reports :
        arrived[r] # {} ~> \A t \in Tables : counted[t][r] = 1 \/ <<t, r>> \in lost

UseIsSeen ==
    \A f \in Features :
        (\E r \in Reports : f \in arrived[r]) ~> f \in lastSeen \cup unseen
=============================================================================
