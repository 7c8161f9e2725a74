------------------------ MODULE ClientMetrics_proofs ------------------------
(***************************************************************************)
(* Proofs about ClientMetrics, for any nodes, slots, features and reports. *)
(*                                                                         *)
(* CountedOnce says how many places a report is in; the invariant says     *)
(* which they can be at the same time, per table: at most one, and one if  *)
(* it arrived.  NoDeadlock rests on two properties of every batch, that it *)
(* has no row twice and is sorted: a call that waits then waits for a row  *)
(* beyond all that it has locked, so the features waited for grow along a  *)
(* circle.  Rows of one feature in several hours break it, so all the      *)
(* reports are assumed to be of one hour.                                  *)
(***************************************************************************)
EXTENDS ClientMetrics, SequenceTheorems, FiniteSetTheorems, WellFoundedInduction, TLAPS

DistinctRows(entries) ==
    \A i, j \in DOMAIN entries : i # j => entries[i].row # entries[j].row

Sorted(entries) ==
    \A i, j \in DOMAIN entries : i < j => entries[i].row[1] <= entries[j].row[1]

(* The rows of a buffer and of a batch.                                    *)
RowsInv ==
    /\ \A n \in Nodes : DistinctRows(unsaved[n])
    /\ \A x \in Calls : DistinctRows(flushes[x].batch) /\ Sorted(flushes[x].batch)

(* The places where table t may have report r.                             *)
InMemory(n, r) == r \in ReportsOf(unsaved[n])
UnderWay(x, t, r) == t \in Pending(x) /\ r \in ReportsOf(flushes[x].batch)

(* It is in one of them at most, and in one if it has arrived.             *)
OnePlace(t, r) ==
    /\ counted[t][r] \in {0, 1}
    /\ counted[t][r] = 1 => <<t, r>> \notin lost
    /\ \A m, n \in Nodes : InMemory(m, r) /\ InMemory(n, r) => m = n
    /\ \A x, y \in Calls : UnderWay(x, t, r) /\ UnderWay(y, t, r) => x = y
    /\ \A n \in Nodes, x \in Calls : ~(InMemory(n, r) /\ UnderWay(x, t, r))
    /\ (\E n \in Nodes : InMemory(n, r)) \/ (\E x \in Calls : UnderWay(x, t, r)) =>
           counted[t][r] = 0 /\ <<t, r>> \notin lost
    /\ arrived[r] # {} <=>
           \/ counted[t][r] = 1 \/ <<t, r>> \in lost
           \/ \E n \in Nodes : InMemory(n, r)
           \/ \E x \in Calls : UnderWay(x, t, r)

PlacesInv == \A t \in Tables, r \in Reports : OnePlace(t, r)

Inv == TypeOK /\ RowsInv /\ PlacesInv

-----------------------------------------------------------------------------
(* What the places of a sequence are.                                      *)
LEMMA Places == \A S : \A s \in Seq(S) : DOMAIN s = 1..Len(s) /\ \A i \in DOMAIN s : s[i] \in S
BY ElementOfSeq

(* An entry has a row, of some feature.                                    *)
LEMMA RowsHaveFeatures ==
    \A e \in Entries : e.row \in Rows /\ e.row[1] \in Features /\ e.row[1] \in Nat
BY NumFeaturesAssumption DEF Entries, Rows, Features

(* collapseHourlyMetrics adds one report to the rows it names, and leaves  *)
(* no row twice.                                                           *)
LEMMA CollapsedRows ==
    ASSUME NEW entries \in Seq(Entries), DistinctRows(entries), NEW r \in Reports,
           NEW rows \in SUBSET Rows, rows # {}, IsFiniteSet(rows),
           NEW fresh \in SetToSeqs(rows \ RowsOf(entries))
    PROVE  /\ Collapsed(entries, rows, fresh, r) \in Seq(Entries)
           /\ DistinctRows(Collapsed(entries, rows, fresh, r))
           /\ ReportsOf(Collapsed(entries, rows, fresh, r)) = ReportsOf(entries) \cup {r}
<1> DEFINE old == [i \in DOMAIN entries |->
               IF entries[i].row \in rows THEN [entries[i] EXCEPT !.reports = @ \cup {r}]
               ELSE entries[i]]
           new == [i \in DOMAIN fresh |-> [row |-> fresh[i], reports |-> {r}]]
           all == Collapsed(entries, rows, fresh, r)
           others == rows \ RowsOf(entries)
<1>1. /\ DOMAIN entries = 1..Len(entries) /\ Len(entries) \in Nat
      /\ \A i \in DOMAIN entries : entries[i] \in Entries
  BY Places
<1>2. Cardinality(others) \in Nat /\ (Cardinality(others) = 0 <=> others = {})
  <2>1. others \in SUBSET rows  OBVIOUS
  <2> HIDE DEF others
  <2>2. IsFiniteSet(others)  BY <2>1, FS_Subset
  <2> QED BY <2>2, FS_CardinalityType, FS_EmptySet
<1>3. /\ DOMAIN fresh = 1..Cardinality(others)
      /\ \A i \in DOMAIN fresh : fresh[i] \in others
      /\ \A i, j \in DOMAIN fresh : i # j => fresh[i] # fresh[j]
  BY DEF SetToSeqs
<1>4. old \in Seq(Entries) /\ Len(old) = Len(entries)
  <2>1. old \in [1..Len(entries) -> Entries]  BY <1>1 DEF Entries
  <2> QED BY <1>1, <2>1
<1>5. new \in Seq(Entries) /\ Len(new) = Cardinality(others)
  <2>1. new \in [1..Cardinality(others) -> Entries]  BY <1>3 DEF Entries
  <2> HIDE DEF others, new
  <2> QED BY <1>2, <2>1
<1> HIDE DEF others
<1>6. /\ all \in Seq(Entries) /\ Len(all) = Len(entries) + Cardinality(others)
      /\ \A i \in 1..Len(all) :
             all[i] = IF i <= Len(entries) THEN old[i] ELSE new[i - Len(entries)]
  <2>1. all = old \o new  BY DEF Collapsed
  <2> HIDE DEF all, old, new
  <2>2. /\ old \o new \in Seq(Entries) /\ Len(old \o new) = Len(old) + Len(new)
        /\ \A i \in 1..(Len(old) + Len(new)) :
               (old \o new)[i] = IF i <= Len(old) THEN old[i] ELSE new[i - Len(old)]
    BY <1>4, <1>5, ConcatProperties
  <2> QED BY <1>4, <1>5, <2>1, <2>2
<1>7. \A i \in DOMAIN entries :
          /\ i \in DOMAIN all /\ all[i].row = entries[i].row
          /\ all[i].reports = entries[i].reports
                              \cup (IF entries[i].row \in rows THEN {r} ELSE {})
  <2>1. \A i \in DOMAIN entries : i \in DOMAIN all /\ all[i] = old[i]
    <3> HIDE DEF all, old, new
    <3> QED BY <1>1, <1>2, <1>6
  <2> HIDE DEF all
  <2> QED BY <1>1, <2>1 DEF Entries
<1>8. \A i \in DOMAIN fresh :
          /\ Len(entries) + i \in DOMAIN all
          /\ all[Len(entries) + i].row = fresh[i] /\ all[Len(entries) + i].reports = {r}
  <2>1. \A i \in DOMAIN fresh : /\ Len(entries) + i \in DOMAIN all
                                /\ all[Len(entries) + i] = new[i]
    <3> HIDE DEF all, old, new
    <3> QED BY <1>1, <1>2, <1>3, <1>6
  <2>2. \A i \in DOMAIN fresh : new[i].row = fresh[i] /\ new[i].reports = {r}
    OBVIOUS
  <2> HIDE DEF all, new
  <2> QED BY <2>1, <2>2
<1>9. \A k \in DOMAIN all : \/ k \in DOMAIN entries
                            \/ \E i \in DOMAIN fresh : k = Len(entries) + i
  <2> HIDE DEF all, old, new
  <2> SUFFICES ASSUME NEW k \in DOMAIN all, k \notin DOMAIN entries
               PROVE  k - Len(entries) \in DOMAIN fresh /\ k = Len(entries) + (k - Len(entries))
    OBVIOUS
  <2>1. k \in 1..(Len(entries) + Cardinality(others))  BY <1>6
  <2> QED BY <1>1, <1>2, <1>3, <2>1
<1> HIDE DEF all, old, new
<1>10. DistinctRows(all)
  <2> SUFFICES ASSUME NEW k \in DOMAIN all, NEW l \in DOMAIN all, k # l
               PROVE  all[k].row # all[l].row
    BY DEF DistinctRows
  <2>1. CASE k \in DOMAIN entries /\ l \in DOMAIN entries
    BY <1>7, <2>1 DEF DistinctRows
  <2>2. ASSUME NEW i \in DOMAIN entries, NEW j \in DOMAIN fresh
        PROVE  all[i].row # all[Len(entries) + j].row
    <3>1. all[i].row \in RowsOf(entries)  BY <1>7 DEF RowsOf
    <3>2. all[Len(entries) + j].row \notin RowsOf(entries)  BY <1>3, <1>8 DEF others
    <3> QED BY <3>1, <3>2
  <2>3. ASSUME NEW i \in DOMAIN fresh, NEW j \in DOMAIN fresh, i # j
        PROVE  all[Len(entries) + i].row # all[Len(entries) + j].row
    BY <1>3, <1>8, <2>3
  <2> QED BY <1>9, <2>1, <2>2, <2>3
<1>11. ReportsOf(all) = ReportsOf(entries) \cup {r}
  <2>1. ASSUME NEW q \in ReportsOf(all)  PROVE q \in ReportsOf(entries) \cup {r}
    <3>1. PICK k \in DOMAIN all : q \in all[k].reports  BY DEF ReportsOf
    <3>2. CASE k \in DOMAIN entries  BY <1>7, <3>1, <3>2 DEF ReportsOf
    <3>3. CASE \E i \in DOMAIN fresh : k = Len(entries) + i  BY <1>8, <3>1, <3>3
    <3> QED BY <1>9, <3>2, <3>3
  <2>2. ASSUME NEW q \in ReportsOf(entries)  PROVE q \in ReportsOf(all)
    BY <1>7 DEF ReportsOf
  <2>3. r \in ReportsOf(all)
    <3>1. PICK row \in rows : TRUE  OBVIOUS
    <3>2. CASE row \in RowsOf(entries)
      BY <1>7, <3>2 DEF RowsOf, ReportsOf
    <3>3. CASE row \notin RowsOf(entries)
      <4>1. 1 \in DOMAIN fresh  BY <1>2, <1>3, <3>3 DEF others
      <4> QED BY <1>8, <4>1 DEF ReportsOf
    <3> QED BY <3>2, <3>3
  <2> QED BY <2>1, <2>2, <2>3
<1> QED BY <1>6, <1>10, <1>11 DEF all

(* The sort of batchInsertMetrics loses nothing.                           *)
LEMMA SortedRows ==
    ASSUME NEW entries \in Seq(Entries), DistinctRows(entries), NEW place \in InOrder(entries),
           NEW batch, batch = [i \in DOMAIN entries |-> entries[place[i]]]
    PROVE  /\ batch \in Seq(Entries) /\ DistinctRows(batch) /\ Sorted(batch)
           /\ ReportsOf(batch) = ReportsOf(entries)
<1>1. /\ DOMAIN entries = 1..Len(entries) /\ Len(entries) \in Nat
      /\ \A i \in DOMAIN entries : entries[i] \in Entries
  BY Places
<1>2. /\ \A i \in DOMAIN entries : place[i] \in DOMAIN entries
      /\ \A i, j \in DOMAIN entries : i # j => place[i] # place[j]
      /\ \A j \in DOMAIN entries : \E i \in DOMAIN entries : place[i] = j
  BY DEF InOrder, Bijection, Injection, Surjection, IsInjective
<1>3. batch \in [1..Len(entries) -> Entries]  BY <1>1, <1>2
<1>4. /\ batch \in Seq(Entries) /\ DOMAIN batch = DOMAIN entries
      /\ \A i \in DOMAIN entries : batch[i] = entries[place[i]]
  BY <1>1, <1>3
<1>5. DistinctRows(batch)
  <2> SUFFICES ASSUME NEW i \in DOMAIN entries, NEW j \in DOMAIN entries, i # j
               PROVE  entries[place[i]].row # entries[place[j]].row
    BY <1>4 DEF DistinctRows
  <2> QED BY <1>2 DEF DistinctRows
<1>6. Sorted(batch)
  <2> SUFFICES ASSUME NEW i \in DOMAIN entries, NEW j \in DOMAIN entries, i < j
               PROVE  entries[place[i]].row[1] <= entries[place[j]].row[1]
    BY <1>4 DEF Sorted
  <2>1. /\ entries[place[i]].row[1] \in Nat /\ entries[place[j]].row[1] \in Nat
    BY <1>1, <1>2, RowsHaveFeatures
  <2> QED BY <2>1 DEF InOrder
<1>7. ReportsOf(batch) = ReportsOf(entries)
  <2>1. ASSUME NEW q \in ReportsOf(batch)  PROVE q \in ReportsOf(entries)
    <3>1. PICK i \in DOMAIN entries : q \in entries[place[i]].reports
      BY <1>4 DEF ReportsOf
    <3>2. place[i] \in DOMAIN entries  BY <1>2
    <3> QED BY <3>1, <3>2 DEF ReportsOf
  <2>2. ASSUME NEW q \in ReportsOf(entries)  PROVE q \in ReportsOf(batch)
    <3>1. PICK j \in DOMAIN entries : q \in entries[j].reports  BY DEF ReportsOf
    <3>2. PICK i \in DOMAIN entries : place[i] = j  BY <1>2
    <3> QED BY <1>4, <3>1, <3>2 DEF ReportsOf
  <2> QED BY <2>1, <2>2
<1> QED BY <1>4, <1>5, <1>6, <1>7

-----------------------------------------------------------------------------
(* The empty buffer and no call.                                           *)
LEMMA NothingYet ==
    /\ <<>> \in Seq(Entries) /\ DistinctRows(<<>>) /\ Sorted(<<>>) /\ ReportsOf(<<>>) = {}
    /\ NoCall \in Flush /\ NoCall.table = "none" /\ NoCall.batch = <<>> /\ NoCall.locked = 0
BY DEF DistinctRows, Sorted, ReportsOf, NoCall, Flush

LEMMA InvInit == Init => Inv
<1> SUFFICES ASSUME Init  PROVE Inv  OBVIOUS
<1>1. TypeOK  BY NothingYet DEF Init, TypeOK, Calls
<1>2. RowsInv  BY NothingYet DEF Init, RowsInv, Calls
<1>3. \A n \in Nodes, r \in Reports : ~InMemory(n, r)
  BY NothingYet DEF Init, InMemory
<1>4. \A x \in Calls, t \in Tables, r \in Reports : ~UnderWay(x, t, r)
  BY NothingYet DEF Init, UnderWay
<1>5. PlacesInv  BY <1>3, <1>4 DEF Init, PlacesInv, OnePlace
<1> QED BY <1>1, <1>2, <1>5 DEF Inv

(* registerBulkMetrics puts a report that is nowhere into one buffer.      *)
LEMMA RegisterKeeps ==
    ASSUME Inv, NEW n \in Nodes, NEW r \in Reports, Register(n, r)
    PROVE  Inv'
<1>1. PICK fs \in (SUBSET Features) \ {{}}, hour \in Hours :
          /\ \E fresh \in SetToSeqs((fs \X {hour}) \ RowsOf(unsaved[n])) :
                 unsaved' = [unsaved EXCEPT ![n] = Collapsed(@, fs \X {hour}, fresh, r)]
          /\ arrived' = [arrived EXCEPT ![r] = fs]
          /\ seen' = [seen EXCEPT ![n] = @ \cup fs]
  BY Zenon DEF Register
<1>2. PICK fresh \in SetToSeqs((fs \X {hour}) \ RowsOf(unsaved[n])) :
          unsaved' = [unsaved EXCEPT ![n] = Collapsed(@, fs \X {hour}, fresh, r)]
  BY <1>1
<1>3. arrived[r] = {} /\ UNCHANGED <<flushes, counted, lost, saving, lastSeen, unseen>>
  BY DEF Register
<1> DEFINE buffer == Collapsed(unsaved[n], fs \X {hour}, fresh, r)
<1>4. unsaved \in [Nodes -> Seq(Entries)] /\ DistinctRows(unsaved[n])
  BY DEF Inv, TypeOK, RowsInv
<1>5. IsFiniteSet(fs \X {hour})
  <2>1. IsFiniteSet(Features)  BY NumFeaturesAssumption, FS_Interval DEF Features
  <2>2. IsFiniteSet(fs)  BY <2>1, FS_Subset
  <2> QED BY <2>2, FS_Singleton, FS_Product
<1>6. /\ buffer \in Seq(Entries) /\ DistinctRows(buffer)
      /\ ReportsOf(buffer) = ReportsOf(unsaved[n]) \cup {r}
  <2>1. fs \X {hour} \in SUBSET Rows  BY DEF Rows
  <2>2. fs \X {hour} # {}
    <3>1. PICK f \in fs : TRUE  OBVIOUS
    <3>2. <<f, hour>> \in fs \X {hour}  OBVIOUS
    <3> QED BY <3>2
  <2> HIDE DEF buffer
  <2> QED BY <1>4, <1>5, <2>1, <2>2, CollapsedRows DEF buffer
<1>7. unsaved' = [unsaved EXCEPT ![n] = buffer]  BY <1>2
<1> HIDE DEF buffer
<1>8. TypeOK'  BY <1>1, <1>3, <1>4, <1>6, <1>7 DEF Inv, TypeOK
<1>9. RowsInv'  BY <1>3, <1>4, <1>6, <1>7 DEF Inv, RowsInv
<1>10. \A m \in Nodes, q \in Reports : InMemory(m, q)' <=> InMemory(m, q) \/ (m = n /\ q = r)
  BY <1>4, <1>6, <1>7 DEF InMemory
<1>11. \A x \in Calls, t \in Tables, q \in Reports : UnderWay(x, t, q)' <=> UnderWay(x, t, q)
  BY <1>3 DEF UnderWay, Pending
<1>12. PlacesInv'
  <2> SUFFICES ASSUME NEW t \in Tables, NEW q \in Reports  PROVE OnePlace(t, q)'
    BY DEF PlacesInv
  <2>1. OnePlace(t, q)  BY DEF Inv, PlacesInv
  <2>2. CASE q = r
    <3>1. arrived'[r] # {}  BY <1>1 DEF Inv, TypeOK
    <3>2. /\ counted[t][r] = 0 /\ <<t, r>> \notin lost
          /\ \A m \in Nodes : ~InMemory(m, r)
          /\ \A x \in Calls : ~UnderWay(x, t, r)
      BY <1>3, <2>1, <2>2 DEF OnePlace
    <3> QED BY <1>3, <1>10, <1>11, <2>2, <3>1, <3>2 DEF OnePlace
  <2>3. CASE q # r
    <3>1. arrived'[q] = arrived[q]  BY <1>1, <2>3 DEF Inv, TypeOK
    <3> QED BY <1>3, <1>10, <1>11, <2>1, <2>3, <3>1 DEF OnePlace
  <2> QED BY <2>2, <2>3
<1> QED BY <1>8, <1>9, <1>12 DEF Inv

(* The reports of a sequence of entries are reports.                       *)
LEMMA BatchReports == \A entries \in Seq(Entries) : ReportsOf(entries) \subseteq Reports
<1> SUFFICES ASSUME NEW entries \in Seq(Entries), NEW r \in ReportsOf(entries)
             PROVE  r \in Reports
  OBVIOUS
<1>1. PICK i \in DOMAIN entries : r \in entries[i].reports  BY DEF ReportsOf
<1>2. entries[i] \in Entries  BY Places
<1> QED BY <1>1, <1>2 DEF Entries

(* What no call is of: of no table, with no report.                        *)
LEMMA NoCallHasNothing ==
    \A x \in Calls, t \in Tables, r \in Reports :
        flushes[x] = NoCall => ~UnderWay(x, t, r)
BY NothingYet DEF UnderWay

(* bulkAdd takes the reports of a buffer into a call of its own.           *)
LEMMA StartFlushKeeps ==
    ASSUME Inv, NEW n \in Nodes, StartFlush(n)
    PROVE  Inv'
<1>1. PICK s \in Slots, place \in InOrder(unsaved[n]) :
          /\ flushes[<<n, s>>] = NoCall
          /\ flushes' = [flushes EXCEPT ![<<n, s>>] =
                 [table |-> "totals", locked |-> 0,
                  batch |-> [i \in DOMAIN unsaved[n] |-> unsaved[n][place[i]]]]]
  BY DEF StartFlush
<1>2. unsaved' = [unsaved EXCEPT ![n] = <<>>]  BY DEF StartFlush, Remaining
<1>3. UNCHANGED <<arrived, counted, lost, seenVars>>  BY DEF StartFlush
<1>4. PICK batch : batch = [i \in DOMAIN unsaved[n] |-> unsaved[n][place[i]]]  OBVIOUS
<1>5. /\ unsaved \in [Nodes -> Seq(Entries)] /\ DistinctRows(unsaved[n])
      /\ flushes \in [Calls -> Flush]
  BY DEF Inv, TypeOK, RowsInv
<1>6. /\ batch \in Seq(Entries) /\ DistinctRows(batch) /\ Sorted(batch)
      /\ ReportsOf(batch) = ReportsOf(unsaved[n])
  BY <1>4, <1>5, SortedRows
<1>7. PICK z \in Calls : z = <<n, s>>  BY DEF Calls
<1>8. /\ flushes[z] = NoCall
      /\ flushes' = [flushes EXCEPT ![z] = [table |-> "totals", locked |-> 0, batch |-> batch]]
  BY <1>1, <1>4, <1>7
<1>9. [table |-> "totals", locked |-> 0, batch |-> batch] \in Flush /\ 0 <= Len(batch)
  BY <1>6 DEF Flush, Tables
<1>10. TypeOK'
  <2>1. unsaved' \in [Nodes -> Seq(Entries)]  BY <1>2, <1>5
  <2>2. flushes' \in [Calls -> Flush]  BY <1>5, <1>8, <1>9
  <2>3. \A x \in Calls : flushes'[x].locked <= Len(flushes'[x].batch)
    BY <1>5, <1>8, <1>9 DEF Inv, TypeOK
  <2> QED BY <1>3, <2>1, <2>2, <2>3 DEF Inv, TypeOK, seenVars
<1>11. RowsInv'
  BY <1>2, <1>5, <1>6, <1>8, NothingYet DEF Inv, RowsInv
<1>12. \A m \in Nodes, q \in Reports : InMemory(m, q)' <=> InMemory(m, q) /\ m # n
  BY <1>2, <1>5, NothingYet DEF InMemory
<1>13. \A x \in Calls, t \in Tables, q \in Reports :
           /\ ~UnderWay(z, t, q)
           /\ UnderWay(x, t, q)' <=> IF x = z THEN InMemory(n, q) ELSE UnderWay(x, t, q)
  BY <1>5, <1>6, <1>8, NoCallHasNothing DEF UnderWay, Pending, InMemory
<1>14. PlacesInv'
  <2> SUFFICES ASSUME NEW t \in Tables, NEW q \in Reports  PROVE OnePlace(t, q)'
    BY DEF PlacesInv
  <2>1. OnePlace(t, q)  BY DEF Inv, PlacesInv
  <2> QED BY <1>3, <1>12, <1>13, <2>1 DEF OnePlace
<1> QED BY <1>10, <1>11, <1>14 DEF Inv

(* A statement locks one more of the rows that it has.                     *)
LEMMA LockRowKeeps ==
    ASSUME Inv, NEW z \in Calls, LockRow(z)
    PROVE  Inv'
<1>1. /\ Writing(z) /\ ~Done(z)
      /\ flushes' = [flushes EXCEPT ![z].locked = @ + 1]
      /\ UNCHANGED <<arrived, unsaved, counted, lost, seenVars>>
  BY DEF LockRow
<1>2. flushes \in [Calls -> Flush] /\ flushes[z].locked <= Len(flushes[z].batch)
  BY DEF Inv, TypeOK
<1>3. flushes[z].locked \in Nat /\ Len(flushes[z].batch) \in Nat
  <2>1. flushes[z].locked \in Nat /\ flushes[z].batch \in Seq(Entries)  BY <1>2 DEF Flush
  <2> QED BY <2>1
<1>4. \A x \in Calls : /\ flushes'[x].batch = flushes[x].batch
                       /\ flushes'[x].table = flushes[x].table
                       /\ flushes'[x].locked = IF x = z THEN flushes[z].locked + 1
                                               ELSE flushes[x].locked
  BY <1>1, <1>2 DEF Flush
<1>5. TypeOK'
  <2>1. flushes' \in [Calls -> Flush]
    <3>1. [flushes[z] EXCEPT !.locked = @ + 1] \in Flush
      <4>1. flushes[z] \in Flush /\ flushes[z].locked + 1 \in Nat  BY <1>2, <1>3
      <4> QED BY <4>1 DEF Flush
    <3> QED BY <1>1, <1>2, <3>1
  <2>2. \A x \in Calls : flushes'[x].locked <= Len(flushes'[x].batch)
    BY <1>1, <1>2, <1>3, <1>4 DEF Inv, TypeOK, Done
  <2> QED BY <1>1, <2>1, <2>2 DEF Inv, TypeOK, seenVars
<1>6. RowsInv'  BY <1>1, <1>4 DEF Inv, RowsInv
<1>7. PlacesInv'
  <2>1. \A m \in Nodes, q \in Reports : InMemory(m, q)' <=> InMemory(m, q)
    BY <1>1 DEF InMemory
  <2>2. \A x \in Calls, t \in Tables, q \in Reports : UnderWay(x, t, q)' <=> UnderWay(x, t, q)
    BY <1>4 DEF UnderWay, Pending
  <2> SUFFICES ASSUME NEW t \in Tables, NEW q \in Reports  PROVE OnePlace(t, q)'
    BY DEF PlacesInv
  <2>3. OnePlace(t, q)  BY DEF Inv, PlacesInv
  <2> QED BY <1>1, <2>1, <2>2, <2>3 DEF OnePlace
<1> QED BY <1>5, <1>6, <1>7 DEF Inv

(* A statement is committed: its table counts the reports of the call, and *)
(* has nothing of it under way any more; the other table has what it had.  *)
LEMMA CommitKeeps ==
    ASSUME Inv, NEW z \in Calls, Commit(z)
    PROVE  Inv'
<1> DEFINE call == flushes[z]
           next == IF call.table = "totals"
                   THEN [call EXCEPT !.table = "variants", !.locked = 0]
                   ELSE NoCall
<1>1. /\ Writing(z)
      /\ counted' = [counted EXCEPT ![call.table] =
             [r \in Reports |-> IF r \in ReportsOf(call.batch) THEN @[r] + 1 ELSE @[r]]]
      /\ flushes' = [flushes EXCEPT ![z] = next]
      /\ UNCHANGED <<arrived, unsaved, lost, seenVars>>
  BY DEF Commit
<1>2. /\ flushes \in [Calls -> Flush] /\ call \in Flush /\ call.table \in Tables
      /\ counted \in [Tables -> [Reports -> Nat]]
      /\ call.batch \in Seq(Entries)
  BY <1>1 DEF Inv, TypeOK, Writing, Flush
<1>3. next \in Flush /\ next.batch \in {call.batch, <<>>} /\ next.locked = 0
  <2>1. CASE call.table = "totals"  BY <1>2, <2>1 DEF Flush, Tables
  <2>2. CASE call.table # "totals"  BY <2>2, NothingYet
  <2> QED BY <2>1, <2>2
<1>4. \A t \in Tables, q \in Reports :
          counted'[t][q] = IF UnderWay(z, t, q) /\ t = call.table
                           THEN counted[t][q] + 1 ELSE counted[t][q]
  BY <1>1, <1>2 DEF UnderWay, Pending, Tables
<1>5. \A x \in Calls, t \in Tables, q \in Reports :
          UnderWay(x, t, q)' <=> UnderWay(x, t, q) /\ ~(x = z /\ t = call.table)
  <2> SUFFICES ASSUME NEW x \in Calls, NEW t \in Tables, NEW q \in Reports
               PROVE  UnderWay(x, t, q)' <=> UnderWay(x, t, q) /\ ~(x = z /\ t = call.table)
    OBVIOUS
  <2>1. CASE x # z  BY <1>1, <1>2, <2>1 DEF UnderWay, Pending
  <2>2. CASE x = z /\ call.table = "totals"
    <3>1. flushes'[z].table = "variants" /\ flushes'[z].batch = call.batch
      BY <1>1, <1>2, <2>2 DEF Flush
    <3> QED BY <2>2, <3>1 DEF UnderWay, Pending, Tables
  <2>3. CASE x = z /\ call.table = "variants"
    <3>1. flushes'[z] = NoCall  BY <1>1, <1>2, <2>3
    <3> QED BY <2>3, <3>1, NothingYet DEF UnderWay, Pending
  <2> QED BY <1>2, <2>1, <2>2, <2>3 DEF Tables
<1>6. \A m \in Nodes, q \in Reports : InMemory(m, q)' <=> InMemory(m, q)
  BY <1>1 DEF InMemory
<1> HIDE DEF next
<1>7. TypeOK'
  <2>1. flushes' \in [Calls -> Flush]  BY <1>1, <1>2, <1>3
  <2>2. \A x \in Calls : flushes'[x].locked <= Len(flushes'[x].batch)
    <3>1. 0 <= Len(next.batch)  BY <1>2, <1>3
    <3> QED BY <1>1, <1>2, <1>3, <3>1 DEF Inv, TypeOK
  <2>3. counted' \in [Tables -> [Reports -> Nat]]
    <3>1. [r \in Reports |-> IF r \in ReportsOf(call.batch) THEN counted[call.table][r] + 1
                             ELSE counted[call.table][r]] \in [Reports -> Nat]
      BY <1>2
    <3> QED BY <1>1, <1>2, <3>1
  <2> QED BY <1>1, <2>1, <2>2, <2>3 DEF Inv, TypeOK, seenVars
<1>8. RowsInv'
  <2>1. DistinctRows(next.batch) /\ Sorted(next.batch)
    BY <1>3, NothingYet DEF Inv, RowsInv
  <2> QED BY <1>1, <1>2, <2>1 DEF Inv, RowsInv
<1> HIDE DEF call
<1>9. PlacesInv'
  <2> SUFFICES ASSUME NEW t \in Tables, NEW q \in Reports  PROVE OnePlace(t, q)'
    BY DEF PlacesInv
  <2>1. OnePlace(t, q)  BY DEF Inv, PlacesInv
  <2>2. CASE UnderWay(z, t, q) /\ t = call.table
    <3>1. /\ counted[t][q] = 0 /\ <<t, q>> \notin lost
          /\ \A m \in Nodes : ~InMemory(m, q)
          /\ \A x \in Calls : UnderWay(x, t, q) => x = z
          /\ arrived[q] # {}
      BY <2>1, <2>2 DEF OnePlace
    <3>2. counted'[t][q] = 1  BY <1>4, <2>2, <3>1
    <3>3. \A x \in Calls : ~UnderWay(x, t, q)'  BY <1>5, <2>2, <3>1
    <3> QED BY <1>1, <1>6, <3>1, <3>2, <3>3 DEF OnePlace
  <2>3. CASE ~(UnderWay(z, t, q) /\ t = call.table)
    <3>1. counted'[t][q] = counted[t][q]  BY <1>4, <2>3
    <3>2. \A x \in Calls : UnderWay(x, t, q)' <=> UnderWay(x, t, q)  BY <1>5, <2>3
    <3> QED BY <1>1, <1>6, <2>1, <3>1, <3>2 DEF OnePlace
  <2> QED BY <2>2, <2>3
<1> QED BY <1>7, <1>8, <1>9 DEF Inv

(* A statement fails: what its call had under way is lost.                 *)
LEMMA FlushFailsKeeps ==
    ASSUME Inv, NEW z \in Calls, FlushFails(z)
    PROVE  Inv'
<1>1. /\ lost' = lost \cup (Pending(z) \X ReportsOf(flushes[z].batch))
      /\ flushes' = [flushes EXCEPT ![z] = NoCall]
      /\ UNCHANGED <<arrived, unsaved, counted, seenVars>>
  BY DEF FlushFails
<1>2. flushes \in [Calls -> Flush] /\ flushes[z] \in Flush  BY DEF Inv, TypeOK
<1>3. Pending(z) \subseteq Tables /\ ReportsOf(flushes[z].batch) \subseteq Reports
  BY <1>2, BatchReports DEF Pending, Flush
<1>4. \A t \in Tables, q \in Reports :
          <<t, q>> \in lost' <=> <<t, q>> \in lost \/ UnderWay(z, t, q)
  BY <1>1 DEF UnderWay
<1>5. \A x \in Calls, t \in Tables, q \in Reports :
          UnderWay(x, t, q)' <=> UnderWay(x, t, q) /\ x # z
  BY <1>1, <1>2, NothingYet DEF UnderWay, Pending
<1>6. \A m \in Nodes, q \in Reports : InMemory(m, q)' <=> InMemory(m, q)
  BY <1>1 DEF InMemory
<1>7. TypeOK'
  <2>1. flushes' \in [Calls -> Flush]  BY <1>1, <1>2, NothingYet
  <2>2. \A x \in Calls : flushes'[x].locked <= Len(flushes'[x].batch)
    BY <1>1, <1>2, NothingYet DEF Inv, TypeOK
  <2>3. lost' \subseteq Tables \X Reports  BY <1>1, <1>3 DEF Inv, TypeOK
  <2> QED BY <1>1, <2>1, <2>2, <2>3 DEF Inv, TypeOK, seenVars
<1>8. RowsInv'  BY <1>1, <1>2, NothingYet DEF Inv, RowsInv
<1>9. PlacesInv'
  <2> SUFFICES ASSUME NEW t \in Tables, NEW q \in Reports  PROVE OnePlace(t, q)'
    BY DEF PlacesInv
  <2>1. OnePlace(t, q)  BY DEF Inv, PlacesInv
  <2> QED BY <1>1, <1>4, <1>5, <1>6, <2>1 DEF OnePlace
<1> QED BY <1>7, <1>8, <1>9 DEF Inv

(* The node stops: what it had in memory and under way is lost.            *)
LEMMA NodeStopsKeeps ==
    ASSUME Inv, NEW n \in Nodes, NodeStops(n)
    PROVE  Inv'
<1> DEFINE mine == {<<n, s>> : s \in Slots}
<1>1. /\ lost' = lost \cup (Tables \X ReportsOf(unsaved[n]))
                      \cup UNION {Pending(x) \X ReportsOf(flushes[x].batch) : x \in mine}
      /\ unsaved' = [unsaved EXCEPT ![n] = <<>>]
      /\ flushes' = [x \in Calls |-> IF x \in mine THEN NoCall ELSE flushes[x]]
      /\ UNCHANGED <<arrived, counted, lastSeen>>
  BY DEF NodeStops
<1>2. /\ unseen' = unseen \cup seen[n] \cup saving[n]
      /\ seen' = [seen EXCEPT ![n] = {}] /\ saving' = [saving EXCEPT ![n] = {}]
  BY DEF NodeStops
<1>3. /\ unsaved \in [Nodes -> Seq(Entries)] /\ flushes \in [Calls -> Flush]
      /\ mine \subseteq Calls
  BY DEF Inv, TypeOK, Calls
<1> HIDE DEF mine
<1>4. \A t \in Tables, q \in Reports :
          <<t, q>> \in lost' <=> \/ <<t, q>> \in lost \/ InMemory(n, q)
                                 \/ \E x \in mine : UnderWay(x, t, q)
  BY <1>1 DEF UnderWay, InMemory
<1>5. \A x \in Calls, t \in Tables, q \in Reports :
          UnderWay(x, t, q)' <=> UnderWay(x, t, q) /\ x \notin mine
  BY <1>1, NothingYet DEF UnderWay, Pending
<1>6. \A m \in Nodes, q \in Reports : InMemory(m, q)' <=> InMemory(m, q) /\ m # n
  BY <1>1, <1>3, NothingYet DEF InMemory
<1>7. TypeOK'
  <2>1. unsaved' \in [Nodes -> Seq(Entries)]  BY <1>1, <1>3
  <2>2. flushes' \in [Calls -> Flush]  BY <1>1, <1>3, NothingYet
  <2>3. \A x \in Calls : flushes'[x].locked <= Len(flushes'[x].batch)
    BY <1>1, <1>3, NothingYet DEF Inv, TypeOK
  <2>4. lost' \subseteq Tables \X Reports
    <3>1. ReportsOf(unsaved[n]) \subseteq Reports  BY <1>3, BatchReports
    <3>2. \A x \in mine : /\ ReportsOf(flushes[x].batch) \subseteq Reports
                          /\ Pending(x) \subseteq Tables
      BY <1>3, BatchReports DEF Pending, Flush
    <3> QED BY <1>1, <3>1, <3>2 DEF Inv, TypeOK
  <2>5. /\ seen' \in [Nodes -> SUBSET Features] /\ saving' \in [Nodes -> SUBSET Features]
        /\ unseen' \subseteq Features
    BY <1>2 DEF Inv, TypeOK
  <2> QED BY <1>1, <2>1, <2>2, <2>3, <2>4, <2>5 DEF Inv, TypeOK
<1>8. RowsInv'  BY <1>1, <1>3, NothingYet DEF Inv, RowsInv
<1>9. PlacesInv'
  <2> SUFFICES ASSUME NEW t \in Tables, NEW q \in Reports  PROVE OnePlace(t, q)'
    BY DEF PlacesInv
  <2>1. OnePlace(t, q)  BY DEF Inv, PlacesInv
  <2> QED BY <1>1, <1>3, <1>4, <1>5, <1>6, <2>1 DEF OnePlace
<1> QED BY <1>7, <1>8, <1>9 DEF Inv

(* The places of the reports are all in the variables of bulkAdd.          *)
LEMMA PlacesUnchanged ==
    ASSUME PlacesInv, UNCHANGED <<arrived, metricVars>>
    PROVE  PlacesInv'
<1> SUFFICES ASSUME NEW t \in Tables, NEW q \in Reports  PROVE OnePlace(t, q)'
  BY DEF PlacesInv
<1>1. OnePlace(t, q)  BY DEF PlacesInv
<1>2. \A m \in Nodes : InMemory(m, q)' <=> InMemory(m, q)  BY DEF InMemory, metricVars
<1>3. \A x \in Calls : UnderWay(x, t, q)' <=> UnderWay(x, t, q)
  BY DEF UnderWay, Pending, metricVars
<1> QED BY <1>1, <1>2, <1>3 DEF OnePlace, metricVars

(* LastSeenService has variables of its own.                               *)
LEMMA SavingKeeps ==
    ASSUME Inv, NEW n \in Nodes, StartSaving(n) \/ SavingEnds(n)
    PROVE  Inv'
<1>1. UNCHANGED <<arrived, metricVars>>  BY DEF StartSaving, SavingEnds
<1>2. TypeOK'
  <2>1. CASE StartSaving(n)
    BY <1>1, <2>1 DEF Inv, TypeOK, metricVars, StartSaving
  <2>2. CASE SavingEnds(n)
    BY <1>1, <2>2 DEF Inv, TypeOK, metricVars, SavingEnds
  <2> QED BY <2>1, <2>2
<1>3. RowsInv'  BY <1>1 DEF Inv, RowsInv, metricVars
<1>4. PlacesInv'  BY <1>1, PlacesUnchanged DEF Inv
<1> QED BY <1>2, <1>3, <1>4 DEF Inv

(* Nothing changes.                                                        *)
LEMMA StutterKeeps == Inv /\ UNCHANGED vars => Inv'
<1> SUFFICES ASSUME Inv, UNCHANGED vars  PROVE Inv'  OBVIOUS
<1>1. TypeOK'  BY DEF Inv, TypeOK, vars, metricVars, seenVars
<1>2. RowsInv'  BY DEF Inv, RowsInv, vars, metricVars
<1>3. PlacesInv'  BY PlacesUnchanged DEF Inv, vars
<1> QED BY <1>1, <1>2, <1>3 DEF Inv

LEMMA InvariantHolds == Spec => []Inv
<1>1. Inv /\ [Next]_vars => Inv'
  BY RegisterKeeps, StartFlushKeeps, LockRowKeeps, CommitKeeps, FlushFailsKeeps,
     NodeStopsKeeps, SavingKeeps, StutterKeeps DEF Next
<1> QED BY InvInit, <1>1, PTL DEF Spec

-----------------------------------------------------------------------------
(* A set with at most one element has that many.                           *)
LEMMA AtMostOne ==
    \A S : (\A x, y \in S : x = y) => Cardinality(S) = IF S = {} THEN 0 ELSE 1
<1> SUFFICES ASSUME NEW S, \A x, y \in S : x = y
             PROVE  Cardinality(S) = IF S = {} THEN 0 ELSE 1
  OBVIOUS
<1>1. CASE S = {}  BY <1>1, FS_EmptySet
<1>2. CASE S # {}
  <2>1. PICK x \in S : S = {x}  BY <1>2
  <2> QED BY <2>1, FS_Singleton
<1> QED BY <1>1, <1>2

(* No report is counted twice, whatever fails and whichever node stops,    *)
(* and none vanishes: registerBulkMetrics, the copy that bulkAdd takes,    *)
(* the statements of batchInsertMetrics and their failures keep every      *)
(* report in one place.                                                    *)
THEOREM ReportsCountedOnce == Spec => []CountedOnce
<1>1. Inv => CountedOnce
  <2> SUFFICES ASSUME Inv, NEW t \in Tables, NEW r \in Reports
               PROVE  counted[t][r]
                        + Cardinality({n \in Nodes : r \in ReportsOf(unsaved[n])})
                        + Cardinality({x \in Calls :
                              t \in Pending(x) /\ r \in ReportsOf(flushes[x].batch)})
                        + (IF <<t, r>> \in lost THEN 1 ELSE 0)
                      = IF arrived[r] = {} THEN 0 ELSE 1
    BY DEF CountedOnce
  <2> DEFINE ns == {n \in Nodes : r \in ReportsOf(unsaved[n])}
             xs == {x \in Calls : t \in Pending(x) /\ r \in ReportsOf(flushes[x].batch)}
  <2>1. OnePlace(t, r)  BY DEF Inv, PlacesInv
  <2>2. Cardinality(ns) = IF ns = {} THEN 0 ELSE 1
    <3>1. \A m, n \in ns : m = n  BY <2>1 DEF OnePlace, InMemory
    <3> HIDE DEF ns
    <3> QED BY <3>1, AtMostOne
  <2>3. Cardinality(xs) = IF xs = {} THEN 0 ELSE 1
    <3>1. \A x, y \in xs : x = y  BY <2>1 DEF OnePlace, UnderWay
    <3> HIDE DEF xs
    <3> QED BY <3>1, AtMostOne
  <2>4. ns = {} <=> ~\E n \in Nodes : InMemory(n, r)  BY DEF InMemory
  <2>5. xs = {} <=> ~\E x \in Calls : UnderWay(x, t, r)  BY DEF UnderWay
  <2>6. ns # {} => xs = {}  BY <2>1 DEF OnePlace, UnderWay, InMemory
  <2> HIDE DEF ns, xs
  <2>7. /\ counted[t][r] \in {0, 1}
        /\ counted[t][r] = 1 => <<t, r>> \notin lost
        /\ ns # {} \/ xs # {} => counted[t][r] = 0 /\ <<t, r>> \notin lost
        /\ arrived[r] # {} <=> \/ counted[t][r] = 1 \/ <<t, r>> \in lost
                               \/ ns # {} \/ xs # {}
    BY <2>1, <2>4, <2>5 DEF OnePlace
  <2>8. counted[t][r] + Cardinality(ns) + Cardinality(xs)
          + (IF <<t, r>> \in lost THEN 1 ELSE 0)
        = IF arrived[r] = {} THEN 0 ELSE 1
    BY <2>2, <2>3, <2>6, <2>7
  <2> QED BY <2>8 DEF ns, xs
<1> QED BY <1>1, InvariantHolds, PTL

(* The variables have their types: every buffer and every batch is made of *)
(* rows of known features and reports, and no call has locked more rows    *)
(* than it has.                                                            *)
THEOREM ClientMetricsTypeOK == Spec => []TypeOK
<1>1. Inv => TypeOK  BY DEF Inv
<1> QED BY <1>1, InvariantHolds, PTL

-----------------------------------------------------------------------------
(* The row that a call waits for is of a known feature.                    *)
LEMMA NextRows ==
    ASSUME Inv, NEW x \in Calls, Writing(x), ~Done(x)
    PROVE  /\ flushes[x].locked \in Nat /\ flushes[x].locked + 1 \in DOMAIN flushes[x].batch
           /\ NextRow(x) \in Rows /\ NextRow(x)[1] \in Features
<1>1. flushes[x] \in Flush /\ flushes[x].locked <= Len(flushes[x].batch)
  BY DEF Inv, TypeOK
<1>2. flushes[x].locked \in Nat /\ flushes[x].batch \in Seq(Entries)  BY <1>1 DEF Flush
<1>3. /\ DOMAIN flushes[x].batch = 1..Len(flushes[x].batch) /\ Len(flushes[x].batch) \in Nat
      /\ \A i \in DOMAIN flushes[x].batch : flushes[x].batch[i] \in Entries
  BY <1>2, Places
<1>4. flushes[x].locked + 1 \in DOMAIN flushes[x].batch  BY <1>1, <1>2, <1>3 DEF Done
<1> QED BY <1>2, <1>3, <1>4, RowsHaveFeatures DEF NextRow

(* A call that holds a row waits for one of a later feature: the rows of a *)
(* batch are sorted and all different, and there is one hour.              *)
LEMMA WaitsForLater ==
    ASSUME Inv, \A g, h \in Hours : g = h,
           NEW x \in Calls, NEW y \in Calls, WaitsFor(x, y), Writing(y), ~Done(y)
    PROVE  NextRow(x)[1] < NextRow(y)[1]
<1>1. Writing(x) /\ ~Done(x) /\ NextRow(x) \in Held(y)  BY DEF WaitsFor
<1>2. PICK i \in 1..flushes[y].locked : NextRow(x) = flushes[y].batch[i].row
  BY <1>1 DEF Held
<1> DEFINE j == flushes[y].locked + 1
<1>3. flushes[y].locked \in Nat /\ j \in DOMAIN flushes[y].batch  BY NextRows
<1>4. i \in DOMAIN flushes[y].batch /\ i < j
  <2>1. flushes[y].batch \in Seq(Entries)  BY DEF Inv, TypeOK, Flush
  <2>2. DOMAIN flushes[y].batch = 1..Len(flushes[y].batch) /\ Len(flushes[y].batch) \in Nat
    BY <2>1, Places
  <2> QED BY <1>3, <2>2
<1>5. NextRow(y) = flushes[y].batch[j].row  BY DEF NextRow
<1> HIDE DEF j
<1>6. /\ NextRow(x)[1] <= NextRow(y)[1] /\ NextRow(x) # NextRow(y)
  BY <1>2, <1>3, <1>4, <1>5 DEF Inv, RowsInv, DistinctRows, Sorted
<1>7. /\ NextRow(x) \in Rows /\ NextRow(x)[1] \in Nat
      /\ NextRow(y) \in Rows /\ NextRow(y)[1] \in Nat
  BY <1>1, NextRows, NumFeaturesAssumption DEF Features
<1>8. NextRow(x)[1] # NextRow(y)[1]  BY <1>6, <1>7 DEF Rows
<1> QED BY <1>6, <1>7, <1>8

(* Some feature of a set of features is the last.                          *)
LEMMA LastFeature ==
    ASSUME NEW fs \in SUBSET Features, fs # {}
    PROVE  \E f \in fs : \A g \in fs : g <= f
<1> DEFINE T == {NumFeatures - f : f \in fs}
<1>1. \A f \in fs : f \in Nat /\ f <= NumFeatures
  BY NumFeaturesAssumption DEF Features
<1>2. T \subseteq Nat /\ T # {}  BY <1>1, NumFeaturesAssumption
<1>3. PICK k \in T : \A l \in T : <<l, k>> \notin OpToRel(<, Nat)
  <2> HIDE DEF T
  <2> QED BY <1>2, NatLessThanWellFounded, WFMin
<1>4. PICK f \in fs : k = NumFeatures - f  OBVIOUS
<1>5. ASSUME NEW g \in fs  PROVE g <= f
  <2>1. ~(NumFeatures - g < k)
    <3>1. <<NumFeatures - g, k>> \notin OpToRel(<, Nat)  BY <1>3
    <3>2. NumFeatures - g \in Nat /\ k \in Nat  BY <1>2
    <3> QED BY <3>1, <3>2 DEF OpToRel
  <2> QED BY <1>1, <1>4, <2>1, NumFeaturesAssumption
<1> QED BY <1>5

(* "Sort the rows to avoid deadlocks" does so while all the rows are of    *)
(* one hour: no bulkAdd calls, of one node or of several, wait for each    *)
(* other in a circle.  The sort leaves the hour out, and MetricsDeadlock   *)
(* shows the circle that two hours make possible.                          *)
THEOREM BatchesNeverDeadlock ==
    ASSUME \A g, h \in Hours : g = h
    PROVE  Spec => []NoDeadlock
<1>1. Inv => NoDeadlock
  <2> SUFFICES ASSUME Inv, NEW xs \in SUBSET {x \in Calls : Writing(x)}, xs # {},
                      \A x \in xs : \E y \in xs : WaitsFor(x, y)
               PROVE  FALSE
    BY DEF NoDeadlock
  <2>1. \A x \in xs : x \in Calls /\ Writing(x) /\ ~Done(x)  BY DEF WaitsFor
  <2> DEFINE waited == {NextRow(x)[1] : x \in xs}
  <2>2. waited \in SUBSET Features /\ waited # {}  BY <2>1, NextRows
  <2>3. PICK f \in waited : \A g \in waited : g <= f
    <3> HIDE DEF waited
    <3> QED BY <2>2, LastFeature
  <2>4. PICK x \in xs : f = NextRow(x)[1]  OBVIOUS
  <2>5. PICK y \in xs : WaitsFor(x, y)  OBVIOUS
  <2>6. NextRow(x)[1] < NextRow(y)[1]  BY <2>1, <2>5, WaitsForLater
  <2>7. NextRow(y)[1] <= f  BY <2>3
  <2>8. f \in Nat /\ NextRow(y)[1] \in Nat
    <3>1. Features \subseteq Nat  BY NumFeaturesAssumption DEF Features
    <3>2. f \in waited /\ NextRow(y)[1] \in waited  OBVIOUS
    <3> HIDE DEF waited
    <3> QED BY <2>2, <3>1, <3>2
  <2> QED BY <2>4, <2>6, <2>7, <2>8
<1> QED BY <1>1, InvariantHolds, PTL
=============================================================================
