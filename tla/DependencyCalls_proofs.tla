----------------------- MODULE DependencyCalls_proofs -----------------------
(***************************************************************************)
(* Dependencies, for any features, projects and callers, and however PUT   *)
(* and PATCH are used unless a theorem says so.                            *)
(*                                                                         *)
(* Calls that share no feature may interleave their queries and commits as *)
(* they like: every commit is one operation of DependentFeatures.  This    *)
(* rests on Kept: what a call has asked is still true when it goes on.  No *)
(* step of its own makes it false, and one of another call writes only     *)
(* rows of the features that call names (Confined), which are none of its  *)
(* own (Disjoint).  Where calls overlap, Disjoint is what is missing; the  *)
(* foreign keys hold all the same.                                         *)
(*                                                                         *)
(* The last part is about the operations one at a time, and carries over   *)
(* to the calls.  The rules for dependencies are inductive together with   *)
(* the types, which hold the foreign keys: SingleLevel needs to know that  *)
(* a new name has no rows left from a deleted feature, SameProject that    *)
(* both ends of a row exist.  ParentsActive depends on how PUT and PATCH   *)
(* are used, so it has a theorem of its own.                               *)
(***************************************************************************)
EXTENDS DependencyCalls, SequenceTheorems, TLAPS

(* What a call may ask of the database.                                    *)
Items == Checks \cup {"childRows", "row", "archivedRows"}

(* The parts of cloneFeatureToggle after its first commit.                 *)
CloneSteps == {"cloned", "cloneDependency", "cloneInsert"}

(* What a call asks in all, and what it has still to ask.                  *)
Asked(op) ==
    IF op \in {"cloneDependency", "cloneInsert"} THEN DependencyChecks
    ELSE IF op \in OperationNames THEN UNION {Queries[op][i] : i \in DOMAIN Queries[op]}
    ELSE {}

Unasked(todo) == UNION {todo[i] : i \in DOMAIN todo}

(* The queues that the operations start with.                              *)
LEMMA QueriesTyped == \A op \in OperationNames : Queries[op] \in Seq(SUBSET Items)
<1> SUFFICES ASSUME NEW op \in OperationNames  PROVE Queries[op] \in Seq(SUBSET Items)
  OBVIOUS
<1>1. OperationNames = {"create", "clone", "addDependency", "deleteDependency",
        "deleteDependencies", "archive", "archiveAll", "delete", "deleteAll", "revive",
        "reviveAll", "update", "changeProject", "setEnabled"}
  BY DEF OperationNames, Queries
<1>2. /\ <<>> \in Seq(SUBSET Items)
      /\ \A a \in SUBSET Items : <<a>> \in Seq(SUBSET Items)
      /\ \A a, b \in SUBSET Items : <<a, b>> \in Seq(SUBSET Items)
      /\ \A a, b, d \in SUBSET Items : <<a, b, d>> \in Seq(SUBSET Items)
      /\ \A a, b, d, e \in SUBSET Items : <<a, b, d, e>> \in Seq(SUBSET Items)
      /\ \A a, b, d, e, g \in SUBSET Items : <<a, b, d, e, g>> \in Seq(SUBSET Items)
  <2> DEFINE S == SUBSET Items
  <2> HIDE DEF S
  <2>0. <<>> \in Seq(S)  OBVIOUS
  <2>1. \A a \in S : <<a>> \in Seq(S)  OBVIOUS
  <2>2. \A a, b \in S : <<a, b>> \in Seq(S)  OBVIOUS
  <2>3. \A a, b, d \in S : <<a, b, d>> \in Seq(S)  OBVIOUS
  <2>4. \A a, b, d, e \in S : <<a, b, d, e>> \in Seq(S)  OBVIOUS
  <2>5. \A a, b, d, e, g \in S : <<a, b, d, e, g>> \in Seq(S)  OBVIOUS
  <2> QED BY <2>0, <2>1, <2>2, <2>3, <2>4, <2>5 DEF S
<1>3. /\ {"free"} \in SUBSET Items /\ {"sourceActive"} \in SUBSET Items
      /\ {"noChildren"} \in SUBSET Items /\ {"noGrandparents"} \in SUBSET Items
      /\ {"parentActive"} \in SUBSET Items /\ {"sameProject"} \in SUBSET Items
      /\ {"childRows"} \in SUBSET Items /\ {"exists"} \in SUBSET Items
      /\ {"noOrphans"} \in SUBSET Items /\ {"oneProject"} \in SUBSET Items
      /\ {"archivedRows"} \in SUBSET Items /\ {"row"} \in SUBSET Items
      /\ {"independent"} \in SUBSET Items /\ {"active"} \in SUBSET Items
  BY DEF Items, Checks
<1>4. CASE op = "create"  BY <1>2, <1>3, <1>4 DEF Queries
<1>5. CASE op = "clone"  BY <1>2, <1>3, <1>5 DEF Queries
<1>6. CASE op = "addDependency"  BY <1>2, <1>3, <1>6 DEF Queries
<1>7. /\ Queries["deleteDependency"] = <<>>
      /\ Queries["deleteDependencies"] = <<>>
      /\ Queries["revive"] = <<>>
  BY DEF Queries
<1>8. CASE op = "archive"  BY <1>2, <1>3, <1>8 DEF Queries
<1>9. CASE op = "archiveAll"  BY <1>2, <1>3, <1>9 DEF Queries
<1>10. CASE op = "delete"  BY <1>2, <1>3, <1>10 DEF Queries
<1>11. CASE op = "deleteAll"  BY <1>2, <1>3, <1>11 DEF Queries
<1>12. CASE op = "reviveAll"  BY <1>2, <1>3, <1>12 DEF Queries
<1>13. CASE op = "update"  BY <1>2, <1>3, <1>13 DEF Queries
<1>14. CASE op = "changeProject"  BY <1>2, <1>3, <1>14 DEF Queries
<1>15. CASE op = "setEnabled"  BY <1>2, <1>3, <1>15 DEF Queries
<1> QED BY <1>1, <1>2, <1>4, <1>5, <1>6, <1>7, <1>8, <1>9, <1>10, <1>11, <1>12, <1>13, <1>14, <1>15

(* What each operation asks before it writes.                              *)
LEMMA AskedValues ==
    /\ Asked("create") = {"free"}
    /\ Asked("clone") = {"free", "sourceActive"}
    /\ Asked("addDependency") = DependencyChecks \cup {"childRows"}
    /\ Asked("archive") = {"exists", "noOrphans", "noChildren", "childRows"}
    /\ Asked("archiveAll") = {"oneProject", "noOrphans", "childRows"}
    /\ Asked("delete") = {"noChildren", "exists"}
    /\ Asked("deleteAll") = {"oneProject", "noOrphans", "archivedRows"}
    /\ Asked("reviveAll") = {"oneProject", "archivedRows"}
    /\ Asked("update") = {"row", "exists"}
    /\ Asked("changeProject") = {"exists", "independent", "row"}
    /\ Asked("setEnabled") = {"exists", "active"}
BY DEF Asked, OperationNames, Queries, DependencyChecks

(* A sequence with one more element in front.                              *)
LEMMA Prepended ==
    ASSUME NEW S, NEW a \in S, NEW tail \in Seq(S)
    PROVE  /\ <<a>> \o tail \in Seq(S)
           /\ DOMAIN (<<a>> \o tail) = 1 .. Len(tail) + 1
           /\ (<<a>> \o tail)[1] = a
           /\ \A i \in 1 .. Len(tail) : (<<a>> \o tail)[i + 1] = tail[i]
<1>0. PICK next : next = <<a>> \o tail  OBVIOUS
<1>1. <<a>> \in Seq(S) /\ Len(<<a>>) = 1 /\ <<a>>[1] = a  OBVIOUS
<1>2. PICK t : t = <<a>>  OBVIOUS
<1>3. /\ next \in Seq(S)
      /\ Len(next) = 1 + Len(tail)
      /\ \A i \in 1 .. 1 + Len(tail) : next[i] = IF i <= 1 THEN t[i] ELSE tail[i - 1]
  BY <1>0, <1>1, <1>2, ConcatProperties
<1>4. Len(tail) \in Nat  BY LenProperties
<1>5. DOMAIN next = 1 .. Len(tail) + 1  BY <1>3, <1>4, LenProperties
<1>6. next[1] = a  BY <1>1, <1>2, <1>3, <1>4
<1>7. \A i \in 1 .. Len(tail) : next[i + 1] = tail[i]
  <2> SUFFICES ASSUME NEW i \in 1 .. Len(tail)  PROVE next[i + 1] = tail[i]  OBVIOUS
  <2>1. i + 1 \in 1 .. 1 + Len(tail) /\ ~(i + 1 <= 1) /\ (i + 1) - 1 = i  BY <1>4
  <2> QED BY <1>3, <2>1
<1> QED BY <1>0, <1>3, <1>5, <1>6, <1>7

(* No operation reads rows twice.                                          *)
LEMMA OneRead ==
    ASSUME NEW op, NEW q \in Asked(op), NEW r \in Asked(op), q \notin Checks, r \notin Checks
    PROVE  q = r
<1>1. op \in OperationNames
  BY DEF Asked, Checks, DependencyChecks
<1>2. op \in {"create", "clone", "addDependency", "archive", "archiveAll", "delete", "deleteAll",
             "reviveAll", "update", "changeProject", "setEnabled"}
  <2>1. Asked("deleteDependency") = {} /\ Asked("deleteDependencies") = {} /\ Asked("revive") = {}
    BY DEF Asked, OperationNames, Queries
  <2> QED BY <1>1, <2>1 DEF OperationNames, Queries
<1> QED BY <1>2, AskedValues DEF Checks, DependencyChecks

(* What is left of the queue once q is answered, as in Query.              *)
After(todo, q) ==
    LET rest == Head(todo) \ {q}
    IN  (IF rest = {} THEN <<>> ELSE <<rest>>) \o Tail(todo)

(* An answered query leaves the others in the queue, and nothing new.      *)
LEMMA Rest ==
    ASSUME NEW todo \in Seq(SUBSET Items), todo # <<>>, NEW q \in Head(todo)
    PROVE  /\ After(todo, q) \in Seq(SUBSET Items)
           /\ Unasked(After(todo, q)) \subseteq Unasked(todo)
           /\ Unasked(todo) \subseteq Unasked(After(todo, q)) \cup {q}
           /\ q \in Unasked(todo)
<1>r. PICK rest : rest = Head(todo) \ {q}  OBVIOUS
<1>n. PICK next : next = After(todo, q)  OBVIOUS
<1>a. next = (IF rest = {} THEN <<>> ELSE <<rest>>) \o Tail(todo)
  BY <1>r, <1>n DEF After
<1>1. /\ Head(todo) \in SUBSET Items /\ Head(todo) = todo[1] /\ 1 \in DOMAIN todo
      /\ Tail(todo) \in Seq(SUBSET Items)
      /\ Len(todo) \in Nat /\ DOMAIN todo = 1 .. Len(todo)
      /\ Len(Tail(todo)) = Len(todo) - 1
      /\ \A i \in 1 .. Len(Tail(todo)) : Tail(todo)[i] = todo[i+1]
  OBVIOUS
<1>2. q \in Unasked(todo)
  BY <1>1 DEF Unasked
<1>t. /\ Unasked(Tail(todo)) \subseteq Unasked(todo)
      /\ Unasked(todo) = Head(todo) \cup Unasked(Tail(todo))
  <2>1. DOMAIN Tail(todo) = 1 .. Len(Tail(todo))  BY <1>1
  <2>2. \A i \in DOMAIN Tail(todo) : Tail(todo)[i] \subseteq Unasked(todo)
    BY <1>1, <2>1 DEF Unasked
  <2>3. ASSUME NEW i \in DOMAIN todo
        PROVE  todo[i] \subseteq Head(todo) \cup Unasked(Tail(todo))
    <3>1. CASE i = 1  BY <1>1, <3>1
    <3>2. CASE i # 1
      <4>1. i - 1 \in DOMAIN Tail(todo) /\ Tail(todo)[i - 1] = todo[i]
        BY <1>1, <2>1, <3>2
      <4> QED BY <4>1 DEF Unasked
    <3> QED BY <3>1, <3>2
  <2>4. Head(todo) \subseteq Unasked(todo)  BY <1>1 DEF Unasked
  <2> QED BY <2>2, <2>3, <2>4 DEF Unasked
<1>3. CASE rest = {}
  <2>1. next = Tail(todo)  BY <1>1, <1>3, <1>a, ConcatEmptySeq
  <2>2. Head(todo) = {q}  BY <1>r, <1>3
  <2> QED BY <1>n, <1>1, <1>2, <1>t, <2>1, <2>2
<1>4. CASE rest # {}
  <2>1. next = <<rest>> \o Tail(todo)  BY <1>a, <1>4
  <2>2. rest \in SUBSET Items  BY <1>r, <1>1
  <2>3. /\ next \in Seq(SUBSET Items)
        /\ DOMAIN next = 1 .. Len(Tail(todo)) + 1
        /\ next[1] = rest
        /\ \A i \in 1 .. Len(Tail(todo)) : next[i + 1] = Tail(todo)[i]
    <3>1. PICK S : S = SUBSET Items  OBVIOUS
    <3>2. PICK tail : tail = Tail(todo)  OBVIOUS
    <3>3. rest \in S /\ tail \in Seq(S) /\ next = <<rest>> \o tail
      BY <1>1, <2>1, <2>2, <3>1, <3>2
    <3>4. /\ next \in Seq(S)
          /\ DOMAIN next = 1 .. Len(tail) + 1
          /\ next[1] = rest
          /\ \A i \in 1 .. Len(tail) : next[i + 1] = tail[i]
      <4>1. /\ <<rest>> \o tail \in Seq(S)
            /\ DOMAIN (<<rest>> \o tail) = 1 .. Len(tail) + 1
            /\ (<<rest>> \o tail)[1] = rest
            /\ \A i \in 1 .. Len(tail) : (<<rest>> \o tail)[i + 1] = tail[i]
        BY ONLY <3>3, Prepended
      <4> QED BY ONLY <3>3, <4>1
    <3> QED BY <3>1, <3>2, <3>4
  <2>4. Unasked(next) = rest \cup Unasked(Tail(todo))
    <3>1. DOMAIN Tail(todo) = 1 .. Len(Tail(todo)) /\ Len(Tail(todo)) \in Nat  BY <1>1
    <3>2. ASSUME NEW i \in DOMAIN next
          PROVE  next[i] \subseteq rest \cup Unasked(Tail(todo))
      <4>1. CASE i = 1  BY <2>3, <4>1
      <4>2. CASE i # 1
        <5>1. i - 1 \in DOMAIN Tail(todo) /\ (i - 1) + 1 = i  BY <2>3, <3>1, <4>2
        <5>2. next[i] = Tail(todo)[i - 1]  BY <2>3, <3>1, <5>1
        <5> QED BY <5>1, <5>2 DEF Unasked
      <4> QED BY <4>1, <4>2
    <3>3. \A i \in DOMAIN Tail(todo) : Tail(todo)[i] \subseteq Unasked(next)
      <4> SUFFICES ASSUME NEW i \in DOMAIN Tail(todo)
                   PROVE  Tail(todo)[i] \subseteq Unasked(next)
        OBVIOUS
      <4>1. i + 1 \in DOMAIN next /\ next[i + 1] = Tail(todo)[i]  BY <2>3, <3>1
      <4> QED BY <4>1 DEF Unasked
    <3>4. 1 \in DOMAIN next  BY <2>3, <3>1
    <3>5. rest \subseteq Unasked(next)  BY <2>3, <3>4 DEF Unasked
    <3>6. Unasked(next) \subseteq rest \cup Unasked(Tail(todo))  BY <3>2 DEF Unasked
    <3>7. Unasked(Tail(todo)) \subseteq Unasked(next)  BY <3>3 DEF Unasked
    <3> QED BY <3>5, <3>6, <3>7
  <2> QED BY <1>r, <1>n, <1>2, <1>t, <2>3, <2>4
<1> QED BY <1>3, <1>4
-----------------------------------------------------------------------------
(* What the code puts into a call, whatever the tables hold.               *)
Shaped(call) ==
    /\ \/ call = NoCall
       \/ /\ call.op \in BatchOperations
          /\ call.other = {}
       \/ /\ call.op \in PairOperations \cup CloneSteps
          /\ \E f, g \in Features : call.names = {f} /\ call.other = {g}
       \/ /\ call.op \in OperationNames \ (BatchOperations \cup PairOperations)
          /\ \E f \in Features : call.names = {f} /\ call.other = {}
    /\ Unasked(call.todo) \subseteq Asked(call.op)
    /\ call.op \in {"update", "changeProject"} => call.seen \subseteq call.names
    /\ call.op \in CloneSteps \cup {"clone"} => call.seen = {}
    /\ call.op \in {"cloned", "cloneInsert"} => call.todo = <<>>

(* The types are inductive with the shape of the calls: what Update and    *)
(* ChangeProject write back is what they read of their own feature.        *)
TypeInv == TypeOK /\ \A c \in Callers : Shaped(calls[c])

(* A caller without a call.                                                *)
LEMMA NoCallShaped == NoCall \in Call /\ Shaped(NoCall)
<1>1. NoCall \in Call
  <2>1. <<>> \in Seq(SUBSET (Checks \cup {"childRows", "row", "archivedRows"}))  OBVIOUS
  <2> QED BY <2>1 DEF NoCall, Call
<1>2. Unasked(<<>>) = {}  BY DEF Unasked
<1> QED BY <1>1, <1>2 DEF Shaped, NoCall, CloneSteps

(* A request that arrives.                                                 *)
LEMMA Arrives ==
    ASSUME TypeInv, NEW c \in Callers, Arrive(c)
    PROVE  /\ UNCHANGED tableVars
           /\ calls[c] = NoCall
           /\ \E e \in Call :
                  /\ calls' = [calls EXCEPT ![c] = e]
                  /\ Shaped(e)
                  /\ e.op \in OperationNames
                  /\ e.todo = Queries[e.op]
                  /\ e.names \cap e.other = {}
                  /\ \/ Overlap
                     \/ \A d \in Callers : Footprint(calls[d]) \cap Footprint(e) = {}
<1>1. PICK op \in Operations :
        \/ /\ op \in BatchOperations
           /\ \E names \in (SUBSET Features) \ {{}} : Begin(c, op, names, {})
        \/ /\ op \in PairOperations
           /\ \E f, g \in Features :
                  /\ f # g
                  /\ Begin(c, op, {f}, {g})
        \/ /\ op \notin BatchOperations \cup PairOperations
           /\ \E f \in Features : Begin(c, op, {f}, {})
  BY DEF Arrive
<1>2. PICK names \in SUBSET Features, other \in SUBSET Features :
        /\ Begin(c, op, names, other)
        /\ names \cap other = {}
        /\ \/ op \in BatchOperations /\ other = {}
           \/ op \in PairOperations /\ \E f, g \in Features : names = {f} /\ other = {g}
           \/ op \notin BatchOperations \cup PairOperations
              /\ \E f \in Features : names = {f} /\ other = {}
  <2>1. CASE op \in BatchOperations /\ \E names \in (SUBSET Features) \ {{}} : Begin(c, op, names, {})
    BY <2>1
  <2>2. CASE op \in PairOperations /\ \E f, g \in Features : f # g /\ Begin(c, op, {f}, {g})
    BY <2>2
  <2>3. CASE /\ op \notin BatchOperations \cup PairOperations
             /\ \E f \in Features : Begin(c, op, {f}, {})
    BY <2>3
  <2> QED BY <1>1, <2>1, <2>2, <2>3
<1> DEFINE e == [op |-> op, names |-> names, other |-> other,
                 todo |-> Queries[op], seen |-> {}]
<1>3. /\ calls[c] = NoCall
      /\ Overlap \/ \A d \in Callers : Footprint(calls[d]) \cap Footprint(e) = {}
      /\ calls' = [calls EXCEPT ![c] = e]
      /\ UNCHANGED tableVars
  BY <1>2 DEF Begin
<1>4. op \in OperationNames  BY OperationsAssumption
<1>5. e \in Call  BY <1>4, QueriesTyped DEF Call, Items
<1>6. Unasked(Queries[op]) \subseteq Asked(op)
  <2>1. "cloneDependency" \notin OperationNames /\ "cloneInsert" \notin OperationNames
    BY DEF OperationNames, Queries
  <2> QED BY <1>4, <2>1 DEF Asked, Unasked
<1>7. op \notin {"cloned", "cloneInsert"}
  BY <1>4 DEF OperationNames, Queries
<1>8. Shaped(e)
  BY <1>2, <1>4, <1>6, <1>7 DEF Shaped
<1> QED BY <1>2, <1>3, <1>4, <1>5, <1>8

(* A query that is answered.                                               *)
LEMMA Answered ==
    ASSUME TypeInv, NEW c \in Callers, Query(c)
    PROVE  /\ UNCHANGED tableVars
           /\ \E e \in Call, q \in Asked(calls[c].op) :
                  /\ calls' = [calls EXCEPT ![c] = e]
                  /\ Shaped(e)
                  /\ e.op = calls[c].op /\ e.names = calls[c].names /\ e.other = calls[c].other
                  /\ q \in Checks => Passes(q, calls[c])
                  /\ q = "row" => Passes("exists", calls[c])
                  /\ e.seen = IF q \in Checks THEN calls[c].seen ELSE Reads(q, calls[c])
                  /\ Unasked(calls[c].todo) \subseteq Unasked(e.todo) \cup {q}
<1> DEFINE call == calls[c]
<1>1. call \in Call /\ Shaped(call)  BY DEF TypeInv, TypeOK
<1>2. PICK q \in Head(call.todo) :
        /\ q \in Checks => Passes(q, call)
        /\ q = "row" => Passes("exists", call)
        /\ LET rest == Head(call.todo) \ {q}
           IN  calls' = [calls EXCEPT
                   ![c].todo = (IF rest = {} THEN <<>> ELSE <<rest>>) \o Tail(@),
                   ![c].seen = IF q \in Checks THEN @ ELSE Reads(q, call)]
  BY DEF Query
<1>3. call.todo # <<>> /\ UNCHANGED tableVars  BY DEF Query
<1> DEFINE rest == Head(call.todo) \ {q}
           next == (IF rest = {} THEN <<>> ELSE <<rest>>) \o Tail(call.todo)
           seen == IF q \in Checks THEN call.seen ELSE Reads(q, call)
           e == [call EXCEPT !.todo = next, !.seen = seen]
<1>4. calls' = [calls EXCEPT ![c] = e]
  BY <1>2 DEF TypeInv, TypeOK, Call
<1>5. /\ next \in Seq(SUBSET Items)
      /\ Unasked(next) \subseteq Unasked(call.todo)
      /\ Unasked(call.todo) \subseteq Unasked(next) \cup {q}
      /\ q \in Unasked(call.todo)
  <2>1. call.todo \in Seq(SUBSET Items)  BY <1>1 DEF Call, Items
  <2> HIDE DEF next
  <2>2. PICK todo : todo = call.todo  OBVIOUS
  <2>3. next = After(todo, q)  BY <2>2 DEF next, rest, After
  <2>4. todo \in Seq(SUBSET Items) /\ todo # <<>> /\ q \in Head(todo)
    BY <1>2, <1>3, <2>1, <2>2
  <2> QED BY <2>2, <2>3, <2>4, Rest
<1>6. q \in Asked(call.op)  BY <1>1, <1>5 DEF Shaped
<1>7. seen \subseteq Features \cup (Features \X Features)
  <2>1. dependencies \subseteq Features \X Features /\ archived \subseteq Features
    BY DEF TypeInv, TypeOK, TablesTypeOK
  <2> QED BY <1>1, <2>1 DEF Reads, RowsOfChildren, Call
<1>8. /\ e.op = call.op /\ e.names = call.names /\ e.other = call.other
      /\ e.todo = next /\ e.seen = seen /\ e \in Call
  <2> HIDE DEF next, seen
  <2> QED BY <1>1, <1>5, <1>7 DEF Call, Items
<1>9. Shaped(e)
  <2>1. call # NoCall /\ call.todo # <<>>  BY <1>3 DEF NoCall
  <2>2. call.op \in {"update", "changeProject"} => seen \subseteq call.names
    BY <1>1, <1>6, AskedValues DEF Shaped, Reads, Checks
  <2>3. call.op \in CloneSteps \cup {"clone"} => seen = {}
    <3>1. Asked("clone") \subseteq Checks /\ Asked("cloned") = {}
          /\ Asked("cloneDependency") \subseteq Checks /\ Asked("cloneInsert") \subseteq Checks
      BY AskedValues DEF Asked, Checks, DependencyChecks, OperationNames, Queries
    <3> QED BY <1>1, <1>6, <3>1 DEF Shaped, CloneSteps
  <2>4. Unasked(next) \subseteq Asked(call.op)  BY <1>1, <1>5 DEF Shaped
  <2> HIDE DEF next, seen, e
  <2> QED BY <1>1, <1>8, <2>1, <2>2, <2>3, <2>4 DEF Shaped
<1> QED
  <2> HIDE DEF next, seen, e
  <2>1. e.seen = IF q \in Checks THEN calls[c].seen ELSE Reads(q, calls[c])
    BY <1>8 DEF seen
  <2> QED BY <1>2, <1>3, <1>4, <1>5, <1>6, <1>8, <1>9, <2>1

(* cloneFeatureToggle goes on to its next part.                            *)
LEMMA CloneGoesOn ==
    ASSUME TypeInv, NEW c \in Callers, CloneFeature(c) \/ CloneParents(c) \/ CloneClear(c)
    PROVE  \E e \in Call : calls' = [calls EXCEPT ![c] = e] /\ Shaped(e)
<1> DEFINE call == calls[c]
<1>1. call \in Call /\ Shaped(call)  BY DEF TypeInv, TypeOK
<1>2. calls \in [Callers -> Call]  BY DEF TypeInv, TypeOK
<1>3. Unasked(<<>>) = {}  BY DEF Unasked
<1>o. call.op \in CloneSteps => /\ call.op \notin BatchOperations /\ call # NoCall
                                /\ call.op \notin OperationNames
  BY DEF CloneSteps, BatchOperations, OperationNames, Queries, NoCall
<1>s. call.op \in CloneSteps \cup {"clone"} =>
          call.seen = {} /\ \E f, g \in Features : call.names = {f} /\ call.other = {g}
  <2>1. "clone" \in PairOperations /\ "clone" \notin BatchOperations /\ NoCall.op # "clone"
    BY DEF PairOperations, BatchOperations, NoCall
  <2> QED BY <1>1, <1>o, <2>1 DEF Shaped
<1>4. CASE CloneFeature(c)
  <2> DEFINE e == [call EXCEPT !.op = "cloned"]
  <2>1. e \in Call /\ calls' = [calls EXCEPT ![c] = e]
    BY <1>1, <1>2, <1>4 DEF CloneFeature, Call
  <2>2. Shaped(e)
    <3>1. e.op = "cloned" /\ e.names = call.names /\ e.other = call.other /\ e.todo = <<>>
          /\ e.seen = call.seen
      BY <1>1, <1>4 DEF CloneFeature, Ready, Call
    <3>2. call.op = "clone"  BY <1>4 DEF CloneFeature, Ready
    <3> HIDE DEF e
    <3> QED BY <1>3, <1>s, <3>1, <3>2 DEF Shaped, CloneSteps
  <2> QED BY <2>1, <2>2
<1>5. CASE CloneClear(c)
  <2> DEFINE e == [call EXCEPT !.op = "cloneInsert"]
  <2>1. e \in Call /\ calls' = [calls EXCEPT ![c] = e]
    BY <1>1, <1>2, <1>5 DEF CloneClear, Call
  <2>2. Shaped(e)
    <3>1. e.op = "cloneInsert" /\ e.names = call.names /\ e.other = call.other /\ e.todo = <<>>
          /\ e.seen = call.seen
      BY <1>1, <1>5 DEF CloneClear, Ready, Call
    <3>2. call.op \in CloneSteps  BY <1>5 DEF CloneClear, Ready, CloneSteps
    <3> HIDE DEF e
    <3> QED BY <1>3, <1>s, <3>1, <3>2 DEF Shaped, CloneSteps
  <2> QED BY <2>1, <2>2
<1>6. CASE CloneParents(c) /\ End(c)
  BY <1>6, NoCallShaped DEF End
<1>7. ASSUME CloneParents(c), ~End(c)
      PROVE  \E e \in Call : calls' = [calls EXCEPT ![c] = e] /\ Shaped(e)
  <2>1. PICK p \in Features :
            calls' = [calls EXCEPT ![c].op = "cloneDependency",
                                   ![c].other = {p},
                                   ![c].todo = <<DependencyChecks>>]
    BY <1>7 DEF CloneParents
  <2> DEFINE e == [call EXCEPT !.op = "cloneDependency", !.other = {p},
                               !.todo = <<DependencyChecks>>]
  <2>2. calls' = [calls EXCEPT ![c] = e]  BY <1>1, <1>2, <2>1 DEF Call
  <2>3. <<DependencyChecks>> \in Seq(SUBSET (Checks \cup {"childRows", "row", "archivedRows"}))
    <3>1. DependencyChecks \in SUBSET (Checks \cup {"childRows", "row", "archivedRows"})
      BY DEF DependencyChecks, Checks
    <3> QED BY <3>1
  <2>4. e \in Call  BY <1>1, <2>3 DEF Call
  <2>5. Unasked(<<DependencyChecks>>) = DependencyChecks  BY DEF Unasked
  <2>6. /\ e.op = "cloneDependency" /\ e.other = {p} /\ e.todo = <<DependencyChecks>>
        /\ e.names = call.names /\ e.seen = call.seen
    BY <1>1 DEF Call
  <2>7. call.seen = {} /\ \E f \in Features : call.names = {f}
    BY <1>7, <1>s DEF CloneParents, Ready, CloneSteps
  <2>8. Shaped(e)
    <3> HIDE DEF e
    <3> QED BY <2>5, <2>6, <2>7 DEF Shaped, CloneSteps, Asked
  <2> QED BY <2>2, <2>4, <2>8
<1> QED BY <1>4, <1>5, <1>6, <1>7

(* The foreign keys hold after every write.                                *)
LEMMA TablesStep ==
    ASSUME TypeInv, NEW c \in Callers, Step(c)
    PROVE  TablesTypeOK'
<1> DEFINE call == calls[c]
           old == {f \in Features : Exists(f)}
<1>1. call \in Call /\ Shaped(call)  BY DEF TypeInv, TypeOK
<1>2. /\ project \in [Features -> Projects \cup {NoProject}]
      /\ archived \subseteq old /\ enabled \subseteq old
      /\ dependencies \subseteq old \X old
  BY DEF TypeInv, TypeOK, TablesTypeOK
<1>3. /\ call.names \subseteq Features /\ call.other \subseteq Features
  BY <1>1 DEF Call
<1>4. ASSUME UNCHANGED tableVars  PROVE TablesTypeOK'
  BY <1>2, <1>4 DEF tableVars, TablesTypeOK, Exists
<1>5. CASE Arrive(c) \/ GiveUp(c) \/ Query(c) \/ CloneParents(c)
  BY <1>4, <1>5, Arrives, Answered DEF GiveUp, CloneParents
<1>6. ASSUME UNCHANGED project, archived' \subseteq old, enabled' \subseteq old,
             dependencies' \subseteq old \X old
      PROVE  TablesTypeOK'
  BY <1>2, <1>6 DEF TablesTypeOK, Exists
<1>7. CASE Create(c) \/ CloneFeature(c)
  <2>1. PICK f \in call.names, p \in Projects :
            /\ ~Exists(f)
            /\ project' = [project EXCEPT ![f] = p]
            /\ archived' \subseteq archived \cup {f}
    BY <1>7 DEF Create, CloneFeature
  <2>2. UNCHANGED <<enabled, dependencies>>
    BY <1>7 DEF Create, CloneFeature
  <2>3. f \in Features /\ p # NoProject  BY <1>3, <2>1, TablesAssumption
  <2>4. project' \in [Features -> Projects \cup {NoProject}]  BY <1>2, <2>1
  <2>5. old \cup {f} \subseteq {g \in Features : project'[g] # NoProject}
    BY <1>2, <2>1, <2>3 DEF Exists
  <2> QED BY <1>2, <2>1, <2>2, <2>4, <2>5 DEF TablesTypeOK, Exists
<1>8. CASE CloneClear(c) \/ DeleteDependency(c) \/ DeleteDependencies(c)
  BY <1>2, <1>6, <1>8 DEF CloneClear, DeleteDependency, DeleteDependencies
<1>9. CASE AddDependency(c)
  <2>1. call.names \subseteq old /\ call.other \subseteq old
    BY <1>3, <1>9 DEF AddDependency
  <2> QED BY <1>2, <1>6, <1>9, <2>1 DEF AddDependency
<1>10. CASE Archive(c)
  BY <1>2, <1>3, <1>6, <1>10 DEF Archive
<1>11. CASE Delete(c)
  <2>1. PICK names \in SUBSET archived :
            /\ OrphanParents(names) = {}
            /\ project' = [f \in Features |-> IF f \in names THEN NoProject ELSE project[f]]
            /\ archived' = archived \ names
            /\ enabled' = enabled \ names
            /\ dependencies' = dependencies \ RowsOfChildren(names)
    BY <1>11 DEF Delete
  <2>2. \A d \in dependencies' : d \in (old \ names) \X (old \ names)
    <3> SUFFICES ASSUME NEW d \in dependencies'  PROVE d \in (old \ names) \X (old \ names)
      OBVIOUS
    <3>1. d \in dependencies /\ d[2] \notin names  BY <2>1 DEF RowsOfChildren
    <3>2. d = <<d[1], d[2]>> /\ d[1] \in old /\ d[2] \in old  BY <1>2, <3>1
    <3>3. d[1] \notin names
      BY <2>1, <3>1, <3>2 DEF OrphanParents
    <3> QED BY <3>1, <3>2, <3>3
  <2>3. \A f \in old \ names : f \in Features /\ project'[f] # NoProject
    BY <1>2, <2>1 DEF Exists
  <2> QED BY <1>2, <2>1, <2>2, <2>3 DEF TablesTypeOK, Exists
<1>12. CASE Revive(c)
  BY <1>2, <1>6, <1>12 DEF Revive
<1>13. CASE Update(c)
  <2>1. call.seen \subseteq call.names  BY <1>1, <1>13 DEF Update, Ready, Shaped, NoCall
  <2> QED BY <1>2, <1>3, <1>6, <1>13, <2>1 DEF Update
<1>14. CASE ChangeProject(c)
  <2>1. call.seen \subseteq call.names /\ \E f \in Features : call.names = {f}
    BY <1>1, <1>14 DEF ChangeProject, Ready, Shaped, NoCall, BatchOperations, PairOperations,
                       CloneSteps
  <2>2. PICK f \in call.names, p \in Projects : Exists(f) /\ project' = [project EXCEPT ![f] = p]
    BY <1>14 DEF ChangeProject
  <2>3. archived' \subseteq archived \cup {f}  BY <1>14, <2>1, <2>2 DEF ChangeProject
  <2>4. UNCHANGED <<enabled, dependencies>>  BY <1>14 DEF ChangeProject
  <2> QED BY <1>2, <1>3, <2>2, <2>3, <2>4, TablesAssumption DEF TablesTypeOK, Exists
<1>15. CASE SetEnabled(c)
  BY <1>2, <1>3, <1>6, <1>15 DEF SetEnabled
<1> QED
  BY <1>5, <1>7, <1>8, <1>9, <1>10, <1>11, <1>12, <1>13, <1>14, <1>15 DEF Step

(* However calls overlap, every step keeps the types.                      *)
LEMMA TypeStep == TypeInv /\ [Next]_vars => TypeInv'
<1> SUFFICES ASSUME TypeInv, [Next]_vars  PROVE TypeInv'  OBVIOUS
<1>1. ASSUME TablesTypeOK', NEW c \in Callers, NEW e \in Call, Shaped(e),
             calls' = [calls EXCEPT ![c] = e]
      PROVE  TypeInv'
  <2>1. Shaped(e)'  BY <1>1 DEF Shaped, Unasked, Asked
  <2>2. calls' \in [Callers -> Call]  BY <1>1 DEF TypeInv, TypeOK
  <2>3. \A d \in Callers : Shaped(calls'[d])
    BY <1>1 DEF TypeInv, TypeOK
  <2> QED BY <1>1, <2>2, <2>3 DEF TypeInv, TypeOK, Call, Shaped, Unasked, Asked
<1>2. CASE UNCHANGED vars
  <2>1. TablesTypeOK'  BY <1>2 DEF vars, TypeInv, TypeOK, TablesTypeOK, Exists
  <2>2. calls' = calls  BY <1>2 DEF vars
  <2> QED BY <2>1, <2>2 DEF TypeInv, TypeOK
<1>3. ASSUME NEW c \in Callers, Step(c)  PROVE TypeInv'
  <2>1. TablesTypeOK'  BY <1>3, TablesStep
  <2>2. CASE End(c)  BY <1>1, <2>1, <2>2, NoCallShaped DEF End
  <2>3. CASE Arrive(c)  BY <1>1, <2>1, <2>3, Arrives
  <2>4. CASE Query(c)  BY <1>1, <2>1, <2>4, Answered
  <2>5. CASE CloneFeature(c) \/ CloneParents(c) \/ CloneClear(c)
    BY <1>1, <2>1, <2>5, CloneGoesOn
  <2> QED
    BY <1>3, <2>2, <2>3, <2>4, <2>5
       DEF Step, GiveUp, Create, AddDependency, DeleteDependency, DeleteDependencies, Archive,
           Delete, Revive, Update, ChangeProject, SetEnabled
<1> QED BY <1>2, <1>3 DEF Next

(* No rows, no calls.                                                      *)
LEMMA TypeInit == Init => TypeInv
BY NoCallShaped, TablesAssumption DEF Init, TypeInv, TypeOK, TablesTypeOK, Exists

(* However the calls overlap, the foreign keys and their cascades hold, and*)
(* the calls have their shape: no query is checked again by a write.       *)
THEOREM DependencyCallsTypeOK == Spec => []TypeOK
<1>1. TypeInv => TypeOK  BY DEF TypeInv
<1> QED BY TypeInit, TypeStep, <1>1, PTL DEF Spec

-----------------------------------------------------------------------------
(* What a call has learnt and must still be true when it writes.           *)
Holds(q, call) ==
    /\ q \in Checks => Passes(q, call)
    /\ q = "row" => Passes("exists", call)
    /\ q \notin Checks => call.seen = Reads(q, call)

(* All of what it has asked, and of the rows a clone has left behind.      *)
Kept(call) ==
    /\ \A q \in Asked(call.op) \ Unasked(call.todo) : Holds(q, call)
    /\ call.names \cap call.other = {}
    /\ call.op = "cloned" => ChildrenOf(call.names) = {}
    /\ call.op = "cloneInsert" => RowsOfChildren(call.names) = {}

(* No two calls read or change the same feature.                           *)
Disjoint ==
    \A c, d \in Callers : c # d => Footprint(calls[c]) \cap Footprint(calls[d]) = {}

(* What the refinement needs, and what a step keeps unless calls overlap.  *)
Inv == TypeInv /\ Disjoint /\ \A c \in Callers : Kept(calls[c])

(* A step that writes only what its call names: the rows of its features   *)
(* as children, and new ones only below the feature it names as the other. *)
Confined(call) ==
    /\ \A f \in Features \ call.names :
           project'[f] = project[f] /\ (f \in archived' <=> f \in archived)
    /\ \A d \in dependencies' \ dependencies : d[1] \in call.other /\ d[2] \in call.names
    /\ \A d \in dependencies \ dependencies' : d[2] \in call.names

(* What one call has learnt stays true whatever the others write, if they  *)
(* have no feature in common.                                              *)
LEMMA Undisturbed ==
    ASSUME TablesTypeOK, TablesTypeOK', NEW w \in Call, NEW e \in Call, Confined(w),
           Footprint(w) \cap Footprint(e) = {}
    PROVE  (Kept(e) => Kept(e)') /\ Footprint(e)' = Footprint(e)
<1> DEFINE own == e.names \cup e.other
<1>1. /\ own \subseteq Features
      /\ \A x \in own : x \notin w.names /\ x \notin w.other
  BY DEF Footprint, Call
<1>2. /\ \A x \in own : project'[x] = project[x] /\ (x \in archived' <=> x \in archived)
      /\ \A d \in dependencies' : d[1] \in own => d \in dependencies
      /\ \A d : d[2] \in own => (d \in dependencies <=> d \in dependencies')
  BY <1>1 DEF Confined
<1>3. /\ \A d \in dependencies : d = <<d[1], d[2]>> /\ d[1] \in Features /\ d[2] \in Features
      /\ \A d \in dependencies' : d = <<d[1], d[2]>> /\ d[1] \in Features /\ d[2] \in Features
  BY DEF TablesTypeOK
<1>4. \A f, g : <<f, g>>[1] = f /\ <<f, g>>[2] = g  OBVIOUS
<1>5. \A f, g : /\ f \in own /\ <<f, g>> \in dependencies' => <<f, g>> \in dependencies
                /\ g \in own => (<<f, g>> \in dependencies <=> <<f, g>> \in dependencies')
  BY <1>2, <1>4
<1>6. Footprint(e)' = Footprint(e)
  BY <1>5 DEF Footprint, ParentsOf
<1>7. /\ RowsOfChildren(e.names)' = RowsOfChildren(e.names)
      /\ ChildrenOf(e.names)' \subseteq ChildrenOf(e.names)
      /\ OrphanParents(e.names)' \subseteq OrphanParents(e.names)
      /\ archived' \cap e.names = archived \cap e.names
      /\ \A x \in own : Exists(x)' = Exists(x) /\ FeatureExists(x)' = FeatureExists(x)
      /\ \A x \in own : ParentsOf(x)' = ParentsOf(x)
  <2>1. RowsOfChildren(e.names)' = RowsOfChildren(e.names)
    BY <1>2 DEF RowsOfChildren
  <2>2. ChildrenOf(e.names)' \subseteq ChildrenOf(e.names)
    BY <1>5 DEF ChildrenOf
  <2>3. OrphanParents(e.names)' \subseteq OrphanParents(e.names)
    BY <1>5 DEF OrphanParents
  <2>4. archived' \cap e.names = archived \cap e.names
    BY <1>2
  <2>5. \A x \in own : Exists(x)' = Exists(x) /\ FeatureExists(x)' = FeatureExists(x)
    BY <1>2 DEF Exists, FeatureExists
  <2>6. \A x \in own : ParentsOf(x)' = ParentsOf(x)
    BY <1>5 DEF ParentsOf
  <2> QED BY <2>1, <2>2, <2>3, <2>4, <2>5, <2>6
<1>8. ASSUME NEW q \in Checks, Passes(q, e)  PROVE Passes(q, e)'
  <2>1. CASE q = "noChildren"  BY <1>7, <1>8, <2>1 DEF Passes, NoChildren
  <2>2. CASE q = "noGrandparents"  BY <1>7, <1>8, <2>2 DEF Passes
  <2>3. CASE q = "parentActive"  BY <1>7, <1>8, <2>3 DEF Passes
  <2>4. CASE q = "sameProject"
    BY <1>2, <1>8, <2>4 DEF Passes, FeaturesInTheSameProject, Exists
  <2>5. CASE q = "noOrphans"  BY <1>7, <1>8, <2>5 DEF Passes
  <2>6. CASE q = "independent"
    BY <1>2, <1>8, <2>6 DEF Passes, HaveDependencies
  <2>7. CASE q = "oneProject"
    BY <1>2, <1>8, <2>7 DEF Passes, FeaturesContext, Exists
  <2>8. CASE q = "exists"  BY <1>7, <1>8, <2>8 DEF Passes
  <2>9. CASE q = "active"  BY <1>7, <1>8, <2>9 DEF Passes
  <2>10. CASE q = "free"  BY <1>7, <1>8, <2>10 DEF Passes
  <2>11. CASE q = "sourceActive"  BY <1>7, <1>8, <2>11 DEF Passes
  <2> QED
    BY <2>1, <2>2, <2>3, <2>4, <2>5, <2>6, <2>7, <2>8, <2>9, <2>10, <2>11 DEF Checks
<1>9. \A q : Reads(q, e)' = Reads(q, e)
  BY <1>7 DEF Reads
<1>10. \A q : Holds(q, e) => Holds(q, e)'
  <2>1. "exists" \in Checks  BY DEF Checks
  <2> QED BY <1>8, <1>9, <2>1 DEF Holds
<1>11. Kept(e) => Kept(e)'
  BY <1>7, <1>10 DEF Kept
<1> QED BY <1>6, <1>11

(* Every write of a call is confined.                                      *)
LEMMA WritesConfined ==
    ASSUME Inv, NEW c \in Callers, Step(c)
    PROVE  Confined(calls[c])
<1> DEFINE call == calls[c]
<1>1. call \in Call /\ Shaped(call) /\ Kept(call)  BY DEF Inv, TypeInv, TypeOK
<1>2. project \in [Features -> Projects \cup {NoProject}]
  BY DEF Inv, TypeInv, TypeOK, TablesTypeOK
<1>3. Unasked(<<>>) = {}  BY DEF Unasked
<1>4. \A op : Ready(c, op) => \A q \in Asked(op) : Holds(q, call)
  BY <1>1, <1>3 DEF Ready, Kept
<1>5. ASSUME UNCHANGED tableVars  PROVE Confined(call)
  BY <1>5 DEF Confined, tableVars
<1>6. CASE Arrive(c) \/ GiveUp(c) \/ Query(c) \/ CloneParents(c)
  BY <1>5, <1>6, Arrives, Answered DEF GiveUp, CloneParents, Inv
<1>7. CASE Create(c)
  BY <1>2, <1>7 DEF Create, Confined
<1>8. CASE CloneFeature(c)
  BY <1>2, <1>8 DEF CloneFeature, Confined
<1>9. CASE CloneClear(c) \/ DeleteDependencies(c)
  BY <1>9 DEF CloneClear, DeleteDependencies, Confined, RowsOfChildren
<1>10. CASE DeleteDependency(c)
  BY <1>10 DEF DeleteDependency, Confined
<1>11. ASSUME Ready(c, "addDependency") \/ Ready(c, "archive") \/ Ready(c, "archiveAll")
       PROVE  call.seen = RowsOfChildren(call.names)
  <2>1. Holds("childRows", call)  BY <1>4, <1>11, AskedValues
  <2> QED BY <2>1 DEF Holds, Reads, Checks
<1>12. CASE AddDependency(c)
  <2>1. call.seen = RowsOfChildren(call.names) \/ call.seen = {}
    BY <1>1, <1>11, <1>12 DEF AddDependency, Ready, Shaped, CloneSteps
  <2> QED BY <1>12, <2>1 DEF AddDependency, Confined, RowsOfChildren
<1>13. CASE Archive(c)
  <2>1. call.seen = RowsOfChildren(call.names)  BY <1>11, <1>13 DEF Archive
  <2> QED BY <1>13, <2>1 DEF Archive, Confined, RowsOfChildren
<1>14. ASSUME Ready(c, "deleteAll") \/ Ready(c, "reviveAll")
       PROVE  call.seen = archived \cap call.names
  <2>1. Holds("archivedRows", call)  BY <1>4, <1>14, AskedValues
  <2> QED BY <2>1 DEF Holds, Reads, Checks
<1>15. CASE Delete(c)
  <2>1. PICK names \in SUBSET call.names :
            /\ project' = [f \in Features |-> IF f \in names THEN NoProject ELSE project[f]]
            /\ archived' = archived \ names
            /\ dependencies' = dependencies \ RowsOfChildren(names)
    <3>1. CASE call.op = "delete"  BY <1>15, <3>1 DEF Delete
    <3>2. CASE call.op # "delete"
      <4>1. call.seen = archived \cap call.names  BY <1>14, <1>15, <3>2 DEF Delete, Ready
      <4> QED BY <1>15, <3>2, <4>1 DEF Delete
    <3> QED BY <3>1, <3>2
  <2> QED BY <2>1 DEF Confined, RowsOfChildren
<1>16. CASE Revive(c)
  <2>1. call.op # "revive" => call.seen = archived \cap call.names
    BY <1>14, <1>16 DEF Revive, Ready
  <2> QED BY <1>16, <2>1 DEF Revive, Confined
<1>17. CASE Update(c) \/ ChangeProject(c)
  <2>1. call.seen \subseteq call.names
    BY <1>1, <1>17 DEF Update, ChangeProject, Ready, Shaped
  <2>2. CASE Update(c)  BY <2>1, <2>2 DEF Update, Confined
  <2>3. CASE ChangeProject(c)  BY <1>2, <2>1, <2>3 DEF ChangeProject, Confined
  <2> QED BY <1>17, <2>2, <2>3
<1>18. CASE SetEnabled(c)
  BY <1>18 DEF SetEnabled, Confined
<1> QED
  BY <1>6, <1>7, <1>8, <1>9, <1>10, <1>12, <1>13, <1>15, <1>16, <1>17, <1>18 DEF Step

(* What a call has learnt stays true while the tables stay.                *)
LEMMA SameTables ==
    ASSUME UNCHANGED tableVars, NEW e
    PROVE  Kept(e)' = Kept(e) /\ Footprint(e)' = Footprint(e)
<1>1. /\ Footprint(e)' = Footprint(e)
      /\ ChildrenOf(e.names)' = ChildrenOf(e.names)
      /\ RowsOfChildren(e.names)' = RowsOfChildren(e.names)
  BY DEF tableVars, Footprint, ParentsOf, ChildrenOf, RowsOfChildren
<1>2. \A q : Holds(q, e)' = Holds(q, e)
  BY DEF tableVars, Holds, Passes, Reads, NoChildren, ChildrenOf, ParentsOf, OrphanParents,
         FeatureExists, Exists, FeaturesInTheSameProject, HaveDependencies, FeaturesContext,
         RowsOfChildren
<1> QED BY <1>1, <1>2 DEF Kept

(* The call of a caller, read in the next state.                           *)
LEMMA NextCall ==
    ASSUME NEW d, NEW k, k = calls'[d]
    PROVE  Kept(calls[d])' = Kept(k)' /\ Footprint(calls[d])' = Footprint(k)'
<1>1. Footprint(calls[d])' = Footprint(k)'  BY DEF Footprint, ParentsOf
<1>2. \A q : Passes(q, calls[d])' = Passes(q, k)'
  BY DEF Passes, NoChildren, ChildrenOf, ParentsOf, OrphanParents, FeatureExists, Exists,
         FeaturesInTheSameProject, HaveDependencies, FeaturesContext
<1>3. \A q : Reads(q, calls[d])' = Reads(q, k)'
  BY DEF Reads, RowsOfChildren
<1>4. \A q : Holds(q, calls[d])' = Holds(q, k)'
  BY <1>2, <1>3 DEF Holds
<1>5. Kept(calls[d])' = Kept(k)'
  BY <1>4 DEF Kept, ChildrenOf, RowsOfChildren
<1> QED BY <1>1, <1>5

(* A step of one call keeps what all of them rely on, if it leaves its own *)
(* call with what it must have learnt and in its part of the features.     *)
LEMMA OthersKeep ==
    ASSUME Inv, NEW c \in Callers, Step(c), NEW e \in Call,
           calls' = [calls EXCEPT ![c] = e], Kept(e)',
           \A d \in Callers \ {c} : Footprint(e)' \cap Footprint(calls[d]) = {}
    PROVE  Inv'
<1>1. TypeInv'
  <2>1. Next  BY DEF Next
  <2> QED BY <2>1, TypeStep DEF Inv
<1>2. Confined(calls[c])  BY WritesConfined
<1>3. calls \in [Callers -> Call]  BY DEF Inv, TypeInv, TypeOK
<1>4. TablesTypeOK /\ TablesTypeOK'  BY <1>1 DEF Inv, TypeInv, TypeOK
<1>5. ASSUME NEW d \in Callers \ {c}
      PROVE  Kept(calls[d])' /\ Footprint(calls[d])' = Footprint(calls[d])
  <2>1. PICK w \in Call : w = calls[c]  BY <1>3
  <2>2. PICK k \in Call : k = calls[d]  BY <1>3
  <2>3. Footprint(w) \cap Footprint(k) = {}  BY <2>1, <2>2 DEF Inv, Disjoint
  <2>4. Kept(k) /\ Confined(w)  BY <1>2, <2>1, <2>2 DEF Inv
  <2>5. Kept(k)' /\ Footprint(k)' = Footprint(k)
    BY <1>4, <2>3, <2>4, Undisturbed
  <2>6. k = calls'[d]  BY <1>3, <2>2
  <2> QED BY <2>2, <2>5, <2>6, NextCall
<1>6. Kept(calls[c])' /\ Footprint(calls[c])' = Footprint(e)'
  <2>1. e = calls'[c]  BY <1>3
  <2> QED BY <2>1, NextCall
<1>7. \A d \in Callers : Kept(calls[d])'
  BY <1>5, <1>6
<1>8. Disjoint'
  <2> SUFFICES ASSUME NEW a \in Callers, NEW d \in Callers, a # d
               PROVE  Footprint(calls[a])' \cap Footprint(calls[d])' = {}
    BY DEF Disjoint
  <2>1. CASE a = c  BY <1>5, <1>6, <2>1
  <2>2. CASE d = c  BY <1>5, <1>6, <2>2
  <2>3. CASE a # c /\ d # c  BY <1>5, <2>3 DEF Inv, Disjoint
  <2> QED BY <2>1, <2>2, <2>3
<1> QED BY <1>1, <1>7, <1>8 DEF Inv

(* Without a call there is nothing to keep.                                *)
LEMMA NoCallKept == Kept(NoCall) /\ Footprint(NoCall) = {}
BY DEF NoCall, Kept, Footprint, Asked, OperationNames, Queries

(* The call ends.                                                          *)
LEMMA EndKeeps ==
    ASSUME Inv, NEW c \in Callers, Step(c), End(c)
    PROVE  Inv'
<1>1. Kept(NoCall)' /\ Footprint(NoCall)' = {}
  BY NoCallKept DEF NoCall, Kept, Footprint, Asked, OperationNames, Queries
<1> QED BY <1>1, NoCallShaped, OthersKeep DEF End

(* The call begins, with nothing learnt.                                   *)
LEMMA ArriveKeeps ==
    ASSUME Inv, ~Overlap, NEW c \in Callers, Arrive(c)
    PROVE  Inv'
<1>1. PICK e \in Call :
         /\ calls' = [calls EXCEPT ![c] = e]
         /\ e.op \in OperationNames
         /\ e.todo = Queries[e.op]
         /\ e.names \cap e.other = {}
         /\ \A d \in Callers : Footprint(calls[d]) \cap Footprint(e) = {}
  BY Arrives DEF Inv
<1>2. UNCHANGED tableVars  BY Arrives DEF Inv
<1>3. /\ e.op \notin {"cloned", "cloneDependency", "cloneInsert"}
      /\ Asked(e.op) \ Unasked(e.todo) = {}
  BY <1>1 DEF Asked, Unasked, OperationNames, Queries
<1>4. Kept(e)  BY <1>1, <1>3 DEF Kept
<1>5. Kept(e)' /\ Footprint(e)' = Footprint(e)  BY <1>2, <1>4, SameTables
<1> QED BY <1>1, <1>5, OthersKeep DEF Step

(* A query is answered: what it found holds now.                           *)
LEMMA QueryKeeps ==
    ASSUME Inv, NEW c \in Callers, Query(c)
    PROVE  Inv'
<1> DEFINE call == calls[c]
<1>1. PICK e \in Call, q \in Asked(call.op) :
         /\ calls' = [calls EXCEPT ![c] = e]
         /\ e.op = call.op /\ e.names = call.names /\ e.other = call.other
         /\ q \in Checks => Passes(q, call)
         /\ q = "row" => Passes("exists", call)
         /\ e.seen = IF q \in Checks THEN call.seen ELSE Reads(q, call)
         /\ Unasked(call.todo) \subseteq Unasked(e.todo) \cup {q}
         /\ Shaped(e)
  BY Answered DEF Inv
<1>2. UNCHANGED tableVars  BY Answered DEF Inv
<1>3. Kept(call) /\ call \in Call  BY DEF Inv, TypeInv, TypeOK
<1>4. /\ \A r : Passes(r, e) = Passes(r, call) /\ Reads(r, e) = Reads(r, call)
      /\ Footprint(e) = Footprint(call)
  BY <1>1 DEF Passes, NoChildren, Reads, Footprint
<1>5. \A r \in Asked(call.op) : r \notin Checks /\ q \notin Checks => r = q
  BY OneRead
<1>6. \A r \in Asked(e.op) \ Unasked(e.todo) : Holds(r, e)
  <2> SUFFICES ASSUME NEW r \in Asked(call.op), r \notin Unasked(e.todo)
               PROVE  Holds(r, e)
    BY <1>1
  <2>1. CASE r = q  BY <1>1, <1>4, <2>1 DEF Holds
  <2>2. CASE r # q
    <3>1. Holds(r, call)  BY <1>1, <1>3, <2>2 DEF Kept
    <3>2. r \notin Checks => e.seen = call.seen  BY <1>1, <1>5, <2>2
    <3> QED BY <1>4, <3>1, <3>2 DEF Holds
  <2> QED BY <2>1, <2>2
<1>7. call.op \notin {"cloned", "cloneInsert"}
  <2>1. call.todo # <<>> /\ Shaped(call)  BY DEF Query, Inv, TypeInv
  <2> QED BY <2>1 DEF Shaped
<1>8. Kept(e)  BY <1>1, <1>3, <1>6, <1>7 DEF Kept
<1>9. Kept(e)' /\ Footprint(e)' = Footprint(call)  BY <1>2, <1>4, <1>8, SameTables
<1>10. \A d \in Callers \ {c} : Footprint(e)' \cap Footprint(calls[d]) = {}
  BY <1>9 DEF Inv, Disjoint
<1> QED BY <1>1, <1>9, <1>10, OthersKeep DEF Step

(* cloneFeatureToggle goes on: a new feature has no row, a parent of the   *)
(* source is another feature, and the DELETE leaves the checks true.       *)
LEMMA CloneKeeps ==
    ASSUME Inv, NEW c \in Callers, CloneFeature(c) \/ CloneParents(c) \/ CloneClear(c), ~End(c)
    PROVE  Inv'
<1>1. PICK call \in Call : call = calls[c]  BY DEF Inv, TypeInv, TypeOK
<1>2. /\ calls \in [Callers -> Call]
      /\ dependencies \subseteq {f \in Features : Exists(f)} \X {f \in Features : Exists(f)}
  BY DEF Inv, TypeInv, TypeOK, TablesTypeOK
<1>3. Kept(call)  BY <1>1 DEF Inv
<1>4. Step(c)  BY DEF Step
<1>5. \A d \in Callers \ {c} : Footprint(call) \cap Footprint(calls[d]) = {}
  BY <1>1 DEF Inv, Disjoint
<1>6. Unasked(<<>>) = {} /\ Unasked(<<DependencyChecks>>) = DependencyChecks
  BY DEF Unasked
<1>7. PICK e \in Call : calls' = [calls EXCEPT ![c] = e]
  BY CloneGoesOn DEF Inv
<1>8. ASSUME Kept(e)', Footprint(e)' \subseteq Footprint(call)  PROVE Inv'
  BY <1>4, <1>5, <1>7, <1>8, OthersKeep
<1>9. CASE CloneFeature(c)
  <2>1. /\ e = [call EXCEPT !.op = "cloned"]
        /\ dependencies' = dependencies
        /\ call.op = "clone" /\ call.todo = <<>>
        /\ \E f \in call.names : ~Exists(f)
    BY <1>1, <1>2, <1>7, <1>9 DEF CloneFeature, Ready
  <2>2. e.op = "cloned" /\ e.names = call.names /\ e.other = call.other
    BY <2>1 DEF Call
  <2>3. \E f \in Features : call.names = {f}
    <3>1. Shaped(call)  BY <1>1 DEF Inv, TypeInv
    <3> QED BY <2>1, <3>1 DEF Shaped, NoCall, BatchOperations, PairOperations
  <2>4. ChildrenOf(e.names)' = {}
    <3>1. PICK f \in Features : call.names = {f} /\ ~Exists(f)  BY <2>1, <2>3
    <3>2. \A g : <<f, g>> \notin dependencies  BY <1>2, <3>1
    <3> QED BY <2>1, <2>2, <3>1, <3>2 DEF ChildrenOf
  <2>5. Asked("cloned") = {}  BY DEF Asked, OperationNames, Queries
  <2>6. Kept(e)'
    <3>1. Asked("cloned")' = {}  BY <2>5 DEF Asked
    <3> QED BY <1>3, <2>2, <2>4, <2>5 DEF Kept
  <2>7. Footprint(e)' = Footprint(call)
    BY <2>1, <2>2 DEF Footprint, ParentsOf
  <2> QED BY <1>8, <2>6, <2>7
<1>10. CASE CloneParents(c)
  <2>1. PICK p \in Features :
            /\ \E s \in call.other : p \in ParentsOf(s)
            /\ calls' = [calls EXCEPT ![c].op = "cloneDependency",
                                      ![c].other = {p},
                                      ![c].todo = <<DependencyChecks>>]
    BY <1>1, <1>10 DEF CloneParents
  <2>2. UNCHANGED tableVars /\ call.op = "cloned"  BY <1>1, <1>10 DEF CloneParents, Ready
  <2>3. e.op = "cloneDependency" /\ e.names = call.names /\ e.other = {p}
        /\ e.todo = <<DependencyChecks>>
    BY <1>1, <1>2, <1>7, <2>1 DEF Call
  <2>4. p \notin e.names
    <3>1. ChildrenOf(call.names) = {}  BY <1>3, <2>2 DEF Kept
    <3>2. \A s \in call.other : s \in Features  BY DEF Call
    <3> QED BY <2>1, <2>3, <3>1, <3>2 DEF ChildrenOf, ParentsOf
  <2>5. Asked(e.op) \ Unasked(e.todo) = {}  BY <1>6, <2>3 DEF Asked
  <2>6. Kept(e)  BY <2>3, <2>4, <2>5 DEF Kept
  <2>7. Footprint(e) \subseteq Footprint(call)
    BY <2>1, <2>2, <2>3 DEF Footprint
  <2> QED BY <1>8, <2>2, <2>6, <2>7, SameTables
<1>11. CASE CloneClear(c)
  <2>1. /\ e = [call EXCEPT !.op = "cloneInsert"]
        /\ dependencies' = dependencies \ RowsOfChildren(call.names)
        /\ UNCHANGED <<project, archived>>
        /\ call.op = "cloneDependency" /\ call.todo = <<>>
    BY <1>1, <1>2, <1>7, <1>11 DEF CloneClear, Ready
  <2>2. e.op = "cloneInsert" /\ e.names = call.names /\ e.other = call.other
    BY <2>1 DEF Call
  <2>3. RowsOfChildren(e.names)' = {}
    BY <2>1, <2>2 DEF RowsOfChildren
  <2>4. \A q \in DependencyChecks : Holds(q, call)
    BY <1>3, <1>6, <2>1 DEF Kept, Asked
  <2>5. ASSUME NEW q \in DependencyChecks  PROVE Holds(q, e)'
    <3>1. q \in Checks /\ q # "row" /\ Passes(q, call)
      BY <2>4 DEF Holds, DependencyChecks, Checks
    <3>2. Passes(q, e)'
      <4>1. CASE q = "noChildren"
        BY <2>1, <2>2, <3>1, <4>1 DEF Passes, NoChildren, ChildrenOf
      <4>2. CASE q = "noGrandparents"
        BY <2>1, <2>2, <3>1, <4>2 DEF Passes, ParentsOf
      <4>3. CASE q = "parentActive"
        BY <2>1, <2>2, <3>1, <4>3 DEF Passes, FeatureExists, Exists
      <4>4. CASE q = "sameProject"
        BY <2>1, <2>2, <3>1, <4>4 DEF Passes, FeaturesInTheSameProject, Exists
      <4> QED BY <4>1, <4>2, <4>3, <4>4 DEF DependencyChecks
    <3> QED BY <3>1, <3>2 DEF Holds
  <2>6. Kept(e)'
    <3>1. e.op \in {"cloneDependency", "cloneInsert"} /\ e.op # "cloned"  BY <2>2
    <3>2. Asked(e.op) = DependencyChecks  BY <3>1 DEF Asked
    <3>3. e.names \cap e.other = {}  BY <1>3, <2>2 DEF Kept
    <3> QED BY <2>3, <2>5, <3>1, <3>2, <3>3 DEF Kept
  <2>7. Footprint(e)' \subseteq Footprint(call)
    BY <2>2 DEF Footprint
  <2> QED BY <1>8, <2>6, <2>7
<1> QED BY <1>9, <1>10, <1>11

(* What no call may lose while calls that share a feature do not overlap.  *)
LEMMA InvStep == ~Overlap /\ Inv /\ [Next]_vars => Inv'
<1> SUFFICES ASSUME ~Overlap, Inv, [Next]_vars  PROVE Inv'  OBVIOUS
<1>1. CASE UNCHANGED vars
  <2>1. TypeInv'  BY TypeStep DEF Inv
  <2>2. UNCHANGED tableVars /\ calls' = calls  BY <1>1 DEF vars, tableVars
  <2>3. ASSUME NEW c \in Callers
        PROVE  Kept(calls[c])' /\ Footprint(calls[c])' = Footprint(calls[c])
    <3>1. PICK e : e = calls[c]  OBVIOUS
    <3>2. Kept(e)' = Kept(e) /\ Footprint(e)' = Footprint(e)  BY <2>2, SameTables
    <3>3. e = calls'[c]  BY <2>2, <3>1
    <3> QED BY <3>1, <3>2, <3>3, NextCall DEF Inv
  <2> QED BY <2>1, <2>3 DEF Inv, Disjoint
<1>2. ASSUME NEW c \in Callers, Step(c)  PROVE Inv'
  <2>1. CASE End(c)  BY <1>2, <2>1, EndKeeps
  <2>2. CASE Arrive(c)  BY <2>2, ArriveKeeps
  <2>3. CASE Query(c)  BY <2>3, QueryKeeps
  <2>4. CASE (CloneFeature(c) \/ CloneParents(c) \/ CloneClear(c)) /\ ~End(c)
    BY <2>4, CloneKeeps
  <2> QED
    BY <1>2, <2>1, <2>2, <2>3, <2>4
       DEF Step, GiveUp, Create, AddDependency, DeleteDependency, DeleteDependencies, Archive,
           Delete, Revive, Update, ChangeProject, SetEnabled
<1> QED BY <1>1, <1>2 DEF Next

(* No calls yet.                                                           *)
LEMMA InvInit == Init => Inv
<1> SUFFICES ASSUME Init  PROVE Inv  OBVIOUS
<1>1. \A c \in Callers : calls[c] = NoCall  BY DEF Init
<1> QED BY <1>1, TypeInit, NoCallKept DEF Inv, Disjoint

-----------------------------------------------------------------------------
(* The tables of the two specifications are the same, so are the queries.  *)
LEMMA SameQueries ==
    /\ OneAtATime!tableVars = tableVars
    /\ \A f : OneAtATime!Exists(f) <=> Exists(f)
    /\ \A f : OneAtATime!FeatureExists(f) <=> FeatureExists(f)
    /\ \A f, g : OneAtATime!FeaturesInTheSameProject(f, g) <=> FeaturesInTheSameProject(f, g)
    /\ \A names, p : OneAtATime!FeaturesContext(names, p) <=> FeaturesContext(names, p)
    /\ \A names : OneAtATime!ChildrenOf(names) = ChildrenOf(names)
    /\ \A f : OneAtATime!ParentsOf(f) = ParentsOf(f)
    /\ \A names : OneAtATime!OrphanParents(names) = OrphanParents(names)
    /\ \A names : OneAtATime!HaveDependencies(names) <=> HaveDependencies(names)
    /\ \A names : OneAtATime!RowsOfChildren(names) = RowsOfChildren(names)
BY DEF OneAtATime!tableVars, tableVars, OneAtATime!Exists, Exists, OneAtATime!FeatureExists,
       FeatureExists, OneAtATime!FeaturesInTheSameProject, FeaturesInTheSameProject,
       OneAtATime!FeaturesContext, FeaturesContext, OneAtATime!ChildrenOf, ChildrenOf,
       OneAtATime!ParentsOf, ParentsOf, OneAtATime!OrphanParents, OrphanParents,
       OneAtATime!HaveDependencies, HaveDependencies, OneAtATime!RowsOfChildren, RowsOfChildren

(* An operation on one feature is a step of Next.                          *)
LEMMA FeatureOperation ==
    ASSUME NEW f \in Features,
           \/ OneAtATime!Archive(f) \/ OneAtATime!Delete(f) \/ OneAtATime!Revive(f)
           \/ OneAtATime!DeleteDependencies(f)
           \/ \E p \in Projects : OneAtATime!Create(f, p) \/ OneAtATime!ChangeProject(f, p)
           \/ \E b \in BOOLEAN : OneAtATime!Update(f, b) \/ OneAtATime!SetEnabled(f, b)
           \/ \E g \in Features : OneAtATime!AddDependency(g, f) \/ OneAtATime!DeleteDependency(g, f)
    PROVE  OneAtATime!Next
<1>1. \E g \in Features : OneAtATime!FeatureStep(g)
  BY Zenon DEF OneAtATime!FeatureStep
<1> QED BY <1>1, Zenon DEF OneAtATime!Next

(* So is one on a batch.                                                   *)
LEMMA BatchOperation ==
    ASSUME NEW names \in SUBSET Features, NEW p \in Projects,
           \/ OneAtATime!ArchiveAll(names, p) \/ OneAtATime!DeleteAll(names, p)
           \/ OneAtATime!ReviveAll(names, p)
    PROVE  OneAtATime!Next
<1>1. OneAtATime!BatchStep(names, p)  BY Zenon DEF OneAtATime!BatchStep
<1> QED BY <1>1, Zenon DEF OneAtATime!Next

(* A commit is one operation of DependentFeatures, or changes no table.    *)
LEMMA StepFollows ==
    ASSUME Inv, NEW c \in Callers, Step(c)
    PROVE  OneAtATime!Next \/ UNCHANGED tableVars
<1>1. PICK call \in Call : call = calls[c]  BY DEF Inv, TypeInv, TypeOK
<1>2. Shaped(call) /\ Kept(call)  BY <1>1 DEF Inv, TypeInv
<1>3. /\ project \in [Features -> Projects \cup {NoProject}]
      /\ archived \subseteq {f \in Features : Exists(f)}
      /\ enabled \subseteq {f \in Features : Exists(f)}
  BY DEF Inv, TypeInv, TypeOK, TablesTypeOK
<1>4. \A op : Ready(c, op) => call.op = op /\ \A q \in Asked(op) : Holds(q, call)
  <2>1. Unasked(<<>>) = {}  BY DEF Unasked
  <2> QED BY <1>1, <1>2, <2>1 DEF Ready, Kept
<1>5. /\ call.op \in BatchOperations => call.other = {}
      /\ call.op \in PairOperations \cup CloneSteps =>
             \E f, g \in Features : call.names = {f} /\ call.other = {g} /\ f # g
      /\ call.op \in OperationNames \ (BatchOperations \cup PairOperations) =>
             \E f \in Features : call.names = {f} /\ call.other = {}
      /\ call.names \subseteq Features
  <2>1. NoCall.op = "none" /\ NoCall.names = {} /\ NoCall.other = {}  BY DEF NoCall
  <2>2. "none" \notin OperationNames  BY DEF OperationNames, Queries
  <2>3. call.names \cap call.other = {} /\ call.names \subseteq Features
    BY <1>2 DEF Kept, Call
  <2>4. CASE call = NoCall
    BY <2>1, <2>2, <2>4 DEF BatchOperations, PairOperations, CloneSteps
  <2>5. CASE call # NoCall
    <3>1. CloneSteps \cap OperationNames = {} /\ BatchOperations \cap PairOperations = {}
          /\ BatchOperations \cap CloneSteps = {}
      BY DEF OperationNames, Queries, CloneSteps, BatchOperations, PairOperations
    <3>2. \/ call.op \in BatchOperations /\ call.other = {}
          \/ /\ call.op \in PairOperations \cup CloneSteps
             /\ \E f, g \in Features : call.names = {f} /\ call.other = {g}
          \/ /\ call.op \in OperationNames \ (BatchOperations \cup PairOperations)
             /\ \E f \in Features : call.names = {f} /\ call.other = {}
      BY <1>2, <2>5 DEF Shaped
    <3> QED BY <2>3, <3>1, <3>2
  <2> QED BY <2>4, <2>5
<1>6. CASE Arrive(c) \/ GiveUp(c) \/ Query(c) \/ CloneParents(c)
  BY <1>6, Arrives, Answered DEF GiveUp, CloneParents, Inv, tableVars
<1>7. CASE Create(c) \/ CloneFeature(c)
  <2>1. PICK f \in call.names, p \in Projects :
            /\ ~Exists(f)
            /\ project' = [project EXCEPT ![f] = p]
            /\ archived' \in {archived, archived \cup {f}}
    BY <1>1, <1>7 DEF Create, CloneFeature
  <2>2. UNCHANGED <<enabled, dependencies>>  BY <1>7 DEF Create, CloneFeature
  <2>3. OneAtATime!Create(f, p)  BY <2>1, <2>2, SameQueries DEF OneAtATime!Create
  <2> QED BY <1>5, <2>1, <2>3, FeatureOperation
<1>8. CASE CloneClear(c) \/ DeleteDependencies(c)
  <2>1. PICK f \in Features : call.names = {f}
    BY <1>4, <1>5, <1>8 DEF CloneClear, DeleteDependencies, CloneSteps, OperationNames, Queries,
                            BatchOperations, PairOperations
  <2>2. OneAtATime!DeleteDependencies(f)
    BY <1>1, <1>8, <2>1, SameQueries
       DEF CloneClear, DeleteDependencies, OneAtATime!DeleteDependencies
  <2> QED BY <2>2, FeatureOperation
<1>9. CASE AddDependency(c)
  <2>1. \A q \in DependencyChecks : Holds(q, call)
    BY <1>4, <1>9, AskedValues DEF AddDependency, Asked
  <2>2. PICK f, g \in Features : call.names = {f} /\ call.other = {g} /\ f # g
    BY <1>4, <1>5, <1>9 DEF AddDependency, PairOperations, CloneSteps
  <2>3. /\ ChildrenOf({f}) = {} /\ ParentsOf(g) = {} /\ FeatureExists(g)
        /\ FeaturesInTheSameProject(f, g)
    BY <2>1, <2>2 DEF Holds, Passes, NoChildren, DependencyChecks, Checks
  <2>4. Exists(f) /\ UNCHANGED <<project, archived, enabled>>
    BY <1>1, <1>9, <2>2 DEF AddDependency
  <2>5. dependencies \ call.seen = dependencies \ RowsOfChildren({f})
    <3>1. CASE Ready(c, "addDependency")
      <4>1. Holds("childRows", call)  BY <1>4, <3>1, AskedValues
      <4> QED BY <2>2, <4>1 DEF Holds, Reads, Checks
    <3>2. CASE Ready(c, "cloneInsert")
      <4>1. call.seen = {} /\ RowsOfChildren({f}) = {}
        BY <1>2, <1>4, <2>2, <3>2 DEF Shaped, Kept, CloneSteps
      <4> QED BY <4>1
    <3> QED BY <1>9, <3>1, <3>2 DEF AddDependency
  <2>6. dependencies' = (dependencies \ RowsOfChildren({f})) \cup {<<g, f>>}
    <3>1. call.other \X call.names = {<<g, f>>}  BY <2>2
    <3> QED BY <1>1, <1>9, <2>5, <3>1 DEF AddDependency
  <2>7. OneAtATime!AddDependency(g, f)
    BY <2>2, <2>3, <2>4, <2>6, SameQueries DEF OneAtATime!AddDependency
  <2> QED BY <2>7, FeatureOperation
<1>10. CASE DeleteDependency(c)
  <2>1. PICK f, g \in Features : call.names = {f} /\ call.other = {g}
    BY <1>4, <1>5, <1>10 DEF DeleteDependency, PairOperations
  <2>2. OneAtATime!DeleteDependency(g, f)
    BY <1>1, <1>10, <2>1 DEF DeleteDependency, OneAtATime!DeleteDependency
  <2> QED BY <2>2, FeatureOperation
<1>11. CASE Archive(c) /\ Ready(c, "archive")
  <2>1. PICK f \in Features : call.names = {f}
    BY <1>4, <1>5, <1>11 DEF OperationNames, Queries, BatchOperations, PairOperations
  <2>2. /\ Holds("exists", call) /\ Holds("noOrphans", call) /\ Holds("noChildren", call)
        /\ Holds("childRows", call)
    BY <1>4, <1>11, AskedValues
  <2>3. /\ Exists(f) /\ OrphanParents({f}) = {} /\ ChildrenOf({f}) = {}
        /\ call.seen = RowsOfChildren({f})
    BY <2>1, <2>2 DEF Holds, Passes, NoChildren, Reads, Checks
  <2>4. OneAtATime!Archive(f)
    BY <1>1, <1>11, <2>1, <2>3, SameQueries DEF Archive, OneAtATime!Archive
  <2> QED BY <2>4, FeatureOperation
<1>12. CASE Archive(c) /\ Ready(c, "archiveAll")
  <2>1. Holds("oneProject", call) /\ Holds("noOrphans", call) /\ Holds("childRows", call)
    BY <1>4, <1>12, AskedValues
  <2>2. PICK p \in Projects : FeaturesContext(call.names, p)
    BY <2>1 DEF Holds, Passes, Checks
  <2>3. OrphanParents(call.names) = {} /\ call.seen = RowsOfChildren(call.names)
    BY <2>1 DEF Holds, Passes, Reads, Checks
  <2>4. OneAtATime!ArchiveAll(call.names, p)
    BY <1>1, <1>12, <2>2, <2>3, SameQueries DEF Archive, OneAtATime!ArchiveAll
  <2> QED BY <1>5, <2>4, BatchOperation
<1>13. CASE Delete(c) /\ Ready(c, "delete")
  <2>1. PICK f \in Features : call.names = {f}
    BY <1>4, <1>5, <1>13 DEF OperationNames, Queries, BatchOperations, PairOperations
  <2>2. ChildrenOf({f}) = {}
    <3>1. Holds("noChildren", call)  BY <1>4, <1>13, AskedValues
    <3> QED BY <2>1, <3>1 DEF Holds, Passes, NoChildren, Checks
  <2>3. CASE f \in archived
    <3>1. archived \cap call.names = {f}  BY <2>1, <2>3
    <3>2. OneAtATime!DeleteRows({f})
      BY <1>1, <1>4, <1>13, <3>1, SameQueries DEF Delete, OneAtATime!DeleteRows
    <3>3. OneAtATime!Delete(f)  BY <2>2, <2>3, <3>2, SameQueries DEF OneAtATime!Delete
    <3> QED BY <3>3, FeatureOperation
  <2>4. CASE f \notin archived
    <3>1. archived \cap call.names = {}  BY <2>1, <2>4
    <3> QED BY <1>1, <1>3, <1>4, <1>13, <3>1 DEF Delete, RowsOfChildren, tableVars
  <2> QED BY <2>3, <2>4
<1>14. CASE Delete(c) /\ Ready(c, "deleteAll")
  <2>1. Holds("oneProject", call) /\ Holds("noOrphans", call) /\ Holds("archivedRows", call)
    BY <1>4, <1>14, AskedValues
  <2>2. PICK p \in Projects : FeaturesContext(call.names, p)
    BY <2>1 DEF Holds, Passes, Checks
  <2>3. OrphanParents(call.names) = {} /\ archived \cap call.seen = call.names \cap archived
    BY <2>1 DEF Holds, Passes, Reads, Checks
  <2>4. OneAtATime!DeleteRows(call.names \cap archived)
    BY <1>1, <1>4, <1>14, <2>3, SameQueries DEF Delete, OneAtATime!DeleteRows
  <2>5. OneAtATime!DeleteAll(call.names, p)
    BY <2>2, <2>3, <2>4, SameQueries DEF OneAtATime!DeleteAll
  <2> QED BY <1>5, <2>5, BatchOperation
<1>15. CASE Revive(c) /\ Ready(c, "revive")
  <2>1. PICK f \in Features : call.names = {f}
    BY <1>4, <1>5, <1>15 DEF OperationNames, Queries, BatchOperations, PairOperations
  <2>2. CASE Exists(f)
    <3>1. OneAtATime!Revive(f)
      BY <1>1, <1>4, <1>15, <2>1, <2>2, SameQueries DEF Revive, OneAtATime!Revive
    <3> QED BY <3>1, FeatureOperation
  <2>3. CASE ~Exists(f)
    <3>1. f \notin archived /\ f \notin enabled  BY <1>3, <2>3
    <3> QED BY <1>1, <1>4, <1>15, <2>1, <3>1 DEF Revive, tableVars
  <2> QED BY <2>2, <2>3
<1>16. CASE Revive(c) /\ Ready(c, "reviveAll")
  <2>1. Holds("oneProject", call) /\ Holds("archivedRows", call)
    BY <1>4, <1>16, AskedValues
  <2>2. PICK p \in Projects : FeaturesContext(call.names, p)
    BY <2>1 DEF Holds, Passes, Checks
  <2>3. call.seen = archived \cap call.names
    BY <2>1 DEF Holds, Reads, Checks
  <2>4. archived' = archived \ call.names /\ enabled' = enabled \ (call.names \cap archived)
        /\ UNCHANGED <<project, dependencies>>
    BY <1>1, <1>4, <1>16, <2>3 DEF Revive
  <2>5. OneAtATime!ReviveAll(call.names, p)
    BY <2>2, <2>4, SameQueries DEF OneAtATime!ReviveAll
  <2> QED BY <1>5, <2>5, BatchOperation
<1>17. ASSUME Ready(c, "update") \/ Ready(c, "changeProject")
       PROVE  (archived \ call.names) \cup call.seen = archived
  <2>1. Holds("row", call)  BY <1>4, <1>17, AskedValues
  <2>2. call.seen = archived \cap call.names  BY <2>1 DEF Holds, Reads, Checks
  <2> QED BY <2>2
<1>18. CASE Update(c)
  <2>1. PICK f \in Features : call.names = {f}
    BY <1>4, <1>5, <1>18 DEF Update, OperationNames, Queries, BatchOperations, PairOperations
  <2>2. Exists(f) /\ UNCHANGED <<project, enabled, dependencies>>
    BY <1>1, <1>18, <2>1 DEF Update
  <2>3. \/ archived' = (archived \ call.names) \cup call.seen
        \/ archived' = archived \cup {f} /\ "archive" \in UpdateMoves
        \/ archived' = archived \ {f} /\ "revive" \in UpdateMoves
    BY <1>1, <1>18, <2>1 DEF Update
  <2>4. CASE archived' = (archived \ call.names) \cup call.seen
    BY <1>17, <1>18, <2>2, <2>4 DEF Update, tableVars
  <2>5. CASE archived' = archived \cup {f} /\ "archive" \in UpdateMoves
    <3>1. OneAtATime!Update(f, TRUE)
      BY <2>2, <2>5, SameQueries DEF OneAtATime!Update
    <3> QED BY <3>1, FeatureOperation
  <2>6. CASE archived' = archived \ {f} /\ "revive" \in UpdateMoves
    <3>1. OneAtATime!Update(f, FALSE)
      BY <2>2, <2>6, SameQueries DEF OneAtATime!Update
    <3> QED BY <3>1, FeatureOperation
  <2> QED BY <2>3, <2>4, <2>5, <2>6
<1>19. CASE ChangeProject(c)
  <2>1. PICK f \in call.names, p \in Projects :
            Exists(f) /\ project' = [project EXCEPT ![f] = p]
    BY <1>1, <1>19 DEF ChangeProject
  <2>2. ~HaveDependencies(call.names) /\ call.names = {f}
    <3>1. Holds("independent", call)
      BY <1>4, <1>19, AskedValues DEF ChangeProject
    <3>2. \E g \in Features : call.names = {g}
      BY <1>4, <1>5, <1>19 DEF ChangeProject, OperationNames, Queries, BatchOperations,
                               PairOperations
    <3> QED BY <2>1, <3>1, <3>2 DEF Holds, Passes, Checks
  <2>3. archived' = archived /\ UNCHANGED <<enabled, dependencies>>
    BY <1>1, <1>17, <1>19 DEF ChangeProject
  <2>4. OneAtATime!ChangeProject(f, p)
    BY <2>1, <2>2, <2>3, SameQueries DEF OneAtATime!ChangeProject
  <2> QED BY <1>5, <2>1, <2>4, FeatureOperation
<1>20. CASE SetEnabled(c)
  <2>1. PICK f \in Features : call.names = {f}
    BY <1>4, <1>5, <1>20 DEF SetEnabled, OperationNames, Queries, BatchOperations, PairOperations
  <2>2. FeatureExists(f)
    <3>1. Holds("active", call)  BY <1>4, <1>20, AskedValues DEF SetEnabled
    <3> QED BY <2>1, <3>1 DEF Holds, Passes, Checks
  <2>3. OneAtATime!SetEnabled(f, TRUE) \/ OneAtATime!SetEnabled(f, FALSE)
    BY <1>1, <1>20, <2>1, <2>2, SameQueries DEF SetEnabled, OneAtATime!SetEnabled
  <2> QED BY <2>3, FeatureOperation
<1> QED
  BY <1>6, <1>7, <1>8, <1>9, <1>10, <1>11, <1>12, <1>13, <1>14, <1>15, <1>16, <1>18, <1>19, <1>20
     DEF Step, Archive, Delete, Revive

(* Calls that share no feature may run side by side: every behaviour of    *)
(* the queries and commits is one of the operations one at a time.         *)
THEOREM CallsFollowRules == Overlap = FALSE => (Spec => FollowsRules)
<1> SUFFICES ASSUME Overlap = FALSE  PROVE Spec => FollowsRules
  OBVIOUS
<1>1. Init => OneAtATime!Init  BY DEF Init, OneAtATime!Init
<1>2. Inv /\ [Next]_vars => [OneAtATime!Next]_(OneAtATime!tableVars)
  <2> SUFFICES ASSUME Inv, [Next]_vars
               PROVE  OneAtATime!Next \/ UNCHANGED OneAtATime!tableVars
    OBVIOUS
  <2>1. CASE UNCHANGED vars  BY <2>1 DEF vars, OneAtATime!tableVars
  <2>2. CASE Next
    <3>1. PICK c \in Callers : Step(c)  BY <2>2 DEF Next
    <3> QED BY <3>1, StepFollows DEF tableVars, OneAtATime!tableVars
  <2> QED BY <2>1, <2>2
<1>3. Inv /\ [Next]_vars => Inv'  BY InvStep
<1> QED BY InvInit, <1>1, <1>2, <1>3, PTL DEF Spec, FollowsRules, OneAtATime!Spec

-----------------------------------------------------------------------------
(* The operations one at a time.                                           *)
WellFormed == TablesTypeOK /\ SingleParent /\ SingleLevel /\ SameProject

(* Next, action by action.                                                 *)
LEMMA NextCases ==
    ASSUME OneAtATime!Next
    PROVE  \/ \E f \in Features, p \in Projects : OneAtATime!Create(f, p)
           \/ \E f, child \in Features : OneAtATime!AddDependency(f, child)
           \/ \E f, child \in Features : OneAtATime!DeleteDependency(f, child)
           \/ \E f \in Features : OneAtATime!DeleteDependencies(f)
           \/ \E f \in Features : OneAtATime!Archive(f)
           \/ \E names \in SUBSET Features, p \in Projects : OneAtATime!ArchiveAll(names, p)
           \/ \E f \in Features : OneAtATime!Delete(f)
           \/ \E names \in SUBSET Features, p \in Projects : OneAtATime!DeleteAll(names, p)
           \/ \E f \in Features : OneAtATime!Revive(f)
           \/ \E names \in SUBSET Features, p \in Projects : OneAtATime!ReviveAll(names, p)
           \/ \E f \in Features, b \in BOOLEAN : OneAtATime!Update(f, b)
           \/ \E f \in Features, p \in Projects : OneAtATime!ChangeProject(f, p)
           \/ \E f \in Features, b \in BOOLEAN : OneAtATime!SetEnabled(f, b)
<1>1. CASE \E f \in Features : OneAtATime!FeatureStep(f)
  BY <1>1, Zenon DEF OneAtATime!FeatureStep
<1>2. CASE \E names \in SUBSET Features, p \in Projects : OneAtATime!BatchStep(names, p)
  BY <1>2, Zenon DEF OneAtATime!BatchStep
<1> QED
  BY <1>1, <1>2, Zenon DEF OneAtATime!Next

-----------------------------------------------------------------------------
(* Deleting rows never breaks the two rules that are about rows alone.     *)
LEMMA FewerRows ==
    ASSUME SingleParent, SingleLevel, dependencies' \subseteq dependencies
    PROVE  SingleParent' /\ SingleLevel'
BY DEF SingleParent, SingleLevel

(* Deleting rows while no remaining row's feature moves keeps SameProject. *)
LEMMA FewerRowsSameProject ==
    ASSUME SameProject, dependencies' \subseteq dependencies,
           \A d \in dependencies' : project'[d[1]] = project[d[1]] /\ project'[d[2]] = project[d[2]]
    PROVE  SameProject'
BY DEF SameProject

(* The DELETE on features leaves no row of a deleted feature behind: as a  *)
(* child its rows cascade, as a parent it had none left outside the set.   *)
LEMMA DeletedRowsGone ==
    ASSUME TablesTypeOK, NEW names \in SUBSET Features, OneAtATime!DeleteRows(names)
    PROVE  /\ dependencies' \subseteq dependencies
           /\ \A d \in dependencies' : d[1] \in Features \ names /\ d[2] \in Features \ names
<1>1. dependencies' = {d \in dependencies : d[2] \notin names}
  BY SameQueries DEF OneAtATime!DeleteRows, RowsOfChildren
<1>2. \A d \in dependencies : d = <<d[1], d[2]>> /\ d[1] \in Features /\ d[2] \in Features
  BY DEF TablesTypeOK
<1>3. \A d \in dependencies' : d[1] \notin names
  <2> SUFFICES ASSUME NEW d \in dependencies, d[2] \notin names, d[1] \in names
               PROVE  FALSE
    BY <1>1
  <2>1. <<d[1], d[2]>> \in dependencies /\ d[2] \in Features \ names
    BY <1>2
  <2>2. d[1] \in OrphanParents(names)
    BY <2>1 DEF OrphanParents
  <2> QED
    BY <2>2, SameQueries DEF OneAtATime!DeleteRows
<1> QED
  BY <1>1, <1>2, <1>3

-----------------------------------------------------------------------------
(* An empty database, as the migration creates it, is well formed.         *)
LEMMA WellFormedInit == OneAtATime!Init => WellFormed
BY TablesAssumption
   DEF OneAtATime!Init, WellFormed, TablesTypeOK, SingleParent, SingleLevel, SameProject, Exists

(* deleteFeature and deleteFeatures, with the cascade and the restriction  *)
(* of the foreign keys, leave the tables well formed.                      *)
LEMMA DeleteRowsWellFormed ==
    ASSUME WellFormed, NEW names \in SUBSET Features, OneAtATime!DeleteRows(names)
    PROVE  WellFormed'
<1>1. /\ dependencies' \subseteq dependencies
      /\ \A d \in dependencies' : d[1] \in Features \ names /\ d[2] \in Features \ names
  BY DeletedRowsGone DEF WellFormed
<1>2. \A f \in Features : project'[f] = IF f \in names THEN NoProject ELSE project[f]
  BY DEF OneAtATime!DeleteRows
<1>3. TablesTypeOK'
  BY <1>1, <1>2 DEF WellFormed, TablesTypeOK, OneAtATime!DeleteRows, Exists
<1>4. SameProject'
  BY <1>1, <1>2, FewerRowsSameProject DEF WellFormed
<1> QED
  BY <1>1, <1>3, <1>4, FewerRows DEF WellFormed

(* unprotectedUpsertFeatureDependency: its checks on parent and child make *)
(* the new row fit the ones that are left.                                 *)
LEMMA AddDependencyWellFormed ==
    ASSUME WellFormed, NEW parent \in Features, NEW child \in Features,
           OneAtATime!AddDependency(parent, child)
    PROVE  WellFormed'
<1> DEFINE rest == {d \in dependencies : d[2] # child}
<1>1. /\ dependencies' = rest \cup {<<parent, child>>}
      /\ UNCHANGED <<project, archived, enabled>>
  BY SameQueries DEF OneAtATime!AddDependency, RowsOfChildren
<1>2. \A d \in dependencies : d = <<d[1], d[2]>> /\ d[1] \in Features /\ d[2] \in Features
  BY DEF WellFormed, TablesTypeOK
<1>3. \A d \in dependencies : d[1] # child
  BY <1>2, SameQueries DEF OneAtATime!AddDependency, ChildrenOf
<1>4. \A d \in dependencies : d[2] # parent
  BY <1>2, SameQueries DEF OneAtATime!AddDependency, ParentsOf
<1>5. Exists(parent) /\ Exists(child) /\ parent # child /\ project[parent] = project[child]
  BY SameQueries DEF OneAtATime!AddDependency, FeatureExists, FeaturesInTheSameProject
<1>6. TablesTypeOK'
  BY <1>1, <1>5 DEF WellFormed, TablesTypeOK, Exists
<1>7. SingleParent'
  BY <1>1 DEF WellFormed, SingleParent
<1>8. SingleLevel'
  BY <1>1, <1>3, <1>4, <1>5 DEF WellFormed, SingleLevel
<1>9. SameProject'
  BY <1>1, <1>5 DEF WellFormed, SameProject
<1> QED
  BY <1>6, <1>7, <1>8, <1>9 DEF WellFormed

(* Every other operation keeps or deletes rows and leaves the projects of  *)
(* features that appear in a row alone.                                    *)
LEMMA OtherStepWellFormed ==
    ASSUME WellFormed, TablesTypeOK', dependencies' \subseteq dependencies,
           \A d \in dependencies' : project'[d[1]] = project[d[1]] /\ project'[d[2]] = project[d[2]]
    PROVE  WellFormed'
BY FewerRows, FewerRowsSameProject DEF WellFormed

(* No operation breaks a foreign key or a rule for dependencies.           *)
LEMMA WellFormedStep == WellFormed /\ [OneAtATime!Next]_(OneAtATime!tableVars) => WellFormed'
<1> SUFFICES ASSUME WellFormed, [OneAtATime!Next]_(OneAtATime!tableVars)
             PROVE  WellFormed'
    OBVIOUS
<1> USE TablesAssumption
<1>0. /\ TablesTypeOK
      /\ \A d \in dependencies : /\ d = <<d[1], d[2]>>
                                 /\ d[1] \in Features /\ Exists(d[1])
                                 /\ d[2] \in Features /\ Exists(d[2])
  BY DEF WellFormed, TablesTypeOK
<1>1. ASSUME NEW f \in Features, NEW p \in Projects, OneAtATime!Create(f, p)
      PROVE  WellFormed'
  <2>1. TablesTypeOK'
    BY <1>0, <1>1 DEF TablesTypeOK, OneAtATime!Create, Exists
  <2> QED
    BY <1>0, <1>1, <2>1, OtherStepWellFormed, SameQueries DEF TablesTypeOK, OneAtATime!Create, Exists
<1>2. ASSUME NEW f \in Features, NEW child \in Features, OneAtATime!AddDependency(f, child)
      PROVE  WellFormed'
  BY <1>2, AddDependencyWellFormed
<1>3. ASSUME dependencies' \subseteq dependencies, UNCHANGED project,
             archived' \subseteq {f \in Features : Exists(f)},
             enabled' \subseteq {f \in Features : Exists(f)}
      PROVE  WellFormed'
  <2>1. TablesTypeOK'
    BY <1>0, <1>3 DEF TablesTypeOK, Exists
  <2> QED
    BY <1>3, <2>1, OtherStepWellFormed
<1>4. ASSUME NEW f \in Features, NEW child \in Features, OneAtATime!DeleteDependency(f, child)
      PROVE  WellFormed'
  BY <1>0, <1>3, <1>4 DEF OneAtATime!DeleteDependency, TablesTypeOK
<1>5. ASSUME NEW f \in Features, OneAtATime!DeleteDependencies(f)
      PROVE  WellFormed'
  BY <1>0, <1>3, <1>5 DEF OneAtATime!DeleteDependencies, TablesTypeOK
<1>6. ASSUME NEW f \in Features, OneAtATime!Archive(f)
      PROVE  WellFormed'
  BY <1>0, <1>3, <1>6, SameQueries DEF OneAtATime!Archive, TablesTypeOK
<1>7. ASSUME NEW names \in SUBSET Features, NEW p \in Projects, OneAtATime!ArchiveAll(names, p)
      PROVE  WellFormed'
  BY <1>0, <1>3, <1>7, SameQueries DEF OneAtATime!ArchiveAll, TablesTypeOK
<1>8. ASSUME NEW f \in Features, OneAtATime!Delete(f)
      PROVE  WellFormed'
  BY <1>8, DeleteRowsWellFormed DEF OneAtATime!Delete
<1>9. ASSUME NEW names \in SUBSET Features, NEW p \in Projects, OneAtATime!DeleteAll(names, p)
      PROVE  WellFormed'
  BY <1>9, DeleteRowsWellFormed DEF OneAtATime!DeleteAll
<1>10. ASSUME NEW f \in Features, OneAtATime!Revive(f)
       PROVE  WellFormed'
  BY <1>0, <1>3, <1>10 DEF OneAtATime!Revive, TablesTypeOK
<1>11. ASSUME NEW names \in SUBSET Features, NEW p \in Projects, OneAtATime!ReviveAll(names, p)
       PROVE  WellFormed'
  BY <1>0, <1>3, <1>11 DEF OneAtATime!ReviveAll, TablesTypeOK
<1>12. ASSUME NEW f \in Features, NEW b \in BOOLEAN, OneAtATime!Update(f, b)
       PROVE  WellFormed'
  BY <1>0, <1>3, <1>12, SameQueries DEF OneAtATime!Update, TablesTypeOK
<1>13. ASSUME NEW f \in Features, NEW p \in Projects, OneAtATime!ChangeProject(f, p)
       PROVE  WellFormed'
  <2>1. TablesTypeOK'
    BY <1>0, <1>13 DEF TablesTypeOK, OneAtATime!ChangeProject, Exists
  <2>2. \A d \in dependencies : d[1] # f /\ d[2] # f
    BY <1>13, SameQueries DEF OneAtATime!ChangeProject, HaveDependencies
  <2> QED
    BY <1>0, <1>13, <2>1, <2>2, OtherStepWellFormed DEF TablesTypeOK, OneAtATime!ChangeProject
<1>14. ASSUME NEW f \in Features, NEW b \in BOOLEAN, OneAtATime!SetEnabled(f, b)
       PROVE  WellFormed'
  BY <1>0, <1>3, <1>14, SameQueries DEF OneAtATime!SetEnabled, FeatureExists, TablesTypeOK
<1>15. CASE UNCHANGED OneAtATime!tableVars
  BY <1>0, <1>3, <1>15 DEF OneAtATime!tableVars, TablesTypeOK
<1>16. CASE OneAtATime!Next
  BY <1>16, <1>1, <1>2, <1>4, <1>5, <1>6, <1>7, <1>8, <1>9, <1>10, <1>11, <1>12,
    <1>13, <1>14, NextCases, Zenon
<1> QED
  BY <1>15, <1>16

(* Whatever the calls and however PUT and PATCH are used, as long as calls *)
(* do not overlap: WellFormed holds, and each of its parts with it.        *)
LEMMA WellFormedAlways == OneAtATime!Spec => []WellFormed
BY WellFormedInit, WellFormedStep, PTL DEF OneAtATime!Spec

(* The foreign keys of dependent_features and feature_environments hold.   *)
THEOREM ForeignKeysHold == OneAtATime!Spec => []TablesTypeOK
<1>1. WellFormed => TablesTypeOK
  BY DEF WellFormed
<1> QED
  BY <1>1, WellFormedAlways, PTL

(* The upsert of unprotectedUpsertFeatureDependency leaves one parent.     *)
THEOREM ChildrenHaveOneParent == OneAtATime!Spec => []SingleParent
<1>1. WellFormed => SingleParent
  BY DEF WellFormed
<1> QED
  BY <1>1, WellFormedAlways, PTL

(* The two lookups before it leave no chain of dependencies, and no cycle. *)
THEOREM DependenciesAreOneLevelDeep == OneAtATime!Spec => []SingleLevel
<1>1. WellFormed => SingleLevel
  BY DEF WellFormed
<1> QED
  BY <1>1, WellFormedAlways, PTL

(* Neither a new dependency nor a move of a feature to another project     *)
(* leaves a parent and its child in different projects.                    *)
THEOREM DependenciesStayInOneProject == OneAtATime!Spec => []SameProject
<1>1. WellFormed => SameProject
  BY DEF WellFormed
<1> QED
  BY <1>1, WellFormedAlways, PTL

-----------------------------------------------------------------------------
(* Archiving a set of features that no feature outside depends on, and the *)
(* rows of its children with them, leaves no child of an archived parent.  *)
LEMMA ArchivedParentsGone ==
    ASSUME TablesTypeOK, ParentsActive, NEW names \in SUBSET Features,
           OrphanParents(names) = {},
           dependencies' = dependencies \ RowsOfChildren(names),
           archived' \subseteq archived \cup names
    PROVE  ParentsActive'
<1> SUFFICES ASSUME NEW d \in dependencies, d \notin RowsOfChildren(names)
             PROVE  d[1] \notin archived \cup names
  BY DEF ParentsActive
<1>1. d = <<d[1], d[2]>> /\ d[1] \in Features /\ d[2] \in Features \ names
  BY DEF TablesTypeOK, RowsOfChildren
<1>2. d[1] \notin names
  BY <1>1 DEF OrphanParents
<1> QED
  BY <1>2 DEF ParentsActive

(* No operation but a PUT or PATCH that archives gives an archived feature *)
(* a child: archiving validates, adding requires an active parent.         *)
LEMMA ParentsActiveStep ==
    ASSUME "archive" \notin UpdateMoves
    PROVE  WellFormed /\ ParentsActive /\ [OneAtATime!Next]_(OneAtATime!tableVars) => ParentsActive'
<1> SUFFICES ASSUME WellFormed, ParentsActive, [OneAtATime!Next]_(OneAtATime!tableVars)
             PROVE  ParentsActive'
    OBVIOUS
<1>0. /\ TablesTypeOK
      /\ \A d \in dependencies : /\ d = <<d[1], d[2]>>
                                 /\ d[1] \in Features /\ Exists(d[1])
                                 /\ d[2] \in Features
  BY DEF WellFormed, TablesTypeOK
<1>1. ASSUME NEW f \in Features, NEW p \in Projects, OneAtATime!Create(f, p)
      PROVE  ParentsActive'
  BY <1>0, <1>1, SameQueries DEF OneAtATime!Create, ParentsActive
<1>2. ASSUME NEW f \in Features, NEW child \in Features, OneAtATime!AddDependency(f, child)
      PROVE  ParentsActive'
  BY <1>2, SameQueries DEF OneAtATime!AddDependency, FeatureExists, ParentsActive
<1>3. ASSUME dependencies' \subseteq dependencies, archived' \subseteq archived
      PROVE  ParentsActive'
  BY <1>3 DEF ParentsActive
<1>4. ASSUME NEW f \in Features, NEW child \in Features, OneAtATime!DeleteDependency(f, child)
      PROVE  ParentsActive'
  BY <1>3, <1>4 DEF OneAtATime!DeleteDependency
<1>5. ASSUME NEW f \in Features, OneAtATime!DeleteDependencies(f)
      PROVE  ParentsActive'
  BY <1>3, <1>5 DEF OneAtATime!DeleteDependencies
<1>6. ASSUME NEW f \in Features, OneAtATime!Archive(f)
      PROVE  ParentsActive'
  BY <1>0, <1>6, ArchivedParentsGone, SameQueries DEF OneAtATime!Archive
<1>7. ASSUME NEW names \in SUBSET Features, NEW p \in Projects, OneAtATime!ArchiveAll(names, p)
      PROVE  ParentsActive'
  BY <1>0, <1>7, ArchivedParentsGone, SameQueries DEF OneAtATime!ArchiveAll
<1>8. ASSUME NEW f \in Features, OneAtATime!Delete(f)
      PROVE  ParentsActive'
  BY <1>3, <1>8 DEF OneAtATime!Delete, OneAtATime!DeleteRows
<1>9. ASSUME NEW names \in SUBSET Features, NEW p \in Projects, OneAtATime!DeleteAll(names, p)
      PROVE  ParentsActive'
  BY <1>3, <1>9 DEF OneAtATime!DeleteAll, OneAtATime!DeleteRows
<1>10. ASSUME NEW f \in Features, OneAtATime!Revive(f)
       PROVE  ParentsActive'
  BY <1>3, <1>10 DEF OneAtATime!Revive
<1>11. ASSUME NEW names \in SUBSET Features, NEW p \in Projects, OneAtATime!ReviveAll(names, p)
       PROVE  ParentsActive'
  BY <1>3, <1>11 DEF OneAtATime!ReviveAll
<1>12. ASSUME NEW f \in Features, NEW b \in BOOLEAN, OneAtATime!Update(f, b)
       PROVE  ParentsActive'
  BY <1>3, <1>12 DEF OneAtATime!Update
<1>13. ASSUME NEW f \in Features, NEW p \in Projects, OneAtATime!ChangeProject(f, p)
       PROVE  ParentsActive'
  BY <1>3, <1>13 DEF OneAtATime!ChangeProject
<1>14. ASSUME NEW f \in Features, NEW b \in BOOLEAN, OneAtATime!SetEnabled(f, b)
       PROVE  ParentsActive'
  BY <1>3, <1>14 DEF OneAtATime!SetEnabled
<1>15. CASE UNCHANGED OneAtATime!tableVars
  BY <1>3, <1>15 DEF tableVars, OneAtATime!tableVars
<1>16. CASE OneAtATime!Next
  BY <1>16, <1>1, <1>2, <1>4, <1>5, <1>6, <1>7, <1>8, <1>9, <1>10, <1>11, <1>12,
    <1>13, <1>14, NextCases, Zenon
<1> QED
  BY <1>15, <1>16

(* If no PUT or PATCH archives a feature, the two validations that every   *)
(* other way to archive makes keep every parent out of the archive.        *)
THEOREM ParentsStayActive ==
    ASSUME "archive" \notin UpdateMoves
    PROVE  OneAtATime!Spec => []ParentsActive
<1>1. OneAtATime!Init => WellFormed /\ ParentsActive
  BY WellFormedInit DEF OneAtATime!Init, ParentsActive
<1>2. WellFormed /\ ParentsActive /\ [OneAtATime!Next]_(OneAtATime!tableVars) => WellFormed' /\ ParentsActive'
  BY WellFormedStep, ParentsActiveStep
<1> QED
  BY <1>1, <1>2, PTL DEF OneAtATime!Spec

-----------------------------------------------------------------------------
(* If no PUT or PATCH revives a feature, every feature that leaves the     *)
(* archive is disabled by the same commit: reviveFeature and               *)
(* reviveFeatures are the only other ways out, apart from deletion.        *)
THEOREM RevivedFeaturesDisabled ==
    ASSUME "revive" \notin UpdateMoves
    PROVE  OneAtATime!Spec => RevivedDisabled
<1> DEFINE Leaves == \A f \in archived : Exists(f)' => f \in archived' \/ f \notin enabled'
<1>1. WellFormed /\ [OneAtATime!Next]_(OneAtATime!tableVars) => [Leaves]_tableVars
  <2> SUFFICES ASSUME WellFormed, OneAtATime!Next, NEW g \in archived, Exists(g)', g \notin archived'
               PROVE  g \notin enabled'
    BY DEF tableVars, OneAtATime!tableVars
  <2>0. g \in Features /\ Exists(g)
    BY DEF WellFormed, TablesTypeOK
  <2>1. ASSUME NEW f \in Features, OneAtATime!Revive(f)
        PROVE  g \notin enabled'
    BY <2>1 DEF OneAtATime!Revive
  <2>2. ASSUME NEW names \in SUBSET Features, NEW p \in Projects, OneAtATime!ReviveAll(names, p)
        PROVE  g \notin enabled'
    BY <2>2 DEF OneAtATime!ReviveAll
  <2>3. ASSUME NEW names \in SUBSET Features, OneAtATime!DeleteRows(names)
        PROVE  g \notin enabled'
    BY <2>0, <2>3 DEF OneAtATime!DeleteRows, Exists
  <2>4. ASSUME NEW f \in Features, OneAtATime!Delete(f)
        PROVE  g \notin enabled'
    BY <2>3, <2>4 DEF OneAtATime!Delete
  <2>5. ASSUME NEW names \in SUBSET Features, NEW p \in Projects, OneAtATime!DeleteAll(names, p)
        PROVE  g \notin enabled'
    BY <2>3, <2>5 DEF OneAtATime!DeleteAll
  <2>6. ASSUME NEW f \in Features, NEW b \in BOOLEAN, OneAtATime!Update(f, b)
        PROVE  FALSE
    BY <2>6 DEF OneAtATime!Update
  <2>7. ASSUME archived \subseteq archived'
        PROVE  FALSE
    BY <2>7
  <2>8. \A f, child \in Features : /\ ~OneAtATime!AddDependency(f, child)
                                   /\ ~OneAtATime!DeleteDependency(f, child)
                                   /\ ~OneAtATime!DeleteDependencies(f)
                                   /\ ~OneAtATime!Archive(f)
    BY <2>7 DEF OneAtATime!AddDependency, OneAtATime!DeleteDependency,
                    OneAtATime!DeleteDependencies, OneAtATime!Archive
  <2>9. \A f \in Features, p \in Projects : ~OneAtATime!Create(f, p) /\ ~OneAtATime!ChangeProject(f, p)
    BY <2>7 DEF OneAtATime!Create, OneAtATime!ChangeProject
  <2>10. \A names \in SUBSET Features, p \in Projects : ~OneAtATime!ArchiveAll(names, p)
    BY <2>7 DEF OneAtATime!ArchiveAll
  <2>11. \A f \in Features, b \in BOOLEAN : ~OneAtATime!SetEnabled(f, b)
    BY <2>7 DEF OneAtATime!SetEnabled
  <2> QED
    BY <2>1, <2>2, <2>4, <2>5, <2>6, <2>8, <2>9, <2>10, <2>11, NextCases, Zenon
<1>2. OneAtATime!Init => WellFormed
  BY WellFormedInit
<1>3. WellFormed /\ [OneAtATime!Next]_(OneAtATime!tableVars) => WellFormed'
  BY WellFormedStep
<1> QED
  BY <1>1, <1>2, <1>3, PTL DEF OneAtATime!Spec, RevivedDisabled
-----------------------------------------------------------------------------
(* Where calls that share a feature do not overlap, the checks of the code *)
(* keep the rules for dependencies, however their queries interleave.      *)
THEOREM CallsKeepRules ==
    Overlap = FALSE => (Spec => [](SingleParent /\ SingleLevel /\ SameProject))
<1> SUFFICES ASSUME Overlap = FALSE
             PROVE  Spec => [](SingleParent /\ SingleLevel /\ SameProject)
  OBVIOUS
<1>1. Spec => OneAtATime!Spec  BY CallsFollowRules DEF FollowsRules
<1>2. WellFormed => SingleParent /\ SingleLevel /\ SameProject  BY DEF WellFormed
<1> QED BY <1>1, <1>2, WellFormedAlways, PTL

(* The rule about archived parents, if no PUT or PATCH archives.           *)
THEOREM CallsKeepParentsActive ==
    ASSUME "archive" \notin UpdateMoves
    PROVE  Overlap = FALSE => (Spec => []ParentsActive)
<1>1. Overlap = FALSE => (Spec => OneAtATime!Spec)  BY CallsFollowRules DEF FollowsRules
<1> QED BY <1>1, ParentsStayActive, PTL

(* Nor does reviveFeature or reviveFeatures leave a feature enabled, if no *)
(* PUT or PATCH revives.                                                   *)
THEOREM CallsReviveDisabled ==
    ASSUME "revive" \notin UpdateMoves
    PROVE  Overlap = FALSE => (Spec => RevivedDisabled)
<1>1. Overlap = FALSE => (Spec => OneAtATime!Spec)  BY CallsFollowRules DEF FollowsRules
<1> QED BY <1>1, RevivedFeaturesDisabled, PTL
=============================================================================
