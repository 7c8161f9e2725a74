-------------------------- MODULE Projects_proofs --------------------------
(***************************************************************************)
(* The rules of a project for every number of users, groups, environments, *)
(* features and calls that overlap.                                        *)
(***************************************************************************)
EXTENDS Projects, FiniteSetTheorems, TLAPS

Call ==
    [op : Operations \cup {"none"}, at : Labels \cup {"idle"},
     who : Holders \cup {"nobody"}, keep : SUBSET Roles, add : SUBSET Roles,
     count : 0..Cardinality(Users), off : SUBSET Environments,
     on : SUBSET Environments, envs : SUBSET Environments,
     feature : Features \cup {"none"}]

(* Which call is at which of its queries.                                  *)
WellPlaced(call) ==
    /\ call.at \in {"users", "groups", "write"} => call.op = "lose"
    /\ call.at = "unlink" => call.op \in {"remove", "override"}
    /\ call.at \in {"disable", "enable", "links", "link"} => call.op = "override"
    /\ call.at = "insert" => call.op \in {"create", "feature"}
    /\ call.at \in {"enabled", "owner"} => call.op = "create"
    /\ call.at = "connect" => call.op \in {"create", "none"}
    /\ call.at \in {"archived", "row", "roles"} => call.op = "delete"
    /\ call.op = "none" => call.at \in {"idle", "connect"}
    /\ call.op = "create" => call.who \notin Groups

Placed ==
    /\ \A c \in Callers : WellPlaced(calls[c])
    /\ \A c \in Callers : calls[c].at = "archived" => sweeps[c] = NoSweep

Typed == TypeOK /\ Placed

-----------------------------------------------------------------------------
(* An idle call, and one that begins, are well typed and well placed.      *)
LEMMA CountsInRange ==
    \A S \in SUBSET Users : Cardinality(S) \in 0..Cardinality(Users)
<1> SUFFICES ASSUME NEW S \in SUBSET Users
             PROVE  Cardinality(S) \in 0..Cardinality(Users)
  OBVIOUS
<1>1. IsFiniteSet(S) /\ Cardinality(S) <= Cardinality(Users)
  BY HoldersAssumption, FS_Subset
<1>2. Cardinality(S) \in Nat /\ Cardinality(Users) \in Nat
  BY <1>1, HoldersAssumption, FS_CardinalityType
<1> QED  BY <1>1, <1>2

LEMMA IdleTyped == Idle \in Call /\ WellPlaced(Idle)
<1>1. 0 \in 0..Cardinality(Users)
  BY HoldersAssumption, FS_CardinalityType
<1> QED  BY <1>1 DEF Idle, Call, WellPlaced

(* What the steps of a call may do to the tables.                          *)
TablesTyped ==
    /\ project \in BOOLEAN
    /\ holders \in [Holders -> SUBSET Roles]
    /\ linked \subseteq Environments /\ enabled \subseteq Environments
    /\ ~project => linked = {} /\ \A g \in Groups : holders[g] = {}
    /\ features \in [Features -> {"elsewhere", "live", "archived"}]
    /\ disturbed \subseteq {"owner", "environment", "feature"}

LEMMA TypedIs ==
    Typed <=> /\ TablesTyped
              /\ calls \in [Callers -> Call]
              /\ sweeps \in [Callers -> [at : {"none", "names", "delete"}, names : SUBSET Features]]
              /\ Placed
BY DEF Typed, TypeOK, TablesTyped, Call

LEMMA TypedNext ==
    ASSUME TablesTyped', calls' \in [Callers -> Call], Placed',
           sweeps' \in [Callers -> [at : {"none", "names", "delete"}, names : SUBSET Features]]
    PROVE  Typed'
BY DEF Typed, TypeOK, TablesTyped, Call

(* A step that moves one call and types the tables keeps the types.        *)
LEMMA MovedTyped ==
    ASSUME Typed, NEW c \in Callers, NEW call \in Call, WellPlaced(call),
           calls' = [calls EXCEPT ![c] = call], sweeps' = sweeps, TablesTyped',
           call.at = "archived" => sweeps[c] = NoSweep
    PROVE  Typed'
<1>1. Placed'  BY TypedIs DEF Placed, WellPlaced
<1>2. calls' \in [Callers -> Call]  BY TypedIs
<1> QED  BY <1>1, <1>2, TypedIs, TypedNext

(* A step that moves no call.                                              *)
LEMMA RestTyped ==
    ASSUME Typed, UNCHANGED <<calls, sweeps>>, TablesTyped'
    PROVE  Typed'
<1>1. Placed'  BY TypedIs DEF Placed, WellPlaced
<1> QED  BY <1>1, TypedIs, TypedNext

LEMMA CrossedIs ==
    ASSUME NEW op, NEW c
    PROVE  Crossed(op, c) \subseteq {"owner", "environment", "feature"}
BY DEF Crossed

LEMMA AccessTyped ==
    ASSUME Typed, AccessStep
    PROVE  Typed'
<1> USE TypedIs, HoldersAssumption DEF TablesTyped, Holders, Roles
<1>1. ASSUME NEW h \in Holders, HolderDeleted(h)  PROVE Typed'
  <2>1. TablesTyped'  BY <1>1 DEF HolderDeleted
  <2> QED  BY <1>1, <2>1, RestTyped DEF HolderDeleted
<1>2. ASSUME NEW h \in Holders, NEW role \in Roles, Grant(h, role)  PROVE Typed'
  <2>1. TablesTyped'  BY <1>2 DEF Grant
  <2> QED  BY <1>2, <2>1, RestTyped DEF Grant
<1>3. ASSUME NEW c \in Callers, StartLoss(c)  PROVE Typed'
  <2>1. PICK h \in Holders, loss \in Losses :
            BeginCrossing(c, [Idle EXCEPT !.op = "lose", !.who = h, !.keep = loss.keep,
                                          !.add = loss.add,
                                          !.at = IF MustCount(h, loss) THEN "users" ELSE "write"])
    BY <1>3 DEF StartLoss
  <2> DEFINE call == [Idle EXCEPT !.op = "lose", !.who = h, !.keep = loss.keep, !.add = loss.add,
                                  !.at = IF MustCount(h, loss) THEN "users" ELSE "write"]
  <2>2. loss.keep \in SUBSET Roles /\ loss.add \in SUBSET Roles  BY DEF Losses
  <2>3. call \in Call /\ WellPlaced(call) /\ call.at # "archived" 
    BY <2>2, IdleTyped DEF Call, WellPlaced, Operations, Labels, Idle
  <2>4. /\ calls' = [calls EXCEPT ![c] = call]
        /\ UNCHANGED <<tables, sweeps>>
        /\ disturbed' = disturbed \cup Crossed(call.op, c)
    BY <2>1 DEF BeginCrossing, Begin
  <2>5. TablesTyped'  BY <2>4, CrossedIs DEF tables
  <2> HIDE DEF call
  <2> QED  BY <2>3, <2>4, <2>5, MovedTyped
<1>4. ASSUME NEW c \in Callers, CountUsers(c)  PROVE Typed'
  <2> DEFINE call == [calls[c] EXCEPT !.at = "groups", !.count = Cardinality(Owners \cap Users)]
  <2>1. Cardinality(Owners \cap Users) \in 0..Cardinality(Users)  BY CountsInRange
  <2>2. calls[c] \in Call /\ calls[c].op = "lose"  BY <1>4 DEF CountUsers, Placed, WellPlaced
  <2>3. call \in Call /\ WellPlaced(call) /\ call.at # "archived"
    BY <2>1, <2>2 DEF Call, WellPlaced, Labels, Operations
  <2>4. calls' = [calls EXCEPT ![c] = call] /\ UNCHANGED <<tables, sweeps, disturbed>>
    BY <1>4, <2>2 DEF CountUsers
  <2>5. TablesTyped'  BY <2>4 DEF tables
  <2> HIDE DEF call
  <2> QED  BY <2>3, <2>4, <2>5, MovedTyped
<1>5. ASSUME NEW c \in Callers, CountGroups(c)  PROVE Typed'
  <2>1. calls[c] \in Call /\ calls[c].op = "lose"  BY <1>5 DEF CountGroups, Placed, WellPlaced
  <2>2. /\ \/ calls' = [calls EXCEPT ![c] = Idle]
           \/ calls' = [calls EXCEPT ![c] = [@ EXCEPT !.at = "write", !.count = 0]]
        /\ UNCHANGED <<tables, sweeps, disturbed>>
    BY <1>5, <2>1 DEF CountGroups, End
  <2>3. 0 \in 0..Cardinality(Users)  BY FS_CardinalityType
  <2>4. /\ [calls[c] EXCEPT !.at = "write", !.count = 0] \in Call
        /\ WellPlaced([calls[c] EXCEPT !.at = "write", !.count = 0])
    BY <2>1, <2>3 DEF Call, WellPlaced, Labels, Operations
  <2>5. TablesTyped'  BY <2>2 DEF tables
  <2>6. CASE calls' = [calls EXCEPT ![c] = Idle]
    BY <2>2, <2>5, <2>6, IdleTyped, MovedTyped DEF Idle
  <2>7. CASE calls' = [calls EXCEPT ![c] = [@ EXCEPT !.at = "write", !.count = 0]]
    <3> DEFINE call == [calls[c] EXCEPT !.at = "write", !.count = 0]
    <3>1. calls' = [calls EXCEPT ![c] = call] /\ call.at # "archived"  BY <2>1, <2>7 DEF Call
    <3> HIDE DEF call
    <3> QED  BY <2>2, <2>4, <2>5, <3>1, MovedTyped DEF call
  <2> QED  BY <2>2, <2>6, <2>7
<1>6. ASSUME NEW c \in Callers, WriteRoles(c)  PROVE Typed'
  <2>1. calls[c] \in Call  OBVIOUS
  <2>a. /\ calls[c].keep \in SUBSET Roles /\ calls[c].add \in SUBSET Roles
        /\ UNCHANGED <<project, linked, enabled, features, disturbed>>
    BY <1>6, <2>1 DEF WriteRoles, Call
  <2>2. TablesTyped'
    <3>1. CASE UNCHANGED holders  BY <2>a, <3>1
    <3>2. CASE /\ calls[c].who \in Groups /\ calls[c].add # {} => project
               /\ holders' = [holders EXCEPT ![calls[c].who] =
                                  (@ \cap calls[c].keep) \cup calls[c].add]
      <4>1. holders' \in [Holders -> SUBSET Roles]  BY <2>a, <3>2
      <4>2. ~project => \A g \in Groups : holders'[g] = {}  BY <2>a, <3>2
      <4> QED  BY <2>a, <4>1, <4>2
    <3> QED  BY <1>6, <3>1, <3>2 DEF WriteRoles
  <2> QED  BY <1>6, <2>2, IdleTyped, MovedTyped DEF WriteRoles, End, Idle
<1> QED  BY <1>1, <1>2, <1>3, <1>4, <1>5, <1>6 DEF AccessStep
LEMMA EnvironmentTyped ==
    ASSUME Typed, EnvironmentStep
    PROVE  Typed'
<1> USE TypedIs DEF TablesTyped
<1>1. ASSUME NEW e \in Environments, ToggleEnvironment(e) \/ AddEnvironment(e)  PROVE Typed'
  <2>1. TablesTyped'  BY <1>1 DEF ToggleEnvironment, AddEnvironment
  <2> QED  BY <1>1, <2>1, RestTyped DEF ToggleEnvironment, AddEnvironment
<1>2. ASSUME NEW c \in Callers, StartRemove(c)  PROVE Typed'
  <2>1. PICK e \in Environments :
            BeginCrossing(c, [Idle EXCEPT !.op = "remove", !.at = "unlink", !.envs = {e}])
    BY <1>2 DEF StartRemove
  <2> DEFINE call == [Idle EXCEPT !.op = "remove", !.at = "unlink", !.envs = {e}]
  <2>2. call \in Call /\ WellPlaced(call) /\ call.at # "archived"
    BY IdleTyped DEF Call, WellPlaced, Operations, Labels, Idle
  <2>3. /\ calls' = [calls EXCEPT ![c] = call] /\ UNCHANGED <<tables, sweeps>>
        /\ disturbed' = disturbed \cup Crossed(call.op, c)
    BY <2>1 DEF BeginCrossing, Begin
  <2>4. TablesTyped'  BY <2>3, CrossedIs DEF tables
  <2> HIDE DEF call
  <2> QED  BY <2>2, <2>3, <2>4, MovedTyped
<1>3. ASSUME NEW c \in Callers, StartOverride(c)  PROVE Typed'
  <2>1. PICK names \in (SUBSET Environments) \ {{}} :
            /\ Begin(c, [Idle EXCEPT !.op = "override", !.at = "disable",
                                     !.off = enabled \ names, !.on = names \ enabled])
            /\ disturbed' = disturbed \cup Crossed("override", c)
                   \cup IF names \subseteq enabled THEN {"environment"} ELSE {}
    BY <1>3 DEF StartOverride
  <2> DEFINE call == [Idle EXCEPT !.op = "override", !.at = "disable",
                                  !.off = enabled \ names, !.on = names \ enabled]
  <2>2. call \in Call /\ WellPlaced(call) /\ call.at # "archived"
    BY IdleTyped DEF Call, WellPlaced, Operations, Labels, Idle
  <2>3. calls' = [calls EXCEPT ![c] = call] /\ UNCHANGED <<tables, sweeps>>
    BY <2>1 DEF Begin
  <2>4. disturbed' \subseteq {"owner", "environment", "feature"}  BY <2>1, CrossedIs
  <2>5. TablesTyped'  BY <2>3, <2>4 DEF tables
  <2> HIDE DEF call
  <2> QED  BY <2>2, <2>3, <2>5, MovedTyped
<1>4. ASSUME NEW c \in Callers, Disable(c) \/ Enable(c) \/ FindLinks(c)  PROVE Typed'
  <2>1. calls[c] \in Call /\ calls[c].op = "override"
    BY <1>4 DEF Disable, Enable, FindLinks, Placed, WellPlaced
  <2>2. TablesTyped'  BY <1>4, <2>1 DEF Disable, Enable, FindLinks, tables, Call
  <2>3. ASSUME NEW label \in {"enable", "links"}, Goto(c, label), sweeps' = sweeps
        PROVE  Typed'
    <3> DEFINE call == [calls[c] EXCEPT !.at = label]
    <3>1. call \in Call /\ WellPlaced(call) /\ call.at # "archived"
      BY <2>1 DEF Call, WellPlaced, Labels
    <3>2. calls' = [calls EXCEPT ![c] = call]  BY <2>1, <2>3 DEF Goto
    <3> HIDE DEF call
    <3> QED  BY <2>2, <2>3, <3>1, <3>2, MovedTyped
  <2>4. CASE FindLinks(c)
    <3>1. CASE End(c)
      BY <2>2, <2>4, <3>1, IdleTyped, MovedTyped DEF FindLinks, End, Idle
    <3>2. CASE ~End(c)
      <4> DEFINE call == [calls[c] EXCEPT !.at = "unlink", !.envs = calls[c].off \cap linked]
      <4>1. call \in Call /\ WellPlaced(call) /\ call.at # "archived"
        BY <2>1 DEF Call, WellPlaced, Labels
      <4>2. calls' = [calls EXCEPT ![c] = call] /\ sweeps' = sweeps
        BY <2>1, <2>4, <3>2 DEF FindLinks
      <4> HIDE DEF call
      <4> QED  BY <2>2, <4>1, <4>2, MovedTyped
    <3> QED  BY <3>1, <3>2
  <2> QED  BY <1>4, <2>3, <2>4 DEF Disable, Enable
<1>5. ASSUME NEW c \in Callers, Unlink(c) \/ Link(c)  PROVE Typed'
  <2>1. calls[c] \in Call  OBVIOUS
  <2>2. TablesTyped'  BY <1>5, <2>1 DEF Unlink, Link, Call
  <2>3. ASSUME NEW call \in {Idle, [calls[c] EXCEPT !.at = "link", !.envs = calls[c].on]}
                              \cup {[calls[c] EXCEPT !.envs = calls[c].envs \ {e}] : e \in Environments},
               call.at = "link" => calls[c].op = "override"
        PROVE  call \in Call /\ WellPlaced(call) /\ call.at # "archived"
    <3>1. CASE call = Idle  BY <3>1, IdleTyped DEF Idle
    <3>2. ASSUME NEW e \in Environments, call = [calls[c] EXCEPT !.envs = calls[c].envs \ {e}]
          PROVE  call \in Call /\ WellPlaced(call) /\ call.at # "archived"
      BY <1>5, <2>1, <3>2 DEF Call, Placed, WellPlaced, Unlink, Link
    <3>3. CASE call = [calls[c] EXCEPT !.at = "link", !.envs = calls[c].on]
      <4>1. calls[c].op = "override"  BY <2>1, <2>3, <3>3 DEF Call
      <4> QED  BY <2>1, <3>3, <4>1 DEF Call, WellPlaced, Labels
    <3> QED  BY <2>3, <3>1, <3>2, <3>3
  <2>4. ASSUME NEW call \in {Idle, [calls[c] EXCEPT !.at = "link", !.envs = calls[c].on]}
                              \cup {[calls[c] EXCEPT !.envs = calls[c].envs \ {e}] : e \in Environments},
               call.at = "link" => calls[c].op = "override",
               calls' = [calls EXCEPT ![c] = call]
        PROVE  Typed'
    <3>1. sweeps' = sweeps  BY <1>5 DEF Unlink, Link
    <3> QED  BY <2>2, <2>3, <2>4, <3>1, MovedTyped
  <2>5. CASE Unlink(c)
    <3>1. PICK e \in calls[c].envs : calls' = [calls EXCEPT ![c] = Unlinked(calls[c], e)]
      BY <2>5 DEF Unlink
    <3>2. calls[c].at = "unlink" /\ e \in Environments  BY <2>1, <2>5 DEF Unlink, Call
    <3>3. CASE calls[c].envs # {e}
      <4>1. Unlinked(calls[c], e) = [calls[c] EXCEPT !.envs = calls[c].envs \ {e}]
        BY <3>3 DEF Unlinked
      <4>2. Unlinked(calls[c], e).at = "unlink"  BY <2>1, <3>2, <4>1 DEF Call
      <4> QED  BY <2>4, <3>1, <3>2, <4>1, <4>2
    <3>4. CASE calls[c].envs = {e} /\ calls[c].op = "override" /\ calls[c].on # {}
      BY <2>4, <3>1, <3>4 DEF Unlinked
    <3>5. CASE calls[c].envs = {e} /\ ~(calls[c].op = "override" /\ calls[c].on # {})
      BY <2>4, <3>1, <3>5 DEF Unlinked, Idle
    <3> QED  BY <3>3, <3>4, <3>5
  <2>6. CASE Link(c)
    <3>1. PICK e \in calls[c].envs :
              calls' = [calls EXCEPT ![c] = Linked(calls[c], e)]
      BY <2>6 DEF Link
    <3>2. calls[c].op = "override" /\ e \in Environments
      BY <2>1, <2>6 DEF Link, Placed, WellPlaced, Call
    <3>3. CASE calls[c].envs = {e}
      BY <2>4, <3>1, <3>2, <3>3 DEF Linked
    <3>4. CASE calls[c].envs # {e}
      <4>1. Linked(calls[c], e) = [calls[c] EXCEPT !.envs = calls[c].envs \ {e}]
        BY <3>4 DEF Linked
      <4> QED  BY <2>4, <3>1, <3>2, <4>1
    <3> QED  BY <3>3, <3>4
  <2> QED  BY <1>5, <2>5, <2>6
<1> QED  BY <1>1, <1>2, <1>3, <1>4, <1>5 DEF EnvironmentStep

LEMMA CreationTyped ==
    ASSUME Typed, NEW c \in Callers,
           StartCreate(c) \/ InsertProject(c) \/ ReadEnabled(c) \/ Connect(c) \/ MakeOwner(c)
    PROVE  Typed'
<1> USE TypedIs DEF TablesTyped
<1>1. CASE StartCreate(c)
  <2>1. PICK creator \in Users \cup {"nobody"} :
            BeginCrossing(c, [Idle EXCEPT !.op = "create", !.at = "insert", !.who = creator])
    BY <1>1 DEF StartCreate
  <2> DEFINE call == [Idle EXCEPT !.op = "create", !.at = "insert", !.who = creator]
  <2>2. call \in Call /\ WellPlaced(call) /\ call.at # "archived"
    BY IdleTyped, HoldersAssumption DEF Call, WellPlaced, Operations, Labels, Idle, Holders
  <2>3. /\ calls' = [calls EXCEPT ![c] = call] /\ UNCHANGED <<tables, sweeps>>
        /\ disturbed' = disturbed \cup Crossed(call.op, c)
    BY <2>1 DEF BeginCrossing, Begin
  <2>4. TablesTyped'  BY <2>3, CrossedIs DEF tables
  <2> HIDE DEF call
  <2> QED  BY <2>2, <2>3, <2>4, MovedTyped
<1>2. CASE InsertProject(c)
  <2>1. TablesTyped'  BY <1>2 DEF InsertProject
  <2>2. CASE End(c)  BY <1>2, <2>1, <2>2, IdleTyped, MovedTyped DEF InsertProject, End, Idle
  <2>3. CASE Goto(c, "enabled")
    <3> DEFINE call == [calls[c] EXCEPT !.at = "enabled"]
    <3>0. calls[c] \in Call /\ WellPlaced(calls[c]) /\ calls[c].op = "create"
      BY <1>2 DEF InsertProject, Placed
    <3>1. call \in Call /\ WellPlaced(call) /\ call.at # "archived"
      BY <3>0 DEF Call, WellPlaced, Labels
    <3>2. calls' = [calls EXCEPT ![c] = call] /\ sweeps' = sweeps
      BY <1>2, <2>3 DEF InsertProject, Goto
    <3> HIDE DEF call
    <3> QED  BY <2>1, <3>1, <3>2, MovedTyped
  <2> QED  BY <1>2, <2>2, <2>3 DEF InsertProject
<1>3. CASE ReadEnabled(c)
  <2>1. TablesTyped'  BY <1>3 DEF ReadEnabled, tables
  <2> DEFINE call == [calls[c] EXCEPT !.at = IF enabled = {} THEN "owner" ELSE "connect",
                                      !.envs = enabled]
  <2>0. calls[c] \in Call /\ WellPlaced(calls[c]) /\ calls[c].at = "enabled"
    BY <1>3 DEF ReadEnabled, Placed
  <2>2. call \in Call /\ WellPlaced(call) /\ call.at # "archived"
    <3>1. CASE enabled = {}  BY <2>0, <3>1 DEF Call, WellPlaced, Labels
    <3>2. CASE enabled # {}  BY <2>0, <3>2 DEF Call, WellPlaced, Labels
    <3> QED  BY <3>1, <3>2
  <2>3. calls' = [calls EXCEPT ![c] = call] /\ sweeps' = sweeps
    BY <1>3 DEF ReadEnabled
  <2> HIDE DEF call
  <2> QED  BY <2>1, <2>2, <2>3, MovedTyped
<1>4. CASE Connect(c)
  <2>1. calls[c] \in Call /\ calls[c].op \in {"create", "none"} /\ WellPlaced(calls[c])
    BY <1>4 DEF Connect, Placed, WellPlaced
  <2>2. PICK e \in calls[c].envs :
            /\ linked' = IF project THEN linked \cup {e} ELSE linked
            /\ calls' = [calls EXCEPT ![c] = Connected(calls[c], e)]
    BY <1>4 DEF Connect
  <2>3. /\ UNCHANGED <<project, holders, enabled, features, sweeps, disturbed>>
        /\ calls[c].at = "connect"
    BY <1>4 DEF Connect
  <2>4. TablesTyped'  BY <2>1, <2>2, <2>3 DEF Call
  <2> DEFINE call == Connected(calls[c], e)
             rest == calls[c].envs \ {e}
  <2>5. call \in Call /\ WellPlaced(call) /\ call.at # "archived"
    <3>0. rest \in SUBSET Environments  BY <2>1 DEF Call
    <3> DEFINE failed == calls[c].op = "none" \/ ~project \/ e \in linked
    <3> HIDE DEF rest
    <3>1. CASE failed /\ rest = {}
      <4>1. call = Idle  BY <3>1 DEF Connected, rest
      <4> QED  BY <4>1, IdleTyped DEF Idle
    <3>2. CASE ~failed /\ rest = {}
      <4>1. call = [calls[c] EXCEPT !.at = "owner", !.envs = {}]
        BY <3>2 DEF Connected, rest
      <4> QED  BY <2>1, <3>2, <4>1 DEF Call, WellPlaced, Labels
    <3>3. CASE failed /\ rest # {}
      <4>1. call = [calls[c] EXCEPT !.op = "none", !.envs = rest]
        BY <3>3 DEF Connected, rest
      <4> HIDE DEF call
      <4> QED  BY <2>1, <2>3, <3>0, <4>1 DEF Call, WellPlaced
    <3>4. CASE ~failed /\ rest # {}
      <4>1. call = [calls[c] EXCEPT !.op = "create", !.envs = rest]
        BY <3>4 DEF Connected, rest
      <4>2. calls[c].op = "create"  BY <2>1, <3>4
      <4> HIDE DEF call
      <4> QED  BY <2>1, <2>3, <3>0, <4>1, <4>2 DEF Call, WellPlaced
    <3> QED  BY <3>1, <3>2, <3>3, <3>4
  <2>6. calls' = [calls EXCEPT ![c] = call]  BY <2>2
  <2> HIDE DEF call
  <2> QED  BY <2>3, <2>4, <2>5, <2>6, MovedTyped
<1>5. CASE MakeOwner(c)
  <2>1. calls[c].who \notin Groups  BY <1>5 DEF MakeOwner, Placed, WellPlaced
  <2>2. holders' \in [Holders -> SUBSET Roles]  BY <1>5 DEF MakeOwner, Roles
  <2>3. \A g \in Groups : holders'[g] = holders[g]  BY <1>5, <2>1 DEF MakeOwner, Holders
  <2>4. TablesTyped'  BY <1>5, <2>2, <2>3 DEF MakeOwner
  <2> QED  BY <1>5, <2>4, IdleTyped, MovedTyped DEF MakeOwner, End, Idle
<1> QED  BY <1>1, <1>2, <1>3, <1>4, <1>5

Sweep == [at : {"none", "names", "delete"}, names : SUBSET Features]

LEMMA DeletionTyped ==
    ASSUME Typed, NEW c \in Callers,
           \/ StartDelete(c) \/ ListArchived(c) \/ DeleteProject(c) \/ RemoveRoles(c)
           \/ SweepReads(c) \/ SweepDeletes(c) \/ SweepFails(c)
    PROVE  Typed'
<1> USE TypedIs DEF TablesTyped
<1>a. calls[c] \in Call /\ WellPlaced(calls[c]) /\ sweeps[c] \in Sweep
  BY DEF Placed, Sweep
<1>b. ASSUME NEW label \in {"row", "roles"}, calls[c].op = "delete"
      PROVE  /\ [calls[c] EXCEPT !.at = label] \in Call
             /\ WellPlaced([calls[c] EXCEPT !.at = label])
             /\ [calls[c] EXCEPT !.at = label].at # "archived"
  BY <1>a, <1>b DEF Call, WellPlaced, Labels
<1>1. CASE StartDelete(c)
  <2> DEFINE call == [Idle EXCEPT !.op = "delete", !.at = "archived"]
  <2>1. call \in Call /\ WellPlaced(call)
    BY IdleTyped DEF Call, WellPlaced, Operations, Labels, Idle
  <2>2. /\ calls' = [calls EXCEPT ![c] = call] /\ UNCHANGED <<tables, sweeps>>
        /\ sweeps[c] = NoSweep
        /\ disturbed' = disturbed \cup Crossed(call.op, c)
    BY <1>1 DEF StartDelete, BeginCrossing, Begin, Free
  <2>3. TablesTyped'  BY <2>2, CrossedIs DEF tables
  <2> HIDE DEF call
  <2> QED  BY <2>1, <2>2, <2>3, MovedTyped
<1>2. CASE ListArchived(c)
  <2>1. calls[c].op = "delete" /\ Archived \in SUBSET Features
    BY <1>a, <1>2 DEF ListArchived, WellPlaced, Archived
  <2> DEFINE call == [calls[c] EXCEPT !.at = "row"]
             sweep == IF Archived = {} THEN NoSweep ELSE [at |-> "names", names |-> Archived]
  <2>2. sweep \in Sweep  BY <2>1 DEF NoSweep, Sweep
  <2>3. /\ calls' = [calls EXCEPT ![c] = call] /\ sweeps' = [sweeps EXCEPT ![c] = sweep]
        /\ UNCHANGED <<tables, disturbed>>
    BY <1>2 DEF ListArchived, Goto
  <2>4. call \in Call /\ WellPlaced(call) /\ call.at # "archived"  BY <1>b, <2>1
  <2> HIDE DEF call, sweep
  <2>5. /\ calls' \in [Callers -> Call]
        /\ sweeps' \in [Callers -> Sweep]
        /\ Placed'
    BY <2>2, <2>3, <2>4 DEF Placed, Sweep, WellPlaced
  <2>6. TablesTyped'  BY <2>3 DEF tables
  <2> QED  BY <2>5, <2>6, TypedNext DEF Sweep
<1>3. CASE DeleteProject(c)
  <2>1. TablesTyped'
    <3>1. CASE UNCHANGED <<project, linked, holders>>
      BY <1>3, <3>1 DEF DeleteProject
    <3>2. CASE /\ project' = FALSE /\ linked' = {} /\ holders' = Cascaded
               /\ UNCHANGED disturbed
      <4>1. holders' \in [Holders -> SUBSET Roles] /\ \A g \in Groups : holders'[g] = {}
        BY <3>2 DEF Cascaded, Holders
      <4> QED  BY <1>3, <3>2, <4>1 DEF DeleteProject
    <3> QED  BY <1>3, <3>1, <3>2 DEF DeleteProject
  <2> DEFINE call == [calls[c] EXCEPT !.at = "roles"]
  <2>2. call \in Call /\ WellPlaced(call) /\ call.at # "archived"
    BY <1>a, <1>b, <1>3 DEF DeleteProject, WellPlaced
  <2>3. calls' = [calls EXCEPT ![c] = call] /\ sweeps' = sweeps
    BY <1>3 DEF DeleteProject, Goto
  <2> HIDE DEF call
  <2> QED  BY <2>1, <2>2, <2>3, MovedTyped
<1>4. CASE RemoveRoles(c)
  <2>1. TablesTyped'  BY <1>4, HoldersAssumption DEF RemoveRoles, Holders, Roles
  <2> QED  BY <1>4, <2>1, IdleTyped, MovedTyped DEF RemoveRoles, End, Idle
<1>5. CASE SweepReads(c) \/ SweepDeletes(c)
  <2>1. TablesTyped'  BY <1>5 DEF SweepReads, SweepDeletes, tables
  <2>2. PICK sweep \in Sweep : sweeps' = [sweeps EXCEPT ![c] = sweep]
    <3>1. NoSweep \in Sweep  BY DEF NoSweep, Sweep
    <3>2. [at |-> "delete", names |-> sweeps[c].names \cap Archived] \in Sweep
      BY <1>a DEF Sweep
    <3>3. CASE SweepDeletes(c)  BY <3>1, <3>3 DEF SweepDeletes
    <3>4. CASE SweepReads(c)
      <4>1. CASE sweeps[c].names \cap Archived = {}
        <5>1. sweeps' = [sweeps EXCEPT ![c] = NoSweep]  BY <3>4, <4>1 DEF SweepReads
        <5> QED  BY <3>1, <5>1
      <4>2. CASE sweeps[c].names \cap Archived # {}
        <5>1. sweeps' = [sweeps EXCEPT ![c] =
                            [at |-> "delete", names |-> sweeps[c].names \cap Archived]]
          BY <3>4, <4>2 DEF SweepReads
        <5> QED  BY <3>2, <5>1
      <4> QED  BY <4>1, <4>2
    <3> QED  BY <1>5, <3>3, <3>4
  <2>3. calls' = calls /\ calls[c].at # "archived"
    BY <1>5 DEF SweepReads, SweepDeletes, Placed, NoSweep
  <2>4. sweeps' \in [Callers -> Sweep] /\ Placed'
    BY <2>2, <2>3 DEF Placed, WellPlaced, Sweep
  <2> QED  BY <2>1, <2>3, <2>4, TypedNext DEF Sweep
<1>6. CASE SweepFails(c)
  <2>1. TablesTyped'  BY <1>6 DEF SweepFails, tables
  <2>2. calls' = [calls EXCEPT ![c] = Idle] /\ sweeps' = [sweeps EXCEPT ![c] = NoSweep]
    BY <1>6 DEF SweepFails, End
  <2>3. NoSweep \in Sweep  BY DEF NoSweep, Sweep
  <2>4. sweeps' \in [Callers -> Sweep] /\ calls' \in [Callers -> Call]
    BY <2>2, <2>3, IdleTyped DEF Sweep
  <2>5. Placed'  BY <2>2, IdleTyped DEF Placed, WellPlaced
  <2> QED  BY <2>1, <2>4, <2>5, TypedNext DEF Sweep
<1> QED  BY <1>1, <1>2, <1>3, <1>4, <1>5, <1>6

LEMMA FeatureTyped ==
    ASSUME Typed,
           \/ \E c \in Callers : StartFeature(c) \/ InsertFeature(c) \/ CutShort(c)
           \/ \E f \in Features : Leave(f) \/ Revive(f)
    PROVE  Typed'
<1> USE TypedIs DEF TablesTyped
<1>1. ASSUME NEW c \in Callers, StartFeature(c)  PROVE Typed'
  <2>1. PICK f \in Features :
            BeginCrossing(c, [Idle EXCEPT !.op = "feature", !.at = "insert", !.feature = f])
    BY <1>1 DEF StartFeature
  <2> DEFINE call == [Idle EXCEPT !.op = "feature", !.at = "insert", !.feature = f]
  <2>2. call \in Call /\ WellPlaced(call) /\ call.at # "archived"
    BY IdleTyped DEF Call, WellPlaced, Operations, Labels, Idle
  <2>3. /\ calls' = [calls EXCEPT ![c] = call] /\ UNCHANGED <<tables, sweeps>>
        /\ disturbed' = disturbed \cup Crossed(call.op, c)
    BY <2>1 DEF BeginCrossing, Begin
  <2>4. TablesTyped'  BY <2>3, CrossedIs DEF tables
  <2> HIDE DEF call
  <2> QED  BY <2>2, <2>3, <2>4, MovedTyped
<1>2. ASSUME NEW c \in Callers, InsertFeature(c)  PROVE Typed'
  <2>1. features' \in [Features -> {"elsewhere", "live", "archived"}]
    BY <1>2 DEF InsertFeature
  <2>2. TablesTyped'  BY <1>2, <2>1 DEF InsertFeature
  <2> QED  BY <1>2, <2>2, IdleTyped, MovedTyped DEF InsertFeature, End, Idle
<1>3. ASSUME NEW c \in Callers, CutShort(c)  PROVE Typed'
  <2>1. TablesTyped'  BY <1>3 DEF CutShort, tables
  <2> QED  BY <1>3, <2>1, IdleTyped, MovedTyped DEF CutShort, End, Idle
<1>4. ASSUME NEW f \in Features, Leave(f) \/ Revive(f)  PROVE Typed'
  <2>1. TablesTyped'  BY <1>4 DEF Leave, Revive
  <2> QED  BY <1>4, <2>1, RestTyped DEF Leave, Revive
<1> QED  BY <1>1, <1>2, <1>3, <1>4

LEMMA TypedInitially == Init => Typed
<1> SUFFICES ASSUME Init PROVE Typed  OBVIOUS
<1>1. TablesTyped  BY DEF Init, TablesTyped, Holders, Roles
<1>2. calls \in [Callers -> Call] /\ Placed
  BY IdleTyped DEF Init, Placed
<1> QED  BY <1>1, <1>2, TypedIs DEF Init, NoSweep

LEMMA TypedStep == Typed /\ [Next]_vars => Typed'
<1> SUFFICES ASSUME Typed, [Next]_vars PROVE Typed'  OBVIOUS
<1>1. CASE UNCHANGED vars
  <2>1. TablesTyped'  BY <1>1, TypedIs DEF vars, TablesTyped
  <2> QED  BY <1>1, <2>1, RestTyped DEF vars
<1>2. CASE Next
  BY <1>2, AccessTyped, EnvironmentTyped, CreationTyped, DeletionTyped, FeatureTyped DEF Next
<1> QED  BY <1>1, <1>2

(* Every table and every call of ProjectService stays well formed; the     *)
(* links and the roles of groups never outlive the project's row.          *)
THEOREM ProjectsTypeOK == Spec => []TypeOK
<1>1. Typed => TypeOK  BY DEF Typed
<1> QED  BY <1>1, TypedInitially, TypedStep, PTL DEF Spec

-----------------------------------------------------------------------------
(* What may be wrong stays so; and a step either starts a call, noting what*)
(* it crosses, or leaves every call its operation, if it does not end it.  *)
Starts(c) ==
    \E call \in Call :
        /\ calls' = [calls EXCEPT ![c] = call]
        /\ calls[c] = Idle /\ sweeps[c] = NoSweep /\ sweeps' = sweeps
        /\ disturbed \cup Crossed(call.op, c) \subseteq disturbed'

GoesOn ==
    /\ \A d \in Callers : calls'[d].op \in {calls[d].op, "none"}
    /\ \A d \in Callers :
           sweeps'[d] # NoSweep => sweeps[d] # NoSweep \/ calls'[d].op = "delete"

LEMMA CallsGoOn ==
    ASSUME Typed, Next
    PROVE  /\ disturbed \subseteq disturbed'
           /\ GoesOn \/ \E c \in Callers : Starts(c)
<1> USE TypedIs
<1>a. ASSUME UNCHANGED <<calls, sweeps>> PROVE GoesOn  BY <1>a DEF GoesOn
<1>b. ASSUME NEW c \in Callers, NEW call, calls' = [calls EXCEPT ![c] = call],
             call.op \in {calls[c].op, "none"}, sweeps' = sweeps
      PROVE  GoesOn
  BY <1>b DEF GoesOn
<1>c. ASSUME NEW c \in Callers, End(c), sweeps' = sweeps  PROVE GoesOn
  BY <1>b, <1>c DEF End, Idle
<1>d. ASSUME NEW c \in Callers, NEW label, Goto(c, label), sweeps' = sweeps  PROVE GoesOn
  <2>1. calls' = [calls EXCEPT ![c] = [calls[c] EXCEPT !.at = label]]  BY <1>d DEF Goto
  <2>2. [calls[c] EXCEPT !.at = label].op = calls[c].op  BY DEF Call
  <2> QED  BY <1>b, <1>d, <2>1, <2>2
<1>e. ASSUME NEW c \in Callers, NEW call \in Call, Begin(c, call),
             disturbed \cup Crossed(call.op, c) \subseteq disturbed'
      PROVE  Starts(c)
  BY <1>e DEF Begin, Free, Starts
<1>1. CASE AccessStep
  <2>1. ASSUME NEW h \in Holders, HolderDeleted(h) \/ \E role \in Roles : Grant(h, role)
        PROVE  disturbed \subseteq disturbed' /\ GoesOn
    BY <1>a, <2>1 DEF HolderDeleted, Grant
  <2>2. ASSUME NEW c \in Callers, StartLoss(c)
        PROVE  disturbed \subseteq disturbed' /\ Starts(c)
    <3>1. PICK h \in Holders, loss \in Losses :
              BeginCrossing(c, [Idle EXCEPT !.op = "lose", !.who = h, !.keep = loss.keep,
                                  !.add = loss.add,
                                  !.at = IF MustCount(h, loss) THEN "users" ELSE "write"])
      BY <2>2 DEF StartLoss
    <3> DEFINE call == [Idle EXCEPT !.op = "lose", !.who = h, !.keep = loss.keep,
                                    !.add = loss.add,
                                    !.at = IF MustCount(h, loss) THEN "users" ELSE "write"]
    <3>2. loss.keep \in SUBSET Roles /\ loss.add \in SUBSET Roles  BY DEF Losses
    <3>3. call \in Call
      BY <3>2, IdleTyped DEF Call, Operations, Labels, Idle
    <3>4. Begin(c, call) /\ disturbed' = disturbed \cup Crossed(call.op, c)
      BY <3>1 DEF BeginCrossing
    <3> HIDE DEF call
    <3> QED  BY <1>e, <3>3, <3>4
  <2>3. ASSUME NEW c \in Callers, CountUsers(c)  PROVE disturbed \subseteq disturbed' /\ GoesOn
    <3> DEFINE call == [calls[c] EXCEPT !.at = "groups", !.count = Cardinality(Owners \cap Users)]
    <3>1. calls' = [calls EXCEPT ![c] = call] /\ call.op = calls[c].op
      BY <2>3 DEF CountUsers, Call
    <3> HIDE DEF call
    <3> QED  BY <1>b, <2>3, <3>1 DEF CountUsers
  <2>4. ASSUME NEW c \in Callers, CountGroups(c)  PROVE disturbed \subseteq disturbed' /\ GoesOn
    <3>1. sweeps' = sweeps /\ disturbed' = disturbed  BY <2>4 DEF CountGroups
    <3>2. CASE End(c)  BY <1>c, <3>1, <3>2
    <3>3. CASE ~End(c)
      <4> DEFINE call == [calls[c] EXCEPT !.at = "write", !.count = 0]
      <4>1. calls' = [calls EXCEPT ![c] = call] /\ call.op = calls[c].op
        BY <2>4, <3>3 DEF CountGroups, Call
      <4> HIDE DEF call
      <4> QED  BY <1>b, <3>1, <4>1
    <3> QED  BY <3>2, <3>3
  <2>5. ASSUME NEW c \in Callers, WriteRoles(c)  PROVE disturbed \subseteq disturbed' /\ GoesOn
    BY <1>c, <2>5 DEF WriteRoles
  <2> QED  BY <1>1, <2>1, <2>2, <2>3, <2>4, <2>5 DEF AccessStep
<1>2. CASE EnvironmentStep
  <2>1. ASSUME NEW e \in Environments, ToggleEnvironment(e) \/ AddEnvironment(e)
        PROVE  disturbed \subseteq disturbed' /\ GoesOn
    BY <1>a, <2>1 DEF ToggleEnvironment, AddEnvironment
  <2>2. ASSUME NEW c \in Callers, StartRemove(c)
        PROVE  disturbed \subseteq disturbed' /\ Starts(c)
    <3>1. PICK e \in Environments :
              BeginCrossing(c, [Idle EXCEPT !.op = "remove", !.at = "unlink", !.envs = {e}])
      BY <2>2 DEF StartRemove
    <3>2. [Idle EXCEPT !.op = "remove", !.at = "unlink", !.envs = {e}] \in Call
      BY IdleTyped DEF Call, Operations, Labels, Idle
    <3> QED  BY <1>e, <3>1, <3>2 DEF BeginCrossing
  <2>3. ASSUME NEW c \in Callers, StartOverride(c)
        PROVE  disturbed \subseteq disturbed' /\ Starts(c)
    <3>1. PICK names \in (SUBSET Environments) \ {{}} :
              /\ Begin(c, [Idle EXCEPT !.op = "override", !.at = "disable",
                                       !.off = enabled \ names, !.on = names \ enabled])
              /\ disturbed' = disturbed \cup Crossed("override", c)
                     \cup IF names \subseteq enabled THEN {"environment"} ELSE {}
      BY <2>3 DEF StartOverride
    <3> DEFINE call == [Idle EXCEPT !.op = "override", !.at = "disable",
                                    !.off = enabled \ names, !.on = names \ enabled]
    <3>2. call \in Call /\ call.op = "override"
      BY IdleTyped DEF Call, Operations, Labels, Idle, TablesTyped
    <3>3. Begin(c, call)  BY <3>1
    <3> HIDE DEF call
    <3> QED  BY <1>e, <3>1, <3>2, <3>3
  <2>4. ASSUME NEW c \in Callers, Disable(c) \/ Enable(c)
        PROVE  disturbed \subseteq disturbed' /\ GoesOn
    BY <1>d, <2>4 DEF Disable, Enable
  <2>5. ASSUME NEW c \in Callers, FindLinks(c)  PROVE disturbed \subseteq disturbed' /\ GoesOn
    <3>1. sweeps' = sweeps /\ disturbed' = disturbed  BY <2>5 DEF FindLinks
    <3>2. CASE End(c)  BY <1>c, <3>1, <3>2
    <3>3. CASE ~End(c)
      <4> DEFINE call == [calls[c] EXCEPT !.at = "unlink", !.envs = calls[c].off \cap linked]
      <4>1. calls' = [calls EXCEPT ![c] = call] /\ call.op = calls[c].op
        BY <2>5, <3>3 DEF FindLinks, Call
      <4> HIDE DEF call
      <4> QED  BY <1>b, <3>1, <4>1
    <3> QED  BY <3>2, <3>3
  <2>6. ASSUME NEW c \in Callers, Unlink(c) \/ Link(c)
        PROVE  disturbed \subseteq disturbed' /\ GoesOn
    <3>1. calls[c] \in Call  OBVIOUS
    <3>2. \A e : Unlinked(calls[c], e).op \in {calls[c].op, "none"}
                 /\ Linked(calls[c], e).op \in {calls[c].op, "none"}
      BY <3>1 DEF Unlinked, Linked, Call, Idle
    <3>3. CASE Unlink(c)  BY <1>b, <3>2, <3>3 DEF Unlink
    <3>4. CASE Link(c)  BY <1>b, <3>2, <3>4 DEF Link
    <3> QED  BY <2>6, <3>3, <3>4
  <2> QED  BY <1>2, <2>1, <2>2, <2>3, <2>4, <2>5, <2>6 DEF EnvironmentStep
<1>3. ASSUME NEW c \in Callers,
             StartCreate(c) \/ InsertProject(c) \/ ReadEnabled(c) \/ Connect(c) \/ MakeOwner(c)
      PROVE  disturbed \subseteq disturbed' /\ (GoesOn \/ Starts(c))
  <2>1. CASE StartCreate(c)
    <3>1. PICK creator \in Users \cup {"nobody"} :
              BeginCrossing(c, [Idle EXCEPT !.op = "create", !.at = "insert", !.who = creator])
      BY <2>1 DEF StartCreate
    <3>2. [Idle EXCEPT !.op = "create", !.at = "insert", !.who = creator] \in Call
      BY IdleTyped DEF Call, Operations, Labels, Idle, Holders
    <3> QED  BY <1>e, <3>1, <3>2 DEF BeginCrossing
  <2>2. CASE InsertProject(c)  BY <1>c, <1>d, <2>2 DEF InsertProject
  <2>3. CASE ReadEnabled(c)
    <3> DEFINE call == [calls[c] EXCEPT !.at = IF enabled = {} THEN "owner" ELSE "connect",
                                        !.envs = enabled]
    <3>1. calls' = [calls EXCEPT ![c] = call] /\ call.op = calls[c].op
      BY <2>3 DEF ReadEnabled, Call
    <3> HIDE DEF call
    <3> QED  BY <1>b, <2>3, <3>1 DEF ReadEnabled
  <2>4. CASE Connect(c)
    <3>1. calls[c] \in Call /\ calls[c].op \in {"create", "none"}
      BY <2>4 DEF Connect, Placed, WellPlaced
    <3>2. \A e : Connected(calls[c], e).op \in {calls[c].op, "none"}
      BY <3>1 DEF Connected, Call, Idle
    <3> QED  BY <1>b, <2>4, <3>2 DEF Connect
  <2>5. CASE MakeOwner(c)  BY <1>c, <2>5 DEF MakeOwner
  <2> QED  BY <1>3, <2>1, <2>2, <2>3, <2>4, <2>5
<1>4. ASSUME NEW c \in Callers,
             \/ StartDelete(c) \/ ListArchived(c) \/ DeleteProject(c) \/ RemoveRoles(c)
             \/ SweepReads(c) \/ SweepDeletes(c) \/ SweepFails(c)
      PROVE  disturbed \subseteq disturbed' /\ (GoesOn \/ Starts(c))
  <2>1. CASE StartDelete(c)
    <3>1. [Idle EXCEPT !.op = "delete", !.at = "archived"] \in Call
      BY IdleTyped DEF Call, Operations, Labels, Idle
    <3> QED  BY <1>e, <2>1, <3>1 DEF StartDelete, BeginCrossing
  <2>2. CASE ListArchived(c)
    <3>1. calls[c].op = "delete"  BY <2>2 DEF ListArchived, Placed, WellPlaced
    <3>2. \A d \in Callers : calls'[d].op = calls[d].op
      BY <2>2 DEF ListArchived, Goto, Call
    <3>3. \A d \in Callers : d # c => sweeps'[d] = sweeps[d]  BY <2>2 DEF ListArchived
    <3> QED  BY <2>2, <3>1, <3>2, <3>3 DEF ListArchived, GoesOn
  <2>3. CASE DeleteProject(c)  BY <1>d, <2>3 DEF DeleteProject
  <2>4. CASE RemoveRoles(c)  BY <1>c, <2>4 DEF RemoveRoles
  <2>5. CASE SweepReads(c) \/ SweepDeletes(c)
    <3>1. calls' = calls /\ disturbed' = disturbed  BY <2>5 DEF SweepReads, SweepDeletes
    <3>2. sweeps[c] # NoSweep  BY <2>5 DEF SweepReads, SweepDeletes, NoSweep
    <3>3. \A d \in Callers : d # c => sweeps'[d] = sweeps[d]
      BY <2>5 DEF SweepReads, SweepDeletes
    <3> QED  BY <3>1, <3>2, <3>3 DEF GoesOn
  <2>6. CASE SweepFails(c)  BY <2>6 DEF SweepFails, End, Idle, GoesOn
  <2> QED  BY <1>4, <2>1, <2>2, <2>3, <2>4, <2>5, <2>6
<1>5. ASSUME NEW c \in Callers, StartFeature(c) \/ InsertFeature(c) \/ CutShort(c)
      PROVE  disturbed \subseteq disturbed' /\ (GoesOn \/ Starts(c))
  <2>1. CASE StartFeature(c)
    <3>1. PICK f \in Features :
              BeginCrossing(c, [Idle EXCEPT !.op = "feature", !.at = "insert", !.feature = f])
      BY <2>1 DEF StartFeature
    <3>2. [Idle EXCEPT !.op = "feature", !.at = "insert", !.feature = f] \in Call
      BY IdleTyped DEF Call, Operations, Labels, Idle
    <3> QED  BY <1>e, <3>1, <3>2 DEF BeginCrossing
  <2>2. CASE InsertFeature(c)  BY <1>c, <2>2 DEF InsertFeature
  <2>3. CASE CutShort(c)  BY <1>c, <2>3 DEF CutShort
  <2> QED  BY <1>5, <2>1, <2>2, <2>3
<1>6. ASSUME NEW f \in Features, Leave(f) \/ Revive(f)
      PROVE  disturbed \subseteq disturbed' /\ GoesOn
  BY <1>a, <1>6 DEF Leave, Revive
<1> QED  BY <1>1, <1>2, <1>3, <1>4, <1>5, <1>6 DEF Next

(* Calls under way whose overlap may break a rule have been noted, and a   *)
(* sweep belongs to a deletion, or to one that is over.                    *)
Apart ==
    /\ \A c, d \in Callers : c # d =>
           /\ {calls[c].op, calls[d].op} \in CrossOwner => "owner" \in disturbed
           /\ {calls[c].op, calls[d].op} \in CrossEnvironment => "environment" \in disturbed
           /\ {calls[c].op, calls[d].op} \in CrossFeature => "feature" \in disturbed
    /\ \A c \in Callers : sweeps[c] # NoSweep => calls[c].op \in {"none", "delete"}

LEMMA ApartStep ==
    ASSUME Typed, Apart, Next
    PROVE  Apart'
<1>1. \A op : \A pairs \in {CrossOwner, CrossEnvironment, CrossFeature} :
          {"none", op} \notin pairs
  BY DEF CrossOwner, CrossEnvironment, CrossFeature
<1>2. disturbed \subseteq disturbed'  BY CallsGoOn
<1>3. CASE GoesOn
  <2>1. ASSUME NEW c \in Callers, NEW d \in Callers,
               NEW pairs \in {CrossOwner, CrossEnvironment, CrossFeature},
               {calls'[c].op, calls'[d].op} \in pairs
        PROVE  {calls[c].op, calls[d].op} \in pairs
    <3>1. calls'[c].op = calls[c].op  BY <1>1, <1>3, <2>1 DEF GoesOn
    <3>2. {calls'[d].op, calls'[c].op} \in pairs
      <4>1. {calls'[d].op, calls'[c].op} = {calls'[c].op, calls'[d].op}  OBVIOUS
      <4> QED  BY <2>1, <4>1
    <3>3. calls'[d].op = calls[d].op  BY <1>1, <1>3, <3>2 DEF GoesOn
    <3> QED  BY <2>1, <3>1, <3>3
  <2>2. ASSUME NEW c \in Callers, NEW d \in Callers, c # d
        PROVE  /\ {calls'[c].op, calls'[d].op} \in CrossOwner => "owner" \in disturbed'
               /\ {calls'[c].op, calls'[d].op} \in CrossEnvironment
                      => "environment" \in disturbed'
               /\ {calls'[c].op, calls'[d].op} \in CrossFeature => "feature" \in disturbed'
    BY <1>2, <2>1, <2>2 DEF Apart
  <2>3. \A c \in Callers : sweeps'[c] # NoSweep => calls'[c].op \in {"none", "delete"}
    BY <1>3 DEF GoesOn, Apart
  <2> QED  BY <2>2, <2>3 DEF Apart, CrossOwner, CrossEnvironment, CrossFeature, NoSweep
<1>4. ASSUME NEW c \in Callers, Starts(c)  PROVE Apart'
  <2>1. PICK call \in Call :
            /\ calls' = [calls EXCEPT ![c] = call]
            /\ calls[c] = Idle /\ sweeps[c] = NoSweep /\ sweeps' = sweeps
            /\ disturbed \cup Crossed(call.op, c) \subseteq disturbed'
    BY <1>4 DEF Starts
  <2>2. calls'[c] = call /\ \A d \in Callers \ {c} : calls'[d] = calls[d]
    BY <2>1, TypedIs
  <2>3. ASSUME NEW d \in Callers, d # c
        PROVE  /\ {call.op, calls[d].op} \in CrossOwner => "owner" \in disturbed'
               /\ {call.op, calls[d].op} \in CrossEnvironment => "environment" \in disturbed'
               /\ {call.op, calls[d].op} \in CrossFeature => "feature" \in disturbed'
    <3> DEFINE pairs == {{call.op, calls[e].op} : e \in {e \in Callers \ {c} : calls[e] # Idle}}
    <3>1. CASE calls[d] = Idle
      <4>1. {call.op, calls[d].op} = {"none", call.op}  BY <3>1 DEF Idle
      <4> QED  BY <1>1, <4>1
    <3>2. CASE calls[d] # Idle
      <4>1. {call.op, calls[d].op} \in pairs  BY <2>3, <3>2
      <4>2. Crossed(call.op, c) =
                (IF pairs \cap CrossOwner # {} THEN {"owner"} ELSE {})
                    \cup (IF pairs \cap CrossEnvironment # {} THEN {"environment"} ELSE {})
                    \cup (IF pairs \cap CrossFeature # {} THEN {"feature"} ELSE {})
        BY DEF Crossed
      <4> HIDE DEF pairs
      <4> QED  BY <2>1, <4>1, <4>2
    <3> QED  BY <3>1, <3>2
  <2>4. ASSUME NEW a \in Callers, NEW b \in Callers, a # b
        PROVE  /\ {calls'[a].op, calls'[b].op} \in CrossOwner => "owner" \in disturbed'
               /\ {calls'[a].op, calls'[b].op} \in CrossEnvironment
                      => "environment" \in disturbed'
               /\ {calls'[a].op, calls'[b].op} \in CrossFeature => "feature" \in disturbed'
    <3>1. CASE a = c  BY <2>2, <2>3, <2>4, <3>1
    <3>2. CASE b = c
      <4>1. {calls'[a].op, calls'[b].op} = {call.op, calls[a].op}  BY <2>2, <2>4, <3>2
      <4> QED  BY <2>3, <2>4, <3>2, <4>1
    <3>3. CASE a # c /\ b # c  BY <1>2, <2>2, <2>4, <3>3 DEF Apart
    <3> QED  BY <3>1, <3>2, <3>3
  <2>5. \A d \in Callers : sweeps'[d] # NoSweep => calls'[d].op \in {"none", "delete"}
    BY <2>1, <2>2 DEF Apart
  <2> QED  BY <2>4, <2>5 DEF Apart, CrossOwner, CrossEnvironment, CrossFeature, NoSweep
<1> QED  BY <1>3, <1>4, CallsGoOn

-----------------------------------------------------------------------------
(* While a deletion is under way, and once the project is gone, no feature *)
(* is live, and the archived ones are in the hands of a sweep.             *)
FeatureRules ==
    /\ (\E c \in Callers : calls[c].op = "delete") \/ ~project
           => \A f \in Features : features[f] # "live"
    /\ \A c \in Callers : calls[c].at = "row" => Kept \subseteq sweeps[c].names
    /\ ~project =>
           /\ \A c \in Callers : calls[c].op # "feature"
           /\ \A f \in Kept : \E c \in Callers : f \in sweeps[c].names

FeatureInv == "feature" \notin disturbed => FeatureRules

(* Steps that touch neither the features nor the sweeps: the project may   *)
(* come, and calls other than deletions and features may go on.            *)
LEMMA FeaturesRest ==
    ASSUME Typed, FeatureInv, disturbed \subseteq disturbed',
           UNCHANGED <<features, sweeps>>, project => project',
           \A c \in Callers :
               /\ calls'[c].op \in {"delete", "feature"} => calls'[c].op = calls[c].op
               /\ calls'[c].at = "row" => calls[c].at = "row"
    PROVE  FeatureInv'
BY DEF FeatureInv, FeatureRules, Kept

LEMMA FeatureStep ==
    ASSUME Typed, Apart, FeatureInv, Next
    PROVE  FeatureInv'
<1> USE TypedIs
<1>m. disturbed \subseteq disturbed'  BY CallsGoOn
<1>a. ASSUME NEW c \in Callers, NEW call, calls' = [calls EXCEPT ![c] = call],
             UNCHANGED <<features, sweeps>>, project => project',
             call.op \in {"delete", "feature"} => call.op = calls[c].op, call.at # "row"
      PROVE  FeatureInv'
  BY <1>a, <1>m, FeaturesRest
<1>e. ASSUME NEW c \in Callers, End(c), UNCHANGED <<features, sweeps>>, project => project'
      PROVE  FeatureInv'
  <2>1. Idle.op = "none" /\ Idle.at = "idle"  BY DEF Idle
  <2>2. calls' = [calls EXCEPT ![c] = Idle]  BY <1>e DEF End
  <2> QED  BY <1>a, <1>e, <2>1, <2>2
<1>1. CASE AccessStep
  <2>1. ASSUME NEW h \in Holders, HolderDeleted(h) \/ \E role \in Roles : Grant(h, role)
        PROVE  FeatureInv'
    BY <1>m, <2>1, FeaturesRest DEF HolderDeleted, Grant
  <2>2. ASSUME NEW c \in Callers, StartLoss(c)  PROVE FeatureInv'
    <3>1. PICK h \in Holders, loss \in Losses :
              BeginCrossing(c, [Idle EXCEPT !.op = "lose", !.who = h, !.keep = loss.keep,
                                  !.add = loss.add,
                                  !.at = IF MustCount(h, loss) THEN "users" ELSE "write"])
      BY <2>2 DEF StartLoss
    <3> DEFINE call == [Idle EXCEPT !.op = "lose", !.who = h, !.keep = loss.keep,
                                    !.add = loss.add,
                                    !.at = IF MustCount(h, loss) THEN "users" ELSE "write"]
    <3>2. call.op = "lose" /\ call.at # "row"  BY DEF Idle
    <3>3. calls' = [calls EXCEPT ![c] = call] /\ UNCHANGED <<tables, sweeps>>
      BY <3>1 DEF BeginCrossing, Begin
    <3> HIDE DEF call
    <3> QED  BY <1>a, <3>2, <3>3 DEF tables
  <2>3. ASSUME NEW c \in Callers, CountUsers(c)  PROVE FeatureInv'
    <3> DEFINE call == [calls[c] EXCEPT !.at = "groups", !.count = Cardinality(Owners \cap Users)]
    <3>1. calls' = [calls EXCEPT ![c] = call] /\ call.op = calls[c].op /\ call.at # "row"
      BY <2>3 DEF CountUsers, Call
    <3> HIDE DEF call
    <3> QED  BY <1>a, <2>3, <3>1 DEF CountUsers, tables
  <2>4. ASSUME NEW c \in Callers, CountGroups(c)  PROVE FeatureInv'
    <3>1. UNCHANGED <<tables, sweeps>>  BY <2>4 DEF CountGroups
    <3>2. CASE End(c)  BY <1>e, <3>1, <3>2 DEF tables
    <3>3. CASE ~End(c)
      <4> DEFINE call == [calls[c] EXCEPT !.at = "write", !.count = 0]
      <4>1. calls' = [calls EXCEPT ![c] = call] /\ call.op = calls[c].op /\ call.at # "row"
        BY <2>4, <3>3 DEF CountGroups, Call
      <4> HIDE DEF call
      <4> QED  BY <1>a, <3>1, <4>1 DEF tables
    <3> QED  BY <3>2, <3>3
  <2>5. ASSUME NEW c \in Callers, WriteRoles(c)  PROVE FeatureInv'
    BY <1>e, <2>5 DEF WriteRoles
  <2> QED  BY <1>1, <2>1, <2>2, <2>3, <2>4, <2>5 DEF AccessStep
<1>2. CASE EnvironmentStep
  <2>1. ASSUME NEW e \in Environments, ToggleEnvironment(e) \/ AddEnvironment(e)
        PROVE  FeatureInv'
    BY <1>m, <2>1, FeaturesRest DEF ToggleEnvironment, AddEnvironment
  <2>2. ASSUME NEW c \in Callers, StartRemove(c)  PROVE FeatureInv'
    <3>1. PICK e \in Environments :
              BeginCrossing(c, [Idle EXCEPT !.op = "remove", !.at = "unlink", !.envs = {e}])
      BY <2>2 DEF StartRemove
    <3> DEFINE call == [Idle EXCEPT !.op = "remove", !.at = "unlink", !.envs = {e}]
    <3>2. call.op = "remove" /\ call.at = "unlink"  BY DEF Idle
    <3>3. calls' = [calls EXCEPT ![c] = call] /\ UNCHANGED <<project, features, sweeps>>
      BY <3>1 DEF BeginCrossing, Begin, tables
    <3> HIDE DEF call
    <3> QED  BY <1>a, <3>2, <3>3
  <2>3. ASSUME NEW c \in Callers, StartOverride(c)  PROVE FeatureInv'
    <3>1. PICK names \in (SUBSET Environments) \ {{}} :
              Begin(c, [Idle EXCEPT !.op = "override", !.at = "disable",
                                    !.off = enabled \ names, !.on = names \ enabled])
      BY <2>3 DEF StartOverride
    <3> DEFINE call == [Idle EXCEPT !.op = "override", !.at = "disable",
                                    !.off = enabled \ names, !.on = names \ enabled]
    <3>2. call.op = "override" /\ call.at = "disable"  BY DEF Idle
    <3>3. calls' = [calls EXCEPT ![c] = call] /\ UNCHANGED <<project, features, sweeps>>
      BY <3>1 DEF Begin, tables
    <3> HIDE DEF call
    <3> QED  BY <1>a, <3>2, <3>3
  <2>4. ASSUME NEW c \in Callers, Disable(c) \/ Enable(c)  PROVE FeatureInv'
    <3>1. PICK label \in {"enable", "links"} : Goto(c, label)
      BY <2>4 DEF Disable, Enable
    <3> DEFINE call == [calls[c] EXCEPT !.at = label]
    <3>2. calls' = [calls EXCEPT ![c] = call] /\ call.op = calls[c].op /\ call.at # "row"
      BY <3>1 DEF Goto, Call
    <3>3. UNCHANGED <<project, features, sweeps>>  BY <2>4 DEF Disable, Enable
    <3> HIDE DEF call
    <3> QED  BY <1>a, <3>2, <3>3
  <2>5. ASSUME NEW c \in Callers, FindLinks(c)  PROVE FeatureInv'
    <3>1. UNCHANGED <<tables, sweeps>>  BY <2>5 DEF FindLinks
    <3>2. CASE End(c)  BY <1>e, <3>1, <3>2 DEF tables
    <3>3. CASE ~End(c)
      <4> DEFINE call == [calls[c] EXCEPT !.at = "unlink", !.envs = calls[c].off \cap linked]
      <4>1. calls' = [calls EXCEPT ![c] = call] /\ call.op = calls[c].op /\ call.at # "row"
        BY <2>5, <3>3 DEF FindLinks, Call
      <4> HIDE DEF call
      <4> QED  BY <1>a, <3>1, <4>1 DEF tables
    <3> QED  BY <3>2, <3>3
  <2>6. ASSUME NEW c \in Callers, Unlink(c) \/ Link(c)  PROVE FeatureInv'
    <3>1. calls[c] \in Call /\ calls[c].at \in {"unlink", "link"}
      BY <2>6 DEF Unlink, Link
    <3>2. \A e : /\ Unlinked(calls[c], e).op \in {calls[c].op, "none"}
                 /\ Unlinked(calls[c], e).at # "row"
                 /\ Linked(calls[c], e).op \in {calls[c].op, "none"}
                 /\ Linked(calls[c], e).at # "row"
      BY <3>1 DEF Unlinked, Linked, Call, Idle
    <3>3. PICK call : /\ calls' = [calls EXCEPT ![c] = call]
                      /\ call.op \in {calls[c].op, "none"} /\ call.at # "row"
      <4>1. CASE Unlink(c)  BY <3>2, <4>1 DEF Unlink
      <4>2. CASE Link(c)  BY <3>2, <4>2 DEF Link
      <4> QED  BY <2>6, <4>1, <4>2
    <3>4. UNCHANGED <<project, features, sweeps>>  BY <2>6 DEF Unlink, Link
    <3> QED  BY <1>a, <3>3, <3>4
  <2> QED  BY <1>2, <2>1, <2>2, <2>3, <2>4, <2>5, <2>6 DEF EnvironmentStep
<1>3. ASSUME NEW c \in Callers,
             StartCreate(c) \/ InsertProject(c) \/ ReadEnabled(c) \/ Connect(c) \/ MakeOwner(c)
      PROVE  FeatureInv'
  <2>1. CASE StartCreate(c)
    <3>1. PICK creator \in Users \cup {"nobody"} :
              BeginCrossing(c, [Idle EXCEPT !.op = "create", !.at = "insert", !.who = creator])
      BY <2>1 DEF StartCreate
    <3> DEFINE call == [Idle EXCEPT !.op = "create", !.at = "insert", !.who = creator]
    <3>2. call.op = "create" /\ call.at = "insert"  BY DEF Idle
    <3>3. calls' = [calls EXCEPT ![c] = call] /\ UNCHANGED <<project, features, sweeps>>
      BY <3>1 DEF BeginCrossing, Begin, tables
    <3> HIDE DEF call
    <3> QED  BY <1>a, <3>2, <3>3
  <2>2. CASE InsertProject(c)
    <3>1. [calls[c] EXCEPT !.at = "enabled"].op = calls[c].op
          /\ [calls[c] EXCEPT !.at = "enabled"].at # "row"
      BY DEF Call
    <3>2. CASE End(c)  BY <1>e, <2>2, <3>2 DEF InsertProject
    <3>3. CASE Goto(c, "enabled")
      <4>1. calls' = [calls EXCEPT ![c] = [calls[c] EXCEPT !.at = "enabled"]]
        BY <3>3 DEF Goto
      <4> QED  BY <1>a, <2>2, <3>1, <4>1 DEF InsertProject
    <3> QED  BY <2>2, <3>2, <3>3 DEF InsertProject
  <2>3. CASE ReadEnabled(c)
    <3> DEFINE call == [calls[c] EXCEPT !.at = IF enabled = {} THEN "owner" ELSE "connect",
                                        !.envs = enabled]
    <3>1. calls' = [calls EXCEPT ![c] = call] /\ call.op = calls[c].op /\ call.at # "row"
      BY <2>3 DEF ReadEnabled, Call
    <3> HIDE DEF call
    <3> QED  BY <1>a, <2>3, <3>1 DEF ReadEnabled, tables
  <2>4. CASE Connect(c)
    <3>1. calls[c] \in Call /\ calls[c].op \in {"create", "none"} /\ calls[c].at = "connect"
      BY <2>4 DEF Connect, Placed, WellPlaced
    <3>2. \A e : Connected(calls[c], e).op \in {calls[c].op, "none"}
                 /\ Connected(calls[c], e).at # "row"
      BY <3>1 DEF Connected, Call, Idle
    <3> QED  BY <1>a, <2>4, <3>2 DEF Connect
  <2>5. CASE MakeOwner(c)  BY <1>e, <2>5 DEF MakeOwner
  <2> QED  BY <1>3, <2>1, <2>2, <2>3, <2>4, <2>5
<1>4. ASSUME NEW c \in Callers, CutShort(c)  PROVE FeatureInv'
  BY <1>e, <1>4 DEF CutShort, tables
<1>5. ASSUME NEW c \in Callers,
             StartDelete(c) \/ ListArchived(c) \/ DeleteProject(c) \/ RemoveRoles(c)
      PROVE  FeatureInv'
  <2> SUFFICES ASSUME "feature" \notin disturbed'  PROVE FeatureRules'
    BY DEF FeatureInv
  <2>0. FeatureRules /\ "feature" \notin disturbed  BY <1>m DEF FeatureInv
  <2> USE DEF FeatureRules
  <2>1. CASE StartDelete(c)
    <3>1. /\ \A f \in Features : features[f] # "live"
          /\ calls' = [calls EXCEPT ![c] = [Idle EXCEPT !.op = "delete", !.at = "archived"]]
          /\ UNCHANGED <<tables, sweeps>>
      BY <2>1 DEF StartDelete, BeginCrossing, Begin
    <3> QED  BY <2>0, <3>1 DEF Idle, tables, Kept
  <2>2. CASE ListArchived(c)
    <3>1. calls[c].op = "delete" /\ sweeps[c] = NoSweep
      BY <2>2 DEF ListArchived, Placed, WellPlaced
    <3>2. Kept = Archived  BY <2>0, <3>1 DEF Archived, Kept, TablesTyped
    <3>3. \A d \in Callers : /\ calls'[d].op = calls[d].op
                             /\ d # c => calls'[d] = calls[d] /\ sweeps'[d] = sweeps[d]
      BY <2>2 DEF ListArchived, Goto, Call
    <3>4. sweeps'[c].names = Kept  BY <2>2, <3>2 DEF ListArchived, NoSweep
    <3>5. UNCHANGED <<project, features>>  BY <2>2 DEF ListArchived, tables
    <3>6. Kept' = Kept  BY <3>5 DEF Kept
    <3>7. ASSUME NEW d \in Callers
          PROVE  /\ calls'[d].at = "row" => Kept' \subseteq sweeps'[d].names
                 /\ sweeps[d].names \subseteq sweeps'[d].names
      <4>1. CASE d = c  BY <3>1, <3>4, <3>6, <4>1 DEF NoSweep
      <4>2. CASE d # c  BY <2>0, <3>3, <3>6, <4>2
      <4> QED  BY <4>1, <4>2
    <3>8. (\E d \in Callers : calls'[d].op = "delete") \/ ~project'
              => \A f \in Features : features'[f] # "live"
      BY <2>0, <3>3, <3>5
    <3> QED  BY <2>0, <3>3, <3>5, <3>6, <3>7, <3>8
  <2>3. CASE DeleteProject(c)
    <3>1. calls[c].op = "delete" /\ calls[c].at = "row"
      BY <2>3 DEF DeleteProject, Placed, WellPlaced
    <3>2. \A d \in Callers : /\ calls'[d].op = calls[d].op
                             /\ calls'[d].at = "row" => calls[d].at = "row"
      BY <2>3 DEF DeleteProject, Goto, Call
    <3>3. \A d \in Callers : calls[d].op # "feature"
      BY <2>0, <3>1 DEF Apart, CrossFeature
    <3>4. UNCHANGED <<features, sweeps>>  BY <2>3 DEF DeleteProject
    <3>5. Kept \subseteq sweeps[c].names /\ \A f \in Features : features[f] # "live"
      BY <2>0, <3>1
    <3>6. (\A f \in Features : features'[f] # "live") /\ Kept' = Kept
      BY <3>4, <3>5 DEF Kept
    <3>7. \A d \in Callers : calls'[d].at = "row" => Kept' \subseteq sweeps'[d].names
      BY <2>0, <3>2, <3>4, <3>6
    <3>8. /\ \A d \in Callers : calls'[d].op # "feature"
          /\ \A f \in Kept' : \E d \in Callers : f \in sweeps'[d].names
      BY <3>2, <3>3, <3>4, <3>5, <3>6
    <3> QED  BY <3>6, <3>7, <3>8
  <2>4. CASE RemoveRoles(c)
    BY <1>e, <1>m, <2>4 DEF RemoveRoles, FeatureInv
  <2> QED  BY <1>5, <2>1, <2>2, <2>3, <2>4
<1>6. ASSUME NEW c \in Callers, SweepReads(c) \/ SweepDeletes(c) \/ SweepFails(c)
      PROVE  FeatureInv'
  <2> SUFFICES ASSUME "feature" \notin disturbed'  PROVE FeatureRules'
    BY DEF FeatureInv
  <2>0. FeatureRules /\ "feature" \notin disturbed  BY <1>m DEF FeatureInv
  <2> USE DEF FeatureRules, Kept
  <2>1. CASE SweepReads(c)
    <3>1. UNCHANGED <<project, features, calls>>  BY <2>1 DEF SweepReads, tables
    <3>2. sweeps'[c].names = sweeps[c].names \cap Archived
          /\ \A d \in Callers : d # c => sweeps'[d] = sweeps[d]
      BY <2>1 DEF SweepReads, NoSweep
    <3>3. (\E d \in Callers : calls[d].op = "delete") \/ ~project => Kept = Archived
      BY <2>0 DEF Archived, TablesTyped
    <3>4. \A d \in Callers : calls[d].at = "row" => calls[d].op = "delete"
      BY DEF Placed, WellPlaced
    <3> QED  BY <2>0, <3>1, <3>2, <3>3, <3>4
  <2>2. CASE SweepDeletes(c)
    <3>1. /\ UNCHANGED <<project, calls>>
          /\ \A f \in Features : features'[f] = IF f \in sweeps[c].names \cap Archived
                                                THEN "elsewhere" ELSE features[f]
          /\ \A d \in Callers : d # c => sweeps'[d] = sweeps[d]
      BY <2>2 DEF SweepDeletes
    <3>2. (\E d \in Callers : calls[d].op = "delete") \/ ~project => Kept = Archived
      BY <2>0 DEF Archived, TablesTyped
    <3>3. \A d \in Callers : calls[d].at = "row" => calls[d].op = "delete"
      BY DEF Placed, WellPlaced
    <3>4. calls[c].at # "row" \/ Kept' = {}  BY <2>0, <3>1, <3>2, <3>3
    <3>5. Kept' \subseteq Kept  BY <3>1 DEF Archived
    <3>6. \A f \in Features : features'[f] = "live" => features[f] = "live"  BY <3>1
    <3>7. \A d \in Callers : calls'[d].at = "row" => Kept' \subseteq sweeps'[d].names
      BY <2>0, <3>1, <3>4, <3>5
    <3>8. ~project => \A f \in Kept' : \E d \in Callers : f \in sweeps'[d].names
      <4>1. ~project => Kept' \cap sweeps[c].names = {}  BY <3>1, <3>2, <3>5 DEF Archived
      <4> QED  BY <2>0, <3>1, <3>5, <4>1
    <3> QED  BY <2>0, <3>1, <3>6, <3>7, <3>8
  <2>3. CASE SweepFails(c)  BY <2>3 DEF SweepFails
  <2> QED  BY <1>6, <2>1, <2>2, <2>3
<1>7. ASSUME NEW c \in Callers, StartFeature(c) \/ InsertFeature(c)  PROVE FeatureInv'
  <2> SUFFICES ASSUME "feature" \notin disturbed'  PROVE FeatureRules'
    BY DEF FeatureInv
  <2>0. FeatureRules /\ "feature" \notin disturbed  BY <1>m DEF FeatureInv
  <2>1. CASE StartFeature(c)
    <3>1. PICK f \in Features :
              calls' = [calls EXCEPT ![c] = [Idle EXCEPT !.op = "feature", !.at = "insert",
                                                         !.feature = f]]
      BY <2>1 DEF StartFeature, BeginCrossing, Begin
    <3>2. project /\ UNCHANGED <<tables, sweeps>>
      BY <2>1 DEF StartFeature, BeginCrossing, Begin
    <3> QED  BY <2>0, <3>1, <3>2 DEF FeatureRules, Kept, Idle, tables
  <2>2. CASE InsertFeature(c)
    <3>1. calls[c].op = "feature" /\ project  BY <2>0, <2>2 DEF InsertFeature, FeatureRules
    <3>2. \A d \in Callers : calls[d].op # "delete"
      BY <2>0, <3>1 DEF Apart, CrossFeature
    <3>3. \A d \in Callers : calls'[d].op # "delete" /\ calls'[d].at # "row"
      BY <2>2, <3>2 DEF InsertFeature, End, Idle, Placed, WellPlaced
    <3> QED  BY <2>2, <3>1, <3>3 DEF InsertFeature, FeatureRules
  <2> QED  BY <1>7, <2>1, <2>2
<1>8. ASSUME NEW f \in Features, Leave(f) \/ Revive(f)  PROVE FeatureInv'
  <2> SUFFICES ASSUME "feature" \notin disturbed'  PROVE FeatureRules'
    BY DEF FeatureInv
  <2>0. FeatureRules /\ "feature" \notin disturbed  BY <1>m DEF FeatureInv
  <2>1. CASE Leave(f)  BY <2>0, <2>1 DEF Leave, FeatureRules, Kept
  <2>2. CASE Revive(f)
    <3>1. \A d \in Callers : calls[d].op # "delete" /\ sweeps[d] = NoSweep
      BY <2>2 DEF Revive
    <3>2. f \in Kept  BY <2>2 DEF Revive, Kept
    <3>3. project  BY <2>0, <3>1, <3>2 DEF FeatureRules, NoSweep
    <3>4. \A d \in Callers : calls[d].at # "row"  BY <3>1 DEF Placed, WellPlaced
    <3> QED  BY <2>2, <3>1, <3>3, <3>4 DEF Revive, FeatureRules
  <2> QED  BY <1>8, <2>1, <2>2
<1> QED  BY <1>1, <1>2, <1>3, <1>4, <1>5, <1>6, <1>7, <1>8 DEF Next

-----------------------------------------------------------------------------
(* A project that is set up and linked to nothing has a call that will link*)
(* it; and the one removal under way leaves a link that is not its own.    *)
Links(c) ==
    \/ calls[c].op = "create" /\ calls[c].at \in {"enabled", "connect"}
    \/ calls[c].op = "override" /\ calls[c].at \in {"unlink", "link"}

LinkRules ==
    /\ \A c \in Callers : calls[c].op = "override" => calls[c].on # {}
    /\ \A c \in Callers : calls[c].op = "remove" /\ project => linked \ calls[c].envs # {}
    /\ project /\ linked = {} => \E c \in Callers : Links(c)

LinkInv == "environment" \notin disturbed => LinkRules

(* Steps that take no link away and bring no project; a call that links    *)
(* goes on, and none starts to remove or to override.                      *)
LEMMA LinksRest ==
    ASSUME Typed, LinkInv, disturbed \subseteq disturbed',
           linked \subseteq linked', project' => project,
           \A c \in Callers :
               /\ calls'[c].op = "remove" =>
                      calls[c].op = "remove" /\ calls'[c].envs = calls[c].envs
               /\ calls'[c].op = "override" =>
                      calls[c].op = "override" /\ calls'[c].on = calls[c].on
               /\ Links(c) => Links(c)'
    PROVE  LinkInv'
BY DEF LinkInv, LinkRules

(* The same when one call goes on or ends that does not link.              *)
LEMMA OneRests ==
    ASSUME Typed, LinkInv, disturbed \subseteq disturbed',
           linked \subseteq linked', project' => project,
           NEW c \in Callers, NEW call, calls' = [calls EXCEPT ![c] = call],
           call.op \notin {"remove", "override"}, ~Links(c)
    PROVE  LinkInv'
<1>1. calls'[c] = call /\ \A d \in Callers \ {c} : calls'[d] = calls[d]
  BY TypedIs
<1>2. \A d \in Callers \ {c} : Links(d)' = Links(d)  BY <1>1 DEF Links
<1> QED  BY <1>1, <1>2, LinksRest

LEMMA LinkStep ==
    ASSUME Typed, Apart, LinkInv, Next
    PROVE  LinkInv'
<1>t. /\ calls \in [Callers -> Call] /\ project \in BOOLEAN /\ linked \subseteq Environments
      /\ ~project => linked = {}
      /\ \A c \in Callers : WellPlaced(calls[c])
  BY TypedIs DEF TablesTyped, Placed
<1>m. disturbed \subseteq disturbed'  BY CallsGoOn
<1>r. ASSUME UNCHANGED calls, linked \subseteq linked', project' => project
      PROVE  LinkInv'
  BY <1>m, <1>r, LinksRest DEF Links
<1>e. ASSUME NEW c \in Callers, End(c), linked \subseteq linked', project' => project, ~Links(c)
      PROVE  LinkInv'
  <2>1. calls' = [calls EXCEPT ![c] = Idle] /\ Idle.op \notin {"remove", "override"}
    BY <1>e DEF End, Idle
  <2> QED  BY <1>e, <1>m, <2>1, OneRests
<1>b. ASSUME NEW c \in Callers, NEW call, Begin(c, call), call.op \notin {"remove", "override"}
      PROVE  LinkInv'
  <2>1. /\ calls' = [calls EXCEPT ![c] = call] /\ UNCHANGED <<project, linked>>
        /\ calls[c] = Idle
    BY <1>b DEF Begin, Free, tables
  <2>2. ~Links(c)  BY <2>1 DEF Links, Idle
  <2> QED  BY <1>b, <1>m, <2>1, <2>2, OneRests
<1>1. CASE AccessStep
  <2>1. ASSUME NEW h \in Holders, HolderDeleted(h) \/ \E role \in Roles : Grant(h, role)
        PROVE  LinkInv'
    BY <1>r, <2>1 DEF HolderDeleted, Grant
  <2>2. ASSUME NEW c \in Callers, StartLoss(c)  PROVE LinkInv'
    <3>1. PICK h \in Holders, loss \in Losses :
              Begin(c, [Idle EXCEPT !.op = "lose", !.who = h, !.keep = loss.keep,
                                  !.add = loss.add,
                                  !.at = IF MustCount(h, loss) THEN "users" ELSE "write"])
      BY <2>2 DEF StartLoss, BeginCrossing
    <3> DEFINE call == [Idle EXCEPT !.op = "lose", !.who = h, !.keep = loss.keep,
                                    !.add = loss.add,
                                    !.at = IF MustCount(h, loss) THEN "users" ELSE "write"]
    <3>2. call.op = "lose"  BY DEF Idle
    <3> HIDE DEF call
    <3> QED  BY <1>b, <3>1, <3>2 DEF call
  <2>3. ASSUME NEW c \in Callers, CountUsers(c) \/ CountGroups(c)  PROVE LinkInv'
    <3>1. calls[c].op = "lose" /\ ~Links(c)
      BY <1>t, <2>3 DEF CountUsers, CountGroups, WellPlaced, Links
    <3>2. UNCHANGED <<project, linked>>  BY <2>3 DEF CountUsers, CountGroups, tables
    <3>3. CASE CountUsers(c)
      <4> DEFINE call == [calls[c] EXCEPT !.at = "groups", !.count = Cardinality(Owners \cap Users)]
      <4>1. calls' = [calls EXCEPT ![c] = call] /\ call.op = "lose"
        BY <1>t, <3>1, <3>3 DEF CountUsers, Call
      <4> HIDE DEF call
      <4> QED  BY <1>m, <3>1, <3>2, <4>1, OneRests
    <3>4. CASE CountGroups(c) /\ ~End(c)
      <4> DEFINE call == [calls[c] EXCEPT !.at = "write", !.count = 0]
      <4>1. calls' = [calls EXCEPT ![c] = call] /\ call.op = "lose"
        BY <1>t, <3>1, <3>4 DEF CountGroups, Call
      <4> HIDE DEF call
      <4> QED  BY <1>m, <3>1, <3>2, <4>1, OneRests
    <3>5. CASE End(c)  BY <1>e, <3>1, <3>2, <3>5
    <3> QED  BY <2>3, <3>3, <3>4, <3>5
  <2>4. ASSUME NEW c \in Callers, WriteRoles(c)  PROVE LinkInv'
    <3>1. ~Links(c) /\ End(c) /\ UNCHANGED <<project, linked>>
      BY <2>4 DEF WriteRoles, Links
    <3> QED  BY <1>e, <3>1
  <2> QED  BY <1>1, <2>1, <2>2, <2>3, <2>4 DEF AccessStep
<1>2. ASSUME NEW c \in Callers,
             \/ StartCreate(c) \/ StartDelete(c) \/ StartFeature(c)
             \/ ListArchived(c) \/ DeleteProject(c) \/ RemoveRoles(c)
             \/ MakeOwner(c) \/ InsertFeature(c)
      PROVE  LinkInv'
  <2>1. CASE StartCreate(c)
    <3>1. PICK creator \in Users \cup {"nobody"} :
              Begin(c, [Idle EXCEPT !.op = "create", !.at = "insert", !.who = creator])
      BY <2>1 DEF StartCreate, BeginCrossing
    <3>2. [Idle EXCEPT !.op = "create", !.at = "insert", !.who = creator].op = "create"
      BY DEF Idle
    <3> QED  BY <1>b, <3>1, <3>2
  <2>2. CASE StartDelete(c)
    <3>1. Begin(c, [Idle EXCEPT !.op = "delete", !.at = "archived"])
      BY <2>2 DEF StartDelete, BeginCrossing
    <3>2. [Idle EXCEPT !.op = "delete", !.at = "archived"].op = "delete"  BY DEF Idle
    <3> QED  BY <1>b, <3>1, <3>2
  <2>3. CASE StartFeature(c)
    <3>1. PICK f \in Features :
              Begin(c, [Idle EXCEPT !.op = "feature", !.at = "insert", !.feature = f])
      BY <2>3 DEF StartFeature, BeginCrossing
    <3>2. [Idle EXCEPT !.op = "feature", !.at = "insert", !.feature = f].op = "feature"
      BY DEF Idle
    <3> QED  BY <1>b, <3>1, <3>2
  <2>4. CASE ListArchived(c) \/ DeleteProject(c)
    <3>1. calls[c].op = "delete" /\ ~Links(c)
      BY <1>t, <2>4 DEF ListArchived, DeleteProject, WellPlaced, Links
    <3>2. PICK label \in {"row", "roles"} : Goto(c, label)
      BY <2>4 DEF ListArchived, DeleteProject
    <3> DEFINE call == [calls[c] EXCEPT !.at = label]
    <3>3. calls' = [calls EXCEPT ![c] = call] /\ call.op = "delete"
      BY <1>t, <3>1, <3>2 DEF Goto, Call
    <3> HIDE DEF call
    <3>4. CASE UNCHANGED <<project, linked>>  BY <1>m, <3>1, <3>3, <3>4, OneRests
    <3>5. CASE project' = FALSE
      <4>1. \A d \in Callers : calls'[d].op = "override" =>
                calls[d].op = "override" /\ calls'[d].on = calls[d].on
        BY <1>t, <3>3
      <4> QED  BY <1>m, <3>5, <4>1 DEF LinkInv, LinkRules
    <3> QED  BY <2>4, <3>4, <3>5 DEF ListArchived, DeleteProject, tables
  <2>5. CASE RemoveRoles(c) \/ MakeOwner(c) \/ InsertFeature(c)
    <3>1. End(c) /\ UNCHANGED <<project, linked>>
      BY <2>5 DEF RemoveRoles, MakeOwner, InsertFeature
    <3>2. ~Links(c)  BY <2>5 DEF RemoveRoles, MakeOwner, InsertFeature, Links
    <3> QED  BY <1>e, <3>1, <3>2
  <2> QED  BY <1>2, <2>1, <2>2, <2>3, <2>4, <2>5
<1>3. ASSUME NEW c \in Callers, SweepReads(c) \/ SweepDeletes(c) \/ SweepFails(c)
      PROVE  LinkInv'
  <2>1. CASE SweepReads(c) \/ SweepDeletes(c)
    BY <1>r, <2>1 DEF SweepReads, SweepDeletes, tables
  <2>2. CASE SweepFails(c)
    <3>1. End(c) /\ UNCHANGED <<project, linked>>  BY <2>2 DEF SweepFails, tables
    <3>2. ~Links(c)  BY <2>2 DEF SweepFails, Apart, Links
    <3> QED  BY <1>e, <3>1, <3>2
  <2> QED  BY <1>3, <2>1, <2>2
<1>4. ASSUME NEW f \in Features, Leave(f) \/ Revive(f)  PROVE LinkInv'
  BY <1>r, <1>4 DEF Leave, Revive
<1>5. ASSUME NEW e \in Environments, ToggleEnvironment(e) \/ AddEnvironment(e)  PROVE LinkInv'
  BY <1>r, <1>5 DEF ToggleEnvironment, AddEnvironment
<1>6. ASSUME NEW c \in Callers, CutShort(c)  PROVE LinkInv'
  <2>1. CASE calls[c].op \in {"create", "override", "none"}
    BY <1>6, <2>1 DEF CutShort, LinkInv
  <2>2. CASE calls[c].op \notin {"create", "override", "none"}
    <3>1. ~Links(c)  BY <2>2 DEF Links
    <3> QED  BY <1>6, <1>e, <3>1 DEF CutShort, tables
  <2> QED  BY <2>1, <2>2
<1>7. ASSUME NEW c \in Callers, NEW d \in Callers, c # d,
             "environment" \notin disturbed, calls[c].op = "remove"
      PROVE  calls[d].op \notin {"remove", "override", "create"}
  <2>1. /\ {calls[c].op, "remove"} = {"remove"}
        /\ {calls[c].op, "override"} = {"remove", "override"}
        /\ {calls[c].op, "create"} = {"remove", "create"}
    BY <1>7
  <2> QED  BY <1>7, <2>1 DEF Apart, CrossEnvironment
<1>8. ASSUME NEW c \in Callers, StartRemove(c) \/ StartOverride(c)  PROVE LinkInv'
  <2> SUFFICES ASSUME "environment" \notin disturbed'  PROVE LinkRules'
    BY DEF LinkInv
  <2>0. LinkRules /\ "environment" \notin disturbed  BY <1>m DEF LinkInv
  <2>1. CASE StartRemove(c)
    <3>1. PICK e \in Environments :
              Begin(c, [Idle EXCEPT !.op = "remove", !.at = "unlink", !.envs = {e}])
      BY <2>1 DEF StartRemove, BeginCrossing
    <3>2. /\ calls' = [calls EXCEPT ![c] = [Idle EXCEPT !.op = "remove", !.at = "unlink",
                                                        !.envs = {e}]]
          /\ UNCHANGED <<project, linked>> /\ calls[c] = Idle
      BY <3>1 DEF Begin, Free, tables
    <3>3. linked \ {e} # {}
      <4> SUFFICES ASSUME linked \ {e} = {}  PROVE FALSE  OBVIOUS
      <4>1. linked = {} \/ linked = {e}  OBVIOUS
      <4>2. Cardinality(linked) \in {0, 1}  BY <4>1, FS_EmptySet, FS_Singleton
      <4> QED  BY <2>1, <4>2 DEF StartRemove, MayUnlink
    <3>4. /\ calls'[c].op = "remove" /\ calls'[c].envs = {e}
          /\ \A d \in Callers \ {c} : calls'[d] = calls[d]
      BY <1>t, <3>2 DEF Idle
    <3> QED  BY <2>0, <3>2, <3>3, <3>4 DEF LinkRules
  <2>2. CASE StartOverride(c)
    <3>1. PICK names \in (SUBSET Environments) \ {{}} :
              /\ Begin(c, [Idle EXCEPT !.op = "override", !.at = "disable",
                                       !.off = enabled \ names, !.on = names \ enabled])
              /\ disturbed' = disturbed \cup Crossed("override", c)
                     \cup IF names \subseteq enabled THEN {"environment"} ELSE {}
      BY <2>2 DEF StartOverride
    <3>2. names \ enabled # {}  BY <3>1
    <3>3. /\ calls' = [calls EXCEPT ![c] = [Idle EXCEPT !.op = "override", !.at = "disable",
                                       !.off = enabled \ names, !.on = names \ enabled]]
          /\ UNCHANGED <<project, linked>> /\ calls[c] = Idle
      BY <3>1 DEF Begin, Free, tables
    <3>4. /\ calls'[c].op = "override" /\ calls'[c].on # {}
          /\ \A d \in Callers \ {c} : calls'[d] = calls[d]
      BY <1>t, <3>2, <3>3 DEF Idle
    <3>5. ~Links(c) /\ \A d \in Callers \ {c} : Links(d)' = Links(d)
      BY <3>3, <3>4 DEF Links, Idle
    <3> QED  BY <2>0, <3>3, <3>4, <3>5 DEF LinkRules
  <2> QED  BY <1>8, <2>1, <2>2
<1>9. ASSUME NEW c \in Callers, Disable(c) \/ Enable(c) \/ FindLinks(c)  PROVE LinkInv'
  <2>1. calls[c].op = "override" /\ ~Links(c) /\ calls[c] \in Call
    BY <1>t, <1>9 DEF Disable, Enable, FindLinks, WellPlaced, Links
  <2>2. UNCHANGED <<project, linked>>  BY <1>9 DEF Disable, Enable, FindLinks, tables
  <2>3. CASE End(c)  BY <1>e, <2>1, <2>2, <2>3
  <2>4. ASSUME NEW call, calls' = [calls EXCEPT ![c] = call],
               call.op = "override", call.on = calls[c].on
        PROVE  LinkInv'
    <3>1. calls'[c] = call /\ \A d \in Callers \ {c} : calls'[d] = calls[d]
      BY <1>t, <2>4
    <3>2. \A d \in Callers \ {c} : Links(d)' = Links(d)  BY <3>1 DEF Links
    <3> QED  BY <1>m, <2>1, <2>2, <2>4, <3>1, <3>2, LinksRest
  <2>5. CASE Disable(c) \/ Enable(c)
    <3>1. PICK label \in {"enable", "links"} : Goto(c, label)  BY <2>5 DEF Disable, Enable
    <3> DEFINE call == [calls[c] EXCEPT !.at = label]
    <3>2. calls' = [calls EXCEPT ![c] = call] /\ call.op = "override" /\ call.on = calls[c].on
      BY <2>1, <3>1 DEF Goto, Call
    <3> HIDE DEF call
    <3> QED  BY <2>4, <3>2
  <2>6. CASE FindLinks(c) /\ ~End(c)
    <3> DEFINE call == [calls[c] EXCEPT !.at = "unlink", !.envs = calls[c].off \cap linked]
    <3>1. calls' = [calls EXCEPT ![c] = call] /\ call.op = "override" /\ call.on = calls[c].on
      BY <2>1, <2>6 DEF FindLinks, Call
    <3> HIDE DEF call
    <3> QED  BY <2>4, <3>1
  <2> QED  BY <1>9, <2>3, <2>5, <2>6
<1>10. ASSUME NEW c \in Callers, Unlink(c)  PROVE LinkInv'
  <2> SUFFICES ASSUME "environment" \notin disturbed'  PROVE LinkRules'
    BY DEF LinkInv
  <2>0. LinkRules /\ "environment" \notin disturbed  BY <1>m DEF LinkInv
  <2>1. calls[c] \in Call /\ calls[c].at = "unlink" /\ calls[c].op \in {"remove", "override"}
    BY <1>t, <1>10 DEF Unlink, WellPlaced
  <2>2. PICK e \in calls[c].envs :
            linked' = linked \ {e} /\ calls' = [calls EXCEPT ![c] = Unlinked(calls[c], e)]
    BY <1>10 DEF Unlink
  <2>3. /\ calls'[c] = Unlinked(calls[c], e) /\ project' = project
        /\ \A d \in Callers \ {c} : calls'[d] = calls[d]
    BY <1>t, <1>10, <2>2 DEF Unlink
  <2>4. CASE calls[c].op = "override"
    <3>1. calls[c].on # {}  BY <2>0, <2>4 DEF LinkRules
    <3>2. calls'[c].op = "override" /\ calls'[c].on # {} /\ calls'[c].at \in {"unlink", "link"}
      <4>1. CASE calls[c].envs # {e}
        <5>1. Unlinked(calls[c], e) = [calls[c] EXCEPT !.envs = calls[c].envs \ {e}]
          BY <4>1 DEF Unlinked
        <5> QED  BY <2>1, <2>3, <2>4, <3>1, <5>1 DEF Call
      <4>2. CASE calls[c].envs = {e}
        <5>1. Unlinked(calls[c], e) = [calls[c] EXCEPT !.at = "link", !.envs = calls[c].on]
          BY <2>4, <3>1, <4>2 DEF Unlinked
        <5> QED  BY <2>1, <2>3, <2>4, <3>1, <5>1 DEF Call
      <4> QED  BY <4>1, <4>2
    <3>3. Links(c)'  BY <3>2 DEF Links
    <3>4. \A d \in Callers : calls[d].op # "remove"
      BY <1>7, <2>0, <2>4
    <3> QED  BY <2>0, <2>3, <3>2, <3>3, <3>4 DEF LinkRules
  <2>5. CASE calls[c].op = "remove"
    <3>1. project => linked \ calls[c].envs # {}  BY <2>0, <2>5 DEF LinkRules
    <3>2. project => linked' # {}  BY <2>2, <3>1
    <3>3. /\ calls'[c].op \in {"remove", "none"}
          /\ calls'[c].op = "remove" => calls'[c].envs = calls[c].envs \ {e}
      BY <2>1, <2>3, <2>5 DEF Unlinked, Call, Idle
    <3>4. calls'[c].op = "remove" /\ project' => linked' \ calls'[c].envs # {}
      BY <2>2, <2>3, <3>1, <3>3
    <3>5. \A d \in Callers \ {c} : calls[d].op \notin {"remove", "override"}
      BY <1>7, <2>0, <2>5
    <3> QED  BY <2>3, <3>2, <3>3, <3>4, <3>5 DEF LinkRules
  <2> QED  BY <2>1, <2>4, <2>5
<1>11. ASSUME NEW c \in Callers, Link(c) \/ Connect(c)  PROVE LinkInv'
  <2> SUFFICES ASSUME "environment" \notin disturbed'  PROVE LinkRules'
    BY DEF LinkInv
  <2>0. LinkRules /\ "environment" \notin disturbed  BY <1>m DEF LinkInv
  <2>1. calls[c] \in Call /\ calls[c].op \in {"override", "create", "none"}
    BY <1>t, <1>11 DEF Link, Connect, WellPlaced
  <2>2. PICK e \in calls[c].envs : linked' = IF project THEN linked \cup {e} ELSE linked
    BY <1>11 DEF Link, Connect
  <2>3. project' = project /\ (project => linked' # {}) /\ linked \subseteq linked'
    BY <1>11, <2>2 DEF Link, Connect
  <2>4. PICK call : /\ calls' = [calls EXCEPT ![c] = call]
                    /\ call.op # "remove"
                    /\ call.op = "override" => calls[c].op = "override" /\ call.on = calls[c].on
    <3>1. \A f : /\ Linked(calls[c], f).op # "remove"
                 /\ Linked(calls[c], f).op = "override" =>
                        calls[c].op = "override" /\ Linked(calls[c], f).on = calls[c].on
      BY <2>1 DEF Linked, Call, Idle
    <3>2. CASE Link(c)  BY <3>1, <3>2 DEF Link
    <3>3. CASE Connect(c)
      <4>1. calls[c].op \in {"create", "none"}  BY <1>t, <3>3 DEF Connect, WellPlaced
      <4>2. \A f : Connected(calls[c], f).op \in {"create", "none"}
        BY <2>1, <4>1 DEF Connected, Call, Idle
      <4> QED  BY <3>3, <4>2 DEF Connect
    <3> QED  BY <1>11, <3>2, <3>3
  <2>5. calls'[c] = call /\ \A d \in Callers \ {c} : calls'[d] = calls[d]  BY <1>t, <2>4
  <2> QED  BY <2>0, <2>3, <2>4, <2>5 DEF LinkRules
<1>12. ASSUME NEW c \in Callers, InsertProject(c) \/ ReadEnabled(c)  PROVE LinkInv'
  <2>1. calls[c].op = "create" /\ calls[c] \in Call
    BY <1>t, <1>12 DEF InsertProject, ReadEnabled, WellPlaced
  <2>2. CASE InsertProject(c) /\ project
    <3>1. ~Links(c)  BY <2>2 DEF InsertProject, Links
    <3> QED  BY <1>e, <2>2, <3>1 DEF InsertProject
  <2>3. ASSUME NEW label \in {"enabled", "connect"}, calls'[c].op = "create", calls'[c].at = label,
               \A d \in Callers \ {c} : calls'[d] = calls[d],
               linked' = linked, "environment" \notin disturbed'
        PROVE  LinkRules'
    <3>0. LinkRules /\ "environment" \notin disturbed  BY <1>m, <2>3 DEF LinkInv
    <3>1. Links(c)'  BY <2>3 DEF Links
    <3>2. \A d \in Callers : calls[d].op # "remove"
      BY <1>7, <2>1, <3>0
    <3> QED  BY <2>3, <3>0, <3>1, <3>2 DEF LinkRules
  <2>4. CASE InsertProject(c) /\ ~project
    <3> DEFINE call == [calls[c] EXCEPT !.at = "enabled"]
    <3>1. calls' = [calls EXCEPT ![c] = call] /\ call.op = "create" /\ call.at = "enabled"
      BY <2>1, <2>4 DEF InsertProject, Goto, Call
    <3>2. linked' = linked  BY <2>4 DEF InsertProject
    <3> HIDE DEF call
    <3> QED  BY <1>t, <2>3, <3>1, <3>2 DEF LinkInv
  <2>5. CASE ReadEnabled(c)
    <3>1. CASE enabled = {}  BY <2>5, <3>1 DEF ReadEnabled, LinkInv
    <3>2. CASE enabled # {}
      <4> DEFINE call == [calls[c] EXCEPT !.at = "connect", !.envs = enabled]
      <4>1. calls' = [calls EXCEPT ![c] = call]  BY <2>5, <3>2 DEF ReadEnabled
      <4>2. call.op = "create" /\ call.at = "connect"  BY <2>1 DEF Call
      <4>3. linked' = linked  BY <2>5 DEF ReadEnabled, tables
      <4> HIDE DEF call
      <4> QED  BY <1>t, <2>3, <4>1, <4>2, <4>3 DEF LinkInv
    <3> QED  BY <3>1, <3>2
  <2> QED  BY <1>12, <2>2, <2>4, <2>5
<1> QED
  BY <1>1, <1>2, <1>3, <1>4, <1>5, <1>6, <1>8, <1>9, <1>10, <1>11, <1>12
     DEF Next, EnvironmentStep

-----------------------------------------------------------------------------
(* A call that counted the owners removes no last one: what it counted is  *)
(* still so when it writes, unless something it crosses has been noted.    *)
Spared(c) ==
    \/ "owner" \in calls[c].add
    \/ calls[c].who \notin Owners
    \/ "owner" \in calls[c].keep
    \/ Owners \ {calls[c].who} # {}

OwnerRules ==
    \A c \in Callers :
        /\ calls[c].at = "roles" => ~project
        /\ calls[c].at = "groups" /\ project =>
               calls[c].count = Cardinality(Owners \cap Users)
        /\ calls[c].at = "write" /\ project => Spared(c)

OwnerInv == "owner" \notin disturbed => OwnerRules

(* Two owners counted are two owners.                                      *)
LEMMA TwoOwners ==
    ASSUME NEW counted \in SUBSET (Owners \cap Groups), NEW h,
           Cardinality(Owners \cap Users) + Cardinality(counted) >= 2
    PROVE  Owners \ {h} # {}
<1> SUFFICES ASSUME Owners \ {h} = {}  PROVE FALSE  OBVIOUS
<1>1. Owners \cap Users = {} \/ Owners \cap Users = {h}  OBVIOUS
<1>2. counted = {} \/ counted = {h}  OBVIOUS
<1>3. ~(Owners \cap Users = {h} /\ counted = {h})  BY HoldersAssumption
<1>4. Cardinality({}) = 0 /\ Cardinality({h}) = 1  BY FS_EmptySet, FS_Singleton
<1> QED  BY <1>1, <1>2, <1>3, <1>4

(* Steps that leave the owners alone and bring no project.                 *)
LEMMA OwnersRest ==
    ASSUME Typed, OwnerInv, disturbed \subseteq disturbed', project' => project,
           "owner" \notin disturbed' /\ project' => Owners' = Owners,
           \A c \in Callers :
               \/ calls'[c] = calls[c]
               \/ calls'[c].at \notin {"roles", "groups", "write"}
    PROVE  OwnerInv'
BY DEF OwnerInv, OwnerRules, Spared

LEMMA OwnerStep ==
    ASSUME Typed, Apart, OwnerInv, Next
    PROVE  /\ OwnerInv'
           /\ project /\ project' /\ Owners # {} /\ Owners' = {} => "owner" \in disturbed'
<1> DEFINE Goal == /\ OwnerInv'
                   /\ project /\ project' /\ Owners # {} /\ Owners' = {} => "owner" \in disturbed'
<1>t. /\ calls \in [Callers -> Call] /\ project \in BOOLEAN
      /\ holders \in [Holders -> SUBSET Roles]
      /\ \A c \in Callers : WellPlaced(calls[c])
  BY TypedIs DEF TablesTyped, Placed
<1>m. disturbed \subseteq disturbed'  BY CallsGoOn
<1>h. ASSUME holders' = holders  PROVE Owners' = Owners  BY <1>h DEF Owners
<1>r. ASSUME UNCHANGED <<calls, holders>>, project' => project  PROVE Goal
  <2>1. Owners' = Owners  BY <1>h, <1>r
  <2> QED  BY <1>m, <1>r, <2>1, OwnersRest
<1>a. ASSUME NEW c \in Callers, NEW call, calls' = [calls EXCEPT ![c] = call],
             holders' = holders, project' => project,
             call.at \notin {"roles", "groups", "write"}
      PROVE  Goal
  <2>1. Owners' = Owners  BY <1>h, <1>a
  <2>2. calls'[c] = call /\ \A d \in Callers \ {c} : calls'[d] = calls[d]  BY <1>t, <1>a
  <2> QED  BY <1>a, <1>m, <2>1, <2>2, OwnersRest
<1>e. ASSUME NEW c \in Callers, End(c), holders' = holders, project' => project  PROVE Goal
  <2>1. calls' = [calls EXCEPT ![c] = Idle] /\ Idle.at = "idle"  BY <1>e DEF End, Idle
  <2> QED  BY <1>a, <1>e, <2>1
<1>x. ASSUME NEW c \in Callers, NEW d \in Callers, c # d, "owner" \notin disturbed,
             calls[c].op = "lose"
      PROVE  calls[d].op \notin {"lose", "create"}
  <2>1. /\ {calls[c].op, "lose"} = {"lose"}
        /\ {calls[c].op, "create"} = {"lose", "create"}
    BY <1>x
  <2> QED  BY <1>x, <2>1 DEF Apart, CrossOwner
<1>1. ASSUME NEW h \in Holders, HolderDeleted(h)  PROVE Goal
  <2>1. UNCHANGED <<project, calls>>  BY <1>1 DEF HolderDeleted
  <2>2. CASE h \in Owners
    <3>1. "owner" \in disturbed'  BY <1>1, <2>2 DEF HolderDeleted
    <3> QED  BY <3>1 DEF OwnerInv
  <2>3. CASE h \notin Owners
    <3>1. Owners' = Owners  BY <1>1, <1>t, <2>3 DEF HolderDeleted, Owners
    <3> QED  BY <1>m, <2>1, <3>1, OwnersRest
  <2> QED  BY <2>2, <2>3
<1>2. ASSUME NEW h \in Holders, NEW role \in Roles, Grant(h, role)  PROVE Goal
  <2>1. UNCHANGED <<project, calls>> /\ Owners \subseteq Owners'
    BY <1>2, <1>t DEF Grant, Owners
  <2>2. CASE "owner" \in disturbed'  BY <2>1, <2>2 DEF OwnerInv
  <2>3. CASE "owner" \notin disturbed'
    <3>1. \A c \in Callers : {"grant", calls[c].op} \notin CrossOwner
      BY <1>2, <2>3 DEF Grant
    <3>2. \A c \in Callers : calls[c].op # "lose"
      <4> SUFFICES ASSUME NEW c \in Callers, calls[c].op = "lose"  PROVE FALSE  OBVIOUS
      <4>1. {"grant", calls[c].op} = {"lose", "grant"}  OBVIOUS
      <4> QED  BY <3>1, <4>1 DEF CrossOwner
    <3>3. \A c \in Callers : calls[c].at \notin {"groups", "write"}
      BY <1>t, <3>2 DEF WellPlaced
    <3> QED  BY <1>m, <2>1, <2>3, <3>3 DEF OwnerInv, OwnerRules
  <2> QED  BY <2>2, <2>3
<1>3. ASSUME NEW c \in Callers, StartLoss(c)  PROVE Goal
  <2>1. PICK h \in Holders, loss \in Losses :
            Begin(c, [Idle EXCEPT !.op = "lose", !.who = h, !.keep = loss.keep, !.add = loss.add,
                                  !.at = IF MustCount(h, loss) THEN "users" ELSE "write"])
    BY <1>3 DEF StartLoss, BeginCrossing
  <2> DEFINE call == [Idle EXCEPT !.op = "lose", !.who = h, !.keep = loss.keep, !.add = loss.add,
                                  !.at = IF MustCount(h, loss) THEN "users" ELSE "write"]
  <2>2. calls' = [calls EXCEPT ![c] = call] /\ UNCHANGED <<project, holders>>
    BY <2>1 DEF Begin, tables
  <2>3. CASE MustCount(h, loss)
    <3>1. call.at = "users"  BY <2>3 DEF Idle
    <3> HIDE DEF call
    <3> QED  BY <1>a, <2>2, <3>1
  <2>4. CASE ~MustCount(h, loss)
    <3>1. /\ call.at = "write" /\ call.who = h
          /\ call.keep = loss.keep /\ call.add = loss.add
      BY <2>4 DEF Idle
    <3>2. "owner" \in loss.add \/ h \notin Owners \/ "owner" \in loss.keep
      BY <2>4 DEF MustCount, Owners
    <3> HIDE DEF call
    <3>3. calls'[c] = call /\ \A d \in Callers \ {c} : calls'[d] = calls[d]
      BY <1>t, <2>2
    <3>4. Owners' = Owners  BY <1>h, <2>2
    <3>5. Spared(c)'  BY <3>1, <3>2, <3>3, <3>4 DEF Spared
    <3>6. \A d \in Callers \ {c} : Spared(d)' = Spared(d)  BY <3>3, <3>4 DEF Spared
    <3> QED  BY <1>m, <2>2, <3>1, <3>3, <3>4, <3>5, <3>6 DEF OwnerInv, OwnerRules
  <2> QED  BY <2>3, <2>4
<1>4. ASSUME NEW c \in Callers, CountUsers(c)  PROVE Goal
  <2> DEFINE call == [calls[c] EXCEPT !.at = "groups", !.count = Cardinality(Owners \cap Users)]
  <2>1. /\ calls' = [calls EXCEPT ![c] = call] /\ UNCHANGED <<project, holders>>
        /\ call.at = "groups" /\ call.count = Cardinality(Owners \cap Users)
    BY <1>4, <1>t DEF CountUsers, tables, Call
  <2> HIDE DEF call
  <2>2. calls'[c] = call /\ \A d \in Callers \ {c} : calls'[d] = calls[d]  BY <1>t, <2>1
  <2>3. Owners' = Owners  BY <1>h, <2>1
  <2>4. \A d \in Callers \ {c} : Spared(d)' = Spared(d)  BY <2>2, <2>3 DEF Spared
  <2> QED  BY <1>m, <2>1, <2>2, <2>3, <2>4 DEF OwnerInv, OwnerRules
<1>5. ASSUME NEW c \in Callers, CountGroups(c)  PROVE Goal
  <2>1. UNCHANGED <<project, holders>>  BY <1>5 DEF CountGroups, tables
  <2>2. CASE End(c)  BY <1>e, <2>1, <2>2
  <2>3. CASE ~End(c)
    <3> DEFINE call == [calls[c] EXCEPT !.at = "write", !.count = 0]
    <3>1. /\ calls' = [calls EXCEPT ![c] = call]
          /\ call.at = "write" /\ call.who = calls[c].who
      BY <1>5, <1>t, <2>3 DEF CountGroups, Call
    <3> HIDE DEF call
    <3>2. calls'[c] = call /\ \A d \in Callers \ {c} : calls'[d] = calls[d]  BY <1>t, <3>1
    <3>3. Owners' = Owners  BY <1>h, <2>1
    <3>4. \A d \in Callers \ {c} : Spared(d)' = Spared(d)  BY <3>2, <3>3 DEF Spared
    <3>5. ASSUME "owner" \notin disturbed, project  PROVE Spared(c)'
      <4>1. calls[c].at = "groups"  BY <1>5 DEF CountGroups
      <4>2. calls[c].count = Cardinality(Owners \cap Users)
        BY <3>5, <4>1 DEF OwnerInv, OwnerRules
      <4>3. PICK counted \in SUBSET (Owners \cap Groups) :
                ~(calls[c].count + Cardinality(counted) < 2)
        BY <1>5, <2>3 DEF CountGroups
      <4>4. Cardinality(Owners \cap Users) \in Nat /\ Cardinality(counted) \in Nat
        <5>1. IsFiniteSet(Owners \cap Users) /\ IsFiniteSet(counted)
          BY HoldersAssumption, FS_Subset
        <5> QED  BY <5>1, FS_CardinalityType
      <4>5. Cardinality(Owners \cap Users) + Cardinality(counted) >= 2  BY <4>2, <4>3, <4>4
      <4>6. Owners \ {calls[c].who} # {}  BY <4>5, TwoOwners
      <4> QED  BY <3>1, <3>2, <3>3, <4>6 DEF Spared
    <3> QED  BY <1>m, <2>1, <3>1, <3>2, <3>3, <3>4, <3>5 DEF OwnerInv, OwnerRules
  <2> QED  BY <2>2, <2>3
<1>6. ASSUME NEW c \in Callers, WriteRoles(c)  PROVE Goal
  <2> DEFINE h == calls[c].who
  <2>1. /\ calls[c].op = "lose" /\ calls[c].at = "write" /\ End(c) /\ project' = project
    BY <1>6, <1>t DEF WriteRoles, WellPlaced
  <2>2. CASE holders' = holders  BY <1>e, <2>1, <2>2
  <2>3. CASE holders' = [holders EXCEPT ![h] = (@ \cap calls[c].keep) \cup calls[c].add]
    <3>1. CASE "owner" \in disturbed'  BY <3>1 DEF OwnerInv
    <3>2. CASE "owner" \notin disturbed'
      <4>1. "owner" \notin disturbed  BY <1>m, <3>2
      <4>2. calls'[c].at = "idle" /\ \A d \in Callers \ {c} : calls'[d] = calls[d]
        BY <1>t, <2>1 DEF End, Idle
      <4>3. \A d \in Callers : calls'[d].at \notin {"groups", "write"}
        BY <1>t, <1>x, <2>1, <4>1, <4>2 DEF WellPlaced
      <4>4. OwnerInv'  BY <2>1, <4>1, <4>2, <4>3 DEF OwnerInv, OwnerRules
      <4>5. ASSUME project, Owners # {}  PROVE Owners' # {}
        <5>1. Spared(c)  BY <2>1, <4>1, <4>5 DEF OwnerInv, OwnerRules
        <5>2. \A g \in Owners : g # h => g \in Owners'  BY <1>t, <2>3 DEF Owners
        <5>3. CASE h \notin Owners  BY <4>5, <5>2, <5>3
        <5>4. CASE Owners \ {h} # {}  BY <5>2, <5>4
        <5>5. CASE h \in Owners /\ ("owner" \in calls[c].add \/ "owner" \in calls[c].keep)
          <6>1. h \in Owners'  BY <1>t, <2>3, <5>5 DEF Owners
          <6> QED  BY <6>1
        <5> QED  BY <5>1, <5>3, <5>4, <5>5 DEF Spared
      <4> QED  BY <4>4, <4>5
    <3> QED  BY <3>1, <3>2
  <2> QED  BY <1>6, <2>2, <2>3 DEF WriteRoles
<1>7. ASSUME NEW e \in Environments, ToggleEnvironment(e) \/ AddEnvironment(e)  PROVE Goal
  BY <1>r, <1>7 DEF ToggleEnvironment, AddEnvironment
<1>8. ASSUME NEW c \in Callers, StartRemove(c) \/ StartOverride(c)  PROVE Goal
  <2>1. PICK call : Begin(c, call) /\ call.at \in {"unlink", "disable"}
    <3>1. CASE StartRemove(c)
      <4>1. PICK e \in Environments :
                Begin(c, [Idle EXCEPT !.op = "remove", !.at = "unlink", !.envs = {e}])
        BY <3>1 DEF StartRemove, BeginCrossing
      <4>2. [Idle EXCEPT !.op = "remove", !.at = "unlink", !.envs = {e}].at = "unlink"
        BY DEF Idle
      <4> QED  BY <4>1, <4>2
    <3>2. CASE StartOverride(c)
      <4>1. PICK names \in (SUBSET Environments) \ {{}} :
                Begin(c, [Idle EXCEPT !.op = "override", !.at = "disable",
                                      !.off = enabled \ names, !.on = names \ enabled])
        BY <3>2 DEF StartOverride
      <4>2. [Idle EXCEPT !.op = "override", !.at = "disable",
                    !.off = enabled \ names, !.on = names \ enabled].at = "disable"
        BY DEF Idle
      <4> QED  BY <4>1, <4>2
    <3> QED  BY <1>8, <3>1, <3>2
  <2> QED  BY <1>a, <2>1 DEF Begin, tables
<1>9. ASSUME NEW c \in Callers, Disable(c) \/ Enable(c) \/ FindLinks(c)  PROVE Goal
  <2>1. UNCHANGED <<project, holders>>  BY <1>9 DEF Disable, Enable, FindLinks, tables
  <2>2. CASE End(c)  BY <1>e, <2>1, <2>2
  <2>3. CASE ~End(c)
    <3>1. \/ calls' = [calls EXCEPT ![c] = [@ EXCEPT !.at = "enable"]]
          \/ calls' = [calls EXCEPT ![c] = [@ EXCEPT !.at = "links"]]
          \/ calls' = [calls EXCEPT ![c] =
                           [@ EXCEPT !.at = "unlink", !.envs = calls[c].off \cap linked]]
      BY <1>9, <2>3 DEF Disable, Enable, FindLinks, Goto
    <3>2. /\ [calls[c] EXCEPT !.at = "enable"].at = "enable"
          /\ [calls[c] EXCEPT !.at = "links"].at = "links"
          /\ [calls[c] EXCEPT !.at = "unlink", !.envs = calls[c].off \cap linked].at = "unlink"
      BY <1>t DEF Call
    <3>3. PICK call : /\ calls' = [calls EXCEPT ![c] = call]
                      /\ call.at \in {"enable", "links", "unlink"}
      BY <3>1, <3>2
    <3> QED  BY <1>a, <2>1, <3>3
  <2> QED  BY <2>2, <2>3
<1>10. ASSUME NEW c \in Callers, Unlink(c) \/ Link(c) \/ Connect(c)  PROVE Goal
  <2>1. UNCHANGED <<project, holders>> /\ calls[c] \in Call
    BY <1>10, <1>t DEF Unlink, Link, Connect
  <2>2. PICK call : /\ calls' = [calls EXCEPT ![c] = call]
                    /\ call.at \in {"unlink", "link", "connect", "owner", "idle"}
    <3>1. CASE Unlink(c)
      <4>1. \A e : Unlinked(calls[c], e).at \in {"unlink", "link", "idle"}
        BY <2>1, <3>1 DEF Unlink, Unlinked, Call, Idle
      <4> QED  BY <3>1, <4>1 DEF Unlink
    <3>2. CASE Link(c)
      <4>1. \A e : Linked(calls[c], e).at \in {"link", "idle"}
        BY <2>1, <3>2 DEF Link, Linked, Call, Idle
      <4> QED  BY <3>2, <4>1 DEF Link
    <3>3. CASE Connect(c)
      <4>1. \A e : Connected(calls[c], e).at \in {"connect", "owner", "idle"}
        BY <2>1, <3>3 DEF Connect, Connected, Call, Idle
      <4> QED  BY <3>3, <4>1 DEF Connect
    <3> QED  BY <1>10, <3>1, <3>2, <3>3
  <2> QED  BY <1>a, <2>1, <2>2
<1>11. ASSUME NEW c \in Callers, StartCreate(c) \/ StartDelete(c) \/ StartFeature(c)  PROVE Goal
  <2>1. PICK call : Begin(c, call) /\ call.at \in {"insert", "archived"}
    <3>1. CASE StartCreate(c)
      <4>1. PICK creator \in Users \cup {"nobody"} :
                Begin(c, [Idle EXCEPT !.op = "create", !.at = "insert", !.who = creator])
        BY <3>1 DEF StartCreate, BeginCrossing
      <4>2. [Idle EXCEPT !.op = "create", !.at = "insert", !.who = creator].at = "insert"
        BY DEF Idle
      <4> QED  BY <4>1, <4>2
    <3>2. CASE StartDelete(c)
      <4>1. Begin(c, [Idle EXCEPT !.op = "delete", !.at = "archived"])
        BY <3>2 DEF StartDelete, BeginCrossing
      <4>2. [Idle EXCEPT !.op = "delete", !.at = "archived"].at = "archived"
        BY DEF Idle
      <4> QED  BY <4>1, <4>2
    <3>3. CASE StartFeature(c)
      <4>1. PICK f \in Features :
                Begin(c, [Idle EXCEPT !.op = "feature", !.at = "insert", !.feature = f])
        BY <3>3 DEF StartFeature, BeginCrossing
      <4>2. [Idle EXCEPT !.op = "feature", !.at = "insert", !.feature = f].at = "insert"
        BY DEF Idle
      <4> QED  BY <4>1, <4>2
    <3> QED  BY <1>11, <3>1, <3>2, <3>3
  <2> QED  BY <1>a, <2>1 DEF Begin, tables
<1>12. ASSUME NEW c \in Callers, InsertProject(c)  PROVE Goal
  <2>1. calls[c].op = "create" /\ holders' = holders /\ disturbed' = disturbed
    BY <1>12 DEF InsertProject
  <2>2. CASE project
    BY <1>12, <1>e, <2>1, <2>2 DEF InsertProject
  <2>3. CASE ~project
    <3>1. calls'[c].at = "enabled" /\ \A d \in Callers \ {c} : calls'[d] = calls[d]
      BY <1>12, <1>t, <2>3 DEF InsertProject, Goto, Call
    <3>2. ASSUME NEW d \in Callers \ {c}, "owner" \notin disturbed
          PROVE  calls[d].op \notin {"lose", "delete"}
      <4>1. /\ {calls[c].op, "lose"} = {"lose", "create"}
            /\ {calls[c].op, "delete"} = {"create", "delete"}
        BY <2>1
      <4> QED  BY <3>2, <4>1 DEF Apart, CrossOwner
    <3>3. ASSUME "owner" \notin disturbed, NEW d \in Callers
          PROVE  calls'[d].at \notin {"roles", "groups", "write"}
      BY <1>t, <3>1, <3>2, <3>3 DEF WellPlaced
    <3> QED  BY <2>1, <2>3, <3>3 DEF OwnerInv, OwnerRules
  <2> QED  BY <1>t, <2>2, <2>3
<1>13. ASSUME NEW c \in Callers, ReadEnabled(c)  PROVE Goal
  <2> DEFINE call == [calls[c] EXCEPT !.at = IF enabled = {} THEN "owner" ELSE "connect",
                                      !.envs = enabled]
  <2>1. /\ calls' = [calls EXCEPT ![c] = call] /\ call.at \in {"owner", "connect"}
        /\ UNCHANGED <<project, holders>>
    BY <1>13, <1>t DEF ReadEnabled, Call, tables
  <2> HIDE DEF call
  <2> QED  BY <1>a, <2>1
<1>14. ASSUME NEW c \in Callers, MakeOwner(c)  PROVE Goal
  <2>1. /\ calls[c].op = "create" /\ End(c) /\ project' = project /\ disturbed' = disturbed
        /\ Owners \subseteq Owners'
    BY <1>14, <1>t DEF MakeOwner, WellPlaced, Owners
  <2>2. calls'[c].at = "idle" /\ \A d \in Callers \ {c} : calls'[d] = calls[d]
    BY <1>t, <2>1 DEF End, Idle
  <2>3. ASSUME "owner" \notin disturbed, NEW d \in Callers
        PROVE  calls'[d].at \notin {"groups", "write"}
    <3>1. CASE d = c  BY <2>2, <3>1
    <3>2. CASE d # c
      <4>1. {calls[c].op, "lose"} = {"lose", "create"}  BY <2>1
      <4>2. calls[d].op # "lose"  BY <2>3, <3>2, <4>1 DEF Apart, CrossOwner
      <4> QED  BY <1>t, <2>2, <3>2, <4>2 DEF WellPlaced
    <3> QED  BY <3>1, <3>2
  <2> QED  BY <2>1, <2>2, <2>3 DEF OwnerInv, OwnerRules
<1>15. ASSUME NEW c \in Callers, ListArchived(c)  PROVE Goal
  <2> DEFINE call == [calls[c] EXCEPT !.at = "row"]
  <2>1. calls' = [calls EXCEPT ![c] = call] /\ call.at = "row" /\ UNCHANGED <<project, holders>>
    BY <1>15, <1>t DEF ListArchived, Goto, Call, tables
  <2> HIDE DEF call
  <2> QED  BY <1>a, <2>1
<1>16. ASSUME NEW c \in Callers, DeleteProject(c)  PROVE Goal
  BY <1>16 DEF DeleteProject, OwnerInv, OwnerRules
<1>17. ASSUME NEW c \in Callers, RemoveRoles(c)  PROVE Goal
  <2>1. /\ calls[c].at = "roles" /\ project' = project /\ disturbed' = disturbed
    BY <1>17 DEF RemoveRoles
  <2>2. "owner" \notin disturbed => ~project  BY <2>1 DEF OwnerInv, OwnerRules
  <2> QED  BY <2>1, <2>2 DEF OwnerInv, OwnerRules
<1>18. ASSUME NEW c \in Callers, SweepReads(c) \/ SweepDeletes(c)  PROVE Goal
  BY <1>r, <1>18 DEF SweepReads, SweepDeletes, tables
<1>19. ASSUME NEW c \in Callers, SweepFails(c) \/ InsertFeature(c) \/ CutShort(c)  PROVE Goal
  BY <1>e, <1>19 DEF SweepFails, InsertFeature, CutShort, tables
<1>20. ASSUME NEW f \in Features, Leave(f) \/ Revive(f)  PROVE Goal
  BY <1>r, <1>20 DEF Leave, Revive
<1> QED
  BY <1>1, <1>2, <1>3, <1>4, <1>5, <1>6, <1>7, <1>8, <1>9, <1>10, <1>11, <1>12, <1>13, <1>14,
     <1>15, <1>16, <1>17, <1>18, <1>19, <1>20
     DEF Next, AccessStep, EnvironmentStep

-----------------------------------------------------------------------------
(* The inductive invariant: what may go wrong has been noted, or has not   *)
(* happened.                                                               *)
Inv == Typed /\ Apart /\ FeatureInv /\ LinkInv /\ OwnerInv

LEMMA Initially == Init => Inv
<1> SUFFICES ASSUME Init  PROVE Inv  OBVIOUS
<1>1. Typed  BY TypedInitially
<1>2. \A c \in Callers : calls[c] = Idle /\ sweeps[c] = NoSweep  BY DEF Init
<1>3. Idle.op = "none" /\ Idle.at = "idle"  BY DEF Idle
<1>4. Apart  BY <1>2, <1>3 DEF Apart, CrossOwner, CrossEnvironment, CrossFeature
<1>5. FeatureInv  BY <1>2, <1>3 DEF Init, FeatureInv, FeatureRules, Kept
<1>6. LinkInv  BY <1>2, <1>3 DEF Init, LinkInv, LinkRules
<1>7. OwnerInv  BY <1>2, <1>3 DEF Init, OwnerInv, OwnerRules
<1> QED  BY <1>1, <1>4, <1>5, <1>6, <1>7 DEF Inv

LEMMA Unmoved == Inv /\ UNCHANGED vars => Inv'
<1> SUFFICES ASSUME Inv, UNCHANGED vars  PROVE Inv'  OBVIOUS
<1>1. Typed'  BY TypedStep DEF Inv
<1>2. Apart'  BY DEF Inv, vars, Apart
<1>3. FeatureInv'  BY DEF Inv, vars, FeatureInv, FeatureRules, Kept
<1>4. LinkInv'  BY DEF Inv, vars, LinkInv, LinkRules, Links
<1>5. OwnerInv'
  <2>1. Owners' = Owners  BY DEF vars, Owners
  <2> QED  BY <2>1 DEF Inv, vars, OwnerInv, OwnerRules, Spared
<1> QED  BY <1>1, <1>2, <1>3, <1>4, <1>5 DEF Inv

LEMMA Inductive == Inv /\ [Next]_vars => Inv'
<1> SUFFICES ASSUME Inv, [Next]_vars  PROVE Inv'  OBVIOUS
<1>1. CASE Next
  BY <1>1, TypedStep, ApartStep, FeatureStep, LinkStep, OwnerStep DEF Inv
<1>2. CASE UNCHANGED vars  BY <1>2, Unmoved
<1> QED  BY <1>1, <1>2

(* Everything the other theorems use holds of every behaviour of the       *)
(* project's tables, however many calls overlap.                           *)
THEOREM ProjectRulesInvariant == Spec => []Inv
BY Initially, Inductive, PTL DEF Spec

(* deleteProject leaves no feature behind that its sweep will not delete,  *)
(* but for what was noted.                                                 *)
THEOREM DeletedProjectsLeaveNoFeature == Spec => []FeaturesHaveProject
<1>1. Inv => FeaturesHaveProject
  <2> SUFFICES ASSUME FeatureInv  PROVE FeaturesHaveProject  BY DEF Inv
  <2> QED  BY DEF FeatureInv, FeatureRules, FeaturesHaveProject
<1> QED  BY <1>1, ProjectRulesInvariant, PTL

(* A project keeps an environment: removeEnvironmentFromProject never takes*)
(* the last one, nor does an override that links others.                   *)
THEOREM ProjectsKeepAnEnvironment == Spec => []HasEnvironment
<1>1. Inv => HasEnvironment
  <2> SUFFICES ASSUME LinkInv, Placed, project, linked = {}, "environment" \notin disturbed
               PROVE  \E c \in Callers : calls[c].op \in {"create", "override"}
    BY DEF Inv, Typed, HasEnvironment
  <2>1. PICK c \in Callers : Links(c)  BY DEF LinkInv, LinkRules
  <2> QED  BY <2>1 DEF Links
<1> QED  BY <1>1, ProjectRulesInvariant, PTL

(* validateAtLeastOneOwner keeps the last owner, whichever of the calls    *)
(* takes roles away, and whoever holds them.                               *)
THEOREM ProjectsKeepTheirLastOwner == Spec => LastOwnerStays
<1>1. Inv /\ [Next]_vars =>
          [project /\ project' /\ Owners # {} /\ Owners' = {} => "owner" \in disturbed']_vars
  <2> SUFFICES ASSUME Inv, Next
               PROVE  project /\ project' /\ Owners # {} /\ Owners' = {}
                          => "owner" \in disturbed'
    OBVIOUS
  <2> QED  BY OwnerStep DEF Inv
<1> QED  BY <1>1, ProjectRulesInvariant, PTL DEF Spec, LastOwnerStays
=============================================================================
