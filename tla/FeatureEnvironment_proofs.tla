----------------------- MODULE FeatureEnvironment_proofs -----------------------
(***************************************************************************)
(* For any strategies and callers: an enabled feature is left without a    *)
(* strategy that is on, and the last event about its status is wrong, only *)
(* if calls crossed or were cut short.                                     *)
(*                                                                         *)
(* Neither is inductive, because a call makes good at one label what it    *)
(* has done at another.  The invariant says of every label what the call   *)
(* there may still rely on and what it still owes: a feature that has      *)
(* lapsed, unless it is archived and a deletion was refused, is in the     *)
(* hands of a deletion that is about to disable it, and a row that no      *)
(* event has told yet is in the hands of a call about to tell.             *)
(***************************************************************************)
EXTENDS FeatureEnvironment, TLAPS

Call == [op : Operations \cup {"none"}, at : Labels \cup {"idle"}, to : BOOLEAN,
         activate : BOOLEAN, ids : SUBSET Strategies, status : Statuses, changed : BOOLEAN]

(* The labels each operation passes, and what it carries there.            *)
Shaped(call) ==
    /\ call.op = "none" => call = Idle
    /\ call.op = "enable" => call.at \in {"row", "live", "list", "activate", "check",
                                          "default", "insert", "set", "tell"}
    /\ call.op = "disable" => call.at \in {"row", "live", "set", "tell"}
    /\ call.op = "create" => call.at = "insert"
    /\ call.op = "delete" => call.at \in {"remove", "left", "row", "live", "set", "tell",
                                          "count", "sweep"}
    /\ call.op = "update" => call.at \in {"write", "check", "row", "live", "set", "commit"}
    /\ call.op = "parameter" => call.at = "patch"
    /\ call.to => call.op = "enable"
    /\ call.op = "enable" /\ call.at \in {"list", "activate", "default", "insert"} => call.to
    /\ call.changed => call.op = "update" /\ call.at = "commit"
    /\ call.op \in {"create", "update", "parameter"} => call.status # "none"
    /\ call.op = "enable" /\ call.at = "insert" => call.status # "none"
    /\ call.at = "activate" => call.ids # {}

CallsOK == TypeOK /\ \A c \in Callers : Shaped(calls[c])

(* Calls that form a pair that crosses have been noted.                    *)
Apart ==
    \A c, d \in Callers : c # d =>
        /\ {calls[c].op, calls[d].op} \in CrossStatus => "status" \in disturbed
        /\ {calls[c].op, calls[d].op} \in CrossEvents => "event" \in disturbed

(* A feature that has lapsed, archived or not; an archived one that a      *)
(* deletion was refused to disable; a deletion that will still disable it. *)
Lapsed == connected /\ enabled /\ NoneOn(strategies)
Refused == archived /\ "refused" \in disturbed
Owes(call) == call.op = "delete" /\ call.at \in {"left", "row", "live", "set"}

(* What a call may rely on while nothing crosses: what enabling has seen   *)
(* on stays on, the update that leaves nothing on disables the feature,    *)
(* and a strategy is still as updateStrategyParameter read it.             *)
CallStatus(call) ==
    /\ call.op = "enable" /\ call.at \in {"row", "live", "set", "tell"} => call.to
    /\ call.op = "enable" /\ call.at \in {"check", "set"} => ~NoneOn(strategies)
    /\ call.op = "enable" /\ call.at = "insert" => call.status = "on"
    /\ call.op = "update" /\ call.at = "commit" /\ ~call.changed
           /\ connected /\ enabled => ~NoneOn(Seen(call))
    /\ call.op = "parameter" => \A s \in call.ids : strategies[s] \in {"none", call.status}

(* No pair has crossed, and no default strategy is disabled.               *)
Orderly == "status" \notin disturbed /\ "off" \notin Defaults

StatusInv ==
    Orderly =>
        /\ Lapsed => Refused \/ \E c \in Callers : Owes(calls[c])
        /\ \A c \in Callers : CallStatus(calls[c])

(* A call tells what the row says, and the sweep of a deletion finds the   *)
(* feature disabled.                                                       *)
CallEvent(call) ==
    /\ call.at = "tell" => enabled = call.to
    /\ call.op = "delete" /\ call.at = "count" => Present # {} \/ ~enabled
    /\ call.op = "delete" /\ call.at = "sweep" => ~enabled

EventInv ==
    "event" \notin disturbed =>
        /\ Telling \/ announced = enabled
        /\ \A c \in Callers : CallEvent(calls[c])

Inv == CallsOK /\ Apart /\ StatusInv /\ EventInv

-----------------------------------------------------------------------------
LEMMA IdleCall == Idle \in Call /\ Shaped(Idle)
BY DEF Idle, Call, Shaped, Operations, Labels, Statuses

(* What a call carries wherever it is.                                     *)
Carries(call) ==
    /\ call.to => call.op = "enable"
    /\ call.changed => call.op = "update"
    /\ call.op = "update" => call.status # "none"

(* Where a call goes on is a place of its own operation.                   *)
LEMMA ResumedCall ==
    ASSUME NEW call \in Call, Carries(call)
    PROVE  /\ Resumed(call) \in Call /\ Shaped(Resumed(call))
           /\ Resumed(call).op \in {call.op, "none"}
<1>1. CASE call.op = "enable" /\ call.ids # {}
  BY <1>1 DEF Resumed, Carries, Call, Shaped, Operations, Labels, Statuses
<1>2. CASE call.op = "enable" /\ call.ids = {} /\ call.activate
  BY <1>2 DEF Resumed, Carries, Call, Shaped, Operations, Labels, Statuses
<1>3. CASE call.op = "update"
  BY <1>3 DEF Resumed, Carries, Call, Shaped, Operations, Labels, Statuses
<1>4. CASE call.op = "delete"
  BY <1>4 DEF Resumed, Carries, Call, Shaped, Operations, Labels, Statuses
<1>5. CASE /\ call.op \notin {"update", "delete"}
           /\ call.op = "enable" => call.ids = {} /\ ~call.activate
  <2>1. Resumed(call) = Idle  BY <1>5 DEF Resumed
  <2> QED BY <2>1, IdleCall DEF Idle
<1> QED BY <1>1, <1>2, <1>3, <1>4, <1>5

(* Resumed, field by field.                                                *)
LEMMA ResumedFields ==
    ASSUME NEW call \in Call
    PROVE  /\ call.op = "enable" =>
                  \/ Resumed(call) = Idle
                  \/ /\ Resumed(call).op = "enable" /\ Resumed(call).to
                     /\ Resumed(call).at \in {"set", "activate"}
                     /\ ~call.activate => Resumed(call).at = "activate"
           /\ call.op = "update" =>
                  /\ Resumed(call).op = "update" /\ Resumed(call).at = "commit"
                  /\ Resumed(call).ids = call.ids /\ Resumed(call).status = call.status
                  /\ Resumed(call).changed = call.changed
           /\ call.op = "delete" => Resumed(call).op = "delete" /\ Resumed(call).at = "count"
           /\ call.op \notin {"enable", "update", "delete"} => Resumed(call) = Idle
BY DEF Resumed, Call

(* A throw ends the call, or lets the other updates of enabling go on.     *)
LEMMA ThrownCall ==
    ASSUME NEW call \in Call, Carries(call)
    PROVE  /\ Thrown(call) \in Call /\ Shaped(Thrown(call))
           /\ \/ Thrown(call) = Idle
              \/ /\ call.op = "enable" /\ Thrown(call).op = "enable"
                 /\ Thrown(call).at = "activate"
<1>1. CASE call.op = "enable" /\ ~call.to
  <2> DEFINE rejected == [call EXCEPT !.activate = FALSE]
  <2>1. /\ rejected \in Call /\ rejected.op = "enable" /\ ~rejected.activate
        /\ Carries(rejected)
    BY <1>1 DEF Call, Carries
  <2>2. Thrown(call) = Resumed(rejected)  BY <1>1 DEF Thrown
  <2> HIDE DEF rejected
  <2> QED BY <1>1, <2>1, <2>2, ResumedCall, ResumedFields
<1>2. CASE ~(call.op = "enable" /\ ~call.to)
  <2>1. Thrown(call) = Idle  BY <1>2 DEF Thrown
  <2> QED BY <2>1, IdleCall
<1> QED BY <1>1, <1>2

(* One caller's call changes, to one of the same operation or to none.     *)
Moved(c) ==
    /\ calls' \in [Callers -> Call]
    /\ calls'[c].op \in {calls[c].op, "none"}
    /\ \A d \in Callers \ {c} : calls'[d] = calls[d]

LEMMA CallTypes ==
    ASSUME CallsOK
    PROVE  calls \in [Callers -> Call]
BY DEF CallsOK, TypeOK, Call

LEMMA MoveTo ==
    ASSUME CallsOK, NEW c \in Callers, NEW call \in Call, call.op \in {calls[c].op, "none"},
           calls' = [calls EXCEPT ![c] = call]
    PROVE  Moved(c) /\ calls'[c] = call
BY CallTypes DEF Moved

LEMMA EndMoves ==
    ASSUME CallsOK, NEW c \in Callers, End(c)
    PROVE  Moved(c) /\ calls'[c] = Idle
BY MoveTo, IdleCall DEF End, Idle

LEMMA ThrownMoves ==
    ASSUME CallsOK, NEW c \in Callers, NEW call \in Call, call.op = calls[c].op,
           Carries(call), calls' = [calls EXCEPT ![c] = Thrown(call)]
    PROVE  /\ Moved(c) /\ Shaped(calls'[c]) /\ calls'[c].at \in {"idle", "activate"}
           /\ calls'[c].op \in {"none", "enable"}
<1> DEFINE thrown == Thrown(call)
<1>1. /\ thrown \in Call /\ Shaped(thrown)
      /\ \/ thrown = Idle
         \/ call.op = "enable" /\ thrown.op = "enable" /\ thrown.at = "activate"
  BY ThrownCall
<1>2. calls' = [calls EXCEPT ![c] = thrown]  OBVIOUS
<1>3. thrown.op \in {calls[c].op, "none"}  BY <1>1 DEF Idle
<1> HIDE DEF thrown
<1>4. Moved(c) /\ calls'[c] = thrown  BY <1>1, <1>2, <1>3, MoveTo
<1> QED BY <1>1, <1>4 DEF Idle

LEMMA ShapedCarries ==
    ASSUME NEW call \in Call, Shaped(call)
    PROVE  Carries(call)
BY DEF Shaped, Carries

LEMMA GotoMoves ==
    ASSUME CallsOK, NEW c \in Callers, NEW label \in Labels, Goto(c, label)
    PROVE  /\ Moved(c)
           /\ calls'[c].at = label
           /\ calls'[c].op = calls[c].op /\ calls'[c].to = calls[c].to
           /\ calls'[c].ids = calls[c].ids /\ calls'[c].status = calls[c].status
           /\ calls'[c].changed = calls[c].changed
<1> DEFINE call == [calls[c] EXCEPT !.at = label]
<1>1. calls[c] \in Call  BY CallTypes
<1>2. call \in Call /\ call.at = label /\ call.op = calls[c].op /\ call.to = calls[c].to
      /\ call.ids = calls[c].ids /\ call.status = calls[c].status
      /\ call.changed = calls[c].changed
  BY <1>1 DEF Call
<1>3. calls' = [calls EXCEPT ![c] = call]  BY DEF Goto
<1> HIDE DEF call
<1> QED BY <1>2, <1>3, MoveTo

-----------------------------------------------------------------------------
(* Pairs that cross, one pair at a time.                                   *)
LEMMA StatusPairs ==
    ASSUME Apart, "status" \notin disturbed, NEW c \in Callers, NEW d \in Callers \ {c}
    PROVE  /\ calls[c].op = "enable" => calls[d].op \notin {"delete", "update", "parameter"}
           /\ calls[c].op = "update" => calls[d].op \notin {"enable", "update", "delete",
                                                            "parameter"}
<1>1. {calls[c].op, calls[d].op} \notin CrossStatus  BY DEF Apart
<1> QED BY <1>1 DEF CrossStatus

LEMMA EventPairs ==
    ASSUME Apart, "event" \notin disturbed, NEW c \in Callers, NEW d \in Callers \ {c}
    PROVE  /\ calls[c].op = "enable" => calls[d].op \notin {"enable", "disable", "delete",
                                                            "update"}
           /\ calls[c].op = "delete" => calls[d].op \notin {"delete", "enable"}
<1>1. {calls[c].op, calls[d].op} \notin CrossEvents  BY DEF Apart
<1> QED BY <1>1 DEF CrossEvents

LEMMA NoneCrosses ==
    ASSUME NEW op
    PROVE  /\ {"none", op} \notin CrossStatus \cup CrossEvents
           /\ {op, "none"} \notin CrossStatus \cup CrossEvents
BY DEF CrossStatus, CrossEvents

LEMMA StayApart ==
    ASSUME CallsOK, Apart, NEW c \in Callers, Moved(c), disturbed \subseteq disturbed'
    PROVE  Apart'
<1> SUFFICES ASSUME NEW a \in Callers, NEW b \in Callers, a # b
             PROVE  /\ {calls'[a].op, calls'[b].op} \in CrossStatus => "status" \in disturbed'
                    /\ {calls'[a].op, calls'[b].op} \in CrossEvents => "event" \in disturbed'
  BY DEF Apart, CrossStatus, CrossEvents
<1>1. calls'[a].op \in {calls[a].op, "none"} /\ calls'[b].op \in {calls[b].op, "none"}
  BY DEF Moved
<1>2. CASE calls'[a].op = calls[a].op /\ calls'[b].op = calls[b].op
  BY <1>2 DEF Apart
<1>3. CASE calls'[a].op = "none" \/ calls'[b].op = "none"
  BY <1>3, NoneCrosses
<1> QED BY <1>1, <1>2, <1>3
-----------------------------------------------------------------------------
LEMMA Initially == Init => Inv
<1> SUFFICES ASSUME Init  PROVE Inv  OBVIOUS
<1>1. CallsOK
  <2>1. calls \in [Callers -> Call]  BY IdleCall DEF Init
  <2>2. TypeOK
    BY <2>1, DefaultsAssumption DEF Init, TypeOK, Call, Statuses
  <2> QED BY <2>2, IdleCall DEF Init, CallsOK
<1>2. Apart
  BY NoneCrosses DEF Init, Apart, Idle
<1>3. StatusInv
  BY DEF Init, StatusInv, Lapsed, Refused, CallStatus, Idle
<1>4. EventInv
  BY DEF Init, EventInv, CallEvent, Idle
<1> QED BY <1>1, <1>2, <1>3, <1>4 DEF Inv

(* A call begins: the operations it crosses are noted.                     *)
LEMMA BeginKeeps ==
    ASSUME Inv, NEW c \in Callers, NEW call \in Call, Shaped(call), Begin(c, call),
           call.op # "none", call.at \notin {"tell", "count", "sweep"},
           CallStatus(call)
    PROVE  Inv'
<1>1. calls[c] = Idle /\ calls' = [calls EXCEPT ![c] = call]
  BY DEF Begin
<1>2. /\ calls' \in [Callers -> Call] /\ calls'[c] = call
      /\ \A d \in Callers \ {c} : calls'[d] = calls[d]
  BY <1>1, CallTypes DEF Inv
<1>3. UNCHANGED <<tables, announced>> /\ disturbed \subseteq disturbed'
  BY DEF Begin
<1>4. CallsOK'
  <2>1. disturbed' \subseteq {"status", "event", "refused"}
    BY DEF Begin, Crossed, Inv, CallsOK, TypeOK
  <2>2. TypeOK'
    BY <1>2, <1>3, <2>1 DEF Inv, CallsOK, TypeOK, tables, Call
  <2> QED BY <1>2, <2>2 DEF Inv, CallsOK, Shaped
<1>5. Apart'
  <2>1. ASSUME NEW d \in Callers \ {c}
        PROVE  /\ {call.op, calls[d].op} \in CrossStatus => "status" \in disturbed'
               /\ {call.op, calls[d].op} \in CrossEvents => "event" \in disturbed'
    <3>1. CASE calls[d].op = "none"  BY <3>1, NoneCrosses
    <3>2. CASE calls[d].op # "none"
      <4>1. {call.op, calls[d].op} \in {{call.op, calls[e].op} : e \in Active}
        BY <3>2 DEF Active
      <4> DEFINE pairs == {{call.op, calls[e].op} : e \in Active}
      <4>2. /\ {call.op, calls[d].op} \in CrossStatus => pairs \cap CrossStatus # {}
            /\ {call.op, calls[d].op} \in CrossEvents => pairs \cap CrossEvents # {}
        BY <4>1
      <4>3. /\ pairs \cap CrossStatus # {} => "status" \in Crossed(call.op, Active)
            /\ pairs \cap CrossEvents # {} => "event" \in Crossed(call.op, Active)
        BY DEF Crossed
      <4> QED BY <4>2, <4>3 DEF Begin
    <3> QED BY <3>1, <3>2
  <2>2. \A a, b \in Callers : {calls'[a].op, calls'[b].op} = {calls'[b].op, calls'[a].op}
    OBVIOUS
  <2> SUFFICES ASSUME NEW a \in Callers, NEW b \in Callers, a # b
               PROVE  /\ {calls'[a].op, calls'[b].op} \in CrossStatus => "status" \in disturbed'
                      /\ {calls'[a].op, calls'[b].op} \in CrossEvents => "event" \in disturbed'
    BY DEF Apart, CrossStatus, CrossEvents
  <2>3. CASE a = c  BY <1>2, <2>1, <2>3
  <2>4. CASE b = c  BY <1>2, <2>1, <2>2, <2>4
  <2>5. CASE a # c /\ b # c  BY <1>2, <1>3, <2>5 DEF Inv, Apart
  <2> QED BY <2>3, <2>4, <2>5
<1>6. StatusInv'
  <2> SUFFICES ASSUME Orderly'
               PROVE  /\ Lapsed' => Refused' \/ \E d \in Callers : Owes(calls'[d])
                      /\ \A d \in Callers : CallStatus(calls[d])'
    BY DEF StatusInv, Owes
  <2>1. StatusInv /\ Orderly  BY <1>3 DEF Inv, Orderly
  <2>2. Lapsed' = Lapsed /\ (Refused => Refused')
    BY <1>3 DEF Lapsed, Refused, NoneOn, tables
  <2>3. \A d \in Callers : Owes(calls[d]) => d # c  BY <1>1 DEF Owes, Idle
  <2>4. \A d \in Callers : CallStatus(calls'[d])
    BY <1>2, <2>1 DEF StatusInv
  <2>5. \A d \in Callers : CallStatus(calls[d])'
    BY <1>3, <2>4 DEF CallStatus, NoneOn, Seen, InTransaction, tables
  <2> QED BY <1>2, <2>1, <2>2, <2>3, <2>5 DEF StatusInv, Owes
<1>7. EventInv'
  <2> SUFFICES ASSUME "event" \notin disturbed'  PROVE EventInv'  BY DEF EventInv
  <2>1. EventInv /\ "event" \notin disturbed  BY <1>3 DEF Inv
  <2>2. Telling' = Telling
    BY <1>1, <1>2 DEF Telling, Idle
  <2>3. \A d \in Callers : CallEvent(calls[d])'
    BY <1>2, <1>3, <2>1 DEF EventInv, CallEvent, Present, tables
  <2> QED BY <1>3, <2>1, <2>2, <2>3 DEF EventInv, tables
<1> QED BY <1>4, <1>5, <1>6, <1>7 DEF Inv

LEMMA StartKeeps ==
    ASSUME Inv, NEW c \in Callers, Start(c)
    PROVE  Inv'
<1> USE DEF Call, Operations, Labels, Statuses
<1>1. CASE StartEnable(c)
  <2>1. PICK activate \in BOOLEAN :
            Begin(c, [Idle EXCEPT !.op = "enable", !.at = "row", !.to = TRUE,
                                  !.activate = activate])
    BY <1>1 DEF StartEnable
  <2> QED BY <2>1, BeginKeeps DEF Idle, Shaped, CallStatus
<1>2. CASE StartDisable(c)
  BY <1>2, BeginKeeps DEF StartDisable, Idle, Shaped, CallStatus
<1>3. CASE StartCreate(c)
  <2>1. PICK status \in {"on", "off"} :
            Begin(c, [Idle EXCEPT !.op = "create", !.at = "insert", !.status = status])
    BY <1>3 DEF StartCreate
  <2> QED BY <2>1, BeginKeeps DEF Idle, Shaped, CallStatus
<1>4. CASE StartDelete(c)
  <2>1. PICK s \in Present :
            Begin(c, [Idle EXCEPT !.op = "delete", !.at = "remove", !.ids = {s}])
    BY <1>4 DEF StartDelete
  <2> QED BY <2>1, BeginKeeps DEF Idle, Shaped, CallStatus, Present
<1>5. CASE StartUpdate(c)
  <2>1. PICK s \in Present, status \in {"on", "off"} :
            Begin(c, [Idle EXCEPT !.op = "update", !.at = "write", !.ids = {s},
                                  !.status = status])
    BY <1>5 DEF StartUpdate
  <2> QED BY <2>1, BeginKeeps DEF Idle, Shaped, CallStatus, Present
<1>6. CASE StartParameter(c)
  <2>1. PICK s \in Present :
            Begin(c, [Idle EXCEPT !.op = "parameter", !.at = "patch", !.ids = {s},
                                  !.status = strategies[s]])
    BY <1>6 DEF StartParameter
  <2>2. s \in Strategies /\ strategies[s] \in Statuses \ {"none"}
    BY DEF Present, Inv, CallsOK, TypeOK
  <2> DEFINE call == [Idle EXCEPT !.op = "parameter", !.at = "patch", !.ids = {s},
                                  !.status = strategies[s]]
  <2>3. /\ call \in Call /\ call.op = "parameter" /\ call.at = "patch" /\ ~call.to
        /\ call.ids = {s} /\ call.status = strategies[s] /\ ~call.changed
    BY <2>2 DEF Idle
  <2>4. Begin(c, call)  BY <2>1
  <2> HIDE DEF call
  <2> QED BY <2>2, <2>3, <2>4, BeginKeeps DEF Shaped, CallStatus
<1> QED BY <1>1, <1>2, <1>3, <1>4, <1>5, <1>6 DEF Start

-----------------------------------------------------------------------------
(* A call goes on without a change of the tables: what it owes it still    *)
(* owes, and it may rely on what it relies on next.                        *)
LEMMA QuietKeeps ==
    ASSUME Inv, NEW c \in Callers, UNCHANGED <<tables, announced, disturbed>>,
           Moved(c), Shaped(calls'[c]), calls[c].at # "tell", calls'[c].at # "tell",
           Orderly =>
               /\ CallStatus(calls'[c])
               /\ Lapsed /\ Owes(calls[c]) => Owes(calls'[c]),
           "event" \notin disturbed => CallEvent(calls'[c])
    PROVE  Inv'
<1>1. CallsOK'
  <2>1. TypeOK'
    BY DEF Inv, CallsOK, TypeOK, Moved, Call, tables
  <2> QED BY <2>1 DEF Inv, CallsOK, Shaped, Moved
<1>2. Apart'  BY StayApart DEF Inv
<1>3. StatusInv'
  <2> SUFFICES ASSUME Orderly
               PROVE  /\ Lapsed' => Refused' \/ \E d \in Callers : Owes(calls'[d])
                      /\ \A d \in Callers : CallStatus(calls[d])'
    BY DEF StatusInv, Orderly, Owes
  <2>1. Lapsed' = Lapsed /\ Refused' = Refused  BY DEF Lapsed, Refused, NoneOn, tables
  <2>2. \A d \in Callers : CallStatus(calls'[d])  BY DEF Inv, StatusInv, Moved
  <2>3. \A d \in Callers : CallStatus(calls[d])'
    BY <2>2 DEF CallStatus, NoneOn, Seen, InTransaction, tables
  <2> QED BY <2>1, <2>3 DEF Inv, StatusInv, Moved
<1>4. EventInv'
  <2> SUFFICES ASSUME "event" \notin disturbed  PROVE EventInv'  BY DEF EventInv
  <2>1. Telling' = Telling  BY DEF Telling, Moved
  <2>2. \A d \in Callers : CallEvent(calls[d])'
    BY DEF Inv, EventInv, CallEvent, Present, Moved, tables
  <2> QED BY <2>1, <2>2 DEF Inv, EventInv, tables
<1> QED BY <1>1, <1>2, <1>3, <1>4 DEF Inv

(* A step that changes a row, an event or the history.                     *)
LEMMA ChangeKeeps ==
    ASSUME Inv, NEW c \in Callers, Moved(c), Shaped(calls'[c]), TypeOK',
           disturbed \subseteq disturbed',
           Orderly' => /\ Lapsed' => Refused' \/ \E d \in Callers : Owes(calls'[d])
                       /\ \A d \in Callers : CallStatus(calls[d])',
           "event" \notin disturbed' => /\ Telling' \/ announced' = enabled'
                                        /\ \A d \in Callers : CallEvent(calls[d])'
    PROVE  Inv'
<1>1. CallsOK'  BY DEF Inv, CallsOK, Shaped, Moved
<1>2. Apart'  BY StayApart DEF Inv
<1> QED BY <1>1, <1>2 DEF Inv, StatusInv, EventInv, Owes

(* updateEnabled up to its UPDATE, and optionallyDisableFeature.           *)
LEMMA FindRowKeeps ==
    ASSUME Inv, NEW c \in Callers, FindRow(c)
    PROVE  Inv'
<1>1. Shaped(calls[c]) /\ CallsOK  BY DEF Inv, CallsOK
<1>2. CASE connected
  <2>1. calls[c].at = "row" /\ Goto(c, "live")  BY <1>2 DEF FindRow
  <2>2. /\ Moved(c) /\ calls'[c].at = "live"
        /\ calls'[c].op = calls[c].op /\ calls'[c].to = calls[c].to
        /\ calls'[c].status = calls[c].status /\ calls'[c].changed = calls[c].changed
    BY <1>1, <2>1, GotoMoves DEF Labels
  <2>3. Shaped(calls'[c])  BY <1>1, <2>1, <2>2 DEF Shaped, Idle
  <2>4. calls'[c].op \notin {"parameter"}  BY <1>1, <2>1, <2>2 DEF Shaped
  <2> QED
    BY <2>1, <2>2, <2>3, <2>4, QuietKeeps
       DEF FindRow, Inv, StatusInv, CallStatus, CallEvent, Owes
<1>3. CASE ~connected
  <2>1. calls[c].at = "row" /\ calls' = [calls EXCEPT ![c] = Thrown(calls[c])]
    BY <1>3 DEF FindRow
  <2>2. /\ Moved(c) /\ Shaped(calls'[c]) /\ calls'[c].at \in {"idle", "activate"}
        /\ calls'[c].op \in {"none", "enable"}
    <3>1. calls[c] \in Call /\ Carries(calls[c])  BY <1>1, CallTypes, ShapedCarries
    <3> QED BY <1>1, <2>1, <3>1, ThrownMoves
  <2> QED
    BY <1>3, <2>1, <2>2, QuietKeeps DEF FindRow, CallStatus, CallEvent, Lapsed
<1> QED BY <1>2, <1>3

LEMMA FindLiveKeeps ==
    ASSUME Inv, NEW c \in Callers, FindLive(c)
    PROVE  Inv'
<1>1. Shaped(calls[c]) /\ CallsOK  BY DEF Inv, CallsOK
<1>2. CASE ~archived
  <2> DEFINE label == IF calls[c].to THEN "list" ELSE "set"
  <2>1. /\ calls[c].at = "live" /\ Goto(c, label)
        /\ UNCHANGED <<tables, announced, disturbed>>
    BY <1>2 DEF FindLive
  <2>2. /\ Moved(c) /\ calls'[c].at = label
        /\ calls'[c].op = calls[c].op /\ calls'[c].to = calls[c].to
        /\ calls'[c].status = calls[c].status /\ calls'[c].changed = calls[c].changed
    BY <1>1, <2>1, GotoMoves DEF Labels
  <2>3. Shaped(calls'[c])  BY <1>1, <2>1, <2>2 DEF Shaped, Idle
  <2>4. calls'[c].op \notin {"parameter"}  BY <1>1, <2>1, <2>2 DEF Shaped
  <2>5. calls[c].op = "delete" => calls'[c].at = "set"
    BY <1>1, <2>2 DEF Shaped
  <2> QED
    BY <2>1, <2>2, <2>3, <2>4, <2>5, QuietKeeps
       DEF FindLive, Inv, StatusInv, CallStatus, CallEvent, Owes
<1>3. CASE archived
  <2>1. calls[c].at = "live" /\ calls' = [calls EXCEPT ![c] = Thrown(calls[c])]
        /\ UNCHANGED <<tables, announced>>
    BY <1>3 DEF FindLive
  <2>2. /\ Moved(c) /\ Shaped(calls'[c]) /\ calls'[c].at \in {"idle", "activate"}
        /\ calls'[c].op \in {"none", "enable"}
    <3>1. calls[c] \in Call /\ Carries(calls[c])  BY <1>1, CallTypes, ShapedCarries
    <3> QED BY <1>1, <2>1, <3>1, ThrownMoves
  <2>3. CASE calls[c].op = "delete"
    <3>1. disturbed' = disturbed \cup {"refused"}  BY <1>3, <2>3 DEF FindLive
    <3>2. TypeOK'  BY <1>1, <2>1, <2>2, <3>1 DEF CallsOK, TypeOK, Moved, Call, tables
    <3>3. Refused'  BY <1>3, <2>1, <3>1 DEF Refused, tables
    <3>4. ASSUME Orderly'
          PROVE  \A d \in Callers : CallStatus(calls[d])'
      <4>1. Orderly /\ StatusInv  BY <3>1, <3>4 DEF Orderly, Inv
      <4> QED
        BY <2>1, <2>2, <4>1
           DEF StatusInv, CallStatus, Moved, NoneOn, Seen, InTransaction, tables
    <3>5. ASSUME "event" \notin disturbed'
          PROVE  /\ Telling' \/ announced' = enabled'
                 /\ \A d \in Callers : CallEvent(calls[d])'
      <4>1. EventInv /\ "event" \notin disturbed  BY <3>1, <3>5 DEF Inv
      <4>2. Telling' = Telling  BY <2>1, <2>2 DEF Telling, Moved
      <4> QED
        BY <2>1, <2>2, <4>1, <4>2 DEF EventInv, CallEvent, Present, Moved, tables
    <3> QED BY <2>2, <3>1, <3>2, <3>3, <3>4, <3>5, ChangeKeeps
  <2>4. CASE calls[c].op # "delete"
    <3>1. disturbed' = disturbed  BY <2>4 DEF FindLive
    <3> QED
      BY <2>1, <2>2, <2>4, <3>1, QuietKeeps DEF CallStatus, CallEvent, Owes
  <2> QED BY <2>3, <2>4
<1> QED BY <1>2, <1>3

LEMMA ListStrategiesKeeps ==
    ASSUME Inv, NEW c \in Callers, ListStrategies(c)
    PROVE  Inv'
<1> DEFINE off == {s \in Present : strategies[s] = "off"}
<1>1. Shaped(calls[c]) /\ CallsOK /\ calls[c] \in Call
  BY CallTypes DEF Inv, CallsOK
<1>2. calls[c].at = "list" /\ calls[c].op = "enable" /\ calls[c].to
  BY <1>1 DEF ListStrategies, Shaped, Idle, Call, Operations
<1>3. UNCHANGED <<tables, announced, disturbed>>  BY DEF ListStrategies
<1>4. CASE End(c)
  <2>1. Moved(c) /\ calls'[c] = Idle  BY <1>1, <1>4, EndMoves
  <2> QED BY <1>2, <1>3, <2>1, IdleCall, QuietKeeps DEF CallStatus, CallEvent, Owes, Idle
<1>5. CASE off # {} /\ calls' = [calls EXCEPT ![c].at = "activate", ![c].ids = Present]
  <2> DEFINE call == [calls[c] EXCEPT !.at = "activate", !.ids = Present]
  <2>1. calls' = [calls EXCEPT ![c] = call]  BY <1>1, <1>5, CallTypes
  <2>2. Present \subseteq Strategies /\ Present # {}  BY <1>5 DEF Present
  <2>3. /\ call \in Call /\ call.at = "activate" /\ call.op = "enable" /\ call.to
        /\ call.ids = Present /\ call.changed = calls[c].changed
    BY <1>1, <1>2, <2>2 DEF Call, Labels
  <2> HIDE DEF call
  <2>4. Moved(c) /\ calls'[c] = call  BY <1>1, <1>2, <2>1, <2>3, MoveTo
  <2>5. Shaped(call)  BY <1>1, <1>2, <2>2, <2>3 DEF Shaped
  <2> QED BY <1>2, <1>3, <2>3, <2>4, <2>5, QuietKeeps DEF CallStatus, CallEvent, Owes
<1>6. CASE Goto(c, "default")
  <2>1. /\ Moved(c) /\ calls'[c].at = "default" /\ calls'[c].op = "enable" /\ calls'[c].to
        /\ calls'[c].changed = calls[c].changed
    BY <1>1, <1>2, <1>6, GotoMoves DEF Labels
  <2>2. Shaped(calls'[c])  BY <1>1, <1>2, <2>1 DEF Shaped
  <2> QED BY <1>2, <1>3, <2>1, <2>2, QuietKeeps DEF CallStatus, CallEvent, Owes
<1>7. CASE off # Present /\ Goto(c, "set")
  <2>1. /\ Moved(c) /\ calls'[c].at = "set" /\ calls'[c].op = "enable" /\ calls'[c].to
        /\ calls'[c].changed = calls[c].changed
    BY <1>1, <1>2, <1>7, GotoMoves DEF Labels
  <2>2. Shaped(calls'[c])  BY <1>1, <1>2, <2>1 DEF Shaped
  <2>3. ~NoneOn(strategies)
    BY <1>1, <1>7 DEF CallsOK, TypeOK, Statuses, Present, NoneOn
  <2> QED BY <1>2, <1>3, <2>1, <2>2, <2>3, QuietKeeps DEF CallStatus, CallEvent, Owes
<1> QED BY <1>4, <1>5, <1>6, <1>7 DEF ListStrategies

LEMMA CheckStrategiesKeeps ==
    ASSUME Inv, NEW c \in Callers, CheckStrategies(c)
    PROVE  Inv'
<1>1. Shaped(calls[c]) /\ CallsOK /\ calls[c] \in Call
  BY CallTypes DEF Inv, CallsOK
<1>2. calls[c].at = "check" /\ calls[c].op \in {"enable", "update"} /\ ~calls[c].changed
  BY <1>1 DEF CheckStrategies, Shaped, Idle, Call, Operations
<1>3. UNCHANGED <<tables, announced, disturbed>>  BY DEF CheckStrategies
<1>4. CASE calls' = [calls EXCEPT ![c] = Thrown(calls[c])]
  <2>1. /\ Moved(c) /\ Shaped(calls'[c]) /\ calls'[c].at \in {"idle", "activate"}
        /\ calls'[c].op \in {"none", "enable"}
    <3>1. Carries(calls[c])  BY <1>1, ShapedCarries
    <3> QED BY <1>1, <1>4, <3>1, ThrownMoves
  <2> QED BY <1>2, <1>3, <2>1, QuietKeeps DEF CallStatus, CallEvent, Owes
<1>5. CASE NoneOn(Seen(calls[c])) /\ Goto(c, "row")
  <2>1. /\ Moved(c) /\ calls'[c].at = "row" /\ calls'[c].op = calls[c].op
        /\ calls'[c].to = calls[c].to /\ calls'[c].status = calls[c].status
        /\ calls'[c].changed = calls[c].changed
    BY <1>1, <1>5, GotoMoves DEF Labels
  <2>2. Shaped(calls'[c])  BY <1>1, <1>2, <2>1 DEF Shaped
  <2>3. calls[c].op = "enable" => NoneOn(strategies)
    BY <1>5 DEF Seen, InTransaction, NoneOn
  <2> QED
    BY <1>2, <1>3, <2>1, <2>2, <2>3, QuietKeeps
       DEF Inv, StatusInv, CallStatus, CallEvent, Owes
<1>6. CASE /\ ~archived /\ ~(connected /\ NoneOn(Seen(calls[c])))
           /\ calls' = [calls EXCEPT ![c] = Resumed(@)]
  <2> DEFINE call == Resumed(calls[c])
  <2>1. calls' = [calls EXCEPT ![c] = call]  BY <1>6
  <2>2. call \in Call /\ Shaped(call) /\ call.op \in {calls[c].op, "none"}
    BY <1>1, <1>2, ShapedCarries, ResumedCall
  <2>3. Moved(c) /\ calls'[c] = call  BY <1>1, <2>1, <2>2, MoveTo
  <2>4. CASE calls[c].op = "enable"
    <3>1. /\ call.op \in {"enable", "none"} /\ call.at \in {"set", "activate", "idle"}
          /\ call.op = "enable" => call.to
      BY <1>1, <2>4, ResumedFields DEF Idle
    <3> HIDE DEF call
    <3> QED
      BY <1>2, <1>3, <2>2, <2>3, <2>4, <3>1, QuietKeeps
         DEF Inv, StatusInv, CallStatus, CallEvent, Owes
  <2>5. CASE calls[c].op = "update"
    <3>1. /\ call.op = "update" /\ call.at = "commit" /\ call.ids = calls[c].ids
          /\ call.status = calls[c].status
      BY <1>1, <2>5, ResumedFields
    <3> HIDE DEF call
    <3>2. Seen(call) = Seen(calls[c])
      BY <1>2, <2>5, <3>1 DEF Seen, InTransaction, Labels
    <3> QED
      BY <1>2, <1>3, <1>6, <2>2, <2>3, <2>5, <3>1, <3>2, QuietKeeps
         DEF CallStatus, CallEvent, Owes
  <2> QED BY <1>2, <2>4, <2>5
<1> QED BY <1>4, <1>5, <1>6 DEF CheckStrategies

LEMMA ReadDefaultKeeps ==
    ASSUME Inv, NEW c \in Callers, ReadDefault(c)
    PROVE  Inv'
<1> DEFINE status == IF default = "none" THEN "on" ELSE default
           call == [calls[c] EXCEPT !.at = "insert", !.status = status]
<1>1. Shaped(calls[c]) /\ CallsOK /\ calls[c] \in Call
  BY CallTypes DEF Inv, CallsOK
<1>2. calls[c].at = "default" /\ calls[c].op = "enable" /\ calls[c].to
  BY <1>1 DEF ReadDefault, Shaped, Idle, Call, Operations
<1>3. UNCHANGED <<tables, announced, disturbed>>  BY DEF ReadDefault
<1>4. /\ status \in Statuses /\ status # "none"
      /\ "off" \notin Defaults => status = "on"
  BY <1>1, DefaultsAssumption DEF CallsOK, TypeOK, Statuses
<1>5. calls' = [calls EXCEPT ![c] = call]  BY <1>1, CallTypes DEF ReadDefault
<1>6. /\ call \in Call /\ call.at = "insert" /\ call.op = "enable" /\ call.to
      /\ call.status = status /\ call.changed = calls[c].changed
  BY <1>1, <1>2, <1>4 DEF Call, Labels
<1> HIDE DEF call, status
<1>7. Moved(c) /\ calls'[c] = call  BY <1>1, <1>2, <1>5, <1>6, MoveTo
<1>8. Shaped(call)  BY <1>1, <1>2, <1>4, <1>6 DEF Shaped
<1> QED
  BY <1>2, <1>3, <1>4, <1>6, <1>7, <1>8, QuietKeeps DEF CallStatus, CallEvent, Owes, Orderly
LEMMA ListLeftKeeps ==
    ASSUME Inv, NEW c \in Callers, ListLeft(c)
    PROVE  Inv'
<1> DEFINE label == IF NoneOn(strategies) THEN "row" ELSE "count"
<1>1. Shaped(calls[c]) /\ CallsOK /\ calls[c] \in Call
  BY CallTypes DEF Inv, CallsOK
<1>2. calls[c].at = "left" /\ calls[c].op = "delete" /\ ~calls[c].to /\ ~calls[c].changed
  BY <1>1 DEF ListLeft, Shaped, Idle, Call, Operations
<1>3. UNCHANGED <<tables, announced, disturbed>>  BY DEF ListLeft
<1>4. label \in Labels /\ Goto(c, label)  BY DEF ListLeft, Labels
<1> HIDE DEF label
<1>5. /\ Moved(c) /\ calls'[c].at = label /\ calls'[c].op = "delete"
      /\ ~calls'[c].to /\ ~calls'[c].changed
  BY <1>1, <1>2, <1>4, GotoMoves
<1>6. Shaped(calls'[c])  BY <1>5 DEF Shaped, label
<1>7. ~NoneOn(strategies) => Present # {}
  BY DEF NoneOn, Present
<1> QED
  BY <1>2, <1>3, <1>5, <1>6, <1>7, QuietKeeps
     DEF CallStatus, CallEvent, Owes, Lapsed, label

LEMMA CountStrategiesKeeps ==
    ASSUME Inv, NEW c \in Callers, CountStrategies(c)
    PROVE  Inv'
<1>1. Shaped(calls[c]) /\ CallsOK /\ calls[c] \in Call
  BY CallTypes DEF Inv, CallsOK
<1>2. calls[c].at = "count" /\ calls[c].op = "delete" /\ ~calls[c].to /\ ~calls[c].changed
  BY <1>1 DEF CountStrategies, Shaped, Idle, Call, Operations
<1>3. UNCHANGED <<tables, announced, disturbed>>  BY DEF CountStrategies
<1>4. CASE Present = {} /\ Goto(c, "sweep")
  <2>1. /\ Moved(c) /\ calls'[c].at = "sweep" /\ calls'[c].op = "delete"
        /\ ~calls'[c].to /\ ~calls'[c].changed
    BY <1>1, <1>2, <1>4, GotoMoves DEF Labels
  <2>2. Shaped(calls'[c])  BY <2>1 DEF Shaped
  <2>3. "event" \notin disturbed => ~enabled
    BY <1>2, <1>4 DEF Inv, EventInv, CallEvent
  <2> QED
    BY <1>2, <1>3, <2>1, <2>2, <2>3, QuietKeeps DEF CallStatus, CallEvent, Owes
<1>5. CASE End(c)
  <2>1. Moved(c) /\ calls'[c] = Idle  BY <1>1, <1>5, EndMoves
  <2> QED BY <1>2, <1>3, <2>1, IdleCall, QuietKeeps DEF CallStatus, CallEvent, Owes, Idle
<1> QED BY <1>4, <1>5 DEF CountStrategies

LEMMA WriteStrategyKeeps ==
    ASSUME Inv, NEW c \in Callers, WriteStrategy(c)
    PROVE  Inv'
<1>1. Shaped(calls[c]) /\ CallsOK /\ calls[c] \in Call
  BY CallTypes DEF Inv, CallsOK
<1>2. calls[c].at = "write" /\ calls[c].op = "update" /\ ~calls[c].to /\ ~calls[c].changed
  BY <1>1 DEF WriteStrategy, Shaped, Idle, Call, Operations
<1>3. UNCHANGED <<tables, announced, disturbed>>  BY DEF WriteStrategy
<1>4. CASE Goto(c, "check")
  <2>1. /\ Moved(c) /\ calls'[c].at = "check" /\ calls'[c].op = "update"
        /\ ~calls'[c].to /\ ~calls'[c].changed /\ calls'[c].status = calls[c].status
    BY <1>1, <1>2, <1>4, GotoMoves DEF Labels
  <2>2. Shaped(calls'[c])  BY <1>1, <1>2, <2>1 DEF Shaped
  <2> QED BY <1>2, <1>3, <2>1, <2>2, QuietKeeps DEF CallStatus, CallEvent, Owes
<1>5. CASE End(c)
  <2>1. Moved(c) /\ calls'[c] = Idle  BY <1>1, <1>5, EndMoves
  <2> QED BY <1>2, <1>3, <2>1, IdleCall, QuietKeeps DEF CallStatus, CallEvent, Owes, Idle
<1> QED BY <1>4, <1>5 DEF WriteStrategy

-----------------------------------------------------------------------------
(* Types of what a step of a call leaves.                                  *)
LEMMA ChangeTypes ==
    ASSUME CallsOK, NEW c \in Callers, Moved(c),
           UNCHANGED <<connected, archived, default, disturbed>>,
           strategies' \in [Strategies -> Statuses],
           enabled' \in BOOLEAN, enabled' => connected, announced' \in BOOLEAN
    PROVE  TypeOK'
BY DEF CallsOK, TypeOK, Moved, Call

(* Promise.all of updateStrategy: what it activates is on, and no call     *)
(* that would take it away has come without crossing.                      *)
LEMMA ActivateKeeps ==
    ASSUME Inv, NEW c \in Callers, Activate(c)
    PROVE  Inv'
<1>1. Shaped(calls[c]) /\ CallsOK /\ calls[c] \in Call
  BY CallTypes DEF Inv, CallsOK
<1>2. calls[c].at = "activate" /\ calls[c].op = "enable" /\ ~calls[c].changed
  BY <1>1 DEF Activate, Shaped, Idle, Call, Operations
<1>3. UNCHANGED <<connected, enabled, archived, default, announced, disturbed>>
  BY DEF Activate
<1>4. PICK s \in calls[c].ids :
          IF s \in Present
          THEN /\ strategies' = [strategies EXCEPT ![s] = "on"]
               /\ calls' = [calls EXCEPT ![c].at = "check", ![c].ids = @ \ {s},
                                         ![c].to = FALSE]
          ELSE /\ calls' = [calls EXCEPT ![c] =
                                Thrown([calls[c] EXCEPT !.ids = @ \ {s}, !.to = FALSE])]
               /\ UNCHANGED strategies
  BY DEF Activate
<1>5. CASE s \notin Present
  <2> DEFINE call == [calls[c] EXCEPT !.ids = calls[c].ids \ {s}, !.to = FALSE]
  <2>1. calls' = [calls EXCEPT ![c] = Thrown(call)] /\ UNCHANGED strategies
    BY <1>1, <1>4, <1>5, CallTypes
  <2>2. /\ call \in Call /\ call.op = "enable" /\ ~call.to
        /\ ~call.changed
    BY <1>1, <1>2 DEF Call
  <2> HIDE DEF call
  <2>3. /\ Moved(c) /\ Shaped(calls'[c]) /\ calls'[c].at \in {"idle", "activate"}
        /\ calls'[c].op \in {"none", "enable"}
    <3>1. Carries(call)  BY <2>2 DEF Carries
    <3> QED BY <1>1, <1>2, <2>1, <2>2, <3>1, ThrownMoves
  <2> QED
    BY <1>2, <1>3, <2>1, <2>3, QuietKeeps DEF CallStatus, CallEvent, Owes, tables
<1>6. CASE s \in Present
  <2> DEFINE call == [calls[c] EXCEPT !.at = "check", !.ids = calls[c].ids \ {s},
                                      !.to = FALSE]
  <2>1. calls' = [calls EXCEPT ![c] = call]  BY <1>1, <1>4, <1>6, CallTypes
  <2>2. /\ call \in Call /\ call.at = "check" /\ call.op = "enable" /\ ~call.to
        /\ ~call.changed
    BY <1>1, <1>2 DEF Call, Labels
  <2> HIDE DEF call
  <2>3. Moved(c) /\ calls'[c] = call  BY <1>1, <1>2, <2>1, <2>2, MoveTo
  <2>4. Shaped(calls'[c])  BY <2>2, <2>3 DEF Shaped
  <2>5. /\ strategies \in [Strategies -> Statuses] /\ s \in Strategies
        /\ strategies' \in [Strategies -> Statuses]
        /\ strategies'[s] = "on" /\ strategies[s] # "none"
        /\ \A t \in Strategies \ {s} : strategies'[t] = strategies[t]
    BY <1>1, <1>4, <1>6 DEF CallsOK, TypeOK, Present, Statuses
  <2>6. TypeOK'
    BY <1>1, <1>3, <2>3, <2>5, ChangeTypes DEF CallsOK, TypeOK
  <2>7. ~NoneOn(strategies') /\ Present' = Present
    BY <2>5 DEF NoneOn, Present
  <2>8. ASSUME Orderly'
        PROVE  ~Lapsed' /\ \A d \in Callers : CallStatus(calls[d])'
    <3>1. Orderly  BY <1>3, <2>8 DEF Orderly
    <3>2. \A d \in Callers \ {c} : calls[d].op \notin {"delete", "update", "parameter"}
      BY <1>2, <3>1, StatusPairs DEF Inv, Orderly
    <3>3. \A d \in Callers \ {c} : CallStatus(calls[d])'
      BY <2>3, <2>7, <3>1, <3>2 DEF Inv, StatusInv, CallStatus, Moved
    <3> QED BY <2>2, <2>3, <2>7, <3>3 DEF Lapsed, CallStatus
  <2>9. ASSUME "event" \notin disturbed'
        PROVE  /\ Telling' \/ announced' = enabled'
               /\ \A d \in Callers : CallEvent(calls[d])'
    <3>1. Telling' = Telling  BY <1>2, <2>2, <2>3 DEF Telling, Moved
    <3> QED
      BY <1>3, <2>2, <2>3, <2>7, <2>9, <3>1 DEF Inv, EventInv, CallEvent, Moved
  <2> QED BY <1>3, <2>3, <2>4, <2>6, <2>8, <2>9, ChangeKeeps
<1> QED BY <1>5, <1>6

(* unprotectedCreateStrategy: nobody knows the new id yet.                 *)
LEMMA InsertStrategyKeeps ==
    ASSUME Inv, NEW c \in Callers, InsertStrategy(c)
    PROVE  Inv'
<1>1. Shaped(calls[c]) /\ CallsOK /\ calls[c] \in Call
  BY CallTypes DEF Inv, CallsOK
<1>2. /\ calls[c].at = "insert" /\ calls[c].op \in {"enable", "create"}
      /\ ~calls[c].changed /\ calls[c].status # "none"
  BY <1>1 DEF InsertStrategy, Shaped, Idle, Call, Operations
<1>3. UNCHANGED <<connected, enabled, archived, default, announced, disturbed>>
  BY DEF InsertStrategy
<1>4. PICK s \in Strategies :
          /\ Fresh(s)
          /\ strategies' = [strategies EXCEPT ![s] = calls[c].status]
          /\ IF calls[c].op = "enable" THEN Goto(c, "set") ELSE End(c)
  BY DEF InsertStrategy
<1>5. /\ Moved(c) /\ Shaped(calls'[c]) /\ calls'[c].at \in {"set", "idle"}
      /\ calls'[c].op = "enable" => calls[c].op = "enable" /\ calls'[c].to
      /\ calls'[c].op \in {"enable", "none"}
  <2>1. CASE calls[c].op = "enable"
    <3>1. /\ Moved(c) /\ calls'[c].at = "set" /\ calls'[c].op = "enable"
          /\ calls'[c].to = calls[c].to /\ ~calls'[c].changed
      BY <1>1, <1>2, <1>4, <2>1, GotoMoves DEF Labels
    <3>2. calls[c].to  BY <1>1, <1>2, <2>1 DEF Shaped
    <3> QED BY <2>1, <3>1, <3>2 DEF Shaped
  <2>2. CASE calls[c].op # "enable"
    BY <1>1, <1>4, <2>2, EndMoves, IdleCall DEF Idle
  <2> QED BY <2>1, <2>2
<1>6. /\ strategies \in [Strategies -> Statuses] /\ strategies[s] = "none"
      /\ strategies' \in [Strategies -> Statuses]
      /\ strategies'[s] = calls[c].status /\ strategies'[s] # "none"
      /\ \A t \in Strategies \ {s} : strategies'[t] = strategies[t]
      /\ \A d \in Callers : s \notin calls[d].ids
  BY <1>1, <1>2, <1>4 DEF CallsOK, TypeOK, Fresh, Call
<1>7. TypeOK'  BY <1>1, <1>3, <1>5, <1>6, ChangeTypes DEF CallsOK, TypeOK
<1>8. NoneOn(strategies') => NoneOn(strategies)  BY <1>6 DEF NoneOn
<1>9. ASSUME Orderly'
      PROVE  /\ Lapsed' => Refused' \/ \E d \in Callers : Owes(calls'[d])
             /\ \A d \in Callers : CallStatus(calls[d])'
  <2>1. Orderly  BY <1>3, <1>9 DEF Orderly
  <2>2. StatusInv  BY DEF Inv
  <2>3. Lapsed' => Refused' \/ \E d \in Callers : Owes(calls'[d])
    BY <1>2, <1>3, <1>5, <1>8, <2>1, <2>2 DEF StatusInv, Lapsed, Refused, Owes, Moved
  <2>4. CallStatus(calls[c])'
    <3>1. calls[c].op = "enable" => ~NoneOn(strategies')
      BY <1>2, <1>6, <2>1, <2>2 DEF StatusInv, CallStatus, NoneOn
    <3> QED BY <1>5, <3>1 DEF CallStatus
  <2>5. ASSUME NEW d \in Callers \ {c}
        PROVE  CallStatus(calls[d])'
    <3>1. calls'[d] = calls[d] /\ CallStatus(calls[d]) /\ s \notin calls[d].ids
      BY <1>5, <1>6, <2>1, <2>2 DEF StatusInv, Moved
    <3>2. ~NoneOn(Seen(calls[d])) => ~NoneOn(Seen(calls[d])')
      BY <1>6, <3>1 DEF NoneOn, Seen, InTransaction
    <3>3. calls[d].op = "parameter" =>
              \A t \in calls[d].ids : strategies'[t] \in {"none", calls[d].status}
      <4>1. calls[d].ids \subseteq Strategies  BY <1>1 DEF CallsOK, TypeOK
      <4> QED BY <1>6, <3>1, <4>1 DEF CallStatus
    <3> QED BY <1>3, <1>8, <3>1, <3>2, <3>3 DEF CallStatus
  <2> QED BY <2>3, <2>4, <2>5
<1>10. ASSUME "event" \notin disturbed'
       PROVE  /\ Telling' \/ announced' = enabled'
              /\ \A d \in Callers : CallEvent(calls[d])'
  <2>1. Telling' = Telling  BY <1>2, <1>5 DEF Telling, Moved
  <2>2. Present # {} => Present' # {}  BY <1>6 DEF Present
  <2> QED
    BY <1>3, <1>5, <1>10, <2>1, <2>2 DEF Inv, EventInv, CallEvent, Moved
<1> QED BY <1>3, <1>5, <1>7, <1>9, <1>10, ChangeKeeps
(* setEnvironmentEnabledStatus that finds nothing to change: the feature   *)
(* is as the call wants it, or has no row.                                 *)
LEMMA SetNothingKeeps ==
    ASSUME Inv, NEW c \in Callers, SetStatus(c), ~Changes(calls[c].to)
    PROVE  Inv'
<1> DEFINE call == AfterStatus(calls[c])
<1>1. Shaped(calls[c]) /\ CallsOK /\ calls[c] \in Call
  BY CallTypes DEF Inv, CallsOK
<1>2. calls[c].at = "set" /\ calls[c].op \in {"enable", "disable", "delete", "update"}
      /\ ~calls[c].changed /\ (calls[c].op # "enable" => ~calls[c].to)
  BY <1>1 DEF SetStatus, Shaped, Idle, Call, Operations
<1>3. UNCHANGED <<tables, announced, disturbed>> /\ calls' = [calls EXCEPT ![c] = call]
  BY DEF SetStatus, tables
<1>4. ~calls[c].to => ~(connected /\ enabled)
  BY <1>1 DEF Changes, CallsOK, TypeOK
<1>5. CASE (calls[c].op = "enable" /\ calls[c].to) \/ calls[c].op = "disable"
  <2>1. call = Idle  BY <1>1, <1>5, ResumedFields DEF AfterStatus
  <2>2. Moved(c) /\ calls'[c] = Idle
    BY <1>1, <1>3, <2>1, IdleCall, MoveTo DEF Idle
  <2> QED
    BY <1>2, <1>3, <1>5, <2>2, IdleCall, QuietKeeps DEF CallStatus, CallEvent, Owes, Idle
<1>6. CASE ~(calls[c].op = "enable" /\ calls[c].to) /\ calls[c].op # "disable"
  <2>1. call = Resumed(calls[c])  BY <1>6 DEF AfterStatus
  <2>2. /\ call \in Call /\ Shaped(call) /\ call.op \in {calls[c].op, "none"}
        /\ call.op = "none" => call.at = "idle"
        /\ call.op = "enable" => call.at \in {"set", "activate"}
        /\ call.op = "delete" => call.at = "count"
        /\ call.op = "update" => call.at = "commit"
    BY <1>1, <1>2, <1>6, <2>1, ShapedCarries, ResumedCall, ResumedFields DEF Idle
  <2> HIDE DEF call
  <2>3. Moved(c) /\ calls'[c] = call  BY <1>1, <1>3, <2>2, MoveTo
  <2>4. Orderly => CallStatus(call)
    BY <1>2, <1>4, <1>6, <2>2 DEF Inv, StatusInv, CallStatus
  <2>5. CallEvent(call)
    BY <1>1, <1>2, <1>4, <1>6, <2>2 DEF CallEvent, CallsOK, TypeOK
  <2>6. Lapsed /\ Owes(calls[c]) => Owes(call)
    BY <1>2, <1>4 DEF Lapsed, Owes
  <2>7. call.at # "tell"  BY <1>2, <1>6, <2>2
  <2> QED BY <1>2, <1>3, <2>2, <2>3, <2>4, <2>5, <2>6, <2>7, QuietKeeps
<1> QED BY <1>2, <1>5, <1>6

(* In the transaction of an update the new status waits for the commit.    *)
LEMMA SetInTransactionKeeps ==
    ASSUME Inv, NEW c \in Callers, SetStatus(c), Changes(calls[c].to),
           InTransaction(calls[c])
    PROVE  Inv'
<1> DEFINE call == [calls[c] EXCEPT !.at = "commit", !.changed = TRUE]
<1>1. Shaped(calls[c]) /\ CallsOK /\ calls[c] \in Call
  BY CallTypes DEF Inv, CallsOK
<1>2. calls[c].at = "set" /\ calls[c].op = "update" /\ ~calls[c].to
      /\ calls[c].status # "none"
  BY <1>1 DEF SetStatus, Shaped, InTransaction
<1>3. UNCHANGED <<tables, announced, disturbed>> /\ calls' = [calls EXCEPT ![c] = call]
  BY <1>1, CallTypes DEF SetStatus, tables
<1>4. /\ call \in Call /\ call.at = "commit" /\ call.op = "update" /\ ~call.to
      /\ call.changed /\ call.status # "none"
  BY <1>1, <1>2 DEF Call, Labels
<1> HIDE DEF call
<1>5. Moved(c) /\ calls'[c] = call  BY <1>1, <1>2, <1>3, <1>4, MoveTo
<1>6. Shaped(call)  BY <1>4 DEF Shaped
<1> QED
  BY <1>2, <1>3, <1>4, <1>5, <1>6, QuietKeeps DEF CallStatus, CallEvent, Owes

(* Outside of one the row changes at once and the event follows: a call    *)
(* that is about to tell the opposite has crossed.                         *)
LEMMA SetRowKeeps ==
    ASSUME Inv, NEW c \in Callers, SetStatus(c), Changes(calls[c].to),
           ~InTransaction(calls[c])
    PROVE  Inv'
<1> DEFINE call == [calls[c] EXCEPT !.at = "tell", !.changed = FALSE]
<1>1. Shaped(calls[c]) /\ CallsOK /\ calls[c] \in Call
  BY CallTypes DEF Inv, CallsOK
<1>2. calls[c].at = "set" /\ calls[c].op \in {"enable", "disable", "delete"}
      /\ (calls[c].op # "enable" => ~calls[c].to)
  BY <1>1 DEF SetStatus, Shaped, Idle, Call, Operations, InTransaction, Labels
<1>3. /\ connected /\ enabled # calls[c].to /\ enabled' = calls[c].to
      /\ UNCHANGED <<connected, archived, strategies, default, announced, disturbed>>
      /\ calls' = [calls EXCEPT ![c] = call]
  <2>1. calls' = [calls EXCEPT ![c].at = "tell", ![c].changed = FALSE]
    BY DEF SetStatus
  <2> QED BY <1>1, <2>1, CallTypes DEF SetStatus, Changes
<1>4. /\ call \in Call /\ call.at = "tell" /\ call.op = calls[c].op
      /\ call.to = calls[c].to /\ ~call.changed
  BY <1>1, <1>2 DEF Call, Labels
<1> HIDE DEF call
<1>5. Moved(c) /\ calls'[c] = call  BY <1>1, <1>2, <1>3, <1>4, MoveTo
<1>6. Shaped(call)  BY <1>2, <1>4 DEF Shaped
<1>7. TypeOK'
  <2>1. calls[c].to \in BOOLEAN  BY <1>1 DEF Call
  <2> QED BY <1>1, <1>3, <1>5, <2>1, ChangeTypes DEF CallsOK, TypeOK
<1>8. ASSUME Orderly'
      PROVE  ~Lapsed' /\ \A d \in Callers : CallStatus(calls[d])'
  <2>1. Orderly /\ StatusInv  BY <1>3, <1>8 DEF Orderly, Inv
  <2>2. calls[c].to => calls[c].op = "enable" /\ ~NoneOn(strategies)
    BY <1>2, <2>1 DEF StatusInv, CallStatus
  <2>3. ~Lapsed'
    BY <1>3, <2>2 DEF Lapsed, NoneOn
  <2>4. CallStatus(calls[c])'
    BY <1>2, <1>4, <1>5, <2>1 DEF StatusInv, CallStatus
  <2>5. ASSUME NEW d \in Callers \ {c}
        PROVE  CallStatus(calls[d])'
    <3>1. calls'[d] = calls[d] /\ CallStatus(calls[d])
      BY <1>5, <2>1 DEF StatusInv, Moved
    <3>2. calls[c].to => calls[d].op # "update"
      BY <2>1, <2>2, StatusPairs DEF Inv, Orderly
    <3>3. Seen(calls[d])' = Seen(calls[d])
      BY <1>3, <3>1 DEF Seen, InTransaction
    <3> QED BY <1>3, <3>1, <3>2, <3>3 DEF CallStatus, NoneOn
  <2> QED BY <2>3, <2>4, <2>5
<1>9. ASSUME "event" \notin disturbed'
      PROVE  Telling' /\ \A d \in Callers : CallEvent(calls[d])'
  <2>1. EventInv /\ "event" \notin disturbed  BY <1>3, <1>9 DEF Inv
  <2>2. Telling'  BY <1>4, <1>5 DEF Telling
  <2>3. CallEvent(calls[c])'  BY <1>3, <1>4, <1>5 DEF CallEvent
  <2>4. ASSUME NEW d \in Callers \ {c}
        PROVE  CallEvent(calls[d])'
    <3>1. calls'[d] = calls[d] /\ CallEvent(calls[d]) /\ Shaped(calls[d])
          /\ calls[d] \in Call
      BY <1>1, <1>5, <2>1, CallTypes DEF EventInv, Moved, CallsOK
    <3>2. /\ calls[c].op = "enable" => calls[d].op \notin {"enable", "disable", "delete",
                                                          "update"}
          /\ calls[d].op = "enable" => calls[c].op \notin {"enable", "disable", "delete",
                                                          "update"}
      BY <2>1, EventPairs DEF Inv
    <3>3. calls[d].at # "tell"
      <4>1. SUFFICES ASSUME calls[d].at = "tell"  PROVE FALSE  OBVIOUS
      <4>2. calls[d].to # calls[c].to /\ calls[d].op \in {"enable", "disable", "delete"}
        BY <1>3, <3>1, <4>1 DEF CallEvent, Shaped, Idle, Call, Operations
      <4>3. calls[d].to => calls[d].op = "enable"  BY <3>1 DEF Shaped
      <4>4. calls[d].to \in BOOLEAN /\ calls[c].to \in BOOLEAN  BY <1>1, <3>1 DEF Call
      <4> QED BY <1>2, <3>2, <4>2, <4>3, <4>4
    <3>4. calls[d].op = "delete" => ~calls[c].to
      BY <1>2, <3>2
    <3> QED BY <1>3, <3>1, <3>3, <3>4 DEF CallEvent, Present
  <2> QED BY <2>2, <2>3, <2>4
<1> QED BY <1>3, <1>5, <1>6, <1>7, <1>8, <1>9, ChangeKeeps

(* The event of a status that was set.                                     *)
LEMMA TellStatusKeeps ==
    ASSUME Inv, NEW c \in Callers, TellStatus(c)
    PROVE  Inv'
<1> DEFINE call == AfterStatus(calls[c])
<1>1. Shaped(calls[c]) /\ CallsOK /\ calls[c] \in Call
  BY CallTypes DEF Inv, CallsOK
<1>2. calls[c].at = "tell" /\ calls[c].op \in {"enable", "disable", "delete"}
      /\ (calls[c].op # "enable" => ~calls[c].to)
  BY <1>1 DEF TellStatus, Shaped, Idle, Call, Operations
<1>3. /\ announced' = calls[c].to /\ calls' = [calls EXCEPT ![c] = call]
      /\ UNCHANGED <<tables, disturbed>>
  BY DEF TellStatus
<1>4. /\ call \in Call /\ Shaped(call) /\ call.op \in {calls[c].op, "none"}
      /\ call.at \in {"idle", "set", "activate", "count"}
      /\ call.at = "count" => calls[c].op = "delete"
      /\ call.op = "enable" => ~calls[c].to
      /\ call.op = "delete" => call.at = "count"
  <2>1. CASE (calls[c].op = "enable" /\ calls[c].to) \/ calls[c].op = "disable"
    <3>1. call = Idle  BY <1>1, <2>1, ResumedFields DEF AfterStatus
    <3> QED BY <3>1, IdleCall DEF Idle
  <2>2. CASE ~(calls[c].op = "enable" /\ calls[c].to) /\ calls[c].op # "disable"
    <3>1. call = Resumed(calls[c])  BY <2>2 DEF AfterStatus
    <3> QED BY <1>1, <1>2, <2>2, <3>1, ShapedCarries, ResumedCall, ResumedFields DEF Idle
  <2> QED BY <2>1, <2>2
<1> HIDE DEF call
<1>5. Moved(c) /\ calls'[c] = call  BY <1>1, <1>3, <1>4, MoveTo
<1>6. TypeOK'
  <2>1. calls[c].to \in BOOLEAN  BY <1>1 DEF Call
  <2> QED BY <1>1, <1>3, <1>5, <2>1, ChangeTypes DEF CallsOK, TypeOK, tables
<1>7. ASSUME Orderly'
      PROVE  /\ Lapsed' => Refused' \/ \E d \in Callers : Owes(calls'[d])
             /\ \A d \in Callers : CallStatus(calls[d])'
  <2>1. Orderly /\ StatusInv  BY <1>3, <1>7 DEF Orderly, Inv
  <2>2. Lapsed' = Lapsed /\ Refused' = Refused
    BY <1>3 DEF Lapsed, Refused, NoneOn, tables
  <2>3. ~Owes(calls[c])  BY <1>2 DEF Owes
  <2>4. CallStatus(calls[c])'
    <3>1. call.op # "enable"
      BY <1>4, <2>1, <1>2 DEF StatusInv, CallStatus
    <3> QED BY <1>2, <1>3, <1>4, <1>5, <3>1 DEF CallStatus
  <2>5. ASSUME NEW d \in Callers \ {c}
        PROVE  CallStatus(calls[d])'
    BY <1>3, <1>5, <2>1
       DEF StatusInv, CallStatus, Moved, NoneOn, Seen, InTransaction, tables
  <2> QED BY <1>5, <2>1, <2>2, <2>3, <2>4, <2>5 DEF StatusInv, Owes, Moved
<1>8. ASSUME "event" \notin disturbed'
      PROVE  announced' = enabled' /\ \A d \in Callers : CallEvent(calls[d])'
  <2>1. EventInv /\ "event" \notin disturbed  BY <1>3, <1>8 DEF Inv
  <2>2. enabled = calls[c].to  BY <1>2, <2>1 DEF EventInv, CallEvent
  <2>3. CallEvent(calls[c])'
    BY <1>2, <1>3, <1>4, <1>5, <2>2 DEF CallEvent, tables
  <2> QED
    BY <1>3, <1>5, <2>1, <2>2, <2>3
       DEF EventInv, CallEvent, Present, Moved, tables
<1> QED BY <1>3, <1>4, <1>5, <1>6, <1>7, <1>8, ChangeKeeps
-----------------------------------------------------------------------------
(* unprotectedDeleteStrategy: what it leaves lapsed is in its own hands.   *)
LEMMA RemoveStrategyKeeps ==
    ASSUME Inv, NEW c \in Callers, RemoveStrategy(c)
    PROVE  Inv'
<1>1. Shaped(calls[c]) /\ CallsOK /\ calls[c] \in Call
  BY CallTypes DEF Inv, CallsOK
<1>2. calls[c].at = "remove" /\ calls[c].op = "delete" /\ ~calls[c].to /\ ~calls[c].changed
  BY <1>1 DEF RemoveStrategy, Shaped, Idle, Call, Operations
<1>3. PICK s \in calls[c].ids : strategies' = [strategies EXCEPT ![s] = "none"]
  BY DEF RemoveStrategy
<1>4. /\ Goto(c, "left")
      /\ UNCHANGED <<connected, enabled, archived, default, announced, disturbed>>
  BY DEF RemoveStrategy
<1>5. /\ Moved(c) /\ calls'[c].at = "left" /\ calls'[c].op = "delete"
      /\ ~calls'[c].to /\ ~calls'[c].changed
  BY <1>1, <1>2, <1>4, GotoMoves DEF Labels
<1>6. Shaped(calls'[c])  BY <1>5 DEF Shaped
<1>7. /\ s \in Strategies /\ strategies' \in [Strategies -> Statuses]
      /\ \A t \in Strategies : strategies'[t] \in {"none", strategies[t]}
  BY <1>1, <1>3 DEF CallsOK, TypeOK, Call, Statuses
<1>8. TypeOK'  BY <1>1, <1>4, <1>5, <1>7, ChangeTypes DEF CallsOK, TypeOK
<1>9. ASSUME Orderly'
      PROVE  /\ Owes(calls'[c])
             /\ \A d \in Callers : CallStatus(calls[d])'
  <2>1. Orderly /\ StatusInv  BY <1>4, <1>9 DEF Orderly, Inv
  <2>2. Owes(calls'[c]) /\ CallStatus(calls[c])'  BY <1>5 DEF Owes, CallStatus
  <2>3. ASSUME NEW d \in Callers \ {c}
        PROVE  CallStatus(calls[d])'
    <3>1. calls'[d] = calls[d] /\ CallStatus(calls[d])
      BY <1>5, <2>1 DEF StatusInv, Moved
    <3>2. calls[d].op \notin {"enable", "update"}
      BY <1>2, <2>1, StatusPairs DEF Inv, Orderly
    <3>3. calls[d].ids \subseteq Strategies  BY <1>1 DEF CallsOK, TypeOK
    <3>4. calls[d].op = "parameter" =>
              \A t \in calls[d].ids : strategies'[t] \in {"none", calls[d].status}
      BY <1>7, <3>1, <3>3 DEF CallStatus
    <3> QED BY <3>1, <3>2, <3>4 DEF CallStatus
  <2> QED BY <2>2, <2>3
<1>10. ASSUME "event" \notin disturbed'
       PROVE  /\ Telling' \/ announced' = enabled'
              /\ \A d \in Callers : CallEvent(calls[d])'
  <2>1. EventInv /\ "event" \notin disturbed  BY <1>4, <1>10 DEF Inv
  <2>2. Telling' = Telling  BY <1>2, <1>5 DEF Telling, Moved
  <2>3. \A d \in Callers \ {c} : calls[d].op # "delete"
    BY <1>2, <2>1, EventPairs DEF Inv
  <2> QED
    BY <1>4, <1>5, <2>1, <2>2, <2>3 DEF EventInv, CallEvent, Moved
<1> QED BY <1>4, <1>5, <1>6, <1>8, <1>9, <1>10, ChangeKeeps

(* disableEnvironmentIfNoStrategies finds the feature disabled already.    *)
LEMMA SweepKeeps ==
    ASSUME Inv, NEW c \in Callers, Sweep(c)
    PROVE  Inv'
<1>1. Shaped(calls[c]) /\ CallsOK /\ calls[c] \in Call
  BY CallTypes DEF Inv, CallsOK
<1>2. calls[c].at = "sweep" /\ calls[c].op = "delete"
  BY <1>1 DEF Sweep, Shaped, Idle, Call, Operations
<1>3. /\ enabled' = FALSE
      /\ UNCHANGED <<connected, archived, strategies, default, announced, disturbed>>
  BY DEF Sweep
<1>4. Moved(c) /\ calls'[c] = Idle  BY <1>1, EndMoves DEF Sweep
<1>5. TypeOK'  BY <1>1, <1>3, <1>4, ChangeTypes DEF CallsOK, TypeOK
<1>6. ASSUME Orderly'
      PROVE  ~Lapsed' /\ \A d \in Callers : CallStatus(calls[d])'
  <2>1. Orderly /\ StatusInv  BY <1>3, <1>6 DEF Orderly, Inv
  <2> QED
    BY <1>3, <1>4, <2>1 DEF StatusInv, CallStatus, Lapsed, Moved, Idle, NoneOn
<1>7. ASSUME "event" \notin disturbed'
      PROVE  /\ Telling' \/ announced' = enabled'
             /\ \A d \in Callers : CallEvent(calls[d])'
  <2>1. EventInv /\ "event" \notin disturbed  BY <1>3, <1>7 DEF Inv
  <2>2. enabled' = enabled  BY <1>1, <1>2, <1>3, <2>1 DEF EventInv, CallEvent, CallsOK, TypeOK
  <2>3. Telling' = Telling  BY <1>2, <1>4 DEF Telling, Moved, Idle
  <2> QED
    BY <1>3, <1>4, <2>1, <2>2, <2>3 DEF EventInv, CallEvent, Present, Moved, Idle
<1> QED BY <1>3, <1>4, <1>5, <1>6, <1>7, IdleCall, ChangeKeeps

(* The commit of an update publishes its strategy and its status at once.  *)
LEMMA CommitUpdateKeeps ==
    ASSUME Inv, NEW c \in Callers, CommitUpdate(c)
    PROVE  Inv'
<1>1. Shaped(calls[c]) /\ CallsOK /\ calls[c] \in Call
  BY CallTypes DEF Inv, CallsOK
<1>2. calls[c].at = "commit" /\ calls[c].op = "update" /\ calls[c].status # "none"
  BY <1>1 DEF CommitUpdate, Shaped, Idle, Call, Operations
<1>3. /\ strategies' = Seen(calls[c])
      /\ enabled' = (enabled /\ ~calls[c].changed)
      /\ announced' = (announced /\ ~calls[c].changed)
      /\ UNCHANGED <<connected, archived, default, disturbed>>
  BY DEF CommitUpdate
<1>4. Moved(c) /\ calls'[c] = Idle  BY <1>1, EndMoves DEF CommitUpdate
<1>5. /\ strategies' \in [Strategies -> Statuses]
      /\ \A s \in Strategies : strategies[s] # "none" => strategies'[s] # "none"
  BY <1>1, <1>2, <1>3 DEF Seen, CallsOK, TypeOK, Call
<1>6. TypeOK'
  <2>1. calls[c].changed \in BOOLEAN  BY <1>1 DEF Call
  <2> QED BY <1>1, <1>3, <1>4, <1>5, <2>1, ChangeTypes DEF CallsOK, TypeOK
<1>7. ASSUME Orderly'
      PROVE  ~Lapsed' /\ \A d \in Callers : CallStatus(calls[d])'
  <2>1. Orderly /\ StatusInv  BY <1>3, <1>7 DEF Orderly, Inv
  <2>2. ~Lapsed'
    BY <1>2, <1>3, <2>1 DEF StatusInv, CallStatus, Lapsed
  <2>3. \A d \in Callers \ {c} : calls[d].op \notin {"enable", "update", "parameter"}
    BY <1>2, <2>1, StatusPairs DEF Inv, Orderly
  <2> QED BY <1>4, <2>2, <2>3 DEF CallStatus, Moved, Idle
<1>8. ASSUME "event" \notin disturbed'
      PROVE  /\ Telling' \/ announced' = enabled'
             /\ \A d \in Callers : CallEvent(calls[d])'
  <2>1. EventInv /\ "event" \notin disturbed  BY <1>3, <1>8 DEF Inv
  <2>2. Telling' = Telling  BY <1>2, <1>4 DEF Telling, Moved, Idle
  <2>3. Present # {} => Present' # {}  BY <1>5 DEF Present
  <2>4. \A d \in Callers \ {c} : calls[d].to = FALSE
    <3>1. \A d \in Callers \ {c} : calls[d].op # "enable"
      BY <1>2, <2>1, EventPairs DEF Inv
    <3> QED BY <1>1, <3>1, CallTypes DEF CallsOK, Shaped, Call
  <2>5. \A d \in Callers \ {c} : CallEvent(calls[d])'
    BY <1>3, <1>4, <2>1, <2>3, <2>4 DEF EventInv, CallEvent, Moved
  <2>6. CallEvent(calls[c])'  BY <1>4 DEF CallEvent, Idle
  <2> QED BY <1>3, <2>1, <2>2, <2>5, <2>6 DEF EventInv
<1> QED BY <1>3, <1>4, <1>6, <1>7, <1>8, IdleCall, ChangeKeeps

(* updateStrategyParameter writes back what is there, unless it crossed.   *)
LEMMA PatchStrategyKeeps ==
    ASSUME Inv, NEW c \in Callers, PatchStrategy(c)
    PROVE  Inv'
<1>1. Shaped(calls[c]) /\ CallsOK /\ calls[c] \in Call
  BY CallTypes DEF Inv, CallsOK
<1>2. calls[c].at = "patch" /\ calls[c].op = "parameter" /\ calls[c].status # "none"
  BY <1>1 DEF PatchStrategy, Shaped, Idle, Call, Operations
<1>3. PICK s \in calls[c].ids :
          strategies' = [strategies EXCEPT ![s] = IF s \in Present THEN calls[c].status ELSE @]
  BY DEF PatchStrategy
<1>4. UNCHANGED <<connected, enabled, archived, default, announced, disturbed>>
  BY DEF PatchStrategy
<1>5. Moved(c) /\ calls'[c] = Idle  BY <1>1, EndMoves DEF PatchStrategy
<1>6. /\ strategies \in [Strategies -> Statuses] /\ s \in Strategies
      /\ strategies' \in [Strategies -> Statuses]
      /\ \A t \in Strategies : strategies'[t] = "none" <=> strategies[t] = "none"
  BY <1>1, <1>2, <1>3 DEF CallsOK, TypeOK, Call, Present
<1>7. TypeOK'  BY <1>1, <1>4, <1>5, <1>6, ChangeTypes DEF CallsOK, TypeOK
<1>8. ASSUME Orderly'
      PROVE  /\ Lapsed' => Refused' \/ \E d \in Callers : Owes(calls'[d])
             /\ \A d \in Callers : CallStatus(calls[d])'
  <2>1. Orderly /\ StatusInv  BY <1>4, <1>8 DEF Orderly, Inv
  <2>2. strategies[s] \in {"none", calls[c].status}
    BY <1>2, <2>1 DEF StatusInv, CallStatus
  <2>3. strategies' = strategies  BY <1>3, <1>6, <2>2 DEF Present
  <2>4. ~Owes(calls[c])  BY <1>2 DEF Owes
  <2>5. Lapsed' => Refused' \/ \E d \in Callers : Owes(calls'[d])
    BY <1>4, <1>5, <2>1, <2>3, <2>4 DEF StatusInv, Lapsed, Refused, Moved, NoneOn
  <2>6. \A d \in Callers \ {c} : CallStatus(calls[d])'
    BY <1>4, <1>5, <2>1, <2>3
       DEF StatusInv, CallStatus, Moved, NoneOn, Seen, InTransaction
  <2>7. CallStatus(calls[c])'  BY <1>5 DEF CallStatus, Idle
  <2> QED BY <2>5, <2>6, <2>7
<1>9. ASSUME "event" \notin disturbed'
      PROVE  /\ Telling' \/ announced' = enabled'
             /\ \A d \in Callers : CallEvent(calls[d])'
  <2>1. EventInv /\ "event" \notin disturbed  BY <1>4, <1>9 DEF Inv
  <2>2. Telling' = Telling  BY <1>2, <1>5 DEF Telling, Moved, Idle
  <2>3. Present' = Present  BY <1>6 DEF Present
  <2> QED
    BY <1>4, <1>5, <2>1, <2>2, <2>3 DEF EventInv, CallEvent, Moved, Idle
<1> QED BY <1>4, <1>5, <1>7, <1>8, <1>9, IdleCall, ChangeKeeps

(* A deletion that gives up before it has disabled the feature, and a call *)
(* that gives up before its event, are noted.                              *)
LEMMA GiveUpKeeps ==
    ASSUME Inv, NEW c \in Callers, GiveUp(c)
    PROVE  Inv'
<1>1. CallsOK  BY DEF Inv
<1>2. /\ UNCHANGED <<tables, announced>> /\ disturbed \subseteq disturbed'
      /\ disturbed' \subseteq disturbed \cup {"status", "event"}
      /\ "status" \notin disturbed' => ~(calls[c].op = "delete" /\ calls[c].at # "remove")
      /\ "event" \notin disturbed' => calls[c].at # "tell"
  BY DEF GiveUp
<1>3. Moved(c) /\ calls'[c] = Idle  BY <1>1, EndMoves DEF GiveUp
<1>4. TypeOK'  BY <1>1, <1>2, <1>3 DEF CallsOK, TypeOK, Moved, Call, tables
<1>5. ASSUME Orderly'
      PROVE  /\ Lapsed' => Refused' \/ \E d \in Callers : Owes(calls'[d])
             /\ \A d \in Callers : CallStatus(calls[d])'
  <2>1. Orderly /\ StatusInv  BY <1>2, <1>5 DEF Orderly, Inv
  <2>2. ~Owes(calls[c])  BY <1>2, <1>5 DEF Owes, Orderly
  <2>3. Lapsed' => Refused' \/ \E d \in Callers : Owes(calls'[d])
    BY <1>2, <1>3, <2>1, <2>2 DEF StatusInv, Lapsed, Refused, Moved, NoneOn, tables
  <2>4. \A d \in Callers \ {c} : CallStatus(calls[d])'
    BY <1>2, <1>3, <2>1
       DEF StatusInv, CallStatus, Moved, NoneOn, Seen, InTransaction, tables
  <2>5. CallStatus(calls[c])'  BY <1>3 DEF CallStatus, Idle
  <2> QED BY <2>3, <2>4, <2>5
<1>6. ASSUME "event" \notin disturbed'
      PROVE  /\ Telling' \/ announced' = enabled'
             /\ \A d \in Callers : CallEvent(calls[d])'
  <2>1. EventInv /\ "event" \notin disturbed  BY <1>2, <1>6 DEF Inv
  <2>2. Telling' = Telling  BY <1>2, <1>3, <1>6 DEF Telling, Moved, Idle
  <2> QED
    BY <1>2, <1>3, <2>1, <2>2 DEF EventInv, CallEvent, Present, Moved, Idle, tables
<1> QED BY <1>2, <1>3, <1>4, <1>5, <1>6, IdleCall, ChangeKeeps

-----------------------------------------------------------------------------
(* What changes the rows in one commit, around the calls.                  *)
LEMMA AroundKeeps ==
    ASSUME Inv, UNCHANGED <<calls, strategies>>, disturbed \subseteq disturbed',
           disturbed' \subseteq disturbed \cup {"status", "event"},
           connected' \in BOOLEAN, archived' \in BOOLEAN, default' \in Defaults,
           enabled' \in BOOLEAN, enabled' => connected', announced' \in BOOLEAN,
           ~enabled' \/ (connected' = connected /\ enabled' = enabled),
           "status" \notin disturbed' /\ enabled' /\ Refused => archived',
           \/ enabled' = enabled /\ announced' = announced
           \/ ~enabled' /\ ~announced' /\ ("event" \notin disturbed' => ~Telling)
    PROVE  Inv'
<1>1. CallsOK'  BY DEF Inv, CallsOK, TypeOK, Shaped
<1>2. Apart'  BY DEF Inv, Apart, CrossStatus, CrossEvents
<1>3. StatusInv'
  <2> SUFFICES ASSUME Orderly'
               PROVE  /\ Lapsed' => Refused' \/ \E d \in Callers : Owes(calls'[d])
                      /\ \A d \in Callers : CallStatus(calls[d])'
    BY DEF StatusInv, Orderly, Owes
  <2>1. StatusInv /\ Orderly  BY DEF Inv, Orderly
  <2>2. Lapsed' => Lapsed /\ (Refused => Refused')
    BY DEF Lapsed, Refused, NoneOn, Orderly
  <2>3. \A d \in Callers : CallStatus(calls[d])'
    BY <2>1 DEF StatusInv, CallStatus, NoneOn, Seen, InTransaction
  <2> QED BY <2>1, <2>2, <2>3 DEF StatusInv
<1>4. EventInv'
  <2> SUFFICES ASSUME "event" \notin disturbed'  PROVE EventInv'  BY DEF EventInv
  <2>1. EventInv /\ "event" \notin disturbed  BY DEF Inv
  <2>2. Telling' = Telling /\ Present' = Present  BY DEF Telling, Present
  <2>3. CASE enabled' = enabled /\ announced' = announced
    BY <2>1, <2>2, <2>3 DEF EventInv, CallEvent
  <2>4. CASE ~enabled' /\ ~announced' /\ ~Telling
    BY <2>1, <2>2, <2>4 DEF EventInv, CallEvent, Telling
  <2> QED BY <2>3, <2>4
<1> QED BY <1>1, <1>2, <1>3, <1>4 DEF Inv

LEMMA EnvironmentKeeps ==
    ASSUME Inv, Archive \/ Revive \/ UpdateFeature
                \/ RemoveEnvironment \/ AddEnvironment \/ SetDefault
    PROVE  Inv'
<1> USE AroundKeeps DEF Refused
<1>1. TypeOK  BY DEF Inv, CallsOK
<1>2. CASE Archive
  <2>1. /\ UNCHANGED <<calls, strategies, connected, enabled, announced, default, disturbed>>
        /\ archived' = TRUE
    BY <1>2 DEF Archive
  <2> QED BY <1>1, <2>1 DEF TypeOK
<1>3. CASE Revive  BY <1>1, <1>3 DEF Revive, Overtaken, TypeOK
<1>4. CASE RemoveEnvironment
  BY <1>1, <1>4, DefaultsAssumption DEF RemoveEnvironment, Overtaken, TypeOK
<1>5. CASE AddEnvironment
  <2>1. /\ UNCHANGED <<calls, strategies, archived, enabled, announced, default, disturbed>>
        /\ connected' = TRUE /\ ~enabled
    BY <1>1, <1>5 DEF AddEnvironment, TypeOK
  <2> QED BY <1>1, <2>1 DEF TypeOK
<1>6. CASE SetDefault
  <2>1. /\ UNCHANGED <<calls, strategies, connected, archived, enabled, announced, disturbed>>
        /\ default' \in Defaults
    BY <1>6 DEF SetDefault
  <2> QED BY <1>1, <2>1 DEF TypeOK
<1>7. CASE UpdateFeature
  <2>1. /\ UNCHANGED <<calls, strategies, connected, enabled, announced, default>>
        /\ archived' \in BOOLEAN /\ disturbed \subseteq disturbed'
        /\ disturbed' \subseteq disturbed \cup {"status"}
        /\ archived /\ ~archived' /\ enabled /\ "refused" \in disturbed =>
               "status" \in disturbed'
    BY <1>7 DEF UpdateFeature
  <2> QED BY <1>1, <2>1 DEF TypeOK
<1> QED BY <1>2, <1>3, <1>4, <1>5, <1>6, <1>7

LEMMA Unmoved == Inv /\ UNCHANGED vars => Inv'
<1> SUFFICES ASSUME Inv, UNCHANGED vars  PROVE Inv'  OBVIOUS
<1>1. TypeOK  BY DEF Inv, CallsOK
<1>2. UNCHANGED <<connected, enabled, archived, strategies, default, announced, calls,
                  disturbed>>
  BY DEF vars
<1> QED BY <1>1, <1>2, AroundKeeps DEF TypeOK, Refused

-----------------------------------------------------------------------------
LEMMA CallKeeps ==
    ASSUME Inv, NEW c \in Callers, Start(c) \/ Status(c) \/ Step(c)
    PROVE  Inv'
<1>1. CASE Start(c)  BY <1>1, StartKeeps
<1>2. CASE Status(c)
  BY <1>2, FindRowKeeps, FindLiveKeeps, ListStrategiesKeeps, ActivateKeeps,
     CheckStrategiesKeeps, ReadDefaultKeeps, InsertStrategyKeeps, SetNothingKeeps,
     SetInTransactionKeeps, SetRowKeeps, TellStatusKeeps DEF Status
<1>3. CASE Step(c)
  BY <1>3, RemoveStrategyKeeps, ListLeftKeeps, CountStrategiesKeeps, SweepKeeps,
     WriteStrategyKeeps, CommitUpdateKeeps, PatchStrategyKeeps, GiveUpKeeps DEF Step
<1> QED BY <1>1, <1>2, <1>3

LEMMA InvariantHolds == Spec => []Inv
<1>1. Inv /\ [Next]_vars => Inv'
  BY CallKeeps, EnvironmentKeeps, Unmoved DEF Next
<1> QED BY Initially, <1>1, PTL DEF Spec

(* The types of the row, the strategies and the calls; no row, nothing     *)
(* enabled.                                                                *)
THEOREM FeatureEnvironmentTypeOK == Spec => []TypeOK
<1>1. Inv => TypeOK  BY DEF Inv, CallsOK
<1> QED BY <1>1, InvariantHolds, PTL

(* unprotectedDeleteStrategy, optionallyDisableFeature and updateEnabled,  *)
(* query by query: a feature at rest that is live and enabled has a        *)
(* strategy that is on, unless calls crossed, a deletion was cut short, or *)
(* updateFeatureToggle revived it after a deletion was refused to disable  *)
(* it.  A default strategy that is off breaks it without any of these.     *)
THEOREM FeaturesLapseOnlyIfDisturbed ==
    ASSUME "off" \notin Defaults
    PROVE  Spec => []LapsesOnlyIfDisturbed
<1>1. Inv => LapsesOnlyIfDisturbed
  <2> SUFFICES ASSUME Inv, AtRest, "status" \notin disturbed  PROVE HasStrategyOn
    BY DEF LapsesOnlyIfDisturbed
  <2>1. \A c \in Callers : ~Owes(calls[c])  BY DEF AtRest, Active, Owes
  <2>2. Lapsed => archived  BY <2>1 DEF Inv, StatusInv, Orderly, Refused
  <2> QED BY <2>2 DEF Lapsed, HasStrategyOn
<1> QED BY <1>1, InvariantHolds, PTL

(* setEnvironmentEnabledStatus and the event it stores afterwards: unless  *)
(* calls crossed, the last event tells what the row says.                  *)
THEOREM LastEventTellsStatus == Spec => []EventsTellStatus
<1>1. Inv => EventsTellStatus
  <2> SUFFICES ASSUME Inv, AtRest, "event" \notin disturbed  PROVE announced = enabled
    BY DEF EventsTellStatus
  <2>1. ~Telling  BY DEF AtRest, Active, Telling, Inv, CallsOK, Shaped, Idle
  <2> QED BY <2>1 DEF Inv, EventInv
<1> QED BY <1>1, InvariantHolds, PTL
=============================================================================
