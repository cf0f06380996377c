----------------------- MODULE LockCoordinator_proofs -----------------------
(***************************************************************************)
(* Theorems about LockCoordinator, for any number of tasks and any bounds. *)
(***************************************************************************)
EXTENDS LockCoordinator, TLAPS

\* Where a poll may go next.
NextStages == (PollStage \ {"idle", "state"}) \cup {"done"}

LEMMA CourseType ==
    ASSUME NEW new, NEW st
    PROVE  /\ AfterGateways(st) \in NextStages
           /\ AfterPassage(st) \in NextStages
           /\ AfterState(st) \in NextStages
           /\ WithoutBle(new, st) \in NextStages
           /\ AfterSensor(new, st) \in NextStages
           /\ AfterDetails(new, st) \in NextStages
           /\ AtStart(new, st) \in NextStages
  <1>1. AfterGateways(st) \in NextStages
    BY DEF AfterGateways, NextStages, PollStage
  <1>2. AfterPassage(st) \in NextStages
    BY <1>1 DEF AfterPassage, NextStages, PollStage
  <1>3. AfterState(st) \in NextStages
    BY <1>2 DEF AfterState, NextStages, PollStage
  <1>4. WithoutBle(new, st) \in NextStages
    BY <1>3 DEF WithoutBle, NextStages, PollStage
  <1>5. AfterSensor(new, st) \in NextStages
    BY <1>4 DEF AfterSensor, NextStages, PollStage
  <1>6. AfterDetails(new, st) \in NextStages
    BY <1>5 DEF AfterDetails, NextStages, PollStage
  <1>7. AtStart(new, st) \in NextStages
    BY <1>6 DEF AtStart, NextStages, PollStage
  <1> QED BY <1>1, <1>2, <1>3, <1>4, <1>5, <1>6, <1>7

LEMMA IdleType ==
    /\ NoData \in Data /\ NoData.locked = "unknown"
    /\ IdlePoll \in Poll /\ IdleCommand \in Command /\ IdleRefresh \in Refresh
  <1>1. NoData \in Data /\ NoData.locked = "unknown"
    BY DEF NoData, Data, View, Setting
  <1> QED
    BY <1>1 DEF IdlePoll, Poll, PollStage, Reply, IdleCommand, Command,
                CommandStage, Position, IdleRefresh, Refresh

\* Changing one field of the data keeps its type and the other fields.
LEMMA DataUpdate ==
    ASSUME NEW d \in Data
    PROVE  /\ \A v \in View : [d EXCEPT !.locked = v] \in Data
           /\ \A b \in BOOLEAN : /\ [d EXCEPT !.pending = b] \in Data
                                 /\ [d EXCEPT !.pending = b].locked = d.locked
                                 /\ [d EXCEPT !.sensor = b] \in Data
                                 /\ [d EXCEPT !.sensor = b].locked = d.locked
           /\ \A t \in Tiers, s \in Setting :
                /\ [d EXCEPT !.config[t] = s] \in Data
                /\ [d EXCEPT !.config[t] = s].locked = d.locked
  <1>1. \A v \in View : [d EXCEPT !.locked = v] \in Data
    BY DEF Data
  <1>2. ASSUME NEW b \in BOOLEAN
        PROVE  /\ [d EXCEPT !.pending = b] \in Data
               /\ [d EXCEPT !.pending = b].locked = d.locked
    BY DEF Data
  <1>3. ASSUME NEW b \in BOOLEAN
        PROVE  /\ [d EXCEPT !.sensor = b] \in Data
               /\ [d EXCEPT !.sensor = b].locked = d.locked
    BY DEF Data
  <1>4. ASSUME NEW t \in Tiers, NEW s \in Setting
        PROVE  /\ [d EXCEPT !.config[t] = s] \in Data
               /\ [d EXCEPT !.config[t] = s].locked = d.locked
    BY DEF Data
  <1> QED BY <1>1, <1>2, <1>3, <1>4

\* A poll that goes on or returns keeps the types.
LEMMA ContinueType ==
    ASSUME TypeOK, NEW p \in Polls, NEW new \in Data, NEW next \in NextStages,
           Continue(p, new, next)
    PROVE  data' \in Data /\ ok' \in BOOLEAN /\ polls' \in [Polls -> Poll]
  <1>1. CASE next = "done"
    BY <1>1, IdleType DEF Continue, Publish, TypeOK
  <1>2. CASE next # "done"
    <2>1. [stage |-> next, new |-> new, reply |-> "none"] \in Poll
      BY <1>2 DEF Poll, NextStages, Reply
    <2> QED BY <1>2, <2>1 DEF Continue, TypeOK
  <1> QED BY <1>1, <1>2

LEMMA InitType == Init => TypeOK
  <1> SUFFICES ASSUME Init PROVE TypeOK
    OBVIOUS
  <1>1. data \in Data /\ polls \in [Polls -> Poll]
          /\ commands \in [Commands -> Command]
          /\ refreshes \in [Refreshes -> Refresh]
    BY IdleType DEF Init
  <1>2. cloud \in [Tiers -> Setting] /\ stamp \in [Tiers -> Age]
    BY DEF Init, Age
  <1>3. mail \in [Kind -> Nat] /\ timers \in Nat
    BY DEF Init
  <1>4. seen \subseteq {"unlocked", "unclear"} /\ bolt \in Position
    BY DEF Init
  <1> QED BY <1>1, <1>2, <1>3, <1>4 DEF Init, TypeOK

\* Each step of a poll keeps the types.
LEMMA PollType ==
    ASSUME TypeOK, NEW p \in Polls,
           BeginPoll(p) \/ UpdateState(p) \/ PollProgress(p)
    PROVE  TypeOK'
  <1> USE CourseType, IdleType
  <1> DEFINE now == polls[p]
  <1>0. /\ data \in Data /\ now.new \in Data /\ now.stage \in PollStage
        /\ now.reply \in Reply
        /\ cloud \in [Tiers -> Setting] /\ stamp \in [Tiers -> Age]
        /\ bolt \in Position /\ bolt \in Reply
    BY DEF TypeOK, Poll, Reply, Position
  <1>1. CASE BeginPoll(p)
    BY <1>0, <1>1, ContinueType DEF BeginPoll, Begin, TypeOK, worldVars
  <1>2. CASE UpdateState(p)
    <2> DEFINE forgotten == [data EXCEPT !.locked = "unknown"]
               next == AtStart(forgotten, stamp)
    <2>1. forgotten \in Data
      BY <1>0, DataUpdate DEF View
    <2>2. next \in {"details", "sensor", "ble", "gateway"}
      <3>1. forgotten.locked = "unknown"
        BY <1>0 DEF Data
      <3>2. WithoutBle(forgotten, stamp) = "gateway"
        BY <3>1 DEF WithoutBle
      <3>3. AfterSensor(forgotten, stamp) \in {"ble", "gateway"}
        BY <3>2 DEF AfterSensor
      <3>4. AfterDetails(forgotten, stamp) \in {"sensor", "ble", "gateway"}
        BY <3>3 DEF AfterDetails
      <3> QED BY <3>4 DEF AtStart
    <2>3. [stage |-> next, new |-> forgotten, reply |-> "none"] \in Poll
      BY <2>1, <2>2 DEF Poll, PollStage, Reply
    <2>4. polls' \in [Polls -> Poll] /\ data' \in Data
      BY <1>2, <2>1, <2>3 DEF UpdateState, TypeOK
    <2> QED BY <1>2, <2>4 DEF UpdateState, Begin, TypeOK, worldVars
  <1>3. CASE PollDetails(p)
    <2>1. cloud.details \in Setting
      BY <1>0 DEF Tiers
    <2>2. [now.new EXCEPT !.config.details = cloud.details] \in Data
      BY <1>0, <2>1, DataUpdate DEF Tiers
    <2>3. stamp' \in [Tiers -> Age]
      BY <1>0, <1>3 DEF PollDetails, Age
    <2> QED
      BY <1>3, <2>2, <2>3, ContinueType
         DEF PollDetails, TypeOK, worldVars, historyVars
  <1>4. CASE PollSensor(p)
    <2>1. PICK present \in BOOLEAN :
            Continue(p, [now.new EXCEPT !.sensor = present],
                     AfterSensor([now.new EXCEPT !.sensor = present], stamp))
      BY <1>4 DEF PollSensor
    <2>2. [now.new EXCEPT !.sensor = present] \in Data
      BY <1>0, DataUpdate
    <2>3. data' \in Data /\ ok' \in BOOLEAN /\ polls' \in [Polls -> Poll]
      BY <2>1, <2>2, ContinueType
    <2> QED BY <1>4, <2>3 DEF PollSensor, TypeOK, worldVars, historyVars
  <1>5. CASE LockAnswersBle(p)
    <2>1. PICK reply \in {bolt, "silent"} :
            polls' = [polls EXCEPT ![p].reply = reply]
      BY <1>5 DEF LockAnswersBle
    <2>2. reply \in Reply
      BY <1>0, <2>1 DEF Reply
    <2>3. polls' \in [Polls -> Poll]
      BY <2>1, <2>2 DEF TypeOK, Poll
    <2> QED BY <1>5, <2>3 DEF LockAnswersBle, TypeOK, worldVars, historyVars
  <1>6. CASE PollBle(p)
    <2> DEFINE new == IF now.reply \in Position
                      THEN [now.new EXCEPT !.locked = now.reply] ELSE now.new
               next == IF now.reply \in Position THEN AfterState(stamp)
                       ELSE WithoutBle(new, stamp)
    <2>1. new \in Data
      BY <1>0, DataUpdate DEF View
    <2>2. next \in NextStages
      OBVIOUS
    <2>3. Continue(p, new, next)
      BY <1>6 DEF PollBle
    <2> HIDE DEF new, next
    <2>4. data' \in Data /\ ok' \in BOOLEAN /\ polls' \in [Polls -> Poll]
      BY <2>1, <2>2, <2>3, ContinueType
    <2> QED BY <1>6, <2>4 DEF PollBle, TypeOK, worldVars, historyVars
  <1>7. CASE PollTakesGateway(p)
    <2>1. polls' \in [Polls -> Poll] /\ gw' \subseteq Polls \cup Commands
      BY <1>7 DEF PollTakesGateway, TypeOK, Poll, PollStage
    <2> QED BY <1>7, <2>1 DEF PollTakesGateway, TypeOK, worldVars, historyVars
  <1>8. CASE CloudAnswersState(p)
    <2>1. PICK reply \in {bolt, "unclear", "error"} :
            /\ polls' = [polls EXCEPT ![p].reply = reply]
            /\ IF reply = bolt THEN UNCHANGED faults ELSE Fault
            /\ seen' = seen \cup ({reply} \cap {"unclear"})
      BY <1>8 DEF CloudAnswersState
    <2>2. reply \in Reply
      BY <1>0, <2>1 DEF Reply
    <2>3. polls' \in [Polls -> Poll]
      BY <2>1, <2>2 DEF TypeOK, Poll
    <2>4. seen' \subseteq {"unlocked", "unclear"} /\ faults' \in Nat
      BY <2>1 DEF TypeOK, Fault
    <2> QED BY <1>8, <2>3, <2>4 DEF CloudAnswersState, TypeOK, worldVars
  <1>9. CASE PollState(p)
    <2> DEFINE read == [now.new EXCEPT !.locked = ReadAsPosition(now.reply)]
    <2>1. read \in Data
      BY <1>0, DataUpdate DEF View, Position, ReadAsPosition
    <2>2. \/ Continue(p, read, AfterState(stamp))
          \/ Continue(p, now.new, AfterState(stamp))
          \/ FailPoll(p)
      BY <1>9 DEF PollState
    <2> HIDE DEF read
    <2>3. data' \in Data /\ ok' \in BOOLEAN /\ polls' \in [Polls -> Poll]
      <3>1. CASE Continue(p, read, AfterState(stamp))
        BY <2>1, <3>1, ContinueType
      <3>2. CASE Continue(p, now.new, AfterState(stamp))
        BY <1>0, <3>2, ContinueType
      <3>3. CASE FailPoll(p)
        BY <3>3 DEF FailPoll, TypeOK
      <3> QED BY <2>2, <3>1, <3>2, <3>3
    <2>4. gw' \subseteq Polls \cup Commands
      BY <1>9 DEF PollState, TypeOK
    <2> QED BY <1>9, <2>3, <2>4 DEF PollState, TypeOK, worldVars, historyVars
  <1>10. CASE PollPassage(p)
    <2>1. [now.new EXCEPT !.config.passage = cloud.passage] \in Data
      BY <1>0, DataUpdate DEF Tiers
    <2>2. stamp' \in [Tiers -> Age]
      BY <1>0, <1>10 DEF PollPassage, Age
    <2> QED
      BY <1>10, <2>1, <2>2, ContinueType
         DEF PollPassage, TypeOK, worldVars, historyVars
  <1>11. CASE PollGateways(p)
    <2>1. [now.new EXCEPT !.config.gateways = cloud.gateways] \in Data
      BY <1>0, DataUpdate DEF Tiers
    <2>2. stamp' \in [Tiers -> Age]
      BY <1>0, <1>11 DEF PollGateways, Age
    <2> QED
      BY <1>11, <2>1, <2>2, ContinueType
         DEF PollGateways, TypeOK, worldVars, historyVars
  <1>12. CASE PollPasscodes(p)
    <2>1. [now.new EXCEPT !.config.codes = cloud.codes] \in Data
      BY <1>0, DataUpdate DEF Tiers
    <2>2. "ekeys" \in NextStages
      BY DEF NextStages, PollStage
    <2> QED
      BY <1>12, <2>1, <2>2, ContinueType
         DEF PollPasscodes, TypeOK, worldVars, historyVars
  <1>13. CASE PollEkeys(p)
    <2>1. stamp' \in [Tiers -> Age] /\ "done" \in NextStages
      BY <1>0, <1>13 DEF PollEkeys, Age, NextStages
    <2> QED
      BY <1>0, <1>13, <2>1, ContinueType
         DEF PollEkeys, TypeOK, worldVars, historyVars
  <1>14. CASE PollFails(p)
    <2>1. polls' \in [Polls -> Poll] /\ data' \in Data /\ ok' \in BOOLEAN
      BY <1>0, <1>14 DEF PollFails, FailPoll, TypeOK
    <2>2. faults' \in Nat
      BY <1>14 DEF PollFails, Fault, TypeOK
    <2> QED BY <1>14, <2>1, <2>2 DEF PollFails, TypeOK, worldVars, historyVars
  <1> QED
    BY <1>1, <1>2, <1>3, <1>4, <1>5, <1>6, <1>7, <1>8, <1>9, <1>10, <1>11,
       <1>12, <1>13, <1>14 DEF PollProgress


\* Posting a webhook and moving the bolt keep the types of the world.
LEMMA PostType ==
    ASSUME TypeOK, NEW kind \in Kind, Post(kind)
    PROVE  mail' \in [Kind -> Nat]
  <1>1. mail[kind] \in Nat /\ mail[kind] + 1 \in Nat
    BY DEF TypeOK
  <1> QED BY <1>1 DEF Post, TypeOK

LEMMA MoveType ==
    ASSUME TypeOK, NEW target \in Position, Move(target)
    PROVE  /\ bolt' \in Position /\ cloud' \in [Tiers -> Setting]
           /\ mail' \in [Kind -> Nat] /\ seen' \subseteq {"unlocked", "unclear"}
  <1>1. mail' \in [Kind -> Nat]
    BY PostType DEF Move, Kind
  <1>2. bolt' \in Position /\ cloud' \in [Tiers -> Setting]
    BY DEF Move, TypeOK
  <1>3. seen' \subseteq {"unlocked", "unclear"}
    BY DEF Move, TypeOK
  <1> QED BY <1>1, <1>2, <1>3

\* Each step of a command keeps the types.
LEMMA CommandType ==
    ASSUME TypeOK, NEW c \in Commands,
           (\E target \in Position : BeginCommand(c, target)) \/ CommandProgress(c)
    PROVE  TypeOK'
  <1>0. data \in Data /\ commands[c] \in Command
    BY DEF TypeOK
  <1>1. ASSUME NEW target \in Position, BeginCommand(c, target) PROVE TypeOK'
    <2>1. data' \in Data /\ turns' \in Nat /\ overlap' \in BOOLEAN
      <3>1. data' \in Data
        BY <1>0, <1>1, DataUpdate DEF BeginCommand
      <3>2. turns' \in Nat
        BY <1>1 DEF BeginCommand, TypeOK
      <3>3. overlap' \in BOOLEAN
        BY <1>1 DEF BeginCommand, Begin, TypeOK
      <3> QED BY <3>1, <3>2, <3>3
    <2>2. commands' \in [Commands -> Command]
      BY <1>1 DEF BeginCommand, TypeOK, Command, CommandStage
    <2> QED BY <1>1, <2>1, <2>2 DEF BeginCommand, TypeOK, worldVars
  <1>2. CASE CommandTakesGateway(c)
    <2>1. commands' \in [Commands -> Command] /\ gw' \subseteq Polls \cup Commands
      BY <1>2 DEF CommandTakesGateway, TypeOK, Command, CommandStage
    <2> QED BY <1>2, <2>1 DEF CommandTakesGateway, TypeOK, worldVars, historyVars
  <1>3. CASE CloudAnswersCommand(c)
    <2>1. commands' \in [Commands -> Command] /\ faults' \in Nat
      BY <1>3 DEF CloudAnswersCommand, TypeOK, Command, CommandStage, Fault
    <2>2. Move(commands[c].target) \/ UNCHANGED <<worldVars, seen>>
      BY <1>3 DEF CloudAnswersCommand
    <2>3. bolt' \in Position /\ cloud' \in [Tiers -> Setting]
            /\ mail' \in [Kind -> Nat] /\ seen' \subseteq {"unlocked", "unclear"}
      <3>1. commands[c].target \in Position
        BY <1>0 DEF Command
      <3>2. CASE Move(commands[c].target)
        BY <3>1, <3>2, MoveType
      <3>3. CASE UNCHANGED <<worldVars, seen>>
        BY <3>3 DEF TypeOK, worldVars
      <3> QED BY <2>2, <3>2, <3>3
    <2> QED BY <1>3, <2>1, <2>3 DEF CloudAnswersCommand, TypeOK
  <1>4. CASE EndCommand(c)
    <2>1. data' \in Data
      <3> DEFINE d == [data EXCEPT !.pending = FALSE]
                 v == IF commands[c].stage = "done" THEN commands[c].target
                      ELSE data.locked
      <3>1. d \in Data /\ v \in View
        BY <1>0, DataUpdate DEF Data, Command, View
      <3>2. [d EXCEPT !.locked = v] \in Data
        BY <3>1, DataUpdate
      <3>3. data' = [d EXCEPT !.locked = v]
        BY <1>0, <1>4 DEF EndCommand, Data
      <3> QED BY <3>2, <3>3
    <2>2. commands' \in [Commands -> Command] /\ gw' \subseteq Polls \cup Commands
      BY <1>4, IdleType DEF EndCommand, TypeOK
    <2> QED BY <1>4, <2>1, <2>2 DEF EndCommand, TypeOK, worldVars, historyVars
  <1> QED BY <1>1, <1>2, <1>3, <1>4 DEF CommandProgress

\* Each step of a code re-fetch keeps the types.
LEMMA RefreshType ==
    ASSUME TypeOK, NEW r \in Refreshes, ManageCodes(r) \/ RefreshProgress(r)
    PROVE  TypeOK'
  <1>0. data \in Data /\ refreshes[r] \in Refresh /\ refreshes[r].new \in Data
    BY DEF TypeOK, Refresh
  <1>1. CASE ManageCodes(r)
    <2>1. cloud' \in [Tiers -> Setting]
      BY <1>1 DEF ManageCodes, TypeOK, Setting, Flip
    <2>2. refreshes' \in [Refreshes -> Refresh]
      BY <1>0, <1>1 DEF ManageCodes, TypeOK, Refresh
    <2>3. overlap' \in BOOLEAN /\ edits' \in Nat
      BY <1>1 DEF ManageCodes, Begin, TypeOK
    <2> QED BY <1>1, <2>1, <2>2, <2>3 DEF ManageCodes, TypeOK
  <1>2. CASE RefreshPasscodes(r)
    <2> DEFINE new == [refreshes[r].new EXCEPT !.config.codes = cloud.codes]
    <2>1. new \in Data
      BY <1>0, DataUpdate DEF TypeOK, Tiers
    <2>2. [stage |-> "ekeys", new |-> new] \in Refresh
      BY <2>1 DEF Refresh
    <2>3. refreshes' = [refreshes EXCEPT ![r] = [stage |-> "ekeys", new |-> new]]
      BY <1>0, <1>2 DEF RefreshPasscodes, TypeOK, Refresh
    <2>4. refreshes' \in [Refreshes -> Refresh]
      BY <2>2, <2>3 DEF TypeOK
    <2> QED BY <1>2, <2>4 DEF RefreshPasscodes, TypeOK, worldVars, historyVars
  <1>3. CASE RefreshEkeys(r)
    <2>1. refreshes' \in [Refreshes -> Refresh]
      BY <1>3, IdleType DEF RefreshEkeys, TypeOK
    <2>2. data' \in Data /\ ok' \in BOOLEAN /\ stamp' \in [Tiers -> Age]
      BY <1>0, <1>3 DEF RefreshEkeys, Publish, TypeOK, Age
    <2> QED BY <1>3, <2>1, <2>2 DEF RefreshEkeys, TypeOK, worldVars, historyVars
  <1>4. CASE RefreshFails(r)
    BY <1>4, IdleType DEF RefreshFails, Fault, TypeOK, worldVars, historyVars
  <1> QED BY <1>1, <1>2, <1>3, <1>4 DEF RefreshProgress

\* Each step of the world, the timers and the webhooks keeps the types.
Environment ==
    \/ \E v \in Setting : SetAutoLock(v)
    \/ \E t \in Tiers : EditOutside(t) \/ SlowIntervalElapses(t)
    \/ \E target \in Position : Turn(target)
    \/ DoorCloses
    \/ \E kind \in Kind : ProcessWebhook(kind) \/ LoseWebhook(kind)
    \/ AutoLocked

LEMMA EnvironmentType ==
    ASSUME TypeOK, Environment
    PROVE  TypeOK'
  <1> USE DEF taskVars, worldVars, historyVars
  <1>0. data \in Data
    BY DEF TypeOK
  <1>1. ASSUME NEW v \in Setting, SetAutoLock(v) PROVE TypeOK'
    <2>1. data' \in Data
      BY <1>0, <1>1, DataUpdate DEF SetAutoLock, Tiers
    <2>2. cloud' \in [Tiers -> Setting] /\ edits' \in Nat
      BY <1>1 DEF SetAutoLock, TypeOK
    <2> QED BY <1>1, <2>1, <2>2 DEF SetAutoLock, TypeOK
  <1>2. ASSUME NEW t \in Tiers, EditOutside(t) PROVE TypeOK'
    <2>1. cloud' \in [Tiers -> Setting] /\ edits' \in Nat
      BY <1>2 DEF EditOutside, TypeOK, Setting, Flip
    <2> QED BY <1>2, <2>1 DEF EditOutside, TypeOK
  <1>3. ASSUME NEW t \in Tiers, SlowIntervalElapses(t) PROVE TypeOK'
    BY <1>3 DEF SlowIntervalElapses, TypeOK, Age
  <1>4. ASSUME NEW target \in Position, Turn(target) PROVE TypeOK'
    <2>1. Move(target) /\ turns' \in Nat
      BY <1>4 DEF Turn, TypeOK
    <2> QED BY <1>4, <2>1, MoveType DEF Turn, TypeOK
  <1>5. CASE DoorCloses
    <2>1. mail' \in [Kind -> Nat]
      BY <1>5, PostType DEF DoorCloses, Kind
    <2>2. bolt' \in Position /\ turns' \in Nat
      BY <1>5 DEF DoorCloses, TypeOK, Position
    <2> QED BY <1>5, <2>1, <2>2 DEF DoorCloses, TypeOK
  <1>6. ASSUME NEW kind \in Kind, ProcessWebhook(kind) PROVE TypeOK'
    <2> DEFINE v == IF kind \in Position THEN kind
                    ELSE IF data.sensor THEN "locked" ELSE data.locked
    <2>1. v \in View
      BY <1>0 DEF View, Position, Data
    <2>2. data' = [data EXCEPT !.locked = v] /\ ok' = TRUE
      BY <1>6 DEF ProcessWebhook, Publish
    <2>3. data' \in Data
      BY <1>0, <2>1, <2>2, DataUpdate
    <2>4. mail' \in [Kind -> Nat] /\ timers' \in Nat
      BY <1>6 DEF ProcessWebhook, TypeOK
    <2> QED BY <1>6, <2>2, <2>3, <2>4 DEF ProcessWebhook, TypeOK
  <1>7. ASSUME NEW kind \in Kind, LoseWebhook(kind) PROVE TypeOK'
    BY <1>7 DEF LoseWebhook, Fault, TypeOK
  <1>8. CASE AutoLocked
    <2>1. data' \in Data /\ ok' \in BOOLEAN /\ timers' \in Nat
      <3>1. data' \in Data
        BY <1>0, <1>8, DataUpdate DEF AutoLocked, Publish, View, Position
      <3> QED BY <1>8, <3>1 DEF AutoLocked, Publish, TypeOK
    <2> QED BY <1>8, <2>1 DEF AutoLocked, TypeOK
  <1> QED BY <1>1, <1>2, <1>3, <1>4, <1>5, <1>6, <1>7, <1>8 DEF Environment

\* The coordinator's data, its tasks and the world keep their types, whatever
\* the number of overlapping polls, commands and re-fetches.
THEOREM TypeCorrect == Spec => []TypeOK
  <1>1. TypeOK /\ [Next]_vars => TypeOK'
    <2> SUFFICES ASSUME TypeOK, [Next]_vars PROVE TypeOK'
      OBVIOUS
    <2>1. CASE UNCHANGED vars
      BY <2>1 DEF vars, taskVars, worldVars, historyVars, TypeOK
    <2>2. CASE Next
      BY <2>2, PollType, CommandType, RefreshType, EnvironmentType
         DEF Next, Environment
    <2> QED BY <2>1, <2>2
  <1> QED BY InitType, <1>1, PTL DEF Spec

-----------------------------------------------------------------------------
(* The gateway.  OneGatewayCall is not inductive: that a task finds GW_LOCK  *)
(* free says nothing of the calls in progress unless the lock's holder is    *)
(* exactly the task whose call is out.                                       *)

GatewayInv == OnGateway = gw /\ OneGatewayCall

\* A step of a poll that ends elsewhere than in the state query takes the
\* poll off the gateway and touches no other task.
LEMMA PollOffGateway ==
    ASSUME TypeOK, NEW p \in Polls, NEW x, x.stage # "state",
           polls' = [polls EXCEPT ![p] = x], commands' = commands
    PROVE  OnGateway' = OnGateway \ {p}
  <1>1. polls'[p].stage # "state" /\ \A q \in Polls \ {p} : polls'[q] = polls[q]
    BY DEF TypeOK
  <1>2. p \notin Commands
    BY TaskAssumption
  <1> QED BY <1>1, <1>2 DEF OnGateway

LEMMA ContinueOffGateway ==
    ASSUME TypeOK, NEW p \in Polls, NEW new, NEW next \in NextStages,
           Continue(p, new, next), commands' = commands
    PROVE  OnGateway' = OnGateway \ {p}
  <1>1. CASE next = "done"
    <2>1. IdlePoll.stage # "state" /\ polls' = [polls EXCEPT ![p] = IdlePoll]
      BY <1>1 DEF Continue, IdlePoll
    <2> QED BY <2>1, PollOffGateway
  <1>2. CASE next # "done"
    <2> DEFINE x == [stage |-> next, new |-> new, reply |-> "none"]
    <2>1. x.stage # "state" /\ polls' = [polls EXCEPT ![p] = x]
      BY <1>2 DEF Continue, NextStages
    <2> HIDE DEF x
    <2> QED BY <2>1, PollOffGateway
  <1> QED BY <1>1, <1>2

LEMMA FailOffGateway ==
    ASSUME TypeOK, NEW p \in Polls, FailPoll(p), commands' = commands
    PROVE  OnGateway' = OnGateway \ {p}
  <1>1. IdlePoll.stage # "state" /\ polls' = [polls EXCEPT ![p] = IdlePoll]
    BY DEF FailPoll, IdlePoll
  <1> QED BY <1>1, PollOffGateway

\* A task that is not on the gateway may be left out of it or go on without
\* it; the only one that is on it may leave.
LEMMA GatewayKept ==
    ASSUME GatewayInv, NEW t,
           \/ t \notin OnGateway /\ OnGateway' = OnGateway \ {t} /\ gw' = gw
           \/ OnGateway' = OnGateway \ {t} /\ gw' = gw \ {t}
           \/ OnGateway' = OnGateway /\ gw' = gw
           \/ gw = {} /\ OnGateway' = OnGateway \cup {t} /\ gw' = {t}
    PROVE  GatewayInv'
  BY DEF GatewayInv, OneGatewayCall

LEMMA PollGateway ==
    ASSUME TypeOK, GatewayInv, NEW p \in Polls,
           BeginPoll(p) \/ UpdateState(p) \/ PollProgress(p)
    PROVE  GatewayInv'
  <1> USE CourseType
  <1>0. p \notin Commands
    BY TaskAssumption
  <1>1. ASSUME polls[p].stage # "state", OnGateway' = OnGateway \ {p}, gw' = gw
        PROVE  GatewayInv'
    <2>1. p \notin OnGateway
      BY <1>0, <1>1 DEF OnGateway
    <2> QED BY <1>1, <2>1, GatewayKept
  <1>2. CASE BeginPoll(p)
    BY <1>1, <1>2, ContinueOffGateway DEF BeginPoll
  <1>3. CASE UpdateState(p)
    <2> DEFINE forgotten == [data EXCEPT !.locked = "unknown"]
               x == [stage |-> AtStart(forgotten, stamp), new |-> forgotten,
                     reply |-> "none"]
    <2>1. x.stage # "state"
      BY DEF NextStages
    <2>2. polls' = [polls EXCEPT ![p] = x] /\ commands' = commands
      BY <1>3 DEF UpdateState
    <2>3. polls[p].stage # "state" /\ gw' = gw
      BY <1>3 DEF UpdateState
    <2> HIDE DEF x
    <2> QED BY <1>1, <2>1, <2>2, <2>3, PollOffGateway
  <1>4. CASE PollDetails(p)
    BY <1>1, <1>4, ContinueOffGateway DEF PollDetails
  <1>5. CASE PollSensor(p)
    <2>1. PICK new : Continue(p, new, AfterSensor(new, stamp))
      BY <1>5 DEF PollSensor
    <2> QED BY <1>1, <1>5, <2>1, ContinueOffGateway DEF PollSensor
  <1>6. CASE LockAnswersBle(p)
    <2>1. PICK reply : polls' = [polls EXCEPT ![p].reply = reply]
      BY <1>6 DEF LockAnswersBle
    <2> DEFINE x == [polls[p] EXCEPT !.reply = reply]
    <2>2. x.stage # "state"
      BY <1>6 DEF LockAnswersBle, TypeOK, Poll
    <2>3. polls' = [polls EXCEPT ![p] = x] /\ commands' = commands
      BY <1>6, <2>1 DEF LockAnswersBle
    <2>4. polls[p].stage # "state" /\ gw' = gw
      BY <1>6 DEF LockAnswersBle
    <2> HIDE DEF x
    <2> QED BY <1>1, <2>2, <2>3, <2>4, PollOffGateway
  <1>7. CASE PollBle(p)
    <2>1. PICK new :
            Continue(p, new, AfterState(stamp)) \/ Continue(p, new, WithoutBle(new, stamp))
      BY <1>7 DEF PollBle
    <2> QED BY <1>1, <1>7, <2>1, ContinueOffGateway DEF PollBle
  <1>8. CASE PollTakesGateway(p)
    <2>1. OnGateway' = OnGateway \cup {p}
      BY <1>8 DEF PollTakesGateway, OnGateway, TypeOK, Poll
    <2> QED BY <1>8, <2>1, GatewayKept DEF PollTakesGateway
  <1>9. CASE CloudAnswersState(p)
    <2>1. PICK reply : polls' = [polls EXCEPT ![p].reply = reply]
      BY <1>9 DEF CloudAnswersState
    <2>2. \A q \in Polls : polls'[q].stage = polls[q].stage
      BY <2>1 DEF TypeOK, Poll
    <2>3. OnGateway' = OnGateway /\ gw' = gw
      BY <1>9, <2>2 DEF CloudAnswersState, OnGateway
    <2> QED BY <2>3, GatewayKept
  <1>10. CASE PollState(p)
    <2>1. OnGateway' = OnGateway \ {p}
      <3>1. \/ FailPoll(p)
            \/ \E new : Continue(p, new, AfterState(stamp))
        BY <1>10 DEF PollState
      <3> QED BY <1>10, <3>1, ContinueOffGateway, FailOffGateway DEF PollState
    <2> QED BY <1>10, <2>1, GatewayKept DEF PollState
  <1>11. CASE PollPassage(p)
    BY <1>1, <1>11, ContinueOffGateway DEF PollPassage
  <1>12. CASE PollGateways(p)
    BY <1>1, <1>12, ContinueOffGateway DEF PollGateways
  <1>13. CASE PollPasscodes(p)
    <2>1. "ekeys" \in NextStages
      BY DEF NextStages, PollStage
    <2> QED BY <1>1, <1>13, <2>1, ContinueOffGateway DEF PollPasscodes
  <1>14. CASE PollEkeys(p)
    <2>1. "done" \in NextStages
      BY DEF NextStages
    <2> QED BY <1>1, <1>14, <2>1, ContinueOffGateway DEF PollEkeys
  <1>15. CASE PollFails(p)
    BY <1>1, <1>15, FailOffGateway DEF PollFails
  <1> QED
    BY <1>2, <1>3, <1>4, <1>5, <1>6, <1>7, <1>8, <1>9, <1>10, <1>11, <1>12,
       <1>13, <1>14, <1>15 DEF PollProgress

LEMMA CommandGateway ==
    ASSUME TypeOK, GatewayInv, NEW c \in Commands,
           (\E target \in Position : BeginCommand(c, target)) \/ CommandProgress(c)
    PROVE  GatewayInv'
  <1>0. c \notin Polls
    BY TaskAssumption
  <1>1. ASSUME NEW target \in Position, BeginCommand(c, target) PROVE GatewayInv'
    <2>1. OnGateway' = OnGateway
      BY <1>0, <1>1 DEF BeginCommand, OnGateway, TypeOK
    <2> QED BY <1>1, <2>1, GatewayKept DEF BeginCommand
  <1>2. CASE CommandTakesGateway(c)
    <2>1. OnGateway' = OnGateway \cup {c}
      BY <1>0, <1>2 DEF CommandTakesGateway, OnGateway, TypeOK, Command
    <2> QED BY <1>2, <2>1, GatewayKept DEF CommandTakesGateway
  <1>3. CASE CloudAnswersCommand(c)
    <2>1. OnGateway' = OnGateway
      BY <1>0, <1>3 DEF CloudAnswersCommand, OnGateway, TypeOK, Command
    <2> QED BY <1>3, <2>1, GatewayKept DEF CloudAnswersCommand
  <1>4. CASE EndCommand(c)
    <2>1. OnGateway' = OnGateway \ {c}
      BY <1>0, <1>4 DEF EndCommand, OnGateway, TypeOK, IdleCommand
    <2> QED BY <1>4, <2>1, GatewayKept DEF EndCommand
  <1> QED BY <1>1, <1>2, <1>3, <1>4 DEF CommandProgress

\* Whatever overlaps - any number of polls and commands, failed or not - the
\* gateway is given one call at a time.
THEOREM GatewayExclusive == Spec => []OneGatewayCall
  <1>1. Init => GatewayInv
    BY DEF Init, GatewayInv, OneGatewayCall, OnGateway, IdlePoll, IdleCommand
  <1>2. TypeOK /\ GatewayInv /\ [Next]_vars => GatewayInv'
    <2> SUFFICES ASSUME TypeOK, GatewayInv, [Next]_vars PROVE GatewayInv'
      OBVIOUS
    <2>1. ASSUME UNCHANGED <<polls, commands, gw>> PROVE GatewayInv'
      BY <2>1 DEF GatewayInv, OneGatewayCall, OnGateway
    <2>2. ASSUME NEW r \in Refreshes, ManageCodes(r) \/ RefreshProgress(r)
          PROVE  GatewayInv'
      BY <2>1, <2>2 DEF ManageCodes, RefreshProgress, RefreshPasscodes,
                        RefreshEkeys, RefreshFails
    <2>3. CASE Environment
      BY <2>1, <2>3
         DEF Environment, SetAutoLock, EditOutside, SlowIntervalElapses, Turn,
             DoorCloses, ProcessWebhook, LoseWebhook, AutoLocked, taskVars
    <2>4. CASE UNCHANGED vars
      BY <2>1, <2>4 DEF vars, taskVars
    <2> QED
      BY <2>2, <2>3, <2>4, PollGateway, CommandGateway DEF Next, Environment
  <1>3. GatewayInv => OneGatewayCall
    BY DEF GatewayInv
  <1> QED BY <1>1, <1>2, <1>3, TypeCorrect, PTL DEF Spec

-----------------------------------------------------------------------------
(* Unlocked is never a guess.  The word travels: from the bolt into answers, *)
(* webhooks and finished commands, from there into the copies of polls and   *)
(* re-fetches, and from any copy into the data.  The invariant follows it.   *)

\* Nothing a poll holds says unlocked.  (Only the Bluetooth read may stay
\* silent: an answer of the cloud that is not "locked" counts as unlocked.)
LockedPoll(q) ==
    /\ q.new.locked # "unlocked"
    /\ q.reply \notin {"unlocked", "unclear"}
    /\ q.stage # "ble" => q.reply # "silent"

NothingUnlocked ==
    /\ data.locked # "unlocked"
    /\ bolt # "unlocked"
    /\ mail["unlocked"] = 0
    /\ \A p \in Polls : LockedPoll(polls[p])
    /\ \A r \in Refreshes : refreshes[r].new.locked # "unlocked"
    /\ \A c \in Commands :
         commands[c].stage = "done" => commands[c].target # "unlocked"

UnlockedInv == seen = {} => NothingUnlocked

LEMMA ContinueUnlocked ==
    ASSUME TypeOK, NothingUnlocked, NEW p \in Polls, NEW new, NEW next,
           new.locked # "unlocked", Continue(p, new, next)
    PROVE  /\ data'.locked # "unlocked"
           /\ \A q \in Polls : LockedPoll(polls'[q])
  <1>1. LockedPoll(IdlePoll)
    BY IdleType DEF IdlePoll, LockedPoll
  <1>2. CASE next = "done"
    BY <1>1, <1>2 DEF Continue, Publish, NothingUnlocked, TypeOK
  <1>3. CASE next # "done"
    <2>1. LockedPoll([stage |-> next, new |-> new, reply |-> "none"])
      BY DEF LockedPoll
    <2> QED BY <1>3, <2>1 DEF Continue, NothingUnlocked, TypeOK
  <1> QED BY <1>2, <1>3

LEMMA FailUnlocked ==
    ASSUME TypeOK, NothingUnlocked, NEW p \in Polls, FailPoll(p)
    PROVE  /\ data'.locked # "unlocked"
           /\ \A q \in Polls : LockedPoll(polls'[q])
  <1>1. LockedPoll(IdlePoll)
    BY IdleType DEF IdlePoll, LockedPoll
  <1> QED BY <1>1 DEF FailPoll, NothingUnlocked, TypeOK

LEMMA PollUnlocked ==
    ASSUME TypeOK, NothingUnlocked, NEW p \in Polls, seen' = {},
           BeginPoll(p) \/ UpdateState(p) \/ PollProgress(p)
    PROVE  NothingUnlocked'
  <1> DEFINE now == polls[p]
  <1>0. /\ now.new \in Data /\ now.new.locked # "unlocked"
        /\ data \in Data /\ now.reply \notin {"unlocked", "unclear"}
    BY DEF TypeOK, Poll, NothingUnlocked, LockedPoll
  <1>1. ASSUME NEW new, NEW next, new.locked # "unlocked", Continue(p, new, next),
               UNCHANGED <<bolt, mail, refreshes, commands>>
        PROVE  NothingUnlocked'
    BY <1>1, ContinueUnlocked DEF NothingUnlocked
  <1>2. ASSUME FailPoll(p), UNCHANGED <<bolt, mail, refreshes, commands>>
        PROVE  NothingUnlocked'
    BY <1>2, FailUnlocked DEF NothingUnlocked
  <1>3. ASSUME NEW reply, reply \notin {"unlocked", "unclear"},
               now.stage # "ble" => reply # "silent",
               polls' = [polls EXCEPT ![p].reply = reply],
               UNCHANGED <<data, bolt, mail, refreshes, commands>>
        PROVE  NothingUnlocked'
    <2>1. \A q \in Polls : LockedPoll(polls'[q])
      BY <1>3 DEF NothingUnlocked, TypeOK, Poll, LockedPoll
    <2> QED BY <1>3, <2>1 DEF NothingUnlocked
  <1>4. ASSUME NEW t \in Tiers
        PROVE  [now.new EXCEPT !.config[t] = cloud[t]].locked # "unlocked"
    BY <1>0, <1>4 DEF Data
  <1>5. CASE BeginPoll(p)
    BY <1>1, <1>5 DEF BeginPoll, worldVars, NothingUnlocked
  <1>6. CASE UpdateState(p)
    <2>1. [data EXCEPT !.locked = "unknown"].locked = "unknown"
      BY <1>0 DEF Data
    <2>2. data'.locked # "unlocked"
      BY <1>6, <2>1 DEF UpdateState
    <2>3. \A q \in Polls : LockedPoll(polls'[q])
      BY <1>6, <2>1 DEF UpdateState, NothingUnlocked, TypeOK, LockedPoll
    <2> QED BY <1>6, <2>2, <2>3 DEF UpdateState, worldVars, NothingUnlocked
  <1>7. CASE PollDetails(p)
    BY <1>1, <1>4, <1>7 DEF PollDetails, worldVars, Tiers
  <1>8. CASE PollSensor(p)
    <2>1. PICK present \in BOOLEAN :
            Continue(p, [now.new EXCEPT !.sensor = present],
                     AfterSensor([now.new EXCEPT !.sensor = present], stamp))
      BY <1>8 DEF PollSensor
    <2>2. [now.new EXCEPT !.sensor = present].locked # "unlocked"
      BY <1>0 DEF Data
    <2> QED BY <1>1, <1>8, <2>1, <2>2 DEF PollSensor, worldVars
  <1>9. CASE LockAnswersBle(p)
    <2>1. PICK reply \in {bolt, "silent"} :
            polls' = [polls EXCEPT ![p].reply = reply]
      BY <1>9 DEF LockAnswersBle
    <2>2. reply \notin {"unlocked", "unclear"}
      BY <2>1 DEF NothingUnlocked, TypeOK, Position
    <2> QED BY <1>3, <1>9, <2>1, <2>2 DEF LockAnswersBle, worldVars
  <1>10. CASE PollBle(p)
    <2> DEFINE new == IF now.reply \in Position
                      THEN [now.new EXCEPT !.locked = now.reply] ELSE now.new
    <2>1. new.locked # "unlocked"
      BY <1>0 DEF Data
    <2>2. \E next : Continue(p, new, next)
      BY <1>10 DEF PollBle
    <2> HIDE DEF new
    <2> QED BY <1>1, <1>10, <2>1, <2>2 DEF PollBle, worldVars
  <1>11. CASE PollTakesGateway(p)
    <2>1. \A q \in Polls : LockedPoll(polls'[q])
      BY <1>11 DEF PollTakesGateway, TypeOK, Poll, NothingUnlocked, LockedPoll
    <2> QED BY <1>11, <2>1 DEF PollTakesGateway, worldVars, NothingUnlocked
  <1>12. CASE CloudAnswersState(p)
    <2>1. PICK reply \in {bolt, "unclear", "error"} :
            /\ polls' = [polls EXCEPT ![p].reply = reply]
            /\ seen' = seen \cup ({reply} \cap {"unclear"})
      BY <1>12 DEF CloudAnswersState
    <2>2. reply \notin {"unlocked", "unclear", "silent"}
      BY <2>1 DEF NothingUnlocked, TypeOK, Position
    <2> QED BY <1>3, <1>12, <2>1, <2>2 DEF CloudAnswersState, worldVars
  <1>13. CASE PollState(p)
    <2> DEFINE read == [now.new EXCEPT !.locked = ReadAsPosition(now.reply)]
    <2>1. now.reply \in {"locked", "error"}
      BY <1>0, <1>13
         DEF PollState, TypeOK, Poll, Reply, Position, NothingUnlocked, LockedPoll
    <2>2. now.reply = "locked" => read.locked # "unlocked"
      BY <1>0 DEF Data, ReadAsPosition
    <2>3. \/ FailPoll(p)
          \/ Continue(p, now.new, AfterState(stamp))
          \/ now.reply = "locked" /\ Continue(p, read, AfterState(stamp))
      BY <1>13, <2>1 DEF PollState
    <2>4. UNCHANGED <<bolt, mail, refreshes, commands>>
      BY <1>13 DEF PollState, worldVars
    <2> HIDE DEF read
    <2> QED BY <1>0, <1>1, <1>2, <2>2, <2>3, <2>4
  <1>14. CASE PollPassage(p)
    BY <1>1, <1>4, <1>14 DEF PollPassage, worldVars, Tiers
  <1>15. CASE PollGateways(p)
    BY <1>1, <1>4, <1>15 DEF PollGateways, worldVars, Tiers
  <1>16. CASE PollPasscodes(p)
    BY <1>1, <1>4, <1>16 DEF PollPasscodes, worldVars, Tiers
  <1>17. CASE PollEkeys(p)
    BY <1>0, <1>1, <1>17 DEF PollEkeys, worldVars
  <1>18. CASE PollFails(p)
    BY <1>2, <1>18 DEF PollFails, worldVars
  <1> QED
    BY <1>5, <1>6, <1>7, <1>8, <1>9, <1>10, <1>11, <1>12, <1>13, <1>14, <1>15,
       <1>16, <1>17, <1>18 DEF PollProgress

LEMMA CommandUnlocked ==
    ASSUME TypeOK, NothingUnlocked, NEW c \in Commands, seen' = {},
           (\E target \in Position : BeginCommand(c, target)) \/ CommandProgress(c)
    PROVE  NothingUnlocked'
  <1>0. data \in Data /\ data.locked # "unlocked" /\ commands[c] \in Command
    BY DEF TypeOK, NothingUnlocked
  <1>1. ASSUME NEW target \in Position, BeginCommand(c, target)
        PROVE  NothingUnlocked'
    <2>1. data'.locked # "unlocked"
      BY <1>0, <1>1, DataUpdate DEF BeginCommand
    <2>2. \A k \in Commands :
            commands'[k].stage = "done" => commands'[k].target # "unlocked"
      BY <1>1 DEF BeginCommand, NothingUnlocked, TypeOK
    <2> QED BY <1>1, <2>1, <2>2 DEF BeginCommand, worldVars, NothingUnlocked
  <1>2. CASE CommandTakesGateway(c)
    <2>1. \A k \in Commands :
            commands'[k].stage = "done" => commands'[k].target # "unlocked"
      BY <1>2 DEF CommandTakesGateway, NothingUnlocked, TypeOK, Command
    <2> QED BY <1>2, <2>1 DEF CommandTakesGateway, worldVars, NothingUnlocked
  <1>3. CASE CloudAnswersCommand(c)
    <2>1. \/ /\ Move(commands[c].target)
             /\ commands' = [commands EXCEPT ![c].stage = "done"]
          \/ /\ Move(commands[c].target) \/ UNCHANGED <<worldVars, seen>>
             /\ commands' = [commands EXCEPT ![c].stage = "failed"]
      BY <1>3 DEF CloudAnswersCommand
    <2>2. ASSUME Move(commands[c].target)
          PROVE  commands[c].target = "locked" /\ bolt' = "locked"
                   /\ mail'["unlocked"] = 0
      <3>1. commands[c].target \in Position
        BY <1>0 DEF Command
      <3>2. commands[c].target = "locked" /\ bolt' = "locked"
        BY <2>2, <3>1 DEF Move, Position
      <3>3. mail' = [mail EXCEPT !["locked"] = IF WebhookConfirmed THEN @ + 1 ELSE @]
        BY <2>2, <3>2 DEF Move, Post
      <3>4. mail'["unlocked"] = 0
        BY <3>3 DEF NothingUnlocked, TypeOK, Kind, Position
      <3> QED BY <3>2, <3>4
    <2>3. bolt' # "unlocked" /\ mail'["unlocked"] = 0
      BY <2>1, <2>2 DEF worldVars, NothingUnlocked
    <2>4. \A k \in Commands :
            commands'[k].stage = "done" => commands'[k].target # "unlocked"
      BY <2>1, <2>2 DEF NothingUnlocked, TypeOK, Command
    <2> QED BY <1>3, <2>3, <2>4 DEF CloudAnswersCommand, NothingUnlocked
  <1>4. CASE EndCommand(c)
    <2>1. data'.locked # "unlocked"
      BY <1>0, <1>4 DEF EndCommand, NothingUnlocked, Data
    <2>2. \A k \in Commands :
            commands'[k].stage = "done" => commands'[k].target # "unlocked"
      BY <1>4 DEF EndCommand, NothingUnlocked, TypeOK, IdleCommand
    <2> QED BY <1>4, <2>1, <2>2 DEF EndCommand, worldVars, NothingUnlocked
  <1> QED BY <1>1, <1>2, <1>3, <1>4 DEF CommandProgress

LEMMA RefreshUnlocked ==
    ASSUME TypeOK, NothingUnlocked, NEW r \in Refreshes,
           ManageCodes(r) \/ RefreshProgress(r)
    PROVE  NothingUnlocked'
  <1>0. /\ refreshes[r].new \in Data /\ refreshes[r].new.locked # "unlocked"
        /\ IdleRefresh.new.locked # "unlocked"
    BY IdleType DEF TypeOK, Refresh, IdleRefresh, NothingUnlocked
  <1>1. ASSUME NEW x, x.new.locked # "unlocked",
               refreshes' = [refreshes EXCEPT ![r] = x],
               data' = data \/ data' = refreshes[r].new,
               UNCHANGED <<bolt, mail, polls, commands>>
        PROVE  NothingUnlocked'
    <2>1. \A q \in Refreshes : refreshes'[q].new.locked # "unlocked"
      BY <1>1 DEF NothingUnlocked, TypeOK
    <2>2. data'.locked # "unlocked"
      BY <1>0, <1>1 DEF NothingUnlocked
    <2> QED BY <1>1, <2>1, <2>2 DEF NothingUnlocked
  <1>2. CASE ManageCodes(r)
    BY <1>1, <1>2 DEF ManageCodes, NothingUnlocked
  <1>3. CASE RefreshPasscodes(r)
    <2> DEFINE new == [refreshes[r].new EXCEPT !.config.codes = cloud.codes]
    <2>1. new.locked # "unlocked"
      BY <1>0 DEF Data
    <2> HIDE DEF new
    <2>2. refreshes' = [refreshes EXCEPT ![r] = [stage |-> "ekeys", new |-> new]]
      BY <1>3 DEF RefreshPasscodes, new
    <2> QED BY <1>1, <1>3, <2>1, <2>2 DEF RefreshPasscodes, worldVars
  <1>4. CASE RefreshEkeys(r)
    BY <1>0, <1>1, <1>4 DEF RefreshEkeys, Publish, worldVars
  <1>5. CASE RefreshFails(r)
    BY <1>0, <1>1, <1>5 DEF RefreshFails, worldVars
  <1> QED BY <1>2, <1>3, <1>4, <1>5 DEF RefreshProgress

LEMMA EnvironmentUnlocked ==
    ASSUME TypeOK, NothingUnlocked, seen' = {}, Environment
    PROVE  NothingUnlocked'
  <1> USE DEF taskVars, worldVars, historyVars
  <1>0. data \in Data /\ data.locked # "unlocked"
    BY DEF TypeOK, NothingUnlocked
  <1>1. ASSUME NEW v \in Setting, SetAutoLock(v) PROVE NothingUnlocked'
    <2>1. data'.locked # "unlocked"
      BY <1>0, <1>1 DEF SetAutoLock, Data
    <2> QED BY <1>1, <2>1 DEF SetAutoLock, NothingUnlocked
  <1>2. ASSUME NEW t \in Tiers, EditOutside(t) \/ SlowIntervalElapses(t)
        PROVE  NothingUnlocked'
    BY <1>2 DEF EditOutside, SlowIntervalElapses, NothingUnlocked
  <1>3. ASSUME NEW target \in Position, Turn(target) PROVE NothingUnlocked'
    <2>1. Move(target)
      BY <1>3 DEF Turn
    <2>2. target = "locked" /\ bolt' = "locked"
      BY <2>1 DEF Move, Position
    <2>3. mail' = [mail EXCEPT !["locked"] = IF WebhookConfirmed THEN @ + 1 ELSE @]
      BY <2>1, <2>2 DEF Move, Post
    <2>4. mail'["unlocked"] = 0
      BY <2>3 DEF NothingUnlocked, TypeOK, Kind, Position
    <2> QED BY <1>3, <2>2, <2>4 DEF Turn, NothingUnlocked
  <1>4. CASE DoorCloses
    <2>1. mail' = [mail EXCEPT !["doorClosed"] =
                     IF WebhookConfirmed THEN @ + 1 ELSE @]
      BY <1>4 DEF DoorCloses, Post
    <2>2. mail'["unlocked"] = 0
      BY <2>1 DEF NothingUnlocked, TypeOK, Kind, Position
    <2>3. bolt' # "unlocked"
      BY <1>4 DEF DoorCloses, NothingUnlocked
    <2> QED BY <1>4, <2>2, <2>3 DEF DoorCloses, NothingUnlocked
  <1>5. ASSUME NEW kind \in Kind, ProcessWebhook(kind) PROVE NothingUnlocked'
    <2>1. kind # "unlocked"
      BY <1>5 DEF ProcessWebhook, NothingUnlocked
    <2>2. mail'["unlocked"] = 0
      BY <1>5, <2>1 DEF ProcessWebhook, NothingUnlocked, TypeOK, Kind, Position
    <2>3. data'.locked # "unlocked"
      BY <1>0, <1>5, <2>1 DEF ProcessWebhook, Publish, Data
    <2> QED BY <1>5, <2>2, <2>3 DEF ProcessWebhook, NothingUnlocked
  <1>6. ASSUME NEW kind \in Kind, LoseWebhook(kind) PROVE NothingUnlocked'
    <2>1. mail'["unlocked"] = 0
      BY <1>6 DEF LoseWebhook, NothingUnlocked, TypeOK, Kind, Position
    <2> QED BY <1>6, <2>1 DEF LoseWebhook, NothingUnlocked
  <1>7. CASE AutoLocked
    <2>1. data'.locked # "unlocked"
      BY <1>0, <1>7 DEF AutoLocked, Publish, Data
    <2> QED BY <1>7, <2>1 DEF AutoLocked, NothingUnlocked
  <1> QED BY <1>1, <1>2, <1>3, <1>4, <1>5, <1>6, <1>7 DEF Environment

\* What has been seen stays seen.
LEMMA SeenGrows == ASSUME Next PROVE seen \subseteq seen'
  <1>1. ASSUME NEW p \in Polls, PollProgress(p) PROVE seen \subseteq seen'
    BY <1>1
       DEF PollProgress, PollDetails, PollSensor, LockAnswersBle, PollBle,
           PollTakesGateway, CloudAnswersState, PollState, PollPassage,
           PollGateways, PollPasscodes, PollEkeys, PollFails, historyVars
  <1>2. ASSUME NEW c \in Commands, CommandProgress(c) PROVE seen \subseteq seen'
    BY <1>2 DEF CommandProgress, CommandTakesGateway, CloudAnswersCommand,
                EndCommand, Move, historyVars
  <1>3. ASSUME NEW r \in Refreshes, ManageCodes(r) \/ RefreshProgress(r)
        PROVE  seen \subseteq seen'
    BY <1>3 DEF ManageCodes, RefreshProgress, RefreshPasscodes, RefreshEkeys,
                RefreshFails, historyVars
  <1>4. ASSUME NEW p \in Polls, BeginPoll(p) \/ UpdateState(p)
        PROVE  seen \subseteq seen'
    BY <1>4 DEF BeginPoll, UpdateState
  <1>5. ASSUME NEW c \in Commands, NEW target \in Position, BeginCommand(c, target)
        PROVE  seen \subseteq seen'
    BY <1>5 DEF BeginCommand
  <1>6. CASE Environment
    BY <1>6 DEF Environment, SetAutoLock, EditOutside, SlowIntervalElapses, Turn,
                Move, DoorCloses, ProcessWebhook, LoseWebhook, AutoLocked,
                historyVars
  <1> QED BY <1>1, <1>2, <1>3, <1>4, <1>5, <1>6 DEF Next, Environment

\* Home Assistant never shows a lock as unlocked by default, from a failed
\* read, after an auto-lock or after a door event: only if the lock has been
\* unlocked, or the cloud has given an unclear answer.
THEOREM UnlockedNeverGuessed == Spec => []UnlockedIsReported
  <1>1. Init => UnlockedInv
    <2> SUFFICES ASSUME Init, seen = {} PROVE NothingUnlocked
      BY DEF UnlockedInv
    <2>1. bolt # "unlocked" /\ data.locked # "unlocked" /\ mail["unlocked"] = 0
      BY IdleType DEF Init, Kind, Position
    <2>2. LockedPoll(IdlePoll) /\ IdleRefresh.new.locked # "unlocked"
            /\ IdleCommand.stage # "done"
      BY IdleType DEF LockedPoll, IdlePoll, IdleRefresh, IdleCommand
    <2> QED BY <2>1, <2>2 DEF Init, NothingUnlocked
  <1>2. TypeOK /\ UnlockedInv /\ [Next]_vars => UnlockedInv'
    <2> SUFFICES ASSUME TypeOK, UnlockedInv, [Next]_vars, seen' = {}
                 PROVE  NothingUnlocked'
      BY DEF UnlockedInv
    <2>1. CASE UNCHANGED vars
      BY <2>1 DEF vars, taskVars, worldVars, historyVars, UnlockedInv,
                  NothingUnlocked
    <2>2. CASE Next
      <3>1. NothingUnlocked
        BY <2>2, SeenGrows DEF UnlockedInv
      <3> QED
        BY <2>2, <3>1, PollUnlocked, CommandUnlocked, RefreshUnlocked,
           EnvironmentUnlocked DEF Next, Environment
    <2> QED BY <2>1, <2>2
  <1>3. UnlockedInv => UnlockedIsReported
    BY DEF UnlockedInv, NothingUnlocked, UnlockedIsReported
  <1> QED BY <1>1, <1>2, <1>3, TypeCorrect, PTL DEF Spec

-----------------------------------------------------------------------------
(* One task at a time.  What is said of runs without overlap rests on the    *)
(* copies: one that a lone task carries has no command pending, because none *)
(* began since, and has every part that a stamp speaks of.                   *)

\* All that is stamped in st is in d.
Covers(st, d) == \A t \in Tiers : st[t] # "never" => d.config[t] # "none"

Alone == \A s, t \in InFlight : s = t

NoPoll == \A p \in Polls : polls[p].stage = "idle"

\* What a task carries that is about to await `stage`.
Carries(stage, new) ==
    /\ ~new.pending
    /\ faults = 0 => /\ Covers(stamp, new)
                     /\ stage = "ekeys" => new.config.codes # "none"

LoneInv ==
    /\ Alone
    /\ PendingMirrorsCommand
    /\ NoPoll /\ faults = 0 => Covers(stamp, data)
    /\ \A p \in Polls : polls[p].stage # "idle" =>
         /\ Carries(polls[p].stage, polls[p].new)
         /\ faults = 0 => polls[p].reply # "error"
    /\ \A r \in Refreshes : refreshes[r].stage # "idle" =>
         Carries(refreshes[r].stage, refreshes[r].new)

SerialInv == ~overlap => LoneInv

\* The tasks are told apart, and those of which nothing is said stay as they are.
LEMMA OnlyTask ==
    ASSUME Alone, NEW t \in InFlight
    PROVE  InFlight = {t}
  BY DEF Alone

LEMMA FlightOf ==
    /\ \A p \in Polls : p \in InFlight <=> polls[p].stage # "idle"
    /\ \A c \in Commands : c \in InFlight <=> commands[c].stage # "idle"
    /\ \A r \in Refreshes : r \in InFlight <=> refreshes[r].stage # "idle"
  BY TaskAssumption DEF InFlight

\* The steps that touch no task: nothing that was there is taken away, and
\* nothing is stamped.
LEMMA LoneEnvironment ==
    ASSUME TypeOK, LoneInv, UNCHANGED <<polls, commands, refreshes>>,
           data'.pending = data.pending, faults' = 0 => faults = 0,
           \A t \in Tiers : /\ data.config[t] # "none" => data'.config[t] # "none"
                            /\ stamp'[t] # "never" => stamp[t] # "never"
    PROVE  LoneInv'
  <1>1. Alone' /\ PendingMirrorsCommand'
    BY DEF LoneInv, Alone, InFlight, PendingMirrorsCommand
  <1>2. ASSUME NEW stage, NEW new, Carries(stage, new) PROVE Carries(stage, new)'
    BY <1>2 DEF Carries, Covers
  <1>3. NoPoll' /\ faults' = 0 => Covers(stamp, data)'
    BY DEF LoneInv, NoPoll, Covers
  <1>4. \A p \in Polls : polls'[p].stage # "idle" =>
          /\ Carries(polls[p].stage, polls[p].new)'
          /\ faults' = 0 => polls'[p].reply # "error"
    BY DEF LoneInv, Carries, Covers
  <1>5. \A r \in Refreshes : refreshes'[r].stage # "idle" =>
          Carries(refreshes[r].stage, refreshes[r].new)'
    BY DEF LoneInv, Carries, Covers
  <1> QED BY <1>1, <1>3, <1>4, <1>5 DEF LoneInv

\* A poll that goes on alone, or returns.
LEMMA LonePoll ==
    ASSUME TypeOK, NEW p \in Polls, InFlight \subseteq {p},
           UNCHANGED <<commands, refreshes>>,
           NEW x \in Poll, polls' = [polls EXCEPT ![p] = x],
           ~data'.pending,
           x.stage = "idle" /\ faults' = 0 => Covers(stamp', data'),
           x.stage # "idle" =>
             /\ ~x.new.pending
             /\ faults' = 0 => /\ Covers(stamp', x.new)
                               /\ x.stage = "ekeys" => x.new.config.codes # "none"
                               /\ x.reply # "error"
    PROVE  LoneInv'
  <1>1. /\ \A q \in Polls \ {p} : polls'[q] = polls[q] /\ polls[q].stage = "idle"
        /\ polls'[p] = x
        /\ \A c \in Commands : commands'[c].stage = "idle"
        /\ \A r \in Refreshes : refreshes'[r].stage = "idle"
    BY FlightOf, TaskAssumption DEF TypeOK
  <1>2. InFlight' \subseteq {p}
    BY <1>1 DEF InFlight
  <1>3. Alone' /\ PendingMirrorsCommand'
    BY <1>1, <1>2 DEF Alone, PendingMirrorsCommand
  <1>4. NoPoll' /\ faults' = 0 => Covers(stamp, data)'
    BY <1>1 DEF NoPoll, Covers
  <1>5. \A q \in Polls : polls'[q].stage # "idle" =>
          /\ Carries(polls[q].stage, polls[q].new)'
          /\ faults' = 0 => polls'[q].reply # "error"
    BY <1>1 DEF Carries, Covers
  <1> QED BY <1>1, <1>3, <1>4, <1>5 DEF LoneInv

\* When a poll begins alone, or goes on, no command is in progress and what
\* it goes by is covered.
LEMMA LoneContinue ==
    ASSUME TypeOK, NEW p \in Polls, InFlight \subseteq {p}, ~data.pending,
           UNCHANGED <<commands, refreshes>>,
           NEW new \in Data, NEW next \in NextStages, Continue(p, new, next),
           ~new.pending,
           faults' = 0 => /\ Covers(stamp', new)
                          /\ next = "ekeys" => new.config.codes # "none"
    PROVE  LoneInv'
  <1>1. CASE next = "done"
    <2>1. polls' = [polls EXCEPT ![p] = IdlePoll] /\ data' = new
      BY <1>1 DEF Continue, Publish
    <2>2. IdlePoll \in Poll /\ IdlePoll.stage = "idle"
      BY IdleType DEF IdlePoll
    <2>3. ~data'.pending /\ (faults' = 0 => Covers(stamp', data'))
      BY <2>1
    <2> QED BY <2>1, <2>2, <2>3, LonePoll
  <1>2. CASE next # "done"
    <2> DEFINE x == [stage |-> next, new |-> new, reply |-> "none"]
    <2>1. polls' = [polls EXCEPT ![p] = x] /\ data' = data
      BY <1>2 DEF Continue
    <2>2. x \in Poll
      BY <1>2 DEF Poll, NextStages, Reply
    <2>3. x.new = new /\ x.reply = "none" /\ x.stage = next /\ x.stage # "idle"
      BY <1>2 DEF NextStages, PollStage
    <2> HIDE DEF x
    <2>4. x.stage # "idle" =>
             /\ ~x.new.pending
             /\ faults' = 0 => /\ Covers(stamp', x.new)
                               /\ x.stage = "ekeys" => x.new.config.codes # "none"
                               /\ x.reply # "error"
      BY <2>3
    <2> QED BY <2>1, <2>2, <2>3, <2>4, LonePoll
  <1> QED BY <1>1, <1>2

\* list_ekeys is awaited after list_passcodes only.
LEMMA CourseEkeys ==
    ASSUME NEW new, NEW st
    PROVE  "ekeys" \notin {AfterGateways(st), AfterPassage(st), AfterState(st),
                           WithoutBle(new, st), AfterSensor(new, st),
                           AfterDetails(new, st), AtStart(new, st)}
  <1>1. AfterGateways(st) # "ekeys"
    BY DEF AfterGateways
  <1>2. AfterPassage(st) # "ekeys"
    BY <1>1 DEF AfterPassage
  <1>3. AfterState(st) # "ekeys"
    BY <1>2 DEF AfterState
  <1>4. WithoutBle(new, st) # "ekeys"
    BY <1>3 DEF WithoutBle
  <1>5. AfterSensor(new, st) # "ekeys"
    BY <1>4 DEF AfterSensor
  <1>6. AfterDetails(new, st) # "ekeys"
    BY <1>5 DEF AfterDetails
  <1>7. AtStart(new, st) # "ekeys"
    BY <1>6 DEF AtStart
  <1> QED BY <1>1, <1>2, <1>3, <1>4, <1>5, <1>6, <1>7

\* What was fetched is there, also once it is stamped.
LEMMA FetchedCovers ==
    ASSUME NEW d \in Data, NEW t \in Tiers, NEW s \in Setting,
           NEW st \in [Tiers -> Age], NEW st2 \in [Tiers -> Age], Covers(st, d),
           \A u \in Tiers : u # t => st2[u] = st[u]
    PROVE  Covers(st2, [d EXCEPT !.config[t] = s])
  <1> DEFINE e == [d EXCEPT !.config[t] = s]
  <1>1. e.config[t] = s /\ \A u \in Tiers : u # t => e.config[u] = d.config[u]
    BY DEF Data
  <1>2. s # "none"
    BY DEF Setting
  <1> HIDE DEF e
  <1> QED BY <1>1, <1>2 DEF Covers, e

LEMMA FieldCovers ==
    ASSUME NEW d \in Data, NEW st
    PROVE  /\ \A v : /\ Covers(st, d) => Covers(st, [d EXCEPT !.locked = v])
                     /\ [d EXCEPT !.locked = v].pending = d.pending
           /\ \A b : /\ Covers(st, d) => Covers(st, [d EXCEPT !.sensor = b])
                     /\ [d EXCEPT !.sensor = b].pending = d.pending
           /\ \A b : /\ Covers(st, d) => Covers(st, [d EXCEPT !.pending = b])
                     /\ [d EXCEPT !.pending = b].pending = b
           /\ \A t \in Tiers, s \in Setting :
                [d EXCEPT !.config[t] = s].pending = d.pending
  BY DEF Data, Covers

\* Each step of a task that is alone keeps what is said of it.
LEMMA PollLone ==
    ASSUME TypeOK, SerialInv, ~overlap', NEW p \in Polls,
           BeginPoll(p) \/ UpdateState(p) \/ PollProgress(p)
    PROVE  LoneInv'
  <1> USE CourseType, CourseEkeys
  <1> DEFINE now == polls[p]
  <1>0. /\ data \in Data /\ now \in Poll /\ now.new \in Data /\ now.reply \in Reply
        /\ now.stage \in PollStage
        /\ cloud \in [Tiers -> Setting] /\ stamp \in [Tiers -> Age]
        /\ stamp' \in [Tiers -> Age]
    BY PollType DEF TypeOK, Poll
  <1>1. ~overlap
    BY DEF BeginPoll, UpdateState, Begin, PollProgress, PollDetails, PollSensor,
           LockAnswersBle, PollBle, PollTakesGateway, CloudAnswersState, PollState,
           PollPassage, PollGateways, PollPasscodes, PollEkeys, PollFails, historyVars
  <1>2. LoneInv
    BY <1>1 DEF SerialInv
  <1>3. ASSUME BeginPoll(p) \/ UpdateState(p)
        PROVE  /\ InFlight = {} /\ ~data.pending /\ faults' = faults /\ stamp' = stamp
               /\ UNCHANGED <<commands, refreshes>>
               /\ faults = 0 => Covers(stamp, data)
    <2>1. InFlight = {} /\ faults' = faults /\ stamp' = stamp
            /\ UNCHANGED <<commands, refreshes>>
      BY <1>3 DEF BeginPoll, UpdateState, Begin
    <2>2. NoPoll /\ \A c \in Commands : commands[c].stage = "idle"
      BY <2>1, FlightOf DEF NoPoll
    <2> QED BY <1>2, <2>1, <2>2 DEF LoneInv, PendingMirrorsCommand
  <1>4. CASE BeginPoll(p)
    <2>1. Continue(p, data, AtStart(data, stamp))
      BY <1>4 DEF BeginPoll
    <2> QED BY <1>0, <1>3, <1>4, <2>1, LoneContinue
  <1>5. CASE UpdateState(p)
    <2> DEFINE forgotten == [data EXCEPT !.locked = "unknown"]
               x == [stage |-> AtStart(forgotten, stamp), new |-> forgotten,
                     reply |-> "none"]
    <2>1. forgotten \in Data /\ ~forgotten.pending
            /\ (faults = 0 => Covers(stamp, forgotten))
      <3>1. data \in Data /\ "unknown" \in View
        BY <1>0 DEF View
      <3>2. forgotten \in Data
        BY <3>1, DataUpdate
      <3>3. forgotten.pending = data.pending /\ (Covers(stamp, data) => Covers(stamp, forgotten))
        BY <3>1, FieldCovers
      <3> QED BY <1>0, <1>3, <1>5, <3>2, <3>3
    <2>2. data' = forgotten /\ polls' = [polls EXCEPT ![p] = x]
      BY <1>5 DEF UpdateState
    <2>3. x.new = forgotten /\ x.reply = "none" /\ x.stage = AtStart(forgotten, stamp)
      OBVIOUS
    <2>4. polls' \in [Polls -> Poll]
      BY <1>5, PollType DEF TypeOK
    <2>5. x \in Poll
      BY <2>2, <2>4 DEF TypeOK
    <2>6. x.stage # "idle" /\ x.stage # "ekeys"
      BY <2>3 DEF NextStages
    <2> HIDE DEF x, forgotten
    <2>7. /\ x.stage = "idle" /\ faults' = 0 => Covers(stamp', data')
          /\ x.stage # "idle" =>
               /\ ~x.new.pending
               /\ faults' = 0 => /\ Covers(stamp', x.new)
                                 /\ x.stage = "ekeys" => x.new.config.codes # "none"
                                 /\ x.reply # "error"
      BY <1>3, <1>5, <2>1, <2>3, <2>6
    <2> QED BY <1>3, <1>5, <2>1, <2>2, <2>5, <2>7, LonePoll
  \* A poll in progress is the only task.
  <1>6. ASSUME PollProgress(p)
        PROVE  /\ InFlight \subseteq {p} /\ ~data.pending /\ ~now.new.pending
               /\ UNCHANGED <<commands, refreshes>>
               /\ faults' = 0 =>
                    /\ faults = 0 /\ Covers(stamp, now.new) /\ now.reply # "error"
                    /\ now.stage = "ekeys" => now.new.config.codes # "none"
    <2>1. now.stage # "idle"
      BY <1>6 DEF PollProgress, PollDetails, PollSensor, LockAnswersBle, PollBle,
           PollTakesGateway, CloudAnswersState, PollState, PollPassage,
           PollGateways, PollPasscodes, PollEkeys, PollFails
    <2>2. InFlight = {p}
      BY <1>2, <2>1, FlightOf, OnlyTask DEF LoneInv
    <2>3. ~data.pending
      BY <1>2, <2>2, FlightOf, TaskAssumption DEF LoneInv, PendingMirrorsCommand
    <2>4. Carries(now.stage, now.new) /\ (faults = 0 => now.reply # "error")
      BY <1>2, <2>1 DEF LoneInv
    <2>5. faults' = 0 => faults = 0
      BY <1>6 DEF PollProgress, PollDetails, PollSensor, LockAnswersBle, PollBle,
           PollTakesGateway, CloudAnswersState, PollState, PollPassage,
           PollGateways, PollPasscodes, PollEkeys, PollFails, Fault, TypeOK
    <2>6. UNCHANGED <<commands, refreshes>>
      BY <1>6 DEF PollProgress, PollDetails, PollSensor, LockAnswersBle, PollBle,
           PollTakesGateway, CloudAnswersState, PollState, PollPassage,
           PollGateways, PollPasscodes, PollEkeys, PollFails
    <2> QED BY <2>2, <2>3, <2>4, <2>5, <2>6 DEF Carries
  \* A part has been fetched, and stamped or not.
  <1>7. ASSUME NEW t \in Tiers, PollProgress(p),
               \A u \in Tiers : u # t => stamp'[u] = stamp[u]
        PROVE  /\ [now.new EXCEPT !.config[t] = cloud[t]] \in Data
               /\ ~[now.new EXCEPT !.config[t] = cloud[t]].pending
               /\ faults' = 0 => Covers(stamp', [now.new EXCEPT !.config[t] = cloud[t]])
    <2>1. cloud[t] \in Setting
      BY <1>0
    <2>2. ASSUME faults' = 0
          PROVE  Covers(stamp', [now.new EXCEPT !.config[t] = cloud[t]])
      <3>1. Covers(stamp, now.new)
        BY <1>6, <1>7, <2>2
      <3> QED BY <1>0, <1>7, <2>1, <3>1, FetchedCovers
    <2>3. ~[now.new EXCEPT !.config[t] = cloud[t]].pending
      BY <1>0, <1>6, <1>7, <2>1, FieldCovers
    <2>4. [now.new EXCEPT !.config[t] = cloud[t]] \in Data
      BY <1>0, <2>1, DataUpdate
    <2> QED BY <2>2, <2>3, <2>4
  <1>8. CASE PollDetails(p)
    <2> DEFINE new == [now.new EXCEPT !.config.details = cloud.details]
    <2>1. PollProgress(p) /\ \A u \in Tiers : u # "details" => stamp'[u] = stamp[u]
      BY <1>0, <1>8 DEF PollDetails, PollProgress
    <2>2. new \in Data /\ ~new.pending /\ (faults' = 0 => Covers(stamp', new))
      BY <1>7, <2>1 DEF Tiers
    <2>3. Continue(p, new, AfterDetails(new, stamp'))
      BY <1>8 DEF PollDetails
    <2> HIDE DEF new
    <2> QED BY <1>6, <2>1, <2>2, <2>3, LoneContinue
  <1>9. CASE PollSensor(p)
    <2>1. PICK present \in BOOLEAN :
            Continue(p, [now.new EXCEPT !.sensor = present],
                     AfterSensor([now.new EXCEPT !.sensor = present], stamp))
      BY <1>9 DEF PollSensor
    <2> DEFINE new == [now.new EXCEPT !.sensor = present]
    <2>2. PollProgress(p) /\ stamp' = stamp
      BY <1>9 DEF PollSensor, PollProgress
    <2>3. new \in Data /\ ~new.pending /\ (faults' = 0 => Covers(stamp', new))
      <3>1. new \in Data
        BY <1>0, DataUpdate
      <3>2. ~new.pending
        BY <1>0, <1>6, <2>2, FieldCovers
      <3>3. Covers(stamp, now.new) => Covers(stamp, new)
        BY <1>0, FieldCovers
      <3> HIDE DEF new
      <3> QED BY <1>6, <2>2, <3>1, <3>2, <3>3
    <2>4. Continue(p, new, AfterSensor(new, stamp))
      BY <2>1
    <2> HIDE DEF new
    <2> QED BY <1>6, <2>2, <2>3, <2>4, LoneContinue
  <1>10. CASE LockAnswersBle(p)
    <2>1. PICK reply \in {bolt, "silent"} :
            polls' = [polls EXCEPT ![p].reply = reply]
      BY <1>10 DEF LockAnswersBle
    <2> DEFINE x == [now EXCEPT !.reply = reply]
    <2>2. PollProgress(p) /\ stamp' = stamp /\ data' = data
      BY <1>10 DEF LockAnswersBle, PollProgress
    <2>3. x \in Poll /\ x.stage = "ble" /\ x.new = now.new /\ x.reply # "error"
      BY <1>0, <1>10, <2>1 DEF LockAnswersBle, Poll, Reply, TypeOK, Position
    <2>4. polls' = [polls EXCEPT ![p] = x]
      BY <2>1
    <2> HIDE DEF x
    <2> QED BY <1>6, <2>2, <2>3, <2>4, LonePoll
  <1>11. CASE PollBle(p)
    <2> DEFINE new == IF now.reply \in Position
                      THEN [now.new EXCEPT !.locked = now.reply] ELSE now.new
               next == IF now.reply \in Position THEN AfterState(stamp)
                       ELSE WithoutBle(new, stamp)
    <2>1. PollProgress(p) /\ stamp' = stamp
      BY <1>11 DEF PollBle, PollProgress
    <2>2. new \in Data /\ ~new.pending /\ (faults' = 0 => Covers(stamp', new))
      BY <1>0, <1>6, <2>1, FieldCovers, DataUpdate DEF View
    <2>3. next \in NextStages /\ next # "ekeys"
      OBVIOUS
    <2>4. Continue(p, new, next)
      BY <1>11 DEF PollBle
    <2> HIDE DEF new, next
    <2> QED BY <1>6, <2>1, <2>2, <2>3, <2>4, LoneContinue
  <1>12. CASE PollTakesGateway(p)
    <2> DEFINE x == [now EXCEPT !.stage = "state"]
    <2>1. PollProgress(p) /\ stamp' = stamp /\ data' = data
      BY <1>12 DEF PollTakesGateway, PollProgress
    <2>2. x \in Poll /\ x.stage = "state" /\ x.new = now.new /\ x.reply = now.reply
      BY <1>0 DEF Poll, PollStage
    <2>3. polls' = [polls EXCEPT ![p] = x]
      BY <1>12 DEF PollTakesGateway
    <2> HIDE DEF x
    <2> QED BY <1>6, <2>1, <2>2, <2>3, LonePoll
  <1>13. CASE CloudAnswersState(p)
    <2>1. PICK reply \in {bolt, "unclear", "error"} :
            /\ polls' = [polls EXCEPT ![p].reply = reply]
            /\ IF reply = bolt THEN UNCHANGED faults ELSE Fault
      BY <1>13 DEF CloudAnswersState
    <2> DEFINE x == [now EXCEPT !.reply = reply]
    <2>2. PollProgress(p) /\ stamp' = stamp /\ data' = data
      BY <1>13 DEF CloudAnswersState, PollProgress
    <2>3. x \in Poll /\ x.stage = "state" /\ x.new = now.new /\ x.reply = reply
      BY <1>0, <1>13, <2>1 DEF CloudAnswersState, Poll, Reply, TypeOK, Position
    <2>4. polls' = [polls EXCEPT ![p] = x]
      BY <2>1
    <2>5. faults' = 0 => reply # "error"
      BY <2>1 DEF Fault, TypeOK, Position
    <2> HIDE DEF x
    <2> QED BY <1>6, <2>2, <2>3, <2>4, <2>5, LonePoll
  <1>14. ASSUME FailPoll(p), PollProgress(p), faults' # 0
         PROVE  LoneInv'
    <2>1. polls' = [polls EXCEPT ![p] = IdlePoll] /\ data' = data
      BY <1>14 DEF FailPoll
    <2>2. IdlePoll \in Poll /\ IdlePoll.stage = "idle"
      BY IdleType DEF IdlePoll
    <2> QED BY <1>6, <1>14, <2>1, <2>2, LonePoll
  <1>15. CASE PollState(p)
    <2> DEFINE read == [now.new EXCEPT !.locked = ReadAsPosition(now.reply)]
    <2>1. PollProgress(p) /\ stamp' = stamp
      BY <1>15 DEF PollState, PollProgress
    <2>2. read \in Data /\ ~read.pending /\ (faults' = 0 => Covers(stamp', read))
      <3>1. ReadAsPosition(now.reply) \in View
        BY DEF View, Position, ReadAsPosition
      <3>2. read \in Data
        BY <1>0, <3>1, DataUpdate
      <3> QED BY <1>0, <1>6, <2>1, <3>2, FieldCovers
    <2>3. \/ FailPoll(p) /\ now.reply = "error"
          \/ Continue(p, now.new, AfterState(stamp))
          \/ Continue(p, read, AfterState(stamp))
      BY <1>15 DEF PollState
    <2> HIDE DEF read
    <2>4. CASE FailPoll(p) /\ now.reply = "error"
      BY <1>6, <1>14, <2>1, <2>4
    <2>5. CASE Continue(p, now.new, AfterState(stamp))
      BY <1>0, <1>6, <2>1, <2>5, LoneContinue
    <2>6. CASE Continue(p, read, AfterState(stamp))
      BY <1>6, <2>1, <2>2, <2>6, LoneContinue
    <2> QED BY <2>3, <2>4, <2>5, <2>6
  <1>16. CASE PollPassage(p)
    <2> DEFINE new == [now.new EXCEPT !.config.passage = cloud.passage]
    <2>1. PollProgress(p) /\ \A u \in Tiers : u # "passage" => stamp'[u] = stamp[u]
      BY <1>0, <1>16 DEF PollPassage, PollProgress
    <2>2. new \in Data /\ ~new.pending /\ (faults' = 0 => Covers(stamp', new))
      BY <1>7, <2>1 DEF Tiers
    <2>3. Continue(p, new, AfterPassage(stamp'))
      BY <1>16 DEF PollPassage
    <2> HIDE DEF new
    <2> QED BY <1>6, <2>1, <2>2, <2>3, LoneContinue
  <1>17. CASE PollGateways(p)
    <2> DEFINE new == [now.new EXCEPT !.config.gateways = cloud.gateways]
    <2>1. PollProgress(p) /\ \A u \in Tiers : u # "gateways" => stamp'[u] = stamp[u]
      BY <1>0, <1>17 DEF PollGateways, PollProgress
    <2>2. new \in Data /\ ~new.pending /\ (faults' = 0 => Covers(stamp', new))
      BY <1>7, <2>1 DEF Tiers
    <2>3. Continue(p, new, AfterGateways(stamp'))
      BY <1>17 DEF PollGateways
    <2> HIDE DEF new
    <2> QED BY <1>6, <2>1, <2>2, <2>3, LoneContinue
  <1>18. CASE PollPasscodes(p)
    <2> DEFINE new == [now.new EXCEPT !.config.codes = cloud.codes]
    <2>1. PollProgress(p) /\ \A u \in Tiers : u # "codes" => stamp'[u] = stamp[u]
      BY <1>0, <1>18 DEF PollPasscodes, PollProgress
    <2>2. new \in Data /\ ~new.pending /\ (faults' = 0 => Covers(stamp', new))
      BY <1>7, <2>1 DEF Tiers
    <2>3. new.config.codes # "none"
      BY <1>0 DEF Data, Tiers, Setting
    <2>4. Continue(p, new, "ekeys") /\ "ekeys" \in NextStages
      BY <1>18 DEF PollPasscodes, NextStages, PollStage
    <2> HIDE DEF new
    <2> QED BY <1>6, <2>1, <2>2, <2>3, <2>4, LoneContinue
  <1>19. CASE PollEkeys(p)
    <2>1. PollProgress(p) /\ now.stage = "ekeys"
            /\ \A u \in Tiers : u # "codes" => stamp'[u] = stamp[u]
      BY <1>0, <1>19 DEF PollEkeys, PollProgress
    <2>2. faults' = 0 => Covers(stamp', now.new)
      BY <1>6, <2>1 DEF Covers
    <2>3. Continue(p, now.new, "done") /\ "done" \in NextStages
      BY <1>19 DEF PollEkeys, NextStages
    <2> QED BY <1>0, <1>6, <2>1, <2>2, <2>3, LoneContinue
  <1>20. CASE PollFails(p)
    <2>1. FailPoll(p) /\ PollProgress(p) /\ faults' # 0
      BY <1>20 DEF PollFails, PollProgress, Fault, TypeOK
    <2> QED BY <1>14, <2>1
  <1> QED
    BY <1>4, <1>5, <1>8, <1>9, <1>10, <1>11, <1>12, <1>13, <1>15, <1>16, <1>17,
       <1>18, <1>19, <1>20 DEF PollProgress

\* A task that is no poll goes on alone, or is over.
LEMMA LoneOther ==
    ASSUME TypeOK, NEW t \in Commands \cup Refreshes, InFlight' \subseteq {t},
           polls' = polls,
           faults' = 0 => Covers(stamp', data'),
           data'.pending <=> t \in Commands /\ commands'[t].stage # "idle",
           t \in Refreshes /\ refreshes'[t].stage # "idle" =>
             Carries(refreshes[t].stage, refreshes[t].new)'
    PROVE  LoneInv'
  <1>1. /\ \A p \in Polls : p \in InFlight' <=> polls'[p].stage # "idle"
        /\ \A c \in Commands : c \in InFlight' <=> commands'[c].stage # "idle"
        /\ \A r \in Refreshes : r \in InFlight' <=> refreshes'[r].stage # "idle"
    BY TaskAssumption DEF InFlight
  <1>2. /\ t \notin Polls /\ \A p \in Polls : polls'[p].stage = "idle"
        /\ \A c \in Commands : c # t => commands'[c].stage = "idle"
        /\ \A r \in Refreshes : r # t => refreshes'[r].stage = "idle"
    BY <1>1, TaskAssumption
  <1>3. Alone' /\ PendingMirrorsCommand'
    BY <1>2 DEF Alone, PendingMirrorsCommand
  <1>4. NoPoll' /\ faults' = 0 => Covers(stamp, data)'
    BY DEF Covers
  <1>5. \A r \in Refreshes : refreshes'[r].stage # "idle" =>
          Carries(refreshes[r].stage, refreshes[r].new)'
    BY <1>2
  <1>6. \A p \in Polls : polls'[p].stage # "idle" =>
          /\ Carries(polls[p].stage, polls[p].new)'
          /\ faults' = 0 => polls'[p].reply # "error"
    BY <1>2
  <1> QED BY <1>3, <1>4, <1>5, <1>6 DEF LoneInv

LEMMA CommandLone ==
    ASSUME TypeOK, SerialInv, ~overlap', NEW c \in Commands,
           (\E target \in Position : BeginCommand(c, target)) \/ CommandProgress(c)
    PROVE  LoneInv'
  <1>0. data \in Data /\ commands[c] \in Command
    BY DEF TypeOK
  <1>1. ~overlap
    BY DEF BeginCommand, Begin, CommandProgress, CommandTakesGateway,
           CloudAnswersCommand, EndCommand, historyVars
  <1>2. LoneInv
    BY <1>1 DEF SerialInv
  <1>3. UNCHANGED <<polls, refreshes, stamp>> /\ (faults' = 0 => faults = 0)
    BY DEF BeginCommand, CommandProgress, CommandTakesGateway,
           CloudAnswersCommand, EndCommand, Fault, TypeOK
  <1>4. commands' \in [Commands -> Command] /\ data' \in Data
    BY CommandType DEF TypeOK
  <1>5. \A k \in Commands : k # c => commands'[k] = commands[k]
    BY DEF TypeOK, BeginCommand, CommandProgress, CommandTakesGateway,
           CloudAnswersCommand, EndCommand
  <1>6. InFlight \subseteq {c}
    <2>1. CASE \E target \in Position : BeginCommand(c, target)
      BY <2>1 DEF BeginCommand, Begin
    <2>2. CASE CommandProgress(c)
      <3>1. commands[c].stage # "idle"
        BY <2>2 DEF CommandProgress, CommandTakesGateway, CloudAnswersCommand,
                    EndCommand
      <3> QED BY <1>2, <3>1, FlightOf, OnlyTask DEF LoneInv
    <2> QED BY <2>1, <2>2
  <1>7. InFlight' \subseteq {c}
    BY <1>3, <1>5, <1>6 DEF InFlight
  <1>8. c \notin Polls /\ c \notin Refreshes
    BY TaskAssumption
  <1>9. faults' = 0 => Covers(stamp', data')
    <2>1. NoPoll
      BY <1>6, <1>8, FlightOf DEF NoPoll
    <2>2. faults = 0 => Covers(stamp, data)
      BY <1>2, <2>1 DEF LoneInv
    <2>3. data'.config = data.config
      BY <1>0 DEF BeginCommand, CommandProgress, CommandTakesGateway,
                  CloudAnswersCommand, EndCommand, Data
    <2> QED BY <1>3, <2>2, <2>3 DEF Covers
  <1>10. data'.pending <=> commands'[c].stage # "idle"
    <2>1. CASE \E target \in Position : BeginCommand(c, target)
      <3>1. commands'[c].stage = "gateway" /\ data'.pending = TRUE
        BY <1>0, <2>1 DEF BeginCommand, TypeOK, Data
      <3> QED BY <3>1
    <2>2. CASE CommandTakesGateway(c) \/ CloudAnswersCommand(c)
      <3>1. /\ data' = data /\ commands[c].stage # "idle"
            /\ commands'[c].stage # "idle"
        BY <1>0, <2>2 DEF CommandTakesGateway, CloudAnswersCommand, TypeOK, Command
      <3> QED BY <1>2, <3>1 DEF LoneInv, PendingMirrorsCommand
    <2>3. CASE EndCommand(c)
      <3>1. commands'[c].stage = "idle" /\ data'.pending = FALSE
        BY <1>0, <2>3 DEF EndCommand, TypeOK, IdleCommand, Data
      <3> QED BY <3>1
    <2> QED BY <2>1, <2>2, <2>3 DEF CommandProgress
  <1> QED BY <1>3, <1>7, <1>8, <1>9, <1>10, LoneOther

LEMMA RefreshLone ==
    ASSUME TypeOK, SerialInv, ~overlap', NEW r \in Refreshes,
           ManageCodes(r) \/ RefreshProgress(r)
    PROVE  LoneInv'
  <1>0. /\ data \in Data /\ refreshes[r] \in Refresh /\ refreshes[r].new \in Data
        /\ cloud.codes \in Setting /\ stamp \in [Tiers -> Age]
    BY DEF TypeOK, Refresh, Tiers
  <1>1. ~overlap
    BY DEF ManageCodes, Begin, RefreshProgress, RefreshPasscodes, RefreshEkeys,
           RefreshFails, historyVars
  <1>2. LoneInv
    BY <1>1 DEF SerialInv
  <1>3. UNCHANGED <<polls, commands>> /\ (faults' = 0 => faults = 0)
    BY DEF ManageCodes, RefreshProgress, RefreshPasscodes, RefreshEkeys,
           RefreshFails, Fault, TypeOK
  <1>4. \A k \in Refreshes : k # r => refreshes'[k] = refreshes[k]
    BY DEF TypeOK, ManageCodes, RefreshProgress, RefreshPasscodes, RefreshEkeys,
           RefreshFails
  <1>5. InFlight \subseteq {r}
    <2>1. CASE ManageCodes(r)
      BY <2>1 DEF ManageCodes, Begin
    <2>2. CASE RefreshProgress(r)
      <3>1. refreshes[r].stage # "idle"
        BY <2>2 DEF RefreshProgress, RefreshPasscodes, RefreshEkeys, RefreshFails
      <3> QED BY <1>2, <3>1, FlightOf, OnlyTask DEF LoneInv
    <2> QED BY <2>1, <2>2
  <1>6. InFlight' \subseteq {r}
    BY <1>3, <1>4, <1>5 DEF InFlight
  <1>7. r \notin Polls /\ r \notin Commands
    BY TaskAssumption
  <1>8. ~data.pending /\ (faults = 0 => Covers(stamp, data))
    <2>1. NoPoll /\ \A c \in Commands : commands[c].stage = "idle"
      BY <1>5, <1>7, FlightOf DEF NoPoll
    <2> QED BY <1>2, <2>1 DEF LoneInv, PendingMirrorsCommand
  <1>9. refreshes[r].stage # "idle" => Carries(refreshes[r].stage, refreshes[r].new)
    BY <1>2 DEF LoneInv
  <1>10. CASE ManageCodes(r)
    <2>1. refreshes'[r] = [stage |-> "passcodes", new |-> data] /\ data' = data
            /\ stamp' = stamp
      BY <1>10 DEF ManageCodes, TypeOK
    <2>2. refreshes'[r].stage = "passcodes" /\ refreshes'[r].new = data
      BY <2>1
    <2>3. Carries(refreshes[r].stage, refreshes[r].new)'
      BY <1>3, <1>8, <2>1, <2>2 DEF Carries
    <2> QED BY <1>3, <1>6, <1>7, <1>8, <2>1, <2>3, LoneOther
  <1>11. CASE RefreshPasscodes(r)
    <2> DEFINE new == [refreshes[r].new EXCEPT !.config.codes = cloud.codes]
    <2>1. data' = data /\ stamp' = stamp /\ faults' = faults
            /\ refreshes[r].stage = "passcodes"
      BY <1>11 DEF RefreshPasscodes
    <2>2. refreshes'[r] = [stage |-> "ekeys", new |-> new]
      BY <1>0, <1>11 DEF RefreshPasscodes, TypeOK, Refresh
    <2>3. refreshes'[r].stage = "ekeys" /\ refreshes'[r].new = new
      BY <2>2
    <2>4. ~refreshes[r].new.pending /\ (faults = 0 => Covers(stamp, refreshes[r].new))
      BY <1>9, <2>1 DEF Carries
    <2>5. ~new.pending /\ (faults = 0 => Covers(stamp, new))
      <3>1. "codes" \in Tiers
        BY DEF Tiers
      <3>2. ~new.pending
        BY <1>0, <2>4, <3>1, FieldCovers
      <3>3. Covers(stamp, refreshes[r].new) => Covers(stamp, new)
        BY <1>0, <3>1, FetchedCovers
      <3> HIDE DEF new
      <3> QED BY <2>4, <3>2, <3>3
    <2>6. new.config.codes # "none"
      BY <1>0 DEF Data, Tiers, Setting
    <2> HIDE DEF new
    <2>7. Carries(refreshes[r].stage, refreshes[r].new)'
      BY <2>1, <2>3, <2>5, <2>6 DEF Carries
    <2> QED BY <1>3, <1>6, <1>7, <1>8, <2>1, <2>7, LoneOther
  <1>12. CASE RefreshEkeys(r)
    <2>1. /\ data' = refreshes[r].new /\ faults' = faults
          /\ stamp' = [stamp EXCEPT !.codes = "fresh"]
          /\ refreshes[r].stage = "ekeys" /\ refreshes'[r].stage = "idle"
      BY <1>12 DEF RefreshEkeys, Publish, TypeOK, IdleRefresh
    <2>2. ~data'.pending
      BY <1>9, <2>1 DEF Carries
    <2>3. faults' = 0 => Covers(stamp', data')
      BY <1>0, <1>9, <2>1 DEF Carries, Covers
    <2> QED BY <1>3, <1>6, <1>7, <2>1, <2>2, <2>3, LoneOther
  <1>13. CASE RefreshFails(r)
    <2>1. data' = data /\ stamp' = stamp /\ refreshes'[r].stage = "idle"
      BY <1>13 DEF RefreshFails, TypeOK, IdleRefresh
    <2> QED BY <1>3, <1>6, <1>7, <1>8, <2>1, LoneOther
  <1> QED BY <1>10, <1>11, <1>12, <1>13 DEF RefreshProgress

LEMMA EnvironmentLone ==
    ASSUME TypeOK, SerialInv, ~overlap', Environment
    PROVE  LoneInv'
  <1>0. data \in Data /\ stamp \in [Tiers -> Age] /\ faults \in Nat
    BY DEF TypeOK
  <1>1. UNCHANGED <<polls, commands, refreshes, overlap>>
    BY DEF Environment, SetAutoLock, EditOutside, SlowIntervalElapses, Turn,
           DoorCloses, ProcessWebhook, LoseWebhook, AutoLocked, taskVars, historyVars
  <1>2. faults' = 0 => faults = 0
    <2>1. faults' = faults \/ Fault
      BY DEF Environment, SetAutoLock, EditOutside, SlowIntervalElapses, Turn,
             DoorCloses, ProcessWebhook, LoseWebhook, AutoLocked
    <2>2. Fault => faults' # 0
      BY <1>0 DEF Fault
    <2> QED BY <2>1, <2>2
  <1>3. \A t \in Tiers : stamp'[t] # "never" => stamp[t] # "never"
    BY <1>0 DEF Environment, SetAutoLock, EditOutside, SlowIntervalElapses, Turn,
           DoorCloses, ProcessWebhook, LoseWebhook, AutoLocked
  <1>4. data'.pending = data.pending
          /\ \A t \in Tiers : data.config[t] # "none" => data'.config[t] # "none"
    <2>1. CASE \E v : data' = [data EXCEPT !.locked = v]
      BY <1>0, <2>1 DEF Data
    <2>2. CASE \E v \in Setting : data' = [data EXCEPT !.config.details = v]
      BY <1>0, <2>2 DEF Data, Setting
    <2>3. CASE data' = data
      BY <2>3
    <2> QED
      BY <2>1, <2>2, <2>3
         DEF Environment, SetAutoLock, EditOutside, SlowIntervalElapses, Turn,
             DoorCloses, ProcessWebhook, LoseWebhook, AutoLocked, Publish
  <1>5. LoneInv
    BY <1>1 DEF SerialInv
  <1> QED BY <1>1, <1>2, <1>3, <1>4, <1>5, LoneEnvironment

LEMMA SerialInvariant == Spec => []SerialInv
  <1>1. Init => SerialInv
    <2> SUFFICES ASSUME Init PROVE LoneInv
      BY DEF SerialInv
    <2>1. InFlight = {} /\ ~data.pending
      BY DEF Init, InFlight, IdlePoll, IdleCommand, IdleRefresh, NoData
    <2>2. Alone /\ PendingMirrorsCommand
      BY <2>1, FlightOf DEF Alone, PendingMirrorsCommand
    <2>3. Covers(stamp, data)
      BY DEF Init, Covers
    <2> QED BY <2>1, <2>2, <2>3, FlightOf DEF LoneInv
  <1>2. TypeOK /\ SerialInv /\ [Next]_vars => SerialInv'
    <2> SUFFICES ASSUME TypeOK, SerialInv, [Next]_vars, ~overlap'
                 PROVE  LoneInv'
      BY DEF SerialInv
    <2>1. CASE UNCHANGED vars
      <3>1. UNCHANGED <<polls, commands, refreshes, data, stamp, faults, overlap>>
        BY <2>1 DEF vars, taskVars, historyVars
      <3>2. LoneInv
        BY <3>1 DEF SerialInv
      <3> QED BY <3>1, <3>2, LoneEnvironment
    <2>2. CASE Next
      BY <2>2, PollLone, CommandLone, RefreshLone, EnvironmentLone
         DEF Next, Environment
    <2> QED BY <2>1, <2>2
  <1> QED BY <1>1, <1>2, TypeCorrect, PTL DEF Spec

\* While no two tasks are in progress at once, an entity shows locking or
\* unlocking exactly while a command is in progress, also when polls copy and
\* publish the data, and when commands fail.
THEOREM PendingMirrors == Spec => []SerialPendingMirrorsCommand
  <1>1. SerialInv => SerialPendingMirrorsCommand
    BY DEF SerialInv, LoneInv, SerialPendingMirrorsCommand
  <1> QED BY <1>1, SerialInvariant, PTL

\* While no two tasks are in progress at once and no call fails, what is
\* stamped as fetched is there, in the data or in the copy of the poll.
THEOREM StampsHold == Spec => []SerialStampsHold
  <1>1. SerialInv => SerialStampsHold
    <2> SUFFICES ASSUME LoneInv, faults = 0, NEW t \in Tiers, stamp[t] # "never"
                 PROVE  \/ data.config[t] # "none"
                        \/ \E p \in Polls : polls[p].new.config[t] # "none"
      BY DEF SerialInv, SerialStampsHold
    <2>1. CASE NoPoll
      BY <2>1 DEF LoneInv, Covers
    <2>2. CASE ~NoPoll
      <3>1. PICK p \in Polls : polls[p].stage # "idle"
        BY <2>2 DEF NoPoll
      <3>2. Covers(stamp, polls[p].new)
        BY <3>1 DEF LoneInv, Carries
      <3> QED BY <3>2 DEF Covers
    <2> QED BY <2>1, <2>2
  <1> QED BY <1>1, SerialInvariant, PTL

=============================================================================
