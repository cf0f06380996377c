----------------------- MODULE CodeManagement_proofs -----------------------
(***************************************************************************)
(* Theorems about CodeManagement, for any locks, codes, keys, selections   *)
(* and bounds, and any number of calls and panels in progress.             *)
(***************************************************************************)
EXTENDS CodeManagement, SequenceTheorems, TLAPS

-----------------------------------------------------------------------------
(* Typing *)

\* A task in progress has a lock to work at, of coordinators that there are; what
\* is stored in the data is a setting.
Formed(r) ==
    /\ r \in Task
    /\ r.stage # "idle" => r.locks # <<>> /\ r.of \in 1..generation
    /\ r.stage \in {"pins", "keys"} => r.copy # None
    /\ r.handler.call = "configure" \/ r.handler.after = "store" => r.id \in Setting
    /\ r.handler.call = "cleanup" \/ r.stage = "list" => r.handler = CleanupPasscodes

TasksInv == TypeOK /\ \A t \in Tasks : Formed(task[t])

LEMMA IdleFormed == Formed(Idle) /\ Idle.stage = "idle"
  <1>1. NoHandler \in Handler /\ NoHandler.call = "read" /\ NoHandler.after = "nothing"
    BY DEF NoHandler, Each, Handler
  <1>2. Idle \in Task /\ Idle.stage = "idle" /\ Idle.handler = NoHandler
    BY <1>1 DEF Idle, Task
  <1> QED BY <1>1, <1>2 DEF Formed

LEMMA InitTasks == Init => TasksInv
  <1> SUFFICES ASSUME Init PROVE TasksInv
    OBVIOUS
  <1>1. cloud \in Cloud
    BY CloudAssumption DEF Init
  <1>2. \A l \in Locks : Filled(l) \in Data /\ Unfilled(l) \in Data
    BY <1>1 DEF Filled, Unfilled, Data, PinsOf, KeysOf, Listed, Cloud, Period, KeyStatus,
                Setting
  <1>3. PICK filled \in BOOLEAN :
           data = <<[l \in Locks |-> IF filled THEN Filled(l) ELSE Unfilled(l)]>>
    BY DEF Init
  <1>4. data \in [1..generation -> [Locks -> Data]]
    BY <1>2, <1>3 DEF Init
  <1>6. Idle \in Task
    BY IdleFormed DEF Formed
  <1>7. \A t \in Tasks : task[t] = Idle /\ Formed(task[t])
    BY IdleFormed DEF Init
  <1>8. TypeOK
    <2>1. task \in [Tasks -> Task]
      BY <1>6 DEF Init
    <2>2. requests = 0 /\ troubles = 0 /\ generation = 1 /\ disturbed = FALSE /\ gw = None
      BY DEF Init
    <2>3. generation \in 1..(1 + troubles) /\ bounds \in Nat \X Nat
      BY <2>2 DEF bounds
    <2> QED BY <1>1, <1>4, <1>7, <2>1, <2>2, <2>3 DEF TypeOK, Formed
  <1> QED BY <1>7, <1>8 DEF TasksInv

\* What a task in progress works at.
LEMMA AtWork ==
    ASSUME TasksInv, NEW t \in Tasks, task[t].stage # "idle"
    PROVE  /\ task[t] \in Task /\ Lock(t) \in Locks
           /\ task[t].of \in 1..generation /\ task[t].locks # <<>>
           /\ DataOf(t) \in Data
           /\ Tail(task[t].locks) \in Seq(Locks)
           /\ Len(task[t].locks) > 1 => Tail(task[t].locks) # <<>>
  <1>1. task[t] \in Task /\ task[t].locks \in Seq(Locks) /\ task[t].locks # <<>>
        /\ task[t].of \in 1..generation
    BY DEF TasksInv, TypeOK, Formed, Task
  <1>2. Lock(t) \in Locks /\ Tail(task[t].locks) \in Seq(Locks)
        /\ Len(Tail(task[t].locks)) = Len(task[t].locks) - 1
    BY <1>1, HeadTailProperties DEF Lock
  <1>3. Len(task[t].locks) > 1 => Tail(task[t].locks) # <<>>
    BY <1>1, <1>2
  <1>4. DataOf(t) \in Data
    BY <1>1, <1>2 DEF DataOf, TasksInv, TypeOK
  <1> QED BY <1>1, <1>2, <1>3, <1>4

\* A step of one task.
LEMMA TaskStep ==
    ASSUME TasksInv, NEW t \in Tasks, NEW r, Formed(r), Set(t, r),
           generation' = generation,
           cloud' \in Cloud, data' \in [1..generation -> [Locks -> Data]],
           gw' \in Tasks \cup {None}, requests' \in Nat,
           troubles' \in Nat, troubles' >= troubles, disturbed' \in BOOLEAN
    PROVE  TasksInv'
  <1>1. task' \in [Tasks -> Task] /\ \A u \in Tasks : Formed(task'[u])
    BY DEF TasksInv, TypeOK, Set, Formed
  <1>2. \A u \in Tasks : Formed(task[u])'
    BY <1>1 DEF Formed
  <1>3. generation' \in 1..(1 + troubles') /\ bounds' \in Nat \X Nat
    BY DEF TasksInv, TypeOK, bounds
  <1>4. TypeOK'
    BY <1>1, <1>3 DEF TypeOK, Formed
  <1> QED BY <1>2, <1>4 DEF TasksInv

\* The ways in which a task goes on.
LEMMA BegunFormed ==
    ASSUME NEW r, Formed(r), r.locks # <<>>, r.of \in 1..generation
    PROVE  Formed(Begun(r))
  <1>1. r \in Task
    BY DEF Formed
  <1>2. Begun(r) \in Task /\ Begun(r).stage \in {"list", "call"}
        /\ Begun(r).locks = r.locks /\ Begun(r).of = r.of /\ Begun(r).id = r.id
        /\ Begun(r).handler = r.handler
        /\ (Begun(r).stage = "list" => r.handler = CleanupPasscodes)
    BY <1>1 DEF Begun, Task
  <1> QED BY <1>2 DEF Formed

LEMMA ProceedFormed ==
    ASSUME TasksInv, NEW t \in Tasks, task[t].stage # "idle"
    PROVE  Formed(Proceed(t)) /\ Proceed(t).stage \in {"list", "call", "menu", "idle"}
  <1>1. CASE Len(task[t].locks) > 1
    <2> DEFINE r == [task[t] EXCEPT !.locks = Tail(@), !.expired = {}, !.copy = None]
    <2> DEFINE s == [r EXCEPT !.stage = "call"]
    <2>1. s \in Task /\ s.stage = "call" /\ s.locks # <<>> /\ s.of \in 1..generation
          /\ s.id = task[t].id /\ s.handler = task[t].handler
      BY <1>1, AtWork DEF Task
    <2>2. Formed(s)
      <3>1. Formed(task[t])
        BY DEF TasksInv
      <3> HIDE DEF s
      <3> QED BY <2>1, <3>1 DEF Formed
    <2>3. Begun(r) = Begun(s) /\ Proceed(t) = Begun(r)
      <3>1. task[t] \in Task
        BY AtWork
      <3> QED BY <1>1, <3>1 DEF Begun, Task, Proceed
    <2>4. Begun(s).stage \in {"list", "call"}
      BY <2>1 DEF Begun, Task
    <2> HIDE DEF r, s
    <2> QED BY <2>1, <2>2, <2>3, <2>4, BegunFormed
  <1>2. CASE ~(Len(task[t].locks) > 1) /\ t \in Panels
    <2>1. Proceed(t) = [Idle EXCEPT !.stage = "menu", !.locks = task[t].locks, !.of = task[t].of]
      BY <1>2 DEF Proceed
    <2>2. Idle \in Task /\ Idle.handler = Each("read", "nothing")
      BY DEF Idle, Task, NoHandler, Each, Handler
    <2>3. task[t].locks \in Seq(Locks) /\ task[t].locks # <<>> /\ task[t].of \in 1..generation
          /\ task[t].of \in Nat
      BY AtWork DEF Task
    <2>4. /\ Proceed(t) \in Task /\ Proceed(t).stage = "menu"
          /\ Proceed(t).locks # <<>> /\ Proceed(t).of \in 1..generation
          /\ Proceed(t).handler = Each("read", "nothing")
      BY <2>1, <2>2, <2>3 DEF Task
    <2> QED BY <2>4 DEF Formed, Each
  <1>3. CASE ~(Len(task[t].locks) > 1) /\ t \notin Panels
    <2>1. Proceed(t) = Idle
      BY <1>3 DEF Proceed
    <2> QED BY <2>1, IdleFormed
  <1> QED BY <1>1, <1>2, <1>3

LEMMA DroppedFormed ==
    ASSUME TasksInv, NEW t \in Tasks, task[t].stage # "idle"
    PROVE  Formed(Dropped(t)) /\ Dropped(t).stage \in {"form", "idle"}
  <1>1. CASE task[t].handler # NoHandler /\ t \in Panels
    <2>1. /\ Dropped(t) \in Task /\ Dropped(t).stage = "form"
          /\ Dropped(t).locks = task[t].locks /\ Dropped(t).of = task[t].of
          /\ Dropped(t).id = task[t].id /\ Dropped(t).handler = task[t].handler
      BY <1>1, AtWork DEF Dropped, Task
    <2>2. Formed(task[t])
      BY DEF TasksInv
    <2> QED BY <2>1, <2>2 DEF Formed
  <1>2. CASE ~(task[t].handler # NoHandler /\ t \in Panels)
    <2>1. Dropped(t) = Idle
      BY <1>2 DEF Dropped
    <2> QED BY <2>1, IdleFormed
  <1> QED BY <1>1, <1>2

LEMMA RefetchFormed ==
    ASSUME TasksInv, NEW t \in Tasks, task[t].stage # "idle"
    PROVE  Formed(Refetch(t)) /\ Refetch(t).stage = "pins"
  <1>1. /\ Refetch(t) \in Task /\ Refetch(t).stage = "pins" /\ Refetch(t).copy = DataOf(t)
        /\ Refetch(t).locks = task[t].locks /\ Refetch(t).of = task[t].of
        /\ Refetch(t).id = task[t].id /\ Refetch(t).handler = task[t].handler
    BY AtWork DEF Refetch, Task
  <1>2. DataOf(t) # None
    BY AtWork, DataAssumption
  <1>3. Formed(task[t])
    BY DEF TasksInv
  <1> QED BY <1>1, <1>2, <1>3 DEF Formed

-----------------------------------------------------------------------------
(* GW_LOCK *)

Relaying(t) == task[t].stage \in {"sent", "answered"} /\ Request(t) \in Relayed
GatewayInv == TasksInv /\ GatewayIsAtWork

\* A step outside a request, or within one.
LEMMA GatewayKept ==
    ASSUME GatewayInv, NEW t \in Tasks, NEW r, Set(t, r), gw' = gw,
           \/ task[t].stage \notin {"sent", "answered"}
              /\ r.stage \notin {"sent", "answered"}
           \/ task[t].stage = "sent" /\ r.stage = "answered"
              /\ r.handler = task[t].handler
    PROVE  GatewayIsAtWork'
  <1>1. task' = [task EXCEPT ![t] = r] /\ task \in [Tasks -> Task]
    BY DEF Set, GatewayInv, TasksInv, TypeOK
  <1>2. ASSUME NEW u \in Tasks PROVE Relaying(u)' <=> Relaying(u)
    <2>1. CASE u = t
      BY <1>1, <2>1 DEF Relaying, Request, Cleans
    <2>2. CASE u # t
      BY <1>1, <2>2 DEF Relaying, Request, Cleans
    <2> QED BY <2>1, <2>2
  <1> QED BY <1>2 DEF GatewayInv, GatewayIsAtWork, Relaying

\* A request is sent.
LEMMA GatewayTaken ==
    ASSUME GatewayInv, NEW t \in Tasks, Send(t)
    PROVE  GatewayIsAtWork' /\ gw' \in Tasks \cup {None}
  <1>1. task' = [task EXCEPT ![t] = [task[t] EXCEPT !.stage = "sent"]]
        /\ task \in [Tasks -> Task] /\ gw \in Tasks \cup {None}
    BY DEF Send, Set, GatewayInv, TasksInv, TypeOK
  <1>2. task'[t].stage = "sent" /\ task'[t].handler = task[t].handler
        /\ \A u \in Tasks \ {t} : task'[u] = task[u]
    BY <1>1 DEF Task
  <1>3. (Relaying(t)' <=> Request(t) \in Relayed)
        /\ \A u \in Tasks \ {t} : Relaying(u)' <=> Relaying(u)
    BY <1>2 DEF Relaying, Request, Cleans
  <1>4. \A u \in Tasks : gw = u <=> Relaying(u)
    BY DEF GatewayInv, GatewayIsAtWork, Relaying
  <1>5. ~Relaying(t)
    BY DEF Send, Relaying
  <1>6. \A u \in Tasks : gw' = u <=> Relaying(u)'
    <2>1. CASE Request(t) \in Relayed
      BY <1>3, <1>4, <2>1, TaskAssumption DEF Send
    <2>2. CASE Request(t) \notin Relayed
      BY <1>3, <1>4, <1>5, <2>2 DEF Send
    <2> QED BY <2>1, <2>2
  <1> QED BY <1>1, <1>6 DEF Send, GatewayIsAtWork, Relaying

\* A request is over.
LEMMA GatewayLeft ==
    ASSUME GatewayInv, NEW t \in Tasks, NEW r, Set(t, r), Leave(t),
           r.stage \notin {"sent", "answered"}
    PROVE  GatewayIsAtWork' /\ gw' \in Tasks \cup {None}
  <1>1. task' = [task EXCEPT ![t] = r] /\ task \in [Tasks -> Task]
        /\ gw \in Tasks \cup {None}
    BY DEF Set, GatewayInv, TasksInv, TypeOK
  <1>2. ~Relaying(t)' /\ \A u \in Tasks \ {t} : Relaying(u)' <=> Relaying(u)
    BY <1>1 DEF Relaying, Request, Cleans
  <1>3. \A u \in Tasks : gw = u <=> Relaying(u)
    BY DEF GatewayInv, GatewayIsAtWork, Relaying
  <1>4. \A u \in Tasks : gw' = u <=> Relaying(u)'
    BY <1>2, <1>3, TaskAssumption DEF Leave
  <1> QED BY <1>1, <1>4 DEF Leave, GatewayIsAtWork, Relaying

-----------------------------------------------------------------------------
(* Requests of the user *)

\* A service is called with what its handler expects.
LEMMA ServiceTyped ==
    ASSUME NEW h \in Services, NEW id \in Arguments(h)
    PROVE  /\ h \in Handler /\ id \in Pins \cup Keys \cup Setting \cup {None}
           /\ h.call = "configure" \/ h.after = "store" => id \in Setting
           /\ h.call = "cleanup" => h = CleanupPasscodes
  <1>1. CASE h \in PasscodeServices
    BY <1>1 DEF PasscodeServices, CreatePasscode, ModifyPasscode, DeletePasscode,
                CleanupPasscodes, ListPasscodes, ListRecords, Each, Handler, Arguments
  <1>2. CASE h \in SettingServices
    BY <1>2 DEF SettingServices, ConfigurePassageMode, ConfigureAutolock, TurnSwitch, Each,
                Handler, Arguments
  <1>3. CASE h \in EnrolledServices
    BY <1>3 DEF EnrolledServices, ListCards, RenameCard, DeleteCard, ListFingerprints,
                RenameFingerprint, DeleteFingerprint, Each, Handler, Arguments
  <1>4. CASE h \in EkeyServices
    BY <1>4 DEF EkeyServices, ListEkeys, SendEkey, DeleteEkey, FreezeEkey, UnfreezeEkey,
                SetEkeyPeriod, ModifyEkey, Each, First, Handler, Arguments
  <1> QED BY <1>1, <1>2, <1>3, <1>4 DEF Services

LEMMA StartRequestInv ==
    ASSUME GatewayInv, NEW t \in Tasks, NEW r, Formed(r), r.locks # <<>>,
           r.of \in 1..generation, StartRequest(t, r),
           task[t].stage \notin {"sent", "answered"}
    PROVE  GatewayInv'
  <1>1. Formed(Begun(r)) /\ Begun(r).stage \in {"list", "call"}
    <2>1. r \in Task
      BY DEF Formed
    <2> QED BY <2>1, BegunFormed DEF Begun, Task
  <1>2. TasksInv'
    <2>1. /\ Set(t, Begun(r)) /\ generation' = generation /\ cloud' \in Cloud
          /\ data' \in [1..generation -> [Locks -> Data]] /\ gw' \in Tasks \cup {None}
          /\ requests' \in Nat /\ troubles' \in Nat /\ troubles' >= troubles
      BY DEF StartRequest, GatewayInv, TasksInv, TypeOK, bounds
    <2>2. disturbed' \in BOOLEAN
      BY DEF StartRequest, GatewayInv, TasksInv, TypeOK
    <2> QED BY <1>1, <2>1, <2>2, TaskStep DEF GatewayInv
  <1>3. GatewayIsAtWork'
    BY <1>1, GatewayKept DEF StartRequest
  <1> QED BY <1>2, <1>3 DEF GatewayInv

LEMMA CallServiceInv ==
    ASSUME GatewayInv, NEW t \in Tasks, CallService(t)
    PROVE  GatewayInv'
  <1>1. PICK h \in Services, selection \in Selections :
           \E id \in Arguments(h) :
              StartRequest(t, [Idle EXCEPT !.handler = h, !.of = generation,
                                           !.locks = Handled(h, selection), !.id = id])
    BY DEF CallService
  <1>2. PICK id \in Arguments(h) :
           StartRequest(t, [Idle EXCEPT !.handler = h, !.of = generation,
                                        !.locks = Handled(h, selection), !.id = id])
    BY <1>1
  <1> DEFINE r == [Idle EXCEPT !.handler = h, !.of = generation,
                               !.locks = Handled(h, selection), !.id = id]
  <1>3. Handled(h, selection) \in Seq(Locks) /\ Handled(h, selection) # <<>>
    <2>1. selection \in Seq(Locks) /\ selection # <<>>
      BY SelectionAssumption
    <2>2. Head(selection) \in Locks
      BY <2>1, HeadTailProperties
    <2> QED BY <2>1, <2>2 DEF Handled, FirstCoordinator
  <1>4. generation \in Nat /\ generation \in 1..generation
    BY DEF GatewayInv, TasksInv, TypeOK
  <1>5. r \in Task /\ r.stage = "idle" /\ r.locks = Handled(h, selection)
        /\ r.of = generation /\ r.handler = h /\ r.id = id
    BY <1>3, <1>4, ServiceTyped, IdleFormed DEF Formed, Task
  <1> HIDE DEF r
  <1>6. Formed(r)
    BY <1>5, ServiceTyped DEF Formed
  <1>7. task[t].stage = "idle"
    BY IdleFormed DEF CallService
  <1>8. StartRequest(t, r)
    BY <1>2 DEF r
  <1> QED BY <1>3, <1>4, <1>5, <1>6, <1>7, <1>8, StartRequestInv

\* A task goes on while nobody enters or leaves GW_LOCK.
LEMMA QuietStep ==
    ASSUME GatewayInv, NEW t \in Tasks, NEW r, Formed(r), Set(t, r),
           generation' = generation, gw' = gw, cloud' \in Cloud,
           data' \in [1..generation -> [Locks -> Data]],
           requests' = requests, troubles' = troubles \/ Trouble,
           disturbed' \in BOOLEAN,
           \/ task[t].stage \notin {"sent", "answered"}
              /\ r.stage \notin {"sent", "answered"}
           \/ task[t].stage = "sent" /\ r.stage = "answered"
              /\ r.handler = task[t].handler
    PROVE  GatewayInv'
  <1>1. requests' \in Nat /\ troubles' \in Nat /\ troubles' >= troubles
    BY DEF GatewayInv, TasksInv, TypeOK, bounds, Trouble
  <1>2. gw' \in Tasks \cup {None}
    BY DEF GatewayInv, TasksInv, TypeOK
  <1>3. TasksInv'
    BY <1>1, <1>2, TaskStep DEF GatewayInv
  <1>4. GatewayIsAtWork'
    BY GatewayKept
  <1> QED BY <1>3, <1>4 DEF GatewayInv

LEMMA OpenPanelInv ==
    ASSUME GatewayInv, NEW t \in Tasks, OpenPanel(t)
    PROVE  GatewayInv'
  <1>1. PICK l \in Locks :
           LET d == data[generation][l]
               r == [Idle EXCEPT !.locks = <<l>>, !.of = generation]
           IN  /\ Set(t, IF d.fetched THEN [r EXCEPT !.stage = "menu"]
                         ELSE [r EXCEPT !.stage = "pins", !.copy = d])
               /\ disturbed' = (disturbed \/ (~d.fetched /\ Working # {}))
    BY DEF OpenPanel
  <1> DEFINE d == data[generation][l]
  <1> DEFINE r == [Idle EXCEPT !.locks = <<l>>, !.of = generation]
  <1> DEFINE s == IF d.fetched THEN [r EXCEPT !.stage = "menu"]
                  ELSE [r EXCEPT !.stage = "pins", !.copy = d]
  <1>2. generation \in Nat /\ generation \in 1..generation /\ d \in Data
    BY DEF GatewayInv, TasksInv, TypeOK
  <1>3. <<l>> \in Seq(Locks) /\ <<l>> # <<>>
    OBVIOUS
  <1>4. Idle \in Task /\ Idle.handler = NoHandler /\ Idle.stage = "idle"
    BY IdleFormed DEF Formed, Idle
  <1>5. d # None
    BY <1>2, DataAssumption
  <1>6. /\ s \in Task /\ s.stage \in {"menu", "pins"} /\ s.locks = <<l>>
        /\ s.of = generation /\ s.handler = NoHandler
        /\ s.stage = "pins" => s.copy = d
    <2> HIDE DEF d
    <2> QED BY <1>2, <1>3, <1>4 DEF Task
  <1> HIDE DEF s, r, d
  <1>7. Formed(s)
    BY <1>2, <1>3, <1>5, <1>6 DEF Formed, NoHandler, Each
  <1>8. Set(t, s) /\ disturbed' \in BOOLEAN
    <2>1. disturbed \in BOOLEAN
      BY DEF GatewayInv, TasksInv, TypeOK
    <2>2. Set(t, s)
      BY <1>1 DEF s, r, d
    <2>3. disturbed' = (disturbed \/ (~d.fetched /\ Working # {}))
      BY <1>1 DEF d
    <2> QED BY <2>1, <2>2, <2>3
  <1>9. task[t].stage = "idle"
    BY <1>4 DEF OpenPanel
  <1>10. cloud' \in Cloud /\ data' \in [1..generation -> [Locks -> Data]]
         /\ generation' = generation /\ gw' = gw /\ requests' = requests
         /\ troubles' = troubles
    BY DEF OpenPanel, GatewayInv, TasksInv, TypeOK, bounds
  <1> QED BY <1>6, <1>7, <1>8, <1>9, <1>10, QuietStep

\* What the panel offers is what a handler expects.
LEMMA MenuTyped ==
    ASSUME NEW d, NEW choice \in Menu(d)
    PROVE  /\ choice[1] \in Handler /\ choice[1].call # "configure"
           /\ choice[1].after # "store" /\ choice[1].call # "cleanup"
           /\ choice[2] \in Pins \cup Keys \cup Setting \cup {None}
  <1>1. CASE choice \in AddPinForm \/ choice \in DeletePinForm(d) \/ choice \in SendEkeyForm
    BY <1>1 DEF AddPinForm, DeletePinForm, SendEkeyForm, CreatePasscode, DeletePasscode,
                SendEkey, Each, Handler
  <1>2. CASE \/ choice \in EkeyForm(d, DeleteEkey, KeyStatus)
             \/ choice \in EkeyForm(d, FreezeEkey, {"normal"})
             \/ choice \in EkeyForm(d, UnfreezeEkey, {"frozen"})
    BY <1>2 DEF EkeyForm, DeleteEkey, FreezeEkey, UnfreezeEkey, First, Handler
  <1> QED BY <1>1, <1>2 DEF Menu

LEMMA ShowFormInv ==
    ASSUME GatewayInv, NEW t \in Tasks, ShowForm(t)
    PROVE  GatewayInv'
  <1>1. PICK choice \in Menu(DataOf(t)) :
           Set(t, [task[t] EXCEPT !.stage = "form", !.handler = choice[1],
                                  !.id = choice[2]])
    BY DEF ShowForm
  <1> DEFINE r == [task[t] EXCEPT !.stage = "form", !.handler = choice[1],
                                  !.id = choice[2]]
  <1>2. task[t].stage = "menu" /\ task[t] \in Task /\ Formed(task[t])
    BY DEF ShowForm, GatewayInv, TasksInv, TypeOK
  <1>3. r \in Task /\ r.stage = "form" /\ r.locks = task[t].locks /\ r.of = task[t].of
        /\ r.handler = choice[1] /\ r.id = choice[2]
    BY <1>2, MenuTyped DEF Task
  <1> HIDE DEF r
  <1>4. Formed(r)
    BY <1>2, <1>3, MenuTyped DEF Formed
  <1>5. Set(t, r)
    BY <1>1 DEF r
  <1>6. cloud' \in Cloud /\ data' \in [1..generation -> [Locks -> Data]]
        /\ generation' = generation /\ gw' = gw /\ requests' = requests
        /\ troubles' = troubles /\ disturbed' \in BOOLEAN
    BY DEF ShowForm, GatewayInv, TasksInv, TypeOK, bounds
  <1> QED BY <1>2, <1>3, <1>4, <1>5, <1>6, QuietStep

LEMMA SubmitFormInv ==
    ASSUME GatewayInv, NEW t \in Tasks, SubmitForm(t)
    PROVE  GatewayInv'
  <1>1. Formed(task[t]) /\ task[t].stage = "form" /\ StartRequest(t, task[t])
    BY DEF SubmitForm, GatewayInv, TasksInv
  <1> QED BY <1>1, StartRequestInv DEF Formed

LEMMA ClosePanelInv ==
    ASSUME GatewayInv, NEW t \in Tasks, ClosePanel(t)
    PROVE  GatewayInv'
  <1>1. Formed(Idle) /\ Idle.stage = "idle" /\ Set(t, Idle)
        /\ task[t].stage \in {"menu", "form"}
    BY IdleFormed DEF ClosePanel
  <1>2. cloud' \in Cloud /\ data' \in [1..generation -> [Locks -> Data]]
        /\ generation' = generation /\ gw' = gw /\ requests' = requests
        /\ troubles' = troubles /\ disturbed' \in BOOLEAN
    BY DEF ClosePanel, GatewayInv, TasksInv, TypeOK, bounds
  <1> QED BY <1>1, <1>2, QuietStep

-----------------------------------------------------------------------------
(* Requests to the cloud *)

\* Whatever a request does, TTLock still has codes, keys and settings.
LEMMA CarriedTyped ==
    ASSUME cloud \in Cloud, NEW call, NEW l \in Locks, NEW id, call # "cleanup",
           call \in {h.call : h \in Handler}, call = "configure" => id \in Setting
    PROVE  Carried(call, l, id) \subseteq Cloud
  <1>1. /\ cloud.pins \in [Pins -> {None} \cup [lock : Locks, is : Period]]
        /\ cloud.keys \in [Keys -> {None} \cup [lock : Locks, is : KeyStatus]]
        /\ cloud.setting \in [Locks -> Setting]
        /\ cloud = [pins |-> cloud.pins, keys |-> cloud.keys, setting |-> cloud.setting]
    BY DEF Cloud
  <1>2. ASSUME NEW p, NEW period \in Period
        PROVE  [cloud EXCEPT !.pins[p] = Of(l, period)] \in Cloud
    BY <1>1 DEF Cloud, Of
  <1>3. ASSUME NEW p
        PROVE  [cloud EXCEPT !.pins[p] = None] \in Cloud
    BY <1>1 DEF Cloud
  <1>4. ASSUME NEW k
        PROVE  [cloud EXCEPT !.keys[k] = Of(l, "normal")] \in Cloud
               /\ [cloud EXCEPT !.keys[k] = None] \in Cloud
    BY <1>1 DEF Cloud, Of, KeyStatus
  <1>5. ASSUME NEW k, NEW status \in KeyStatus, HasKey(k)
        PROVE  [cloud EXCEPT !.keys[k].is = status] \in Cloud
    <2>1. CASE k \in Keys
      <3>1. cloud.keys[k] \in [lock : Locks, is : KeyStatus]
        BY <1>1, <1>5, <2>1 DEF HasKey
      <3>2. [cloud.keys[k] EXCEPT !.is = status] \in [lock : Locks, is : KeyStatus]
        BY <3>1
      <3> QED BY <1>1, <2>1, <3>2 DEF Cloud
    <2>2. CASE k \notin Keys
      BY <1>1, <2>2 DEF Cloud
    <2> QED BY <2>1, <2>2
  <1>6. CASE call = "configure"
    BY <1>1, <1>6 DEF Carried, Configure, Cloud
  <1>7. CASE call \in {"add_pin", "modify_pin", "delete_pin"}
    BY <1>2, <1>3, <1>7 DEF Carried, AddPin, ModifyPin, DeletePin
  <1>8. CASE call \in {"enrolled", "read"}
    BY <1>8 DEF Carried, Enrolled
  <1>9. CASE call \in {"send_key", "delete_key", "edit_key"}
    BY <1>4, <1>9 DEF Carried, SendKey, DeleteKey, EditKey
  <1>10. CASE call \in {"freeze_key", "unfreeze_key"}
    BY <1>5, <1>10 DEF Carried, KeyBecomes, KeyStatus
  <1>11. call \in {"add_pin", "modify_pin", "delete_pin", "cleanup", "configure",
                   "enrolled", "read", "send_key", "delete_key", "freeze_key",
                   "unfreeze_key", "edit_key"}
    BY DEF Handler
  <1> QED BY <1>6, <1>7, <1>8, <1>9, <1>10, <1>11

LEMMA RequestTyped ==
    ASSUME TasksInv, NEW t \in Tasks
    PROVE  /\ Request(t) \in {h.call : h \in Handler} /\ Request(t) # "cleanup"
           /\ Request(t) = "configure" => task[t].id \in Setting
  <1>1. Formed(task[t]) /\ task[t].handler \in Handler
    BY DEF TasksInv, TypeOK, Task
  <1>2. CASE Cleans(t)
    <2>1. Request(t) = "delete_pin" /\ DeletePasscode \in Handler
          /\ DeletePasscode.call = "delete_pin"
      BY <1>2 DEF Request, DeletePasscode, Each, Handler
    <2> QED BY <2>1
  <1>3. CASE ~Cleans(t)
    BY <1>1, <1>3 DEF Request, Cleans, Formed
  <1> QED BY <1>2, <1>3

LEMMA SendInv ==
    ASSUME GatewayInv, NEW t \in Tasks, Send(t)
    PROVE  GatewayInv'
  <1> DEFINE r == [task[t] EXCEPT !.stage = "sent"]
  <1>1. task[t].stage = "call" /\ task[t] \in Task /\ Formed(task[t])
    BY DEF Send, GatewayInv, TasksInv, TypeOK
  <1>2. r \in Task /\ r.stage = "sent" /\ r.locks = task[t].locks /\ r.of = task[t].of
        /\ r.handler = task[t].handler /\ r.id = task[t].id
    BY <1>1 DEF Task
  <1>3. Set(t, r)
    BY DEF Send
  <1> HIDE DEF r
  <1>4. Formed(r)
    BY <1>1, <1>2 DEF Formed
  <1>5. cloud' \in Cloud /\ data' \in [1..generation -> [Locks -> Data]]
        /\ generation' = generation /\ requests' \in Nat
        /\ troubles' \in Nat /\ troubles' >= troubles /\ disturbed' \in BOOLEAN
    BY DEF Send, GatewayInv, TasksInv, TypeOK, bounds
  <1>6. TasksInv'
    BY <1>3, <1>4, <1>5, GatewayTaken, TaskStep DEF GatewayInv
  <1> QED BY <1>6, GatewayTaken DEF GatewayInv

\* An answer is there, the one that was given or an exception.
LEMMA AnsweredFormed ==
    ASSUME TasksInv, NEW t \in Tasks, task[t].stage = "sent", NEW reply \in {"ok", "raised"}
    PROVE  /\ Formed([task[t] EXCEPT !.stage = "answered", !.reply = reply])
           /\ [task[t] EXCEPT !.stage = "answered", !.reply = reply].stage = "answered"
           /\ [task[t] EXCEPT !.stage = "answered", !.reply = reply].handler = task[t].handler
  <1> DEFINE r == [task[t] EXCEPT !.stage = "answered", !.reply = reply]
  <1>1. task[t] \in Task /\ Formed(task[t])
    BY DEF TasksInv, TypeOK
  <1>2. r \in Task /\ r.stage = "answered" /\ r.locks = task[t].locks
        /\ r.of = task[t].of /\ r.handler = task[t].handler /\ r.id = task[t].id
    BY <1>1 DEF Task
  <1> HIDE DEF r
  <1>3. Formed(r) /\ r.stage = "answered" /\ r.handler = task[t].handler
    BY <1>1, <1>2 DEF Formed
  <1> QED BY <1>3 DEF r

LEMMA CloudActsInv ==
    ASSUME GatewayInv, NEW t \in Tasks, CloudActs(t)
    PROVE  GatewayInv'
  <1>1. TasksInv /\ task[t].stage = "sent"
    BY DEF CloudActs, CloudCarriesOut, CloudRefuses, GatewayInv
  <1>2. PICK reply \in {"ok", "raised"} :
           Set(t, [task[t] EXCEPT !.stage = "answered", !.reply = reply])
    BY DEF CloudActs, CloudCarriesOut, CloudRefuses
  <1> DEFINE r == [task[t] EXCEPT !.stage = "answered", !.reply = reply]
  <1>3. cloud' \in Cloud
    <2>1. CASE CloudCarriesOut(t)
      <3>1. cloud \in Cloud /\ Lock(t) \in Locks
        BY <1>1, AtWork DEF TasksInv, TypeOK
      <3>2. Carried(Request(t), Lock(t), task[t].id) \subseteq Cloud
        BY <1>1, <3>1, RequestTyped, CarriedTyped
      <3> QED BY <2>1, <3>2 DEF CloudCarriesOut
    <2>2. CASE CloudRefuses(t)
      BY <1>1, <2>2 DEF CloudRefuses, TasksInv, TypeOK
    <2> QED BY <2>1, <2>2 DEF CloudActs
  <1>4. data' \in [1..generation -> [Locks -> Data]]
        /\ generation' = generation /\ gw' = gw /\ requests' = requests
        /\ (troubles' = troubles \/ Trouble) /\ disturbed' \in BOOLEAN
    BY <1>1 DEF CloudActs, CloudCarriesOut, CloudRefuses, TasksInv, TypeOK
  <1>5. Formed(r) /\ r.stage = "answered" /\ r.handler = task[t].handler
    BY <1>1, AnsweredFormed
  <1> HIDE DEF r
  <1>6. Set(t, r)
    BY <1>2 DEF r
  <1> QED BY <1>1, <1>3, <1>4, <1>5, <1>6, QuietStep

-----------------------------------------------------------------------------
(* A handler goes on *)

\* A request is over and its task goes on, or ends.
LEMMA LeaveInv ==
    ASSUME GatewayInv, NEW t \in Tasks, NEW r, Formed(r), Set(t, r), Leave(t),
           r.stage \notin {"sent", "answered"},
           generation' = generation, cloud' = cloud, UNCHANGED bounds,
           data' \in [1..generation -> [Locks -> Data]], disturbed' \in BOOLEAN
    PROVE  GatewayInv'
  <1>1. cloud' \in Cloud /\ requests' \in Nat /\ troubles' \in Nat
        /\ troubles' >= troubles
    BY DEF GatewayInv, TasksInv, TypeOK, bounds
  <1>2. TasksInv'
    BY <1>1, GatewayLeft, TaskStep DEF GatewayInv
  <1> QED BY <1>2, GatewayLeft DEF GatewayInv

\* What a part of Progress leaves alone.
LEMMA ProgressFrame ==
    ASSUME GatewayInv, NEW t \in Tasks, Progress(t)
    PROVE  /\ TasksInv /\ Formed(task[t]) /\ task[t].stage # "idle"
           /\ generation' = generation /\ cloud' = cloud /\ cloud' \in Cloud
           /\ requests' = requests /\ (troubles' = troubles \/ Trouble)
           /\ disturbed' \in BOOLEAN
  <1>1. TasksInv /\ Formed(task[t]) /\ cloud \in Cloud /\ disturbed \in BOOLEAN
    BY DEF GatewayInv, TasksInv, TypeOK
  <1>2. CASE \/ FetchAgain(t) \/ StoreValue(t) \/ NothingMore(t) \/ DeletedExpired(t)
             \/ Raises(t)
    BY <1>1, <1>2 DEF FetchAgain, StoreValue, NothingMore, DeletedExpired, Raises, Answered,
                      bounds
  <1>3. CASE FindExpired(t) \/ PinsListed(t) \/ KeysListed(t) \/ ListFails(t)
    BY <1>1, <1>3 DEF FindExpired, PinsListed, KeysListed, ListFails, bounds
  <1> QED BY <1>2, <1>3 DEF Progress

LEMMA FetchAgainInv ==
    ASSUME GatewayInv, NEW t \in Tasks, FetchAgain(t)
    PROVE  GatewayInv'
  <1>1. TasksInv /\ task[t].stage # "idle" /\ disturbed' \in BOOLEAN
        /\ generation' = generation /\ cloud' = cloud
    BY ProgressFrame DEF Progress
  <1>2. Formed(Refetch(t)) /\ Refetch(t).stage = "pins"
    BY <1>1, RefetchFormed
  <1>3. Set(t, Refetch(t)) /\ Leave(t) /\ UNCHANGED bounds
        /\ data' \in [1..generation -> [Locks -> Data]]
    BY <1>1 DEF FetchAgain, Answered, TasksInv, TypeOK
  <1> QED BY <1>1, <1>2, <1>3, LeaveInv

LEMMA StoreValueInv ==
    ASSUME GatewayInv, NEW t \in Tasks, StoreValue(t)
    PROVE  GatewayInv'
  <1>1. TasksInv /\ task[t].stage # "idle" /\ disturbed' \in BOOLEAN
        /\ generation' = generation /\ cloud' = cloud /\ Formed(task[t])
    BY ProgressFrame DEF Progress
  <1>2. Formed(Proceed(t)) /\ Proceed(t).stage \in {"list", "call", "menu", "idle"}
    BY <1>1, ProceedFormed
  <1>3. Set(t, Proceed(t)) /\ Leave(t) /\ UNCHANGED bounds
        /\ data' = [data EXCEPT ![task[t].of][Lock(t)].setting = task[t].id]
        /\ task[t].id \in Setting
    BY <1>1 DEF StoreValue, Answered, Formed
  <1>4. data' \in [1..generation -> [Locks -> Data]]
    <2>1. data \in [1..generation -> [Locks -> Data]]
      BY <1>1 DEF TasksInv, TypeOK
    <2>2. data[task[t].of][Lock(t)] \in Data /\ Lock(t) \in Locks
          /\ task[t].of \in 1..generation
      BY <1>1, AtWork DEF DataOf
    <2> DEFINE d == [data[task[t].of][Lock(t)] EXCEPT !.setting = task[t].id]
    <2>3. d \in Data
      BY <1>3, <2>2 DEF Data
    <2>4. data' = [data EXCEPT ![task[t].of] = [data[task[t].of] EXCEPT ![Lock(t)] = d]]
      BY <1>3
    <2> HIDE DEF d
    <2>5. [data[task[t].of] EXCEPT ![Lock(t)] = d] \in [Locks -> Data]
      BY <2>1, <2>2, <2>3
    <2> QED BY <2>1, <2>2, <2>4, <2>5
  <1> QED BY <1>1, <1>2, <1>3, <1>4, LeaveInv

LEMMA NothingMoreInv ==
    ASSUME GatewayInv, NEW t \in Tasks, NothingMore(t)
    PROVE  GatewayInv'
  <1>1. TasksInv /\ task[t].stage # "idle" /\ disturbed' \in BOOLEAN
        /\ generation' = generation /\ cloud' = cloud
    BY ProgressFrame DEF Progress
  <1>2. Formed(Proceed(t)) /\ Proceed(t).stage \in {"list", "call", "menu", "idle"}
    BY <1>1, ProceedFormed
  <1>3. Set(t, Proceed(t)) /\ Leave(t) /\ UNCHANGED bounds
        /\ data' \in [1..generation -> [Locks -> Data]]
    BY <1>1 DEF NothingMore, Answered, TasksInv, TypeOK
  <1> QED BY <1>1, <1>2, <1>3, LeaveInv

LEMMA FindExpiredInv ==
    ASSUME GatewayInv, NEW t \in Tasks, FindExpired(t)
    PROVE  GatewayInv'
  <1>1. /\ TasksInv /\ Formed(task[t]) /\ task[t].stage = "list"
        /\ generation' = generation /\ gw' = gw /\ cloud' \in Cloud
        /\ requests' = requests /\ (troubles' = troubles \/ Trouble)
        /\ disturbed' \in BOOLEAN
    BY ProgressFrame DEF Progress, FindExpired
  <1>2. data' \in [1..generation -> [Locks -> Data]]
    BY <1>1 DEF FindExpired, TasksInv, TypeOK
  <1>3. CASE Expired(Lock(t)) = {}
    <2>1. Formed(Proceed(t)) /\ Proceed(t).stage \in {"list", "call", "menu", "idle"}
      BY <1>1, ProceedFormed
    <2>2. Set(t, Proceed(t))
      BY <1>3 DEF FindExpired
    <2> QED BY <1>1, <1>2, <2>1, <2>2, QuietStep
  <1>4. CASE Expired(Lock(t)) # {}
    <2>1. PICK p \in Expired(Lock(t)) :
             Set(t, [task[t] EXCEPT !.stage = "call", !.id = p,
                                    !.expired = Expired(Lock(t)) \ {p}])
      BY <1>4 DEF FindExpired
    <2> DEFINE r == [task[t] EXCEPT !.stage = "call", !.id = p,
                                    !.expired = Expired(Lock(t)) \ {p}]
    <2>2. r \in Task /\ r.stage = "call" /\ r.locks = task[t].locks
          /\ r.of = task[t].of /\ r.handler = task[t].handler /\ r.id = p
      <3>1. Expired(Lock(t)) \subseteq Pins /\ p \in Pins
        BY DEF Expired
      <3> QED BY <1>1, <3>1 DEF Formed, Task
    <2> HIDE DEF r
    <2>3. Formed(r)
      BY <1>1, <2>2 DEF Formed, CleanupPasscodes, Each
    <2>4. Set(t, r)
      BY <2>1 DEF r
    <2> QED BY <1>1, <1>2, <2>2, <2>3, <2>4, QuietStep
  <1> QED BY <1>3, <1>4

LEMMA DeletedExpiredInv ==
    ASSUME GatewayInv, NEW t \in Tasks, DeletedExpired(t)
    PROVE  GatewayInv'
  <1>1. /\ TasksInv /\ task[t].stage # "idle" /\ disturbed' \in BOOLEAN
        /\ generation' = generation /\ cloud' = cloud /\ Formed(task[t])
    BY ProgressFrame DEF Progress
  <1>2. /\ Leave(t) /\ UNCHANGED bounds
        /\ data' \in [1..generation -> [Locks -> Data]]
    BY <1>1 DEF DeletedExpired, Answered, TasksInv, TypeOK
  <1>3. CASE task[t].expired = {}
    <2>1. Formed(Refetch(t)) /\ Refetch(t).stage = "pins"
      BY <1>1, RefetchFormed
    <2>2. Set(t, Refetch(t))
      BY <1>3 DEF DeletedExpired
    <2> QED BY <1>1, <1>2, <2>1, <2>2, LeaveInv
  <1>4. CASE task[t].expired # {}
    <2>1. PICK p \in task[t].expired :
             Set(t, [task[t] EXCEPT !.stage = "call", !.id = p, !.reply = "none",
                                    !.expired = @ \ {p}])
      BY <1>4 DEF DeletedExpired
    <2> DEFINE r == [task[t] EXCEPT !.stage = "call", !.id = p, !.reply = "none",
                                    !.expired = @ \ {p}]
    <2>2. r \in Task /\ r.stage = "call" /\ r.locks = task[t].locks
          /\ r.of = task[t].of /\ r.handler = task[t].handler
      BY <1>1 DEF Formed, Task
    <2> HIDE DEF r
    <2>3. Formed(r)
      <3>1. task[t].handler = CleanupPasscodes
        BY DEF DeletedExpired, Cleans
      <3> QED BY <1>1, <2>2, <3>1 DEF Formed, CleanupPasscodes, Each
    <2>4. Set(t, r)
      BY <2>1 DEF r
    <2> QED BY <1>1, <1>2, <2>2, <2>3, <2>4, LeaveInv
  <1> QED BY <1>3, <1>4

LEMMA RaisesInv ==
    ASSUME GatewayInv, NEW t \in Tasks, Raises(t)
    PROVE  GatewayInv'
  <1>1. TasksInv /\ task[t].stage # "idle" /\ disturbed' \in BOOLEAN
        /\ generation' = generation /\ cloud' = cloud
    BY ProgressFrame DEF Progress
  <1>2. Formed(Dropped(t)) /\ Dropped(t).stage \in {"form", "idle"}
    BY <1>1, DroppedFormed
  <1>3. Set(t, Dropped(t)) /\ Leave(t) /\ UNCHANGED bounds
        /\ data' \in [1..generation -> [Locks -> Data]]
    BY <1>1 DEF Raises, TasksInv, TypeOK
  <1> QED BY <1>1, <1>2, <1>3, LeaveInv

\* What the cloud lists is what the data hold.
LEMMA ListsTyped ==
    ASSUME cloud \in Cloud, NEW l
    PROVE  PinsOf(l) \in [Pins -> Period \cup {"none"}]
           /\ KeysOf(l) \in [Keys -> KeyStatus \cup {"none"}]
  BY DEF PinsOf, KeysOf, Listed, Cloud

LEMMA PinsListedInv ==
    ASSUME GatewayInv, NEW t \in Tasks, PinsListed(t)
    PROVE  GatewayInv'
  <1>1. /\ TasksInv /\ Formed(task[t]) /\ task[t].stage = "pins"
        /\ generation' = generation /\ gw' = gw /\ cloud' \in Cloud
        /\ requests' = requests /\ (troubles' = troubles \/ Trouble)
        /\ disturbed' \in BOOLEAN
    BY ProgressFrame DEF Progress, PinsListed
  <1>2. cloud \in Cloud /\ data' \in [1..generation -> [Locks -> Data]]
    BY <1>1 DEF PinsListed, TasksInv, TypeOK
  <1> DEFINE c == [task[t].copy EXCEPT !.pins = PinsOf(Lock(t))]
  <1> DEFINE r == [task[t] EXCEPT !.stage = "keys", !.copy = c]
  <1>3. c \in Data
    <2>1. task[t].copy \in Data
      BY <1>1 DEF Formed, Task
    <2> QED BY <1>2, <2>1, ListsTyped DEF Data
  <1>4. Set(t, r)
    BY DEF PinsListed, Set
  <1> HIDE DEF c
  <1>5. /\ r \in Task /\ r.stage = "keys" /\ r.locks = task[t].locks
        /\ r.of = task[t].of /\ r.handler = task[t].handler /\ r.id = task[t].id
        /\ r.copy = c
    BY <1>1, <1>3 DEF Formed, Task
  <1> HIDE DEF r
  <1>6. Formed(r)
    BY <1>1, <1>3, <1>5, DataAssumption DEF Formed
  <1> QED BY <1>1, <1>2, <1>4, <1>5, <1>6, QuietStep

LEMMA KeysListedInv ==
    ASSUME GatewayInv, NEW t \in Tasks, KeysListed(t)
    PROVE  GatewayInv'
  <1>1. /\ TasksInv /\ Formed(task[t]) /\ task[t].stage = "keys"
        /\ generation' = generation /\ gw' = gw /\ cloud' \in Cloud
        /\ requests' = requests /\ (troubles' = troubles \/ Trouble)
        /\ disturbed' \in BOOLEAN
    BY ProgressFrame DEF Progress, KeysListed
  <1>2. Formed(Proceed(t)) /\ Proceed(t).stage \in {"list", "call", "menu", "idle"}
    BY <1>1, ProceedFormed
  <1> DEFINE d == [task[t].copy EXCEPT !.keys = KeysOf(Lock(t)), !.fetched = TRUE]
  <1>3. Set(t, Proceed(t)) /\ data' = [data EXCEPT ![task[t].of][Lock(t)] = d]
    BY DEF KeysListed
  <1>4. d \in Data
    <2>1. task[t].copy \in Data /\ cloud \in Cloud
      BY <1>1 DEF Formed, Task, TasksInv, TypeOK
    <2> QED BY <2>1, ListsTyped DEF Data
  <1> HIDE DEF d
  <1>5. data' \in [1..generation -> [Locks -> Data]]
    <2>1. data \in [1..generation -> [Locks -> Data]]
      BY <1>1 DEF TasksInv, TypeOK
    <2>2. Lock(t) \in Locks /\ task[t].of \in 1..generation
      BY <1>1, AtWork
    <2>3. data' = [data EXCEPT ![task[t].of] = [data[task[t].of] EXCEPT ![Lock(t)] = d]]
      BY <1>3
    <2>4. [data[task[t].of] EXCEPT ![Lock(t)] = d] \in [Locks -> Data]
      BY <1>4, <2>1, <2>2
    <2> QED BY <2>1, <2>2, <2>3, <2>4
  <1> QED BY <1>1, <1>2, <1>3, <1>5, QuietStep

LEMMA ListFailsInv ==
    ASSUME GatewayInv, NEW t \in Tasks, ListFails(t)
    PROVE  GatewayInv'
  <1>1. /\ TasksInv /\ task[t].stage \in {"list", "pins", "keys"}
        /\ generation' = generation /\ gw' = gw /\ cloud' \in Cloud
        /\ requests' = requests /\ (troubles' = troubles \/ Trouble)
        /\ disturbed' \in BOOLEAN
    BY ProgressFrame DEF Progress, ListFails
  <1>2. Formed(Dropped(t)) /\ Dropped(t).stage \in {"form", "idle"}
    BY <1>1, DroppedFormed
  <1>3. Set(t, Dropped(t)) /\ data' \in [1..generation -> [Locks -> Data]]
    BY <1>1 DEF ListFails, TasksInv, TypeOK
  <1> QED BY <1>1, <1>2, <1>3, QuietStep

\* A reload adds coordinators; those that tasks work with stay.
LEMMA ReloadInv ==
    ASSUME GatewayInv, Reload
    PROVE  GatewayInv'
  <1>1. TypeOK /\ \A t \in Tasks : Formed(task[t])
    BY DEF GatewayInv, TasksInv
  <1>2. /\ task' = task /\ gw' = gw /\ cloud' = cloud /\ requests' = requests
        /\ troubles' = troubles + 1 /\ generation' = generation + 1
        /\ data' = Append(data, [l \in Locks |-> Filled(l)])
    BY DEF Reload, Trouble
  <1>3. generation \in Nat /\ troubles \in Nat /\ requests \in Nat
        /\ generation \in 1..(1 + troubles)
    BY <1>1 DEF TypeOK, bounds
  <1>4. generation' \in 1..(1 + troubles') /\ bounds' \in Nat \X Nat
    BY <1>2, <1>3 DEF bounds
  <1>5. 1..generation \subseteq 1..generation'
    BY <1>2, <1>3
  <1>6. \A t \in Tasks : Formed(task[t])'
    BY <1>1, <1>2, <1>5 DEF Formed
  <1>7. data' \in [1..generation' -> [Locks -> Data]]
    <2> DEFINE filled == [l \in Locks |-> Filled(l)]
    <2>1. filled \in [Locks -> Data]
      <3>1. \A l \in Locks : Filled(l) \in Data
        BY <1>1, ListsTyped DEF TypeOK, Filled, Data, Cloud
      <3> QED BY <3>1
    <2>2. data \in Seq([Locks -> Data]) /\ Len(data) = generation
      BY <1>1, <1>3 DEF TypeOK
    <2> HIDE DEF filled
    <2>3. Append(data, filled) \in Seq([Locks -> Data])
          /\ Len(Append(data, filled)) = generation + 1
      BY <2>1, <2>2
    <2>4. data' = Append(data, filled)
      BY <1>2 DEF filled
    <2>5. data' \in [1..Len(data') -> [Locks -> Data]]
      BY <2>3, <2>4, LenProperties
    <2> QED BY <1>2, <2>3, <2>4, <2>5
  <1>8. TypeOK'
    <2>1. disturbed' \in BOOLEAN
      BY <1>1 DEF TypeOK, Reload
    <2>2. \A t \in Tasks : task'[t].stage # "idle" =>
            /\ task'[t].locks # <<>> /\ task'[t].of \in 1..generation'
            /\ task'[t].stage \in {"pins", "keys"} => task'[t].copy # None
      BY <1>6 DEF Formed
    <2>3. cloud' \in Cloud /\ task' \in [Tasks -> Task] /\ gw' \in Tasks \cup {None}
      BY <1>1, <1>2 DEF TypeOK
    <2> QED BY <1>4, <1>7, <2>1, <2>2, <2>3 DEF TypeOK
  <1>9. GatewayIsAtWork'
    BY <1>2 DEF GatewayInv, GatewayIsAtWork, Request, Cleans
  <1> QED BY <1>6, <1>8, <1>9 DEF GatewayInv, TasksInv

-----------------------------------------------------------------------------
(* The theorems about any tasks *)

LEMMA InitGateway == Init => GatewayInv
  <1> SUFFICES ASSUME Init PROVE GatewayInv
    OBVIOUS
  <1>1. \A t \in Tasks : task[t].stage = "idle" /\ gw # t
    BY IdleFormed, TaskAssumption DEF Init
  <1> QED BY <1>1, InitTasks DEF GatewayInv, GatewayIsAtWork

LEMMA StepInv == GatewayInv /\ [Next]_vars => GatewayInv'
  <1> SUFFICES ASSUME GatewayInv, [Next]_vars PROVE GatewayInv'
    OBVIOUS
  <1>1. CASE UNCHANGED vars
    <2>1. /\ task' = task /\ gw' = gw /\ cloud' = cloud /\ requests' = requests
          /\ troubles' = troubles /\ generation' = generation /\ data' = data
          /\ disturbed' = disturbed
      BY <1>1 DEF vars, bounds
    <2>2. TypeOK'
      BY <2>1 DEF GatewayInv, TasksInv, TypeOK, bounds
    <2>3. \A t \in Tasks : Formed(task[t])'
      BY <2>1 DEF GatewayInv, TasksInv, Formed
    <2>4. GatewayIsAtWork'
      BY <2>1 DEF GatewayInv, GatewayIsAtWork, Request, Cleans
    <2> QED BY <2>2, <2>3, <2>4 DEF GatewayInv, TasksInv
  <1>2. CASE Reload
    BY <1>2, ReloadInv
  <1>3. ASSUME NEW t \in Tasks,
               \/ CallService(t) \/ OpenPanel(t)
               \/ ShowForm(t) \/ SubmitForm(t) \/ ClosePanel(t)
        PROVE  GatewayInv'
    BY <1>3, CallServiceInv, OpenPanelInv, ShowFormInv, SubmitFormInv, ClosePanelInv
  <1>4. ASSUME NEW t \in Tasks, Send(t) \/ CloudActs(t)
        PROVE  GatewayInv'
    BY <1>4, SendInv, CloudActsInv
  <1>5. ASSUME NEW t \in Tasks, Progress(t)
        PROVE  GatewayInv'
    BY <1>5, FetchAgainInv, StoreValueInv, NothingMoreInv, FindExpiredInv,
       DeletedExpiredInv, PinsListedInv, KeysListedInv, RaisesInv, ListFailsInv
       DEF Progress
  <1> QED BY <1>1, <1>2, <1>3, <1>4, <1>5 DEF Next

\* Whatever calls and panels do at once, each task in progress works at a lock
\* with coordinators that exist, and what they show stays well formed - after
\* reloads as well, which leave tasks with the coordinators they had.
THEOREM TypeCorrect == Spec => []TypeOK
  <1>1. GatewayInv => TypeOK
    BY DEF GatewayInv, TasksInv
  <1> QED BY <1>1, InitGateway, StepInv, PTL DEF Spec

\* GW_LOCK (api.py): whoever is inside has a request at the cloud that a gateway
\* relays, and whoever has one is inside. So no two such requests are at the
\* cloud at once, and no error or lost answer leaves the gateway locked.
THEOREM GatewayHeldAtWork == Spec => []GatewayIsAtWork
  <1>1. GatewayInv => GatewayIsAtWork
    BY DEF GatewayInv
  <1> QED BY <1>1, InitGateway, StepInv, PTL DEF Spec

-----------------------------------------------------------------------------
(* One task at a time.  What differs between the data of a lock and the    *)
(* cloud is what the task that is at work there still brings up to date.   *)

\* A handler is one of the services; a cleanup is no panel's; an eKey is changed
\* through one lock, and a panel has one.
Quiet == {"idle", "menu", "form"}

Known(t, r) ==
    /\ r.handler \in Services
    /\ r.handler = CleanupPasscodes => t \in Calls /\ r.stage \notin Quiet
    /\ r.stage = "menu" \/ r.handler.scope = "first" => Len(r.locks) <= 1

KnownInv == \A t \in Tasks : Known(t, task[t])

Matches(l) == data[generation][l] \in {Filled(l), Unfilled(l)}

\* Only codes and keys of the lock may be out of date.
ListsDue(l) == data[generation][l].setting = cloud.setting[l]

\* A cleanup knows the codes that have passed: the one it is at, and the others.
Cleaning(r) ==
    LET l == Head(r.locks)
    IN  /\ r.stage \in {"call", "sent"} =>
             r.id \in Expired(l) \ r.expired /\ Expired(l) = r.expired \cup {r.id}
        /\ r.stage = "answered" /\ r.reply = "ok" => Expired(l) = r.expired
        /\ r.stage \in {"pins", "keys"} => Expired(l) = {}

\* What is out of date for a lock that a task is at work at: nothing but what
\* the rest of its handler brings up to date.
AtRequest(r) ==
    LET l == Head(r.locks)
    IN  /\ IF r.handler = CleanupPasscodes THEN ListsDue(l) ELSE Matches(l)
        /\ r.handler.scope = "first" /\ HasKey(r.id) => cloud.keys[r.id].lock = l

AtAnswer(r) ==
    LET l == Head(r.locks)
    IN  /\ r.handler.after = "refetch" => ListsDue(l)
        /\ r.handler.after = "store" =>
             /\ cloud.setting[l] = r.id
             /\ [data[generation][l] EXCEPT !.setting = r.id] \in {Filled(l), Unfilled(l)}
        /\ r.handler.after = "nothing" => Matches(l)

AtLists(r) ==
    LET l == Head(r.locks)
    IN  /\ r.copy.setting = cloud.setting[l]
        /\ r.stage = "keys" => r.copy.pins = PinsOf(l)

InProgress(r) ==
    /\ r.of = generation
    /\ r.stage = "list" => Matches(Head(r.locks))
    /\ r.stage \in {"call", "sent"} => AtRequest(r)
    /\ r.stage = "answered" /\ r.reply = "ok" => AtAnswer(r)
    /\ r.stage \in {"pins", "keys"} => AtLists(r)
    /\ r.handler = CleanupPasscodes => Cleaning(r)

Alone == \A t, u \in Working : t = u

LoneInv ==
    /\ Alone
    /\ \A l \in Locks : Matches(l) \/ \E t \in Working : Lock(t) = l
    /\ \A t \in Working : InProgress(task[t])

SerialInv == ~disturbed => LoneInv

\* What the services are alike in.
LEMMA ServiceKinds ==
    ASSUME NEW h \in Services
    PROVE  /\ h \in Handler
           /\ h.after = "store" => h.call = "configure"
           /\ h.call = "configure" => h.after = "store"
           /\ h.after = "nothing" => h.call \in {"enrolled", "read"}
           /\ h.call \in {"delete_key", "freeze_key", "unfreeze_key", "edit_key"} =>
                h.scope = "first"
           /\ h = CleanupPasscodes =>
                h.call = "cleanup" /\ h.scope = "each" /\ h.after = "refetch"
           /\ h.after \in {"refetch", "store", "nothing"}
  <1>1. CASE h \in PasscodeServices
    BY <1>1 DEF PasscodeServices, CreatePasscode, ModifyPasscode, DeletePasscode,
                CleanupPasscodes, ListPasscodes, ListRecords, Each, Handler
  <1>2. CASE h \in SettingServices
    BY <1>2 DEF SettingServices, ConfigurePassageMode, ConfigureAutolock, TurnSwitch, Each,
                Handler, CleanupPasscodes
  <1>3. CASE h \in EnrolledServices
    BY <1>3 DEF EnrolledServices, ListCards, RenameCard, DeleteCard, ListFingerprints,
                RenameFingerprint, DeleteFingerprint, Each, Handler, CleanupPasscodes
  <1>4. CASE h \in EkeyServices
    BY <1>4 DEF EkeyServices, ListEkeys, SendEkey, DeleteEkey, FreezeEkey, UnfreezeEkey,
                SetEkeyPeriod, ModifyEkey, Each, First, Handler, CleanupPasscodes
  <1> QED BY <1>1, <1>2, <1>3, <1>4 DEF Services

LEMMA NoHandlerIsQuiet ==
    /\ NoHandler \in Services /\ NoHandler # CleanupPasscodes
    /\ NoHandler.scope = "each" /\ NoHandler.after = "nothing"
  BY DEF NoHandler, Services, PasscodeServices, ListPasscodes, CleanupPasscodes, Each

\* What the panel offers is a service, but no cleanup.
LEMMA MenuKnown ==
    ASSUME NEW d, NEW choice \in Menu(d)
    PROVE  choice[1] \in Services \ {CleanupPasscodes}
  <1>1. CASE choice \in AddPinForm \/ choice \in DeletePinForm(d) \/ choice \in SendEkeyForm
    BY <1>1 DEF AddPinForm, DeletePinForm, SendEkeyForm, CreatePasscode, DeletePasscode,
                SendEkey, CleanupPasscodes, Each, Services, PasscodeServices, EkeyServices
  <1>2. CASE \/ choice \in EkeyForm(d, DeleteEkey, KeyStatus)
             \/ choice \in EkeyForm(d, FreezeEkey, {"normal"})
             \/ choice \in EkeyForm(d, UnfreezeEkey, {"frozen"})
    BY <1>2 DEF EkeyForm, DeleteEkey, FreezeEkey, UnfreezeEkey, First, CleanupPasscodes,
                Each, Services, EkeyServices
  <1> QED BY <1>1, <1>2 DEF Menu

\* The ways in which a task goes on, field by field.
LEMMA BegunIs ==
    ASSUME NEW r \in Task
    PROVE  /\ Begun(r).stage = IF r.handler = CleanupPasscodes THEN "list" ELSE "call"
           /\ Begun(r).handler = r.handler /\ Begun(r).locks = r.locks
           /\ Begun(r).of = r.of /\ Begun(r).id = r.id
  BY DEF Begun, Task

LEMMA ProceedIs ==
    ASSUME TasksInv, NEW t \in Tasks, task[t].stage # "idle"
    PROVE  \/ /\ Len(task[t].locks) > 1
              /\ Proceed(t).stage =
                   IF task[t].handler = CleanupPasscodes THEN "list" ELSE "call"
              /\ Proceed(t).handler = task[t].handler
              /\ Proceed(t).locks = Tail(task[t].locks)
              /\ Proceed(t).of = task[t].of
           \/ /\ ~(Len(task[t].locks) > 1)
              /\ Proceed(t).stage \in {"idle", "menu"}
              /\ Proceed(t).handler = NoHandler
              /\ Proceed(t).stage = "menu" => Proceed(t).locks = task[t].locks
  <1>1. task[t] \in Task
    BY AtWork
  <1>2. CASE Len(task[t].locks) > 1
    BY <1>1, <1>2 DEF Proceed, Begun, Task
  <1>3. CASE ~(Len(task[t].locks) > 1)
    BY <1>3 DEF Proceed, Idle
  <1> QED BY <1>2, <1>3

LEMMA RefetchIs ==
    ASSUME TasksInv, NEW t \in Tasks, task[t].stage # "idle"
    PROVE  /\ Refetch(t).stage = "pins" /\ Refetch(t).copy = DataOf(t)
           /\ Refetch(t).handler = task[t].handler /\ Refetch(t).locks = task[t].locks
           /\ Refetch(t).of = task[t].of
  BY AtWork DEF Refetch, Task

LEMMA DroppedIs ==
    ASSUME TasksInv, NEW t \in Tasks, task[t].stage # "idle"
    PROVE  \/ /\ t \in Panels /\ Dropped(t).stage = "form"
              /\ Dropped(t).handler = task[t].handler /\ Dropped(t).locks = task[t].locks
           \/ Dropped(t) = Idle
  BY AtWork DEF Dropped, Task

LEMMA IdleKnown == \A t : Known(t, Idle)
  BY NoHandlerIsQuiet DEF Known, Idle

\* What a step of a task makes of it.
LEMMA KnownStep ==
    ASSUME TasksInv, KnownInv, NEW t \in Tasks, NEW r, Set(t, r), Known(t, r)
    PROVE  KnownInv'
  <1>1. \A u \in Tasks : task'[u] = IF u = t THEN r ELSE task[u]
    BY DEF TasksInv, TypeOK, Set
  <1>2. \A u \in Tasks : Known(u, task'[u])
    BY <1>1 DEF KnownInv
  <1> QED BY <1>2 DEF KnownInv, Known

LEMMA RequestKnown ==
    ASSUME TasksInv, KnownInv, NEW t \in Tasks,
           CallService(t) \/ OpenPanel(t) \/ ShowForm(t) \/ SubmitForm(t) \/ ClosePanel(t)
    PROVE  KnownInv'
  <1>1. CASE CallService(t)
    <2>1. PICK h \in Services, selection \in Selections :
             \E id \in Arguments(h) :
                StartRequest(t, [Idle EXCEPT !.handler = h, !.of = generation,
                                             !.locks = Handled(h, selection), !.id = id])
      BY <1>1 DEF CallService
    <2>2. PICK id \in Arguments(h) :
             StartRequest(t, [Idle EXCEPT !.handler = h, !.of = generation,
                                          !.locks = Handled(h, selection), !.id = id])
      BY <2>1
    <2> DEFINE r == [Idle EXCEPT !.handler = h, !.of = generation,
                                 !.locks = Handled(h, selection), !.id = id]
    <2>3. Set(t, Begun(r))
      BY <2>2 DEF StartRequest
    <2>4. /\ Begun(r).stage = IF h = CleanupPasscodes THEN "list" ELSE "call"
          /\ Begun(r).handler = h /\ Begun(r).locks = Handled(h, selection)
      BY DEF Begun, Idle
    <2>5. h.scope = "first" => Len(Handled(h, selection)) <= 1
      BY DEF Handled, FirstCoordinator
    <2>6. Known(t, Begun(r))
      <3> HIDE DEF r
      <3> QED BY <1>1, <2>4, <2>5 DEF Known, Quiet, CallService
    <2> QED BY <2>3, <2>6, KnownStep
  <1>2. CASE OpenPanel(t)
    <2>1. PICK l \in Locks :
             LET d == data[generation][l]
                 r == [Idle EXCEPT !.locks = <<l>>, !.of = generation]
             IN  Set(t, IF d.fetched THEN [r EXCEPT !.stage = "menu"]
                        ELSE [r EXCEPT !.stage = "pins", !.copy = d])
      BY <1>2 DEF OpenPanel
    <2> DEFINE d == data[generation][l]
    <2> DEFINE r0 == [Idle EXCEPT !.locks = <<l>>, !.of = generation]
    <2> DEFINE r == IF d.fetched THEN [r0 EXCEPT !.stage = "menu"]
                    ELSE [r0 EXCEPT !.stage = "pins", !.copy = d]
    <2>3. Set(t, r)
      BY <2>1
    <2>4. r.handler = NoHandler /\ r.locks = <<l>>
      BY DEF Idle
    <2> HIDE DEF r
    <2>2. Known(t, r)
      BY <2>4, NoHandlerIsQuiet DEF Known
    <2> QED BY <2>2, <2>3, KnownStep
  <1>3. CASE ShowForm(t)
    <2>1. PICK choice \in Menu(DataOf(t)) :
             Set(t, [task[t] EXCEPT !.stage = "form", !.handler = choice[1],
                                    !.id = choice[2]])
      BY <1>3 DEF ShowForm
    <2>2. task[t] \in Task /\ Known(t, task[t]) /\ task[t].stage = "menu"
      BY <1>3 DEF TasksInv, TypeOK, KnownInv, ShowForm
    <2> DEFINE r == [task[t] EXCEPT !.stage = "form", !.handler = choice[1],
                                    !.id = choice[2]]
    <2>3. r.stage = "form" /\ r.handler = choice[1] /\ r.locks = task[t].locks
      BY <2>2 DEF Task
    <2>4. Set(t, r)
      BY <2>1
    <2> HIDE DEF r
    <2>5. Known(t, r)
      BY <2>2, <2>3, MenuKnown DEF Known
    <2> QED BY <2>4, <2>5, KnownStep
  <1>4. CASE SubmitForm(t)
    <2>1. task[t] \in Task /\ Known(t, task[t]) /\ task[t].stage = "form"
          /\ Set(t, Begun(task[t]))
      BY <1>4 DEF TasksInv, TypeOK, KnownInv, SubmitForm, StartRequest
    <2>2. Known(t, Begun(task[t]))
      BY <2>1, BegunIs DEF Known, Quiet
    <2> QED BY <2>1, <2>2, KnownStep
  <1>5. CASE ClosePanel(t)
    BY <1>5, IdleKnown, KnownStep DEF ClosePanel
  <1> QED BY <1>1, <1>2, <1>3, <1>4, <1>5

\* A task that works goes on.
LEMMA ProceedKnown ==
    ASSUME TasksInv, KnownInv, NEW t \in Tasks, Busy(t)
    PROVE  Known(t, Proceed(t)) /\ Known(t, Dropped(t)) /\ Known(t, Refetch(t))
  <1>1. Known(t, task[t]) /\ task[t].stage # "idle" /\ task[t].locks \in Seq(Locks)
        /\ task[t].locks # <<>>
    BY AtWork DEF KnownInv, Busy, Task
  <1>2. Known(t, Proceed(t))
    <2>1. Len(task[t].locks) \in Nat /\ Len(Tail(task[t].locks)) = Len(task[t].locks) - 1
      BY <1>1, HeadTailProperties, LenProperties
    <2> QED BY <1>1, <2>1, ProceedIs, NoHandlerIsQuiet DEF Known, Quiet
  <1>3. Known(t, Refetch(t))
    BY <1>1, RefetchIs DEF Known, Quiet
  <1>4. Known(t, Dropped(t))
    BY <1>1, DroppedIs, IdleKnown, TaskAssumption DEF Known, Quiet
  <1> QED BY <1>2, <1>3, <1>4

LEMMA WorkKnown ==
    ASSUME TasksInv, KnownInv, NEW t \in Tasks, Send(t) \/ CloudActs(t) \/ Progress(t)
    PROVE  KnownInv'
  <1>1. task[t] \in Task /\ Known(t, task[t])
    BY DEF TasksInv, TypeOK, KnownInv
  <1>2. Busy(t)
    BY DEF Send, CloudActs, CloudCarriesOut, CloudRefuses, Progress, FetchAgain, StoreValue,
           NothingMore, FindExpired, DeletedExpired, PinsListed, KeysListed, Raises,
           ListFails, Answered, Busy
  <1>3. ASSUME NEW r, Set(t, r), r.stage \notin Quiet, r.handler = task[t].handler,
               r.locks = task[t].locks
        PROVE  KnownInv'
    BY <1>1, <1>3, KnownStep DEF Known, Quiet
  <1>4. CASE Send(t)
    BY <1>1, <1>3, <1>4 DEF Send, Task, Quiet
  <1>5. CASE CloudActs(t)
    <2>1. PICK reply \in {"ok", "raised"} :
             Set(t, [task[t] EXCEPT !.stage = "answered", !.reply = reply])
      BY <1>5 DEF CloudActs, CloudCarriesOut, CloudRefuses
    <2> QED BY <1>1, <1>3, <2>1 DEF Task, Quiet
  <1>6. ASSUME \/ Set(t, Proceed(t)) \/ Set(t, Dropped(t)) \/ Set(t, Refetch(t))
        PROVE  KnownInv'
    BY <1>2, <1>6, ProceedKnown, KnownStep
  <1>7. CASE \/ FetchAgain(t) \/ StoreValue(t) \/ NothingMore(t) \/ Raises(t)
             \/ KeysListed(t) \/ ListFails(t)
    BY <1>6, <1>7 DEF FetchAgain, StoreValue, NothingMore, Raises, KeysListed, ListFails
  <1>8. CASE FindExpired(t)
    <2>1. CASE Set(t, Proceed(t))
      BY <1>6, <2>1
    <2>2. CASE ~Set(t, Proceed(t))
      BY <1>1, <1>3, <1>8, <2>2 DEF FindExpired, Task, Quiet
    <2> QED BY <2>1, <2>2
  <1>9. CASE DeletedExpired(t)
    <2>1. CASE Set(t, Refetch(t))
      BY <1>6, <2>1
    <2>2. CASE ~Set(t, Refetch(t))
      BY <1>1, <1>3, <1>9, <2>2 DEF DeletedExpired, Task, Quiet
    <2> QED BY <2>1, <2>2
  <1>10. CASE PinsListed(t)
    BY <1>1, <1>3, <1>10 DEF PinsListed, Set, Task, Quiet
  <1> QED BY <1>4, <1>5, <1>7, <1>8, <1>9, <1>10 DEF Progress

LEMMA KnownKept == TasksInv /\ KnownInv /\ [Next]_vars => KnownInv'
  <1> SUFFICES ASSUME TasksInv, KnownInv, [Next]_vars PROVE KnownInv'
    OBVIOUS
  <1>1. CASE task' = task
    BY <1>1 DEF KnownInv, Known
  <1>2. ASSUME NEW t \in Tasks,
               CallService(t) \/ OpenPanel(t) \/ ShowForm(t) \/ SubmitForm(t) \/ ClosePanel(t)
        PROVE  KnownInv'
    BY <1>2, RequestKnown
  <1>3. ASSUME NEW t \in Tasks, Send(t) \/ CloudActs(t) \/ Progress(t)
        PROVE  KnownInv'
    BY <1>3, WorkKnown
  <1> QED BY <1>1, <1>2, <1>3 DEF Next, Reload, vars
\* A request changes only what its lock shows: a key request if the key is of
\* that lock.
LEMMA CarriedIsLocal ==
    ASSUME cloud \in Cloud, NEW l \in Locks, NEW id, NEW call,
           call \in {h.call : h \in Handler}, call # "cleanup",
           call \in {"delete_key", "freeze_key", "unfreeze_key", "edit_key"} /\ HasKey(id) =>
               cloud.keys[id].lock = l,
           cloud' \in Carried(call, l, id)
    PROVE  /\ \A m \in Locks \ {l} :
                 /\ PinsOf(m)' = PinsOf(m) /\ KeysOf(m)' = KeysOf(m)
                 /\ cloud'.setting[m] = cloud.setting[m]
           /\ call # "configure" => cloud'.setting = cloud.setting
           /\ call = "configure" =>
                /\ cloud'.setting[l] = id
                /\ PinsOf(l)' = PinsOf(l) /\ KeysOf(l)' = KeysOf(l)
           /\ call \in {"enrolled", "read"} => cloud' = cloud
           /\ call = "delete_pin" =>
                /\ \A p \in Pins : cloud'.pins[p] # cloud.pins[p] => p = id
                /\ Expired(l)' = Expired(l) \ {id}
  <1>1. /\ cloud.pins \in [Pins -> {None} \cup [lock : Locks, is : Period]]
        /\ cloud.keys \in [Keys -> {None} \cup [lock : Locks, is : KeyStatus]]
        /\ cloud.setting \in [Locks -> Setting]
        /\ cloud = [pins |-> cloud.pins, keys |-> cloud.keys, setting |-> cloud.setting]
    BY DEF Cloud
  \* What one code or key of lock l becomes, nobody else's lists show.
  <1>2. ASSUME NEW p \in Pins, NEW x,
               cloud.pins[p] = None \/ cloud.pins[p].lock = l, x = None \/ x.lock = l,
               cloud'.pins = [cloud.pins EXCEPT ![p] = x]
        PROVE  \A m \in Locks \ {l} : PinsOf(m)' = PinsOf(m)
    BY <1>1, <1>2 DEF PinsOf, Listed
  <1>3. ASSUME NEW k \in Keys, NEW x,
               cloud.keys[k] = None \/ cloud.keys[k].lock = l, x = None \/ x.lock = l,
               cloud'.keys = [cloud.keys EXCEPT ![k] = x]
        PROVE  \A m \in Locks \ {l} : KeysOf(m)' = KeysOf(m)
    BY <1>1, <1>3 DEF KeysOf, Listed
  <1>4. cloud'.pins = cloud.pins => \A m \in Locks : PinsOf(m)' = PinsOf(m)
    BY DEF PinsOf, Listed
  <1>5. cloud'.keys = cloud.keys => \A m \in Locks : KeysOf(m)' = KeysOf(m)
    BY DEF KeysOf, Listed
  <1>6. CASE call = "configure"
    <2>1. cloud' = [cloud EXCEPT !.setting[l] = id]
      BY <1>6 DEF Carried, Configure
    <2>2. cloud'.pins = cloud.pins /\ cloud'.keys = cloud.keys
          /\ cloud'.setting = [cloud.setting EXCEPT ![l] = id]
      BY <1>1, <2>1
    <2> QED BY <1>1, <1>4, <1>5, <1>6, <2>2
  <1>7. CASE call = "add_pin"
    <2>1. PICK p \in Pins, period \in Period :
             cloud.pins[p] = None /\ cloud' = [cloud EXCEPT !.pins[p] = Of(l, period)]
      BY <1>7 DEF Carried, AddPin
    <2>2. cloud'.keys = cloud.keys /\ cloud'.setting = cloud.setting
          /\ cloud'.pins = [cloud.pins EXCEPT ![p] = Of(l, period)]
      BY <1>1, <2>1
    <2>3. Of(l, period).lock = l
      BY DEF Of
    <2> QED BY <1>2, <1>5, <1>7, <2>1, <2>2, <2>3
  <1>8. CASE call = "modify_pin"
    <2>1. PICK period \in Period :
             PinsOf(l)[id] # "none" /\ cloud' = [cloud EXCEPT !.pins[id] = Of(l, period)]
      BY <1>8 DEF Carried, ModifyPin
    <2>2. cloud'.keys = cloud.keys /\ cloud'.setting = cloud.setting
          /\ cloud'.pins = [cloud.pins EXCEPT ![id] = Of(l, period)]
      BY <1>1, <2>1
    <2>3. Of(l, period).lock = l
      BY DEF Of
    <2>4. CASE id \in Pins
      <3>1. cloud.pins[id].lock = l
        BY <1>1, <2>1, <2>4 DEF PinsOf, Listed
      <3> QED BY <1>2, <1>5, <1>8, <2>2, <2>3, <2>4, <3>1
    <2>5. CASE id \notin Pins
      <3>1. cloud'.pins = cloud.pins
        BY <1>1, <2>2, <2>5
      <3> QED BY <1>4, <1>5, <1>8, <2>2, <3>1
    <2> QED BY <2>4, <2>5
  <1>9. CASE call = "delete_pin"
    <2>1. PinsOf(l)[id] # "none" /\ cloud' = [cloud EXCEPT !.pins[id] = None]
      BY <1>9 DEF Carried, DeletePin
    <2>2. cloud'.keys = cloud.keys /\ cloud'.setting = cloud.setting
          /\ cloud'.pins = [cloud.pins EXCEPT ![id] = None]
      BY <1>1, <2>1
    <2>3. \A p \in Pins : cloud'.pins[p] # cloud.pins[p] => p = id
      BY <1>1, <2>2
    <2>4. Expired(l)' = Expired(l) \ {id}
      BY <1>1, <2>2 DEF Expired, PinsOf, Listed
    <2>5. CASE id \in Pins
      <3>1. cloud.pins[id].lock = l
        BY <1>1, <2>1, <2>5 DEF PinsOf, Listed
      <3> QED BY <1>2, <1>5, <1>9, <2>2, <2>3, <2>4, <2>5, <3>1
    <2>6. CASE id \notin Pins
      <3>1. cloud'.pins = cloud.pins
        BY <1>1, <2>2, <2>6
      <3> QED BY <1>4, <1>5, <1>9, <2>2, <2>3, <2>4, <3>1
    <2> QED BY <2>5, <2>6
  <1>10. CASE call \in {"enrolled", "read"}
    <2>1. cloud' = cloud
      BY <1>10 DEF Carried, Enrolled
    <2> QED BY <1>4, <1>5, <1>10, <2>1
  <1>11. CASE call = "send_key"
    <2>1. PICK k \in Keys :
             cloud.keys[k] = None /\ cloud' = [cloud EXCEPT !.keys[k] = Of(l, "normal")]
      BY <1>11 DEF Carried, SendKey
    <2>2. cloud'.pins = cloud.pins /\ cloud'.setting = cloud.setting
          /\ cloud'.keys = [cloud.keys EXCEPT ![k] = Of(l, "normal")]
      BY <1>1, <2>1
    <2>3. Of(l, "normal").lock = l
      BY DEF Of
    <2> QED BY <1>3, <1>4, <1>11, <2>1, <2>2, <2>3
  <1>12. CASE call \in {"delete_key", "freeze_key", "unfreeze_key", "edit_key"}
    <2>1. HasKey(id) /\ cloud.keys[id].lock = l
      BY <1>12 DEF Carried, DeleteKey, KeyBecomes, EditKey
    <2>2. PICK x :
             /\ x = None \/ x.lock = l
             /\ cloud'.pins = cloud.pins /\ cloud'.setting = cloud.setting
             /\ cloud'.keys = [cloud.keys EXCEPT ![id] = x] \/ cloud' = cloud
      <3>1. CASE call = "delete_key"
        <4>1. cloud' = [cloud EXCEPT !.keys[id] = None]
          BY <3>1 DEF Carried, DeleteKey
        <4> QED BY <1>1, <4>1
      <3>2. CASE call \in {"freeze_key", "unfreeze_key"}
        <4>1. PICK status : cloud' = [cloud EXCEPT !.keys[id].is = status]
          BY <3>2 DEF Carried, KeyBecomes
        <4>2. CASE id \in Keys
          <5>1. cloud.keys[id] \in [lock : Locks, is : KeyStatus]
            BY <1>1, <2>1, <4>2 DEF HasKey
          <5>2. [cloud.keys[id] EXCEPT !.is = status].lock = l
            BY <2>1, <5>1
          <5>3. cloud'.pins = cloud.pins /\ cloud'.setting = cloud.setting
                /\ cloud'.keys =
                     [cloud.keys EXCEPT ![id] = [cloud.keys[id] EXCEPT !.is = status]]
            BY <1>1, <4>1
          <5> QED BY <5>2, <5>3
        <4>3. CASE id \notin Keys
          <5>1. cloud'.pins = cloud.pins /\ cloud'.setting = cloud.setting
                /\ cloud'.keys =
                     [cloud.keys EXCEPT ![id] = [cloud.keys[id] EXCEPT !.is = status]]
            BY <1>1, <4>1
          <5>2. cloud'.keys = [cloud.keys EXCEPT ![id] = None]
            BY <1>1, <4>3, <5>1
          <5> QED BY <5>1, <5>2
        <4> QED BY <4>2, <4>3
      <3>3. CASE call = "edit_key"
        BY <3>3 DEF Carried, EditKey
      <3> QED BY <1>12, <3>1, <3>2, <3>3
    <2>3. \A m \in Locks \ {l} : KeysOf(m)' = KeysOf(m)
      <3>1. CASE id \in Keys /\ cloud' # cloud
        BY <1>3, <2>1, <2>2, <3>1
      <3>2. CASE id \notin Keys \/ cloud' = cloud
        <4>1. cloud'.keys = cloud.keys
          BY <1>1, <2>2, <3>2
        <4> QED BY <1>5, <4>1
      <3> QED BY <3>1, <3>2
    <2> QED BY <1>4, <1>12, <2>2, <2>3
  <1> QED BY <1>6, <1>7, <1>8, <1>9, <1>10, <1>11, <1>12 DEF Handler

\* One task at work, with the rest as it should be.
LEMMA LoneStep ==
    ASSUME TasksInv, NEW t \in Tasks, Working \subseteq {t}, NEW r, Set(t, r),
           \A m \in Locks : Matches(m)' \/ (r.stage \notin Quiet /\ Head(r.locks) = m),
           r.stage \notin Quiet => InProgress(r)'
    PROVE  LoneInv'
  <1>1. task'[t] = r /\ \A u \in Tasks \ {t} : task'[u] = task[u]
    BY DEF TasksInv, TypeOK, Set
  <1>2. Working' = IF r.stage \notin Quiet THEN {t} ELSE {}
    BY <1>1 DEF Working, Busy, Quiet
  <1>3. Alone'
    BY <1>2 DEF Alone
  <1>4. \A m \in Locks : Matches(m)' \/ \E u \in Working' : Head(task'[u].locks) = m
    BY <1>1, <1>2
  <1>5. \A u \in Working' : InProgress(task[u])'
    BY <1>1, <1>2 DEF InProgress, AtRequest, AtAnswer, AtLists, Cleaning
  <1> QED BY <1>3, <1>4, <1>5 DEF LoneInv, Lock

\* What is not touched stays as it is.
LEMMA StillMatches ==
    ASSUME UNCHANGED <<cloud, data, generation>>
    PROVE  /\ \A m : Matches(m)' <=> Matches(m)
           /\ \A r : InProgress(r)' <=> InProgress(r)
  BY DEF Matches, Filled, Unfilled, PinsOf, KeysOf, InProgress, AtRequest, AtAnswer,
         AtLists, ListsDue, Cleaning, HasKey, Expired

\* A panel beside the task at work.
LEMMA LoneAside ==
    ASSUME TasksInv, LoneInv, NEW t \in Tasks, NEW r, Set(t, r),
           task[t].stage \in Quiet, r.stage \in Quiet, UNCHANGED <<cloud, data, generation>>
    PROVE  LoneInv'
  <1>1. task'[t] = r /\ \A u \in Tasks \ {t} : task'[u] = task[u]
    BY DEF TasksInv, TypeOK, Set
  <1>2. Working' = Working /\ t \notin Working
    BY <1>1 DEF Working, Busy, Quiet
  <1>3. \A u \in Working : task'[u] = task[u]
    BY <1>1, <1>2 DEF Working
  <1>4. Alone'
    BY <1>2 DEF Alone, LoneInv
  <1>5. \A m \in Locks : Matches(m)' \/ \E u \in Working' : Lock(u)' = m
    BY <1>2, <1>3, StillMatches DEF LoneInv, Lock
  <1>6. ASSUME NEW u \in Working' PROVE InProgress(task[u])'
    <2>1. PICK q : q = task[u]
      OBVIOUS
    <2>2. task'[u] = q /\ InProgress(q)
      BY <1>2, <1>3, <2>1 DEF LoneInv
    <2>3. InProgress(q)'
      BY <2>2, StillMatches
    <2> QED BY <2>2, <2>3 DEF InProgress, AtRequest, AtAnswer, AtLists, Cleaning
  <1> QED BY <1>4, <1>5, <1>6 DEF LoneInv

\* Of a lone task: what is said of it, and that the other locks match.
LEMMA LoneTask ==
    ASSUME TasksInv, LoneInv, NEW t \in Tasks, Busy(t)
    PROVE  /\ Working = {t} /\ InProgress(task[t])
           /\ task[t] \in Task /\ Lock(t) \in Locks /\ Lock(t) = Head(task[t].locks)
           /\ task[t].of = generation /\ DataOf(t) = data[generation][Lock(t)]
           /\ DataOf(t) \in Data
           /\ \A m \in Locks \ {Lock(t)} : Matches(m)
  <1>1. Working = {t}
    BY DEF LoneInv, Alone, Working
  <1>2. InProgress(task[t])
    BY <1>1 DEF LoneInv
  <1>3. task[t].stage # "idle"
    BY DEF Busy
  <1>4. \A m \in Locks \ {Lock(t)} : Matches(m)
    BY <1>1 DEF LoneInv
  <1> QED BY <1>1, <1>2, <1>3, <1>4, AtWork DEF InProgress, DataOf, Lock

\* It is done with a lock, and all match.
LEMMA ProceedLone ==
    ASSUME TasksInv, KnownInv, NEW t \in Tasks, Busy(t), Working \subseteq {t},
           task[t].of = generation, generation' = generation,
           \A m \in Locks : Matches(m)', Set(t, Proceed(t))
    PROVE  LoneInv'
  <1>1. task[t].stage # "idle" /\ Known(t, task[t]) /\ task[t].locks \in Seq(Locks)
        /\ Len(task[t].locks) \in Nat /\ Tail(task[t].locks) \in Seq(Locks)
        /\ (Len(task[t].locks) > 1 => Tail(task[t].locks) # <<>>)
    BY AtWork DEF KnownInv, Busy, Task
  <1>2. PICK r : r = Proceed(t)
    OBVIOUS
  <1>3. CASE r.stage \in Quiet
    BY <1>2, <1>3, LoneStep
  <1>4. CASE r.stage \notin Quiet
    <2>1. /\ Len(task[t].locks) > 1
          /\ r.stage = IF task[t].handler = CleanupPasscodes THEN "list" ELSE "call"
          /\ r.handler = task[t].handler /\ r.locks = Tail(task[t].locks)
          /\ r.of = task[t].of
      BY <1>1, <1>2, <1>4, ProceedIs DEF Quiet
    <2>2. Head(r.locks) \in Locks
      BY <1>1, <2>1, HeadTailProperties
    <2>3. r.handler.scope # "first"
      BY <1>1, <2>1 DEF Known
    <2>4. Matches(Head(r.locks))'
      BY <2>2
    <2>5. InProgress(r)'
      BY <2>1, <2>3, <2>4 DEF InProgress, AtRequest, Cleaning
    <2> QED BY <1>2, <1>4, <2>5, LoneStep
  <1> QED BY <1>3, <1>4

\* Another request, while nobody works.
LEMMA StartRequestLone ==
    ASSUME TasksInv, LoneInv, NEW t \in Tasks, NEW r \in Task, r.locks # <<>>,
           StartRequest(t, r), ~disturbed'
    PROVE  LoneInv'
  <1>1. Working = {} /\ ~Strays(r.handler, Head(r.locks), r.of, r.id)
        /\ UNCHANGED <<cloud, data, generation>> /\ Set(t, Begun(r))
    BY DEF StartRequest
  <1>2. \A m \in Locks : Matches(m)'
    BY <1>1, StillMatches DEF LoneInv
  <1>3. Head(r.locks) \in Locks
    BY HeadTailProperties DEF Task
  <1>4. PICK b : b = Begun(r)
    OBVIOUS
  <1>5. /\ b.stage = IF r.handler = CleanupPasscodes THEN "list" ELSE "call"
        /\ b.handler = r.handler /\ b.locks = r.locks /\ b.of = r.of /\ b.id = r.id
    BY <1>4, BegunIs
  <1>6. b.of = generation' /\ Matches(Head(b.locks))'
        /\ (b.handler.scope = "first" /\ HasKey(b.id) => cloud.keys[b.id].lock = Head(b.locks))
    BY <1>1, <1>2, <1>3, <1>5 DEF Strays
  <1>7. InProgress(b)'
    BY <1>1, <1>5, <1>6 DEF InProgress, AtRequest, Cleaning, HasKey
  <1> QED BY <1>1, <1>2, <1>4, <1>7, LoneStep

LEMMA UserLone ==
    ASSUME TasksInv, LoneInv, NEW t \in Tasks, ~disturbed',
           CallService(t) \/ OpenPanel(t) \/ ShowForm(t) \/ SubmitForm(t) \/ ClosePanel(t)
    PROVE  LoneInv'
  <1>1. CASE CallService(t)
    <2>1. PICK h \in Services, selection \in Selections :
             \E id \in Arguments(h) :
                StartRequest(t, [Idle EXCEPT !.handler = h, !.of = generation,
                                             !.locks = Handled(h, selection), !.id = id])
      BY <1>1 DEF CallService
    <2>2. PICK id \in Arguments(h) :
             StartRequest(t, [Idle EXCEPT !.handler = h, !.of = generation,
                                          !.locks = Handled(h, selection), !.id = id])
      BY <2>1
    <2> DEFINE r == [Idle EXCEPT !.handler = h, !.of = generation,
                                 !.locks = Handled(h, selection), !.id = id]
    <2>3. Handled(h, selection) \in Seq(Locks) /\ Handled(h, selection) # <<>>
      <3>1. selection \in Seq(Locks) /\ selection # <<>>
        BY SelectionAssumption
      <3>2. Head(selection) \in Locks
        BY <3>1, HeadTailProperties
      <3> QED BY <3>1, <3>2 DEF Handled, FirstCoordinator
    <2>4. generation \in Nat
      BY DEF TasksInv, TypeOK
    <2>5. r \in Task /\ r.locks # <<>>
      BY <2>3, <2>4, ServiceTyped, IdleFormed DEF Formed, Task
    <2>6. StartRequest(t, r)
      BY <2>2
    <2> HIDE DEF r
    <2> QED BY <2>5, <2>6, StartRequestLone
  <1>2. CASE OpenPanel(t)
    <2>1. PICK l \in Locks :
             LET d == data[generation][l]
                 r == [Idle EXCEPT !.locks = <<l>>, !.of = generation]
             IN  /\ Set(t, IF d.fetched THEN [r EXCEPT !.stage = "menu"]
                           ELSE [r EXCEPT !.stage = "pins", !.copy = d])
                 /\ disturbed' = (disturbed \/ (~d.fetched /\ Working # {}))
      BY <1>2 DEF OpenPanel
    <2>2. task[t].stage \in Quiet /\ UNCHANGED <<cloud, data, generation>>
      BY <1>2, IdleFormed DEF OpenPanel, Quiet
    <2>3. CASE data[generation][l].fetched
      <3>1. Set(t, [[Idle EXCEPT !.locks = <<l>>, !.of = generation] EXCEPT !.stage = "menu"])
        BY <2>1, <2>3
      <3>2. [[Idle EXCEPT !.locks = <<l>>, !.of = generation] EXCEPT !.stage = "menu"].stage
               \in Quiet
        BY DEF Idle, Quiet
      <3> QED BY <2>2, <3>1, <3>2, LoneAside
    <2>4. CASE ~data[generation][l].fetched
      <3>1. PICK d : d = data[generation][l]
        OBVIOUS
      <3>2. PICK g : g = generation
        OBVIOUS
      <3>3. PICK r : r = [[Idle EXCEPT !.locks = <<l>>, !.of = g]
                             EXCEPT !.stage = "pins", !.copy = d]
        OBVIOUS
      <3>4. Set(t, r) /\ Working = {}
        BY <2>1, <2>4, <3>1, <3>2, <3>3
      <3>5. r.stage = "pins" /\ r.copy = d /\ r.locks = <<l>> /\ r.of = g
            /\ r.handler = NoHandler
        BY <3>3 DEF Idle
      <3>6. \A m \in Locks : Matches(m) /\ Matches(m)'
        BY <2>2, <3>4, StillMatches DEF LoneInv
      <3>7. d.setting = cloud.setting[l]
        BY <3>1, <3>6 DEF Matches, Filled, Unfilled
      <3>8. InProgress(r)
        BY <3>2, <3>5, <3>7, NoHandlerIsQuiet DEF InProgress, AtLists
      <3>9. InProgress(r)'
        BY <2>2, <3>8, StillMatches
      <3> QED BY <3>4, <3>6, <3>9, LoneStep
    <2> QED BY <2>3, <2>4
  <1>3. CASE ShowForm(t)
    <2>1. PICK choice \in Menu(DataOf(t)) :
             Set(t, [task[t] EXCEPT !.stage = "form", !.handler = choice[1],
                                    !.id = choice[2]])
      BY <1>3 DEF ShowForm
    <2>2. [task[t] EXCEPT !.stage = "form", !.handler = choice[1],
                          !.id = choice[2]].stage \in Quiet
      BY DEF TasksInv, TypeOK, Task, Quiet
    <2>3. task[t].stage \in Quiet /\ UNCHANGED <<cloud, data, generation>>
      BY <1>3 DEF ShowForm, Quiet
    <2> QED BY <2>1, <2>2, <2>3, LoneAside
  <1>4. CASE SubmitForm(t)
    <2>1. task[t] \in Task /\ task[t].locks # <<>> /\ StartRequest(t, task[t])
      BY <1>4 DEF SubmitForm, TasksInv, TypeOK
    <2> QED BY <2>1, StartRequestLone
  <1>5. CASE ClosePanel(t)
    BY <1>5, LoneAside, IdleFormed DEF ClosePanel, Quiet
  <1> QED BY <1>1, <1>2, <1>3, <1>4, <1>5

LEMMA SendLone ==
    ASSUME TasksInv, LoneInv, NEW t \in Tasks, Send(t)
    PROVE  LoneInv'
  <1>1. task[t].stage = "call" /\ UNCHANGED <<cloud, data, generation>>
    BY DEF Send
  <1>2. Busy(t)
    BY <1>1 DEF Busy
  <1>3. PICK r : r = [task[t] EXCEPT !.stage = "sent"]
    OBVIOUS
  <1>4. /\ r.stage = "sent" /\ r.handler = task[t].handler /\ r.locks = task[t].locks
        /\ r.of = task[t].of /\ r.id = task[t].id /\ r.expired = task[t].expired
    BY <1>2, <1>3, LoneTask DEF Task
  <1>5. InProgress(r)
    BY <1>1, <1>2, <1>4, LoneTask DEF InProgress, AtRequest, Cleaning
  <1>6. InProgress(r)'
    BY <1>1, <1>5, StillMatches
  <1>7. \A m \in Locks : Matches(m)' \/ Head(r.locks) = m
    BY <1>1, <1>2, <1>4, LoneTask, StillMatches
  <1>8. Set(t, r) /\ Working \subseteq {t} /\ r.stage \notin Quiet
    BY <1>2, <1>3, <1>4, LoneTask DEF Send, Quiet
  <1> QED BY <1>6, <1>7, <1>8, LoneStep

\* What the cloud has changed for a lone task, that task knows.
LEMMA CarriedOutLone ==
    ASSUME TasksInv, KnownInv, LoneInv, NEW t \in Tasks, task[t].stage = "sent",
           NEW l, l = Lock(t),
           cloud' \in Carried(Request(t), l, task[t].id)
    PROVE  /\ \A m \in Locks \ {l} :
                 /\ PinsOf(m)' = PinsOf(m) /\ KeysOf(m)' = KeysOf(m)
                 /\ cloud'.setting[m] = cloud.setting[m]
           /\ Request(t) # "configure" => cloud'.setting = cloud.setting
           /\ Request(t) = "configure" =>
                /\ cloud'.setting[l] = task[t].id
                /\ PinsOf(l)' = PinsOf(l) /\ KeysOf(l)' = KeysOf(l)
           /\ Request(t) \in {"enrolled", "read"} => cloud' = cloud
           /\ Request(t) = "delete_pin" =>
                /\ \A p \in Pins : cloud'.pins[p] # cloud.pins[p] => p = task[t].id
                /\ Expired(l)' = Expired(l) \ {task[t].id}
  <1>1. Busy(t)
    BY DEF Busy
  <1>2. l \in Locks /\ cloud \in Cloud /\ InProgress(task[t])
        /\ l = Head(task[t].locks)
    BY <1>1, LoneTask DEF TasksInv, TypeOK
  <1>3. task[t].handler.scope = "first" /\ HasKey(task[t].id) =>
            cloud.keys[task[t].id].lock = l
    BY <1>2 DEF InProgress, AtRequest
  <1>4. Request(t) \in {"delete_key", "freeze_key", "unfreeze_key", "edit_key"} =>
            task[t].handler.scope = "first"
    <2>1. task[t].handler \in Services
      BY DEF KnownInv, Known
    <2> QED BY <2>1, ServiceKinds DEF Request
  <1>5. Request(t) \in {h.call : h \in Handler} /\ Request(t) # "cleanup"
    BY RequestTyped
  <1> QED BY <1>2, <1>3, <1>4, <1>5, CarriedIsLocal

LEMMA CloudActsLone ==
    ASSUME TasksInv, KnownInv, LoneInv, NEW t \in Tasks, CloudActs(t)
    PROVE  LoneInv'
  <1>1. task[t].stage = "sent" /\ UNCHANGED <<data, generation>>
    BY DEF CloudActs, CloudCarriesOut, CloudRefuses
  <1>2. Busy(t)
    BY <1>1 DEF Busy
  <1>3. PICK reply \in {"ok", "raised"} :
           /\ Set(t, [task[t] EXCEPT !.stage = "answered", !.reply = reply])
           /\ reply = "ok" => cloud' \in Carried(Request(t), Lock(t), task[t].id)
    BY DEF CloudActs, CloudCarriesOut, CloudRefuses
  <1>4. PICK r : r = [task[t] EXCEPT !.stage = "answered", !.reply = reply]
    OBVIOUS
  <1>5. /\ r.stage = "answered" /\ r.reply = reply /\ r.handler = task[t].handler
        /\ r.locks = task[t].locks /\ r.of = task[t].of /\ r.id = task[t].id
        /\ r.expired = task[t].expired
    BY <1>2, <1>4, LoneTask DEF Task
  <1>6. PICK l : l = Lock(t)
    OBVIOUS
  <1>7. /\ l \in Locks /\ l = Head(r.locks) /\ InProgress(task[t])
        /\ Working = {t} /\ r.of = generation'
        /\ \A m \in Locks \ {l} : Matches(m)
    BY <1>1, <1>2, <1>5, <1>6, LoneTask
  <1>8. \A m \in Locks \ {l} : Matches(m)'
    <2>1. CASE cloud' = cloud
      BY <1>1, <1>7, <2>1, StillMatches
    <2>2. CASE cloud' # cloud
      <3>1. cloud' \in Carried(Request(t), Lock(t), task[t].id)
        BY <2>2 DEF CloudActs, CloudCarriesOut, CloudRefuses
      <3>2. \A m \in Locks \ {l} :
                 /\ PinsOf(m)' = PinsOf(m) /\ KeysOf(m)' = KeysOf(m)
                 /\ cloud'.setting[m] = cloud.setting[m]
        BY <1>1, <1>6, <3>1, CarriedOutLone
      <3> QED BY <1>1, <1>7, <3>2 DEF Matches, Filled, Unfilled
    <2> QED BY <2>1, <2>2
  <1>9. ASSUME reply = "ok" PROVE AtAnswer(r)'
    <2>1. cloud' \in Carried(Request(t), Lock(t), task[t].id)
      BY <1>3, <1>9
    <2>2. AtRequest(task[t])
      BY <1>1, <1>7 DEF InProgress
    <2>3. task[t].handler \in Services
      BY DEF KnownInv, Known
    <2>4. CASE r.handler.after = "refetch"
      <3>1. ListsDue(l)
        BY <1>6, <2>2 DEF AtRequest, ListsDue, Matches, Filled, Unfilled, Lock
      <3>2. Request(t) # "configure"
        BY <1>5, <2>3, <2>4, ServiceKinds DEF Request
      <3>3. cloud'.setting = cloud.setting
        BY <1>1, <2>1, <3>2, CarriedOutLone
      <3>4. ListsDue(l)'
        BY <1>1, <3>1, <3>3 DEF ListsDue
      <3> QED BY <1>7, <2>4, <3>4 DEF AtAnswer
    <2>5. CASE r.handler.after = "store"
      <3>1. ~Cleans(t) /\ Request(t) = "configure"
        BY <1>5, <2>3, <2>5, ServiceKinds DEF Request, Cleans
      <3>2. Matches(l)
        BY <1>6, <2>2, <3>1 DEF AtRequest, Cleans, Lock
      <3>3. cloud'.setting[l] = r.id /\ PinsOf(l)' = PinsOf(l) /\ KeysOf(l)' = KeysOf(l)
        BY <1>1, <1>5, <1>6, <2>1, <3>1, CarriedOutLone
      <3>4. [data[generation][l] EXCEPT !.setting = r.id] \in {Filled(l)', Unfilled(l)'}
        <4>1. /\ Filled(l)' = [fetched |-> TRUE, pins |-> PinsOf(l), keys |-> KeysOf(l),
                                setting |-> r.id]
              /\ Unfilled(l)' = [fetched |-> FALSE, pins |-> [p \in Pins |-> "none"],
                                  keys |-> [k \in Keys |-> "none"], setting |-> r.id]
          BY <3>3 DEF Filled, Unfilled
        <4>2. PICK d : d = data[generation][l]
          OBVIOUS
        <4>3. d \in Data
          BY <1>2, <1>6, <4>2, LoneTask
        <4>6. [d EXCEPT !.setting = r.id] =
                 [fetched |-> d.fetched, pins |-> d.pins, keys |-> d.keys, setting |-> r.id]
          BY <4>3 DEF Data
        <4>4. CASE d = Filled(l)
          <5>1. d.fetched = TRUE
            BY <4>4 DEF Filled
          <5>2. d.pins = PinsOf(l) /\ d.keys = KeysOf(l)
            BY <4>4 DEF Filled
          <5> QED BY <4>1, <4>2, <4>6, <5>1, <5>2, Zenon
        <4>5. CASE d = Unfilled(l)
          <5>1. d.fetched = FALSE
            BY <4>5 DEF Unfilled
          <5>2. d.pins = [p \in Pins |-> "none"] /\ d.keys = [k \in Keys |-> "none"]
            BY <4>5 DEF Unfilled
          <5> QED BY <4>1, <4>2, <4>6, <5>1, <5>2, Zenon
        <4> QED BY <3>2, <4>2, <4>4, <4>5 DEF Matches
      <3> QED BY <1>1, <1>7, <2>5, <3>3, <3>4 DEF AtAnswer
    <2>6. CASE r.handler.after = "nothing"
      <3>1. ~Cleans(t) /\ Request(t) \in {"enrolled", "read"}
        BY <1>5, <2>3, <2>6, ServiceKinds DEF Request, Cleans
      <3>2. Matches(l)
        BY <1>6, <2>2, <3>1 DEF AtRequest, Cleans, Lock
      <3>3. cloud' = cloud
        BY <1>1, <2>1, <3>1, CarriedOutLone
      <3>4. Matches(l)'
        BY <1>1, <3>2, <3>3, StillMatches
      <3> QED BY <1>7, <2>6, <3>4 DEF AtAnswer
    <2> QED BY <1>5, <2>3, <2>4, <2>5, <2>6, ServiceKinds
  <1>10. ASSUME reply = "ok", Cleans(t) PROVE Expired(l)' = r.expired
    <2>1. Expired(l)' = Expired(l) \ {task[t].id}
      BY <1>1, <1>3, <1>6, <1>10, CarriedOutLone DEF Request
    <2>2. task[t].id \in Expired(l) \ task[t].expired
          /\ Expired(l) = task[t].expired \cup {task[t].id}
      BY <1>1, <1>5, <1>7, <1>10 DEF InProgress, Cleaning, Cleans
    <2> QED BY <1>5, <2>1, <2>2
  <1>11. InProgress(r)'
    BY <1>5, <1>7, <1>9, <1>10 DEF InProgress, Cleaning, Cleans
  <1> QED BY <1>3, <1>4, <1>5, <1>7, <1>8, <1>11, LoneStep DEF Quiet

\* The data of a lone task's lock are written, and match.
LEMMA WrittenLone ==
    ASSUME TasksInv, KnownInv, LoneInv, NEW t \in Tasks, Busy(t), NEW d,
           cloud' = cloud, generation' = generation,
           data' = [data EXCEPT ![task[t].of] = [data[task[t].of] EXCEPT ![Lock(t)] = d]],
           d \in {Filled(Lock(t)), Unfilled(Lock(t))}, Set(t, Proceed(t))
    PROVE  LoneInv'
  <1>1. PICK l : l = Lock(t)
    OBVIOUS
  <1>2. /\ l \in Locks /\ task[t].of = generation /\ Working = {t}
        /\ \A m \in Locks \ {l} : Matches(m)
    BY <1>1, LoneTask
  <1>3. generation \in 1..generation /\ data \in [1..generation -> [Locks -> Data]]
    BY DEF TasksInv, TypeOK
  <1>4. data'[generation] = [data[generation] EXCEPT ![l] = d]
        /\ data[generation] \in [Locks -> Data]
    BY <1>1, <1>2, <1>3
  <1>5. data'[generation][l] = d
        /\ \A m \in Locks \ {l} : data'[generation][m] = data[generation][m]
    BY <1>2, <1>4
  <1>6. \A m \in Locks : Matches(m)'
    BY <1>1, <1>2, <1>5 DEF Matches, Filled, Unfilled, PinsOf, KeysOf
  <1> QED BY <1>2, <1>6, ProceedLone

\* The lists are to be fetched again.
LEMMA RefetchLone ==
    ASSUME TasksInv, KnownInv, LoneInv, NEW t \in Tasks, Busy(t),
           UNCHANGED <<cloud, data, generation>>, Set(t, Refetch(t)), ListsDue(Lock(t)),
           Cleans(t) => Expired(Lock(t)) = {}
    PROVE  LoneInv'
  <1>1. PICK r : r = Refetch(t)
    OBVIOUS
  <1>2. /\ r.stage = "pins" /\ r.copy = DataOf(t) /\ r.handler = task[t].handler
        /\ r.locks = task[t].locks /\ r.of = task[t].of
    BY <1>1, RefetchIs DEF Busy
  <1>3. InProgress(r)
    BY <1>2, LoneTask DEF InProgress, AtLists, ListsDue, Cleaning, Cleans
  <1>4. InProgress(r)' /\ \A m \in Locks : Matches(m)' \/ Head(r.locks) = m
    BY <1>2, <1>3, LoneTask, StillMatches
  <1> QED BY <1>1, <1>2, <1>4, LoneTask, LoneStep DEF Quiet

\* It goes on at the same lock, nothing changed but itself.
LEMMA GoesOnLone ==
    ASSUME TasksInv, LoneInv, NEW t \in Tasks, Busy(t), NEW r,
           UNCHANGED <<cloud, data, generation>>, Set(t, r), r.stage \notin Quiet,
           r.locks = task[t].locks, InProgress(r)
    PROVE  LoneInv'
  <1>1. InProgress(r)' /\ \A m \in Locks : Matches(m)' \/ Head(r.locks) = m
    BY LoneTask, StillMatches
  <1> QED BY <1>1, LoneTask, LoneStep

LEMMA AnsweredLone ==
    ASSUME TasksInv, KnownInv, LoneInv, NEW t \in Tasks,
           FetchAgain(t) \/ StoreValue(t) \/ NothingMore(t) \/ DeletedExpired(t)
    PROVE  LoneInv'
  <1>1. task[t].stage = "answered" /\ task[t].reply = "ok"
        /\ generation' = generation /\ cloud' = cloud
    BY DEF FetchAgain, StoreValue, NothingMore, DeletedExpired, Answered
  <1>2. Busy(t)
    BY <1>1 DEF Busy
  <1>3. AtAnswer(task[t]) /\ (Cleans(t) => Expired(Lock(t)) = task[t].expired)
    BY <1>1, <1>2, LoneTask DEF InProgress, Cleaning, Cleans
  <1>4. Lock(t) = Head(task[t].locks) /\ task[t].of = generation
        /\ data[generation][Lock(t)] = DataOf(t) /\ Working = {t}
        /\ (\A m \in Locks \ {Lock(t)} : Matches(m))
    BY <1>2, LoneTask
  <1>5. CASE FetchAgain(t)
    <2>1. ListsDue(Lock(t)) /\ ~Cleans(t)
      BY <1>3, <1>4, <1>5 DEF FetchAgain, AtAnswer
    <2> QED BY <1>2, <1>5, <2>1, RefetchLone DEF FetchAgain
  <1>6. CASE StoreValue(t)
    <2>1. PICK d : d = [data[task[t].of][Lock(t)] EXCEPT !.setting = task[t].id]
      OBVIOUS
    <2>2. data' = [data EXCEPT ![task[t].of] = [data[task[t].of] EXCEPT ![Lock(t)] = d]]
      BY <1>6, <2>1 DEF StoreValue
    <2>3. d \in {Filled(Lock(t)), Unfilled(Lock(t))}
      BY <1>3, <1>4, <1>6, <2>1 DEF StoreValue, AtAnswer
    <2> QED BY <1>1, <1>2, <1>6, <2>2, <2>3, WrittenLone DEF StoreValue
  <1>7. CASE NothingMore(t)
    <2>1. Matches(Lock(t))
      BY <1>3, <1>4, <1>7 DEF NothingMore, AtAnswer
    <2>2. \A m \in Locks : Matches(m)'
      BY <1>4, <1>7, <2>1, StillMatches DEF NothingMore
    <2> QED BY <1>2, <1>4, <1>7, <2>2, ProceedLone DEF NothingMore
  <1>8. CASE DeletedExpired(t)
    <2>1. Cleans(t) /\ UNCHANGED <<cloud, data, generation>>
      BY <1>8 DEF DeletedExpired
    <2>2. ListsDue(Lock(t))
      <3>1. task[t].handler.after = "refetch"
        BY <2>1, ServiceKinds DEF KnownInv, Known, Cleans
      <3> QED BY <1>3, <1>4, <3>1 DEF AtAnswer
    <2>3. CASE task[t].expired = {}
      BY <1>2, <1>3, <1>8, <2>1, <2>2, <2>3, RefetchLone DEF DeletedExpired
    <2>4. CASE task[t].expired # {}
      <3>1. PICK p \in task[t].expired :
               Set(t, [task[t] EXCEPT !.stage = "call", !.id = p, !.reply = "none",
                                      !.expired = @ \ {p}])
        BY <1>8, <2>4 DEF DeletedExpired
      <3>2. PICK r : r = [task[t] EXCEPT !.stage = "call", !.id = p, !.reply = "none",
                                         !.expired = @ \ {p}]
        OBVIOUS
      <3>3. /\ r.stage = "call" /\ r.handler = task[t].handler /\ r.locks = task[t].locks
            /\ r.of = task[t].of /\ r.id = p /\ r.expired = task[t].expired \ {p}
        BY <1>2, <3>2, LoneTask DEF Task
      <3>4. r.handler = CleanupPasscodes /\ r.handler.scope # "first"
        BY <2>1, <3>3, ServiceKinds DEF KnownInv, Known, Cleans
      <3>5. Cleaning(r)
        BY <1>3, <1>4, <2>1, <3>1, <3>3 DEF Cleaning
      <3>6. InProgress(r)
        BY <1>4, <2>2, <3>3, <3>4, <3>5 DEF InProgress, AtRequest
      <3> QED BY <1>2, <2>1, <3>1, <3>2, <3>3, <3>6, GoesOnLone DEF Quiet
    <2> QED BY <2>3, <2>4
  <1> QED BY <1>5, <1>6, <1>7, <1>8

LEMMA ListedLone ==
    ASSUME TasksInv, KnownInv, LoneInv, NEW t \in Tasks, Formed(task[t]),
           FindExpired(t) \/ PinsListed(t) \/ KeysListed(t)
    PROVE  LoneInv'
  <1>1. Busy(t)
    BY DEF Busy, FindExpired, PinsListed, KeysListed
  <1>2. Lock(t) = Head(task[t].locks) /\ task[t].of = generation /\ task[t] \in Task
        /\ data[generation][Lock(t)] = DataOf(t) /\ Working = {t} /\ InProgress(task[t])
        /\ (\A m \in Locks \ {Lock(t)} : Matches(m))
    BY <1>1, LoneTask
  <1>3. CASE FindExpired(t)
    <2>1. task[t].stage = "list" /\ UNCHANGED <<cloud, data, generation>>
      BY <1>3 DEF FindExpired
    <2>2. Matches(Lock(t)) /\ \A m \in Locks : Matches(m)'
      BY <1>2, <2>1, StillMatches DEF InProgress
    <2>3. CASE Expired(Lock(t)) = {}
      BY <1>1, <1>2, <1>3, <2>1, <2>2, <2>3, ProceedLone DEF FindExpired
    <2>4. CASE Expired(Lock(t)) # {}
      <3>1. PICK p \in Expired(Lock(t)) :
               Set(t, [task[t] EXCEPT !.stage = "call", !.id = p,
                                      !.expired = Expired(Lock(t)) \ {p}])
        BY <1>3, <2>4 DEF FindExpired
      <3>2. PICK r : r = [task[t] EXCEPT !.stage = "call", !.id = p,
                                         !.expired = Expired(Lock(t)) \ {p}]
        OBVIOUS
      <3>3. /\ r.stage = "call" /\ r.handler = task[t].handler /\ r.locks = task[t].locks
            /\ r.of = task[t].of /\ r.id = p /\ r.expired = Expired(Lock(t)) \ {p}
        BY <1>2, <3>2 DEF Task
      <3>4. r.handler = CleanupPasscodes /\ r.handler.scope # "first"
        BY <2>1, <3>3, ServiceKinds DEF KnownInv, Known, Formed
      <3>5. ListsDue(Lock(t))
        BY <2>2 DEF Matches, ListsDue, Filled, Unfilled
      <3>6. Cleaning(r)
        BY <1>2, <3>1, <3>3 DEF Cleaning
      <3>7. InProgress(r)
        BY <1>2, <3>3, <3>4, <3>5, <3>6 DEF InProgress, AtRequest
      <3> QED BY <1>1, <2>1, <3>1, <3>2, <3>3, <3>7, GoesOnLone DEF Quiet
    <2> QED BY <2>3, <2>4
  <1>4. CASE PinsListed(t)
    <2>1. task[t].stage = "pins" /\ UNCHANGED <<cloud, data, generation>>
      BY <1>4 DEF PinsListed
    <2>2. task[t].copy \in Data /\ task[t].copy.setting = cloud.setting[Lock(t)]
          /\ (Cleans(t) => Expired(Lock(t)) = {})
      BY <1>2, <2>1 DEF InProgress, AtLists, Cleaning, Cleans, Formed, Task
    <2>3. PICK c : c = [task[t].copy EXCEPT !.pins = PinsOf(Lock(t))]
      OBVIOUS
    <2>4. c.pins = PinsOf(Lock(t)) /\ c.setting = cloud.setting[Lock(t)]
      BY <2>2, <2>3 DEF Data
    <2>5. PICK r : r = [task[t] EXCEPT !.stage = "keys", !.copy = c]
      OBVIOUS
    <2>6. /\ r.stage = "keys" /\ r.handler = task[t].handler /\ r.locks = task[t].locks
          /\ r.of = task[t].of /\ r.copy = c
      BY <1>2, <2>5 DEF Task
    <2>7. InProgress(r)
      BY <1>2, <2>2, <2>4, <2>6 DEF InProgress, AtLists, Cleaning, Cleans
    <2>8. Set(t, r)
      BY <1>4, <2>3, <2>5 DEF PinsListed, Set
    <2> QED BY <1>1, <2>1, <2>6, <2>7, <2>8, GoesOnLone DEF Quiet
  <1>5. CASE KeysListed(t)
    <2>1. task[t].stage = "keys" /\ generation' = generation /\ cloud' = cloud
      BY <1>5 DEF KeysListed
    <2>2. task[t].copy \in Data /\ task[t].copy.setting = cloud.setting[Lock(t)]
          /\ task[t].copy.pins = PinsOf(Lock(t))
      BY <1>2, <2>1 DEF InProgress, AtLists, Formed, Task
    <2>3. PICK d : d = [task[t].copy EXCEPT !.keys = KeysOf(Lock(t)), !.fetched = TRUE]
      OBVIOUS
    <2>4. d = Filled(Lock(t))
      BY <2>2, <2>3 DEF Data, Filled
    <2>5. data' = [data EXCEPT ![task[t].of] = [data[task[t].of] EXCEPT ![Lock(t)] = d]]
      BY <1>5, <2>3 DEF KeysListed
    <2> QED BY <1>1, <1>5, <2>1, <2>4, <2>5, WrittenLone DEF KeysListed
  <1> QED BY <1>3, <1>4, <1>5

\* A reload fills new coordinators.
LEMMA ReloadLone ==
    ASSUME TasksInv, LoneInv, Reload, ~disturbed'
    PROVE  LoneInv'
  <1>1. /\ Working = {} /\ task' = task /\ cloud' = cloud /\ generation' = generation + 1
        /\ data' = Append(data, [l \in Locks |-> Filled(l)])
    BY DEF Reload
  <1>2. data \in Seq([Locks -> Data]) /\ Len(data) = generation /\ generation \in Nat
    BY DEF TasksInv, TypeOK
  <1>3. data'[generation'] = [l \in Locks |-> Filled(l)]
    BY <1>1, <1>2
  <1>4. \A m \in Locks : Matches(m)'
    BY <1>1, <1>3 DEF Matches, Filled, PinsOf, KeysOf
  <1>5. Working' = {}
    BY <1>1 DEF Working, Busy
  <1> QED BY <1>4, <1>5 DEF LoneInv, Alone

-----------------------------------------------------------------------------
(* The theorems about one task at a time *)

\* The inductive invariant.
LoneState == GatewayInv /\ KnownInv /\ SerialInv

LEMMA InitLone == Init => LoneState
  <1> SUFFICES ASSUME Init PROVE LoneState
    OBVIOUS
  <1>1. \A t \in Tasks : task[t] = Idle
    BY DEF Init
  <1>2. KnownInv
    BY <1>1, IdleKnown DEF KnownInv
  <1>3. Working = {}
    BY <1>1, IdleFormed DEF Working, Busy
  <1>4. \A l \in Locks : Matches(l)
    BY DEF Init, Matches
  <1> QED BY <1>2, <1>3, <1>4, InitGateway DEF LoneState, SerialInv, LoneInv, Alone

\* What has overlapped once, has.
LEMMA DisturbedStays ==
    ASSUME TasksInv, [Next]_vars, disturbed
    PROVE  disturbed'
  <1>1. CASE UNCHANGED vars
    BY <1>1 DEF vars
  <1>2. ASSUME NEW t \in Tasks, NEW r, StartRequest(t, r) PROVE disturbed'
    BY <1>2 DEF StartRequest
  <1>3. ASSUME NEW t \in Tasks,
               CallService(t) \/ OpenPanel(t) \/ ShowForm(t) \/ SubmitForm(t) \/ ClosePanel(t)
        PROVE  disturbed'
    BY <1>2, <1>3 DEF CallService, OpenPanel, ShowForm, SubmitForm, ClosePanel
  <1>4. ASSUME NEW t \in Tasks, Send(t) \/ CloudActs(t) \/ Progress(t) PROVE disturbed'
    BY <1>4 DEF Send, CloudActs, CloudCarriesOut, CloudRefuses, Progress, FetchAgain,
       StoreValue, NothingMore, FindExpired, DeletedExpired, PinsListed, KeysListed,
       Raises, ListFails
  <1>5. CASE Reload
    BY <1>5 DEF Reload
  <1> QED BY <1>1, <1>3, <1>4, <1>5 DEF Next

LEMMA LoneStateStep == LoneState /\ [Next]_vars => LoneState'
  <1> SUFFICES ASSUME LoneState, [Next]_vars PROVE LoneState'
    OBVIOUS
  <1>1. GatewayInv /\ TasksInv /\ KnownInv /\ SerialInv /\ \A t \in Tasks : Formed(task[t])
    BY DEF LoneState, GatewayInv, TasksInv
  <1>2. GatewayInv' /\ KnownInv'
    BY <1>1, StepInv, KnownKept
  <1>3. disturbed => disturbed'
    BY DisturbedStays DEF LoneState, GatewayInv, TasksInv
  <1>4. ASSUME ~disturbed' PROVE LoneInv'
    <2>1. LoneInv
      BY <1>1, <1>3, <1>4 DEF SerialInv
    <2>2. CASE UNCHANGED vars
      <3>1. UNCHANGED <<cloud, data, generation, task>>
        BY <2>2 DEF vars
      <3>2. Working' = Working /\ \A t : Lock(t)' = Lock(t)
        BY <3>1 DEF Working, Busy, Lock
      <3>3. ASSUME NEW t \in Working PROVE InProgress(task[t])'
        <4>1. PICK r : r = task[t]
          OBVIOUS
        <4>2. InProgress(r)
          BY <2>1, <4>1 DEF LoneInv
        <4>3. InProgress(r)' /\ task'[t] = r
          BY <3>1, <4>1, <4>2, StillMatches
        <4> QED BY <4>3 DEF InProgress, AtRequest, AtAnswer, AtLists, Cleaning
      <3> QED BY <2>1, <3>1, <3>2, <3>3, StillMatches DEF LoneInv, Alone
    <2>3. ASSUME NEW t \in Tasks,
                 \/ CallService(t) \/ OpenPanel(t)
                 \/ ShowForm(t) \/ SubmitForm(t) \/ ClosePanel(t)
          PROVE  LoneInv'
      BY <1>1, <1>4, <2>1, <2>3, UserLone
    <2>4. ASSUME NEW t \in Tasks, Send(t) \/ CloudActs(t) PROVE LoneInv'
      BY <1>1, <2>1, <2>4, SendLone, CloudActsLone
    <2>5. ASSUME NEW t \in Tasks, Progress(t) PROVE LoneInv'
      <3>1. ~Raises(t) /\ ~ListFails(t)
        BY <1>4 DEF Raises, ListFails
      <3> QED BY <1>1, <2>1, <2>5, <3>1, AnsweredLone, ListedLone DEF Progress
    <2>6. CASE Reload
      BY <1>1, <1>4, <2>1, <2>6, ReloadLone
    <2> QED BY <2>2, <2>3, <2>4, <2>5, <2>6 DEF Next
  <1> QED BY <1>2, <1>4 DEF LoneState, SerialInv

\* Nothing but a request of it changes the cloud.
LEMMA CloudChanges ==
    ASSUME [Next]_vars, cloud' # cloud
    PROVE  \E u \in Tasks : CloudCarriesOut(u)
  <1>1. ~UNCHANGED vars /\ ~Reload
    BY DEF vars, Reload
  <1>2. ASSUME NEW t \in Tasks,
               CallService(t) \/ OpenPanel(t) \/ ShowForm(t) \/ SubmitForm(t) \/ ClosePanel(t)
        PROVE  FALSE
    <2>1. ASSUME NEW r, StartRequest(t, r) PROVE FALSE
      BY <2>1 DEF StartRequest
    <2> QED BY <1>2, <2>1 DEF CallService, OpenPanel, ShowForm, SubmitForm, ClosePanel
  <1>3. ASSUME NEW t \in Tasks, Send(t) \/ CloudRefuses(t) \/ Progress(t) PROVE FALSE
    BY <1>3 DEF Send, CloudRefuses, Progress, FetchAgain, StoreValue, NothingMore,
       FindExpired, DeletedExpired, PinsListed, KeysListed, Raises, ListFails
  <1> QED BY <1>1, <1>2, <1>3 DEF Next, CloudActs

\* A task at work keeps its locks but where it is done with one.
LEMMA LocksChange ==
    ASSUME TasksInv, [Next]_vars, ~disturbed', NEW t \in Tasks, Busy(t),
           task'[t].locks # task[t].locks
    PROVE  \/ StoreValue(t) \/ NothingMore(t) \/ KeysListed(t)
           \/ FindExpired(t) /\ Expired(Lock(t)) = {}
  <1>1. task \in [Tasks -> Task] /\ task[t] \in Task
    BY DEF TasksInv, TypeOK
  <1>2. PICK u \in Tasks :
           \/ CallService(u) \/ OpenPanel(u)
           \/ ShowForm(u) \/ SubmitForm(u) \/ ClosePanel(u)
           \/ Send(u) \/ CloudActs(u) \/ Progress(u)
    BY DEF Next, vars, Reload
  <1>3. ASSUME NEW r, Set(u, r), u # t PROVE FALSE
    BY <1>1, <1>3 DEF Set
  <1>4. ASSUME NEW r, Set(t, r) PROVE r.locks # task[t].locks
    BY <1>1, <1>4 DEF Set
  <1>5. ~(CallService(u) \/ OpenPanel(u) \/ ShowForm(u) \/ SubmitForm(u) \/ ClosePanel(u))
    <2>1. u = t => ~(CallService(u) \/ OpenPanel(u) \/ ShowForm(u) \/ SubmitForm(u)
                     \/ ClosePanel(u))
      BY IdleFormed DEF Busy, CallService, OpenPanel, ShowForm, SubmitForm, ClosePanel
    <2>2. ASSUME NEW r, StartRequest(u, r) PROVE Set(u, Begun(r))
      BY <2>2 DEF StartRequest
    <2>3. CASE u # t
      BY <1>3, <2>2, <2>3 DEF CallService, OpenPanel, ShowForm, SubmitForm, ClosePanel
    <2> QED BY <2>1, <2>3
  <1>6. u = t
    <2>1. Send(u) \/ CloudActs(u) => \E r : Set(u, r)
      BY DEF Send, CloudActs, CloudCarriesOut, CloudRefuses
    <2>2. FetchAgain(u) \/ StoreValue(u) \/ NothingMore(u) \/ Raises(u) \/ KeysListed(u)
          \/ ListFails(u) => \E r : Set(u, r)
      BY DEF FetchAgain, StoreValue, NothingMore, Raises, KeysListed, ListFails
    <2>3. FindExpired(u) \/ DeletedExpired(u) => \E r : Set(u, r)
      BY DEF FindExpired, DeletedExpired
    <2>4. PinsListed(u) => \E r : Set(u, r)
      BY DEF PinsListed, Set
    <2> QED BY <1>2, <1>3, <1>5, <2>1, <2>2, <2>3, <2>4 DEF Progress
  <1>7. ~Send(t)
    BY <1>1, <1>4 DEF Send, Task
  <1>8. ~CloudActs(t)
    <2>1. ASSUME NEW reply,
                 Set(t, [task[t] EXCEPT !.stage = "answered", !.reply = reply])
          PROVE  FALSE
      <3>1. [task[t] EXCEPT !.stage = "answered", !.reply = reply].locks = task[t].locks
        BY <1>1 DEF Task
      <3> QED BY <1>4, <2>1, <3>1
    <2> QED BY <2>1 DEF CloudActs, CloudCarriesOut, CloudRefuses
  <1>9. ~FetchAgain(t)
    BY <1>4, RefetchIs DEF FetchAgain, Busy
  <1>10. ~DeletedExpired(t)
    <2>1. ASSUME NEW p, Set(t, [task[t] EXCEPT !.stage = "call", !.id = p, !.reply = "none",
                                               !.expired = @ \ {p}])
          PROVE  FALSE
      <3>1. [task[t] EXCEPT !.stage = "call", !.id = p, !.reply = "none",
                            !.expired = @ \ {p}].locks = task[t].locks
        BY <1>1 DEF Task
      <3> QED BY <1>4, <2>1, <3>1
    <2> QED BY <1>4, <2>1, RefetchIs DEF DeletedExpired, Busy
  <1>11. FindExpired(t) => Expired(Lock(t)) = {}
    <2>1. ASSUME NEW p, NEW e, Set(t, [task[t] EXCEPT !.stage = "call", !.id = p,
                                                      !.expired = e])
          PROVE  FALSE
      <3>1. [task[t] EXCEPT !.stage = "call", !.id = p, !.expired = e].locks = task[t].locks
        BY <1>1 DEF Task
      <3> QED BY <1>4, <2>1, <3>1
    <2> QED BY <2>1 DEF FindExpired
  <1>12. ~PinsListed(t)
    <2>1. ASSUME NEW c, Set(t, [task[t] EXCEPT !.stage = "keys", !.copy = c]) PROVE FALSE
      <3>1. [task[t] EXCEPT !.stage = "keys", !.copy = c].locks = task[t].locks
        BY <1>1 DEF Task
      <3> QED BY <1>4, <2>1, <3>1
    <2> QED BY <2>1 DEF PinsListed, Set
  <1>13. ~Raises(t) /\ ~ListFails(t)
    BY DEF Raises, ListFails
  <1> QED BY <1>2, <1>5, <1>6, <1>7, <1>8, <1>9, <1>10, <1>11, <1>12, <1>13 DEF Progress

LEMMA CleanupStep ==
    ASSUME LoneState, [Next]_vars, ~disturbed', NEW t \in Tasks, Cleans(t)
    PROVE  /\ \A p \in Pins : cloud'.pins[p] # cloud.pins[p] => cloud.pins[p].is = "passed"
           /\ task'[t].locks # task[t].locks => Expired(Lock(t)) = {}
  <1>1. TasksInv /\ KnownInv /\ LoneInv
    BY DisturbedStays DEF LoneState, GatewayInv, SerialInv
  <1>2. Busy(t) /\ task[t].handler.after = "refetch"
    BY <1>1, ServiceKinds DEF KnownInv, Known, Cleans, Busy, Quiet
  <1>3. PICK l : l = Lock(t)
    OBVIOUS
  <1>4. Working = {t} /\ Cleaning(task[t]) /\ l = Head(task[t].locks)
    BY <1>1, <1>2, <1>3, LoneTask DEF InProgress, Cleans
  <1>5. ASSUME NEW p \in Pins, cloud'.pins[p] # cloud.pins[p]
        PROVE  cloud.pins[p].is = "passed"
    <2>1. PICK u \in Tasks : CloudCarriesOut(u)
      BY <1>5, CloudChanges
    <2>2. u = t
      BY <1>4, <2>1 DEF CloudCarriesOut, Working, Busy
    <2>3. task[t].stage = "sent" /\ cloud' \in Carried(Request(t), l, task[t].id)
          /\ Request(t) = "delete_pin"
      BY <1>3, <2>1, <2>2 DEF CloudCarriesOut, Request
    <2>4. p = task[t].id
      BY <1>1, <1>3, <1>5, <2>3, CarriedOutLone
    <2>5. p \in Expired(l)
      BY <1>4, <2>3, <2>4 DEF Cleaning
    <2>6. cloud.pins \in [Pins -> {None} \cup [lock : Locks, is : Period]]
      BY <1>1 DEF TasksInv, TypeOK, Cloud
    <2> QED BY <2>5, <2>6 DEF Expired, PinsOf, Listed
  <1>6. ASSUME task'[t].locks # task[t].locks PROVE Expired(l) = {}
    <2>1. \/ StoreValue(t) \/ NothingMore(t) \/ KeysListed(t)
          \/ FindExpired(t) /\ Expired(Lock(t)) = {}
      BY <1>1, <1>2, <1>6, LocksChange
    <2>2. ~StoreValue(t) /\ ~NothingMore(t)
      BY <1>2 DEF StoreValue, NothingMore
    <2>3. KeysListed(t) => Expired(l) = {}
      BY <1>4 DEF KeysListed, Cleaning
    <2> QED BY <1>3, <2>1, <2>2, <2>3
  <1> QED BY <1>3, <1>5, <1>6

\* What was changed through Home Assistant is shown when the call is over
\* (services.py, config_flow.py): with one task at work at a time, no failed call,
\* eKeys changed through their own lock and no panel from before a reload, every
\* lock's codes, keys and settings are those of the cloud, or were never fetched.
THEOREM ChangeIsShown == Spec => []SerialChangeIsShown
  <1>1. LoneState => SerialChangeIsShown
    BY DEF LoneState, SerialInv, LoneInv, SerialChangeIsShown, Matches
  <1> QED BY <1>1, InitLone, LoneStateStep, PTL DEF Spec

\* A cleanup (services.py) deletes no code that lasts, and leaves a lock only when
\* no code that has passed is left on it, whatever the selection.
THEOREM CleanupIsExact == Spec => SerialCleanupIsExact
  <1>1. LoneState /\ [Next]_vars =>
          [\A t \in Tasks :
             Cleans(t) /\ ~disturbed' =>
                 /\ \A p \in Pins :
                       cloud'.pins[p] # cloud.pins[p] => cloud.pins[p].is = "passed"
                 /\ task'[t].locks # task[t].locks => Expired(Lock(t)) = {}]_vars
    BY CleanupStep
  <1> QED BY <1>1, InitLone, LoneStateStep, PTL DEF Spec, SerialCleanupIsExact

=============================================================================
