----------------------------- MODULE BleSession -----------------------------
(***************************************************************************)
(* A Bluetooth session with a lock (ble.py): async_command_session, which  *)
(* connects, subscribes, lets callers execute a command each, and closes,  *)
(* and LockSession, which serialises the commands and hands the first      *)
(* frame that arrives to the command that is pending.  The lock's bytes    *)
(* arrive in notifications of any sizes.                                   *)
(***************************************************************************)
EXTENDS BleFrames

CONSTANTS
    Callers,    \* tasks that call execute in a session
    Answer,     \* the kind of frame that answers each one's command
    NoCaller,
    MaxReports, \* bound: frames the lock sends unasked
    MaxFaults,  \* bound: failed calls and lost links
    MaxCancels  \* bound: times the session's task is cancelled

\* No answer is taken for the lack of one.
ASSUME CallerAssumption ==
    Answer \in [Callers -> Kind] /\ NoCaller \notin Callers /\ "none" \notin Kind
ASSUME BoundAssumption == {MaxReports, MaxFaults, MaxCancels} \subseteq Nat

VARIABLES
    stage,      \* where async_command_session is
    link,       \* external: the connection, as the lock and the adapter have it
    subscribed, \* are notifications handed to the session
    buffer,     \* _assembler._buffer
    turn,       \* who holds _turn
    pending,    \* _pending: whose future, and the frame it was resolved with
    callers,    \* the execute calls
    asked,      \* external: commands that the lock has and did not answer yet
    air,        \* external: bytes on their way from the lock
    reports, faults, cancels, \* what is used of the three bounds
    torn,       \* history: did what the buffer was fed begin inside a frame
    missed,     \* history: frames since then that the assembler did not give out
    sent,       \* history: kinds of frames sent since this session was opened
    disturbed,  \* history: has it seen a report or a command that timed out
    abandoned   \* history: was the last connection's closing cancelled, or refused

lockVars == <<asked, air>>
boundVars == <<reports, faults, cancels>>
streamVars == <<torn, missed>>
historyVars == <<streamVars, sent, disturbed, abandoned>>
vars == <<stage, link, subscribed, buffer, turn, pending, callers, lockVars,
          boundVars, historyVars>>

-----------------------------------------------------------------------------
(* Values *)

Stage == {"idle", "connecting", "subscribing", "body", "stopping", "disconnecting"}

Outcome == Kind \cup {"none", "garbled", "silent", "failed", "cancelled"}
Caller == [stage : {"ready", "writing", "waiting", "over"}, outcome : Outcome]
NewCaller == [stage |-> "ready", outcome |-> "none"]

Nothing == [of |-> NoCaller, raw |-> <<>>]

Init ==
    /\ stage = "idle"
    /\ link = "closed"
    /\ subscribed = FALSE
    /\ buffer = <<>>
    /\ turn = NoCaller
    /\ pending = Nothing
    /\ callers = [c \in Callers |-> NewCaller]
    /\ asked = {}
    /\ air = <<>>
    /\ reports = 0 /\ faults = 0 /\ cancels = 0
    /\ torn = FALSE
    /\ missed = 0
    /\ sent = {}
    /\ disturbed = FALSE
    /\ abandoned = FALSE

Fault == faults < MaxFaults /\ faults' = faults + 1

-----------------------------------------------------------------------------
(* async_command_session *)

\* A new session object, and a connection attempt with its timeout, which
\* fails while the lock still has an earlier connection.
Open ==
    /\ stage = "idle"
    /\ stage' = "connecting"
    /\ subscribed' = FALSE
    /\ buffer' = <<>>
    /\ torn' = FALSE /\ missed' = 0
    /\ callers' = [c \in Callers |-> NewCaller]
    /\ sent' = {}
    /\ disturbed' = FALSE
    /\ UNCHANGED <<link, turn, pending, lockVars, boundVars, abandoned>>

Connect ==
    /\ stage = "connecting"
    /\ \/ /\ link = "closed" /\ link' = "open"
          /\ stage' = "subscribing" /\ abandoned' = FALSE /\ UNCHANGED faults
       \/ /\ stage' = "idle" /\ UNCHANGED <<link, abandoned>>
          /\ IF link = "closed" THEN Fault ELSE UNCHANGED faults
    /\ UNCHANGED <<subscribed, buffer, turn, pending, callers, lockVars, reports,
                   cancels, streamVars, sent, disturbed>>

MidFrame == air # <<>> /\ Head(air)[2] # 1

\* From here on the stream of bytes is watched.
Watch == torn' = MidFrame /\ missed' = 0

\* Mutant: it fails outside the try.
StartOutsideTry ==
    /\ stage = "subscribing"
    /\ \/ /\ link = "open" /\ stage' = "body" /\ subscribed' = TRUE
          /\ Watch /\ UNCHANGED faults
       \/ /\ stage' = "idle" /\ UNCHANGED <<subscribed, streamVars>>
          /\ IF link = "open" THEN Fault ELSE UNCHANGED faults
    /\ UNCHANGED <<link, buffer, turn, pending, callers, lockVars, reports, cancels,
                   sent, disturbed, abandoned>>

\* start: subscribed, or it raises and the session is closed.
Start ==
    /\ stage = "subscribing"
    /\ \/ /\ link = "open" /\ stage' = "body" /\ subscribed' = TRUE
          /\ Watch /\ UNCHANGED faults
       \/ /\ stage' = "stopping" /\ UNCHANGED <<subscribed, streamVars>>
          /\ IF link = "open" THEN Fault ELSE UNCHANGED faults
    /\ UNCHANGED <<link, buffer, turn, pending, callers, lockVars, reports, cancels,
                   sent, disturbed, abandoned>>

EndBody ==
    /\ stage = "body"
    /\ \A c \in Callers : callers[c].stage = "over"
    /\ stage' = "stopping"
    /\ UNCHANGED <<link, subscribed, buffer, turn, pending, callers, lockVars,
                   boundVars, historyVars>>

\* stop: whatever stop_notify raises of a BleakError, it goes on.
Stop ==
    /\ stage = "stopping"
    /\ stage' = "disconnecting"
    /\ \/ subscribed' = FALSE /\ UNCHANGED faults
       \/ Fault /\ UNCHANGED subscribed
    /\ UNCHANGED <<link, buffer, turn, pending, callers, lockVars, reports, cancels,
                   historyVars>>

Hangup == link' = "closed" /\ subscribed' = FALSE /\ air' = <<>> /\ asked' = {}

\* async_disconnect: it swallows a BleakError too, and the connection stays
\* as it is.
Disconnect ==
    /\ stage = "disconnecting"
    /\ stage' = "idle"
    /\ \/ Hangup /\ UNCHANGED <<faults, abandoned>>
       \/ Fault /\ abandoned' = TRUE /\ UNCHANGED <<link, subscribed, lockVars>>
    /\ UNCHANGED <<buffer, turn, pending, callers, reports, cancels, streamVars, sent,
                   disturbed>>

\* execute's finally.
Release == turn' = NoCaller /\ pending' = Nothing

\* The task is cancelled, as when its entry is unloaded.  In the body every
\* call is, and the session is closed; a cancelled stop_notify is no BleakError,
\* and leaves the connection as it is.
CancelBody ==
    /\ stage \in {"subscribing", "body"}
    /\ stage' = "stopping"
    /\ callers' = [c \in Callers |->
                     IF callers[c].stage = "over" THEN callers[c]
                     ELSE [stage |-> "over", outcome |-> "cancelled"]]
    /\ Release
    /\ UNCHANGED <<link, subscribed, abandoned>>

CancelClosing ==
    /\ stage \in {"stopping", "disconnecting"}
    /\ stage' = "idle"
    /\ abandoned' = TRUE
    /\ UNCHANGED <<link, subscribed, turn, pending, callers>>

CancelConnecting ==
    /\ stage = "connecting"
    /\ stage' = "idle"
    /\ UNCHANGED <<link, subscribed, turn, pending, callers, abandoned>>

Cancel ==
    /\ cancels < MaxCancels /\ cancels' = cancels + 1
    /\ CancelConnecting \/ CancelBody \/ CancelClosing
    /\ UNCHANGED <<buffer, lockVars, reports, faults, streamVars, sent,
                   disturbed>>

-----------------------------------------------------------------------------
(* LockSession.execute *)

\* Mutant: commands are not serialised.
TakeTurnAtOnce(c) ==
    /\ stage = "body" /\ callers[c].stage = "ready"
    /\ turn' = c
    /\ buffer' = <<>>
    /\ pending' = [of |-> c, raw |-> <<>>]
    /\ callers' = [callers EXCEPT ![c].stage = "writing"]
    /\ Watch
    /\ UNCHANGED <<stage, link, subscribed, lockVars, boundVars, sent, disturbed,
                   abandoned>>

\* async with self._turn; what the assembler has of a frame is dropped.
TakeTurn(c) ==
    /\ stage = "body" /\ callers[c].stage = "ready"
    /\ turn = NoCaller
    /\ turn' = c
    /\ buffer' = <<>>
    /\ pending' = [of |-> c, raw |-> <<>>]
    /\ callers' = [callers EXCEPT ![c].stage = "writing"]
    /\ Watch
    /\ UNCHANGED <<stage, link, subscribed, lockVars, boundVars, sent, disturbed,
                   abandoned>>

Leave(c, outcome) ==
    callers' = [callers EXCEPT ![c] = [stage |-> "over", outcome |-> outcome]]

\* Mutant: a failed write skips the clean-up.
WriteWithoutFinally(c) ==
    /\ callers[c].stage = "writing"
    /\ \/ /\ link = "open" /\ asked' = asked \cup {c}
          /\ callers' = [callers EXCEPT ![c].stage = "waiting"]
          /\ UNCHANGED <<turn, pending, faults>>
       \/ /\ Leave(c, "failed") /\ UNCHANGED <<turn, pending, asked>>
          /\ IF link = "open" THEN Fault ELSE UNCHANGED faults
    /\ UNCHANGED <<stage, link, subscribed, buffer, air, reports, cancels, historyVars>>

Write(c) ==
    /\ callers[c].stage = "writing"
    /\ \/ /\ link = "open" /\ asked' = asked \cup {c}
          /\ callers' = [callers EXCEPT ![c].stage = "waiting"]
          /\ UNCHANGED <<turn, pending, faults>>
       \/ /\ Leave(c, "failed") /\ Release /\ UNCHANGED asked
          /\ IF link = "open" THEN Fault ELSE UNCHANGED faults
    /\ UNCHANGED <<stage, link, subscribed, buffer, air, reports, cancels, historyVars>>

\* The frame is decoded after the turn is released.
Receive(c) ==
    /\ callers[c].stage = "waiting" /\ pending.raw # <<>>
    /\ Release
    /\ Leave(c, IF Decode(pending.raw) = {} THEN "garbled"
                ELSE CHOOSE k \in Decode(pending.raw) : TRUE)
    /\ UNCHANGED <<stage, link, subscribed, buffer, lockVars, boundVars, historyVars>>

\* RESPONSE_TIMEOUT, which also wins if it passes together with the answer.
TimeOut(c) ==
    /\ callers[c].stage = "waiting"
    /\ Release
    /\ Leave(c, "silent")
    /\ disturbed' = TRUE
    /\ UNCHANGED <<stage, link, subscribed, buffer, lockVars, boundVars, streamVars,
                   sent, abandoned>>

-----------------------------------------------------------------------------
(* The lock and the link *)

Send(k) == air' = air \o Encode(k) /\ sent' = sent \cup {k}

LockAnswers(c) ==
    /\ c \in asked
    /\ asked' = asked \ {c}
    /\ Send(Answer[c])
    /\ UNCHANGED <<stage, link, subscribed, buffer, turn, pending, callers, boundVars,
                   streamVars, disturbed, abandoned>>

\* A frame that answers nothing, as when somebody turns the lock.
LockReports ==
    /\ link = "open"
    /\ reports < MaxReports /\ reports' = reports + 1
    /\ \E k \in Kind : Send(k)
    /\ disturbed' = TRUE
    /\ UNCHANGED <<stage, link, subscribed, buffer, turn, pending, callers, asked,
                   faults, cancels, streamVars, abandoned>>

\* Mutant: what is being assembled is forgotten with each notification.
AssembleAfresh(chunk) == Feed(<<>>, chunk)

Assemble(chunk) == Feed(buffer, chunk)

\* The first frame resolves the pending future; other frames are dropped.
Resolve(frames) ==
    IF pending.of = NoCaller \/ pending.raw # <<>> \/ frames = <<>> THEN pending
    ELSE [pending EXCEPT !.raw = Head(frames)]

\* Frames that end in the chunk, and those of them that come out.
Ends(chunk) == Cardinality({i \in 1..Len(chunk) : chunk[i][2] = Size(chunk[i][1])})
Whole(frames) == Cardinality({i \in 1..Len(frames) : Decode(frames[i]) # {}})

\* Notifications are lost while nobody is subscribed.
Notify ==
    /\ link = "open"
    /\ \E n \in 1..Len(air) :
         LET chunk == SubSeq(air, 1, n)
             fed == Assemble(chunk)
         IN /\ air' = SubSeq(air, n + 1, Len(air))
            /\ IF subscribed
               THEN /\ buffer' = fed.rest
                    /\ pending' = Resolve(fed.frames)
                    /\ missed' = (missed + Ends(chunk)) - Whole(fed.frames)
               ELSE UNCHANGED <<buffer, pending, missed>>
    /\ UNCHANGED <<stage, link, subscribed, turn, callers, asked, boundVars, torn,
                   sent, disturbed, abandoned>>

\* Nobody is told: calls fail, and what waits is timed out.
LinkDrops ==
    /\ link = "open"
    /\ Fault
    /\ Hangup
    /\ UNCHANGED <<stage, buffer, turn, pending, callers, reports, cancels, historyVars>>

-----------------------------------------------------------------------------
(* Specification *)

Execute(c) == TakeTurn(c) \/ Write(c) \/ Receive(c) \/ TimeOut(c)

Session == Connect \/ Start \/ EndBody \/ Stop \/ Disconnect

Next ==
    \/ Open \/ Session \/ Cancel
    \/ \E c \in Callers : Execute(c) \/ LockAnswers(c)
    \/ LockReports \/ Notify \/ LinkDrops

Spec == Init /\ [][Next]_vars

\* Calls to the adapter return or raise, and the timer of a wait runs out.
\* Nothing is asked of the lock or of the link.
Fairness ==
    /\ WF_vars(Session)
    /\ \A c \in Callers : WF_vars(Execute(c))

FairSpec == Spec /\ Fairness

-----------------------------------------------------------------------------
(* Correctness *)

\* With the bound that feed relies on instead of a cap on its buffer.
TypeOK ==
    /\ stage \in Stage
    /\ link \in {"closed", "open"}
    /\ subscribed \in BOOLEAN
    /\ buffer \in Seq(Byte) /\ Len(buffer) < MaxFrameLength
    /\ turn \in Callers \cup {NoCaller}
    /\ pending \in [of : Callers \cup {NoCaller}, raw : Seq(Byte)]
    /\ callers \in [Callers -> Caller]
    /\ asked \subseteq Callers
    /\ air \in Seq(Byte)
    /\ reports \in Nat /\ faults \in Nat /\ cancels \in Nat
    /\ torn \in BOOLEAN
    /\ missed \in Nat
    /\ sent \subseteq Kind
    /\ disturbed \in BOOLEAN
    /\ abandoned \in BOOLEAN

\* However the bytes are cut into notifications, and whatever they are, a
\* magic within the data too, an assembler that began between two frames gives
\* out every frame and keeps just the beginning of the next one.
InStep ==
    ~torn =>
      /\ missed = 0
      /\ \E k \in Kind : \E n \in 0..(Size(k) - 1) : buffer = SubSeq(Encode(k), 1, n)

\* One that began inside a frame loses that frame only ("starting mid-frame
\* costs one frame"), unless data that has a magic in it was sent.
PlainKind == {k \in Kind : \A i \in 2..Size(k) : ~HasMagic(Encode(k), i)}
PlainStartCostsOneFrame == sent \subseteq PlainKind => missed <= 1

\* Each command gets its own answer - and no other's, none that is garbled -
\* as long as the lock sends nothing unasked and answers in time.
AnswerIsOwn(c) ==
    callers[c].outcome \in {Answer[c], "none", "silent", "failed", "cancelled"}
SerialAnswerIsOwn == ~disturbed => \A c \in Callers : AnswerIsOwn(c)

\* A session that is over holds no turn, and has closed its connection ("always
\* disconnect after"), unless it was cancelled while it did, or its disconnect
\* raised: nothing tries again.
SessionCloses ==
    stage = "idle" => turn = NoCaller /\ (~abandoned => link = "closed")

\* The session implements the exchange of commands that it promises: all the
\* code about turns, futures and frames comes to that.
Exchange == INSTANCE CommandExchange WITH
    open <- stage # "idle",
    out <- turn,
    result <- [c \in Callers |-> callers[c].outcome]
ExchangesCommands == Exchange!Spec

\* Whatever the lock and the link do, a session that was opened ends.
SessionEnds == stage # "idle" ~> stage = "idle"

=============================================================================
