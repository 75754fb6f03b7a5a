--------------------------- MODULE McpServerProofs ---------------------------
(* Two invariants of McpServer, for every table of sessions and calls:     *)
(* no stream task runs unattended, and a sleeping dk_watch can be reached. *)
EXTENDS McpServer, TLAPS

(* An agent makes one dk_watch at a time; with two on one session the      *)
(* second theorem does not hold.                                           *)
OneWatchEach == \A v, w \in Watch : SessionOf[v] = SessionOf[w] => v = w

LocalTypes ==
  /\ pc \in [Call -> Stage]
  /\ stream \in [Starter -> {"none", "spawned", "open", "finished", "aborted"}]
  /\ DOMAIN tasks = Session

-----------------------------------------------------------------------------

(* The types this first proof needs, at the start. *)
LEMMA InitTypes == Init => LocalTypes
BY DEF Init, LocalTypes, Stage

(* An aborted task runs no more, and no other task starts to run. *)
LEMMA AbortEffect ==
  ASSUME NEW ts, Abort(ts), LocalTypes
  PROVE  /\ stream' \in [Starter -> {"none", "spawned", "open", "finished", "aborted"}]
         /\ \A i \in Starter : Running(i)' => Running(i) /\ i \notin ts
BY DEF Abort, LocalTypes, Running

(* No stream runs unattended: of every table of sessions and calls, the
   running stream is the stored one, or about to be stored. *)
THEOREM Attended == Spec => []NoStrayStream
<1> DEFINE IInv == LocalTypes /\ NoStrayStream
<1>1. Init => IInv
  BY CallsAssumption DEF Init, LocalTypes, Stage, NoStrayStream, Running, Starter
<1>2. IInv /\ [Next]_vars => IInv'
  <2> SUFFICES ASSUME IInv, [Next]_vars PROVE IInv'
    OBVIOUS
  <2> USE CallsAssumption DEF Starter, Call
  <2>1. ASSUME NEW c \in Starter, Install(c) PROVE IInv'
    BY <2>1, AbortEffect DEF Install, Goto, After, LocalTypes, NoStrayStream, Stage
  <2>2. ASSUME NEW c \in Starter, Park(c) PROVE IInv'
    BY <2>2, AbortEffect DEF Park, Goto, LocalTypes, NoStrayStream, Stage
  <2>3. ASSUME NEW c \in Starter, GiveUp(c) PROVE IInv'
    BY <2>3, AbortEffect DEF GiveUp, Goto, After, LocalTypes, NoStrayStream, Stage
  <2>4. ASSUME NEW c \in Connect \union Close, CleanTask(c) PROVE IInv'
    BY <2>4, AbortEffect DEF CleanTask, Goto, LocalTypes, NoStrayStream, Stage
  <2>5. ASSUME NEW c \in Connect, DropClone(c) PROVE IInv'
    <3>1. CASE tasksLock = None
      BY <2>5, <3>1, AbortEffect
         DEF DropClone, Goto, LocalTypes, NoStrayStream, Stage
    <3>2. CASE tasksLock # None
      BY <2>5, <3>2 DEF DropClone, Goto, LocalTypes, NoStrayStream, Stage, Running
    <3> QED BY <3>1, <3>2
  <2>6. ASSUME NEW c \in Starter, StoreFilter(c) PROVE IInv'
    BY <2>6 DEF StoreFilter, Goto, LocalTypes, NoStrayStream, Stage, Running, mapVars
  <2>7. ASSUME NEW c \in Starter, Check(c) \/ CancelOld(c) \/ GetClient(c) \/ StoreFlag(c)
        PROVE IInv'
    BY <2>7 DEF Check, CancelOld, GetClient, StoreFlag, After, Goto, LocalTypes,
                NoStrayStream, Stage, Running, mapVars, streamVars
  <2>8. ASSUME NEW c \in Connect, ConnectStep(c), ~DropClone(c) PROVE IInv'
    BY <2>8 DEF ConnectStep, ConnectBegins, ConnectClient, ConnectRpc, ConnectStores,
                ConnectEvicts, ConnectAnswers, Goto, LocalTypes, NoStrayStream, Stage,
                Running, mapVars, streamVars
  <2>9. ASSUME NEW c \in Watch, WatchBegins(c) \/ WatchStep(c) PROVE IInv'
    BY <2>9 DEF WatchBegins, WatchStep, TakeNotify, DrainEvents, DrainOverflow,
                FreshNotify, Wake, TimeOut, Goto, LocalTypes, NoStrayStream, Stage,
                Running, mapVars, streamVars
  <2>10. ASSUME NEW c \in Close, CloseRpc(c) \/ CloseStep(c) PROVE IInv'
    BY <2>10 DEF CloseRpc, CloseStep, CloseDrains, CloseRemoves, Goto, LocalTypes,
                 NoStrayStream, Stage, Running, mapVars, streamVars
  <2>11. ASSUME NEW c \in Connect \union Close, CleanFlag(c) \/ CleanMaps(c) PROVE IInv'
    BY <2>11 DEF CleanFlag, CleanMaps, Goto, LocalTypes, NoStrayStream, Stage, Running,
                 mapVars, streamVars
  <2>12. ASSUME NEW i \in Starter, StreamStep(i) \/ Break(i) PROVE IInv'
    BY <2>12 DEF StreamStep, Open, Forward, Receive, Deliver, FlagOverflow, NotifyWatch,
                 Break, LocalTypes, NoStrayStream, Running, mapVars
  <2>13. CASE Publish \/ (\E s \in Session : DrainNotifications(s)) \/ UNCHANGED vars
    BY <2>13 DEF Publish, DrainNotifications, LocalTypes, NoStrayStream, Running, mapVars,
                 streamVars, vars
  <2> QED
    BY <2>1, <2>2, <2>3, <2>4, <2>5, <2>6, <2>7, <2>8, <2>9, <2>10, <2>11, <2>12, <2>13
    DEF Next, ConnectStep, StartStep, CleanStep
<1>3. IInv => NoStrayStream
  OBVIOUS
<1> QED BY <1>1, <1>2, <1>3, PTL DEF Spec
-----------------------------------------------------------------------------
(* A call that has cloned its Notify and not been woken holds the stored    *)
(* one, or, while it still drains, one that has a permit for it.  A Notify  *)
(* belongs to one session.                                                  *)
Signalled(w) ==
  /\ w \notin woken /\ pc[w] \in {"events", "overflow", "wait"}
  => notify[SessionOf[w]] = mine[w] \/ (pc[w] # "wait" /\ mine[w] \in permits)

NotifyTypes ==
  /\ pc \in [Call -> Stage]
  /\ notify \in [Session -> Notify \union {None}]
  /\ mine \in [Watch -> Notify \union {None}]

OwnNotify ==
  /\ \A s \in Session : notify[s] # None => SessionOf[notify[s][1]] = s
  /\ \A w \in Watch : mine[w] # None => SessionOf[mine[w][1]] = SessionOf[w]
  /\ \A w \in Watch : pc[w] \in {"events", "overflow", "wait"} => mine[w] # None

Sleepers == NotifyTypes /\ OwnNotify /\ \A w \in Watch : Signalled(w)

notifyFrame == <<notify, permits, mine, woken>>

(* Steps that leave the notifications alone, and move no dk_watch to or     *)
(* between the stages that matter.                                          *)
LEMMA SleepersFrame ==
  ASSUME Sleepers, UNCHANGED notifyFrame, pc' \in [Call -> Stage],
         \A w \in Watch : pc'[w] = pc[w] \/ pc'[w] \notin {"events", "overflow", "wait"}
  PROVE  Sleepers'
BY DEF Sleepers, NotifyTypes, OwnNotify, Signalled, notifyFrame

(* Waking everybody and forgetting the Notify of the sessions ss.           *)
LEMMA SleepersForgotten ==
  ASSUME OneWatchEach, Sleepers, NEW ss \in SUBSET Session, NotifyAll(ss),
         notify' = [s \in Session |-> IF s \in ss THEN None ELSE notify[s]],
         mine' = mine, pc' \in [Call -> Stage],
         \A w \in Watch : pc'[w] = pc[w]
  PROVE  Sleepers'
<1> USE CallsAssumption DEF Call, Starter
<1>1. NotifyTypes' /\ OwnNotify'
  BY DEF Sleepers, NotifyTypes, OwnNotify
<1>2. ASSUME NEW w \in Watch PROVE Signalled(w)'
  <2> SUFFICES ASSUME w \notin woken', pc[w] \in {"events", "overflow", "wait"}
               PROVE  notify'[SessionOf[w]] = mine[w]
                        \/ (pc[w] # "wait" /\ mine[w] \in permits')
    BY DEF Signalled
  <2>0. w \notin woken /\ SessionOf[w] \in Session /\ permits \subseteq permits'
    BY DEF NotifyAll
  <2>1. notify[SessionOf[w]] = mine[w] \/ (pc[w] # "wait" /\ mine[w] \in permits)
    BY <2>0 DEF Sleepers, Signalled
  <2>2. CASE SessionOf[w] \notin ss
    BY <2>0, <2>1, <2>2
  <2>3. CASE SessionOf[w] \in ss /\ notify[SessionOf[w]] = mine[w]
    <3> DEFINE g == mine[w]
    <3>1. g # None /\ g \in {notify[s] : s \in ss} \ {None}
      BY <2>3 DEF Sleepers, OwnNotify
    <3>2. \A v \in Wakers(g) : v = w
      BY <3>1 DEF Wakers, OneWatchEach, Sleepers, OwnNotify
    <3>3. w \notin Wakers(g)
      BY <3>1, <2>0 DEF NotifyAll
    <3>4. pc[w] # "wait"
      BY <3>3, <2>0 DEF Wakers
    <3>5. g \in permits'
      BY <3>1, <3>2, <3>3 DEF NotifyAll
    <3> QED BY <3>4, <3>5
  <2>4. CASE pc[w] # "wait" /\ mine[w] \in permits
    BY <2>0, <2>4
  <2> QED BY <2>1, <2>2, <2>3, <2>4
<1> QED BY <1>1, <1>2 DEF Sleepers

(* The invariant holds of every behaviour. *)
LEMMA SleepersStay == OneWatchEach => (Spec => []Sleepers)
<1> SUFFICES ASSUME OneWatchEach PROVE Spec => []Sleepers
  OBVIOUS
<1>1. Init => Sleepers
  BY CallsAssumption DEF Init, Sleepers, NotifyTypes, OwnNotify, Signalled, Stage, Call
<1>2. Sleepers /\ [Next]_vars => Sleepers'
  <2> SUFFICES ASSUME Sleepers, [Next]_vars PROVE Sleepers'
    OBVIOUS
  <2> USE CallsAssumption DEF Starter, Call
  <2>0. pc \in [Call -> Stage]
    BY DEF Sleepers, NotifyTypes
  <2>1. ASSUME NEW c \in Connect, DropClone(c) PROVE Sleepers'
    <3>1. notify' = [s \in Session |-> IF s \in Session THEN None ELSE notify[s]]
      BY <2>1 DEF DropClone
    <3>2. pc' \in [Call -> Stage] /\ \A w \in Watch : pc'[w] = pc[w]
      BY <2>0, <2>1 DEF DropClone, Goto, Stage
    <3>3. NotifyAll(Session) /\ mine' = mine
      BY <2>1 DEF DropClone
    <3> HIDE DEF Starter, Call
    <3> QED BY <3>1, <3>2, <3>3, SleepersForgotten
  <2>2. ASSUME NEW c \in Connect \union Close, CleanMaps(c) PROVE Sleepers'
    <3> DEFINE ss == {Cleaned(c)} \intersect Session
    <3>1. pc' \in [Call -> Stage] /\ \A w \in Watch : pc'[w] = pc[w]
      BY <2>0, <2>2 DEF CleanMaps, Goto, Stage
    <3>2. CASE Cleaned(c) \in Session
      <4>1. notify' = [s \in Session |-> IF s \in ss THEN None ELSE notify[s]]
        BY <2>2, <3>2 DEF CleanMaps, Sleepers, NotifyTypes
      <4>0. ss = {Cleaned(c)}
        BY <3>2
      <4>2. NotifyAll(ss) /\ mine' = mine
        <5> HIDE DEF ss
        <5>1. NotifyAll({Cleaned(c)}) /\ mine' = mine
          BY <2>2 DEF CleanMaps
        <5> QED BY <5>1, <4>0
      <4> HIDE DEF Starter, Call, ss
      <4>3. ss \in SUBSET Session
        BY DEF ss
      <4> QED BY <3>1, <4>1, <4>2, <4>3, SleepersForgotten
    <3>3. CASE Cleaned(c) \notin Session
      <4>1. notify' = notify /\ mine' = mine
        BY <2>2, <3>3 DEF CleanMaps, Sleepers, NotifyTypes
      <4>2. permits \subseteq permits' /\ woken \subseteq woken'
        BY <2>2 DEF CleanMaps, NotifyAll
      <4> QED BY <3>1, <4>1, <4>2 DEF Sleepers, NotifyTypes, OwnNotify, Signalled
    <3> QED BY <3>2, <3>3
  <2>3. ASSUME NEW c \in Watch, TakeNotify(c) PROVE Sleepers'
    <3>1. \A w \in Watch \ {c} : SessionOf[w] # SessionOf[c]
      BY DEF OneWatchEach
    <3> QED BY <2>0, <2>3, <3>1 DEF TakeNotify, Goto, Sleepers, NotifyTypes, OwnNotify,
               Signalled, Stage, Notify
  <2>4. ASSUME NEW c \in Watch, DrainOverflow(c) PROVE Sleepers'
    <3>1. \A w \in Watch \ {c} : SessionOf[w] # SessionOf[c]
      BY DEF OneWatchEach
    <3>2. /\ pc[c] = "overflow" /\ mine' = mine /\ notify' = notify
          /\ pc' \in [Call -> Stage]
          /\ \A w \in Watch \ {c} : pc'[w] = pc[w]
          /\ pc'[c] \in {"fresh", "wait", "done"}
          /\ woken \subseteq woken' /\ permits \ {mine[c]} \subseteq permits'
      BY <2>0, <2>4 DEF DrainOverflow, Goto, Stage
    <3>3. pc'[c] = "wait" /\ c \notin woken' => mine[c] \notin permits
      BY <2>0, <2>4 DEF DrainOverflow, Goto
    <3>4. \A w \in Watch \ {c} :
             pc[w] \in {"events", "overflow", "wait"} => mine[w] # mine[c]
      BY <3>1, <3>2 DEF Sleepers, OwnNotify
    <3> QED BY <3>2, <3>3, <3>4 DEF Sleepers, NotifyTypes, OwnNotify, Signalled
  <2>5. ASSUME NEW c \in Watch, FreshNotify(c) PROVE Sleepers'
    <3>1. \A w \in Watch \ {c} : SessionOf[w] # SessionOf[c]
      BY DEF OneWatchEach
    <3> QED BY <2>0, <2>5, <3>1 DEF FreshNotify, Goto, Sleepers, NotifyTypes, OwnNotify,
               Signalled, Stage, Notify
  <2>6. ASSUME NEW c \in Watch, DrainEvents(c) PROVE Sleepers'
    BY <2>0, <2>6 DEF DrainEvents, Goto, Sleepers, NotifyTypes, OwnNotify, Signalled, Stage
  <2>7. ASSUME NEW i \in Starter, NotifyWatch(i) PROVE Sleepers'
    <3>1. /\ notify' = notify /\ mine' = mine /\ pc' = pc
          /\ permits \subseteq permits' /\ woken \subseteq woken'
      BY <2>7 DEF NotifyWatch, NotifyOne
    <3> QED BY <3>1 DEF Sleepers, NotifyTypes, OwnNotify, Signalled
  <2>8. ASSUME UNCHANGED notifyFrame, pc' \in [Call -> Stage],
               \A w \in Watch : pc'[w] = pc[w] \/ pc'[w] \notin {"events", "overflow", "wait"}
        PROVE  Sleepers'
    <3> HIDE DEF Starter, Call
    <3> QED BY <2>8, SleepersFrame
  <2>9. ASSUME NEW c \in Connect, ConnectStep(c), ~DropClone(c) PROVE Sleepers'
    BY <2>0, <2>8, <2>9
    DEF ConnectStep, ConnectBegins, ConnectClient, ConnectRpc, ConnectStores,
        ConnectEvicts, ConnectAnswers, Goto, Stage, notifyVars, notifyFrame
  <2>10. ASSUME NEW c \in Starter, StartStep(c) PROVE Sleepers'
    BY <2>0, <2>8, <2>10
    DEF StartStep, Check, CancelOld, Park, GetClient, GiveUp, StoreFlag, StoreFilter,
        Install, After, Goto, Stage, notifyVars, notifyFrame
  <2>11. ASSUME NEW c \in Watch, WatchBegins(c) \/ Wake(c) \/ TimeOut(c) PROVE Sleepers'
    BY <2>0, <2>8, <2>11
    DEF WatchBegins, Wake, TimeOut, Goto, Stage, notifyVars, notifyFrame
  <2>12. ASSUME NEW c \in Close, CloseRpc(c) \/ CloseStep(c) PROVE Sleepers'
    BY <2>0, <2>8, <2>12
    DEF CloseRpc, CloseStep, CloseDrains, CloseRemoves, Goto, Stage, notifyVars, notifyFrame
  <2>13. ASSUME NEW c \in Connect \union Close, CleanFlag(c) \/ CleanTask(c) PROVE Sleepers'
    BY <2>0, <2>8, <2>13
    DEF CleanFlag, CleanTask, Goto, Stage, notifyVars, notifyFrame
  <2>14. ASSUME NEW i \in Starter, StreamStep(i) \/ Break(i), ~NotifyWatch(i) PROVE Sleepers'
    BY <2>0, <2>8, <2>14
    DEF StreamStep, Open, Forward, Receive, Deliver, FlagOverflow, Break, notifyVars, notifyFrame
  <2>15. CASE Publish \/ (\E s \in Session : DrainNotifications(s)) \/ UNCHANGED vars
    BY <2>0, <2>8, <2>15 DEF Publish, DrainNotifications, vars, notifyVars, notifyFrame
  <2> QED
    BY <2>1, <2>2, <2>3, <2>4, <2>5, <2>6, <2>7, <2>9, <2>10, <2>11, <2>12, <2>13, <2>14, <2>15
    DEF Next, WatchStep, CleanStep
<1> QED BY <1>1, <1>2, PTL DEF Spec

(* A sleeping dk_watch can be reached.                                     *)
THEOREM Reachable == OneWatchEach => (Spec => []WaiterIsReachable)
<1>1. Sleepers => WaiterIsReachable
  BY DEF Sleepers, Signalled, WaiterIsReachable
<1> QED BY <1>1, SleepersStay, PTL
-----------------------------------------------------------------------------
(* The types.  An event is delivered only after it was taken from the pipe, *)
(* and a stream that is not open yet has taken nothing.                     *)

Late == {"install", "drop", "notify", "events", "overflow", "fresh", "wait", "done"}

Handling(i) ==
  /\ pc[i] \notin Late => stream[i] = "none"
  /\ stream[i] \in {"none", "spawned"} => todo[i] = "receive"
  /\ stream[i] = "open" /\ todo[i] = "deliver" => hold[i] # 0

(* TypeOK, by groups of variables.                                          *)
PcTypes == pc \in [Call -> Stage]
SessionTypes ==
  /\ sessions \subseteq Session /\ alive \subseteq Session /\ nats \subseteq Session
  /\ client \in BOOLEAN
MapTypes ==
  /\ tasks \in [Session -> Starter \union {Parked, None}]
  /\ tasksLock \in Starter \union {None}
  /\ flags \in [Session -> Starter \union {None}]
  /\ filters \in [Session -> Kind \union {"*", None}]
BufTypes ==
  /\ DOMAIN pending = Session
  /\ \A s \in Session : Len(pending[s]) <= BufCap /\ pending[s] \in Seq(1..MaxEvents)
  /\ warnings \in [Session -> SUBSET (1..MaxEvents)]
  /\ overflow \in [Session -> BOOLEAN]
SleepTypes ==
  /\ notify \in [Session -> Notify \union {None}] /\ permits \subseteq Notify
  /\ mine \in [Watch -> Notify \union {None}]
  /\ woken \subseteq Watch /\ seen \subseteq Watch
StreamTypes ==
  /\ DOMAIN pipe = Starter
  /\ stream \in [Starter -> {"none", "spawned", "open", "finished", "aborted"}]
  /\ cancelled \in [Starter -> BOOLEAN]
  /\ at \in [Starter -> Nat]
  /\ \A i \in Starter : Len(pipe[i]) <= PipeCap /\ pipe[i] \in Seq(1..MaxEvents)
  /\ hold \in [Starter -> 0..MaxEvents]
  /\ todo \in [Starter -> {"receive", "deliver", "flag", "wake"}]
LogTypes == Len(log) <= MaxEvents /\ log \in Seq(Happening)

(* A dk_connect evicts a session only when it resumes one.                  *)
Evicting(c) == pc[c] \in {"evict", "flags", "tasks", "maps"} => Resumes[c] \in Session

TypeInv ==
  /\ \A c \in Connect : Evicting(c)
  /\ PcTypes /\ SessionTypes /\ MapTypes /\ BufTypes /\ SleepTypes /\ StreamTypes /\ LogTypes
  /\ \A i \in Starter : Handling(i)

(* The groups make up TypeOK. *)
LEMMA TypeGroups == TypeInv => TypeOK
BY DEF TypeInv, TypeOK, PcTypes, SessionTypes, MapTypes, BufTypes, SleepTypes, StreamTypes,
       LogTypes

(* The types and what streams handle, at the start. *)
LEMMA TypeStart == Init => TypeInv
<1> SUFFICES ASSUME Init PROVE TypeInv
  OBVIOUS
<1> USE CallsAssumption, CapsAssumption DEF Starter, Call
<1>0. Len(<<>>) = 0 /\ <<>> \in Seq(1..MaxEvents) /\ <<>> \in Seq(Happening)
  OBVIOUS
<1>1. PcTypes /\ SessionTypes /\ MapTypes
  BY DEF Init, PcTypes, SessionTypes, MapTypes, Stage
<1>2. BufTypes /\ SleepTypes /\ LogTypes
  BY <1>0 DEF Init, BufTypes, SleepTypes, LogTypes
<1>3. StreamTypes
  <2>1. \A i \in Starter : pipe[i] = <<>>
    BY DEF Init
  <2>2. Len(<<>>) <= PipeCap /\ 0 \in 0..MaxEvents /\ 0 \in Nat
    BY <1>0
  <2>3. \A i \in Starter : Len(pipe[i]) <= PipeCap /\ pipe[i] \in Seq(1..MaxEvents)
    BY <1>0, <2>1, <2>2
  <2> QED BY <2>2, <2>3 DEF Init, StreamTypes
<1>4. ASSUME NEW i \in Starter PROVE Handling(i)
  BY DEF Init, Handling
<1>5. ASSUME NEW c \in Connect PROVE Evicting(c)
  BY DEF Init, Evicting
<1> QED BY <1>1, <1>2, <1>3, <1>4, <1>5 DEF TypeInv

(* What aborting a set of tasks leaves typed.                               *)
LEMMA AbortTypes ==
  ASSUME TypeInv, NEW ts, Abort(ts), cancelled' \in [Starter -> BOOLEAN], todo' = todo
  PROVE  /\ StreamTypes'
         /\ \A i \in Starter : /\ stream'[i] = stream[i] \/ stream'[i] = "aborted"
                               /\ stream'[i] # "aborted" => hold'[i] = hold[i]
                               /\ stream[i] = "none" => stream'[i] = "none"
<1>1. MaxEvents \in Nat /\ PipeCap \in Nat /\ Len(<<>>) = 0 /\ <<>> \in Seq(1..MaxEvents)
  BY CapsAssumption
<1>2. \A i \in Starter : hold'[i] \in 0..MaxEvents /\ at'[i] \in Nat
  BY <1>1 DEF Abort, TypeInv, StreamTypes
<1>3. ASSUME NEW i \in Starter PROVE Len(pipe'[i]) <= PipeCap /\ pipe'[i] \in Seq(1..MaxEvents)
  <2>1. pipe'[i] = pipe[i] \/ pipe'[i] = <<>>
    BY DEF Abort
  <2>2. Len(pipe[i]) <= PipeCap /\ pipe[i] \in Seq(1..MaxEvents)
    BY DEF TypeInv, StreamTypes
  <2>3. Len(<<>>) <= PipeCap /\ <<>> \in Seq(1..MaxEvents)
    BY <1>1
  <2> QED BY <2>1, <2>2, <2>3
<1>4. \A i \in Starter :
        /\ stream'[i] \in {"none", "spawned", "open", "finished", "aborted"}
        /\ stream'[i] = stream[i] \/ stream'[i] = "aborted"
        /\ stream'[i] # "aborted" => hold'[i] = hold[i]
        /\ stream[i] = "none" => stream'[i] = "none"
  BY DEF Abort, TypeInv, StreamTypes, Running
<1>5. StreamTypes'
  BY <1>2, <1>3, <1>4 DEF Abort, StreamTypes, TypeInv
<1> QED BY <1>4, <1>5

(* A call that moves on, while the streams stand still or are aborted.      *)
Moves(c) ==
  /\ pc' = [pc EXCEPT ![c] = pc'[c]] /\ pc'[c] \in Stage
  /\ pc[c] \in Late => pc'[c] \in Late
  /\ c \in Connect => Evicting(c)'

(* A call that moves on leaves what streams handle. *)
LEMMA HandlingStays ==
  ASSUME TypeInv, NEW c \in Call, Moves(c), todo' = todo,
         \A i \in Starter : /\ stream'[i] = stream[i] \/ stream'[i] = "aborted"
                            /\ stream'[i] # "aborted" => hold'[i] = hold[i]
                            /\ stream[i] = "none" => stream'[i] = "none"
  PROVE  /\ PcTypes' /\ \A d \in Connect : Evicting(d)'
         /\ \A i \in Starter : Handling(i)'
<1>1. PcTypes' /\ \A d \in Connect : Evicting(d)'
  BY DEF TypeInv, PcTypes, Moves, Evicting, Call
<1>2. ASSUME NEW i \in Starter PROVE Handling(i)'
  <2>1. Handling(i) /\ i \in Call
    BY DEF TypeInv, Starter, Call
  <2>2. pc'[i] \notin Late => pc[i] \notin Late
    BY <2>1 DEF TypeInv, PcTypes, Moves
  <2> QED BY <2>1, <2>2 DEF Handling
<1> QED BY <1>1, <1>2

(* What a step leaves alone keeps its type.                                 *)
LEMMA Kept ==
  ASSUME TypeInv
  PROVE  /\ UNCHANGED sessionVars => SessionTypes'
         /\ UNCHANGED mapVars => MapTypes'
         /\ UNCHANGED bufVars => BufTypes'
         /\ UNCHANGED notifyVars => SleepTypes'
         /\ UNCHANGED streamVars => StreamTypes'
         /\ UNCHANGED log => LogTypes'
         /\ UNCHANGED pc => PcTypes'
<1>1. /\ UNCHANGED sessionVars => SessionTypes'
      /\ UNCHANGED mapVars => MapTypes'
  BY DEF TypeInv, sessionVars, SessionTypes, mapVars, MapTypes
<1>2. /\ UNCHANGED bufVars => BufTypes'
      /\ UNCHANGED notifyVars => SleepTypes'
  BY DEF TypeInv, bufVars, BufTypes, notifyVars, SleepTypes
<1>3. /\ UNCHANGED streamVars => StreamTypes'
      /\ UNCHANGED log => LogTypes'
      /\ UNCHANGED pc => PcTypes'
  BY DEF TypeInv, streamVars, StreamTypes, LogTypes, PcTypes
<1> QED BY <1>1, <1>2, <1>3

(* A call that moves on and changes neither the streams nor the log.        *)
LEMMA QuietMove ==
  ASSUME TypeInv, NEW c \in Call, Moves(c), UNCHANGED <<streamVars, log>>,
         SessionTypes', MapTypes', BufTypes', SleepTypes'
  PROVE  TypeInv'
<1>1. /\ PcTypes' /\ \A d \in Connect : Evicting(d)'
      /\ \A i \in Starter : Handling(i)'
  BY HandlingStays DEF streamVars
<1>2. StreamTypes' /\ LogTypes'
  BY Kept
<1> QED BY <1>1, <1>2 DEF TypeInv

(* A call that moves on and aborts tasks, or none, and changes maps at most. *)
LEMMA AbortMove ==
  ASSUME TypeInv, NEW c \in Call, Moves(c), NEW ts, Abort(ts),
         UNCHANGED <<sessionVars, bufVars, notifyVars, cancelled, todo, log>>, MapTypes'
  PROVE  TypeInv'
<1>1. cancelled' \in [Starter -> BOOLEAN]
  BY DEF TypeInv, StreamTypes
<1>2. /\ StreamTypes' /\ PcTypes' /\ \A d \in Connect : Evicting(d)'
      /\ \A i \in Starter : Handling(i)'
  BY <1>1, AbortTypes, HandlingStays
<1>3. SessionTypes' /\ BufTypes' /\ SleepTypes' /\ LogTypes'
  BY Kept
<1> QED BY <1>2, <1>3 DEF TypeInv

(* A call that moves on and raises flags.                                   *)
LEMMA RaiseTypes ==
  ASSUME TypeInv, NEW s, cancelled' = Raise(flags[s]),
         UNCHANGED <<stream, at, pipe, hold, todo>>
  PROVE  StreamTypes'
<1>1. cancelled' \in [Starter -> BOOLEAN]
  BY DEF TypeInv, StreamTypes, Raise
<1> QED BY <1>1 DEF TypeInv, StreamTypes

(* A call that moves on, and raises a flag. *)
LEMMA RaiseMove ==
  ASSUME TypeInv, NEW c \in Call, Moves(c), NEW s, cancelled' = Raise(flags[s]),
         UNCHANGED <<sessionVars, bufVars, notifyVars, stream, at, pipe, hold, todo, log>>,
         MapTypes'
  PROVE  TypeInv'
<1>1. StreamTypes'
  BY RaiseTypes
<1>2. /\ PcTypes' /\ \A d \in Connect : Evicting(d)'
      /\ \A i \in Starter : Handling(i)'
  BY HandlingStays
<1>3. SessionTypes' /\ BufTypes' /\ SleepTypes' /\ LogTypes'
  BY Kept
<1> QED BY <1>1, <1>2, <1>3 DEF TypeInv

(* The Notify objects are woken and forgotten.                              *)
LEMMA NotifyAllTypes ==
  ASSUME TypeInv, NEW ss \in SUBSET Session, NotifyAll(ss)
  PROVE  permits' \subseteq Notify /\ woken' \subseteq Watch
<1>1. {notify[s] : s \in ss} \ {None} \subseteq Notify
  BY DEF TypeInv, SleepTypes
<1> QED BY <1>1 DEF NotifyAll, Wakers, TypeInv, SleepTypes
-----------------------------------------------------------------------------
(* The types are kept.                                                      *)

(* dk_connect, and the task that starts its stream and drops its clone. *)
LEMMA TypeConnect ==
  ASSUME TypeInv, NEW c \in Connect, ConnectStep(c)
  PROVE  TypeInv'
<1> USE CallsAssumption DEF Call, Starter
<1>0. Moves(c)
  BY DEF ConnectStep, ConnectBegins, ConnectClient, ConnectRpc, ConnectStores, ConnectEvicts,
         ConnectAnswers, DropClone, Goto, Moves, Late, Stage, Evicting, TypeInv, PcTypes
<1>1. SessionOf[c] \in Session /\ c \in Call /\ c \in Starter
  OBVIOUS
<1>2. ASSUME \/ ConnectBegins(c) \/ ConnectClient(c) \/ ConnectRpc(c)
             \/ ConnectStores(c) \/ ConnectEvicts(c) \/ ConnectAnswers(c)
      PROVE  TypeInv'
  <2>1. UNCHANGED <<streamVars, log, mapVars, notifyVars>>
    BY <1>2 DEF ConnectBegins, ConnectClient, ConnectRpc, ConnectStores, ConnectEvicts,
                ConnectAnswers
  <2>2. SessionTypes'
    BY <1>1, <1>2 DEF TypeInv, SessionTypes, ConnectBegins, ConnectClient, ConnectRpc,
                      ConnectStores, ConnectEvicts, ConnectAnswers, sessionVars
  <2>3. BufTypes'
    BY <1>2 DEF TypeInv, BufTypes, ConnectBegins, ConnectClient, ConnectRpc, ConnectStores,
                ConnectEvicts, ConnectAnswers, bufVars
  <2> HIDE DEF Call, Starter
  <2> QED BY <1>0, <1>1, <2>1, <2>2, <2>3, Kept, QuietMove
<1>3. ASSUME DropClone(c) PROVE TypeInv'
  <2>1. UNCHANGED <<log, bufVars, todo, sessions, client, alive>>
    BY <1>3 DEF DropClone
  <2>2. SessionTypes'
    BY <1>3 DEF DropClone, TypeInv, SessionTypes
  <2>3. MapTypes'
    BY <1>3 DEF DropClone, TypeInv, MapTypes
  <2>4. SleepTypes'
    <3>1. permits' \subseteq Notify /\ woken' \subseteq Watch
      BY <1>3, NotifyAllTypes DEF DropClone
    <3> QED BY <1>3, <3>1 DEF DropClone, TypeInv, SleepTypes
  <2>5. cancelled' \in [Starter -> BOOLEAN]
    BY <1>3 DEF DropClone
  <2>6. /\ StreamTypes'
        /\ \A i \in Starter : /\ stream'[i] = stream[i] \/ stream'[i] = "aborted"
                              /\ stream'[i] # "aborted" => hold'[i] = hold[i]
                              /\ stream[i] = "none" => stream'[i] = "none"
    <3>1. CASE tasksLock = None
      <4>1. Abort({tasks[s] : s \in Session})
        BY <1>3, <3>1 DEF DropClone
      <4> HIDE DEF Call, Starter
      <4> QED BY <2>1, <2>5, <4>1, AbortTypes
    <3>2. CASE tasksLock # None
      <4>1. UNCHANGED <<stream, at, pipe, hold>>
        BY <1>3, <3>2 DEF DropClone
      <4> QED BY <2>1, <2>5, <4>1 DEF TypeInv, StreamTypes
    <3> QED BY <3>1, <3>2
  <2> HIDE DEF Call, Starter
  <2>7. /\ PcTypes' /\ \A d \in Connect : Evicting(d)' /\ \A i \in Starter : Handling(i)'
    BY <1>0, <1>1, <2>1, <2>6, HandlingStays
  <2> QED BY <2>1, <2>2, <2>3, <2>4, <2>6, <2>7, Kept DEF TypeInv
<1> QED BY <1>2, <1>3 DEF ConnectStep

(* start_watch_stream. *)
LEMMA TypeStarter ==
  ASSUME TypeInv, NEW c \in Starter, StartStep(c)
  PROVE  TypeInv'
<1> USE CallsAssumption DEF Call, Starter
<1>0. Moves(c)
  BY DEF StartStep, Check, CancelOld, Park, GetClient, GiveUp, StoreFlag, StoreFilter, Install,
         After, Goto, Moves, Late, Stage, Evicting, TypeInv, PcTypes
<1>1. SessionOf[c] \in Session /\ c \in Call /\ FilterOfStarter(c) \in Kind \union {"*", None}
  BY DEF FilterOfStarter
<1>2. ASSUME Check(c) PROVE TypeInv'
  <2>1. UNCHANGED <<streamVars, log, sessionVars, bufVars, notifyVars>>
    BY <1>2 DEF Check
  <2>2. MapTypes'
    BY <1>2 DEF Check, TypeInv, MapTypes
  <2> HIDE DEF Call, Starter
  <2> QED BY <1>0, <1>1, <2>1, <2>2, Kept, QuietMove
<1>3. ASSUME CancelOld(c) \/ StoreFlag(c) PROVE TypeInv'
  <2>1. /\ UNCHANGED <<sessionVars, bufVars, notifyVars, stream, at, pipe, hold, todo, log>>
        /\ cancelled' = Raise(flags[SessionOf[c]])
    BY <1>3 DEF CancelOld, StoreFlag
  <2>2. MapTypes'
    BY <1>1, <1>3 DEF CancelOld, StoreFlag, TypeInv, MapTypes
  <2> HIDE DEF Call, Starter
  <2> QED BY <1>0, <1>1, <2>1, <2>2, RaiseMove
<1>4. ASSUME Park(c) \/ GiveUp(c) \/ Install(c) PROVE TypeInv'
  <2>1. /\ UNCHANGED <<sessionVars, bufVars, notifyVars, cancelled, todo, log>>
        /\ Abort({tasks[SessionOf[c]]})
    BY <1>4 DEF Park, GiveUp, Install
  <2>2. MapTypes'
    BY <1>1, <1>4 DEF Park, GiveUp, Install, TypeInv, MapTypes
  <2> HIDE DEF Call, Starter
  <2> QED BY <1>0, <1>1, <2>1, <2>2, AbortMove
<1>5. ASSUME GetClient(c) PROVE TypeInv'
  <2>1. UNCHANGED <<streamVars, log, mapVars, bufVars, notifyVars>>
    BY <1>5 DEF GetClient
  <2>2. SessionTypes'
    BY <1>5 DEF GetClient, TypeInv, SessionTypes
  <2> HIDE DEF Call, Starter
  <2> QED BY <1>0, <1>1, <2>1, <2>2, Kept, QuietMove
<1>6. ASSUME StoreFilter(c) PROVE TypeInv'
  <2>1. /\ UNCHANGED <<sessionVars, bufVars, notifyVars, cancelled, at, pipe, hold, todo, log>>
        /\ stream' = [stream EXCEPT ![c] = "spawned"]
        /\ pc[c] = "filter" /\ pc' = [pc EXCEPT ![c] = "install"]
    BY <1>6 DEF StoreFilter, Goto
  <2>2. MapTypes'
    BY <1>1, <1>6 DEF StoreFilter, TypeInv, MapTypes
  <2>3. StreamTypes'
    BY <2>1 DEF TypeInv, StreamTypes
  <2>4. ASSUME NEW i \in Starter PROVE Handling(i)'
    <3>1. Handling(i)
      BY DEF TypeInv
    <3>2. CASE i = c
      <4>1. stream[c] = "none"
        BY <2>1, <3>1, <3>2 DEF Handling, Late
      <4>2. todo[c] = "receive" /\ stream'[c] = "spawned" /\ pc'[c] = "install"
        BY <2>1, <3>1, <3>2, <4>1 DEF Handling, TypeInv, StreamTypes, PcTypes
      <4> QED BY <2>1, <3>2, <4>2 DEF Handling, Late
    <3>3. CASE i # c
      BY <2>1, <3>1, <3>3 DEF Handling, TypeInv, StreamTypes, PcTypes
    <3> QED BY <3>2, <3>3
  <2>5. PcTypes' /\ \A d \in Connect : Evicting(d)'
    BY <1>0 DEF Moves, Evicting, TypeInv, PcTypes
  <2> HIDE DEF Call, Starter
  <2> QED BY <2>1, <2>2, <2>3, <2>4, <2>5, Kept DEF TypeInv
<1> QED BY <1>2, <1>3, <1>4, <1>5, <1>6 DEF StartStep

(* dk_watch. *)
LEMMA TypeWatch ==
  ASSUME TypeInv, NEW c \in Watch, WatchBegins(c) \/ WatchStep(c)
  PROVE  TypeInv'
<1> USE CallsAssumption DEF Call, Starter
<1>0. Moves(c)
  BY DEF WatchBegins, WatchStep, TakeNotify, DrainEvents, DrainOverflow, FreshNotify, Wake,
         TimeOut, Goto, Moves, Late, Stage, Evicting, TypeInv, PcTypes
<1>1. SessionOf[c] \in Session /\ c \in Call /\ <<c, 1>> \in Notify /\ <<c, 2>> \in Notify
      /\ Len(<<>>) <= BufCap /\ <<>> \in Seq(1..MaxEvents)
  BY CapsAssumption DEF Notify
<1>2. UNCHANGED <<streamVars, log, mapVars, sessionVars>>
  BY DEF WatchBegins, WatchStep, TakeNotify, DrainEvents, DrainOverflow, FreshNotify, Wake, TimeOut
<1>3. BufTypes'
  <2>1. CASE WatchBegins(c) \/ TakeNotify(c) \/ FreshNotify(c) \/ TimeOut(c)
    BY <2>1, Kept DEF WatchBegins, TakeNotify, FreshNotify, TimeOut
  <2>2. CASE DrainEvents(c) \/ DrainOverflow(c) \/ Wake(c)
    <3>1. /\ \A s \in Session : pending'[s] = pending[s] \/ pending'[s] = <<>>
          /\ DOMAIN pending' = Session
      BY <1>1, <2>2 DEF DrainEvents, DrainOverflow, Wake, TypeInv, BufTypes
    <3>2. \A s \in Session : Len(pending'[s]) <= BufCap /\ pending'[s] \in Seq(1..MaxEvents)
      BY <1>1, <3>1 DEF TypeInv, BufTypes
    <3>3. warnings' \in [Session -> SUBSET (1..MaxEvents)] /\ overflow' \in [Session -> BOOLEAN]
      BY <1>1, <2>2 DEF DrainEvents, DrainOverflow, Wake, TypeInv, BufTypes
    <3> QED BY <3>1, <3>2, <3>3 DEF BufTypes
  <2> QED BY <2>1, <2>2 DEF WatchStep
<1>4. SleepTypes'
  <2>1. CASE WatchBegins(c) \/ Wake(c) \/ TimeOut(c)
    BY <2>1, Kept DEF WatchBegins, Wake, TimeOut
  <2>2. CASE TakeNotify(c)
    BY <1>1, <2>2 DEF TakeNotify, TypeInv, SleepTypes
  <2>3. CASE DrainEvents(c)
    BY <1>1, <2>3 DEF DrainEvents, TypeInv, SleepTypes
  <2>4. CASE DrainOverflow(c)
    BY <1>1, <2>4 DEF DrainOverflow, TypeInv, SleepTypes
  <2>5. CASE FreshNotify(c)
    BY <1>1, <2>5 DEF FreshNotify, TypeInv, SleepTypes
  <2> QED BY <2>1, <2>2, <2>3, <2>4, <2>5 DEF WatchStep
<1> HIDE DEF Call, Starter
<1> QED BY <1>0, <1>1, <1>2, <1>3, <1>4, Kept, QuietMove

(* The closing tools. *)
LEMMA TypeClose ==
  ASSUME TypeInv, NEW c \in Close, CloseRpc(c) \/ CloseStep(c)
  PROVE  TypeInv'
<1> USE CallsAssumption DEF Call, Starter
<1>0. Moves(c)
  BY DEF CloseRpc, CloseStep, CloseDrains, CloseRemoves, Goto, Moves, Late, Stage, Evicting,
         TypeInv, PcTypes
<1>1. SessionOf[c] \in Session /\ c \in Call /\ Len(<<>>) <= BufCap /\ <<>> \in Seq(1..MaxEvents)
  BY CapsAssumption
<1>2. UNCHANGED <<streamVars, log, mapVars, notifyVars>>
  BY DEF CloseRpc, CloseStep, CloseDrains, CloseRemoves
<1>3. SessionTypes'
  BY DEF CloseRpc, CloseStep, CloseDrains, CloseRemoves, TypeInv, SessionTypes, sessionVars
<1>4. BufTypes'
  <2>1. /\ \A s \in Session : pending'[s] = pending[s] \/ pending'[s] = <<>>
        /\ DOMAIN pending' = Session
    BY <1>1 DEF CloseRpc, CloseStep, CloseDrains, CloseRemoves, bufVars, TypeInv, BufTypes
  <2>2. \A s \in Session : Len(pending'[s]) <= BufCap /\ pending'[s] \in Seq(1..MaxEvents)
    BY <1>1, <2>1 DEF TypeInv, BufTypes
  <2>3. warnings' \in [Session -> SUBSET (1..MaxEvents)] /\ overflow' \in [Session -> BOOLEAN]
    BY <1>1 DEF CloseRpc, CloseStep, CloseDrains, CloseRemoves, bufVars, TypeInv, BufTypes
  <2> QED BY <2>1, <2>2, <2>3 DEF BufTypes
<1> HIDE DEF Call, Starter
<1> QED BY <1>0, <1>1, <1>2, <1>3, <1>4, Kept, QuietMove

(* cleanup_watch_for_session. *)
LEMMA TypeClean ==
  ASSUME TypeInv, NEW c \in Connect \union Close, CleanStep(c)
  PROVE  TypeInv'
<1> USE CallsAssumption DEF Call, Starter
<1>0. Moves(c)
  BY DEF CleanStep, CleanFlag, CleanTask, CleanMaps, Goto, Moves, Late, Stage, Evicting,
         TypeInv, PcTypes
<1>1. Cleaned(c) \in Session /\ c \in Call /\ Len(<<>>) <= BufCap /\ <<>> \in Seq(1..MaxEvents)
  <2>1. pc[c] \in {"flags", "tasks", "maps"}
    BY DEF CleanStep, CleanFlag, CleanTask, CleanMaps, Goto
  <2> QED BY <2>1, CapsAssumption DEF Cleaned, TypeInv, Evicting
<1>2. ASSUME CleanFlag(c) PROVE TypeInv'
  <2>1. /\ UNCHANGED <<sessionVars, bufVars, notifyVars, stream, at, pipe, hold, todo, log>>
        /\ cancelled' = Raise(flags[Cleaned(c)])
    BY <1>2 DEF CleanFlag
  <2>2. MapTypes'
    BY <1>1, <1>2 DEF CleanFlag, TypeInv, MapTypes
  <2> HIDE DEF Call, Starter
  <2> QED BY <1>0, <1>1, <2>1, <2>2, RaiseMove
<1>3. ASSUME CleanTask(c) PROVE TypeInv'
  <2>1. /\ UNCHANGED <<sessionVars, bufVars, notifyVars, cancelled, todo, log>>
        /\ Abort({tasks[Cleaned(c)]})
    BY <1>3 DEF CleanTask
  <2>2. MapTypes'
    BY <1>1, <1>3 DEF CleanTask, TypeInv, MapTypes
  <2> HIDE DEF Call, Starter
  <2> QED BY <1>0, <1>1, <2>1, <2>2, AbortMove
<1>4. ASSUME CleanMaps(c) PROVE TypeInv'
  <2>1. UNCHANGED <<streamVars, log, sessionVars>>
    BY <1>4 DEF CleanMaps
  <2>2. MapTypes'
    BY <1>1, <1>4 DEF CleanMaps, TypeInv, MapTypes
  <2>3. BufTypes'
    <3>1. /\ \A s \in Session : pending'[s] = pending[s] \/ pending'[s] = <<>>
          /\ DOMAIN pending' = Session
      BY <1>1, <1>4 DEF CleanMaps, TypeInv, BufTypes
    <3>2. \A s \in Session : Len(pending'[s]) <= BufCap /\ pending'[s] \in Seq(1..MaxEvents)
      BY <1>1, <3>1 DEF TypeInv, BufTypes
    <3>3. warnings' \in [Session -> SUBSET (1..MaxEvents)] /\ overflow' \in [Session -> BOOLEAN]
      BY <1>1, <1>4 DEF CleanMaps, TypeInv, BufTypes
    <3> QED BY <3>1, <3>2, <3>3 DEF BufTypes
  <2>4. SleepTypes'
    <3>1. permits' \subseteq Notify /\ woken' \subseteq Watch
      <4>1. NotifyAll({Cleaned(c)}) /\ {Cleaned(c)} \in SUBSET Session
        BY <1>1, <1>4 DEF CleanMaps
      <4> HIDE DEF Call, Starter
      <4> QED BY <4>1, NotifyAllTypes
    <3> QED BY <1>4, <3>1 DEF CleanMaps, TypeInv, SleepTypes
  <2> HIDE DEF Call, Starter
  <2> QED BY <1>0, <1>1, <2>1, <2>2, <2>3, <2>4, Kept, QuietMove
<1> QED BY <1>2, <1>3, <1>4 DEF CleanStep

(* What Receive takes from the pipe, and what it leaves.                    *)
LEMMA FirstAndRest ==
  ASSUME NEW S, NEW q \in Seq(S), q # <<>>
  PROVE  Head(q) \in S /\ Tail(q) \in Seq(S) /\ Len(Tail(q)) = Len(q) - 1 /\ Len(q) \in Nat
OBVIOUS

(* A stream's step changes neither sessions, maps nor calls.                *)
LEMMA TypeStream ==
  ASSUME TypeInv, NEW i \in Starter, StreamStep(i) \/ Break(i)
  PROVE  TypeInv'
<1> USE CallsAssumption, CapsAssumption
<1>0. SessionOf[i] \in Session /\ i \in Call
  BY DEF Call, Starter
<1>1. UNCHANGED <<pc, sessionVars, mapVars, log>>
  BY DEF StreamStep, Open, Forward, Receive, Deliver, FlagOverflow, NotifyWatch, Break
<1>2. PcTypes' /\ SessionTypes' /\ MapTypes' /\ LogTypes' /\ \A d \in Connect : Evicting(d)'
  BY <1>1, Kept DEF TypeInv, Evicting
<1>3. \A j \in Starter : Handling(j)
  BY DEF TypeInv
<1>4. Len(log) \in Nat /\ Len(log) <= MaxEvents /\ at[i] \in Nat /\ hold[i] \in 0..MaxEvents
      /\ pipe[i] \in Seq(1..MaxEvents) /\ Len(pipe[i]) <= PipeCap /\ Len(<<>>) = 0
      /\ <<>> \in Seq(1..MaxEvents)
  BY DEF TypeInv, LogTypes, StreamTypes
<1>5. CASE Open(i)
  <2>1. BufTypes' /\ SleepTypes'
    BY <1>5, Kept DEF Open
  <2>2. StreamTypes'
    BY <1>4, <1>5 DEF Open, TypeInv, StreamTypes
  <2>3. \A j \in Starter : Handling(j)'
    BY <1>3, <1>5 DEF Open, Handling, TypeInv, StreamTypes
  <2> QED BY <1>2, <2>1, <2>2, <2>3 DEF TypeInv
<1>6. CASE Forward(i)
  <2>1. BufTypes' /\ SleepTypes'
    BY <1>6, Kept DEF Forward
  <2>2. PICK next \in 1..MaxEvents :
          /\ at' = [at EXCEPT ![i] = next]
          /\ \/ pipe' = pipe
             \/ pipe' = [pipe EXCEPT ![i] = Append(@, next)] /\ Len(pipe[i]) < PipeCap
    <3> DEFINE behind == Len(log) - at[i]
               n == IF behind > BusCap THEN Len(log) - BusCap + 1 ELSE at[i] + 1
    <3>1. n \in 1..MaxEvents
      <4>1. behind > 0
        BY <1>6 DEF Forward
      <4> QED BY <1>4, <4>1
    <3>2. /\ at' = [at EXCEPT ![i] = n]
          /\ \/ pipe' = pipe
             \/ pipe' = [pipe EXCEPT ![i] = Append(@, n)] /\ Len(pipe[i]) < PipeCap
      <4> HIDE <1>4
      <4> QED BY <1>6, Zenon DEF Forward
    <3> HIDE DEF n
    <3> QED BY <3>1, <3>2
  <2>3. StreamTypes'
    <3>1. at' \in [Starter -> Nat]
      BY <2>2 DEF TypeInv, StreamTypes
    <3>2. Append(pipe[i], next) \in Seq(1..MaxEvents)
          /\ Len(Append(pipe[i], next)) = Len(pipe[i]) + 1 /\ Len(pipe[i]) \in Nat
      BY <1>4
    <3>3. \A j \in Starter : Len(pipe'[j]) <= PipeCap /\ pipe'[j] \in Seq(1..MaxEvents)
      <4> TAKE j \in Starter
      <4>1. Len(pipe[j]) <= PipeCap /\ pipe[j] \in Seq(1..MaxEvents)
        BY DEF TypeInv, StreamTypes
      <4>2. \/ pipe'[j] = pipe[j]
            \/ pipe'[j] = Append(pipe[i], next) /\ Len(pipe[i]) < PipeCap
        BY <2>2 DEF TypeInv, StreamTypes
      <4>3. Len(pipe[i]) < PipeCap => Len(Append(pipe[i], next)) <= PipeCap
        BY <3>2
      <4> QED BY <3>2, <4>1, <4>2, <4>3
    <3>4. DOMAIN pipe' = Starter
      BY <2>2 DEF TypeInv, StreamTypes
    <3> QED BY <1>6, <3>1, <3>3, <3>4 DEF Forward, TypeInv, StreamTypes
  <2>4. \A j \in Starter : Handling(j)'
    BY <1>3, <1>6 DEF Forward, Handling
  <2> QED BY <1>2, <2>1, <2>3, <2>4 DEF TypeInv
<1>7. CASE Receive(i)
  <2>1. BufTypes' /\ SleepTypes'
    BY <1>7, Kept DEF Receive
  <2>2. Head(pipe[i]) \in 1..MaxEvents /\ Tail(pipe[i]) \in Seq(1..MaxEvents)
        /\ Len(Tail(pipe[i])) <= PipeCap
    <3>1. pipe[i] # <<>>
      BY <1>7 DEF Receive
    <3>2. Head(pipe[i]) \in 1..MaxEvents /\ Tail(pipe[i]) \in Seq(1..MaxEvents)
          /\ Len(Tail(pipe[i])) = Len(pipe[i]) - 1 /\ Len(pipe[i]) \in Nat
      <4>1. pipe[i] \in Seq(1..MaxEvents)
        BY <1>4
      <4> QED BY <3>1, <4>1, FirstAndRest
    <3>3. Len(pipe[i]) <= PipeCap
      BY <1>4
    <3> QED BY <3>2, <3>3
  <2>3. StreamTypes'
    <3>1. \A j \in Starter : Len(pipe'[j]) <= PipeCap /\ pipe'[j] \in Seq(1..MaxEvents)
      BY <1>7, <2>2 DEF Receive, TypeInv, StreamTypes
    <3>2. DOMAIN pipe' = Starter /\ at' = at /\ cancelled' = cancelled
      BY <1>7 DEF Receive, TypeInv, StreamTypes
    <3>3. stream' \in [Starter -> {"none", "spawned", "open", "finished", "aborted"}]
          /\ hold' \in [Starter -> 0..MaxEvents]
          /\ todo' \in [Starter -> {"receive", "deliver", "flag", "wake"}]
      <4>1. CASE cancelled[i]
        BY <1>7, <4>1 DEF Receive, TypeInv, StreamTypes
      <4>2. CASE ~cancelled[i]
        <5>1. /\ hold' = [hold EXCEPT ![i] = Head(pipe[i])]
              /\ todo' = [todo EXCEPT ![i] = "deliver"] /\ stream' = stream
          BY <1>7, <4>2, Zenon DEF Receive
        <5>2. Head(pipe[i]) \in 0..MaxEvents
          BY <2>2
        <5>3. /\ stream \in [Starter -> {"none", "spawned", "open", "finished", "aborted"}]
              /\ hold \in [Starter -> 0..MaxEvents]
              /\ todo \in [Starter -> {"receive", "deliver", "flag", "wake"}]
          BY DEF TypeInv, StreamTypes
        <5> QED BY <5>1, <5>2, <5>3
      <4> QED BY <4>1, <4>2
    <3> QED BY <3>1, <3>2, <3>3 DEF TypeInv, StreamTypes
  <2>4. \A j \in Starter : Handling(j)'
    <3>1. CASE cancelled[i]
      BY <1>3, <1>7, <3>1 DEF Receive, Handling, TypeInv, StreamTypes
    <3>2. CASE ~cancelled[i]
      BY <1>3, <1>7, <2>2, <3>2 DEF Receive, Handling, TypeInv, StreamTypes
    <3> QED BY <3>1, <3>2
  <2> QED BY <1>2, <2>1, <2>3, <2>4 DEF TypeInv
<1>8. CASE Deliver(i)
  <2>1. SleepTypes'
    BY <1>8, Kept DEF Deliver
  <2>2. hold[i] \in 1..MaxEvents
    BY <1>3, <1>4, <1>8 DEF Deliver, Handling
  <2>3. /\ \/ pending' = pending
           \/ /\ pending' = [pending EXCEPT ![SessionOf[i]] = Append(@, hold[i])]
              /\ ~Full(SessionOf[i])
        /\ \/ warnings' = warnings
           \/ warnings' = [warnings EXCEPT ![SessionOf[i]] = @ \union {hold[i]}]
        /\ overflow' = overflow
    BY <1>8 DEF Deliver
  <2>4. BufTypes'
    <3>1. Len(pending[SessionOf[i]]) <= BufCap /\ pending[SessionOf[i]] \in Seq(1..MaxEvents)
          /\ (~Full(SessionOf[i]) => Len(pending[SessionOf[i]]) < BufCap)
      BY <1>0 DEF TypeInv, BufTypes, Full
    <3>2. /\ Append(pending[SessionOf[i]], hold[i]) \in Seq(1..MaxEvents)
          /\ ~Full(SessionOf[i]) => Len(Append(pending[SessionOf[i]], hold[i])) <= BufCap
      BY <2>2, <3>1
    <3>3. ASSUME NEW s \in Session
          PROVE  Len(pending'[s]) <= BufCap /\ pending'[s] \in Seq(1..MaxEvents)
      <4>1. Len(pending[s]) <= BufCap /\ pending[s] \in Seq(1..MaxEvents)
        BY DEF TypeInv, BufTypes
      <4>2. \/ pending'[s] = pending[s]
            \/ pending'[s] = Append(pending[SessionOf[i]], hold[i]) /\ ~Full(SessionOf[i])
        BY <2>3 DEF TypeInv, BufTypes
      <4> QED BY <3>2, <4>1, <4>2
    <3>4. DOMAIN pending' = Session
      BY <2>3 DEF TypeInv, BufTypes
    <3>5. warnings' \in [Session -> SUBSET (1..MaxEvents)]
      <4>1. warnings \in [Session -> SUBSET (1..MaxEvents)]
        BY DEF TypeInv, BufTypes
      <4>2. warnings[SessionOf[i]] \union {hold[i]} \in SUBSET (1..MaxEvents)
        BY <1>0, <2>2, <4>1
      <4>3. CASE warnings' = warnings
        BY <4>1, <4>3
      <4>4. CASE warnings' = [warnings EXCEPT ![SessionOf[i]] = @ \union {hold[i]}]
        BY <4>1, <4>2, <4>4
      <4> QED BY <2>3, <4>3, <4>4
    <3> QED BY <2>3, <3>3, <3>4, <3>5 DEF TypeInv, BufTypes
  <2>5. StreamTypes'
    <3>1. /\ hold' = [hold EXCEPT ![i] = 0] /\ UNCHANGED <<stream, cancelled, at, pipe>>
          /\ \E t \in {"receive", "flag", "wake"} : todo' = [todo EXCEPT ![i] = t]
      BY <1>8 DEF Deliver
    <3>2. 0 \in 0..MaxEvents
      OBVIOUS
    <3>3. hold' \in [Starter -> 0..MaxEvents]
      BY <3>1, <3>2 DEF TypeInv, StreamTypes
    <3>4. todo' \in [Starter -> {"receive", "deliver", "flag", "wake"}]
      BY <3>1 DEF TypeInv, StreamTypes
    <3> QED BY <3>1, <3>3, <3>4 DEF TypeInv, StreamTypes
  <2>6. \A j \in Starter : Handling(j)'
    BY <1>3, <1>8 DEF Deliver, Handling, TypeInv, StreamTypes
  <2> QED BY <1>2, <2>1, <2>4, <2>5, <2>6 DEF TypeInv
<1>9. CASE FlagOverflow(i)
  <2>1. SleepTypes'
    BY <1>9, Kept DEF FlagOverflow
  <2>2. BufTypes'
    BY <1>9 DEF FlagOverflow, TypeInv, BufTypes
  <2>3. StreamTypes'
    BY <1>9 DEF FlagOverflow, TypeInv, StreamTypes
  <2>4. \A j \in Starter : Handling(j)'
    BY <1>3, <1>9 DEF FlagOverflow, Handling, TypeInv, StreamTypes
  <2> QED BY <1>2, <2>1, <2>2, <2>3, <2>4 DEF TypeInv
<1>10. CASE NotifyWatch(i)
  <2>1. BufTypes'
    BY <1>10, Kept DEF NotifyWatch
  <2>2. SleepTypes'
    <3>1. notify[SessionOf[i]] \in Notify \union {None}
      BY <1>0 DEF TypeInv, SleepTypes
    <3> QED BY <1>10, <3>1 DEF NotifyWatch, NotifyOne, Wakers, TypeInv, SleepTypes
  <2>3. StreamTypes'
    BY <1>10 DEF NotifyWatch, TypeInv, StreamTypes
  <2>4. \A j \in Starter : Handling(j)'
    BY <1>3, <1>10 DEF NotifyWatch, Handling, TypeInv, StreamTypes
  <2> QED BY <1>2, <2>1, <2>2, <2>3, <2>4 DEF TypeInv
<1>11. CASE Break(i)
  <2>1. BufTypes' /\ SleepTypes'
    BY <1>11, Kept DEF Break
  <2>2. StreamTypes'
    <3>1. \A j \in Starter : pipe'[j] = pipe[j] \/ pipe'[j] = <<>>
      BY <1>11 DEF Break, TypeInv, StreamTypes
    <3>2. \A j \in Starter : Len(pipe'[j]) <= PipeCap /\ pipe'[j] \in Seq(1..MaxEvents)
      <4> TAKE j \in Starter
      <4>1. Len(pipe[j]) <= PipeCap /\ pipe[j] \in Seq(1..MaxEvents)
        BY DEF TypeInv, StreamTypes
      <4>2. Len(<<>>) <= PipeCap /\ <<>> \in Seq(1..MaxEvents)
        OBVIOUS
      <4> QED BY <3>1, <4>1, <4>2, Zenon
    <3> QED BY <1>11, <3>2 DEF Break, TypeInv, StreamTypes
  <2>3. \A j \in Starter : Handling(j)'
    BY <1>3, <1>11 DEF Break, Handling, Running, TypeInv, StreamTypes
  <2> QED BY <1>2, <2>1, <2>2, <2>3 DEF TypeInv
<1> QED BY <1>5, <1>6, <1>7, <1>8, <1>9, <1>10, <1>11 DEF StreamStep

(* The event bus, the other tools, and stuttering. *)
LEMMA TypeRest ==
  ASSUME TypeInv, Publish \/ (\E s \in Session : DrainNotifications(s)) \/ UNCHANGED vars
  PROVE  TypeInv'
<1> USE CapsAssumption
<1>0. UNCHANGED <<pc, sessionVars, mapVars, notifyVars, streamVars>>
  BY DEF Publish, DrainNotifications, vars
<1>1. PcTypes' /\ SessionTypes' /\ MapTypes' /\ SleepTypes' /\ StreamTypes'
      /\ \A d \in Connect : Evicting(d)'
  BY <1>0, Kept DEF TypeInv, Evicting
<1>2. \A i \in Starter : Handling(i)'
  BY <1>0 DEF TypeInv, Handling, streamVars
<1>3. CASE Publish
  <2>1. BufTypes'
    BY <1>3, Kept DEF Publish
  <2>2. LogTypes'
    BY <1>3 DEF Publish, TypeInv, LogTypes
  <2> QED BY <1>1, <1>2, <2>1, <2>2 DEF TypeInv
<1>4. ASSUME NEW s \in Session, DrainNotifications(s) PROVE TypeInv'
  <2>0. Len(<<>>) <= BufCap /\ <<>> \in Seq(1..MaxEvents)
    OBVIOUS
  <2>1. /\ \A t \in Session : pending'[t] = pending[t] \/ pending'[t] = <<>>
        /\ DOMAIN pending' = Session
    BY <1>4 DEF DrainNotifications, TypeInv, BufTypes
  <2>2. \A t \in Session : Len(pending'[t]) <= BufCap /\ pending'[t] \in Seq(1..MaxEvents)
    BY <2>0, <2>1 DEF TypeInv, BufTypes
  <2>3. BufTypes'
    BY <1>4, <2>1, <2>2 DEF DrainNotifications, TypeInv, BufTypes
  <2>4. LogTypes'
    BY <1>4, Kept DEF DrainNotifications
  <2> QED BY <1>1, <1>2, <2>3, <2>4 DEF TypeInv
<1>5. CASE UNCHANGED vars
  <2>1. BufTypes' /\ LogTypes'
    BY <1>5, Kept DEF vars
  <2> QED BY <1>1, <1>2, <2>1 DEF TypeInv
<1> QED BY <1>3, <1>4, <1>5

(* The invariant holds of every behaviour. *)
LEMMA TypeStays == Spec => []TypeInv
<1>1. TypeInv /\ [Next]_vars => TypeInv'
  BY TypeConnect, TypeStarter, TypeWatch, TypeClose, TypeClean, TypeStream, TypeRest DEF Next
<1> QED BY <1>1, TypeStart, PTL DEF Spec
-----------------------------------------------------------------------------
(* No lost wake-up.  While a dk_watch has not been woken: what its buffer  *)
(* holds when it sleeps is announced by a stream that is about to wake it; *)
(* and what came in between its two drains, which it would not see, is so  *)
(* announced or has left a permit, with which it will not sleep.           *)
Coming(s) == \E i \in Starter : SessionOf[i] = s /\ todo[i] = "wake"

Awake(w) ==
  LET s == SessionOf[w]
  IN w \notin woken =>
       /\ pc[w] = "wait" /\ (pending[s] # <<>> \/ overflow[s]) => Coming(s)
       /\ pc[w] = "overflow" /\ w \notin seen /\ pending[s] # <<>>
          => Coming(s) \/ mine[w] \in permits

AllAwake == \A w \in Watch : Awake(w)

(* Steps that only drain, wake and leave permits, and bring no dk_watch to  *)
(* its second drain or to sleep.                                            *)
LEMMA AwakeFrame ==
  ASSUME AllAwake,
         \A w \in Watch : pc'[w] = pc[w] \/ pc'[w] \notin {"overflow", "wait"},
         woken \subseteq woken', permits \subseteq permits', seen \subseteq seen',
         mine' = mine,
         \A s \in Session : pending'[s] = pending[s] \/ pending'[s] = <<>>,
         \A s \in Session : overflow'[s] => overflow[s],
         \A i \in Starter : todo[i] = "wake" => todo'[i] = "wake"
  PROVE  AllAwake'
<1> SUFFICES ASSUME NEW w \in Watch, w \notin woken' PROVE Awake(w)'
  BY DEF AllAwake, Awake
<1> DEFINE s == SessionOf[w]
<1>1. s \in Session
  BY CallsAssumption DEF Call
<1>2. Coming(s) => Coming(s)'
  BY DEF Coming
<1>3. Awake(w) /\ w \notin woken
  BY DEF AllAwake
<1>4. ASSUME pc'[w] = "wait", pending'[s] # <<>> \/ overflow'[s] PROVE Coming(s)'
  <2>1. pc[w] = "wait" /\ (pending[s] # <<>> \/ overflow[s])
    BY <1>1, <1>4
  <2> QED BY <1>2, <1>3, <2>1 DEF Awake
<1>5. ASSUME pc'[w] = "overflow", w \notin seen', pending'[s] # <<>>
      PROVE  Coming(s)' \/ mine'[w] \in permits'
  <2>1. pc[w] = "overflow" /\ w \notin seen /\ pending[s] # <<>>
    BY <1>1, <1>5
  <2> QED BY <1>2, <1>3, <2>1 DEF Awake
<1> QED BY <1>4, <1>5 DEF Awake

(* What a stream buffers, and the overflow it notes, it is about to         *)
(* announce.                                                                *)
LEMMA AwakeAnnounced ==
  ASSUME AllAwake, NEW i \in Starter, todo[i] # "wake",
         UNCHANGED <<pc, woken, permits, seen, mine>>,
         \A j \in Starter : todo[j] = "wake" => todo'[j] = "wake",
         \A s \in Session : \/ s = SessionOf[i] /\ todo'[i] = "wake"
                            \/ pending'[s] = pending[s] /\ overflow'[s] = overflow[s]
  PROVE  AllAwake'
<1> SUFFICES ASSUME NEW w \in Watch, w \notin woken' PROVE Awake(w)'
  BY DEF AllAwake, Awake
<1> DEFINE s == SessionOf[w]
<1>1. s \in Session
  BY CallsAssumption DEF Call
<1>2. Coming(s) => Coming(s)'
  BY DEF Coming
<1>3. Awake(w) /\ w \notin woken
  BY DEF AllAwake
<1>4. CASE s = SessionOf[i] /\ todo'[i] = "wake"
  <2>1. Coming(s)'
    BY <1>4 DEF Coming
  <2> QED BY <2>1 DEF Awake
<1>5. CASE pending'[s] = pending[s] /\ overflow'[s] = overflow[s]
  BY <1>2, <1>3, <1>5 DEF Awake
<1> QED BY <1>1, <1>4, <1>5

(* The stream announces: a sleeping dk_watch of its session is woken, and   *)
(* one between its drains finds a permit.                                   *)
LEMMA AwakeNotified ==
  ASSUME OneWatchEach, Sleepers, AllAwake, NEW i \in Starter, NotifyWatch(i)
  PROVE  AllAwake'
<1> SUFFICES ASSUME NEW w \in Watch, w \notin woken' PROVE Awake(w)'
  BY DEF AllAwake, Awake
<1> DEFINE s == SessionOf[w]
           g == notify[SessionOf[i]]
<1>0. /\ UNCHANGED <<pc, pending, overflow, mine, seen>>
      /\ woken \subseteq woken' /\ permits \subseteq permits'
      /\ \A j \in Starter \ {i} : todo'[j] = todo[j]
  BY DEF NotifyWatch, NotifyOne, bufVars
<1>1. Awake(w) /\ w \notin woken
  BY <1>0 DEF AllAwake
<1>2. CASE s # SessionOf[i]
  <2>1. Coming(s) => Coming(s)'
    BY <1>0, <1>2 DEF Coming
  <2> QED BY <1>0, <1>1, <2>1 DEF Awake
<1>3. CASE s = SessionOf[i] /\ pc[w] \in {"overflow", "wait"}
  <2>1. mine[w] # None
    BY <1>3 DEF Sleepers, OwnNotify
  <2>2. g = mine[w] \/ (pc[w] # "wait" /\ mine[w] \in permits)
    BY <1>1, <1>3 DEF Sleepers, Signalled
  <2>3. CASE g = mine[w]
    <3>1. NotifyOne(g)
      BY <2>1, <2>3 DEF NotifyWatch
    <3>2. \A v \in Wakers(g) : v = w
      BY <2>1, <2>3 DEF Wakers, OneWatchEach, Sleepers, OwnNotify
    <3>3. CASE Wakers(g) = {}
      <4>1. pc[w] # "wait"
        BY <1>1, <2>3, <3>3 DEF Wakers
      <4>2. mine[w] \in permits'
        BY <2>3, <3>1, <3>3 DEF NotifyOne
      <4> QED BY <1>0, <4>1, <4>2 DEF Awake
    <3>4. CASE Wakers(g) # {}
      <4>1. PICK v \in Wakers(g) : woken' = woken \union {v}
        BY <3>1, <3>4 DEF NotifyOne
      <4>2. w \in woken'
        BY <3>2, <4>1
      <4> QED BY <4>2
    <3> QED BY <3>3, <3>4
  <2>4. CASE pc[w] # "wait" /\ mine[w] \in permits
    BY <1>0, <2>4 DEF Awake
  <2> QED BY <2>2, <2>3, <2>4
<1>4. CASE pc[w] \notin {"overflow", "wait"}
  BY <1>0, <1>4 DEF Awake
<1> QED BY <1>2, <1>3, <1>4

(* Between the two drains of a dk_watch.                                    *)
LEMMA AwakeDrained ==
  ASSUME OneWatchEach, Sleepers, TypeInv, AllAwake, NEW c \in Watch,
         DrainEvents(c) \/ DrainOverflow(c)
  PROVE  AllAwake'
<1> SUFFICES ASSUME NEW w \in Watch, w \notin woken' PROVE Awake(w)'
  BY DEF AllAwake, Awake
<1> DEFINE s == SessionOf[w]
<1>0. s \in Session /\ c \in Call /\ w \in Call
  BY CallsAssumption DEF Call
<1>1. /\ DOMAIN pc = Call /\ DOMAIN pending = Session /\ overflow \in [Session -> BOOLEAN]
  BY DEF TypeInv, PcTypes, BufTypes
<1>2. /\ UNCHANGED <<mine, todo>> /\ woken \subseteq woken' /\ seen \subseteq seen'
      /\ permits \ {mine[c]} \subseteq permits'
      /\ \A t \in Session : pending'[t] = pending[t] \/ pending'[t] = <<>>
      /\ \A t \in Session : overflow'[t] => overflow[t]
      /\ \A v \in Watch \ {c} : pc'[v] = pc[v]
  <2>1. CASE DrainEvents(c)
    BY <1>1, <2>1 DEF DrainEvents, Goto, streamVars
  <2>2. CASE DrainOverflow(c)
    <3>1. UNCHANGED <<mine, todo, pending, seen>> /\ woken \subseteq woken'
          /\ permits \ {mine[c]} \subseteq permits'
      BY <2>2 DEF DrainOverflow, streamVars
    <3>2. \A t \in Session : overflow'[t] => overflow[t]
      BY <1>1, <2>2 DEF DrainOverflow
    <3>3. \A v \in Watch \ {c} : pc'[v] = pc[v]
      BY <2>2, CallsAssumption DEF DrainOverflow, Goto, TypeInv, PcTypes, Call
    <3> QED BY <3>1, <3>2, <3>3
  <2> QED BY <2>1, <2>2
<1>3. Awake(w) /\ w \notin woken
  BY <1>2 DEF AllAwake
<1>4. Coming(s) => Coming(s)'
  BY <1>2 DEF Coming
<1>5. CASE w # c
  <2>1. ASSUME pc'[w] = "wait", pending'[s] # <<>> \/ overflow'[s] PROVE Coming(s)'
    BY <1>0, <1>2, <1>3, <1>4, <1>5, <2>1 DEF Awake
  <2>2. ASSUME pc'[w] = "overflow", w \notin seen', pending'[s] # <<>>
        PROVE  Coming(s)' \/ mine'[w] \in permits'
    <3>1. pc[w] = "overflow" /\ w \notin seen /\ pending[s] # <<>>
      BY <1>0, <1>2, <1>5, <2>2
    <3>2. Coming(s) \/ mine[w] \in permits
      BY <1>3, <3>1 DEF Awake
    <3>3. mine[w] # mine[c]
      <4>1. pc[c] \in {"events", "overflow"}
        BY DEF DrainEvents, DrainOverflow, Goto
      <4>2. mine[w] # None /\ mine[c] # None
        BY <3>1, <4>1 DEF Sleepers, OwnNotify
      <4>3. SessionOf[w] # SessionOf[c]
        BY <1>5 DEF OneWatchEach
      <4> QED BY <4>2, <4>3 DEF Sleepers, OwnNotify
    <3> QED BY <1>2, <1>4, <3>2, <3>3
  <2> QED BY <2>1, <2>2 DEF Awake
<1>6. CASE w = c /\ DrainEvents(c)
  <2>1. pc'[w] = "overflow" /\ pending'[s] = <<>>
    BY <1>0, <1>1, <1>6 DEF DrainEvents, Goto
  <2> QED BY <2>1 DEF Awake
<1>7. CASE w = c /\ DrainOverflow(c)
  <2>1. pc[w] = "overflow" /\ pc'[w] # "overflow" /\ ~overflow'[s] /\ pending' = pending
    BY <1>0, <1>1, <1>7 DEF DrainOverflow, Goto
  <2>2. ASSUME pc'[w] = "wait", pending'[s] # <<>> PROVE Coming(s)'
    <3>1. w \notin seen /\ w \in Waits /\ ~overflow[s]
      BY <1>0, <1>1, <1>7, <2>2 DEF DrainOverflow, Goto
    <3>2. mine[w] \notin permits
      BY <1>7, <3>1 DEF DrainOverflow
    <3>3. Coming(s) \/ mine[w] \in permits
      BY <1>3, <2>1, <2>2, <3>1 DEF Awake
    <3> QED BY <1>4, <3>2, <3>3
  <2> QED BY <2>1, <2>2 DEF Awake
<1> QED BY <1>5, <1>6, <1>7

(* What a stream does besides announcing.                                   *)
LEMMA AwakeStream ==
  ASSUME AllAwake, TypeInv, NEW i \in Starter, StreamStep(i) \/ Break(i), ~NotifyWatch(i)
  PROVE  AllAwake'
<1>0. /\ DOMAIN todo = Starter /\ DOMAIN pending = Session /\ DOMAIN overflow = Session
      /\ SessionOf[i] \in Session
  BY CallsAssumption DEF TypeInv, StreamTypes, BufTypes, Call, Starter
<1>1. CASE Deliver(i)
  <2>1. todo[i] = "deliver" /\ UNCHANGED <<pc, woken, permits, seen, mine, overflow>>
    BY <1>1 DEF Deliver, notifyVars
  <2>2. \/ pending' = pending
        \/ /\ todo'[i] = "wake"
           /\ \A s \in Session \ {SessionOf[i]} : pending'[s] = pending[s]
    BY <1>0, <1>1 DEF Deliver
  <2>3. \A j \in Starter : todo[j] = "wake" => todo'[j] = "wake"
    BY <1>0, <1>1 DEF Deliver
  <2> QED BY <2>1, <2>2, <2>3, AwakeAnnounced
<1>2. CASE FlagOverflow(i)
  <2>1. /\ todo[i] = "flag" /\ todo'[i] = "wake"
        /\ UNCHANGED <<pc, woken, permits, seen, mine, pending>>
        /\ \A s \in Session \ {SessionOf[i]} : overflow'[s] = overflow[s]
        /\ \A j \in Starter : todo[j] = "wake" => todo'[j] = "wake"
    BY <1>0, <1>2 DEF FlagOverflow, notifyVars
  <2> QED BY <2>1, AwakeAnnounced
<1>3. CASE Open(i) \/ Forward(i) \/ Receive(i) \/ Break(i)
  <2>1. UNCHANGED <<pc, pending, overflow, woken, permits, seen, mine>>
    BY <1>3 DEF Open, Forward, Receive, Break, bufVars, notifyVars
  <2>2. \A j \in Starter : todo[j] = "wake" => todo'[j] = "wake"
    BY <1>0, <1>3 DEF Open, Forward, Receive, Break
  <2> QED BY <2>1, <2>2, AwakeFrame
<1> QED BY <1>1, <1>2, <1>3 DEF StreamStep

(* The steps of connecting, of starting a stream and of closing.            *)
LEMMA AwakeCalls ==
  ASSUME AllAwake, TypeInv, NEW c \in Call,
         \/ c \in Connect /\ ConnectStep(c)
         \/ c \in Starter /\ StartStep(c)
         \/ c \in Close /\ (CloseRpc(c) \/ CloseStep(c))
         \/ c \in Connect \union Close /\ CleanStep(c)
  PROVE  AllAwake'
<1>0. /\ DOMAIN pc = Call /\ DOMAIN pending = Session /\ overflow \in [Session -> BOOLEAN]
  BY DEF TypeInv, PcTypes, BufTypes
<1>1. todo' = todo /\ mine' = mine /\ seen' = seen
  BY DEF ConnectStep, ConnectBegins, ConnectClient, ConnectRpc, ConnectStores, ConnectEvicts,
         ConnectAnswers, DropClone, StartStep, Check, CancelOld, Park, GetClient, GiveUp,
         StoreFlag, StoreFilter, Install, CloseRpc, CloseStep, CloseDrains, CloseRemoves,
         CleanStep, CleanFlag, CleanTask, CleanMaps, streamVars, notifyVars
<1>2. \A w \in Watch : pc'[w] = pc[w] \/ pc'[w] \notin {"overflow", "wait"}
  <2>1. PICK to \in Stage \ {"overflow", "wait"} : pc' = [pc EXCEPT ![c] = to]
    <3>1. CASE c \in Connect /\ ConnectStep(c)
      BY <3>1 DEF ConnectStep, ConnectBegins, ConnectClient, ConnectRpc, ConnectStores,
                  ConnectEvicts, ConnectAnswers, DropClone, Goto, Stage
    <3>2. CASE c \in Starter /\ StartStep(c)
      BY <3>2 DEF StartStep, Check, CancelOld, Park, GetClient, GiveUp, StoreFlag,
                  StoreFilter, Install, After, Goto, Stage
    <3>3. CASE c \in Close /\ (CloseRpc(c) \/ CloseStep(c))
      BY <3>3 DEF CloseRpc, CloseStep, CloseDrains, CloseRemoves, Goto, Stage
    <3>4. CASE CleanStep(c)
      BY <3>4 DEF CleanStep, CleanFlag, CleanTask, CleanMaps, Goto, Stage
    <3> QED BY <3>1, <3>2, <3>3, <3>4
  <2> QED BY <1>0, <2>1
<1>3. woken \subseteq woken' /\ permits \subseteq permits'
  BY DEF ConnectStep, ConnectBegins, ConnectClient, ConnectRpc, ConnectStores, ConnectEvicts,
         ConnectAnswers, DropClone, StartStep, Check, CancelOld, Park, GetClient, GiveUp,
         StoreFlag, StoreFilter, Install, CloseRpc, CloseStep, CloseDrains, CloseRemoves,
         CleanStep, CleanFlag, CleanTask, CleanMaps, notifyVars, NotifyAll
<1>4. \/ UNCHANGED <<pending, overflow>>
      \/ \E s : /\ pending' = [pending EXCEPT ![s] = <<>>]
                /\ overflow' = [overflow EXCEPT ![s] = FALSE]
  BY DEF ConnectStep, ConnectBegins, ConnectClient, ConnectRpc, ConnectStores, ConnectEvicts,
         ConnectAnswers, DropClone, StartStep, Check, CancelOld, Park, GetClient, GiveUp,
         StoreFlag, StoreFilter, Install, CloseRpc, CloseStep, CloseDrains, CloseRemoves,
         CleanStep, CleanFlag, CleanTask, CleanMaps, bufVars
<1>5. /\ \A s \in Session : pending'[s] = pending[s] \/ pending'[s] = <<>>
      /\ \A s \in Session : overflow'[s] => overflow[s]
  BY <1>0, <1>4
<1> QED BY <1>1, <1>2, <1>3, <1>5, AwakeFrame

(* The other steps of a dk_watch, and those of no call.                     *)
LEMMA AwakeRest ==
  ASSUME AllAwake, TypeInv,
         \/ \E c \in Watch : WatchBegins(c) \/ TakeNotify(c) \/ FreshNotify(c) \/ TimeOut(c)
         \/ Publish \/ UNCHANGED vars
  PROVE  AllAwake'
<1>0. DOMAIN pc = Call /\ Watch \subseteq Call
  BY DEF TypeInv, PcTypes, Call
<1>1. CASE \E c \in Watch : WatchBegins(c) \/ FreshNotify(c) \/ TimeOut(c)
  <2>1. UNCHANGED <<pending, overflow, woken, permits, seen, mine, todo>>
    BY <1>1 DEF WatchBegins, FreshNotify, TimeOut, bufVars, notifyVars, streamVars
  <2>2. \A w \in Watch : pc'[w] = pc[w] \/ pc'[w] \notin {"overflow", "wait"}
    BY <1>0, <1>1 DEF WatchBegins, FreshNotify, TimeOut, Goto
  <2> QED BY <2>1, <2>2, AwakeFrame
<1>2. ASSUME NEW c \in Watch, TakeNotify(c) PROVE AllAwake'
  <2>1. UNCHANGED <<pending, overflow, woken, permits, seen, todo>>
    BY <1>2 DEF TakeNotify, bufVars, streamVars
  <2>2. /\ pc'[c] = "events"
        /\ \A w \in Watch \ {c} : pc'[w] = pc[w] /\ mine'[w] = mine[w]
    <3>1. DOMAIN mine = Watch
      BY DEF TypeInv, SleepTypes
    <3> QED BY <1>0, <1>2, <3>1 DEF TakeNotify, Goto
  <2> QED BY <2>1, <2>2 DEF AllAwake, Awake, Coming
<1>3. CASE Publish \/ UNCHANGED vars
  BY <1>3 DEF Publish, vars, bufVars, notifyVars, streamVars, AllAwake, Awake, Coming
<1> QED BY <1>1, <1>2, <1>3

(* Draining, by a woken dk_watch or by another tool.                        *)
LEMMA AwakeEmptied ==
  ASSUME AllAwake, TypeInv,
         (\E c \in Watch : Wake(c)) \/ (\E s \in Session : DrainNotifications(s))
  PROVE  AllAwake'
<1>0. /\ DOMAIN pc = Call /\ Watch \subseteq Call /\ DOMAIN pending = Session
      /\ overflow \in [Session -> BOOLEAN]
  BY DEF TypeInv, PcTypes, BufTypes, Call
<1>1. UNCHANGED <<woken, permits, seen, mine, todo>>
  BY DEF Wake, DrainNotifications, notifyVars, streamVars
<1>2. \A w \in Watch : pc'[w] = pc[w] \/ pc'[w] \notin {"overflow", "wait"}
  BY <1>0 DEF Wake, DrainNotifications, Goto
<1>3. \E s : /\ pending' = [pending EXCEPT ![s] = <<>>]
             /\ overflow' = [overflow EXCEPT ![s] = FALSE]
  BY DEF Wake, DrainNotifications
<1>4. /\ \A s \in Session : pending'[s] = pending[s] \/ pending'[s] = <<>>
      /\ \A s \in Session : overflow'[s] => overflow[s]
  BY <1>0, <1>3
<1> QED BY <1>1, <1>2, <1>4, AwakeFrame

(* The variables keep their types and no wake-up is lost, as long as a      *)
(* session has one dk_watch at a time.                                      *)
THEOREM WakeupsAreSound == OneWatchEach => (Spec => []WakeupIsSound)
<1> SUFFICES ASSUME OneWatchEach PROVE Spec => []WakeupIsSound
  OBVIOUS
<1>1. Init => AllAwake
  <2>1. ASSUME Init PROVE \A w \in Watch : pc[w] = "idle"
    BY <2>1 DEF Init, Call
  <2> QED BY <2>1 DEF AllAwake, Awake
<1>2. Sleepers /\ TypeInv /\ AllAwake /\ [Next]_vars => AllAwake'
  <2> SUFFICES ASSUME Sleepers, TypeInv, AllAwake, [Next]_vars PROVE AllAwake'
    OBVIOUS
  <2>1. ASSUME NEW c \in Connect, ConnectStep(c) PROVE AllAwake'
    BY <2>1, AwakeCalls DEF Call
  <2>2. ASSUME NEW c \in Starter, StartStep(c) PROVE AllAwake'
    BY <2>2, AwakeCalls DEF Call, Starter
  <2>3. ASSUME NEW c \in Watch, WatchBegins(c) \/ WatchStep(c) PROVE AllAwake'
    BY <2>3, AwakeDrained, AwakeRest, AwakeEmptied DEF WatchStep
  <2>4. ASSUME NEW c \in Close, CloseRpc(c) \/ CloseStep(c) PROVE AllAwake'
    BY <2>4, AwakeCalls DEF Call
  <2>5. ASSUME NEW c \in Connect \union Close, CleanStep(c) PROVE AllAwake'
    BY <2>5, AwakeCalls DEF Call
  <2>6. ASSUME NEW i \in Starter, StreamStep(i) \/ Break(i) PROVE AllAwake'
    BY <2>6, AwakeStream, AwakeNotified
  <2>7. CASE Publish \/ (\E s \in Session : DrainNotifications(s)) \/ UNCHANGED vars
    BY <2>7, AwakeRest, AwakeEmptied
  <2> QED BY <2>1, <2>2, <2>3, <2>4, <2>5, <2>6, <2>7 DEF Next
<1>3. TypeInv /\ AllAwake => WakeupIsSound
  <2>1. AllAwake => NoLostWakeup
    BY DEF AllAwake, Awake, Coming, NoLostWakeup
  <2> QED BY <2>1, TypeGroups DEF WakeupIsSound
<1> QED BY <1>1, <1>2, <1>3, SleepersStay, TypeStays, PTL DEF Spec

=============================================================================
