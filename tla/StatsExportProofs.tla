------------------------- MODULE StatsExportProofs -------------------------
(* Theorems about StatsExport, for any components, threads and messages,   *)
(* channels and pipe of any capacity, and output files of any size and     *)
(* number.                                                                 *)
EXTENDS StatsExport, SequenceTheorems, FiniteSetTheorems, TLAPS

-----------------------------------------------------------------------------
(* Types                                                                   *)

\* A message of a collector, and what a thread or a goroutine may hold.
Pushed == {m \in Message : m.id \in 1 .. mount.pushes}
Hand(steps, messages) == {Idle} \cup [st : steps, msg : messages]
Dead == [st |-> "dead", msg |-> NoMsg]

PassTypes ==
    /\ mount \in Mounts
    /\ clock \in 1 .. mount.seconds /\ made \in 0 .. mount.pushes
CollectorTypes ==
    /\ call \in [Threads -> Hand({"receive", "send"}, Pushed)]
    /\ channel \in [Comps -> Seq(Pushed)]
    /\ \A c \in Comps : Len(channel[c]) <= ChanCap
    /\ dumper \in [Comps -> Hand({"busy"}, Pushed) \cup {Dead}]
    /\ statsList \in [Comps -> [ts : 1 .. mount.seconds, val : SUBSET (1 .. mount.pushes)]]
    /\ cmpTimeMap \in [Comps -> 1 .. mount.seconds]
    /\ poller \in [st : {"idle", "busy", "dead"}, todo : SUBSET Comps]
MonitorTypes ==
    /\ monitor \in {"off", "on", "killed", "ended"}
    /\ pipe \in Seq(Message) /\ queue \in Seq(Message)
    /\ adder \in [Adders -> Hand({"receive", "send"}, Message)]

TypeInv == PassTypes /\ CollectorTypes /\ MonitorTypes

LEMMA TypeInvTypes == TypeInv => TypeOK
<1> SUFFICES ASSUME TypeInv PROVE TypeOK
  OBVIOUS
<1>1. ASSUME NEW c \in Comps PROVE channel[c] \in Seq(Message)
  <2>1. channel[c] \in Seq(Pushed) /\ Pushed \subseteq Message
    BY DEF TypeInv, CollectorTypes, Pushed
  <2> QED
    BY <2>1
<1> QED
  BY <1>1 DEF TypeInv, PassTypes, CollectorTypes, MonitorTypes, TypeOK

\* The bounds of a behaviour are numbers.
LEMMA MountTypes ==
    PassTypes => mount.seconds \in Nat \ {0} /\ mount.pushes \in Nat
  BY MountsAssumption DEF PassTypes

LEMMA NewPushed ==
    ASSUME PassTypes, made < mount.pushes, NEW kind \in {"event", "update", "usage"}, NEW c \in Comps
    PROVE  New(kind, c) \in Pushed
<1>1. made + 1 \in Nat /\ made + 1 \in 1 .. mount.pushes
  BY MountTypes DEF PassTypes
<1> QED
  BY <1>1 DEF PassTypes, New, Message, Pushed

LEMMA InitTypes == Init => TypeInv
<1> SUFFICES ASSUME Init PROVE TypeInv
  OBVIOUS
<1>1. PassTypes
  BY MountsAssumption DEF Init, PassTypes
<1>2. 1 \in 1 .. mount.seconds /\ ChanCap \in Nat
  BY <1>1, MountTypes, BoundsAssumption
<1>3. CollectorTypes
  BY <1>2 DEF Init, CollectorTypes, Hand, Idle
<1>4. MonitorTypes
  BY DEF Init, MonitorTypes, Hand, Idle
<1> QED
  BY <1>1, <1>3, <1>4 DEF TypeInv

\* What a step does to the parts: a message keeps its type, since the bounds stay.
LEMMA SameMessages == mount' = mount => Message' = Message /\ Pushed' = Pushed
  BY DEF Message, Pushed

LEMMA NextPassTypes == TypeInv /\ [Next]_vars => PassTypes' /\ mount' = mount
<1> SUFFICES ASSUME TypeInv, [Next]_vars PROVE PassTypes' /\ mount' = mount
  OBVIOUS
<1> USE DEF TypeInv, PassTypes
<1>0. mount.seconds \in Nat \ {0} /\ mount.pushes \in Nat
  BY MountTypes
<1>1. CASE Tick
  BY <1>0, <1>1 DEF Tick
<1>2. ASSUME NEW t \in Threads, NEW c \in Comps, NEW kind, Push(t, c, kind)
      PROVE  PassTypes' /\ mount' = mount
  BY <1>0, <1>2 DEF Push
<1>3. ASSUME NEW c \in Comps, Profiles(c)
      PROVE  PassTypes' /\ mount' = mount
  BY <1>0, <1>3 DEF Profiles
<1>4. CASE UNCHANGED <<mount, clock, made>>
  BY <1>4
<1>5. CASE UNCHANGED vars
  BY <1>4, <1>5 DEF vars
<1>6. ASSUME NEW t \in Threads, MakesRoom(t) \/ Sends(t)
      PROVE  UNCHANGED <<mount, clock, made>>
  BY <1>6 DEF MakesRoom, Sends
<1>7. ASSUME NEW c \in Comps,
             \/ Takes(c) \/ DumpsEvent(c) \/ DumperFails(c) \/ DumpsUpdate(c)
             \/ PollSkips(c) \/ PollSends(c)
      PROVE  UNCHANGED <<mount, clock, made>>
  BY <1>7 DEF Takes, DumpsEvent, DumperFails, DumpsUpdate, PollSkips, PollSends
<1>8. ASSUME NEW a \in Adders, AddMakesRoom(a) \/ AddMonitorStats(a)
      PROVE  UNCHANGED <<mount, clock, made>>
  BY <1>8 DEF AddMakesRoom, AddMonitorStats
<1>9. CASE PollStarts \/ PollEnds \/ PollFails \/ Destroy
  BY <1>4, <1>9 DEF PollStarts, PollEnds, PollFails, Destroy
<1>10. CASE \/ StartMonitor \/ KillMonitor \/ statsPoll \/ statsReader
            \/ StatsExporter \/ CloseExporter
  BY <1>4, <1>10 DEF StartMonitor, KillMonitor, statsPoll, statsReader, StatsExporter, CloseExporter
<1> QED
  BY <1>1, <1>2, <1>3, <1>4, <1>5, <1>6, <1>7, <1>8, <1>9, <1>10 DEF Next

LEMMA HandMessage ==
    ASSUME NEW steps, NEW messages, NEW h \in Hand(steps, messages) \cup {Dead},
           h.st \notin {"idle", "dead"}
    PROVE  h.st \in steps /\ h.msg \in messages
  BY DEF Hand, Idle, Dead

LEMMA HandStep ==
    ASSUME NEW steps, NEW messages, NEW h \in Hand(steps, messages), h.st # "idle", NEW st \in steps
    PROVE  [h EXCEPT !.st = st] \in Hand(steps, messages)
  BY DEF Hand, Idle

LEMMA Sequences ==
    ASSUME NEW S, NEW s \in Seq(S)
    PROVE  /\ Len(s) \in Nat
           /\ \A x \in S : Append(s, x) \in Seq(S) /\ Len(Append(s, x)) = Len(s) + 1
           /\ s # <<>> => Head(s) \in S /\ Tail(s) \in Seq(S) /\ Len(Tail(s)) = Len(s) - 1
                          /\ Len(s) > 0
  OBVIOUS

LEMMA CallTypes ==
    ASSUME TypeInv, NEW t \in Threads, NEW c \in Comps, NEW kind \in {"event", "update"},
           Push(t, c, kind) \/ MakesRoom(t) \/ Sends(t)
    PROVE  CollectorTypes'
<1> USE DEF TypeInv, CollectorTypes
<1>0. mount' = mount /\ Pushed' = Pushed
  BY SameMessages DEF Push, MakesRoom, Sends
<1>1. CASE Push(t, c, kind)
  <2>1. New(kind, c) \in Pushed
    BY <1>1, NewPushed DEF Push
  <2>2. call' \in [Threads -> Hand({"receive", "send"}, Pushed)]
    BY <1>1, <2>1 DEF Push, Hand
  <2> QED
    BY <1>0, <1>1, <2>2 DEF Push
<1>2. CASE MakesRoom(t)
  <2> DEFINE d == call[t].msg.comp
  <2>1. call[t].msg \in Pushed /\ d \in Comps
    <3>1. call[t] \in Hand({"receive", "send"}, Pushed) /\ call[t].st = "receive"
      BY <1>2 DEF MakesRoom
    <3>2. call[t].msg \in Pushed
      BY <3>1, HandMessage
    <3> QED
      BY <3>2 DEF Pushed, Message
  <2>2. channel[d] \in Seq(Pushed) /\ channel[d] # <<>> /\ channel' = [channel EXCEPT ![d] = Tail(@)]
    BY <1>2, <2>1 DEF MakesRoom
  <2> HIDE DEF d
  <2>3. channel' \in [Comps -> Seq(Pushed)] /\ \A e \in Comps : Len(channel'[e]) <= ChanCap
    <3>1. Tail(channel[d]) \in Seq(Pushed) /\ Len(Tail(channel[d])) = Len(channel[d]) - 1
          /\ Len(channel[d]) \in Nat /\ Len(channel[d]) <= ChanCap /\ ChanCap \in Nat
      BY <2>1, <2>2, Sequences, BoundsAssumption
    <3> QED
      BY <2>1, <2>2, <3>1
  <2>4. call' \in [Threads -> Hand({"receive", "send"}, Pushed)]
    BY <1>2, HandStep DEF MakesRoom
  <2> QED
    BY <1>0, <1>2, <2>3, <2>4 DEF MakesRoom
<1>3. CASE Sends(t)
  <2> DEFINE d == call[t].msg.comp
  <2>1. call[t].msg \in Pushed /\ d \in Comps
    <3>1. call[t] \in Hand({"receive", "send"}, Pushed) /\ call[t].st = "send"
      BY <1>3 DEF Sends
    <3>2. call[t].msg \in Pushed
      BY <3>1, HandMessage
    <3> QED
      BY <3>2 DEF Pushed, Message
  <2>2. channel[d] \in Seq(Pushed) /\ Len(channel[d]) < ChanCap
        /\ channel' = [channel EXCEPT ![d] = Append(@, call[t].msg)]
    BY <1>3, <2>1 DEF Sends
  <2> HIDE DEF d
  <2>3. channel' \in [Comps -> Seq(Pushed)] /\ \A e \in Comps : Len(channel'[e]) <= ChanCap
    <3>1. Append(channel[d], call[t].msg) \in Seq(Pushed)
          /\ Len(Append(channel[d], call[t].msg)) = Len(channel[d]) + 1
          /\ Len(channel[d]) \in Nat /\ ChanCap \in Nat
      BY <2>1, <2>2, Sequences, BoundsAssumption
    <3> QED
      BY <2>1, <2>2, <3>1
  <2>4. call' \in [Threads -> Hand({"receive", "send"}, Pushed)]
    BY <1>3 DEF Sends, Hand
  <2> QED
    BY <1>0, <1>3, <2>3, <2>4 DEF Sends
<1> QED
  BY <1>1, <1>2, <1>3

LEMMA DumperTypes ==
    ASSUME TypeInv, NEW c \in Comps,
           Takes(c) \/ DumpsEvent(c) \/ DumperFails(c) \/ DumpsUpdate(c)
    PROVE  CollectorTypes'
<1> USE DEF TypeInv, CollectorTypes
<1>0. mount' = mount /\ Pushed' = Pushed
  BY SameMessages DEF Takes, DumpsEvent, DumperFails, DumpsUpdate
<1>1. CASE Takes(c)
  <2>1. /\ Head(channel[c]) \in Pushed /\ Tail(channel[c]) \in Seq(Pushed)
        /\ Len(Tail(channel[c])) = Len(channel[c]) - 1
        /\ Len(channel[c]) \in Nat /\ Len(channel[c]) <= ChanCap /\ ChanCap \in Nat
    BY <1>1, Sequences, BoundsAssumption DEF Takes
  <2>2. dumper' \in [Comps -> Hand({"busy"}, Pushed) \cup {Dead}]
    BY <1>1, <2>1 DEF Takes, Hand
  <2> QED
    BY <1>0, <1>1, <2>1, <2>2 DEF Takes
<1>2. CASE DumpsEvent(c)
  BY <1>0, <1>2 DEF DumpsEvent, Hand
<1>3. CASE DumperFails(c)
  <2>1. dumper' \in [Comps -> Hand({"busy"}, Pushed) \cup {Dead}]
    BY <1>3 DEF DumperFails, Dead
  <2> QED
    BY <1>0, <1>3, <2>1 DEF DumperFails
<1>4. CASE DumpsUpdate(c)
  <2>1. dumper[c].msg \in Pushed
    BY <1>4, HandMessage DEF DumpsUpdate
  <2>2. dumper[c].msg.ts \in 1 .. mount.seconds /\ dumper[c].msg.id \in 1 .. mount.pushes
    BY <2>1 DEF Pushed, Message
  <2>3. statsList' \in [Comps -> [ts : 1 .. mount.seconds, val : SUBSET (1 .. mount.pushes)]]
    BY <1>4, <2>2 DEF DumpsUpdate
  <2>4. dumper' \in [Comps -> Hand({"busy"}, Pushed) \cup {Dead}]
    BY <1>4 DEF DumpsUpdate, Hand
  <2> QED
    BY <1>0, <1>4, <2>3, <2>4 DEF DumpsUpdate
<1> QED
  BY <1>1, <1>2, <1>3, <1>4

LEMMA PollerTypes ==
    ASSUME TypeInv, NEW c \in Comps,
           PollStarts \/ PollSkips(c) \/ PollSends(c) \/ PollEnds \/ PollFails
    PROVE  CollectorTypes'
<1> USE DEF TypeInv, CollectorTypes
<1>0. mount' = mount /\ Pushed' = Pushed
  BY SameMessages DEF PollStarts, PollSkips, PollSends, PollEnds, PollFails
<1>1. poller' \in [st : {"idle", "busy", "dead"}, todo : SUBSET Comps]
  BY DEF PollStarts, PollSkips, PollSends, PollEnds, PollFails
<1>2. cmpTimeMap' \in [Comps -> 1 .. mount.seconds]
  BY DEF PollStarts, PollSkips, PollSends, PollEnds, PollFails
<1> QED
  BY <1>0, <1>1, <1>2 DEF PollStarts, PollSkips, PollSends, PollEnds, PollFails
LEMMA NextCollectorTypes == TypeInv /\ [Next]_vars => CollectorTypes'
<1> SUFFICES ASSUME TypeInv, [Next]_vars PROVE CollectorTypes'
  OBVIOUS
<1>1. ASSUME mount' = mount, UNCHANGED mountVars PROVE CollectorTypes'
  <2>1. Pushed' = Pushed
    BY <1>1, SameMessages
  <2> QED
    BY <1>1, <2>1 DEF TypeInv, CollectorTypes, mountVars
<1>2. ASSUME NEW t \in Threads, NEW c \in Comps, NEW kind \in {"event", "update"},
             Push(t, c, kind) \/ MakesRoom(t) \/ Sends(t)
      PROVE  CollectorTypes'
  BY <1>2, CallTypes
<1>3. ASSUME NEW t \in Threads, MakesRoom(t) \/ Sends(t)
      PROVE  CollectorTypes'
  <2>1. call[t].st # "idle" /\ call[t] \in Hand({"receive", "send"}, Pushed)
    BY <1>3 DEF MakesRoom, Sends, TypeInv, CollectorTypes
  <2>2. call[t].st \in {"receive", "send"} /\ call[t].msg \in Pushed
    BY <2>1, HandMessage, <1>3 DEF MakesRoom, Sends
  <2>3. PICK c \in Comps : TRUE
    BY <2>2 DEF Pushed, Message
  <2> QED
    BY <1>2, <1>3, <2>3
<1>4. ASSUME NEW c \in Comps, Takes(c) \/ DumpsEvent(c) \/ DumperFails(c) \/ DumpsUpdate(c)
      PROVE  CollectorTypes'
  BY <1>4, DumperTypes
<1>5. ASSUME NEW c \in Comps, PollSkips(c) \/ PollSends(c)
      PROVE  CollectorTypes'
  BY <1>5, PollerTypes
<1>6. CASE PollStarts \/ PollEnds \/ PollFails
  <2>1. mount' = mount /\ Pushed' = Pushed
    BY <1>6, SameMessages DEF PollStarts, PollEnds, PollFails
  <2>2. poller' \in [st : {"idle", "busy", "dead"}, todo : SUBSET Comps]
    BY <1>6 DEF PollStarts, PollEnds, PollFails, TypeInv, CollectorTypes
  <2> QED
    BY <1>6, <2>1, <2>2 DEF PollStarts, PollEnds, PollFails, TypeInv, CollectorTypes
<1>7. CASE Destroy
  <2>1. mount' = mount /\ Pushed' = Pushed
    BY <1>7, SameMessages DEF Destroy
  <2> QED
    BY <1>7, <2>1 DEF Destroy, TypeInv, CollectorTypes
<1>8. CASE \/ Tick \/ StartMonitor \/ KillMonitor \/ statsPoll \/ statsReader
           \/ StatsExporter \/ CloseExporter \/ UNCHANGED vars
  BY <1>1, <1>8 DEF Tick, StartMonitor, KillMonitor, statsPoll, statsReader, StatsExporter,
                    CloseExporter, vars
<1>9. ASSUME NEW c \in Comps, Profiles(c)
      PROVE  CollectorTypes'
  BY <1>1, <1>9 DEF Profiles
<1>10. ASSUME NEW a \in Adders, AddMakesRoom(a) \/ AddMonitorStats(a)
       PROVE  CollectorTypes'
  BY <1>1, <1>10 DEF AddMakesRoom, AddMonitorStats
<1> QED
  BY <1>2, <1>3, <1>4, <1>5, <1>6, <1>7, <1>8, <1>9, <1>10 DEF Next

\* What goes into the pipe: an event of a dumper, or a poll.
LEMMA PipeGrows ==
    ASSUME TypeInv, NEW c \in Comps, DumpsEvent(c) \/ PollSends(c)
    PROVE  MonitorTypes'
<1> USE DEF TypeInv
<1>0. mount' = mount /\ Message' = Message
  BY SameMessages DEF DumpsEvent, PollSends
<1>1. \E m \in Message : pipe' = Append(pipe, m)
  <2>1. CASE DumpsEvent(c)
    <3>1. dumper[c] \in Hand({"busy"}, Pushed) \cup {Dead} /\ dumper[c].st = "busy"
      BY <2>1 DEF DumpsEvent, CollectorTypes
    <3>2. dumper[c].msg \in Pushed
      BY <3>1, HandMessage
    <3> QED
      BY <2>1, <3>2 DEF DumpsEvent, Pushed
  <2>2. CASE PollSends(c)
    <3> DEFINE m == [kind |-> "poll", id |-> 0, comp |-> c, ts |-> statsList[c].ts,
                     val |-> statsList[c].val]
    <3>1. statsList[c] \in [ts : 1 .. mount.seconds, val : SUBSET (1 .. mount.pushes)]
      BY DEF CollectorTypes
    <3>2. m \in Message
      BY <3>1 DEF Message
    <3> QED
      BY <2>2, <3>2 DEF PollSends
  <2> QED
    BY <2>1, <2>2
<1>2. pipe' \in Seq(Message)
  BY <1>1, Sequences DEF MonitorTypes
<1> QED
  BY <1>0, <1>2 DEF MonitorTypes, DumpsEvent, PollSends

LEMMA AddedTypes ==
    ASSUME NEW m \in Message PROVE Added(m) \in Hand({"receive", "send"}, Message)
  BY DEF Added, Hand

\* What the monitor's own goroutines do.
LEMMA ReaderTypes ==
    ASSUME TypeInv, statsReader PROVE MonitorTypes'
<1>1. mount' = mount /\ Message' = Message
  BY SameMessages DEF statsReader
<1>2. Head(pipe) \in Message /\ Tail(pipe) \in Seq(Message)
  BY Sequences DEF statsReader, TypeInv, MonitorTypes
<1>3. Added(Head(pipe)) \in Hand({"receive", "send"}, Message)
  BY <1>2, AddedTypes
<1>4. adder' \in [Adders -> Hand({"receive", "send"}, Message)]
  BY <1>3 DEF statsReader, TypeInv, MonitorTypes
<1> QED
  BY <1>1, <1>2, <1>4 DEF statsReader, TypeInv, MonitorTypes

LEMMA ProfilerTypes ==
    ASSUME TypeInv, NEW c \in Comps, Profiles(c) PROVE MonitorTypes'
<1>1. mount' = mount /\ Message' = Message
  BY SameMessages DEF Profiles
<1>2. New("usage", c) \in Message
  BY NewPushed DEF TypeInv, Profiles, Pushed
<1>3. Added(New("usage", c)) \in Hand({"receive", "send"}, Message)
  BY <1>2, AddedTypes
<1>4. adder' \in [Adders -> Hand({"receive", "send"}, Message)]
  BY <1>3 DEF Profiles, TypeInv, MonitorTypes
<1> QED
  BY <1>1, <1>4 DEF Profiles, TypeInv, MonitorTypes

LEMMA AddTypes ==
    ASSUME TypeInv, NEW a \in Adders, AddMakesRoom(a) \/ AddMonitorStats(a)
    PROVE  MonitorTypes'
<1> USE DEF TypeInv
<1>1. mount' = mount /\ Message' = Message
  BY SameMessages DEF AddMakesRoom, AddMonitorStats
<1>2. CASE AddMakesRoom(a)
  <2>1. Tail(queue) \in Seq(Message)
    BY <1>2, Sequences DEF AddMakesRoom, MonitorTypes
  <2>2. [adder[a] EXCEPT !.st = "send"] \in Hand({"receive", "send"}, Message)
    BY <1>2, HandStep DEF AddMakesRoom, MonitorTypes
  <2>3. adder' \in [Adders -> Hand({"receive", "send"}, Message)]
    BY <1>2, <2>2 DEF AddMakesRoom, MonitorTypes
  <2> QED
    BY <1>1, <1>2, <2>1, <2>3 DEF AddMakesRoom, MonitorTypes
<1>3. CASE AddMonitorStats(a)
  <2>1. adder[a] \in Hand({"receive", "send"}, Message) /\ adder[a].st = "send"
    BY <1>3 DEF AddMonitorStats, MonitorTypes
  <2>2. adder[a].msg \in Message
    BY <2>1, HandMessage
  <2>3. Append(queue, adder[a].msg) \in Seq(Message)
    BY <2>2, Sequences DEF MonitorTypes
  <2>4. adder' \in [Adders -> Hand({"receive", "send"}, Message)]
    BY <1>3 DEF AddMonitorStats, MonitorTypes, Hand
  <2> QED
    BY <1>1, <1>3, <2>3, <2>4 DEF AddMonitorStats, MonitorTypes
<1> QED
  BY <1>2, <1>3

LEMMA NextMonitorTypes == TypeInv /\ [Next]_vars => MonitorTypes'
<1> SUFFICES ASSUME TypeInv, [Next]_vars PROVE MonitorTypes'
  OBVIOUS
<1>1. ASSUME mount' = mount, UNCHANGED <<monitor, pipe, queue, adder>> PROVE MonitorTypes'
  <2>1. Message' = Message
    BY <1>1, SameMessages
  <2> QED
    BY <1>1, <2>1 DEF TypeInv, MonitorTypes
<1>2. CASE StartMonitor \/ KillMonitor \/ StatsExporter \/ CloseExporter
  <2>1. mount' = mount /\ Message' = Message
    BY <1>2, SameMessages DEF StartMonitor, KillMonitor, StatsExporter, CloseExporter
  <2>2. CASE StartMonitor \/ CloseExporter
    BY <2>1, <2>2 DEF StartMonitor, CloseExporter, TypeInv, MonitorTypes
  <2>3. CASE KillMonitor
    BY <2>1, <2>3 DEF KillMonitor, TypeInv, MonitorTypes, Hand
  <2>4. CASE StatsExporter
    <3>1. Tail(queue) \in Seq(Message)
      BY <2>4, Sequences DEF StatsExporter, TypeInv, MonitorTypes
    <3> QED
      BY <2>1, <2>4, <3>1 DEF StatsExporter, TypeInv, MonitorTypes
  <2> QED
    BY <1>2, <2>2, <2>3, <2>4
<1>3. ASSUME NEW c \in Comps, DumpsEvent(c) \/ PollSends(c) PROVE MonitorTypes'
  BY <1>3, PipeGrows
<1>4. ASSUME NEW c \in Comps, Profiles(c) PROVE MonitorTypes'
  BY <1>4, ProfilerTypes
<1>5. ASSUME NEW a \in Adders, AddMakesRoom(a) \/ AddMonitorStats(a) PROVE MonitorTypes'
  BY <1>5, AddTypes
<1>6. CASE statsReader
  BY <1>6, ReaderTypes
<1>7. ASSUME NEW t \in Threads, NEW c \in Comps, NEW kind, Push(t, c, kind) PROVE MonitorTypes'
  BY <1>1, <1>7 DEF Push
<1>8. ASSUME NEW t \in Threads, MakesRoom(t) \/ Sends(t) PROVE MonitorTypes'
  BY <1>1, <1>8 DEF MakesRoom, Sends
<1>9. ASSUME NEW c \in Comps, Takes(c) \/ DumperFails(c) \/ DumpsUpdate(c) \/ PollSkips(c)
      PROVE  MonitorTypes'
  BY <1>1, <1>9 DEF Takes, DumperFails, DumpsUpdate, PollSkips
<1>10. CASE \/ Tick \/ PollStarts \/ PollEnds \/ PollFails \/ Destroy \/ statsPoll \/ UNCHANGED vars
  BY <1>1, <1>10 DEF Tick, PollStarts, PollEnds, PollFails, Destroy, statsPoll, vars
<1> QED
  BY <1>2, <1>3, <1>4, <1>5, <1>6, <1>7, <1>8, <1>9, <1>10 DEF Next

LEMMA NextTypes == TypeInv /\ [Next]_vars => TypeInv'
  BY NextPassTypes, NextCollectorTypes, NextMonitorTypes DEF TypeInv
-----------------------------------------------------------------------------
(* The output files                                                        *)

Record == [ts : 1 .. mount.seconds, items : Seq(Message), usage : SUBSET Message]
Line == Record \cup {Open, Comma, Close}

\* A file that records are still added to: a comma follows each of them.
Begun(file) ==
    /\ file \in Seq(Line) /\ Len(file) % 2 = 1 /\ file[1] = Open
    /\ \A i \in 2 .. Len(file) : IF i % 2 = 1 THEN file[i] = Comma ELSE file[i] \in Record
Older(f) ==
    \A i \in 1 .. FileCount - 1 :
        IF f[i] = <<>> THEN \A j \in i .. FileCount - 1 : f[j] = <<>> ELSE Whole(f[i])

\* The last conjunct is why the file that Destroy closes ends with a bracket: the list
\* is only empty before the first message, when the file has no record either.
FilesInv ==
    /\ outputList \in Seq(Record)
    /\ files \in [0 .. FileCount - 1 -> Seq(Line)]
    /\ Older(files)
    /\ IF monitor = "ended" /\ Records(files[0]) # {} THEN Whole(files[0]) ELSE Begun(files[0])
    /\ monitor \in {"off", "on"} /\ outputList = <<>> => files[0] = <<Open>>

Inv == TypeInv /\ FilesInv

LEMMA SameRecords == mount' = mount => Record' = Record /\ Line' = Line
  BY SameMessages DEF Record, Line

LEMMA RecordTypes ==
    ASSUME PassTypes
    PROVE  /\ \A r \in Record : r \in Line /\ r.ts > 0 /\ r # Comma
           /\ Open \in Line /\ Comma \in Line /\ Close \in Line
           /\ Open.ts = 0 /\ Comma.ts = -1
           /\ FileCount \in Nat /\ FileCount > 1 /\ Keep \in Nat /\ Keep > 0
  BY MountTypes, BoundsAssumption DEF Record, Line, Open, Comma, Close, Blank

LEMMA AddToListTypes ==
    ASSUME PassTypes, NEW m \in Message
    PROVE  /\ \A op \in Record : addToList(op, m) \in Record
           /\ addToList(Blank(m.ts), m) \in Record
<1>1. ASSUME NEW op \in Record PROVE addToList(op, m) \in Record
  <2>1. Append(op.items, m) \in Seq(Message)
    BY Sequences DEF Record
  <2> QED
    BY <2>1 DEF Record, addToList
<1>2. Blank(m.ts) \in Record
  BY DEF Blank, Record, Message
<1> QED
  BY <1>1, <1>2

\* One more record, and a comma or the end of the array.
LEMMA OneMoreRecord ==
    ASSUME PassTypes, NEW file, Begun(file), NEW r \in Record
    PROVE  /\ Begun(Append(Append(file, r), Comma))
           /\ Append(Append(file, r), Close) \in Seq(Line)
           /\ Whole(Append(Append(file, r), Close))
<1> DEFINE n == Len(file)
           g == Append(Append(file, r), Comma)
           h == Append(Append(file, r), Close)
<1>1. file \in Seq(Line) /\ n \in Nat /\ n % 2 = 1 /\ n > 0 /\ file[1] = Open
      /\ \A i \in 2 .. n : IF i % 2 = 1 THEN file[i] = Comma ELSE file[i] \in Record
  BY DEF Begun
<1>2. r \in Line /\ Comma \in Line /\ Close \in Line
  BY RecordTypes
<1>3. Append(file, r) \in Seq(Line) /\ Len(Append(file, r)) = n + 1
  BY <1>1, <1>2
<1>4. g \in Seq(Line) /\ Len(g) = n + 2 /\ h \in Seq(Line) /\ Len(h) = n + 2
  BY <1>2, <1>3, <1>1
<1>5. /\ \A i \in 1 .. n : g[i] = file[i] /\ h[i] = file[i]
      /\ g[n + 1] = r /\ h[n + 1] = r /\ g[n + 2] = Comma /\ h[n + 2] = Close
  BY <1>1, <1>2, <1>3
<1> HIDE DEF g, h, n
<1>6. (n + 1) % 2 = 0 /\ (n + 2) % 2 = 1
  BY <1>1
<1>7. Begun(g)
  <2>1. ASSUME NEW i \in 2 .. n + 2 PROVE IF i % 2 = 1 THEN g[i] = Comma ELSE g[i] \in Record
    <3>1. CASE i \in 2 .. n
      BY <1>1, <1>5, <3>1
    <3>2. CASE i = n + 1
      BY <1>5, <1>6, <3>2
    <3>3. CASE i = n + 2
      BY <1>5, <1>6, <3>3
    <3> QED
      BY <1>1, <3>1, <3>2, <3>3
  <2> QED
    BY <1>1, <1>4, <1>5, <1>6, <2>1 DEF Begun
<1>8. Whole(h)
  <2>1. ASSUME NEW i \in 2 .. n + 1 PROVE (h[i] = Comma) <=> (i % 2 = 1)
    <3>1. CASE i \in 2 .. n
      <4>1. h[i] = file[i] /\ IF i % 2 = 1 THEN file[i] = Comma ELSE file[i] \in Record
        BY <1>1, <1>5, <3>1
      <4> QED
        BY <4>1, RecordTypes
    <3>2. CASE i = n + 1
      BY <1>5, <1>6, <3>2, RecordTypes
    <3> QED
      BY <1>1, <3>1, <3>2
  <2>2. n + 1 \in Records(h)
    BY <1>1, <1>4, <1>5, RecordTypes DEF Records
  <2> QED
    BY <1>1, <1>4, <1>5, <1>6, <2>1, <2>2 DEF Whole
<1> QED
  BY <1>4, <1>7, <1>8 DEF g, h

\* What Destroy writes: nothing of an empty list, else the rest of the array.
LEMMA WrittenWhole ==
    ASSUME PassTypes, NEW file, Begun(file), NEW list \in Seq(Record)
    PROVE  /\ Written(file, list) \in Seq(Line)
           /\ list = <<>> => Written(file, list) = file
           /\ list # <<>> => Whole(Written(file, list))
<1> DEFINE n == Len(file)
           k == Len(list)
           rest == [i \in 1 .. 2 * k |->
                       CASE i % 2 = 1 -> list[(i + 1) \div 2]
                         [] i = 2 * k -> Close
                         [] OTHER -> Comma]
           w == file \o rest
<1>1. file \in Seq(Line) /\ n \in Nat /\ n % 2 = 1 /\ n > 0 /\ file[1] = Open
      /\ \A i \in 2 .. n : IF i % 2 = 1 THEN file[i] = Comma ELSE file[i] \in Record
  BY DEF Begun
<1>2. k \in Nat /\ \A i \in 1 .. k : list[i] \in Record
  OBVIOUS
<1>3. ASSUME NEW i \in 1 .. 2 * k
      PROVE  /\ i % 2 = 1 => rest[i] \in Record
             /\ i % 2 # 1 => rest[i] = IF i = 2 * k THEN Close ELSE Comma
             /\ rest[i] \in Line
  <2>1. CASE i % 2 = 1
    <3>1. (i + 1) \div 2 \in 1 .. k
      BY <1>2, <2>1
    <3>2. rest[i] = list[(i + 1) \div 2]
      BY <2>1
    <3> QED
      BY <1>2, <2>1, <3>1, <3>2, RecordTypes
  <2>2. CASE i % 2 # 1
    <3>1. rest[i] = IF i = 2 * k THEN Close ELSE Comma
      BY <2>2
    <3> QED
      BY <2>2, <3>1, RecordTypes
  <2> QED
    BY <2>1, <2>2
<1>4. rest \in Seq(Line) /\ Len(rest) = 2 * k
  <2>1. rest \in [1 .. 2 * k -> Line] /\ 2 * k \in Nat
    BY <1>2, <1>3
  <2> HIDE DEF rest
  <2> QED
    BY <2>1
<1> HIDE DEF rest
<1>5. w \in Seq(Line) /\ Len(w) = n + 2 * k
      /\ (\A i \in 1 .. n : w[i] = file[i]) /\ (\A i \in n + 1 .. n + 2 * k : w[i] = rest[i - n])
  <2>1. \A i \in 1 .. Len(file) + Len(rest) :
           w[i] = IF i <= Len(file) THEN file[i] ELSE rest[i - Len(file)]
    BY <1>1, <1>4
  <2>2. w \in Seq(Line) /\ Len(w) = Len(file) + Len(rest)
    BY <1>1, <1>4, ConcatProperties
  <2> HIDE DEF w
  <2> QED
    BY <1>1, <1>2, <1>4, <2>1, <2>2
<1>6. w = Written(file, list)
  BY DEF Written, rest
<1>7. ASSUME k = 0 PROVE w = file
  <2>1. rest = <<>>
    BY <1>4, <1>7, EmptySeq
  <2> QED
    BY <1>1, <2>1, ConcatEmptySeq
<1> HIDE DEF w
<1>8. ASSUME k > 0 PROVE Whole(w)
  <2>1. Len(w) % 2 = 1 /\ w[1] = Open /\ w[Len(w)] = Close
    <3>1. 2 * k \in 1 .. 2 * k /\ (2 * k) % 2 # 1 /\ rest[2 * k] = Close
      BY <1>2, <1>3, <1>8
    <3> QED
      BY <1>1, <1>2, <1>5, <1>8, <3>1
  <2>2. ASSUME NEW i \in 2 .. n + 2 * k - 1 PROVE (w[i] = Comma) <=> (i % 2 = 1)
    <3>1. CASE i \in 2 .. n
      <4>1. w[i] = file[i] /\ IF i % 2 = 1 THEN file[i] = Comma ELSE file[i] \in Record
        BY <1>1, <1>5, <3>1
      <4> QED
        BY <4>1, RecordTypes
    <3>2. CASE i \in n + 1 .. n + 2 * k - 1
      <4>1. i - n \in 1 .. 2 * k /\ i - n # 2 * k /\ w[i] = rest[i - n]
        BY <1>1, <1>2, <1>5, <3>2
      <4>2. (i % 2 = 1) <=> ((i - n) % 2 # 1)
        BY <1>1, <3>2
      <4> QED
        BY <1>3, <4>1, <4>2, RecordTypes
    <3> QED
      BY <1>1, <1>2, <3>1, <3>2
  <2>3. n + 1 \in Records(w)
    <3>1. 1 \in 1 .. 2 * k /\ 1 % 2 = 1 /\ n + 1 \in n + 1 .. n + 2 * k /\ (n + 1) - n = 1
      BY <1>1, <1>2, <1>8
    <3>2. w[n + 1] = rest[1] /\ rest[1] \in Record
      BY <1>3, <1>5, <3>1
    <3> QED
      BY <1>1, <1>2, <1>5, <1>8, <3>2, RecordTypes DEF Records
  <2> QED
    BY <1>5, <2>1, <2>2, <2>3 DEF Whole
<1>9. k = 0 <=> list = <<>>
  BY EmptySeq
<1> QED
  BY <1>2, <1>5, <1>6, <1>7, <1>8, <1>9
\* A record more: the current file goes on, or all files move on by one.
LEMMA AddToOutputFile ==
    ASSUME PassTypes, NEW f \in [0 .. FileCount - 1 -> Seq(Line)], Older(f), Begun(f[0]),
           NEW op \in Record
    PROVE  /\ addToOutputFile(f, op) \in [0 .. FileCount - 1 -> Seq(Line)]
           /\ Older(addToOutputFile(f, op))
           /\ Begun(addToOutputFile(f, op)[0])
<1> DEFINE g == [f EXCEPT ![0] = Append(@, op)]
           on == [g EXCEPT ![0] = Append(@, Comma)]
           full == [g EXCEPT ![0] = Append(@, Close)]
           moved == getNewFile(full)
<1>1. 0 \in 0 .. FileCount - 1 /\ FileCount \in Nat /\ FileCount > 1
  BY RecordTypes
<1>2. on[0] = Append(Append(f[0], op), Comma) /\ full[0] = Append(Append(f[0], op), Close)
  BY <1>1
<1>3. \A i \in 1 .. FileCount - 1 : on[i] = f[i] /\ full[i] = f[i]
  BY <1>1
<1>4. DOMAIN on = 0 .. FileCount - 1 /\ DOMAIN full = 0 .. FileCount - 1
      /\ on = [i \in 0 .. FileCount - 1 |-> on[i]] /\ full = [i \in 0 .. FileCount - 1 |-> full[i]]
  OBVIOUS
<1>5. Begun(on[0]) /\ full[0] \in Seq(Line) /\ Whole(full[0])
  BY <1>2, OneMoreRecord
<1>6. addToOutputFile(f, op) = IF Cardinality(Records(g[0])) >= FileMax THEN moved ELSE on
  BY DEF addToOutputFile, checkOutputFile
<1> HIDE DEF on, full, g
<1>7. CASE addToOutputFile(f, op) = on
  <2>1. on \in [0 .. FileCount - 1 -> Seq(Line)]
    <3>1. ASSUME NEW i \in 0 .. FileCount - 1 PROVE on[i] \in Seq(Line)
      <4>1. CASE i = 0
        BY <1>5, <4>1 DEF Begun
      <4>2. CASE i \in 1 .. FileCount - 1
        BY <1>3, <4>2
      <4> QED
        BY <1>1, <4>1, <4>2
    <3> QED
      BY <1>4, <3>1
  <2>2. Older(on)
    BY <1>1, <1>3 DEF Older
  <2> QED
    BY <1>5, <1>7, <2>1, <2>2
<1>8. CASE addToOutputFile(f, op) = moved
  <2>1. moved[0] = <<Open>> /\ \A i \in 1 .. FileCount - 1 : moved[i] = full[i - 1]
    BY <1>1 DEF getNewFile
  <2>2. Begun(moved[0])
    <3>1. <<Open>> \in Seq(Line) /\ Len(<<Open>>) = 1 /\ <<Open>>[1] = Open
      BY RecordTypes
    <3> QED
      BY <2>1, <3>1 DEF Begun
  <2>3. moved \in [0 .. FileCount - 1 -> Seq(Line)]
    <3>1. ASSUME NEW i \in 0 .. FileCount - 1 PROVE moved[i] \in Seq(Line)
      <4>1. CASE i = 0
        BY <2>2, <4>1 DEF Begun
      <4>2. CASE i = 1
        BY <1>1, <1>5, <2>1, <4>2
      <4>3. CASE i > 1
        BY <1>1, <1>3, <2>1, <4>3
      <4> QED
        BY <1>1, <4>1, <4>2, <4>3
    <3> QED
      BY <3>1 DEF getNewFile
  <2>4. moved[1] = full[0] /\ \A i \in 2 .. FileCount - 1 : moved[i] = f[i - 1]
    BY <1>1, <1>3, <2>1
  <2> HIDE DEF moved
  <2>5. moved[1] # <<>>
    <3>1. Len(full[0]) % 2 = 1
      BY <1>5 DEF Whole
    <3>2. Len(full[0]) # 0
      <4>1. PICK n \in Nat : n = Len(full[0])
        BY <1>5
      <4>2. n % 2 = 1
        BY <3>1, <4>1
      <4>3. n # 0
        BY <4>2
      <4> QED
        BY <4>1, <4>3
    <3>3. full[0] # <<>>
      BY <3>2, EmptySeq
    <3> QED
      BY <2>4, <3>3
  <2>6. ASSUME NEW i \in 1 .. FileCount - 1
        PROVE  IF moved[i] = <<>> THEN \A j \in i .. FileCount - 1 : moved[j] = <<>>
               ELSE Whole(moved[i])
    <3>1. CASE i = 1
      BY <1>5, <2>4, <2>5, <3>1
    <3>2. CASE i > 1
      <4>1. i - 1 \in 1 .. FileCount - 1 /\ moved[i] = f[i - 1]
        BY <1>1, <2>4, <3>2
      <4>2. IF f[i - 1] = <<>> THEN \A j \in i - 1 .. FileCount - 1 : f[j] = <<>>
            ELSE Whole(f[i - 1])
        BY <4>1 DEF Older
      <4>3. ASSUME moved[i] = <<>>, NEW j \in i .. FileCount - 1 PROVE moved[j] = <<>>
        <5>1. j \in 2 .. FileCount - 1 /\ j - 1 \in i - 1 .. FileCount - 1
          BY <1>1, <3>2
        <5> QED
          BY <2>4, <4>1, <4>2, <4>3, <5>1
      <4> QED
        BY <4>1, <4>2, <4>3
    <3> QED
      BY <1>1, <3>1, <3>2
  <2> QED
    BY <1>8, <2>2, <2>3, <2>6 DEF Older
<1> QED
  BY <1>6, <1>7, <1>8

LEMMA InitFiles == Init => FilesInv
<1> SUFFICES ASSUME Init PROVE FilesInv
  OBVIOUS
<1>1. PassTypes
  BY InitTypes DEF TypeInv
<1>2. <<Open>> \in Seq(Line) /\ <<>> \in Seq(Line) /\ Len(<<Open>>) = 1 /\ <<Open>>[1] = Open
      /\ 0 \in 0 .. FileCount - 1 /\ FileCount \in Nat
  BY <1>1, RecordTypes
<1>3. files \in [0 .. FileCount - 1 -> Seq(Line)] /\ files[0] = <<Open>>
      /\ \A i \in 1 .. FileCount - 1 : files[i] = <<>>
  BY <1>2 DEF Init
<1>4. Begun(files[0])
  BY <1>2, <1>3 DEF Begun
<1>5. Older(files)
  BY <1>2, <1>3 DEF Older
<1>6. outputList = <<>> /\ outputList \in Seq(Record) /\ monitor = "off"
  BY DEF Init
<1> QED
  BY <1>3, <1>4, <1>5, <1>6 DEF FilesInv

LEMMA StatsExporterFiles == Inv /\ StatsExporter => FilesInv'
<1> SUFFICES ASSUME Inv, StatsExporter PROVE FilesInv'
  OBVIOUS
<1> DEFINE m == Head(queue)
           idx == checkInList(m.ts)
           flush == idx = {} /\ Len(outputList) >= Keep
           kept == IF flush THEN Tail(outputList) ELSE outputList
           changed == [i \in DOMAIN outputList |->
                          IF i \in idx THEN addToList(outputList[i], m) ELSE outputList[i]]
           longer == Append(kept, addToList(Blank(m.ts), m))
<1>1. PassTypes /\ outputList \in Seq(Record) /\ mount' = mount
      /\ files \in [0 .. FileCount - 1 -> Seq(Line)] /\ Older(files)
      /\ monitor = "on" /\ monitor' = "on" /\ Begun(files[0])
  BY DEF Inv, TypeInv, FilesInv, StatsExporter
<1>2. m \in Message
  BY Sequences DEF Inv, TypeInv, MonitorTypes, StatsExporter
<1>3. /\ outputList' = IF idx # {} THEN changed ELSE longer
      /\ files' = IF flush THEN addToOutputFile(files, Head(outputList)) ELSE files
  BY DEF StatsExporter
<1> HIDE DEF m
<1>4. changed \in Seq(Record) /\ (idx # {} => changed # <<>>)
  <2>1. \A i \in DOMAIN outputList : outputList[i] \in Record /\ addToList(outputList[i], m) \in Record
    BY <1>1, <1>2, AddToListTypes
  <2>2. Len(outputList) \in Nat /\ DOMAIN outputList = 1 .. Len(outputList)
    BY <1>1
  <2> HIDE DEF idx
  <2>3. changed \in [1 .. Len(outputList) -> Record]
    BY <2>1, <2>2
  <2>4. changed \in Seq(Record) /\ Len(changed) = Len(outputList)
    BY <2>2, <2>3
  <2>5. idx # {} => Len(outputList) > 0
    BY <2>2 DEF checkInList, idx
  <2> HIDE DEF changed
  <2> QED
    BY <2>4, <2>5
<1>5. flush => outputList # <<>>
  BY <1>1, RecordTypes
<1>6. kept \in Seq(Record) /\ (flush => Head(outputList) \in Record)
  BY <1>1, <1>5, Sequences
<1> HIDE DEF kept
<1>7. longer \in Seq(Record) /\ longer # <<>>
  <2>1. addToList(Blank(m.ts), m) \in Record
    BY <1>1, <1>2, AddToListTypes
  <2> QED
    BY <1>6, <2>1
<1> HIDE DEF idx, flush, changed, longer
<1>8. outputList' \in Seq(Record) /\ outputList' # <<>>
  BY <1>3, <1>4, <1>7
<1>9. files' \in [0 .. FileCount - 1 -> Seq(Line)] /\ Older(files') /\ Begun(files'[0])
  BY <1>1, <1>3, <1>6, AddToOutputFile
<1>10. Record' = Record /\ Line' = Line
  BY <1>1, SameRecords
<1>11. Older(files)' /\ Begun(files[0])'
  BY <1>9, <1>10 DEF Older, Begun
<1> QED
  BY <1>1, <1>8, <1>9, <1>10, <1>11 DEF FilesInv

LEMMA CloseExporterFiles == Inv /\ CloseExporter => FilesInv'
<1> SUFFICES ASSUME Inv, CloseExporter PROVE FilesInv'
  OBVIOUS
<1> DEFINE w == Written(files[0], outputList)
<1>1. PassTypes /\ outputList \in Seq(Record) /\ mount' = mount
      /\ files \in [0 .. FileCount - 1 -> Seq(Line)] /\ Older(files)
      /\ monitor = "on" /\ monitor' = "ended" /\ outputList' = <<>> /\ Begun(files[0])
      /\ (outputList = <<>> => files[0] = <<Open>>)
  BY DEF Inv, TypeInv, FilesInv, CloseExporter
<1>2. /\ w \in Seq(Line)
      /\ outputList = <<>> => w = files[0]
      /\ outputList # <<>> => Whole(w)
  BY <1>1, WrittenWhole
<1> HIDE DEF w
<1>3. 0 \in 0 .. FileCount - 1 /\ files' = [files EXCEPT ![0] = w]
  BY <1>1, RecordTypes DEF CloseExporter, w
<1>4. files'[0] = w /\ files' \in [0 .. FileCount - 1 -> Seq(Line)]
      /\ \A i \in 1 .. FileCount - 1 : files'[i] = files[i]
  BY <1>1, <1>2, <1>3
<1>5. Record' = Record /\ Line' = Line
  BY <1>1, SameRecords
<1>6. Older(files)'
  <2>1. FileCount \in Nat
    BY <1>1, RecordTypes
  <2> QED
    BY <1>1, <1>4, <2>1 DEF Older
<1>7. IF Records(files'[0]) # {} THEN Whole(files'[0]) ELSE Begun(files[0])'
  <2>1. CASE outputList = <<>>
    <3>1. files'[0] = <<Open>> /\ files'[0] = files[0]
      BY <1>1, <1>2, <1>4, <2>1
    <3>2. Records(<<Open>>) = {}
      BY <1>1, RecordTypes DEF Records
    <3> QED
      BY <1>1, <1>5, <3>1, <3>2 DEF Begun
  <2>2. CASE outputList # <<>>
    <3>1. Records(w) # {}
      BY <1>2, <2>2 DEF Whole
    <3> QED
      BY <1>2, <1>4, <2>2, <3>1
  <2> QED
    BY <2>1, <2>2
<1> QED
  BY <1>1, <1>4, <1>5, <1>6, <1>7 DEF FilesInv

LEMMA KillMonitorFiles == Inv /\ KillMonitor => FilesInv'
<1> SUFFICES ASSUME Inv, KillMonitor PROVE FilesInv'
  OBVIOUS
<1>1. Record' = Record /\ Line' = Line
  BY SameRecords DEF KillMonitor
<1>2. monitor' = "killed" /\ files' = files /\ outputList' = <<>> /\ monitor = "on"
  BY DEF KillMonitor
<1>3. Older(files)' /\ Begun(files[0])'
  BY <1>1, <1>2 DEF Inv, FilesInv, Older, Begun
<1> QED
  BY <1>1, <1>2, <1>3 DEF Inv, FilesInv

\* The other actions leave list and files alone, and the monitor but for its start.
LEMMA SameFiles ==
    ASSUME Inv, mount' = mount, UNCHANGED fileVars,
           monitor' = monitor \/ (monitor = "off" /\ monitor' = "on")
    PROVE  FilesInv'
<1>1. Record' = Record /\ Line' = Line /\ files' = files /\ outputList' = outputList
  BY SameRecords DEF fileVars
<1>2. Older(files)' /\ (Begun(files[0])' <=> Begun(files[0]))
  BY <1>1 DEF Inv, FilesInv, Older, Begun
<1> QED
  BY <1>1, <1>2 DEF Inv, FilesInv

LEMMA NextInv == Inv /\ [Next]_vars => Inv'
<1> SUFFICES ASSUME Inv, [Next]_vars PROVE Inv'
  OBVIOUS
<1> SUFFICES FilesInv'
  BY NextTypes DEF Inv
<1>1. CASE StatsExporter \/ CloseExporter \/ KillMonitor
  BY <1>1, StatsExporterFiles, CloseExporterFiles, KillMonitorFiles
<1>2. CASE StartMonitor
  BY <1>2, SameFiles DEF StartMonitor
<1>3. ASSUME mount' = mount, UNCHANGED <<monitor, fileVars>> PROVE FilesInv'
  BY <1>3, SameFiles
<1>4. ASSUME NEW t \in Threads, NEW c \in Comps, NEW kind, Push(t, c, kind) PROVE FilesInv'
  BY <1>3, <1>4 DEF Push
<1>5. ASSUME NEW t \in Threads, MakesRoom(t) \/ Sends(t) PROVE FilesInv'
  BY <1>3, <1>5 DEF MakesRoom, Sends
<1>6. ASSUME NEW c \in Comps,
             \/ Takes(c) \/ DumpsEvent(c) \/ DumperFails(c) \/ DumpsUpdate(c)
             \/ PollSkips(c) \/ PollSends(c) \/ Profiles(c)
      PROVE  FilesInv'
  BY <1>3, <1>6 DEF Takes, DumpsEvent, DumperFails, DumpsUpdate, PollSkips, PollSends, Profiles
<1>7. ASSUME NEW a \in Adders, AddMakesRoom(a) \/ AddMonitorStats(a) PROVE FilesInv'
  BY <1>3, <1>7 DEF AddMakesRoom, AddMonitorStats
<1>8. CASE \/ Tick \/ PollStarts \/ PollEnds \/ PollFails \/ Destroy
           \/ statsPoll \/ statsReader \/ UNCHANGED vars
  BY <1>3, <1>8 DEF Tick, PollStarts, PollEnds, PollFails, Destroy, statsPoll, statsReader, vars
<1> QED
  BY <1>1, <1>2, <1>4, <1>5, <1>6, <1>7, <1>8 DEF Next

\* A file that records are added to ends with its bracket or a comma.
LEMMA BegunEnds ==
    ASSUME NEW file, Begun(file)
    PROVE  file # <<>> /\ Last(file) \in {Open, Comma}
<1>1. file \in Seq(Line) /\ Len(file) \in Nat /\ Len(file) % 2 = 1 /\ Len(<<>>) = 0
  BY DEF Begun
<1>2. file # <<>> /\ Len(file) > 0
  BY <1>1
<1>3. PICK n \in Nat : n = Len(file) /\ n > 0 /\ n % 2 = 1
  BY <1>1, <1>2
<1>4. file[n] \in {Open, Comma}
  <2>1. n = 1 => file[n] = Open
    BY DEF Begun
  <2>2. n \in 2 .. n => file[n] = Comma
    BY <1>3 DEF Begun
  <2> QED
    BY <1>3, <2>1, <2>2
<1> QED
  BY <1>2, <1>3, <1>4 DEF Last

-----------------------------------------------------------------------------
(* Theorems                                                                *)

\* The output files of the monitor are whole JSON arrays, numbered without a gap; the
\* current one lacks its end only (checkOutputFile, getNewFile and Destroy of the
\* exporter), whatever becomes of the monitor.
THEOREM ExportedWhole == Spec => []OutputWhole
<1>1. Init => Inv
  BY InitTypes, InitFiles DEF Inv
<1>2. Inv /\ [Next]_vars => Inv'
  BY NextInv
<1>3. Inv => OutputWhole
  <2> SUFFICES ASSUME Inv PROVE OutputWhole
    OBVIOUS
  <2>1. TypeOK
    BY TypeInvTypes DEF Inv
  <2>2. Begun(files[0]) => files[0] # <<>> /\ Last(files[0]) \in {Open, Comma}
    BY BegunEnds
  <2>3. Older(files)
        /\ IF monitor = "ended" /\ Records(files[0]) # {} THEN Whole(files[0]) ELSE Begun(files[0])
    BY DEF Inv, FilesInv
  <2> QED
    BY <2>1, <2>2, <2>3 DEF Older, OutputWhole
<1> QED
  BY <1>1, <1>2, <1>3, PTL DEF Spec
-----------------------------------------------------------------------------
(* Where a message is                                                      *)

\* A message may be in no place, in one, or in more.
Size(S) == IF S = {} THEN 0 ELSE IF \A x, y \in S : x = y THEN 1 ELSE 2

LEMMA SizeTypes ==
    ASSUME NEW S
    PROVE  /\ Size(S) \in 0 .. 2
           /\ Size(S) = 0 <=> S = {}
           /\ Size(S) <= 1 <=> \A x, y \in S : x = y
           /\ Size(S) = 1 <=> \E x \in S : S = {x}
  BY DEF Size

LEMMA SizeOne == Size({}) = 0 /\ \A x : Size({x}) = 1
  BY DEF Size

\* The places of one kind are those of its holders.
LEMMA SizeAt ==
    ASSUME NEW S, NEW holder PROVE Size(At(holder, S)) = Size(S)
<1>1. S = {} <=> At(holder, S) = {}
  BY DEF At
<1>2. (\A x, y \in S : x = y) => \A p, q \in At(holder, S) : p = q
  BY DEF At
<1>3. ASSUME \A p, q \in At(holder, S) : p = q, NEW x \in S, NEW y \in S PROVE x = y
  <2>1. <<holder, x>> \in At(holder, S) /\ <<holder, y>> \in At(holder, S)
    BY DEF At
  <2>2. <<holder, x>> = <<holder, y>>
    BY <1>3, <2>1
  <2> QED
    BY <2>2
<1> QED
  BY <1>1, <1>2, <1>3 DEF Size

\* A function that changes at one argument.
Changed(D, f, g, x) ==
    /\ x \in D /\ DOMAIN f = D /\ DOMAIN g = D
    /\ \A y \in D : y # x => g[y] = f[y]

\* A holder that changes its message.
LEMMA HeldUpdate ==
    ASSUME NEW D, NEW f, NEW g, NEW x, Changed(D, f, g, x), NEW id, Size(Held(f, id)) <= 1,
           g[x].msg.id = id => Size(Held(f, id)) = 0
    PROVE  Size(Held(g, id))
             = Size(Held(f, id)) - (IF f[x].msg.id = id THEN 1 ELSE 0)
                                 + (IF g[x].msg.id = id THEN 1 ELSE 0)
<1> USE DEF Changed
<1> DEFINE H == Held(f, id)
           G == Held(g, id)
<1>1. H = {y \in D : f[y].msg.id = id}
  BY DEF Held
<1>2. G = {y \in D : (IF y = x THEN g[x] ELSE f[y]).msg.id = id}
  BY DEF Held
<1>3. (\A y, z \in H : y = z) /\ (g[x].msg.id = id => H = {})
  BY SizeTypes
<1> HIDE DEF H, G
<1>4. CASE g[x].msg.id = id
  <2>1. H = {} /\ G = {x} /\ f[x].msg.id # id
    BY <1>1, <1>2, <1>3, <1>4
  <2>2. Size(H) = 0 /\ Size(G) = 1
    BY <2>1, SizeOne
  <2> QED
    BY <1>4, <2>1, <2>2 DEF H, G
<1>5. CASE g[x].msg.id # id /\ f[x].msg.id = id
  <2>1. H = {x} /\ G = {}
    BY <1>1, <1>2, <1>3, <1>5
  <2>2. Size(H) = 1 /\ Size(G) = 0
    BY <2>1, SizeOne
  <2> QED
    BY <1>5, <2>2 DEF H, G
<1>6. CASE g[x].msg.id # id /\ f[x].msg.id # id
  <2>1. H = G
    BY <1>1, <1>2, <1>6
  <2>2. Size(H) \in 0 .. 2
    BY SizeTypes
  <2> QED
    BY <1>6, <2>1, <2>2 DEF H, G
<1> QED
  BY <1>4, <1>5, <1>6

\* A queue that gets a message more, or gives its first one.
LEMMA InAppend ==
    ASSUME NEW S, NEW s \in Seq(S), NEW m \in S, NEW id, Size(In(s, id)) <= 1,
           m.id = id => Size(In(s, id)) = 0
    PROVE  Size(In(Append(s, m), id)) = Size(In(s, id)) + (IF m.id = id THEN 1 ELSE 0)
<1> DEFINE n == Len(s)
           a == Append(s, m)
<1>1. n \in Nat /\ DOMAIN s = 1 .. n
  OBVIOUS
<1>2. Len(a) = n + 1 /\ DOMAIN a = 1 .. n + 1 /\ a[n + 1] = m /\ \A i \in 1 .. n : a[i] = s[i]
  OBVIOUS
<1> HIDE DEF n, a
<1>3. In(a, id) = In(s, id) \cup (IF m.id = id THEN {n + 1} ELSE {})
  BY <1>1, <1>2 DEF In
<1>4. CASE m.id = id
  <2>1. In(s, id) = {} /\ In(a, id) = {n + 1}
    BY <1>3, <1>4, SizeTypes
  <2> QED
    BY <1>4, <2>1 DEF Size, a
<1>5. CASE m.id # id
  <2>1. In(a, id) = In(s, id) /\ Size(In(s, id)) \in 0 .. 2
    BY <1>3, <1>5, SizeTypes
  <2> QED
    BY <1>5, <2>1 DEF a
<1> QED
  BY <1>4, <1>5

LEMMA InTail ==
    ASSUME NEW S, NEW s \in Seq(S), s # <<>>, NEW id, Size(In(s, id)) <= 1
    PROVE  Size(In(Tail(s), id)) = Size(In(s, id)) - (IF Head(s).id = id THEN 1 ELSE 0)
<1> DEFINE n == Len(s)
           r == Tail(s)
<1>1. n \in Nat /\ n > 0 /\ DOMAIN s = 1 .. n /\ Head(s) = s[1]
  OBVIOUS
<1>2. DOMAIN r = 1 .. n - 1 /\ \A i \in 1 .. n - 1 : r[i] = s[i + 1]
  BY <1>1
<1> HIDE DEF n, r
<1>3. \A i, j \in In(s, id) : i = j
  BY SizeTypes
<1>4. CASE s[1].id = id
  <2>1. In(s, id) = {1}
    BY <1>1, <1>3, <1>4 DEF In
  <2>2. ASSUME NEW i \in In(r, id) PROVE FALSE
    <3>1. i \in 1 .. n - 1 /\ i + 1 \in 1 .. n /\ s[i + 1].id = id
      BY <1>1, <1>2, <2>2 DEF In
    <3>2. i + 1 \in In(s, id)
      BY <1>1, <3>1 DEF In
    <3> QED
      BY <2>1, <3>1, <3>2
  <2>3. In(r, id) = {}
    BY <2>2
  <2> QED
    BY <1>1, <1>4, <2>1, <2>3 DEF Size, r
<1>5. CASE s[1].id # id
  <2>1. ASSUME NEW i \in In(s, id) PROVE i \in 2 .. n /\ i - 1 \in In(r, id)
    <3>1. i \in 2 .. n
      BY <1>1, <1>5, <2>1 DEF In
    <3>2. i - 1 \in 1 .. n - 1 /\ r[i - 1] = s[(i - 1) + 1] /\ (i - 1) + 1 = i
      BY <1>1, <1>2, <3>1
    <3> QED
      BY <1>2, <3>1, <3>2, <2>1 DEF In
  <2>2. ASSUME NEW i \in In(r, id) PROVE i \in 1 .. n - 1 /\ i + 1 \in In(s, id)
    BY <1>1, <1>2, <2>2 DEF In
  <2>3. In(s, id) = {} <=> In(r, id) = {}
    BY <2>1, <2>2
  <2>4. ASSUME NEW i \in In(r, id), NEW j \in In(r, id) PROVE i = j
    <3>1. i + 1 = j + 1 /\ i \in 1 .. n - 1 /\ j \in 1 .. n - 1
      BY <1>3, <2>2
    <3> QED
      BY <1>1, <3>1
  <2>5. Size(In(r, id)) = Size(In(s, id)) /\ Size(In(s, id)) \in 0 .. 2
    BY <1>3, <2>3, <2>4 DEF Size
  <2> QED
    BY <1>1, <1>5, <2>5 DEF r
<1> QED
  BY <1>4, <1>5

\* One of several holders changes what it has; and the holders get other numbers, with
\* empty ones that come or go.
LEMMA PairsUpdate ==
    ASSUME NEW F, NEW G, NEW k \in DOMAIN F, DOMAIN G = DOMAIN F,
           \A l \in DOMAIN F : l # k => G[l] = F[l],
           Size(Pairs(F)) <= 1, Size(G[k]) <= 1,
           Size(G[k]) = 1 => Size(Pairs(F)) = 0 \/ Size(F[k]) = 1
    PROVE  /\ Size(F[k]) <= Size(Pairs(F))
           /\ Size(Pairs(G)) = Size(Pairs(F)) - Size(F[k]) + Size(G[k])
<1> DEFINE T == G[k]
<1>1. \A l \in DOMAIN F : \A x \in F[l] : <<l, x>> \in Pairs(F)
  BY DEF Pairs
<1>2. \A l \in DOMAIN G : \A x \in G[l] : <<l, x>> \in Pairs(G)
  BY DEF Pairs
<1>3. \A p \in Pairs(F) : \E l \in DOMAIN F : \E x \in F[l] : p = <<l, x>>
  BY DEF Pairs
<1>4. \A p \in Pairs(G) : \E l \in DOMAIN G : \E x \in G[l] : p = <<l, x>>
  BY DEF Pairs
<1>5. \A p, q \in Pairs(F) : p = q
  BY SizeTypes
<1>6. Size(F[k]) \in 0 .. 2 /\ Size(Pairs(F)) \in 0 .. 2 /\ Size(T) \in 0 .. 2
  BY SizeTypes
<1>7. Size(F[k]) <= 1
  <2>1. ASSUME NEW x \in F[k], NEW y \in F[k] PROVE x = y
    <3>1. <<k, x>> = <<k, y>>
      BY <1>1, <1>5
    <3> QED
      BY <3>1
  <2> QED
    BY <2>1, SizeTypes
<1>8. CASE F[k] = {}
  <2>1. CASE Pairs(F) = {}
    <3>1. \A l \in DOMAIN G : l # k => G[l] = {}
      BY <1>1, <2>1
    <3>2. Pairs(G) = At(k, T)
      <4>1. \A p \in Pairs(G) : p \in At(k, T)
        BY <1>4, <3>1 DEF At
      <4>2. \A p \in At(k, T) : p \in Pairs(G)
        BY <1>2 DEF At
      <4> QED
        BY <4>1, <4>2
    <3>3. Size(Pairs(G)) = Size(T) /\ Size(Pairs(F)) = 0 /\ Size(F[k]) = 0
      BY <1>8, <2>1, <3>2, SizeAt, SizeTypes
    <3> QED
      BY <1>6, <3>3
  <2>2. CASE Pairs(F) # {}
    <3>1. Size(F[k]) = 0 /\ Size(Pairs(F)) # 0
      BY <1>8, <2>2, SizeTypes
    <3>2. Size(T) = 0 /\ T = {}
      BY <1>6, <3>1, SizeTypes
    <3>3. Pairs(G) = Pairs(F)
      <4>1. \A l \in DOMAIN F : F[l] = G[l]
        BY <1>8, <3>2
      <4> QED
        BY <4>1 DEF Pairs
    <3> QED
      BY <1>6, <3>1, <3>2, <3>3
  <2> QED
    BY <2>1, <2>2
<1>9. CASE F[k] # {}
  <2>1. PICK x \in F[k] : TRUE
    BY <1>9
  <2>2. Pairs(F) = {<<k, x>>}
    BY <1>1, <1>5
  <2>3. \A l \in DOMAIN F : l # k => F[l] = {}
    <3> SUFFICES ASSUME NEW l \in DOMAIN F, l # k, NEW y \in F[l] PROVE FALSE
      OBVIOUS
    <3>1. <<l, y>> = <<k, x>>
      BY <1>1, <2>2
    <3> QED
      BY <3>1
  <2>4. Pairs(G) = At(k, T)
    <3>1. \A p \in Pairs(G) : p \in At(k, T)
      BY <1>4, <2>3 DEF At
    <3>2. \A p \in At(k, T) : p \in Pairs(G)
      BY <1>2 DEF At
    <3> QED
      BY <3>1, <3>2
  <2>5. Size(Pairs(F)) = 1 /\ Size(F[k]) = 1
    <3>1. Size(F[k]) # 0
      BY <1>9, SizeTypes
    <3>2. Size(Pairs(F)) = 1
      BY <2>2, SizeOne
    <3> QED
      BY <1>6, <1>7, <3>1, <3>2
  <2>6. Size(Pairs(G)) = Size(T)
    BY <2>4, SizeAt
  <2> QED
    BY <1>6, <2>5, <2>6
<1> QED
  BY <1>8, <1>9

LEMMA PairsMoved ==
    ASSUME NEW F, NEW G, NEW h \in [DOMAIN F -> DOMAIN G],
           \A k, l \in DOMAIN F : h[k] = h[l] => k = l,
           \A k \in DOMAIN F : G[h[k]] = F[k],
           \A l \in DOMAIN G : G[l] = {} \/ \E k \in DOMAIN F : l = h[k]
    PROVE  Size(Pairs(G)) = Size(Pairs(F))
<1>1. ASSUME NEW l \in DOMAIN F, NEW x \in F[l]
      PROVE  <<l, x>> \in Pairs(F) /\ <<h[l], x>> \in Pairs(G)
  <2>1. h[l] \in DOMAIN G /\ x \in G[h[l]]
    OBVIOUS
  <2> QED
    BY <2>1 DEF Pairs
<1>2. \A p \in Pairs(F) : \E l \in DOMAIN F : \E x \in F[l] : p = <<l, x>>
  BY DEF Pairs
<1>3. \A p \in Pairs(G) : \E l \in DOMAIN F : \E x \in F[l] : p = <<h[l], x>>
  <2>1. \A p \in Pairs(G) : \E l \in DOMAIN G : \E x \in G[l] : p = <<l, x>>
    BY DEF Pairs
  <2> QED
    BY <2>1
<1>4. Pairs(F) = {} <=> Pairs(G) = {}
  BY <1>1, <1>2, <1>3
<1>5. ASSUME \A p, q \in Pairs(F) : p = q, NEW p \in Pairs(G), NEW q \in Pairs(G) PROVE p = q
  <2>1. PICK l \in DOMAIN F : \E x \in F[l] : p = <<h[l], x>>
    BY <1>3
  <2>2. PICK x \in F[l] : p = <<h[l], x>>
    BY <2>1
  <2>3. PICK m \in DOMAIN F : \E y \in F[m] : q = <<h[m], y>>
    BY <1>3
  <2>4. PICK y \in F[m] : q = <<h[m], y>>
    BY <2>3
  <2>5. <<l, x>> = <<m, y>>
    BY <1>1, <1>5
  <2> QED
    BY <2>2, <2>4, <2>5
<1>6. ASSUME \A p, q \in Pairs(G) : p = q, NEW p \in Pairs(F), NEW q \in Pairs(F) PROVE p = q
  <2>1. PICK l \in DOMAIN F : \E x \in F[l] : p = <<l, x>>
    BY <1>2
  <2>2. PICK x \in F[l] : p = <<l, x>>
    BY <2>1
  <2>3. PICK m \in DOMAIN F : \E y \in F[m] : q = <<m, y>>
    BY <1>2
  <2>4. PICK y \in F[m] : q = <<m, y>>
    BY <2>3
  <2>5. <<h[l], x>> = <<h[m], y>>
    <3>1. <<h[l], x>> \in Pairs(G) /\ <<h[m], y>> \in Pairs(G)
      BY <1>1
    <3> QED
      BY <1>6, <3>1
  <2>6. l = m /\ x = y
    BY <2>5
  <2> QED
    BY <2>2, <2>4, <2>6
<1> QED
  BY <1>4, <1>5, <1>6 DEF Size

\* The records of a list: one more at its end, the first one gone, one that has grown.
LEMMA ListAppend ==
    ASSUME NEW S, NEW list \in Seq(S), NEW r \in S, NEW id, Size(InList(list, id)) <= 1,
           Size(InRecord(r, id)) <= 1, Size(InRecord(r, id)) = 1 => Size(InList(list, id)) = 0
    PROVE  Size(InList(Append(list, r), id)) = Size(InList(list, id)) + Size(InRecord(r, id))
<1> DEFINE n == Len(list)
           a == Append(list, r)
           F == [i \in 1 .. n |-> InRecord(list[i], id)]
           E == [i \in 1 .. n + 1 |-> IF i <= n THEN InRecord(list[i], id) ELSE {}]
           G == [i \in 1 .. n + 1 |-> InRecord(a[i], id)]
           h == [i \in 1 .. n |-> i]
           k == n + 1
<1>1. n \in Nat /\ DOMAIN list = 1 .. n
  OBVIOUS
<1>2. DOMAIN a = 1 .. n + 1 /\ a[n + 1] = r /\ \A i \in 1 .. n : a[i] = list[i]
  OBVIOUS
<1> HIDE DEF n, a
<1>3. InList(list, id) = Pairs(F) /\ InList(a, id) = Pairs(G)
  BY <1>1, <1>2 DEF InList
<1>4. Size(Pairs(E)) = Size(Pairs(F))
  <2>1. h \in [DOMAIN F -> DOMAIN E]
    BY <1>1
  <2>2. \A j, l \in DOMAIN F : h[j] = h[l] => j = l
    OBVIOUS
  <2>3. \A j \in DOMAIN F : E[h[j]] = F[j]
    BY <1>1
  <2>4. \A l \in DOMAIN E : E[l] = {} \/ \E j \in DOMAIN F : l = h[j]
    BY <1>1
  <2> HIDE DEF E, F, h
  <2> QED
    BY <2>1, <2>2, <2>3, <2>4, PairsMoved
<1>5. DOMAIN G = DOMAIN E /\ n + 1 \in DOMAIN E /\ E[n + 1] = {} /\ G[n + 1] = InRecord(r, id)
      /\ \A l \in DOMAIN E : l # n + 1 => G[l] = E[l]
  BY <1>1, <1>2
<1>6. Size(Pairs(E)) <= 1 /\ Size(E[n + 1]) = 0 /\ Size(Pairs(E)) \in 0 .. 2
      /\ (Size(InRecord(r, id)) = 1 => Size(Pairs(E)) = 0)
  BY <1>3, <1>4, <1>5, SizeTypes
<1> HIDE DEF E, F, G
<1>7. Size(Pairs(G)) = Size(Pairs(E)) - Size(E[k]) + Size(G[k])
  <2>1. /\ k \in DOMAIN E /\ DOMAIN G = DOMAIN E /\ \A l \in DOMAIN E : l # k => G[l] = E[l]
        /\ Size(Pairs(E)) <= 1 /\ Size(G[k]) <= 1
        /\ Size(G[k]) = 1 => Size(Pairs(E)) = 0
    BY <1>5, <1>6
  <2> HIDE DEF k
  <2> QED
    BY <2>1, PairsUpdate
<1>8. Size(InRecord(r, id)) \in 0 .. 2
  BY SizeTypes
<1> QED
  BY <1>3, <1>4, <1>5, <1>6, <1>7, <1>8 DEF a

LEMMA ListTail ==
    ASSUME NEW S, NEW list \in Seq(S), list # <<>>, NEW id, Size(InList(list, id)) <= 1
    PROVE  /\ Size(InRecord(Head(list), id)) <= 1
           /\ Size(InList(Tail(list), id)) = Size(InList(list, id)) - Size(InRecord(Head(list), id))
<1> DEFINE n == Len(list)
           t == Tail(list)
           F == [i \in 1 .. n |-> InRecord(list[i], id)]
           E == [i \in 1 .. n |-> IF i = 1 THEN {} ELSE InRecord(list[i], id)]
           G == [i \in 1 .. n - 1 |-> InRecord(t[i], id)]
           h == [i \in 1 .. n - 1 |-> i + 1]
<1>1. n \in Nat /\ n > 0 /\ DOMAIN list = 1 .. n /\ Head(list) = list[1]
  OBVIOUS
<1>2. DOMAIN t = 1 .. n - 1 /\ \A i \in 1 .. n - 1 : t[i] = list[i + 1]
  BY <1>1
<1> HIDE DEF n, t
<1>3. InList(list, id) = Pairs(F) /\ InList(t, id) = Pairs(G)
  BY <1>1, <1>2 DEF InList
<1>4. /\ 1 \in DOMAIN F /\ DOMAIN E = DOMAIN F /\ E[1] = {} /\ F[1] = InRecord(Head(list), id)
      /\ \A i \in DOMAIN F : i # 1 => E[i] = F[i]
  BY <1>1
<1>6. Size(Pairs(G)) = Size(Pairs(E))
  <2>1. h \in [DOMAIN G -> DOMAIN E]
    BY <1>1
  <2>2. \A k, l \in DOMAIN G : h[k] = h[l] => k = l
    BY <1>1
  <2>3. \A k \in DOMAIN G : E[h[k]] = G[k]
    BY <1>1, <1>2
  <2>4. \A l \in DOMAIN E : E[l] = {} \/ \E k \in DOMAIN G : l = h[k]
    <3> SUFFICES ASSUME NEW l \in 1 .. n, l # 1 PROVE \E k \in 1 .. n - 1 : l = h[k]
      OBVIOUS
    <3>1. l - 1 \in 1 .. n - 1 /\ h[l - 1] = l
      BY <1>1
    <3> QED
      BY <3>1
  <2> HIDE DEF E, G, h
  <2> QED
    BY <2>1, <2>2, <2>3, <2>4, PairsMoved
<1> HIDE DEF E, F, G
<1>7. Size(E[1]) = 0 /\ Size(Pairs(F)) <= 1
  BY <1>3, <1>4, SizeOne
<1>8. Size(F[1]) <= Size(Pairs(F)) /\ Size(Pairs(E)) = Size(Pairs(F)) - Size(F[1]) + Size(E[1])
  <2>1. /\ 1 \in DOMAIN F /\ DOMAIN E = DOMAIN F /\ \A l \in DOMAIN F : l # 1 => E[l] = F[l]
        /\ Size(Pairs(F)) <= 1 /\ Size(E[1]) <= 1 /\ Size(E[1]) # 1
    BY <1>4, <1>7
  <2> QED
    BY <2>1, PairsUpdate
<1>9. Size(F[1]) \in 0 .. 2 /\ Size(Pairs(F)) \in 0 .. 2
  BY SizeTypes
<1> QED
  BY <1>3, <1>4, <1>6, <1>7, <1>8, <1>9 DEF t

\* A message more in a record: a profiler's value takes the place of the one before it.
LEMMA RecordGrows ==
    ASSUME PassTypes, NEW op \in Record, NEW m \in Message, NEW id, Size(InRecord(op, id)) <= 1,
           m.id = id => Size(InRecord(op, id)) = 0
    PROVE  Size(InRecord(addToList(op, m), id))
             = Size(InRecord(op, id))
                 - (IF m.kind = "usage" /\ (\E x \in op.usage : x.id = id) THEN 1 ELSE 0)
                 + (IF m.id = id THEN 1 ELSE 0)
<1> DEFINE n == Len(op.items)
           a == addToList(op, m)
           U == \E x \in op.usage : x.id = id
<1>1. op.items \in Seq(Message) /\ n \in Nat /\ DOMAIN op.items = 1 .. n
  BY DEF Record
<1>2. \A i, j \in InRecord(op, id) : i = j
  BY SizeTypes
<1>3. Size(InRecord(op, id)) \in 0 .. 2
  BY SizeTypes
<1>4. InRecord(op, id) = (IF U THEN {0} ELSE {}) \cup In(op.items, id)
  BY DEF InRecord
<1>5. \A i \in In(op.items, id) : i \in 1 .. n
  BY <1>1 DEF In
<1>6. ASSUME m.kind = "usage"
      PROVE  Size(InRecord(a, id)) = Size(InRecord(op, id)) - (IF U THEN 1 ELSE 0)
                                       + (IF m.id = id THEN 1 ELSE 0)
  <2>1. a.items = op.items /\ a.usage = {m}
    BY <1>6 DEF addToList, Record
  <2>2. InRecord(a, id) = (IF m.id = id THEN {0} ELSE {}) \cup In(op.items, id)
    BY <2>1 DEF InRecord
  <2> HIDE DEF U, a
  <2>3. CASE m.id = id
    <3>1. InRecord(op, id) = {} /\ InRecord(a, id) = {0} /\ ~U
      BY <1>4, <2>2, <2>3, SizeTypes
    <3>2. Size({0}) = 1
      BY SizeOne
    <3> QED
      BY <2>3, <3>1, <3>2, SizeOne
  <2>4. CASE m.id # id /\ U
    <3>1. InRecord(op, id) = {0}
      BY <1>2, <1>4, <2>4
    <3>2. In(op.items, id) = {}
      <4>1. \A i \in In(op.items, id) : i = 0 /\ i \in 1 .. n
        BY <1>4, <1>5, <3>1
      <4> QED
        BY <1>1, <4>1
    <3>3. InRecord(a, id) = {}
      BY <2>2, <2>4, <3>2
    <3> QED
      BY <2>4, <3>1, <3>3, SizeOne
  <2>5. CASE m.id # id /\ ~U
    <3>1. InRecord(op, id) = InRecord(a, id)
      BY <1>4, <2>2, <2>5
    <3> QED
      BY <1>3, <2>5, <3>1
  <2> QED
    BY <2>3, <2>4, <2>5
<1>7. ASSUME m.kind # "usage"
      PROVE  Size(InRecord(a, id)) = Size(InRecord(op, id)) + (IF m.id = id THEN 1 ELSE 0)
  <2>1. a.items = Append(op.items, m) /\ a.usage = op.usage
    BY <1>7 DEF addToList, Record
  <2>2. /\ DOMAIN a.items = 1 .. n + 1 /\ a.items[n + 1] = m
        /\ \A i \in 1 .. n : a.items[i] = op.items[i]
    BY <1>1, <2>1
  <2>3. In(a.items, id) = In(op.items, id) \cup (IF m.id = id THEN {n + 1} ELSE {})
    <3> HIDE DEF n, a
    <3> QED
      BY <1>1, <2>2 DEF In
  <2>4. InRecord(a, id) = InRecord(op, id) \cup (IF m.id = id THEN {n + 1} ELSE {})
    BY <2>1, <2>3 DEF InRecord
  <2> HIDE DEF n, a, U
  <2>5. CASE m.id = id
    <3>1. InRecord(op, id) = {}
      BY <2>5, SizeTypes
    <3>2. InRecord(a, id) = {n + 1}
      BY <2>4, <2>5, <3>1
    <3>3. Size({n + 1}) = 1
      BY SizeOne
    <3> QED
      BY <2>5, <3>1, <3>2, <3>3, SizeOne
  <2>6. CASE m.id # id
    <3>1. InRecord(a, id) = InRecord(op, id)
      BY <2>4, <2>6
    <3> QED
      BY <1>3, <2>6, <3>1
  <2> QED
    BY <2>5, <2>6
<1> HIDE DEF a
<1>8. Size(InRecord(a, id)) \in 0 .. 2
  BY SizeTypes
<1> QED
  <2>1. CASE m.kind = "usage"
    BY <1>3, <1>6, <1>8, <2>1 DEF a
  <2>2. CASE m.kind # "usage"
    BY <1>3, <1>7, <1>8, <2>2 DEF a
  <2> QED
    BY <2>1, <2>2

LEMMA BlankEmpty == \A ts, id : InRecord(Blank(ts), id) = {}
<1> SUFFICES ASSUME NEW ts, NEW id PROVE InRecord(Blank(ts), id) = {}
  OBVIOUS
<1>1. Blank(ts).items = <<>> /\ Blank(ts).usage = {} /\ DOMAIN (<<>>) = {}
  BY DEF Blank
<1> QED
  BY <1>1 DEF InRecord, In

\* The record of a message's second grows.
LEMMA ListUpdate ==
    ASSUME NEW list, NEW grown, NEW k \in DOMAIN list, NEW id, DOMAIN grown = DOMAIN list,
           \A l \in DOMAIN list : l # k => grown[l] = list[l],
           Size(InList(list, id)) <= 1, Size(InRecord(grown[k], id)) <= 1,
           Size(InRecord(grown[k], id)) = 1 =>
               Size(InList(list, id)) = 0 \/ Size(InRecord(list[k], id)) = 1
    PROVE  /\ Size(InRecord(list[k], id)) <= Size(InList(list, id))
           /\ Size(InList(grown, id)) = Size(InList(list, id)) - Size(InRecord(list[k], id))
                                          + Size(InRecord(grown[k], id))
<1> DEFINE F == [i \in DOMAIN list |-> InRecord(list[i], id)]
           G == [i \in DOMAIN grown |-> InRecord(grown[i], id)]
<1>1. InList(list, id) = Pairs(F) /\ InList(grown, id) = Pairs(G)
  BY DEF InList
<1>2. /\ k \in DOMAIN F /\ DOMAIN G = DOMAIN F /\ \A l \in DOMAIN F : l # k => G[l] = F[l]
      /\ F[k] = InRecord(list[k], id) /\ G[k] = InRecord(grown[k], id)
  OBVIOUS
<1> HIDE DEF F, G
<1>3. /\ Size(Pairs(F)) <= 1 /\ Size(G[k]) <= 1
      /\ Size(G[k]) = 1 => Size(Pairs(F)) = 0 \/ Size(F[k]) = 1
  BY <1>1, <1>2
<1>4. /\ Size(F[k]) <= Size(Pairs(F))
      /\ Size(Pairs(G)) = Size(Pairs(F)) - Size(F[k]) + Size(G[k])
  BY <1>2, <1>3, PairsUpdate
<1> QED
  BY <1>1, <1>2, <1>4

LEMMA FileUpdate ==
    ASSUME NEW D, NEW f, NEW g, NEW k \in D, NEW id, DOMAIN f = D, DOMAIN g = D,
           \A l \in D : l # k => g[l] = f[l],
           Size(InFiles(f, id)) <= 1, Size(InList(g[k], id)) <= 1,
           Size(InList(g[k], id)) = 1 => Size(InFiles(f, id)) = 0 \/ Size(InList(f[k], id)) = 1
    PROVE  /\ Size(InList(f[k], id)) <= Size(InFiles(f, id))
           /\ Size(InFiles(g, id)) = Size(InFiles(f, id)) - Size(InList(f[k], id))
                                        + Size(InList(g[k], id))
<1> DEFINE F == [i \in DOMAIN f |-> InList(f[i], id)]
           G == [i \in DOMAIN g |-> InList(g[i], id)]
<1>1. InFiles(f, id) = Pairs(F) /\ InFiles(g, id) = Pairs(G)
  BY DEF InFiles
<1>2. /\ k \in DOMAIN F /\ DOMAIN G = DOMAIN F /\ \A l \in DOMAIN F : l # k => G[l] = F[l]
      /\ F[k] = InList(f[k], id) /\ G[k] = InList(g[k], id)
  OBVIOUS
<1> HIDE DEF F, G
<1>3. /\ Size(Pairs(F)) <= 1 /\ Size(G[k]) <= 1
      /\ Size(G[k]) = 1 => Size(Pairs(F)) = 0 \/ Size(F[k]) = 1
  BY <1>1, <1>2
<1>4. /\ Size(F[k]) <= Size(Pairs(F))
      /\ Size(Pairs(G)) = Size(Pairs(F)) - Size(F[k]) + Size(G[k])
  BY <1>2, <1>3, PairsUpdate
<1> QED
  BY <1>1, <1>2, <1>4

LEMMA EmptyLists ==
    ASSUME NEW id
    PROVE  /\ Size(InList(<<>>, id)) = 0 /\ Size(InList(<<Open>>, id)) = 0
           /\ Size(InRecord(Open, id)) = 0 /\ Size(InRecord(Comma, id)) = 0
           /\ Size(InRecord(Close, id)) = 0
           /\ \A w : w = <<>> \/ w = <<Open>> => InList(w, id) = {} /\ Size(InList(w, id)) = 0
<1>1. InRecord(Open, id) = {} /\ InRecord(Comma, id) = {} /\ InRecord(Close, id) = {}
  BY BlankEmpty DEF Open, Comma, Close
<1>2. DOMAIN (<<>>) = {} /\ DOMAIN (<<Open>>) = {1} /\ (<<Open>>)[1] = Open
  OBVIOUS
<1>3. InList(<<>>, id) = {}
  BY <1>2 DEF InList, Pairs
<1>4. InList(<<Open>>, id) = {}
  <2> DEFINE F == [i \in DOMAIN (<<Open>>) |-> InRecord((<<Open>>)[i], id)]
  <2>1. DOMAIN F = {1} /\ F[1] = {}
    BY <1>1, <1>2
  <2> HIDE DEF F
  <2>2. Pairs(F) = {}
    BY <2>1 DEF Pairs
  <2> QED
    BY <2>2 DEF InList, F
<1> QED
  BY <1>1, <1>3, <1>4, SizeOne

\* All files move on by one; what was in the last one is gone.
LEMMA FilesRotate ==
    ASSUME NEW oldest \in Nat, oldest > 0, NEW g, DOMAIN g = 0 .. oldest, NEW m, DOMAIN m = 0 .. oldest,
           m[0] = <<Open>>, \A i \in 1 .. oldest : m[i] = g[i - 1],
           NEW id, Size(InFiles(g, id)) <= 1
    PROVE  /\ Size(InList(g[oldest], id)) <= Size(InFiles(g, id))
           /\ Size(InFiles(m, id)) = Size(InFiles(g, id)) - Size(InList(g[oldest], id))
<1> DEFINE e == [g EXCEPT ![oldest] = <<>>]
           K == [i \in 0 .. oldest - 1 |-> InList(g[i], id)]
           E == [i \in DOMAIN e |-> InList(e[i], id)]
           M == [i \in DOMAIN m |-> InList(m[i], id)]
           same == [i \in 0 .. oldest - 1 |-> i]
           after == [i \in 0 .. oldest - 1 |-> i + 1]
<1>1. oldest \in DOMAIN g
  OBVIOUS
<1>3. DOMAIN e = 0 .. oldest /\ e[oldest] = <<>> /\ \A i \in 0 .. oldest - 1 : e[i] = g[i]
  BY <1>1
<1>4. /\ Size(InList(g[oldest], id)) <= Size(InFiles(g, id))
      /\ Size(InFiles(e, id)) = Size(InFiles(g, id)) - Size(InList(g[oldest], id))
  <2> DEFINE D == 0 .. oldest
  <2>1. /\ oldest \in D /\ DOMAIN g = D /\ DOMAIN e = D
        /\ \A l \in D : l # oldest => e[l] = g[l]
    BY <1>1
  <2>2. InList(e[oldest], id) = {} /\ Size(InList(e[oldest], id)) = 0
    BY <1>3, EmptyLists
  <2> HIDE DEF e, D
  <2>3. Size(InList(e[oldest], id)) <= 1 /\ Size(InList(e[oldest], id)) # 1
    BY <2>2
  <2>4. /\ Size(InList(g[oldest], id)) <= Size(InFiles(g, id))
        /\ Size(InFiles(e, id)) = Size(InFiles(g, id)) - Size(InList(g[oldest], id))
                                     + Size(InList(e[oldest], id))
    BY <2>1, <2>3, FileUpdate
  <2>5. Size(InList(g[oldest], id)) \in 0 .. 2 /\ Size(InFiles(g, id)) \in 0 .. 2
    BY SizeTypes
  <2> QED
    BY <2>2, <2>4, <2>5
<1> HIDE DEF e
<1>5. Size(Pairs(E)) = Size(Pairs(K))
  <2>1. same \in [DOMAIN K -> DOMAIN E] /\ \A k, l \in DOMAIN K : same[k] = same[l] => k = l
    BY <1>1, <1>3
  <2>2. \A k \in DOMAIN K : E[same[k]] = K[k]
    BY <1>1, <1>3
  <2>3. \A l \in DOMAIN E : E[l] = {} \/ \E k \in DOMAIN K : l = same[k]
    <3> SUFFICES ASSUME NEW l \in 0 .. oldest PROVE E[l] = {} \/ \E k \in DOMAIN K : l = same[k]
      BY <1>3
    <3>1. CASE l = oldest
      <4>1. InList(e[oldest], id) = {}
        BY <1>3, EmptyLists
      <4> QED
        BY <1>1, <1>3, <3>1, <4>1
    <3>2. CASE l \in 0 .. oldest - 1
      BY <3>2
    <3> QED
      BY <1>1, <3>1, <3>2
  <2> HIDE DEF E, K, same
  <2> QED
    BY <2>1, <2>2, <2>3, PairsMoved
<1>6. Size(Pairs(M)) = Size(Pairs(K))
  <2>1. after \in [DOMAIN K -> DOMAIN M] /\ \A k, l \in DOMAIN K : after[k] = after[l] => k = l
    BY <1>1
  <2>2. \A k \in DOMAIN K : M[after[k]] = K[k]
    <3> SUFFICES ASSUME NEW k \in 0 .. oldest - 1 PROVE M[k + 1] = InList(g[k], id)
      OBVIOUS
    <3>1. k + 1 \in 1 .. oldest /\ (k + 1) - 1 = k
      BY <1>1
    <3> QED
      BY <3>1
  <2>3. \A l \in DOMAIN M : M[l] = {} \/ \E k \in DOMAIN K : l = after[k]
    <3> SUFFICES ASSUME NEW l \in 0 .. oldest PROVE M[l] = {} \/ \E k \in DOMAIN K : l = after[k]
      OBVIOUS
    <3>1. CASE l = 0
      <4>1. InList(m[0], id) = {}
        BY EmptyLists
      <4> QED
        BY <1>1, <3>1, <4>1
    <3>2. CASE l \in 1 .. oldest
      <4>1. l - 1 \in 0 .. oldest - 1 /\ after[l - 1] = l
        BY <1>1, <3>2
      <4> QED
        BY <4>1
    <3> QED
      BY <1>1, <3>1, <3>2
  <2> HIDE DEF M, K, after
  <2> QED
    BY <2>1, <2>2, <2>3, PairsMoved
<1>7. InFiles(e, id) = Pairs(E) /\ InFiles(m, id) = Pairs(M)
  BY DEF InFiles
<1> HIDE DEF E, M, K
<1> QED
  BY <1>4, <1>5, <1>6, <1>7

\* A record more in the output files: it is in the current one, or in the one after it;
\* what was in the oldest file is gone when the current one is full.
LEMMA RecordsAppend ==
    ASSUME PassTypes, NEW file \in Seq(Line), NEW op \in Record
    PROVE  Cardinality(Records(Append(file, op))) = Cardinality(Records(file)) + 1
<1> DEFINE n == Len(file)
           a == Append(file, op)
<1>1. n \in Nat /\ DOMAIN file = 1 .. n /\ op \in Line /\ op.ts > 0
  BY RecordTypes
<1>2. DOMAIN a = 1 .. n + 1 /\ a[n + 1] = op /\ \A i \in 1 .. n : a[i] = file[i]
  BY <1>1
<1> HIDE DEF n, a
<1>3. Records(a) = Records(file) \cup {n + 1} /\ n + 1 \notin Records(file)
  BY <1>1, <1>2 DEF Records
<1>4. IsFiniteSet(Records(file))
  <2>1. Records(file) \subseteq 1 .. n
    BY <1>1 DEF Records
  <2> QED
    BY <1>1, <2>1, FS_Interval, FS_Subset
<1> QED
  BY <1>3, <1>4, FS_AddElement DEF a

LEMMA OutputSize ==
    ASSUME PassTypes, NEW f \in [0 .. FileCount - 1 -> Seq(Line)], NEW op \in Record, NEW id,
           Size(InFiles(f, id)) <= 1, Size(InRecord(op, id)) <= 1,
           Size(InRecord(op, id)) = 1 => Size(InFiles(f, id)) = 0
    PROVE  /\ Size(InList(f[FileCount - 1], id)) <= Size(InFiles(f, id))
           /\ Size(InFiles(addToOutputFile(f, op), id))
                = Size(InFiles(f, id)) + Size(InRecord(op, id))
                    - (IF Cardinality(Records(f[0])) + 1 >= FileMax
                       THEN Size(InList(f[FileCount - 1], id)) ELSE 0)
<1> DEFINE oldest == FileCount - 1
           D == 0 .. oldest
           g == [f EXCEPT ![0] = Append(@, op)]
           on == [g EXCEPT ![0] = Append(@, Comma)]
           full == [g EXCEPT ![0] = Append(@, Close)]
           moved == getNewFile(full)
           w == Append(f[0], op)
<1>1. oldest \in Nat /\ oldest > 0 /\ 0 \in D /\ oldest \in D /\ DOMAIN f = D /\ oldest # 0
  BY RecordTypes
<1>2. f[0] \in Seq(Line) /\ op \in Line /\ Comma \in Line /\ Close \in Line
  BY <1>1, RecordTypes
<1>3. /\ DOMAIN on = D /\ DOMAIN full = D /\ on[0] = Append(w, Comma) /\ full[0] = Append(w, Close)
      /\ \A l \in D : l # 0 => on[l] = f[l] /\ full[l] = f[l]
  BY <1>1
<1>4. addToOutputFile(f, op) = IF Cardinality(Records(f[0])) + 1 >= FileMax THEN moved ELSE on
  <2>1. g[0] = w
    BY <1>1
  <2>2. Cardinality(Records(g[0])) = Cardinality(Records(f[0])) + 1
    BY <1>2, <2>1, RecordsAppend
  <2> QED
    BY <2>2 DEF addToOutputFile, checkOutputFile
<1>5. DOMAIN moved = D /\ moved[0] = <<Open>> /\ \A i \in 1 .. oldest : moved[i] = full[i - 1]
  BY <1>1 DEF getNewFile
<1> HIDE DEF oldest, D, g, on, full, moved
<1>6. /\ Size(InList(f[0], id)) \in 0 .. 2 /\ Size(InFiles(f, id)) \in 0 .. 2
      /\ Size(InRecord(op, id)) \in 0 .. 2
      /\ Size(InRecord(Comma, id)) = 0 /\ Size(InRecord(Close, id)) = 0
  BY SizeTypes, EmptyLists
<1>7. \A l \in D : Size(InList(f[l], id)) <= Size(InFiles(f, id))
  <2> SUFFICES ASSUME NEW l \in D PROVE Size(InList(f[l], id)) <= Size(InFiles(f, id))
    OBVIOUS
  <2> DEFINE F == [i \in D |-> InList(f[i], id)]
  <2>1. InFiles(f, id) = Pairs(F) /\ l \in DOMAIN F /\ F[l] = InList(f[l], id)
    BY <1>1 DEF InFiles
  <2> HIDE DEF F
  <2>2. Size(Pairs(F)) <= 1
    BY <2>1
  <2> DEFINE G == [i \in DOMAIN F |-> IF i = l THEN {} ELSE F[i]]
  <2>3. DOMAIN G = DOMAIN F /\ G[l] = {} /\ \A i \in DOMAIN F : i # l => G[i] = F[i]
    BY <2>1
  <2> HIDE DEF G
  <2>4. Size(G[l]) <= 1 /\ Size(G[l]) # 1
    BY <2>3, SizeOne
  <2>5. Size(F[l]) <= Size(Pairs(F))
    BY <2>1, <2>2, <2>3, <2>4, PairsUpdate
  <2> QED
    BY <2>1, <2>5
<1>8. /\ Size(InList(w, id)) = Size(InList(f[0], id)) + Size(InRecord(op, id))
      /\ Size(InList(w, id)) <= 1 /\ w \in Seq(Line)
  <2>1. Size(InList(f[0], id)) <= Size(InFiles(f, id))
    BY <1>1, <1>7
  <2>2. Size(InList(f[0], id)) <= 1 /\ (Size(InRecord(op, id)) = 1 => Size(InList(f[0], id)) = 0)
    BY <1>6, <2>1
  <2>3. Size(InList(w, id)) = Size(InList(f[0], id)) + Size(InRecord(op, id))
    BY <1>2, <2>2, ListAppend
  <2>4. w \in Seq(Line)
    BY <1>2
  <2> HIDE DEF w
  <2> QED
    BY <1>6, <2>2, <2>3, <2>4
<1> HIDE DEF w
<1>9. ASSUME NEW mark \in {Comma, Close} PROVE Size(InList(Append(w, mark), id)) = Size(InList(w, id))
  <2>1. mark \in Line /\ Size(InRecord(mark, id)) = 0 /\ Size(InList(w, id)) \in 0 .. 2
    BY <1>2, <1>6, SizeTypes
  <2>2. Size(InRecord(mark, id)) <= 1 /\ Size(InRecord(mark, id)) # 1
    BY <2>1
  <2>3. Size(InList(Append(w, mark), id)) = Size(InList(w, id)) + Size(InRecord(mark, id))
    BY <1>8, <2>1, <2>2, ListAppend
  <2> QED
    BY <2>1, <2>3
<1>10. ASSUME NEW h, DOMAIN h = D, \A l \in D : l # 0 => h[l] = f[l],
              Size(InList(h[0], id)) = Size(InList(w, id))
       PROVE  Size(InFiles(h, id)) = Size(InFiles(f, id)) + Size(InRecord(op, id))
  <2>1. Size(InList(f[0], id)) <= Size(InFiles(f, id))
    BY <1>1, <1>7
  <2>2. /\ Size(InList(h[0], id)) <= 1
        /\ Size(InList(h[0], id)) = 1 => Size(InFiles(f, id)) = 0 \/ Size(InList(f[0], id)) = 1
    BY <1>6, <1>8, <1>10, <2>1
  <2> DEFINE k == 0
             u == f
  <2>3. /\ k \in D /\ DOMAIN u = D /\ DOMAIN h = D /\ \A l \in D : l # k => h[l] = u[l]
        /\ Size(InFiles(u, id)) <= 1 /\ Size(InList(h[k], id)) <= 1
        /\ Size(InList(h[k], id)) = 1 => Size(InFiles(u, id)) = 0 \/ Size(InList(u[k], id)) = 1
    BY <1>1, <1>10, <2>2
  <2> HIDE DEF k, u
  <2>4. Size(InFiles(h, id)) = Size(InFiles(u, id)) - Size(InList(u[k], id)) + Size(InList(h[k], id))
    BY <2>3, FileUpdate
  <2> QED
    BY <1>6, <1>8, <1>10, <2>4 DEF k, u
<1>11. Size(InFiles(on, id)) = Size(InFiles(f, id)) + Size(InRecord(op, id))
  BY <1>3, <1>9, <1>10
<1>12. Size(InFiles(full, id)) = Size(InFiles(f, id)) + Size(InRecord(op, id))
  BY <1>3, <1>9, <1>10
<1>13. Size(InFiles(moved, id)) = Size(InFiles(full, id)) - Size(InList(f[oldest], id))
  <2>1. full[oldest] = f[oldest] /\ Size(InFiles(full, id)) <= 1
    BY <1>1, <1>3, <1>6, <1>12
  <2>2. DOMAIN full = 0 .. oldest /\ DOMAIN moved = 0 .. oldest
    BY <1>3, <1>5 DEF D
  <2>3. Size(InFiles(moved, id)) = Size(InFiles(full, id)) - Size(InList(full[oldest], id))
    BY <1>1, <1>5, <2>1, <2>2, FilesRotate
  <2> QED
    BY <2>1, <2>3
<1>14. Size(InList(f[oldest], id)) <= Size(InFiles(f, id)) /\ Size(InList(f[oldest], id)) \in 0 .. 2
  BY <1>1, <1>7, SizeTypes
<1> QED
  <2>1. CASE Cardinality(Records(f[0])) + 1 >= FileMax
    BY <1>4, <1>6, <1>12, <1>13, <1>14, <2>1 DEF oldest
  <2>2. CASE ~(Cardinality(Records(f[0])) + 1 >= FileMax)
    BY <1>4, <1>6, <1>11, <1>14, <2>2 DEF oldest
  <2> QED
    BY <2>1, <2>2

\* What Destroy writes: the records of the list, each once.
LEMMA WrittenLines ==
    ASSUME PassTypes, NEW file \in Seq(Line), NEW list \in Seq(Record)
    PROVE  LET w == Written(file, list)
               n == Len(file)
               k == Len(list)
           IN  /\ DOMAIN w = 1 .. n + 2 * k
               /\ \A i \in 1 .. n : w[i] = file[i]
               /\ \A i \in 1 .. k : w[n + 2 * i - 1] = list[i]
               /\ \A l \in n + 1 .. n + 2 * k :
                     w[l] \in {Comma, Close} \/ \E i \in 1 .. k : l = n + 2 * i - 1
<1> DEFINE n == Len(file)
           k == Len(list)
           rest == [i \in 1 .. 2 * k |->
                       CASE i % 2 = 1 -> list[(i + 1) \div 2]
                         [] i = 2 * k -> Close
                         [] OTHER -> Comma]
           w == file \o rest
<1>1. w = Written(file, list) /\ n \in Nat /\ k \in Nat /\ \A i \in 1 .. k : list[i] \in Record
  BY DEF Written
<1> HIDE DEF n, k
<1>2. ASSUME NEW i \in 1 .. k PROVE 2 * i - 1 \in 1 .. 2 * k /\ rest[2 * i - 1] = list[i]
  <2>1. 2 * i - 1 \in 1 .. 2 * k /\ (2 * i - 1) % 2 = 1 /\ ((2 * i - 1) + 1) \div 2 = i
    BY <1>1
  <2> DEFINE j == 2 * i - 1
  <2>2. rest[j] = list[(j + 1) \div 2]
    <3>1. j \in 1 .. 2 * k /\ j % 2 = 1
      BY <2>1
    <3> HIDE DEF j
    <3> QED
      BY <1>1, <3>1
  <2> QED
    BY <2>1, <2>2
<1>3. ASSUME NEW i \in 1 .. 2 * k
      PROVE  rest[i] \in Line /\ (rest[i] \in {Comma, Close} \/ \E j \in 1 .. k : i = 2 * j - 1)
  <2>1. CASE i % 2 = 1
    <3>1. (i + 1) \div 2 \in 1 .. k
      BY <1>1, <2>1
    <3>4. i = 2 * ((i + 1) \div 2) - 1
      <4>1. i \in Int
        BY <1>1
      <4> QED
        BY <2>1, <4>1
    <3>2. rest[i] = list[(i + 1) \div 2]
      BY <1>1, <2>1
    <3>3. list[(i + 1) \div 2] \in Record
      BY <1>1, <3>1
    <3> QED
      BY <3>1, <3>2, <3>3, <3>4, RecordTypes
  <2>2. CASE i % 2 # 1
    <3>1. rest[i] = IF i = 2 * k THEN Close ELSE Comma
      BY <2>2
    <3> QED
      BY <3>1, RecordTypes
  <2> QED
    BY <2>1, <2>2
<1>4. rest \in Seq(Line) /\ Len(rest) = 2 * k
  <2>1. rest \in [1 .. 2 * k -> Line] /\ 2 * k \in Nat
    BY <1>1, <1>3
  <2> HIDE DEF rest
  <2> QED
    BY <2>1
<1> HIDE DEF rest
<1>5. /\ DOMAIN w = 1 .. n + 2 * k
      /\ \A i \in 1 .. n + 2 * k : w[i] = IF i <= n THEN file[i] ELSE rest[i - n]
  <2>1. /\ w \in Seq(Line) /\ Len(w) = n + 2 * k
        /\ \A i \in 1 .. n + 2 * k : w[i] = IF i <= n THEN file[i] ELSE rest[i - n]
    BY <1>4, ConcatProperties DEF n
  <2> HIDE DEF w
  <2> QED
    BY <2>1
<1> HIDE DEF w
<1>6. ASSUME NEW i \in 1 .. k PROVE w[n + 2 * i - 1] = list[i]
  <2>1. n + 2 * i - 1 \in 1 .. n + 2 * k /\ ~(n + 2 * i - 1 <= n) /\ (n + 2 * i - 1) - n = 2 * i - 1
    BY <1>1
  <2>2. w[n + 2 * i - 1] = rest[(n + 2 * i - 1) - n]
    BY <1>5, <2>1
  <2> QED
    BY <1>2, <2>1, <2>2
<1>7. ASSUME NEW l \in n + 1 .. n + 2 * k
      PROVE  w[l] \in {Comma, Close} \/ \E i \in 1 .. k : l = n + 2 * i - 1
  <2>1. l - n \in 1 .. 2 * k /\ w[l] = rest[l - n]
    BY <1>1, <1>5
  <2>2. CASE \E j \in 1 .. k : l - n = 2 * j - 1
    <3>1. PICK j \in 1 .. k : l - n = 2 * j - 1
      BY <2>2
    <3>2. l = n + 2 * j - 1
      BY <1>1, <3>1
    <3> QED
      BY <3>2
  <2> QED
    BY <1>3, <2>1, <2>2
<1> QED
  <2>1. \A i \in 1 .. n : w[i] = file[i]
    BY <1>1, <1>5
  <2> QED
    BY <1>1, <1>5, <1>6, <1>7, <2>1 DEF n, k

LEMMA WrittenSize ==
    ASSUME PassTypes, NEW file \in Seq(Line), NEW list \in Seq(Record), NEW id,
           Size(InList(file, id)) + Size(InList(list, id)) <= 1
    PROVE  Size(InList(Written(file, list), id)) = Size(InList(file, id)) + Size(InList(list, id))
<1> DEFINE n == Len(file)
           k == Len(list)
           w == Written(file, list)
           F == [i \in 1 .. n |-> InRecord(file[i], id)]
           L == [i \in 1 .. k |-> InRecord(list[i], id)]
           G == [i \in 1 .. n + 2 * k |-> InRecord(w[i], id)]
           same == [i \in 1 .. n |-> i]
           after == [i \in 1 .. k |-> n + 2 * i - 1]
<1>3. /\ DOMAIN w = 1 .. n + 2 * k
      /\ \A i \in 1 .. n : w[i] = file[i]
      /\ \A i \in 1 .. k : w[n + 2 * i - 1] = list[i]
      /\ \A l \in n + 1 .. n + 2 * k :
            w[l] \in {Comma, Close} \/ \E i \in 1 .. k : l = n + 2 * i - 1
  BY WrittenLines
<1>1. n \in Nat /\ DOMAIN file = 1 .. n
  OBVIOUS
<1>2. k \in Nat /\ DOMAIN list = 1 .. k
  OBVIOUS
<1> HIDE DEF w, n, k
<1>4. InList(file, id) = Pairs(F) /\ InList(list, id) = Pairs(L) /\ InList(w, id) = Pairs(G)
  BY <1>1, <1>2, <1>3 DEF InList
<1>5. Size(InList(file, id)) \in 0 .. 2 /\ Size(InList(list, id)) \in 0 .. 2
  BY SizeTypes
<1>6. InRecord(Comma, id) = {} /\ InRecord(Close, id) = {}
  BY EmptyLists, SizeTypes
<1>7. CASE Size(InList(list, id)) = 0
  <2>1. \A i \in 1 .. k : InRecord(list[i], id) = {}
    <3> SUFFICES ASSUME NEW i \in 1 .. k, NEW x \in InRecord(list[i], id) PROVE FALSE
      OBVIOUS
    <3>1. <<i, x>> \in Pairs(L)
      BY DEF Pairs
    <3> QED
      BY <1>4, <1>7, <3>1, SizeTypes
  <2>2. same \in [DOMAIN F -> DOMAIN G] /\ \A i, j \in DOMAIN F : same[i] = same[j] => i = j
    BY <1>1, <1>2
  <2>3. \A i \in DOMAIN F : G[same[i]] = F[i]
    BY <1>1, <1>2, <1>3
  <2>4. \A l \in DOMAIN G : G[l] = {} \/ \E i \in DOMAIN F : l = same[i]
    <3>0. \A l \in 1 .. n + 2 * k : l \in 1 .. n \/ l \in n + 1 .. n + 2 * k
      BY <1>1, <1>2
    <3> SUFFICES ASSUME NEW l \in n + 1 .. n + 2 * k PROVE InRecord(w[l], id) = {}
      BY <3>0
    <3>1. CASE w[l] \in {Comma, Close}
      BY <1>6, <3>1
    <3>2. CASE \E i \in 1 .. k : l = n + 2 * i - 1
      BY <1>3, <2>1, <3>2
    <3> QED
      BY <1>3, <3>1, <3>2
  <2> HIDE DEF F, G, same
  <2>5. Size(Pairs(G)) = Size(Pairs(F))
    BY <2>2, <2>3, <2>4, PairsMoved
  <2> QED
    BY <1>4, <1>5, <1>7, <2>5 DEF w
<1>8. CASE Size(InList(file, id)) = 0
  <2>1. \A i \in 1 .. n : InRecord(file[i], id) = {}
    <3> SUFFICES ASSUME NEW i \in 1 .. n, NEW x \in InRecord(file[i], id) PROVE FALSE
      OBVIOUS
    <3>1. <<i, x>> \in Pairs(F)
      BY DEF Pairs
    <3> QED
      BY <1>4, <1>8, <3>1, SizeTypes
  <2>2. after \in [DOMAIN L -> DOMAIN G] /\ \A i, j \in DOMAIN L : after[i] = after[j] => i = j
    BY <1>1, <1>2
  <2>3. \A i \in DOMAIN L : G[after[i]] = L[i]
    <3> SUFFICES ASSUME NEW i \in 1 .. k PROVE G[n + 2 * i - 1] = InRecord(list[i], id)
      OBVIOUS
    <3>1. n + 2 * i - 1 \in 1 .. n + 2 * k
      BY <1>1, <1>2
    <3> QED
      BY <1>3, <3>1
  <2>4. \A l \in DOMAIN G : G[l] = {} \/ \E i \in DOMAIN L : l = after[i]
    <3> SUFFICES ASSUME NEW l \in 1 .. n + 2 * k, ~ \E i \in 1 .. k : l = n + 2 * i - 1
                 PROVE  InRecord(w[l], id) = {}
      OBVIOUS
    <3>1. CASE l \in 1 .. n
      BY <1>3, <2>1, <3>1
    <3>2. CASE l \in n + 1 .. n + 2 * k
      BY <1>3, <1>6, <3>2
    <3> QED
      BY <1>1, <1>2, <3>1, <3>2
  <2> HIDE DEF L, G, after
  <2>5. Size(Pairs(G)) = Size(Pairs(L))
    BY <2>2, <2>3, <2>4, PairsMoved
  <2> QED
    BY <1>4, <1>5, <1>8, <2>5 DEF w
<1> QED
  BY <1>5, <1>7, <1>8

LEMMA RecordsOfIn ==
    ASSUME NEW list, NEW id
    PROVE  id \in RecordsOf(list) <=> Size(InList(list, id)) # 0
<1>1. id \in RecordsOf(list) <=>
        \E i \in DOMAIN list : (\E x \in Range(list[i].items) : x.id = id)
                               \/ (\E x \in list[i].usage : x.id = id)
  BY DEF RecordsOf, Ids, Range
<1>2. ASSUME NEW i \in DOMAIN list
      PROVE  InRecord(list[i], id) # {} <=> (\E x \in Range(list[i].items) : x.id = id)
                                            \/ (\E x \in list[i].usage : x.id = id)
  <2>1. In(list[i].items, id) # {} <=> \E x \in Range(list[i].items) : x.id = id
    BY DEF In, Range
  <2>2. InRecord(list[i], id) # {} <=> (\E x \in list[i].usage : x.id = id)
                                       \/ In(list[i].items, id) # {}
    BY DEF InRecord
  <2> QED
    BY <2>1, <2>2
<1>3. InList(list, id) # {} <=> \E i \in DOMAIN list : InRecord(list[i], id) # {}
  <2> DEFINE F == [i \in DOMAIN list |-> InRecord(list[i], id)]
  <2>1. Pairs(F) # {} <=> \E i \in DOMAIN F : F[i] # {}
    <3> HIDE DEF F
    <3>1. \A i \in DOMAIN F : \A x \in F[i] : <<i, x>> \in Pairs(F)
      BY DEF Pairs
    <3>2. \A q \in Pairs(F) : \E i \in DOMAIN F : \E x \in F[i] : q = <<i, x>>
      BY DEF Pairs
    <3> QED
      BY <3>1, <3>2
  <2> QED
    BY <2>1 DEF InList
<1> QED
  BY <1>1, <1>2, <1>3, SizeTypes

\* Each message is counted over its possible places.
Total(id) ==
    Size(Held(call, id)) + Size(InChannels(channel, id)) + Size(Held(dumper, id))
      + Size(InCounters(statsList, id)) + Size(In(pipe, id)) + Size(Held(adder, id))
      + Size(In(queue, id)) + Size(InList(outputList, id)) + Size(InFiles(files, id))
Kept(id) ==
    /\ Total(id) = IF id \in 1 .. made /\ id \notin lost THEN 1 ELSE 0
    /\ id \in lost => id <= made
\* A second has one record in memory, the one that checkInList finds.
TimesInv ==
    \A i, j \in DOMAIN outputList : outputList[i].ts = outputList[j].ts => i = j
EventsInv == Inv /\ TimesInv /\ \A id \in Nat \ {0} : Kept(id)

LEMMA TotalTypes ==
    ASSUME TypeInv, NEW id \in Nat \ {0}, Kept(id)
    PROVE  /\ Size(Held(call, id)) \in 0 .. 1 /\ Size(InChannels(channel, id)) \in 0 .. 1
           /\ Size(Held(dumper, id)) \in 0 .. 1 /\ Size(InCounters(statsList, id)) \in 0 .. 1
           /\ Size(In(pipe, id)) \in 0 .. 1 /\ Size(Held(adder, id)) \in 0 .. 1
           /\ Size(In(queue, id)) \in 0 .. 1 /\ Size(InList(outputList, id)) \in 0 .. 1
           /\ Size(InFiles(files, id)) \in 0 .. 1
           /\ Total(id) \in 0 .. 1 /\ made \in Nat
           \* no message is in two holders
           /\ Size(Held(call, id)) = 1 => Size(InChannels(channel, id)) = 0
           /\ Size(InChannels(channel, id)) = 1 => Size(Held(dumper, id)) = 0
           /\ Size(Held(dumper, id)) = 1 => Size(In(pipe, id)) = 0
           /\ Size(Held(dumper, id)) = 1 => Size(InCounters(statsList, id)) = 0
           /\ Size(In(pipe, id)) = 1 => Size(Held(adder, id)) = 0
           /\ Size(Held(adder, id)) = 1 => Size(In(queue, id)) = 0
           /\ Size(In(queue, id)) = 1 => Size(InList(outputList, id)) = 0
           /\ Size(InList(outputList, id)) = 1 => Size(InFiles(files, id)) = 0
           \* nor in one before it is made
           /\ id = made + 1 => Size(Held(call, id)) = 0 /\ Size(Held(adder, id)) = 0
<1> DEFINE a == Size(Held(call, id))
           b == Size(InChannels(channel, id))
           c == Size(Held(dumper, id))
           d == Size(InCounters(statsList, id))
           e == Size(In(pipe, id))
           f == Size(Held(adder, id))
           g == Size(In(queue, id))
           h == Size(InList(outputList, id))
           i == Size(InFiles(files, id))
<1>1. Total(id) \in 0 .. 1 /\ made \in Nat
  BY MountTypes DEF Kept, TypeInv, PassTypes
<1>2. Total(id) = a + b + c + d + e + f + g + h + i
  BY DEF Total
<1>3. /\ a \in Nat /\ b \in Nat /\ c \in Nat /\ d \in Nat /\ e \in Nat /\ f \in Nat
      /\ g \in Nat /\ h \in Nat /\ i \in Nat
  BY SizeTypes
<1> HIDE DEF a, b, c, d, e, f, g, h, i
<1>4. a + b + c + d + e + f + g + h + i \in 0 .. 1
  BY <1>1, <1>2
<1>5. /\ a \in 0 .. 1 /\ b \in 0 .. 1 /\ c \in 0 .. 1 /\ d \in 0 .. 1 /\ e \in 0 .. 1
      /\ f \in 0 .. 1 /\ g \in 0 .. 1 /\ h \in 0 .. 1 /\ i \in 0 .. 1
  BY <1>3, <1>4
<1>6. /\ a = 1 => b = 0
      /\ b = 1 => c = 0
      /\ c = 1 => e = 0 /\ d = 0
      /\ e = 1 => f = 0
      /\ f = 1 => g = 0
      /\ g = 1 => h = 0
      /\ h = 1 => i = 0
  BY <1>3, <1>4
<1>7. id = made + 1 => a = 0 /\ f = 0
  <2>1. id = made + 1 => Total(id) = 0
    BY <1>1 DEF Kept
  <2> QED
    BY <1>2, <1>3, <2>1
<1> QED
  BY <1>1, <1>5, <1>6, <1>7 DEF a, b, c, d, e, f, g, h, i

\* A holder that keeps its message.
LEMMA HeldSame ==
    ASSUME NEW D, NEW f, NEW g, NEW x, Changed(D, f, g, x), g[x].msg = f[x].msg, NEW id
    PROVE  Held(g, id) = Held(f, id)
  BY DEF Held, Changed

LEMMA ChannelUpdate ==
    ASSUME NEW ch, NEW g, NEW c, Changed(Comps, ch, g, c), NEW id,
           Size(InChannels(ch, id)) <= 1, Size(In(g[c], id)) <= 1,
           Size(In(g[c], id)) = 1 => Size(InChannels(ch, id)) = 0 \/ Size(In(ch[c], id)) = 1
    PROVE  Size(InChannels(g, id)) = Size(InChannels(ch, id)) - Size(In(ch[c], id)) + Size(In(g[c], id))
<1> USE DEF Changed
<1> DEFINE F == [d \in Comps |-> In(ch[d], id)]
           G == [d \in Comps |-> In(g[d], id)]
<1>1. InChannels(ch, id) = Pairs(F) /\ InChannels(g, id) = Pairs(G)
  BY DEF InChannels
<1>2. /\ c \in DOMAIN F /\ DOMAIN G = DOMAIN F /\ \A l \in DOMAIN F : l # c => G[l] = F[l]
      /\ F[c] = In(ch[c], id) /\ G[c] = In(g[c], id)
  OBVIOUS
<1> HIDE DEF F, G
<1>3. /\ Size(Pairs(F)) <= 1 /\ Size(G[c]) <= 1
      /\ Size(G[c]) = 1 => Size(Pairs(F)) = 0 \/ Size(F[c]) = 1
  BY <1>1, <1>2
<1>4. Size(Pairs(G)) = Size(Pairs(F)) - Size(F[c]) + Size(G[c])
  BY <1>2, <1>3, PairsUpdate
<1> QED
  BY <1>1, <1>2, <1>4

\* One of several holders has no more than all of them.
LEMMA PairsPart ==
    ASSUME NEW F, NEW k \in DOMAIN F, Size(Pairs(F)) <= 1
    PROVE  Size(F[k]) <= Size(Pairs(F))
<1> DEFINE G == [l \in DOMAIN F |-> IF l = k THEN {} ELSE F[l]]
<1>1. DOMAIN G = DOMAIN F /\ \A l \in DOMAIN F : l # k => G[l] = F[l]
  OBVIOUS
<1>2. Size(G[k]) = 0
  BY SizeOne
<1> HIDE DEF G
<1>3. Size(G[k]) <= 1 /\ Size(G[k]) # 1
  BY <1>2
<1> QED
  BY <1>1, <1>3, PairsUpdate

LEMMA ChannelPart ==
    ASSUME NEW ch, NEW c \in Comps, NEW id, Size(InChannels(ch, id)) <= 1
    PROVE  Size(In(ch[c], id)) <= Size(InChannels(ch, id))
<1> DEFINE F == [d \in Comps |-> In(ch[d], id)]
<1>1. InChannels(ch, id) = Pairs(F) /\ c \in DOMAIN F /\ F[c] = In(ch[c], id)
  BY DEF InChannels
<1> HIDE DEF F
<1> QED
  BY <1>1, PairsPart

LEMMA ListPart ==
    ASSUME NEW list, NEW k \in DOMAIN list, NEW id, Size(InList(list, id)) <= 1
    PROVE  Size(InRecord(list[k], id)) <= Size(InList(list, id))
<1> DEFINE F == [i \in DOMAIN list |-> InRecord(list[i], id)]
<1>1. InList(list, id) = Pairs(F) /\ k \in DOMAIN F /\ F[k] = InRecord(list[k], id)
  BY DEF InList
<1> HIDE DEF F
<1> QED
  BY <1>1, PairsPart

LEMMA FilePart ==
    ASSUME NEW f, NEW k \in DOMAIN f, NEW id, Size(InFiles(f, id)) <= 1
    PROVE  Size(InList(f[k], id)) <= Size(InFiles(f, id))
<1> DEFINE F == [i \in DOMAIN f |-> InList(f[i], id)]
<1>1. InFiles(f, id) = Pairs(F) /\ k \in DOMAIN F /\ F[k] = InList(f[k], id)
  BY DEF InFiles
<1> HIDE DEF F
<1> QED
  BY <1>1, PairsPart

\* A sequence that gets a message more, or gives its first one.
Appended(s, r, m) == (\E S : s \in Seq(S) /\ m \in S) /\ r = Append(s, m)
Taken(s, r, m) == (\E S : s \in Seq(S)) /\ s # <<>> /\ r = Tail(s) /\ m = Head(s)

LEMMA InAppended ==
    ASSUME NEW s, NEW r, NEW m, Appended(s, r, m), NEW id, Size(In(s, id)) <= 1,
           m.id = id => Size(In(s, id)) = 0
    PROVE  Size(In(r, id)) = Size(In(s, id)) + (IF m.id = id THEN 1 ELSE 0)
<1>1. PICK S : s \in Seq(S) /\ m \in S
  BY DEF Appended
<1> QED
  BY <1>1, InAppend DEF Appended

LEMMA InTaken ==
    ASSUME NEW s, NEW r, NEW m, Taken(s, r, m), NEW id, Size(In(s, id)) <= 1
    PROVE  Size(In(r, id)) = Size(In(s, id)) - (IF m.id = id THEN 1 ELSE 0)
<1>1. PICK S : s \in Seq(S)
  BY DEF Taken
<1> QED
  BY <1>1, InTail DEF Taken

LEMMA ChannelTaken ==
    ASSUME NEW ch, NEW g, NEW c, Changed(Comps, ch, g, c), NEW m, Taken(ch[c], g[c], m),
           NEW id, Size(InChannels(ch, id)) <= 1
    PROVE  Size(InChannels(g, id)) = Size(InChannels(ch, id)) - (IF m.id = id THEN 1 ELSE 0)
<1>1. Size(InChannels(ch, id)) \in 0 .. 2 /\ Size(In(ch[c], id)) \in 0 .. 2
  BY SizeTypes
<1>2. Size(In(ch[c], id)) <= Size(InChannels(ch, id))
  BY ChannelPart DEF Changed
<1>3. Size(In(g[c], id)) = Size(In(ch[c], id)) - (IF m.id = id THEN 1 ELSE 0)
  BY <1>1, <1>2, InTaken
<1>4. /\ Size(In(g[c], id)) <= 1
      /\ Size(In(g[c], id)) = 1 => Size(InChannels(ch, id)) = 0 \/ Size(In(ch[c], id)) = 1
  BY <1>1, <1>2, <1>3
<1>5. Size(InChannels(g, id)) = Size(InChannels(ch, id)) - Size(In(ch[c], id)) + Size(In(g[c], id))
  BY <1>4, ChannelUpdate
<1> QED
  BY <1>1, <1>3, <1>5

LEMMA ChannelAppended ==
    ASSUME NEW ch, NEW g, NEW c, Changed(Comps, ch, g, c), NEW m, Appended(ch[c], g[c], m),
           NEW id, Size(InChannels(ch, id)) <= 1, m.id = id => Size(InChannels(ch, id)) = 0
    PROVE  Size(InChannels(g, id)) = Size(InChannels(ch, id)) + (IF m.id = id THEN 1 ELSE 0)
<1>1. Size(InChannels(ch, id)) \in 0 .. 2 /\ Size(In(ch[c], id)) \in 0 .. 2
  BY SizeTypes
<1>2. Size(In(ch[c], id)) <= Size(InChannels(ch, id))
  BY ChannelPart DEF Changed
<1>3. Size(In(g[c], id)) = Size(In(ch[c], id)) + (IF m.id = id THEN 1 ELSE 0)
  BY <1>1, <1>2, InAppended
<1>4. /\ Size(In(g[c], id)) <= 1
      /\ Size(In(g[c], id)) = 1 => Size(InChannels(ch, id)) = 0 \/ Size(In(ch[c], id)) = 1
  BY <1>1, <1>2, <1>3
<1>5. Size(InChannels(g, id)) = Size(InChannels(ch, id)) - Size(In(ch[c], id)) + Size(In(g[c], id))
  BY <1>4, ChannelUpdate
<1> QED
  BY <1>1, <1>3, <1>5

\* A step that moves a message or drops it, and one that makes a message.
LEMMA KeptMoved ==
    ASSUME TypeInv, NEW id \in Nat \ {0}, Kept(id), made' = made, NEW n \in 0 .. 1,
           Total(id)' = Total(id) - n, id \in lost' <=> id \in lost \/ n = 1
    PROVE  Kept(id)'
<1>1. Total(id) \in 0 .. 1 /\ made \in Nat
  BY TotalTypes
<1>2. Total(id)' >= 0
  <2> DEFINE a == Size(Held(call', id)) + Size(InChannels(channel', id)) + Size(Held(dumper', id))
             b == Size(InCounters(statsList', id)) + Size(In(pipe', id)) + Size(Held(adder', id))
             c == Size(In(queue', id)) + Size(InList(outputList', id)) + Size(InFiles(files', id))
  <2>1. a \in Nat /\ b \in Nat /\ c \in Nat
    BY SizeTypes
  <2>2. Total(id)' = a + b + c
    BY <2>1, SizeTypes DEF Total
  <2> QED
    BY <2>1, <2>2
<1>3. CASE n = 1
  <2>1. Total(id) = 1 /\ Total(id)' = 0
    BY <1>1, <1>2, <1>3
  <2>2. id \in 1 .. made /\ id \in lost'
    BY <1>3, <2>1 DEF Kept
  <2> QED
    BY <1>1, <2>1, <2>2 DEF Kept
<1>4. CASE n = 0
  BY <1>1, <1>4 DEF Kept
<1> QED
  BY <1>3, <1>4

LEMMA KeptMade ==
    ASSUME TypeInv, NEW id \in Nat \ {0}, Kept(id), made' = made + 1, lost' = lost,
           Total(id)' = Total(id) + (IF id = made + 1 THEN 1 ELSE 0)
    PROVE  Kept(id)'
<1>1. Total(id) \in 0 .. 1 /\ made \in Nat
  BY TotalTypes
<1>2. CASE id = made + 1
  <2>1. Total(id) = 0 /\ Total(id)' = 1 /\ id \notin lost' /\ id \in 1 .. made'
    BY <1>1, <1>2 DEF Kept
  <2> QED
    BY <1>1, <2>1 DEF Kept
<1>3. CASE id # made + 1
  <2>1. id \in 1 .. made' <=> id \in 1 .. made
    BY <1>1, <1>3
  <2> QED
    BY <1>1, <1>3, <2>1 DEF Kept
<1> QED
  BY <1>2, <1>3

\* Collectors: push, send, take.
LEMMA PushKept ==
    ASSUME Inv, NEW id \in Nat \ {0}, Kept(id),
           NEW t \in Threads, NEW c \in Comps, NEW kind \in {"event", "update"}, Push(t, c, kind)
    PROVE  Kept(id)'
<1>1. Changed(Threads, call, call', t)
  BY DEF Changed, Push, Inv, TypeInv, CollectorTypes
<1>2. call[t].msg.id = 0 /\ call'[t].msg.id = made + 1
  BY DEF Push, Inv, TypeInv, CollectorTypes, Idle, NoMsg, New
<1>3. Size(Held(call', id)) = Size(Held(call, id)) + (IF id = made + 1 THEN 1 ELSE 0)
  <2>1. Size(Held(call, id)) <= 1 /\ (call'[t].msg.id = id => Size(Held(call, id)) = 0)
    BY <1>2, TotalTypes DEF Inv
  <2>2. Size(Held(call', id))
          = Size(Held(call, id)) - (IF call[t].msg.id = id THEN 1 ELSE 0)
                                 + (IF call'[t].msg.id = id THEN 1 ELSE 0)
    BY <1>1, <2>1, HeldUpdate
  <2> QED
    BY <1>2, <2>2, SizeTypes
<1>4. UNCHANGED <<channel, dumper, statsList, pipe, adder, queue, outputList, files, lost>>
      /\ made' = made + 1
  BY DEF Push, fileVars
<1>5. Total(id)' = Total(id) + (IF id = made + 1 THEN 1 ELSE 0)
  BY <1>3, <1>4, TotalTypes DEF Inv, Total
<1> QED
  BY <1>4, <1>5, KeptMade DEF Inv

LEMMA MakesRoomKept ==
    ASSUME Inv, NEW id \in Nat \ {0}, Kept(id), NEW t \in Threads, MakesRoom(t)
    PROVE  Kept(id)'
<1> DEFINE c == call[t].msg.comp
           n == IF Head(channel[c]).id = id THEN 1 ELSE 0
<1>1. c \in Comps
  BY DEF MakesRoom, Inv, TypeInv, CollectorTypes, Hand, Idle, Pushed, Message
<1>2. /\ Changed(Comps, channel, channel', c) /\ Taken(channel[c], channel'[c], Head(channel[c]))
  BY <1>1 DEF Changed, Taken, MakesRoom, Inv, TypeInv, CollectorTypes
<1>3. Changed(Threads, call, call', t) /\ call'[t].msg = call[t].msg
  BY DEF Changed, MakesRoom, Inv, TypeInv, CollectorTypes
<1>4. /\ made' = made /\ (id \in lost' <=> id \in lost \/ n = 1)
      /\ UNCHANGED <<dumper, statsList, pipe, adder, queue, outputList, files>>
  BY DEF MakesRoom, fileVars
<1> HIDE DEF c
<1>5. Held(call', id) = Held(call, id)
  BY <1>3, HeldSame
<1>6. Size(InChannels(channel', id)) = Size(InChannels(channel, id)) - n
  <2>1. Size(InChannels(channel, id)) <= 1
    BY TotalTypes DEF Inv
  <2> QED
    BY <1>2, <2>1, ChannelTaken
<1> HIDE DEF n
<1>7. n \in 0 .. 1
  BY DEF n
<1>8. Total(id)' = Total(id) - n
  BY <1>4, <1>5, <1>6, <1>7, TotalTypes DEF Inv, Total
<1> QED
  BY <1>4, <1>7, <1>8, KeptMoved DEF Inv

LEMMA SendsKept ==
    ASSUME Inv, NEW id \in Nat \ {0}, Kept(id), NEW t \in Threads, Sends(t)
    PROVE  Kept(id)'
<1> DEFINE c == call[t].msg.comp
           m == call[t].msg
           n == IF m.id = id THEN 1 ELSE 0
<1>1. c \in Comps /\ m \in Pushed
  BY DEF Sends, Inv, TypeInv, CollectorTypes, Hand, Idle, Pushed, Message
<1>2. /\ Changed(Comps, channel, channel', c) /\ Appended(channel[c], channel'[c], m)
  BY <1>1 DEF Changed, Appended, Sends, Inv, TypeInv, CollectorTypes
<1>3. Changed(Threads, call, call', t)
  BY DEF Changed, Sends, Inv, TypeInv, CollectorTypes
<1>4. call'[t].msg.id = 0
  BY DEF Sends, Inv, TypeInv, CollectorTypes, Idle, NoMsg
<1>5. /\ made' = made /\ lost' = lost
      /\ UNCHANGED <<dumper, statsList, pipe, adder, queue, outputList, files>>
  BY DEF Sends, fileVars
<1>6. Size(Held(call', id)) = Size(Held(call, id)) - n
  <2>1. Size(Held(call, id)) <= 1 /\ (call'[t].msg.id = id => Size(Held(call, id)) = 0)
    BY <1>4, TotalTypes DEF Inv
  <2>2. Size(Held(call', id))
          = Size(Held(call, id)) - (IF call[t].msg.id = id THEN 1 ELSE 0)
                                 + (IF call'[t].msg.id = id THEN 1 ELSE 0)
    BY <1>3, <2>1, HeldUpdate
  <2> QED
    BY <1>4, <2>2, SizeTypes
<1>7. m.id = id => Size(InChannels(channel, id)) = 0
  <2>1. m.id = id => t \in Held(call, id)
    BY <1>3 DEF Held, Changed
  <2>2. m.id = id => Size(Held(call, id)) # 0
    BY <2>1, SizeTypes
  <2> QED
    BY <2>2, TotalTypes DEF Inv
<1> HIDE DEF c, m
<1>8. Size(InChannels(channel', id)) = Size(InChannels(channel, id)) + n
  <2>1. Size(InChannels(channel, id)) <= 1
    BY TotalTypes DEF Inv
  <2> QED
    BY <1>2, <1>7, <2>1, ChannelAppended
<1> HIDE DEF n
<1>9. n \in 0 .. 1
  BY DEF n
<1>10. Total(id)' = Total(id) - 0
  BY <1>5, <1>6, <1>8, <1>9, TotalTypes DEF Inv, Total
<1> QED
  BY <1>5, <1>10, KeptMoved DEF Inv

LEMMA TakesKept ==
    ASSUME Inv, NEW id \in Nat \ {0}, Kept(id), NEW c \in Comps, Takes(c)
    PROVE  Kept(id)'
<1> DEFINE m == Head(channel[c])
           n == IF m.id = id THEN 1 ELSE 0
<1>1. Changed(Comps, channel, channel', c) /\ Taken(channel[c], channel'[c], m)
  BY DEF Changed, Taken, Takes, Inv, TypeInv, CollectorTypes
<1>2. Changed(Comps, dumper, dumper', c)
  BY DEF Changed, Takes, Inv, TypeInv, CollectorTypes
<1>3. dumper[c].msg.id = 0 /\ dumper'[c].msg = m
  BY DEF Takes, Inv, TypeInv, CollectorTypes, Idle, NoMsg
<1>4. /\ made' = made /\ lost' = lost
      /\ UNCHANGED <<call, statsList, pipe, adder, queue, outputList, files>>
  BY DEF Takes, fileVars
<1> HIDE DEF m
<1>5. Size(InChannels(channel', id)) = Size(InChannels(channel, id)) - n
  <2>1. Size(InChannels(channel, id)) <= 1
    BY TotalTypes DEF Inv
  <2> QED
    BY <1>1, <2>1, ChannelTaken
<1>6. Size(Held(dumper', id)) = Size(Held(dumper, id)) + n
  <2>1. m.id = id => Size(InChannels(channel, id)) = 1
    BY <1>5, SizeTypes, TotalTypes DEF Inv
  <2>2. Size(Held(dumper, id)) <= 1 /\ (dumper'[c].msg.id = id => Size(Held(dumper, id)) = 0)
    BY <1>3, <2>1, TotalTypes DEF Inv
  <2>3. Size(Held(dumper', id))
          = Size(Held(dumper, id)) - (IF dumper[c].msg.id = id THEN 1 ELSE 0)
                                   + (IF dumper'[c].msg.id = id THEN 1 ELSE 0)
    BY <1>2, <2>2, HeldUpdate
  <2> QED
    BY <1>3, <2>3, SizeTypes
<1> HIDE DEF n
<1>7. n \in 0 .. 1
  BY DEF n
<1>8. Total(id)' = Total(id) - 0
  BY <1>4, <1>5, <1>6, <1>7, TotalTypes DEF Inv, Total
<1> QED
  BY <1>4, <1>8, KeptMoved DEF Inv

\* A dumper that has a message gives it away.
LEMMA DumperGives ==
    ASSUME TypeInv, NEW id \in Nat \ {0}, Kept(id), NEW c \in Comps,
           Changed(Comps, dumper, dumper', c), dumper'[c].msg.id = 0
    PROVE  /\ Size(Held(dumper', id)) = Size(Held(dumper, id)) - (IF dumper[c].msg.id = id THEN 1 ELSE 0)
           /\ dumper[c].msg.id = id => Size(Held(dumper, id)) = 1
<1>1. Size(Held(dumper, id)) <= 1 /\ (dumper'[c].msg.id = id => Size(Held(dumper, id)) = 0)
  BY TotalTypes
<1>2. Size(Held(dumper', id))
        = Size(Held(dumper, id)) - (IF dumper[c].msg.id = id THEN 1 ELSE 0)
                                 + (IF dumper'[c].msg.id = id THEN 1 ELSE 0)
  BY <1>1, HeldUpdate
<1> QED
  BY <1>2, SizeTypes, TotalTypes

LEMMA DumpsEventKept ==
    ASSUME Inv, NEW id \in Nat \ {0}, Kept(id), NEW c \in Comps, DumpsEvent(c)
    PROVE  Kept(id)'
<1> DEFINE m == dumper[c].msg
           n == IF m.id = id THEN 1 ELSE 0
<1>1. Changed(Comps, dumper, dumper', c) /\ dumper'[c].msg.id = 0
  BY DEF Changed, DumpsEvent, Inv, TypeInv, CollectorTypes, Idle, NoMsg
<1>2. m \in Message
  BY DEF DumpsEvent, Inv, TypeInv, CollectorTypes, Hand, Idle, Dead, Pushed
<1>3. Appended(pipe, pipe', m)
  BY <1>2 DEF Appended, DumpsEvent, Inv, TypeInv, MonitorTypes
<1>4. /\ made' = made /\ lost' = lost
      /\ UNCHANGED <<call, channel, statsList, adder, queue, outputList, files>>
  BY DEF DumpsEvent, fileVars
<1>5. Size(Held(dumper', id)) = Size(Held(dumper, id)) - n /\ (m.id = id => Size(Held(dumper, id)) = 1)
  BY <1>1, DumperGives DEF Inv
<1> HIDE DEF m
<1>6. Size(In(pipe', id)) = Size(In(pipe, id)) + n
  <2>1. Size(In(pipe, id)) <= 1 /\ (m.id = id => Size(In(pipe, id)) = 0)
    BY <1>5, TotalTypes DEF Inv
  <2> QED
    BY <1>3, <2>1, InAppended
<1> HIDE DEF n
<1>7. n \in 0 .. 1
  BY DEF n
<1>8. Total(id)' = Total(id) - 0
  BY <1>4, <1>5, <1>6, <1>7, TotalTypes DEF Inv, Total
<1> QED
  BY <1>4, <1>8, KeptMoved DEF Inv

LEMMA DumperFailsKept ==
    ASSUME Inv, NEW id \in Nat \ {0}, Kept(id), NEW c \in Comps, DumperFails(c)
    PROVE  Kept(id)'
<1> DEFINE n == IF dumper[c].msg.id = id THEN 1 ELSE 0
<1>1. Changed(Comps, dumper, dumper', c) /\ dumper'[c].msg.id = 0
  BY DEF Changed, DumperFails, Inv, TypeInv, CollectorTypes, NoMsg
<1>2. /\ made' = made /\ (id \in lost' <=> id \in lost \/ n = 1)
      /\ UNCHANGED <<call, channel, statsList, pipe, adder, queue, outputList, files>>
  BY DEF DumperFails, fileVars
<1>3. Size(Held(dumper', id)) = Size(Held(dumper, id)) - n
  BY <1>1, DumperGives DEF Inv
<1> HIDE DEF n
<1>4. n \in 0 .. 1
  BY DEF n
<1>5. Total(id)' = Total(id) - n
  BY <1>2, <1>3, <1>4, TotalTypes DEF Inv, Total
<1> QED
  BY <1>2, <1>4, <1>5, KeptMoved DEF Inv

\* An update more in a counter.
LEMMA CounterUpdate ==
    ASSUME NEW f, NEW g, NEW c, Changed(Comps, f, g, c), NEW x, g[c].val = f[c].val \cup {x},
           NEW id, x = id => Size(InCounters(f, id)) = 0
    PROVE  Size(InCounters(g, id)) = Size(InCounters(f, id)) + (IF x = id THEN 1 ELSE 0)
<1>1. CASE x = id
  <2>1. InCounters(f, id) = {}
    BY <1>1, SizeTypes
  <2>2. InCounters(g, id) = {c}
    BY <1>1, <2>1 DEF InCounters, Changed
  <2>3. Size(InCounters(f, id)) = 0 /\ Size(InCounters(g, id)) = 1
    BY <2>1, <2>2, SizeOne
  <2> QED
    BY <1>1, <2>3
<1>2. CASE x # id
  <2>1. InCounters(g, id) = InCounters(f, id)
    BY <1>2 DEF InCounters, Changed
  <2> QED
    BY <1>2, <2>1, SizeTypes
<1> QED
  BY <1>1, <1>2

LEMMA DumpsUpdateKept ==
    ASSUME Inv, NEW id \in Nat \ {0}, Kept(id), NEW c \in Comps, DumpsUpdate(c)
    PROVE  Kept(id)'
<1> DEFINE x == dumper[c].msg.id
           n == IF x = id THEN 1 ELSE 0
<1>1. Changed(Comps, dumper, dumper', c) /\ dumper'[c].msg.id = 0
  BY DEF Changed, DumpsUpdate, Inv, TypeInv, CollectorTypes, Idle, NoMsg
<1>2. Changed(Comps, statsList, statsList', c) /\ statsList'[c].val = statsList[c].val \cup {x}
  BY DEF Changed, DumpsUpdate, Inv, TypeInv, CollectorTypes
<1>3. /\ made' = made /\ lost' = lost
      /\ UNCHANGED <<call, channel, pipe, adder, queue, outputList, files>>
  BY DEF DumpsUpdate, fileVars
<1>4. Size(Held(dumper', id)) = Size(Held(dumper, id)) - n /\ (x = id => Size(Held(dumper, id)) = 1)
  BY <1>1, DumperGives DEF Inv
<1> HIDE DEF x
<1>5. Size(InCounters(statsList', id)) = Size(InCounters(statsList, id)) + n
  <2>1. x = id => Size(InCounters(statsList, id)) = 0
    BY <1>4, TotalTypes DEF Inv
  <2> QED
    BY <1>2, <2>1, CounterUpdate
<1> HIDE DEF n
<1>6. n \in 0 .. 1
  BY DEF n
<1>7. Total(id)' = Total(id) - 0
  BY <1>3, <1>4, <1>5, <1>6, TotalTypes DEF Inv, Total
<1> QED
  BY <1>3, <1>7, KeptMoved DEF Inv

LEMMA PollSendsKept ==
    ASSUME Inv, NEW id \in Nat \ {0}, Kept(id), NEW c \in Comps, PollSends(c)
    PROVE  Kept(id)'
<1> DEFINE m == [kind |-> "poll", id |-> 0, comp |-> c, ts |-> statsList[c].ts, val |-> statsList[c].val]
<1>1. Appended(pipe, pipe', m)
  <2>1. m \in Message
    BY DEF Inv, TypeInv, CollectorTypes, Message
  <2>2. pipe \in Seq(Message) /\ pipe' = Append(pipe, m)
    BY DEF PollSends, Inv, TypeInv, MonitorTypes
  <2> QED
    BY <2>1, <2>2 DEF Appended
<1>2. /\ made' = made /\ lost' = lost /\ m.id # id
      /\ UNCHANGED <<call, channel, dumper, statsList, adder, queue, outputList, files>>
  BY DEF PollSends, fileVars
<1> HIDE DEF m
<1>3. Size(In(pipe', id)) = Size(In(pipe, id))
  <2>1. Size(In(pipe, id)) <= 1
    BY TotalTypes DEF Inv
  <2> QED
    BY <1>1, <1>2, <2>1, InAppended, SizeTypes
<1>4. Total(id)' = Total(id) - 0
  BY <1>2, <1>3, TotalTypes DEF Inv, Total
<1> QED
  BY <1>2, <1>4, KeptMoved DEF Inv

\* The monitor: what it reads, what its profilers add, and the exporter's channel.
LEMMA AdderUpdate ==
    ASSUME TypeInv, NEW id \in Nat \ {0}, Kept(id), NEW a \in Adders, Changed(Adders, adder, adder', a),
           adder'[a].msg.id = id => Size(Held(adder, id)) = 0
    PROVE  /\ Size(Held(adder', id)) = Size(Held(adder, id)) - (IF adder[a].msg.id = id THEN 1 ELSE 0)
                                         + (IF adder'[a].msg.id = id THEN 1 ELSE 0)
           /\ adder[a].msg.id = id => Size(Held(adder, id)) = 1
<1>1. Size(Held(adder, id)) <= 1
  BY TotalTypes
<1>2. Size(Held(adder', id)) = Size(Held(adder, id)) - (IF adder[a].msg.id = id THEN 1 ELSE 0)
                                 + (IF adder'[a].msg.id = id THEN 1 ELSE 0)
  BY <1>1, HeldUpdate
<1>3. adder[a].msg.id = id => a \in Held(adder, id)
  BY DEF Held, Changed
<1>4. adder[a].msg.id = id => Size(Held(adder, id)) # 0
  BY <1>3, SizeTypes
<1> QED
  BY <1>2, <1>4, TotalTypes

LEMMA ReaderKept ==
    ASSUME Inv, NEW id \in Nat \ {0}, Kept(id), statsReader
    PROVE  Kept(id)'
<1> DEFINE m == Head(pipe)
           n == IF m.id = id THEN 1 ELSE 0
           a == "reader"
<1>1. Taken(pipe, pipe', m)
  BY DEF Taken, statsReader, Inv, TypeInv, MonitorTypes
<1>2. a \in Adders /\ Changed(Adders, adder, adder', a)
  BY DEF Changed, Adders, statsReader, Inv, TypeInv, MonitorTypes
<1>3. adder[a].msg.id = 0 /\ adder'[a].msg = m
  BY DEF Adders, statsReader, Inv, TypeInv, MonitorTypes, Idle, NoMsg, Added
<1>4. /\ made' = made /\ lost' = lost
      /\ UNCHANGED <<call, channel, dumper, statsList, queue, outputList, files>>
  BY DEF statsReader, mountVars, fileVars
<1> HIDE DEF m, a
<1>5. Size(In(pipe', id)) = Size(In(pipe, id)) - n
  <2>1. Size(In(pipe, id)) <= 1
    BY TotalTypes DEF Inv
  <2> QED
    BY <1>1, <2>1, InTaken
<1>6. Size(Held(adder', id)) = Size(Held(adder, id)) + n
  <2>1. m.id = id => Size(In(pipe, id)) = 1
    BY <1>5, SizeTypes, TotalTypes DEF Inv
  <2>2. adder'[a].msg.id = id => Size(Held(adder, id)) = 0
    BY <1>3, <2>1, TotalTypes DEF Inv
  <2>3. Size(Held(adder', id)) = Size(Held(adder, id)) - (IF adder[a].msg.id = id THEN 1 ELSE 0)
                                   + (IF adder'[a].msg.id = id THEN 1 ELSE 0)
    BY <1>2, <2>2, AdderUpdate DEF Inv
  <2> QED
    BY <1>3, <2>3, SizeTypes
<1> HIDE DEF n
<1>7. n \in 0 .. 1
  BY DEF n
<1>8. Total(id)' = Total(id) - 0
  BY <1>4, <1>5, <1>6, <1>7, TotalTypes DEF Inv, Total
<1> QED
  BY <1>4, <1>8, KeptMoved DEF Inv

LEMMA ProfilesKept ==
    ASSUME Inv, NEW id \in Nat \ {0}, Kept(id), NEW c \in Comps, Profiles(c)
    PROVE  Kept(id)'
<1> DEFINE a == "profiler"
<1>1. a \in Adders /\ Changed(Adders, adder, adder', a)
  BY DEF Changed, Adders, Profiles, Inv, TypeInv, MonitorTypes
<1>2. adder[a].msg.id = 0 /\ adder'[a].msg.id = made + 1
  BY DEF Adders, Profiles, Inv, TypeInv, MonitorTypes, Idle, NoMsg, Added, New
<1>3. /\ made' = made + 1 /\ lost' = lost
      /\ UNCHANGED <<call, channel, dumper, statsList, pipe, queue, outputList, files>>
  BY DEF Profiles, mountVars, fileVars
<1> HIDE DEF a
<1>4. Size(Held(adder', id)) = Size(Held(adder, id)) + (IF id = made + 1 THEN 1 ELSE 0)
  <2>1. adder'[a].msg.id = id => Size(Held(adder, id)) = 0
    BY <1>2, TotalTypes DEF Inv
  <2>2. Size(Held(adder', id)) = Size(Held(adder, id)) - (IF adder[a].msg.id = id THEN 1 ELSE 0)
                                   + (IF adder'[a].msg.id = id THEN 1 ELSE 0)
    BY <1>1, <2>1, AdderUpdate DEF Inv
  <2> QED
    BY <1>2, <2>2, SizeTypes
<1>5. Total(id)' = Total(id) + (IF id = made + 1 THEN 1 ELSE 0)
  BY <1>3, <1>4, TotalTypes DEF Inv, Total
<1> QED
  BY <1>3, <1>5, KeptMade DEF Inv

LEMMA AddMakesRoomKept ==
    ASSUME Inv, NEW id \in Nat \ {0}, Kept(id), NEW a \in Adders, AddMakesRoom(a)
    PROVE  Kept(id)'
<1> DEFINE m == Head(queue)
           n == IF m.id = id THEN 1 ELSE 0
<1>1. Taken(queue, queue', m)
  BY DEF Taken, AddMakesRoom, Inv, TypeInv, MonitorTypes
<1>2. Changed(Adders, adder, adder', a) /\ adder'[a].msg = adder[a].msg
  BY DEF Changed, AddMakesRoom, Inv, TypeInv, MonitorTypes
<1>3. /\ made' = made /\ (id \in lost' <=> id \in lost \/ n = 1)
      /\ UNCHANGED <<call, channel, dumper, statsList, pipe, outputList, files>>
  BY DEF AddMakesRoom, mountVars, fileVars
<1> HIDE DEF m
<1>4. Size(In(queue', id)) = Size(In(queue, id)) - n
  <2>1. Size(In(queue, id)) <= 1
    BY TotalTypes DEF Inv
  <2> QED
    BY <1>1, <2>1, InTaken
<1>5. Held(adder', id) = Held(adder, id)
  BY <1>2, HeldSame
<1> HIDE DEF n
<1>6. n \in 0 .. 1
  BY DEF n
<1>7. Total(id)' = Total(id) - n
  BY <1>3, <1>4, <1>5, <1>6, TotalTypes DEF Inv, Total
<1> QED
  BY <1>3, <1>6, <1>7, KeptMoved DEF Inv

LEMMA AddMonitorStatsKept ==
    ASSUME Inv, NEW id \in Nat \ {0}, Kept(id), NEW a \in Adders, AddMonitorStats(a)
    PROVE  Kept(id)'
<1> DEFINE m == adder[a].msg
           n == IF m.id = id THEN 1 ELSE 0
<1>1. Changed(Adders, adder, adder', a) /\ adder'[a].msg.id = 0
  BY DEF Changed, AddMonitorStats, Inv, TypeInv, MonitorTypes, Idle, NoMsg
<1>2. m \in Message
  BY DEF AddMonitorStats, Inv, TypeInv, MonitorTypes, Hand, Idle
<1>3. Appended(queue, queue', m)
  BY <1>2 DEF Appended, AddMonitorStats, Inv, TypeInv, MonitorTypes
<1>4. /\ made' = made /\ lost' = lost
      /\ UNCHANGED <<call, channel, dumper, statsList, pipe, outputList, files>>
  BY DEF AddMonitorStats, mountVars, fileVars
<1>5. Size(Held(adder', id)) = Size(Held(adder, id)) - n /\ (m.id = id => Size(Held(adder, id)) = 1)
  <2>1. adder'[a].msg.id # id
    BY <1>1
  <2> QED
    BY <1>1, <2>1, AdderUpdate, SizeTypes DEF Inv
<1> HIDE DEF m
<1>6. Size(In(queue', id)) = Size(In(queue, id)) + n
  <2>1. Size(In(queue, id)) <= 1 /\ (m.id = id => Size(In(queue, id)) = 0)
    BY <1>5, TotalTypes DEF Inv
  <2> QED
    BY <1>3, <2>1, InAppended
<1> HIDE DEF n
<1>7. n \in 0 .. 1
  BY DEF n
<1>8. Total(id)' = Total(id) - 0
  BY <1>4, <1>5, <1>6, <1>7, TotalTypes DEF Inv, Total
<1> QED
  BY <1>4, <1>8, KeptMoved DEF Inv

LEMMA IdsIn ==
    ASSUME NEW s, NEW id PROVE id \in Ids(s) <=> Size(In(s, id)) # 0
<1>1. id \in Ids(s) <=> \E i \in DOMAIN s : s[i].id = id
  BY DEF Ids, Range
<1>2. In(s, id) # {} <=> \E i \in DOMAIN s : s[i].id = id
  BY DEF In
<1> QED
  BY <1>1, <1>2, SizeTypes

LEMMA EmptySize ==
    ASSUME NEW id PROVE Size(In(<<>>, id)) = 0 /\ Size(InList(<<>>, id)) = 0
<1>1. In(<<>>, id) = {}
  <2>1. DOMAIN (<<>>) = {}
    OBVIOUS
  <2> QED
    BY <2>1 DEF In
<1> QED
  BY <1>1, SizeOne, EmptyLists

LEMMA KillMonitorKept ==
    ASSUME Inv, NEW id \in Nat \ {0}, Kept(id), KillMonitor
    PROVE  Kept(id)'
<1> DEFINE p == Size(In(pipe, id))
           q == Size(In(queue, id))
           a == Size(Held(adder, id))
           l == Size(InList(outputList, id))
           n == p + q + a + l
<1>1. /\ pipe' = <<>> /\ queue' = <<>> /\ outputList' = <<>> /\ made' = made
      /\ UNCHANGED <<call, channel, dumper, statsList, files>>
  BY DEF KillMonitor, mountVars
<1>2. /\ Size(In(pipe', id)) = 0 /\ Size(In(queue', id)) = 0 /\ Size(InList(outputList', id)) = 0
  BY <1>1, EmptySize
<1>3. Size(Held(adder', id)) = 0
  <2>1. Held(adder', id) = {}
    BY DEF Held, KillMonitor, Idle, NoMsg
  <2> QED
    BY <2>1, SizeOne
<1>4. id \in lost' <=> id \in lost \/ p # 0 \/ q # 0 \/ l # 0 \/ a # 0
  <2>1. id \in {adder[x].msg.id : x \in Adders} <=> a # 0
    <3>1. Held(adder, id) # {} <=> \E x \in Adders : adder[x].msg.id = id
      BY DEF Held, Inv, TypeInv, MonitorTypes
    <3> QED
      BY <3>1, SizeTypes
  <2>2. lost' = lost \cup Ids(pipe) \cup Ids(queue) \cup RecordsOf(outputList)
                     \cup {adder[x].msg.id : x \in Adders}
    BY DEF KillMonitor
  <2>3. (id \in Ids(pipe) <=> p # 0) /\ (id \in Ids(queue) <=> q # 0) /\ (id \in RecordsOf(outputList) <=> l # 0)
    BY IdsIn, RecordsOfIn
  <2> HIDE DEF p, q, a, l
  <2> QED
    BY <2>1, <2>2, <2>3
<1>5. p \in Nat /\ q \in Nat /\ a \in Nat /\ l \in Nat
  BY SizeTypes
<1>6. Total(id)' = Total(id) - n
  BY <1>1, <1>2, <1>3, TotalTypes DEF Inv, Total
<1>7. n <= Total(id)
  BY SizeTypes DEF Total
<1> HIDE DEF p, q, a, l
<1>8. n \in 0 .. 1 /\ (id \in lost' <=> id \in lost \/ n = 1)
  <2>1. Total(id) \in 0 .. 1
    BY TotalTypes DEF Inv
  <2> QED
    BY <1>4, <1>5, <1>7, <2>1
<1> HIDE DEF n
<1> QED
  BY <1>1, <1>6, <1>8, KeptMoved DEF Inv

LEMMA CloseExporterKept ==
    ASSUME Inv, NEW id \in Nat \ {0}, Kept(id), CloseExporter
    PROVE  Kept(id)'
<1> DEFINE l == Size(InList(outputList, id))
           D == 0 .. FileCount - 1
           w == Written(files[0], outputList)
<1>1. /\ made' = made /\ lost' = lost /\ outputList' = <<>>
      /\ UNCHANGED <<call, channel, dumper, statsList, pipe, adder, queue>>
  BY DEF CloseExporter, mountVars
<1>2. /\ 0 \in D /\ DOMAIN files = D /\ DOMAIN files' = D /\ files'[0] = w
      /\ \A i \in D : i # 0 => files'[i] = files[i]
  BY BoundsAssumption DEF CloseExporter, Inv, FilesInv
<1>3. /\ Size(InFiles(files, id)) \in 0 .. 1 /\ l \in 0 .. 1
      /\ l = 1 => Size(InFiles(files, id)) = 0
  BY TotalTypes DEF Inv
<1>4. Size(InList(files[0], id)) <= Size(InFiles(files, id))
  <2> DEFINE k == 0
  <2>1. k \in DOMAIN files /\ Size(InFiles(files, id)) <= 1
    BY <1>2, <1>3
  <2> HIDE DEF k
  <2>2. Size(InList(files[k], id)) <= Size(InFiles(files, id))
    BY <2>1, FilePart
  <2> QED
    BY <2>2 DEF k
<1>5. Size(InList(w, id)) = Size(InList(files[0], id)) + l
  <2>1. Size(InList(files[0], id)) + Size(InList(outputList, id)) <= 1
    BY <1>3, <1>4, SizeTypes
  <2>2. files[0] \in Seq(Line) /\ outputList \in Seq(Record) /\ PassTypes
    BY <1>2 DEF Inv, FilesInv, TypeInv
  <2> QED
    BY <2>1, <2>2, WrittenSize
<1> HIDE DEF D, w, l
<1>6. /\ Size(InList(files'[0], id)) <= 1
      /\ Size(InList(files'[0], id)) = 1 => Size(InFiles(files, id)) = 0 \/ Size(InList(files[0], id)) = 1
  BY <1>2, <1>3, <1>4, <1>5, SizeTypes
<1>7. Size(InFiles(files', id)) = Size(InFiles(files, id)) + l
  <2>1. Size(InFiles(files', id))
          = Size(InFiles(files, id)) - Size(InList(files[0], id)) + Size(InList(files'[0], id))
    BY <1>2, <1>3, <1>6, FileUpdate
  <2> QED
    BY <1>2, <1>3, <1>5, <2>1, SizeTypes
<1>8. Size(InList(outputList', id)) = 0
  BY <1>1, EmptySize
<1>9. Total(id)' = Total(id) - 0
  BY <1>1, <1>3, <1>7, <1>8, TotalTypes DEF Inv, Total, l
<1> QED
  BY <1>1, <1>9, KeptMoved DEF Inv

\* The exporter: a message into the record of its second, which a profiler's message
\* leaves without the one before it.
LEMMA GrownKept ==
    ASSUME Inv, TimesInv, NEW id \in Nat \ {0}, Kept(id), StatsExporter,
           checkInList(Head(queue).ts) # {}
    PROVE  Kept(id)'
<1> DEFINE m == Head(queue)
           idx == checkInList(m.ts)
           n == IF m.id = id THEN 1 ELSE 0
           l == Size(InList(outputList, id))
<1>1. m \in Message /\ Taken(queue, queue', m)
  BY DEF StatsExporter, Taken, Inv, TypeInv, MonitorTypes
<1>2. PICK k \in idx : TRUE
  OBVIOUS
<1> DEFINE op == outputList[k]
           u == IF m.kind = "usage" /\ (\E x \in op.usage : x.id = id) THEN 1 ELSE 0
<1>3. k \in DOMAIN outputList /\ idx = {k}
  BY <1>2 DEF checkInList, TimesInv
<1>4. /\ DOMAIN outputList' = DOMAIN outputList /\ outputList'[k] = addToList(op, m)
      /\ \A i \in DOMAIN outputList : i # k => outputList'[i] = outputList[i]
  BY <1>3 DEF StatsExporter
<1>5. files' = files /\ lost' = lost \cup IF m.kind = "usage" THEN {x.id : x \in op.usage} ELSE {}
  <2>1. files' = files
    BY DEF StatsExporter
  <2>2. UNION {{x.id : x \in outputList[i].usage} : i \in idx} = {x.id : x \in op.usage}
    BY <1>3
  <2>3. lost' = lost \cup {} \cup (IF m.kind = "usage"
                                  THEN UNION {{x.id : x \in outputList[i].usage} : i \in idx} ELSE {})
    BY DEF StatsExporter
  <2> HIDE DEF m, idx, op
  <2> QED
    BY <2>1, <2>2, <2>3
<1>6. /\ made' = made /\ UNCHANGED <<call, channel, dumper, statsList, pipe, adder>>
  BY DEF StatsExporter, mountVars
<1>7. op \in Record /\ PassTypes
  BY <1>3 DEF Inv, FilesInv, TypeInv
<1> HIDE DEF m, idx
<1>8. Size(In(queue', id)) = Size(In(queue, id)) - n
  <2>1. Size(In(queue, id)) <= 1
    BY TotalTypes DEF Inv
  <2> QED
    BY <1>1, <2>1, InTaken
<1>9. l \in 0 .. 1 /\ (m.id = id => l = 0)
  BY <1>8, SizeTypes, TotalTypes DEF Inv
<1>10. Size(InRecord(op, id)) \in 0 .. 1 /\ Size(InRecord(op, id)) <= l
  BY <1>3, <1>9, ListPart, SizeTypes
<1>11. Size(InRecord(addToList(op, m), id)) = Size(InRecord(op, id)) - u + n
  <2>1. Size(InRecord(op, id)) <= 1 /\ (m.id = id => Size(InRecord(op, id)) = 0)
    BY <1>9, <1>10
  <2> HIDE DEF op
  <2> QED
    BY <1>1, <1>7, <2>1, RecordGrows
<1> HIDE DEF op
<1>12. Size(InList(outputList', id)) = l - u + n
  <2>1. /\ Size(InRecord(outputList'[k], id)) = Size(InRecord(outputList[k], id)) - u + n
        /\ Size(InRecord(outputList[k], id)) \in 0 .. 1 /\ Size(InRecord(outputList[k], id)) <= l
    BY <1>4, <1>10, <1>11 DEF op
  <2>2. /\ Size(InRecord(outputList'[k], id)) <= 1
        /\ Size(InRecord(outputList'[k], id)) = 1 =>
              Size(InList(outputList, id)) = 0 \/ Size(InRecord(outputList[k], id)) = 1
    BY <1>9, <2>1
  <2>3. Size(InList(outputList', id)) = Size(InList(outputList, id))
          - Size(InRecord(outputList[k], id)) + Size(InRecord(outputList'[k], id))
    BY <1>3, <1>4, <1>9, <2>2, ListUpdate
  <2> QED
    BY <1>9, <2>1, <2>3
<1>13. id \in lost' <=> id \in lost \/ u = 1
  BY <1>5
<1> HIDE DEF u, n
<1>14. u \in 0 .. 1 /\ n \in 0 .. 1
  BY DEF u, n
<1>15. Total(id)' = Total(id) - u
  BY <1>5, <1>6, <1>8, <1>12, <1>14, TotalTypes DEF Inv, Total
<1> QED
  BY <1>6, <1>13, <1>14, <1>15, KeptMoved DEF Inv

\* The exporter: a message with a record of its own, for which the oldest one may go
\* to the file, and the oldest file with it.
LEMMA AddedKept ==
    ASSUME Inv, NEW id \in Nat \ {0}, Kept(id), StatsExporter,
           checkInList(Head(queue).ts) = {}
    PROVE  Kept(id)'
<1> DEFINE m == Head(queue)
           n == IF m.id = id THEN 1 ELSE 0
           l == Size(InList(outputList, id))
           fs == Size(InFiles(files, id))
           r == addToList(Blank(m.ts), m)
           oldest == files[FileCount - 1]
           full == Cardinality(Records(files[0])) + 1 >= FileMax
<1>1. m \in Message /\ Taken(queue, queue', m)
  BY DEF StatsExporter, Taken, Inv, TypeInv, MonitorTypes
<1>2. /\ made' = made /\ UNCHANGED <<call, channel, dumper, statsList, pipe, adder>>
  BY DEF StatsExporter, mountVars
<1>3. PassTypes /\ outputList \in Seq(Record) /\ files \in [0 .. FileCount - 1 -> Seq(Line)]
  BY DEF Inv, FilesInv, TypeInv
<1>4. IF Len(outputList) >= Keep
      THEN /\ outputList' = Append(Tail(outputList), r)
           /\ files' = addToOutputFile(files, Head(outputList))
           /\ lost' = lost \cup IF full THEN RecordsOf(oldest) ELSE {}
      ELSE outputList' = Append(outputList, r) /\ files' = files /\ lost' = lost
  BY DEF StatsExporter
<1> HIDE DEF m
<1>5. Size(In(queue', id)) = Size(In(queue, id)) - n
  <2>1. Size(In(queue, id)) <= 1
    BY TotalTypes DEF Inv
  <2> QED
    BY <1>1, <2>1, InTaken
<1>6. l \in 0 .. 1 /\ fs \in 0 .. 1 /\ (m.id = id => l = 0) /\ (l = 1 => fs = 0)
  BY <1>5, SizeTypes, TotalTypes DEF Inv
<1>7. r \in Record /\ Size(InRecord(r, id)) = n
  <2> DEFINE op == Blank(m.ts)
  <2>1. op \in Record /\ op.usage = {}
    BY <1>1 DEF Blank, Record, Message
  <2>2. Size(InRecord(op, id)) = 0
    BY BlankEmpty, SizeOne
  <2> HIDE DEF op
  <2>3. Size(InRecord(addToList(op, m), id)) = Size(InRecord(op, id))
          - (IF m.kind = "usage" /\ (\E x \in op.usage : x.id = id) THEN 1 ELSE 0) + n
    BY <1>1, <1>3, <2>1, <2>2, RecordGrows
  <2>4. Size(InRecord(addToList(op, m), id)) = n
    BY <2>1, <2>2, <2>3
  <2>5. addToList(op, m) \in Record
    BY <1>1, <1>3, <2>1, AddToListTypes
  <2> QED
    BY <2>4, <2>5 DEF op
<1>8. n \in 0 .. 1 /\ (n = 1 => l = 0)
  BY <1>6
<1> HIDE DEF r, n
<1>9. CASE Len(outputList) < Keep
  <2>1. outputList' = Append(outputList, r) /\ files' = files /\ lost' = lost
    BY <1>3, <1>4, <1>9, RecordTypes
  <2>2. Size(InList(Append(outputList, r), id)) = l + n
    BY <1>3, <1>6, <1>7, <1>8, ListAppend
  <2>3. Total(id)' = Total(id) - 0
    BY <1>2, <1>5, <1>6, <1>8, <2>1, <2>2, TotalTypes DEF Inv, Total
  <2> QED
    BY <1>2, <2>1, <2>3, KeptMoved DEF Inv
<1>10. CASE Len(outputList) >= Keep
  <2> DEFINE head == Head(outputList)
             kept == Tail(outputList)
             h == Size(InRecord(head, id))
             o == Size(InList(oldest, id))
             g == addToOutputFile(files, head)
             u == IF full THEN o ELSE 0
  <2>1. /\ outputList' = Append(kept, r) /\ files' = g
        /\ lost' = lost \cup IF full THEN RecordsOf(oldest) ELSE {}
    BY <1>4, <1>10
  <2>2. outputList # <<>>
    BY <1>3, <1>10, RecordTypes
  <2>3. kept \in Seq(Record) /\ head \in Record
    BY <1>3, <2>2, Sequences
  <2>4. h <= 1 /\ Size(InList(kept, id)) = l - h
    BY <1>3, <1>6, <2>2, ListTail
  <2> HIDE DEF kept, head
  <2>5. h \in Nat /\ Size(InList(kept, id)) \in Nat /\ o \in Nat
    BY SizeTypes
  <2>6. Size(InList(Append(kept, r), id)) = l - h + n
    <3>1. Size(InList(kept, id)) <= 1 /\ (n = 1 => Size(InList(kept, id)) = 0)
      BY <1>6, <1>8, <2>4, <2>5
    <3>2. Size(InList(Append(kept, r), id)) = Size(InList(kept, id)) + Size(InRecord(r, id))
      BY <1>7, <1>8, <2>3, <3>1, ListAppend
    <3> QED
      BY <1>7, <2>4, <3>2
  <2>7. o <= fs /\ Size(InFiles(g, id)) = fs + h - u
    <3>1. Size(InFiles(files, id)) <= 1 /\ Size(InRecord(head, id)) <= 1
      BY <1>6, <2>4
    <3>2. Size(InRecord(head, id)) = 1 => Size(InFiles(files, id)) = 0
      BY <1>6, <2>4, <2>5
    <3> QED
      BY <1>3, <2>3, <3>1, <3>2, OutputSize
  <2>8. u \in 0 .. 1
    BY <1>6, <2>5, <2>7
  <2>9. id \in lost' <=> id \in lost \/ u = 1
    <3>1. id \in RecordsOf(oldest) <=> o # 0
      BY RecordsOfIn
    <3> HIDE DEF o, oldest, full
    <3>2. CASE full
      BY <2>1, <2>8, <3>1, <3>2
    <3>3. CASE ~full
      BY <2>1, <3>3
    <3> QED
      BY <3>2, <3>3
  <2> HIDE DEF u, h, g
  <2>10. Total(id)' = Total(id) - u
    <3>1. Size(InList(outputList', id)) = l - h + n /\ Size(InFiles(files', id)) = fs + h - u
      BY <2>1, <2>6, <2>7
    <3>2. h \in Nat /\ u \in Nat /\ n \in Nat /\ l \in Nat /\ fs \in Nat
      BY <1>6, <1>8, <2>5, <2>8
    <3> QED
      BY <1>2, <1>5, <3>1, <3>2, TotalTypes DEF Inv, Total
  <2> QED
    BY <1>2, <2>8, <2>9, <2>10, KeptMoved DEF Inv
<1>11. Len(outputList) < Keep \/ Len(outputList) >= Keep
  BY <1>3, RecordTypes
<1> QED
  BY <1>9, <1>10, <1>11

LEMMA StatsExporterTimes == Inv /\ TimesInv /\ StatsExporter => TimesInv'
<1> SUFFICES ASSUME Inv, TimesInv, StatsExporter PROVE TimesInv'
  OBVIOUS
<1> DEFINE m == Head(queue)
           idx == checkInList(m.ts)
           flush == idx = {} /\ Len(outputList) >= Keep
           kept == IF flush THEN Tail(outputList) ELSE outputList
           r == addToList(Blank(m.ts), m)
<1>1. outputList \in Seq(Record)
  BY DEF Inv, FilesInv
<1>2. CASE idx # {}
  <2>1. DOMAIN outputList' = DOMAIN outputList /\ \A i \in DOMAIN outputList : outputList'[i].ts = outputList[i].ts
    <3>1. outputList' = [i \in DOMAIN outputList |->
                            IF i \in idx THEN addToList(outputList[i], m) ELSE outputList[i]]
      BY <1>2 DEF StatsExporter
    <3>2. \A i \in DOMAIN outputList : outputList[i] \in Record
      BY <1>1
    <3>3. \A op \in Record : addToList(op, m).ts = op.ts
      BY DEF addToList, Record
    <3> HIDE DEF idx, m
    <3> QED
      BY <3>1, <3>2, <3>3
  <2> QED
    BY <2>1 DEF TimesInv
<1>3. CASE idx = {}
  <2>1. outputList' = Append(kept, r)
    BY <1>3 DEF StatsExporter
  <2>2. r.ts = m.ts
    BY DEF addToList, Blank
  <2>3. \A i \in DOMAIN outputList : outputList[i].ts # m.ts
    BY <1>3 DEF checkInList
  <2> HIDE DEF idx, r, m
  <2>4. kept \in Seq(Record)
    BY <1>1, BoundsAssumption
  <2>5. /\ \A i \in 1 .. Len(kept) : kept[i].ts # m.ts
        /\ \A i, j \in 1 .. Len(kept) : kept[i].ts = kept[j].ts => i = j
    <3>1. CASE flush
      <4>1. outputList # <<>> /\ kept = Tail(outputList)
        BY <1>1, <3>1, BoundsAssumption
      <4>2. /\ Len(outputList) \in Nat /\ DOMAIN outputList = 1 .. Len(outputList)
            /\ Len(kept) = Len(outputList) - 1
            /\ \A i \in 1 .. Len(outputList) - 1 : kept[i] = outputList[i + 1]
        BY <1>1, <4>1
      <4> HIDE DEF kept, flush
      <4>3. \A i \in 1 .. Len(kept) : kept[i] = outputList[i + 1] /\ i + 1 \in DOMAIN outputList
        BY <4>2
      <4>4. ASSUME NEW i \in 1 .. Len(kept), NEW j \in 1 .. Len(kept), kept[i].ts = kept[j].ts PROVE i = j
        <5>1. i + 1 = j + 1
          BY <4>3, <4>4 DEF TimesInv
        <5> QED
          BY <4>2, <5>1
      <4> QED
        BY <2>3, <4>3, <4>4
    <3>2. CASE ~flush
      <4>1. kept = outputList /\ DOMAIN outputList = 1 .. Len(outputList)
        BY <1>1, <3>2
      <4> HIDE DEF kept, flush
      <4> QED
        BY <2>3, <4>1 DEF TimesInv
    <3> QED
      BY <3>1, <3>2
  <2> HIDE DEF kept
  <2>6. /\ DOMAIN outputList' = 1 .. Len(kept) + 1 /\ Len(kept) \in Nat
        /\ outputList'[Len(kept) + 1] = r /\ \A i \in 1 .. Len(kept) : outputList'[i] = kept[i]
    BY <2>1, <2>4
  <2>7. ASSUME NEW i \in DOMAIN outputList', NEW j \in DOMAIN outputList', outputList'[i].ts = outputList'[j].ts
        PROVE  i = j
    <3>1. (i \in 1 .. Len(kept) \/ i = Len(kept) + 1) /\ (j \in 1 .. Len(kept) \/ j = Len(kept) + 1)
      BY <2>6
    <3> QED
      BY <2>2, <2>5, <2>6, <2>7, <3>1
  <2> QED
    BY <2>7 DEF TimesInv
<1> QED
  BY <1>2, <1>3

\* The other actions leave all places alone.
LEMMA SameKept ==
    ASSUME NEW id, Kept(id), UNCHANGED <<made, call, channel, dumper, statsList, pipe, adder, queue, fileVars, lost>>
    PROVE  Kept(id)'
  BY DEF Kept, Total, fileVars

LEMMA NextKept ==
    ASSUME Inv, TimesInv, NEW id \in Nat \ {0}, Kept(id), [Next]_vars
    PROVE  Kept(id)'
<1>1. CASE StatsExporter
  BY <1>1, GrownKept, AddedKept
<1>2. CASE CloseExporter \/ KillMonitor
  BY <1>2, CloseExporterKept, KillMonitorKept
<1>3. ASSUME NEW t \in Threads, NEW c \in Comps, NEW kind \in {"event", "update"}, Push(t, c, kind)
      PROVE  Kept(id)'
  BY <1>3, PushKept
<1>4. ASSUME NEW t \in Threads, MakesRoom(t) \/ Sends(t) PROVE Kept(id)'
  BY <1>4, MakesRoomKept, SendsKept
<1>5. ASSUME NEW c \in Comps, Takes(c) \/ DumpsEvent(c) \/ DumperFails(c) \/ DumpsUpdate(c) PROVE Kept(id)'
  BY <1>5, TakesKept, DumpsEventKept, DumperFailsKept, DumpsUpdateKept
<1>6. ASSUME NEW c \in Comps, PollSends(c) \/ Profiles(c) PROVE Kept(id)'
  BY <1>6, PollSendsKept, ProfilesKept
<1>7. ASSUME NEW c \in Comps, PollSkips(c) PROVE Kept(id)'
  BY <1>7, SameKept DEF PollSkips
<1>8. CASE statsReader
  BY <1>8, ReaderKept
<1>9. ASSUME NEW a \in Adders, AddMakesRoom(a) \/ AddMonitorStats(a) PROVE Kept(id)'
  BY <1>9, AddMakesRoomKept, AddMonitorStatsKept
<1>10. CASE \/ Tick \/ PollStarts \/ PollEnds \/ PollFails \/ Destroy
            \/ StartMonitor \/ statsPoll \/ UNCHANGED vars
  BY <1>10, SameKept
     DEF Tick, PollStarts, PollEnds, PollFails, Destroy, StartMonitor, statsPoll, vars, mountVars
<1> QED
  BY <1>1, <1>2, <1>3, <1>4, <1>5, <1>6, <1>7, <1>8, <1>9, <1>10 DEF Next

LEMMA NextTimes == Inv /\ TimesInv /\ [Next]_vars => TimesInv'
<1> SUFFICES ASSUME Inv, TimesInv, [Next]_vars PROVE TimesInv'
  OBVIOUS
<1>1. CASE StatsExporter
  BY <1>1, StatsExporterTimes
<1>2. CASE CloseExporter \/ KillMonitor
  BY <1>2 DEF CloseExporter, KillMonitor, TimesInv
<1>3. ASSUME outputList' = outputList PROVE TimesInv'
  BY <1>3 DEF TimesInv
<1>4. ASSUME NEW t \in Threads, NEW c \in Comps, NEW kind, Push(t, c, kind) PROVE TimesInv'
  BY <1>3, <1>4 DEF Push, fileVars
<1>5. ASSUME NEW t \in Threads, MakesRoom(t) \/ Sends(t) PROVE TimesInv'
  BY <1>3, <1>5 DEF MakesRoom, Sends, fileVars
<1>6. ASSUME NEW c \in Comps,
             \/ Takes(c) \/ DumpsEvent(c) \/ DumperFails(c) \/ DumpsUpdate(c)
             \/ PollSkips(c) \/ PollSends(c) \/ Profiles(c)
      PROVE  TimesInv'
  BY <1>3, <1>6 DEF Takes, DumpsEvent, DumperFails, DumpsUpdate, PollSkips, PollSends, Profiles, fileVars
<1>7. ASSUME NEW a \in Adders, AddMakesRoom(a) \/ AddMonitorStats(a) PROVE TimesInv'
  BY <1>3, <1>7 DEF AddMakesRoom, AddMonitorStats, fileVars
<1>8. CASE \/ Tick \/ PollStarts \/ PollEnds \/ PollFails \/ Destroy
           \/ StartMonitor \/ statsPoll \/ statsReader \/ UNCHANGED vars
  BY <1>3, <1>8 DEF Tick, PollStarts, PollEnds, PollFails, Destroy, StartMonitor, statsPoll, statsReader,
                    vars, fileVars
<1> QED
  BY <1>1, <1>2, <1>4, <1>5, <1>6, <1>7, <1>8 DEF Next

LEMMA InitEvents == Init => EventsInv
<1> SUFFICES ASSUME Init PROVE EventsInv
  OBVIOUS
<1>1. Inv
  BY InitTypes, InitFiles DEF Inv
<1>2. TimesInv
  BY DEF Init, TimesInv
<1>3. ASSUME NEW id \in Nat \ {0} PROVE Kept(id)
  <2>1. Size(Held(call, id)) = 0 /\ Size(Held(dumper, id)) = 0 /\ Size(Held(adder, id)) = 0
    <3>1. Held(call, id) = {} /\ Held(dumper, id) = {} /\ Held(adder, id) = {}
      BY DEF Init, Held, Idle, NoMsg
    <3> QED
      BY <3>1, SizeOne
  <2>2. Size(In(pipe, id)) = 0 /\ Size(In(queue, id)) = 0 /\ Size(InList(outputList, id)) = 0
    BY EmptySize DEF Init
  <2>3. Size(InChannels(channel, id)) = 0
    <3> DEFINE F == [c \in Comps |-> In(channel[c], id)]
    <3>1. \A c \in Comps : channel[c] = <<>>
      BY DEF Init
    <3>2. In(<<>>, id) = {}
      BY EmptySize, SizeTypes
    <3>3. DOMAIN F = Comps /\ \A c \in Comps : F[c] = {}
      BY <3>1, <3>2
    <3> HIDE DEF F
    <3>4. Pairs(F) = {}
      BY <3>3 DEF Pairs
    <3> QED
      BY <3>4, SizeOne DEF F, InChannels
  <2>4. Size(InCounters(statsList, id)) = 0
    <3>1. InCounters(statsList, id) = {}
      BY DEF Init, InCounters
    <3> QED
      BY <3>1, SizeOne
  <2>5. Size(InFiles(files, id)) = 0
    <3> DEFINE F == [i \in DOMAIN files |-> InList(files[i], id)]
    <3>1. \A i \in DOMAIN files : files[i] = <<>> \/ files[i] = <<Open>>
      BY DEF Init
    <3>2. \A w : w = <<>> \/ w = <<Open>> => InList(w, id) = {}
      BY EmptyLists
    <3>3. DOMAIN F = DOMAIN files /\ \A i \in DOMAIN files : F[i] = {}
      BY <3>1, <3>2
    <3> HIDE DEF F
    <3>4. Pairs(F) = {}
      BY <3>3 DEF Pairs
    <3> QED
      BY <3>4, SizeOne DEF F, InFiles
  <2>6. Total(id) = 0
    BY <2>1, <2>2, <2>3, <2>4, <2>5 DEF Total
  <2> QED
    BY <2>6 DEF Kept, Init
<1> QED
  BY <1>1, <1>2, <1>3 DEF EventsInv

LEMMA UnionSize ==
    ASSUME NEW A, NEW B, Size(A) + Size(B) <= 1
    PROVE  Size(A \cup B) = Size(A) + Size(B)
<1>1. Size(A) \in 0 .. 1 /\ Size(B) \in 0 .. 1 /\ (Size(A) = 0 \/ Size(B) = 0)
  BY SizeTypes
<1>2. CASE Size(A) = 0
  <2>1. A = {} /\ A \cup B = B
    BY <1>2, SizeTypes
  <2> QED
    BY <1>1, <1>2, <2>1
<1>3. CASE Size(B) = 0
  <2>1. B = {} /\ A \cup B = A
    BY <1>3, SizeTypes
  <2> QED
    BY <1>1, <1>3, <2>1
<1> QED
  BY <1>1, <1>2, <1>3

LEMMA PlacesSize ==
    ASSUME NEW id, Total(id) <= 1 PROVE Size(Places(id)) = Total(id)
<1> DEFINE a == At("call", Held(call, id))
           b == At("channel", InChannels(channel, id))
           c == At("dumper", Held(dumper, id))
           d == At("counter", InCounters(statsList, id))
           e == At("pipe", In(pipe, id))
           f == At("adder", Held(adder, id))
           g == At("queue", In(queue, id))
           h == At("list", InList(outputList, id))
           i == At("file", InFiles(files, id))
<1>1. Places(id) = a \cup b \cup c \cup d \cup e \cup f \cup g \cup h \cup i
  BY DEF Places
<1>2. Total(id) = Size(a) + Size(b) + Size(c) + Size(d) + Size(e) + Size(f) + Size(g) + Size(h) + Size(i)
  BY SizeAt DEF Total
<1> HIDE DEF a, b, c, d, e, f, g, h, i
<1>3. /\ Size(a) \in Nat /\ Size(b) \in Nat /\ Size(c) \in Nat /\ Size(d) \in Nat /\ Size(e) \in Nat
      /\ Size(f) \in Nat /\ Size(g) \in Nat /\ Size(h) \in Nat /\ Size(i) \in Nat
  BY SizeTypes
<1>4. Size(a) + Size(b) + Size(c) + Size(d) + Size(e) + Size(f) + Size(g) + Size(h) + Size(i) <= 1
  BY <1>2
<1> DEFINE A2 == a \cup b
           A3 == A2 \cup c
           A4 == A3 \cup d
           A5 == A4 \cup e
           A6 == A5 \cup f
           A7 == A6 \cup g
           A8 == A7 \cup h
           A9 == A8 \cup i
<1>5. Size(A2) = Size(a) + Size(b)
  BY <1>3, <1>4, UnionSize
<1> HIDE DEF A2
<1>6. Size(A3) = Size(a) + Size(b) + Size(c)
  BY <1>3, <1>4, <1>5, UnionSize
<1> HIDE DEF A3
<1>7. Size(A4) = Size(a) + Size(b) + Size(c) + Size(d)
  BY <1>3, <1>4, <1>6, UnionSize
<1> HIDE DEF A4
<1>8. Size(A5) = Size(a) + Size(b) + Size(c) + Size(d) + Size(e)
  BY <1>3, <1>4, <1>7, UnionSize
<1> HIDE DEF A5
<1>9. Size(A6) = Size(a) + Size(b) + Size(c) + Size(d) + Size(e) + Size(f)
  BY <1>3, <1>4, <1>8, UnionSize
<1> HIDE DEF A6
<1>10. Size(A7) = Size(a) + Size(b) + Size(c) + Size(d) + Size(e) + Size(f) + Size(g)
  BY <1>3, <1>4, <1>9, UnionSize
<1> HIDE DEF A7
<1>11. Size(A8) = Size(a) + Size(b) + Size(c) + Size(d) + Size(e) + Size(f) + Size(g) + Size(h)
  BY <1>3, <1>4, <1>10, UnionSize
<1> HIDE DEF A8
<1>12. Size(A9) = Total(id)
  BY <1>2, <1>3, <1>4, <1>11, UnionSize
<1> QED
  BY <1>1, <1>12 DEF A2, A3, A4, A5, A6, A7, A8

\* From the push of a thread to the files of the monitor no message is lost or doubled,
\* but for those that a full channel, a newer value, the oldest file, a failed write or
\* the end of the monitor takes (PushEvents, statsDumper, AddMonitorStats, StatsExporter,
\* getNewFile), for any number of threads, components and messages.
THEOREM MessagesKept == Spec => []EventsKept
<1>1. Init => EventsInv
  BY InitEvents
<1>2. EventsInv /\ [Next]_vars => EventsInv'
  <2> SUFFICES ASSUME EventsInv, [Next]_vars PROVE EventsInv'
    OBVIOUS
  <2>1. Inv' /\ TimesInv'
    BY NextInv, NextTimes DEF EventsInv
  <2>2. ASSUME NEW id \in Nat \ {0} PROVE Kept(id)'
    BY NextKept DEF EventsInv
  <2> QED
    BY <2>1, <2>2 DEF EventsInv
<1>3. EventsInv => EventsKept
  <2> SUFFICES ASSUME EventsInv, NEW id \in 1 .. made
               PROVE  IF id \in lost THEN Places(id) = {} ELSE \E p \in Places(id) : Places(id) = {p}
    BY DEF EventsKept
  <2>1. made \in Nat
    BY MountTypes DEF EventsInv, Inv, TypeInv, PassTypes
  <2>2. Kept(id)
    BY <2>1 DEF EventsInv
  <2>3. Total(id) = IF id \in lost THEN 0 ELSE 1
    BY <2>2 DEF Kept
  <2>4. Size(Places(id)) = IF id \in lost THEN 0 ELSE 1
    BY <2>3, PlacesSize
  <2> QED
    BY <2>4, SizeTypes
<1> QED
  BY <1>1, <1>2, <1>3, PTL DEF Spec
=============================================================================
