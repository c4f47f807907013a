---------------------------- MODULE StatsExport ----------------------------
(***************************************************************************)
(* The statistics of a mount on their way to the health monitor's files.   *)
(* The threads that serve file operations push events and counter updates  *)
(* into a channel per component (stats_manager); a dumper per component    *)
(* writes the events to the transfer pipe and adds up the counters, which  *)
(* the poller sends when the monitor asks; the monitor's reader and its    *)
(* profilers hand everything to the exporter, which groups it by timestamp *)
(* and writes JSON files that it rotates.                                  *)
(*                                                                         *)
(* A message is known by its number.  A counter is the set of the updates  *)
(* that were added up in it.                                               *)
(***************************************************************************)
EXTENDS Integers, Sequences, FiniteSets, SequencesExt, FiniteSetsExt

CONSTANTS
    Comps,      \* components with a collector
    Threads,    \* threads that serve file operations
    ChanCap,    \* capacity of the channels of collectors and exporter
    PipeCap,    \* messages that the transfer pipe holds
    Keep,       \* timestamps that the exporter keeps in memory
    FileMax,    \* records that fill an output file
    FileCount,  \* output files, the current one included
    Mounts      \* what happens in the behaviours checked

ASSUME BoundsAssumption ==
    /\ {ChanCap, PipeCap, Keep, FileMax, FileCount} \subseteq Nat \ {0}
    /\ FileCount > 1
ASSUME MountsAssumption ==
    \A m \in Mounts : m.seconds \in Nat \ {0} /\ m.pushes \in Nat

VARIABLES
    mount,      \* bounds of this behaviour: kinds of messages, their number, seconds
    clock,      \* the second
    made,       \* messages made so far
    call,       \* PushEvents or UpdateStats of each thread
    channel,    \* channel of each collector
    dumper,     \* statsDumper of each collector
    statsList,  \* counters of each component and the time of the last update
    cmpTimeMap, \* the timestamp last sent of each component
    poller,     \* statsPolling: components still to be looked at, with statsMtx held
    polls,      \* the monitor has asked for a poll
    pipe,       \* the transfer pipe
    monitor,    \* the health monitor: "off", "on", "killed", "ended"
    enabled,    \* EnableMonitoring
    closed,     \* the mount has closed the collectors
    adder,      \* AddMonitorStats of the reader and of a profiler
    queue,      \* channel of the exporter
    outputList, \* records in memory
    files,      \* output files, 0 the current one: what was written to each
    lost        \* messages that were dropped

mountVars == <<call, channel, dumper, statsList, cmpTimeMap, poller, enabled, closed>>
fileVars == <<outputList, files>>
vars == <<mount, clock, made, mountVars, polls, pipe, monitor, adder, queue, fileVars, lost>>

Adders == {"reader", "profiler"}
Message == [kind : {"event", "update", "poll", "usage"}, id : Nat, ts : 1 .. mount.seconds,
            comp : Comps, val : SUBSET (1 .. mount.pushes)]
NoMsg == [kind |-> "none", id |-> 0]
Idle == [st |-> "idle", msg |-> NoMsg]

\* What is written to a file: records, the messages of a timestamp with the profiler's
\* value apart, and the marks of a JSON array around them.
Blank(ts) == [ts |-> ts, items |-> <<>>, usage |-> {}]
Open == Blank(0)
Comma == Blank(-1)
Close == Blank(-2)

TypeOK ==
    /\ clock \in 1 .. mount.seconds /\ made \in 0 .. mount.pushes
    /\ \A c \in Comps : channel[c] \in Seq(Message) /\ Len(channel[c]) <= ChanCap
    /\ pipe \in Seq(Message) /\ queue \in Seq(Message)
    /\ cmpTimeMap \in [Comps -> 1 .. mount.seconds]

\* NewStatsCollector for each component, and NewStatsExporter with its first file.
Init ==
    /\ mount \in Mounts /\ clock = 1 /\ made = 0 /\ lost = {}
    /\ call = [t \in Threads |-> Idle]
    /\ channel = [c \in Comps |-> <<>>]
    /\ dumper = [c \in Comps |-> Idle]
    /\ statsList = [c \in Comps |-> [ts |-> 1, val |-> {}]]
    /\ cmpTimeMap = [c \in Comps |-> 1]
    /\ poller = [st |-> "idle", todo |-> {}]
    /\ polls = FALSE /\ pipe = <<>> /\ monitor = "off" /\ enabled = TRUE /\ closed = FALSE
    /\ adder = [a \in Adders |-> Idle] /\ queue = <<>> /\ outputList = <<>>
    /\ files = [i \in 0 .. FileCount - 1 |-> IF i = 0 THEN <<Open>> ELSE <<>>]

Tick ==
    /\ clock < mount.seconds
    /\ clock' = clock + 1
    /\ UNCHANGED <<mount, made, mountVars, polls, pipe, monitor, adder, queue, fileVars, lost>>

New(kind, c) == [kind |-> kind, id |-> made + 1, ts |-> clock, comp |-> c, val |-> {}]

-----------------------------------------------------------------------------
(* stats_manager: the collectors                                           *)

\* PushEvents and UpdateStats: stamp the message and look whether the channel is
\* full; if so take the first message out; send.  The channel may have changed in
\* between: receive and send wait.
Push(t, c, kind) ==
    /\ kind \in mount.kinds /\ t \in mount.threads
    /\ enabled /\ ~closed /\ call[t] = Idle /\ made < mount.pushes
    /\ made' = made + 1
    /\ call' = [call EXCEPT ![t] =
                 [st |-> IF Len(channel[c]) = ChanCap THEN "receive" ELSE "send",
                  msg |-> New(kind, c)]]
    /\ UNCHANGED <<mount, clock, channel, dumper, statsList, cmpTimeMap, poller, enabled, closed, polls,
                   pipe, monitor, adder, queue, fileVars, lost>>
MakesRoom(t) ==
    /\ call[t].st = "receive"
    /\ LET c == call[t].msg.comp
       IN  /\ channel[c] # <<>>
           /\ lost' = lost \cup {Head(channel[c]).id}
           /\ channel' = [channel EXCEPT ![c] = Tail(@)]
    /\ call' = [call EXCEPT ![t].st = "send"]
    /\ UNCHANGED <<mount, clock, made, dumper, statsList, cmpTimeMap, poller, enabled, closed, polls,
                   pipe, monitor, adder, queue, fileVars>>
Sends(t) ==
    /\ call[t].st = "send"
    /\ LET c == call[t].msg.comp
       IN  /\ Len(channel[c]) < ChanCap
           /\ channel' = [channel EXCEPT ![c] = Append(@, call[t].msg)]
    /\ call' = [call EXCEPT ![t] = Idle]
    /\ UNCHANGED <<mount, clock, made, dumper, statsList, cmpTimeMap, poller, enabled, closed, polls,
                   pipe, monitor, adder, queue, fileVars, lost>>

\* statsDumper: opening the pipe waits for the monitor; then one message at a time.
Takes(c) ==
    /\ monitor # "off" /\ dumper[c] = Idle /\ channel[c] # <<>>
    /\ dumper' = [dumper EXCEPT ![c] = [st |-> "busy", msg |-> Head(channel[c])]]
    /\ channel' = [channel EXCEPT ![c] = Tail(@)]
    /\ UNCHANGED <<mount, clock, made, call, statsList, cmpTimeMap, poller, enabled, closed, polls, pipe,
                   monitor, adder, queue, fileVars, lost>>
DumpsEvent(c) ==
    /\ dumper[c].st = "busy" /\ dumper[c].msg.kind = "event"
    /\ monitor = "on" /\ Len(pipe) < PipeCap
    /\ pipe' = Append(pipe, dumper[c].msg)
    /\ dumper' = [dumper EXCEPT ![c] = Idle]
    /\ UNCHANGED <<mount, clock, made, call, channel, statsList, cmpTimeMap, poller, enabled, closed,
                   polls, monitor, adder, queue, fileVars, lost>>
\* The monitor is gone: the write fails, monitoring is disabled, the dumper ends.
DumperFails(c) ==
    /\ dumper[c].st = "busy" /\ dumper[c].msg.kind = "event" /\ monitor \in {"killed", "ended"}
    /\ lost' = lost \cup {dumper[c].msg.id}
    /\ enabled' = FALSE
    /\ dumper' = [dumper EXCEPT ![c] = [st |-> "dead", msg |-> NoMsg]]
    /\ UNCHANGED <<mount, clock, made, call, channel, statsList, cmpTimeMap, poller, closed, polls, pipe,
                   monitor, adder, queue, fileVars>>
\* Counters are added up under statsMtx.
DumpsUpdate(c) ==
    /\ dumper[c].st = "busy" /\ dumper[c].msg.kind = "update" /\ poller.st # "busy"
    /\ statsList' = [statsList EXCEPT ![c] = [ts |-> dumper[c].msg.ts,
                                              val |-> @.val \cup {dumper[c].msg.id}]]
    /\ dumper' = [dumper EXCEPT ![c] = Idle]
    /\ UNCHANGED <<mount, clock, made, call, channel, cmpTimeMap, poller, enabled, closed, polls, pipe,
                   monitor, adder, queue, fileVars, lost>>

\* statsPolling: with statsMtx, every component whose timestamp has changed.
PollStarts ==
    /\ polls /\ poller.st = "idle"
    /\ poller' = [st |-> "busy", todo |-> {c \in Comps : statsList[c].val # {}}]
    /\ polls' = FALSE
    /\ UNCHANGED <<mount, clock, made, call, channel, dumper, statsList, cmpTimeMap, enabled, closed, pipe,
                   monitor, adder, queue, fileVars, lost>>
PollSkips(c) ==
    /\ poller.st = "busy" /\ c \in poller.todo /\ statsList[c].ts = cmpTimeMap[c]
    /\ poller' = [poller EXCEPT !.todo = @ \ {c}]
    /\ UNCHANGED <<mount, clock, made, call, channel, dumper, statsList, cmpTimeMap, enabled, closed,
                   polls, pipe, monitor, adder, queue, fileVars, lost>>
PollSends(c) ==
    /\ poller.st = "busy" /\ c \in poller.todo /\ statsList[c].ts # cmpTimeMap[c]
    /\ monitor = "on" /\ Len(pipe) < PipeCap
    /\ pipe' = Append(pipe, [kind |-> "poll", id |-> 0, comp |-> c,
                             ts |-> statsList[c].ts, val |-> statsList[c].val])
    /\ cmpTimeMap' = [cmpTimeMap EXCEPT ![c] = statsList[c].ts]
    /\ poller' = [poller EXCEPT !.todo = @ \ {c}]
    /\ UNCHANGED <<mount, clock, made, call, channel, dumper, statsList, enabled, closed, polls, monitor,
                   adder, queue, fileVars, lost>>
PollEnds ==
    /\ poller.st = "busy" /\ poller.todo = {}
    /\ poller' = [poller EXCEPT !.st = "idle"]
    /\ UNCHANGED <<mount, clock, made, call, channel, dumper, statsList, cmpTimeMap, enabled, closed,
                   polls, pipe, monitor, adder, queue, fileVars, lost>>
PollFails ==
    /\ monitor \in {"killed", "ended"} /\ poller.st # "dead"
    /\ poller.st = "busy" => \E c \in poller.todo : statsList[c].ts # cmpTimeMap[c]
    /\ enabled' = FALSE
    /\ poller' = [st |-> "dead", todo |-> {}]
    /\ UNCHANGED <<mount, clock, made, call, channel, dumper, statsList, cmpTimeMap, closed, polls, pipe,
                   monitor, adder, queue, fileVars, lost>>

\* Destroy of the collectors, when the mount ends: no more calls; the dumpers go on
\* until their channels are empty.
Destroy ==
    /\ ~closed /\ \A t \in Threads : call[t] = Idle
    /\ closed' = TRUE
    /\ UNCHANGED <<mount, clock, made, call, channel, dumper, statsList, cmpTimeMap, poller, enabled,
                   polls, pipe, monitor, adder, queue, fileVars, lost>>

-----------------------------------------------------------------------------
(* The health monitor                                                      *)

StartMonitor ==
    /\ monitor = "off"
    /\ monitor' = "on"
    /\ UNCHANGED <<mount, clock, made, mountVars, polls, pipe, adder, queue, fileVars, lost>>

statsPoll ==
    /\ "update" \in mount.kinds /\ monitor = "on" /\ ~polls
    /\ polls' = TRUE
    /\ UNCHANGED <<mount, clock, made, mountVars, pipe, monitor, adder, queue, fileVars, lost>>

\* AddMonitorStats, like the push of a collector; the profiler's messages bear the
\* time of the monitor's own clock.
Added(m) == [st |-> IF Len(queue) = ChanCap THEN "receive" ELSE "send", msg |-> m]
statsReader ==
    /\ monitor = "on" /\ adder["reader"] = Idle /\ pipe # <<>>
    /\ adder' = [adder EXCEPT !["reader"] = Added(Head(pipe))]
    /\ pipe' = Tail(pipe)
    /\ UNCHANGED <<mount, clock, made, mountVars, polls, monitor, queue, fileVars, lost>>
Profiles(c) ==
    /\ "usage" \in mount.kinds /\ monitor = "on" /\ adder["profiler"] = Idle /\ made < mount.pushes
    /\ made' = made + 1
    /\ adder' = [adder EXCEPT !["profiler"] = Added(New("usage", c))]
    /\ UNCHANGED <<mount, clock, mountVars, polls, pipe, monitor, queue, fileVars, lost>>
AddMakesRoom(a) ==
    /\ monitor = "on" /\ adder[a].st = "receive" /\ queue # <<>>
    /\ lost' = lost \cup {Head(queue).id}
    /\ queue' = Tail(queue)
    /\ adder' = [adder EXCEPT ![a].st = "send"]
    /\ UNCHANGED <<mount, clock, made, mountVars, polls, pipe, monitor, fileVars>>
AddMonitorStats(a) ==
    /\ monitor = "on" /\ adder[a].st = "send" /\ Len(queue) < ChanCap
    /\ queue' = Append(queue, adder[a].msg)
    /\ adder' = [adder EXCEPT ![a] = Idle]
    /\ UNCHANGED <<mount, clock, made, mountVars, polls, pipe, monitor, fileVars, lost>>

-----------------------------------------------------------------------------
(* StatsExporter                                                           *)

\* getNewFile: every file moves on by one, the oldest is removed.
getNewFile(f) ==
    [i \in 0 .. FileCount - 1 |-> IF i = 0 THEN <<Open>> ELSE f[i - 1]]

\* Where the records of a file are.
Records(file) == {i \in DOMAIN file : file[i].ts > 0}
\* checkOutputFile: a file that is large enough is closed and a new one begun.
\* Mutant: the comma is written before the size is looked at.
checkOutputFileComma(f) ==
    LET g == [f EXCEPT ![0] = Append(@, Comma)]
    IN  IF Cardinality(Records(g[0])) >= FileMax THEN getNewFile([g EXCEPT ![0] = Append(@, Close)]) ELSE g
checkOutputFile(f) ==
    IF Cardinality(Records(f[0])) >= FileMax
    THEN getNewFile([f EXCEPT ![0] = Append(@, Close)])
    ELSE [f EXCEPT ![0] = Append(@, Comma)]
\* The writes to the local disk succeed here.  When one fails the code logs it, drops
\* the record from memory all the same (stats_export.go:155), and a file may lack a
\* record, a comma or its end.
addToOutputFile(f, op) == checkOutputFile([f EXCEPT ![0] = Append(@, op)])

Ids(messages) == {x.id : x \in Range(messages)}
RecordsOf(list) == UNION {Ids(r.items) \cup {x.id : x \in r.usage} : r \in Range(list)}

\* addToList appends to the record of a timestamp; a profiler's value replaces the
\* one before it.
\* Mutant: only the first message of a timestamp is kept.
addToListFirst(op, m) ==
    IF op.items = <<>> /\ op.usage = {} THEN [op EXCEPT !.items = <<m>>] ELSE op
addToList(op, m) ==
    IF m.kind = "usage" THEN [op EXCEPT !.usage = {m}] ELSE [op EXCEPT !.items = Append(@, m)]
checkInList(ts) == {i \in DOMAIN outputList : outputList[i].ts = ts}

\* One message: into the record of its timestamp, or into a new one, for which the
\* oldest of Keep records goes to the file.
StatsExporter ==
    /\ monitor = "on" /\ queue # <<>>
    /\ queue' = Tail(queue)
    /\ LET m == Head(queue)
           idx == checkInList(m.ts)
           flush == idx = {} /\ Len(outputList) >= Keep
           kept == IF flush THEN Tail(outputList) ELSE outputList
       IN  /\ outputList' =
                IF idx # {} THEN [i \in DOMAIN outputList |->
                                    IF i \in idx THEN addToList(outputList[i], m) ELSE outputList[i]]
                ELSE Append(kept, addToList(Blank(m.ts), m))
           /\ files' = IF flush THEN addToOutputFile(files, Head(outputList)) ELSE files
           /\ lost' = lost \cup (IF Cardinality(Records(files[0])) + 1 >= FileMax /\ flush
                                 THEN RecordsOf(files[FileCount - 1]) ELSE {})
                           \cup (IF idx # {} /\ m.kind = "usage"
                                 THEN UNION {{x.id : x \in outputList[i].usage} : i \in idx}
                                 ELSE {})
    /\ UNCHANGED <<mount, clock, made, mountVars, polls, pipe, monitor, adder>>

\* Destroy of the exporter when the mount is gone, with everything delivered: the
\* records in memory go to the file.  (The code waits a while after the pid is gone,
\* and the exporter's goroutine may still be adding records then.)
Written(file, list) ==
    file \o [i \in 1 .. 2 * Len(list) |->
                CASE i % 2 = 1 -> list[(i + 1) \div 2]
                  [] i = 2 * Len(list) -> Close
                  [] OTHER -> Comma]
CloseExporter ==
    /\ monitor = "on" /\ closed /\ pipe = <<>> /\ queue = <<>>
    /\ \A c \in Comps : channel[c] = <<>> /\ dumper[c] = Idle
    /\ poller.st = "idle" /\ \A a \in Adders : adder[a] = Idle
    /\ files' = [files EXCEPT ![0] = Written(@, outputList)]
    /\ outputList' = <<>>
    /\ monitor' = "ended"
    /\ UNCHANGED <<mount, clock, made, mountVars, polls, pipe, adder, queue, lost>>

\* The monitor is killed: what is in the pipe or in its memory is gone, the files stay.
KillMonitor ==
    /\ mount.kills /\ monitor = "on" /\ ~closed
    /\ monitor' = "killed"
    /\ lost' = lost \cup Ids(pipe) \cup Ids(queue) \cup RecordsOf(outputList)
                    \cup {adder[a].msg.id : a \in Adders}
    /\ adder' = [a \in Adders |-> Idle]
    /\ pipe' = <<>> /\ queue' = <<>> /\ outputList' = <<>>
    /\ UNCHANGED <<mount, clock, made, mountVars, polls, files>>

Next ==
    \/ Tick \/ PollStarts \/ PollEnds \/ PollFails \/ Destroy
    \/ \E t \in Threads :
        \/ \E c \in Comps, kind \in {"event", "update"} : Push(t, c, kind)
        \/ MakesRoom(t) \/ Sends(t)
    \/ \E c \in Comps :
        \/ Takes(c) \/ DumpsEvent(c) \/ DumperFails(c) \/ DumpsUpdate(c)
        \/ PollSkips(c) \/ PollSends(c) \/ Profiles(c)
    \/ StartMonitor \/ KillMonitor \/ statsPoll \/ statsReader
    \/ \E a \in Adders : AddMakesRoom(a) \/ AddMonitorStats(a)
    \/ StatsExporter \/ CloseExporter

Spec == Init /\ [][Next]_vars

-----------------------------------------------------------------------------
(* Properties                                                              *)

\* Where a message is: the key of its holder, its position in a sequence, the record and
\* the position there (0 for the profiler's value).
Held(f, id) == {x \in DOMAIN f : f[x].msg.id = id}
In(s, id) == {i \in DOMAIN s : s[i].id = id}
Pairs(F) == UNION {{<<k, x>> : x \in F[k]} : k \in DOMAIN F}
InRecord(r, id) == {0 : x \in {u \in r.usage : u.id = id}} \cup In(r.items, id)
InChannels(ch, id) == Pairs([c \in Comps |-> In(ch[c], id)])
InCounters(counters, id) == {c \in Comps : id \in counters[c].val}
InList(list, id) == Pairs([i \in DOMAIN list |-> InRecord(list[i], id)])
InFiles(f, id) == Pairs([k \in DOMAIN f |-> InList(f[k], id)])

At(holder, S) == {<<holder, x>> : x \in S}
Places(id) ==
    At("call", Held(call, id)) \cup At("channel", InChannels(channel, id))
    \cup At("dumper", Held(dumper, id)) \cup At("counter", InCounters(statsList, id))
    \cup At("pipe", In(pipe, id)) \cup At("adder", Held(adder, id)) \cup At("queue", In(queue, id))
    \cup At("list", InList(outputList, id)) \cup At("file", InFiles(files, id))

\* No message is lost or doubled on its way: at every moment each message is in one
\* place, in a call, a channel, a dumper, a counter, the pipe, the exporter's memory
\* or one of its files, unless a full channel, a newer value of its second, the
\* oldest file, a failed write or the end of the monitor took it (PushEvents,
\* statsDumper, AddMonitorStats, StatsExporter, getNewFile).
EventsKept ==
    \A id \in 1 .. made :
        IF id \in lost THEN Places(id) = {} ELSE \E p \in Places(id) : Places(id) = {p}

\* Every output file that is not the current one is a whole JSON array, records and
\* commas in turn, with no gap in the numbers of the files; the current one is a
\* whole array once the exporter was closed (checkOutputFile, getNewFile, Destroy).
Whole(file) ==
    /\ Len(file) % 2 = 1 /\ file[1] = Open /\ file[Len(file)] = Close
    /\ \A i \in 2 .. Len(file) - 1 : (file[i] = Comma) <=> (i % 2 = 1)
    /\ Records(file) # {}
OutputWhole ==
    /\ TypeOK
    /\ \A i \in 1 .. FileCount - 1 :
        IF files[i] = <<>> THEN \A j \in i .. FileCount - 1 : files[j] = <<>>
        ELSE Whole(files[i])
    /\ IF monitor = "ended" /\ Records(files[0]) # {} THEN Whole(files[0])
       ELSE files[0] # <<>> /\ Last(files[0]) \in {Open, Comma}
=============================================================================
