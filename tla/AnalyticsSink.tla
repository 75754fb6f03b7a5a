---------------------------- MODULE AnalyticsSink ----------------------------
(***************************************************************************)
(* The batching writer of dk-analytics: emit puts an event on a bounded    *)
(* channel or drops it, and one task moves events from the channel to a    *)
(* batch, which has a list for each table, and writes the batch, table by  *)
(* table, when it is full, when a tick of the interval finds it old        *)
(* enough, and when every handle is gone.  An event is a number, the order *)
(* of emission; its table is chosen when it is emitted.  Time passes in    *)
(* units of which the flush interval is several; while a tick is due and   *)
(* the task is not writing, none passes: a woken task runs.                *)
(***************************************************************************)
EXTENDS Integers, Sequences, SequencesExt, FiniteSets

CONSTANTS
    Tables,              \* the tables, in the order flush writes them
    batch_size, flush_interval, channel_capacity,
    Handles,             \* handles there are of the sink
    MaxEvents, MaxWrite  \* bounds: events emitted, units a batch may take to write

VARIABLES
    handles,     \* handles not yet dropped
    table,       \* the table of each event emitted so far
    channel, batch,
    age,         \* units since first_pushed_at
    due,         \* units until the next tick
    writing,     \* the batch being flushed
    todo,        \* the tables it has yet to be written to
    spent,       \* units the flush has taken
    exited,
    rows,        \* what each table holds
    dropped, lost    \* refused by emit; taken by an insert that failed (history)

vars == <<handles, table, channel, batch, age, due, writing, todo, spent, exited, rows,
          dropped, lost>>

TableSet == {Tables[k] : k \in DOMAIN Tables}
Events == DOMAIN table
NoRows == [t \in TableSet |-> <<>>]

\* What the lists of the tables hold together.
Held(lists) == UNION {ToSet(lists[t]) : t \in TableSet}

TypeOK ==
    /\ handles \in 0..Handles /\ table \in Seq(TableSet) /\ exited \in BOOLEAN
    /\ channel \in Seq(Events) /\ Len(channel) <= channel_capacity
    /\ {batch, writing, rows} \subseteq [TableSet -> Seq(Events)]
    /\ age \in Nat /\ due \in 0..flush_interval /\ spent \in 0..MaxWrite
    /\ todo \in Seq(TableSet) /\ dropped \cup lost \subseteq Events

Init ==
    /\ handles = Handles /\ table = <<>> /\ channel = <<>> /\ batch = NoRows
    /\ age = 0 /\ due = 0 /\ writing = NoRows /\ todo = <<>> /\ spent = 0 /\ exited = FALSE
    /\ rows = NoRows
    /\ dropped = {} /\ lost = {}

-----------------------------------------------------------------------------

\* try_send: a full channel, or a task that is gone, drops the event.
Refused == exited \/ Len(channel) >= channel_capacity

emit(t) ==
    LET e == Len(table) + 1 IN
    /\ handles > 0 /\ e <= MaxEvents
    /\ table' = Append(table, t)
    /\ IF Refused
       THEN dropped' = dropped \cup {e} /\ UNCHANGED channel
       ELSE channel' = Append(channel, e) /\ UNCHANGED dropped
    /\ UNCHANGED <<handles, batch, age, due, writing, todo, spent, exited, rows, lost>>

DropHandle ==
    /\ handles > 0 /\ handles' = handles - 1
    /\ UNCHANGED <<table, channel, batch, age, due, writing, todo, spent, exited, rows, dropped, lost>>

Waiting == ~exited /\ todo = <<>>

\* Batch::take, and the start of flush.
Take(b) == batch' = NoRows /\ age' = 0 /\ writing' = b /\ todo' = Tables

Keep(b, a) == batch' = b /\ age' = a /\ UNCHANGED <<writing, todo>>

\* Batch::push puts an event on the list of its table.
Pushed(b, e) == [b EXCEPT ![table[e]] = Append(@, e)]

IsFull(b) == Cardinality(Held(b)) >= batch_size

Receive ==
    /\ Waiting /\ channel # <<>>
    /\ channel' = Tail(channel)
    /\ LET b == Pushed(batch, Head(channel)) IN
       IF IsFull(b) THEN Take(b) ELSE Keep(b, IF batch = NoRows THEN 0 ELSE age)
    /\ UNCHANGED <<handles, table, due, spent, exited, rows, dropped, lost>>

\* Mutant: the task ends with its batch.
AtEnd_forgets == batch' = NoRows /\ age' = 0 /\ exited' = TRUE /\ UNCHANGED <<writing, todo>>

\* recv returns None when the channel is empty and every handle is gone: a
\* last flush, then the end.
AtEnd ==
    IF batch # NoRows THEN Take(batch) /\ UNCHANGED exited
    ELSE exited' = TRUE /\ UNCHANGED <<batch, age, writing, todo>>

Close ==
    /\ Waiting /\ channel = <<>> /\ handles = 0
    /\ AtEnd
    /\ UNCHANGED <<handles, table, channel, due, spent, rows, dropped, lost>>

IsOld(a) == a >= flush_interval

\* The ticker, which after a late tick counts from that tick on (Delay).
TickFires ==
    /\ Waiting /\ due <= 0
    /\ due' = flush_interval
    /\ IF batch # NoRows /\ IsOld(age) THEN Take(batch) ELSE Keep(batch, age)
    /\ UNCHANGED <<handles, table, channel, spent, exited, rows, dropped, lost>>

\* One insert of flush: the rows of a table, or none of them.
WriteTable ==
    LET t == Head(todo) IN
    /\ todo # <<>>
    /\ \/ rows' = [rows EXCEPT ![t] = @ \o writing[t]] /\ UNCHANGED lost
       \/ lost' = lost \cup ToSet(writing[t]) /\ UNCHANGED rows
    /\ writing' = [writing EXCEPT ![t] = <<>>]
    /\ todo' = Tail(todo)
    /\ spent' = IF Tail(todo) = <<>> THEN 0 ELSE spent
    /\ UNCHANGED <<handles, table, channel, batch, age, due, exited, dropped>>

TimePasses ==
    /\ ~exited /\ (Waiting => due > 0 /\ channel = <<>>)
    /\ (todo # <<>> => spent < MaxWrite)
    /\ due' = IF due > 0 THEN due - 1 ELSE due
    /\ age' = IF batch = NoRows THEN 0 ELSE age + 1
    /\ spent' = IF todo # <<>> THEN spent + 1 ELSE 0
    /\ UNCHANGED <<handles, table, channel, batch, writing, todo, exited, rows, dropped, lost>>

Next == (\E t \in TableSet : emit(t)) \/ DropHandle \/ Receive \/ Close \/ TickFires
        \/ WriteTable \/ TimePasses

Spec == Init /\ [][Next]_vars

-----------------------------------------------------------------------------
Increasing(s) == \A i, j \in DOMAIN s : i < j => s[i] < s[j]

\* What a table holds, with what is on its way to it.
Way(t) == rows[t] \o writing[t] \o batch[t]
Taken == UNION {ToSet(Way(t)) : t \in TableSet}
OnWay == Taken \cup ToSet(channel)

\* An event is in one place at a time -- refused, on its way, in its table,
\* lost with a failed insert -- and the rows of a table are in the order of
\* emission, whatever is full and whatever fails.
EachEventOnce ==
    /\ \A t \in TableSet : Increasing(Way(t)) /\ \A e \in ToSet(Way(t)) : table[e] = t
    /\ Increasing(channel) /\ \A e \in Taken, x \in ToSet(channel) : e < x
    /\ OnWay \cup dropped \cup lost = Events
    /\ OnWay \cap (dropped \cup lost) = {} /\ dropped \cap lost = {}

\* A row is buffered for less than two intervals: a tick that finds it too
\* young is followed by one that does not, however late a write made it.
NoRowWaitsLong == batch # NoRows => age < 2 * flush_interval
=============================================================================
