------------------------------ MODULE EventBus ------------------------------
(***************************************************************************)
(* The event bus of the protocol: a broadcast channel for each repository  *)
(* and one for all of them.  A channel is created by whoever first needs   *)
(* it, and dropped by a clean-up when nobody receives from it; it keeps    *)
(* the last events for its receivers, and one that falls behind is told    *)
(* how many it has missed.                                                 *)
(*                                                                         *)
(* An event is a number, in the order of publication.                      *)
(***************************************************************************)
EXTENDS Naturals, Sequences

CONSTANTS
    Repo, All,         \* the keys of channels; All is "__all__"
    Publisher, Receiver,
    Capacity,          \* of a channel
    MaxEvents, MaxChannels   \* bounds

Key == Repo \cup {All}
NoChannel == 0

VARIABLES
    channels,    \* the channel of each key, or NoChannel
    sent,        \* the events sent to each channel so far
    job,         \* the publications in progress
    receiver,    \* of each receiver its channel, what it has read, what it was told it missed
    events       \* events published so far (history)

vars == <<channels, sent, job, receiver, events>>

NoJob == [pc |-> "idle"]
Deaf == [on |-> NoChannel, key |-> All, from |-> 0, next |-> 0, got |-> 0, missed |-> 0]

Count(c) == Len(sent[c])
Receivers(c) == {r \in Receiver : receiver[r].on = c}

TypeOK ==
    /\ channels \in [Key -> 0..Len(sent)] /\ channels[All] # NoChannel
    /\ Len(sent) <= MaxChannels /\ events \in 0..MaxEvents
    /\ \A r \in Receiver : receiver[r].on # NoChannel =>
         receiver[r].from <= receiver[r].next /\ receiver[r].next <= Count(receiver[r].on)

Init ==
    /\ sent = << <<>> >> /\ events = 0
    /\ channels = [k \in Key |-> IF k = All THEN 1 ELSE NoChannel]
    /\ job = [p \in Publisher |-> NoJob]
    /\ receiver = [r \in Receiver |-> Deaf]

\* The entry of a key, made if it is vacant.
Has(k, c) ==
    IF channels[k] # NoChannel THEN c = channels[k] /\ UNCHANGED <<channels, sent>>
    ELSE /\ Len(sent) < MaxChannels
         /\ c = Len(sent) + 1
         /\ channels' = [channels EXCEPT ![k] = c] /\ sent' = Append(sent, <<>>)

-----------------------------------------------------------------------------
\* EventBus::publish: the sender of the repository is cloned, the event sent
\* to it, and then to All.

Publish(p, k) ==
    /\ job[p] = NoJob /\ events < MaxEvents
    /\ events' = events + 1
    /\ \E c \in 1..MaxChannels :
         /\ Has(k, c)
         /\ job' = [job EXCEPT ![p] = [pc |-> "send", on |-> c, event |-> events + 1]]
    /\ UNCHANGED receiver

\* A channel nobody receives from refuses the event, which is ignored.
Sent(c, e) == IF Receivers(c) = {} THEN sent ELSE [sent EXCEPT ![c] = Append(@, e)]

Send(p) ==
    /\ job[p].pc = "send"
    /\ sent' = Sent(job[p].on, job[p].event)
    /\ job' = [job EXCEPT ![p].pc = "all"]
    /\ UNCHANGED <<channels, receiver, events>>

SendToAll(p) ==
    /\ job[p].pc = "all"
    /\ sent' = Sent(channels[All], job[p].event)
    /\ job' = [job EXCEPT ![p] = NoJob]
    /\ UNCHANGED <<channels, receiver, events>>

-----------------------------------------------------------------------------
\* Receivers.

\* EventBus::subscribe and subscribe_all, under the guard of the entry.
Subscribe(r, k) ==
    /\ receiver[r] = Deaf
    /\ \E c \in 1..MaxChannels : Has(k, c) /\ receiver' = [receiver EXCEPT
         ![r] = [on |-> c, key |-> k, from |-> Len(sent'[c]), next |-> Len(sent'[c]),
                 got |-> 0, missed |-> 0]]
    /\ UNCHANGED <<job, events>>

\* The oldest event that a channel still has.
Oldest(c) == IF Count(c) > Capacity THEN Count(c) - Capacity ELSE 0

Lag(r) == Oldest(receiver[r].on) - receiver[r].next

\* recv: the next event, or how many were overwritten before they were read.
Receive(r) ==
    LET me == receiver[r] IN
    /\ me # Deaf /\ me.next < Count(me.on)
    /\ receiver' =
         [receiver EXCEPT ![r] =
            IF me.next < Oldest(me.on)
              THEN [me EXCEPT !.next = Oldest(me.on), !.missed = me.missed + Lag(r)]
              ELSE [me EXCEPT !.next = me.next + 1, !.got = me.got + 1]]
    /\ UNCHANGED <<channels, sent, job, events>>

Leave(r) ==
    /\ receiver[r] # Deaf
    /\ receiver' = [receiver EXCEPT ![r] = Deaf]
    /\ UNCHANGED <<channels, sent, job, events>>

\* Mutant: a channel with one receiver counts as idle.
IsIdle_nearly(c) == \A r, q \in Receivers(c) : r = q

IsIdle(c) == Receivers(c) = {}

\* cleanup_idle, one guard at a time.
CleanupIdle(k) ==
    /\ k # All /\ channels[k] # NoChannel /\ IsIdle(channels[k])
    /\ channels' = [channels EXCEPT ![k] = NoChannel]
    /\ UNCHANGED <<sent, job, receiver, events>>

Next ==
    \/ \E p \in Publisher : (\E k \in Repo : Publish(p, k)) \/ Send(p) \/ SendToAll(p)
    \/ \E r \in Receiver : (\E k \in Key : Subscribe(r, k)) \/ Receive(r) \/ Leave(r)
    \/ \E k \in Repo : CleanupIdle(k)

Spec == Init /\ [][Next]_vars

-----------------------------------------------------------------------------
\* Whoever receives events of a repository receives them from the channel
\* that publishers find: no clean-up runs between the creation of a receiver
\* and its channel's being counted as used (EventBus::subscribe).
ReceiversAreFound ==
    \A r \in Receiver : receiver[r] # Deaf => channels[receiver[r].key] = receiver[r].on

\* A receiver reads every event sent since it subscribed, in order, but those
\* it was told of having missed (Lagged).
MissedIsTold ==
    \A r \in Receiver : receiver[r] # Deaf =>
        receiver[r].got + receiver[r].missed = receiver[r].next - receiver[r].from

\* Who receives from every repository, as the bridge to the platform does,
\* is sent each event published while it did, also those nobody else hears.
AllHearEverything ==
    [][\A p \in Publisher :
         job[p].pc = "all" /\ job'[p] = NoJob /\ Receivers(channels[All]) # {} =>
            sent'[channels[All]] = Append(sent[channels[All]], job[p].event)]_vars
=============================================================================
