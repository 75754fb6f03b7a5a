---------------------------- MODULE PartsProofs ----------------------------
(***************************************************************************)
(* What the parts promise, for every repository, session and size of them. *)
(***************************************************************************)
EXTENDS Parts, Integers, SequenceTheorems, TLAPS

-----------------------------------------------------------------------------
(***************************************************************************)
(* The event bus.                                                          *)
(***************************************************************************)

Publications ==
    {B!NoJob} \cup [pc : {"send", "all"}, on : Nat, event : Nat]

Receivers == [on : Nat, key : B!Key, from : Nat, next : Nat, got : Nat, missed : Nat]

BusTypes ==
    /\ sent \in Seq(Seq(Nat)) /\ Len(sent) \in 1..MaxChannels
    /\ channels \in [B!Key -> 0..Len(sent)] /\ channels[All] # B!NoChannel
    /\ events \in 0..MaxEvents
    /\ publication \in [Publisher -> Publications]
    /\ \A p \in Publisher : publication[p] # B!NoJob => publication[p].on \in 1..Len(sent)
    /\ receiver \in [Receiver -> Receivers]
    /\ \A r \in Receiver : receiver[r].on = B!NoChannel => receiver[r] = B!Deaf

\* Where a receiver stands on its channel.
Placed(r) ==
    /\ receiver[r].on \in 1..Len(sent)
    /\ receiver[r].from <= receiver[r].next
    /\ receiver[r].next <= Len(sent[receiver[r].on])
    /\ receiver[r].got + receiver[r].missed = receiver[r].next - receiver[r].from

ReceiversPlaced == \A r \in Receiver : receiver[r] # B!Deaf => Placed(r)

BusInv == BusTypes /\ ReceiversPlaced /\ B!ReceiversAreFound

\* The bus starts with the channel of all repositories.
LEMMA BusInit == B!Init => BusInv
<1> SUFFICES ASSUME B!Init PROVE BusInv
  OBVIOUS
<1>1. sent \in Seq(Seq(Nat)) /\ Len(sent) = 1
  BY DEF B!Init
<1>2. BusTypes
  BY <1>1, BusAssumption
  DEF B!Init, BusTypes, Publications, Receivers, B!Deaf, B!NoChannel, B!Key
<1> QED BY <1>2 DEF B!Init, BusInv, ReceiversPlaced, B!ReceiversAreFound

\* The entry of a key is there or is made, with a channel of its own; the
\* channels there were keep their events.
LEMMA HasFacts ==
    ASSUME BusInv, NEW k \in B!Key, NEW c \in 1..MaxChannels, B!Has(k, c)
    PROVE  /\ sent' \in Seq(Seq(Nat)) /\ Len(sent) <= Len(sent') /\ Len(sent') \in 1..MaxChannels
           /\ c \in 1..Len(sent') /\ channels'[k] = c
           /\ channels' \in [B!Key -> 0..Len(sent')]
           /\ \A j \in B!Key : channels[j] # B!NoChannel => channels'[j] = channels[j]
           /\ \A d \in 1..Len(sent) : sent'[d] = sent[d]
<1> USE DEF BusInv, BusTypes
<1>1. CASE channels[k] # B!NoChannel
  BY <1>1 DEF B!Has, B!NoChannel
<1>2. CASE channels[k] = B!NoChannel
  <2>1. /\ sent' = Append(sent, <<>>) /\ c = Len(sent) + 1 /\ Len(sent) < MaxChannels
        /\ channels' = [channels EXCEPT ![k] = c]
    BY <1>2 DEF B!Has
  <2>2. <<>> \in Seq(Nat)
    OBVIOUS
  <2>3. /\ sent' \in Seq(Seq(Nat)) /\ Len(sent') = Len(sent) + 1
        /\ \A d \in 1..Len(sent) : sent'[d] = sent[d]
    BY <2>1, <2>2
  <2> QED BY <1>2, <2>1, <2>3, BusAssumption DEF B!NoChannel
<1> QED BY <1>1, <1>2

\* A channel that somebody receives from has the event at its end; one that
\* nobody receives from has what it had.
LEMMA SentFacts ==
    ASSUME BusInv, NEW c \in 1..Len(sent), NEW e \in Nat, sent' = B!Sent(c, e)
    PROVE  /\ sent' \in Seq(Seq(Nat)) /\ Len(sent') = Len(sent)
           /\ \A d \in 1..Len(sent) : Len(sent[d]) <= Len(sent'[d])
           /\ B!Receivers(c) # {} => sent'[c] = Append(sent[c], e)
<1> USE DEF BusInv, BusTypes
<1>1. CASE B!Receivers(c) = {}
  BY <1>1 DEF B!Sent
<1>2. CASE B!Receivers(c) # {}
  <2>1. sent' = [sent EXCEPT ![c] = Append(sent[c], e)]
    BY <1>2 DEF B!Sent
  <2>2. sent[c] \in Seq(Nat) /\ Append(sent[c], e) \in Seq(Nat)
    OBVIOUS
  <2> QED BY <2>1, <2>2
<1> QED BY <1>1, <1>2

\* A receiver keeps its place while its channel grows.
LEMMA PlacedStays ==
    ASSUME BusTypes, sent' \in Seq(Seq(Nat)), Len(sent) <= Len(sent'),
           \A d \in 1..Len(sent) : Len(sent[d]) <= Len(sent'[d]),
           NEW r \in Receiver, Placed(r), receiver'[r] = receiver[r]
    PROVE  Placed(r)'
<1> DEFINE mine == receiver[r]
<1>1. mine.on \in 1..Len(sent) /\ mine.on \in 1..Len(sent')
  BY DEF Placed, BusTypes
<1>2. sent[mine.on] \in Seq(Nat) /\ sent'[mine.on] \in Seq(Nat)
  BY <1>1 DEF BusTypes
<1>3. /\ Len(sent[mine.on]) \in Nat /\ Len(sent'[mine.on]) \in Nat
      /\ Len(sent[mine.on]) <= Len(sent'[mine.on])
  BY <1>1, <1>2
<1>4. mine.next \in Nat
  BY DEF BusTypes, Receivers
<1>5. /\ mine.from <= mine.next /\ mine.next <= Len(sent[mine.on])
      /\ mine.got + mine.missed = mine.next - mine.from
  BY DEF Placed
<1>6. mine.next <= Len(sent'[mine.on])
  BY <1>3, <1>4, <1>5
<1> QED BY <1>1, <1>5, <1>6 DEF Placed

\* Publications: each step of one.
LEMMA PublishersKeep ==
    ASSUME BusInv, NEW p \in Publisher,
           (\E k \in Repo : B!Publish(p, k)) \/ B!Send(p) \/ B!SendToAll(p)
    PROVE  BusInv'
<1> USE BusAssumption DEF BusInv, BusTypes, B!NoChannel
<1>1. ASSUME NEW k \in Repo, B!Publish(p, k) PROVE BusInv'
  <2>1. k \in B!Key /\ UNCHANGED receiver /\ events' = events + 1 /\ events < MaxEvents
    BY <1>1 DEF B!Publish, B!Key
  <2>2. PICK c \in 1..MaxChannels :
          /\ B!Has(k, c)
          /\ publication' = [publication EXCEPT
                               ![p] = [pc |-> "send", on |-> c, event |-> events + 1]]
    BY <1>1 DEF B!Publish
  <2>3. /\ sent' \in Seq(Seq(Nat)) /\ Len(sent) <= Len(sent') /\ Len(sent') \in 1..MaxChannels
        /\ c \in 1..Len(sent') /\ channels'[k] = c
        /\ channels' \in [B!Key -> 0..Len(sent')]
        /\ \A j \in B!Key : channels[j] # 0 => channels'[j] = channels[j]
        /\ \A d \in 1..Len(sent) : sent'[d] = sent[d]
    BY <2>1, <2>2, HasFacts
  <2>4. All \in B!Key
    BY DEF B!Key
  <2>5. publication' \in [Publisher -> Publications]
    BY <2>1, <2>2 DEF Publications
  <2>6. BusTypes'
    BY <2>1, <2>2, <2>3, <2>4, <2>5 DEF B!NoJob, B!Deaf
  <2>7. ReceiversPlaced'
    <3> SUFFICES ASSUME NEW r \in Receiver, receiver[r] # B!Deaf PROVE Placed(r)'
      BY <2>1 DEF ReceiversPlaced, B!Deaf
    <3> QED BY <2>1, <2>3, PlacedStays DEF ReceiversPlaced
  <2>8. B!ReceiversAreFound'
    BY <2>1, <2>3 DEF B!ReceiversAreFound, ReceiversPlaced, Placed, Receivers, B!Deaf
  <2> QED BY <2>6, <2>7, <2>8
<1>2. ASSUME NEW c \in 1..Len(sent), NEW e \in Nat, sent' = B!Sent(c, e),
             UNCHANGED <<channels, receiver, events>>, publication' \in [Publisher -> Publications],
             \A q \in Publisher : \/ publication'[q] = B!NoJob
                                  \/ publication[q] # B!NoJob /\ publication'[q].on = publication[q].on
      PROVE  BusInv'
  <2>1. /\ sent' \in Seq(Seq(Nat)) /\ Len(sent') = Len(sent)
        /\ \A d \in 1..Len(sent) : Len(sent[d]) <= Len(sent'[d])
    BY <1>2, SentFacts
  <2>2. BusTypes'
    BY <1>2, <2>1 DEF B!Deaf
  <2>3. ReceiversPlaced'
    <3> SUFFICES ASSUME NEW r \in Receiver, receiver[r] # B!Deaf PROVE Placed(r)'
      BY <1>2 DEF ReceiversPlaced, B!Deaf
    <3> QED BY <1>2, <2>1, PlacedStays DEF ReceiversPlaced
  <2>4. B!ReceiversAreFound'
    BY <1>2 DEF B!ReceiversAreFound, B!Deaf
  <2> QED BY <2>2, <2>3, <2>4
<1>3. CASE B!Send(p)
  <2>1. publication[p] # B!NoJob /\ publication[p].on \in 1..Len(sent) /\ publication[p].event \in Nat
    BY <1>3 DEF B!Send, B!NoJob, Publications
  <2>2. publication'[p] = [publication[p] EXCEPT !.pc = "all"]
    BY <1>3 DEF B!Send
  <2>3. publication' \in [Publisher -> Publications]
    BY <1>3, <2>1 DEF B!Send, Publications
  <2> QED BY <1>2, <1>3, <2>1, <2>2, <2>3 DEF B!Send, Publications, B!NoJob
<1>4. CASE B!SendToAll(p)
  <2>1. publication[p].event \in Nat /\ channels[All] \in 1..Len(sent)
    BY <1>4 DEF B!SendToAll, B!NoJob, Publications, B!Key
  <2>2. publication' \in [Publisher -> Publications]
    BY <1>4 DEF B!SendToAll, Publications
  <2> QED BY <1>2, <1>4, <2>1, <2>2 DEF B!SendToAll, B!NoJob
<1> QED BY <1>1, <1>3, <1>4

\* What receiving does to a receiver: it goes on, and counts what it read or
\* was told of.
LEMMA ReadFacts ==
    ASSUME NEW old \in Receivers, NEW new, NEW count \in Nat, NEW oldest \in Nat,
           old.from <= old.next, old.got + old.missed = old.next - old.from,
           old.next < count, oldest <= count,
           \/ /\ old.next < oldest
              /\ new = [old EXCEPT !.next = oldest, !.missed = old.missed + (oldest - old.next)]
           \/ new = [old EXCEPT !.next = old.next + 1, !.got = old.got + 1]
    PROVE  /\ new \in Receivers /\ new.on = old.on /\ new.key = old.key
           /\ new.from = old.from /\ old.next <= new.next /\ new.next <= count
           /\ new.got + new.missed = new.next - new.from
<1>1. /\ old.from \in Nat /\ old.next \in Nat /\ old.got \in Nat /\ old.missed \in Nat
      /\ old.on \in Nat
  BY DEF Receivers
<1>2. CASE /\ old.next < oldest
           /\ new = [old EXCEPT !.next = oldest, !.missed = old.missed + (oldest - old.next)]
  <2> DEFINE m == old.missed + (oldest - old.next)
  <2>1. m \in Nat /\ old.got + m = oldest - old.from /\ old.next <= oldest
    BY <1>1, <1>2
  <2>2. new = [old EXCEPT !.next = oldest, !.missed = m]
    BY <1>2
  <2> HIDE DEF m
  <2> QED BY <2>1, <2>2 DEF Receivers
<1>3. CASE new = [old EXCEPT !.next = old.next + 1, !.got = old.got + 1]
  <2> DEFINE n == old.next + 1
             g == old.got + 1
  <2>1. n \in Nat /\ g \in Nat /\ g + old.missed = n - old.from /\ old.next <= n /\ n <= count
    BY <1>1
  <2>2. new = [old EXCEPT !.next = n, !.got = g]
    BY <1>3
  <2> HIDE DEF n, g
  <2> QED BY <2>1, <2>2 DEF Receivers
<1> QED BY <1>2, <1>3

\* Receivers: each of their calls.
LEMMA ReceiversKeep ==
    ASSUME BusInv, NEW r \in Receiver,
           (\E k \in B!Key : B!Subscribe(r, k)) \/ B!Receive(r) \/ B!Leave(r)
    PROVE  BusInv'
<1> USE BusAssumption DEF BusInv, BusTypes, B!NoChannel
<1>1. ASSUME NEW k \in B!Key, B!Subscribe(r, k) PROVE BusInv'
  <2>1. PICK c \in 1..MaxChannels :
          /\ B!Has(k, c)
          /\ receiver' = [receiver EXCEPT ![r] =
               [on |-> c, key |-> k, from |-> Len(sent'[c]), next |-> Len(sent'[c]),
                got |-> 0, missed |-> 0]]
    BY <1>1 DEF B!Subscribe
  <2>2. /\ sent' \in Seq(Seq(Nat)) /\ Len(sent) <= Len(sent') /\ Len(sent') \in 1..MaxChannels
        /\ c \in 1..Len(sent') /\ channels'[k] = c
        /\ channels' \in [B!Key -> 0..Len(sent')]
        /\ \A j \in B!Key : channels[j] # 0 => channels'[j] = channels[j]
        /\ \A d \in 1..Len(sent) : sent'[d] = sent[d]
    BY <2>1, HasFacts
  <2>3. Len(sent'[c]) \in Nat /\ All \in B!Key
    BY <2>2 DEF B!Key
  <2>4. receiver'[r] \in Receivers /\ receiver' \in [Receiver -> Receivers]
    BY <2>1, <2>3 DEF Receivers
  <2>5. BusTypes'
    <3>1. receiver'[r].on = c /\ c # 0
      BY <2>1, <2>2
    <3>2. \A q \in Receiver : receiver'[q].on = 0 => receiver'[q] = B!Deaf
      BY <2>1, <3>1
    <3>3. channels'[All] # 0 /\ UNCHANGED <<publication, events>>
      BY <1>1, <2>2, <2>3 DEF B!Subscribe
    <3>4. \A p \in Publisher : publication'[p] # B!NoJob => publication'[p].on \in 1..Len(sent')
      BY <2>2, <3>3
    <3> QED BY <2>2, <2>4, <3>2, <3>3, <3>4 DEF B!Deaf
  <2>6. ReceiversPlaced'
    <3>1. Placed(r)'
      BY <2>1, <2>2, <2>3 DEF Placed
    <3>2. ASSUME NEW q \in Receiver, q # r, receiver'[q] # B!Deaf PROVE Placed(q)'
      <4>1. receiver'[q] = receiver[q] /\ Placed(q)
        BY <2>1, <3>2 DEF ReceiversPlaced
      <4>2. sent \in Seq(Seq(Nat)) /\ \A d \in 1..Len(sent) : Len(sent[d]) <= Len(sent'[d])
        BY <2>2
      <4>3. BusTypes
        OBVIOUS
      <4> HIDE DEF BusTypes
      <4> QED BY <2>2, <4>1, <4>2, <4>3, PlacedStays
    <3> QED BY <3>1, <3>2 DEF ReceiversPlaced, B!Deaf
  <2>7. B!ReceiversAreFound'
    BY <1>1, <2>1, <2>2 DEF B!Subscribe, B!ReceiversAreFound, ReceiversPlaced, Placed, Receivers
  <2> QED BY <2>5, <2>6, <2>7
<1>2. CASE B!Receive(r)
  <2> DEFINE old == receiver[r]
             new == receiver'[r]
  <2>1. /\ old \in Receivers /\ old # B!Deaf /\ Placed(r)
        /\ old.next < Len(sent[old.on])
        /\ receiver' = [receiver EXCEPT ![r] = new]
        /\ UNCHANGED <<channels, sent, publication, events>>
    BY <1>2 DEF B!Receive, B!Count, ReceiversPlaced
  <2>10. receiver' = [receiver EXCEPT ![r] =
                        IF old.next < B!Oldest(old.on)
                          THEN [old EXCEPT !.next = B!Oldest(old.on), !.missed = old.missed + B!Lag(r)]
                          ELSE [old EXCEPT !.next = old.next + 1, !.got = old.got + 1]]
    BY <1>2 DEF B!Receive
  <2>2. Len(sent[old.on]) \in Nat
    BY <2>1 DEF Placed
  <2>3. B!Oldest(old.on) \in Nat /\ B!Oldest(old.on) <= Len(sent[old.on])
    BY <2>2 DEF B!Oldest, B!Count
  <2>3a. \/ /\ old.next < B!Oldest(old.on)
            /\ new = [old EXCEPT !.next = B!Oldest(old.on),
                                 !.missed = old.missed + (B!Oldest(old.on) - old.next)]
         \/ new = [old EXCEPT !.next = old.next + 1, !.got = old.got + 1]
    BY <2>10 DEF B!Lag
  <2>3b. /\ old.from \in Nat /\ old.next \in Nat /\ old.got \in Nat /\ old.missed \in Nat
         /\ old.from <= old.next /\ old.got + old.missed = old.next - old.from
    BY <2>1 DEF Placed, Receivers
  <2> HIDE DEF old, new
  <2>4. /\ new \in Receivers /\ new.on = old.on /\ new.key = old.key
        /\ new.from = old.from /\ old.next <= new.next /\ new.next <= Len(sent[old.on])
        /\ new.got + new.missed = new.next - new.from
    <3> DEFINE count == Len(sent[old.on])
               oldest == B!Oldest(old.on)
    <3>1. old \in Receivers /\ count \in Nat /\ oldest \in Nat /\ old.next < count /\ oldest <= count
      BY <2>1, <2>2, <2>3
    <3>2. \/ /\ old.next < oldest
             /\ new = [old EXCEPT !.next = oldest, !.missed = old.missed + (oldest - old.next)]
          \/ new = [old EXCEPT !.next = old.next + 1, !.got = old.got + 1]
      BY <2>3a
    <3> HIDE DEF count, oldest
    <3>3. /\ new \in Receivers /\ new.on = old.on /\ new.key = old.key
          /\ new.from = old.from /\ old.next <= new.next /\ new.next <= count
          /\ new.got + new.missed = new.next - new.from
      BY <2>3b, <3>1, <3>2, ReadFacts
    <3> QED BY <3>3 DEF count
  <2>5. old.on # 0 /\ \A q \in Receiver : receiver'[q] = IF q = r THEN new ELSE receiver[q]
    BY <2>1 DEF Placed, old
  <2>6. /\ old = receiver[r] /\ B!ReceiversAreFound /\ ReceiversPlaced
        /\ receiver' \in [Receiver -> Receivers]
    BY <2>1, <2>4 DEF old
  <2>7. BusTypes'
    BY <2>1, <2>4, <2>5, <2>6 DEF B!Deaf
  <2>8. ReceiversPlaced'
    <3>1. Placed(r)'
      BY <2>1, <2>4, <2>5, <2>6 DEF Placed, Receivers
    <3>2. ASSUME NEW q \in Receiver, q # r, receiver'[q] # B!Deaf PROVE Placed(q)'
      BY <2>1, <2>5, <3>2 DEF ReceiversPlaced, Placed
    <3> QED BY <3>1, <3>2 DEF ReceiversPlaced, B!Deaf
  <2>9. B!ReceiversAreFound'
    BY <2>1, <2>4, <2>5, <2>6 DEF B!ReceiversAreFound
  <2> QED BY <2>7, <2>8, <2>9
<1>3. CASE B!Leave(r)
  <2>1. B!Deaf \in Receivers
    BY DEF B!Deaf, Receivers, B!Key, B!NoChannel
  <2> QED BY <1>3, <2>1 DEF B!Leave, ReceiversPlaced, Placed, B!ReceiversAreFound
<1> QED BY <1>1, <1>2, <1>3

\* Every step keeps the invariant.
LEMMA BusStep ==
    ASSUME BusInv, [B!Next]_(B!vars)
    PROVE  BusInv'
<1>1. ASSUME NEW k \in Repo, B!CleanupIdle(k) PROVE BusInv'
  BY <1>1 DEF B!CleanupIdle, B!IsIdle, B!Receivers, BusInv, BusTypes, ReceiversPlaced, Placed,
              B!ReceiversAreFound, B!NoChannel, B!Key, B!Deaf
<1>2. CASE UNCHANGED B!vars
  BY <1>2 DEF B!vars, BusInv, BusTypes, ReceiversPlaced, Placed, B!ReceiversAreFound
<1> QED BY <1>1, <1>2, PublishersKeep, ReceiversKeep DEF B!Next

\* The last step of a publication reaches who listens to all repositories.
LEMMA AllHear ==
    ASSUME BusInv, [B!Next]_(B!vars), NEW p \in Publisher,
           publication[p].pc = "all", publication'[p] = B!NoJob, B!Receivers(channels[All]) # {}
    PROVE  sent'[channels[All]] = Append(sent[channels[All]], publication[p].event)
<1> USE DEF BusInv, BusTypes
<1>1. B!SendToAll(p)
  <2>1. publication[p] # B!NoJob /\ publication' # publication
    BY DEF B!NoJob
  <2> QED BY <2>1 DEF B!Next, B!vars, B!Publish, B!Send, B!SendToAll, B!Subscribe, B!Receive,
                      B!Leave, B!CleanupIdle, B!NoJob
<1>2. publication[p].event \in Nat /\ channels[All] \in 1..Len(sent)
  BY <1>1 DEF Publications, B!NoJob, B!Key, B!NoChannel
<1> QED BY <1>1, <1>2, SentFacts DEF B!SendToAll

\* Publishers and receivers of a repository meet on one channel, nobody misses
\* an event without being told, and who listens to all hears every event.
THEOREM BusStaysSound == B!Spec => BusIsSound
<1>1. B!Init => BusInv
  BY BusInit
<1>2. BusInv /\ [B!Next]_(B!vars) => BusInv'
  BY BusStep
<1>3. BusInv => B!TypeOK /\ B!ReceiversAreFound /\ B!MissedIsTold
  BY DEF BusInv, BusTypes, ReceiversPlaced, Placed, B!TypeOK, B!MissedIsTold, B!Deaf, B!NoChannel,
         B!Count
<1>4. BusInv /\ [B!Next]_(B!vars) =>
        [\A p \in Publisher :
           publication[p].pc = "all" /\ publication'[p] = B!NoJob /\ B!Receivers(channels[All]) # {} =>
             sent'[channels[All]] = Append(sent[channels[All]], publication[p].event)]_(B!vars)
  BY AllHear
<1> QED BY <1>1, <1>2, <1>3, <1>4, PTL DEF B!Spec, BusIsSound, B!AllHearEverything

-----------------------------------------------------------------------------
(***************************************************************************)
(* The files of a workspace.                                               *)
(***************************************************************************)

\* A write nobody has joined is the only one of its path, and once it has
\* persisted its row the row is there.
Alone(w) ==
    /\ F!WritersOf(write[w].path) = {w}
    /\ write[w].pc = "entry" => rows[write[w].path] = write[w].entry

FilesInv ==
    /\ F!TypeOK /\ F!AnsweredSurvives /\ F!AddedIsMarked
    /\ where # "memory" => list = F!NoList
    /\ \A w \in Writer : write[w] # F!Idle /\ write[w].alone => Alone(w)

\* The workspace starts empty, and nobody writes to it.
LEMMA FilesInit == F!Init => FilesInv
<1> SUFFICES ASSUME F!Init PROVE FilesInv
  OBVIOUS
<1> USE DEF F!Init, F!Empty, F!Entry, F!NoList
<1>1. F!TypeOK
  BY DEF F!TypeOK
<1> QED BY <1>1 DEF FilesInv, F!AnsweredSurvives, F!AddedIsMarked

\* A request writes, or has written, a file.
LEMMA WritersOfFacts ==
    ASSUME F!TypeOK, NEW w \in Writer
    PROVE  /\ write[w] = F!Idle <=> write[w].path \notin Path
           /\ write[w] # F!Idle => /\ write[w].path \in Path /\ write[w].entry \in F!Entry
                                   /\ write[w].alone \in BOOLEAN
                                   /\ write[w].pc \in {"row", "entry"}
                                   /\ w \in F!WritersOf(write[w].path)
<1>1. write[w] \in {F!Idle} \cup [pc : {"row", "entry"}, path : Path, entry : F!Entry,
                                  alone : BOOLEAN]
  BY DEF F!TypeOK
<1>2. CASE write[w] = F!Idle
  BY <1>2, FilesAssumption DEF F!Idle
<1>3. CASE write[w] # F!Idle
  <2>1. write[w] \in [pc : {"row", "entry"}, path : Path, entry : F!Entry, alone : BOOLEAN]
    BY <1>1, <1>3
  <2> QED BY <1>3, <2>1 DEF F!WritersOf
<1> QED BY <1>2, <1>3

\* A write begins, and joins the others of its path.
LEMMA WriteBegins ==
    ASSUME FilesInv, NEW w \in Writer, NEW p \in Path, NEW e \in F!Entry, F!BeginWrite(w, p, e)
    PROVE  FilesInv'
<1> DEFINE others == F!WritersOf(p)
           new == [pc |-> "row", path |-> p, entry |-> e, alone |-> others = {}]
<1>1. /\ where = "memory" /\ write[w] = F!Idle
      /\ write' = [v \in Writer |-> IF v = w THEN new
                     ELSE IF v \in others THEN [write[v] EXCEPT !.alone = FALSE] ELSE write[v]]
      /\ UNCHANGED <<where, entries, rows, list, answered, unsure>>
  BY DEF F!BeginWrite
<1>2. w \notin others /\ \A v \in others : v \in Writer /\ write[v] # F!Idle /\ write[v].path = p
  BY <1>1, WritersOfFacts DEF FilesInv, F!WritersOf
<1>3. \A v \in others : write[v] \in [pc : {"row", "entry"}, path : Path, entry : F!Entry,
                                      alone : BOOLEAN]
  BY <1>2 DEF FilesInv, F!TypeOK
<1>4. F!TypeOK'
  <2>1. write' \in [Writer -> {F!Idle} \cup [pc : {"row", "entry"}, path : Path, entry : F!Entry,
                                             alone : BOOLEAN]]
    <3>1. new \in [pc : {"row", "entry"}, path : Path, entry : F!Entry, alone : BOOLEAN]
      OBVIOUS
    <3> QED BY <1>1, <1>3, <3>1 DEF FilesInv, F!TypeOK
  <2> QED BY <1>1, <2>1 DEF FilesInv, F!TypeOK
<1>5. /\ F!WritersOf(p)' = others \cup {w}
      /\ \A q \in Path \ {p} : F!WritersOf(q)' = F!WritersOf(q)
  <2>1. write'[w].path = p /\ write[w].path \notin Path
    BY <1>1, WritersOfFacts DEF FilesInv
  <2>2. \A v \in Writer \ {w} : write'[v].path = write[v].path
    BY <1>1, <1>3
  <2> QED BY <2>1, <2>2 DEF F!WritersOf
<1>6. F!AnsweredSurvives'
  BY <1>1, <1>5 DEF FilesInv, F!AnsweredSurvives
<1>7. F!AddedIsMarked' /\ (where' # "memory" => list' = F!NoList)
  BY <1>1 DEF FilesInv, F!AddedIsMarked, F!Reply, F!Changed, F!BaseFiles
<1>8. ASSUME NEW v \in Writer, write'[v] # F!Idle, write'[v].alone PROVE Alone(v)'
  <2>1. CASE v = w
    BY <1>1, <1>5, <1>8, <2>1 DEF Alone
  <2>2. CASE v # w
    <3>1. v \notin others /\ write'[v] = write[v]
      BY <1>1, <1>3, <1>8, <2>2
    <3>2. Alone(v) /\ write[v].path \in Path \ {p}
      BY <1>8, <3>1, WritersOfFacts DEF FilesInv, F!WritersOf
    <3> QED BY <1>1, <1>5, <3>1, <3>2 DEF Alone
  <2> QED BY <2>1, <2>2
<1> QED BY <1>4, <1>6, <1>7, <1>8 DEF FilesInv

\* A write persists its row, fails to, or shows and is answered.
LEMMA WritesGoOn ==
    ASSUME FilesInv, NEW w \in Writer, F!PersistRow(w) \/ F!PersistFails(w) \/ F!InsertEntry(w)
    PROVE  FilesInv'
<1>1. write[w] # F!Idle
  BY DEF F!PersistRow, F!PersistFails, F!InsertEntry, F!Idle
<1>0. PICK p \in Path, e \in F!Entry : p = write[w].path /\ e = write[w].entry
  BY <1>1, WritersOfFacts DEF FilesInv
<1>2. /\ p = write[w].path /\ e = write[w].entry
      /\ write[w].alone \in BOOLEAN /\ w \in F!WritersOf(p)
      /\ write[w] \in [pc : {"row", "entry"}, path : Path, entry : F!Entry, alone : BOOLEAN]
  BY <1>0, <1>1, WritersOfFacts DEF FilesInv, F!TypeOK
<1>3. F!Empty \in [Path -> F!Entry \cup {NoEntry}] /\ NoEntry \notin F!Entry
  BY FilesAssumption DEF F!Empty, F!Entry
<1>4. CASE F!PersistRow(w)
  <2>1. /\ rows' = [rows EXCEPT ![p] = e] /\ write' = [write EXCEPT ![w].pc = "entry"]
        /\ UNCHANGED <<where, entries, list, answered, unsure>>
    BY <1>2, <1>4 DEF F!PersistRow
  <2>2. F!TypeOK'
    <3>1. write'[w] \in [pc : {"row", "entry"}, path : Path, entry : F!Entry, alone : BOOLEAN]
      BY <1>2, <2>1 DEF FilesInv, F!TypeOK
    <3> QED BY <1>2, <2>1, <3>1 DEF FilesInv, F!TypeOK
  <2>3. \A q \in Path : F!WritersOf(q)' = F!WritersOf(q)
    BY <1>2, <2>1 DEF FilesInv, F!TypeOK, F!WritersOf
  <2>4. F!AnsweredSurvives'
    BY <1>2, <2>1, <2>3 DEF FilesInv, F!AnsweredSurvives, F!TypeOK
  <2>5. F!AddedIsMarked' /\ (where' # "memory" => list' = F!NoList)
    BY <2>1 DEF FilesInv, F!AddedIsMarked, F!Reply, F!Changed, F!BaseFiles
  <2>6. ASSUME NEW v \in Writer, write'[v] # F!Idle, write'[v].alone PROVE Alone(v)'
    <3>1. /\ write'[v].path = write[v].path /\ write'[v].entry = write[v].entry
          /\ write[v] # F!Idle /\ write[v].alone /\ write[v].path \in Path
      BY <1>1, <1>2, <2>1, <2>6, WritersOfFacts DEF FilesInv, F!TypeOK
    <3>2. Alone(v)
      BY <3>1 DEF FilesInv
    <3>3. CASE v = w
      BY <1>2, <2>1, <2>3, <3>1, <3>2, <3>3 DEF Alone, FilesInv, F!TypeOK
    <3>4. CASE v # w
      BY <1>2, <2>1, <2>3, <3>1, <3>2, <3>4 DEF Alone, FilesInv, F!TypeOK
    <3> QED BY <3>3, <3>4
  <2> QED BY <2>2, <2>4, <2>5, <2>6 DEF FilesInv
<1>5. ASSUME write' = [write EXCEPT ![w] = F!Idle]
      PROVE  /\ F!WritersOf(p)' = F!WritersOf(p) \ {w}
             /\ \A q \in Path \ {p} : F!WritersOf(q)' = F!WritersOf(q)
             /\ write' \in [Writer -> {F!Idle} \cup [pc : {"row", "entry"}, path : Path,
                                                     entry : F!Entry, alone : BOOLEAN]]
             /\ \A v \in Writer : write'[v] # F!Idle /\ write'[v].alone =>
                  /\ v # w /\ write'[v] = write[v] /\ Alone(v) /\ write[v].path \in Path \ {p}
  <2>1. F!Idle.path \notin Path
    BY FilesAssumption DEF F!Idle
  <2>2. write'[w] = F!Idle /\ \A v \in Writer \ {w} : write'[v] = write[v]
    BY <1>5 DEF FilesInv, F!TypeOK
  <2>3. ASSUME NEW v \in Writer, write'[v] # F!Idle, write'[v].alone
        PROVE  /\ v # w /\ write'[v] = write[v] /\ Alone(v) /\ write[v].path \in Path \ {p}
    <3>1. v # w /\ write'[v] = write[v] /\ Alone(v) /\ write[v].path \in Path
      BY <2>2, <2>3, WritersOfFacts DEF FilesInv
    <3> QED BY <1>2, <3>1 DEF Alone
  <2>4. /\ F!WritersOf(p)' = F!WritersOf(p) \ {w}
        /\ \A q \in Path \ {p} : F!WritersOf(q)' = F!WritersOf(q)
    <3>1. write[w].path = p /\ write'[w].path \notin Path
      BY <1>2, <2>1, <2>2
    <3>2. \A v \in Writer \ {w} : write'[v].path = write[v].path
      BY <2>2
    <3> QED BY <1>2, <3>1, <3>2 DEF F!WritersOf
  <2> QED BY <1>5, <2>3, <2>4 DEF FilesInv, F!TypeOK
<1>6. CASE F!PersistFails(w)
  <2>1. /\ rows' \in {rows, [rows EXCEPT ![p] = e]} /\ unsure' = unsure \cup {p}
        /\ write' = [write EXCEPT ![w] = F!Idle]
        /\ UNCHANGED <<where, entries, list, answered>>
    BY <1>2, <1>6 DEF F!PersistFails
  <2>2. F!TypeOK'
    BY <1>2, <1>5, <2>1 DEF FilesInv, F!TypeOK
  <2>3. \A q \in Path \ {p} : rows'[q] = rows[q]
    BY <2>1 DEF FilesInv, F!TypeOK
  <2>4. F!AnsweredSurvives'
    BY <1>5, <2>1, <2>3 DEF FilesInv, F!AnsweredSurvives
  <2>5. F!AddedIsMarked' /\ (where' # "memory" => list' = F!NoList)
    BY <2>1 DEF FilesInv, F!AddedIsMarked, F!Reply, F!Changed, F!BaseFiles
  <2>6. \A v \in Writer : write'[v] # F!Idle /\ write'[v].alone => Alone(v)'
    BY <1>5, <2>1, <2>3 DEF Alone
  <2> QED BY <2>2, <2>4, <2>5, <2>6 DEF FilesInv
<1>7. CASE F!InsertEntry(w)
  <2>1. /\ write[w].pc = "entry"
        /\ entries' = [entries EXCEPT ![p] = e] /\ answered' = [answered EXCEPT ![p] = e]
        /\ unsure' = IF write[w].alone THEN unsure \ {p} ELSE unsure \cup {p}
        /\ write' = [write EXCEPT ![w] = F!Idle]
        /\ UNCHANGED <<where, rows, list>>
    BY <1>2, <1>7 DEF F!InsertEntry
  <2>2. F!TypeOK'
    BY <1>2, <1>5, <2>1 DEF FilesInv, F!TypeOK
  <2>3. F!AnsweredSurvives'
    <3>1. ASSUME p \notin unsure' PROVE rows'[p] = answered'[p] /\ entries'[p] = answered'[p]
      <4>1. write[w].alone
        BY <2>1, <3>1
      <4>2. rows[p] = e
        BY <1>1, <1>2, <2>1, <4>1 DEF FilesInv, Alone
      <4> QED BY <1>2, <2>1, <4>2 DEF FilesInv, F!TypeOK
    <3>2. \A q \in Path \ {p} : /\ entries'[q] = entries[q] /\ answered'[q] = answered[q]
                                /\ q \in unsure' <=> q \in unsure
      BY <2>1 DEF FilesInv, F!TypeOK
    <3> QED BY <1>5, <2>1, <3>1, <3>2 DEF FilesInv, F!AnsweredSurvives
  <2>4. F!Changed \subseteq F!Changed'
    BY <1>2, <1>3, <2>1 DEF F!Changed, FilesInv, F!TypeOK
  <2>5. F!AddedIsMarked' /\ (where' # "memory" => list' = F!NoList)
    BY <2>1, <2>4 DEF FilesInv, F!AddedIsMarked, F!Reply, F!BaseFiles
  <2>6. \A v \in Writer : write'[v] # F!Idle /\ write'[v].alone => Alone(v)'
    BY <1>5, <2>1 DEF Alone
  <2> QED BY <2>2, <2>3, <2>5, <2>6 DEF FilesInv
<1> QED BY <1>4, <1>6, <1>7

\* The workspace leaves memory and comes back, and its files are listed.
LEMMA WorkspaceMoves ==
    ASSUME FilesInv,
           F!Strand \/ F!Crash \/ F!Resume \/ F!ResumeFails \/ F!ListFiles \/ F!ListReturns
    PROVE  FilesInv'
<1>1. F!Empty \in [Path -> F!Entry \cup {NoEntry}]
  BY DEF F!Empty
<1>2. CASE F!Strand
  BY <1>1, <1>2 DEF F!Strand, FilesInv, F!TypeOK, F!AnsweredSurvives, F!WritersOf, F!NoList,
                    F!AddedIsMarked, Alone
<1>3. CASE F!Crash
  <2>1. PICK arrived \in SUBSET {w \in Writer : write[w].pc = "row"} :
          rows' = [p \in Path |->
                     IF F!WritersOf(p) \cap arrived = {} THEN rows[p]
                     ELSE write[CHOOSE w \in F!WritersOf(p) \cap arrived : TRUE].entry]
    BY <1>3 DEF F!Crash
  <2>2. /\ where' = "stranded" /\ entries' = F!Empty /\ list' = F!NoList
        /\ unsure' = unsure \cup {p \in Path : F!WritersOf(p) # {}}
        /\ write' = [w \in Writer |-> F!Idle] /\ UNCHANGED answered
    BY <1>3 DEF F!Crash
  <2>3. \A p \in Path : rows'[p] \in F!Entry \cup {NoEntry}
    <3> SUFFICES ASSUME NEW p \in Path PROVE rows'[p] \in F!Entry \cup {NoEntry}
      OBVIOUS
    <3>1. CASE F!WritersOf(p) \cap arrived = {}
      BY <2>1, <3>1 DEF FilesInv, F!TypeOK
    <3>2. CASE F!WritersOf(p) \cap arrived # {}
      <4> DEFINE v == CHOOSE w \in F!WritersOf(p) \cap arrived : TRUE
      <4>1. v \in F!WritersOf(p)
        BY <3>2
      <4>2. v \in Writer /\ write[v].path = p
        BY <4>1 DEF F!WritersOf
      <4>3. write[v].entry \in F!Entry
        BY <4>2, WritersOfFacts DEF FilesInv
      <4> QED BY <2>1, <3>2, <4>3
    <3> QED BY <3>1, <3>2
  <2>4. F!TypeOK'
    BY <1>1, <2>1, <2>2, <2>3 DEF FilesInv, F!TypeOK, F!NoList
  <2>5. \A p \in Path \ unsure' : F!WritersOf(p) = {} /\ rows'[p] = rows[p]
    BY <2>1, <2>2
  <2>6. F!AnsweredSurvives'
    BY <2>2, <2>5 DEF FilesInv, F!AnsweredSurvives
  <2> QED BY <2>2, <2>4, <2>6 DEF FilesInv, F!AddedIsMarked, F!NoList
<1>4. CASE F!Resume
  <2>1. /\ entries' = rows /\ where = "stranded" /\ where' = "memory"
        /\ UNCHANGED <<rows, write, list, answered, unsure>>
    BY <1>4 DEF F!Resume, F!RestoredEntries, F!Restored, FilesInv, F!TypeOK
  <2> QED BY <2>1 DEF FilesInv, F!TypeOK, F!AnsweredSurvives, F!WritersOf, F!NoList,
                      F!AddedIsMarked, Alone
<1>5. CASE F!ResumeFails
  BY <1>5 DEF F!ResumeFails, FilesInv, F!TypeOK, F!AnsweredSurvives, F!WritersOf, F!NoList,
              F!AddedIsMarked, Alone
<1>6. CASE F!ListFiles
  <2>1. PICK only \in BOOLEAN : list' = [pc |-> "paths", files |-> F!list_files(only)]
    BY <1>6 DEF F!ListFiles
  <2>2. /\ F!list_files(only) \subseteq Path
        /\ F!list_files(only) \ F!BaseFiles \subseteq F!Changed
    BY DEF F!list_files, F!BaseFiles, F!Changed
  <2> QED BY <1>6, <2>1, <2>2 DEF F!ListFiles, FilesInv, F!TypeOK, F!AnsweredSurvives,
                    F!WritersOf, F!AddedIsMarked, F!Reply, F!BaseFiles, F!Changed, Alone
<1>7. CASE F!ListReturns
  BY <1>7 DEF F!ListReturns, FilesInv, F!TypeOK, F!AnsweredSurvives, F!WritersOf, F!NoList,
              F!AddedIsMarked, Alone
<1> QED BY <1>2, <1>3, <1>4, <1>5, <1>6, <1>7

\* Every step keeps the invariant.
LEMMA FilesStep ==
    ASSUME FilesInv, [F!Next]_(F!vars)
    PROVE  FilesInv'
<1>1. CASE UNCHANGED F!vars
  BY <1>1 DEF F!vars, FilesInv, F!TypeOK, F!AnsweredSurvives, F!WritersOf, F!AddedIsMarked,
              F!Reply, F!Changed, F!BaseFiles, Alone
<1> QED BY <1>1, WriteBegins, WritesGoOn, WorkspaceMoves DEF F!Next

\* What is read, what is listed and what is merged is one tree.
LEMMA ViewsAgree ==
    ASSUME F!TypeOK
    PROVE  F!OneView
<1>1. \A p \in Path : entries[p] \in Content \cup {Deleted, NoEntry}
  BY DEF F!TypeOK, F!Entry
<1>2. F!list_files(FALSE) = {p \in Path : F!read_file(p) # NoFile}
  BY <1>1, FilesAssumption DEF F!list_files, F!read_file, F!BaseFiles, F!Changed
<1>3. ASSUME NEW p \in Path PROVE F!CommitTree[p] = F!read_file(p)
  BY <1>1, FilesAssumption DEF F!CommitTree, F!read_file
<1> QED BY <1>2, <1>3 DEF F!OneView, F!CommitTree

\* What an answered write left is in memory and in its row until the next
\* write, and every answer about the files agrees with it.
THEOREM FilesStaySound == F!Spec => []FilesAreSound
<1>1. F!Init => FilesInv
  BY FilesInit
<1>2. FilesInv /\ [F!Next]_(F!vars) => FilesInv'
  BY FilesStep
<1>3. FilesInv => FilesAreSound
  BY ViewsAgree DEF FilesInv, FilesAreSound
<1> QED BY <1>1, <1>2, <1>3, PTL DEF F!Spec

-----------------------------------------------------------------------------
(***************************************************************************)
(* The graph of a session.                                                 *)
(***************************************************************************)

\* Where the last change of a symbol is kept.
Kept(i) ==
    \/ /\ last[i] = G!Untouched
       /\ modified_symbols[i] = None /\ added_symbols[i] = None /\ i \notin removed_symbols
    \/ /\ last[i] = G!Gone
       /\ modified_symbols[i] = None /\ added_symbols[i] = None
       /\ i \in removed_symbols /\ i \in removed_symbol_names
    \/ /\ last[i] \in Text /\ i \notin removed_symbols
       /\ \/ modified_symbols[i] = last[i] /\ added_symbols[i] = None
          \/ added_symbols[i] = last[i] /\ modified_symbols[i] = None

\* The table holds none of the symbols the session added or the parser has yet
\* to find.
TableApart ==
    /\ G!In(shared) \subseteq SharedIds
    /\ unseen \cap SharedIds = {} /\ G!In(added_symbols) \cap SharedIds = {}

GraphInv ==
    /\ G!TypeOK /\ TableApart
    /\ last \in [SymbolId -> Text \cup {G!Untouched, G!Gone}]
    /\ \A i \in SymbolId : Kept(i)
    /\ \A i \in unseen : last[i] = G!Untouched

\* A session starts with no change.
LEMMA GraphInit == G!Init => GraphInv
<1> SUFFICES ASSUME G!Init PROVE GraphInv
  OBVIOUS
<1> USE GraphAssumption DEF G!Init, G!NoSymbols
<1>1. G!TypeOK
  BY DEF G!TypeOK
<1>2. TableApart
  BY DEF TableApart, G!In
<1> QED BY <1>1, <1>2 DEF GraphInv, Kept

\* What is kept of each symbol shows in a lookup and in the names.
LEMMA GraphShows ==
    ASSUME GraphInv
    PROVE  G!ViewIsLastChange /\ G!ChangesAreNamed
<1> USE GraphAssumption DEF GraphInv
<1>1. \A i \in SymbolId : Kept(i)
  OBVIOUS
<1>2. G!ViewIsLastChange
  BY <1>1 DEF G!ViewIsLastChange, Kept, G!get_symbol, G!Untouched, G!Gone
<1>3. ASSUME NEW i \in SymbolId, last[i] # G!Untouched
      PROVE  /\ NameOf[i] \in G!changed_symbol_names
             /\ last[i] # G!Gone => NameOf[i] \in G!changed_symbols_for_file(FileOf[i])
  <2>1. \/ last[i] = G!Gone /\ i \in removed_symbols /\ i \in removed_symbol_names
        \/ last[i] # G!Gone /\ i \in G!In(added_symbols) \cup G!In(modified_symbols)
    BY <1>1, <1>3 DEF Kept, G!In, G!Untouched, G!Gone
  <2> QED BY <2>1 DEF G!changed_symbol_names, G!changed_symbols_for_file
<1> QED BY <1>2, <1>3 DEF G!ChangesAreNamed

\* A symbol is modified.
LEMMA ModifyKeeps ==
    ASSUME GraphInv, NEW i \in SymbolId, NEW t \in Text, G!ModifySymbol(i, t)
    PROVE  GraphInv'
<1> USE GraphAssumption DEF GraphInv, G!TypeOK
<1>1. /\ last' = [last EXCEPT ![i] = t]
      /\ UNCHANGED <<shared, removed_symbols, removed_symbol_names, unseen>>
      /\ i \notin removed_symbols
  BY DEF G!ModifySymbol, G!get_symbol
<1>2. \/ /\ added_symbols[i] = None
         /\ modified_symbols' = [modified_symbols EXCEPT ![i] = t] /\ UNCHANGED added_symbols
      \/ /\ added_symbols[i] # None
         /\ added_symbols' = [added_symbols EXCEPT ![i] = t] /\ UNCHANGED modified_symbols
  BY DEF G!ModifySymbol, G!IsTheirs
<1>3. G!TypeOK' /\ last' \in [SymbolId -> Text \cup {G!Untouched, G!Gone}]
  BY <1>1, <1>2
<1>4. TableApart'
  BY <1>1, <1>2 DEF TableApart, G!In
<1>5. i \notin unseen
  BY DEF G!ModifySymbol, G!get_symbol, TableApart, Kept, G!In, G!Untouched, G!Gone
<1>6. Kept(i) /\ Kept(i)'
  BY <1>1, <1>2 DEF Kept, G!Untouched, G!Gone
<1>7. ASSUME NEW j \in SymbolId, j # i PROVE Kept(j)'
  <2>1. Kept(j)
    OBVIOUS
  <2> QED BY <1>1, <1>2, <1>7, <2>1 DEF Kept
<1> QED BY <1>1, <1>3, <1>4, <1>5, <1>6, <1>7

\* Symbols are removed that are not removed already.
LEMMA RemoveKeeps ==
    ASSUME GraphInv, NEW ids \in SUBSET SymbolId, G!Remove(ids), UNCHANGED <<shared, unseen>>,
           \A i \in ids : i \notin removed_symbols
                          /\ i \in G!In(added_symbols) \cup G!In(modified_symbols) \cup G!In(shared)
    PROVE  GraphInv'
<1> USE GraphAssumption DEF GraphInv, G!TypeOK
<1> DEFINE theirs == ids \ G!In(added_symbols)
<1>1. /\ added_symbols' = [i \in SymbolId |-> IF i \in ids THEN None ELSE added_symbols[i]]
      /\ modified_symbols' = [i \in SymbolId |-> IF i \in theirs THEN None ELSE modified_symbols[i]]
      /\ removed_symbols' = removed_symbols \cup theirs
      /\ removed_symbol_names' = removed_symbol_names
           \cup (theirs \cap (G!In(modified_symbols) \cup G!In(shared)))
      /\ last' = [i \in SymbolId |-> IF i \notin ids THEN last[i]
                                     ELSE IF i \in theirs THEN G!Gone ELSE G!Untouched]
  BY DEF G!Remove, G!Without, G!NamesKept
<1>2. G!TypeOK' /\ last' \in [SymbolId -> Text \cup {G!Untouched, G!Gone}]
  BY <1>1
<1>3. TableApart'
  BY <1>1 DEF TableApart, G!In
<1>4. ASSUME NEW i \in SymbolId PROVE Kept(i)' /\ (i \in unseen => last'[i] = G!Untouched)
  <2>1. Kept(i) /\ (i \in unseen => last[i] = G!Untouched)
    OBVIOUS
  <2>2. CASE i \notin ids
    BY <1>1, <2>1, <2>2 DEF Kept
  <2>3. CASE i \in ids /\ i \notin theirs
    <3>1. added_symbols[i] # None /\ i \notin removed_symbols
      BY <2>3 DEF G!In
    <3>2. modified_symbols[i] = None
      BY <2>1, <3>1 DEF Kept
    <3> QED BY <1>1, <2>3, <3>1, <3>2 DEF Kept
  <2>4. CASE i \in theirs
    <3>1. i \in G!In(modified_symbols) \cup G!In(shared) /\ added_symbols[i] = None
      BY <2>4 DEF G!In
    <3>2. i \notin unseen
      BY <2>1, <3>1 DEF Kept, TableApart, G!In, G!Untouched, G!Gone
    <3> QED BY <1>1, <2>4, <3>1, <3>2 DEF Kept
  <2> QED BY <2>2, <2>3, <2>4
<1> QED BY <1>2, <1>3, <1>4

\* A file of the session is parsed.
LEMMA ParseKeeps ==
    ASSUME GraphInv, NEW f \in Path, G!UpdateFromParse(f)
    PROVE  GraphInv'
<1> USE GraphAssumption DEF GraphInv, G!TypeOK
<1>1. PICK found \in [G!Fresh(f) -> Text \cup {None}],
           base \in {{}, {i \in G!In(shared) : FileOf[i] = f}} :
             G!Parse([i \in SymbolId |-> IF i \in G!Fresh(f) THEN found[i] ELSE None], base)
  BY DEF G!UpdateFromParse
<1> DEFINE new == [i \in SymbolId |-> IF i \in G!Fresh(f) THEN found[i] ELSE None]
           named(n) == {i \in base : NameOf[i] = n}
           names == {NameOf[i] : i \in G!In(new)}
           added == {i \in G!In(new) : named(NameOf[i]) = {}}
           changed == {i \in G!In(new) \ added : \A j \in named(NameOf[i]) : shared[j] # new[i]}
           gone == {i \in base : NameOf[i] \notin names}
<1>2. /\ added_symbols' = G!With(added_symbols, G!Without(new, SymbolId \ added))
      /\ modified_symbols' =
           G!Without(G!With(modified_symbols, G!Without(new, SymbolId \ changed)), gone)
      /\ removed_symbols' = removed_symbols \cup gone
      /\ removed_symbol_names' = G!NamesKept(gone)
      /\ last' = [i \in SymbolId |-> IF i \in added \cup changed THEN new[i]
                                     ELSE IF i \in gone THEN G!Gone ELSE last[i]]
      /\ unseen' = unseen \ G!In(new) /\ UNCHANGED shared
  BY <1>1 DEF G!Parse
<1>3. /\ added \subseteq G!In(new) /\ changed \subseteq G!In(new) /\ added \cap changed = {}
      /\ gone \subseteq G!In(shared)
      /\ G!In(new) \subseteq unseen /\ unseen \subseteq SymbolId
      /\ \A i \in G!In(new) : new[i] \in Text
      /\ G!In(shared) \subseteq SharedIds
  BY DEF G!Fresh, G!In, TableApart
<1> HIDE DEF new, added, changed, gone
<1>4. ASSUME NEW i \in SymbolId
      PROVE  /\ added_symbols'[i] = IF i \in added THEN new[i] ELSE added_symbols[i]
             /\ modified_symbols'[i] = IF i \in gone THEN None
                                       ELSE IF i \in changed THEN new[i] ELSE modified_symbols[i]
             /\ last'[i] = IF i \in added \cup changed THEN new[i]
                           ELSE IF i \in gone THEN G!Gone ELSE last[i]
             /\ i \in removed_symbols' <=> i \in removed_symbols \/ i \in gone
             /\ i \in removed_symbols \/ i \in gone => i \in removed_symbols
                                                         \/ i \in removed_symbol_names'
             /\ removed_symbol_names \subseteq removed_symbol_names'
  BY <1>2, <1>3 DEF G!With, G!Without, G!NamesKept
<1>5. G!TypeOK' /\ last' \in [SymbolId -> Text \cup {G!Untouched, G!Gone}]
  <2>1. added_symbols' \in [SymbolId -> Text \cup {None}]
    BY <1>2, <1>3, <1>4 DEF G!With
  <2>2. modified_symbols' \in [SymbolId -> Text \cup {None}]
    BY <1>2, <1>3, <1>4 DEF G!Without
  <2>3. gone \subseteq SymbolId
    BY <1>3 DEF G!In
  <2>4. last' \in [SymbolId -> Text \cup {G!Untouched, G!Gone}]
    BY <1>2, <1>3
  <2> QED BY <1>2, <2>1, <2>2, <2>3, <2>4 DEF G!NamesKept
<1>6. TableApart'
  BY <1>2, <1>3, <1>4 DEF TableApart, G!In
<1>7. ASSUME NEW i \in SymbolId PROVE Kept(i)' /\ (i \in unseen' => last'[i] = G!Untouched)
  <2>1. Kept(i) /\ (i \in unseen => last[i] = G!Untouched)
    OBVIOUS
  <2>2. CASE i \in added \cup changed
    <3>1. /\ last[i] = G!Untouched /\ new[i] \in Text /\ i \in unseen /\ i \notin gone
          /\ i \notin unseen'
      BY <1>2, <1>3, <2>1, <2>2 DEF TableApart
    <3> QED BY <1>3, <1>4, <2>1, <2>2, <3>1 DEF Kept, G!Untouched, G!Gone
  <2>3. CASE i \in gone
    <3>1. /\ i \notin added \cup changed /\ i \notin unseen
          /\ added_symbols[i] = None
      BY <1>3, <2>3 DEF TableApart, G!In
    <3>2. i \in removed_symbol_names'
      BY <1>2, <1>3, <2>3 DEF G!NamesKept
    <3> QED BY <1>2, <1>4, <2>3, <3>1, <3>2 DEF Kept
  <2>4. CASE i \notin added \cup changed \cup gone
    BY <1>2, <1>4, <2>1, <2>4 DEF Kept
  <2> QED BY <2>2, <2>3, <2>4
<1> QED BY <1>5, <1>6, <1>7

\* Every step keeps the invariant.
LEMMA GraphStep ==
    ASSUME GraphInv, [G!Next]_(G!vars)
    PROVE  GraphInv'
<1> USE GraphAssumption
<1>1. ASSUME NEW i \in SymbolId, G!RemoveSymbol(i) PROVE GraphInv'
  <2>1. /\ i \notin removed_symbols
        /\ i \in G!In(added_symbols) \cup G!In(modified_symbols) \cup G!In(shared)
    BY <1>1 DEF G!RemoveSymbol, G!get_symbol, G!In
  <2> QED BY <1>1, <2>1, RemoveKeeps DEF G!RemoveSymbol
<1>2. ASSUME NEW f \in Path, G!RemoveSessionSymbolsForFile(f) PROVE GraphInv'
  <2> DEFINE ids == {i \in G!In(added_symbols) \cup G!In(modified_symbols) : FileOf[i] = f}
  <2>1. ids \in SUBSET SymbolId /\ \A i \in ids : i \notin removed_symbols
    BY DEF GraphInv, Kept, G!In
  <2> QED BY <1>2, <2>1, RemoveKeeps DEF G!RemoveSessionSymbolsForFile
<1>3. CASE G!Reload
  BY <1>3 DEF G!Reload, G!NoSymbols, G!delta, GraphInv, G!TypeOK, TableApart, G!In, Kept
<1>4. CASE G!SwapTable
  BY <1>4 DEF G!SwapTable, G!delta, GraphInv, G!TypeOK, TableApart, G!In, Kept
<1>5. CASE UNCHANGED G!vars
  BY <1>5 DEF G!vars, GraphInv, G!TypeOK, TableApart, G!In, Kept
<1> QED BY <1>1, <1>2, <1>3, <1>4, <1>5, ModifyKeeps, ParseKeeps DEF G!Next

\* A session sees each symbol as it last left it, and names every change.
THEOREM GraphStaysSound == G!Spec => []GraphIsSound
<1>1. G!Init => GraphInv
  BY GraphInit
<1>2. GraphInv /\ [G!Next]_(G!vars) => GraphInv'
  BY GraphStep
<1>3. GraphInv => GraphIsSound
  BY GraphShows DEF GraphInv, GraphIsSound
<1> QED BY <1>1, <1>2, <1>3, PTL DEF G!Spec

-----------------------------------------------------------------------------
(***************************************************************************)
(* The cache of workspaces.                                                *)
(***************************************************************************)

Tasks ==
    {C!NoTask} \cup [op : {"register", "touch", "expire", "evict", "delete"}, on : Workspace,
                     paths : SUBSET CodeFile]

\* The tasks that run for a workspace.
Registering(w) == \E k \in Task : task[k].op = "register" /\ task[k].on = w
Refreshing(w) == \E k \in Task : task[k].op \in {"touch", "expire"} /\ task[k].on = w
Evicting(w) == \E k \in Task : task[k].op \in {"evict", "delete"} /\ task[k].on = w

CacheTypes ==
    /\ C!TypeOK
    /\ task \in [Task -> Tasks]
    /\ \A w \in Workspace : Evicting(w) => alive[w] = "gone"

\* The set outlives the files in it.
SetOutlives(w) ==
    \A p \in CodeFile : cached_file[w][p] > 0 => p \in cached[w] /\ list_ttl[w] >= cached_file[w][p]

\* How long the snapshot of a workspace in use has left.  A refresh that has
\* not run yet finds it alive; one that ran longest ago left it more than the
\* debounce; and until its first tick a workspace has just been registered.
Refreshed(w) ==
    /\ meta[w] >= ttl_secs - C!Lapsed
    /\ ~Refreshing(w) =>
         /\ meta[w] >= ttl_secs - since[w]
         /\ since[w] = C!Lapsed /\ silent[w] = 0 => meta[w] = ttl_secs

\* A workspace that left memory is being evicted, or has been.
Evicted(w) ==
    \/ Evicting(w)
    \/ meta[w] = 0 /\ \A p \in CodeFile : cached_file[w][p] = 0

CacheInv ==
    /\ CacheTypes
    /\ \A w \in Workspace \ late :
         /\ SetOutlives(w)
         /\ alive[w] = "memory" => Registering(w) \/ Refreshed(w)
         /\ alive[w] = "gone" => Evicted(w)

\* Nothing is cached at the start.
LEMMA CacheInit == C!Init => CacheInv
<1> SUFFICES ASSUME C!Init PROVE CacheInv
  OBVIOUS
<1> USE CacheAssumption DEF C!Init
<1>1. C!TypeOK
  BY DEF C!TypeOK, C!Lapsed
<1>2. CacheTypes
  BY <1>1 DEF CacheTypes, Tasks, C!NoTask, Evicting
<1> QED BY <1>2 DEF CacheInv, SetOutlives

\* The invariant bounds the snapshot of a workspace in use, and leaves nothing
\* of one that was evicted.
LEMMA CacheShows ==
    ASSUME CacheInv
    PROVE  CacheIsSound
<1>1. ASSUME NEW w \in Workspace, C!TasksOf(w) = {}
      PROVE  ~Registering(w) /\ ~Refreshing(w) /\ ~Evicting(w)
  BY <1>1 DEF C!TasksOf, C!NoTask, Registering, Refreshing, Evicting
<1>2. C!TypeOK
  BY DEF CacheInv, CacheTypes
<1>3. ASSUME NEW w \in Workspace \ late, alive[w] = "memory", C!TasksOf(w) = {}
      PROVE  meta[w] > 0
  <2>1. Refreshed(w)
    BY <1>1, <1>3 DEF CacheInv
  <2> QED BY <1>2, <2>1, CacheAssumption DEF Refreshed, C!Lapsed, C!TypeOK
<1>4. C!EvictFindsAll
  BY <1>1 DEF CacheInv, SetOutlives, Evicted, C!EvictFindsAll
<1> QED BY <1>2, <1>3, <1>4 DEF CacheIsSound, C!UsedStaysCached

\* A task is spawned; the others run on.
LEMMA SpawnFacts ==
    ASSUME CacheTypes, NEW w \in Workspace,
           NEW op \in {"register", "touch", "expire", "evict", "delete"}, C!Spawn(op, w)
    PROVE  /\ task' \in [Task -> Tasks]
           /\ \A v \in Workspace :
                /\ Registering(v)' <=> (Registering(v) \/ (v = w /\ op = "register"))
                /\ Refreshing(v)' <=> (Refreshing(v) \/ (v = w /\ op \in {"touch", "expire"}))
                /\ Evicting(v)' <=> (Evicting(v) \/ (v = w /\ op \in {"evict", "delete"}))
<1>1. PICK k \in Task : task[k] = C!NoTask /\ task' = [task EXCEPT ![k] = C!Spawned(op, w)]
  BY DEF C!Spawn, C!Free
<1>2. /\ C!Spawned(op, w) \in [op : {"register", "touch", "expire", "evict", "delete"},
                               on : Workspace, paths : SUBSET CodeFile]
      /\ C!Spawned(op, w) # C!NoTask
      /\ C!Spawned(op, w).op = op /\ C!Spawned(op, w).on = w
  BY DEF C!Spawned, C!NoTask
<1>3. task' \in [Task -> Tasks]
  BY <1>1, <1>2 DEF CacheTypes, Tasks
<1>4. task'[k] = C!Spawned(op, w) /\ \A j \in Task \ {k} : task'[j] = task[j]
  BY <1>1 DEF CacheTypes
<1>5. task[k].op = "none"
  BY <1>1 DEF C!NoTask
<1> QED BY <1>2, <1>3, <1>4, <1>5 DEF Registering, Refreshing, Evicting

\* A task ends; the others run on.
LEMMA EndFacts ==
    ASSUME CacheTypes, NEW k \in Task, task[k] # C!NoTask, C!End(k)
    PROVE  /\ task' \in [Task -> Tasks]
           /\ task[k].on \in Workspace
           /\ task[k].op \in {"register", "touch", "expire", "evict", "delete"}
           /\ \A v \in Workspace :
                /\ Registering(v)' => Registering(v)
                /\ Refreshing(v)' => Refreshing(v)
                /\ Evicting(v)' => Evicting(v)
                /\ (v # task[k].on \/ task[k].op # "register") =>
                     (Registering(v)' <=> Registering(v))
                /\ (v # task[k].on \/ task[k].op \notin {"touch", "expire"}) =>
                     (Refreshing(v)' <=> Refreshing(v))
                /\ (v # task[k].on \/ task[k].op \notin {"evict", "delete"}) =>
                     (Evicting(v)' <=> Evicting(v))
<1>1. task' \in [Task -> Tasks]
  BY DEF CacheTypes, Tasks, C!End
<1>2. task'[k] = C!NoTask /\ \A j \in Task \ {k} : task'[j] = task[j]
  BY DEF CacheTypes, C!End
<1>3. task[k].on \in Workspace /\ task[k].op \in {"register", "touch", "expire", "evict", "delete"}
  BY DEF CacheTypes, Tasks
<1>4. task'[k].op = "none"
  BY <1>2 DEF C!NoTask
<1> QED BY <1>1, <1>2, <1>3, <1>4 DEF Registering, Refreshing, Evicting

\* A workspace enters memory, is used, has a file cached, or leaves memory.
LEMMA WorkspacesKeep ==
    ASSUME CacheInv, NEW w \in Workspace,
           C!Create(w) \/ C!Use(w) \/ C!Destroy(w) \/ \E p \in CodeFile : C!CacheFile(w, p)
    PROVE  CacheInv'
<1> USE CacheAssumption
<1>1. CASE C!Create(w)
  <2>1. /\ alive[w] = "new" /\ alive' = [alive EXCEPT ![w] = "memory"]
        /\ C!Spawn("register", w)
        /\ UNCHANGED <<since, meta, cached, list_ttl, cached_file, silent, late>>
    BY <1>1 DEF C!Create, C!keys
  <2>2. /\ task' \in [Task -> Tasks]
        /\ \A v \in Workspace :
             /\ Registering(v)' <=> (Registering(v) \/ v = w)
             /\ Refreshing(v)' <=> Refreshing(v)
             /\ Evicting(v)' <=> Evicting(v)
    BY <2>1, SpawnFacts DEF CacheInv
  <2>3. C!TypeOK'
    BY <2>1 DEF CacheInv, CacheTypes, C!TypeOK, C!Lapsed
  <2>4. CacheTypes'
    BY <2>1, <2>2, <2>3 DEF CacheInv, CacheTypes, C!TypeOK
  <2> QED BY <2>1, <2>2, <2>4 DEF CacheInv, CacheTypes, C!TypeOK, SetOutlives, Refreshed, Evicted,
                                  C!Lapsed
<1>2. CASE C!Use(w) /\ ~C!IsLapsed(w)
  BY <1>2 DEF C!Use, C!IsLapsed, C!keys, CacheInv, CacheTypes, C!TypeOK, SetOutlives, Refreshed,
              Evicted, C!Lapsed, Registering, Refreshing, Evicting
<1>3. CASE C!Use(w) /\ C!IsLapsed(w)
  <2>1. /\ alive[w] = "memory" /\ silent' = [silent EXCEPT ![w] = 0]
        /\ since' = [since EXCEPT ![w] = 0] /\ C!Spawn("touch", w)
        /\ UNCHANGED <<alive, meta, cached, list_ttl, cached_file, late>>
    BY <1>3 DEF C!Use, C!keys
  <2>2. /\ task' \in [Task -> Tasks]
        /\ \A v \in Workspace :
             /\ Registering(v)' <=> Registering(v)
             /\ Refreshing(v)' <=> (Refreshing(v) \/ v = w)
             /\ Evicting(v)' <=> Evicting(v)
    BY <2>1, SpawnFacts DEF CacheInv
  <2>3. C!TypeOK'
    BY <2>1 DEF CacheInv, CacheTypes, C!TypeOK, C!Lapsed
  <2>4. CacheTypes'
    BY <2>1, <2>2, <2>3 DEF CacheInv, CacheTypes, C!TypeOK
  <2> QED BY <2>1, <2>2, <2>4 DEF CacheInv, CacheTypes, C!TypeOK, SetOutlives, Refreshed, Evicted,
                                  C!Lapsed
<1>4. CASE C!Destroy(w)
  <2>1. /\ alive[w] = "memory" /\ alive' = [alive EXCEPT ![w] = "gone"]
        /\ since' = [since EXCEPT ![w] = C!Lapsed] /\ C!Spawn("evict", w)
        /\ UNCHANGED <<meta, cached, list_ttl, cached_file, silent, late>>
    BY <1>4 DEF C!Destroy, C!keys
  <2>2. /\ task' \in [Task -> Tasks]
        /\ \A v \in Workspace :
             /\ Registering(v)' <=> Registering(v)
             /\ Refreshing(v)' <=> Refreshing(v)
             /\ Evicting(v)' <=> (Evicting(v) \/ v = w)
    BY <2>1, SpawnFacts DEF CacheInv
  <2>3. C!TypeOK'
    BY <2>1 DEF CacheInv, CacheTypes, C!TypeOK, C!Lapsed
  <2>4. CacheTypes'
    BY <2>1, <2>2, <2>3 DEF CacheInv, CacheTypes, C!TypeOK
  <2>5. alive'[w] = "gone" /\ Evicting(w)'
    BY <2>1, <2>2 DEF CacheInv, CacheTypes, C!TypeOK
  <2>6. \A v \in Workspace \ {w} : alive'[v] = alive[v] /\ since'[v] = since[v]
    BY <2>1 DEF CacheInv, CacheTypes, C!TypeOK
  <2>7. \A v \in Workspace \ late : SetOutlives(v)' /\ (alive'[v] = "gone" => Evicted(v)')
    <3> SUFFICES ASSUME NEW v \in Workspace \ late
                 PROVE  SetOutlives(v)' /\ (alive'[v] = "gone" => Evicted(v)')
      OBVIOUS
    <3>1. SetOutlives(v) /\ (alive[v] = "gone" => Evicted(v))
      BY DEF CacheInv
    <3>2. SetOutlives(v)'
      BY <2>1, <3>1 DEF SetOutlives
    <3>3. Evicting(v)' <=> (Evicting(v) \/ v = w)
      BY <2>2
    <3>4. alive'[v] = "gone" => Evicted(v)'
      BY <2>1, <2>6, <3>1, <3>3 DEF Evicted
    <3> QED BY <3>2, <3>4
  <2>8. ASSUME NEW v \in Workspace \ late, alive'[v] = "memory"
        PROVE  Registering(v)' \/ Refreshed(v)'
    <3>1. v # w /\ alive[v] = "memory" /\ since'[v] = since[v]
      BY <2>5, <2>6, <2>8
    <3>2. Registering(v) \/ Refreshed(v)
      BY <3>1 DEF CacheInv
    <3> QED BY <2>1, <2>2, <3>1, <3>2 DEF Refreshed, C!Lapsed
  <2> QED BY <2>1, <2>4, <2>7, <2>8 DEF CacheInv
<1>5. ASSUME NEW p \in CodeFile, C!CacheFile(w, p) PROVE CacheInv'
  <2>1. /\ alive[w] = "memory" /\ cached_file' = [cached_file EXCEPT ![w][p] = ttl_secs]
        /\ cached' = [cached EXCEPT ![w] = @ \cup {p}]
        /\ list_ttl' = [list_ttl EXCEPT ![w] = ttl_secs]
        /\ UNCHANGED <<alive, since, meta, task, silent, late>>
    BY <1>5 DEF C!CacheFile
  <2>2. CacheTypes'
    BY <2>1 DEF CacheInv, CacheTypes, C!TypeOK, C!Lapsed, Evicting
  <2>3. w \notin late => SetOutlives(w)'
    <3>1. /\ cached'[w] = cached[w] \cup {p} /\ list_ttl'[w] = ttl_secs
          /\ cached_file'[w][p] = ttl_secs
          /\ \A q \in CodeFile \ {p} : cached_file'[w][q] = cached_file[w][q]
          /\ \A q \in CodeFile : cached_file[w][q] \in 0..ttl_secs
      BY <2>1 DEF CacheInv, CacheTypes, C!TypeOK
    <3>2. w \notin late => SetOutlives(w)
      BY DEF CacheInv
    <3> QED BY <3>1, <3>2 DEF SetOutlives
  <2>4. \A v \in Workspace \ {w} : /\ cached_file'[v] = cached_file[v] /\ cached'[v] = cached[v]
                                   /\ list_ttl'[v] = list_ttl[v]
    BY <2>1 DEF CacheInv, CacheTypes, C!TypeOK
  <2> QED BY <2>1, <2>2, <2>3, <2>4 DEF CacheInv, SetOutlives, Refreshed, Evicted, Registering,
                                        Refreshing, Evicting
<1> QED BY <1>1, <1>2, <1>3, <1>4, <1>5

\* A task registers a workspace, refreshes its keys, deletes them, or fails.
LEMMA TasksKeep ==
    ASSUME CacheInv, NEW k \in Task,
           C!CacheWorkspace(k) \/ C!ReadSet(k) \/ C!Expire(k) \/ C!Delete(k) \/ C!TaskFails(k)
    PROVE  CacheInv'
<1> USE CacheAssumption
<1>1. /\ CacheTypes /\ task[k] # C!NoTask /\ task[k].on \in Workspace
      /\ task[k] \in [op : {"register", "touch", "expire", "evict", "delete"}, on : Workspace,
                      paths : SUBSET CodeFile]
  BY DEF CacheInv, CacheTypes, Tasks, C!NoTask, C!CacheWorkspace, C!ReadSet, C!Expire, C!Delete,
         C!TaskFails
<1>2. PICK w \in Workspace : w = task[k].on
  BY <1>1
<1>3. ASSUME C!End(k)
      PROVE  /\ task' \in [Task -> Tasks]
             /\ \A v \in Workspace :
                  /\ Registering(v)' => Registering(v)
                  /\ Refreshing(v)' => Refreshing(v)
                  /\ Evicting(v)' => Evicting(v)
                  /\ (v # w \/ task[k].op # "register") => (Registering(v)' <=> Registering(v))
                  /\ (v # w \/ task[k].op \notin {"touch", "expire"}) =>
                       (Refreshing(v)' <=> Refreshing(v))
                  /\ (v # w \/ task[k].op \notin {"evict", "delete"}) =>
                       (Evicting(v)' <=> Evicting(v))
  BY <1>1, <1>2, <1>3, EndFacts
<1>4. CASE C!CacheWorkspace(k)
  <2>1. /\ task[k].op = "register" /\ C!End(k)
        /\ meta' = [meta EXCEPT ![w] = ttl_secs]
        /\ late' = IF alive[w] = "gone" THEN late \cup {w} ELSE late
        /\ UNCHANGED <<alive, since, cached, list_ttl, cached_file, silent>>
    BY <1>2, <1>4 DEF C!CacheWorkspace
  <2>2. CacheTypes'
    BY <1>1, <1>3, <2>1 DEF CacheTypes, C!TypeOK
  <2>3. meta'[w] = ttl_secs /\ \A v \in Workspace \ {w} : meta'[v] = meta[v]
    BY <1>1, <2>1 DEF CacheTypes, C!TypeOK
  <2>4. ASSUME NEW v \in Workspace \ late'
        PROVE  /\ SetOutlives(v)'
               /\ alive'[v] = "memory" => Registering(v)' \/ Refreshed(v)'
               /\ alive'[v] = "gone" => Evicted(v)'
    <3>1. /\ SetOutlives(v)
          /\ alive[v] = "memory" => Registering(v) \/ Refreshed(v)
          /\ alive[v] = "gone" => Evicted(v)
      BY <2>1, <2>4 DEF CacheInv
    <3>2. CASE v = w
      BY <1>1, <1>3, <2>1, <2>3, <2>4, <3>1, <3>2
      DEF SetOutlives, Refreshed, C!Lapsed, CacheTypes, C!TypeOK
    <3>3. CASE v # w
      BY <1>3, <2>1, <2>3, <3>1, <3>3 DEF SetOutlives, Refreshed, Evicted, C!Lapsed
    <3> QED BY <3>2, <3>3
  <2> QED BY <2>2, <2>4 DEF CacheInv
<1>5. CASE C!ReadSet(k)
  <2>1. /\ task[k].op \in {"touch", "evict"}
        /\ UNCHANGED <<alive, since, meta, cached, list_ttl, cached_file, silent, late>>
    BY <1>5 DEF C!ReadSet, C!keys
  <2>2. /\ task'[k].op = IF task[k].op = "touch" THEN "expire" ELSE "delete"
        /\ task'[k].on = w
        /\ task'[k].paths = cached[w]
        /\ task' \in [Task -> Tasks]
        /\ \A j \in Task \ {k} : task'[j] = task[j]
    BY <1>1, <1>2, <1>5 DEF C!ReadSet, CacheTypes, C!TypeOK, Tasks
  <2>3. \A v \in Workspace : /\ Registering(v)' <=> Registering(v)
                             /\ Refreshing(v)' <=> Refreshing(v)
                             /\ Evicting(v)' <=> Evicting(v)
    BY <1>2, <2>1, <2>2 DEF Registering, Refreshing, Evicting
  <2> QED BY <1>1, <2>1, <2>2, <2>3 DEF CacheInv, CacheTypes, C!TypeOK, SetOutlives, Refreshed,
       Evicted,
                                        C!Lapsed
<1>6. CASE C!Expire(k)
  <2>1. /\ task[k].op = "expire" /\ C!End(k)
        /\ meta' = [meta EXCEPT ![w] = C!Renewed(meta[w])]
        /\ list_ttl' = [list_ttl EXCEPT ![w] = C!Renewed(list_ttl[w])]
        /\ cached_file' = [cached_file EXCEPT ![w] = [p \in CodeFile |->
             IF p \in task[k].paths THEN C!Renewed(cached_file[w][p]) ELSE cached_file[w][p]]]
        /\ UNCHANGED <<alive, since, cached, silent, late>>
    BY <1>2, <1>6 DEF C!Expire, C!ListRenewed
  <2>2. \A n \in 0..ttl_secs : /\ C!Renewed(n) \in 0..ttl_secs /\ (n > 0 => C!Renewed(n) = ttl_secs)
                               /\ (n = 0 => C!Renewed(n) = 0)
    BY DEF C!Renewed
  <2>3. /\ meta'[w] = C!Renewed(meta[w]) /\ meta[w] \in 0..ttl_secs
        /\ list_ttl'[w] = C!Renewed(list_ttl[w]) /\ list_ttl[w] \in 0..ttl_secs
        /\ \A p \in CodeFile : /\ cached_file[w][p] \in 0..ttl_secs
                               /\ cached_file'[w][p] \in {cached_file[w][p], C!Renewed(cached_file[w][p])}
        /\ \A v \in Workspace \ {w} : /\ meta'[v] = meta[v] /\ list_ttl'[v] = list_ttl[v]
                                      /\ cached_file'[v] = cached_file[v]
    BY <1>1, <2>1 DEF CacheTypes, C!TypeOK
  <2>4. C!TypeOK'
    BY <1>1, <2>1, <2>2, <2>3 DEF CacheTypes, C!TypeOK, C!Lapsed
  <2>5. CacheTypes'
    BY <1>1, <1>3, <2>1, <2>4 DEF CacheTypes
  <2>6. ASSUME NEW v \in Workspace \ late'
        PROVE  /\ SetOutlives(v)'
               /\ alive'[v] = "memory" => Registering(v)' \/ Refreshed(v)'
               /\ alive'[v] = "gone" => Evicted(v)'
    <3>1. /\ SetOutlives(v)
          /\ alive[v] = "memory" => Registering(v) \/ Refreshed(v)
          /\ alive[v] = "gone" => Evicted(v)
      BY <2>1, <2>6 DEF CacheInv
    <3>2. CASE v = w
      <4>1. SetOutlives(v)'
        BY <2>1, <2>2, <2>3, <3>1, <3>2 DEF SetOutlives
      <4>2. alive'[v] = "memory" => Registering(v)' \/ Refreshed(v)'
        <5>1. since[w] \in 0..C!Lapsed
          BY <1>1 DEF CacheTypes, C!TypeOK
        <5> QED BY <1>3, <2>1, <2>2, <2>3, <3>1, <3>2, <5>1 DEF Refreshed, C!Lapsed
      <4>3. alive'[v] = "gone" => Evicted(v)'
        BY <1>3, <2>1, <2>2, <2>3, <3>1, <3>2 DEF Evicted
      <4> QED BY <4>1, <4>2, <4>3
    <3>3. CASE v # w
      BY <1>3, <2>1, <2>3, <3>1, <3>3 DEF SetOutlives, Refreshed, Evicted, C!Lapsed
    <3> QED BY <3>2, <3>3
  <2> QED BY <2>5, <2>6 DEF CacheInv
<1>7. CASE C!Delete(k)
  <2> DEFINE kept == [p \in CodeFile |-> IF p \in task[k].paths THEN 0 ELSE cached_file[w][p]]
  <2>1. /\ task[k].op = "delete" /\ C!End(k)
        /\ meta' = [meta EXCEPT ![w] = 0]
        /\ cached' = [cached EXCEPT ![w] = {}] /\ list_ttl' = [list_ttl EXCEPT ![w] = 0]
        /\ cached_file' = [cached_file EXCEPT ![w] = kept]
        /\ late' = IF \E p \in CodeFile : kept[p] > 0 THEN late \cup {w} ELSE late
        /\ UNCHANGED <<alive, since, silent>>
    BY <1>2, <1>7 DEF C!Delete
  <2>2. kept \in [CodeFile -> 0..ttl_secs]
    BY <1>1 DEF CacheTypes, C!TypeOK
  <2> HIDE DEF kept
  <2>3. /\ meta'[w] = 0 /\ cached'[w] = {} /\ list_ttl'[w] = 0 /\ cached_file'[w] = kept
        /\ \A v \in Workspace \ {w} : /\ meta'[v] = meta[v] /\ list_ttl'[v] = list_ttl[v]
                                      /\ cached_file'[v] = cached_file[v] /\ cached'[v] = cached[v]
    BY <1>1, <2>1 DEF CacheTypes, C!TypeOK
  <2>4. C!TypeOK'
    BY <1>1, <2>1, <2>2 DEF CacheTypes, C!TypeOK, C!Lapsed
  <2>5. alive[w] = "gone"
    BY <1>1, <1>2, <2>1 DEF CacheTypes, Evicting
  <2>6. CacheTypes'
    BY <1>1, <1>3, <2>1, <2>4 DEF CacheTypes
  <2>7. w \notin late' => \A p \in CodeFile : kept[p] = 0
    BY <2>1, <2>2
  <2>8. ASSUME NEW v \in Workspace \ late'
        PROVE  /\ SetOutlives(v)'
               /\ alive'[v] = "memory" => Registering(v)' \/ Refreshed(v)'
               /\ alive'[v] = "gone" => Evicted(v)'
    <3>1. /\ SetOutlives(v)
          /\ alive[v] = "memory" => Registering(v) \/ Refreshed(v)
          /\ alive[v] = "gone" => Evicted(v)
      BY <2>1, <2>8 DEF CacheInv
    <3>2. CASE v = w
      BY <2>1, <2>3, <2>5, <2>7, <2>8, <3>2 DEF SetOutlives, Evicted
    <3>3. CASE v # w
      BY <1>3, <2>1, <2>3, <3>1, <3>3 DEF SetOutlives, Refreshed, Evicted, C!Lapsed
    <3> QED BY <3>2, <3>3
  <2> QED BY <2>6, <2>8 DEF CacheInv
<1>8. CASE C!TaskFails(k)
  <2>1. /\ C!End(k) /\ late' = late \cup {w}
        /\ UNCHANGED <<alive, since, meta, cached, list_ttl, cached_file, silent>>
    BY <1>2, <1>8 DEF C!TaskFails, C!keys
  <2>2. CacheTypes'
    BY <1>1, <1>3, <2>1 DEF CacheTypes, C!TypeOK, C!Lapsed
  <2> QED BY <1>3, <2>1, <2>2 DEF CacheInv, SetOutlives, Refreshed, Evicted, C!Lapsed
<1> QED BY <1>4, <1>5, <1>6, <1>7, <1>8

\* Time passes: a workspace with a task, or that was not used since the last
\* tick, is late.
LEMMA CacheTicks ==
    ASSUME CacheInv, C!Tick
    PROVE  CacheInv'
<1> USE CacheAssumption
<1>1. CacheTypes /\ C!TypeOK /\ C!Lapsed \in Nat /\ C!Lapsed = TOUCH_DEBOUNCE + 1
  BY DEF CacheInv, CacheTypes, C!Lapsed
<1>2. /\ \A n \in 0..ttl_secs : /\ C!Less(n) \in 0..ttl_secs
                                /\ (n > 0 => C!Less(n) = n - 1) /\ (n = 0 => C!Less(n) = 0)
      /\ \A n \in 0..C!Lapsed : /\ C!More(n) \in 0..C!Lapsed
                                /\ (n < C!Lapsed => C!More(n) = n + 1)
                                /\ (n = C!Lapsed => C!More(n) = n)
  BY <1>1 DEF C!Less, C!More
<1>3. C!TypeOK'
  BY <1>1, <1>2 DEF C!Tick, C!TypeOK
<1>4. /\ UNCHANGED <<alive, task>>
      /\ \A v \in Workspace : /\ Registering(v)' <=> Registering(v)
                              /\ Refreshing(v)' <=> Refreshing(v)
                              /\ Evicting(v)' <=> Evicting(v)
  BY DEF C!Tick, Registering, Refreshing, Evicting
<1>5. CacheTypes'
  BY <1>1, <1>3, <1>4 DEF CacheTypes
<1>6. ASSUME NEW w \in Workspace \ late'
      PROVE  /\ SetOutlives(w)'
             /\ alive'[w] = "memory" => Registering(w)' \/ Refreshed(w)'
             /\ alive'[w] = "gone" => Evicted(w)'
  <2>1. w \notin late /\ C!TasksOf(w) = {} /\ ~(silent[w] > 0)
    BY <1>6 DEF C!Tick
  <2>2. silent[w] = 0 /\ since[w] \in 0..C!Lapsed /\ meta[w] \in 0..ttl_secs
        /\ list_ttl[w] \in 0..ttl_secs /\ \A p \in CodeFile : cached_file[w][p] \in 0..ttl_secs
    BY <1>1, <2>1 DEF C!TypeOK
  <2>3. ~Registering(w) /\ ~Refreshing(w) /\ ~Evicting(w)
    BY <2>1 DEF C!TasksOf, C!NoTask, Registering, Refreshing, Evicting
  <2>4. /\ SetOutlives(w) /\ (alive[w] = "memory" => Refreshed(w))
        /\ (alive[w] = "gone" => Evicted(w))
    BY <2>1, <2>3 DEF CacheInv
  <2>5. /\ since'[w] = C!More(since[w]) /\ meta'[w] = C!Less(meta[w])
        /\ list_ttl'[w] = C!Less(list_ttl[w])
        /\ cached'[w] = (IF list_ttl[w] > 1 THEN cached[w] ELSE {})
        /\ \A p \in CodeFile : cached_file'[w][p] = C!Less(cached_file[w][p])
        /\ alive[w] = "memory" => silent'[w] = C!More(silent[w])
    BY DEF C!Tick
  <2>6. SetOutlives(w)'
    BY <1>2, <2>2, <2>4, <2>5 DEF SetOutlives
  <2>7. alive[w] = "memory" => Refreshed(w)'
    BY <1>1, <1>2, <1>4, <2>2, <2>3, <2>4, <2>5 DEF Refreshed
  <2>8. alive[w] = "gone" => Evicted(w)'
    BY <1>2, <2>2, <2>3, <2>4, <2>5 DEF Evicted
  <2> QED BY <1>4, <2>6, <2>7, <2>8
<1> QED BY <1>5, <1>6 DEF CacheInv

\* Every step keeps the invariant.
LEMMA CacheStep ==
    ASSUME CacheInv, [C!Next]_(C!vars)
    PROVE  CacheInv'
<1>1. CASE UNCHANGED C!vars
  BY <1>1 DEF C!vars, CacheInv, CacheTypes, C!TypeOK, SetOutlives, Refreshed, Evicted,
              Registering, Refreshing, Evicting
<1> QED BY <1>1, WorkspacesKeep, TasksKeep, CacheTicks DEF C!Next

\* A workspace in use stays cached, and an evicted one leaves nothing behind.
THEOREM CacheStaysSound == C!Spec => []CacheIsSound
<1>1. C!Init => CacheInv
  BY CacheInit
<1>2. CacheInv /\ [C!Next]_(C!vars) => CacheInv'
  BY CacheStep
<1>3. CacheInv => CacheIsSound
  BY CacheShows
<1> QED BY <1>1, <1>2, <1>3, PTL DEF C!Spec

-----------------------------------------------------------------------------
(***************************************************************************)
(* The index of a repository.                                              *)
(***************************************************************************)

Jobs ==
    [pc : {"take", "calls", "rows", "symbols", "insert"}, todo : SUBSET CodeFile,
     file : CodeFile \cup {NoFile}, new : SUBSET Name,
     parsed : [CodeFile -> (SUBSET Name) \cup {NoFile}], found : [Name -> 0..MaxIds],
     calls : SUBSET (I!Id \X I!Id)]

Locked(u) == job[u].pc \in {"take", "calls", "rows", "symbols"}
Working(u) == job[u].pc \in {"calls", "rows", "symbols"}

\* The ids that a request has given out and may yet make calls of.
Known(u) ==
    IF job[u] = I!NoJob THEN {}
    ELSE UNION {{job[u].found[n] : n \in Name} \ {0}, {e[1] : e \in job[u].calls},
                {e[2] : e \in job[u].calls}}

IndexTypes ==
    /\ I!TypeOK
    /\ next_id \in 1..(MaxIds + 1)
    /\ job \in [Update -> {I!NoJob} \cup Jobs]
    /\ latest \in [CodeFile -> Update \cup {Nobody}]
    /\ contested \subseteq Name
    /\ \A u \in Update : /\ Working(u) => job[u].file \in CodeFile
                         /\ Locked(u) <=> lock = u

\* A row has the name it is found by and an id of its own.
RowsApart ==
    /\ \A n \in Name : symbols[n] # NoRow => symbols[n].name = n /\ symbols[n].id < next_id
    /\ \A m, n \in Name :
         symbols[m] # NoRow /\ symbols[n] # NoRow /\ symbols[m].id = symbols[n].id => m = n

\* What a request knows of is older than the next id, and its names have ids of
\* their own.
IdsApart ==
    \A u \in Update : job[u] # I!NoJob =>
        /\ \A i \in Known(u) : i < next_id
        /\ \A m, n \in Name : job[u].found[m] # 0 /\ job[u].found[m] = job[u].found[n] => m = n

\* A file that a running request took is not indexed; the request that holds
\* the lock took last what it works at and what it has been through.
Taken ==
    /\ \A f \in CodeFile : latest[f] # Nobody => indexed[f] = NoFile /\ job[latest[f]] # I!NoJob
    /\ \A u \in Update :
         /\ Working(u) => latest[job[u].file] = u /\ job[u].file \notin job[u].todo
         /\ Locked(u) => \A f \in CodeFile : job[u].parsed[f] # NoFile =>
                                               f \notin job[u].todo /\ latest[f] = u
         /\ job[u].pc \in {"calls", "rows"} => job[u].parsed[job[u].file] = NoFile
         /\ job[u].pc = "symbols" => job[u].new \subseteq job[u].parsed[job[u].file]
                                      /\ job[u].parsed[job[u].file] # NoFile

\* The name has its row in the file.
In(n, f) == symbols[n] # NoRow /\ symbols[n].file = f

\* The old rows of a file leave the search index before they are deleted.
Unstaged ==
    \A u \in Update : job[u].pc \in {"calls", "rows"} =>
        \A n \in Name : In(n, job[u].file) => symbols[n].id \notin staged

\* The rows of a file are those of the names, but for pending ones and for
\* names found in another file.
Whole(f, names, pending) ==
    \A n \in Name : /\ In(n, f) => n \in names \ pending
                    /\ n \in names \ (pending \cup contested) => In(n, f)

Searchable(f, found) == \A n \in Name : In(n, f) => symbols[n].id \in found

\* No other request makes calls of the symbols of the file.
Private(f, u) ==
    \A n \in Name \ contested : In(n, f) => \A v \in Update \ {u} : symbols[n].id \notin Known(v)

\* The calls between symbols of the file are those of its definitions.
Connected(f, edges) ==
    \A m, n \in Name \ contested : In(m, f) /\ In(n, f) =>
        (<<symbols[m].id, symbols[n].id>> \in edges <=> <<m, n>> \in Calls)

Through(u, f) == job[u] # I!NoJob /\ job[u].parsed[f] # NoFile /\ latest[f] = u

\* The files a request has been through, while it holds the lock and after.
Staged(u, f) ==
    /\ Whole(f, job[u].parsed[f],
             IF job[u].pc = "symbols" /\ f = job[u].file THEN job[u].new ELSE {})
    /\ Searchable(f, staged) /\ Private(f, u)
    /\ \A n \in Name \ contested : In(n, f) => job[u].found[n] = symbols[n].id
    /\ \A m, n \in Name \ contested : In(m, f) /\ In(n, f) =>
         <<symbols[m].id, symbols[n].id>> \notin call_edges

Committed(u, f) ==
    /\ Whole(f, job[u].parsed[f], {})
    /\ Searchable(f, staged \cap docs) /\ Private(f, u)
    /\ Connected(f, call_edges \cup job[u].calls)

Settled(f) ==
    /\ Whole(f, indexed[f], {})
    /\ Searchable(f, staged \cap docs) /\ Private(f, Nobody)
    /\ Connected(f, call_edges)

IndexCore == IndexTypes /\ RowsApart /\ IdsApart /\ Taken /\ Unstaged /\ I!NoGhosts

IndexInv ==
    /\ IndexCore
    /\ \A u \in Update, f \in CodeFile : Through(u, f) =>
         IF job[u].pc = "insert" THEN Committed(u, f) ELSE Staged(u, f)
    /\ \A f \in CodeFile : indexed[f] # NoFile => Settled(f)

\* Nothing is indexed at the start.
LEMMA IndexInit == I!Init => IndexInv
<1> SUFFICES ASSUME I!Init PROVE IndexInv
  OBVIOUS
<1> USE IndexAssumption DEF I!Init, I!NoJob
<1>1. I!Rows = {}
  BY DEF I!Rows
<1>2. IndexTypes
  <2>1. I!TypeOK
    BY <1>1 DEF I!TypeOK
  <2>2. \A u \in Update : job[u].pc = "idle"
    OBVIOUS
  <2>3. \A u \in Update : /\ Working(u) => job[u].file \in CodeFile
                          /\ Locked(u) <=> lock = u
    BY <2>2 DEF Working, Locked
  <2>4. next_id \in 1..(MaxIds + 1)
    OBVIOUS
  <2> QED BY <2>1, <2>3, <2>4 DEF IndexTypes
<1>3. RowsApart /\ IdsApart /\ Taken /\ Unstaged /\ I!NoGhosts
  BY DEF RowsApart, IdsApart, Taken, Unstaged, I!NoGhosts, Working, Locked
<1> QED BY <1>2, <1>3 DEF IndexInv, IndexCore, Through

\* The ids of rows, now and in the next state.
LEMMA RowIds ==
    /\ \A i : i \in I!Ids(I!Rows) <=> \E n \in Name : symbols[n] # NoRow /\ symbols[n].id = i
    /\ \A i : (i \in I!Ids(I!Rows))' <=> \E n \in Name : symbols'[n] # NoRow /\ symbols'[n].id = i
    /\ \A i, f : i \in I!Ids(I!RowsOf(f)) <=> \E n \in Name : In(n, f) /\ symbols[n].id = i
  BY DEF I!Ids, I!Rows, I!RowsOf, In

\* A row has an id, a name and a file.
LEMMA RowTypes ==
    ASSUME IndexTypes, NEW n \in Name, symbols[n] # NoRow
    PROVE  /\ symbols[n] \in [id : 1..MaxIds, name : Name, file : CodeFile]
           /\ symbols[n].id \in 1..MaxIds /\ symbols[n].file \in CodeFile
           /\ In(n, symbols[n].file)
  BY DEF IndexTypes, I!TypeOK, I!Id, In

\* What a request holds, and knows.
LEMMA JobTypes ==
    ASSUME IndexTypes, NEW u \in Update
    PROVE  /\ job[u] = I!NoJob <=> job[u].pc = "idle"
           /\ job[u] # I!NoJob => /\ job[u] \in Jobs
                                  /\ \A n \in Name : job[u].found[n] \in 0..MaxIds
           /\ Known(u) \subseteq 1..MaxIds
<1>1. job[u] \in {I!NoJob} \cup Jobs
  BY DEF IndexTypes
<1>2. job[u] = I!NoJob <=> job[u].pc = "idle"
  BY <1>1 DEF I!NoJob, Jobs
<1>3. ASSUME job[u] \in Jobs PROVE Known(u) \subseteq 1..MaxIds
  <2>1. /\ \A n \in Name : job[u].found[n] \in 0..MaxIds
        /\ \A e \in job[u].calls : e[1] \in 1..MaxIds /\ e[2] \in 1..MaxIds
    BY <1>3 DEF Jobs, I!Id
  <2> QED BY <2>1 DEF Known
<1> QED BY <1>1, <1>2, <1>3 DEF Jobs, Known

\* A file is spared by a step: no row is new in it, a row that leaves it has a
\* name another file took over, and what is known of the others is the same.
Spared(f) ==
    /\ contested \subseteq contested'
    /\ \A n \in Name : In(n, f)' => In(n, f) /\ symbols'[n] = symbols[n]
    /\ \A n \in Name \ contested' : In(n, f) => In(n, f)'
    /\ \A n \in Name : In(n, f)' /\ symbols[n].id \in staged => symbols[n].id \in staged'
    /\ \A n \in Name : In(n, f)' /\ symbols[n].id \in staged \cap docs => symbols[n].id \in docs'
    /\ \A n \in Name, v \in Update : In(n, f)' /\ symbols[n].id \in Known(v)' => symbols[n].id \in Known(v)
    /\ \A m, n \in Name \ contested' : In(m, f)' /\ In(n, f)' =>
         (<<symbols[m].id, symbols[n].id>> \in call_edges' <=>
            <<symbols[m].id, symbols[n].id>> \in call_edges)

\* What is so of a spared file stays so.
LEMMA SparedFacts ==
    ASSUME NEW f \in CodeFile, Spared(f)
    PROVE  /\ \A names, pending : Whole(f, names, pending) => Whole(f, names, pending)'
           /\ Searchable(f, staged) => Searchable(f, staged)'
           /\ Searchable(f, staged \cap docs) => Searchable(f, staged \cap docs)'
           /\ \A u : Private(f, u) => Private(f, u)'
           /\ Connected(f, call_edges) => Connected(f, call_edges)'
<1>1. \A names, pending : Whole(f, names, pending) => Whole(f, names, pending)'
  BY DEF Spared, Whole
<1>2. Searchable(f, staged) => Searchable(f, staged)'
  BY DEF Spared, Searchable
<1>3. Searchable(f, staged \cap docs) => Searchable(f, staged \cap docs)'
  BY DEF Spared, Searchable
<1>4. \A u : Private(f, u) => Private(f, u)'
  BY DEF Spared, Private
<1>5. Connected(f, call_edges) => Connected(f, call_edges)'
  BY DEF Spared, Connected
<1> QED BY <1>1, <1>2, <1>3, <1>4, <1>5

\* A request whose file is spared by the step of another.
LEMMA SparedThrough ==
    ASSUME NEW f \in CodeFile, NEW u \in Update, Spared(f), job'[u] = job[u]
    PROVE  /\ Committed(u, f) => Committed(u, f)'
           /\ Staged(u, f) => Staged(u, f)'
<1>1. ASSUME Committed(u, f) PROVE Committed(u, f)'
  <2>1. Connected(f, call_edges \cup job[u].calls)'
    BY <1>1 DEF Committed, Connected, Spared
  <2> QED BY <1>1, <2>1, SparedFacts DEF Committed
<1>2. ASSUME Staged(u, f) PROVE Staged(u, f)'
  <2>1. Whole(f, job[u].parsed[f],
              IF job[u].pc = "symbols" /\ f = job[u].file THEN job[u].new ELSE {})'
    BY <1>2 DEF Staged, Spared, Whole
  <2>2. /\ \A n \in Name \ contested' : In(n, f)' => job'[u].found[n] = symbols'[n].id
        /\ \A m, n \in Name \ contested' : In(m, f)' /\ In(n, f)' =>
             <<symbols'[m].id, symbols'[n].id>> \notin call_edges'
    BY <1>2 DEF Staged, Spared
  <2> QED BY <1>2, <2>1, <2>2, SparedFacts DEF Staged
<1> QED BY <1>1, <1>2

\* What the others know stays the same.
LEMMA KnownSame == \A u \in Update : job'[u] = job[u] => Known(u)' = Known(u)
  BY DEF Known

\* What a request knows grows only with the ids it gives out.
LEMMA KnownFacts ==
    ASSUME NEW u \in Update, job[u] \in Jobs
    PROVE  /\ job'[u] = I!NoJob => Known(u)' = {}
           /\ job'[u] \in Jobs /\ job'[u].found = job[u].found /\ job'[u].calls \subseteq job[u].calls
                => Known(u)' \subseteq Known(u)
           /\ job'[u] \in Jobs /\ job'[u].found = job[u].found /\ job'[u].calls = job[u].calls
                => Known(u)' = Known(u)
<1>1. I!NoJob \notin Jobs
  BY DEF Jobs, I!NoJob
<1>2. job'[u] = I!NoJob => Known(u)' = {}
  BY DEF Known
<1>3. ASSUME job'[u] \in Jobs, job'[u].found = job[u].found
      PROVE  /\ job'[u].calls \subseteq job[u].calls => Known(u)' \subseteq Known(u)
             /\ job'[u].calls = job[u].calls => Known(u)' = Known(u)
  <2>1. Known(u) = UNION {{job[u].found[n] : n \in Name} \ {0}, {e[1] : e \in job[u].calls},
                          {e[2] : e \in job[u].calls}}
    BY <1>1 DEF Known
  <2>2. Known(u)' = UNION {{job[u].found[n] : n \in Name} \ {0}, {e[1] : e \in job'[u].calls},
                           {e[2] : e \in job'[u].calls}}
    BY <1>1, <1>3 DEF Known
  <2> QED BY <2>1, <2>2
<1> QED BY <1>2, <1>3

\* A file that stands, but for what the request does to those it has taken.
Standing(u, f) == indexed[f] # NoFile \/ \E v \in Update \ {u} : Through(v, f)

\* A step of a request keeps the invariant when it spares the files that stand
\* and its own are as they should be.
LEMMA RequestKeeps ==
    ASSUME IndexInv, NEW u \in Update, IndexCore',
           \A v \in Update \ {u} : job'[v] = job[v],
           \A f \in CodeFile : latest'[f] \in {latest[f], u, Nobody},
           \A f \in CodeFile : Standing(u, f) /\ latest'[f] # u => Spared(f),
           \A f \in CodeFile : Through(u, f)' =>
             IF job'[u].pc = "insert" THEN Committed(u, f)' ELSE Staged(u, f)',
           \A f \in CodeFile : indexed'[f] # NoFile => indexed'[f] = indexed[f] \/ Settled(f)'
    PROVE  IndexInv'
<1>1. ASSUME NEW v \in Update \ {u}, NEW f \in CodeFile, Through(v, f)'
      PROVE  IF job'[v].pc = "insert" THEN Committed(v, f)' ELSE Staged(v, f)'
  <2>1. Through(v, f) /\ latest'[f] # u /\ job'[v] = job[v]
    BY <1>1, IndexAssumption DEF Through
  <2>2. Spared(f)
    BY <2>1 DEF Standing
  <2> QED BY <2>1, <2>2, SparedThrough DEF IndexInv
<1>2. ASSUME NEW f \in CodeFile, indexed'[f] # NoFile PROVE Settled(f)'
  <2>1. CASE indexed'[f] = indexed[f]
    <3>1. latest'[f] # u
      BY <1>2, IndexAssumption DEF IndexCore, Taken
    <3>2. Spared(f) /\ Settled(f)
      BY <1>2, <2>1, <3>1 DEF Standing, IndexInv
    <3> QED BY <2>1, <3>2, SparedFacts DEF Settled
  <2> QED BY <1>2, <2>1
<1> QED BY <1>1, <1>2 DEF IndexInv

\* A file the request went through is spared, and it remembers it as it did.
LEMMA OwnKeeps ==
    ASSUME NEW u \in Update, NEW f \in CodeFile, Spared(f), Staged(u, f),
           job'[u].parsed[f] = job[u].parsed[f],
           \A n \in Name : In(n, f)' => job'[u].found[n] = job[u].found[n],
           (IF job'[u].pc = "symbols" /\ f = job'[u].file THEN job'[u].new ELSE {})
             = (IF job[u].pc = "symbols" /\ f = job[u].file THEN job[u].new ELSE {})
    PROVE  Staged(u, f)'
<1>1. Whole(f, job[u].parsed[f],
            IF job[u].pc = "symbols" /\ f = job[u].file THEN job[u].new ELSE {})'
  BY DEF Staged, Spared, Whole
<1>2. /\ \A n \in Name \ contested' : In(n, f)' => job'[u].found[n] = symbols'[n].id
      /\ \A m, n \in Name \ contested' : In(m, f)' /\ In(n, f)' =>
           <<symbols'[m].id, symbols'[n].id>> \notin call_edges'
  BY DEF Staged, Spared
<1> QED BY <1>1, <1>2, SparedFacts DEF Staged

\* A step that leaves the rows, the search index and the calls spares all files,
\* when the request comes to know nothing new.
LEMMA QuietSpares ==
    ASSUME NEW u \in Update, NEW f \in CodeFile,
           UNCHANGED <<symbols, call_edges, docs, staged, contested>>,
           \A v \in Update \ {u} : job'[v] = job[v], Known(u)' \subseteq Known(u)
    PROVE  Spared(f)
<1>1. \A v \in Update : Known(v)' \subseteq Known(v)
  BY DEF Known
<1> QED BY <1>1 DEF Spared, In

\* A step that is only of a request's own state.
LEMMA QuietStep ==
    ASSUME IndexInv, NEW u \in Update, IndexTypes', Taken',
           UNCHANGED <<symbols, call_edges, docs, staged, next_id, ghosts, contested>>,
           \A v \in Update \ {u} : job'[v] = job[v], Known(u)' \subseteq Known(u),
           job'[u] # I!NoJob => job'[u].found \in {job[u].found, I!NoneFound},
           job'[u] # I!NoJob /\ job[u] = I!NoJob => job'[u].found = I!NoneFound,
           job'[u].pc \in {"calls", "rows"} =>
             job[u].pc \in {"calls", "rows"} /\ job'[u].file = job[u].file
    PROVE  IndexCore' /\ \A f \in CodeFile : Spared(f)
<1>1. RowsApart' /\ I!NoGhosts'
  BY DEF IndexInv, IndexCore, RowsApart, I!NoGhosts, I!Ids, I!Rows
<1>2. IdsApart'
  <2> SUFFICES ASSUME NEW v \in Update, job'[v] # I!NoJob
               PROVE  /\ \A i \in Known(v)' : i < next_id
                      /\ \A m, n \in Name :
                           job'[v].found[m] # 0 /\ job'[v].found[m] = job'[v].found[n] => m = n
    BY DEF IdsApart
  <2>1. CASE v # u
    <3>1. job'[v] = job[v] /\ Known(v)' = Known(v)
      BY <2>1 DEF Known
    <3> QED BY <3>1 DEF IndexInv, IndexCore, IdsApart
  <2>2. CASE v = u
    <3>1. job[u] = I!NoJob => Known(u) = {}
      BY DEF Known
    <3>2. \A i \in Known(u)' : i < next_id
      BY <3>1 DEF IndexInv, IndexCore, IdsApart
    <3>3. CASE job'[u].found = I!NoneFound
      BY <2>2, <3>2, <3>3 DEF I!NoneFound
    <3>4. CASE job'[u].found = job[u].found /\ job[u] # I!NoJob
      BY <2>2, <3>2, <3>4 DEF IndexInv, IndexCore, IdsApart
    <3> QED BY <2>2, <3>3, <3>4
  <2> QED BY <2>1, <2>2
<1>3. Unstaged'
  BY DEF IndexInv, IndexCore, Unstaged, In
<1>4. \A f \in CodeFile : Spared(f)
  BY QuietSpares
<1> QED BY <1>1, <1>2, <1>3, <1>4 DEF IndexCore

\* A request begins.
LEMMA BeginKeeps ==
    ASSUME IndexInv, NEW u \in Update, NEW fs \in SUBSET CodeFile \ {{}}, I!Begin(u, fs)
    PROVE  IndexInv'
<1> USE IndexAssumption
<1> DEFINE new == I!Started(fs)
<1>1. new \in Jobs /\ new # I!NoJob /\ new.pc = "take" /\ new.found = I!NoneFound
      /\ \A f \in CodeFile : new.parsed[f] = NoFile
  <2>1. /\ I!NoneFound \in [Name -> 0..MaxIds]
        /\ [f \in CodeFile |-> NoFile] \in [CodeFile -> (SUBSET Name) \cup {NoFile}]
    BY DEF I!NoneFound
  <2>2. new \in Jobs
    BY <2>1 DEF I!Started, Jobs
  <2> QED BY <2>2 DEF I!Started, Jobs, I!NoJob
<1>2. /\ job \in [Update -> {I!NoJob} \cup Jobs]
      /\ job[u] = I!NoJob /\ lock = Nobody /\ lock' = u
      /\ job' = [job EXCEPT ![u] = new]
      /\ UNCHANGED <<symbols, call_edges, docs, staged, next_id, latest, indexed, ghosts, contested>>
  BY DEF I!Begin, I!index, I!history, IndexInv, IndexCore, IndexTypes
<1> HIDE DEF new
<1>3. job'[u] = new /\ (\A v \in Update \ {u} : job'[v] = job[v])
  BY <1>2
<1>4. Known(u)' \subseteq Known(u)
  BY <1>1, <1>3 DEF Known, I!Started, I!NoneFound, new
<1>5. IndexTypes'
  <2>1. I!TypeOK'
    BY <1>2 DEF IndexInv, IndexCore, IndexTypes, I!TypeOK, I!Ids, I!Rows
  <2>2. \A v \in Update : /\ Working(v)' => job'[v].file \in CodeFile
                          /\ Locked(v)' <=> lock' = v
    BY <1>1, <1>2, <1>3 DEF IndexInv, IndexCore, IndexTypes, Working, Locked
  <2> QED BY <1>1, <1>2, <2>1, <2>2 DEF IndexInv, IndexCore, IndexTypes
<1>6. Taken'
  BY <1>1, <1>2, <1>3 DEF IndexInv, IndexCore, IndexTypes, Taken, Working, Locked
<1>7. IndexCore' /\ \A f \in CodeFile : Spared(f)
  BY <1>1, <1>2, <1>3, <1>4, <1>5, <1>6, QuietStep
<1> QED BY <1>1, <1>2, <1>3, <1>7, RequestKeeps DEF Through

\* A request is through a file.
LEMMA NextFileKeeps ==
    ASSUME IndexInv, NEW u \in Update, I!NextFile(u)
    PROVE  IndexInv'
<1> USE IndexAssumption
<1> DEFINE new == [job[u] EXCEPT !.pc = "take", !.file = NoFile]
<1>1. /\ job \in [Update -> {I!NoJob} \cup Jobs] /\ job[u] \in Jobs /\ job[u] # I!NoJob
      /\ job[u].pc = "symbols" /\ job[u].new = {}
  BY DEF I!NextFile, I!NoJob, IndexInv, IndexCore, IndexTypes
<1>2. /\ job' = [job EXCEPT ![u] = new]
      /\ UNCHANGED <<symbols, call_edges, docs, staged, lock, next_id, latest, indexed, ghosts, contested>>
  BY <1>1 DEF I!NextFile, I!index, I!history, Jobs
<1>3. /\ new \in Jobs /\ new # I!NoJob /\ new.pc = "take" /\ new.found = job[u].found
      /\ new.calls = job[u].calls /\ new.parsed = job[u].parsed /\ new.todo = job[u].todo
  BY <1>1 DEF Jobs, I!NoJob
<1> HIDE DEF new
<1>4. job'[u] = new /\ (\A v \in Update \ {u} : job'[v] = job[v])
  BY <1>1, <1>2
<1>5. Known(u)' \subseteq Known(u)
  BY <1>1, <1>3, <1>4, KnownFacts
<1>6. IndexTypes'
  <2>1. I!TypeOK'
    BY <1>2 DEF IndexInv, IndexCore, IndexTypes, I!TypeOK, I!Ids, I!Rows
  <2>2. \A v \in Update : /\ Working(v)' => job'[v].file \in CodeFile
                          /\ Locked(v)' <=> lock' = v
    BY <1>1, <1>2, <1>3, <1>4 DEF IndexInv, IndexCore, IndexTypes, Working, Locked
  <2> QED BY <1>1, <1>2, <1>3, <2>1, <2>2 DEF IndexInv, IndexCore, IndexTypes
<1>7. Taken'
  BY <1>1, <1>2, <1>3, <1>4 DEF IndexInv, IndexCore, IndexTypes, Taken, Working, Locked
<1>8. IndexCore' /\ \A f \in CodeFile : Spared(f)
  BY <1>1, <1>2, <1>3, <1>4, <1>5, <1>6, <1>7, QuietStep
<1>9. ASSUME NEW f \in CodeFile, Through(u, f)' PROVE Staged(u, f)'
  <2>1. Through(u, f) /\ Staged(u, f)
    BY <1>1, <1>2, <1>3, <1>4, <1>9 DEF Through, IndexInv
  <2> QED BY <1>1, <1>3, <1>4, <1>8, <2>1, OwnKeeps
<1> QED BY <1>2, <1>3, <1>4, <1>8, <1>9, RequestKeeps

\* A request is over.
LEMMA OverFacts ==
    ASSUME IndexInv, NEW u \in Update, job[u] # I!NoJob, I!End(u),
           UNCHANGED <<symbols, call_edges, docs, staged, next_id, ghosts, contested>>,
           lock' = (IF lock = u THEN Nobody ELSE lock),
           indexed' \in [CodeFile -> (SUBSET Name) \cup {NoFile}],
           \A f \in CodeFile : latest[f] # u => indexed'[f] = indexed[f]
    PROVE  /\ IndexCore' /\ \A f \in CodeFile : Spared(f)
           /\ job'[u] = I!NoJob /\ (\A v \in Update \ {u} : job'[v] = job[v])
           /\ Known(u)' = {}
           /\ \A f \in CodeFile : latest'[f] = IF latest[f] = u THEN Nobody ELSE latest[f]
<1> USE IndexAssumption
<1>1. job \in [Update -> {I!NoJob} \cup Jobs] /\ latest \in [CodeFile -> Update \cup {Nobody}]
  BY DEF IndexInv, IndexCore, IndexTypes
<1>2. /\ job' = [job EXCEPT ![u] = I!NoJob]
      /\ latest' = [f \in CodeFile |-> IF latest[f] = u THEN Nobody ELSE latest[f]]
  BY DEF I!End
<1>3. job'[u] = I!NoJob /\ (\A v \in Update \ {u} : job'[v] = job[v])
  BY <1>1, <1>2
<1>4. Known(u)' = {}
  BY <1>3 DEF Known
<1>5. I!NoJob.pc = "idle"
  BY DEF I!NoJob
<1>6. IndexTypes'
  <2>1. I!TypeOK'
    BY <1>2 DEF IndexInv, IndexCore, IndexTypes, I!TypeOK, I!Ids, I!Rows
  <2>2. \A v \in Update : /\ Working(v)' => job'[v].file \in CodeFile
                          /\ Locked(v)' <=> lock' = v
    BY <1>2, <1>3, <1>5 DEF IndexInv, IndexCore, IndexTypes, Working, Locked
  <2> QED BY <1>1, <1>2, <2>1, <2>2 DEF IndexInv, IndexCore, IndexTypes
<1>7. Taken'
  BY <1>1, <1>2, <1>3, <1>5 DEF IndexInv, IndexCore, IndexTypes, Taken, Working, Locked
<1>8. IndexCore' /\ \A f \in CodeFile : Spared(f)
  BY <1>3, <1>4, <1>5, <1>6, <1>7, QuietStep
<1> QED BY <1>2, <1>3, <1>4, <1>8

\* A request fails.
LEMMA FailKeeps ==
    ASSUME IndexInv, NEW u \in Update, I!Fail(u)
    PROVE  IndexInv'
<1>1. job[u] # I!NoJob
  BY DEF I!Fail, I!NoJob
<1>2. indexed' \in [CodeFile -> (SUBSET Name) \cup {NoFile}] /\ indexed' = indexed
  BY DEF I!Fail, IndexInv, IndexCore, IndexTypes, I!TypeOK
<1>3. /\ IndexCore' /\ \A f \in CodeFile : Spared(f)
      /\ job'[u] = I!NoJob /\ (\A v \in Update \ {u} : job'[v] = job[v])
      /\ \A f \in CodeFile : latest'[f] = IF latest[f] = u THEN Nobody ELSE latest[f]
  BY <1>1, <1>2, OverFacts DEF I!Fail, I!index
<1> QED BY <1>2, <1>3, RequestKeeps DEF Through

\* A request is done.
LEMMA DoneKeeps ==
    ASSUME IndexInv, NEW u \in Update, I!Done(u)
    PROVE  IndexInv'
<1> USE IndexAssumption
<1>1. /\ job[u] # I!NoJob /\ job[u] \in Jobs /\ job[u].pc = "insert" /\ job[u].calls = {}
      /\ lock # u /\ indexed \in [CodeFile -> (SUBSET Name) \cup {NoFile}]
  BY DEF I!Done, I!NoJob, IndexInv, IndexCore, IndexTypes, I!TypeOK, Locked
<1>2. indexed' = [f \in CodeFile |-> IF job[u].parsed[f] # NoFile /\ latest[f] = u
                                       THEN job[u].parsed[f] ELSE indexed[f]]
  BY DEF I!Done
<1>3. indexed' \in [CodeFile -> (SUBSET Name) \cup {NoFile}]
  BY <1>1, <1>2 DEF Jobs
<1>4. /\ IndexCore' /\ \A f \in CodeFile : Spared(f)
      /\ job'[u] = I!NoJob /\ (\A v \in Update \ {u} : job'[v] = job[v]) /\ Known(u)' = {}
      /\ \A f \in CodeFile : latest'[f] = IF latest[f] = u THEN Nobody ELSE latest[f]
  BY <1>1, <1>2, <1>3, OverFacts DEF I!Done, I!index
<1>5. ASSUME NEW f \in CodeFile, indexed'[f] # NoFile, indexed'[f] # indexed[f]
      PROVE  Settled(f)'
  <2>1. Through(u, f) /\ indexed'[f] = job[u].parsed[f] /\ Spared(f)
    BY <1>1, <1>2, <1>4, <1>5 DEF Through
  <2>2. Committed(u, f)
    BY <1>1, <2>1 DEF IndexInv
  <2>3. Private(f, Nobody)'
    BY <1>4, <2>1, <2>2, SparedFacts DEF Committed, Private
  <2>4. Connected(f, call_edges)
    BY <1>1, <2>2 DEF Committed
  <2> QED BY <2>1, <2>2, <2>3, <2>4, SparedFacts DEF Committed, Settled
<1> QED BY <1>4, <1>5, RequestKeeps DEF Through

\* No request but the holder of the lock works at a file.
LEMMA Holder ==
    ASSUME IndexTypes, NEW u \in Update, NEW v \in Update \ {u}, Locked(u)
    PROVE  lock = u /\ ~Locked(v) /\ ~Working(v)
  BY DEF IndexTypes, Locked, Working

\* The search index is committed and the lock released.
LEMMA CommitKeeps ==
    ASSUME IndexInv, NEW u \in Update, I!Commit(u)
    PROVE  IndexInv'
<1> USE IndexAssumption
<1> DEFINE calls == I!Resolved(job[u].found)
           new == [job[u] EXCEPT !.pc = "insert", !.calls = calls, !.found = I!NoneFound]
<1>1. /\ job \in [Update -> {I!NoJob} \cup Jobs] /\ job[u] \in Jobs /\ job[u] # I!NoJob
      /\ job[u].pc = "take" /\ Locked(u) /\ \A n \in Name : job[u].found[n] \in 0..MaxIds
  BY JobTypes DEF I!Commit, I!NoJob, IndexInv, IndexCore, IndexTypes, Locked
<1>2. /\ job' = [job EXCEPT ![u] = new] /\ docs' = staged /\ lock' = Nobody
      /\ UNCHANGED <<symbols, call_edges, staged, next_id, latest, indexed, ghosts, contested>>
  BY <1>1 DEF I!Commit, I!history, Jobs
<1>3. \A e \in calls : \E m, n \in Name : /\ <<m, n>> \in Calls /\ e = <<job[u].found[m], job[u].found[n]>>
                                          /\ job[u].found[m] # 0 /\ job[u].found[n] # 0
  BY DEF I!Resolved
<1>4. \A m, n \in Name : <<m, n>> \in Calls /\ job[u].found[m] # 0 /\ job[u].found[n] # 0 =>
                           <<job[u].found[m], job[u].found[n]>> \in calls
  BY DEF I!Resolved
<1>5. calls \subseteq I!Id \X I!Id
  <2>1. \A k \in Name : job[u].found[k] # 0 => job[u].found[k] \in I!Id
    BY <1>1 DEF I!Id
  <2> HIDE DEF calls
  <2> SUFFICES ASSUME NEW e \in calls PROVE e \in I!Id \X I!Id
    OBVIOUS
  <2>2. PICK m \in Name, n \in Name : /\ e = <<job[u].found[m], job[u].found[n]>>
                                      /\ job[u].found[m] # 0 /\ job[u].found[n] # 0
    BY <1>3
  <2> QED BY <2>1, <2>2
<1> HIDE DEF calls
<1>6. /\ new \in Jobs /\ new # I!NoJob /\ new.pc = "insert" /\ new.found = I!NoneFound
      /\ new.calls = calls /\ new.parsed = job[u].parsed
  <2>1. I!NoneFound \in [Name -> 0..MaxIds]
    BY DEF I!NoneFound
  <2>2. new \in Jobs
    BY <1>1, <1>5, <2>1 DEF Jobs
  <2> QED BY <1>1, <2>2 DEF Jobs, I!NoJob
<1> HIDE DEF new
<1>7. job'[u] = new /\ (\A v \in Update \ {u} : job'[v] = job[v])
  BY <1>1, <1>2
<1>8. Known(u)' \subseteq Known(u)
  <2>1. Known(u)' = {e[1] : e \in calls} \cup {e[2] : e \in calls}
    BY <1>6, <1>7 DEF Known, I!NoneFound
  <2>2. \A k \in Name : job[u].found[k] # 0 => job[u].found[k] \in Known(u)
    BY <1>1 DEF Known
  <2>3. ASSUME NEW e \in calls PROVE e[1] \in Known(u) /\ e[2] \in Known(u)
    <3>1. PICK m \in Name, n \in Name : /\ e = <<job[u].found[m], job[u].found[n]>>
                                        /\ job[u].found[m] # 0 /\ job[u].found[n] # 0
      BY <1>3
    <3>2. e[1] = job[u].found[m] /\ e[2] = job[u].found[n]
      BY <3>1
    <3> QED BY <2>2, <3>1, <3>2
  <2> QED BY <2>1, <2>3
<1>9. \A f \in CodeFile : Spared(f)
  <2>1. \A v \in Update : Known(v)' \subseteq Known(v)
    BY <1>7, <1>8, KnownSame
  <2> QED BY <1>2, <2>1 DEF Spared, In
<1>10. IndexCore'
  <2>1. I!TypeOK'
    BY <1>2 DEF IndexInv, IndexCore, IndexTypes, I!TypeOK, I!Ids, I!Rows
  <2>2. \A v \in Update : /\ Working(v)' => job'[v].file \in CodeFile
                          /\ Locked(v)' <=> lock' = v
    BY <1>1, <1>2, <1>6, <1>7 DEF IndexInv, IndexCore, IndexTypes, Working, Locked
  <2>3. IndexTypes'
    BY <1>1, <1>2, <1>6, <2>1, <2>2 DEF IndexInv, IndexCore, IndexTypes
  <2>4. RowsApart' /\ I!NoGhosts' /\ Unstaged'
    BY <1>2, <1>6, <1>7
    DEF IndexInv, IndexCore, RowsApart, I!NoGhosts, Unstaged, In, I!Ids, I!Rows
  <2>5. Taken'
    BY <1>1, <1>2, <1>6, <1>7 DEF IndexInv, IndexCore, IndexTypes, Taken, Working, Locked
  <2>6. \A v \in Update \ {u} : Known(v)' = Known(v)
    BY <1>7, KnownSame
  <2>7. \A i \in Known(u)' : i < next_id
    BY <1>1, <1>8 DEF IndexInv, IndexCore, IdsApart
  <2>8. IdsApart'
    BY <1>2, <1>6, <1>7, <2>6, <2>7 DEF IndexInv, IndexCore, IdsApart, I!NoneFound
  <2> QED BY <2>3, <2>4, <2>5, <2>8 DEF IndexCore
<1>11. ASSUME NEW f \in CodeFile, Through(u, f)' PROVE Committed(u, f)'
  <2>1. Staged(u, f)
    BY <1>1, <1>2, <1>6, <1>7, <1>11 DEF Through, IndexInv
  <2>2. Whole(f, job[u].parsed[f], {})' /\ Private(f, u)'
    <3>1. Whole(f, job[u].parsed[f], {}) /\ Private(f, u)
      BY <1>1, <2>1 DEF Staged
    <3>2. job'[u].parsed[f] = job[u].parsed[f]
      BY <1>6, <1>7
    <3> QED BY <1>2, <1>9, <3>1, <3>2, SparedFacts DEF Whole, In
  <2>3. Searchable(f, staged \cap docs)'
    BY <1>2, <2>1 DEF Staged, Searchable, In
  <2>4. ASSUME NEW m \in Name \ contested, NEW n \in Name \ contested, In(m, f), In(n, f)
        PROVE  <<symbols[m].id, symbols[n].id>> \in call_edges \cup calls <=> <<m, n>> \in Calls
    <3>1. /\ job[u].found[m] = symbols[m].id /\ job[u].found[n] = symbols[n].id
          /\ <<symbols[m].id, symbols[n].id>> \notin call_edges
          /\ symbols[m].id # 0 /\ symbols[n].id # 0
      BY <2>1, <2>4, RowTypes DEF Staged, In, IndexInv, IndexCore
    <3>2. \A k \in Name : /\ job[u].found[k] = job[u].found[m] => k = m
                          /\ job[u].found[k] = job[u].found[n] => k = n
      BY <1>1, <3>1 DEF IndexInv, IndexCore, IdsApart
    <3>3. ASSUME <<symbols[m].id, symbols[n].id>> \in calls PROVE <<m, n>> \in Calls
      <4>1. PICK j \in Name, k \in Name :
              /\ <<symbols[m].id, symbols[n].id>> = <<job[u].found[j], job[u].found[k]>>
              /\ <<j, k>> \in Calls
        BY <1>3, <3>3
      <4>2. j = m /\ k = n
        BY <3>1, <3>2, <4>1
      <4> QED BY <4>1, <4>2
    <3> QED BY <1>4, <3>1, <3>3
  <2>5. Connected(f, call_edges \cup job[u].calls)'
    BY <1>2, <1>6, <1>7, <2>4 DEF Connected, In
  <2> QED BY <1>6, <1>7, <2>2, <2>3, <2>5 DEF Committed
<1> QED BY <1>2, <1>6, <1>7, <1>9, <1>10, <1>11, RequestKeeps

\* A call is inserted, after the lock was released.
LEMMA InsertKeeps ==
    ASSUME IndexInv, NEW u \in Update, NEW e \in I!Id \X I!Id, I!InsertEdge(u, e)
    PROVE  IndexInv'
<1> USE IndexAssumption
<1> DEFINE new == [job[u] EXCEPT !.calls = @ \ {e}]
<1>1. /\ job \in [Update -> {I!NoJob} \cup Jobs] /\ job[u] \in Jobs /\ job[u] # I!NoJob
      /\ job[u].pc = "insert" /\ e \in job[u].calls
  BY DEF I!InsertEdge, I!NoJob, IndexInv, IndexCore, IndexTypes
<1>2. /\ job' = [job EXCEPT ![u] = new] /\ call_edges' = call_edges \cup {e}
      /\ {e[1], e[2]} \subseteq I!Ids(I!Rows)
      /\ UNCHANGED <<symbols, docs, staged, lock, next_id, latest, indexed, ghosts, contested>>
  BY <1>1 DEF I!InsertEdge, I!CanInsert, I!index, I!history, Jobs
<1>3. /\ new \in Jobs /\ new # I!NoJob /\ new.pc = "insert" /\ new.found = job[u].found
      /\ new.calls = job[u].calls \ {e} /\ new.parsed = job[u].parsed
  BY <1>1 DEF Jobs, I!NoJob
<1> HIDE DEF new
<1>4. job'[u] = new /\ (\A v \in Update \ {u} : job'[v] = job[v])
  BY <1>1, <1>2
<1>5. Known(u)' \subseteq Known(u) /\ e[1] \in Known(u) /\ e = <<e[1], e[2]>>
  BY <1>1, <1>3, <1>4, KnownFacts DEF Known
<1>6. \A v \in Update : Known(v)' \subseteq Known(v)
  BY <1>4, <1>5 DEF Known
<1>7. ASSUME NEW f \in CodeFile, NEW v, v # u, Private(f, v) PROVE Spared(f)
  <2>1. \A n \in Name \ contested : In(n, f) => symbols[n].id # e[1]
    BY <1>5, <1>7 DEF Private
  <2> QED BY <1>2, <1>5, <1>6, <2>1 DEF Spared, In
<1>8. ASSUME NEW f \in CodeFile, Standing(u, f) PROVE Spared(f)
  <2>1. CASE indexed[f] # NoFile
    BY <1>7, <2>1 DEF IndexInv, Settled
  <2>2. ASSUME NEW v \in Update \ {u}, Through(v, f) PROVE Spared(f)
    <3>1. Private(f, v)
      BY <2>2 DEF IndexInv, Committed, Staged
    <3> QED BY <1>7, <3>1
  <2> QED BY <1>8, <2>1, <2>2 DEF Standing
<1>9. IndexCore'
  <2>1. I!TypeOK'
    BY <1>2, <1>5 DEF IndexInv, IndexCore, IndexTypes, I!TypeOK, I!Ids, I!Rows
  <2>2. \A v \in Update : /\ Working(v)' => job'[v].file \in CodeFile
                          /\ Locked(v)' <=> lock' = v
    BY <1>1, <1>2, <1>3, <1>4 DEF IndexInv, IndexCore, IndexTypes, Working, Locked
  <2>3. IndexTypes'
    BY <1>1, <1>2, <1>3, <2>1, <2>2 DEF IndexInv, IndexCore, IndexTypes
  <2>4. RowsApart' /\ I!NoGhosts' /\ Unstaged'
    BY <1>2, <1>3, <1>4
    DEF IndexInv, IndexCore, RowsApart, I!NoGhosts, Unstaged, In, I!Ids, I!Rows
  <2>5. Taken'
    BY <1>1, <1>2, <1>3, <1>4 DEF IndexInv, IndexCore, IndexTypes, Taken, Working, Locked
  <2>6. IdsApart'
    BY <1>1, <1>2, <1>3, <1>4, <1>6 DEF IndexInv, IndexCore, IdsApart
  <2> QED BY <2>3, <2>4, <2>5, <2>6 DEF IndexCore
<1>10. ASSUME NEW f \in CodeFile, Through(u, f)' PROVE Committed(u, f)'
  <2>1. Committed(u, f)
    BY <1>1, <1>2, <1>3, <1>4, <1>10 DEF Through, IndexInv
  <2>2. Whole(f, job[u].parsed[f], {})'
    BY <1>2, <1>3, <1>4, <2>1 DEF Committed, Whole, In
  <2>5. Private(f, u)' /\ Searchable(f, staged \cap docs)'
    BY <1>2, <1>6, <2>1 DEF Committed, Private, Searchable, In
  <2>3. call_edges' \cup job'[u].calls = call_edges \cup job[u].calls
    BY <1>1, <1>2, <1>3, <1>4
  <2>4. Connected(f, call_edges \cup job[u].calls)'
    BY <1>2, <2>1, <2>3 DEF Committed, Connected, In
  <2> QED BY <1>3, <1>4, <2>2, <2>4, <2>5 DEF Committed
<1> QED BY <1>2, <1>3, <1>4, <1>8, <1>9, <1>10, RequestKeeps

\* The calls between the old symbols of a file are deleted.
LEMMA DeleteEdgesKeeps ==
    ASSUME IndexInv, NEW u \in Update, I!DeleteEdges(u)
    PROVE  IndexInv'
<1> USE IndexAssumption
<1> DEFINE new == [job[u] EXCEPT !.pc = "rows"]
           ids == I!Ids(I!RowsOf(job[u].file))
<1>1. /\ job \in [Update -> {I!NoJob} \cup Jobs] /\ job[u] \in Jobs /\ job[u] # I!NoJob
      /\ job[u].pc = "calls" /\ Locked(u) /\ Working(u)
  BY DEF I!DeleteEdges, I!NoJob, IndexInv, IndexCore, IndexTypes, Locked, Working
<1>2. /\ job' = [job EXCEPT ![u] = new]
      /\ call_edges' = {e \in call_edges : e[1] \notin ids /\ e[2] \notin ids}
      /\ UNCHANGED <<symbols, docs, staged, lock, next_id, latest, indexed, ghosts, contested>>
  BY <1>1 DEF I!DeleteEdges, I!Without, I!index, I!history, Jobs
<1>3. /\ new \in Jobs /\ new # I!NoJob /\ new.pc = "rows" /\ new.found = job[u].found
      /\ new.calls = job[u].calls /\ new.parsed = job[u].parsed /\ new.file = job[u].file
      /\ new.todo = job[u].todo
  BY <1>1 DEF Jobs, I!NoJob
<1> HIDE DEF new
<1>4. job'[u] = new /\ (\A v \in Update \ {u} : job'[v] = job[v])
  BY <1>1, <1>2
<1>5. \A v \in Update : Known(v)' \subseteq Known(v)
  BY <1>1, <1>3, <1>4, KnownFacts DEF Known
<1>6. ASSUME NEW f \in CodeFile, f # job[u].file PROVE Spared(f)
  <2>1. \A n \in Name : In(n, f) => symbols[n].id \notin ids
    BY <1>6, RowIds DEF IndexInv, IndexCore, RowsApart, In
  <2> HIDE DEF ids
  <2> QED BY <1>2, <1>5, <2>1 DEF Spared, In
<1> HIDE DEF ids
<1>7. IndexCore'
  <2>1. I!TypeOK'
    BY <1>2 DEF IndexInv, IndexCore, IndexTypes, I!TypeOK, I!Ids, I!Rows
  <2>2. \A v \in Update : /\ Working(v)' => job'[v].file \in CodeFile
                          /\ Locked(v)' <=> lock' = v
    BY <1>1, <1>2, <1>3, <1>4 DEF IndexInv, IndexCore, IndexTypes, Working, Locked
  <2>3. IndexTypes'
    BY <1>1, <1>2, <1>3, <2>1, <2>2 DEF IndexInv, IndexCore, IndexTypes
  <2>4. RowsApart' /\ I!NoGhosts' /\ Unstaged'
    BY <1>1, <1>2, <1>3, <1>4
    DEF IndexInv, IndexCore, RowsApart, I!NoGhosts, Unstaged, In, I!Ids, I!Rows
  <2>5. Taken'
    BY <1>1, <1>2, <1>3, <1>4 DEF IndexInv, IndexCore, IndexTypes, Taken, Working, Locked
  <2>6. IdsApart'
    BY <1>1, <1>2, <1>3, <1>4, <1>5 DEF IndexInv, IndexCore, IdsApart
  <2> QED BY <2>3, <2>4, <2>5, <2>6 DEF IndexCore
<1>8. ASSUME NEW f \in CodeFile, Standing(u, f) \/ Through(u, f)' PROVE Spared(f)
  <2>1. latest[job[u].file] = u /\ job[u].parsed[job[u].file] = NoFile /\ job[u].file \in CodeFile
    BY <1>1 DEF IndexInv, IndexCore, IndexTypes, Taken
  <2>2. f # job[u].file
    BY <1>3, <1>4, <1>8, <2>1 DEF Standing, Through, IndexInv, IndexCore, Taken
  <2> QED BY <1>6, <2>2
<1>9. ASSUME NEW f \in CodeFile, Through(u, f)' PROVE Staged(u, f)'
  <2>1. Through(u, f) /\ Staged(u, f)
    BY <1>1, <1>2, <1>3, <1>4, <1>9 DEF Through, IndexInv
  <2> QED BY <1>1, <1>3, <1>4, <1>8, <1>9, <2>1, OwnKeeps
<1> QED BY <1>2, <1>3, <1>4, <1>7, <1>8, <1>9, RequestKeeps

\* A request takes a file; its old symbols leave the search index.
LEMMA TakeFileKeeps ==
    ASSUME IndexInv, NEW u \in Update, NEW taken \in CodeFile, I!TakeFile(u, taken)
    PROVE  IndexInv'
<1> USE IndexAssumption
<1> DEFINE new == [job[u] EXCEPT !.pc = "calls", !.file = taken, !.todo = @ \ {taken}]
           ids == I!Ids(I!RowsOf(taken))
<1>1. /\ job \in [Update -> {I!NoJob} \cup Jobs] /\ job[u] \in Jobs /\ job[u] # I!NoJob
      /\ job[u].pc = "take" /\ Locked(u) /\ taken \in job[u].todo
      /\ latest \in [CodeFile -> Update \cup {Nobody}]
      /\ indexed \in [CodeFile -> (SUBSET Name) \cup {NoFile}]
  BY DEF I!TakeFile, I!NoJob, IndexInv, IndexCore, IndexTypes, I!TypeOK, Locked
<1>2. /\ job' = [job EXCEPT ![u] = new] /\ staged' = staged \ ids
      /\ latest' = [latest EXCEPT ![taken] = u] /\ indexed' = [indexed EXCEPT ![taken] = NoFile]
      /\ UNCHANGED <<symbols, call_edges, docs, lock, next_id, ghosts, contested>>
  BY <1>1 DEF I!TakeFile, I!Unindexed, Jobs
<1>3. /\ new \in Jobs /\ new # I!NoJob /\ new.pc = "calls" /\ new.found = job[u].found
      /\ new.calls = job[u].calls /\ new.parsed = job[u].parsed /\ new.file = taken
      /\ new.todo = job[u].todo \ {taken}
  BY <1>1 DEF Jobs, I!NoJob
<1> HIDE DEF new
<1>4. job'[u] = new /\ (\A v \in Update \ {u} : job'[v] = job[v])
  BY <1>1, <1>2
<1>5. \A v \in Update : Known(v)' \subseteq Known(v)
  BY <1>1, <1>3, <1>4, KnownFacts DEF Known
<1>6. ASSUME NEW f \in CodeFile, f # taken PROVE Spared(f)
  <2>1. \A n \in Name : In(n, f) => symbols[n].id \notin ids
    BY <1>6, RowIds DEF IndexInv, IndexCore, RowsApart, In
  <2> HIDE DEF ids
  <2> QED BY <1>2, <1>5, <2>1 DEF Spared, In
<1>7. \A n \in Name : In(n, taken) => symbols[n].id \in ids
  BY RowIds
<1> HIDE DEF ids
<1>8. job[u].parsed[taken] = NoFile
  BY <1>1 DEF IndexInv, IndexCore, Taken
<1>9. IndexCore'
  <2>1. I!TypeOK'
    <3>1. indexed' \in [CodeFile -> (SUBSET Name) \cup {NoFile}]
      BY <1>1, <1>2
    <3>2. (docs \cup staged)' \subseteq I!Id
      BY <1>2 DEF IndexInv, IndexCore, IndexTypes, I!TypeOK
    <3> QED BY <1>2, <3>1, <3>2
            DEF IndexInv, IndexCore, IndexTypes, I!TypeOK, I!Ids, I!Rows
  <2>2. \A v \in Update : /\ Working(v)' => job'[v].file \in CodeFile
                          /\ Locked(v)' <=> lock' = v
    BY <1>1, <1>2, <1>3, <1>4 DEF IndexInv, IndexCore, IndexTypes, Working, Locked
  <2>3. IndexTypes'
    BY <1>1, <1>2, <1>3, <2>1, <2>2 DEF IndexInv, IndexCore, IndexTypes
  <2>4. RowsApart' /\ I!NoGhosts'
    BY <1>2 DEF IndexInv, IndexCore, RowsApart, I!NoGhosts, I!Ids, I!Rows
  <2>5. \A v \in Update \ {u} : ~Working(v) /\ ~Locked(v)
    BY <1>1, Holder DEF IndexInv, IndexCore
  <2>6. Unstaged'
    BY <1>2, <1>3, <1>4, <1>7, <2>5 DEF Unstaged, In, Working
  <2>7. \A f \in CodeFile : latest'[f] # Nobody => indexed'[f] = NoFile /\ job'[latest'[f]] # I!NoJob
    BY <1>1, <1>2, <1>3, <1>4 DEF IndexInv, IndexCore, Taken
  <2>8. Taken'
    BY <1>1, <1>2, <1>3, <1>4, <1>8, <2>5, <2>7
    DEF IndexInv, IndexCore, IndexTypes, Taken, Working, Locked
  <2>9. IdsApart'
    BY <1>1, <1>2, <1>3, <1>4, <1>5 DEF IndexInv, IndexCore, IdsApart
  <2> QED BY <2>3, <2>4, <2>6, <2>8, <2>9 DEF IndexCore
<1>10. ASSUME NEW f \in CodeFile, Through(u, f)' PROVE Staged(u, f)'
  <2>1. f # taken /\ Spared(f)
    BY <1>3, <1>4, <1>6, <1>8, <1>10 DEF Through
  <2>2. Through(u, f) /\ Staged(u, f)
    BY <1>1, <1>2, <1>3, <1>4, <1>10, <2>1 DEF Through, IndexInv
  <2> QED BY <1>1, <1>3, <1>4, <2>1, <2>2, OwnKeeps
<1>11. \A f \in CodeFile : latest'[f] # u => f # taken
  BY <1>1, <1>2
<1> QED BY <1>1, <1>2, <1>3, <1>4, <1>6, <1>9, <1>10, <1>11, RequestKeeps

\* The rows of a file are deleted, with the calls of its symbols, and the file
\* is parsed again.
LEMMA ReplaceRowsKeeps ==
    ASSUME IndexInv, NEW u \in Update, NEW names \in (SUBSET Name) \cup {NoFile},
           I!ReplaceRows(u, names)
    PROVE  IndexInv'
<1> USE IndexAssumption
<1> DEFINE taken == job[u].file
           now == IF names = NoFile THEN {} ELSE names
           old == {n \in Name : I!IsOld(symbols[n], taken, names)}
           ids == {symbols[n].id : n \in old}
           new == [job[u] EXCEPT !.pc = "symbols", !.new = now, !.parsed[taken] = now]
<1>1. /\ job \in [Update -> {I!NoJob} \cup Jobs] /\ job[u] \in Jobs /\ job[u] # I!NoJob
      /\ job[u].pc = "rows" /\ Locked(u) /\ Working(u) /\ taken \in CodeFile
      /\ latest[taken] = u /\ taken \notin job[u].todo
  BY DEF I!ReplaceRows, I!NoJob, IndexInv, IndexCore, IndexTypes, Taken, Locked, Working
<1>2. /\ job' = [job EXCEPT ![u] = new]
      /\ symbols' = [n \in Name |-> IF n \in old THEN NoRow ELSE symbols[n]]
      /\ call_edges' = {e \in call_edges : e[1] \notin ids /\ e[2] \notin ids}
      /\ UNCHANGED <<docs, staged, lock, next_id, latest, indexed, ghosts, contested>>
  BY <1>1 DEF I!ReplaceRows, I!Without, I!index, I!history, Jobs
<1>3. \A n \in Name : n \in old <=> In(n, taken)
  BY DEF I!IsOld, In
<1>4. now \subseteq Name
  BY DEF now
<1> HIDE DEF old, now
<1>5. /\ new \in Jobs /\ new # I!NoJob /\ new.pc = "symbols" /\ new.found = job[u].found
      /\ new.calls = job[u].calls /\ new.file = taken /\ new.todo = job[u].todo /\ new.new = now
      /\ new.parsed[taken] = now /\ \A f \in CodeFile \ {taken} : new.parsed[f] = job[u].parsed[f]
  BY <1>1, <1>4 DEF Jobs, I!NoJob
<1>6. now # NoFile
  BY <1>4
<1> HIDE DEF new, taken
<1>7. job'[u] = new /\ (\A v \in Update \ {u} : job'[v] = job[v])
  BY <1>1, <1>2
<1>8. \A v \in Update : Known(v)' = Known(v)
  <2>1. Known(u)' = Known(u)
    BY <1>1, <1>5, <1>7, KnownFacts
  <2> QED BY <1>7, <2>1, KnownSame
<1>9. \A n \in Name : /\ ~In(n, taken) => symbols'[n] = symbols[n]
                      /\ In(n, taken) => symbols'[n] = NoRow
                      /\ \A f : In(n, f)' <=> In(n, f) /\ f # taken
  BY <1>2, <1>3 DEF In
<1>10. ASSUME NEW n \in Name, symbols[n] # NoRow, symbols[n].id \in ids PROVE In(n, taken)
  <2>1. PICK m \in old : symbols[m].id = symbols[n].id
    BY <1>10
  <2>2. m \in Name /\ In(m, taken)
    BY <1>3 DEF old
  <2> QED BY <1>10, <2>1, <2>2 DEF IndexInv, IndexCore, RowsApart, In
<1> HIDE DEF ids
<1>11. ASSUME NEW f \in CodeFile, f # taken PROVE Spared(f)
  <2>1. \A n \in Name : In(n, f) => symbols[n].id \notin ids
    BY <1>10, <1>11 DEF In
  <2>2. \A n \in Name : In(n, f)' => In(n, f) /\ symbols'[n] = symbols[n]
    BY <1>9, <1>11 DEF In
  <2>3. \A n \in Name : In(n, f) => In(n, f)'
    BY <1>9, <1>11
  <2> QED BY <1>2, <1>8, <2>1, <2>2, <2>3 DEF Spared
<1>12. IndexTypes'
  <2>1. symbols' \in [Name -> [id : I!Id, name : Name, file : CodeFile] \cup {NoRow}]
    BY <1>2 DEF IndexInv, IndexCore, IndexTypes, I!TypeOK
  <2>2. \A i \in I!Ids(I!Rows) : i \notin ids => (i \in I!Ids(I!Rows))'
    <3> SUFFICES ASSUME NEW i \in I!Ids(I!Rows), i \notin ids PROVE (i \in I!Ids(I!Rows))'
      OBVIOUS
    <3>1. PICK n \in Name : symbols[n] # NoRow /\ symbols[n].id = i
      BY RowIds
    <3>2. symbols'[n] = symbols[n]
      BY <1>2, <3>1 DEF ids
    <3> QED BY <3>1, <3>2, RowIds
  <2>3. call_edges' \subseteq (I!Ids(I!Rows) \X I!Ids(I!Rows))'
    <3> SUFFICES ASSUME NEW e \in call_edges, e[1] \notin ids, e[2] \notin ids
                 PROVE  e \in (I!Ids(I!Rows) \X I!Ids(I!Rows))'
      BY <1>2
    <3>1. e \in I!Ids(I!Rows) \X I!Ids(I!Rows)
      BY DEF IndexInv, IndexCore, IndexTypes, I!TypeOK
    <3>2. e = <<e[1], e[2]>> /\ e[1] \in I!Ids(I!Rows) /\ e[2] \in I!Ids(I!Rows)
      BY <3>1
    <3>3. e[1] \in I!Ids(I!Rows)' /\ e[2] \in I!Ids(I!Rows)'
      BY <2>2, <3>2
    <3> QED BY <3>2, <3>3
  <2>4. I!TypeOK'
    BY <1>2, <2>1, <2>3 DEF IndexInv, IndexCore, IndexTypes, I!TypeOK
  <2>5. \A v \in Update : /\ Working(v)' => job'[v].file \in CodeFile
                          /\ Locked(v)' <=> lock' = v
    BY <1>1, <1>2, <1>5, <1>7 DEF IndexInv, IndexCore, IndexTypes, Working, Locked
  <2> QED BY <1>1, <1>2, <1>5, <2>4, <2>5 DEF IndexInv, IndexCore, IndexTypes
<1>13. RowsApart'
  BY <1>2, <1>9 DEF IndexInv, IndexCore, RowsApart
<1>14. I!NoGhosts'
  <2> SUFFICES ASSUME NEW i \in staged, i \notin ghosts PROVE (i \in I!Ids(I!Rows))'
    BY <1>2 DEF I!NoGhosts
  <2>1. PICK n \in Name : symbols[n] # NoRow /\ symbols[n].id = i
    BY RowIds DEF IndexInv, IndexCore, I!NoGhosts
  <2>2. ~In(n, taken)
    BY <1>1, <2>1 DEF IndexInv, IndexCore, Unstaged, taken
  <2> QED BY <1>9, <2>1, <2>2, RowIds
<1>15. Unstaged' /\ Taken'
  <2>1. \A v \in Update \ {u} : ~Working(v) /\ ~Locked(v)
    BY <1>1, Holder DEF IndexInv, IndexCore
  <2>2. Unstaged'
    BY <1>5, <1>7, <2>1 DEF Unstaged, Working
  <2>3. \A f \in CodeFile : latest'[f] # Nobody => indexed'[f] = NoFile /\ job'[latest'[f]] # I!NoJob
    BY <1>2, <1>5, <1>7 DEF IndexInv, IndexCore, IndexTypes, Taken
  <2>4. Taken'
    BY <1>1, <1>2, <1>5, <1>6, <1>7, <2>1, <2>3 DEF IndexInv, IndexCore, Taken, Working, Locked,
         taken
  <2> QED BY <2>2, <2>4
<1>16. IdsApart'
  BY <1>1, <1>2, <1>5, <1>7, <1>8 DEF IndexInv, IndexCore, IdsApart
<1>17. IndexCore'
  BY <1>12, <1>13, <1>14, <1>15, <1>16 DEF IndexCore
<1>18. ASSUME NEW f \in CodeFile, Through(u, f)' PROVE Staged(u, f)'
  <2>1. CASE f = taken
    <3>1. \A n \in Name : ~In(n, f)'
      BY <1>9, <2>1
    <3>2. Whole(f, job[u].parsed[f], IF job[u].pc = "symbols" /\ f = job[u].file THEN job[u].new ELSE {})'
      BY <1>5, <1>7, <2>1, <3>1 DEF Whole
    <3> QED BY <3>1, <3>2 DEF Staged, Searchable, Private
  <2>2. CASE f # taken
    <3>1. Through(u, f) /\ Staged(u, f)
      BY <1>1, <1>2, <1>5, <1>7, <1>18, <2>2 DEF Through, IndexInv
    <3> QED BY <1>1, <1>5, <1>7, <1>11, <2>2, <3>1, OwnKeeps
  <2> QED BY <2>1, <2>2
<1>19. \A f \in CodeFile : Standing(u, f) => f # taken
  BY <1>1 DEF Standing, Through, IndexInv, IndexCore, Taken
<1> QED BY <1>2, <1>5, <1>7, <1>11, <1>17, <1>18, <1>19, RequestKeeps

\* A symbol gets a row and a document, under a new id; the calls of a row that
\* is taken over go with the id.
LEMMA UpsertKeeps ==
    ASSUME IndexInv, NEW u \in Update, NEW n \in Name, I!Upsert(u, n)
    PROVE  IndexInv'
<1> USE IndexAssumption
<1>0. PICK taken : taken = job[u].file
  OBVIOUS
<1> DEFINE old == symbols[n]
           row == [id |-> next_id, name |-> n, file |-> taken]
           Now(i) == IF old # NoRow /\ i = old.id THEN next_id ELSE i
           new == [job[u] EXCEPT !.new = @ \ {n}, !.found[n] = next_id]
<1>1. /\ job \in [Update -> {I!NoJob} \cup Jobs] /\ job[u] \in Jobs /\ job[u] # I!NoJob
      /\ job[u].pc = "symbols" /\ n \in job[u].new /\ Locked(u) /\ Working(u) /\ taken \in CodeFile
      /\ next_id \in 1..MaxIds /\ latest[taken] = u
      /\ job[u].new \subseteq job[u].parsed[taken] /\ job[u].parsed[taken] # NoFile
  BY <1>0 DEF I!Upsert, I!NoJob, IndexInv, IndexCore, IndexTypes, Taken, Locked, Working
<1>2. /\ job' = [job EXCEPT ![u] = new] /\ symbols' = [symbols EXCEPT ![n] = row]
      /\ call_edges' = {<<Now(e[1]), Now(e[2])>> : e \in call_edges}
      /\ staged' = staged \cup {next_id} /\ next_id' = next_id + 1
      /\ old = NoRow => UNCHANGED <<ghosts, contested>>
      /\ old # NoRow => ghosts' = ghosts \cup {old.id} /\ contested' = contested \cup {n}
      /\ UNCHANGED <<docs, lock, latest, indexed>>
  BY <1>0, <1>1 DEF I!Upsert, I!IdFor, Jobs
<1>3. row \in [id : I!Id, name : Name, file : CodeFile] /\ row # NoRow
  BY <1>1 DEF I!Id
<1>4. symbols \in [Name -> [id : I!Id, name : Name, file : CodeFile] \cup {NoRow}]
  BY DEF IndexInv, IndexCore, IndexTypes, I!TypeOK
<1>5. symbols'[n] = row /\ \A m \in Name \ {n} : symbols'[m] = symbols[m]
  BY <1>2, <1>4
<1>6. /\ new \in Jobs /\ new # I!NoJob /\ new.pc = "symbols" /\ new.calls = job[u].calls
      /\ new.file = taken /\ new.todo = job[u].todo /\ new.new = job[u].new \ {n}
      /\ new.parsed = job[u].parsed /\ new.found = [job[u].found EXCEPT ![n] = next_id]
  <2>1. [job[u].found EXCEPT ![n] = next_id] \in [Name -> 0..MaxIds]
    BY <1>1 DEF Jobs
  <2>2. /\ new = [[job[u] EXCEPT !.new = job[u].new \ {n}]
                   EXCEPT !.found = [job[u].found EXCEPT ![n] = next_id]]
        /\ job[u].new \ {n} \in SUBSET Name
    BY <1>1 DEF Jobs
  <2> HIDE DEF new
  <2>3. new \in Jobs
    BY <1>1, <2>1, <2>2 DEF Jobs
  <2> QED BY <1>0, <1>1, <2>2, <2>3 DEF Jobs, I!NoJob
<1>7. /\ new.found[n] = next_id /\ \A m \in Name \ {n} : new.found[m] = job[u].found[m]
      /\ new.found \in [Name -> 0..MaxIds] /\ job[u].found \in [Name -> 0..MaxIds]
  BY <1>1, <1>6 DEF Jobs
<1>8. row.id = next_id /\ row.name = n /\ row.file = taken
  OBVIOUS
<1> HIDE DEF new, row
<1>9. job'[u] = new /\ (\A v \in Update \ {u} : job'[v] = job[v])
  BY <1>1, <1>2
<1>10. /\ \A v \in Update \ {u} : Known(v)' = Known(v)
       /\ Known(u)' \subseteq Known(u) \cup {next_id}
  <2>1. job'[u] # I!NoJob /\ job'[u].found = new.found /\ job'[u].calls = job[u].calls
    BY <1>6, <1>9
  <2>4. Known(u)' = UNION {{job'[u].found[m] : m \in Name} \ {0}, {e[1] : e \in job'[u].calls},
                           {e[2] : e \in job'[u].calls}}
    BY <2>1 DEF Known
  <2>2. Known(u) = UNION {{job[u].found[m] : m \in Name} \ {0}, {e[1] : e \in job[u].calls},
                          {e[2] : e \in job[u].calls}}
    BY <1>1 DEF Known
  <2>3. Known(u)' \subseteq Known(u) \cup {next_id}
    BY <1>7, <2>1, <2>2, <2>4
  <2> QED BY <1>9, <2>3, KnownSame
<1>11. /\ \A v \in Update : \A i \in Known(v) : i < next_id /\ i # next_id
       /\ \A m \in Name : symbols[m] # NoRow => symbols[m].id < next_id /\ symbols[m].id # next_id
       /\ \A m \in Name \ {n} : symbols[m] # NoRow /\ old # NoRow => symbols[m].id # old.id
  <2>1. \A v \in Update : \A i \in Known(v) : i < next_id /\ i \in 1..MaxIds
    BY <1>1, JobTypes DEF IndexInv, IndexCore, IdsApart, Known
  <2>2. \A m \in Name : symbols[m] # NoRow => symbols[m].id < next_id /\ symbols[m].id \in 1..MaxIds
    BY <1>4 DEF IndexInv, IndexCore, RowsApart, I!Id
  <2>3. \A m \in Name \ {n} : symbols[m] # NoRow /\ old # NoRow => symbols[m].id # old.id
    BY DEF IndexInv, IndexCore, RowsApart
  <2> QED BY <1>1, <2>1, <2>2, <2>3
<1>12. ASSUME NEW e \in call_edges
       PROVE  /\ e = <<e[1], e[2]>> /\ e[1] \in I!Ids(I!Rows) /\ e[2] \in I!Ids(I!Rows)
              /\ e[1] # next_id /\ e[2] # next_id
  <2>1. e \in I!Ids(I!Rows) \X I!Ids(I!Rows)
    BY DEF IndexInv, IndexCore, IndexTypes, I!TypeOK
  <2>2. e = <<e[1], e[2]>> /\ e[1] \in I!Ids(I!Rows) /\ e[2] \in I!Ids(I!Rows)
    BY <2>1
  <2> QED BY <1>11, <2>2, RowIds
<1>13. ASSUME NEW i \in Nat, NEW j \in Nat, i # next_id, j # next_id,
              old # NoRow => i # old.id /\ j # old.id
       PROVE  <<i, j>> \in call_edges' <=> <<i, j>> \in call_edges
  <2>1. ASSUME <<i, j>> \in call_edges PROVE <<i, j>> \in call_edges'
    <3>1. Now(<<i, j>>[1]) = i /\ Now(<<i, j>>[2]) = j
      BY <1>13
    <3> QED BY <1>2, <2>1, <3>1
  <2>2. ASSUME <<i, j>> \in call_edges' PROVE <<i, j>> \in call_edges
    <3>1. PICK e \in call_edges : <<i, j>> = <<Now(e[1]), Now(e[2])>>
      BY <1>2, <2>2
    <3>2. i = Now(e[1]) /\ j = Now(e[2])
      BY <3>1
    <3>3. i = e[1] /\ j = e[2]
      BY <1>13, <3>2
    <3> QED BY <1>12, <3>3
  <2> QED BY <2>1, <2>2
<1>14. /\ contested \subseteq contested'
       /\ old # NoRow => n \in contested'
       /\ contested' \subseteq contested \cup {n}
  BY <1>2
<1>15. \A m \in Name : \A f : m # n => (In(m, f)' <=> In(m, f))
  BY <1>5 DEF In
<1>16. \A f : In(n, f)' <=> f = taken
  BY <1>3, <1>5, <1>8 DEF In
<1>17. \A f : In(n, f) => n \in contested'
  BY <1>14 DEF In
<1>18. ASSUME NEW m \in Name \ {n}, symbols[m] # NoRow
       PROVE  /\ symbols[m].id \in Nat /\ symbols[m].id # next_id
              /\ old # NoRow => symbols[m].id # old.id
  BY <1>4, <1>11, <1>18 DEF I!Id
<1> HIDE DEF Now, old
<1>19. ASSUME NEW f \in CodeFile, f # taken PROVE Spared(f)
  <2>1. \A m \in Name : In(m, f)' => m # n /\ In(m, f) /\ symbols'[m] = symbols[m] /\ symbols[m] # NoRow
    BY <1>5, <1>15, <1>16, <1>19 DEF In
  <2>2. \A m \in Name \ contested' : In(m, f) => In(m, f)'
    BY <1>15, <1>17
  <2>3. \A m \in Name, v \in Update : In(m, f)' /\ symbols[m].id \in Known(v)' => symbols[m].id \in Known(v)
    BY <1>10, <1>18, <2>1
  <2>4. \A m, k \in Name \ contested' : In(m, f)' /\ In(k, f)' =>
          (<<symbols[m].id, symbols[k].id>> \in call_edges' <=>
             <<symbols[m].id, symbols[k].id>> \in call_edges)
    BY <1>13, <1>18, <2>1
  <2> QED BY <1>2, <1>14, <2>1, <2>2, <2>3, <2>4 DEF Spared
<1>20. IndexTypes'
  <2>1. symbols' \in [Name -> [id : I!Id, name : Name, file : CodeFile] \cup {NoRow}]
    BY <1>2, <1>3, <1>4
  <2>2. next_id \in I!Ids(I!Rows)'
    BY <1>3, <1>5, <1>8, RowIds
  <2>3. \A i \in I!Ids(I!Rows) : Now(i) \in I!Ids(I!Rows)'
    <3> SUFFICES ASSUME NEW m \in Name, symbols[m] # NoRow PROVE Now(symbols[m].id) \in I!Ids(I!Rows)'
      BY RowIds
    <3>1. CASE m = n
      BY <2>2, <3>1 DEF Now, old
    <3>2. CASE m # n
      <4>1. Now(symbols[m].id) = symbols'[m].id /\ symbols'[m] # NoRow
        BY <1>5, <1>18, <3>2 DEF Now
      <4> QED BY <4>1, RowIds
    <3> QED BY <3>1, <3>2
  <2>4. call_edges' \subseteq (I!Ids(I!Rows) \X I!Ids(I!Rows))'
    BY <1>2, <1>12, <2>3
  <2>5. I!TypeOK'
    BY <1>1, <1>2, <2>1, <2>4 DEF IndexInv, IndexCore, IndexTypes, I!TypeOK, I!Id
  <2>6. \A v \in Update : /\ Working(v)' => job'[v].file \in CodeFile
                          /\ Locked(v)' <=> lock' = v
    BY <1>1, <1>2, <1>6, <1>9 DEF IndexInv, IndexCore, IndexTypes, Working, Locked
  <2> QED BY <1>1, <1>2, <1>6, <1>14, <2>5, <2>6 DEF IndexInv, IndexCore, IndexTypes
<1>21. RowsApart'
  <2>1. \A m \in Name : symbols'[m] # NoRow => symbols'[m].name = m /\ symbols'[m].id < next_id'
    BY <1>1, <1>2, <1>5, <1>8, <1>11, <1>18 DEF IndexInv, IndexCore, RowsApart
  <2>2. \A m, k \in Name :
          symbols'[m] # NoRow /\ symbols'[k] # NoRow /\ symbols'[m].id = symbols'[k].id => m = k
    BY <1>5, <1>8, <1>18 DEF IndexInv, IndexCore, RowsApart
  <2> QED BY <2>1, <2>2 DEF RowsApart
<1>22. I!NoGhosts'
  <2> SUFFICES ASSUME NEW i \in staged', i \notin ghosts' PROVE (i \in I!Ids(I!Rows))'
    BY DEF I!NoGhosts
  <2>1. CASE i = next_id
    BY <1>3, <1>5, <1>8, <2>1, RowIds
  <2>2. CASE i \in staged
    <3>1. i \notin ghosts
      BY <1>2
    <3>2. PICK m \in Name : symbols[m] # NoRow /\ symbols[m].id = i
      BY <2>2, <3>1, RowIds DEF IndexInv, IndexCore, I!NoGhosts
    <3>3. m # n
      BY <1>2, <3>2 DEF old
    <3> QED BY <1>5, <3>2, <3>3, RowIds
  <2> QED BY <1>2, <2>1, <2>2
<1>23. Unstaged' /\ Taken'
  <2>1. \A v \in Update \ {u} : ~Working(v) /\ ~Locked(v)
    BY <1>1, Holder DEF IndexInv, IndexCore
  <2>2. Unstaged'
    BY <1>6, <1>9, <2>1 DEF Unstaged, Working
  <2>3. \A f \in CodeFile : latest'[f] # Nobody => indexed'[f] = NoFile /\ job'[latest'[f]] # I!NoJob
    BY <1>2, <1>6, <1>9 DEF IndexInv, IndexCore, IndexTypes, Taken
  <2>4. Taken'
    BY <1>0, <1>1, <1>2, <1>6, <1>9, <2>1, <2>3 DEF IndexInv, IndexCore, Taken, Working, Locked
  <2> QED BY <2>2, <2>4
<1>24. IdsApart'
  <2> SUFFICES ASSUME NEW v \in Update, job'[v] # I!NoJob
               PROVE  /\ \A i \in Known(v)' : i < next_id'
                      /\ \A m, k \in Name :
                           job'[v].found[m] # 0 /\ job'[v].found[m] = job'[v].found[k] => m = k
    BY DEF IdsApart
  <2>1. \A i \in Known(v)' : i < next_id'
    <3>1. \A i \in Known(v) : i \in 1..MaxIds /\ i < next_id
      BY <1>11, JobTypes DEF IndexInv, IndexCore
    <3> QED BY <1>1, <1>2, <1>10, <3>1
  <2>2. CASE v # u
    BY <1>9, <2>1, <2>2 DEF IndexInv, IndexCore, IdsApart
  <2>3. CASE v = u
    <3>1. \A m \in Name : job[u].found[m] # 0 => job[u].found[m] # next_id
      BY <1>1, <1>11 DEF Known
    <3>2. \A m, k \in Name : new.found[m] # 0 /\ new.found[m] = new.found[k] => m = k
      BY <1>1, <1>7, <3>1 DEF IndexInv, IndexCore, IdsApart
    <3> QED BY <1>9, <2>1, <2>3, <3>2
  <2> QED BY <2>2, <2>3
<1>25. IndexCore'
  BY <1>20, <1>21, <1>22, <1>23, <1>24 DEF IndexCore
<1>26. ASSUME NEW f \in CodeFile, Through(u, f)', f # taken PROVE Staged(u, f)'
  <2>1. Through(u, f) /\ Staged(u, f)
    BY <1>1, <1>2, <1>6, <1>9, <1>26 DEF Through, IndexInv
  <2>2. \A m \in Name : In(m, f)' => job'[u].found[m] = job[u].found[m]
    BY <1>6, <1>7, <1>9, <1>16, <1>26
  <2> QED BY <1>6, <1>9, <1>19, <1>26, <2>1, <2>2, <1>0, OwnKeeps
<1>27. Staged(u, taken)'
  <2>1. Staged(u, taken)
    BY <1>1 DEF IndexInv, Through
  <2>2. \A m \in Name :
          /\ In(m, taken)' => m \in job[u].parsed[taken] \ (job[u].new \ {n})
          /\ m \in job[u].parsed[taken] \ ((job[u].new \ {n}) \cup contested') => In(m, taken)'
    <3>1. \A m \in Name : In(m, taken)' => m \in job[u].parsed[taken] \ (job[u].new \ {n})
      BY <1>0, <1>1, <1>15, <2>1 DEF Staged, Whole
    <3>2. \A m \in Name : m \in job[u].parsed[taken] \ ((job[u].new \ {n}) \cup contested') => In(m, taken)'
      BY <1>0, <1>1, <1>14, <1>15, <1>16, <2>1 DEF Staged, Whole
    <3> QED BY <3>1, <3>2
  <2>3. Searchable(taken, staged)'
    BY <1>2, <1>5, <1>8, <1>15, <2>1 DEF Staged, Searchable
  <2>4. Private(taken, u)'
    <3> SUFFICES ASSUME NEW m \in Name \ contested', In(m, taken)', NEW v \in Update \ {u}
                 PROVE  symbols'[m].id \notin Known(v)'
      BY DEF Private
    <3>1. CASE m = n
      BY <1>5, <1>8, <1>10, <1>11, <3>1
    <3>2. CASE m # n
      BY <1>5, <1>10, <1>14, <1>15, <2>1, <3>2 DEF Staged, Private
    <3> QED BY <3>1, <3>2
  <2>5. \A m \in Name \ contested' : In(m, taken)' => job'[u].found[m] = symbols'[m].id
    BY <1>5, <1>7, <1>8, <1>9, <1>14, <1>15, <2>1 DEF Staged
  <2>6. ASSUME NEW m \in Name \ contested', NEW k \in Name \ contested', In(m, taken)', In(k, taken)'
        PROVE  <<symbols'[m].id, symbols'[k].id>> \notin call_edges'
    <3>1. CASE m # n /\ k # n
      <4>1. In(m, taken) /\ In(k, taken) /\ symbols'[m] = symbols[m] /\ symbols'[k] = symbols[k]
        BY <1>5, <1>15, <2>6, <3>1
      <4>2. <<symbols[m].id, symbols[k].id>> \notin call_edges
        BY <1>14, <2>1, <4>1 DEF Staged
      <4> QED BY <1>13, <1>18, <3>1, <4>1, <4>2 DEF In
    <3>2. CASE m = n \/ k = n
      <4>1. old = NoRow
        BY <1>14, <3>2
      <4>2. \A e \in call_edges' : e[1] # next_id /\ e[2] # next_id
        BY <1>2, <1>12, <4>1 DEF Now
      <4> QED BY <1>5, <1>8, <3>2, <4>2
    <3> QED BY <3>1, <3>2
  <2>7. Whole(taken, job[u].parsed[taken],
              IF job[u].pc = "symbols" /\ taken = job[u].file THEN job[u].new ELSE {})'
    BY <1>6, <1>9, <2>2 DEF Whole
  <2> QED BY <2>3, <2>4, <2>5, <2>6, <2>7 DEF Staged
<1>28. \A f \in CodeFile : Standing(u, f) => f # taken
  BY <1>1 DEF Standing, Through, IndexInv, IndexCore, Taken
<1> QED BY <1>2, <1>6, <1>9, <1>19, <1>25, <1>26, <1>27, <1>28, RequestKeeps

\* The process stops: the requests are gone, and what was only staged.
LEMMA IndexCrashKeeps == IndexInv /\ I!Crash => IndexInv'
<1> SUFFICES ASSUME IndexInv, I!Crash PROVE IndexInv'
  OBVIOUS
<1> USE IndexAssumption
<1>1. /\ \A u \in Update : job'[u] = I!NoJob /\ Known(u)' = {} /\ ~Locked(u)' /\ ~Working(u)'
      /\ \A f \in CodeFile : latest'[f] = Nobody
  BY DEF I!Crash, Known, I!NoJob, Locked, Working
<1>2. IndexTypes'
  <2>1. I!TypeOK'
    BY DEF I!Crash, IndexInv, IndexCore, IndexTypes, I!TypeOK, I!Ids, I!Rows
  <2> QED BY <1>1, <2>1 DEF I!Crash, IndexInv, IndexCore, IndexTypes
<1>3. RowsApart' /\ I!NoGhosts'
  BY DEF I!Crash, IndexInv, IndexCore, RowsApart, I!NoGhosts, I!Ids, I!Rows
<1>4. IdsApart' /\ Taken' /\ Unstaged'
  BY <1>1 DEF IdsApart, Taken, Unstaged, I!NoJob, Working
<1>5. ASSUME NEW f \in CodeFile, indexed'[f] # NoFile PROVE Settled(f)'
  <2>1. Settled(f)
    BY <1>5 DEF I!Crash, IndexInv
  <2>2. Searchable(f, staged \cap docs)' /\ Private(f, Nobody)'
    BY <1>1, <2>1 DEF I!Crash, Settled, Searchable, Private, In
  <2>3. Whole(f, indexed[f], {})' /\ Connected(f, call_edges)'
    BY <2>1 DEF I!Crash, Settled, Whole, Connected, In
  <2> QED BY <2>2, <2>3 DEF I!Crash, Settled
<1> QED BY <1>1, <1>2, <1>3, <1>4, <1>5 DEF IndexInv, IndexCore, Through

\* Every step keeps the invariant.
LEMMA IndexStep == IndexInv /\ [I!Next]_(I!vars) => IndexInv'
<1> SUFFICES ASSUME IndexInv, [I!Next]_(I!vars) PROVE IndexInv'
  OBVIOUS
<1>1. CASE I!Next
  <2>1. ASSUME NEW u \in Update,
               \/ \E fs \in SUBSET CodeFile \ {{}} : I!Begin(u, fs)
               \/ \E f \in CodeFile : I!TakeFile(u, f)
               \/ \E names \in (SUBSET Name) \cup {NoFile} : I!ReplaceRows(u, names)
               \/ \E n \in Name : I!Upsert(u, n)
               \/ \E e \in I!Id \X I!Id : I!InsertEdge(u, e)
               \/ I!DeleteEdges(u) \/ I!NextFile(u) \/ I!Commit(u) \/ I!Done(u) \/ I!Fail(u)
        PROVE  IndexInv'
    BY <2>1, BeginKeeps, TakeFileKeeps, ReplaceRowsKeeps, UpsertKeeps, InsertKeeps,
       DeleteEdgesKeeps, NextFileKeeps, CommitKeeps, DoneKeeps, FailKeeps
  <2> QED BY <1>1, <2>1, IndexCrashKeeps DEF I!Next
<1>2. CASE UNCHANGED I!vars
  <2>1. UNCHANGED <<symbols, call_edges, docs, staged, lock, job, next_id,
                    latest, indexed, ghosts, contested>>
    BY <1>2 DEF I!vars
  <2>2. \A u \in Update : Known(u)' = Known(u)
    BY <2>1, KnownSame
  <2>3. IndexTypes'
    BY <2>1 DEF IndexInv, IndexCore, IndexTypes, I!TypeOK, Locked, Working, I!Ids, I!Rows
  <2>4. RowsApart' /\ I!NoGhosts'
    BY <2>1 DEF IndexInv, IndexCore, RowsApart, I!NoGhosts, I!Ids, I!Rows
  <2>5. IdsApart'
    BY <2>1, <2>2 DEF IndexInv, IndexCore, IdsApart
  <2>6. Taken' /\ Unstaged'
    BY <2>1 DEF IndexInv, IndexCore, Taken, Unstaged, Locked, Working, In
  <2>7. \A f \in CodeFile : Spared(f)
    BY <2>1, <2>2 DEF Spared, In
  <2>8. \A u \in Update, f \in CodeFile : Through(u, f)' =>
          IF job'[u].pc = "insert" THEN Committed(u, f)' ELSE Staged(u, f)'
    BY <2>1, <2>7, SparedThrough DEF IndexInv, Through
  <2>9. \A f \in CodeFile : indexed'[f] # NoFile => Settled(f)'
    BY <2>1, <2>7, SparedFacts DEF IndexInv, Settled
  <2> QED BY <2>3, <2>4, <2>5, <2>6, <2>8, <2>9 DEF IndexInv, IndexCore
<1> QED BY <1>1, <1>2

\* What the invariant says of rows is what is promised of the index.
LEMMA IndexPromise == IndexInv => IndexIsSound
<1> SUFFICES ASSUME IndexInv PROVE IndexIsSound
  OBVIOUS
<1>1. I!TypeOK /\ I!NoGhosts
  BY DEF IndexInv, IndexCore, IndexTypes
<1>2. I!RowIsSearchable
  <2> SUFFICES ASSUME NEW n \in Name, symbols[n] # NoRow, indexed[symbols[n].file] # NoFile
               PROVE  symbols[n].id \in docs
    BY DEF I!RowIsSearchable, I!Rows
  <2> QED BY RowTypes DEF IndexInv, IndexCore, Settled, Searchable
<1>3. I!FileIsIndexed
  <2> SUFFICES ASSUME NEW f \in CodeFile, indexed[f] # NoFile, indexed[f] \cap contested = {}
               PROVE  /\ {r.name : r \in I!RowsOf(f)} = indexed[f]
                      /\ \A r, q \in I!RowsOf(f) :
                           <<r.id, q.id>> \in call_edges <=> <<r.name, q.name>> \in Calls
    BY DEF I!FileIsIndexed
  <2>1. Settled(f) /\ indexed[f] \subseteq Name
    <3>1. indexed[f] \in (SUBSET Name) \cup {NoFile}
      BY <1>1 DEF I!TypeOK
    <3> QED BY <3>1 DEF IndexInv
  <2>2. \A r : r \in I!RowsOf(f) <=> \E n \in Name : In(n, f) /\ symbols[n] = r
    BY DEF I!RowsOf, I!Rows, In
  <2>3. \A n \in Name : In(n, f) => symbols[n].name = n /\ n \in indexed[f] /\ n \notin contested
    BY <2>1 DEF IndexInv, IndexCore, RowsApart, Settled, Whole, In
  <2>4. \A n \in indexed[f] : n \in Name /\ In(n, f)
    BY <2>1 DEF Settled, Whole
  <2>5. {r.name : r \in I!RowsOf(f)} = indexed[f]
    BY <2>2, <2>3, <2>4
  <2>6. ASSUME NEW r \in I!RowsOf(f), NEW q \in I!RowsOf(f)
        PROVE  <<r.id, q.id>> \in call_edges <=> <<r.name, q.name>> \in Calls
    <3>1. PICK m \in Name : In(m, f) /\ symbols[m] = r
      BY <2>2
    <3>2. PICK n \in Name : In(n, f) /\ symbols[n] = q
      BY <2>2
    <3> QED BY <2>1, <2>3, <3>1, <3>2 DEF Settled, Connected
  <2> QED BY <2>5, <2>6
<1> QED BY <1>1, <1>2, <1>3 DEF IndexIsSound

\* A file that was indexed to the end has its rows, its calls and its documents,
\* and a search finds nothing else but the known leftovers, whatever requests
\* interleave, fail or stop with the process (update_files_by_root).
THEOREM IndexStaysSound == I!Spec => []IndexIsSound
<1> QED BY IndexInit, IndexStep, IndexPromise, PTL DEF I!Spec

-----------------------------------------------------------------------------
(***************************************************************************)
(* The analytics sink.                                                     *)
(***************************************************************************)

Inc(s) == A!Increasing(s)
Elems(s) == A!ToSet(s)

\* A list without events.
LEMMA EmptyList == Inc(<<>>) /\ Elems(<<>>) = {}
<1> QED BY DEF Inc, Elems, A!Increasing, A!ToSet

\* An event later than those of a list goes to its end.
LEMMA AppendLater ==
    ASSUME NEW s \in Seq(Nat), NEW e \in Nat, Inc(s), \A x \in Elems(s) : x < e
    PROVE  Inc(Append(s, e)) /\ Elems(Append(s, e)) = Elems(s) \cup {e}
<1>1. /\ Len(Append(s, e)) = Len(s) + 1 /\ Append(s, e)[Len(s) + 1] = e
      /\ \A i \in 1..Len(s) : Append(s, e)[i] = s[i]
      /\ DOMAIN Append(s, e) = 1..(Len(s) + 1) /\ DOMAIN s = 1..Len(s) /\ Len(s) \in Nat
  OBVIOUS
<1>2. \A i \in 1..Len(s) : s[i] \in Elems(s) /\ s[i] \in Nat
  BY <1>1 DEF Elems, A!ToSet
<1>3. Inc(Append(s, e))
  <2> SUFFICES ASSUME NEW i \in 1..(Len(s) + 1), NEW j \in 1..(Len(s) + 1), i < j
               PROVE  Append(s, e)[i] < Append(s, e)[j]
    BY <1>1 DEF Inc, A!Increasing
  <2>1. i \in 1..Len(s)
    BY <1>1
  <2>2. CASE j = Len(s) + 1
    BY <1>1, <1>2, <2>1, <2>2
  <2>3. CASE j \in 1..Len(s)
    BY <1>1, <2>1, <2>3 DEF Inc, A!Increasing
  <2> QED BY <1>1, <2>2, <2>3
<1>4. Elems(Append(s, e)) = Elems(s) \cup {e}
  <2>1. \A x : x \in Elems(Append(s, e)) <=> \E i \in 1..(Len(s) + 1) : x = Append(s, e)[i]
    BY <1>1 DEF Elems, A!ToSet
  <2>2. \A x : x \in Elems(s) <=> \E i \in 1..Len(s) : x = s[i]
    BY <1>1 DEF Elems, A!ToSet
  <2>3. \A i : i \in 1..(Len(s) + 1) <=> i \in 1..Len(s) \/ i = Len(s) + 1
    BY <1>1
  <2> QED BY <1>1, <2>1, <2>2, <2>3
<1> QED BY <1>3, <1>4

\* What goes to the end of a list goes to the end of what the list ends.
LEMMA AppendToEnd ==
    ASSUME NEW S, NEW s \in Seq(S), NEW r \in Seq(S), NEW e \in S
    PROVE  s \o Append(r, e) = Append(s \o r, e)
<1>1. /\ Append(r, e) \in Seq(S) /\ Len(Append(r, e)) = Len(r) + 1 /\ Len(r) \in Nat
      /\ Append(r, e)[Len(r) + 1] = e /\ \A i \in 1..Len(r) : Append(r, e)[i] = r[i]
  OBVIOUS
<1>2. /\ s \o r \in Seq(S) /\ Len(s \o r) = Len(s) + Len(r) /\ Len(s) \in Nat
      /\ \A i \in 1..(Len(s) + Len(r)) :
           (s \o r)[i] = IF i <= Len(s) THEN s[i] ELSE r[i - Len(s)]
  BY ConcatProperties, LenProperties
<1>3. /\ s \o Append(r, e) \in Seq(S) /\ Len(s \o Append(r, e)) = Len(s) + Len(r) + 1
      /\ \A i \in 1..(Len(s) + (Len(r) + 1)) :
           (s \o Append(r, e))[i] = IF i <= Len(s) THEN s[i] ELSE Append(r, e)[i - Len(s)]
  BY <1>1, <1>2, ConcatProperties
<1> DEFINE q == s \o r
<1>4. /\ Append(q, e) \in Seq(S) /\ Len(Append(q, e)) = Len(s) + Len(r) + 1
      /\ Append(q, e)[Len(s) + Len(r) + 1] = e
      /\ \A i \in 1..(Len(s) + Len(r)) : Append(q, e)[i] = q[i]
  <2>1. q \in Seq(S) /\ Len(q) = Len(s) + Len(r)
    BY <1>2
  <2> HIDE DEF q
  <2> QED BY <1>1, <1>2, <2>1
<1>5. ASSUME NEW i \in 1..(Len(s) + Len(r) + 1)
      PROVE  (s \o Append(r, e))[i] = Append(q, e)[i]
  <2>1. CASE i <= Len(s)
    BY <1>1, <1>2, <1>3, <1>4, <2>1
  <2>2. CASE ~(i <= Len(s)) /\ i <= Len(s) + Len(r)
    <3>1. i - Len(s) \in 1..Len(r) /\ i \in 1..(Len(s) + Len(r))
      BY <1>1, <1>2, <2>2
    <3>2. (s \o Append(r, e))[i] = r[i - Len(s)]
      BY <1>1, <1>3, <2>2, <3>1
    <3>3. Append(q, e)[i] = r[i - Len(s)]
      BY <1>2, <1>4, <2>2, <3>1
    <3> QED BY <3>2, <3>3
  <2>3. CASE i = Len(s) + Len(r) + 1
    <3>1. i - Len(s) = Len(r) + 1 /\ ~(i <= Len(s))
      BY <1>1, <1>2, <2>3
    <3>2. (s \o Append(r, e))[i] = e
      BY <1>1, <1>2, <1>3, <2>3, <3>1
    <3> QED BY <1>4, <2>3, <3>2
  <2> QED BY <1>1, <1>2, <2>1, <2>2, <2>3
<1> QED BY <1>3, <1>4, <1>5, SeqEqual

\* The first of a list comes before the others.
LEMMA FirstOfList ==
    ASSUME NEW s \in Seq(Nat), Inc(s), s # <<>>
    PROVE  /\ Inc(Tail(s)) /\ Elems(s) = {Head(s)} \cup Elems(Tail(s))
           /\ \A x \in Elems(Tail(s)) : Head(s) < x
<1>1. /\ Len(s) \in Nat \ {0} /\ DOMAIN s = 1..Len(s) /\ Head(s) = s[1]
      /\ Tail(s) \in Seq(Nat) /\ Len(Tail(s)) = Len(s) - 1
      /\ DOMAIN Tail(s) = 1..(Len(s) - 1) /\ \A i \in 1..(Len(s) - 1) : Tail(s)[i] = s[i + 1]
  BY HeadTailProperties, LenProperties, EmptySeq
<1>2. Inc(Tail(s))
  <2> SUFFICES ASSUME NEW i \in 1..(Len(s) - 1), NEW j \in 1..(Len(s) - 1), i < j
               PROVE  Tail(s)[i] < Tail(s)[j]
    BY <1>1 DEF Inc, A!Increasing
  <2>1. i + 1 \in DOMAIN s /\ j + 1 \in DOMAIN s /\ i + 1 < j + 1
    BY <1>1
  <2> QED BY <1>1, <2>1 DEF Inc, A!Increasing
<1>3. \A x : x \in Elems(Tail(s)) <=> \E i \in 1..(Len(s) - 1) : x = s[i + 1]
  BY <1>1 DEF Elems, A!ToSet
<1>4. \A x : x \in Elems(s) <=> \E i \in 1..Len(s) : x = s[i]
  BY <1>1 DEF Elems, A!ToSet
<1>5. Elems(s) = {Head(s)} \cup Elems(Tail(s))
  <2>1. \A i \in 1..Len(s) : i = 1 \/ (i - 1 \in 1..(Len(s) - 1) /\ (i - 1) + 1 = i)
    BY <1>1
  <2>2. \A i \in 1..(Len(s) - 1) : i + 1 \in 1..Len(s)
    BY <1>1
  <2>3. 1 \in 1..Len(s)
    BY <1>1
  <2>4. ASSUME NEW x \in Elems(s) PROVE x = Head(s) \/ x \in Elems(Tail(s))
    <3>1. PICK i \in 1..Len(s) : x = s[i]
      BY <1>4
    <3> QED BY <1>1, <1>3, <2>1, <3>1
  <2>5. ASSUME NEW x \in Elems(Tail(s)) PROVE x \in Elems(s)
    <3>1. PICK i \in 1..(Len(s) - 1) : x = s[i + 1]
      BY <1>3, <2>5
    <3> QED BY <1>4, <2>2, <3>1
  <2>6. Head(s) \in Elems(s)
    BY <1>1, <1>4, <2>3
  <2> QED BY <2>4, <2>5, <2>6
<1>6. \A x \in Elems(Tail(s)) : Head(s) < x
  <2> SUFFICES ASSUME NEW i \in 1..(Len(s) - 1) PROVE s[1] < s[i + 1]
    BY <1>1, <1>3
  <2>1. 1 \in DOMAIN s /\ i + 1 \in DOMAIN s /\ 1 < i + 1
    BY <1>1
  <2> QED BY <2>1 DEF Inc, A!Increasing
<1> QED BY <1>2, <1>5, <1>6

\* What is in order is in order without its end, and no event of the end is in
\* the rest.
LEMMA BeginningOfList ==
    ASSUME NEW s \in Seq(Nat), NEW r \in Seq(Nat), Inc(s \o r)
    PROVE  Inc(s) /\ Elems(s \o r) = Elems(s) \cup Elems(r) /\ Elems(s) \cap Elems(r) = {}
<1>1. /\ Len(s) \in Nat /\ DOMAIN s = 1..Len(s) /\ Len(r) \in Nat /\ DOMAIN r = 1..Len(r)
      /\ s \o r \in Seq(Nat) /\ DOMAIN (s \o r) = 1..(Len(s) + Len(r))
      /\ \A i \in 1..(Len(s) + Len(r)) :
           (s \o r)[i] = IF i <= Len(s) THEN s[i] ELSE r[i - Len(s)]
  BY ConcatProperties, LenProperties
<1>2. \A i \in 1..Len(s) : i \in 1..(Len(s) + Len(r)) /\ (s \o r)[i] = s[i]
  BY <1>1
<1>3. \A j \in 1..Len(r) : /\ Len(s) + j \in 1..(Len(s) + Len(r))
                           /\ (s \o r)[Len(s) + j] = r[j]
  <2> SUFFICES ASSUME NEW j \in 1..Len(r)
               PROVE  /\ Len(s) + j \in 1..(Len(s) + Len(r))
                      /\ (s \o r)[Len(s) + j] = r[j]
    OBVIOUS
  <2>1. Len(s) + j \in 1..(Len(s) + Len(r)) /\ ~(Len(s) + j <= Len(s)) /\ Len(s) + j - Len(s) = j
    BY <1>1
  <2> QED BY <1>1, <2>1
<1>4. Inc(s)
  <2> SUFFICES ASSUME NEW i \in 1..Len(s), NEW j \in 1..Len(s), i < j PROVE s[i] < s[j]
    BY <1>1 DEF Inc, A!Increasing
  <2> QED BY <1>1, <1>2 DEF Inc, A!Increasing
<1>5. ASSUME NEW i \in 1..Len(s), NEW j \in 1..Len(r) PROVE s[i] < r[j]
  <2>1. i < Len(s) + j
    BY <1>1
  <2>2. (s \o r)[i] < (s \o r)[Len(s) + j]
    BY <1>1, <1>2, <1>3, <2>1 DEF Inc, A!Increasing
  <2> QED BY <1>2, <1>3, <2>2
<1>6. \A x : x \in Elems(s) <=> \E i \in 1..Len(s) : x = s[i]
  BY <1>1 DEF Elems, A!ToSet
<1>7. \A x : x \in Elems(r) <=> \E i \in 1..Len(r) : x = r[i]
  BY <1>1 DEF Elems, A!ToSet
<1>8. \A x : x \in Elems(s \o r) <=> \E i \in 1..(Len(s) + Len(r)) : x = (s \o r)[i]
  BY <1>1 DEF Elems, A!ToSet
<1>9. Elems(s) \cap Elems(r) = {}
  <2> SUFFICES ASSUME NEW i \in 1..Len(s), NEW j \in 1..Len(r), s[i] = r[j] PROVE FALSE
    BY <1>6, <1>7
  <2>1. s[i] \in Nat /\ s[i] < r[j]
    BY <1>1, <1>5
  <2> QED BY <2>1
<1>10. ASSUME NEW x \in Elems(s \o r) PROVE x \in Elems(s) \/ x \in Elems(r)
  <2>1. PICK i \in 1..(Len(s) + Len(r)) : x = (s \o r)[i]
    BY <1>8
  <2>2. CASE i <= Len(s)
    BY <1>1, <1>6, <2>1, <2>2
  <2>3. CASE ~(i <= Len(s))
    <3>1. i - Len(s) \in 1..Len(r)
      BY <1>1, <2>3
    <3> QED BY <1>1, <1>7, <2>1, <2>3, <3>1
  <2> QED BY <2>2, <2>3
<1>11. ASSUME NEW x \in Elems(s) PROVE x \in Elems(s \o r)
  BY <1>2, <1>6, <1>8
<1>12. ASSUME NEW x \in Elems(r) PROVE x \in Elems(s \o r)
  <2>1. PICK j \in 1..Len(r) : x = r[j]
    BY <1>7
  <2> QED BY <1>3, <1>8, <2>1
<1> QED BY <1>4, <1>9, <1>10, <1>11, <1>12

\* The events a function from tables to lists holds.
TakenOf(way) == UNION {Elems(way[t]) : t \in A!TableSet}

\* EachEventOnce, of what is on its way to each table, on the channel, refused
\* and lost.
Once(way, ch, tab, refused, missed) ==
    /\ \A t \in A!TableSet : Inc(way[t]) /\ \A e \in Elems(way[t]) : tab[e] = t
    /\ Inc(ch) /\ \A e \in TakenOf(way), x \in Elems(ch) : e < x
    /\ TakenOf(way) \cup Elems(ch) \cup refused \cup missed = DOMAIN tab
    /\ (TakenOf(way) \cup Elems(ch)) \cap (refused \cup missed) = {}
    /\ refused \cap missed = {}

\* The next event is refused, or goes to the end of the channel.
LEMMA OnceEmitted ==
    ASSUME NEW way \in [A!TableSet -> Seq(Nat)], NEW ch \in Seq(Nat),
           NEW tab \in Seq(A!TableSet), NEW refused, NEW missed,
           Once(way, ch, tab, refused, missed), NEW t \in A!TableSet
    PROVE  /\ Once(way, ch, Append(tab, t), refused \cup {Len(tab) + 1}, missed)
           /\ Once(way, Append(ch, Len(tab) + 1), Append(tab, t), refused, missed)
<1> DEFINE e == Len(tab) + 1
           next == Append(tab, t)
<1>1. /\ DOMAIN tab = 1..Len(tab) /\ Len(tab) \in Nat /\ DOMAIN next = 1..(Len(tab) + 1)
      /\ \A i \in 1..Len(tab) : next[i] = tab[i]
  OBVIOUS
<1>2. e \in Nat /\ e \notin DOMAIN tab /\ DOMAIN next = DOMAIN tab \cup {e}
  <2>1. \A i : i \in 1..(Len(tab) + 1) <=> i \in 1..Len(tab) \/ i = Len(tab) + 1
    BY <1>1
  <2>2. e \in Nat /\ e \notin DOMAIN tab
    BY <1>1
  <2> HIDE DEF next
  <2> QED BY <1>1, <2>1, <2>2
<1>3. \A x \in TakenOf(way) \cup Elems(ch) : x \in DOMAIN tab /\ x < e
  BY <1>1 DEF Once
<1>4. ASSUME NEW u \in A!TableSet
      PROVE  Inc(way[u]) /\ \A x \in Elems(way[u]) : next[x] = u
  <2>1. \A x \in Elems(way[u]) : x \in TakenOf(way)
    BY DEF TakenOf
  <2> QED BY <1>1, <1>3, <2>1 DEF Once
<1>5. e \notin refused \cup missed
  BY <1>2 DEF Once
<1> HIDE DEF e, next
<1>6. Once(way, ch, next, refused \cup {e}, missed)
  BY <1>2, <1>3, <1>4, <1>5 DEF Once
<1>7. Inc(Append(ch, e)) /\ Elems(Append(ch, e)) = Elems(ch) \cup {e}
  BY <1>2, <1>3, AppendLater DEF Once
<1>8. Once(way, Append(ch, e), next, refused, missed)
  <2>1. \A x \in TakenOf(way), y \in Elems(Append(ch, e)) : x < y
    BY <1>3, <1>7 DEF Once
  <2> QED BY <1>2, <1>3, <1>4, <1>5, <1>7, <2>1 DEF Once
<1> QED BY <1>6, <1>8 DEF e, next

\* The first event of the channel goes to the end of the list of its table.
LEMMA OnceTaken ==
    ASSUME NEW way \in [A!TableSet -> Seq(Nat)], NEW ch \in Seq(Nat),
           NEW tab \in Seq(A!TableSet), NEW refused, NEW missed,
           Once(way, ch, tab, refused, missed), ch # <<>>
    PROVE  Once([way EXCEPT ![tab[Head(ch)]] = Append(@, Head(ch))], Tail(ch), tab, refused, missed)
<1> DEFINE e == Head(ch)
           t == tab[e]
           next == [way EXCEPT ![t] = Append(@, e)]
<1>1. /\ Inc(Tail(ch)) /\ Elems(ch) = {e} \cup Elems(Tail(ch))
      /\ \A x \in Elems(Tail(ch)) : e < x
  BY FirstOfList DEF Once
<1>2. e \in Nat
  BY HeadTailProperties
<1>3. t \in A!TableSet
  BY <1>1, ElementOfSeq, LenProperties DEF Once
<1>4. \A x \in TakenOf(way) : x < e
  BY <1>1 DEF Once
<1> HIDE DEF e
<1>5. \A x \in Elems(way[t]) : x < e
  BY <1>3, <1>4 DEF TakenOf
<1>6. Inc(Append(way[t], e)) /\ Elems(Append(way[t], e)) = Elems(way[t]) \cup {e}
  BY <1>2, <1>3, <1>5, AppendLater DEF Once
<1>7. tab[e] = t
  OBVIOUS
<1> HIDE DEF t
<1>8. next[t] = Append(way[t], e) /\ \A u \in A!TableSet \ {t} : next[u] = way[u]
  BY <1>3
<1> HIDE DEF next
<1>9. TakenOf(next) = TakenOf(way) \cup {e}
  <2>1. ASSUME NEW x \in TakenOf(next) PROVE x \in TakenOf(way) \/ x = e
    <3>1. PICK u \in A!TableSet : x \in Elems(next[u])
      BY DEF TakenOf
    <3>2. x \in Elems(way[u]) \/ x = e
      BY <1>6, <1>8, <3>1
    <3> QED BY <3>2 DEF TakenOf
  <2>2. ASSUME NEW x \in TakenOf(way) PROVE x \in TakenOf(next)
    <3>1. PICK u \in A!TableSet : x \in Elems(way[u])
      BY DEF TakenOf
    <3>2. x \in Elems(next[u])
      BY <1>6, <1>8, <3>1
    <3> QED BY <3>2 DEF TakenOf
  <2>3. e \in TakenOf(next)
    BY <1>3, <1>6, <1>8 DEF TakenOf
  <2> QED BY <2>1, <2>2, <2>3
<1>10. \A u \in A!TableSet : Inc(next[u]) /\ \A x \in Elems(next[u]) : tab[x] = u
  BY <1>6, <1>7, <1>8 DEF Once
<1>11. \A x \in TakenOf(next), y \in Elems(Tail(ch)) : x < y
  BY <1>1, <1>9 DEF Once
<1>12. Once(next, Tail(ch), tab, refused, missed)
  BY <1>1, <1>9, <1>10, <1>11 DEF Once
<1> QED BY <1>12 DEF next, t, e

\* The end of the list of a table is lost.
LEMMA OnceMissed ==
    ASSUME NEW way \in [A!TableSet -> Seq(Nat)], NEW ch, NEW tab, NEW refused, NEW missed,
           Once(way, ch, tab, refused, missed), NEW t \in A!TableSet,
           NEW s \in Seq(Nat), NEW r \in Seq(Nat), way[t] = s \o r
    PROVE  Once([way EXCEPT ![t] = s], ch, tab, refused, missed \cup Elems(r))
<1> DEFINE next == [way EXCEPT ![t] = s]
<1>1. Inc(s) /\ Elems(way[t]) = Elems(s) \cup Elems(r) /\ Elems(s) \cap Elems(r) = {}
  <2>1. Inc(s \o r)
    BY DEF Once
  <2> QED BY <2>1, BeginningOfList
<1>2. next[t] = s /\ \A u \in A!TableSet \ {t} : next[u] = way[u]
  OBVIOUS
<1> HIDE DEF next
<1>3. \A u \in A!TableSet : Inc(next[u]) /\ Elems(next[u]) \subseteq Elems(way[u])
  BY <1>1, <1>2 DEF Once
<1>4. \A u \in A!TableSet \ {t} : \A x \in Elems(way[u]) : x \notin Elems(r)
  BY <1>1 DEF Once
<1>5. TakenOf(next) = TakenOf(way) \ Elems(r)
  <2>1. ASSUME NEW x \in TakenOf(next) PROVE x \in TakenOf(way) /\ x \notin Elems(r)
    <3>1. PICK u \in A!TableSet : x \in Elems(next[u])
      BY DEF TakenOf
    <3>2. x \in TakenOf(way)
      BY <1>3, <3>1 DEF TakenOf
    <3> QED BY <1>1, <1>2, <1>3, <1>4, <3>1, <3>2
  <2>2. ASSUME NEW x \in TakenOf(way), x \notin Elems(r) PROVE x \in TakenOf(next)
    <3>1. PICK u \in A!TableSet : x \in Elems(way[u])
      BY DEF TakenOf
    <3>2. x \in Elems(next[u])
      BY <1>1, <1>2, <2>2, <3>1
    <3> QED BY <3>2 DEF TakenOf
  <2> QED BY <2>1, <2>2
<1>6. Elems(r) \subseteq TakenOf(way)
  BY <1>1 DEF TakenOf
<1>7. \A x \in Elems(r) : x \notin Elems(ch)
  <2>1. \A x \in Elems(r) : x \in Nat
    BY ElementOfSeq, LenProperties DEF Elems, A!ToSet
  <2>2. ASSUME NEW x \in Elems(r), x \in Elems(ch) PROVE FALSE
    <3>1. x < x
      BY <1>6, <2>2 DEF Once
    <3> QED BY <2>1, <3>1
  <2> QED BY <2>2
<1>8. \A u \in A!TableSet : \A x \in Elems(next[u]) : tab[x] = u
  BY <1>3 DEF Once
<1>9. \A x \in TakenOf(next), y \in Elems(ch) : x < y
  BY <1>5 DEF Once
<1>10. Once(next, ch, tab, refused, missed \cup Elems(r))
  BY <1>3, <1>5, <1>6, <1>7, <1>8, <1>9 DEF Once
<1> QED BY <1>10 DEF next

\* What is on its way to each table.
Ways == [t \in A!TableSet |-> A!Way(t)]

\* While a batch is written the next one is empty, and what is not written yet
\* belongs to a table that is still to come.
Flushing ==
    /\ todo # <<>> => batch = A!NoRows
    /\ \A t \in A!TableSet : writing[t] # <<>> => \E k \in DOMAIN todo : todo[k] = t

\* The next tick finds a batch before it is two intervals old.
Timely == batch # A!NoRows => age + due < 2 * flush_interval

SinkInv == A!TypeOK /\ A!EachEventOnce /\ Flushing /\ Timely

\* EachEventOnce says Once of the variables.
LEMMA OnceMeans == A!EachEventOnce <=> Once(Ways, channel, table, dropped, lost)
<1>1. \A t \in A!TableSet : Ways[t] = A!Way(t)
  BY DEF Ways
<1>2. TakenOf(Ways) = A!Taken
  BY <1>1 DEF TakenOf, A!Taken, Elems
<1> QED BY <1>1, <1>2 DEF A!EachEventOnce, Once, A!OnWay, A!Events, Inc, Elems

\* The lists of the sink are lists of numbers.
LEMMA SinkTypes ==
    ASSUME A!TypeOK
    PROVE  /\ A!Events = 1..Len(table) /\ Len(table) \in Nat /\ channel \in Seq(Nat)
           /\ Ways \in [A!TableSet -> Seq(Nat)]
           /\ \A t \in A!TableSet :
                /\ inserted[t] \in Seq(Nat) /\ writing[t] \in Seq(Nat) /\ batch[t] \in Seq(Nat)
                /\ inserted[t] \in Seq(A!Events) /\ writing[t] \in Seq(A!Events)
                /\ batch[t] \in Seq(A!Events)
<1>1. A!Events = 1..Len(table) /\ Len(table) \in Nat
  BY DEF A!TypeOK, A!Events
<1>2. A!Events \subseteq Nat
  BY <1>1
<1>3. \A s \in Seq(A!Events) : s \in Seq(Nat)
  BY <1>2, SeqMonotonic
<1>4. channel \in Seq(Nat)
  BY <1>3 DEF A!TypeOK
<1>5. ASSUME NEW t \in A!TableSet
      PROVE  /\ inserted[t] \in Seq(A!Events) /\ writing[t] \in Seq(A!Events)
             /\ batch[t] \in Seq(A!Events)
  BY DEF A!TypeOK
<1>6. ASSUME NEW t \in A!TableSet PROVE A!Way(t) \in Seq(Nat)
  <2>1. inserted[t] \in Seq(Nat) /\ writing[t] \in Seq(Nat) /\ batch[t] \in Seq(Nat)
    BY <1>3, <1>5
  <2>2. inserted[t] \o writing[t] \in Seq(Nat)
    BY <2>1, ConcatProperties
  <2> QED BY <2>1, <2>2, ConcatProperties DEF A!Way
<1> QED BY <1>1, <1>3, <1>4, <1>5, <1>6 DEF Ways

\* The sink starts empty, before its first tick.
LEMMA SinkInit == A!Init => SinkInv
<1> SUFFICES ASSUME A!Init PROVE SinkInv
  OBVIOUS
<1> USE SinkAssumption DEF A!Init, A!NoRows
<1>1. A!TypeOK
  <2>1. \A S : <<>> \in Seq(S)
    BY EmptySeq
  <2>2. [t \in A!TableSet |-> <<>>] \in [A!TableSet -> Seq(A!Events)]
    BY <2>1
  <2>3. table \in Seq(A!TableSet) /\ channel \in Seq(A!Events) /\ todo \in Seq(A!TableSet)
    BY <2>1
  <2>4. /\ handles \in 0..Handles /\ due \in 0..flush_interval /\ spent \in 0..MaxWrite
        /\ age \in Nat
    OBVIOUS
  <2>6. exited \in BOOLEAN
    OBVIOUS
  <2>7. Len(channel) <= channel_capacity
    OBVIOUS
  <2>5. dropped \cup lost = {} /\ {batch, writing, inserted} = {A!NoRows}
    OBVIOUS
  <2> QED BY ONLY <2>2, <2>3, <2>4, <2>5, <2>6, <2>7 DEF A!TypeOK, A!NoRows
<1>2. A!EachEventOnce
  <2>1. ASSUME NEW t \in A!TableSet PROVE A!Way(t) = <<>>
    <3>1. inserted[t] = <<>> /\ writing[t] = <<>> /\ batch[t] = <<>>
      OBVIOUS
    <3> QED BY <3>1, ConcatEmptySeq, EmptySeq DEF A!Way
  <2>2. A!Taken = {}
    BY <2>1, EmptyList DEF A!Taken, Elems
  <2>3. DOMAIN table = {}
    OBVIOUS
  <2> QED BY <2>1, <2>2, <2>3, EmptyList DEF A!EachEventOnce, A!OnWay, A!Events, Inc, Elems
<1> QED BY <1>1, <1>2 DEF SinkInv, Flushing, Timely

\* A step that moves no event keeps them apart.
LEMMA WaysStay ==
    ASSUME A!EachEventOnce, \A t \in A!TableSet : A!Way(t)' = A!Way(t),
           UNCHANGED <<channel, table, dropped, lost>>
    PROVE  A!EachEventOnce'
<1>1. Ways' = Ways
  BY DEF Ways
<1>2. A!EachEventOnce' <=> Once(Ways, channel, table, dropped, lost)'
  BY OnceMeans, PTL
<1> QED BY <1>1, <1>2, OnceMeans

\* A task that waits has written everything it took.
LEMMA WaitingWays ==
    ASSUME SinkInv, A!Waiting
    PROVE  \A t \in A!TableSet : /\ writing[t] = <<>>
                                 /\ A!Way(t) = inserted[t] \o batch[t]
<1> SUFFICES ASSUME NEW t \in A!TableSet
             PROVE  writing[t] = <<>> /\ A!Way(t) = inserted[t] \o batch[t]
  OBVIOUS
<1>1. writing[t] = <<>>
  BY DEF SinkInv, Flushing, A!Waiting
<1>2. inserted[t] \o <<>> = inserted[t]
  BY SinkTypes, ConcatEmptySeq DEF SinkInv
<1> QED BY <1>1, <1>2 DEF A!Way

\* A batch is kept, or its flush begins.
LEMMA TakeOrKeep ==
    ASSUME SinkInv, A!Waiting, NEW b \in [A!TableSet -> Seq(A!Events)], NEW a \in Nat,
           A!Take(b) \/ A!Keep(b, a), inserted' = inserted
    PROVE  /\ \A t \in A!TableSet : A!Way(t)' = inserted[t] \o b[t]
           /\ Flushing' /\ age' \in Nat /\ todo' \in Seq(A!TableSet)
           /\ {batch', writing'} \subseteq [A!TableSet -> Seq(A!Events)]
           /\ batch' # A!NoRows => batch' = b /\ age' = a
<1>1. /\ A!NoRows \in [A!TableSet -> Seq(A!Events)] /\ \A t \in A!TableSet : A!NoRows[t] = <<>>
      /\ Tables \in Seq(A!TableSet) /\ \A t \in A!TableSet : \E k \in DOMAIN Tables : Tables[k] = t
  BY SinkAssumption, EmptySeq DEF A!NoRows, A!TableSet
<1>2. /\ {batch', writing'} \subseteq [A!TableSet -> Seq(A!Events)] /\ todo' \in Seq(A!TableSet)
      /\ age' \in Nat
      /\ batch' # A!NoRows => batch' = b /\ age' = a
  <2>1. /\ batch \in [A!TableSet -> Seq(A!Events)] /\ writing \in [A!TableSet -> Seq(A!Events)]
        /\ todo \in Seq(A!TableSet)
    BY DEF SinkInv, A!TypeOK
  <2>2. CASE A!Take(b)
    BY <1>1, <2>2 DEF A!Take
  <2>3. CASE A!Keep(b, a)
    BY <2>1, <2>3 DEF A!Keep
  <2> QED BY <2>2, <2>3
<1>3. Flushing'
  <2>1. CASE A!Take(b)
    BY <1>1, <2>1 DEF A!Take, Flushing, A!NoRows
  <2>2. CASE A!Keep(b, a)
    BY <2>2, WaitingWays DEF A!Keep, Flushing, A!Waiting, A!NoRows
  <2> QED BY <2>1, <2>2
<1>4. ASSUME NEW t \in A!TableSet PROVE A!Way(t)' = inserted[t] \o b[t]
  <2>1. inserted[t] \in Seq(A!Events) /\ b[t] \in Seq(A!Events) /\ writing[t] = <<>>
    BY SinkTypes, WaitingWays DEF SinkInv
  <2>2. inserted[t] \o b[t] \in Seq(A!Events) /\ inserted[t] \o <<>> = inserted[t]
    BY <2>1, ConcatProperties, ConcatEmptySeq
  <2>3. (inserted[t] \o b[t]) \o <<>> = inserted[t] \o b[t]
    BY <2>2, ConcatEmptySeq
  <2>4. A!Way(t)' = (inserted[t] \o writing'[t]) \o batch'[t]
    BY DEF A!Way
  <2>5. CASE A!Take(b)
    <3>1. writing'[t] = b[t] /\ batch'[t] = <<>>
      BY <1>1, <2>5 DEF A!Take
    <3> QED BY <2>3, <2>4, <3>1
  <2>6. CASE A!Keep(b, a)
    <3>1. writing'[t] = <<>> /\ batch'[t] = b[t]
      BY <2>1, <2>6 DEF A!Keep
    <3> QED BY <2>2, <2>4, <3>1
  <2> QED BY <2>5, <2>6
<1> QED BY <1>2, <1>3, <1>4

\* An event is refused, or goes to the channel.
LEMMA EmitKeeps ==
    ASSUME SinkInv, NEW t \in A!TableSet, A!emit(t)
    PROVE  SinkInv'
<1> USE SinkAssumption
<1>1. /\ table' = Append(table, t) /\ table \in Seq(A!TableSet) /\ Len(table) \in Nat
      /\ table' \in Seq(A!TableSet) /\ Len(table') = Len(table) + 1
      /\ A!Events = 1..Len(table) /\ A!Events' = 1..(Len(table) + 1)
      /\ UNCHANGED <<handles, batch, age, due, writing, todo, spent, exited, inserted, lost>>
  BY DEF A!emit, SinkInv, A!TypeOK, A!Events
<1>2. A!Events \subseteq A!Events' /\ Len(table) + 1 \in A!Events'
  BY <1>1
<1>3. \A s \in Seq(A!Events) : s \in Seq(A!Events')
  BY <1>2, SeqMonotonic
<1>4. A!TypeOK'
  <2>1. {batch, writing, inserted} \subseteq [A!TableSet -> Seq(A!Events')]
    BY <1>3 DEF SinkInv, A!TypeOK
  <2>2. channel' \in Seq(A!Events') /\ Len(channel') <= channel_capacity
    <3>1. channel \in Seq(A!Events') /\ Len(channel) <= channel_capacity
      BY <1>3 DEF SinkInv, A!TypeOK
    <3>2. CASE channel' = channel
      BY <3>1, <3>2
    <3>3. CASE ~A!Refused /\ channel' = Append(channel, Len(table) + 1)
      <4>1. Len(channel) \in Nat /\ Len(channel) < channel_capacity
        BY <3>1, <3>3, LenProperties DEF A!Refused
      <4> QED BY <1>2, <3>1, <3>3, <4>1
    <3> QED BY <3>2, <3>3 DEF A!emit
  <2>3. dropped' \cup lost' \subseteq A!Events'
    BY <1>1, <1>2 DEF A!emit, SinkInv, A!TypeOK
  <2> QED BY <1>1, <2>1, <2>2, <2>3 DEF SinkInv, A!TypeOK
<1>5. A!EachEventOnce'
  <2>1. Ways' = Ways
    BY <1>1 DEF Ways, A!Way
  <2>2. \/ dropped' = dropped \cup {Len(table) + 1} /\ channel' = channel
        \/ dropped' = dropped /\ channel' = Append(channel, Len(table) + 1)
    BY DEF A!emit
  <2>3. Once(Ways, channel, table, dropped, lost)
    BY OnceMeans DEF SinkInv
  <2>4. /\ Once(Ways, channel, Append(table, t), dropped \cup {Len(table) + 1}, lost)
        /\ Once(Ways, Append(channel, Len(table) + 1), Append(table, t), dropped, lost)
    <3>1. Ways \in [A!TableSet -> Seq(Nat)] /\ channel \in Seq(Nat)
      BY SinkTypes DEF SinkInv
    <3> QED BY <1>1, <2>3, <3>1, OnceEmitted
  <2>6. Once(Ways, channel', table', dropped', lost)
    BY <1>1, <2>2, <2>4
  <2>5. A!EachEventOnce' <=> Once(Ways, channel, table, dropped, lost)'
    BY OnceMeans, PTL
  <2> QED BY <1>1, <2>1, <2>5, <2>6
<1> QED BY <1>1, <1>4, <1>5 DEF SinkInv, Flushing, Timely

\* The task takes an event from the channel, and flushes a batch that is full.
LEMMA TakingKeeps ==
    ASSUME SinkInv, A!Receive
    PROVE  SinkInv'
<1>0. PICK e, u : e = Head(channel) /\ u = table[e]
  OBVIOUS
<1> DEFINE b == A!Pushed(batch, e)
           a == IF batch = A!NoRows THEN 0 ELSE age
<1>1. /\ A!Waiting /\ channel # <<>> /\ channel' = Tail(channel)
      /\ A!Take(b) \/ A!Keep(b, a)
      /\ UNCHANGED <<handles, table, due, spent, exited, inserted, dropped, lost>>
  BY <1>0 DEF A!Receive
<1>2. /\ channel \in Seq(A!Events) /\ e \in A!Events /\ Tail(channel) \in Seq(A!Events)
      /\ Len(Tail(channel)) = Len(channel) - 1 /\ Len(channel) \in Nat
  <2>1. channel \in Seq(A!Events) /\ channel # <<>>
    BY <1>1 DEF SinkInv, A!TypeOK
  <2> QED BY <1>0, <2>1, HeadTailProperties, LenProperties
<1>3. u \in A!TableSet
  BY <1>0, <1>2, SinkTypes, ElementOfSeq DEF SinkInv, A!TypeOK
<1>4. a \in Nat
  BY DEF SinkInv, A!TypeOK
<1>5. /\ b \in [A!TableSet -> Seq(A!Events)] /\ b[u] = Append(batch[u], e)
      /\ \A t \in A!TableSet \ {u} : b[t] = batch[t]
  <2>1. batch \in [A!TableSet -> Seq(A!Events)]
    BY DEF SinkInv, A!TypeOK
  <2>2. batch[u] \in Seq(A!Events)
    BY <1>3, <2>1
  <2>3. Append(batch[u], e) \in Seq(A!Events)
    BY <1>2, <2>2
  <2> QED BY <1>0, <1>3, <2>1, <2>3 DEF A!Pushed
<1> HIDE DEF a, b
<1>6. /\ \A t \in A!TableSet : A!Way(t)' = inserted[t] \o b[t]
      /\ Flushing' /\ age' \in Nat /\ todo' \in Seq(A!TableSet)
      /\ {batch', writing'} \subseteq [A!TableSet -> Seq(A!Events)]
      /\ batch' # A!NoRows => batch' = b /\ age' = a
  BY <1>1, <1>4, <1>5, TakeOrKeep
<1>7. \A t \in A!TableSet : A!Way(t) = inserted[t] \o batch[t]
  BY <1>1, WaitingWays
<1>8. A!TypeOK'
  <2>1. A!Events' = A!Events
    BY <1>1 DEF A!Events
  <2>2. inserted \in [A!TableSet -> Seq(A!Events)] /\ Len(Tail(channel)) <= channel_capacity
    BY <1>2, SinkAssumption DEF SinkInv, A!TypeOK
  <2> QED BY <1>1, <1>2, <1>6, <2>1, <2>2 DEF SinkInv, A!TypeOK
<1>9. A!EachEventOnce'
  <2>1. Ways' = [Ways EXCEPT ![u] = Append(@, e)]
    <3>1. A!Way(u)' = Append(A!Way(u), e)
      <4>1. A!Way(u)' = inserted[u] \o Append(batch[u], e) /\ A!Way(u) = inserted[u] \o batch[u]
        BY <1>3, <1>5, <1>6, <1>7
      <4>2. inserted[u] \in Seq(A!Events) /\ batch[u] \in Seq(A!Events)
        BY <1>3, SinkTypes DEF SinkInv
      <4>3. inserted[u] \o Append(batch[u], e) = Append(inserted[u] \o batch[u], e)
        <5>1. PICK r, q : r = inserted[u] /\ q = batch[u]
          OBVIOUS
        <5>2. r \in Seq(A!Events) /\ q \in Seq(A!Events) /\ e \in A!Events
          BY <1>2, <4>2, <5>1
        <5>3. r \o Append(q, e) = Append(r \o q, e)
          BY <5>2, AppendToEnd
        <5> QED BY <5>1, <5>3
      <4> QED BY <4>1, <4>3
    <3>2. \A t \in A!TableSet \ {u} : A!Way(t)' = A!Way(t)
      BY <1>5, <1>6, <1>7
    <3> QED BY <1>3, <3>1, <3>2 DEF Ways
  <2>2. Once(Ways, channel, table, dropped, lost)
    BY OnceMeans DEF SinkInv
  <2>3. Once(Ways', channel', table, dropped, lost)
    BY <1>0, <1>1, <2>1, <2>2, OnceTaken, SinkTypes DEF SinkInv, A!TypeOK
  <2>4. A!EachEventOnce' <=> Once(Ways, channel, table, dropped, lost)'
    BY OnceMeans, PTL
  <2> QED BY <1>1, <2>3, <2>4
<1>10. Timely'
  <2>1. due \in 0..flush_interval /\ flush_interval \in Nat \ {0}
    BY SinkAssumption DEF SinkInv, A!TypeOK
  <2>2. a + due < 2 * flush_interval
    BY <2>1 DEF SinkInv, Timely, a
  <2> QED BY <1>1, <1>6, <2>2 DEF Timely
<1> QED BY <1>6, <1>8, <1>9, <1>10 DEF SinkInv

\* A flush that begins, or does not, moves no event.
LEMMA BatchMoves ==
    ASSUME SinkInv, A!Waiting, A!Take(batch) \/ A!Keep(batch, age),
           UNCHANGED <<table, channel, inserted, dropped, lost>>
    PROVE  /\ A!EachEventOnce' /\ Flushing' /\ age' \in Nat /\ todo' \in Seq(A!TableSet)
           /\ {batch', writing'} \subseteq [A!TableSet -> Seq(A!Events)]
           /\ batch' # A!NoRows => batch' = batch /\ age' = age
<1>1. batch \in [A!TableSet -> Seq(A!Events)] /\ age \in Nat
  BY DEF SinkInv, A!TypeOK
<1>2. PICK b, a : b = batch /\ a = age
  OBVIOUS
<1>3. /\ \A t \in A!TableSet : A!Way(t)' = inserted[t] \o b[t]
      /\ Flushing' /\ age' \in Nat /\ todo' \in Seq(A!TableSet)
      /\ {batch', writing'} \subseteq [A!TableSet -> Seq(A!Events)]
      /\ batch' # A!NoRows => batch' = b /\ age' = a
  BY <1>1, <1>2, TakeOrKeep
<1>4. \A t \in A!TableSet : A!Way(t)' = A!Way(t)
  BY <1>2, <1>3, WaitingWays
<1>5. A!EachEventOnce'
  BY <1>4, WaysStay DEF SinkInv
<1> QED BY <1>2, <1>3, <1>5

\* The channel is empty and every handle is gone: a last flush, or the end.
LEMMA ClosingKeeps ==
    ASSUME SinkInv, A!Close
    PROVE  SinkInv'
<1>1. /\ A!Waiting /\ UNCHANGED <<handles, table, channel, due, spent, inserted, dropped, lost>>
      /\ A!Take(batch) \/ UNCHANGED <<batch, age, writing, todo>>
      /\ exited' \in BOOLEAN
  BY DEF A!Close, A!AtEnd, SinkInv, A!TypeOK
<1>2. A!Take(batch) \/ A!Keep(batch, age)
  BY <1>1 DEF A!Keep
<1>3. /\ A!EachEventOnce' /\ Flushing' /\ age' \in Nat /\ todo' \in Seq(A!TableSet)
      /\ {batch', writing'} \subseteq [A!TableSet -> Seq(A!Events)]
      /\ batch' # A!NoRows => batch' = batch /\ age' = age
  BY <1>1, <1>2, BatchMoves
<1>4. A!TypeOK'
  <2>1. A!Events' = A!Events
    BY <1>1 DEF A!Events
  <2> QED BY <1>1, <1>3, <2>1 DEF SinkInv, A!TypeOK
<1>5. Timely'
  BY <1>1, <1>3 DEF SinkInv, Timely
<1> QED BY <1>3, <1>4, <1>5 DEF SinkInv

\* A tick flushes a batch that is old enough; the next tick finds a younger one.
LEMMA TickKeeps ==
    ASSUME SinkInv, A!TickFires
    PROVE  SinkInv'
<1>1. /\ A!Waiting /\ UNCHANGED <<handles, table, channel, spent, exited, inserted, dropped, lost>>
      /\ due' = flush_interval
      /\ A!Take(batch) \/ (A!Keep(batch, age) /\ ~(batch # A!NoRows /\ A!IsOld(age)))
  BY DEF A!TickFires
<1>2. batch \in [A!TableSet -> Seq(A!Events)] /\ age \in Nat /\ flush_interval \in Nat \ {0}
  BY SinkAssumption DEF SinkInv, A!TypeOK
<1>3. /\ A!EachEventOnce' /\ Flushing' /\ age' \in Nat /\ todo' \in Seq(A!TableSet)
      /\ {batch', writing'} \subseteq [A!TableSet -> Seq(A!Events)]
  BY <1>1, <1>2, BatchMoves
<1>4. A!TypeOK'
  <2>1. A!Events' = A!Events
    BY <1>1 DEF A!Events
  <2>2. due' \in 0..flush_interval
    BY <1>1, <1>2
  <2> QED BY <1>1, <1>3, <2>1, <2>2 DEF SinkInv, A!TypeOK
<1>5. Timely'
  <2>1. CASE A!Take(batch)
    BY <2>1 DEF A!Take, Timely
  <2>2. CASE A!Keep(batch, age) /\ ~(batch # A!NoRows /\ A!IsOld(age))
    BY <1>1, <1>2, <2>2 DEF A!Keep, A!IsOld, Timely
  <2> QED BY <1>1, <2>1, <2>2
<1> QED BY <1>3, <1>4, <1>5 DEF SinkInv

\* The rows of a table are inserted, or lost.
LEMMA WritingKeeps ==
    ASSUME SinkInv, A!WriteTable
    PROVE  SinkInv'
<1>0. PICK t : t = Head(todo)
  OBVIOUS
<1>1. /\ todo # <<>> /\ todo' = Tail(todo) /\ batch = A!NoRows
      /\ writing' = [writing EXCEPT ![t] = <<>>]
      /\ \/ inserted' = [inserted EXCEPT ![t] = @ \o writing[t]] /\ lost' = lost
         \/ lost' = lost \cup Elems(writing[t]) /\ inserted' = inserted
      /\ spent' \in {0, spent}
      /\ UNCHANGED <<handles, table, channel, batch, age, due, exited, dropped>>
  BY <1>0 DEF A!WriteTable, SinkInv, Flushing, Elems
<1>2. /\ t \in A!TableSet /\ Tail(todo) \in Seq(A!TableSet) /\ t = todo[1]
      /\ DOMAIN todo = 1..Len(todo) /\ Len(todo) \in Nat /\ Len(Tail(todo)) = Len(todo) - 1
      /\ DOMAIN Tail(todo) = 1..Len(Tail(todo))
      /\ \A k \in 1..Len(Tail(todo)) : Tail(todo)[k] = todo[k + 1]
  <2>1. todo \in Seq(A!TableSet)
    BY DEF SinkInv, A!TypeOK
  <2>2. Head(todo) = todo[1]
    BY <1>1, <2>1
  <2> QED BY <1>0, <1>1, <2>1, <2>2, HeadTailProperties, LenProperties
<1>3. /\ inserted \in [A!TableSet -> Seq(A!Events)] /\ writing \in [A!TableSet -> Seq(A!Events)]
      /\ batch \in [A!TableSet -> Seq(A!Events)] /\ lost \subseteq A!Events
  BY DEF SinkInv, A!TypeOK
<1>4. inserted[t] \in Seq(A!Events) /\ writing[t] \in Seq(A!Events) /\ batch[t] = <<>>
  BY <1>1, <1>2, <1>3 DEF A!NoRows
<1>5. \A u \in A!TableSet \ {t} : A!Way(u)' = A!Way(u)
  <2> SUFFICES ASSUME NEW u \in A!TableSet \ {t}
               PROVE  inserted'[u] = inserted[u] /\ writing'[u] = writing[u] /\ batch'[u] = batch[u]
    BY DEF A!Way
  <2> QED BY <1>1, <1>3
<1>6. A!Way(t) = inserted[t] \o writing[t]
  <2>1. (inserted[t] \o writing[t]) \o <<>> = inserted[t] \o writing[t]
    BY <1>4, ConcatProperties, ConcatEmptySeq
  <2> QED BY <1>4, <2>1 DEF A!Way
<1>7. A!Way(t)' = inserted'[t]
  <2>1. inserted'[t] \in Seq(A!Events)
    <3>1. inserted[t] \o writing[t] \in Seq(A!Events)
      BY <1>4, ConcatProperties
    <3>2. inserted'[t] = inserted[t] \/ inserted'[t] = inserted[t] \o writing[t]
      BY <1>1, <1>2, <1>3
    <3> QED BY <1>4, <3>1, <3>2
  <2>2. (inserted'[t] \o <<>>) \o <<>> = inserted'[t]
    BY <2>1, ConcatEmptySeq
  <2>3. writing'[t] = <<>> /\ batch'[t] = <<>>
    BY <1>1, <1>2, <1>3, <1>4
  <2> QED BY <2>2, <2>3 DEF A!Way
<1>8. A!EachEventOnce'
  <2>1. CASE inserted' = [inserted EXCEPT ![t] = @ \o writing[t]] /\ lost' = lost
    <3>1. A!Way(t)' = A!Way(t)
      BY <1>2, <1>3, <1>6, <1>7, <2>1
    <3> QED BY <1>1, <1>5, <2>1, <3>1, WaysStay DEF SinkInv
  <2>2. CASE lost' = lost \cup Elems(writing[t]) /\ inserted' = inserted
    <3>1. Ways' = [Ways EXCEPT ![t] = inserted[t]]
      BY <1>2, <1>5, <1>7, <2>2 DEF Ways
    <3>2. Once(Ways, channel, table, dropped, lost)
      BY OnceMeans DEF SinkInv
    <3>3. /\ Ways \in [A!TableSet -> Seq(Nat)] /\ inserted[t] \in Seq(Nat) /\ writing[t] \in Seq(Nat)
          /\ Ways[t] = inserted[t] \o writing[t]
      BY <1>2, <1>6, SinkTypes DEF SinkInv, Ways
    <3>4. Once(Ways', channel, table, dropped, lost \cup Elems(writing[t]))
      BY <1>2, <3>1, <3>2, <3>3, OnceMissed
    <3>5. A!EachEventOnce' <=> Once(Ways, channel, table, dropped, lost)'
      BY OnceMeans, PTL
    <3> QED BY <1>1, <2>2, <3>4, <3>5
  <2> QED BY <1>1, <2>1, <2>2
<1>9. Flushing'
  <2>1. ASSUME NEW u \in A!TableSet, writing'[u] # <<>>
        PROVE  \E k \in DOMAIN Tail(todo) : Tail(todo)[k] = u
    <3>1. u # t /\ writing[u] # <<>>
      BY <1>1, <1>2, <1>3, <2>1
    <3>2. PICK k \in DOMAIN todo : todo[k] = u
      BY <3>1 DEF SinkInv, Flushing
    <3>3. k - 1 \in 1..Len(Tail(todo)) /\ (k - 1) + 1 = k
      BY <1>2, <3>1, <3>2
    <3> QED BY <1>2, <3>2, <3>3
  <2> QED BY <1>1, <2>1 DEF Flushing, A!NoRows
<1>10. A!TypeOK'
  <2>1. A!Events' = A!Events
    BY <1>1 DEF A!Events
  <2>2. <<>> \in Seq(A!Events) /\ inserted[t] \o writing[t] \in Seq(A!Events)
    BY <1>4, EmptySeq, ConcatProperties
  <2>3. writing' \in [A!TableSet -> Seq(A!Events)]
    BY <1>1, <1>2, <1>3, <2>2
  <2>4. inserted' \in [A!TableSet -> Seq(A!Events)]
    <3> DEFINE way == inserted[t] \o writing[t]
    <3> HIDE DEF way
    <3>1. inserted' = inserted \/ inserted' = [inserted EXCEPT ![t] = way]
      BY <1>1 DEF way
    <3>2. way \in Seq(A!Events)
      BY <2>2 DEF way
    <3> QED BY <1>2, <1>3, <3>1, <3>2
  <2>5. Elems(writing[t]) \subseteq A!Events
    BY <1>4, ElementOfSeq, LenProperties DEF Elems, A!ToSet
  <2>6. lost' \subseteq A!Events /\ spent' \in 0..MaxWrite
    BY <1>1, <1>3, <2>5, SinkAssumption DEF SinkInv, A!TypeOK
  <2> QED BY <1>1, <1>2, <2>1, <2>3, <2>4, <2>6 DEF SinkInv, A!TypeOK
<1> QED BY <1>1, <1>8, <1>9, <1>10 DEF SinkInv, Timely

\* A unit of time passes.
LEMMA TimeKeeps ==
    ASSUME SinkInv, A!TimePasses
    PROVE  SinkInv'
<1>1. /\ UNCHANGED <<handles, table, channel, batch, writing, todo, exited, inserted, dropped, lost>>
      /\ due' = (IF due > 0 THEN due - 1 ELSE due)
      /\ age' = (IF batch = A!NoRows THEN 0 ELSE age + 1)
      /\ spent' = (IF todo # <<>> THEN spent + 1 ELSE 0)
      /\ todo # <<>> => spent < MaxWrite
      /\ todo = <<>> => due > 0
  BY DEF A!TimePasses, A!Waiting
<1>2. /\ due \in 0..flush_interval /\ age \in Nat /\ spent \in 0..MaxWrite
      /\ flush_interval \in Nat \ {0} /\ MaxWrite \in Nat
  BY SinkAssumption DEF SinkInv, A!TypeOK
<1>3. due' \in 0..flush_interval /\ age' \in Nat /\ spent' \in 0..MaxWrite
  BY <1>1, <1>2
<1>4. A!TypeOK'
  BY <1>1, <1>3 DEF SinkInv, A!TypeOK, A!Events
<1>5. A!EachEventOnce'
  BY <1>1, WaysStay DEF SinkInv, A!Way
<1>6. Timely'
  <2> SUFFICES ASSUME batch # A!NoRows PROVE age' + due' < 2 * flush_interval
    BY <1>1 DEF Timely
  <2>1. todo = <<>> /\ age + due < 2 * flush_interval
    BY DEF SinkInv, Flushing, Timely
  <2> QED BY <1>1, <1>2, <2>1
<1> QED BY <1>1, <1>4, <1>5, <1>6 DEF SinkInv, Flushing

\* Every step of the sink keeps its invariant.
LEMMA SinkStep == SinkInv /\ [A!Next]_(A!vars) => SinkInv'
<1> SUFFICES ASSUME SinkInv, [A!Next]_(A!vars) PROVE SinkInv'
  OBVIOUS
<1>1. CASE \E t \in A!TableSet : A!emit(t)
  BY <1>1, EmitKeeps
<1>2. CASE UNCHANGED <<table, channel, batch, age, due, writing, todo, spent, exited, inserted,
                       dropped, lost>> /\ handles' \in 0..Handles
  <2>1. A!EachEventOnce'
    BY <1>2, WaysStay DEF SinkInv, A!Way
  <2>2. A!TypeOK'
    BY <1>2 DEF SinkInv, A!TypeOK, A!Events
  <2> QED BY <1>2, <2>1, <2>2 DEF SinkInv, Flushing, Timely
<1>3. A!DropHandle => handles' \in 0..Handles
  BY SinkAssumption DEF A!DropHandle, SinkInv, A!TypeOK
<1>4. CASE A!DropHandle
  BY <1>2, <1>3, <1>4 DEF A!DropHandle
<1>5. CASE A!Receive
  BY <1>5, TakingKeeps
<1>6. CASE A!Close
  BY <1>6, ClosingKeeps
<1>7. CASE A!TickFires
  BY <1>7, TickKeeps
<1>8. CASE A!WriteTable
  BY <1>8, WritingKeeps
<1>9. CASE A!TimePasses
  BY <1>9, TimeKeeps
<1>10. CASE UNCHANGED A!vars
  BY <1>2, <1>10 DEF A!vars, SinkInv, A!TypeOK
<1> QED BY <1>1, <1>4, <1>5, <1>6, <1>7, <1>8, <1>9, <1>10 DEF A!Next

\* No analytics event is written twice, out of order, or left out unless it was
\* refused or its insert failed, and none stays in the batch for two flush
\* intervals, whatever the tables, the batch size, the interval and the channel
\* (run_sink, flush).
THEOREM SinkStaysSound == A!Spec => []SinkIsSound
<1>1. SinkInv => SinkIsSound
  <2> SUFFICES ASSUME SinkInv PROVE A!NoRowWaitsLong
    BY DEF SinkInv, SinkIsSound
  <2>1. age \in Nat /\ due \in 0..flush_interval /\ flush_interval \in Nat
    BY SinkAssumption DEF SinkInv, A!TypeOK
  <2> QED BY <2>1 DEF SinkInv, Timely, A!NoRowWaitsLong
<1> QED BY <1>1, SinkInit, SinkStep, PTL DEF A!Spec

=============================================================================
