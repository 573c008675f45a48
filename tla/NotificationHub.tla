--------------------------- MODULE NotificationHub ---------------------------
(***************************************************************************)
(* The API server's notification hub (soulon-backend/internal/api/         *)
(* server.go): webhooks push messages into a bounded buffer and to the     *)
(* channels of the open streams; a list request pages through the buffer.  *)
(*                                                                         *)
(* Every request is a goroutine of its own.  The server's mutex is held    *)
(* for single steps only: a message is sent to the streams after it was    *)
(* released, and a stream joins and reads the buffer under two separate    *)
(* locks.                                                                  *)
(***************************************************************************)
EXTENDS Integers, FiniteSets, SequencesExt

CONSTANTS
    Messages,         \* the accepted webhook requests, one message each
    Streams,          \* the stream requests
    NotifyCapacity,   \* API_NOTIFICATION_CAPACITY
    ChannelSize,      \* room in a stream's channel (16)
    InitialLimits,    \* the initialLimit values that stream requests carry
    MaxInitialLimit   \* the largest one accepted (200)

ASSUME HubBounds ==
    /\ NotifyCapacity \in Nat \ {0} /\ ChannelSize \in Nat /\ MaxInitialLimit \in Nat \ {0}
    /\ InitialLimits \subseteq Int
ASSUME HubSets == IsFiniteSet(Messages) /\ IsFiniteSet(Streams)

VARIABLES
    notifications,  \* the buffer, oldest first
    subscribers,    \* the streams that have a channel in the server's map
    webhooks,       \* by message: where its request is
    streams,        \* by stream: where its request is
    pushed          \* history: all messages in the order of their appending

hubVars == <<notifications, subscribers, webhooks, streams, pushed>>

\* A webhook request.  after (history): what had been accepted when it began.
Webhook == [at : {"expected", "stamped", "sending", "accepted"},
            targets : SUBSET Streams,       \* subscriberChannels left to serve
            after : SUBSET Messages]

\* A stream request.  joinedAt, replayedAt and dropped are history.
Stream == [at : {"away", "joined", "live", "gone"},
           limit : InitialLimits \cup {0},
           channel : Seq(Messages),
           replay : Seq(Messages),          \* written to the client on joining
           live : Seq(Messages),            \* written to the client since then
           dropped : SUBSET Messages,
           joinedAt : Nat,
           replayedAt : Nat]

(***************************************************************************)
(* The buffer.                                                             *)
(***************************************************************************)
\* Faulty variant: the newest message is cut off, not the oldest.
Trimmed_Front(buffer) ==
    IF Len(buffer) > NotifyCapacity THEN SubSeq(buffer, 1, NotifyCapacity) ELSE buffer

\* The last NotifyCapacity messages.
Trimmed(buffer) ==
    IF Len(buffer) > NotifyCapacity
    THEN SubSeq(buffer, Len(buffer) - NotifyCapacity + 1, Len(buffer)) ELSE buffer

\* snapshotLatestNotifications: newest first.
Latest(buffer, limit) ==
    LET n == IF limit > Len(buffer) THEN Len(buffer) ELSE limit
    IN  Reverse(SubSeq(buffer, Len(buffer) - n + 1, Len(buffer)))

\* handleNotifications: one page of the buffer, newest first.
Page(buffer, offset, limit) ==
    LET total == Len(buffer)
        end   == IF offset + limit > total THEN total ELSE offset + limit
    IN  IF offset >= total THEN [items |-> <<>>, hasMore |-> FALSE]
        ELSE [items |-> SubSeq(Reverse(buffer), offset + 1, end), hasMore |-> end < total]

(***************************************************************************)
(* A webhook request.                                                      *)
(***************************************************************************)
\* handleNotificationWebhook up to the lock.
Stamp(m) ==
    /\ webhooks[m].at = "expected"
    /\ webhooks' = [webhooks EXCEPT ![m].at = "stamped",
                        ![m].after = {n \in Messages : webhooks[n].at = "accepted"}]
    /\ UNCHANGED <<notifications, subscribers, streams, pushed>>

\* Faulty variant: streams are served from the end of their replay on.
Receivers_Live == {s \in subscribers : streams[s].at = "live"}

Receivers == subscribers

\* pushNotification, what it does under the lock.
Push(m) ==
    /\ webhooks[m].at = "stamped"
    /\ notifications' = Trimmed(Append(notifications, m))
    /\ webhooks' = [webhooks EXCEPT ![m].at = "sending", ![m].targets = Receivers]
    /\ pushed' = Append(pushed, m)
    /\ UNCHANGED <<subscribers, streams>>

\* Faulty variant: the send waits for room in the channel.
Send_Waits(m, s) ==
    /\ s \in webhooks[m].targets
    /\ Len(streams[s].channel) < ChannelSize
    /\ streams' = [streams EXCEPT ![s].channel = Append(@, m)]
    /\ webhooks' = [webhooks EXCEPT ![m].targets = @ \ {s}]
    /\ UNCHANGED <<notifications, subscribers, pushed>>

\* pushNotification, one channel: a full one drops the message, and one whose
\* stream has gone is filled for nobody.
Send(m, s) ==
    /\ s \in webhooks[m].targets
    /\ streams' = IF Len(streams[s].channel) < ChannelSize
                  THEN [streams EXCEPT ![s].channel = Append(@, m)]
                  ELSE [streams EXCEPT ![s].dropped = @ \cup {m}]
    /\ webhooks' = [webhooks EXCEPT ![m].targets = @ \ {s}]
    /\ UNCHANGED <<notifications, subscribers, pushed>>

\* Faulty variant: the answer does not wait for the streams to be served.
Accept_Early(m) ==
    /\ webhooks[m].at = "sending"
    /\ webhooks' = [webhooks EXCEPT ![m].at = "accepted"]
    /\ UNCHANGED <<notifications, subscribers, streams, pushed>>

Accept(m) ==
    /\ webhooks[m].at = "sending" /\ webhooks[m].targets = {}
    /\ webhooks' = [webhooks EXCEPT ![m].at = "accepted"]
    /\ UNCHANGED <<notifications, subscribers, streams, pushed>>

(***************************************************************************)
(* A stream request.                                                       *)
(***************************************************************************)
\* addSubscriber.
Join(s) ==
    /\ streams[s].at = "away"
    /\ \E limit \in InitialLimits :
         streams' = [streams EXCEPT ![s].at = "joined", ![s].limit = limit,
                                    ![s].joinedAt = Len(pushed)]
    /\ subscribers' = subscribers \cup {s}
    /\ UNCHANGED <<notifications, webhooks, pushed>>

\* The initialLimit is checked only now; the deferred removeSubscriber runs.
RefuseLimit(s) ==
    /\ streams[s].at = "joined" /\ streams[s].limit \notin 1 .. MaxInitialLimit
    /\ streams' = [streams EXCEPT ![s].at = "gone"]
    /\ subscribers' = subscribers \ {s}
    /\ UNCHANGED <<notifications, webhooks, pushed>>

Replay(s) ==
    /\ streams[s].at = "joined" /\ streams[s].limit \in 1 .. MaxInitialLimit
    /\ streams' = [streams EXCEPT ![s].at = "live",
                                  ![s].replay = Latest(notifications, streams[s].limit),
                                  ![s].replayedAt = Len(pushed)]
    /\ UNCHANGED <<notifications, subscribers, webhooks, pushed>>

\* The loop of handleNotificationStream takes a message.
Deliver(s) ==
    /\ streams[s].at = "live" /\ streams[s].channel # <<>>
    /\ streams' = [streams EXCEPT ![s].live = Append(@, Head(streams[s].channel)),
                                  ![s].channel = Tail(@)]
    /\ UNCHANGED <<notifications, subscribers, webhooks, pushed>>

\* The client goes away.
Leave(s) ==
    /\ streams[s].at = "live"
    /\ streams' = [streams EXCEPT ![s].at = "gone"]
    /\ subscribers' = subscribers \ {s}
    /\ UNCHANGED <<notifications, webhooks, pushed>>

HubInit ==
    /\ notifications = <<>> /\ subscribers = {} /\ pushed = <<>>
    /\ webhooks = [m \in Messages |->
            [at |-> "expected", targets |-> {}, after |-> {}]]
    /\ streams = [s \in Streams |->
            [at |-> "away", limit |-> 0, channel |-> <<>>, replay |-> <<>>, live |-> <<>>,
             dropped |-> {}, joinedAt |-> 0, replayedAt |-> 0]]

HubNext ==
    \/ \E m \in Messages : \/ Stamp(m) \/ Push(m) \/ Accept(m)
                           \/ \E s \in Streams : Send(m, s)
    \/ \E s \in Streams : Join(s) \/ RefuseLimit(s) \/ Replay(s) \/ Deliver(s) \/ Leave(s)

HubSpec == HubInit /\ [][HubNext]_hubVars

\* A webhook's goroutine runs on once it has been started; the streams' loops
\* need not, since a client may stop reading.
FairSpec ==
    /\ HubSpec
    /\ \A m \in Messages : WF_hubVars(Push(m)) /\ WF_hubVars(Accept(m))
    /\ \A m \in Messages, s \in Streams : WF_hubVars(Send(m, s))

(***************************************************************************)
(* Properties.                                                             *)
(***************************************************************************)
\* Type invariant, with the limits of the buffer and of the channels.
HubTypeOK ==
    /\ notifications \in Seq(Messages) /\ Len(notifications) <= NotifyCapacity
    /\ subscribers \in SUBSET Streams
    /\ webhooks \in [Messages -> Webhook]
    /\ streams \in [Streams -> Stream]
    /\ \A s \in Streams : Len(streams[s].channel) <= ChannelSize
    /\ pushed \in Seq(Messages)

\* Paging through the list (handleNotifications), with any page size and until
\* hasMore is false, gives the newest NotifyCapacity messages of all that were
\* ever pushed, newest first and each of them once.
ListingIsNewest ==
    LET oldest == Max({1, Len(pushed) - NotifyCapacity + 1})
        newest == Reverse(SubSeq(pushed, oldest, Len(pushed)))
        Pages(limit) == [i \in 0 .. Len(notifications) |-> Page(notifications, i * limit, limit)]
    IN  \A limit \in 1 .. NotifyCapacity + 1 :
            LET last == CHOOSE i \in DOMAIN Pages(limit) :
                            /\ ~Pages(limit)[i].hasMore
                            /\ \A j \in 0 .. i - 1 : Pages(limit)[j].hasMore
            IN  FlattenSeq([i \in 1 .. last + 1 |-> Pages(limit)[i - 1].items]) = newest

\* The buffer is within its limits and lists what it should.
BufferSafe == HubTypeOK /\ ListingIsNewest

\* A stream misses nothing (addSubscriber before the replay): from the message
\* where its replay begins, or the first one after it joined, whichever is
\* earlier, every pushed message was written to the client, waits in the
\* channel, is about to be sent, or was dropped at a full channel.
StreamHasNoGap ==
    \A s \in Streams :
        streams[s].at = "live" =>
            LET st    == streams[s]
                start == IF st.joinedAt < st.replayedAt - Len(st.replay)
                         THEN st.joinedAt ELSE st.replayedAt - Len(st.replay)
            IN  \A i \in start + 1 .. Len(pushed) :
                    LET m == pushed[i]
                    IN  \/ Contains(st.replay \o st.live \o st.channel, m)
                        \/ m \in st.dropped
                        \/ s \in webhooks[m].targets

\* A client sees a message twice only if it was pushed between the stream's
\* joining and its replay, and never three times.
DuplicatesOnlyAtJoin ==
    \A s \in Streams : \A m \in Messages :
        LET st   == streams[s]
            Count(seq) == Cardinality({i \in DOMAIN seq : seq[i] = m})
        IN  /\ Count(st.replay) <= 1
            /\ Count(st.live) <= 1
            /\ (Contains(st.replay, m) /\ Contains(st.live, m)) =>
                   \E i \in st.joinedAt + 1 .. st.replayedAt : pushed[i] = m

\* A stream gets each message exactly once, but for what a full channel drops
\* and for what is pushed while it joins.
StreamExactlyOnce == StreamHasNoGap /\ DuplicatesOnlyAtJoin

\* A sender that waits for each answer, as the indexer's notifier does, has its
\* messages buffered and delivered in order: neither the buffer nor a stream
\* gets a message after one whose webhook began when the first was accepted.
InOrderPerSender ==
    LET InOrder(order) == \A i \in DOMAIN order, j \in DOMAIN order :
                              i < j => order[j] \notin webhooks[order[i]].after
    IN  /\ InOrder(pushed)
        /\ \A s \in Streams : InOrder(streams[s].live \o streams[s].channel)

\* Every webhook that was stamped is answered, even if no stream reads.
WebhooksAnswered ==
    \A m \in Messages : webhooks[m].at = "stamped" ~> webhooks[m].at = "accepted"
=============================================================================
