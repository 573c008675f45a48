--------------------------- MODULE ApiServerProofs ---------------------------
(***************************************************************************)
(* Proofs about the API server and its clients.                            *)
(*                                                                         *)
(* The notification hub (NotificationHub): BufferSafe, StreamExactlyOnce   *)
(* and InOrderPerSender follow from HubInv, which says of the buffer that  *)
(* it is the end of all that was pushed, and of every stream what it has   *)
(* been sent, what its replay shows and what is on its way.                *)
(*                                                                         *)
(* The wallet's transfers (TransferFlow, with SignatureChallenge):         *)
(* TransfersAuthorised and LoadingExplained follow from TransferInv, which *)
(* counts the challenges that are still open, the transfers that may reach *)
(* the chain, and the tries of each that are on their way.                 *)
(***************************************************************************)
EXTENDS NotificationHub, TransferFlow, FiniteSetTheorems, SequenceTheorems,
        WellFoundedInduction, TLAPS

\* A non-empty set of naturals has a least element.
LEMMA LeastNatural ==
    ASSUME NEW T, T \subseteq Nat, T # {}
    PROVE  \E x \in T : \A y \in T : x <= y
<1> DEFINE R == {ss \in Nat \X Nat : ss[1] < ss[2]}
<1>1. IsWellFoundedOn(R, Nat)
  BY NatLessThanWellFounded, Zenon DEF OpToRel
<1>2. \E x \in T : \A y \in T : ~ (<<y, x>> \in R)
  <2> HIDE DEF R
  <2> QED BY <1>1, WFMin, Zenon
<1>3. PICK x \in T : \A y \in T : ~ (<<y, x>> \in R)
  BY <1>2
<1>4. ASSUME NEW y \in T PROVE x <= y
  <2>1. <<y, x>> \in R <=> y < x
    BY SMT
  <2>2. ~ (y < x)
    BY <1>3, <2>1, Zenon
  <2> QED BY <2>2, SMT
<1> QED BY <1>4

\* Induction over 0 .. n, for the set of the numbers that have a property.
LEMMA Induction ==
    ASSUME NEW n \in Nat, NEW Good, 0 \in Good,
           \A m \in 1 .. n : m - 1 \in Good => m \in Good
    PROVE  \A m \in 0 .. n : m \in Good
<1> DEFINE Bad == {m \in 0 .. n : m \notin Good}
<1>1. SUFFICES ASSUME Bad # {} PROVE FALSE
  BY Zenon
<1>2. Bad \subseteq Nat
  OBVIOUS
<1>3. PICK m \in Bad : \A y \in Bad : m <= y
  <2> HIDE DEF Bad
  <2> QED BY <1>1, <1>2, LeastNatural
<1>4. m \in 0 .. n /\ m \notin Good
  OBVIOUS
<1>5. m # 0
  BY <1>4
<1>6. m \in 1 .. n /\ m - 1 \in 0 .. n /\ ~ (m <= m - 1)
  BY <1>4, <1>5
<1>7. m - 1 \notin Bad
  BY <1>3, <1>6, Zenon
<1>8. m - 1 \in Good
  BY <1>6, <1>7, Zenon
<1> QED BY <1>4, <1>6, <1>8, Zenon

\* Two sequences, one after the other.
LEMMA ConcatParts ==
    ASSUME NEW S, NEW a \in Seq(S), NEW b \in Seq(S)
    PROVE  /\ a \o b \in Seq(S) /\ Len(a \o b) = Len(a) + Len(b)
           /\ \A i \in 1 .. Len(a) : (a \o b)[i] = a[i]
           /\ \A i \in 1 .. Len(b) : (a \o b)[Len(a) + i] = b[i]
<1> DEFINE m == Len(a)
           n == Len(b)
           c == a \o b
<1>1. m \in Nat /\ n \in Nat
  OBVIOUS
<1>2. c \in Seq(S) /\ Len(c) = m + n /\ \A i \in 1 .. m + n : c[i] = IF i <= m THEN a[i] ELSE b[i - m]
  BY ConcatProperties
<1> HIDE DEF m, n, c
<1>3. ASSUME NEW i \in 1 .. m PROVE c[i] = a[i]
  <2>1. i \in 1 .. m + n /\ i <= m BY <1>1
  <2> QED BY <1>2, <2>1
<1>4. ASSUME NEW i \in 1 .. n PROVE c[m + i] = b[i]
  <2>1. m + i \in 1 .. m + n /\ ~ (m + i <= m) /\ (m + i) - m = i BY <1>1
  <2> QED BY <1>2, <2>1
<1> QED BY <1>2, <1>3, <1>4 DEF m, n, c

\* Appending to the second one.
LEMMA ConcatAppend ==
    ASSUME NEW S, NEW a \in Seq(S), NEW b \in Seq(S), NEW x \in S
    PROVE  a \o Append(b, x) = Append(a \o b, x)
<1>1. a \o b \in Seq(S) /\ <<x>> \in Seq(S)
  BY ConcatProperties
<1>2. Append(b, x) = b \o <<x>> /\ Append(a \o b, x) = (a \o b) \o <<x>>
  BY <1>1, AppendIsConcat
<1> QED BY <1>1, <1>2, ConcatAssociative

(***************************************************************************)
(* The notification hub.                                                   *)
(***************************************************************************)

\* Each message is pushed once, by a request that has been in the lock.
PushedOnce ==
    /\ \A i, j \in 1 .. Len(pushed) : pushed[i] = pushed[j] => i = j
    /\ \A i \in 1 .. Len(pushed) : webhooks[pushed[i]].at \in {"sending", "accepted"}
    /\ \A m \in Messages : webhooks[m].at \in {"sending", "accepted"} =>
                               \E i \in 1 .. Len(pushed) : pushed[i] = m

\* What a request saw accepted is so for ever, and only a request that is
\* sending has streams to serve.
RequestsFit ==
    \A m \in Messages :
        /\ \A n \in webhooks[m].after : webhooks[n].at = "accepted"
        /\ webhooks[m].targets # {} => webhooks[m].at = "sending"

\* The buffer is the end of what was pushed.
BufferIsTail ==
    /\ Len(notifications) = IF Len(pushed) > NotifyCapacity THEN NotifyCapacity ELSE Len(pushed)
    /\ \A k \in 1 .. Len(notifications) :
           notifications[k] = pushed[Len(pushed) - Len(notifications) + k]

\* No message comes after one whose request saw it accepted.
Ordered(order) ==
    \A i, j \in 1 .. Len(order) : i < j => order[j] \notin webhooks[order[i]].after

\* What went through the channel of a stream.
Sent(st) == st.live \o st.channel

\* A stream and the map of the channels.
Listed(s) == s \in subscribers <=> streams[s].at \in {"joined", "live"}

\* A stream that has not joined.
Untouched(s) ==
    streams[s].at = "away" => /\ Sent(streams[s]) = <<>>
                              /\ \A m \in Messages : s \notin webhooks[m].targets

\* The replay is the end, newest first, of what had been pushed at its time.
ReplayIsTail(s) ==
    /\ streams[s].joinedAt <= Len(pushed) /\ streams[s].replayedAt <= Len(pushed)
    /\ Len(streams[s].replay) <= streams[s].replayedAt
    /\ \A k \in 1 .. Len(streams[s].replay) :
           streams[s].replay[k] = pushed[streams[s].replayedAt - k + 1]
    /\ streams[s].at = "live" => streams[s].joinedAt <= streams[s].replayedAt

\* Message m was pushed after stream s had joined.
Since(s, m) == \E i \in streams[s].joinedAt + 1 .. Len(pushed) : pushed[i] = m

\* Through the channel went what was pushed since the joining, each once, and
\* nothing that is still to be sent.
SentOnce(s) ==
    /\ \A i \in 1 .. Len(Sent(streams[s])) :
           Since(s, Sent(streams[s])[i]) /\ s \notin webhooks[Sent(streams[s])[i]].targets
    /\ \A i, j \in 1 .. Len(Sent(streams[s])) :
           Sent(streams[s])[i] = Sent(streams[s])[j] => i = j
    /\ \A m \in Messages : s \in webhooks[m].targets => Since(s, m)

\* Everything pushed since the joining went through the channel, was dropped
\* there, or is still to be sent.
NothingLost(s) ==
    s \in subscribers =>
        \A i \in streams[s].joinedAt + 1 .. Len(pushed) :
            \/ Contains(Sent(streams[s]), pushed[i])
            \/ pushed[i] \in streams[s].dropped
            \/ s \in webhooks[pushed[i]].targets

StreamFits(s) ==
    /\ Listed(s) /\ Untouched(s) /\ ReplayIsTail(s) /\ SentOnce(s) /\ NothingLost(s)
    /\ Ordered(Sent(streams[s]))

WebhooksFit == PushedOnce /\ RequestsFit /\ BufferIsTail /\ Ordered(pushed)

HubInv == HubTypeOK /\ WebhooksFit /\ \A s \in Streams : StreamFits(s)

\* The parts of a stream's invariant.
LEMMA StreamTyped ==
    ASSUME HubTypeOK, NEW s \in Streams
    PROVE  /\ streams[s] \in Stream
           /\ streams[s].live \in Seq(Messages) /\ streams[s].channel \in Seq(Messages)
           /\ streams[s].replay \in Seq(Messages) /\ streams[s].dropped \in SUBSET Messages
           /\ streams[s].joinedAt \in Nat /\ streams[s].replayedAt \in Nat
           /\ Sent(streams[s]) \in Seq(Messages)
           /\ Len(streams[s].live) \in Nat /\ Len(streams[s].channel) \in Nat
           /\ Len(Sent(streams[s])) = Len(streams[s].live) + Len(streams[s].channel)
           /\ \A i \in 1 .. Len(streams[s].live) : Sent(streams[s])[i] = streams[s].live[i]
           /\ \A i \in 1 .. Len(streams[s].channel) :
                  Sent(streams[s])[Len(streams[s].live) + i] = streams[s].channel[i]
<1>1. /\ streams[s] \in Stream
      /\ streams[s].live \in Seq(Messages) /\ streams[s].channel \in Seq(Messages)
      /\ streams[s].replay \in Seq(Messages) /\ streams[s].dropped \in SUBSET Messages
      /\ streams[s].joinedAt \in Nat /\ streams[s].replayedAt \in Nat
  <2>1. streams[s] \in Stream BY DEF HubTypeOK
  <2> QED BY <2>1 DEF Stream
<1>2. Len(streams[s].live) \in Nat /\ Len(streams[s].channel) \in Nat
  BY <1>1
<1> DEFINE l == streams[s].live
           c == streams[s].channel
<1>3. Sent(streams[s]) = l \o c /\ l \in Seq(Messages) /\ c \in Seq(Messages)
  BY <1>1 DEF Sent
<1>4. /\ l \o c \in Seq(Messages) /\ Len(l \o c) = Len(l) + Len(c)
      /\ \A i \in 1 .. Len(l) : (l \o c)[i] = l[i]
      /\ \A i \in 1 .. Len(c) : (l \o c)[Len(l) + i] = c[i]
  <2> HIDE DEF l, c
  <2> QED BY <1>3, ConcatParts
<1> QED BY <1>1, <1>2, <1>3, <1>4

\* The parts of the other invariants.
LEMMA RequestTyped ==
    ASSUME HubTypeOK
    PROVE  /\ pushed \in Seq(Messages) /\ Len(pushed) \in Nat
           /\ \A i \in 1 .. Len(pushed) : pushed[i] \in Messages
           /\ notifications \in Seq(Messages) /\ Len(notifications) \in Nat
           /\ \A m \in Messages : /\ webhooks[m] \in Webhook
                                  /\ webhooks[m].at \in {"expected", "stamped", "sending", "accepted"}
                                  /\ webhooks[m].targets \in SUBSET Streams
                                  /\ webhooks[m].after \in SUBSET Messages
BY DEF HubTypeOK, Webhook

\* A step that a stream does not notice.
LEMMA StreamKept ==
    ASSUME HubTypeOK, NEW s \in Streams, StreamFits(s),
           pushed' = pushed, streams'[s] = streams[s],
           s \in subscribers' <=> s \in subscribers,
           \A m \in Messages : s \in webhooks'[m].targets <=> s \in webhooks[m].targets,
           \A i \in 1 .. Len(pushed) : webhooks'[pushed[i]].after = webhooks[pushed[i]].after
    PROVE  StreamFits(s)'
<1> DEFINE d == Sent(streams[s])
<1>1. /\ Listed(s) /\ Untouched(s) /\ ReplayIsTail(s) /\ SentOnce(s) /\ NothingLost(s)
      /\ Ordered(d)
  BY DEF StreamFits
<1>2. d \in Seq(Messages) /\ Len(d) \in Nat /\ \A i \in 1 .. Len(d) : d[i] \in Messages
  <2>1. d \in Seq(Messages) BY StreamTyped
  <2> QED BY <2>1
<1>3. streams[s].joinedAt \in Nat /\ \A i \in 1 .. Len(pushed) : pushed[i] \in Messages
  BY StreamTyped, RequestTyped
<1>4. Listed(s)' /\ Untouched(s)'
  BY <1>1 DEF Listed, Untouched
<1>5. ReplayIsTail(s)'
  BY <1>1 DEF ReplayIsTail
<1>6. \A m : Since(s, m)' <=> Since(s, m)
  BY DEF Since
<1>7. SentOnce(s)'
  BY <1>1, <1>2, <1>6 DEF SentOnce
<1>8. NothingLost(s)'
  <2>1. \A i \in streams[s].joinedAt + 1 .. Len(pushed) : i \in 1 .. Len(pushed)
    BY <1>3, RequestTyped
  <2> QED BY <1>1, <1>3, <2>1 DEF NothingLost
<1>9. Ordered(d)'
  <2>1. \A i \in 1 .. Len(d) : \E k \in 1 .. Len(pushed) : pushed[k] = d[i]
    <3>1. ASSUME NEW i \in 1 .. Len(d) PROVE \E k \in 1 .. Len(pushed) : pushed[k] = d[i]
      <4>1. PICK k \in streams[s].joinedAt + 1 .. Len(pushed) : pushed[k] = d[i]
        BY <1>1 DEF SentOnce, Since
      <4>2. k \in 1 .. Len(pushed) BY <1>3, RequestTyped
      <4> QED BY <4>1, <4>2
    <3> QED BY <3>1
  <2>2. \A i \in 1 .. Len(d) : webhooks'[d[i]].after = webhooks[d[i]].after
    BY <2>1
  <2> HIDE DEF d
  <2> QED BY <1>1, <2>2 DEF Ordered, d
<1> QED BY <1>4, <1>5, <1>7, <1>8, <1>9 DEF StreamFits

\* The order of what was pushed does not depend on the requests still to come.
LEMMA PushedKept ==
    ASSUME HubTypeOK, WebhooksFit, pushed' = pushed, notifications' = notifications,
           NEW m \in Messages, webhooks' \in [Messages -> Webhook],
           \A n \in Messages \ {m} : webhooks'[n] = webhooks[n],
           webhooks[m].at \in {"sending", "accepted"} =>
               webhooks'[m].at \in {"sending", "accepted"} /\ webhooks'[m].after = webhooks[m].after,
           webhooks[m].at \notin {"sending", "accepted"} => webhooks'[m].at \notin {"sending", "accepted"}
    PROVE  /\ PushedOnce' /\ BufferIsTail' /\ Ordered(pushed)'
           /\ \A i \in 1 .. Len(pushed) : webhooks'[pushed[i]].after = webhooks[pushed[i]].after
<1>1. PushedOnce /\ BufferIsTail /\ Ordered(pushed)
  BY DEF WebhooksFit
<1>2. \A i \in 1 .. Len(pushed) : pushed[i] \in Messages
  BY RequestTyped
<1>3. \A i \in 1 .. Len(pushed) : webhooks'[pushed[i]].after = webhooks[pushed[i]].after
  BY <1>1, <1>2 DEF PushedOnce
<1>4. PushedOnce'
  BY <1>1, <1>2 DEF PushedOnce
<1>5. BufferIsTail'
  BY <1>1 DEF BufferIsTail
<1>6. Ordered(pushed)'
  BY <1>1, <1>3 DEF Ordered
<1> QED BY <1>3, <1>4, <1>5, <1>6

\* A webhook request comes in.
LEMMA StampKeeps ==
    ASSUME HubInv, NEW m \in Messages, Stamp(m)
    PROVE  HubInv'
<1> DEFINE seen == {n \in Messages : webhooks[n].at = "accepted"}
<1>1. /\ HubTypeOK /\ WebhooksFit /\ RequestsFit /\ \A s \in Streams : StreamFits(s)
      /\ webhooks \in [Messages -> Webhook] /\ webhooks[m] \in Webhook
  BY DEF HubInv, HubTypeOK, WebhooksFit
<1>2. /\ webhooks[m].at = "expected"
      /\ webhooks' = [webhooks EXCEPT ![m] = [webhooks[m] EXCEPT !.at = "stamped", !.after = seen]]
      /\ notifications' = notifications /\ subscribers' = subscribers /\ streams' = streams
      /\ pushed' = pushed
  BY DEF Stamp
<1>3. seen \in SUBSET Messages /\ \A n \in seen : webhooks[n].at = "accepted"
  OBVIOUS
<1> HIDE DEF seen
<1>4. /\ webhooks' \in [Messages -> Webhook] /\ webhooks'[m].at = "stamped"
      /\ webhooks'[m].after = seen /\ webhooks'[m].targets = webhooks[m].targets
      /\ \A n \in Messages \ {m} : webhooks'[n] = webhooks[n]
  BY <1>1, <1>2, <1>3 DEF Webhook
<1>5. HubTypeOK'
  BY <1>1, <1>2, <1>4 DEF HubTypeOK
<1>6. RequestsFit'
  <2>1. SUFFICES ASSUME NEW n \in Messages
                 PROVE  /\ \A k \in webhooks'[n].after : webhooks'[k].at = "accepted"
                        /\ webhooks'[n].targets # {} => webhooks'[n].at = "sending"
    BY DEF RequestsFit
  <2>2. \A k \in Messages : webhooks[k].at = "accepted" => webhooks'[k].at = "accepted"
    BY <1>2, <1>4
  <2>3. \A k \in webhooks'[n].after : k \in Messages /\ webhooks[k].at = "accepted"
    BY <1>1, <1>3, <1>4, RequestTyped DEF RequestsFit
  <2> QED BY <1>1, <1>2, <1>4, <2>2, <2>3 DEF RequestsFit
<1>7. /\ PushedOnce' /\ BufferIsTail' /\ Ordered(pushed)'
      /\ \A i \in 1 .. Len(pushed) : webhooks'[pushed[i]].after = webhooks[pushed[i]].after
  BY <1>1, <1>2, <1>4, PushedKept
<1>8. ASSUME NEW s \in Streams PROVE StreamFits(s)'
  <2>1. \A n \in Messages : s \in webhooks'[n].targets <=> s \in webhooks[n].targets
    BY <1>4
  <2> QED BY <1>1, <1>2, <1>7, <2>1, StreamKept
<1> QED BY <1>5, <1>6, <1>7, <1>8 DEF HubInv, WebhooksFit

\* A webhook request is answered.
LEMMA AcceptKeeps ==
    ASSUME HubInv, NEW m \in Messages, Accept(m)
    PROVE  HubInv'
<1>1. /\ HubTypeOK /\ WebhooksFit /\ RequestsFit /\ \A s \in Streams : StreamFits(s)
      /\ webhooks \in [Messages -> Webhook] /\ webhooks[m] \in Webhook
  BY DEF HubInv, HubTypeOK, WebhooksFit
<1>2. /\ webhooks[m].at = "sending" /\ webhooks[m].targets = {}
      /\ webhooks' = [webhooks EXCEPT ![m] = [webhooks[m] EXCEPT !.at = "accepted"]]
      /\ notifications' = notifications /\ subscribers' = subscribers /\ streams' = streams
      /\ pushed' = pushed
  BY DEF Accept
<1>3. /\ webhooks' \in [Messages -> Webhook] /\ webhooks'[m].at = "accepted"
      /\ webhooks'[m].after = webhooks[m].after /\ webhooks'[m].targets = {}
      /\ \A n \in Messages \ {m} : webhooks'[n] = webhooks[n]
  BY <1>1, <1>2 DEF Webhook
<1>4. HubTypeOK'
  BY <1>1, <1>2, <1>3 DEF HubTypeOK
<1>5. RequestsFit'
  <2>1. SUFFICES ASSUME NEW n \in Messages
                 PROVE  /\ \A k \in webhooks'[n].after : webhooks'[k].at = "accepted"
                        /\ webhooks'[n].targets # {} => webhooks'[n].at = "sending"
    BY DEF RequestsFit
  <2>2. \A k \in Messages : webhooks[k].at = "accepted" => webhooks'[k].at = "accepted"
    BY <1>3
  <2>3. \A k \in webhooks'[n].after : k \in Messages /\ webhooks[k].at = "accepted"
    BY <1>1, <1>3, RequestTyped DEF RequestsFit
  <2> QED BY <1>1, <1>3, <2>2, <2>3 DEF RequestsFit
<1>6. /\ PushedOnce' /\ BufferIsTail' /\ Ordered(pushed)'
      /\ \A i \in 1 .. Len(pushed) : webhooks'[pushed[i]].after = webhooks[pushed[i]].after
  BY <1>1, <1>2, <1>3, PushedKept
<1>7. ASSUME NEW s \in Streams PROVE StreamFits(s)'
  <2>1. \A n \in Messages : s \in webhooks'[n].targets <=> s \in webhooks[n].targets
    BY <1>2, <1>3
  <2> QED BY <1>1, <1>2, <1>6, <2>1, StreamKept
<1> QED BY <1>4, <1>5, <1>6, <1>7 DEF HubInv, WebhooksFit

\* Trimming keeps the end.
LEMMA TrimmedIsTail ==
    ASSUME NEW b \in Seq(Messages)
    PROVE  /\ Trimmed(b) \in Seq(Messages)
           /\ Len(Trimmed(b)) = IF Len(b) > NotifyCapacity THEN NotifyCapacity ELSE Len(b)
           /\ \A k \in 1 .. Len(Trimmed(b)) : Trimmed(b)[k] = b[Len(b) - Len(Trimmed(b)) + k]
<1>1. NotifyCapacity \in Nat /\ Len(b) \in Nat
  BY HubBounds
<1>2. CASE Len(b) > NotifyCapacity
  <2> DEFINE t == SubSeq(b, Len(b) - NotifyCapacity + 1, Len(b))
  <2>1. Trimmed(b) = t
    BY <1>2 DEF Trimmed
  <2>2. Len(b) - NotifyCapacity + 1 \in 1 .. Len(b) + 1 /\ Len(b) - (Len(b) - NotifyCapacity + 1) + 1 = NotifyCapacity
    BY <1>1, <1>2
  <2>3. t \in Seq(Messages) /\ Len(t) = NotifyCapacity
    BY <1>1, <1>2, <2>2
  <2>4. \A k \in 1 .. Len(t) : t[k] = b[Len(b) - NotifyCapacity + 1 + k - 1]
    BY <1>1, <1>2, <2>2, <2>3
  <2>5. \A k \in 1 .. Len(t) : Len(b) - NotifyCapacity + 1 + k - 1 = Len(b) - Len(t) + k
    BY <1>1, <2>3
  <2> HIDE DEF t
  <2> QED BY <1>2, <2>1, <2>3, <2>4, <2>5
<1>3. CASE ~ (Len(b) > NotifyCapacity)
  <2>1. Trimmed(b) = b BY <1>3 DEF Trimmed
  <2>2. \A k \in 1 .. Len(b) : Len(b) - Len(b) + k = k BY <1>1
  <2> QED BY <1>3, <2>1, <2>2
<1> QED BY <1>2, <1>3

\* A message is pushed: the streams that are listed are to be served with it.
LEMMA PushKeeps ==
    ASSUME HubInv, NEW m \in Messages, Push(m)
    PROVE  HubInv'
<1> DEFINE n == Len(pushed)
           l == Len(notifications)
           a == Append(notifications, m)
<1>1. /\ HubTypeOK /\ WebhooksFit /\ RequestsFit /\ PushedOnce /\ BufferIsTail /\ Ordered(pushed)
      /\ \A s \in Streams : StreamFits(s)
      /\ webhooks \in [Messages -> Webhook] /\ webhooks[m] \in Webhook
      /\ subscribers \in SUBSET Streams
  BY DEF HubInv, HubTypeOK, WebhooksFit
<1>2. /\ webhooks[m].at = "stamped"
      /\ webhooks' = [webhooks EXCEPT ![m] = [webhooks[m] EXCEPT !.at = "sending", !.targets = subscribers]]
      /\ notifications' = Trimmed(a) /\ pushed' = Append(pushed, m)
      /\ subscribers' = subscribers /\ streams' = streams
  BY DEF Push, Receivers
<1>3. /\ webhooks' \in [Messages -> Webhook] /\ webhooks'[m].at = "sending"
      /\ webhooks'[m].after = webhooks[m].after /\ webhooks'[m].targets = subscribers
      /\ \A k \in Messages \ {m} : webhooks'[k] = webhooks[k]
  BY <1>1, <1>2 DEF Webhook
<1>4. /\ n \in Nat /\ l \in Nat /\ pushed \in Seq(Messages) /\ notifications \in Seq(Messages)
      /\ \A i \in 1 .. n : pushed[i] \in Messages
      /\ \A k \in Messages : webhooks[k].after \in SUBSET Messages
  BY <1>1, RequestTyped
<1>5. /\ pushed' \in Seq(Messages) /\ Len(pushed') = n + 1 /\ pushed'[n + 1] = m
      /\ \A i \in 1 .. n : pushed'[i] = pushed[i]
  BY <1>2, <1>4
<1>6. /\ a \in Seq(Messages) /\ Len(a) = l + 1 /\ a[l + 1] = m
      /\ \A i \in 1 .. l : a[i] = notifications[i]
  BY <1>4
<1>7. /\ notifications' \in Seq(Messages)
      /\ Len(notifications') = IF l + 1 > NotifyCapacity THEN NotifyCapacity ELSE l + 1
      /\ \A k \in 1 .. Len(notifications') : notifications'[k] = a[l + 1 - Len(notifications') + k]
  <2> HIDE DEF a, l
  <2>1. /\ Trimmed(a) \in Seq(Messages)
        /\ Len(Trimmed(a)) = IF Len(a) > NotifyCapacity THEN NotifyCapacity ELSE Len(a)
        /\ \A k \in 1 .. Len(Trimmed(a)) : Trimmed(a)[k] = a[Len(a) - Len(Trimmed(a)) + k]
    BY <1>6, TrimmedIsTail
  <2>2. notifications' = Trimmed(a) /\ Len(a) = l + 1
    BY <1>2, <1>6
  <2> DEFINE u == Trimmed(a)
             e == Len(a)
  <2> HIDE DEF u, e
  <2>3. /\ u \in Seq(Messages) /\ Len(u) = (IF e > NotifyCapacity THEN NotifyCapacity ELSE e)
        /\ \A k \in 1 .. Len(u) : u[k] = a[e - Len(u) + k]
    BY <2>1 DEF u, e
  <2>4. notifications' = u /\ e = l + 1 BY <2>2 DEF u, e
  <2>5. ASSUME NEW k \in 1 .. Len(u) PROVE u[k] = a[l + 1 - Len(u) + k]
    <3>1. l \in Nat /\ e \in Nat /\ Len(u) \in Nat BY <1>4, <2>3, <2>4 DEF l
    <3>2. e - Len(u) + k = l + 1 - Len(u) + k BY <2>4, <3>1
    <3>3. u[k] = a[e - Len(u) + k] BY <2>3
    <3> QED BY <3>2, <3>3
  <2>6. u \in Seq(Messages) /\ Len(u) = IF l + 1 > NotifyCapacity THEN NotifyCapacity ELSE l + 1
    BY <2>3, <2>4
  <2> QED BY <2>4, <2>5, <2>6
<1>8. /\ NotifyCapacity \in Nat \ {0} /\ l = (IF n > NotifyCapacity THEN NotifyCapacity ELSE n)
      /\ \A k \in 1 .. l : notifications[k] = pushed[n - l + k]
  BY <1>1, HubBounds DEF BufferIsTail
<1>9. \A i \in 1 .. n : pushed[i] # m
  BY <1>1, <1>2 DEF PushedOnce
<1> HIDE DEF n, l, a
<1> DEFINE t == Len(notifications')
<1>10. t \in Nat /\ t <= l + 1 /\ t <= NotifyCapacity /\ t = (IF n + 1 > NotifyCapacity THEN NotifyCapacity ELSE n + 1)
  BY <1>4, <1>7, <1>8
<1> HIDE DEF t
<1>11. HubTypeOK'
  BY <1>1, <1>2, <1>3, <1>5, <1>7, <1>10 DEF HubTypeOK, t
<1>12. BufferIsTail'
  <2>1. ASSUME NEW k \in 1 .. t PROVE notifications'[k] = pushed'[n + 1 - t + k]
    <3>1. notifications'[k] = a[l + 1 - t + k] BY <1>7 DEF t
    <3>2. CASE k = t
      <4>1. l + 1 - t + k = l + 1 /\ n + 1 - t + k = n + 1 BY <1>4, <1>10, <3>2
      <4> QED BY <1>5, <1>6, <3>1, <4>1
    <3>3. CASE k # t
      <4>1. l + 1 - t + k \in 1 .. l /\ n - l + (l + 1 - t + k) = n + 1 - t + k /\ n + 1 - t + k \in 1 .. n
        <5>1. n \in Nat /\ l \in Nat /\ t \in Nat /\ k \in Nat /\ 1 <= k /\ k < t /\ t <= l + 1 /\ l <= n
          BY <1>4, <1>8, <1>10, <3>3
        <5> QED BY <5>1
      <4>2. a[l + 1 - t + k] = pushed[n - l + (l + 1 - t + k)] BY <1>6, <1>8, <4>1
      <4> QED BY <1>5, <3>1, <4>1, <4>2
    <3> QED BY <3>2, <3>3
  <2>2. Len(notifications') = IF Len(pushed') > NotifyCapacity THEN NotifyCapacity ELSE Len(pushed')
    BY <1>5, <1>10 DEF t
  <2>3. \A k \in 1 .. Len(notifications') : notifications'[k] = pushed'[Len(pushed') - Len(notifications') + k]
    <3>1. Len(pushed') = n + 1 /\ Len(notifications') = t BY <1>5 DEF t
    <3> DEFINE e == Len(pushed')
    <3> HIDE DEF e
    <3>2. e = n + 1 BY <3>1 DEF e
    <3>3. ASSUME NEW k \in 1 .. t PROVE notifications'[k] = pushed'[e - t + k]
      <4>1. e - t + k = n + 1 - t + k BY <1>4, <1>10, <3>2
      <4>2. notifications'[k] = pushed'[n + 1 - t + k] BY <2>1
      <4> QED BY <4>1, <4>2
    <3> QED BY <3>1, <3>3 DEF e
  <2> QED BY <2>2, <2>3 DEF BufferIsTail
<1>13. PushedOnce'
  <2>1. \A i \in 1 .. n + 1 : i \in 1 .. n \/ i = n + 1 BY <1>4
  <2>2. \A i, j \in 1 .. n + 1 : pushed'[i] = pushed'[j] => i = j
    BY <1>1, <1>5, <1>9, <2>1 DEF PushedOnce, n
  <2>3. \A i \in 1 .. n + 1 : webhooks'[pushed'[i]].at \in {"sending", "accepted"}
    BY <1>1, <1>3, <1>4, <1>5, <1>9, <2>1 DEF PushedOnce, n
  <2>4. ASSUME NEW k \in Messages, webhooks'[k].at \in {"sending", "accepted"}
        PROVE  \E i \in 1 .. n + 1 : pushed'[i] = k
    <3>1. CASE k = m
      <4>1. n + 1 \in 1 .. n + 1 BY <1>4
      <4> QED BY <1>5, <3>1, <4>1
    <3>2. CASE k # m
      <4>1. PICK i \in 1 .. n : pushed[i] = k BY <1>1, <1>3, <2>4, <3>2 DEF PushedOnce, n
      <4>2. i \in 1 .. n + 1 BY <1>4
      <4> QED BY <1>5, <4>1, <4>2
    <3> QED BY <3>1, <3>2
  <2> QED BY <1>5, <2>2, <2>3, <2>4 DEF PushedOnce
<1>14. RequestsFit'
  <2>1. SUFFICES ASSUME NEW k \in Messages
                 PROVE  /\ \A j \in webhooks'[k].after : webhooks'[j].at = "accepted"
                        /\ webhooks'[k].targets # {} => webhooks'[k].at = "sending"
    BY DEF RequestsFit
  <2>2. webhooks'[k].after = webhooks[k].after BY <1>3
  <2>3. \A j \in webhooks[k].after : j \in Messages /\ webhooks[j].at = "accepted"
    BY <1>1, <1>4 DEF RequestsFit
  <2>4. \A j \in Messages : webhooks[j].at = "accepted" => webhooks'[j].at = "accepted"
    BY <1>2, <1>3
  <2> QED BY <1>1, <1>3, <2>2, <2>3, <2>4 DEF RequestsFit
<1>15. \A k \in Messages : webhooks'[k].after = webhooks[k].after /\ m \notin webhooks[k].after
  BY <1>1, <1>2, <1>3 DEF RequestsFit
<1>16. Ordered(pushed)'
  <2>1. SUFFICES ASSUME NEW i \in 1 .. n + 1, NEW j \in 1 .. n + 1, i < j
                 PROVE  pushed'[j] \notin webhooks'[pushed'[i]].after
    BY <1>5 DEF Ordered
  <2>2. i \in 1 .. n /\ (j \in 1 .. n \/ j = n + 1)
    <3>1. n \in Nat BY <1>4
    <3> QED BY <2>1, <3>1
  <2>3. pushed'[i] = pushed[i] /\ webhooks'[pushed[i]].after = webhooks[pushed[i]].after
    BY <1>4, <1>5, <1>15, <2>2
  <2>4. CASE j = n + 1 BY <1>4, <1>5, <1>15, <2>2, <2>3, <2>4
  <2>5. CASE j \in 1 .. n BY <1>1, <1>5, <2>1, <2>2, <2>3, <2>5 DEF Ordered, n
  <2> QED BY <2>2, <2>4, <2>5
<1>17. ASSUME NEW s \in Streams PROVE StreamFits(s)'
  <2> DEFINE d == Sent(streams[s])
             g == streams[s].joinedAt
  <2>1. /\ Listed(s) /\ Untouched(s) /\ ReplayIsTail(s) /\ SentOnce(s) /\ NothingLost(s)
        /\ Ordered(d)
    BY <1>1 DEF StreamFits
  <2>2. /\ d \in Seq(Messages) /\ g \in Nat /\ streams[s].replayedAt \in Nat
        /\ streams[s].replay \in Seq(Messages)
    BY <1>1, StreamTyped
  <2>3. Len(d) \in Nat /\ (\A i \in 1 .. Len(d) : d[i] \in Messages) /\ Len(streams[s].replay) \in Nat
    BY <2>2
  <2>4. g <= n /\ \A i \in g + 1 .. n + 1 : i \in 1 .. n \/ i = n + 1
    BY <1>4, <2>1, <2>2 DEF ReplayIsTail, n
  <2>5. Listed(s)' BY <1>2, <2>1 DEF Listed
  <2>6. Untouched(s)'
    <3>1. streams[s].at = "away" => s \notin subscribers BY <2>1 DEF Listed
    <3> QED BY <1>2, <1>3, <2>1, <3>1 DEF Untouched
  <2>7. ReplayIsTail(s)'
    <3>1. \A k \in 1 .. Len(streams[s].replay) : streams[s].replayedAt - k + 1 \in 1 .. n
      BY <1>4, <2>1, <2>2, <2>3 DEF ReplayIsTail, n
    <3>2. streams[s].replayedAt <= n + 1 /\ g <= n + 1 BY <1>4, <2>1, <2>2 DEF ReplayIsTail, n
    <3> QED BY <1>2, <1>5, <2>1, <3>1, <3>2 DEF ReplayIsTail, n
  <2>8. ASSUME NEW k, Since(s, k) PROVE Since(s, k)'
    <3>1. PICK i \in g + 1 .. n : pushed[i] = k BY <2>8 DEF Since, n
    <3>2. i \in g + 1 .. n + 1 /\ i \in 1 .. n BY <1>4, <2>2
    <3> QED BY <1>2, <1>5, <3>1, <3>2 DEF Since
  <2>9. \A i \in 1 .. Len(d) : d[i] # m
    <3>1. SUFFICES ASSUME NEW i \in 1 .. Len(d) PROVE d[i] # m OBVIOUS
    <3>2. PICK k \in g + 1 .. n : pushed[k] = d[i] BY <2>1 DEF SentOnce, Since, n
    <3>3. k \in 1 .. n BY <1>4, <2>2
    <3> QED BY <1>9, <3>2, <3>3
  <2>10. SentOnce(s)'
    <3>1. ASSUME NEW k \in Messages, s \in webhooks'[k].targets PROVE Since(s, k)'
      <4>1. CASE k = m
        <5>1. n + 1 \in g + 1 .. n + 1 BY <1>4, <2>2, <2>4
        <5> QED BY <1>2, <1>5, <4>1, <5>1 DEF Since
      <4>2. CASE k # m BY <1>3, <2>1, <2>8, <3>1, <4>2 DEF SentOnce
      <4> QED BY <4>1, <4>2
    <3>2. \A i \in 1 .. Len(d) : s \notin webhooks'[d[i]].targets
      BY <1>3, <2>1, <2>3, <2>9 DEF SentOnce
    <3>3. \A i \in 1 .. Len(d) : Since(s, d[i])'
      <4>1. \A i \in 1 .. Len(d) : Since(s, d[i]) BY <2>1 DEF SentOnce
      <4>2. d' = d BY <1>2
      <4> HIDE DEF d
      <4> QED BY <2>8, <4>1, <4>2
    <3>4. \A i, j \in 1 .. Len(d) : d[i] = d[j] => i = j BY <2>1 DEF SentOnce
    <3> QED BY <1>2, <3>1, <3>2, <3>3, <3>4 DEF SentOnce
  <2>11. NothingLost(s)'
    <3>1. SUFFICES ASSUME s \in subscribers, NEW i \in g + 1 .. n + 1
                   PROVE  \/ Contains(d, pushed'[i]) \/ pushed'[i] \in streams[s].dropped
                          \/ s \in webhooks'[pushed'[i]].targets
      BY <1>2, <1>5 DEF NothingLost
    <3>2. CASE i = n + 1 BY <1>3, <1>5, <3>1, <3>2
    <3>3. CASE i \in 1 .. n
      <4>1. i \in g + 1 .. n BY <1>4, <2>2, <3>1, <3>3
      <4>2. \/ Contains(d, pushed[i]) \/ pushed[i] \in streams[s].dropped
            \/ s \in webhooks[pushed[i]].targets
        BY <2>1, <3>1, <4>1 DEF NothingLost, n
      <4>3. webhooks'[pushed[i]] = webhooks[pushed[i]] BY <1>3, <1>4, <1>9, <3>3
      <4> QED BY <1>5, <3>3, <4>2, <4>3
    <3> QED BY <2>4, <3>1, <3>2, <3>3
  <2>12. Ordered(d)'
    <3>1. \A i \in 1 .. Len(d) : webhooks'[d[i]].after = webhooks[d[i]].after BY <1>15, <2>3
    <3>2. d' = d BY <1>2
    <3> QED BY <2>1, <3>1, <3>2 DEF Ordered
  <2> QED BY <2>5, <2>6, <2>7, <2>10, <2>11, <2>12 DEF StreamFits
<1> QED BY <1>11, <1>12, <1>13, <1>14, <1>16, <1>17 DEF HubInv, WebhooksFit

\* A message is put into a stream's channel, or dropped where that is full.
LEMMA SendKeeps ==
    ASSUME HubInv, NEW m \in Messages, NEW s \in Streams, Send(m, s)
    PROVE  HubInv'
<1> DEFINE room == Len(streams[s].channel) < ChannelSize
           d == Sent(streams[s])
           n == Len(pushed)
           g == streams[s].joinedAt
<1>1. /\ HubTypeOK /\ WebhooksFit /\ RequestsFit /\ PushedOnce
      /\ \A r \in Streams : StreamFits(r)
      /\ webhooks \in [Messages -> Webhook] /\ webhooks[m] \in Webhook
      /\ streams \in [Streams -> Stream] /\ streams[s] \in Stream
      /\ \A r \in Streams : Len(streams[r].channel) <= ChannelSize
  BY DEF HubInv, HubTypeOK, WebhooksFit
<1>2. /\ s \in webhooks[m].targets
      /\ webhooks' = [webhooks EXCEPT ![m] = [webhooks[m] EXCEPT !.targets = webhooks[m].targets \ {s}]]
      /\ streams' = IF room THEN [streams EXCEPT ![s].channel = Append(streams[s].channel, m)]
                    ELSE [streams EXCEPT ![s].dropped = streams[s].dropped \cup {m}]
      /\ notifications' = notifications /\ subscribers' = subscribers /\ pushed' = pushed
  BY DEF Send
<1>3. /\ webhooks' \in [Messages -> Webhook] /\ webhooks'[m].at = webhooks[m].at
      /\ webhooks'[m].after = webhooks[m].after /\ webhooks'[m].targets = webhooks[m].targets \ {s}
      /\ \A k \in Messages \ {m} : webhooks'[k] = webhooks[k]
  BY <1>1, <1>2 DEF Webhook
<1>4. /\ streams[s].live \in Seq(Messages) /\ streams[s].channel \in Seq(Messages)
      /\ streams[s].dropped \in SUBSET Messages /\ d \in Seq(Messages)
      /\ g \in Nat /\ n \in Nat /\ \A i \in 1 .. n : pushed[i] \in Messages
  BY <1>1, StreamTyped, RequestTyped
<1>5. /\ streams'[s] \in Stream /\ streams'[s].at = streams[s].at
      /\ streams'[s].live = streams[s].live /\ streams'[s].replay = streams[s].replay
      /\ streams'[s].joinedAt = g /\ streams'[s].replayedAt = streams[s].replayedAt
      /\ streams'[s].channel = IF room THEN Append(streams[s].channel, m) ELSE streams[s].channel
      /\ streams'[s].dropped = IF room THEN streams[s].dropped ELSE streams[s].dropped \cup {m}
  <2>1. Append(streams[s].channel, m) \in Seq(Messages) /\ streams[s].dropped \cup {m} \in SUBSET Messages
    BY <1>4
  <2> QED BY <1>1, <1>2, <1>4, <2>1 DEF Stream
<1>6. \A r \in Streams \ {s} : streams'[r] = streams[r]
  BY <1>1, <1>2
<1>7. HubTypeOK'
  <2>1. streams' \in [Streams -> Stream]
    <3>1. \A r \in Streams : streams'[r] \in Stream BY <1>1, <1>5, <1>6
    <3> QED BY <1>2, <1>1, <3>1
  <2>2. ASSUME NEW r \in Streams PROVE Len(streams'[r].channel) <= ChannelSize
    <3>1. CASE r = s /\ room
      <4>1. Len(streams'[s].channel) = Len(streams[s].channel) + 1 BY <1>4, <1>5, <3>1
      <4> QED BY <1>4, <3>1, <4>1, HubBounds
    <3>2. CASE ~ (r = s /\ room) BY <1>1, <1>5, <1>6, <3>2
    <3> QED BY <3>1, <3>2
  <2> QED BY <1>1, <1>2, <1>3, <2>1, <2>2 DEF HubTypeOK
<1>8. webhooks[m].at = "sending" /\ \A k \in Messages : m \notin webhooks[k].after
  BY <1>1, <1>2 DEF RequestsFit
<1>9. RequestsFit'
  <2>1. SUFFICES ASSUME NEW k \in Messages
                 PROVE  /\ \A j \in webhooks'[k].after : webhooks'[j].at = "accepted"
                        /\ webhooks'[k].targets # {} => webhooks'[k].at = "sending"
    BY DEF RequestsFit
  <2>2. \A j \in webhooks[k].after : j \in Messages /\ webhooks[j].at = "accepted"
    BY <1>1, RequestTyped DEF RequestsFit
  <2> QED BY <1>1, <1>3, <1>8, <2>2 DEF RequestsFit
<1>10. /\ PushedOnce' /\ BufferIsTail' /\ Ordered(pushed)'
       /\ \A i \in 1 .. n : webhooks'[pushed[i]].after = webhooks[pushed[i]].after
  BY <1>1, <1>2, <1>3, PushedKept
<1>11. ASSUME NEW r \in Streams, r # s PROVE StreamFits(r)'
  <2>1. \A k \in Messages : r \in webhooks'[k].targets <=> r \in webhooks[k].targets
    BY <1>3, <1>11
  <2> QED BY <1>1, <1>2, <1>6, <1>10, <1>11, <2>1, StreamKept
<1>12. StreamFits(s)'
  <2> DEFINE e == Sent(streams'[s])
  <2>1. /\ Listed(s) /\ Untouched(s) /\ ReplayIsTail(s) /\ SentOnce(s) /\ NothingLost(s)
        /\ Ordered(d)
    BY <1>1 DEF StreamFits
  <2>2. e = IF room THEN Append(d, m) ELSE d
    <3>1. CASE room
      <4>1. streams[s].live \o Append(streams[s].channel, m) = Append(streams[s].live \o streams[s].channel, m)
        <5> DEFINE v == streams[s].live
                   c == streams[s].channel
        <5>1. v \in Seq(Messages) /\ c \in Seq(Messages) BY <1>4
        <5> HIDE DEF v, c
        <5>2. v \o Append(c, m) = Append(v \o c, m) BY <5>1, ConcatAppend
        <5> QED BY <5>2 DEF v, c
      <4> QED BY <1>5, <3>1, <4>1 DEF Sent
    <3>2. CASE ~room BY <1>5, <3>2 DEF Sent
    <3> QED BY <3>1, <3>2
  <2>3. Listed(s)' BY <1>2, <1>5, <2>1 DEF Listed
  <2>4. Untouched(s)'
    <3>1. streams[s].at # "away" BY <1>2, <2>1 DEF Untouched
    <3> QED BY <1>5, <3>1 DEF Untouched
  <2>5. ReplayIsTail(s)' BY <1>2, <1>5, <2>1 DEF ReplayIsTail
  <2>6. \A k : Since(s, k)' <=> Since(s, k) BY <1>2, <1>5 DEF Since
  <2>7. Len(d) \in Nat /\ \A i \in 1 .. Len(d) : d[i] \in Messages BY <1>4
  <2>8. \A i \in 1 .. Len(d) : d[i] # m BY <1>2, <2>1 DEF SentOnce
  <2>9. /\ Len(e) \in Nat
        /\ \A i \in 1 .. Len(e) : (i \in 1 .. Len(d) /\ e[i] = d[i]) \/ (i = Len(d) + 1 /\ e[i] = m)
        /\ \A i \in 1 .. Len(d) : i \in 1 .. Len(e) /\ e[i] = d[i]
        /\ room => Len(d) + 1 \in 1 .. Len(e) /\ e[Len(d) + 1] = m
    BY <1>4, <2>2, <2>7
  <2>10. Since(s, m) BY <1>2, <2>1 DEF SentOnce
  <2> HIDE DEF d, e
  <2>11. SentOnce(s)'
    <3>1. \A i \in 1 .. Len(e) : \E k \in g + 1 .. n : pushed[k] = e[i]
      BY <2>1, <2>9, <2>10 DEF SentOnce, Since, d
    <3>2. \A i \in 1 .. Len(e) : s \notin webhooks'[e[i]].targets
      BY <1>3, <2>1, <2>7, <2>9 DEF SentOnce, d
    <3>3. \A i, j \in 1 .. Len(e) : e[i] = e[j] => i = j
      BY <2>1, <2>8, <2>9 DEF SentOnce, d
    <3>4. \A k \in Messages : s \in webhooks'[k].targets => Since(s, k)'
      BY <1>3, <2>1, <2>6 DEF SentOnce
    <3>5. \A i \in 1 .. Len(e) : \E k \in streams'[s].joinedAt + 1 .. Len(pushed') : pushed'[k] = e[i]
      BY <1>2, <1>5, <3>1
    <3> QED BY <3>2, <3>3, <3>4, <3>5 DEF SentOnce, Since, e
  <2>12. NothingLost(s)'
    <3>1. SUFFICES ASSUME s \in subscribers, NEW i \in g + 1 .. n
                   PROVE  \/ Contains(e, pushed[i]) \/ pushed[i] \in streams'[s].dropped
                          \/ s \in webhooks'[pushed[i]].targets
      BY <1>2, <1>5 DEF NothingLost, e
    <3>2. pushed[i] \in Messages
      <4>1. i \in 1 .. n BY <1>4
      <4> QED BY <1>4, <4>1
    <3>3. CASE pushed[i] = m
      <4>1. CASE room BY <2>9, <3>3, <4>1 DEF Contains
      <4>2. CASE ~room BY <1>5, <3>3, <4>2
      <4> QED BY <4>1, <4>2
    <3>4. CASE pushed[i] # m
      <4>1. \/ Contains(d, pushed[i]) \/ pushed[i] \in streams[s].dropped
            \/ s \in webhooks[pushed[i]].targets
        BY <2>1, <3>1 DEF NothingLost, d
      <4>2. Contains(d, pushed[i]) => Contains(e, pushed[i]) BY <2>9 DEF Contains
      <4> QED BY <1>3, <1>5, <3>2, <3>4, <4>1, <4>2
    <3> QED BY <3>3, <3>4
  <2>13. \A i, j \in 1 .. Len(e) : i < j => e[j] \notin webhooks'[e[i]].after
    <3>1. SUFFICES ASSUME NEW i \in 1 .. Len(e), NEW j \in 1 .. Len(e), i < j
                   PROVE  e[j] \notin webhooks'[e[i]].after
      OBVIOUS
    <3>2. i \in 1 .. Len(d) /\ e[i] = d[i] BY <2>7, <2>9, <3>1
    <3>3. webhooks'[d[i]].after = webhooks[d[i]].after BY <1>3, <2>7, <3>2
    <3>4. CASE j \in 1 .. Len(d) /\ e[j] = d[j]
      BY <2>1, <3>1, <3>2, <3>3, <3>4 DEF Ordered
    <3>5. CASE e[j] = m
      BY <1>8, <2>7, <3>2, <3>3, <3>5
    <3> QED BY <2>9, <3>1, <3>4, <3>5
  <2>14. Ordered(Sent(streams[s]))' BY <2>13 DEF e, Ordered
  <2> QED BY <2>3, <2>4, <2>5, <2>11, <2>12, <2>14 DEF StreamFits
<1>13. \A r \in Streams : StreamFits(r)'
  BY <1>11, <1>12
<1> QED BY <1>7, <1>9, <1>10, <1>13 DEF HubInv, WebhooksFit

\* A replay is the end of the buffer, newest first.
LEMMA LatestIsTail ==
    ASSUME NEW b \in Seq(Messages), NEW limit \in Nat
    PROVE  /\ Latest(b, limit) \in Seq(Messages)
           /\ Len(Latest(b, limit)) = IF limit > Len(b) THEN Len(b) ELSE limit
           /\ \A k \in 1 .. Len(Latest(b, limit)) : Latest(b, limit)[k] = b[Len(b) - k + 1]
<1> DEFINE n == IF limit > Len(b) THEN Len(b) ELSE limit
           t == SubSeq(b, Len(b) - n + 1, Len(b))
<1>1. Len(b) \in Nat /\ n \in Nat /\ n <= Len(b)
  OBVIOUS
<1>2. Latest(b, limit) = Reverse(t)
  BY DEF Latest
<1> HIDE DEF n
<1>3. Len(b) - n + 1 \in 1 .. Len(b) + 1 /\ Len(b) - (Len(b) - n + 1) + 1 = n
  BY <1>1
<1>4. t \in Seq(Messages) /\ Len(t) = n
  BY <1>1, <1>3
<1>5. \A k \in 1 .. n : t[k] = b[Len(b) - n + 1 + k - 1]
  BY <1>1, <1>3, <1>4
<1> HIDE DEF t
<1>6. /\ Reverse(t) = [k \in 1 .. n |-> t[(n - k) + 1]]
  BY <1>4 DEF Reverse
<1>7. \A k \in 1 .. n : (n - k) + 1 \in 1 .. n /\ Len(b) - n + 1 + ((n - k) + 1) - 1 = Len(b) - k + 1
  BY <1>1
<1>8. \A k \in 1 .. n : Reverse(t)[k] = b[Len(b) - k + 1]
  BY <1>5, <1>6, <1>7
<1>9. \A k \in 1 .. n : t[(n - k) + 1] \in Messages
  BY <1>4, <1>7
<1>10. Reverse(t) \in Seq(Messages) /\ Len(Reverse(t)) = n
  BY <1>1, <1>6, <1>9
<1> QED BY <1>2, <1>8, <1>10 DEF n

\* A step of one stream's request.
LEMMA OwnStream ==
    ASSUME HubInv, NEW s \in Streams, NEW STATE st, st \in Stream, Len(st.channel) <= ChannelSize,
           streams' = [streams EXCEPT ![s] = st], subscribers' \in SUBSET Streams,
           \A r \in Streams \ {s} : r \in subscribers' <=> r \in subscribers,
           webhooks' = webhooks, notifications' = notifications, pushed' = pushed,
           StreamFits(s)'
    PROVE  HubInv'
<1>1. /\ HubTypeOK /\ WebhooksFit /\ \A r \in Streams : StreamFits(r)
      /\ streams \in [Streams -> Stream]
      /\ \A r \in Streams : Len(streams[r].channel) <= ChannelSize
  BY DEF HubInv, HubTypeOK
<1>2. streams' \in [Streams -> Stream] /\ streams'[s] = st /\ \A r \in Streams \ {s} : streams'[r] = streams[r]
  BY <1>1
<1>3. HubTypeOK'
  <2>1. \A r \in Streams : Len(streams'[r].channel) <= ChannelSize BY <1>1, <1>2
  <2> QED BY <1>1, <1>2, <2>1 DEF HubTypeOK
<1>4. WebhooksFit'
  BY <1>1 DEF WebhooksFit, PushedOnce, RequestsFit, BufferIsTail, Ordered
<1>5. ASSUME NEW r \in Streams, r # s PROVE StreamFits(r)'
  BY <1>1, <1>2, <1>5, StreamKept
<1> QED BY <1>3, <1>4, <1>5 DEF HubInv

\* A stream joins.
LEMMA JoinKeeps ==
    ASSUME HubInv, NEW s \in Streams, Join(s)
    PROVE  HubInv'
<1> DEFINE n == Len(pushed)
<1>1. /\ HubTypeOK /\ WebhooksFit /\ StreamFits(s) /\ subscribers \in SUBSET Streams
      /\ streams[s] \in Stream /\ Len(streams[s].channel) <= ChannelSize
  BY DEF HubInv, HubTypeOK
<1>2. /\ streams[s].at = "away" /\ subscribers' = subscribers \cup {s}
      /\ notifications' = notifications /\ webhooks' = webhooks /\ pushed' = pushed
  BY DEF Join
<1>3. PICK limit \in InitialLimits :
         streams' = [streams EXCEPT ![s] = [streams[s] EXCEPT !.at = "joined", !.limit = limit, !.joinedAt = n]]
  BY DEF Join
<1> DEFINE st == [streams[s] EXCEPT !.at = "joined", !.limit = limit, !.joinedAt = n]
<1>4. n \in Nat
  BY <1>1, RequestTyped
<1> HIDE DEF n
<1>5. /\ st \in Stream /\ st.at = "joined" /\ st.joinedAt = n /\ st.channel = streams[s].channel
      /\ st.live = streams[s].live /\ st.replay = streams[s].replay
      /\ st.replayedAt = streams[s].replayedAt /\ st.dropped = streams[s].dropped
  BY <1>1, <1>4 DEF Stream
<1>6. streams' = [streams EXCEPT ![s] = st]
  BY <1>3
<1> HIDE DEF st
<1>7. streams'[s] = st
  BY <1>1, <1>6 DEF HubTypeOK
<1>8. /\ Listed(s) /\ Untouched(s) /\ ReplayIsTail(s)
  BY <1>1 DEF StreamFits
<1>9. Sent(st) = Sent(streams[s]) /\ Sent(st) = <<>> /\ \A m \in Messages : s \notin webhooks[m].targets
  <2>1. Sent(st) = Sent(streams[s]) BY <1>5 DEF Sent
  <2> QED BY <1>2, <1>8, <2>1 DEF Untouched
<1>10. StreamFits(s)'
  <2>1. Len(Sent(st)) = 0 BY <1>9
  <2>2. Listed(s)' BY <1>2, <1>5, <1>7 DEF Listed
  <2>3. Untouched(s)' BY <1>5, <1>7 DEF Untouched
  <2>4. ReplayIsTail(s)' BY <1>2, <1>4, <1>5, <1>7, <1>8 DEF ReplayIsTail, n
  <2>5. SentOnce(s)' BY <1>2, <1>7, <1>9, <2>1 DEF SentOnce
  <2>6. NothingLost(s)' BY <1>2, <1>4, <1>5, <1>7 DEF NothingLost, n
  <2>7. Ordered(Sent(streams[s]))' BY <1>7, <2>1 DEF Ordered
  <2> QED BY <2>2, <2>3, <2>4, <2>5, <2>6, <2>7 DEF StreamFits
<1>11. subscribers' \in SUBSET Streams /\ \A r \in Streams \ {s} : r \in subscribers' <=> r \in subscribers
  BY <1>1, <1>2
<1> QED BY <1>1, <1>2, <1>5, <1>6, <1>10, <1>11, OwnStream

\* A stream ends, because of its limit or because its client has gone.
LEMMA EndKeeps ==
    ASSUME HubInv, NEW s \in Streams, RefuseLimit(s) \/ Leave(s)
    PROVE  HubInv'
<1> DEFINE st == [streams[s] EXCEPT !.at = "gone"]
<1>1. /\ HubTypeOK /\ WebhooksFit /\ StreamFits(s) /\ subscribers \in SUBSET Streams
      /\ streams[s] \in Stream /\ Len(streams[s].channel) <= ChannelSize
  BY DEF HubInv, HubTypeOK
<1>2. /\ streams' = [streams EXCEPT ![s] = st] /\ subscribers' = subscribers \ {s}
      /\ notifications' = notifications /\ webhooks' = webhooks /\ pushed' = pushed
  BY DEF RefuseLimit, Leave
<1>3. /\ st \in Stream /\ st.at = "gone" /\ st.joinedAt = streams[s].joinedAt
      /\ st.channel = streams[s].channel /\ st.live = streams[s].live /\ st.replay = streams[s].replay
      /\ st.replayedAt = streams[s].replayedAt
  BY <1>1 DEF Stream
<1> HIDE DEF st
<1>4. streams'[s] = st
  BY <1>1, <1>2 DEF HubTypeOK
<1>5. Sent(st) = Sent(streams[s])
  BY <1>3 DEF Sent
<1>6. /\ ReplayIsTail(s) /\ SentOnce(s) /\ Ordered(Sent(streams[s]))
  BY <1>1 DEF StreamFits
<1>7. StreamFits(s)'
  <2>1. Listed(s)' BY <1>2, <1>3, <1>4 DEF Listed
  <2>2. Untouched(s)' BY <1>3, <1>4 DEF Untouched
  <2>3. ReplayIsTail(s)' BY <1>2, <1>3, <1>4, <1>6 DEF ReplayIsTail
  <2>4. SentOnce(s)' BY <1>2, <1>3, <1>4, <1>5, <1>6 DEF SentOnce, Since
  <2>5. NothingLost(s)' BY <1>2 DEF NothingLost
  <2>6. Ordered(Sent(streams[s]))' BY <1>2, <1>4, <1>5, <1>6 DEF Ordered
  <2> QED BY <2>1, <2>2, <2>3, <2>4, <2>5, <2>6 DEF StreamFits
<1>8. subscribers' \in SUBSET Streams /\ \A r \in Streams \ {s} : r \in subscribers' <=> r \in subscribers
  BY <1>1, <1>2
<1> QED BY <1>1, <1>2, <1>3, <1>7, <1>8, OwnStream

\* A stream is given its replay.
LEMMA ReplayKeeps ==
    ASSUME HubInv, NEW s \in Streams, Replay(s)
    PROVE  HubInv'
<1> DEFINE n == Len(pushed)
           new == Latest(notifications, streams[s].limit)
           st == [streams[s] EXCEPT !.at = "live", !.replay = new, !.replayedAt = n]
<1>1. /\ HubTypeOK /\ BufferIsTail /\ StreamFits(s) /\ subscribers \in SUBSET Streams
      /\ streams[s] \in Stream /\ Len(streams[s].channel) <= ChannelSize
  BY DEF HubInv, HubTypeOK, WebhooksFit
<1>2. /\ streams[s].at = "joined" /\ streams[s].limit \in 1 .. MaxInitialLimit
      /\ streams' = [streams EXCEPT ![s] = st] /\ subscribers' = subscribers
      /\ notifications' = notifications /\ webhooks' = webhooks /\ pushed' = pushed
  BY DEF Replay
<1>3. /\ n \in Nat /\ notifications \in Seq(Messages) /\ Len(notifications) \in Nat
      /\ streams[s].limit \in Nat /\ NotifyCapacity \in Nat
  <2>1. MaxInitialLimit \in Nat /\ NotifyCapacity \in Nat BY HubBounds
  <2> QED BY <1>1, <1>2, <2>1, RequestTyped
<1>4. /\ new \in Seq(Messages)
      /\ Len(new) = IF streams[s].limit > Len(notifications) THEN Len(notifications) ELSE streams[s].limit
      /\ \A k \in 1 .. Len(new) : new[k] = notifications[Len(notifications) - k + 1]
  BY <1>3, LatestIsTail
<1> HIDE DEF n, new
<1>5. Len(new) \in Nat /\ Len(new) <= Len(notifications)
  BY <1>3, <1>4
<1>6. /\ Len(notifications) <= n
      /\ \A k \in 1 .. Len(notifications) : notifications[k] = pushed[n - Len(notifications) + k]
  <2>1. /\ Len(notifications) = IF n > NotifyCapacity THEN NotifyCapacity ELSE n
        /\ \A k \in 1 .. Len(notifications) : notifications[k] = pushed[n - Len(notifications) + k]
    BY <1>1 DEF BufferIsTail, n
  <2> QED BY <1>3, <2>1
<1>7. \A k \in 1 .. Len(new) : new[k] = pushed[n - k + 1]
  <2>1. SUFFICES ASSUME NEW k \in 1 .. Len(new) PROVE new[k] = pushed[n - k + 1]
    OBVIOUS
  <2>2. /\ Len(notifications) - k + 1 \in 1 .. Len(notifications)
        /\ n - Len(notifications) + (Len(notifications) - k + 1) = n - k + 1
    BY <1>3, <1>5
  <2> QED BY <1>4, <1>6, <2>2
<1>8. /\ st \in Stream /\ st.at = "live" /\ st.joinedAt = streams[s].joinedAt
      /\ st.channel = streams[s].channel /\ st.live = streams[s].live /\ st.replay = new
      /\ st.replayedAt = n /\ st.dropped = streams[s].dropped
  BY <1>1, <1>3, <1>4 DEF Stream
<1> HIDE DEF st
<1>9. streams'[s] = st
  BY <1>1, <1>2 DEF HubTypeOK
<1>10. Sent(st) = Sent(streams[s])
  BY <1>8 DEF Sent
<1>11. /\ Listed(s) /\ ReplayIsTail(s) /\ SentOnce(s) /\ NothingLost(s) /\ Ordered(Sent(streams[s]))
  BY <1>1 DEF StreamFits
<1>12. StreamFits(s)'
  <2>1. Listed(s)' BY <1>2, <1>8, <1>9, <1>11 DEF Listed
  <2>2. Untouched(s)' BY <1>8, <1>9 DEF Untouched
  <2>3. ReplayIsTail(s)'
    <3>1. Len(new) <= n /\ n <= n /\ streams[s].joinedAt <= n
      BY <1>3, <1>5, <1>6, <1>11 DEF ReplayIsTail, n
    <3> QED BY <1>2, <1>7, <1>8, <1>9, <3>1 DEF ReplayIsTail, n
  <2>4. SentOnce(s)' BY <1>2, <1>8, <1>9, <1>10, <1>11 DEF SentOnce, Since
  <2>5. NothingLost(s)' BY <1>2, <1>8, <1>9, <1>10, <1>11 DEF NothingLost
  <2>6. Ordered(Sent(streams[s]))' BY <1>2, <1>9, <1>10, <1>11 DEF Ordered
  <2> QED BY <2>1, <2>2, <2>3, <2>4, <2>5, <2>6 DEF StreamFits
<1>13. subscribers' \in SUBSET Streams
  BY <1>1, <1>2
<1> QED BY <1>1, <1>2, <1>8, <1>12, <1>13, OwnStream

\* A stream takes a message from its channel.
LEMMA DeliverKeeps ==
    ASSUME HubInv, NEW s \in Streams, Deliver(s)
    PROVE  HubInv'
<1> DEFINE l == streams[s].live
           c == streams[s].channel
           st == [streams[s] EXCEPT !.live = Append(l, Head(c)), !.channel = Tail(c)]
<1>1. /\ HubTypeOK /\ WebhooksFit /\ StreamFits(s) /\ subscribers \in SUBSET Streams
      /\ streams[s] \in Stream /\ Len(c) <= ChannelSize
  BY DEF HubInv, HubTypeOK
<1>2. /\ streams[s].at = "live" /\ c # <<>>
      /\ streams' = [streams EXCEPT ![s] = st] /\ subscribers' = subscribers
      /\ notifications' = notifications /\ webhooks' = webhooks /\ pushed' = pushed
  BY DEF Deliver
<1>3. l \in Seq(Messages) /\ c \in Seq(Messages)
  BY <1>1, StreamTyped
<1>4. /\ Append(l, Head(c)) \in Seq(Messages) /\ Tail(c) \in Seq(Messages)
      /\ Len(Tail(c)) <= ChannelSize
  <2>1. Head(c) \in Messages /\ Tail(c) \in Seq(Messages) /\ Len(Tail(c)) = Len(c) - 1
    BY <1>2, <1>3
  <2> QED BY <1>1, <1>3, <2>1, HubBounds
<1>5. Append(l, Head(c)) \o Tail(c) = l \o c
  <2> HIDE DEF l, c
  <2> QED BY <1>2, <1>3
<1>6. /\ st \in Stream /\ st.at = "live" /\ st.joinedAt = streams[s].joinedAt
      /\ st.channel = Tail(c) /\ st.live = Append(l, Head(c)) /\ st.replay = streams[s].replay
      /\ st.replayedAt = streams[s].replayedAt /\ st.dropped = streams[s].dropped
  BY <1>1, <1>2, <1>4 DEF Stream
<1> HIDE DEF st
<1>7. streams'[s] = st
  BY <1>1, <1>2 DEF HubTypeOK
<1>8. Sent(st) = Sent(streams[s])
  BY <1>5, <1>6 DEF Sent
<1>9. /\ Listed(s) /\ ReplayIsTail(s) /\ SentOnce(s) /\ NothingLost(s) /\ Ordered(Sent(streams[s]))
  BY <1>1 DEF StreamFits
<1>10. StreamFits(s)'
  <2>1. Listed(s)' BY <1>2, <1>6, <1>7, <1>9 DEF Listed
  <2>2. Untouched(s)' BY <1>6, <1>7 DEF Untouched
  <2>3. ReplayIsTail(s)' BY <1>2, <1>6, <1>7, <1>9 DEF ReplayIsTail
  <2>4. SentOnce(s)' BY <1>2, <1>6, <1>7, <1>8, <1>9 DEF SentOnce, Since
  <2>5. NothingLost(s)' BY <1>2, <1>6, <1>7, <1>8, <1>9 DEF NothingLost
  <2>6. Ordered(Sent(streams[s]))' BY <1>2, <1>7, <1>8, <1>9 DEF Ordered
  <2> QED BY <2>1, <2>2, <2>3, <2>4, <2>5, <2>6 DEF StreamFits
<1>11. subscribers' \in SUBSET Streams
  BY <1>1, <1>2
<1> QED BY <1>2, <1>4, <1>6, <1>10, <1>11, OwnStream

\* The equation of the function by which FlattenSeq is defined.
Joins(f, seqs, n) == f = [i \in 1 .. n |-> IF i = 1 THEN seqs[i] ELSE f[i - 1] \o seqs[i]]

\* FlattenSeq, for a function that meets its equation.
LEMMA FlattenIs ==
    ASSUME NEW seqs, NEW n \in Nat \ {0}, Len(seqs) = n, NEW f, Joins(f, seqs, n)
    PROVE  FlattenSeq(seqs) = f[n]
<1> USE DEF Joins
<1> DEFINE Eq(h) == h = [i \in 1 .. Len(seqs) |-> IF i = 1 THEN seqs[i] ELSE h[i - 1] \o seqs[i]]
           g == CHOOSE h : Eq(h)
           Good == {k \in Nat : k = 0 \/ g[k] = f[k]}
<1>1. Eq(f)
  OBVIOUS
<1>2. Eq(g)
  <2> HIDE DEF Eq
  <2> QED BY <1>1
<1>3. FlattenSeq(seqs) = g[n]
  <2>1. Len(seqs) # 0 OBVIOUS
  <2> QED BY <2>1, Zenon DEF FlattenSeq
<1>4. g = [i \in 1 .. n |-> IF i = 1 THEN seqs[i] ELSE g[i - 1] \o seqs[i]]
  BY <1>2
<1> HIDE DEF g
<1>5. ASSUME NEW k \in 1 .. n, k - 1 \in Good PROVE k \in Good
  <2>1. CASE k = 1
    BY <1>4, <2>1
  <2>2. CASE k # 1
    <3>1. g[k - 1] = f[k - 1] BY <1>5, <2>2
    <3>2. g[k] = g[k - 1] \o seqs[k] /\ f[k] = f[k - 1] \o seqs[k] BY <1>4, <2>2
    <3>3. g[k] = f[k] BY <3>1, <3>2, Zenon
    <3> QED BY <3>3
  <2> QED BY <2>1, <2>2
<1>6. 0 \in Good /\ (n \in Good => g[n] = f[n])
  OBVIOUS
<1> HIDE DEF Good
<1>7. n \in Nat /\ n \in 0 .. n /\ \A k \in 1 .. n : k - 1 \in Good => k \in Good
  BY <1>5
<1>8. \A k \in 0 .. n : k \in Good
  BY <1>6, <1>7, Induction, Zenon
<1> QED BY <1>3, <1>6, <1>7, <1>8

\* A page of the list.
LEMMA PageIs ==
    ASSUME NEW b \in Seq(Messages), NEW offset \in Nat, NEW limit \in Nat \ {0}
    PROVE  /\ Page(b, offset, limit).hasMore \in BOOLEAN
           /\ Page(b, offset, limit).hasMore <=> offset + limit < Len(b)
           /\ offset < Len(b) =>
                Page(b, offset, limit).items =
                    SubSeq(Reverse(b), offset + 1,
                           IF offset + limit > Len(b) THEN Len(b) ELSE offset + limit)
           /\ ~ (offset < Len(b)) => Page(b, offset, limit).items = <<>>
<1> DEFINE total == Len(b)
           end == IF offset + limit > total THEN total ELSE offset + limit
<1>1. total \in Nat /\ end \in Nat
  OBVIOUS
<1>2. CASE offset >= total
  <2>1. Page(b, offset, limit) = [items |-> <<>>, hasMore |-> FALSE]
    BY <1>2 DEF Page
  <2>2. ~ (offset + limit < total) /\ ~ (offset < total) BY <1>1, <1>2
  <2> QED BY <2>1, <2>2
<1>3. CASE ~ (offset >= total)
  <2>1. Page(b, offset, limit) = [items |-> SubSeq(Reverse(b), offset + 1, end), hasMore |-> end < total]
    BY <1>3 DEF Page
  <2>2. (end < total) <=> (offset + limit < total) BY <1>1, <1>3
  <2>3. Page(b, offset, limit).hasMore = (end < total) BY <2>1
  <2>4. Page(b, offset, limit).hasMore \in BOOLEAN
    <3>1. (end < total) \in BOOLEAN BY <1>1, SMT
    <3> QED BY <2>3, <3>1, Zenon
  <2>5. Page(b, offset, limit).hasMore <=> offset + limit < total BY <2>2, <2>3, Zenon
  <2>6. Page(b, offset, limit).items = SubSeq(Reverse(b), offset + 1, end) BY <2>1
  <2>7. offset < total BY <1>1, <1>3
  <2> QED BY <2>4, <2>5, <2>6, <2>7
<1> QED BY <1>2, <1>3

\* A prefix and what follows it.
LEMMA PrefixGrows ==
    ASSUME NEW S, NEW r \in Seq(S), NEW m \in 0 .. Len(r), NEW n \in m .. Len(r)
    PROVE  SubSeq(r, 1, m) \o SubSeq(r, m + 1, n) = SubSeq(r, 1, n)
<1> DEFINE p == SubSeq(r, 1, m)
           q == SubSeq(r, m + 1, n)
           t == SubSeq(r, 1, n)
<1>1. Len(r) \in Nat /\ m \in Nat /\ n \in Nat /\ m <= n /\ n <= Len(r)
  OBVIOUS
<1>2. p \in Seq(S) /\ Len(p) = m /\ \A i \in 1 .. m : p[i] = r[i]
  BY <1>1
<1>3. q \in Seq(S) /\ Len(q) = n - m /\ \A i \in 1 .. n - m : q[i] = r[m + i]
  BY <1>1
<1>4. t \in Seq(S) /\ Len(t) = n /\ \A i \in 1 .. n : t[i] = r[i]
  BY <1>1
<1> HIDE DEF p, q, t
<1>5. /\ p \o q \in Seq(S) /\ Len(p \o q) = Len(p) + Len(q)
      /\ \A i \in 1 .. Len(p) : (p \o q)[i] = p[i]
      /\ \A i \in 1 .. Len(q) : (p \o q)[Len(p) + i] = q[i]
  BY <1>2, <1>3, ConcatParts
<1>6. Len(p \o q) = n
  BY <1>1, <1>2, <1>3, <1>5
<1>7. \A i \in 1 .. n : (p \o q)[i] = t[i]
  <2>1. SUFFICES ASSUME NEW i \in 1 .. n PROVE (p \o q)[i] = t[i]
    OBVIOUS
  <2>2. CASE i <= m
    <3>1. i \in 1 .. m BY <1>1, <2>2
    <3> QED BY <1>2, <1>4, <1>5, <3>1
  <2>3. CASE ~ (i <= m)
    <3>1. i - m \in 1 .. n - m /\ m + (i - m) = i BY <1>1, <2>3
    <3>2. (p \o q)[m + (i - m)] = q[i - m] BY <1>2, <1>3, <1>5, <3>1
    <3>3. q[i - m] = r[m + (i - m)] BY <1>3, <3>1
    <3> QED BY <1>4, <3>1, <3>2, <3>3
  <2> QED BY <2>2, <2>3
<1> QED BY <1>4, <1>5, <1>6, <1>7, SeqEqual DEF p, q, t

\* Reversing.
LEMMA ReverseIs ==
    ASSUME NEW S, NEW b \in Seq(S)
    PROVE  /\ Reverse(b) \in Seq(S) /\ Len(Reverse(b)) = Len(b)
           /\ \A k \in 1 .. Len(b) : Reverse(b)[k] = b[(Len(b) - k) + 1]
<1> DEFINE n == Len(b)
<1>1. n \in Nat /\ \A k \in 1 .. n : (n - k) + 1 \in 1 .. n
  OBVIOUS
<1>2. \A k \in 1 .. n : b[(n - k) + 1] \in S
  BY <1>1
<1>3. Reverse(b) = [k \in 1 .. n |-> b[(n - k) + 1]]
  BY DEF Reverse
<1> HIDE DEF n
<1>4. Reverse(b) \in Seq(S) /\ Len(Reverse(b)) = n
  BY <1>1, <1>2, <1>3
<1> QED BY <1>3, <1>4 DEF n

\* The pages up to the one without a next one, put together.
LEMMA PagesGiveAll ==
    ASSUME NEW b \in Seq(Messages), NEW limit \in Nat \ {0}
    PROVE  LET pages == [i \in 0 .. Len(b) |-> Page(b, i * limit, limit)]
               last == CHOOSE i \in DOMAIN pages :
                           /\ ~pages[i].hasMore
                           /\ \A j \in 0 .. i - 1 : pages[j].hasMore
           IN  FlattenSeq([i \in 1 .. last + 1 |-> pages[i - 1].items]) = Reverse(b)
<1> DEFINE l == Len(b)
           r == Reverse(b)
           pages == [i \in 0 .. Len(b) |-> Page(b, i * limit, limit)]
           IsLast(i) == /\ ~pages[i].hasMore
                        /\ \A j \in 0 .. i - 1 : pages[j].hasMore
           last == CHOOSE i \in DOMAIN pages : IsLast(i)
           ends == {i \in 0 .. l : ~pages[i].hasMore}
<1>1. l \in Nat /\ r \in Seq(Messages) /\ Len(r) = l
  BY ReverseIs
<1>2. \A i \in 0 .. l : i * limit \in Nat
  BY <1>1
<1>3. ASSUME NEW i \in 0 .. l
      PROVE  /\ pages[i].hasMore \in BOOLEAN
             /\ pages[i].hasMore <=> i * limit + limit < l
             /\ i * limit < l =>
                  pages[i].items = SubSeq(r, i * limit + 1,
                                          IF i * limit + limit > l THEN l ELSE i * limit + limit)
             /\ ~ (i * limit < l) => pages[i].items = <<>>
  <2>1. pages[i] = Page(b, i * limit, limit) OBVIOUS
  <2> HIDE DEF pages
  <2> DEFINE o == i * limit
  <2>2. o \in Nat BY <1>2
  <2>3. pages[i] = Page(b, o, limit) BY <2>1
  <2> HIDE DEF o
  <2>4. /\ Page(b, o, limit).hasMore \in BOOLEAN
        /\ Page(b, o, limit).hasMore <=> o + limit < Len(b)
        /\ o < Len(b) => Page(b, o, limit).items =
                SubSeq(Reverse(b), o + 1, IF o + limit > Len(b) THEN Len(b) ELSE o + limit)
        /\ ~ (o < Len(b)) => Page(b, o, limit).items = <<>>
    BY <2>2, PageIs
  <2> QED BY <2>3, <2>4, Zenon DEF o
<1>4. DOMAIN pages = 0 .. l
  OBVIOUS
<1> HIDE DEF pages
<1>5. l \in ends
  <2>1. \A x \in Nat, y \in Nat \ {0} : x * y >= x OBVIOUS
  <2>2. l * limit >= l /\ l * limit \in Nat /\ l \in 0 .. l BY <1>1, <2>1
  <2>3. ~ (l * limit + limit < l) BY <1>1, <2>2
  <2> QED BY <1>3, <2>2, <2>3
<1>6. ends \subseteq Nat
  BY <1>1
<1>7. PICK i \in ends : \A j \in ends : i <= j
  <2> HIDE DEF ends
  <2> QED BY <1>5, <1>6, LeastNatural
<1>8. i \in 0 .. l /\ IsLast(i)
  <2>1. i \in 0 .. l /\ ~pages[i].hasMore BY <1>7
  <2>2. ASSUME NEW j \in 0 .. i - 1 PROVE pages[j].hasMore
    <3>1. j \in 0 .. l /\ ~ (i <= j) BY <1>1, <2>1
    <3>2. j \notin ends BY <1>7, <3>1
    <3> QED BY <3>1, <3>2
  <2> QED BY <2>1, <2>2
<1> HIDE DEF ends
<1>9. last \in 0 .. l /\ IsLast(last)
  <2> HIDE DEF IsLast
  <2> QED BY <1>4, <1>8
<1> HIDE DEF last
<1>10. /\ last \in Nat /\ ~ (last * limit + limit < l)
       /\ \A j \in 0 .. last - 1 : j \in 0 .. l /\ j * limit + limit < l
  <2>1. \A j \in 0 .. last - 1 : j \in 0 .. l BY <1>1, <1>9
  <2>2. \A j \in 0 .. last - 1 : j * limit + limit < l BY <1>3, <1>9, <2>1, Zenon
  <2>3. ~ (last * limit + limit < l) BY <1>3, <1>9, Zenon
  <2>4. last \in Nat BY <1>1, <1>9
  <2> QED BY <2>1, <2>2, <2>3, <2>4, Zenon
<1> DEFINE seqs == [k \in 1 .. last + 1 |-> pages[k - 1].items]
           Cut(k) == IF k * limit > l THEN l ELSE k * limit
           f == [k \in 1 .. last + 1 |-> SubSeq(r, 1, Cut(k))]
<1>11. \A k \in Nat : Cut(k) \in 0 .. l
  BY <1>1
<1>12. ASSUME NEW k \in 1 .. last + 1
       PROVE  SubSeq(r, 1, Cut(k)) =
                  IF k = 1 THEN pages[k - 1].items ELSE SubSeq(r, 1, Cut(k - 1)) \o pages[k - 1].items
  <2>1. k - 1 \in 0 .. l /\ k \in Nat BY <1>1, <1>9
  <2>2. k * limit = (k - 1) * limit + limit BY <2>1
  <2> DEFINE o == (k - 1) * limit
  <2>3. o \in Nat BY <1>2, <2>1
  <2>4. Cut(k) = IF o + limit > l THEN l ELSE o + limit BY <2>2
  <2>5. /\ o < l => pages[k - 1].items = SubSeq(r, o + 1, Cut(k))
        /\ ~ (o < l) => pages[k - 1].items = <<>>
    BY <1>3, <2>1, <2>4
  <2>6. CASE k = 1
    <3>1. o = 0 BY <2>6
    <3> HIDE DEF Cut, o, r
    <3>2. CASE 0 < l
      <4>1. o < l /\ o + 1 = 1 BY <3>1, <3>2
      <4>2. pages[k - 1].items = SubSeq(r, 1, Cut(k)) BY <2>5, <4>1
      <4> QED BY <2>6, <4>2
    <3>3. CASE l = 0
      <4>1. Cut(k) = 0 BY <1>11, <2>1, <3>3
      <4>2. SubSeq(r, 1, 0) = <<>> BY <1>1
      <4>3. ~ (o < l) BY <3>1, <3>3
      <4>4. pages[k - 1].items = <<>> BY <2>5, <4>3
      <4> QED BY <2>6, <4>1, <4>2, <4>4
    <3>4. 0 < l \/ l = 0 BY <1>1
    <3> QED BY <3>2, <3>3, <3>4
  <2>7. CASE k # 1
    <3>1. k - 2 \in 0 .. last - 1 BY <1>10, <2>7
    <3>2. (k - 2) * limit + limit < l BY <1>10, <3>1
    <3>3. (k - 2) * limit + limit = o BY <2>1
    <3>4. o < l BY <3>2, <3>3
    <3>5. Cut(k - 1) = o BY <1>1, <2>3, <3>4
    <3>6. Cut(k) \in o .. l /\ o \in 0 .. l BY <1>1, <2>3, <2>4, <3>4
    <3> HIDE DEF Cut, o
    <3>7. SubSeq(r, 1, o) \o SubSeq(r, o + 1, Cut(k)) = SubSeq(r, 1, Cut(k))
      BY <1>1, <3>6, PrefixGrows
    <3> QED BY <2>5, <2>7, <3>4, <3>5, <3>7
  <2> QED BY <2>6, <2>7
<1>13. Cut(last + 1) = l
  <2>1. (last + 1) * limit = last * limit + limit /\ last * limit \in Nat BY <1>10
  <2> QED BY <1>1, <1>10, <2>1
<1> HIDE DEF Cut
<1>14. f = [k \in 1 .. last + 1 |-> IF k = 1 THEN seqs[k] ELSE f[k - 1] \o seqs[k]]
  <2>1. ASSUME NEW k \in 1 .. last + 1 PROVE f[k] = IF k = 1 THEN seqs[k] ELSE f[k - 1] \o seqs[k]
    <3>1. f[k] = SubSeq(r, 1, Cut(k)) /\ seqs[k] = pages[k - 1].items OBVIOUS
    <3>2. CASE k = 1 BY <1>12, <3>1, <3>2
    <3>3. CASE k # 1
      <4>1. k - 1 \in 1 .. last + 1 BY <1>10, <3>3
      <4>2. f[k - 1] = SubSeq(r, 1, Cut(k - 1)) BY <4>1
      <4> QED BY <1>12, <3>1, <3>3, <4>2
    <3> QED BY <3>2, <3>3
  <2>2. f = [k \in 1 .. last + 1 |-> f[k]] OBVIOUS
  <2> HIDE DEF f, seqs
  <2> QED BY <2>1, <2>2
<1>15. f[last + 1] = r
  <2>1. last + 1 \in 1 .. last + 1 BY <1>10
  <2>2. f[last + 1] = SubSeq(r, 1, l) BY <1>13, <2>1
  <2>3. SubSeq(r, 1, l) \in Seq(Messages) /\ Len(SubSeq(r, 1, l)) = l
        /\ \A k \in 1 .. l : SubSeq(r, 1, l)[k] = r[k]
    <3> HIDE DEF l, r
    <3> QED BY <1>1
  <2> HIDE DEF r
  <2> QED BY <1>1, <2>2, <2>3, SeqEqual
<1>16. Len(seqs) = last + 1 /\ last + 1 \in Nat \ {0}
  BY <1>10
<1> HIDE DEF f, seqs, r
<1>17. FlattenSeq(seqs) = r
  <2> DEFINE n == last + 1
  <2>1. n \in Nat \ {0} /\ Len(seqs) = n /\ f[n] = r BY <1>15, <1>16
  <2>2. Joins(f, seqs, n) BY <1>14 DEF Joins
  <2> HIDE DEF n
  <2>3. FlattenSeq(seqs) = f[n] BY <2>1, <2>2, FlattenIs
  <2> QED BY <2>1, <2>3
<1> QED BY <1>17 DEF seqs, r, last, pages, IsLast

\* The larger one of two numbers.
LEMMA MaxOfTwo ==
    ASSUME NEW x \in Int, NEW y \in Int
    PROVE  Max({x, y}) = IF x >= y THEN x ELSE y
<1> DEFINE z == IF x >= y THEN x ELSE y
           IsMax(k) == \A j \in {x, y} : k >= j
<1>1. z \in {x, y} /\ IsMax(z)
  OBVIOUS
<1>2. \A k \in {x, y} : IsMax(k) => k = z
  OBVIOUS
<1>3. Max({x, y}) = CHOOSE k \in {x, y} : IsMax(k)
  BY DEF Max
<1> HIDE DEF z, IsMax
<1> QED BY <1>1, <1>2, <1>3 DEF z

\* Paging through the buffer gives the end of what was pushed.
LEMMA ListingFits ==
    ASSUME HubTypeOK, BufferIsTail
    PROVE  ListingIsNewest
<1> DEFINE n == Len(pushed)
           l == Len(notifications)
           oldest == Max({1, n - NotifyCapacity + 1})
           tail == SubSeq(pushed, oldest, n)
<1>1. /\ n \in Nat /\ l \in Nat /\ pushed \in Seq(Messages) /\ notifications \in Seq(Messages)
      /\ NotifyCapacity \in Nat \ {0}
  BY RequestTyped, HubBounds
<1>2. /\ l = (IF n > NotifyCapacity THEN NotifyCapacity ELSE n)
      /\ \A k \in 1 .. l : notifications[k] = pushed[n - l + k]
  BY DEF BufferIsTail
<1>3. oldest = n - l + 1
  <2>1. oldest = IF 1 >= n - NotifyCapacity + 1 THEN 1 ELSE n - NotifyCapacity + 1
    BY <1>1, MaxOfTwo
  <2> HIDE DEF n, l, oldest
  <2> QED BY <1>1, <1>2, <2>1
<1>4. tail = notifications
  <2> HIDE DEF n, l, oldest
  <2>1. l <= n BY <1>1, <1>2
  <2>2. oldest \in 1 .. n + 1 /\ n - oldest + 1 = l BY <1>1, <1>3, <2>1
  <2>3. tail \in Seq(Messages) /\ Len(tail) = l BY <1>1, <2>2 DEF n
  <2>4. \A k \in 1 .. l : tail[k] = pushed[oldest + k - 1] BY <1>1, <2>2, <2>3 DEF n
  <2>5. \A k \in 1 .. l : oldest + k - 1 = n - l + k BY <1>1, <1>3
  <2> HIDE DEF tail
  <2>6. \A k \in 1 .. l : tail[k] = notifications[k] BY <1>2, <2>4, <2>5
  <2>7. Len(tail) = Len(notifications) BY <2>3 DEF l
  <2>8. \A k \in 1 .. Len(tail) : tail[k] = notifications[k] BY <2>3, <2>6
  <2> QED BY <1>1, <2>3, <2>7, <2>8, SeqEqual
<1> DEFINE Pages(limit) == [i \in 0 .. Len(notifications) |-> Page(notifications, i * limit, limit)]
           Final(limit) == CHOOSE i \in DOMAIN Pages(limit) :
                              /\ ~Pages(limit)[i].hasMore
                              /\ \A j \in 0 .. i - 1 : Pages(limit)[j].hasMore
           All(limit) == FlattenSeq([i \in 1 .. Final(limit) + 1 |-> Pages(limit)[i - 1].items])
<1>5. ASSUME NEW limit \in 1 .. NotifyCapacity + 1 PROVE All(limit) = Reverse(notifications)
  <2>1. limit \in Nat \ {0} BY <1>1
  <2> QED BY <1>1, <2>1, PagesGiveAll
<1>6. \A limit \in 1 .. NotifyCapacity + 1 : All(limit) = Reverse(tail)
  <2> HIDE DEF All, tail
  <2> QED BY <1>4, <1>5
<1> QED BY <1>6 DEF ListingIsNewest

\* The invariant implies what the run checks.
LEMMA HubInvGives == HubInv => BufferSafe /\ StreamExactlyOnce /\ InOrderPerSender
<1> SUFFICES ASSUME HubInv PROVE BufferSafe /\ StreamExactlyOnce /\ InOrderPerSender
  OBVIOUS
<1>1. /\ HubTypeOK /\ PushedOnce /\ BufferIsTail /\ Ordered(pushed)
      /\ \A s \in Streams : StreamFits(s)
  BY DEF HubInv, WebhooksFit
<1>2. BufferSafe
  BY <1>1, ListingFits DEF BufferSafe
<1>3. Len(pushed) \in Nat /\ \A i, j \in 1 .. Len(pushed) : pushed[i] = pushed[j] => i = j
  BY <1>1, RequestTyped DEF PushedOnce
<1>4. ASSUME NEW s \in Streams
      PROVE  /\ Listed(s) /\ ReplayIsTail(s) /\ SentOnce(s) /\ NothingLost(s)
             /\ Ordered(Sent(streams[s]))
             /\ streams[s].live \in Seq(Messages) /\ streams[s].channel \in Seq(Messages)
             /\ streams[s].replay \in Seq(Messages)
             /\ streams[s].joinedAt \in Nat /\ streams[s].replayedAt \in Nat
             /\ Sent(streams[s]) \in Seq(Messages)
             /\ Len(Sent(streams[s])) = Len(streams[s].live) + Len(streams[s].channel)
             /\ \A i \in 1 .. Len(streams[s].live) : Sent(streams[s])[i] = streams[s].live[i]
  BY <1>1, StreamTyped DEF StreamFits
<1>5. StreamHasNoGap
  <2> DEFINE start(s) == IF streams[s].joinedAt < streams[s].replayedAt - Len(streams[s].replay)
                         THEN streams[s].joinedAt ELSE streams[s].replayedAt - Len(streams[s].replay)
  <2>1. SUFFICES ASSUME NEW s \in Streams, streams[s].at = "live", NEW i \in start(s) + 1 .. Len(pushed)
                 PROVE  \/ Contains(streams[s].replay \o streams[s].live \o streams[s].channel, pushed[i])
                        \/ pushed[i] \in streams[s].dropped
                        \/ s \in webhooks[pushed[i]].targets
    BY DEF StreamHasNoGap
  <2> DEFINE p == streams[s].replay
             v == streams[s].live
             c == streams[s].channel
             g == streams[s].joinedAt
             w == streams[s].replayedAt
             d == Sent(streams[s])
  <2>2. /\ p \in Seq(Messages) /\ v \in Seq(Messages) /\ c \in Seq(Messages) /\ d \in Seq(Messages)
        /\ Len(p) \in Nat /\ g \in Nat /\ w \in Nat /\ Len(p) <= w /\ w <= Len(pushed) /\ g <= w
        /\ \A k \in 1 .. Len(p) : p[k] = pushed[w - k + 1]
    <3>1. p \in Seq(Messages) /\ v \in Seq(Messages) /\ c \in Seq(Messages) /\ d \in Seq(Messages)
      BY <1>4
    <3>2. Len(p) \in Nat BY <3>1
    <3> QED BY <1>4, <2>1, <3>1, <3>2 DEF ReplayIsTail
  <2>3. p \o v \o c = p \o d
    <3>1. d = v \o c BY DEF Sent
    <3>2. p \in Seq(Messages) /\ v \in Seq(Messages) /\ c \in Seq(Messages) BY <2>2
    <3> HIDE DEF p, v, c, d
    <3>3. (p \o v) \o c = p \o (v \o c) BY <3>2, ConcatAssociative
    <3> QED BY <3>1, <3>3
  <2>4. s \in subscribers
    BY <1>4, <2>1 DEF Listed
  <2>5. CASE i > g
    <3>1. i \in g + 1 .. Len(pushed) BY <1>3, <2>1, <2>2, <2>5
    <3>2. Contains(d, pushed[i]) \/ pushed[i] \in streams[s].dropped \/ s \in webhooks[pushed[i]].targets
      BY <1>4, <2>4, <3>1 DEF NothingLost
    <3>3. ASSUME Contains(d, pushed[i]) PROVE Contains(p \o d, pushed[i])
      <4> HIDE DEF d, p
      <4>1. PICK k \in 1 .. Len(d) : d[k] = pushed[i] BY <3>3 DEF Contains
      <4>2. (p \o d)[Len(p) + k] = d[k] /\ Len(p \o d) = Len(p) + Len(d) BY <2>2, ConcatProperties
      <4>3. Len(d) \in Nat BY <2>2
      <4>4. Len(p) + k \in 1 .. Len(p \o d) BY <2>2, <4>2, <4>3
      <4> QED BY <4>1, <4>2, <4>4 DEF Contains
    <3> QED BY <2>3, <3>2, <3>3
  <2>6. CASE ~ (i > g)
    <3> DEFINE k == w - i + 1
    <3>1. k \in 1 .. Len(p) /\ w - k + 1 = i
      <4>1. i \in Int /\ start(s) \in Int /\ i >= start(s) + 1 BY <2>1, <2>2
      <4>2. start(s) = IF g < w - Len(p) THEN g ELSE w - Len(p) OBVIOUS
      <4> HIDE DEF start, g, w, p
      <4> QED BY <2>2, <2>6, <4>1, <4>2
    <3> HIDE DEF k, d, p
    <3>2. p[k] = pushed[i] BY <2>2, <3>1
    <3>3. (p \o d)[k] = p[k] /\ Len(p \o d) = Len(p) + Len(d) BY <2>2, <3>1, ConcatProperties
    <3>4. Len(d) \in Nat BY <2>2
    <3>5. k \in 1 .. Len(p \o d) BY <2>2, <3>1, <3>3, <3>4
    <3>6. Contains(p \o d, pushed[i]) BY <3>2, <3>3, <3>5 DEF Contains
    <3> QED BY <2>3, <3>6 DEF p
  <2> QED BY <2>5, <2>6
<1>6. DuplicatesOnlyAtJoin
  <2>1. ASSUME NEW seq, NEW m, \A i, j \in DOMAIN seq : seq[i] = seq[j] => i = j
        PROVE  Cardinality({i \in DOMAIN seq : seq[i] = m}) <= 1
    <3> DEFINE at == {i \in DOMAIN seq : seq[i] = m}
    <3>1. CASE at = {} BY <3>1, FS_EmptySet
    <3>2. CASE at # {}
      <4>1. PICK i \in at : TRUE BY <3>2
      <4>2. at = {i} BY <2>1, <4>1
      <4>3. Cardinality({i}) = 1 BY FS_Singleton
      <4> HIDE DEF at
      <4>4. Cardinality(at) = 1 BY <4>2, <4>3
      <4> QED BY <4>4 DEF at
    <3> QED BY <3>1, <3>2
  <2>2. SUFFICES ASSUME NEW s \in Streams, NEW m \in Messages
                 PROVE  /\ Cardinality({i \in DOMAIN streams[s].replay : streams[s].replay[i] = m}) <= 1
                        /\ Cardinality({i \in DOMAIN streams[s].live : streams[s].live[i] = m}) <= 1
                        /\ (Contains(streams[s].replay, m) /\ Contains(streams[s].live, m)) =>
                              \E i \in streams[s].joinedAt + 1 .. streams[s].replayedAt : pushed[i] = m
    BY DEF DuplicatesOnlyAtJoin
  <2> DEFINE p == streams[s].replay
             v == streams[s].live
             g == streams[s].joinedAt
             w == streams[s].replayedAt
             d == Sent(streams[s])
  <2>3. /\ p \in Seq(Messages) /\ v \in Seq(Messages) /\ d \in Seq(Messages)
        /\ Len(d) = Len(v) + Len(streams[s].channel)
        /\ \A i \in 1 .. Len(v) : d[i] = v[i]
        /\ g \in Nat /\ w \in Nat /\ Len(p) <= w /\ w <= Len(pushed)
        /\ \A k \in 1 .. Len(p) : p[k] = pushed[w - k + 1]
        /\ \A i, j \in 1 .. Len(d) : d[i] = d[j] => i = j
        /\ \A i \in 1 .. Len(d) : \E k \in g + 1 .. Len(pushed) : pushed[k] = d[i]
    BY <1>4 DEF ReplayIsTail, SentOnce, Since
  <2>4. /\ Len(p) \in Nat /\ Len(v) \in Nat /\ Len(streams[s].channel) \in Nat
        /\ DOMAIN p = 1 .. Len(p) /\ DOMAIN v = 1 .. Len(v)
    BY <1>4, <2>3
  <2>5. \A i \in 1 .. Len(v) : i \in 1 .. Len(d)
    <3>1. Len(v) \in Nat /\ Len(streams[s].channel) \in Nat /\ Len(d) = Len(v) + Len(streams[s].channel)
      BY <2>3, <2>4
    <3> HIDE DEF v, d
    <3> QED BY <3>1
  <2>6. \A k \in 1 .. Len(p) : w - k + 1 \in 1 .. Len(pushed) /\ w - k + 1 \in 1 .. w
    BY <1>3, <2>3, <2>4
  <2> HIDE DEF p, v, d, g, w
  <2>7. \A i, j \in DOMAIN v : v[i] = v[j] => i = j
    BY <2>3, <2>4, <2>5
  <2>8. \A i, j \in DOMAIN p : p[i] = p[j] => i = j
    <3>1. SUFFICES ASSUME NEW i \in 1 .. Len(p), NEW j \in 1 .. Len(p), p[i] = p[j] PROVE i = j
      BY <2>4
    <3>2. w - i + 1 = w - j + 1
      <4>1. pushed[w - i + 1] = pushed[w - j + 1] BY <2>3, <3>1
      <4> QED BY <1>3, <2>6, <4>1
    <3> QED BY <2>3, <2>4, <3>2
  <2>9. ASSUME Contains(p, m), Contains(v, m) PROVE \E i \in g + 1 .. w : pushed[i] = m
    <3>1. PICK k \in 1 .. Len(p) : p[k] = m BY <2>9 DEF Contains
    <3>2. PICK i \in 1 .. Len(v) : v[i] = m BY <2>9 DEF Contains
    <3>3. PICK j \in g + 1 .. Len(pushed) : pushed[j] = m BY <2>3, <2>5, <3>2
    <3>4. j \in 1 .. Len(pushed) BY <1>3, <2>3
    <3>5. j = w - k + 1 BY <1>3, <2>3, <2>6, <3>1, <3>3, <3>4
    <3>6. j \in g + 1 .. w BY <2>3, <2>6, <3>5
    <3> QED BY <3>3, <3>6
  <2> QED BY <2>1, <2>7, <2>8, <2>9 DEF p, v, g, w
<1>7. InOrderPerSender
  <2>1. DOMAIN pushed = 1 .. Len(pushed) BY <1>1, RequestTyped
  <2>2. ASSUME NEW s \in Streams
        PROVE  \A i \in DOMAIN Sent(streams[s]), j \in DOMAIN Sent(streams[s]) :
                   i < j => Sent(streams[s])[j] \notin webhooks[Sent(streams[s])[i]].after
    <3>1. DOMAIN Sent(streams[s]) = 1 .. Len(Sent(streams[s])) BY <1>4
    <3> QED BY <1>4, <3>1 DEF Ordered
  <2> QED BY <1>1, <2>1, <2>2 DEF InOrderPerSender, Ordered, Sent
<1> QED BY <1>2, <1>5, <1>6, <1>7 DEF StreamExactlyOnce

\* Nothing has come in yet.
LEMMA HubInitially == HubInit => HubInv
<1> SUFFICES ASSUME HubInit PROVE HubInv
  OBVIOUS
<1>1. /\ notifications = <<>> /\ subscribers = {} /\ pushed = <<>>
      /\ webhooks = [m \in Messages |-> [at |-> "expected", targets |-> {}, after |-> {}]]
      /\ streams = [s \in Streams |->
            [at |-> "away", limit |-> 0, channel |-> <<>>, replay |-> <<>>, live |-> <<>>,
             dropped |-> {}, joinedAt |-> 0, replayedAt |-> 0]]
  BY DEF HubInit
<1>2. \A m \in Messages : /\ webhooks[m] \in Webhook /\ webhooks[m].at = "expected"
                          /\ webhooks[m].targets = {} /\ webhooks[m].after = {}
  BY <1>1 DEF Webhook
<1>3. \A s \in Streams : /\ streams[s].at = "away" /\ streams[s].channel = <<>>
                         /\ streams[s].replay = <<>> /\ streams[s].live = <<>>
                         /\ streams[s].joinedAt = 0 /\ streams[s].replayedAt = 0
                         /\ streams[s] \in Stream
  BY <1>1 DEF Stream
<1>4. Len(pushed) = 0 /\ Len(notifications) = 0 /\ NotifyCapacity \in Nat \ {0} /\ ChannelSize \in Nat
  BY <1>1, HubBounds
<1>5. HubTypeOK
  <2>1. webhooks \in [Messages -> Webhook] BY <1>1, <1>2
  <2>2. streams \in [Streams -> Stream] BY <1>1, <1>3
  <2>3. \A s \in Streams : Len(streams[s].channel) <= ChannelSize
    <3>1. Len(<<>>) = 0 OBVIOUS
    <3> QED BY <1>3, <1>4, <3>1
  <2> QED BY <1>1, <1>4, <2>1, <2>2, <2>3 DEF HubTypeOK
<1>6. WebhooksFit
  BY <1>2, <1>4 DEF WebhooksFit, PushedOnce, RequestsFit, BufferIsTail, Ordered
<1>7. ASSUME NEW s \in Streams PROVE StreamFits(s)
  <2>1. Sent(streams[s]) = <<>> BY <1>3 DEF Sent
  <2>2. Len(Sent(streams[s])) = 0 /\ Len(streams[s].replay) = 0 BY <1>3, <2>1
  <2>3. Listed(s) BY <1>1, <1>3 DEF Listed
  <2>4. Untouched(s) BY <1>2, <2>1 DEF Untouched
  <2>5. ReplayIsTail(s) BY <1>3, <1>4, <2>2 DEF ReplayIsTail
  <2>6. SentOnce(s) BY <1>2, <2>2 DEF SentOnce
  <2>7. NothingLost(s) BY <1>1 DEF NothingLost
  <2>8. Ordered(Sent(streams[s])) BY <2>2 DEF Ordered
  <2> QED BY <2>3, <2>4, <2>5, <2>6, <2>7, <2>8 DEF StreamFits
<1> QED BY <1>5, <1>6, <1>7 DEF HubInv

\* Every step of the hub keeps the invariant.
LEMMA HubStep ==
    ASSUME HubInv, [HubNext]_hubVars
    PROVE  HubInv'
<1>1. CASE HubNext
  <2>1. ASSUME NEW m \in Messages,
               Stamp(m) \/ Push(m) \/ Accept(m) \/ \E s \in Streams : Send(m, s)
        PROVE  HubInv'
    BY <2>1, StampKeeps, PushKeeps, AcceptKeeps, SendKeeps
  <2>2. ASSUME NEW s \in Streams,
               Join(s) \/ RefuseLimit(s) \/ Replay(s) \/ Deliver(s) \/ Leave(s)
        PROVE  HubInv'
    BY <2>2, JoinKeeps, EndKeeps, ReplayKeeps, DeliverKeeps
  <2> QED BY <1>1, <2>1, <2>2, Zenon DEF HubNext
<1>2. CASE UNCHANGED hubVars
  <2>1. /\ notifications' = notifications /\ subscribers' = subscribers /\ webhooks' = webhooks
        /\ streams' = streams /\ pushed' = pushed
    BY <1>2 DEF hubVars
  <2>2. HubTypeOK /\ WebhooksFit /\ \A s \in Streams : StreamFits(s) BY DEF HubInv
  <2>3. HubTypeOK' BY <2>1, <2>2 DEF HubTypeOK
  <2>4. WebhooksFit' BY <2>1, <2>2 DEF WebhooksFit, PushedOnce, RequestsFit, BufferIsTail, Ordered
  <2>5. \A s \in Streams : StreamFits(s)' BY <2>1, <2>2, StreamKept
  <2> QED BY <2>3, <2>4, <2>5 DEF HubInv
<1> QED BY <1>1, <1>2

\* The buffer never holds more than its capacity, and paging through the list
\* with any page size gives the newest messages, each once and in order.
THEOREM BufferCorrect == HubSpec => []BufferSafe
<1>1. HubInv => BufferSafe
  BY HubInvGives
<1> QED BY <1>1, HubInitially, HubStep, PTL DEF HubSpec

\* A stream misses nothing from its replay on but what its full channel drops,
\* and has nothing twice but what was pushed while it joined, for any number of
\* webhooks and streams at once.
THEOREM StreamsCorrect == HubSpec => []StreamExactlyOnce
<1>1. HubInv => StreamExactlyOnce
  BY HubInvGives
<1> QED BY <1>1, HubInitially, HubStep, PTL DEF HubSpec

\* The messages of a sender that waits for each answer stay in order, in the
\* buffer and in every stream, although they are sent outside of the lock.
THEOREM SendersInOrder == HubSpec => []InOrderPerSender
<1>1. HubInv => InOrderPerSender
  BY HubInvGives
<1> QED BY <1>1, HubInitially, HubStep, PTL DEF HubSpec

(***************************************************************************)
(* Transfers.                                                              *)
(***************************************************************************)
\* The tries of a broadcast that the server has not served.
Broadcasts(t) == {q \in inFlight : q.transfer = t /\ q.step = "broadcast"}

\* The transfers whose confirmation has been accepted and that may reach the
\* chain, or have reached it.
Past == {t \in Transfers : \/ transfers[t].at = "confirm" /\ transfers[t].answer = "ok"
                           \/ transfers[t].at = "broadcast"
                           \/ executed[t] > 0
                           \/ Broadcasts(t) # {}}

\* An answer waits only where one was asked for.
AnswerExpected(t) ==
    /\ transfers[t].answer # "none" => transfers[t].at \in Posts
    /\ transfers[t].at = "broadcast" /\ transfers[t].answer = "ok" => executed[t] > 0

\* Confirmations on their way carry the ID that the transfer has.
ConfirmsKnown(t) ==
    \A q \in inFlight : q.transfer = t /\ q.step = "confirm" =>
        q.id = transfers[t].id /\ transfers[t].at \notin {"idle", "state", "challenge"}

\* What the chain got of a transfer, and what it may still get.
TriesCounted(t) ==
    /\ IsFiniteSet(Broadcasts(t))
    /\ transfers[t].at \in {"idle", "state", "challenge", "confirm"} =>
           executed[t] = 0 /\ Broadcasts(t) = {}
    /\ executed[t] + Cardinality(Broadcasts(t)) <=
           IF transfers[t].at = "broadcast" THEN transfers[t].attempt + 1 ELSE MaxRetries + 1

\* A confirmation was accepted.
Confirmed(t) ==
    t \in Past => \E i \in DOMAIN accepted : accepted[i] = [id |-> transfers[t].id, account |-> Wallet]

\* The chain has refused the last try of a broadcast.
Declined(t) ==
    transfers[t].at = "unconfirmed" \/ (transfers[t].at = "broadcast" /\ transfers[t].answer = "declined")

\* Then it takes one try less.
DeclinedCounted(t) ==
    Declined(t) => executed[t] + Cardinality(Broadcasts(t)) <=
                       IF transfers[t].at = "broadcast" THEN transfers[t].attempt ELSE MaxRetries

TransferFits(t) ==
    /\ AnswerExpected(t) /\ ConfirmsKnown(t) /\ TriesCounted(t) /\ DeclinedCounted(t)
    /\ Confirmed(t)

\* There are at least as many confirmations as such transfers.
PastCounted == IsFiniteSet(Past) /\ Cardinality(Past) <= Len(accepted)

\* How often a sequence has an entry.
CountOf(seq, e) == Cardinality({i \in DOMAIN seq : seq[i] = e})

\* The server's map has a challenge of this ID and account.
Open(e) == \E c \in challenges : c.id = e.id /\ c.account = e.account

\* A challenge that is still in the map has not been used.
ChallengesCounted ==
    \A e \in [id : Nat, account : Accounts] :
        CountOf(accepted, e) + (IF Open(e) THEN 1 ELSE 0) <= CountOf(issued, e)

\* What is shown as confirmed was taken, and what is shown as pending has come to
\* that end.
ShownKept ==
    \A shown \in history \cup result :
        /\ shown.status = "confirmed" => executed[shown.transfer] > 0
        /\ shown.status = "pending" => transfers[shown.transfer].at = "unconfirmed"

TransferInv ==
    /\ TransferTypeOK /\ refreshing <= refreshes /\ LoadingExplained /\ ShownKept
    /\ ChallengesCounted /\ PastCounted /\ \A t \in Transfers : TransferFits(t)
\* A further confirmation leaves the earlier ones in their places.
Entry == [id : Nat, account : Accounts]
AcceptedGrows == accepted' = accepted \/ \E e \in Entry : accepted' = Append(accepted, e)

\* What is accepted stays accepted.
LEMMA EntriesKept ==
    ASSUME accepted \in Seq(Entry), AcceptedGrows
    PROVE  /\ accepted' \in Seq(Entry) /\ Len(accepted') \in Nat
           /\ Len(accepted) \in Nat /\ Len(accepted) <= Len(accepted')
           /\ \A e : (\E i \in DOMAIN accepted : accepted[i] = e) =>
                         \E i \in DOMAIN accepted' : accepted'[i] = e
<1>1. CASE accepted' = accepted
  BY <1>1
<1>2. CASE accepted' # accepted
  <2>1. PICK x \in Entry : accepted' = Append(accepted, x) BY <1>2 DEF AcceptedGrows
  <2>2. /\ accepted' \in Seq(Entry) /\ Len(accepted') = Len(accepted) + 1 /\ Len(accepted) \in Nat
        /\ DOMAIN accepted = 1 .. Len(accepted) /\ DOMAIN accepted' = 1 .. Len(accepted) + 1
        /\ \A i \in 1 .. Len(accepted) : accepted'[i] = accepted[i]
    BY <2>1
  <2>3. \A i \in DOMAIN accepted : i \in DOMAIN accepted' /\ accepted'[i] = accepted[i] BY <2>2
  <2> QED BY <2>2, <2>3
<1> QED BY <1>1, <1>2

\* A step that leaves a transfer and its requests alone.
LEMMA TransferKept ==
    ASSUME NEW t \in Transfers, TransferFits(t), accepted \in Seq(Entry), AcceptedGrows,
           transfers'[t] = transfers[t], executed'[t] = executed[t],
           \A q : q.transfer = t => (q \in inFlight' <=> q \in inFlight)
    PROVE  TransferFits(t)' /\ (t \in Past' <=> t \in Past)
<1>1. Broadcasts(t)' = Broadcasts(t)
  BY DEF Broadcasts
<1>2. t \in Past' <=> t \in Past
  BY <1>1 DEF Past
<1>3. AnswerExpected(t)'
  BY DEF TransferFits, AnswerExpected
<1>4. ConfirmsKnown(t)'
  BY DEF TransferFits, ConfirmsKnown
<1>5. TriesCounted(t)'
  BY <1>1 DEF TransferFits, TriesCounted
<1>6. Confirmed(t)'
  BY <1>2, EntriesKept DEF TransferFits, Confirmed
<1>7. DeclinedCounted(t)'
  BY <1>1 DEF TransferFits, DeclinedCounted, Declined
<1> QED BY <1>2, <1>3, <1>4, <1>5, <1>6, <1>7 DEF TransferFits

\* The kinds of the fields of a transfer.
LEMMA ProgressTyped ==
    ASSUME transfers \in [Transfers -> Progress], NEW t \in Transfers
    PROVE  /\ transfers[t] \in Progress
           /\ transfers[t].at \in {"idle", "state", "challenge", "confirm", "broadcast"} \cup Outcomes
           /\ transfers[t].attempt \in 0 .. MaxRetries /\ transfers[t].attempt \in Nat
           /\ transfers[t].id \in Nat /\ transfers[t].answerId \in Nat
           /\ transfers[t].answer \in {"none", "ok", "declined", "refused", "busy", "garbled"}
<1>1. transfers[t] \in Progress
  OBVIOUS
<1>2. Posts = {"challenge", "confirm", "broadcast"}
  BY DEF Posts, Steps
<1> QED BY <1>1, <1>2, TransferBounds DEF Progress

\* A flow ends.
LEMMA StopKeeps ==
    ASSUME transfers \in [Transfers -> Progress], \A u \in Transfers : TransferFits(u),
           accepted \in Seq(Entry), executed \in [Transfers -> Nat],
           NEW t \in Transfers, NEW outcome \in Outcomes,
           outcome = "unconfirmed" => Declined(t),
           End(t, outcome), inFlight' = inFlight, executed' = executed, accepted' = accepted
    PROVE  /\ transfers' \in [Transfers -> Progress] /\ \A u \in Transfers : TransferFits(u)'
           /\ Past' \subseteq Past /\ transfers'[t].at = outcome
           /\ \A u \in Transfers \ {t} : transfers'[u] = transfers[u]
<1>1. transfers' = [transfers EXCEPT ![t] = [transfers[t] EXCEPT !.at = outcome, !.attempt = 0,
                                                                  !.answer = "none", !.answerId = 0]]
  BY DEF End
<1>2. /\ transfers' \in [Transfers -> Progress] /\ transfers'[t].at = outcome
      /\ transfers'[t].id = transfers[t].id /\ transfers'[t].answer = "none"
      /\ \A u \in Transfers \ {t} : transfers'[u] = transfers[u]
  <2> DEFINE p == [transfers[t] EXCEPT !.at = outcome, !.attempt = 0, !.answer = "none", !.answerId = 0]
  <2>1. transfers[t] \in Progress /\ 0 \in 0 .. MaxRetries /\ outcome \in Outcomes
    BY TransferBounds
  <2>2. p \in Progress /\ p.at = outcome /\ p.id = transfers[t].id /\ p.answer = "none"
    BY <2>1 DEF Progress
  <2> HIDE DEF p
  <2> QED BY <1>1, <2>2 DEF p
<1>3. AcceptedGrows
  BY DEF AcceptedGrows
<1>4. ASSUME NEW u \in Transfers, u # t PROVE TransferFits(u)' /\ (u \in Past' <=> u \in Past)
  BY <1>2, <1>3, <1>4, TransferKept
<1>5. Broadcasts(t)' = Broadcasts(t)
  BY DEF Broadcasts
<1>6. outcome \notin {"idle", "state", "challenge", "confirm", "broadcast"}
  BY DEF Outcomes
<1>7. t \in Past' => t \in Past
  BY <1>2, <1>5, <1>6 DEF Past
<1>8. AnswerExpected(t)'
  BY <1>2 DEF AnswerExpected
<1>9. ConfirmsKnown(t)'
  BY <1>2, <1>6 DEF TransferFits, ConfirmsKnown
<1>10. TriesCounted(t)'
  <2> DEFINE c == Cardinality(Broadcasts(t))
  <2>1. IsFiniteSet(Broadcasts(t)) BY DEF TransferFits, TriesCounted
  <2>2. c \in Nat BY <2>1, FS_CardinalityType
  <2>3. executed[t] + c <= IF transfers[t].at = "broadcast" THEN transfers[t].attempt + 1 ELSE MaxRetries + 1
    BY DEF TransferFits, TriesCounted
  <2>4. executed[t] \in Nat /\ transfers[t].attempt \in 0 .. MaxRetries /\ MaxRetries \in Nat
    BY ProgressTyped, TransferBounds
  <2> HIDE DEF c
  <2>5. executed[t] + c <= MaxRetries + 1 BY <2>2, <2>3, <2>4
  <2> QED BY <1>2, <1>5, <1>6, <2>1, <2>5 DEF TriesCounted, c
<1>11. Confirmed(t)'
  BY <1>2, <1>7 DEF TransferFits, Confirmed
<1>12. DeclinedCounted(t)'
  <2> DEFINE x == executed[t] + Cardinality(Broadcasts(t))
  <2>1. SUFFICES ASSUME outcome = "unconfirmed" PROVE x <= MaxRetries
    BY <1>2, <1>5 DEF DeclinedCounted, Declined, Outcomes
  <2>2. x <= IF transfers[t].at = "broadcast" THEN transfers[t].attempt ELSE MaxRetries
    BY <2>1 DEF TransferFits, DeclinedCounted
  <2>3. Cardinality(Broadcasts(t)) \in Nat BY FS_CardinalityType DEF TransferFits, TriesCounted
  <2>4. x \in Nat /\ transfers[t].attempt \in 0 .. MaxRetries /\ MaxRetries \in Nat
    BY <2>3, ProgressTyped, TransferBounds
  <2> HIDE DEF x
  <2> QED BY <2>2, <2>4
<1>13. TransferFits(t)'
  BY <1>8, <1>9, <1>10, <1>11, <1>12 DEF TransferFits
<1>14. Past' \subseteq Past
  BY <1>4, <1>7 DEF Past
<1> QED BY <1>2, <1>4, <1>13, <1>14

\* A transfer may make this request now: after the indexer's state, as another
\* try, with the challenge's ID, or once that is confirmed.
MayAsk(t, step, attempt, id) ==
    LET p == transfers[t]
    IN  \/ p.at = "state" /\ step = "challenge" /\ attempt = 0 /\ id = 0
        \/ p.at \in Posts /\ step = p.at /\ p.attempt < MaxRetries /\ attempt = p.attempt + 1 /\ id = p.id
        \/ p.at = "challenge" /\ step = "confirm" /\ attempt = 0 /\ id = p.answerId
        \/ p.at = "confirm" /\ p.answer = "ok" /\ step = "broadcast" /\ attempt = 0 /\ id = p.id

\* A request is made.
LEMMA AskKeeps ==
    ASSUME transfers \in [Transfers -> Progress], \A u \in Transfers : TransferFits(u),
           accepted \in Seq(Entry), executed \in [Transfers -> Nat], inFlight \in SUBSET Request,
           NEW t \in Transfers, NEW step, NEW attempt, NEW id, MayAsk(t, step, attempt, id),
           Ask(t, step, attempt, id), executed' = executed, accepted' = accepted
    PROVE  /\ transfers' \in [Transfers -> Progress] /\ inFlight' \in SUBSET Request
           /\ \A u \in Transfers : TransferFits(u)'
           /\ Past' \subseteq Past /\ transfers'[t].at \in Posts
           /\ \A u \in Transfers \ {t} : transfers'[u] = transfers[u]
<1> DEFINE p == transfers[t]
           n == [at |-> step, attempt |-> attempt, id |-> id, answer |-> "none", answerId |-> 0]
           r == [transfer |-> t, step |-> step, attempt |-> attempt, id |-> id]
<1>1. transfers' = [transfers EXCEPT ![t] = n] /\ inFlight' = inFlight \cup {r}
  BY DEF Ask
<1>2. Posts = {"challenge", "confirm", "broadcast"} /\ MaxRetries \in Nat
  BY TransferBounds DEF Posts, Steps
<1>3. /\ p.at \in {"idle", "state", "challenge", "confirm", "broadcast"} \cup Outcomes
      /\ p.attempt \in 0 .. MaxRetries /\ p.id \in Nat /\ p.answerId \in Nat
  BY ProgressTyped
<1>4. step \in Posts /\ attempt \in 0 .. MaxRetries /\ id \in Nat
  BY <1>2, <1>3 DEF MayAsk
<1>5. n \in Progress /\ n.at = step /\ n.attempt = attempt /\ n.id = id /\ n.answer = "none"
  BY <1>2, <1>4 DEF Progress
<1>6. r \in Request /\ r.transfer = t /\ r.step = step /\ r.id = id
  BY <1>4 DEF Request
<1> HIDE DEF n, r
<1>7. /\ transfers' \in [Transfers -> Progress] /\ inFlight' \in SUBSET Request
      /\ transfers'[t] = n /\ \A u \in Transfers \ {t} : transfers'[u] = transfers[u]
  BY <1>1, <1>5, <1>6
<1>8. AcceptedGrows
  BY DEF AcceptedGrows
<1>9. ASSUME NEW u \in Transfers, u # t PROVE TransferFits(u)' /\ (u \in Past' <=> u \in Past)
  <2>1. \A q : q.transfer = u => (q \in inFlight' <=> q \in inFlight) BY <1>1, <1>6, <1>9
  <2> QED BY <1>7, <1>8, <1>9, <2>1, TransferKept
<1>10. /\ AnswerExpected(t) /\ ConfirmsKnown(t) /\ TriesCounted(t) /\ Confirmed(t)
      /\ DeclinedCounted(t)
  BY DEF TransferFits
<1>11. Broadcasts(t)' = IF step = "broadcast" THEN Broadcasts(t) \cup {r} ELSE Broadcasts(t)
  BY <1>1, <1>6 DEF Broadcasts
<1>12. step = "broadcast" => p.at \in {"confirm", "broadcast"} /\ t \in Past
  BY DEF MayAsk, Past
<1>13. t \in Past' => t \in Past /\ id = p.id
  <2>1. CASE step = "broadcast"
    <3>1. id = p.id BY <2>1 DEF MayAsk
    <3> QED BY <1>12, <2>1, <3>1
  <2>2. CASE step # "broadcast"
    <3>1. SUFFICES ASSUME t \in Past' PROVE t \in Past /\ id = p.id OBVIOUS
    <3>2. executed[t] > 0 \/ Broadcasts(t) # {} BY <1>5, <1>7, <1>11, <2>2, <3>1 DEF Past
    <3>3. t \in Past BY <3>2 DEF Past
    <3>4. executed[t] # 0 \/ Broadcasts(t) # {} BY <3>2
    <3>5. p.at \notin {"idle", "state", "challenge", "confirm"} BY <1>10, <3>4 DEF TriesCounted
    <3>6. id = p.id BY <3>5 DEF MayAsk
    <3> QED BY <3>3, <3>6
  <2> QED BY <2>1, <2>2
<1>14. AnswerExpected(t)'
  BY <1>5, <1>7 DEF AnswerExpected
<1>15. ConfirmsKnown(t)'
  <2>1. SUFFICES ASSUME NEW q \in inFlight', q.transfer = t, q.step = "confirm"
                 PROVE  q.id = id /\ step \notin {"idle", "state", "challenge"}
    BY <1>5, <1>7 DEF ConfirmsKnown
  <2>2. CASE q = r BY <1>6, <2>1, <2>2
  <2>3. CASE q # r
    <3>1. q \in inFlight BY <1>1, <2>1, <2>3
    <3>2. q.id = p.id /\ p.at \notin {"idle", "state", "challenge"} BY <1>10, <2>1, <3>1 DEF ConfirmsKnown
    <3> QED BY <1>2, <3>2 DEF MayAsk
  <2> QED BY <2>2, <2>3
<1>16. TriesCounted(t)'
  <2> DEFINE b == Broadcasts(t)
             c == Cardinality(b)
             x == executed[t]
  <2>1. IsFiniteSet(b) /\ x + c <= (IF p.at = "broadcast" THEN p.attempt + 1 ELSE MaxRetries + 1)
    BY <1>10 DEF TriesCounted
  <2>2. c \in Nat /\ x \in Nat /\ p.attempt \in Nat /\ attempt \in Nat
    BY <1>2, <1>3, <1>4, <2>1, FS_CardinalityType
  <2>3. executed'[t] = x /\ transfers'[t].at = step /\ transfers'[t].attempt = attempt
    BY <1>5, <1>7
  <2>4. CASE step = "broadcast"
    <3> DEFINE e == b \cup {r}
    <3>1. Broadcasts(t)' = e BY <1>11, <2>4
    <3> HIDE DEF b
    <3>2. IsFiniteSet(e) /\ Cardinality(e) = IF r \in b THEN c ELSE c + 1
      BY <2>1, FS_AddElement DEF c
    <3> HIDE DEF c, x, e
    <3>3. Cardinality(e) \in Nat /\ Cardinality(e) <= c + 1
      BY <2>2, <3>2
    <3>4. x + c <= attempt
      <4>1. CASE p.at = "broadcast"
        <5>1. attempt = p.attempt + 1 BY <2>4, <4>1 DEF MayAsk
        <5> QED BY <2>1, <4>1, <5>1
      <4>2. CASE p.at # "broadcast"
        <5>1. p.at = "confirm" BY <1>12, <2>4, <4>2
        <5>2. x = 0 /\ c = 0 BY <1>10, <5>1, FS_EmptySet DEF TriesCounted, b, c, x
        <5> QED BY <2>2, <5>2
      <4> QED BY <4>1, <4>2
    <3>5. x + Cardinality(e) <= attempt + 1 BY <2>2, <3>3, <3>4
    <3> QED BY <2>3, <2>4, <3>1, <3>2, <3>5 DEF TriesCounted
  <2>5. CASE step # "broadcast"
    <3>1. Broadcasts(t)' = b BY <1>11, <2>5
    <3>2. p.at \in {"state", "challenge", "confirm"} BY <1>2, <1>4, <2>5 DEF MayAsk
    <3>3. x = 0 /\ b = {} BY <1>10, <3>2 DEF TriesCounted
    <3>4. p.at # "broadcast" BY <3>2
    <3>5. x + c <= MaxRetries + 1 BY <2>1, <3>4
    <3> QED BY <2>1, <2>3, <2>5, <3>1, <3>3, <3>5 DEF TriesCounted
  <2> QED BY <2>4, <2>5
<1>17. Confirmed(t)'
  BY <1>5, <1>7, <1>10, <1>13 DEF Confirmed
<1>20. DeclinedCounted(t)'
  BY <1>2, <1>4, <1>5, <1>7 DEF DeclinedCounted, Declined
<1>18. TransferFits(t)'
  BY <1>14, <1>15, <1>16, <1>17, <1>20 DEF TransferFits
<1>19. Past' \subseteq Past
  BY <1>9, <1>13 DEF Past
<1> QED BY <1>4, <1>5, <1>7, <1>9, <1>18, <1>19

\* The server has served a request: a confirmation that it accepts is entered,
\* and the chain gets nothing but broadcasts.
Served(q, kind) ==
    LET t == q.transfer
    IN  /\ AcceptedGrows
        /\ q.step = "confirm" /\ kind = "ok" =>
               \E i \in DOMAIN accepted' : accepted'[i] = [id |-> q.id, account |-> Wallet]
        /\ executed' \in [Transfers -> Nat]
        /\ \A u \in Transfers \ {t} : executed'[u] = executed[u]
        /\ executed'[t] = executed[t] \/ (q.step = "broadcast" /\ executed'[t] = executed[t] + 1)
        /\ q.step = "broadcast" /\ kind = "ok" => executed'[t] = executed[t] + 1
        /\ kind = "declined" => executed'[t] = executed[t]

\* An answer.
LEMMA AnswerKeeps ==
    ASSUME transfers \in [Transfers -> Progress], \A u \in Transfers : TransferFits(u),
           accepted \in Seq(Entry), executed \in [Transfers -> Nat], inFlight \in SUBSET Request,
           NEW q \in inFlight, NEW kind \in {"ok", "declined", "refused", "busy", "garbled"}, NEW id \in Nat,
           Answer(q, kind, id), Served(q, kind)
    PROVE  /\ transfers' \in [Transfers -> Progress] /\ inFlight' \in SUBSET Request
           /\ \A u \in Transfers : TransferFits(u)'
           /\ \A u \in Transfers : transfers'[u].at = transfers[u].at
           /\ Past' \subseteq Past \cup {q.transfer}
           /\ ~ (q.step = "confirm" /\ kind = "ok") => Past' \subseteq Past
<1> DEFINE t == q.transfer
           p == transfers[t]
           got == p.at = q.step /\ p.attempt = q.attempt /\ p.answer = "none"
           n == [p EXCEPT !.answer = kind, !.answerId = id]
<1>1. t \in Transfers /\ q.step \in Posts /\ q.id \in Nat
  BY DEF Request
<1>2. /\ inFlight' = inFlight \ {q}
      /\ transfers' = IF got THEN [transfers EXCEPT ![t] = n] ELSE transfers
  BY DEF Answer
<1>3. p \in Progress
  BY <1>1
<1>4. n \in Progress /\ n.at = p.at /\ n.attempt = p.attempt /\ n.id = p.id /\ n.answer = kind
  BY <1>3 DEF Progress
<1> HIDE DEF n
<1>5. /\ transfers' \in [Transfers -> Progress] /\ inFlight' \in SUBSET Request
      /\ transfers'[t] = (IF got THEN n ELSE p)
      /\ \A u \in Transfers \ {t} : transfers'[u] = transfers[u]
  BY <1>1, <1>2, <1>4
<1>6. /\ transfers'[t].at = p.at /\ transfers'[t].attempt = p.attempt /\ transfers'[t].id = p.id
      /\ transfers'[t].answer = (IF got THEN kind ELSE p.answer)
  BY <1>4, <1>5
<1>7. AcceptedGrows
  BY DEF Served
<1>8. ASSUME NEW u \in Transfers, u # t PROVE TransferFits(u)' /\ (u \in Past' <=> u \in Past)
  <2>1. \A k : k.transfer = u => (k \in inFlight' <=> k \in inFlight) BY <1>2, <1>8
  <2>2. executed'[u] = executed[u] BY <1>8 DEF Served
  <2> QED BY <1>5, <1>7, <1>8, <2>1, <2>2, TransferKept
<1>9. /\ AnswerExpected(t) /\ ConfirmsKnown(t) /\ TriesCounted(t) /\ Confirmed(t)
      /\ DeclinedCounted(t)
  BY <1>1 DEF TransferFits
<1>10. /\ executed[t] \in Nat /\ executed'[t] \in Nat
       /\ executed'[t] = executed[t] \/ (q.step = "broadcast" /\ executed'[t] = executed[t] + 1)
       /\ q.step = "broadcast" /\ kind = "ok" => executed'[t] = executed[t] + 1
  BY <1>1 DEF Served
<1>11. Broadcasts(t)' = IF q.step = "broadcast" THEN Broadcasts(t) \ {q} ELSE Broadcasts(t)
  BY <1>2 DEF Broadcasts
<1>12. q.step = "broadcast" => q \in Broadcasts(t) /\ t \in Past
  BY <1>1 DEF Broadcasts, Past
<1>13. t \in Past' => \/ t \in Past
                      \/ got /\ q.step = "confirm" /\ kind = "ok"
  <2>1. SUFFICES ASSUME t \in Past', t \notin Past PROVE got /\ q.step = "confirm" /\ kind = "ok"
    OBVIOUS
  <2>2. q.step # "broadcast" BY <1>12, <2>1
  <2>3. executed'[t] = executed[t] /\ Broadcasts(t)' = Broadcasts(t) BY <1>10, <1>11, <2>2
  <2>4. transfers'[t].at = "confirm" /\ transfers'[t].answer = "ok"
    BY <1>1, <1>6, <2>1, <2>3 DEF Past
  <2>5. p.answer # "ok" BY <1>1, <1>6, <2>1, <2>4 DEF Past
  <2> QED BY <1>6, <2>4, <2>5
<1>14. AnswerExpected(t)'
  <2>1. transfers'[t].answer # "none" => transfers'[t].at \in Posts
    BY <1>1, <1>6, <1>9 DEF AnswerExpected
  <2>2. ASSUME transfers'[t].at = "broadcast", transfers'[t].answer = "ok" PROVE executed'[t] > 0
    <3>1. CASE got
      <4>1. q.step = "broadcast" /\ kind = "ok" BY <1>6, <2>2, <3>1
      <4> QED BY <1>10, <4>1
    <3>2. CASE ~got
      <4>1. executed[t] > 0 BY <1>6, <1>9, <2>2, <3>2 DEF AnswerExpected
      <4> QED BY <1>10, <4>1
    <3> QED BY <3>1, <3>2
  <2> QED BY <2>1, <2>2 DEF AnswerExpected
<1>15. ConfirmsKnown(t)'
  BY <1>2, <1>6, <1>9 DEF ConfirmsKnown
<1>16. TriesCounted(t)'
  <2> DEFINE b == Broadcasts(t)
             c == Cardinality(b)
             bound == IF p.at = "broadcast" THEN p.attempt + 1 ELSE MaxRetries + 1
  <2>1. IsFiniteSet(b) /\ executed[t] + c <= bound /\ bound \in Nat
    BY <1>1, <1>9, ProgressTyped, TransferBounds DEF TriesCounted
  <2>2. c \in Nat
    BY <2>1, FS_CardinalityType
  <2>3. p.at \in {"idle", "state", "challenge", "confirm"} => executed[t] = 0 /\ b = {}
    BY <1>9 DEF TriesCounted
  <2>4. CASE q.step = "broadcast"
    <3> DEFINE e == b \ {q}
    <3>1. q \in b /\ Broadcasts(t)' = e BY <1>11, <1>12, <2>4
    <3> HIDE DEF b
    <3>2. IsFiniteSet(e) /\ Cardinality(e) = c - 1
      BY <2>1, <3>1, FS_RemoveElement DEF c
    <3>3. p.at \notin {"idle", "state", "challenge", "confirm"} BY <2>3, <3>1
    <3> HIDE DEF c, e, bound
    <3>4. executed'[t] + Cardinality(e) <= bound BY <1>10, <2>1, <2>2, <3>2
    <3> QED BY <1>6, <3>1, <3>2, <3>3, <3>4 DEF TriesCounted, bound
  <2>5. CASE q.step # "broadcast"
    <3>1. Broadcasts(t)' = b /\ executed'[t] = executed[t] BY <1>10, <1>11, <2>5
    <3> QED BY <1>6, <2>1, <2>3, <3>1 DEF TriesCounted
  <2> QED BY <2>4, <2>5
<1>17. Confirmed(t)'
  <2>1. SUFFICES ASSUME t \in Past'
                 PROVE  \E i \in DOMAIN accepted' : accepted'[i] = [id |-> p.id, account |-> Wallet]
    BY <1>6 DEF Confirmed
  <2>2. CASE t \in Past
    BY <1>7, <1>9, <2>2, EntriesKept DEF Confirmed
  <2>3. CASE t \notin Past
    <3>1. got /\ q.step = "confirm" /\ kind = "ok" BY <1>13, <2>1, <2>3
    <3>2. q.id = p.id BY <1>9, <3>1 DEF ConfirmsKnown
    <3> QED BY <3>1, <3>2 DEF Served
  <2> QED BY <2>2, <2>3
<1>21. DeclinedCounted(t)'
  <2> DEFINE b == Broadcasts(t)
             c == Cardinality(b)
             d == Cardinality(Broadcasts(t)')
  <2>1. SUFFICES ASSUME Declined(t)'
                 PROVE  executed'[t] + d <= IF p.at = "broadcast" THEN p.attempt ELSE MaxRetries
    BY <1>6 DEF DeclinedCounted
  <2>2. IsFiniteSet(b) /\ c \in Nat
    BY <1>9, FS_CardinalityType DEF TriesCounted
  <2>3. d \in Nat /\ (q.step = "broadcast" => d = c - 1) /\ (q.step # "broadcast" => d = c)
    <3> HIDE DEF b
    <3>1. CASE q.step = "broadcast"
      <4>1. q \in b /\ Broadcasts(t)' = b \ {q} BY <1>11, <1>12, <3>1 DEF b
      <4>2. IsFiniteSet(b \ {q}) /\ Cardinality(b \ {q}) = c - 1 BY <2>2, <4>1, FS_RemoveElement
      <4>3. d \in Nat BY <4>1, <4>2, FS_CardinalityType
      <4> QED BY <3>1, <4>1, <4>2, <4>3
    <3>2. CASE q.step # "broadcast"
      <4>1. Broadcasts(t)' = b BY <1>11, <3>2 DEF b
      <4> QED BY <2>2, <3>2, <4>1
    <3> QED BY <3>1, <3>2
  <2>4. executed'[t] + d <= executed[t] + c
    <3> HIDE DEF c, d
    <3> QED BY <1>10, <2>2, <2>3
  <2>5. p.attempt \in Nat /\ MaxRetries \in Nat
    BY <1>1, ProgressTyped, TransferBounds
  <2>6. CASE Declined(t)
    <3>1. executed[t] + c <= IF p.at = "broadcast" THEN p.attempt ELSE MaxRetries
      BY <1>9, <2>6 DEF DeclinedCounted
    <3> HIDE DEF c, d
    <3> QED BY <1>10, <2>2, <2>3, <2>4, <2>5, <3>1
  <2>7. CASE ~Declined(t)
    <3>1. got /\ kind = "declined" /\ p.at = "broadcast" /\ q.step = "broadcast"
      BY <1>6, <2>1, <2>7 DEF Declined
    <3>2. executed[t] + c <= p.attempt + 1
      BY <1>9, <3>1 DEF TriesCounted
    <3>3. executed'[t] = executed[t] BY <3>1 DEF Served
    <3> HIDE DEF c, d
    <3> QED BY <1>10, <2>2, <2>3, <2>5, <3>1, <3>2, <3>3
  <2> QED BY <2>6, <2>7
<1>18. TransferFits(t)'
  BY <1>14, <1>15, <1>16, <1>17, <1>21 DEF TransferFits
<1>19. Past' \subseteq Past \cup {t} /\ (~ (q.step = "confirm" /\ kind = "ok") => Past' \subseteq Past)
  BY <1>8, <1>13 DEF Past
<1>20. \A u \in Transfers : TransferFits(u)' /\ transfers'[u].at = transfers[u].at
  BY <1>5, <1>6, <1>8, <1>18
<1> QED BY <1>5, <1>19, <1>20

\* The transfers that may reach the chain are counted.
LEMMA PastStays ==
    ASSUME PastCounted, accepted \in Seq(Entry), AcceptedGrows,
           \/ Past' \subseteq Past
           \/ \E t : Past' \subseteq Past \cup {t} /\ Len(accepted') = Len(accepted) + 1
    PROVE  PastCounted'
<1>1. /\ IsFiniteSet(Past) /\ Cardinality(Past) \in Nat /\ Cardinality(Past) <= Len(accepted)
      /\ Len(accepted) \in Nat /\ Len(accepted') \in Nat /\ Len(accepted) <= Len(accepted')
  BY EntriesKept, FS_CardinalityType DEF PastCounted
<1>2. CASE Past' \subseteq Past
  <2>1. IsFiniteSet(Past') /\ Cardinality(Past') <= Cardinality(Past) /\ Cardinality(Past') \in Nat
    BY <1>1, <1>2, FS_Subset, FS_CardinalityType
  <2> QED BY <1>1, <2>1 DEF PastCounted
<1>3. CASE ~ (Past' \subseteq Past)
  <2>1. PICK t : Past' \subseteq Past \cup {t} /\ Len(accepted') = Len(accepted) + 1
    BY <1>3
  <2> DEFINE e == Past \cup {t}
  <2>2. IsFiniteSet(e) /\ Cardinality(e) = IF t \in Past THEN Cardinality(Past) ELSE Cardinality(Past) + 1
    BY <1>1, FS_AddElement
  <2>3. Past' \in SUBSET e BY <2>1
  <2> HIDE DEF e
  <2>4. IsFiniteSet(Past') /\ Cardinality(Past') <= Cardinality(e) /\ Cardinality(Past') \in Nat
    BY <2>2, <2>3, FS_Subset, FS_CardinalityType
  <2>5. Cardinality(e) \in Nat /\ Cardinality(e) <= Cardinality(Past) + 1 BY <1>1, <2>2
  <2> QED BY <1>1, <2>1, <2>4, <2>5 DEF PastCounted
<1> QED BY <1>2, <1>3

\* An entry is put at the end of a list.
LEMMA CountAppended ==
    ASSUME NEW S, NEW seq \in Seq(S), NEW x \in S, NEW e
    PROVE  /\ CountOf(seq, e) \in Nat
           /\ CountOf(Append(seq, x), e) = CountOf(seq, e) + (IF x = e THEN 1 ELSE 0)
<1> DEFINE n == Len(seq)
           at == {i \in DOMAIN seq : seq[i] = e}
           app == Append(seq, x)
           at2 == {i \in DOMAIN app : app[i] = e}
<1>1. n \in Nat /\ DOMAIN seq = 1 .. n
  OBVIOUS
<1>2. DOMAIN app = 1 .. n + 1 /\ app[n + 1] = x /\ \A i \in 1 .. n : app[i] = seq[i]
  OBVIOUS
<1>3. IsFiniteSet(at) /\ n + 1 \notin at
  <2>1. IsFiniteSet(1 .. n) BY <1>1, FS_Interval
  <2>2. at \in SUBSET (1 .. n) /\ n + 1 \notin 1 .. n BY <1>1
  <2> HIDE DEF at
  <2>3. n + 1 \notin at BY <2>2
  <2> QED BY <2>1, <2>2, <2>3, FS_Subset
<1>4. Cardinality(at) \in Nat
  BY <1>3, FS_CardinalityType
<1>5. \A i \in 1 .. n + 1 : i \in 1 .. n \/ i = n + 1
  BY <1>1
<1>6. n + 1 \in 1 .. n + 1 /\ \A i \in 1 .. n : i \in 1 .. n + 1
  BY <1>1
<1> HIDE DEF app, n
<1>7. CASE x = e
  <2>1. at2 = at \cup {n + 1} BY <1>1, <1>2, <1>5, <1>6, <1>7
  <2> HIDE DEF at, at2
  <2>2. Cardinality(at2) = Cardinality(at) + 1 BY <1>3, <2>1, FS_AddElement
  <2> QED BY <1>4, <1>7, <2>2 DEF CountOf, at, at2, app
<1>8. CASE x # e
  <2>1. at2 = at BY <1>1, <1>2, <1>5, <1>6, <1>8
  <2> HIDE DEF at, at2
  <2>2. Cardinality(at2) = Cardinality(at) + 0 BY <1>4, <2>1
  <2> QED BY <1>4, <1>8, <2>2 DEF CountOf, at, at2, app
<1> QED BY <1>7, <1>8

\* A challenge is issued: it may be confirmed once, and one it takes the ID
\* from no more.
LEMMA IssueCounted ==
    ASSUME ChallengeTypeOK, ChallengesCounted, NEW account \in Accounts, NEW id \in Nat,
           Issue(account, id)
    PROVE  ChallengeTypeOK' /\ ChallengesCounted' /\ accepted' = accepted
<1> DEFINE new == [id |-> id, account |-> account, expired |-> FALSE]
           x == [id |-> id, account |-> account]
<1>1. /\ id \in 1 .. clock + 1 /\ clock' = (IF id > clock THEN id ELSE clock)
      /\ challenges' = {c \in challenges : c.id # id} \cup {new}
      /\ issued' = Append(issued, x) /\ accepted' = accepted
  BY DEF Issue
<1>2. new \in Challenge /\ new.id = id /\ new.account = account
  BY DEF Challenge
<1>3. x \in Entry /\ x.id = id /\ x.account = account
  BY DEF Entry
<1>4. /\ challenges \in SUBSET Challenge /\ clock \in Nat
      /\ issued \in Seq(Entry) /\ accepted \in Seq(Entry)
  BY DEF ChallengeTypeOK, Entry
<1> HIDE DEF new, x
<1>5. ChallengeTypeOK'
  <2>1. issued' \in Seq(Entry) BY <1>1, <1>3, <1>4
  <2> QED BY <1>1, <1>2, <1>4, <2>1 DEF ChallengeTypeOK, Entry
<1>6. ASSUME NEW e \in Entry
      PROVE  CountOf(accepted', e) + (IF Open(e)' THEN 1 ELSE 0) <= CountOf(issued', e)
  <2>1. /\ CountOf(issued, e) \in Nat
        /\ CountOf(issued', e) = CountOf(issued, e) + (IF x = e THEN 1 ELSE 0)
    BY <1>1, <1>3, <1>4, CountAppended
  <2>2. CountOf(accepted, e) \in Nat /\ CountOf(accepted', e) = CountOf(accepted, e)
    BY <1>1, <1>3, <1>4, CountAppended
  <2>3. CountOf(accepted, e) + (IF Open(e) THEN 1 ELSE 0) <= CountOf(issued, e)
    BY DEF ChallengesCounted, Entry
  <2>4. Open(e)' => x = e \/ Open(e)
    <3>1. SUFFICES ASSUME Open(e)', ~Open(e) PROVE x = e OBVIOUS
    <3>2. PICK c \in challenges' : c.id = e.id /\ c.account = e.account BY <3>1 DEF Open
    <3>3. c = new BY <1>1, <3>1, <3>2 DEF Open
    <3>4. e.id = id /\ e.account = account BY <1>2, <3>2, <3>3
    <3> QED BY <3>4 DEF Entry, x
  <2>5. CASE x = e BY <2>1, <2>2, <2>3, <2>5
  <2>6. CASE x # e BY <2>1, <2>2, <2>3, <2>4, <2>6
  <2> QED BY <2>5, <2>6
<1> QED BY <1>1, <1>5, <1>6 DEF ChallengesCounted, Entry

\* A confirmation takes its challenge out of the map.
LEMMA ConfirmCounted ==
    ASSUME ChallengeTypeOK, ChallengesCounted, NEW account \in Accounts, NEW id \in Nat,
           Confirm(account, id)
    PROVE  /\ ChallengeTypeOK' /\ ChallengesCounted' /\ AcceptedGrows
           /\ Verdict(account, id) \in {"ok", "refused"}
           /\ Verdict(account, id) = "ok" =>
                 /\ Len(accepted') = Len(accepted) + 1
                 /\ \E i \in DOMAIN accepted' : accepted'[i] = [id |-> id, account |-> account]
<1> DEFINE x == [id |-> id, account |-> account]
           ok == Verdict(account, id) = "ok"
<1>1. /\ challenges' = {c \in challenges : c.id # id}
      /\ accepted' = (IF ok THEN Append(accepted, x) ELSE accepted)
      /\ clock' = clock /\ issued' = issued
  BY DEF Confirm, Remaining
<1>2. x \in Entry /\ x.id = id /\ x.account = account
  BY DEF Entry
<1>3. /\ challenges \in SUBSET Challenge /\ clock \in Nat
      /\ issued \in Seq(Entry) /\ accepted \in Seq(Entry)
  BY DEF ChallengeTypeOK, Entry
<1>4. Verdict(account, id) \in {"ok", "refused"} /\ (ok => Open(x))
  BY <1>2 DEF Verdict, Open
<1> HIDE DEF x, ok
<1>5. ChallengeTypeOK'
  <2>1. accepted' \in Seq(Entry) BY <1>1, <1>2, <1>3
  <2> QED BY <1>1, <1>3, <2>1 DEF ChallengeTypeOK, Entry
<1>6. ASSUME NEW e \in Entry
      PROVE  CountOf(accepted', e) + (IF Open(e)' THEN 1 ELSE 0) <= CountOf(issued', e)
  <2>1. /\ CountOf(accepted, e) \in Nat /\ CountOf(issued, e) \in Nat
        /\ CountOf(Append(accepted, x), e) = CountOf(accepted, e) + (IF x = e THEN 1 ELSE 0)
    BY <1>2, <1>3, CountAppended
  <2>2. CountOf(accepted, e) + (IF Open(e) THEN 1 ELSE 0) <= CountOf(issued, e)
    BY DEF ChallengesCounted, Entry
  <2>3. Open(e)' => Open(e) /\ x # e
    BY <1>1, <1>2 DEF Open
  <2>4. CASE ok /\ x = e
    <3>1. CountOf(accepted', e) = CountOf(accepted, e) + 1 BY <1>1, <2>1, <2>4
    <3>2. Open(e) /\ ~Open(e)' BY <1>4, <2>3, <2>4
    <3> QED BY <1>1, <2>1, <2>2, <3>1, <3>2
  <2>5. CASE ~ (ok /\ x = e)
    <3>1. CountOf(accepted', e) = CountOf(accepted, e) BY <1>1, <2>1, <2>5
    <3> QED BY <1>1, <2>1, <2>2, <2>3, <3>1
  <2> QED BY <2>4, <2>5
<1>7. AcceptedGrows
  BY <1>1, <1>2 DEF AcceptedGrows
<1>8. ASSUME ok
      PROVE  Len(accepted') = Len(accepted) + 1 /\ \E i \in DOMAIN accepted' : accepted'[i] = x
  <2>1. accepted' = Append(accepted, x) BY <1>1, <1>8
  <2>2. /\ Len(accepted') = Len(accepted) + 1 /\ accepted'[Len(accepted) + 1] = x
        /\ Len(accepted) + 1 \in DOMAIN accepted'
    BY <1>2, <1>3, <2>1
  <2> QED BY <2>2
<1> QED BY <1>1, <1>4, <1>5, <1>6, <1>7, <1>8 DEF ChallengesCounted, Entry, x, ok

\* A challenge runs out.
LEMMA ExpireCounted ==
    ASSUME ChallengeTypeOK, ChallengesCounted, Expire
    PROVE  ChallengeTypeOK' /\ ChallengesCounted' /\ accepted' = accepted
<1>1. PICK c \in challenges : challenges' = (challenges \ {c}) \cup {[c EXCEPT !.expired = TRUE]}
  BY DEF Expire
<1>2. clock' = clock /\ issued' = issued /\ accepted' = accepted
  BY DEF Expire
<1> DEFINE d == [c EXCEPT !.expired = TRUE]
<1>3. c \in Challenge /\ challenges \in SUBSET Challenge
  BY DEF ChallengeTypeOK
<1>4. d \in Challenge /\ d.id = c.id /\ d.account = c.account
  BY <1>3 DEF Challenge
<1> HIDE DEF d
<1>5. challenges' = (challenges \ {c}) \cup {d}
  BY <1>1 DEF d
<1>6. ChallengeTypeOK'
  BY <1>2, <1>3, <1>4, <1>5 DEF ChallengeTypeOK
<1>7. \A e : Open(e)' => Open(e)
  BY <1>4, <1>5 DEF Open
<1>8. ASSUME NEW e \in Entry
      PROVE  CountOf(accepted', e) + (IF Open(e)' THEN 1 ELSE 0) <= CountOf(issued', e)
  <2>1. /\ issued \in Seq(Entry) /\ accepted \in Seq(Entry)
        /\ CountOf(accepted, e) + (IF Open(e) THEN 1 ELSE 0) <= CountOf(issued, e)
    BY DEF ChallengesCounted, ChallengeTypeOK, Entry
  <2>2. CountOf(accepted, e) \in Nat /\ CountOf(issued, e) \in Nat
    BY <2>1, CountAppended
  <2> QED BY <1>2, <1>7, <2>1, <2>2
<1> QED BY <1>2, <1>6, <1>8 DEF ChallengesCounted, Entry

\* What is shown stays as it went: the chain keeps what it took, and a flow that
\* has ended unconfirmed is not taken up again.
LEMMA ShownStays ==
    ASSUME ShownKept, history \in SUBSET Shown, result \in SUBSET Shown,
           \A u \in Transfers : executed[u] > 0 => executed'[u] > 0,
           \A u \in Transfers : transfers[u].at = "unconfirmed" => transfers'[u].at = "unconfirmed",
           history' \subseteq history, result' \subseteq result
    PROVE  ShownKept'
<1>1. SUFFICES ASSUME NEW shown \in (history \cup result)'
               PROVE  /\ shown.status = "confirmed" => executed'[shown.transfer] > 0
                      /\ shown.status = "pending" => transfers'[shown.transfer].at = "unconfirmed"
  BY DEF ShownKept
<1>2. shown \in history \cup result /\ shown.transfer \in Transfers
  BY DEF Shown
<1> QED BY <1>2 DEF ShownKept

\* A flow is still explained by the transfer that is asking.
LEMMA Explained ==
    ASSUME NEW t \in Transfers, transfers'[t].at \in Posts \cup {"state", "thrown"}
    PROVE  LoadingExplained'
BY DEF LoadingExplained, InProgress

\* The invariant's parts, and the kinds of the variables.
LEMMA TransferParts ==
    ASSUME TransferInv
    PROVE  /\ TransferTypeOK /\ ChallengeTypeOK /\ LoadingExplained /\ ShownKept
           /\ ChallengesCounted /\ PastCounted /\ \A t \in Transfers : TransferFits(t)
           /\ loading \in BOOLEAN /\ history \in SUBSET Shown /\ result \in SUBSET Shown
           /\ transfers \in [Transfers -> Progress] /\ inFlight \in SUBSET Request
           /\ executed \in [Transfers -> Nat] /\ accepted \in Seq(Entry)
           /\ refreshing \in 0 .. MaxRefreshes /\ refreshes \in 0 .. MaxRefreshes
           /\ refreshing <= refreshes
BY DEF TransferInv, TransferTypeOK, ChallengeTypeOK, Entry

\* A flow ends with an error.
LEMMA FailKeeps ==
    ASSUME TransferInv, NEW t \in Transfers, InProgress(t), Fail(t)
    PROVE  TransferInv'
<1>1. /\ End(t, "failed") /\ loading' = FALSE /\ history' = history /\ result' = result
      /\ refreshing' = refreshing /\ refreshes' = refreshes /\ inFlight' = inFlight
      /\ executed' = executed /\ challenges' = challenges /\ clock' = clock
      /\ issued' = issued /\ accepted' = accepted
  BY DEF Fail, challengeVars
<1>2. /\ transfers' \in [Transfers -> Progress] /\ \A u \in Transfers : TransferFits(u)'
      /\ Past' \subseteq Past /\ \A u \in Transfers \ {t} : transfers'[u] = transfers[u]
  BY <1>1, TransferParts, StopKeeps DEF Outcomes
<1>3. TransferTypeOK'
  BY <1>1, <1>2, TransferParts DEF TransferTypeOK, ChallengeTypeOK
<1>4. PastCounted'
  BY <1>1, <1>2, TransferParts, PastStays DEF AcceptedGrows
<1>5. ChallengesCounted'
  BY <1>1, TransferParts DEF ChallengesCounted, Open
<1>7. transfers[t].at # "unconfirmed"
  BY DEF InProgress, Posts, Steps
<1>6. ShownKept' /\ LoadingExplained'
  <2>1. ShownKept' BY <1>1, <1>2, <1>7, TransferParts, ShownStays
  <2> QED BY <1>1, <2>1 DEF LoadingExplained
<1> QED BY <1>1, <1>2, <1>3, <1>4, <1>5, <1>6, TransferParts DEF TransferInv

\* A request is made, and nothing else happens.
LEMMA AskStep ==
    ASSUME TransferInv, NEW t \in Transfers, NEW step, NEW attempt, NEW id,
           MayAsk(t, step, attempt, id), Ask(t, step, attempt, id),
           UNCHANGED <<storeVars, executed, challengeVars>>
    PROVE  TransferInv'
<1>1. /\ loading' = loading /\ history' = history /\ result' = result
      /\ refreshing' = refreshing /\ refreshes' = refreshes
      /\ executed' = executed /\ challenges' = challenges /\ clock' = clock
      /\ issued' = issued /\ accepted' = accepted
  BY DEF challengeVars, storeVars
<1>2. /\ transfers' \in [Transfers -> Progress] /\ \A u \in Transfers : TransferFits(u)'
      /\ Past' \subseteq Past /\ inFlight' \in SUBSET Request /\ transfers'[t].at \in Posts
      /\ \A u \in Transfers \ {t} : transfers'[u] = transfers[u]
  BY <1>1, TransferParts, AskKeeps
<1>3. TransferTypeOK'
  BY <1>1, <1>2, TransferParts DEF TransferTypeOK, ChallengeTypeOK
<1>4. PastCounted'
  BY <1>1, <1>2, TransferParts, PastStays DEF AcceptedGrows
<1>5. ChallengesCounted'
  BY <1>1, TransferParts DEF ChallengesCounted, Open
<1>6. ShownKept'
  <2>1. transfers[t].at # "unconfirmed" BY DEF MayAsk, Posts, Steps
  <2> QED BY <1>1, <1>2, <2>1, TransferParts, ShownStays
<1>7. LoadingExplained'
  BY <1>2, Explained
<1> QED BY <1>1, <1>2, <1>3, <1>4, <1>5, <1>6, <1>7, TransferParts DEF TransferInv

\* Another try, or the end of the flow.
LEMMA RetryKeeps ==
    ASSUME TransferInv, NEW t \in Transfers, transfers[t].at \in Posts, RetryOrFail(t)
    PROVE  TransferInv'
<1>1. CASE transfers[t].attempt < MaxRetries
  <2>1. /\ Ask(t, transfers[t].at, transfers[t].attempt + 1, transfers[t].id)
        /\ UNCHANGED <<storeVars, executed, challengeVars>>
    BY <1>1 DEF RetryOrFail
  <2>2. MayAsk(t, transfers[t].at, transfers[t].attempt + 1, transfers[t].id)
    BY <1>1 DEF MayAsk
  <2> QED BY <2>1, <2>2, AskStep
<1>2. CASE ~ (transfers[t].attempt < MaxRetries)
  BY <1>2, FailKeeps DEF RetryOrFail, InProgress
<1> QED BY <1>1, <1>2

\* The next request of submitTransfer.
LEMMA ContinueKeeps ==
    ASSUME TransferInv, NEW t \in Transfers, Continue(t)
    PROVE  TransferInv'
<1> DEFINE p == transfers[t]
           step == CHOOSE i \in DOMAIN Steps : Steps[i] = p.at
           id == IF p.at = "challenge" THEN p.answerId ELSE p.id
<1>1. /\ p.answer = "ok" /\ p.at # "broadcast" /\ Ask(t, Steps[step + 1], 0, id)
      /\ UNCHANGED <<storeVars, executed, challengeVars>>
  BY DEF Continue
<1>2. p.at \in Posts
  BY <1>1, TransferParts DEF TransferFits, AnswerExpected
<1>3. /\ DOMAIN Steps = {1, 2, 3} /\ Steps[1] = "challenge" /\ Steps[2] = "confirm"
      /\ Steps[3] = "broadcast"
  BY DEF Steps
<1>4. p.at \in {"challenge", "confirm"}
  BY <1>1, <1>2 DEF Posts, Steps
<1>5. step \in {1, 2, 3} /\ Steps[step] = p.at
  BY <1>3, <1>4
<1> HIDE DEF step
<1>6. Steps[step + 1] = IF p.at = "challenge" THEN "confirm" ELSE "broadcast"
  BY <1>3, <1>4, <1>5
<1>7. MayAsk(t, Steps[step + 1], 0, id)
  BY <1>1, <1>4, <1>6 DEF MayAsk
<1> HIDE DEF id
<1> QED BY <1>1, <1>7, AskStep

\* A request has been served.
LEMMA ServeKeeps ==
    ASSUME TransferInv, NEW q \in inFlight, NEW kind \in {"ok", "declined", "refused", "busy", "garbled"},
           NEW id \in Nat, Answer(q, kind, id), Served(q, kind),
           ChallengeTypeOK', ChallengesCounted',
           (q.step = "confirm" /\ kind = "ok") => Len(accepted') = Len(accepted) + 1
    PROVE  TransferInv'
<1>1. /\ loading' = loading /\ history' = history /\ result' = result
      /\ refreshing' = refreshing /\ refreshes' = refreshes
  BY DEF Answer, storeVars
<1>2. /\ transfers' \in [Transfers -> Progress] /\ inFlight' \in SUBSET Request
      /\ \A u \in Transfers : TransferFits(u)'
      /\ \A u \in Transfers : transfers'[u].at = transfers[u].at
      /\ Past' \subseteq Past \cup {q.transfer}
      /\ ~ (q.step = "confirm" /\ kind = "ok") => Past' \subseteq Past
  BY TransferParts, AnswerKeeps
<1>3. /\ executed' \in [Transfers -> Nat] /\ AcceptedGrows
      /\ \A u \in Transfers : executed'[u] = executed[u] \/ executed'[u] = executed[u] + 1
  BY DEF Served
<1>4. TransferTypeOK'
  BY <1>1, <1>2, <1>3, TransferParts DEF TransferTypeOK
<1>5. PastCounted'
  BY <1>2, <1>3, TransferParts, PastStays
<1>6. \A u \in Transfers : executed[u] > 0 => executed'[u] > 0
  <2>1. \A u \in Transfers : executed[u] \in Nat BY TransferParts
  <2> QED BY <1>3, <2>1
<1>7. ShownKept'
  BY <1>1, <1>2, <1>3, <1>6, TransferParts, ShownStays
<1>8. LoadingExplained'
  BY <1>1, <1>2, TransferParts DEF LoadingExplained, InProgress
<1> QED BY <1>1, <1>2, <1>4, <1>5, <1>7, <1>8, TransferParts DEF TransferInv

\* A step of the server's map alone.
LEMMA MapStep ==
    ASSUME TransferInv, ChallengeTypeOK', ChallengesCounted', accepted' = accepted,
           UNCHANGED <<storeVars, transfers, inFlight, executed>>
    PROVE  TransferInv'
<1>1. /\ loading' = loading /\ history' = history /\ result' = result
      /\ refreshing' = refreshing /\ refreshes' = refreshes
      /\ transfers' = transfers /\ inFlight' = inFlight /\ executed' = executed
  BY DEF storeVars
<1>2. AcceptedGrows
  BY DEF AcceptedGrows
<1>3. ASSUME NEW u \in Transfers PROVE TransferFits(u)' /\ (u \in Past' <=> u \in Past)
  BY <1>1, <1>2, TransferParts, TransferKept
<1>4. Past' \subseteq Past
  BY <1>3 DEF Past
<1>5. PastCounted'
  BY <1>2, <1>4, TransferParts, PastStays
<1>6. TransferTypeOK' /\ ShownKept' /\ LoadingExplained'
  BY <1>1, TransferParts DEF TransferTypeOK, ShownKept, LoadingExplained, InProgress
<1> QED BY <1>1, <1>3, <1>5, <1>6, TransferParts DEF TransferInv

\* The button is pressed.
LEMMA StartKeeps ==
    ASSUME TransferInv, NEW t \in Transfers, Start(t)
    PROVE  TransferInv'
<1>1. /\ transfers[t].at = "idle" /\ loading' = TRUE /\ result' = {} /\ history' = history
      /\ transfers' = [transfers EXCEPT ![t] = [transfers[t] EXCEPT !.at = "state"]]
      /\ refreshing' = refreshing /\ refreshes' = refreshes /\ inFlight' = inFlight
      /\ executed' = executed /\ challenges' = challenges /\ clock' = clock
      /\ issued' = issued /\ accepted' = accepted
  BY DEF Start, challengeVars
<1>2. AcceptedGrows
  BY <1>1 DEF AcceptedGrows
<1>3. /\ transfers' \in [Transfers -> Progress] /\ transfers'[t].at = "state"
      /\ transfers'[t].answer = transfers[t].answer /\ transfers'[t].id = transfers[t].id
      /\ \A u \in Transfers \ {t} : transfers'[u] = transfers[u]
  BY <1>1, TransferParts DEF Progress
<1>4. ASSUME NEW u \in Transfers, u # t PROVE TransferFits(u)' /\ (u \in Past' <=> u \in Past)
  BY <1>1, <1>2, <1>3, <1>4, TransferParts, TransferKept
<1>5. /\ AnswerExpected(t) /\ ConfirmsKnown(t) /\ TriesCounted(t) /\ Confirmed(t)
      /\ DeclinedCounted(t)
  BY TransferParts DEF TransferFits
<1>6. Broadcasts(t)' = Broadcasts(t)
  BY <1>1 DEF Broadcasts
<1>7. executed[t] = 0 /\ Broadcasts(t) = {} /\ transfers[t].answer = "none"
  BY <1>1, <1>5 DEF TriesCounted, AnswerExpected, Posts, Steps
<1>8. t \notin Past'
  BY <1>1, <1>3, <1>6, <1>7 DEF Past
<1>9. TransferFits(t)'
  <2>1. AnswerExpected(t)' BY <1>3, <1>7 DEF AnswerExpected
  <2>2. ConfirmsKnown(t)' BY <1>1, <1>5 DEF ConfirmsKnown
  <2>3. TriesCounted(t)' BY <1>1, <1>3, <1>5, <1>6, <1>7 DEF TriesCounted
  <2>4. Confirmed(t)' BY <1>8 DEF Confirmed
  <2>5. DeclinedCounted(t)' BY <1>3 DEF DeclinedCounted, Declined
  <2> QED BY <2>1, <2>2, <2>3, <2>4, <2>5 DEF TransferFits
<1>10. Past' \subseteq Past
  BY <1>4, <1>8 DEF Past
<1>11. PastCounted'
  BY <1>2, <1>10, TransferParts, PastStays
<1>12. TransferTypeOK'
  BY <1>1, <1>3, TransferParts DEF TransferTypeOK, ChallengeTypeOK
<1>13. ChallengesCounted' /\ ShownKept'
  <2>1. ChallengesCounted' BY <1>1, TransferParts DEF ChallengesCounted, Open
  <2>2. result' \subseteq result BY <1>1
  <2>3. ShownKept' BY <1>1, <1>3, <2>2, TransferParts, ShownStays
  <2> QED BY <2>1, <2>3
<1>14. LoadingExplained'
  BY <1>3, Explained
<1> QED BY <1>1, <1>4, <1>9, <1>11, <1>12, <1>13, <1>14, TransferParts DEF TransferInv

\* A refresh begins or ends.
LEMMA RefreshKeeps ==
    ASSUME TransferInv, RefreshAssetQuote \/ \E ok \in BOOLEAN : RefreshDone(ok)
    PROVE  TransferInv'
<1>1. /\ transfers' = transfers /\ inFlight' = inFlight /\ executed' = executed /\ result' = result
      /\ challenges' = challenges /\ clock' = clock /\ issued' = issued /\ accepted' = accepted
      /\ history' \subseteq history
  BY DEF RefreshAssetQuote, RefreshDone, challengeVars
<1>2. /\ loading' \in BOOLEAN /\ refreshing' \in 0 .. MaxRefreshes /\ refreshes' \in 0 .. MaxRefreshes
      /\ refreshing' <= refreshes' /\ (loading' => refreshing' > 0)
  <2>1. /\ refreshing \in 0 .. MaxRefreshes /\ refreshes \in 0 .. MaxRefreshes
        /\ refreshing <= refreshes /\ MaxRefreshes \in Nat
    BY TransferParts, TransferBounds
  <2>2. CASE RefreshAssetQuote
    <3>1. /\ refreshes < MaxRefreshes /\ loading' = TRUE /\ refreshing' = refreshing + 1
          /\ refreshes' = refreshes + 1
      BY <2>2 DEF RefreshAssetQuote
    <3>2. /\ refreshing' \in 0 .. MaxRefreshes /\ refreshes' \in 0 .. MaxRefreshes
          /\ refreshing' <= refreshes' /\ refreshing' > 0
      BY <2>1, <3>1
    <3> QED BY <3>1, <3>2, Zenon
  <2>3. CASE \E ok \in BOOLEAN : RefreshDone(ok)
    <3>1. refreshing > 0 /\ loading' = FALSE /\ refreshing' = refreshing - 1 /\ refreshes' = refreshes
      BY <2>3 DEF RefreshDone
    <3>2. /\ refreshing' \in 0 .. MaxRefreshes /\ refreshes' \in 0 .. MaxRefreshes
          /\ refreshing' <= refreshes'
      BY <2>1, <3>1
    <3> QED BY <3>1, <3>2, Zenon
  <2> QED BY <2>2, <2>3
<1>3. AcceptedGrows
  BY <1>1 DEF AcceptedGrows
<1>4. ASSUME NEW u \in Transfers PROVE TransferFits(u)' /\ (u \in Past' <=> u \in Past)
  BY <1>1, <1>3, TransferParts, TransferKept
<1>5. Past' \subseteq Past
  BY <1>4 DEF Past
<1>6. PastCounted'
  BY <1>3, <1>5, TransferParts, PastStays
<1>7. TransferTypeOK'
  BY <1>1, <1>2, TransferParts DEF TransferTypeOK, ChallengeTypeOK
<1>8. ChallengesCounted' /\ ShownKept'
  <2>1. ChallengesCounted' BY <1>1, TransferParts DEF ChallengesCounted, Open
  <2>2. ShownKept' BY <1>1, TransferParts, ShownStays
  <2> QED BY <2>1, <2>2
<1>9. LoadingExplained'
  BY <1>2 DEF LoadingExplained
<1> QED BY <1>2, <1>4, <1>6, <1>7, <1>8, <1>9 DEF TransferInv

\* submitTransfer has come to its end: the transfer is shown as the chain's code
\* says.
Finished(t, outcome) ==
    LET shown == [transfer |-> t, status |-> IF outcome = "done" THEN "confirmed" ELSE "pending"]
    IN  /\ loading' = FALSE /\ result' = {shown} /\ history' = history \cup {shown}
        /\ transfers[t].at = "broadcast"
        /\ transfers[t].answer = IF outcome = "done" THEN "ok" ELSE "declined"

\* The end of a flow that has met no error of the client.
LEMMA LeaveKeeps ==
    ASSUME TransferInv, NEW t \in Transfers, Garbled(t) \/ Finish(t)
    PROVE  TransferInv'
<1>1. /\ inFlight' = inFlight /\ executed' = executed /\ challenges' = challenges
      /\ clock' = clock /\ issued' = issued /\ accepted' = accepted
      /\ refreshing' = refreshing /\ refreshes' = refreshes
  BY DEF Garbled, Finish, challengeVars, storeVars
<1>2. PICK outcome \in {"done", "unconfirmed", "thrown"} :
        /\ End(t, outcome)
        /\ outcome = "thrown" => loading' = loading /\ history' = history /\ result' = result
        /\ outcome # "thrown" => Finished(t, outcome)
  <2>1. CASE Garbled(t) BY <2>1 DEF Garbled, storeVars
  <2>2. CASE Finish(t)
    <3>1. CASE transfers[t].answer = "ok" BY <2>2, <3>1 DEF Finish, Finished
    <3>2. CASE transfers[t].answer # "ok" BY <2>2, <3>2 DEF Finish, Finished
    <3> QED BY <3>1, <3>2
  <2> QED BY <2>1, <2>2
<1>3. outcome \in Outcomes /\ (outcome = "unconfirmed" => Declined(t))
  BY <1>2 DEF Outcomes, Finished, Declined
<1>4. /\ transfers' \in [Transfers -> Progress] /\ \A u \in Transfers : TransferFits(u)'
      /\ Past' \subseteq Past /\ transfers'[t].at = outcome
      /\ \A u \in Transfers \ {t} : transfers'[u] = transfers[u]
  BY <1>1, <1>2, <1>3, TransferParts, StopKeeps
<1> DEFINE shown == [transfer |-> t, status |-> IF outcome = "done" THEN "confirmed" ELSE "pending"]
<1>10. /\ shown \in Shown /\ shown.transfer = t
       /\ shown.status = "confirmed" => outcome = "done"
       /\ shown.status = "pending" => outcome # "done"
  BY DEF Shown
<1>11. outcome # "thrown" => /\ loading' = FALSE /\ result' = {shown} /\ history' = history \cup {shown}
                             /\ outcome = "done" => transfers[t].at = "broadcast" /\ transfers[t].answer = "ok"
  BY <1>2 DEF Finished
<1> HIDE DEF shown
<1>12. transfers[t].at # "unconfirmed"
  <2>1. CASE Garbled(t)
    <3>1. transfers[t].at \in Posts BY <2>1, TransferParts DEF Garbled, TransferFits, AnswerExpected
    <3> QED BY <3>1 DEF Posts, Steps
  <2>2. CASE Finish(t) BY <2>2 DEF Finish
  <2> QED BY <2>1, <2>2
<1>5. TransferTypeOK'
  <2>1. loading' \in BOOLEAN /\ history' \in SUBSET Shown /\ result' \in SUBSET Shown
    BY <1>2, <1>10, <1>11, TransferParts
  <2> QED BY <1>1, <1>4, <2>1, TransferParts DEF TransferTypeOK, ChallengeTypeOK
<1>6. PastCounted'
  BY <1>1, <1>4, TransferParts, PastStays DEF AcceptedGrows
<1>7. ChallengesCounted'
  BY <1>1, TransferParts DEF ChallengesCounted, Open
<1>8. ShownKept'
  <2>1. CASE outcome = "thrown" BY <1>1, <1>2, <1>4, <1>12, <2>1, TransferParts, ShownStays
  <2>2. CASE outcome # "thrown"
    <3>1. outcome = "done" => executed[t] > 0
      BY <1>11, <2>2, TransferParts DEF TransferFits, AnswerExpected
    <3>2. SUFFICES ASSUME NEW s \in (history \cup result)'
                   PROVE  /\ s.status = "confirmed" => executed'[s.transfer] > 0
                          /\ s.status = "pending" => transfers'[s.transfer].at = "unconfirmed"
      BY DEF ShownKept
    <3>3. CASE s = shown BY <1>1, <1>2, <1>4, <1>10, <2>2, <3>1, <3>3
    <3>4. CASE s # shown
      <4>1. s \in history BY <1>11, <2>2, <3>2, <3>4
      <4>2. s.transfer \in Transfers BY <4>1, TransferParts DEF Shown
      <4>3. /\ s.status = "confirmed" => executed[s.transfer] > 0
            /\ s.status = "pending" => transfers[s.transfer].at = "unconfirmed"
        BY <4>1, TransferParts DEF ShownKept
      <4> QED BY <1>1, <1>4, <1>12, <4>2, <4>3
    <3> QED BY <3>3, <3>4
  <2> QED BY <2>1, <2>2
<1>9. LoadingExplained'
  <2>1. CASE outcome = "thrown"
    <3>1. transfers'[t].at \in Posts \cup {"state", "thrown"} BY <1>4, <2>1
    <3> QED BY <3>1, Explained
  <2>2. CASE outcome # "thrown" BY <1>11, <2>2 DEF LoadingExplained
  <2> QED BY <2>1, <2>2
<1> QED BY <1>1, <1>4, <1>5, <1>6, <1>7, <1>8, <1>9, TransferParts DEF TransferInv

\* The server's handlers.
LEMMA HandlerKeeps ==
    ASSUME TransferInv, NEW q \in inFlight, ServeChallenge(q) \/ ServeConfirm(q) \/ ServeBroadcast(q)
    PROVE  TransferInv'
<1>1. q \in Request /\ q.transfer \in Transfers /\ q.id \in Nat
  BY TransferParts DEF Request
<1>2. CASE ServeChallenge(q)
  <2>1. PICK id \in 0 .. MaxIssued : Issue(Wallet, id) /\ Answer(q, "ok", id) BY <1>2 DEF ServeChallenge
  <2>2. id \in Nat /\ q.step = "challenge" /\ executed' = executed BY <1>2, ChallengeBounds DEF ServeChallenge
  <2>3. ChallengeTypeOK' /\ ChallengesCounted' /\ accepted' = accepted
    BY <2>1, <2>2, TransferParts, WalletAssumption, IssueCounted
  <2>4. Served(q, "ok") BY <1>1, <2>2, <2>3, TransferParts DEF Served, AcceptedGrows
  <2> QED BY <2>1, <2>2, <2>3, <2>4, ServeKeeps
<1>3. CASE ServeConfirm(q)
  <2> DEFINE kind == Verdict(Wallet, q.id)
  <2>1. Confirm(Wallet, q.id) /\ Answer(q, kind, 0) /\ q.step = "confirm" /\ executed' = executed
    BY <1>3 DEF ServeConfirm
  <2>2. /\ ChallengeTypeOK' /\ ChallengesCounted' /\ AcceptedGrows
        /\ kind \in {"ok", "refused"}
        /\ kind = "ok" => /\ Len(accepted') = Len(accepted) + 1
                          /\ \E i \in DOMAIN accepted' : accepted'[i] = [id |-> q.id, account |-> Wallet]
    BY <1>1, <2>1, TransferParts, WalletAssumption, ConfirmCounted
  <2> HIDE DEF kind
  <2>3. Served(q, kind) BY <1>1, <2>1, <2>2, TransferParts DEF Served
  <2>4. kind \in {"ok", "declined", "refused", "busy", "garbled"} BY <2>2
  <2> QED BY <2>1, <2>2, <2>3, <2>4, ServeKeeps
<1>4. CASE ServeBroadcast(q)
  <2>1. /\ challenges' = challenges /\ clock' = clock /\ issued' = issued /\ accepted' = accepted
        /\ q.step = "broadcast"
    BY <1>4 DEF ServeBroadcast, challengeVars
  <2>2. PICK kind \in {"ok", "declined", "refused", "busy", "garbled"} :
          /\ Answer(q, kind, 0)
          /\ \/ kind # "declined" /\ executed' = [executed EXCEPT ![q.transfer] = executed[q.transfer] + 1]
             \/ kind # "ok" /\ executed' = executed
    BY <1>4 DEF ServeBroadcast
  <2>3. ChallengeTypeOK' /\ ChallengesCounted'
    BY <2>1, TransferParts DEF ChallengeTypeOK, ChallengesCounted, Open
  <2>4. Served(q, kind) BY <1>1, <2>1, <2>2, TransferParts DEF Served, AcceptedGrows
  <2> QED BY <2>1, <2>2, <2>3, <2>4, ServeKeeps
<1> QED BY <1>2, <1>3, <1>4

\* At start-up no transfer has been asked for.
LEMMA TransferInitially == Init => TransferInv
<1> SUFFICES ASSUME Init PROVE TransferInv
  OBVIOUS
<1>1. /\ challenges = {} /\ clock = 0 /\ issued = <<>> /\ accepted = <<>>
      /\ loading = TRUE /\ refreshing = 1 /\ refreshes = 1 /\ history = {} /\ result = {}
      /\ inFlight = {} /\ executed = [t \in Transfers |-> 0]
      /\ transfers = [t \in Transfers |-> [at |-> "idle", attempt |-> 0, id |-> 0,
                                           answer |-> "none", answerId |-> 0]]
  BY DEF Init, ChallengeInit
<1>2. \A t \in Transfers : Broadcasts(t) = {}
  BY <1>1 DEF Broadcasts
<1>3. Past = {}
  BY <1>1, <1>2 DEF Past
<1>4. TransferTypeOK
  <2>1. transfers \in [Transfers -> Progress] BY <1>1, TransferBounds DEF Progress
  <2> QED BY <1>1, <2>1, TransferBounds DEF TransferTypeOK, ChallengeTypeOK
<1>5. ASSUME NEW t \in Transfers PROVE TransferFits(t)
  <2>1. /\ transfers[t].at = "idle" /\ transfers[t].answer = "none" /\ executed[t] = 0
        /\ Broadcasts(t) = {}
    BY <1>1, <1>2
  <2>2. AnswerExpected(t) /\ ConfirmsKnown(t) BY <1>1, <2>1 DEF AnswerExpected, ConfirmsKnown
  <2>3. TriesCounted(t) BY <2>1, FS_EmptySet, TransferBounds DEF TriesCounted
  <2>4. Confirmed(t) BY <1>3 DEF Confirmed
  <2>5. DeclinedCounted(t) BY <2>1 DEF DeclinedCounted, Declined
  <2> QED BY <2>2, <2>3, <2>4, <2>5 DEF TransferFits
<1>6. PastCounted
  BY <1>1, <1>3, FS_EmptySet DEF PastCounted
<1>7. ChallengesCounted
  <2>1. ASSUME NEW e PROVE CountOf(<<>>, e) = 0
    <3>1. {i \in DOMAIN <<>> : <<>>[i] = e} = {} OBVIOUS
    <3> QED BY <3>1, FS_EmptySet DEF CountOf
  <2>2. \A e : ~Open(e) BY <1>1 DEF Open
  <2> QED BY <1>1, <2>1, <2>2 DEF ChallengesCounted
<1>8. LoadingExplained /\ ShownKept
  BY <1>1 DEF LoadingExplained, ShownKept
<1> QED BY <1>1, <1>4, <1>5, <1>6, <1>7, <1>8 DEF TransferInv

\* Every step keeps the invariant.
LEMMA TransferStep == TransferInv /\ [Next]_transferVars => TransferInv'
<1> SUFFICES ASSUME TransferInv, [Next]_transferVars PROVE TransferInv'
  OBVIOUS
<1>1. ASSUME NEW t \in Transfers, Start(t) PROVE TransferInv'
  BY <1>1, StartKeeps
<1>2. ASSUME NEW t \in Transfers, StateRead(t) PROVE TransferInv'
  <2>1. /\ Ask(t, "challenge", 0, 0) /\ UNCHANGED <<storeVars, executed, challengeVars>>
        /\ MayAsk(t, "challenge", 0, 0)
    BY <1>2 DEF StateRead, MayAsk
  <2> QED BY <2>1, AskStep
<1>3. ASSUME NEW t \in Transfers, StateUnread(t) \/ Refused(t) PROVE TransferInv'
  <2>1. InProgress(t) /\ Fail(t)
    BY <1>3, TransferParts DEF StateUnread, Refused, InProgress, TransferFits, AnswerExpected
  <2> QED BY <2>1, FailKeeps
<1>4. ASSUME NEW t \in Transfers, Timeout(t) \/ Busy(t) PROVE TransferInv'
  <2>1. transfers[t].at \in Posts /\ RetryOrFail(t)
    BY <1>4, TransferParts DEF Timeout, Busy, TransferFits, AnswerExpected
  <2> QED BY <2>1, RetryKeeps
<1>5. ASSUME NEW t \in Transfers, Garbled(t) \/ Finish(t) PROVE TransferInv'
  BY <1>5, LeaveKeeps
<1>6. ASSUME NEW t \in Transfers, Continue(t) PROVE TransferInv'
  BY <1>6, ContinueKeeps
<1>7. ASSUME NEW q \in inFlight, ServeChallenge(q) \/ ServeConfirm(q) \/ ServeBroadcast(q)
      PROVE  TransferInv'
  BY <1>7, HandlerKeeps
<1>8. ASSUME NEW account \in Accounts, OtherWallet(account) PROVE TransferInv'
  <2>1. PICK id \in 0 .. MaxIssued : Issue(account, id) BY <1>8 DEF OtherWallet
  <2>2. ChallengeTypeOK' /\ ChallengesCounted' /\ accepted' = accepted
    BY <2>1, TransferParts, ChallengeBounds, IssueCounted
  <2>3. UNCHANGED <<storeVars, transfers, inFlight, executed>> BY <1>8 DEF OtherWallet
  <2> QED BY <2>2, <2>3, MapStep
<1>9. ASSUME TimePasses PROVE TransferInv'
  <2>1. ChallengeTypeOK' /\ ChallengesCounted' /\ accepted' = accepted
    BY <1>9, TransferParts, ExpireCounted DEF TimePasses
  <2>2. UNCHANGED <<storeVars, transfers, inFlight, executed>> BY <1>9 DEF TimePasses
  <2> QED BY <2>1, <2>2, MapStep
<1>10. ASSUME RefreshAssetQuote \/ \E ok \in BOOLEAN : RefreshDone(ok) PROVE TransferInv'
  BY <1>10, RefreshKeeps
<1>11. ASSUME UNCHANGED transferVars PROVE TransferInv'
  <2>1. /\ UNCHANGED <<storeVars, transfers, inFlight, executed>>
        /\ challenges' = challenges /\ clock' = clock /\ issued' = issued /\ accepted' = accepted
    BY <1>11 DEF transferVars, challengeVars
  <2>2. ChallengeTypeOK' /\ ChallengesCounted'
    BY <2>1, TransferParts DEF ChallengeTypeOK, ChallengesCounted, Open
  <2> QED BY <2>1, <2>2, MapStep
<1> QED BY <1>1, <1>2, <1>3, <1>4, <1>5, <1>6, <1>7, <1>8, <1>9, <1>10, <1>11 DEF Next

\* The invariant implies what the run checks.
LEMMA TransferInvGives == TransferInv => TransfersAuthorised /\ LoadingExplained
<1> SUFFICES ASSUME TransferInv PROVE TransfersAuthorised /\ LoadingExplained
  OBVIOUS
<1>1. SingleUse
  <2>1. ASSUME NEW i \in DOMAIN accepted
        PROVE  CountOf(accepted, accepted[i]) <= CountOf(issued, accepted[i])
    <3> DEFINE e == accepted[i]
    <3>1. e \in Entry /\ accepted \in Seq(Entry) /\ issued \in Seq(Entry)
      <4>1. accepted \in Seq(Entry) /\ issued \in Seq(Entry) BY TransferParts DEF ChallengeTypeOK, Entry
      <4> QED BY <4>1
    <3> HIDE DEF e
    <3>2. CountOf(accepted, e) + (IF Open(e) THEN 1 ELSE 0) <= CountOf(issued, e)
      BY <3>1, TransferParts DEF ChallengesCounted, Entry
    <3>3. CountOf(accepted, e) \in Nat /\ CountOf(issued, e) \in Nat
      BY <3>1, CountAppended
    <3>4. CountOf(accepted, e) <= CountOf(issued, e) BY <3>2, <3>3
    <3> QED BY <3>4 DEF e
  <2> QED BY <2>1 DEF SingleUse, CountOf
<1>2. CoveredByConfirmations
  <2> DEFINE broadcast == {t \in Transfers : executed[t] > 0}
  <2>1. broadcast \in SUBSET Past BY DEF Past
  <2>2. IsFiniteSet(Past) /\ Cardinality(Past) <= Len(accepted) /\ Len(accepted) \in Nat
    BY TransferParts DEF PastCounted
  <2>3. Cardinality(broadcast) <= Len(accepted)
    <3> HIDE DEF broadcast
    <3>1. /\ Cardinality(broadcast) <= Cardinality(Past)
          /\ Cardinality(broadcast) \in Nat /\ Cardinality(Past) \in Nat
      BY <2>1, <2>2, FS_Subset, FS_CardinalityType
    <3> QED BY <2>2, <3>1
  <2>4. ASSUME NEW t \in broadcast
        PROVE  /\ executed[t] <= MaxRetries + 1
               /\ \E i \in DOMAIN accepted : accepted[i] = [id |-> transfers[t].id, account |-> Wallet]
    <3>1. t \in Transfers /\ t \in Past /\ TransferFits(t) BY <2>1, TransferParts
    <3> DEFINE c == Cardinality(Broadcasts(t))
    <3>2. /\ IsFiniteSet(Broadcasts(t))
          /\ executed[t] + c <= IF transfers[t].at = "broadcast" THEN transfers[t].attempt + 1 ELSE MaxRetries + 1
      BY <3>1 DEF TransferFits, TriesCounted
    <3>3. c \in Nat BY <3>2, FS_CardinalityType
    <3>4. executed[t] \in Nat /\ transfers[t].attempt \in 0 .. MaxRetries /\ MaxRetries \in Nat
      BY <3>1, TransferParts, ProgressTyped, TransferBounds
    <3> HIDE DEF c
    <3>5. executed[t] <= MaxRetries + 1 BY <3>2, <3>3, <3>4
    <3>6. \E i \in DOMAIN accepted : accepted[i] = [id |-> transfers[t].id, account |-> Wallet]
      BY <3>1 DEF TransferFits, Confirmed
    <3> QED BY <3>5, <3>6
  <2> QED BY <2>3, <2>4 DEF CoveredByConfirmations
<1>3. ShownAsItWent
  <2>1. SUFFICES ASSUME NEW shown \in history \cup result
                 PROVE  CASE shown.status = "confirmed" -> executed[shown.transfer] > 0
                          [] shown.status = "pending" -> executed[shown.transfer] <= MaxRetries
    BY DEF ShownAsItWent
  <2> DEFINE t == shown.transfer
  <2>2. t \in Transfers /\ shown.status \in {"confirmed", "pending"} BY TransferParts DEF Shown
  <2>3. CASE shown.status = "confirmed"
    BY <2>3, TransferParts DEF ShownKept
  <2>4. CASE shown.status = "pending"
    <3>1. transfers[t].at = "unconfirmed" BY <2>4, TransferParts DEF ShownKept
    <3> HIDE DEF t
    <3>2. TransferFits(t) /\ executed[t] \in Nat /\ MaxRetries \in Nat
      BY <2>2, TransferParts, TransferBounds
    <3>3. executed[t] + Cardinality(Broadcasts(t)) <= MaxRetries
      BY <3>1, <3>2 DEF TransferFits, DeclinedCounted, Declined
    <3>4. Cardinality(Broadcasts(t)) \in Nat
      BY <3>2, FS_CardinalityType DEF TransferFits, TriesCounted
    <3>5. executed[t] <= MaxRetries BY <3>2, <3>3, <3>4
    <3> QED BY <2>4, <3>5 DEF t
  <2> QED BY <2>2, <2>3, <2>4
<1> QED BY <1>1, <1>2, <1>3, TransferParts DEF TransfersAuthorised

\* Every reachable state satisfies the invariant.
LEMMA TransferInvariant == Spec => []TransferInv
BY TransferInitially, TransferStep, PTL DEF Spec

\* From the challenge to the history: however the client retries, and whatever
\* the server serves late, each challenge authorises once, the chain gets only
\* what was authorised, and a transfer is shown as it went: as confirmed if the
\* chain took it, as pending if the chain refused a try.
THEOREM TransfersCorrect == Spec => []TransfersAuthorised
BY TransferInvariant, TransferInvGives, PTL

\* The button comes back.
THEOREM LoadingCorrect == Spec => []LoadingExplained
BY TransferInvariant, TransferInvGives, PTL
=============================================================================
