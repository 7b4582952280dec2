---------------------------- MODULE BroadcastProofs ----------------------------
(***************************************************************************)
(* Proofs about the messages between the server and its pages: the overlay *)
(* (EventHub), the status on the dashboard (StatusBroadcast) and the       *)
(* status of the worker page (WorkerStatus).                               *)
(*                                                                         *)
(* For the overlay all that matters of the tasks, the queue and the replay *)
(* is the set of messages under way (Msgs).  Few steps add to it, and what *)
(* they add is the newest in time, in sequence and in frame; so time and   *)
(* sequence tell messages of older frames from those of newer ones, and    *)
(* the stale guard cannot err.                                             *)
(***************************************************************************)
EXTENDS EventHub, StatusBroadcast, WorkerStatus, TLAPS

Msg == [frame : Nat, seq : Nat, at : Nat]
Broadcast == [channel : Channels, msg : Msg, stored : BOOLEAN]

HubTypeOK ==
  /\ now \in Nat /\ sequence \in Nat /\ frames \in Nat /\ latest \in Nat
  /\ flush \in [todo : Seq(Channels), frame : Nat]
  /\ tasks \subseteq Broadcast
  /\ last \in [Channels -> Msg]
  /\ page \in [link : {"down", "new", "live"}, queue : Seq(Msg), seq : Nat, at : Nat,
               shown : Nat, top : Nat]

\* The messages under way, or kept for pages that connect.
Msgs ==
  {t.msg : t \in tasks} \union {page.queue[i] : i \in DOMAIN page.queue}
  \union {last[c] : c \in {d \in Channels : last[d] # Unsent}}

\* Nothing happened of what the first property makes an exception for.
Trusted == blamed \intersect {"clock", "flush"} = {}

FlushInv == flush.todo # <<>> => flush.frame = latest /\ latest # 0

\* The latest message is the newest in every respect.
BoundInv ==
  /\ latest <= frames
  /\ \A m \in Msgs : m.at <= now /\ m.seq <= sequence /\ m.frame >= 1 /\ m.frame <= latest

NotAfter(m, n) == m.at < n.at \/ (m.at = n.at /\ m.seq <= n.seq)

\* Neither time nor sequence ever puts a newer frame before an older one.
OrderInv ==
  \A m, n \in Msgs : NotAfter(m, n) \/ m.seq <= n.seq => m.frame <= n.frame

\* What the guard of the page lets through is not older than what the page showed, and what it
\* keeps out is not newer than what the page shows.
GuardKeeps ==
  \A m \in Msgs : /\ IsStale(m) => m.frame <= page.shown
                  /\ ~IsStale(m) => page.top <= m.frame
PageInv ==
  /\ page.shown \in {0, page.top}
  /\ page.top <= frames
  /\ latest # 0 => page.top <= latest
  /\ page.at < now \/ (page.at = now /\ page.seq <= sequence)
  /\ GuardKeeps

HubInv == Trusted => FlushInv /\ BoundInv /\ OrderInv /\ PageInv

-----------------------------------------------------------------------------
(* Types *)

\* The types hold at the start.
LEMMA HubTypeInit == HubInit => HubTypeOK
<1> SUFFICES ASSUME HubInit PROVE HubTypeOK
  OBVIOUS
<1>1. <<>> \in Seq(Msg) /\ <<>> \in Seq(Channels)
  OBVIOUS
<1>2. 2 * MaxFrames + MaxMishaps + 1 \in Nat
  BY HubAssumption
<1>3. /\ NewPage \in [link : {"down", "new", "live"}, queue : Seq(Msg), seq : Nat, at : Nat,
                      shown : Nat, top : Nat]
      /\ OldPage \in [link : {"down", "new", "live"}, queue : Seq(Msg), seq : Nat, at : Nat,
                      shown : Nat, top : Nat]
  BY <1>1, <1>2 DEF NewPage, OldPage
<1>4. Unsent \in Msg
  BY DEF Unsent, Msg
<1>5. NoFlush \in [todo : Seq(Channels), frame : Nat]
  BY <1>1 DEF NoFlush
<1> QED
  BY <1>3, <1>4, <1>5 DEF HubInit, HubTypeOK

\* What enrich makes is a broadcast.
LEMMA EnrichedType ==
  ASSUME HubTypeOK, now' \in Nat, NEW c \in Channels, NEW f \in Nat, NEW k \in Nat
  PROVE  Enriched(c, f, k) \in Broadcast
  BY DEF HubTypeOK, Enriched, Broadcast, Msg

\* A publication keeps the types.
LEMMA PublishType ==
  ASSUME HubTypeOK, NEW f \in Nat, NEW r, now' \in Nat, Publish(f, r)
  PROVE  latest' \in Nat /\ tasks' \subseteq Broadcast /\ sequence' \in Nat
<1>1. "overlay" \in Channels /\ "subtitle" \in Channels
  BY DEF Channels
<1>2. Enriched("overlay", f, 1) \in Broadcast /\ Enriched("subtitle", f, 2) \in Broadcast
  BY <1>1, EnrichedType
<1>3. Enriched("subtitle", f, 1) \in Broadcast
  BY <1>1, EnrichedType
<1> QED
  BY <1>2, <1>3 DEF Publish, HubTypeOK

\* Every step keeps the types.
LEMMA HubTypeStep == HubTypeOK /\ [HubNext]_hubVars => HubTypeOK'
<1> SUFFICES ASSUME HubTypeOK, [HubNext]_hubVars PROVE HubTypeOK'
  OBVIOUS
<1>1. CASE PublishFrame
  <2>1. frames + 1 \in Nat /\ now' \in Nat /\ frames' \in Nat
    BY <1>1 DEF PublishFrame, HubTypeOK
  <2>2. latest' \in Nat /\ tasks' \subseteq Broadcast /\ sequence' \in Nat
    BY <1>1, <2>1, PublishType DEF PublishFrame
  <2> QED
    BY <1>1, <2>1, <2>2 DEF PublishFrame, HubTypeOK
<1>2. CASE PublishAgain
  <2>1. latest \in Nat /\ now' \in Nat
    BY <1>2 DEF PublishAgain, HubTypeOK
  <2>2. latest' \in Nat /\ tasks' \subseteq Broadcast /\ sequence' \in Nat
    BY <1>2, <2>1, PublishType DEF PublishAgain
  <2> QED
    BY <1>2, <2>1, <2>2 DEF PublishAgain, HubTypeOK
<1>3. CASE FlushBegins
  <2>1. <<"overlay", "subtitle">> \in Seq(Channels)
    BY DEF Channels
  <2> QED
    BY <1>3, <2>1 DEF FlushBegins, HubTypeOK
<1>4. CASE FlushSends
  <2>1. /\ Head(flush.todo) \in Channels
        /\ Tail(flush.todo) \in Seq(Channels)
    BY <1>4 DEF FlushSends, HubTypeOK
  <2>2. now' \in Nat /\ flush.frame \in Nat
    BY <1>4 DEF FlushSends, HubTypeOK
  <2>3. Enriched(Head(flush.todo), flush.frame, 1) \in Broadcast
    BY <2>1, <2>2, EnrichedType
  <2>4. flush' \in [todo : Seq(Channels), frame : Nat]
    BY <1>4, <2>1 DEF FlushSends, HubTypeOK
  <2>5. tasks' \subseteq Broadcast
    BY <1>4, <2>3 DEF FlushSends, HubTypeOK
  <2> QED
    BY <1>4, <2>2, <2>4, <2>5 DEF FlushSends, HubTypeOK
<1>5. CASE StoreLast
  <2> PICK t \in {u \in tasks : ~u.stored} :
           /\ last' = [last EXCEPT ![t.channel] = t.msg]
           /\ tasks' = (tasks \ {t}) \union {[t EXCEPT !.stored = TRUE]}
           /\ UNCHANGED <<now, sequence, frames, latest, signature, flush, page, mishaps>>
    BY <1>5 DEF StoreLast
  <2>1. t \in Broadcast
    BY DEF HubTypeOK
  <2>2. [t EXCEPT !.stored = TRUE] \in Broadcast /\ t.msg \in Msg /\ t.channel \in Channels
    BY <2>1 DEF Broadcast
  <2> QED
    BY <2>2 DEF HubTypeOK
<1>6. CASE SendToClients
  <2> PICK t \in {u \in tasks : u.stored} :
           /\ tasks' = tasks \ {t}
           /\ page' = page \/ page' = [page EXCEPT !.queue = Queued(@, t.msg)]
           /\ UNCHANGED <<now, sequence, frames, latest, signature, flush, last>>
    BY <1>6 DEF SendToClients
  <2>1. t.msg \in Msg
    BY DEF HubTypeOK, Broadcast
  <2>2. page.queue \in Seq(Msg)
    BY DEF HubTypeOK
  <2>3. Len(page.queue) >= ClientMax => Tail(page.queue) \in Seq(Msg)
    BY <2>2, HubAssumption
  <2>4. Queued(page.queue, t.msg) \in Seq(Msg)
    BY <2>1, <2>2, <2>3 DEF Queued
  <2> QED
    BY <2>4 DEF HubTypeOK
<1>0. <<>> \in Seq(Msg) /\ <<>> \in Seq(Channels)
  OBVIOUS
<1>7. CASE ClientConnects
  BY <1>0, <1>7 DEF ClientConnects, HubTypeOK
<1>8. CASE ReplayLast
  <2>1. Remembered("subtitle") \in Seq(Msg) /\ Remembered("overlay") \in Seq(Msg)
    BY DEF Remembered, HubTypeOK, Channels
  <2>2. page.queue \o (Remembered("subtitle") \o Remembered("overlay")) \in Seq(Msg)
    BY <2>1 DEF HubTypeOK
  <2> QED
    BY <1>8, <2>2 DEF ReplayLast, HubTypeOK
<1>9. CASE PageReceives
  <2>1. Head(page.queue) \in Msg /\ Tail(page.queue) \in Seq(Msg)
    BY <1>9 DEF PageReceives, HubTypeOK
  <2> QED
    BY <1>9, <2>1 DEF PageReceives, HubTypeOK, Msg
<1>10. CASE PageDisconnects
  BY <1>0, <1>10 DEF PageDisconnects, HubTypeOK
<1>11. CASE PageReloads
  BY <1>0, <1>11 DEF PageReloads, HubTypeOK, NewPage
<1>12. CASE ServerRestarts
  <2>1. Unsent \in Msg
    BY DEF Unsent, Msg
  <2>2. NoFlush \in [todo : Seq(Channels), frame : Nat]
    BY <1>0 DEF NoFlush
  <2>3. page' \in [link : {"down", "new", "live"}, queue : Seq(Msg), seq : Nat, at : Nat,
                   shown : Nat, top : Nat]
    <3> PICK shown \in {page.shown, 0} :
             page' = [page EXCEPT !.link = "down", !.queue = <<>>, !.shown = shown]
      BY <1>12 DEF ServerRestarts
    <3>1. shown \in Nat
      BY DEF HubTypeOK
    <3> QED
      BY <1>0, <3>1 DEF HubTypeOK
  <2>4. last' \in [Channels -> Msg]
    BY <1>12, <2>1 DEF ServerRestarts
  <2>5. /\ now' \in Nat /\ sequence' \in Nat /\ frames' \in Nat /\ latest' \in Nat
        /\ tasks' \subseteq Broadcast /\ flush' = NoFlush
    BY <1>12 DEF ServerRestarts, HubTypeOK
  <2> QED
    BY <2>2, <2>3, <2>4, <2>5 DEF HubTypeOK
<1>13. CASE ClockSteppedBack
  BY <1>13 DEF ClockSteppedBack, HubTypeOK
<1>14. CASE UNCHANGED hubVars
  BY <1>14 DEF hubVars, HubTypeOK
<1> QED
  BY <1>1, <1>2, <1>3, <1>4, <1>5, <1>6, <1>7, <1>8, <1>9, <1>10, <1>11, <1>12, <1>13, <1>14
     DEF HubNext

-----------------------------------------------------------------------------
(* The messages under way *)

\* Every message under way is one.
LEMMA MsgsType == HubTypeOK => Msgs \subseteq Msg
  BY DEF HubTypeOK, Msgs, Broadcast

\* Messages of a longer queue, and of a shorter one.
LEMMA TailMsgs ==
  ASSUME NEW q \in Seq(Msg), q # <<>>
  PROVE  \A i \in DOMAIN Tail(q) : i + 1 \in DOMAIN q /\ Tail(q)[i] = q[i + 1]
  OBVIOUS

\* Where the elements of three sequences are in their concatenation.
LEMMA ConcatElements ==
  ASSUME NEW q \in Seq(Msg), NEW s \in Seq(Msg), NEW o \in Seq(Msg)
  PROVE  /\ \A i \in DOMAIN s : /\ Len(q) + i \in DOMAIN (q \o (s \o o))
                                /\ (q \o (s \o o))[Len(q) + i] = s[i]
         /\ \A i \in DOMAIN o : /\ Len(q) + Len(s) + i \in DOMAIN (q \o (s \o o))
                                /\ (q \o (s \o o))[Len(q) + Len(s) + i] = o[i]
<1> DEFINE r == s \o o
<1>1. r \in Seq(Msg) /\ Len(r) = Len(s) + Len(o)
  OBVIOUS
<1>2. \A i \in DOMAIN s : i \in DOMAIN r /\ r[i] = s[i]
  OBVIOUS
<1>3. \A i \in DOMAIN o : Len(s) + i \in DOMAIN r /\ r[Len(s) + i] = o[i]
  OBVIOUS
<1> HIDE DEF r
<1>4. \A j \in DOMAIN r : Len(q) + j \in DOMAIN (q \o r) /\ (q \o r)[Len(q) + j] = r[j]
  BY <1>1
<1>5. \A i \in DOMAIN o : Len(q) + (Len(s) + i) = Len(q) + Len(s) + i
  OBVIOUS
<1> QED
  BY <1>2, <1>3, <1>4, <1>5 DEF r

\* The steps that publish nothing add no message.
LEMMA NoNewMessage ==
  ASSUME HubTypeOK,
         \/ FlushBegins \/ StoreLast \/ SendToClients \/ ClientConnects \/ ReplayLast
         \/ PageReceives \/ PageDisconnects \/ PageReloads \/ ServerRestarts
         \/ ClockSteppedBack \/ UNCHANGED hubVars
  PROVE  Msgs' \subseteq Msgs
<1>1. CASE FlushBegins \/ ClockSteppedBack \/ UNCHANGED hubVars
  BY <1>1 DEF FlushBegins, ClockSteppedBack, hubVars, Msgs
<1>2. CASE StoreLast
  <2> PICK t \in {u \in tasks : ~u.stored} :
           /\ last' = [last EXCEPT ![t.channel] = t.msg]
           /\ tasks' = (tasks \ {t}) \union {[t EXCEPT !.stored = TRUE]}
           /\ page' = page
    BY <1>2 DEF StoreLast
  <2>1. t \in Broadcast
    BY DEF HubTypeOK
  <2>2. [t EXCEPT !.stored = TRUE].msg = t.msg
    BY <2>1 DEF Broadcast
  <2>3. \A u \in tasks' : u.msg \in Msgs
    BY <2>2 DEF Msgs
  <2>4. \A c \in Channels : last'[c] \in Msgs \/ last'[c] = Unsent
    BY DEF Msgs, HubTypeOK
  <2>5. \A i \in DOMAIN page.queue : page.queue[i] \in Msgs
    BY DEF Msgs
  <2> QED
    BY <2>3, <2>4, <2>5 DEF Msgs
<1>3. CASE SendToClients
  <2> PICK t \in {u \in tasks : u.stored} :
           /\ tasks' = tasks \ {t} /\ last' = last
           /\ page' = page \/ page' = [page EXCEPT !.queue = Queued(@, t.msg)]
    BY <1>3 DEF SendToClients
  <2>1. t.msg \in Msg /\ t.msg \in Msgs /\ page.queue \in Seq(Msg)
    BY DEF HubTypeOK, Broadcast, Msgs
  <2>2. \A i \in DOMAIN page.queue : page.queue[i] \in Msgs
    BY DEF Msgs
  <2>3. \A i \in DOMAIN Queued(page.queue, t.msg) : Queued(page.queue, t.msg)[i] \in Msgs
    <3>1. CASE Len(page.queue) >= ClientMax
      <4>1. page.queue # <<>>
        BY <2>1, <3>1, HubAssumption
      <4>2. Tail(page.queue) \in Seq(Msg)
        BY <2>1, <4>1
      <4>3. \A i \in DOMAIN Tail(page.queue) : Tail(page.queue)[i] \in Msgs
        BY <2>1, <2>2, <4>1, TailMsgs
      <4> QED
        BY <2>1, <3>1, <4>2, <4>3 DEF Queued
    <3>2. CASE ~(Len(page.queue) >= ClientMax)
      BY <2>1, <2>2, <3>2 DEF Queued
    <3> QED
      BY <3>1, <3>2
  <2>4. \A i \in DOMAIN page'.queue : page'.queue[i] \in Msgs
    BY <2>2, <2>3 DEF HubTypeOK
  <2>5. \A u \in tasks' : u.msg \in Msgs
    BY DEF Msgs
  <2>6. \A c \in Channels : last'[c] \in Msgs \/ last'[c] = Unsent
    BY DEF Msgs
  <2> QED
    BY <2>4, <2>5, <2>6 DEF Msgs
<1>4. CASE ReplayLast
  <2> DEFINE missed == Remembered("subtitle") \o Remembered("overlay")
  <2>1. Remembered("subtitle") \in Seq(Msg) /\ Remembered("overlay") \in Seq(Msg)
    BY DEF Remembered, HubTypeOK, Channels
  <2>2. \A i \in DOMAIN Remembered("subtitle") : Remembered("subtitle")[i] \in Msgs
    BY DEF Remembered, Msgs, Channels
  <2>3. \A i \in DOMAIN Remembered("overlay") : Remembered("overlay")[i] \in Msgs
    BY DEF Remembered, Msgs, Channels
  <2>4. missed \in Seq(Msg) /\ \A i \in DOMAIN missed : missed[i] \in Msgs
    BY <2>1, <2>2, <2>3
  <2>5. page.queue \in Seq(Msg) /\ \A i \in DOMAIN page.queue : page.queue[i] \in Msgs
    BY DEF Msgs, HubTypeOK
  <2>6. page'.queue = page.queue \o missed
    BY <1>4 DEF ReplayLast, HubTypeOK
  <2> HIDE DEF missed
  <2>7. \A i \in DOMAIN page'.queue : page'.queue[i] \in Msgs
    BY <2>4, <2>5, <2>6
  <2> QED
    BY <1>4, <2>7 DEF ReplayLast, Msgs
<1>5. CASE PageReceives
  <2>1. page.queue \in Seq(Msg) /\ page.queue # <<>> /\ page'.queue = Tail(page.queue)
    BY <1>5 DEF PageReceives, HubTypeOK
  <2>2. \A i \in DOMAIN page'.queue : page'.queue[i] \in Msgs
    BY <2>1, TailMsgs DEF Msgs
  <2> QED
    BY <1>5, <2>2 DEF PageReceives, Msgs
<1>6. CASE ClientConnects \/ PageDisconnects \/ PageReloads \/ ServerRestarts
  <2>1. page'.queue = <<>>
    <3>1. CASE ClientConnects \/ PageDisconnects
      BY <3>1 DEF ClientConnects, PageDisconnects, HubTypeOK
    <3>2. CASE PageReloads
      BY <3>2 DEF PageReloads, NewPage
    <3>3. CASE ServerRestarts
      <4>1. PICK shown : page' = [page EXCEPT !.link = "down", !.queue = <<>>, !.shown = shown]
        BY <3>3 DEF ServerRestarts
      <4> QED
        BY <4>1 DEF HubTypeOK
    <3> QED
      BY <1>6, <3>1, <3>2, <3>3
  <2>2. tasks' \subseteq tasks /\ \A c \in Channels : last'[c] = last[c] \/ last'[c] = Unsent
    BY <1>6 DEF ClientConnects, PageDisconnects, PageReloads, ServerRestarts
  <2> QED
    BY <2>1, <2>2 DEF Msgs
<1> QED
  BY <1>1, <1>2, <1>3, <1>4, <1>5, <1>6

\* A restart leaves no message.
LEMMA RestartEmpties ==
  ASSUME HubTypeOK, ServerRestarts
  PROVE  Msgs' = {}
<1>1. tasks' = {} /\ \A c \in Channels : last'[c] = Unsent
  BY DEF ServerRestarts
<1>2. PICK shown : page' = [page EXCEPT !.link = "down", !.queue = <<>>, !.shown = shown]
  BY DEF ServerRestarts
<1>3. page'.queue = <<>>
  BY <1>2 DEF HubTypeOK
<1> QED
  BY <1>1, <1>3 DEF Msgs

\* What a publication adds is of its frame, of the present time, and numbered next.
LEMMA PublishedMessages ==
  ASSUME HubTypeOK, NEW f \in Nat, NEW r, now' \in Nat, Publish(f, r),
         last' = last, page' = page
  PROVE  /\ \A m \in Msgs' :
              \/ m \in Msgs
              \/ m.frame = f /\ m.at = now' /\ m.seq > sequence /\ m.seq <= sequence'
         /\ \E t \in tasks' : ~t.stored /\ t.msg.frame = f
         /\ tasks \subseteq tasks'
         /\ sequence' > sequence
<1> DEFINE one == Enriched("overlay", f, 1)
           two == Enriched("subtitle", f, 2)
           only == Enriched("subtitle", f, 1)
<1>1. /\ one.msg.frame = f /\ one.msg.at = now' /\ one.msg.seq = sequence + 1 /\ ~one.stored
      /\ two.msg.frame = f /\ two.msg.at = now' /\ two.msg.seq = sequence + 2 /\ ~two.stored
      /\ only.msg.frame = f /\ only.msg.at = now' /\ only.msg.seq = sequence + 1 /\ ~only.stored
  BY DEF Enriched
<1>2. sequence \in Nat
  BY DEF HubTypeOK
<1>3. \/ tasks' = tasks \union {one, two} /\ sequence' = sequence + 2
      \/ tasks' = tasks \union {only} /\ sequence' = sequence + 1
  BY DEF Publish
<1> HIDE DEF one, two, only
<1>4. \A t \in tasks' :
        \/ t \in tasks
        \/ /\ t.msg.frame = f /\ t.msg.at = now'
           /\ t.msg.seq > sequence /\ t.msg.seq <= sequence'
  BY <1>1, <1>2, <1>3
<1>5. \E t \in tasks' : ~t.stored /\ t.msg.frame = f
  BY <1>1, <1>3
<1>6. ASSUME NEW m \in Msgs', m \notin Msgs
      PROVE  m.frame = f /\ m.at = now' /\ m.seq > sequence /\ m.seq <= sequence'
  <2>1. PICK t \in tasks' : t.msg = m
    BY <1>6 DEF Msgs
  <2>2. t \notin tasks
    BY <1>6, <2>1 DEF Msgs
  <2> QED
    BY <1>4, <2>1, <2>2
<1>7. tasks \subseteq tasks' /\ sequence' > sequence
  BY <1>2, <1>3
<1> QED
  BY <1>5, <1>6, <1>7

-----------------------------------------------------------------------------
(* The stale guard *)

SameGuard ==
  page'.seq = page.seq /\ page'.at = page.at /\ page'.shown = page.shown /\ page'.top = page.top

\* A page that takes no message keeps its invariant while none is added.
LEMMA GuardStays ==
  ASSUME HubTypeOK, PageInv, BoundInv, OrderInv, Msgs' \subseteq Msgs, SameGuard,
         UNCHANGED <<now, sequence, frames, latest>>
  PROVE  PageInv' /\ BoundInv' /\ OrderInv'
<1>1. BoundInv' /\ OrderInv'
  BY DEF BoundInv, OrderInv, NotAfter
<1>2. \A m \in Msgs : IsStale(m)' <=> IsStale(m)
  BY DEF IsStale, SameGuard
<1>3. GuardKeeps'
  BY <1>2 DEF PageInv, GuardKeeps, SameGuard, IsStale
<1> QED
  BY <1>1, <1>3 DEF PageInv, SameGuard

\* Nor does a publication disturb the invariant, if its frame is at least the latest.
LEMMA GuardAdmitsNewer ==
  ASSUME HubTypeOK, HubTypeOK', PageInv, BoundInv, OrderInv, page' = page,
         NEW f \in Nat, f >= latest, f >= page.top, f >= 1, latest' = f, f <= frames',
         frames <= frames', now <= now', sequence < sequence',
         \A m \in Msgs' :
           \/ m \in Msgs
           \/ m.frame = f /\ m.at = now' /\ m.seq > sequence /\ m.seq <= sequence'
  PROVE  PageInv' /\ BoundInv' /\ OrderInv'
<1>0. /\ Msgs \subseteq Msg /\ Msgs' \subseteq Msg
      /\ now \in Nat /\ now' \in Nat /\ sequence \in Nat /\ sequence' \in Nat /\ latest \in Nat
      /\ frames \in Nat /\ frames' \in Nat
      /\ page.seq \in Nat /\ page.at \in Nat /\ page.top \in Nat /\ page.shown \in Nat
  <2>1. Msgs \subseteq Msg /\ Msgs' \subseteq Msg
    BY MsgsType DEF Msgs, HubTypeOK, Broadcast
  <2> QED
    BY <2>1 DEF HubTypeOK
<1>1. \A m \in Msgs' : m.at \in Nat /\ m.seq \in Nat /\ m.frame \in Nat
  BY <1>0 DEF Msg
<1>2. BoundInv'
  BY <1>0, <1>1 DEF BoundInv
<1>3. ASSUME NEW m \in Msgs', NEW n \in Msgs', NotAfter(m, n) \/ m.seq <= n.seq
      PROVE  m.frame <= n.frame
  <2>1. CASE m \in Msgs /\ n \in Msgs
    BY <1>3, <2>1 DEF OrderInv
  <2>2. CASE n \notin Msgs
    <3>1. n.frame = f
      BY <2>2
    <3>2. m.frame <= f
      BY <1>0, <1>1 DEF BoundInv
    <3> QED
      BY <3>1, <3>2
  <2>3. CASE n \in Msgs /\ m \notin Msgs
    <3>1. m.at = now' /\ m.seq > sequence
      BY <2>3
    <3>2. n.at <= now /\ n.seq <= sequence
      BY <2>3 DEF BoundInv
    <3> QED
      BY <1>0, <1>1, <1>3, <3>1, <3>2 DEF NotAfter
  <2> QED
    BY <2>1, <2>2, <2>3
<1>4. OrderInv'
  BY <1>3 DEF OrderInv, NotAfter
<1>5. ASSUME NEW m \in Msgs'
      PROVE  /\ m.at < page.at \/ (m.at = page.at /\ m.seq < page.seq) => m.frame <= page.shown
             /\ ~(m.at < page.at \/ (m.at = page.at /\ m.seq < page.seq)) => page.top <= m.frame
  <2>1. CASE m \in Msgs
    BY <2>1 DEF PageInv, GuardKeeps, IsStale
  <2>2. CASE m \notin Msgs
    <3>1. m.frame = f /\ m.at = now' /\ m.seq > sequence
      BY <2>2
    <3>2. page.at < now \/ (page.at = now /\ page.seq <= sequence)
      BY DEF PageInv
    <3> QED
      BY <1>0, <1>1, <3>1, <3>2
  <2> QED
    BY <2>1, <2>2
<1>6. GuardKeeps'
  BY <1>5 DEF GuardKeeps, IsStale
<1> QED
  BY <1>0, <1>2, <1>4, <1>6 DEF PageInv

\* The invariant holds at the start.
LEMMA HubInvInit == HubInit => HubInv
<1> SUFFICES ASSUME HubInit PROVE HubInv
  OBVIOUS
<1>1. page.queue = <<>> /\ page.at = 0 /\ page.shown = 0 /\ page.top = 0
  BY DEF HubInit, NewPage, OldPage
<1>2. Msgs = {}
  BY <1>1 DEF HubInit, Msgs
<1> QED
  BY <1>1, <1>2
     DEF HubInit, HubInv, FlushInv, BoundInv, OrderInv, PageInv, GuardKeeps, NoFlush

\* Every step keeps the invariant.
LEMMA HubInvStep == HubTypeOK /\ HubTypeOK' /\ HubInv /\ [HubNext]_hubVars => HubInv'
<1> SUFFICES ASSUME HubTypeOK, HubTypeOK', HubInv, [HubNext]_hubVars, Trusted'
             PROVE  (FlushInv /\ BoundInv /\ OrderInv /\ PageInv)'
  BY DEF HubInv
<1>0. Trusted
  BY DEF Trusted, HubNext, PublishFrame, PublishAgain, Publish, FlushBegins, FlushSends, StoreLast,
         SendToClients, ClientConnects, ReplayLast, PageReceives, PageDisconnects, PageReloads,
         ServerRestarts, ClockSteppedBack, hubVars
<1> FlushInv /\ BoundInv /\ OrderInv /\ PageInv
  BY <1>0 DEF HubInv
<1> /\ now \in Nat /\ sequence \in Nat /\ frames \in Nat /\ latest \in Nat
    /\ page.top \in Nat /\ page.shown \in Nat /\ page.at \in Nat /\ page.seq \in Nat
  BY DEF HubTypeOK
<1>1. CASE PublishFrame
  <2>1. /\ Publish(frames + 1, FALSE) /\ frames' = frames + 1 /\ now <= now' /\ now' \in Nat
        /\ last' = last /\ page' = page /\ flush' = flush /\ latest' = frames + 1
    BY <1>1 DEF PublishFrame, Publish
  <2>2. frames + 1 \in Nat
    OBVIOUS
  <2>3. /\ \A m \in Msgs' :
             \/ m \in Msgs
             \/ m.frame = frames + 1 /\ m.at = now' /\ m.seq > sequence /\ m.seq <= sequence'
        /\ sequence' > sequence
    BY <2>1, <2>2, PublishedMessages
  <2>4. /\ frames + 1 >= latest /\ frames + 1 >= page.top /\ frames + 1 >= 1
        /\ frames + 1 <= frames' /\ frames <= frames' /\ sequence < sequence'
    BY <2>1, <2>3 DEF BoundInv, PageInv, HubTypeOK
  <2>5. (PageInv /\ BoundInv /\ OrderInv)'
    BY <2>1, <2>2, <2>3, <2>4, GuardAdmitsNewer
  <2>6. flush.todo = <<>>
    BY <1>1 DEF PublishFrame, Publish, Trusted
  <2> QED
    BY <2>1, <2>5, <2>6 DEF FlushInv
<1>2. CASE PublishAgain
  <2>1. /\ Publish(latest, TRUE) /\ frames' = frames /\ now' = now /\ latest # 0
        /\ last' = last /\ page' = page /\ flush' = flush /\ latest' = latest
    BY <1>2 DEF PublishAgain, Publish
  <2>2. /\ \A m \in Msgs' :
             \/ m \in Msgs
             \/ m.frame = latest /\ m.at = now' /\ m.seq > sequence /\ m.seq <= sequence'
        /\ sequence' > sequence
    BY <2>1, PublishedMessages
  <2>3. /\ latest >= latest /\ latest >= page.top /\ latest >= 1 /\ latest <= frames'
        /\ frames <= frames' /\ now <= now' /\ sequence < sequence'
    BY <2>1, <2>2 DEF BoundInv, PageInv, HubTypeOK
  <2>4. (PageInv /\ BoundInv /\ OrderInv)'
    BY <2>1, <2>2, <2>3, GuardAdmitsNewer
  <2> QED
    BY <2>1, <2>4 DEF FlushInv
<1>3. CASE FlushSends
  <2>1. /\ frames' = frames /\ now' = now /\ last' = last /\ page' = page /\ latest' = latest
        /\ tasks' = tasks \union {Enriched(Head(flush.todo), flush.frame, 1)}
        /\ sequence' = sequence + 1 /\ flush'.frame = flush.frame
        /\ flush.frame = latest /\ latest # 0
    BY <1>3 DEF FlushSends, FlushInv, HubTypeOK
  <2>2. PICK b : b = Enriched(Head(flush.todo), flush.frame, 1)
    OBVIOUS
  <2>3. b.msg.frame = latest /\ b.msg.at = now' /\ b.msg.seq = sequence + 1
    BY <2>1, <2>2 DEF Enriched
  <2>4. \A m \in Msgs' :
          \/ m \in Msgs
          \/ m.frame = latest /\ m.at = now' /\ m.seq > sequence /\ m.seq <= sequence'
    <3> SUFFICES ASSUME NEW m \in Msgs', m \notin Msgs PROVE m = b.msg
      BY <2>1, <2>3
    <3> QED
      BY <2>1, <2>2 DEF Msgs
  <2>5. /\ latest >= latest /\ latest >= page.top /\ latest >= 1 /\ latest <= frames'
        /\ frames <= frames' /\ now <= now' /\ sequence < sequence'
    BY <2>1 DEF BoundInv, PageInv, HubTypeOK
  <2>6. (PageInv /\ BoundInv /\ OrderInv)'
    BY <2>1, <2>4, <2>5, GuardAdmitsNewer
  <2> QED
    BY <2>1, <2>6 DEF FlushInv
<1>4. CASE FlushBegins
  <2>1. Msgs' \subseteq Msgs
    BY <1>4, NoNewMessage
  <2>2. (PageInv /\ BoundInv /\ OrderInv)'
    BY <1>4, <2>1, GuardStays DEF FlushBegins, SameGuard
  <2> QED
    BY <1>4, <2>2 DEF FlushBegins, FlushInv
<1>5. CASE StoreLast \/ SendToClients \/ ClientConnects \/ ReplayLast \/ PageDisconnects
           \/ UNCHANGED hubVars
  <2>1. Msgs' \subseteq Msgs
    BY <1>5, NoNewMessage
  <2>2. SameGuard
    BY <1>5 DEF StoreLast, SendToClients, ClientConnects, ReplayLast, PageDisconnects, hubVars,
               HubTypeOK, SameGuard
  <2>3. UNCHANGED <<now, sequence, frames, latest, flush>>
    BY <1>5 DEF StoreLast, SendToClients, ClientConnects, ReplayLast, PageDisconnects, hubVars
  <2>4. (PageInv /\ BoundInv /\ OrderInv)'
    BY <2>1, <2>2, <2>3, GuardStays
  <2> QED
    BY <2>3, <2>4 DEF FlushInv
<1>6. CASE PageReceives
  <2> DEFINE msg == Head(page.queue)
  <2>1. Msgs' \subseteq Msgs
    BY <1>6, NoNewMessage
  <2>2. UNCHANGED <<now, sequence, frames, latest, flush>>
    BY <1>6 DEF PageReceives
  <2>3. msg \in Msgs /\ msg \in Msg
    <3>1. page.queue \in Seq(Msg) /\ page.queue # <<>>
      BY <1>6 DEF PageReceives, HubTypeOK
    <3>2. 1 \in DOMAIN page.queue /\ msg = page.queue[1]
      BY <3>1
    <3> QED
      BY <3>1, <3>2 DEF Msgs
  <2>4. CASE IsStale(msg)
    <3>1. SameGuard
      BY <1>6, <2>4 DEF PageReceives, SameGuard, HubTypeOK
    <3>2. (PageInv /\ BoundInv /\ OrderInv)'
      BY <2>1, <2>2, <3>1, GuardStays
    <3> QED
      BY <2>2, <3>2 DEF FlushInv
  <2>5. CASE ~IsStale(msg)
    <3>1. page.top <= msg.frame
      BY <2>3, <2>5 DEF PageInv, GuardKeeps
    <3>2. /\ page'.seq = msg.seq /\ page'.at = msg.at /\ page'.shown = msg.frame
          /\ page'.top = IF msg.frame > page.top THEN msg.frame ELSE page.top
      BY <1>6, <2>5 DEF PageReceives, HubTypeOK
    <3>3. msg.seq \in Nat /\ msg.at \in Nat /\ msg.frame \in Nat
      BY <2>3 DEF Msg
    <3>4. page'.top = msg.frame
      BY <3>1, <3>2, <3>3
    <3>5. BoundInv' /\ OrderInv'
      BY <2>1, <2>2 DEF BoundInv, OrderInv, NotAfter
    <3>6. msg.at <= now /\ msg.seq <= sequence /\ msg.frame <= latest /\ latest <= frames
      BY <2>3 DEF BoundInv
    <3> HIDE DEF msg
    <3>7. ASSUME NEW m \in Msgs'
          PROVE  /\ m.at < msg.at \/ (m.at = msg.at /\ m.seq < msg.seq) => m.frame <= msg.frame
                 /\ ~(m.at < msg.at \/ (m.at = msg.at /\ m.seq < msg.seq)) => msg.frame <= m.frame
      <4>1. m \in Msgs /\ m \in Msg
        BY <2>1, MsgsType
      <4>2. m.seq \in Nat /\ m.at \in Nat /\ m.frame \in Nat
        BY <4>1 DEF Msg
      <4>3. m.at < msg.at \/ (m.at = msg.at /\ m.seq < msg.seq) => NotAfter(m, msg)
        BY <3>3, <4>2 DEF NotAfter
      <4>4. ~(m.at < msg.at \/ (m.at = msg.at /\ m.seq < msg.seq)) => NotAfter(msg, m)
        BY <3>3, <4>2 DEF NotAfter
      <4> QED
        BY <2>3, <4>1, <4>3, <4>4 DEF OrderInv
    <3>8. GuardKeeps'
      BY <3>2, <3>4, <3>7 DEF GuardKeeps, IsStale
    <3>9. PageInv'
      BY <2>2, <3>2, <3>3, <3>4, <3>6, <3>8 DEF PageInv
    <3> QED
      BY <2>2, <3>5, <3>9 DEF FlushInv
  <2> QED
    BY <2>4, <2>5
<1>7. CASE PageReloads
  <2>1. Msgs' \subseteq Msgs
    BY <1>7, NoNewMessage
  <2>2. UNCHANGED <<now, sequence, frames, latest, flush>> /\ page' = NewPage
    BY <1>7 DEF PageReloads
  <2>3. page'.at = 0 /\ page'.seq = 0 /\ page'.shown = 0 /\ page'.top = 0
    BY <2>2 DEF NewPage
  <2>4. \A m \in Msgs' : m.at \in Nat /\ m.seq \in Nat /\ m.frame \in Nat
    BY <2>1, MsgsType DEF Msg
  <2>5. GuardKeeps'
    BY <2>3, <2>4 DEF GuardKeeps, IsStale
  <2>6. page.at <= now /\ 0 <= sequence
    BY DEF PageInv
  <2>7. PageInv'
    BY <2>2, <2>3, <2>5, <2>6 DEF PageInv
  <2>8. BoundInv' /\ OrderInv'
    BY <2>1, <2>2 DEF BoundInv, OrderInv, NotAfter
  <2> QED
    BY <2>2, <2>7, <2>8 DEF FlushInv
<1>8. CASE ServerRestarts
  <2>1. Msgs' = {}
    BY <1>8, RestartEmpties
  <2>2. /\ now' = now + 1 /\ frames' = frames /\ latest' = 0 /\ flush' = NoFlush
    BY <1>8 DEF ServerRestarts
  <2>3. PICK shown \in {page.shown, 0} :
          page' = [page EXCEPT !.link = "down", !.queue = <<>>, !.shown = shown]
    BY <1>8 DEF ServerRestarts
  <2>4. page'.top = page.top /\ page'.at = page.at /\ page'.shown = shown
    BY <2>3 DEF HubTypeOK
  <2>5. PageInv'
    BY <2>1, <2>2, <2>3, <2>4 DEF PageInv, GuardKeeps
  <2> QED
    BY <2>1, <2>2, <2>5 DEF FlushInv, BoundInv, OrderInv, NoFlush
<1>9. CASE ClockSteppedBack
  BY <1>9 DEF ClockSteppedBack, Trusted
<1> QED
  BY <1>1, <1>2, <1>3, <1>4, <1>5, <1>6, <1>7, <1>8, <1>9 DEF HubNext

\* A page never goes back to a frame older than one it showed, in whatever order the broadcasts
\* and the replay arrive, for any number of frames, broadcasts, reconnections and restarts.
THEOREM OverlayNeverGoesBack == HubSpec => []NeverBackToOlderFrame
<1>1. HubInit => HubTypeOK /\ HubInv
  BY HubTypeInit, HubInvInit
<1>2. HubTypeOK /\ HubInv /\ [HubNext]_hubVars => (HubTypeOK /\ HubInv)'
  BY HubTypeStep, HubInvStep
<1>3. HubInv => NeverBackToOlderFrame
  BY DEF HubInv, Trusted, PageInv, NeverBackToOlderFrame
<1> QED
  BY <1>1, <1>2, <1>3, PTL DEF HubSpec

-----------------------------------------------------------------------------
(* The latest frame is on its way, or there *)

\* A page that connects now will be told, by what is remembered or by a task still to be stored.
KeptForOthers ==
  latest # 0 => \/ \E c \in Channels : last[c].frame = latest
                \/ \E t \in tasks : ~t.stored /\ t.msg.frame = latest

\* A live page shows the latest frame, or it is in its queue or in a task.
OnItsWay ==
  latest # 0 /\ page.link = "live" =>
    \/ page.shown = latest
    \/ \E t \in tasks : t.msg.frame = latest
    \/ \E i \in DOMAIN page.queue : page.queue[i].frame = latest

ReachInv == blamed = {} => KeptForOthers /\ OnItsWay

\* It is so at the start.
LEMMA ReachInit == HubInit => ReachInv
  BY DEF HubInit, ReachInv, KeptForOthers, OnItsWay

\* A message of the latest frame that is stored over a newer one of its channel leaves the
\* latest frame on the other, or somebody is to blame.
LEMMA StoreKeepsLatest ==
  ASSUME HubTypeOK, BoundInv, OrderInv, KeptForOthers, StoreLast, blamed' = {}
  PROVE  KeptForOthers'
<1> SUFFICES ASSUME latest # 0 PROVE KeptForOthers'
  BY DEF StoreLast, KeptForOthers
<1> PICK t \in {u \in tasks : ~u.stored} :
         /\ last' = [last EXCEPT ![t.channel] = t.msg]
         /\ tasks' = (tasks \ {t}) \union {[t EXCEPT !.stored = TRUE]}
         /\ latest' = latest
         /\ t.msg.seq < last[t.channel].seq => \E c \in Channels : last'[c].frame = latest
  BY DEF StoreLast
<1>1. t \in Broadcast /\ t.channel \in Channels /\ t.msg \in Msgs /\ t.msg \in Msg
  BY DEF HubTypeOK, Broadcast, Msgs
<1>2. CASE \E u \in tasks : u # t /\ ~u.stored /\ u.msg.frame = latest
  BY <1>2 DEF KeptForOthers
<1>3. CASE t.msg.frame = latest
  BY <1>1, <1>3 DEF KeptForOthers, HubTypeOK
<1>4. CASE \E c \in Channels : c # t.channel /\ last[c].frame = latest
  BY <1>1, <1>4 DEF KeptForOthers, HubTypeOK
<1>5. CASE last[t.channel].frame = latest /\ t.msg.frame # latest
  <2>1. last[t.channel] # Unsent /\ last[t.channel] \in Msg
    BY <1>1, <1>5 DEF Unsent, HubTypeOK
  <2>2. last[t.channel] \in Msgs
    BY <1>1, <2>1 DEF Msgs
  <2>3. t.msg.frame <= latest /\ t.msg.frame \in Nat /\ latest \in Nat
    BY <1>1 DEF BoundInv, HubTypeOK, Msg
  <2>4. ~(last[t.channel].seq <= t.msg.seq)
    BY <1>1, <1>5, <2>2, <2>3 DEF OrderInv
  <2>5. t.msg.seq < last[t.channel].seq
    BY <1>1, <2>1, <2>4 DEF Msg
  <2> QED
    BY <2>5 DEF KeptForOthers
<1> QED
  BY <1>2, <1>3, <1>4, <1>5 DEF KeptForOthers

\* Every step keeps it so, unless somebody is to blame.
LEMMA ReachStep ==
  HubTypeOK /\ HubTypeOK' /\ HubInv /\ ReachInv /\ [HubNext]_hubVars => ReachInv'
<1> SUFFICES ASSUME HubTypeOK, HubTypeOK', HubInv, ReachInv, [HubNext]_hubVars, blamed' = {}
             PROVE  KeptForOthers' /\ OnItsWay'
  BY DEF ReachInv
<1>0. blamed = {}
  BY DEF HubNext, PublishFrame, PublishAgain, Publish, FlushBegins, FlushSends, StoreLast,
         SendToClients, ClientConnects, ReplayLast, PageReceives, PageDisconnects, PageReloads,
         ServerRestarts, ClockSteppedBack, hubVars
<1> FlushInv /\ BoundInv /\ OrderInv /\ PageInv /\ KeptForOthers /\ OnItsWay
  BY <1>0 DEF HubInv, ReachInv, Trusted
<1> /\ now \in Nat /\ sequence \in Nat /\ frames \in Nat /\ latest \in Nat
    /\ page.top \in Nat /\ page.shown \in Nat /\ page.at \in Nat /\ page.seq \in Nat
  BY DEF HubTypeOK
<1>1. CASE PublishFrame
  <2>1. /\ Publish(frames + 1, FALSE) /\ now' \in Nat
        /\ last' = last /\ page' = page /\ latest' = frames + 1
    BY <1>1 DEF PublishFrame, Publish, HubTypeOK
  <2>2. frames + 1 \in Nat
    OBVIOUS
  <2>3. \E t \in tasks' : ~t.stored /\ t.msg.frame = frames + 1
    BY <2>1, <2>2, PublishedMessages
  <2> QED
    BY <2>1, <2>3 DEF KeptForOthers, OnItsWay
<1>2. CASE PublishAgain
  <2>1. /\ Publish(latest, TRUE) /\ now' \in Nat
        /\ last' = last /\ page' = page /\ latest' = latest
    BY <1>2 DEF PublishAgain, Publish, HubTypeOK
  <2>2. \E t \in tasks' : ~t.stored /\ t.msg.frame = latest
    BY <2>1, PublishedMessages
  <2> QED
    BY <2>1, <2>2 DEF KeptForOthers, OnItsWay
<1>3. CASE FlushSends
  BY <1>3 DEF FlushSends, KeptForOthers, OnItsWay
<1>4. CASE FlushBegins \/ ClockSteppedBack \/ UNCHANGED hubVars
  BY <1>4 DEF FlushBegins, ClockSteppedBack, hubVars, KeptForOthers, OnItsWay
<1>5. CASE StoreLast
  <2>1. KeptForOthers'
    BY <1>5, StoreKeepsLatest
  <2> PICK t \in {u \in tasks : ~u.stored} :
           /\ tasks' = (tasks \ {t}) \union {[t EXCEPT !.stored = TRUE]}
           /\ latest' = latest /\ page' = page
    BY <1>5 DEF StoreLast
  <2>2. t \in Broadcast
    BY DEF HubTypeOK
  <2>3. [t EXCEPT !.stored = TRUE].msg = t.msg
    BY <2>2 DEF Broadcast
  <2>4. (\E u \in tasks : u.msg.frame = latest) => \E u \in tasks' : u.msg.frame = latest
    BY <2>3
  <2> QED
    BY <2>1, <2>4 DEF OnItsWay
<1>6. CASE SendToClients
  <2> PICK t \in {u \in tasks : u.stored} :
           /\ tasks' = tasks \ {t} /\ last' = last /\ latest' = latest
           /\ \/ page.link = "down" /\ page' = page
              \/ /\ page' = [page EXCEPT !.queue = Queued(@, t.msg)]
                 /\ ~(Len(page.queue) >= ClientMax)
    BY <1>6 DEF SendToClients
  <2>1. KeptForOthers'
    BY DEF KeptForOthers
  <2>2. CASE page.link = "down" /\ page' = page
    BY <2>1, <2>2 DEF OnItsWay
  <2>3. CASE page' = [page EXCEPT !.queue = Queued(@, t.msg)] /\ ~(Len(page.queue) >= ClientMax)
    <3>1. /\ page'.queue = Append(page.queue, t.msg)
          /\ page'.link = page.link /\ page'.shown = page.shown
          /\ page.queue \in Seq(Msg) /\ t.msg \in Msg
      BY <2>3 DEF Queued, HubTypeOK, Broadcast
    <3>2. \A i \in DOMAIN page.queue : i \in DOMAIN page'.queue /\ page'.queue[i] = page.queue[i]
      BY <3>1
    <3>3. /\ Len(page.queue) + 1 \in DOMAIN page'.queue
          /\ page'.queue[Len(page.queue) + 1] = t.msg
      BY <3>1
    <3> QED
      BY <2>1, <3>1, <3>2, <3>3 DEF OnItsWay
  <2> QED
    BY <2>1, <2>2, <2>3
<1>7. CASE ClientConnects
  BY <1>7 DEF ClientConnects, KeptForOthers, OnItsWay, HubTypeOK
<1>8. CASE ReplayLast
  <2>1. KeptForOthers'
    BY <1>8 DEF ReplayLast, KeptForOthers
  <2> DEFINE s == Remembered("subtitle")
             o == Remembered("overlay")
             q == page.queue
  <2>2. s \in Seq(Msg) /\ o \in Seq(Msg) /\ q \in Seq(Msg)
    BY DEF Remembered, HubTypeOK, Channels
  <2>3. page'.queue = q \o (s \o o) /\ latest' = latest /\ tasks' = tasks /\ last' = last
    BY <1>8 DEF ReplayLast, HubTypeOK
  <2>4. ASSUME NEW c \in Channels, last[c].frame = latest, latest # 0
        PROVE  \E i \in DOMAIN page'.queue : page'.queue[i].frame = latest
    <3>1. last[c] # Unsent
      BY <2>4 DEF Unsent
    <3>2. CASE c = "subtitle"
      <4>1. Len(s) = 1 /\ s[1] = last[c]
        BY <3>1, <3>2 DEF Remembered
      <4> HIDE DEF s, o, q
      <4>3. 1 \in DOMAIN s
        BY <2>2, <4>1
      <4>4. \A i \in DOMAIN s : /\ Len(q) + i \in DOMAIN (q \o (s \o o))
                               /\ (q \o (s \o o))[Len(q) + i] = s[i]
        BY <2>2, ConcatElements
      <4>2. /\ Len(q) + 1 \in DOMAIN (q \o (s \o o))
            /\ (q \o (s \o o))[Len(q) + 1] = last[c]
        BY <4>1, <4>3, <4>4
      <4> QED
        BY <2>3, <2>4, <4>2
    <3>3. CASE c = "overlay"
      <4>1. Len(o) = 1 /\ o[1] = last[c]
        BY <3>1, <3>3 DEF Remembered
      <4> HIDE DEF s, o, q
      <4>3. 1 \in DOMAIN o
        BY <2>2, <4>1
      <4>4. \A i \in DOMAIN o : /\ Len(q) + Len(s) + i \in DOMAIN (q \o (s \o o))
                               /\ (q \o (s \o o))[Len(q) + Len(s) + i] = o[i]
        BY <2>2, ConcatElements
      <4>2. /\ Len(q) + Len(s) + 1 \in DOMAIN (q \o (s \o o))
            /\ (q \o (s \o o))[Len(q) + Len(s) + 1] = last[c]
        BY <4>1, <4>3, <4>4
      <4> QED
        BY <2>3, <2>4, <4>2
    <3> QED
      BY <3>2, <3>3 DEF Channels
  <2> QED
    BY <2>1, <2>3, <2>4 DEF KeptForOthers, OnItsWay
<1>9. CASE PageReceives
  <2> DEFINE msg == Head(page.queue)
  <2>1. /\ page.queue \in Seq(Msg) /\ page.queue # <<>>
        /\ latest' = latest /\ tasks' = tasks /\ last' = last
    BY <1>9 DEF PageReceives, HubTypeOK
  <2>2. /\ page'.queue = Tail(page.queue) /\ page'.link = page.link
        /\ IsStale(msg) => page'.shown = page.shown
        /\ ~IsStale(msg) => page'.shown = msg.frame
    BY <1>9 DEF PageReceives, HubTypeOK
  <2>3. 1 \in DOMAIN page.queue /\ msg = page.queue[1] /\ msg \in Msgs /\ msg \in Msg
    <3>1. 1 \in DOMAIN page.queue /\ msg = page.queue[1]
      BY <2>1
    <3> QED
      BY <2>1, <3>1 DEF Msgs
  <2>4. KeptForOthers'
    BY <2>1 DEF KeptForOthers
  <2>5. msg.frame <= latest /\ msg.frame \in Nat
    BY <2>3 DEF BoundInv, Msg
  <2>6. latest # 0 => page.shown <= latest
    BY DEF PageInv
  <2>7. /\ IsStale(msg) => msg.frame <= page.shown
        /\ ~IsStale(msg) => page.shown <= msg.frame
    BY <2>3, <2>5 DEF PageInv, GuardKeeps
  <2> HIDE DEF msg
  <2>8. ASSUME latest # 0, page.shown = latest \/ msg.frame = latest
        PROVE  page'.shown = latest
    BY <2>2, <2>5, <2>6, <2>7, <2>8
  <2>9. ASSUME NEW i \in DOMAIN page.queue, i # 1
        PROVE  i - 1 \in DOMAIN page'.queue /\ page'.queue[i - 1] = page.queue[i]
    <3>1. i \in Nat /\ i >= 2 /\ i <= Len(page.queue)
      BY <2>1, <2>9
    <3>2. Len(Tail(page.queue)) = Len(page.queue) - 1
      BY <2>1
    <3>3. i - 1 \in DOMAIN Tail(page.queue) /\ Tail(page.queue)[i - 1] = page.queue[i]
      BY <2>1, <3>1, <3>2
    <3> QED
      BY <2>2, <3>3
  <2> QED
    BY <2>1, <2>2, <2>3, <2>4, <2>8, <2>9 DEF OnItsWay
<1>10. CASE PageDisconnects
  BY <1>10 DEF PageDisconnects, KeptForOthers, OnItsWay, HubTypeOK
<1>11. CASE PageReloads
  BY <1>11 DEF PageReloads, KeptForOthers, OnItsWay, NewPage
<1>12. CASE ServerRestarts
  BY <1>12 DEF ServerRestarts, KeptForOthers, OnItsWay
<1> QED
  BY <1>1, <1>2, <1>3, <1>4, <1>5, <1>6, <1>7, <1>8, <1>9, <1>10, <1>11, <1>12 DEF HubNext

\* When all is delivered a live page shows the latest frame, also one that connected in the middle
\* of a broadcast or to a restarted server.
THEOREM QuietOverlayIsCurrent == HubSpec => []QuietPageIsCurrent
<1>1. HubInit => HubTypeOK /\ HubInv /\ ReachInv
  BY HubTypeInit, HubInvInit, ReachInit
<1>2. HubTypeOK /\ HubInv /\ ReachInv /\ [HubNext]_hubVars => (HubTypeOK /\ HubInv /\ ReachInv)'
  BY HubTypeStep, HubInvStep, ReachStep
<1>3. ReachInv => QuietPageIsCurrent
  BY DEF ReachInv, OnItsWay, QuietPageIsCurrent
<1> QED
  BY <1>1, <1>2, <1>3, PTL DEF HubSpec

-----------------------------------------------------------------------------
(* The status on the dashboard *)

Caller ==
  [pc : {"rest"}] \union [pc : {"compare", "publish"}, read : Statuses]
Signatures == Statuses \union {Nobody}

StatusTypeOK ==
  /\ status \in Statuses
  /\ callers \in [Callers -> Caller]
  /\ lastSent \in [signature : Signatures, age : 0..2]
  /\ quiet \in 0..BeatsToHeal

beat == callers["heartbeat"]
asked == callers["request"]

\* Since the last disturbance no request is under way, and the heartbeat has read what is true.
Undisturbed ==
  quiet > 0 => asked.pc = "rest" /\ (beat.pc # "rest" => beat.read = status)

\* A broadcast between the reading and the comparison of the heartbeat, which alone makes the age
\* zero then, is a request's: it is on the page, or about to be.
BetweenReadAndCompare ==
  beat.pc = "compare" /\ lastSent.age = 0 =>
    IF asked.pc = "publish" THEN asked.read = lastSent.signature ELSE dashboard = lastSent.signature

\* A page that is wrong has seen one quiet heartbeat at most, and the next one will publish.
NextBeatHeals ==
  quiet > 0 /\ dashboard # status =>
    /\ quiet = 1
    /\ beat.pc = "rest" => lastSent.signature # status \/ lastSent.age >= 1
    /\ beat.pc = "compare" => lastSent.signature # status \/ lastSent.age >= 2

HealInv == StatusTypeOK /\ Undisturbed /\ BetweenReadAndCompare /\ NextBeatHeals

\* It holds at the start.
LEMMA HealInit == StatusInit => HealInv
  BY HealAssumption
     DEF StatusInit, HealInv, StatusTypeOK, Undisturbed, BetweenReadAndCompare, NextBeatHeals,
         Callers, Caller, AtRest, Signatures, beat, asked

\* Every step keeps it.
LEMMA HealStep == HealInv /\ [StatusNext]_statusVars => HealInv'
<1> SUFFICES ASSUME HealInv, [StatusNext]_statusVars PROVE HealInv'
  OBVIOUS
<1> USE HealAssumption
<1>1. CASE StatusChanges \/ ForgetsSignature
  BY <1>1 DEF StatusChanges, ForgetsSignature, HealInv, StatusTypeOK, Undisturbed,
              BetweenReadAndCompare, NextBeatHeals, Signatures, beat, asked
<1>2. ASSUME NEW c \in Callers, Reads(c) PROVE HealInv'
  BY <1>2 DEF Reads, HealInv, StatusTypeOK, Undisturbed, BetweenReadAndCompare, NextBeatHeals,
              Signatures, beat, asked, Callers, Caller, AtRest
<1>3. ASSUME NEW c \in Callers, Compares(c) PROVE HealInv'
  <2> PICK due \in Due :
        LET sends == c = "request" \/ callers[c].read # lastSent.signature \/ due
        IN /\ callers' = [callers EXCEPT ![c] = IF sends THEN [@ EXCEPT !.pc = "publish"] ELSE AtRest]
           /\ quiet' = IF ~sends /\ callers["request"] = AtRest /\ quiet < BeatsToHeal
                       THEN quiet + 1 ELSE quiet
           /\ lastSent' = IF sends THEN [signature |-> callers[c].read, age |-> 0] ELSE lastSent
    BY <1>3 DEF Compares
  <2>0. /\ UNCHANGED <<status, changes, dashboard>> /\ callers[c].pc = "compare"
        /\ callers[c] \in [pc : {"compare", "publish"}, read : Statuses]
    BY <1>3 DEF Compares, HealInv, StatusTypeOK, Caller
  <2>1. CASE c = "request" \/ callers[c].read # lastSent.signature \/ due
    <3>1. /\ callers' = [callers EXCEPT ![c] = [@ EXCEPT !.pc = "publish"]]
          /\ quiet' = quiet /\ lastSent' = [signature |-> callers[c].read, age |-> 0]
      BY <2>1
    <3>2. /\ callers'[c].pc = "publish" /\ callers'[c].read = callers[c].read
          /\ callers'[c] \in Caller
          /\ \A d \in Callers : d # c => callers'[d] = callers[d]
      BY <2>0, <3>1 DEF HealInv, StatusTypeOK, Caller
    <3>3. StatusTypeOK'
      BY <2>0, <3>1, <3>2 DEF HealInv, StatusTypeOK, Signatures
    <3> QED
      BY <2>0, <3>1, <3>2, <3>3
         DEF HealInv, StatusTypeOK, Undisturbed, BetweenReadAndCompare, NextBeatHeals, beat, asked,
             Callers
  <2>2. CASE ~(c = "request" \/ callers[c].read # lastSent.signature \/ due)
    <3>1. /\ callers' = [callers EXCEPT ![c] = AtRest] /\ lastSent' = lastSent
          /\ quiet' = IF callers["request"] = AtRest /\ quiet < BeatsToHeal
                      THEN quiet + 1 ELSE quiet
      BY <2>2
    <3>2. /\ c = "heartbeat" /\ callers[c].read = lastSent.signature /\ lastSent.age < 2
      <4>1. ASSUME lastSent.age > 1 PROVE due
        <5>1. lastSent.age # 1
          BY <4>1 DEF HealInv, StatusTypeOK
        <5>2. Due = {lastSent.age > 1}
          BY <5>1, Zenon DEF Due
        <5> QED
          BY <4>1, <5>2, Zenon
      <4> QED
        BY <2>2, <4>1 DEF Callers, HealInv, StatusTypeOK
    <3>3. /\ callers'["heartbeat"].pc = "rest" /\ callers'["request"] = callers["request"]
          /\ callers'["heartbeat"] \in Caller /\ AtRest.pc = "rest"
      BY <3>1, <3>2 DEF HealInv, StatusTypeOK, Caller, Callers, AtRest
    <3>4. StatusTypeOK'
      BY <2>0, <3>1, <3>2, <3>3 DEF HealInv, StatusTypeOK, Callers
    <3> QED
      BY <2>0, <3>1, <3>2, <3>3, <3>4
         DEF HealInv, StatusTypeOK, Undisturbed, BetweenReadAndCompare, NextBeatHeals, beat, asked,
             Callers
  <2> QED
    BY <2>1, <2>2
<1>4. ASSUME NEW c \in Callers, Publishes(c) PROVE HealInv'
  BY <1>4 DEF Publishes, HealInv, StatusTypeOK, Undisturbed, BetweenReadAndCompare,
              NextBeatHeals, Signatures, beat, asked, Callers, Caller, AtRest
<1>5. CASE UNCHANGED statusVars
  BY <1>5 DEF statusVars, HealInv, StatusTypeOK, Undisturbed, BetweenReadAndCompare,
              NextBeatHeals, beat, asked
<1> QED
  BY <1>1, <1>2, <1>3, <1>4, <1>5 DEF StatusNext

\* Two undisturbed heartbeats bring the page back to the status of the runtime, whatever was
\* overtaken before them, for any set of statuses and any number of changes and requests.
THEOREM HeartbeatsAlwaysHeal == StatusSpec => []HeartbeatsHeal
<1>1. HealInv => HeartbeatsHeal
  BY HealAssumption DEF HealInv, StatusTypeOK, NextBeatHeals, HeartbeatsHeal
<1> QED
  BY <1>1, HealInit, HealStep, PTL DEF StatusSpec

-----------------------------------------------------------------------------
(* The status of the worker.  What counts is the last frame that its open     *)
(* socket has brought so far: on the wire, in the hand of the loop, in the    *)
(* snapshot and in the gateway.  A change on the page puts a newer one on the *)
(* wire, and each step of the loop passes it on; loops of lost sockets only   *)
(* matter through author, which tells that one of them wrote last.            *)

ReportSet == [degraded : {Nil, "silent", "websocket_disconnected"}, error : {Nil, "aborted"}]
FrameSet == [reason : {"degraded", "mapped", "plain", "told"}, report : ReportSet]
WorkerSet ==
  [health : {Nil, "silent"}, error : {Nil, "aborted"}, socket : Nat, open : BOOLEAN]
WireSet == [frames : Seq(FrameSet), closed : BOOLEAN]
LoopSet ==
  [pc : {"none", "hello", "announce", "serve", "disconnect", "notify", "ended"}]
  \union [pc : {"apply", "forward"}, frame : FrameSet]
DeskSet ==
  [active : Nat, outbound : BOOLEAN, connected : BOOLEAN, shown : ReportSet,
   phase : {"idle", "worker_socket_idle", "degraded_hint", "worker_live", "ingest"}]
GateSet == [connected : BOOLEAN, now : ReportSet]
AuthorSet == [desk : Nat, gate : Nat]

DeskTypeOK ==
  /\ worker \in WorkerSet /\ (worker.open => worker.socket \in Sockets)
  /\ edits \in Nat
  /\ wires \in [Sockets -> WireSet]
  /\ loops \in [Sockets -> LoopSet]
  /\ desk \in DeskSet
  /\ gate \in GateSet
  /\ record \in ReportSet
  /\ author \in AuthorSet

-----------------------------------------------------------------------------
(* The invariant of the status desk *)

\* What the page would report now, and what it has sent that is not read yet.
Fresh == WorkerPayload(worker)
News == wires[worker.socket].frames
Before == {"none", "hello", "announce"}
InHand == {"apply", "forward"}
Attending == {"hello", "announce", "serve", "apply", "forward"}

\* A loop begins only when its socket was opened; the active one that has begun and not ended
\* keeps the service connected, and some loop has spoken to the gateway before any waits for frames.
LinkInv ==
  /\ \A s \in Sockets : s > worker.socket => loops[s].pc = "none"
  /\ \A s \in Sockets :
       loops[s].pc \in Attending /\ s = desk.active
         => desk.outbound /\ desk.connected /\ (loops[s].pc # "hello" => desk.phase # "idle")
  /\ \A s \in Sockets : loops[s].pc \in InHand \union {"serve"} => author.gate # 0

\* While its loop has not begun the open socket has news, the last of them is what the page would
\* report now, and when all are read the one in hand is.
NewsInv ==
  worker.open =>
    /\ loops[worker.socket].pc \in Before => News # <<>>
    /\ News # <<>> => News[Len(News)].report = Fresh
    /\ News = <<>> /\ loops[worker.socket].pc \in InHand => loops[worker.socket].frame.report = Fresh

\* When all is read, whoever wrote the snapshot or the gateway last showed that; nobody has
\* written the snapshot since the registration only as long as there is news.
ShownInv ==
  worker.open /\ desk.active = worker.socket =>
    LET pc == loops[worker.socket].pc
    IN /\ pc = "serve" /\ author.desk = 0 => News # <<>>
       /\ pc = "forward" => author.desk # 0
       /\ pc \in {"serve", "forward"} /\ News = <<>> /\ author.desk = worker.socket => desk.shown = Fresh
       /\ pc = "serve" /\ News = <<>> /\ author.gate = worker.socket => gate.now = Fresh

DeskInv == DeskTypeOK /\ LinkInv /\ NewsInv /\ ShownInv /\ LogTellsTrouble

-----------------------------------------------------------------------------
(* The steps of the page *)

\* The page reports its own trouble while the socket is open.
LEMMA ReportFacts ==
  ASSUME NEW w \in WorkerSet
  PROVE  WorkerPayload(w) \in ReportSet /\ (w.open => WorkerPayload(w) = [degraded |-> w.health, error |-> w.error])
<1>1. w.health \in {Nil, "silent"} /\ w.error \in {Nil, "aborted"} BY DEF WorkerSet
<1>2. Degraded(w) \in {Nil, "silent", "websocket_disconnected"} BY <1>1 DEF Degraded
<1>3. w.open => Degraded(w) = w.health BY DEF Degraded
<1> QED BY <1>1, <1>2, <1>3 DEF WorkerPayload, ReportSet

\* No socket is 0, which stands for none.
LEMMA SocketFacts ==
  ASSUME NEW s \in Sockets
  PROVE  s \in Nat /\ s >= 1
BY DEF Sockets

\* A frame that is sent is the last news of the open socket.
LEMMA PageSends ==
  ASSUME DeskInv, NEW f \in FrameSet, f.report = WorkerPayload(worker'),
         worker' \in WorkerSet, worker'.socket = worker.socket, worker'.open = worker.open,
         edits' \in Nat, SendAll(<<f>>), UNCHANGED <<deskVars, gateVars, author>>
  PROVE  DeskInv'
<1> DEFINE s == worker.socket
           news == Append(wires[s].frames, f)
<1>1. DeskTypeOK /\ LinkInv /\ NewsInv /\ ShownInv /\ LogTellsTrouble BY DEF DeskInv
<1>2. /\ UNCHANGED <<loops, desk, gate, record, author>> /\ worker'.socket = s
      /\ worker'.open = worker.open
  BY DEF deskVars, gateVars
<1>3. CASE worker.open
  <2>1. s \in Sockets /\ wires[s] \in WireSet BY <1>1, <1>3 DEF DeskTypeOK
  <2>2. wires[s].frames \in Seq(FrameSet) BY <2>1 DEF WireSet
  <2>3. wires[s].frames \o <<f>> = news BY <2>2
  <2>4. wires' = [wires EXCEPT ![s].frames = news]
    BY <1>2, <1>3, <2>3 DEF SendAll
  <2>5. news \in Seq(FrameSet) /\ news # <<>> /\ news[Len(news)] = f
    BY <2>2
  <2> HIDE DEF news
  <2>6. wires' \in [Sockets -> WireSet] /\ wires'[s].frames = news
    BY <1>1, <2>1, <2>4, <2>5 DEF DeskTypeOK, WireSet
  <2>7. DeskTypeOK' BY <1>1, <1>2, <2>1, <2>6 DEF DeskTypeOK
  <2>8. LinkInv' BY <1>1, <1>2 DEF LinkInv
  <2>9. NewsInv' BY <1>2, <2>5, <2>6 DEF NewsInv, News, Fresh
  <2>10. ShownInv' BY <1>1, <1>2, <1>3, <2>5, <2>6 DEF ShownInv, News
  <2>11. LogTellsTrouble' BY <1>1, <1>2 DEF LogTellsTrouble
  <2> QED BY <2>7, <2>8, <2>9, <2>10, <2>11 DEF DeskInv
<1>4. CASE ~worker.open
  <2>1. wires' = wires BY <1>2, <1>4 DEF SendAll
  <2>2. DeskTypeOK' BY <1>1, <1>2, <1>4, <2>1 DEF DeskTypeOK
  <2>3. LinkInv' BY <1>1, <1>2 DEF LinkInv
  <2>4. NewsInv' /\ ShownInv' BY <1>2, <1>4 DEF NewsInv, ShownInv
  <2>5. LogTellsTrouble' BY <1>1, <1>2 DEF LogTellsTrouble
  <2> QED BY <2>2, <2>3, <2>4, <2>5 DEF DeskInv
<1> QED BY <1>1, <1>3, <1>4 DEF DeskTypeOK, WorkerSet

\* Every change, and every other reason to report, sends what the page knows.
LEMMA PageStep ==
  ASSUME DeskInv, HealthChanges \/ ErrorHappens \/ Reports
  PROVE  DeskInv'
<1>1. DeskTypeOK BY DEF DeskInv
<1>2. ASSUME worker' \in WorkerSet, NEW r \in {"degraded", "mapped", "plain", "told"}
      PROVE  Frame(r) \in FrameSet /\ Frame(r).report = WorkerPayload(worker')
  <2>1. WorkerPayload(worker') \in ReportSet BY <1>2, ReportFacts
  <2> QED BY <2>1 DEF Frame, FrameSet
<1>3. CASE HealthChanges
  <2>1. PICK h \in {Nil, "silent"} : worker' = [worker EXCEPT !.health = h]
    BY <1>3 DEF HealthChanges
  <2>2. worker' \in WorkerSet /\ worker'.socket = worker.socket /\ worker'.open = worker.open
    BY <1>1, <2>1 DEF DeskTypeOK, WorkerSet
  <2>3. edits' \in Nat BY <1>1, <1>3 DEF HealthChanges, DeskTypeOK
  <2>4. /\ SendAll(<<Frame("degraded")>>) /\ UNCHANGED <<deskVars, gateVars, author>>
        /\ Frame("degraded") \in FrameSet /\ Frame("degraded").report = WorkerPayload(worker')
    BY <1>2, <1>3, <2>2 DEF HealthChanges
  <2> QED BY <2>2, <2>3, <2>4, PageSends
<1>4. CASE ErrorHappens
  <2>1. PICK e \in {Nil, "aborted"} : worker' = [worker EXCEPT !.error = e]
    BY <1>4 DEF ErrorHappens
  <2>2. worker' \in WorkerSet /\ worker'.socket = worker.socket /\ worker'.open = worker.open
    BY <1>1, <2>1 DEF DeskTypeOK, WorkerSet
  <2>3. edits' \in Nat BY <1>1, <1>4 DEF ErrorHappens, DeskTypeOK
  <2>4. /\ SendAll(<<Frame("mapped")>>) /\ UNCHANGED <<deskVars, gateVars, author>>
        /\ Frame("mapped") \in FrameSet /\ Frame("mapped").report = WorkerPayload(worker')
    BY <1>2, <1>4, <2>2 DEF ErrorHappens
  <2> QED BY <2>2, <2>3, <2>4, PageSends
<1>5. CASE Reports
  <2>1. PICK r \in {"mapped", "plain"} : SendAll(<<Frame(r)>>) BY <1>5 DEF Reports
  <2>2. worker' \in WorkerSet /\ worker' = worker /\ edits' \in Nat
    BY <1>1, <1>5 DEF Reports, DeskTypeOK
  <2>3. UNCHANGED <<deskVars, gateVars, author>> BY <1>5 DEF Reports
  <2>4. Frame(r) \in FrameSet /\ Frame(r).report = WorkerPayload(worker') BY <1>2, <2>2
  <2> QED BY <2>1, <2>2, <2>3, <2>4, PageSends
<1> QED BY <1>3, <1>4, <1>5

\* A new socket reports all before its loop begins.
LEMMA SocketOpensStep ==
  ASSUME DeskInv, SocketOpens
  PROVE  DeskInv'
<1> DEFINE s == worker.socket + 1
           two == <<Frame("degraded"), Frame("told")>>
<1>1. DeskTypeOK /\ LinkInv /\ LogTellsTrouble BY DEF DeskInv
<1>2. /\ s \in Sockets /\ worker' = [worker EXCEPT !.socket = s, !.open = TRUE]
      /\ UNCHANGED <<edits, loops, desk, gate, record, author>>
  BY DEF SocketOpens, deskVars, gateVars
<1>3. worker.socket \in Nat BY <1>1 DEF DeskTypeOK, WorkerSet
<1>4. worker' \in WorkerSet /\ worker'.socket = s /\ worker'.open
  <2>1. s \in Nat BY <1>3
  <2> HIDE DEF s
  <2> QED BY <1>1, <1>2, <2>1 DEF DeskTypeOK, WorkerSet
<1>5. WorkerPayload(worker') \in ReportSet BY <1>4, ReportFacts
<1>6. \A r \in {"degraded", "told"} : Frame(r) \in FrameSet /\ Frame(r).report = WorkerPayload(worker')
  BY <1>5 DEF Frame, FrameSet
<1>7. two \in Seq(FrameSet) /\ two # <<>> /\ two[Len(two)].report = WorkerPayload(worker')
  BY <1>6
<1>8. wires' = [wires EXCEPT ![s].frames = two] BY <1>4 DEF SocketOpens
<1> HIDE DEF two
<1>9. wires' \in [Sockets -> WireSet] /\ wires'[s].frames = two
  BY <1>1, <1>2, <1>7, <1>8 DEF DeskTypeOK, WireSet
<1>10. loops[s].pc = "none" BY <1>1, <1>2, <1>3 DEF LinkInv
<1>11. DeskTypeOK' BY <1>1, <1>2, <1>4, <1>9 DEF DeskTypeOK
<1>12. LinkInv'
  <2>1. ASSUME NEW t \in Sockets, t > s PROVE loops[t].pc = "none"
    BY <1>1, <1>3, <2>1, SocketFacts DEF LinkInv
  <2> QED BY <1>1, <1>2, <1>4, <2>1 DEF LinkInv
<1>13. NewsInv'
  BY <1>2, <1>4, <1>7, <1>9, <1>10 DEF NewsInv, News, Fresh
<1>14. ShownInv'
  BY <1>2, <1>4, <1>7, <1>9, <1>10 DEF ShownInv, News
<1>15. LogTellsTrouble' BY <1>1, <1>2 DEF LogTellsTrouble
<1> QED BY <1>11, <1>12, <1>13, <1>14, <1>15 DEF DeskInv

\* Of a socket that is lost nothing is claimed.
LEMMA SocketClosesStep ==
  ASSUME DeskInv, SocketCloses
  PROVE  DeskInv'
<1>1. DeskTypeOK /\ LinkInv /\ LogTellsTrouble BY DEF DeskInv
<1>2. /\ worker.open /\ worker' = [worker EXCEPT !.open = FALSE]
      /\ wires' = [wires EXCEPT ![worker.socket].closed = TRUE]
      /\ UNCHANGED <<edits, loops, desk, gate, record, author>>
  BY DEF SocketCloses, deskVars, gateVars
<1>3. worker' \in WorkerSet /\ worker'.socket = worker.socket /\ ~worker'.open
  BY <1>1, <1>2 DEF DeskTypeOK, WorkerSet
<1>4. wires' \in [Sockets -> WireSet] BY <1>1, <1>2 DEF DeskTypeOK, WireSet
<1>5. DeskTypeOK' BY <1>1, <1>2, <1>3, <1>4 DEF DeskTypeOK
<1>6. LinkInv' BY <1>1, <1>2, <1>3 DEF LinkInv
<1>7. NewsInv' /\ ShownInv' BY <1>3 DEF NewsInv, ShownInv
<1>8. LogTellsTrouble' BY <1>1, <1>2 DEF LogTellsTrouble
<1> QED BY <1>5, <1>6, <1>7, <1>8 DEF DeskInv

-----------------------------------------------------------------------------
(* The steps of the server *)

\* A loop begins, and the snapshot with it.
LEMMA RegisterStep ==
  ASSUME DeskInv, NEW s \in Sockets, Register(s)
  PROVE  DeskInv'
<1>1. DeskTypeOK /\ LinkInv /\ NewsInv /\ ShownInv /\ LogTellsTrouble BY DEF DeskInv
<1>2. /\ loops[s].pc = "none" /\ s <= worker.socket
      /\ loops' = [loops EXCEPT ![s] = [pc |-> "hello"]]
      /\ desk' = [desk EXCEPT !.active = s, !.outbound = TRUE, !.connected = TRUE, !.shown = Gone]
      /\ author' = [author EXCEPT !.desk = 0]
      /\ UNCHANGED <<worker, edits, wires, gate, record>>
  BY DEF Register, Goes, workerVars, gateVars
<1>3. Gone \in ReportSet BY DEF Gone, ReportSet
<1>4. /\ desk' \in DeskSet /\ desk'.active = s /\ desk'.outbound /\ desk'.connected
      /\ author' \in AuthorSet /\ author'.gate = author.gate
  BY <1>1, <1>2, <1>3, SocketFacts DEF DeskTypeOK, DeskSet, AuthorSet
<1>5. /\ loops' \in [Sockets -> LoopSet] /\ loops'[s].pc = "hello"
      /\ \A t \in Sockets : t # s => loops'[t] = loops[t]
  BY <1>1, <1>2 DEF DeskTypeOK, LoopSet
<1>6. DeskTypeOK' BY <1>1, <1>2, <1>4, <1>5 DEF DeskTypeOK
<1>7. LinkInv'
  <2>1. worker.socket \in Nat /\ s \in Nat BY <1>1, SocketFacts DEF DeskTypeOK, WorkerSet
  <2>2. ASSUME NEW t \in Sockets, t > worker.socket PROVE loops'[t].pc = "none"
    BY <1>1, <1>2, <1>5, <2>1, <2>2, SocketFacts DEF LinkInv
  <2> QED BY <1>1, <1>2, <1>4, <1>5, <2>2 DEF LinkInv, InHand
<1>8. NewsInv' BY <1>1, <1>2, <1>5 DEF NewsInv, News, Fresh, Before, InHand, DeskTypeOK
<1>9. ShownInv' BY <1>1, <1>2, <1>4, <1>5 DEF ShownInv, News, DeskTypeOK
<1>10. LogTellsTrouble' BY <1>1, <1>2 DEF LogTellsTrouble
<1> QED BY <1>6, <1>7, <1>8, <1>9, <1>10 DEF DeskInv

\* The greeting, or the end of a socket that was closed before it.
LEMMA HelloStep ==
  ASSUME DeskInv, NEW s \in Sockets, Hello(s)
  PROVE  DeskInv'
<1>1. DeskTypeOK /\ LinkInv /\ NewsInv /\ ShownInv /\ LogTellsTrouble BY DEF DeskInv
<1>2. PICK pc \in {"announce", "disconnect"} :
        /\ loops[s].pc = "hello"
        /\ loops' = [loops EXCEPT ![s] = [pc |-> pc]]
        /\ desk' = IF pc = "announce" THEN [desk EXCEPT !.phase = "worker_socket_idle"] ELSE desk
        /\ UNCHANGED <<worker, edits, wires, gate, record, author>>
  BY DEF Hello, Goes, workerVars, gateVars
<1>3. /\ desk' \in DeskSet /\ desk'.active = desk.active /\ desk'.outbound = desk.outbound
      /\ desk'.connected = desk.connected /\ desk'.shown = desk.shown
      /\ (pc = "announce" => desk'.phase # "idle")
      /\ (pc = "disconnect" => desk'.phase = desk.phase)
  BY <1>1, <1>2 DEF DeskTypeOK, DeskSet
<1>4. /\ loops' \in [Sockets -> LoopSet] /\ loops'[s].pc = pc
      /\ \A t \in Sockets : t # s => loops'[t] = loops[t]
  BY <1>1, <1>2 DEF DeskTypeOK, LoopSet
<1>5. DeskTypeOK' BY <1>1, <1>2, <1>3, <1>4 DEF DeskTypeOK
<1>6. LinkInv'
  <2>1. ASSUME NEW t \in Sockets, t > worker.socket PROVE loops'[t].pc = "none"
    BY <1>1, <1>2, <1>4, <2>1 DEF LinkInv
  <2>2. ASSUME NEW t \in Sockets, loops'[t].pc \in Attending, t = desk'.active
        PROVE  desk'.outbound /\ desk'.connected /\ (loops'[t].pc # "hello" => desk'.phase # "idle")
    <3>1. CASE t = s
      <4>1. pc = "announce" BY <1>2, <1>4, <2>2, <3>1 DEF Attending
      <4> QED BY <1>1, <1>2, <1>3, <2>2, <3>1, <4>1 DEF LinkInv, Attending
    <3>2. CASE t # s BY <1>1, <1>2, <1>3, <1>4, <2>2, <3>2 DEF LinkInv
    <3> QED BY <3>1, <3>2
  <2>3. ASSUME NEW t \in Sockets, loops'[t].pc \in InHand \union {"serve"}
        PROVE  author'.gate # 0
    BY <1>1, <1>2, <1>4, <2>3 DEF LinkInv, InHand
  <2> QED BY <1>2, <2>1, <2>2, <2>3 DEF LinkInv
<1>7. NewsInv' BY <1>1, <1>2, <1>4 DEF NewsInv, News, Fresh, Before, InHand, DeskTypeOK
<1>8. ShownInv' BY <1>1, <1>2, <1>3, <1>4 DEF ShownInv, News, Fresh, DeskTypeOK
<1>9. LogTellsTrouble' BY <1>1, <1>2 DEF LogTellsTrouble
<1> QED BY <1>5, <1>6, <1>7, <1>8, <1>9 DEF DeskInv

\* The gateway hears of the connection and forgets the error; the news is still to come.
LEMMA AnnounceStep ==
  ASSUME DeskInv, NEW s \in Sockets, WorkerConnected(s)
  PROVE  DeskInv'
<1>1. DeskTypeOK /\ LinkInv /\ NewsInv /\ ShownInv /\ LogTellsTrouble BY DEF DeskInv
<1>2. /\ loops[s].pc = "announce"
      /\ loops' = [loops EXCEPT ![s] = [pc |-> "serve"]]
      /\ gate' = [gate EXCEPT !.connected = TRUE, !.now = [gate.now EXCEPT !.error = Nil]]
      /\ author' = [author EXCEPT !.gate = s]
      /\ UNCHANGED <<worker, edits, wires, desk, record>>
  BY DEF WorkerConnected, Goes, workerVars
<1>3. /\ gate' \in GateSet /\ gate'.now.error = Nil /\ gate'.now.degraded = gate.now.degraded
  BY <1>1, <1>2 DEF DeskTypeOK, GateSet, ReportSet
<1>4. author' \in AuthorSet /\ author'.gate = s /\ author'.desk = author.desk
  BY <1>1, <1>2, SocketFacts DEF DeskTypeOK, AuthorSet
<1>5. /\ loops' \in [Sockets -> LoopSet] /\ loops'[s].pc = "serve"
      /\ \A t \in Sockets : t # s => loops'[t] = loops[t]
  BY <1>1, <1>2 DEF DeskTypeOK, LoopSet
<1>6. DeskTypeOK' BY <1>1, <1>2, <1>3, <1>4, <1>5 DEF DeskTypeOK
<1>7. LinkInv'
  <2>1. s # 0 BY SocketFacts
  <2> QED BY <1>1, <1>2, <1>4, <1>5, <2>1 DEF LinkInv, Attending
<1>8. NewsInv' BY <1>1, <1>2, <1>5 DEF NewsInv, News, Fresh, Before, InHand, DeskTypeOK
<1>9. ShownInv'
  BY <1>1, <1>2, <1>4, <1>5 DEF ShownInv, NewsInv, News, Fresh, Before, DeskTypeOK
<1>10. LogTellsTrouble' BY <1>1, <1>2, <1>3 DEF LogTellsTrouble
<1> QED BY <1>6, <1>7, <1>8, <1>9, <1>10 DEF DeskInv

\* A frame leaves the wire: it is in the hand of the active loop, or dropped by another.
LEMMA AcceptStep ==
  ASSUME DeskInv, NEW s \in Sockets, Accept(s)
  PROVE  DeskInv'
<1> DEFINE q == wires[s].frames
           f == Head(q)
<1>1. DeskTypeOK /\ LinkInv /\ NewsInv /\ ShownInv /\ LogTellsTrouble BY DEF DeskInv
<1>2. /\ loops[s].pc = "serve" /\ q # <<>>
      /\ wires' = [wires EXCEPT ![s].frames = Tail(q)]
      /\ loops' = IF s = desk.active THEN [loops EXCEPT ![s] = [pc |-> "apply", frame |-> f]] ELSE loops
      /\ UNCHANGED <<worker, edits, desk, gate, record, author>>
  BY DEF Accept, gateVars
<1>3. wires[s] \in WireSet /\ q \in Seq(FrameSet) BY <1>1 DEF DeskTypeOK, WireSet
<1>4. /\ f \in FrameSet /\ Tail(q) \in Seq(FrameSet)
      /\ (Tail(q) # <<>> => Tail(q)[Len(Tail(q))] = q[Len(q)])
      /\ (Tail(q) = <<>> => f = q[Len(q)])
  <2> DEFINE r == Tail(q)
  <2>1. q \in Seq(FrameSet) /\ q # <<>> /\ Len(q) \in Nat /\ Len(q) >= 1 BY <1>2, <1>3
  <2> HIDE DEF q
  <2>2. f = q[1] /\ f \in FrameSet /\ r \in Seq(FrameSet) /\ Len(r) = Len(q) - 1
    BY <2>1
  <2>3. \A i \in 1..Len(r) : r[i] = q[i + 1] BY <2>1
  <2> HIDE DEF r, f
  <2>4. CASE Len(q) = 1
    <3>1. r = <<>> BY <2>2, <2>4
    <3> QED BY <2>1, <2>2, <2>4, <3>1 DEF r
  <2>5. CASE Len(q) # 1
    <3>1. r # <<>> BY <2>2, <2>5
    <3>2. Len(q) - 1 \in 1..Len(r) BY <2>1, <2>2, <2>5
    <3>3. r[Len(q) - 1] = q[(Len(q) - 1) + 1] BY <2>3, <3>2
    <3>4. r[Len(r)] = q[Len(q)] BY <2>1, <2>2, <3>3
    <3> QED BY <2>2, <3>1, <3>4 DEF r
  <2> QED BY <2>4, <2>5
<1> HIDE DEF f
<1>5. /\ wires' \in [Sockets -> WireSet] /\ wires'[s].frames = Tail(q)
      /\ \A t \in Sockets : t # s => wires'[t] = wires[t]
  BY <1>1, <1>2, <1>4 DEF DeskTypeOK, WireSet
<1>6. \A t \in Sockets : t # s => loops'[t] = loops[t] BY <1>1, <1>2 DEF DeskTypeOK
<1>7. CASE s # desk.active
  <2>1. loops' = loops BY <1>2, <1>7
  <2>2. DeskTypeOK' BY <1>1, <1>2, <1>5, <2>1 DEF DeskTypeOK
  <2>3. LinkInv' BY <1>1, <1>2, <2>1 DEF LinkInv
  <2>4. NewsInv'
    <3>1. CASE s = worker.socket
      BY <1>1, <1>2, <1>4, <1>5, <2>1, <3>1 DEF NewsInv, News, Fresh, Before, InHand
    <3>2. CASE s # worker.socket
      BY <1>1, <1>2, <1>5, <2>1, <3>2 DEF NewsInv, News, Fresh, DeskTypeOK
    <3> QED BY <3>1, <3>2
  <2>5. ShownInv'
    BY <1>1, <1>2, <1>5, <1>7, <2>1 DEF ShownInv, News, Fresh, DeskTypeOK
  <2>6. LogTellsTrouble' BY <1>1, <1>2 DEF LogTellsTrouble
  <2> QED BY <2>2, <2>3, <2>4, <2>5, <2>6 DEF DeskInv
<1>8. CASE s = desk.active
  <2>1. /\ loops' \in [Sockets -> LoopSet] /\ loops'[s].pc = "apply" /\ loops'[s].frame = f
    BY <1>1, <1>2, <1>4, <1>8 DEF DeskTypeOK, LoopSet
  <2>2. DeskTypeOK' BY <1>1, <1>2, <1>5, <2>1 DEF DeskTypeOK
  <2>3. LinkInv'
    <3>1. ASSUME NEW t \in Sockets, t > worker.socket PROVE loops'[t].pc = "none"
      BY <1>1, <1>2, <1>6, <3>1 DEF LinkInv
    <3>2. author.gate # 0 BY <1>1, <1>2 DEF LinkInv
    <3> QED BY <1>1, <1>2, <1>6, <2>1, <3>1, <3>2 DEF LinkInv, Attending
  <2>4. NewsInv'
    <3>1. CASE s = worker.socket
      BY <1>1, <1>2, <1>4, <1>5, <2>1, <3>1 DEF NewsInv, News, Fresh, Before
    <3>2. CASE s # worker.socket
      BY <1>1, <1>2, <1>5, <1>6, <3>2 DEF NewsInv, News, Fresh, DeskTypeOK
    <3> QED BY <3>1, <3>2
  <2>5. ShownInv' BY <1>2, <1>8, <2>1 DEF ShownInv
  <2>6. LogTellsTrouble' BY <1>1, <1>2 DEF LogTellsTrouble
  <2> QED BY <2>2, <2>3, <2>4, <2>5, <2>6 DEF DeskInv
<1> QED BY <1>7, <1>8

\* What the loop shows is the newest that was read on its socket.
LEMMA ApplyStep ==
  ASSUME DeskInv, NEW s \in Sockets, Apply(s)
  PROVE  DeskInv'
<1> DEFINE f == loops[s].frame
<1>1. DeskTypeOK /\ LinkInv /\ NewsInv /\ ShownInv /\ LogTellsTrouble BY DEF DeskInv
<1>2. PICK phase \in {"degraded_hint", "worker_live"} :
        /\ loops[s].pc = "apply"
        /\ loops' = [loops EXCEPT ![s].pc = "forward"]
        /\ desk' = [desk EXCEPT !.connected = TRUE, !.shown = f.report, !.phase = phase]
        /\ author' = [author EXCEPT !.desk = s]
        /\ UNCHANGED <<worker, edits, wires, gate, record>>
  BY DEF Apply, workerVars, gateVars
<1>3. loops[s] \in LoopSet /\ f \in FrameSet /\ f.report \in ReportSet
  <2>1. loops[s] \in LoopSet BY <1>1 DEF DeskTypeOK
  <2>2. loops[s] \in [pc : {"apply", "forward"}, frame : FrameSet] BY <1>2, <2>1 DEF LoopSet
  <2> QED BY <2>1, <2>2 DEF FrameSet
<1>4. /\ desk' \in DeskSet /\ desk'.active = desk.active /\ desk'.outbound = desk.outbound
      /\ desk'.connected /\ desk'.shown = f.report /\ desk'.phase # "idle"
  BY <1>1, <1>2, <1>3 DEF DeskTypeOK, DeskSet
<1>5. author' \in AuthorSet /\ author'.gate = author.gate /\ author'.desk = s
  BY <1>1, <1>2, SocketFacts DEF DeskTypeOK, AuthorSet
<1>6. /\ loops' \in [Sockets -> LoopSet] /\ loops'[s].pc = "forward" /\ loops'[s].frame = f
      /\ \A t \in Sockets : t # s => loops'[t] = loops[t]
  <2>1. loops[s] \in [pc : {"apply", "forward"}, frame : FrameSet] BY <1>2, <1>3 DEF LoopSet
  <2> DEFINE l == [loops[s] EXCEPT !.pc = "forward"]
  <2>2. l \in [pc : {"apply", "forward"}, frame : FrameSet] /\ l.pc = "forward" /\ l.frame = f
    BY <2>1
  <2>3. loops' = [loops EXCEPT ![s] = l] BY <1>2
  <2> HIDE DEF l
  <2>4. l \in LoopSet BY <2>2 DEF LoopSet
  <2> QED BY <1>1, <2>2, <2>3, <2>4 DEF DeskTypeOK
<1> HIDE DEF f
<1>7. DeskTypeOK' BY <1>1, <1>2, <1>4, <1>5, <1>6 DEF DeskTypeOK
<1>8. LinkInv'
  <2>1. ASSUME NEW t \in Sockets, t > worker.socket PROVE loops'[t].pc = "none"
    BY <1>1, <1>2, <1>6, <2>1 DEF LinkInv
  <2>2. author.gate # 0 BY <1>1, <1>2 DEF LinkInv, InHand
  <2>3. ASSUME NEW t \in Sockets, loops'[t].pc \in Attending, t = desk'.active
        PROVE  desk'.outbound
    <3>1. loops[t].pc \in Attending
      <4>1. CASE t = s BY <1>2, <4>1 DEF Attending
      <4>2. CASE t # s BY <1>6, <2>3, <4>2
      <4> QED BY <4>1, <4>2
    <3> QED BY <1>1, <1>4, <2>3, <3>1 DEF LinkInv
  <2> QED BY <1>2, <1>4, <1>5, <2>1, <2>2, <2>3 DEF LinkInv
<1>9. NewsInv'
  <2>1. CASE s = worker.socket
    BY <1>1, <1>2, <1>6, <2>1 DEF NewsInv, News, Fresh, Before, InHand, f
  <2>2. CASE s # worker.socket
    BY <1>1, <1>2, <1>6, <2>2 DEF NewsInv, News, Fresh, DeskTypeOK
  <2> QED BY <2>1, <2>2
<1>10. ShownInv'
  <2>1. s # 0 BY SocketFacts
  <2>2. CASE s = worker.socket
    BY <1>1, <1>2, <1>4, <1>5, <1>6, <2>1, <2>2 DEF ShownInv, NewsInv, News, Fresh, InHand, f
  <2>3. CASE s # worker.socket
    BY <1>1, <1>2, <1>4, <1>5, <1>6, <2>1, <2>3 DEF ShownInv, News, Fresh, DeskTypeOK
  <2> QED BY <2>2, <2>3
<1>11. LogTellsTrouble' BY <1>1, <1>2 DEF LogTellsTrouble
<1> QED BY <1>7, <1>8, <1>9, <1>10, <1>11 DEF DeskInv

\* The gateway gets the frame that is in hand, and the log what differs.
LEMMA ForwardStep ==
  ASSUME DeskInv, NEW s \in Sockets, Forward(s)
  PROVE  DeskInv'
<1> DEFINE f == loops[s].frame
<1>1. DeskTypeOK /\ LinkInv /\ NewsInv /\ ShownInv /\ LogTellsTrouble BY DEF DeskInv
<1>2. /\ loops[s].pc = "forward"
      /\ loops' = [loops EXCEPT ![s] = [pc |-> "serve"]]
      /\ gate' = [gate EXCEPT !.now = f.report]
      /\ record' = Logged(f)
      /\ author' = [author EXCEPT !.gate = s]
      /\ UNCHANGED <<worker, edits, wires, desk>>
  BY DEF Forward, Goes, Applied, workerVars
<1>3. f \in FrameSet /\ f.report \in ReportSet
  <2>1. loops[s] \in LoopSet BY <1>1 DEF DeskTypeOK
  <2>2. loops[s] \in [pc : {"apply", "forward"}, frame : FrameSet] BY <1>2, <2>1 DEF LoopSet
  <2> QED BY <2>2 DEF FrameSet
<1>4. gate' \in GateSet /\ gate'.now = f.report
  BY <1>1, <1>2, <1>3 DEF DeskTypeOK, GateSet
<1>5. author' \in AuthorSet /\ author'.gate = s /\ author'.desk = author.desk
  BY <1>1, <1>2, SocketFacts DEF DeskTypeOK, AuthorSet
<1>6. /\ loops' \in [Sockets -> LoopSet] /\ loops'[s].pc = "serve"
      /\ \A t \in Sockets : t # s => loops'[t] = loops[t]
  BY <1>1, <1>2 DEF DeskTypeOK, LoopSet
<1>7. record' \in ReportSet /\ LogTellsTrouble'
  <2> HIDE DEF f
  <2> DEFINE said == StatusLogged(f) \/ DegradedLogged(f)
             told == StatusLogged(f) \/ ErrorLogged(f)
  <2>1. /\ record'.degraded = IF said THEN f.report.degraded ELSE record.degraded
        /\ record'.error = IF told THEN f.report.error ELSE record.error
        /\ record' = [degraded |-> record'.degraded, error |-> record'.error]
    BY <1>2 DEF Logged
  <2>2. ~said /\ f.report.degraded # Nil => f.report.degraded = gate.now.degraded
    BY DEF DegradedLogged
  <2>3. ~told /\ f.report.error # Nil => f.report.error = gate.now.error
    BY DEF ErrorLogged
  <2> HIDE DEF said, told
  <2>4. record \in ReportSet BY <1>1 DEF DeskTypeOK
  <2>5. record' \in ReportSet BY <1>3, <2>1, <2>4 DEF ReportSet
  <2>6. LogTellsTrouble' BY <1>1, <1>4, <2>1, <2>2, <2>3 DEF LogTellsTrouble
  <2> QED BY <2>5, <2>6
<1>8. DeskTypeOK' BY <1>1, <1>2, <1>4, <1>5, <1>6, <1>7 DEF DeskTypeOK
<1>9. LinkInv'
  <2>1. s # 0 BY SocketFacts
  <2>2. ASSUME NEW t \in Sockets, t > worker.socket PROVE loops'[t].pc = "none"
    BY <1>1, <1>2, <1>6, <2>2 DEF LinkInv
  <2>3. ASSUME NEW t \in Sockets, loops'[t].pc \in Attending, t = desk'.active
        PROVE  desk'.outbound /\ desk'.connected /\ (loops'[t].pc # "hello" => desk'.phase # "idle")
    BY <1>1, <1>2, <1>6, <2>3 DEF LinkInv, Attending
  <2> QED BY <1>2, <1>5, <2>1, <2>2, <2>3 DEF LinkInv
<1>10. NewsInv'
  <2>1. CASE s = worker.socket
    BY <1>1, <1>2, <1>6, <2>1 DEF NewsInv, News, Fresh, Before, InHand
  <2>2. CASE s # worker.socket
    BY <1>1, <1>2, <1>6, <2>2 DEF NewsInv, News, Fresh, DeskTypeOK
  <2> QED BY <2>1, <2>2
<1>11. ShownInv'
  <2>1. CASE s = worker.socket
    BY <1>1, <1>2, <1>4, <1>5, <1>6, <2>1 DEF ShownInv, NewsInv, News, Fresh, InHand
  <2>2. CASE s # worker.socket
    BY <1>1, <1>2, <1>4, <1>5, <1>6, <2>2 DEF ShownInv, News, Fresh, DeskTypeOK
  <2> QED BY <2>1, <2>2
<1> QED BY <1>7, <1>8, <1>9, <1>10, <1>11 DEF DeskInv

\* A transcript touches the phase alone.
LEMMA NotesIngestStep ==
  ASSUME DeskInv, NEW s \in Sockets, NotesIngest(s)
  PROVE  DeskInv'
<1>1. DeskTypeOK /\ LinkInv /\ NewsInv /\ ShownInv /\ LogTellsTrouble BY DEF DeskInv
<1>2. /\ desk' = [desk EXCEPT !.phase = "ingest"]
      /\ UNCHANGED <<worker, edits, wires, loops, gate, record, author>>
  BY DEF NotesIngest, workerVars, gateVars
<1>3. /\ desk' \in DeskSet /\ desk'.active = desk.active /\ desk'.outbound = desk.outbound
      /\ desk'.connected = desk.connected /\ desk'.shown = desk.shown /\ desk'.phase # "idle"
  BY <1>1, <1>2 DEF DeskTypeOK, DeskSet
<1>4. DeskTypeOK' BY <1>1, <1>2, <1>3 DEF DeskTypeOK
<1>5. LinkInv' BY <1>1, <1>2, <1>3 DEF LinkInv
<1>6. NewsInv' BY <1>1, <1>2 DEF NewsInv, News, Fresh
<1>7. ShownInv' BY <1>1, <1>2, <1>3 DEF ShownInv, News, Fresh
<1>8. LogTellsTrouble' BY <1>1, <1>2 DEF LogTellsTrouble
<1> QED BY <1>4, <1>5, <1>6, <1>7, <1>8 DEF DeskInv

\* A loop that has left serve waits for nothing any more.
LEMMA LoopLeaves ==
  ASSUME DeskInv, NEW s \in Sockets, NEW pc \in {"disconnect", "notify", "ended"},
         loops[s].pc \notin Before, loops' = [loops EXCEPT ![s] = [pc |-> pc]],
         UNCHANGED <<worker, edits, wires, record>>,
         \/ UNCHANGED desk
         \/ desk.active = s /\ desk' = [desk EXCEPT !.outbound = FALSE, !.connected = FALSE, !.phase = "idle"],
         \/ UNCHANGED author
         \/ author' = [author EXCEPT !.desk = 0] /\ desk.active = s
         \/ author' = [author EXCEPT !.gate = s],
         gate' = gate \/ gate' = [gate EXCEPT !.connected = FALSE]
  PROVE  DeskInv'
<1>1. DeskTypeOK /\ LinkInv /\ NewsInv /\ ShownInv /\ LogTellsTrouble BY DEF DeskInv
<1>2. /\ desk' \in DeskSet /\ desk'.active = desk.active
      /\ desk' = desk \/ desk.active = s
  BY <1>1 DEF DeskTypeOK, DeskSet
<1>3. /\ author' \in AuthorSet /\ (author.gate # 0 => author'.gate # 0)
      /\ (author'.desk = author.desk \/ desk.active = s)
      /\ (author'.gate = author.gate \/ author'.gate = s)
  BY <1>1, SocketFacts DEF DeskTypeOK, AuthorSet
<1>4. gate' \in GateSet /\ gate'.now = gate.now BY <1>1 DEF DeskTypeOK, GateSet
<1>5. /\ loops' \in [Sockets -> LoopSet] /\ loops'[s].pc = pc
      /\ \A t \in Sockets : t # s => loops'[t] = loops[t]
  BY <1>1 DEF DeskTypeOK, LoopSet
<1>6. DeskTypeOK' BY <1>1, <1>2, <1>3, <1>4, <1>5 DEF DeskTypeOK
<1>7. LinkInv'
  <2>1. ASSUME NEW t \in Sockets, t > worker.socket PROVE loops'[t].pc = "none"
    BY <1>1, <1>5, <2>1 DEF LinkInv, Before
  <2>2. ASSUME NEW t \in Sockets, loops'[t].pc \in Attending, t = desk'.active
        PROVE  desk'.outbound /\ desk'.connected /\ (loops'[t].pc # "hello" => desk'.phase # "idle")
    <3>1. t # s BY <1>5, <2>2 DEF Attending
    <3>2. desk' = desk BY <1>2, <2>2, <3>1
    <3> QED BY <1>1, <1>5, <2>2, <3>1, <3>2 DEF LinkInv
  <2>3. ASSUME NEW t \in Sockets, loops'[t].pc \in InHand \union {"serve"} PROVE author'.gate # 0
    <3>1. t # s BY <1>5, <2>3 DEF InHand
    <3> QED BY <1>1, <1>3, <1>5, <2>3, <3>1 DEF LinkInv
  <2> QED BY <2>1, <2>2, <2>3 DEF LinkInv
<1>8. NewsInv'
  <2>1. CASE s = worker.socket
    BY <1>1, <1>5, <2>1 DEF NewsInv, News, Fresh, Before, InHand
  <2>2. CASE s # worker.socket
    BY <1>1, <1>5, <2>2 DEF NewsInv, News, Fresh, DeskTypeOK
  <2> QED BY <2>1, <2>2
<1>9. ShownInv'
  <2>1. CASE s = worker.socket BY <1>5, <2>1 DEF ShownInv
  <2>2. CASE s # worker.socket
    BY <1>1, <1>2, <1>3, <1>4, <1>5, <2>2 DEF ShownInv, News, Fresh, DeskTypeOK
  <2> QED BY <2>1, <2>2
<1>10. LogTellsTrouble' BY <1>1, <1>4 DEF LogTellsTrouble
<1> QED BY <1>6, <1>7, <1>8, <1>9, <1>10 DEF DeskInv

\* The three ways of a loop to its end.
LEMMA LoopEndsStep ==
  ASSUME DeskInv, NEW s \in Sockets, EndsLoop(s) \/ Disconnect(s) \/ NotifyDisconnected(s)
  PROVE  DeskInv'
<1>1. CASE EndsLoop(s)
  BY <1>1, LoopLeaves DEF EndsLoop, Goes, Before, workerVars, gateVars
<1>2. CASE Disconnect(s)
  <2>1. /\ loops[s].pc = "disconnect" /\ UNCHANGED <<worker, edits, wires, gate, record>>
    BY <1>2 DEF Disconnect, workerVars, gateVars
  <2>2. loops[s].pc \notin Before BY <2>1 DEF Before
  <2>3. CASE s = desk.active
    <3>1. /\ loops' = [loops EXCEPT ![s] = [pc |-> "notify"]]
          /\ desk' = [desk EXCEPT !.outbound = FALSE, !.connected = FALSE, !.phase = "idle"]
          /\ author' = [author EXCEPT !.desk = 0]
      BY <1>2, <2>3 DEF Disconnect, Goes
    <3> QED BY <2>1, <2>2, <2>3, <3>1, LoopLeaves
  <2>4. CASE s # desk.active
    <3>1. loops' = [loops EXCEPT ![s] = [pc |-> "ended"]] /\ UNCHANGED <<desk, author>>
      BY <1>2, <2>4 DEF Disconnect, Goes
    <3> QED BY <2>1, <2>2, <3>1, LoopLeaves
  <2> QED BY <2>3, <2>4
<1>3. CASE NotifyDisconnected(s)
  BY <1>3, LoopLeaves DEF NotifyDisconnected, Goes, Before, workerVars
<1> QED BY <1>1, <1>2, <1>3

\* The invariant holds before any socket is opened.
LEMMA DeskInitOK == StatusDeskInit => DeskInv
<1> SUFFICES ASSUME StatusDeskInit PROVE DeskInv OBVIOUS
<1>1. Gone \in ReportSet BY DEF Gone, ReportSet
<1>2. /\ worker = [health |-> Nil, error |-> Nil, socket |-> 0, open |-> FALSE] /\ edits = 0
      /\ wires = [s \in Sockets |-> [frames |-> <<>>, closed |-> FALSE]]
      /\ loops = [s \in Sockets |-> [pc |-> "none"]]
      /\ desk = [active |-> 0, outbound |-> FALSE, connected |-> FALSE, shown |-> Gone, phase |-> "idle"]
      /\ gate = [connected |-> FALSE, now |-> Gone] /\ record = Gone
      /\ author = [desk |-> 0, gate |-> 0]
  BY DEF StatusDeskInit
<1>3. worker \in WorkerSet /\ ~worker.open BY <1>2 DEF WorkerSet
<1>4. wires \in [Sockets -> WireSet] /\ loops \in [Sockets -> LoopSet]
  BY <1>2 DEF WireSet, LoopSet
<1>5. desk \in DeskSet /\ gate \in GateSet /\ author \in AuthorSet
  BY <1>1, <1>2 DEF DeskSet, GateSet, AuthorSet
<1>6. DeskTypeOK BY <1>1, <1>2, <1>3, <1>4, <1>5 DEF DeskTypeOK
<1>7. LinkInv BY <1>2 DEF LinkInv, Attending, InHand
<1>8. NewsInv /\ ShownInv BY <1>3 DEF NewsInv, ShownInv
<1>9. LogTellsTrouble BY <1>2 DEF LogTellsTrouble, Gone
<1> QED BY <1>6, <1>7, <1>8, <1>9 DEF DeskInv

\* Every step preserves the invariant.
LEMMA DeskStep == DeskInv /\ [StatusDeskNext]_statusDeskVars => DeskInv'
<1> SUFFICES ASSUME DeskInv, [StatusDeskNext]_statusDeskVars PROVE DeskInv' OBVIOUS
<1>1. CASE HealthChanges \/ ErrorHappens \/ Reports BY <1>1, PageStep
<1>2. CASE SocketOpens BY <1>2, SocketOpensStep
<1>3. CASE SocketCloses BY <1>3, SocketClosesStep
<1>4. ASSUME NEW s \in Sockets,
             \/ Register(s) \/ Hello(s) \/ WorkerConnected(s)
             \/ Accept(s) \/ Apply(s) \/ Forward(s) \/ NotesIngest(s)
             \/ EndsLoop(s) \/ Disconnect(s) \/ NotifyDisconnected(s)
      PROVE  DeskInv'
  BY <1>4, RegisterStep, HelloStep, AnnounceStep, AcceptStep, ApplyStep, ForwardStep,
     NotesIngestStep, LoopEndsStep
<1>5. CASE UNCHANGED statusDeskVars
  <2>1. UNCHANGED <<worker, edits, wires, loops, desk, gate, record, author>>
    BY <1>5 DEF statusDeskVars, workerVars, deskVars, gateVars
  <2>2. DeskTypeOK' /\ LinkInv' BY <2>1 DEF DeskInv, DeskTypeOK, LinkInv
  <2>3. NewsInv' BY <2>1 DEF DeskInv, NewsInv, News, Fresh
  <2>4. ShownInv' BY <2>1 DEF DeskInv, ShownInv, News, Fresh
  <2>5. LogTellsTrouble' BY <2>1 DEF DeskInv, LogTellsTrouble
  <2> QED BY <2>2, <2>3, <2>4, <2>5 DEF DeskInv
<1> QED BY <1>1, <1>2, <1>3, <1>4, <1>5 DEF StatusDeskNext

\* The invariant implies the property: who wrote last is the loop of the open socket.
LEMMA ShownAsItIs == DeskInv => TroubleIsKnown
<1> SUFFICES ASSUME DeskInv, Handled PROVE ReportIsShown
  BY DEF DeskInv, TroubleIsKnown, ReportIsShown
<1> DEFINE s == worker.socket
<1>1. DeskTypeOK /\ LinkInv /\ NewsInv /\ ShownInv BY DEF DeskInv
<1>2. /\ worker.open /\ News = <<>> /\ desk.active = s /\ loops[s].pc = "serve" /\ s \in Sockets
  BY <1>1 DEF Handled, News, DeskTypeOK
<1>3. desk.outbound /\ desk.connected /\ desk.phase # "idle" /\ author.gate # 0
  BY <1>1, <1>2 DEF LinkInv, Attending
<1>4. author.desk # 0 BY <1>1, <1>2 DEF ShownInv
<1>5. worker \in WorkerSet BY <1>1 DEF DeskTypeOK
<1>6. Fresh = [degraded |-> worker.health, error |-> worker.error]
  BY <1>2, <1>5, ReportFacts DEF Fresh
<1>7. author.desk = s => desk.shown = Fresh BY <1>1, <1>2 DEF ShownInv
<1>8. author.gate = s => gate.now = Fresh BY <1>1, <1>2 DEF ShownInv
<1> QED BY <1>3, <1>4, <1>6, <1>7, <1>8 DEF ReportIsShown

\* Page, wires, loops, service, gateway and log have their types in every state.
THEOREM DeskTypeCorrect == StatusDeskSpec => []DeskTypeOK
<1>1. DeskInv => DeskTypeOK BY DEF DeskInv
<1> QED BY <1>1, DeskInitOK, DeskStep, PTL DEF StatusDeskSpec

\* TroubleIsKnown, for any number of sockets, changes and frames under way: whatever
\* is lost with a socket, the snapshot and the gateway show the worker's degraded reason and
\* error once the frames of the open socket are handled, unless the loop of a lost socket wrote
\* last, and the log names them.
THEOREM TroubleAlwaysKnown == StatusDeskSpec => []TroubleIsKnown
BY DeskInitOK, DeskStep, ShownAsItIs, PTL DEF StatusDeskSpec

================================================================================
