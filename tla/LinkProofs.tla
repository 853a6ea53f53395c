---------------------------- MODULE LinkProofs ----------------------------
(***************************************************************************)
(* Proofs about Link: visitors are taken to the tunnel they asked for,     *)
(* none is dropped whose tunnel was announced, and the two ends of the     *)
(* connection agree on which tunnels are open.                             *)
(*                                                                         *)
(* The argument speaks of the two channels by what they hold: which        *)
(* messages, and that of some kinds there is one at most.                  *)
(***************************************************************************)
EXTENDS Link, SequenceTheorems, TLAPS

Messages == [type : {"open", "close", "opened", "error", "kick", "eof"},
             id : Ids \cup {NoId}, name : Names \cup {None}, host : Hosts \cup {None}]

Commands == [cmd : {"open", "close"}, name : Names, host : Hosts \cup {None}]

Asks == {"open"}
Replies == {"opened", "error"}

\* A message of some type with an id is in the channel.
Has(channel, type, i) ==
  \E k \in DOMAIN channel : channel[k].type = type /\ channel[k].id = i

HasAny(channel, types) == \E k \in DOMAIN channel : channel[k].type \in types

AtMostOne(channel, types) ==
  \A k, l \in DOMAIN channel :
    channel[k].type \in types /\ channel[l].type \in types => k = l

\* A message about a tunnel carries the name that its id was given out for, and
\* an open a host.
Honest(m, home) ==
  /\ m.type \notin {"kick", "eof"} => m.id \in Ids /\ m.name \in Names /\ home[m.id] = m.name
  /\ m.type = "open" => m.host \in Hosts

AllHonest(channel, home) == \A k \in DOMAIN channel : Honest(channel[k], home)

-----------------------------------------------------------------------------
(* The channels. *)

\* What a channel holds with one message more.
LEMMA ChannelAppend ==
  ASSUME NEW s \in Seq(Messages), NEW m \in Messages, NEW home, NEW types
  PROVE  /\ Append(s, m) \in Seq(Messages)
         /\ \A type, i : Has(Append(s, m), type, i) <=>
              Has(s, type, i) \/ (m.type = type /\ m.id = i)
         /\ HasAny(Append(s, m), types) <=> HasAny(s, types) \/ m.type \in types
         /\ AllHonest(s, home) /\ Honest(m, home) => AllHonest(Append(s, m), home)
         /\ AtMostOne(s, types) /\ (m.type \notin types \/ ~HasAny(s, types)) =>
              AtMostOne(Append(s, m), types)
<1>1. /\ Append(s, m) \in Seq(Messages)
      /\ DOMAIN Append(s, m) = 1..(Len(s) + 1) /\ DOMAIN s = 1..Len(s) /\ Len(s) \in Nat
      /\ \A k \in 1..Len(s) : Append(s, m)[k] = s[k]
      /\ Append(s, m)[Len(s) + 1] = m
  OBVIOUS
<1>2. \A k \in DOMAIN Append(s, m) :
        \/ k \in DOMAIN s /\ Append(s, m)[k] = s[k]
        \/ k = Len(s) + 1 /\ Append(s, m)[k] = m
  <2>1. \A k \in 1..(Len(s) + 1) : k \in 1..Len(s) \/ k = Len(s) + 1
    BY <1>1
  <2>2. QED
    BY <1>1, <2>1
<1>3. \A k \in DOMAIN s : k \in DOMAIN Append(s, m) /\ Append(s, m)[k] = s[k]
  BY <1>1
<1>4. Len(s) + 1 \in DOMAIN Append(s, m)
  BY <1>1
<1>5. ASSUME NEW type, NEW i
      PROVE  Has(Append(s, m), type, i) <=> Has(s, type, i) \/ (m.type = type /\ m.id = i)
  BY <1>1, <1>2, <1>3, <1>4 DEF Has
<1>6. HasAny(Append(s, m), types) <=> HasAny(s, types) \/ m.type \in types
  BY <1>1, <1>2, <1>3, <1>4 DEF HasAny
<1>7. AllHonest(s, home) /\ Honest(m, home) => AllHonest(Append(s, m), home)
  BY <1>2 DEF AllHonest
<1>8. AtMostOne(s, types) /\ (m.type \notin types \/ ~HasAny(s, types)) =>
        AtMostOne(Append(s, m), types)
  BY <1>2 DEF AtMostOne, HasAny
<1>9. QED
  BY <1>1, <1>5, <1>6, <1>7, <1>8

\* What is left when the first message has been taken.
LEMMA ChannelTail ==
  ASSUME NEW s \in Seq(Messages), s # <<>>, NEW home, NEW types
  PROVE  /\ Tail(s) \in Seq(Messages) /\ Head(s) \in Messages
         /\ \A type, i : Has(s, type, i) <=>
              Has(Tail(s), type, i) \/ (Head(s).type = type /\ Head(s).id = i)
         /\ HasAny(s, types) <=> HasAny(Tail(s), types) \/ Head(s).type \in types
         /\ AllHonest(s, home) => AllHonest(Tail(s), home) /\ Honest(Head(s), home)
         /\ AtMostOne(s, types) => AtMostOne(Tail(s), types)
         /\ AtMostOne(s, types) /\ Head(s).type \in types => ~HasAny(Tail(s), types)
<1>1. /\ Tail(s) \in Seq(Messages) /\ Head(s) \in Messages
      /\ DOMAIN s = 1..Len(s) /\ Len(s) \in Nat /\ Len(s) > 0
      /\ Len(Tail(s)) = Len(s) - 1
      /\ DOMAIN Tail(s) = 1..(Len(s) - 1)
      /\ \A k \in 1..(Len(s) - 1) : Tail(s)[k] = s[k + 1]
      /\ Head(s) = s[1]
  OBVIOUS
<1>2. \A k \in DOMAIN Tail(s) : k + 1 \in DOMAIN s /\ k \in Nat /\ Tail(s)[k] = s[k + 1]
  BY <1>1
<1>3. \A k \in DOMAIN s : k = 1 \/ (\E j \in DOMAIN Tail(s) : k = j + 1 /\ Tail(s)[j] = s[k])
  <2> SUFFICES ASSUME NEW k \in DOMAIN s, k # 1
               PROVE  \E j \in DOMAIN Tail(s) : k = j + 1 /\ Tail(s)[j] = s[k]
    OBVIOUS
  <2>1. k - 1 \in DOMAIN Tail(s) /\ k = (k - 1) + 1
    BY <1>1
  <2>2. Tail(s)[k - 1] = s[(k - 1) + 1]
    BY <1>2, <2>1
  <2>3. QED
    BY <2>1, <2>2
<1>4. 1 \in DOMAIN s
  BY <1>1
<1>5. ASSUME NEW type, NEW i
      PROVE  Has(s, type, i) <=> Has(Tail(s), type, i) \/ (Head(s).type = type /\ Head(s).id = i)
  BY <1>1, <1>2, <1>3, <1>4 DEF Has
<1>6. HasAny(s, types) <=> HasAny(Tail(s), types) \/ Head(s).type \in types
  BY <1>1, <1>2, <1>3, <1>4 DEF HasAny
<1>7. AllHonest(s, home) => AllHonest(Tail(s), home) /\ Honest(Head(s), home)
  BY <1>1, <1>2, <1>4 DEF AllHonest
<1>8. AtMostOne(s, types) => AtMostOne(Tail(s), types)
  BY <1>2 DEF AtMostOne
<1>9. AtMostOne(s, types) /\ Head(s).type \in types => ~HasAny(Tail(s), types)
  BY <1>1, <1>2, <1>4 DEF AtMostOne, HasAny
<1>10. QED
  BY <1>1, <1>5, <1>6, <1>7, <1>8, <1>9

\* A channel holds nothing that was not in the one it was cut from.
Within(t, s) ==
  /\ t \in Seq(Messages)
  /\ \A type, i : type # "eof" /\ Has(t, type, i) => Has(s, type, i)
  /\ \A types : "eof" \notin types /\ HasAny(t, types) => HasAny(s, types)
  /\ \A types : "eof" \notin types /\ AtMostOne(s, types) => AtMostOne(t, types)
  /\ \A home : AllHonest(s, home) => AllHonest(t, home)

\* A stream that breaks keeps its first messages.
LEMMA ChannelCut ==
  ASSUME NEW s \in Seq(Messages), NEW n \in 0..Len(s)
  PROVE  Within(SubSeq(s, 1, n), s)
<1>1. /\ SubSeq(s, 1, n) \in Seq(Messages)
      /\ \A k \in DOMAIN SubSeq(s, 1, n) : k \in DOMAIN s /\ SubSeq(s, 1, n)[k] = s[k]
  OBVIOUS
<1>2. QED
  BY <1>1 DEF Within, Has, HasAny, AtMostOne, AllHonest

\* The end of a stream adds nothing but itself.
LEMMA ChannelClose ==
  ASSUME NEW s, NEW t \in Seq(Messages), Within(t, s)
  PROVE  Within(Close(t), s)
<1>1. Eof \in Messages /\ Eof.type = "eof"
  BY DEF Eof, Message, Messages
<1>2. CASE Close(t) = t
  BY <1>2
<1>3. CASE Close(t) = Append(t, Eof)
  <2>1. Append(t, Eof) \in Seq(Messages)
    BY <1>1
  <2>2. ASSUME NEW type, NEW i, type # "eof", Has(Append(t, Eof), type, i)
        PROVE  Has(s, type, i)
    BY <1>1, <2>2, ChannelAppend DEF Within
  <2>3. ASSUME NEW types, "eof" \notin types, HasAny(Append(t, Eof), types)
        PROVE  HasAny(s, types)
    BY <1>1, <2>3, ChannelAppend DEF Within
  <2>4. ASSUME NEW types, "eof" \notin types, AtMostOne(s, types)
        PROVE  AtMostOne(Append(t, Eof), types)
    BY <1>1, <2>4, ChannelAppend DEF Within
  <2>5. ASSUME NEW home, AllHonest(s, home)
        PROVE  AllHonest(Append(t, Eof), home)
    BY <1>1, <2>5, ChannelAppend DEF Within, Honest
  <2>6. QED
    BY <1>3, <2>1, <2>2, <2>3, <2>4, <2>5 DEF Within
<1>4. QED
  BY <1>2, <1>3 DEF Close

\* Nothing is in an empty channel.
LEMMA ChannelEmpty == \A s : s \in Seq(Messages) => Within(<<>>, s) /\ Within(s, s)
BY DEF Within, Has, HasAny, AtMostOne, AllHonest

-----------------------------------------------------------------------------
(* The invariant.  The name that each id was given out for is the same       *)
(* wherever the id is, or has been: home.                                    *)

VisitorStates ==
  [at : {"away", "stream", "accepted", "dropped", "served", "drawn", "recorded", "gone"},
   name : Names \cup {None}, id : Ids \cup {NoId}, promised : BOOLEAN,
   taken_to : Names \cup {None}, record : Nat]

LinkTypeOK ==
  /\ calls \in Seq(Commands)
  /\ calling \in Names \cup {None}
  /\ promised \in [Names -> Ids \cup {NoId}]
  /\ control \in {"running", "replying", "ended"}
  /\ next_id \in Nat \ {0}
  /\ pending \in [Ids -> Names \cup {None}]
  /\ by_name \in [Names -> Ids \cup {NoId}]
  /\ ports \in [Ids -> Names \cup {None}]
  /\ answered \in Ids \cup {NoId}
  /\ to_server \in Seq(Messages)
  /\ to_client \in Seq(Messages)
  /\ superseded \subseteq Ids
  /\ tunnels \in [Hosts -> [id : Ids \cup {NoId}, name : Names \cup {None}]]
  /\ visitor \in [Visitors -> VisitorStates]
  /\ next_record \in Nat

\* A visitor's stream, from its header to the look-up of its route.
OnItsWay(v) == v.at \in {"stream", "accepted", "dropped"}

\* Where an id goes with a name, it is the name it was given out for; an id to
\* come has gone with none.
Homes(home) ==
  /\ \A i \in Ids : pending[i] \in {None, home[i]} /\ ports[i] \in {None, home[i]}
  /\ \A n \in Names : by_name[n] # NoId => home[by_name[n]] = n
  /\ \A h \in Hosts : tunnels[h] # NoTunnel =>
       /\ tunnels[h].id \in Ids /\ tunnels[h].name \in Names
       /\ home[tunnels[h].id] = tunnels[h].name
  /\ AllHonest(to_server, home) /\ AllHonest(to_client, home)
  /\ \A v \in Visitors : OnItsWay(visitor[v]) =>
       visitor[v].id \in Ids /\ visitor[v].name \in Names /\ home[visitor[v].id] = visitor[v].name
  /\ control # "ended" => \A i \in Ids : i >= next_id => home[i] = None

\* One open at a time is in the command channel, on its way, or on its way back;
\* the engine waits for it.
OneOpen ==
  /\ \A i \in Ids : pending[i] # None =>
       pending[i] = calling /\ calls = <<>> /\ control = "running"
  /\ \A i, j \in Ids : pending[i] # None /\ pending[j] # None => i = j
  /\ \A k \in DOMAIN calls : calls[k].cmd = "open" =>
       /\ k = Len(calls) /\ calls[k].name = calling /\ calls[k].host \in Hosts
       /\ next_id \in Ids /\ control = "running"
       /\ \A i \in Ids : pending[i] = None
  /\ control # "ended" =>
       /\ \A i \in Ids : Has(to_server, "open", i) => pending[i] # None
       /\ \A i \in Ids : Has(to_client, "opened", i) \/ Has(to_client, "error", i) =>
            pending[i] # None
       /\ AtMostOne(to_server, Asks) /\ AtMostOne(to_client, Replies)
       /\ HasAny(to_client, Replies) => ~HasAny(to_server, Asks)
  /\ control = "replying" =>
       /\ calling # None /\ calls = <<>>
       /\ answered # NoId /\ ports[answered] = calling
  /\ control # "replying" => answered = NoId
  /\ control = "ended" => calls = <<>> /\ calling = None

\* What the engine has been promised has a route, until the engine closes it; an id
\* that was promised once is not promised again, and has no route again.
Promises ==
  /\ \A n \in Names : promised[n] # NoId =>
       /\ control # "ended"
       /\ ports[promised[n]] = n
       /\ pending[promised[n]] = None /\ answered # promised[n]
  /\ \A k \in DOMAIN calls : calls[k].cmd = "close" => promised[calls[k].name] = NoId
  /\ \A v \in Visitors : OnItsWay(visitor[v]) /\ visitor[v].promised =>
       /\ pending[visitor[v].id] = None /\ answered # visitor[v].id
       /\ visitor[v].at = "dropped" => ports[visitor[v].id] = None

\* The two ends agree, but for what is on its way: the messages on their way are
\* about what the two ends know.
Ends ==
  /\ \A n \in Names : by_name[n] # NoId =>
       /\ ports[by_name[n]] = n /\ pending[by_name[n]] = None
       /\ by_name[n] \notin superseded
  /\ \A i \in superseded : ports[i] # None /\ pending[i] = None
  /\ server = "up" /\ mux = "up" /\ control # "ended" =>
       /\ \A h \in Hosts : tunnels[h] # NoTunnel =>
            \/ by_name[tunnels[h].name] = tunnels[h].id
            \/ pending[tunnels[h].id] # None /\ Has(to_client, "opened", tunnels[h].id)
            \/ Has(to_server, "close", tunnels[h].id)
            \/ tunnels[h].id \in superseded
       /\ \A n \in Names : by_name[n] # NoId =>
            Serves(by_name[n]) /\ ~Has(to_server, "close", by_name[n])
       /\ \A i \in superseded : Serves(i) /\ ~Has(to_server, "close", i)
       /\ \A i \in Ids : Has(to_client, "opened", i) /\ pending[i] # None =>
            Serves(i) /\ ~Has(to_server, "close", i)
       /\ \A i \in Ids : Has(to_server, "open", i) => ~Has(to_server, "close", i)

Consistent(home) ==
  LinkTypeOK /\ Homes(home) /\ OneOpen /\ Promises /\ Ends /\ DeliveredHome

LinkInv == \E home \in [Ids -> Names \cup {None}] : Consistent(home)

-----------------------------------------------------------------------------
(* The command channel. *)

\* The command channel with one call more.
LEMMA CallsAppend ==
  ASSUME NEW s \in Seq(Commands), NEW c \in Commands
  PROVE  /\ Append(s, c) \in Seq(Commands)
         /\ Append(s, c) # <<>>
         /\ \A k \in DOMAIN Append(s, c) :
              \/ k \in DOMAIN s /\ Append(s, c)[k] = s[k]
              \/ k = Len(Append(s, c)) /\ Append(s, c)[k] = c
<1>1. /\ Append(s, c) \in Seq(Commands)
      /\ Len(Append(s, c)) = Len(s) + 1 /\ Len(s) \in Nat
      /\ DOMAIN Append(s, c) = 1..(Len(s) + 1) /\ DOMAIN s = 1..Len(s)
      /\ \A k \in 1..Len(s) : Append(s, c)[k] = s[k]
      /\ Append(s, c)[Len(s) + 1] = c
  OBVIOUS
<1>2. \A k \in 1..(Len(s) + 1) : k \in 1..Len(s) \/ k = Len(s) + 1
  BY <1>1
<1>3. Append(s, c) # <<>>
  BY <1>1
<1>4. QED
  BY <1>1, <1>2, <1>3

\* What is left when the first call has been taken.
LEMMA CallsTail ==
  ASSUME NEW s \in Seq(Commands), s # <<>>
  PROVE  /\ Tail(s) \in Seq(Commands)
         /\ 1 \in DOMAIN s /\ Head(s) = s[1] /\ Head(s) \in Commands
         /\ 1 = Len(s) => Tail(s) = <<>>
         /\ \A k \in DOMAIN Tail(s) :
              k + 1 \in DOMAIN s /\ Tail(s)[k] = s[k + 1] /\ (k + 1 = Len(s) => k = Len(Tail(s)))
<1>1. /\ Tail(s) \in Seq(Commands)
      /\ DOMAIN s = 1..Len(s) /\ Len(s) \in Nat /\ Len(s) > 0
      /\ Len(Tail(s)) = Len(s) - 1 /\ DOMAIN Tail(s) = 1..(Len(s) - 1)
      /\ \A k \in 1..(Len(s) - 1) : Tail(s)[k] = s[k + 1]
      /\ Head(s) = s[1]
  OBVIOUS
<1>2. 1 \in DOMAIN s /\ s[1] \in Commands
  BY <1>1
<1>3. 1 = Len(s) => Tail(s) = <<>>
  <2>1. \A t \in Seq(Commands) : Len(t) = 0 => t = <<>>
    BY EmptySeq
  <2>2. PICK t \in Seq(Commands) : t = Tail(s)
    BY <1>1
  <2>3. 1 = Len(s) => Len(t) = 0
    BY <1>1, <2>2
  <2>4. QED
    BY <2>1, <2>2, <2>3
<1>4. QED
  BY <1>1, <1>2, <1>3

-----------------------------------------------------------------------------
(* The engine's calls. *)

\* The engine asks for a tunnel when it waits for none.
LEMMA CallOpenKeeps ==
  ASSUME NEW home, Consistent(home), NEW n \in Names, NEW h \in HostsOf[n], CallOpen(n, h)
  PROVE  Consistent(home)'
<1> USE DEF CallOpen, controlVars, wireVars, serverVars, inspectorVars, Consistent
<1>1. LinkTypeOK /\ LinkAssumption
  BY LinkAssumption
<1>2. /\ Command("open", n, h) \in Commands /\ h \in Hosts
      /\ Command("open", n, h).cmd = "open" /\ Command("open", n, h).name = n
      /\ Command("open", n, h).host = h
  BY LinkAssumption DEF Command, Commands
<1>3. LinkTypeOK'
  BY <1>1, <1>2, CallsAppend DEF LinkTypeOK
<1>4. Homes(home)'
  BY DEF Homes
<1>5. \A i \in Ids : pending[i] = None
  BY <1>1 DEF OneOpen, LinkTypeOK, LinkAssumption
<1>6. next_id \in Ids
  BY <1>1 DEF LinkTypeOK, LinkAssumption, Ids
<1>7. \A k \in DOMAIN calls : calls[k].cmd # "open"
  <2> SUFFICES ASSUME NEW k \in DOMAIN calls, calls[k].cmd = "open" PROVE FALSE
    OBVIOUS
  <2>1. calls[k] \in Commands /\ calls[k].name = calling
    BY <1>1 DEF OneOpen, LinkTypeOK
  <2>2. QED
    BY <2>1, LinkAssumption DEF Commands
<1>8. control = "running"
  BY <1>1 DEF OneOpen, LinkTypeOK
<1>9. OneOpen'
  BY <1>1, <1>2, <1>5, <1>6, <1>7, <1>8, CallsAppend DEF OneOpen, LinkTypeOK
<1>10. Promises'
  BY <1>1, <1>2, CallsAppend DEF Promises, LinkTypeOK
<1>11. Ends' /\ DeliveredHome'
  BY DEF Ends, DeliveredHome, Serves
<1>12. QED
  BY <1>3, <1>4, <1>9, <1>10, <1>11

\* A promise ends with the engine's close.
LEMMA CallCloseKeeps ==
  ASSUME NEW home, Consistent(home), NEW n \in Names, CallClose(n)
  PROVE  Consistent(home)'
<1> USE DEF CallClose, controlVars, wireVars, serverVars, inspectorVars, Consistent
<1>1. /\ LinkTypeOK /\ LinkAssumption
      /\ Command("close", n, None) \in Commands
      /\ Command("close", n, None).cmd = "close" /\ Command("close", n, None).name = n
  BY LinkAssumption DEF Command, Commands
<1>2. LinkTypeOK'
  BY <1>1, CallsAppend DEF LinkTypeOK
<1>3. Homes(home)'
  BY DEF Homes
<1>4. /\ \A i \in Ids : pending[i] = None
      /\ control = "running"
  BY <1>1 DEF OneOpen, LinkTypeOK, LinkAssumption
<1>5. \A k \in DOMAIN calls : calls[k].cmd # "open"
  <2> SUFFICES ASSUME NEW k \in DOMAIN calls, calls[k].cmd = "open" PROVE FALSE
    OBVIOUS
  <2>1. calls[k] \in Commands /\ calls[k].name = calling
    BY <1>1 DEF OneOpen, LinkTypeOK
  <2>2. QED
    BY <2>1, LinkAssumption DEF Commands
<1>6. OneOpen'
  BY <1>1, <1>4, <1>5, CallsAppend DEF OneOpen, LinkTypeOK
<1>7. Promises'
  <2>1. /\ promised'[n] = NoId
        /\ \A m \in Names : promised'[m] \in {promised[m], NoId}
    BY <1>1 DEF LinkTypeOK
  <2>2. \A k \in DOMAIN calls' : calls'[k].cmd = "close" => promised'[calls'[k].name] = NoId
    <3> SUFFICES ASSUME NEW k \in DOMAIN calls', calls'[k].cmd = "close"
                 PROVE  promised'[calls'[k].name] = NoId
      OBVIOUS
    <3>1. \/ k \in DOMAIN calls /\ calls'[k] = calls[k]
          \/ calls'[k] = Command("close", n, None)
      BY <1>1, CallsAppend DEF LinkTypeOK
    <3>2. \A j \in DOMAIN calls : calls[j] \in Commands
      BY <1>1 DEF LinkTypeOK
    <3>3. calls'[k].name \in Names
      BY <1>1, <3>1, <3>2 DEF Commands
    <3>4. QED
      BY <1>1, <2>1, <3>1, <3>3 DEF Promises
  <2>3. QED
    BY <2>1, <2>2 DEF Promises
<1>9. Ends' /\ DeliveredHome'
  BY DEF Ends, DeliveredHome, Serves
<1>10. QED
  BY <1>2, <1>3, <1>6, <1>7, <1>9

\* Steps that touch neither the messages nor the tunnels.
LEMMA AsideKeeps ==
  ASSUME NEW home, Consistent(home),
         Disconnect \/ DataPlaneEnds \/ UserClears \/ UNCHANGED vars
  PROVE  Consistent(home)'
<1>1. UNCHANGED <<calls, calling, promised, control, next_id, pending, by_name, superseded, ports, answered,
                  to_server, to_client, mux, server, tunnels, visitor, next_record>>
  BY DEF Disconnect, DataPlaneEnds, UserClears, Clear, ClearAll, vars, engineVars, controlVars,
         serverVars, wireVars, inspectorVars
<1> USE <1>1 DEF Consistent
<1>2. LinkTypeOK' /\ Homes(home)'
  BY DEF LinkTypeOK, Homes
<1>3. OneOpen' /\ Promises'
  BY DEF OneOpen, Promises
<1>4. Ends' /\ DeliveredHome'
  BY DEF Ends, DeliveredHome, Serves
<1>5. QED
  BY <1>2, <1>3, <1>4

\* The end of the control loop takes its own knowledge with it, and every promise.
LEMMA EndLoopKeeps ==
  ASSUME NEW home, Consistent(home), control = "running", EndLoop
  PROVE  Consistent(home)'
<1> USE DEF EndLoop, LoopGone, serverVars, inspectorVars, Consistent
<1>1. LinkTypeOK
  OBVIOUS
<1>2. Within(to_server', to_server) /\ Within(to_client', to_client)
  BY <1>1, ChannelEmpty, ChannelClose DEF LinkTypeOK
<1>3. LinkTypeOK'
  BY <1>1, <1>2 DEF LinkTypeOK, Within
<1>4. Homes(home)'
  <2>1. AllHonest(to_server', home) /\ AllHonest(to_client', home)
    BY <1>2 DEF Homes, Within
  <2>2. QED
    BY <2>1 DEF Homes
<1>5. OneOpen'
  BY <1>1 DEF OneOpen, LinkTypeOK
<1>6. Promises'
  <2>1. \A v \in Visitors : OnItsWay(visitor[v]) => visitor[v].id \in Ids
    BY DEF Homes
  <2>2. QED
    BY <1>1, <2>1 DEF Promises, OneOpen, Ids, NoId
<1>8. Ends' /\ DeliveredHome'
  BY DEF Ends, DeliveredHome, Serves
<1>9. QED
  BY <1>3, <1>4, <1>5, <1>6, <1>8

-----------------------------------------------------------------------------
(* The control loop. *)

\* An open is sent under an id that has gone with no name yet.
LEMMA SendOpenKeeps ==
  ASSUME NEW home \in [Ids -> Names \cup {None}], Consistent(home), SendOpen
  PROVE  \E h \in [Ids -> Names \cup {None}] : Consistent(h)'
<1> DEFINE n == Head(calls).name
           m == Message("open", next_id, n, Head(calls).host)
<1> USE DEF Consistent
<1>1. /\ LinkTypeOK /\ LinkAssumption
      /\ Head(calls) \in Commands /\ Tail(calls) \in Seq(Commands)
      /\ n \in Names /\ n = calling /\ next_id \in Ids /\ Head(calls).host \in Hosts
      /\ Tail(calls) = <<>>
      /\ \A i \in Ids : pending[i] = None
      /\ control = "running"
  <2>1. LinkTypeOK /\ calls # <<>> /\ Head(calls).cmd = "open"
    BY DEF SendOpen
  <2>2. calls \in Seq(Commands)
    BY <2>1 DEF LinkTypeOK
  <2>3. /\ 1 = Len(calls) /\ Head(calls).name = calling /\ Head(calls).host \in Hosts
        /\ next_id \in Ids /\ control = "running"
        /\ \A i \in Ids : pending[i] = None
    BY <2>1, <2>2, CallsTail DEF OneOpen
  <2>4. QED
    BY <2>1, <2>2, <2>3, CallsTail, LinkAssumption DEF Commands
<1>2. /\ pending' = [pending EXCEPT ![next_id] = n]
      /\ next_id' = next_id + 1 /\ calls' = <<>>
      /\ to_server' = to_server \/ to_server' = Append(to_server, m)
      /\ UNCHANGED <<calling, promised, control, by_name, superseded, ports, answered, to_client, mux, server,
                     tunnels, visitor, next_record>>
  BY <1>1 DEF SendOpen, FreshId, serverVars, inspectorVars
<1>3. /\ m \in Messages /\ m.type = "open" /\ m.id = next_id /\ m.name = n
      /\ m.host \in Hosts
  BY <1>1 DEF Message, Messages
<1> HIDE DEF n, m
<1>0. PICK h \in [Ids -> Names \cup {None}] : h = [home EXCEPT ![next_id] = n]
  BY <1>1
<1>4. /\ h[next_id] = n /\ home[next_id] = None
      /\ \A i \in Ids : i # next_id => h[i] = home[i]
      /\ \A i \in Ids : home[i] # None => h[i] = home[i] /\ i # next_id
      /\ None \notin Names
  BY <1>0, <1>1 DEF Homes, LinkTypeOK, LinkAssumption, Ids
<1>5. /\ AllHonest(to_server, h) /\ AllHonest(to_client, h)
      /\ Honest(m, h)
  <2>1. ASSUME NEW x, Honest(x, home)
        PROVE  Honest(x, h)
    BY <1>1, <1>4, <2>1 DEF Honest
  <2>2. QED
    BY <1>1, <1>3, <1>4, <2>1 DEF Homes, AllHonest, Honest
<1>6. /\ to_server' \in Seq(Messages) /\ AllHonest(to_server', h)
      /\ \A i \in Ids : Has(to_server', "open", i) => Has(to_server, "open", i) \/ i = next_id
      /\ \A i \in Ids : Has(to_server', "close", i) <=> Has(to_server, "close", i)
      /\ ~HasAny(to_server, Asks) /\ AtMostOne(to_server, Asks) => AtMostOne(to_server', Asks)
  <2>1. to_server \in Seq(Messages) /\ Asks = {"open"}
    BY <1>1 DEF LinkTypeOK, Asks
  <2>2. CASE to_server' = to_server
    BY <1>5, <2>1, <2>2
  <2>3. CASE to_server' = Append(to_server, m)
    <3>1. /\ Append(to_server, m) \in Seq(Messages)
          /\ AllHonest(Append(to_server, m), h)
          /\ \A type, i : Has(Append(to_server, m), type, i) <=>
               Has(to_server, type, i) \/ (m.type = type /\ m.id = i)
          /\ ~HasAny(to_server, Asks) /\ AtMostOne(to_server, Asks) =>
               AtMostOne(Append(to_server, m), Asks)
      BY <1>3, <1>5, <2>1, ChannelAppend
    <3>2. QED
      BY <1>3, <2>3, <3>1
  <2>4. QED
    BY <1>2, <2>2, <2>3
<1>7. LinkTypeOK'
  <2>1. /\ pending' \in [Ids -> Names \cup {None}]
        /\ next_id' \in Nat \ {0}
        /\ calls' \in Seq(Commands)
    BY <1>1, <1>2 DEF LinkTypeOK
  <2>2. QED
    BY <1>1, <1>2, <1>6, <2>1 DEF LinkTypeOK
<1>8. Homes(h)'
  <2>1. \A i \in Ids : pending'[i] \in {None, h[i]} /\ ports[i] \in {None, h[i]}
    BY <1>1, <1>2, <1>4 DEF Homes, LinkTypeOK
  <2>2. /\ \A p \in Names : by_name[p] # NoId => h[by_name[p]] = p
        /\ \A g \in Hosts : tunnels[g] # NoTunnel =>
             /\ tunnels[g].id \in Ids /\ tunnels[g].name \in Names
             /\ h[tunnels[g].id] = tunnels[g].name
    <3>1. \A i \in Ids : home[i] \in Names => h[i] = home[i]
      BY <1>4
    <3>2. \A p \in Names : by_name[p] \in Ids \cup {NoId}
      BY <1>1 DEF LinkTypeOK
    <3>3. QED
      BY <3>1, <3>2 DEF Homes
  <2>3. \A v \in Visitors : OnItsWay(visitor[v]) =>
          visitor[v].id \in Ids /\ visitor[v].name \in Names /\ h[visitor[v].id] = visitor[v].name
    BY <1>4 DEF Homes
  <2>4. \A i \in Ids : i >= next_id + 1 => h[i] = None
    <3>1. next_id \in Nat /\ \A i \in Ids : i \in Nat
      BY <1>1 DEF LinkTypeOK, Ids
    <3>2. QED
      BY <1>1, <1>4, <3>1 DEF Homes
  <2>5. AllHonest(to_server', h) /\ AllHonest(to_client', h)
    BY <1>2, <1>5, <1>6
  <2>6. QED
    BY <1>2, <2>1, <2>2, <2>3, <2>4, <2>5 DEF Homes
<1>9. /\ \A i \in Ids : ~Has(to_server, "open", i)
      /\ \A i \in Ids : ~Has(to_client, "opened", i) /\ ~Has(to_client, "error", i)
      /\ ~HasAny(to_server, Asks) /\ ~HasAny(to_client, Replies)
  <2>1. /\ \A i \in Ids : ~Has(to_server, "open", i)
        /\ \A i \in Ids : ~Has(to_client, "opened", i) /\ ~Has(to_client, "error", i)
    BY <1>1 DEF OneOpen
  <2>2. QED
    BY <2>1 DEF Homes, AllHonest, Honest, Has, HasAny, Asks, Replies
<1>10. OneOpen'
  BY <1>1, <1>2, <1>6, <1>9 DEF OneOpen, LinkTypeOK
<1>11. Promises'
  <2>1. \A i \in Ids : i # next_id => pending'[i] = pending[i]
    BY <1>1, <1>2 DEF LinkTypeOK
  <2>2. ASSUME NEW p \in Names, promised[p] # NoId
        PROVE  promised[p] \in Ids /\ promised[p] # next_id
    <3>1. promised[p] \in Ids /\ ports[promised[p]] = p
      BY <1>1, <2>2 DEF Promises, LinkTypeOK
    <3>2. ports[next_id] = None
      BY <1>1, <1>4 DEF Homes
    <3>3. QED
      BY <1>1, <3>1, <3>2
  <2>3. ASSUME NEW v \in Visitors, OnItsWay(visitor[v])
        PROVE  visitor[v].id \in Ids /\ visitor[v].id # next_id
    BY <1>4, <2>3 DEF Homes
  <2>4. DOMAIN calls' = {}
    BY <1>2
  <2>5. QED
    BY <1>2, <2>1, <2>2, <2>3, <2>4 DEF Promises
<1>12. Ends'
  <2>1. ~Has(to_server, "close", next_id)
    BY <1>1, <1>4 DEF Homes, AllHonest, Honest, Has
  <2>2. /\ \A p \in Names : by_name[p] # NoId => by_name[p] \in Ids /\ by_name[p] # next_id
        /\ \A g \in Hosts : tunnels[g] # NoTunnel =>
             tunnels[g].id \in Ids /\ tunnels[g].id # next_id
        /\ \A i \in superseded : i \in Ids /\ i # next_id
    <3>1. \A i \in superseded : i \in Ids /\ ports[i] # None
      BY <1>1 DEF Ends, LinkTypeOK
    <3>2. ports[next_id] = None
      BY <1>1, <1>4 DEF Homes
    <3>3. QED
      BY <1>1, <1>4, <3>1, <3>2 DEF Homes, LinkTypeOK
  <2>3. /\ \A i \in Ids : i # next_id => pending'[i] = pending[i]
        /\ UNCHANGED <<by_name, superseded, ports, tunnels, server, mux, control>>
    BY <1>1, <1>2 DEF LinkTypeOK
  <2>4. \A i \in Ids : Has(to_client', "opened", i) <=> Has(to_client, "opened", i)
    BY <1>2
  <2>5. QED
    BY <1>6, <1>9, <2>1, <2>2, <2>3, <2>4 DEF Ends, Serves
<1>13. DeliveredHome'
  BY <1>2 DEF DeliveredHome
<1>14. QED
  BY <1>4, <1>7, <1>8, <1>10, <1>11, <1>12, <1>13

\* A tunnel's route goes first, the message to the server after it.
LEMMA SendCloseKeeps ==
  ASSUME NEW home \in [Ids -> Names \cup {None}], Consistent(home), SendClose
  PROVE  Consistent(home)'
<1> DEFINE n == Head(calls).name
           i == by_name[n]
<1> USE DEF Consistent
<1>1. /\ LinkTypeOK /\ None \notin Names /\ NoId \notin Ids
      /\ calls \in Seq(Commands) /\ calls # <<>> /\ Head(calls).cmd = "close"
      /\ control = "running"
  BY LinkAssumption DEF SendClose, LinkTypeOK, Ids, NoId
<1>2. /\ n \in Names /\ promised[n] = NoId
      /\ calls' = Tail(calls) /\ Tail(calls) \in Seq(Commands)
      /\ UNCHANGED <<calling, promised, control, next_id, pending, superseded, answered,
                     to_client, mux, server, tunnels, visitor, next_record>>
  <2>1. /\ 1 \in DOMAIN calls /\ Head(calls) = calls[1] /\ Head(calls) \in Commands
        /\ Tail(calls) \in Seq(Commands)
    BY <1>1, CallsTail
  <2>2. n \in Names /\ promised[n] = NoId
    BY <1>1, <2>1 DEF Promises, Commands
  <2>3. QED
    BY <2>1, <2>2 DEF SendClose, serverVars, inspectorVars
<1>3. \A k \in DOMAIN calls' :
        /\ k + 1 \in DOMAIN calls
        /\ calls'[k] = calls[k + 1] /\ (k + 1 = Len(calls) => k = Len(calls'))
  BY <1>1, <1>2, CallsTail
<1>4. i \in Ids \cup {NoId} /\ (i # NoId => home[i] = n)
  BY <1>1, <1>2 DEF LinkTypeOK, Homes
<1>5. PICK m \in Messages : m = Message("close", i, n, None)
  BY <1>2, <1>4 DEF Message, Messages
<1>6. m.type = "close" /\ m.id = i /\ m.name = n
  BY <1>5 DEF Message
<1>7. \/ i = NoId /\ UNCHANGED <<by_name, ports, to_server>>
      \/ /\ i \in Ids
         /\ by_name' = [by_name EXCEPT ![n] = NoId]
         /\ ports' = [ports EXCEPT ![i] = None]
         /\ \/ ~(mux = "up" /\ server = "up") /\ to_server' = to_server
            \/ to_server' = Append(to_server, m)
  BY <1>4, <1>5 DEF SendClose, serverVars
<1> HIDE DEF n, i
<1>8. /\ \A p \in Names : by_name'[p] = IF p = n THEN NoId ELSE by_name[p]
      /\ \A j \in Ids : ports'[j] = IF j = i THEN None ELSE ports[j]
      /\ by_name' \in [Names -> Ids \cup {NoId}]
      /\ ports' \in [Ids -> Names \cup {None}]
  BY <1>1, <1>2, <1>7 DEF LinkTypeOK, i
<1>9. /\ to_server' \in Seq(Messages) /\ AllHonest(to_server', home)
      /\ \A j : Has(to_server', "open", j) <=> Has(to_server, "open", j)
      /\ \A j : Has(to_server, "close", j) => Has(to_server', "close", j)
      /\ \A j : Has(to_server', "close", j) => Has(to_server, "close", j) \/ (j = i /\ i # NoId)
      /\ i # NoId /\ mux = "up" /\ server = "up" => Has(to_server', "close", i)
      /\ HasAny(to_server', Asks) <=> HasAny(to_server, Asks)
      /\ AtMostOne(to_server, Asks) => AtMostOne(to_server', Asks)
  <2>1. to_server \in Seq(Messages) /\ AllHonest(to_server, home) /\ m.type \notin Asks
    BY <1>1, <1>6 DEF LinkTypeOK, Homes, Asks
  <2>2. CASE to_server' = to_server /\ (i = NoId \/ ~(mux = "up" /\ server = "up"))
    <3>1. to_server' = to_server
      BY <2>2
    <3>2. /\ to_server' \in Seq(Messages) /\ AllHonest(to_server', home)
          /\ \A j : Has(to_server', "open", j) <=> Has(to_server, "open", j)
          /\ \A j : Has(to_server', "close", j) <=> Has(to_server, "close", j)
          /\ HasAny(to_server', Asks) <=> HasAny(to_server, Asks)
          /\ AtMostOne(to_server, Asks) => AtMostOne(to_server', Asks)
      BY <2>1, <3>1
    <3>3. QED
      BY <2>2, <3>2
  <2>3. CASE i \in Ids /\ to_server' = Append(to_server, m)
    <3>1. Honest(m, home)
      BY <1>1, <1>2, <1>4, <1>6, <2>3 DEF Honest
    <3>2. /\ Append(to_server, m) \in Seq(Messages)
          /\ \A type, j : Has(Append(to_server, m), type, j) <=>
               Has(to_server, type, j) \/ (m.type = type /\ m.id = j)
          /\ HasAny(Append(to_server, m), Asks) <=> HasAny(to_server, Asks)
          /\ AllHonest(Append(to_server, m), home)
          /\ AtMostOne(to_server, Asks) => AtMostOne(Append(to_server, m), Asks)
      BY <2>1, <3>1, ChannelAppend
    <3>3. QED
      BY <1>1, <1>6, <2>3, <3>2
  <2>4. QED
    BY <1>7, <2>2, <2>3
<1>10. LinkTypeOK'
  BY <1>1, <1>2, <1>8, <1>9 DEF LinkTypeOK
<1>11. Homes(home)'
  BY <1>2, <1>8, <1>9 DEF Homes
<1>12. i # NoId => /\ i \in Ids /\ pending[i] = None /\ ports[i] = n
                   /\ ~Has(to_client, "opened", i) \/ control = "ended"
  BY <1>1, <1>2, <1>4 DEF Ends, OneOpen, i
<1>13. OneOpen'
  <2>1. \A j \in Ids : pending[j] = None
    BY <1>1 DEF OneOpen
  <2>2. QED
    BY <1>1, <1>2, <1>3, <1>8, <1>9, <2>1 DEF OneOpen
<1>14. Promises'
  <2>1. ASSUME NEW p \in Names, promised[p] # NoId
        PROVE  promised[p] \in Ids /\ promised[p] # i
    BY <1>1, <1>2, <1>12, <2>1 DEF Promises, LinkTypeOK
  <2>2. \A k \in DOMAIN calls' : calls'[k].cmd = "close" => promised[calls'[k].name] = NoId
    BY <1>3 DEF Promises
  <2>3. \A v \in Visitors : OnItsWay(visitor[v]) => visitor[v].id \in Ids
    BY DEF Homes
  <2>4. QED
    BY <1>2, <1>8, <2>1, <2>2, <2>3 DEF Promises, OnItsWay
<1>15. Ends'
  <2>1. ASSUME NEW p \in Names
        PROVE  by_name'[p] # NoId => by_name'[p] = by_name[p] /\ by_name[p] \in Ids /\ by_name[p] # i
    BY <1>1, <1>2, <1>8, <1>12 DEF Ends, LinkTypeOK
  <2>2. i # NoId => i \notin superseded /\ ~Has(to_server, "open", i)
    BY <1>1, <1>2, <1>12 DEF Ends, OneOpen, i
  <2>3. \A p \in Names : by_name[p] = by_name'[p] \/ by_name[p] = i
    BY <1>8 DEF i
  <2>4. superseded \subseteq Ids /\ (i # NoId => i \in Ids) /\ \A j \in Ids : j # NoId
    BY <1>1, <1>12 DEF LinkTypeOK
  <2>5. \A p \in Names : by_name'[p] # NoId =>
          /\ ports'[by_name'[p]] = p /\ pending'[by_name'[p]] = None
          /\ by_name'[p] \notin superseded
    BY <1>2, <1>8, <2>1 DEF Ends
  <2>6. \A j \in superseded : ports'[j] # None /\ pending[j] = None
    BY <1>8, <2>2, <2>4 DEF Ends
  <2>7. ASSUME server = "up", mux' = "up"
        PROVE  /\ \A h \in Hosts : tunnels[h] # NoTunnel =>
                    \/ by_name'[tunnels[h].name] = tunnels[h].id
                    \/ pending[tunnels[h].id] # None /\ Has(to_client, "opened", tunnels[h].id)
                    \/ Has(to_server', "close", tunnels[h].id)
                    \/ tunnels[h].id \in superseded
               /\ \A p \in Names : by_name'[p] # NoId =>
                    Serves(by_name'[p]) /\ ~Has(to_server', "close", by_name'[p])
               /\ \A j \in superseded : Serves(j) /\ ~Has(to_server', "close", j)
               /\ \A j \in Ids : Has(to_client, "opened", j) /\ pending[j] # None =>
                    Serves(j) /\ ~Has(to_server', "close", j)
               /\ \A j \in Ids : Has(to_server', "open", j) => ~Has(to_server', "close", j)
    <3>1. server = "up" /\ mux = "up" /\ control # "ended"
      BY <1>1, <1>2, <2>7
    <3>2. \A h \in Hosts : tunnels[h] # NoTunnel =>
            \/ by_name'[tunnels[h].name] = tunnels[h].id
            \/ pending[tunnels[h].id] # None /\ Has(to_client, "opened", tunnels[h].id)
            \/ Has(to_server', "close", tunnels[h].id)
            \/ tunnels[h].id \in superseded
      <4>1. \A h \in Hosts : tunnels[h] # NoTunnel => tunnels[h].name \in Names /\ tunnels[h].id \in Ids
        BY DEF Homes
      <4>2. QED
        BY <1>9, <2>3, <2>4, <3>1, <4>1 DEF Ends
    <3>3. \A p \in Names : by_name'[p] # NoId =>
            Serves(by_name'[p]) /\ ~Has(to_server', "close", by_name'[p])
      BY <1>9, <2>1, <3>1 DEF Ends
    <3>4. \A j \in superseded : Serves(j) /\ ~Has(to_server', "close", j)
      BY <1>9, <2>2, <3>1 DEF Ends
    <3>5. \A j \in Ids : Has(to_client, "opened", j) /\ pending[j] # None =>
            Serves(j) /\ ~Has(to_server', "close", j)
      BY <1>9, <1>12, <3>1 DEF Ends
    <3>6. \A j \in Ids : Has(to_server', "open", j) => ~Has(to_server', "close", j)
      BY <1>9, <2>2, <3>1 DEF Ends
    <3>7. QED
      BY <3>2, <3>3, <3>4, <3>5, <3>6
  <2>8. /\ UNCHANGED <<server, mux, tunnels, pending, superseded, control>>
        /\ \A j : Has(to_client', "opened", j) <=> Has(to_client, "opened", j)
    BY <1>2, <1>7 DEF SendClose
  <2>9. QED
    BY <2>5, <2>6, <2>7, <2>8 DEF Ends, Serves
<1>16. DeliveredHome'
  BY <1>2 DEF DeliveredHome
<1>17. QED
  BY <1>10, <1>11, <1>13, <1>14, <1>15, <1>16

\* What the first message to the client says, and what is left when it is taken:
\* an answer to an open is about the one that is pending, and there is no other.
LEMMA AnswerTaken ==
  ASSUME NEW home, Consistent(home), NEW type \in Replies, Receives(type)
  PROVE  /\ control = "running" /\ to_client' \in Seq(Messages) /\ AllHonest(to_client', home)
         /\ Head(to_client).id \in Ids /\ pending[Head(to_client).id] = calling
         /\ calling \in Names /\ home[Head(to_client).id] = calling
         /\ Head(to_client).name = calling
         /\ Has(to_client, type, Head(to_client).id)
         /\ ~HasAny(to_client', Replies) /\ AtMostOne(to_client', Replies)
         /\ \A i : ~Has(to_client', "opened", i) /\ ~Has(to_client', "error", i)
         /\ \A i \in Ids : pending[i] # None => i = Head(to_client).id
         /\ \A t, i : Has(to_client, t, i) => Has(to_client', t, i) \/ t = type
         /\ calls = <<>>
         /\ \A i \in Ids : ~Has(to_server, "open", i)
<1> DEFINE id == Head(to_client).id
<1> USE DEF Consistent
<1>1. /\ LinkTypeOK /\ LinkAssumption /\ None \notin Names
      /\ control = "running" /\ to_client # <<>> /\ to_client' = Tail(to_client)
      /\ Head(to_client).type = type
      /\ to_client \in Seq(Messages) /\ AllHonest(to_client, home)
      /\ type \in {"opened", "error"} /\ type # "kick" /\ type # "eof"
  BY LinkAssumption DEF Receives, LinkTypeOK, Homes, Replies, LinkAssumption
<1>2. /\ AtMostOne(to_client, Replies)
      /\ HasAny(to_client, Replies) => ~HasAny(to_server, Asks)
  BY <1>1 DEF OneOpen
<1>3. /\ to_client' \in Seq(Messages) /\ AllHonest(to_client', home)
      /\ Honest(Head(to_client), home)
      /\ \A t, i : Has(to_client, t, i) <=>
           Has(to_client', t, i) \/ (Head(to_client).type = t /\ Head(to_client).id = i)
      /\ HasAny(to_client, Replies)
      /\ ~HasAny(to_client', Replies) /\ AtMostOne(to_client', Replies)
  BY <1>1, <1>2, ChannelTail
<1>4. Has(to_client, type, id)
  BY <1>1, <1>3
<1>5. id \in Ids /\ home[id] = Head(to_client).name /\ Head(to_client).name \in Names
  BY <1>1, <1>3 DEF Honest
<1>6. pending[id] # None
  BY <1>1, <1>4, <1>5 DEF OneOpen
<1>7. /\ pending[id] = calling /\ calls = <<>>
      /\ \A i \in Ids : pending[i] # None => i = id
  BY <1>5, <1>6 DEF OneOpen
<1>8. pending[id] = home[id]
  BY <1>5, <1>6 DEF Homes
<1>9. \A i : ~Has(to_client', "opened", i) /\ ~Has(to_client', "error", i)
  BY <1>3 DEF Has, HasAny, Replies
<1>10. \A i \in Ids : ~Has(to_server, "open", i)
  BY <1>2, <1>3 DEF Has, HasAny, Asks
<1>11. \A t, i : Has(to_client, t, i) => Has(to_client', t, i) \/ t = type
  BY <1>1, <1>3
<1>12. QED
  BY <1>1, <1>3, <1>4, <1>5, <1>7, <1>8, <1>9, <1>10, <1>11

\* The route is there before anybody is told the address.
LEMMA OpenedKeeps ==
  ASSUME NEW home \in [Ids -> Names \cup {None}], Consistent(home), Opened
  PROVE  Consistent(home)'
<1> DEFINE i == Head(to_client).id
<1> USE DEF Consistent
<1>1. LinkTypeOK /\ None \notin Names /\ NoId \notin Ids /\ Receives("opened")
  BY LinkAssumption DEF Opened, LinkTypeOK, Ids, NoId
<1>2. /\ control = "running" /\ to_client' \in Seq(Messages) /\ AllHonest(to_client', home)
      /\ i \in Ids /\ pending[i] = calling /\ calling \in Names /\ home[i] = calling
      /\ Has(to_client, "opened", i)
      /\ ~HasAny(to_client', Replies) /\ AtMostOne(to_client', Replies)
      /\ \A j : ~Has(to_client', "opened", j) /\ ~Has(to_client', "error", j)
      /\ \A j \in Ids : pending[j] # None => j = i
      /\ calls = <<>>
      /\ \A j \in Ids : ~Has(to_server, "open", j)
  <2>1. "opened" \in Replies
    BY DEF Replies
  <2>2. QED
    BY <1>1, <2>1, AnswerTaken
<1>3. /\ ports' = [ports EXCEPT ![i] = calling]
      /\ by_name' = [by_name EXCEPT ![calling] = i]
      /\ superseded' = superseded \cup ({by_name[calling]} \ {NoId})
      /\ pending' = [pending EXCEPT ![i] = None]
      /\ control' = "replying" /\ answered' = i
      /\ UNCHANGED <<calls, calling, promised, next_id, to_server, mux, server, tunnels,
                     visitor, next_record>>
  BY <1>1, <1>2 DEF Opened, engineVars, serverVars, inspectorVars
<1> HIDE DEF i
<1>4. /\ \A j \in Ids : /\ ports'[j] = IF j = i THEN calling ELSE ports[j]
                        /\ pending'[j] = None
      /\ \A n \in Names : by_name'[n] = IF n = calling THEN i ELSE by_name[n]
      /\ ports' \in [Ids -> Names \cup {None}]
      /\ pending' \in [Ids -> Names \cup {None}]
      /\ by_name' \in [Names -> Ids \cup {NoId}]
      /\ superseded' \subseteq Ids
  BY <1>1, <1>2, <1>3 DEF LinkTypeOK
<1>5. LinkTypeOK'
  BY <1>1, <1>2, <1>3, <1>4 DEF LinkTypeOK
<1>6. Homes(home)'
  <2>1. AllHonest(to_server', home)
    BY <1>3 DEF Homes
  <2>2. QED
    BY <1>1, <1>2, <1>3, <1>4, <2>1 DEF Homes
<1>7. OneOpen'
  BY <1>1, <1>2, <1>3, <1>4 DEF OneOpen
<1>8. Promises'
  <2>1. ASSUME NEW n \in Names, promised[n] # NoId
        PROVE  promised[n] \in Ids /\ promised[n] # i
    BY <1>1, <1>2, <2>1 DEF Promises, LinkTypeOK
  <2>2. ASSUME NEW v \in Visitors, OnItsWay(visitor[v]), visitor[v].promised
        PROVE  visitor[v].id \in Ids /\ visitor[v].id # i
    BY <1>1, <1>2, <2>2 DEF Promises, Homes
  <2>3. QED
    BY <1>1, <1>2, <1>3, <1>4, <2>1, <2>2 DEF Promises
<1>9. Ends'
  <2>1. ASSUME NEW n \in Names, by_name[n] # NoId
        PROVE  by_name[n] \in Ids /\ by_name[n] # i
    BY <1>1, <1>2, <2>1 DEF Ends, LinkTypeOK
  <2>2. \A j \in superseded : j \in Ids /\ j # i /\ j # NoId /\ ports[j] # None
    BY <1>1, <1>2 DEF Ends, LinkTypeOK
  <2>3. \A n \in Names : by_name'[n] # NoId =>
          by_name'[n] \in Ids /\ ports'[by_name'[n]] = n /\ by_name'[n] \notin superseded'
    <3>1. \A n \in Names : n # calling /\ by_name[n] # NoId /\ by_name[calling] # NoId =>
            by_name[n] # by_name[calling]
      BY <1>2 DEF Homes
    <3>2. QED
      BY <1>2, <1>3, <1>4, <2>1, <2>2, <3>1 DEF Ends
  <2>4. \A j \in superseded' : j \in Ids /\ ports'[j] # None
    BY <1>1, <1>2, <1>3, <1>4, <2>1, <2>2 DEF Ends
  <2>5. ASSUME server = "up", mux = "up"
        PROVE  /\ \A h \in Hosts : tunnels[h] # NoTunnel =>
                    \/ by_name'[tunnels[h].name] = tunnels[h].id
                    \/ Has(to_server, "close", tunnels[h].id)
                    \/ tunnels[h].id \in superseded'
               /\ \A n \in Names : by_name'[n] # NoId =>
                    Serves(by_name'[n]) /\ ~Has(to_server, "close", by_name'[n])
               /\ \A j \in superseded' : Serves(j) /\ ~Has(to_server, "close", j)
               /\ \A j \in Ids : Has(to_server, "open", j) => ~Has(to_server, "close", j)
    <3>1. Serves(i) /\ ~Has(to_server, "close", i)
      BY <1>1, <1>2, <2>5 DEF Ends
    <3>2. ASSUME NEW h \in Hosts, tunnels[h] # NoTunnel
          PROVE  \/ by_name'[tunnels[h].name] = tunnels[h].id
                 \/ Has(to_server, "close", tunnels[h].id)
                 \/ tunnels[h].id \in superseded'
      <4>1. /\ tunnels[h].id \in Ids /\ tunnels[h].name \in Names
            /\ home[tunnels[h].id] = tunnels[h].name
        BY <3>2 DEF Homes
      <4>2. tunnels[h].id = i => tunnels[h].name = calling
        BY <1>2, <4>1
      <4>3. \/ by_name[tunnels[h].name] = tunnels[h].id
            \/ pending[tunnels[h].id] # None
            \/ Has(to_server, "close", tunnels[h].id)
            \/ tunnels[h].id \in superseded
        BY <1>2, <2>5, <3>2 DEF Ends
      <4>4. QED
        BY <1>1, <1>2, <1>3, <1>4, <4>1, <4>2, <4>3
    <3>3. \A n \in Names : by_name'[n] # NoId =>
            Serves(by_name'[n]) /\ ~Has(to_server, "close", by_name'[n])
      BY <1>2, <1>4, <2>5, <3>1 DEF Ends
    <3>4. \A j \in superseded' : Serves(j) /\ ~Has(to_server, "close", j)
      BY <1>2, <1>3, <2>5 DEF Ends
    <3>5. \A j \in Ids : Has(to_server, "open", j) => ~Has(to_server, "close", j)
      BY <1>2
    <3>6. QED
      BY <3>2, <3>3, <3>4, <3>5
  <2>6. UNCHANGED <<server, mux, tunnels, to_server>> /\ \A j \in Ids : pending'[j] = None
    BY <1>3, <1>4
  <2>7. QED
    BY <2>3, <2>4, <2>5, <2>6 DEF Ends, Serves
<1>10. DeliveredHome'
  BY <1>3 DEF DeliveredHome
<1>11. QED
  BY <1>5, <1>6, <1>7, <1>8, <1>9, <1>10

\* The address is promised to the engine that waits for it.
LEMMA ReplyKeeps ==
  ASSUME NEW home \in [Ids -> Names \cup {None}], Consistent(home), Reply
  PROVE  Consistent(home)'
<1> USE DEF Consistent
<1>1. /\ LinkTypeOK /\ None \notin Names /\ NoId \notin Ids
      /\ control = "replying" /\ calling \in Names /\ calls = <<>>
      /\ answered \in Ids /\ ports[answered] = calling /\ \A i \in Ids : pending[i] = None
  BY LinkAssumption DEF Reply, LinkTypeOK, OneOpen, Ids, NoId
<1>2. /\ promised' = [promised EXCEPT ![calling] = answered]
      /\ calling' = None /\ control' = "running" /\ answered' = NoId
      /\ UNCHANGED <<calls, next_id, pending, by_name, superseded, ports, to_server, to_client,
                     mux, server, tunnels, visitor, next_record>>
  BY DEF Reply, wireVars, serverVars, inspectorVars
<1>3. \A n \in Names : promised'[n] = IF n = calling THEN answered ELSE promised[n]
  BY <1>1, <1>2 DEF LinkTypeOK
<1>4. LinkTypeOK'
  BY <1>1, <1>2 DEF LinkTypeOK
<1>5. Homes(home)'
  BY <1>1, <1>2 DEF Homes
<1>6. OneOpen'
  BY <1>1, <1>2 DEF OneOpen
<1>7. Promises'
  <2>1. \A n \in Names : promised[n] # NoId => promised[n] \in Ids /\ ports[promised[n]] = n
    BY <1>1 DEF LinkTypeOK, Promises
  <2>2. \A v \in Visitors : OnItsWay(visitor[v]) => visitor[v].id \in Ids
    BY DEF Homes
  <2>3. QED
    BY <1>1, <1>2, <1>3, <2>1, <2>2 DEF Promises
<1>8. Ends'
  BY <1>1, <1>2 DEF Ends, Serves
<1>10. DeliveredHome'
  BY <1>2 DEF DeliveredHome
<1>11. QED
  BY <1>4, <1>5, <1>6, <1>7, <1>8, <1>10

\* An open that failed leaves everything else as it was.
LEMMA RefusedKeeps ==
  ASSUME NEW home \in [Ids -> Names \cup {None}], Consistent(home), Refused
  PROVE  Consistent(home)'
<1> DEFINE i == Head(to_client).id
<1> USE DEF Consistent
<1>1. LinkTypeOK /\ None \notin Names /\ NoId \notin Ids /\ Receives("error")
  BY LinkAssumption DEF Refused, LinkTypeOK, Ids, NoId
<1>2. /\ control = "running" /\ to_client' \in Seq(Messages) /\ AllHonest(to_client', home)
      /\ i \in Ids /\ calls = <<>> /\ Has(to_client, "error", i)
      /\ ~HasAny(to_client', Replies) /\ AtMostOne(to_client', Replies)
      /\ \A j : ~Has(to_client', "opened", j) /\ ~Has(to_client', "error", j)
      /\ \A j \in Ids : pending[j] # None => j = i
      /\ ~Has(to_client, "opened", i)
      /\ \A j \in Ids : ~Has(to_server, "open", j)
  <2>1. "error" \in Replies
    BY DEF Replies
  <2>2. QED
    BY <1>1, <2>1, AnswerTaken
<1>3. /\ pending' = [pending EXCEPT ![i] = None] /\ calling' = None
      /\ UNCHANGED <<calls, promised, control, next_id, by_name, superseded, ports, answered, to_server, mux,
                     server, tunnels, visitor, next_record>>
  BY DEF Refused, serverVars, inspectorVars
<1> HIDE DEF i
<1>4. /\ \A j \in Ids : pending'[j] = None
      /\ pending' \in [Ids -> Names \cup {None}]
  BY <1>1, <1>2, <1>3 DEF LinkTypeOK
<1>5. LinkTypeOK'
  BY <1>1, <1>2, <1>3, <1>4 DEF LinkTypeOK
<1>6. Homes(home)'
  <2>1. AllHonest(to_server', home)
    BY <1>3 DEF Homes
  <2>2. QED
    BY <1>1, <1>2, <1>3, <1>4, <2>1 DEF Homes
<1>7. OneOpen'
  BY <1>1, <1>2, <1>3, <1>4 DEF OneOpen
<1>8. Promises'
  <2>1. \A n \in Names : promised[n] # NoId => promised[n] \in Ids
    BY <1>1 DEF LinkTypeOK
  <2>2. \A v \in Visitors : OnItsWay(visitor[v]) => visitor[v].id \in Ids
    BY DEF Homes
  <2>3. QED
    BY <1>1, <1>2, <1>3, <1>4, <2>1, <2>2 DEF Promises
<1>9. Ends'
  <2>1. \A n \in Names : by_name[n] # NoId => by_name[n] \in Ids
    BY <1>1 DEF LinkTypeOK
  <2>2. ASSUME server = "up", mux = "up", NEW h \in Hosts, tunnels[h] # NoTunnel
        PROVE  \/ by_name[tunnels[h].name] = tunnels[h].id
               \/ Has(to_server, "close", tunnels[h].id)
               \/ tunnels[h].id \in superseded
    <3>1. tunnels[h].id \in Ids
      BY <2>2 DEF Homes
    <3>2. QED
      BY <1>1, <1>2, <2>2, <3>1 DEF Ends
  <2>3. UNCHANGED <<server, mux, tunnels, to_server, control, by_name, superseded, ports>>
    BY <1>3
  <2>4. superseded \subseteq Ids
    BY <1>1 DEF LinkTypeOK
  <2>5. QED
    BY <1>2, <1>4, <2>1, <2>2, <2>3, <2>4 DEF Ends, Serves
<1>10. DeliveredHome'
  BY <1>3 DEF DeliveredHome
<1>11. QED
  BY <1>5, <1>6, <1>7, <1>8, <1>9, <1>10

\* The control loop's steps; an open gives an id to a name.
LEMMA ControlLoopKeeps ==
  ASSUME NEW home \in [Ids -> Names \cup {None}], Consistent(home), ControlLoop
  PROVE  \E h \in [Ids -> Names \cup {None}] : Consistent(h)'
<1>1. CASE SeesCancel \/ SendFails \/ Dismissed
  BY <1>1, EndLoopKeeps DEF SeesCancel, SendFails, Dismissed
<1>2. CASE SendOpen
  BY <1>2, SendOpenKeeps
<1>3. CASE SendClose \/ Opened \/ Reply \/ Refused
  BY <1>3, SendCloseKeeps, OpenedKeeps, ReplyKeeps, RefusedKeeps
<1>4. QED
  BY <1>1, <1>2, <1>3 DEF ControlLoop

-----------------------------------------------------------------------------
(* The server. *)

\* A request taken from the channel: what it says, and what is left.
LEMMA RequestTaken ==
  ASSUME NEW home, Consistent(home), NEW type \in {"open", "close"}, ServerReceives(type)
  PROVE  /\ to_server' \in Seq(Messages) /\ AllHonest(to_server', home)
         /\ Head(to_server).id \in Ids /\ Head(to_server).name \in Names
         /\ home[Head(to_server).id] = Head(to_server).name
         /\ type = "open" => Head(to_server).host \in Hosts
         /\ \A t, i : Has(to_server, t, i) <=>
              Has(to_server', t, i) \/ (type = t /\ Head(to_server).id = i)
         /\ HasAny(to_server, Asks) <=> HasAny(to_server', Asks) \/ type \in Asks
         /\ control # "ended" => AtMostOne(to_server', Asks)
         /\ control # "ended" /\ type = "open" =>
              /\ ~HasAny(to_server', Asks)
              /\ \A i : ~Has(to_server', "open", i)
<1> USE DEF Consistent
<1>1. /\ to_server # <<>> /\ to_server' = Tail(to_server)
      /\ Head(to_server).type = type
      /\ to_server \in Seq(Messages) /\ AllHonest(to_server, home)
      /\ type # "kick" /\ type # "eof"
  BY DEF ServerReceives, LinkTypeOK, Homes
<1>2. control # "ended" => AtMostOne(to_server, Asks)
  BY DEF OneOpen
<1>3. /\ to_server' \in Seq(Messages) /\ AllHonest(to_server', home)
      /\ Honest(Head(to_server), home)
      /\ \A t, i : Has(to_server, t, i) <=>
           Has(to_server', t, i) \/ (Head(to_server).type = t /\ Head(to_server).id = i)
      /\ HasAny(to_server, Asks) <=> HasAny(to_server', Asks) \/ Head(to_server).type \in Asks
      /\ AtMostOne(to_server, Asks) => AtMostOne(to_server', Asks)
      /\ AtMostOne(to_server, Asks) /\ Head(to_server).type \in Asks => ~HasAny(to_server', Asks)
  BY <1>1, ChannelTail
<1>4. ~HasAny(to_server', Asks) => \A i : ~Has(to_server', "open", i)
  BY DEF Has, HasAny, Asks
<1>5. /\ Head(to_server).id \in Ids /\ Head(to_server).name \in Names
      /\ home[Head(to_server).id] = Head(to_server).name
      /\ type = "open" => Head(to_server).host \in Hosts
  BY <1>1, <1>3 DEF Honest
<1>6. type = "open" => type \in Asks
  BY DEF Asks
<1>7. QED
  BY <1>1, <1>2, <1>3, <1>4, <1>5, <1>6

\* What an answer adds to the client's channel.
LEMMA Answering ==
  ASSUME NEW home, Consistent(home), NEW m \in Messages, ToClient(m), Honest(m, home)
  PROVE  /\ to_client' \in Seq(Messages) /\ AllHonest(to_client', home)
         /\ \A t, i : Has(to_client, t, i) => Has(to_client', t, i)
         /\ \A t, i : Has(to_client', t, i) => Has(to_client, t, i) \/ (m.type = t /\ m.id = i)
         /\ control # "ended" => Has(to_client', m.type, m.id)
         /\ HasAny(to_client', Replies) => HasAny(to_client, Replies) \/ m.type \in Replies
         /\ AtMostOne(to_client, Replies) /\ (m.type \notin Replies \/ ~HasAny(to_client, Replies)) =>
              AtMostOne(to_client', Replies)
<1>1. to_client \in Seq(Messages) /\ AllHonest(to_client, home)
  BY DEF Consistent, LinkTypeOK, Homes
<1>2. CASE control = "ended"
  <2>1. to_client' = to_client
    BY <1>2 DEF ToClient
  <2>2. QED
    BY <1>1, <1>2, <2>1
<1>3. CASE control # "ended" /\ to_client' = Append(to_client, m)
  <2>1. /\ Append(to_client, m) \in Seq(Messages)
        /\ \A t, i : Has(Append(to_client, m), t, i) <=>
             Has(to_client, t, i) \/ (m.type = t /\ m.id = i)
        /\ HasAny(Append(to_client, m), Replies) <=> HasAny(to_client, Replies) \/ m.type \in Replies
        /\ AllHonest(Append(to_client, m), home)
        /\ AtMostOne(to_client, Replies) /\ (m.type \notin Replies \/ ~HasAny(to_client, Replies)) =>
             AtMostOne(Append(to_client, m), Replies)
    BY <1>1, ChannelAppend
  <2>2. QED
    BY <1>3, <2>1
<1>4. QED
  BY <1>2, <1>3 DEF ToClient

\* An open that is served, or refused.
LEMMA ServerAnswersKeeps ==
  ASSUME NEW home \in [Ids -> Names \cup {None}], Consistent(home), ServerOpens \/ ServerRefuses
  PROVE  Consistent(home)'
<1> DEFINE i == Head(to_server).id
           n == Head(to_server).name
           h == Head(to_server).host
<1> USE DEF Consistent
<1>1. /\ LinkTypeOK /\ None \notin Names /\ NoId \notin Ids
      /\ server = "up" /\ ServerReceives("open")
      /\ UNCHANGED <<calls, calling, promised, control, next_id, pending, by_name, superseded, ports, answered,
                     mux, server, visitor, next_record>>
  BY LinkAssumption
     DEF ServerOpens, ServerRefuses, ServerReceives, LinkTypeOK, Ids, NoId, engineVars, controlVars,
         serverVars, inspectorVars
<1>2. /\ to_server' \in Seq(Messages) /\ AllHonest(to_server', home)
      /\ i \in Ids /\ n \in Names /\ home[i] = n /\ h \in Hosts
      /\ Has(to_server, "open", i)
      /\ \A j : Has(to_server', "close", j) <=> Has(to_server, "close", j)
      /\ \A t, j : Has(to_server', t, j) => Has(to_server, t, j)
      /\ control # "ended" =>
           /\ ~HasAny(to_server', Asks) /\ AtMostOne(to_server', Asks)
           /\ \A j : ~Has(to_server', "open", j)
      /\ HasAny(to_server, Asks)
  <2>1. "open" \in Asks
    BY DEF Asks
  <2>2. QED
    BY <1>1, <2>1, RequestTaken
<1> HIDE DEF i, n, h
<1>3. PICK type \in Replies :
        /\ ToClient(Message(type, i, n, None))
        /\ \/ /\ type = "opened" /\ tunnels[h] = NoTunnel
              /\ tunnels' = [tunnels EXCEPT ![h] = [id |-> i, name |-> n]]
           \/ type = "error" /\ UNCHANGED tunnels
  BY DEF ServerOpens, ServerRefuses, Replies, serverVars, i, n, h
<1>4. PICK m \in Messages : m = Message(type, i, n, None)
  BY <1>2 DEF Message, Messages, Replies
<1>5. /\ m.type = type /\ m.id = i /\ m.name = n /\ Honest(m, home)
  BY <1>2, <1>4 DEF Message, Honest, Replies
<1>6. /\ to_client' \in Seq(Messages) /\ AllHonest(to_client', home)
      /\ \A t, j : Has(to_client, t, j) => Has(to_client', t, j)
      /\ \A t, j : Has(to_client', t, j) => Has(to_client, t, j) \/ (type = t /\ i = j)
      /\ control # "ended" => Has(to_client', type, i)
      /\ AtMostOne(to_client, Replies) /\ ~HasAny(to_client, Replies) =>
           AtMostOne(to_client', Replies)
  BY <1>3, <1>4, <1>5, Answering
<1>7. control # "ended" =>
        /\ pending[i] # None
        /\ ~HasAny(to_client, Replies) /\ AtMostOne(to_client', Replies)
        /\ \A j : ~Has(to_client, "opened", j) /\ ~Has(to_client, "error", j)
  <2>1. control # "ended" => /\ pending[i] # None
                             /\ ~HasAny(to_client, Replies) /\ AtMostOne(to_client, Replies)
    BY <1>2 DEF OneOpen
  <2>2. ~HasAny(to_client, Replies) =>
          \A j : ~Has(to_client, "opened", j) /\ ~Has(to_client, "error", j)
    BY DEF Has, HasAny, Replies
  <2>3. QED
    BY <1>6, <2>1, <2>2
<1>8. /\ tunnels' \in [Hosts -> [id : Ids \cup {NoId}, name : Names \cup {None}]]
      /\ \A g \in Hosts :
           \/ tunnels'[g] = tunnels[g]
           \/ /\ tunnels[g] = NoTunnel /\ type = "opened"
              /\ tunnels'[g].id = i /\ tunnels'[g].name = n
      /\ type = "opened" => tunnels'[h].id = i
      /\ \A j \in Ids : Serves(j) => Serves(j)'
  <2>1. /\ tunnels' \in [Hosts -> [id : Ids \cup {NoId}, name : Names \cup {None}]]
        /\ \A g \in Hosts :
             \/ tunnels'[g] = tunnels[g]
             \/ /\ tunnels[g] = NoTunnel /\ type = "opened"
                /\ tunnels'[g].id = i /\ tunnels'[g].name = n
        /\ type = "opened" => tunnels'[h].id = i
    BY <1>1, <1>2, <1>3 DEF LinkTypeOK, Replies
  <2>2. NoTunnel.id = NoId
    BY DEF NoTunnel
  <2>3. QED
    BY <1>1, <2>1, <2>2 DEF Serves
<1>9. LinkTypeOK'
  BY <1>1, <1>2, <1>6, <1>8 DEF LinkTypeOK
<1>10. Homes(home)'
  BY <1>1, <1>2, <1>6, <1>8 DEF Homes
<1>11. OneOpen'
  <2>1. control # "ended" =>
          /\ \A j \in Ids : Has(to_server', "open", j) => pending[j] # None
          /\ \A j \in Ids : Has(to_client', "opened", j) \/ Has(to_client', "error", j) =>
               pending[j] # None
          /\ AtMostOne(to_server', Asks) /\ AtMostOne(to_client', Replies)
          /\ ~HasAny(to_server', Asks)
    BY <1>2, <1>6, <1>7
  <2>2. QED
    BY <1>1, <2>1 DEF OneOpen
<1>12. Promises' /\ DeliveredHome'
  BY <1>1 DEF Promises, DeliveredHome
<1>13. Ends'
  <2>1. \A p \in Names : by_name[p] # NoId => by_name[p] \in Ids
    BY <1>1 DEF LinkTypeOK
  <2>2. ASSUME mux = "up", control # "ended"
        PROVE  /\ \A g \in Hosts : tunnels'[g] # NoTunnel =>
                    \/ by_name[tunnels'[g].name] = tunnels'[g].id
                    \/ pending[tunnels'[g].id] # None /\ Has(to_client', "opened", tunnels'[g].id)
                    \/ Has(to_server', "close", tunnels'[g].id)
                    \/ tunnels'[g].id \in superseded
               /\ \A p \in Names : by_name[p] # NoId =>
                    Serves(by_name[p])' /\ ~Has(to_server', "close", by_name[p])
               /\ \A j \in superseded : Serves(j)' /\ ~Has(to_server', "close", j)
               /\ \A j \in Ids : Has(to_client', "opened", j) /\ pending[j] # None =>
                    Serves(j)' /\ ~Has(to_server', "close", j)
               /\ \A j \in Ids : Has(to_server', "open", j) => ~Has(to_server', "close", j)
    <3>1. \A g \in Hosts : tunnels'[g] # NoTunnel =>
            \/ by_name[tunnels'[g].name] = tunnels'[g].id
            \/ pending[tunnels'[g].id] # None /\ Has(to_client', "opened", tunnels'[g].id)
            \/ Has(to_server', "close", tunnels'[g].id)
            \/ tunnels'[g].id \in superseded
      BY <1>1, <1>2, <1>6, <1>7, <1>8, <2>2 DEF Ends
    <3>2. \A p \in Names : by_name[p] # NoId =>
            Serves(by_name[p])' /\ ~Has(to_server', "close", by_name[p])
      BY <1>1, <1>2, <1>8, <2>1, <2>2 DEF Ends, Serves
    <3>3. \A j \in superseded : Serves(j)' /\ ~Has(to_server', "close", j)
      BY <1>1, <1>2, <1>8, <2>2 DEF Ends, LinkTypeOK
    <3>4. ASSUME NEW j \in Ids, Has(to_client', "opened", j), pending[j] # None
          PROVE  Serves(j)' /\ ~Has(to_server', "close", j)
      <4>1. type = "opened" /\ j = i
        BY <1>6, <1>7, <2>2, <3>4
      <4>2. \E g \in Hosts : tunnels'[g].id = j
        BY <1>2, <1>8, <4>1
      <4>3. ~Has(to_server, "close", i)
        BY <1>1, <1>2, <2>2 DEF Ends
      <4>4. QED
        BY <1>2, <4>1, <4>2, <4>3 DEF Serves
    <3>5. \A j \in Ids : Has(to_server', "open", j) => ~Has(to_server', "close", j)
      BY <1>2, <2>2
    <3>6. QED
      BY <3>1, <3>2, <3>3, <3>4, <3>5
  <2>3. UNCHANGED <<by_name, superseded, ports, pending, control, mux, server>>
    BY <1>1
  <2>4. QED
    BY <2>2, <2>3 DEF Ends, Serves
<1>14. QED
  BY <1>9, <1>10, <1>11, <1>12, <1>13

\* A close takes the tunnel that no name of the client has any more.
LEMMA ServerClosesKeeps ==
  ASSUME NEW home \in [Ids -> Names \cup {None}], Consistent(home), ServerCloses
  PROVE  Consistent(home)'
<1> DEFINE i == Head(to_server).id
<1> USE DEF Consistent
<1>1. /\ LinkTypeOK /\ None \notin Names /\ NoId \notin Ids
      /\ server = "up" /\ ServerReceives("close")
      /\ tunnels' = [h \in Hosts |-> IF tunnels[h].id = i THEN NoTunnel ELSE tunnels[h]]
      /\ UNCHANGED <<calls, calling, promised, control, next_id, pending, by_name, superseded, ports, answered,
                     to_client, mux, server, visitor, next_record>>
  BY LinkAssumption
     DEF ServerCloses, ServerReceives, LinkTypeOK, Ids, NoId, engineVars, controlVars,
         serverVars, inspectorVars
<1>2. /\ to_server' \in Seq(Messages) /\ AllHonest(to_server', home)
      /\ i \in Ids /\ Has(to_server, "close", i)
      /\ \A t, j : Has(to_server', t, j) => Has(to_server, t, j)
      /\ \A j : Has(to_server, "close", j) => Has(to_server', "close", j) \/ j = i
      /\ control # "ended" => AtMostOne(to_server', Asks)
      /\ HasAny(to_server', Asks) => HasAny(to_server, Asks)
  BY <1>1, RequestTaken
<1> HIDE DEF i
<1>3. /\ tunnels' \in [Hosts -> [id : Ids \cup {NoId}, name : Names \cup {None}]]
      /\ \A h \in Hosts : tunnels'[h] = IF tunnels[h].id = i THEN NoTunnel ELSE tunnels[h]
      /\ \A j \in Ids : Serves(j) /\ j # i => Serves(j)'
  <2>1. NoTunnel \in [id : Ids \cup {NoId}, name : Names \cup {None}]
    BY DEF NoTunnel
  <2>2. /\ tunnels' \in [Hosts -> [id : Ids \cup {NoId}, name : Names \cup {None}]]
        /\ \A h \in Hosts : tunnels'[h] = IF tunnels[h].id = i THEN NoTunnel ELSE tunnels[h]
    BY <1>1, <2>1 DEF LinkTypeOK
  <2>3. QED
    BY <2>2 DEF Serves
<1>4. LinkTypeOK'
  BY <1>1, <1>2, <1>3 DEF LinkTypeOK
<1>5. Homes(home)'
  BY <1>1, <1>2, <1>3 DEF Homes
<1>6. OneOpen'
  <2>1. control # "ended" =>
          /\ \A j \in Ids : Has(to_server', "open", j) => pending[j] # None
          /\ AtMostOne(to_server', Asks)
          /\ HasAny(to_client, Replies) => ~HasAny(to_server', Asks)
    BY <1>2 DEF OneOpen
  <2>2. QED
    BY <1>1, <2>1 DEF OneOpen
<1>7. Promises' /\ DeliveredHome'
  BY <1>1 DEF Promises, DeliveredHome
<1>8. Ends'
  <2>1. ASSUME mux = "up", control # "ended"
        PROVE  /\ \A h \in Hosts : tunnels'[h] # NoTunnel =>
                    \/ by_name[tunnels'[h].name] = tunnels'[h].id
                    \/ pending[tunnels'[h].id] # None /\ Has(to_client, "opened", tunnels'[h].id)
                    \/ Has(to_server', "close", tunnels'[h].id)
                    \/ tunnels'[h].id \in superseded
               /\ \A n \in Names : by_name[n] # NoId =>
                    Serves(by_name[n])' /\ ~Has(to_server', "close", by_name[n])
               /\ \A j \in superseded : Serves(j)' /\ ~Has(to_server', "close", j)
               /\ \A j \in Ids : Has(to_client, "opened", j) /\ pending[j] # None =>
                    Serves(j)' /\ ~Has(to_server', "close", j)
               /\ \A j \in Ids : Has(to_server', "open", j) => ~Has(to_server', "close", j)
    <3>1. \A h \in Hosts : tunnels'[h] # NoTunnel =>
            \/ by_name[tunnels'[h].name] = tunnels'[h].id
            \/ pending[tunnels'[h].id] # None /\ Has(to_client, "opened", tunnels'[h].id)
            \/ Has(to_server', "close", tunnels'[h].id)
            \/ tunnels'[h].id \in superseded
      BY <1>1, <1>2, <1>3, <2>1 DEF Ends
    <3>2. \A n \in Names : by_name[n] # NoId =>
            Serves(by_name[n])' /\ ~Has(to_server', "close", by_name[n])
      BY <1>1, <1>2, <1>3, <2>1 DEF Ends, LinkTypeOK
    <3>3. \A j \in superseded : Serves(j)' /\ ~Has(to_server', "close", j)
      BY <1>1, <1>2, <1>3, <2>1 DEF Ends, LinkTypeOK
    <3>4. \A j \in Ids : Has(to_client, "opened", j) /\ pending[j] # None =>
            Serves(j)' /\ ~Has(to_server', "close", j)
      BY <1>1, <1>2, <1>3, <2>1 DEF Ends
    <3>5. \A j \in Ids : Has(to_server', "open", j) => ~Has(to_server', "close", j)
      BY <1>1, <1>2, <2>1 DEF Ends
    <3>6. QED
      BY <3>1, <3>2, <3>3, <3>4, <3>5
  <2>2. UNCHANGED <<by_name, superseded, ports, pending, control, mux, server, to_client>>
    BY <1>1
  <2>3. QED
    BY <2>1, <2>2 DEF Ends, Serves
<1>9. QED
  BY <1>4, <1>5, <1>6, <1>7, <1>8

\* A kick is about no tunnel.
LEMMA ServerKicksKeeps ==
  ASSUME NEW home \in [Ids -> Names \cup {None}], Consistent(home), ServerKicks
  PROVE  Consistent(home)'
<1> USE DEF Consistent
<1>1. /\ LinkTypeOK /\ server' = "leaving"
      /\ UNCHANGED <<calls, calling, promised, control, next_id, pending, by_name, superseded, ports, answered,
                     to_server, mux, tunnels, visitor, next_record>>
      /\ ToClient(Message("kick", NoId, None, None))
  BY DEF ServerKicks, engineVars, controlVars, serverVars, inspectorVars
<1>2. PICK m \in Messages : m = Message("kick", NoId, None, None)
  BY DEF Message, Messages
<1>3. m.type = "kick" /\ m.type \notin Replies /\ Honest(m, home)
  BY <1>2 DEF Message, Honest, Replies
<1>4. /\ to_client' \in Seq(Messages) /\ AllHonest(to_client', home)
      /\ \A i : Has(to_client', "opened", i) => Has(to_client, "opened", i)
      /\ \A i : Has(to_client', "error", i) => Has(to_client, "error", i)
      /\ HasAny(to_client', Replies) => HasAny(to_client, Replies)
      /\ AtMostOne(to_client, Replies) => AtMostOne(to_client', Replies)
  BY <1>1, <1>2, <1>3, Answering
<1>5. LinkTypeOK'
  BY <1>1, <1>4 DEF LinkTypeOK
<1>6. Homes(home)'
  <2>1. AllHonest(to_server', home)
    BY <1>1 DEF Homes
  <2>2. QED
    BY <1>1, <1>4, <2>1 DEF Homes
<1>7. OneOpen'
  <2>1. control # "ended" =>
          /\ \A i \in Ids : Has(to_client', "opened", i) \/ Has(to_client', "error", i) =>
               pending[i] # None
          /\ AtMostOne(to_client', Replies)
          /\ HasAny(to_client', Replies) => ~HasAny(to_server, Asks)
    BY <1>4 DEF OneOpen
  <2>2. QED
    BY <1>1, <2>1 DEF OneOpen
<1>8. Promises' /\ Ends' /\ DeliveredHome'
  BY <1>1 DEF Promises, Ends, DeliveredHome
<1>9. QED
  BY <1>5, <1>6, <1>7, <1>8

\* What the two channels may lose at any time: the session is over.
LEMMA LosesMessages ==
  ASSUME NEW home \in [Ids -> Names \cup {None}], Consistent(home),
         Within(to_server', to_server), Within(to_client', to_client),
         UNCHANGED <<calls, calling, promised, control, next_id, pending, by_name, superseded, ports, answered,
                     next_record>>,
         \A h \in Hosts : tunnels'[h] \in {tunnels[h], NoTunnel},
         tunnels' \in [Hosts -> [id : Ids \cup {NoId}, name : Names \cup {None}]],
         ~(server' = "up" /\ mux' = "up"),
         visitor' \in [Visitors -> VisitorStates],
         \A v \in Visitors : visitor'[v] = visitor[v] \/ visitor'[v] = Gone
  PROVE  Consistent(home)'
<1> USE DEF Consistent
<1>1. LinkTypeOK
  OBVIOUS
<1>2. \A v \in Visitors : visitor'[v] # visitor[v] =>
        ~OnItsWay(visitor'[v]) /\ visitor'[v].taken_to = None /\ visitor'[v].at = "gone"
  BY DEF Gone, Nowhere, OnItsWay
<1>3. LinkTypeOK'
  BY <1>1 DEF LinkTypeOK, Within
<1>4. Homes(home)'
  <2>1. AllHonest(to_server', home) /\ AllHonest(to_client', home)
    BY DEF Homes, Within
  <2>2. \A h \in Hosts : tunnels'[h] # NoTunnel =>
          /\ tunnels'[h].id \in Ids /\ tunnels'[h].name \in Names
          /\ home[tunnels'[h].id] = tunnels'[h].name
    BY DEF Homes
  <2>3. \A v \in Visitors : OnItsWay(visitor'[v]) =>
          /\ visitor'[v].id \in Ids /\ visitor'[v].name \in Names
          /\ home[visitor'[v].id] = visitor'[v].name
    BY <1>2 DEF Homes
  <2>4. QED
    BY <2>1, <2>2, <2>3 DEF Homes
<1>5. OneOpen'
  <2>1. /\ "eof" \notin Asks /\ "eof" \notin Replies
        /\ \A i : Has(to_server', "open", i) => Has(to_server, "open", i)
        /\ \A i : Has(to_client', "opened", i) => Has(to_client, "opened", i)
        /\ \A i : Has(to_client', "error", i) => Has(to_client, "error", i)
    BY DEF Within, Asks, Replies
  <2>2. /\ HasAny(to_server', Asks) => HasAny(to_server, Asks)
        /\ HasAny(to_client', Replies) => HasAny(to_client, Replies)
        /\ AtMostOne(to_server, Asks) => AtMostOne(to_server', Asks)
        /\ AtMostOne(to_client, Replies) => AtMostOne(to_client', Replies)
    BY <2>1 DEF Within
  <2>3. control # "ended" =>
          /\ \A i \in Ids : Has(to_server', "open", i) => pending[i] # None
          /\ \A i \in Ids : Has(to_client', "opened", i) \/ Has(to_client', "error", i) =>
               pending[i] # None
          /\ AtMostOne(to_server', Asks) /\ AtMostOne(to_client', Replies)
          /\ HasAny(to_client', Replies) => ~HasAny(to_server', Asks)
    BY <2>1, <2>2 DEF OneOpen
  <2>4. QED
    BY <2>3 DEF OneOpen
<1>6. Promises'
  <2>1. \A v \in Visitors : OnItsWay(visitor'[v]) => visitor'[v] = visitor[v]
    BY <1>2
  <2>2. QED
    BY <2>1 DEF Promises
<1>7. Ends'
  BY DEF Ends
<1>8. DeliveredHome'
  BY <1>2 DEF DeliveredHome
<1>9. QED
  BY <1>3, <1>4, <1>5, <1>6, <1>7, <1>8

\* The session's end, at the server or under the streams.
LEMMA SessionEndsKeeps ==
  ASSUME NEW home \in [Ids -> Names \cup {None}], Consistent(home),
         ServerLeaves \/ Breaks \/ \E v \in Visitors : DriverStops(v)
  PROVE  Consistent(home)'
<1>1. LinkTypeOK
  BY DEF Consistent
<1>2. \A s \in Seq(Messages) : \A n \in 0..Len(s) : Within(Close(SubSeq(s, 1, n)), s)
  <2> SUFFICES ASSUME NEW s \in Seq(Messages), NEW n \in 0..Len(s)
               PROVE  Within(Close(SubSeq(s, 1, n)), s)
    OBVIOUS
  <2>1. Within(SubSeq(s, 1, n), s)
    BY ChannelCut
  <2>2. SubSeq(s, 1, n) \in Seq(Messages)
    BY <2>1 DEF Within
  <2>3. QED
    BY <2>1, <2>2, ChannelClose
<1>3. \A s \in Seq(Messages) : Within(<<>>, s) /\ Within(s, s) /\ Within(Close(s), s)
  BY ChannelEmpty, ChannelClose
<1>4. Within(to_server', to_server) /\ Within(to_client', to_client)
  <2>1. to_server \in Seq(Messages) /\ to_client \in Seq(Messages)
    BY <1>1 DEF LinkTypeOK
  <2>2. CASE ServerLeaves
    BY <1>3, <2>1, <2>2 DEF ServerLeaves
  <2>3. CASE Breaks
    BY <1>2, <1>3, <2>1, <2>3 DEF Breaks
  <2>4. CASE \E v \in Visitors : DriverStops(v)
    BY <1>3, <2>1, <2>4 DEF DriverStops
  <2>5. QED
    BY <2>2, <2>3, <2>4
<1>5. UNCHANGED <<calls, calling, promised, control, next_id, pending, by_name, superseded, ports, answered,
                  next_record>>
  BY DEF ServerLeaves, Breaks, DriverStops, engineVars, controlVars, inspectorVars
<1>6. /\ \A h \in Hosts : tunnels'[h] \in {tunnels[h], NoTunnel}
      /\ tunnels' \in [Hosts -> [id : Ids \cup {NoId}, name : Names \cup {None}]]
      /\ ~(server' = "up" /\ mux' = "up")
  <2>1. NoTunnel \in [id : Ids \cup {NoId}, name : Names \cup {None}]
    BY DEF NoTunnel
  <2>2. QED
    BY <1>1, <2>1 DEF ServerLeaves, Breaks, DriverStops, serverVars, LinkTypeOK
<1>7. /\ visitor' \in [Visitors -> VisitorStates]
      /\ \A v \in Visitors : visitor'[v] = visitor[v] \/ visitor'[v] = Gone
  <2>1. Gone \in VisitorStates
    BY DEF Gone, Nowhere, VisitorStates
  <2>2. visitor \in [Visitors -> VisitorStates]
    BY <1>1 DEF LinkTypeOK
  <2>3. CASE UNCHANGED visitor
    BY <2>2, <2>3
  <2>4. CASE VisitorsCutOff
    BY <2>1, <2>2, <2>4 DEF VisitorsCutOff
  <2>5. QED
    BY <2>3, <2>4 DEF ServerLeaves, Breaks, DriverStops
<1>8. QED
  BY <1>4, <1>5, <1>6, <1>7, LosesMessages

-----------------------------------------------------------------------------
(* The visitors. *)

\* What must be true of where a visitor goes.
LEMMA VisitorMoves ==
  ASSUME NEW home \in [Ids -> Names \cup {None}], Consistent(home),
         UNCHANGED <<calls, calling, promised, control, next_id, pending, by_name, superseded, ports, answered,
                     to_server, to_client, mux, server, tunnels>>,
         next_record' \in Nat,
         NEW v \in Visitors, NEW x \in VisitorStates, visitor' = [visitor EXCEPT ![v] = x],
         OnItsWay(x) => x.id \in Ids /\ x.name \in Names /\ home[x.id] = x.name,
         OnItsWay(x) /\ x.promised => pending[x.id] = None /\ answered # x.id,
         x.at = "dropped" => ports[x.id] = None,
         x.taken_to \in {None, x.name}
  PROVE  Consistent(home)'
<1> USE DEF Consistent
<1>1. LinkTypeOK
  OBVIOUS
<1>2. \A w \in Visitors : visitor'[w] = IF w = v THEN x ELSE visitor[w]
  BY <1>1 DEF LinkTypeOK
<1>3. LinkTypeOK'
  BY <1>1 DEF LinkTypeOK
<1>4. Homes(home)'
  <2>1. \A w \in Visitors : OnItsWay(visitor'[w]) =>
          /\ visitor'[w].id \in Ids /\ visitor'[w].name \in Names
          /\ home[visitor'[w].id] = visitor'[w].name
    BY <1>2 DEF Homes
  <2>2. QED
    BY <2>1 DEF Homes
<1>5. OneOpen' /\ Ends'
  BY DEF OneOpen, Ends, Serves
<1>6. Promises'
  <2>1. \A w \in Visitors : OnItsWay(visitor'[w]) /\ visitor'[w].promised =>
          /\ pending[visitor'[w].id] = None /\ answered # visitor'[w].id
          /\ visitor'[w].at = "dropped" => ports[visitor'[w].id] = None
    BY <1>2 DEF Promises
  <2>2. QED
    BY <2>1 DEF Promises
<1>7. DeliveredHome'
  BY <1>2 DEF DeliveredHome
<1>8. QED
  BY <1>3, <1>4, <1>5, <1>6, <1>7

\* A stream's header carries an id that was given out for the tunnel's name; and
\* if it is the one promised, its open has been answered.
LEMMA ArrivesKeeps ==
  ASSUME NEW home \in [Ids -> Names \cup {None}], Consistent(home),
         NEW v \in Visitors, NEW h \in AsksFor[v], Arrives(v, h)
  PROVE  Consistent(home)'
<1> DEFINE n == tunnels[h].name
           i == tunnels[h].id
<1>1. LinkTypeOK /\ h \in Hosts /\ None \notin Names /\ NoId \notin Ids
  BY LinkAssumption DEF Consistent, Ids, NoId
<1>2. /\ UNCHANGED <<calls, calling, promised, control, next_id, pending, by_name, superseded, ports, answered,
                     to_server, to_client, mux, server, tunnels>>
      /\ next_record' \in Nat
  BY <1>1 DEF Arrives, engineVars, controlVars, wireVars, serverVars, inspectorVars, LinkTypeOK
<1>3. /\ i \in Ids /\ n \in Names /\ home[i] = n
      /\ promised[n] = i => pending[i] = None /\ answered # i
  BY <1>1 DEF Arrives, Consistent, LinkTypeOK, Homes, Promises
<1>4. CASE mux = "gone"
  <2>1. visitor' = [visitor EXCEPT ![v] = Gone]
    BY <1>4 DEF Arrives
  <2>2. Gone \in VisitorStates /\ Gone.at = "gone" /\ Gone.taken_to = None
    BY DEF Gone, Nowhere, VisitorStates
  <2>3. QED
    BY <1>2, <2>1, <2>2, VisitorMoves DEF OnItsWay
<1>5. CASE mux # "gone"
  <2>1. PICK p \in BOOLEAN : p = (promised[n] = i)
    OBVIOUS
  <2>2. PICK x : x = [Nowhere EXCEPT !.at = "stream", !.name = n, !.id = i, !.promised = p]
    OBVIOUS
  <2>3. visitor' = [visitor EXCEPT ![v] = x]
    BY <1>5, <2>1, <2>2 DEF Arrives, StreamHeader
  <2>4. /\ x \in VisitorStates /\ x.at = "stream" /\ x.taken_to = None
        /\ x.id = i /\ x.name = n /\ (x.promised => promised[n] = i)
    BY <1>1, <1>3, <2>1, <2>2 DEF Nowhere, VisitorStates
  <2>5. QED
    BY <1>1, <1>2, <1>3, <2>3, <2>4, VisitorMoves
<1>6. QED
  BY <1>4, <1>5

\* The route of an id leads to the name that it was given out for.
LEMMA RoutesKeeps ==
  ASSUME NEW home \in [Ids -> Names \cup {None}], Consistent(home),
         NEW v \in Visitors, Routes(v)
  PROVE  Consistent(home)'
<1>1. LinkTypeOK /\ None \notin Names /\ NoId \notin Ids
  BY LinkAssumption DEF Consistent, Ids, NoId
<1>2. /\ UNCHANGED <<calls, calling, promised, control, next_id, pending, by_name, superseded, ports, answered,
                     to_server, to_client, mux, server, tunnels>>
      /\ next_record' \in Nat
  BY <1>1 DEF Routes, engineVars, controlVars, wireVars, serverVars, inspectorVars, LinkTypeOK
<1>3. /\ visitor[v] \in VisitorStates /\ visitor[v].at = "accepted"
      /\ visitor[v].id \in Ids /\ visitor[v].name \in Names
      /\ home[visitor[v].id] = visitor[v].name
      /\ visitor[v].promised => pending[visitor[v].id] = None /\ answered # visitor[v].id
      /\ visitor[v].taken_to \in {None, visitor[v].name}
  BY <1>1 DEF Routes, Consistent, LinkTypeOK, Homes, Promises, OnItsWay, DeliveredHome
<1>4. CASE ports[visitor[v].id] = None
  <2>1. PICK x : x = [visitor[v] EXCEPT !.at = "dropped"]
    OBVIOUS
  <2>2. visitor' = [visitor EXCEPT ![v] = x]
    BY <1>1, <1>4, <2>1 DEF Routes, LinkTypeOK
  <2>3. /\ x \in VisitorStates /\ x.name = visitor[v].name /\ x.id = visitor[v].id
        /\ x.promised = visitor[v].promised /\ x.taken_to = visitor[v].taken_to
    BY <1>3, <2>1 DEF VisitorStates
  <2>4. QED
    BY <1>2, <1>3, <1>4, <2>2, <2>3, VisitorMoves
<1>5. CASE ports[visitor[v].id] # None
  <2>1. PICK x : x = [Nowhere EXCEPT !.at = "served", !.name = visitor[v].name, !.taken_to = ports[visitor[v].id]]
    OBVIOUS
  <2>2. visitor' = [visitor EXCEPT ![v] = x]
    BY <1>5, <2>1 DEF Routes
  <2>3. ports[visitor[v].id] = visitor[v].name
    BY <1>3, <1>5 DEF Consistent, Homes
  <2>4. x \in VisitorStates /\ x.at = "served" /\ ~OnItsWay(x) /\ x.taken_to = x.name
    BY <1>3, <2>1, <2>3 DEF VisitorStates, OnItsWay, Nowhere
  <2>5. QED
    BY <1>2, <2>2, <2>4, VisitorMoves
<1>6. QED
  BY <1>4, <1>5

\* The other steps of a visitor leave its tunnel alone.
LEMMA VisitKeeps ==
  ASSUME NEW home \in [Ids -> Names \cup {None}], Consistent(home), NEW v \in Visitors,
         Accepts(v) \/ LeavesUnrecorded(v) \/ DrawsRecord(v) \/ Records(v) \/ RecordsStatus(v)
  PROVE  Consistent(home)'
<1>1. LinkTypeOK /\ None \notin Names /\ NoId \notin Ids
  BY LinkAssumption DEF Consistent, Ids, NoId
<1>2. /\ UNCHANGED <<calls, calling, promised, control, next_id, pending, by_name, superseded, ports, answered,
                     to_server, to_client, mux, server, tunnels>>
      /\ next_record' \in Nat
  BY <1>1
     DEF Accepts, LeavesUnrecorded, DrawsRecord, Records, RecordsStatus, DrawRecordId, RecordRequest,
         RecordResponse, engineVars, controlVars, wireVars, serverVars, inspectorVars, LinkTypeOK
<1>3. /\ visitor[v] \in VisitorStates /\ visitor \in [Visitors -> VisitorStates]
      /\ visitor[v].taken_to \in {None, visitor[v].name}
      /\ next_record \in Nat
  BY <1>1 DEF Consistent, LinkTypeOK, DeliveredHome
<1>4. CASE Accepts(v)
  <2>1. PICK x : x = [visitor[v] EXCEPT !.at = "accepted"]
    OBVIOUS
  <2>2. visitor' = [visitor EXCEPT ![v] = x] /\ visitor[v].at = "stream"
    BY <1>3, <1>4, <2>1 DEF Accepts, Moves
  <2>3. /\ x \in VisitorStates /\ x.name = visitor[v].name /\ x.id = visitor[v].id
        /\ x.promised = visitor[v].promised /\ x.taken_to = visitor[v].taken_to
        /\ x.at = "accepted"
    BY <1>3, <2>1 DEF VisitorStates
  <2>4. /\ visitor[v].id \in Ids /\ visitor[v].name \in Names
        /\ home[visitor[v].id] = visitor[v].name
        /\ visitor[v].promised => pending[visitor[v].id] = None /\ answered # visitor[v].id
    BY <2>2 DEF Consistent, Homes, Promises, OnItsWay
  <2>5. QED
    BY <1>2, <1>3, <2>2, <2>3, <2>4, VisitorMoves
<1>5. CASE DrawsRecord(v)
  <2>1. PICK x : x = [visitor[v] EXCEPT !.at = "drawn", !.record = next_record + 1]
    OBVIOUS
  <2>2. visitor' = [visitor EXCEPT ![v] = x]
    BY <1>3, <1>5, <2>1 DEF DrawsRecord
  <2>3. /\ x \in VisitorStates /\ x.at = "drawn"
        /\ x.name = visitor[v].name /\ x.taken_to = visitor[v].taken_to
    <3>1. next_record + 1 \in Nat
      BY <1>3
    <3>2. QED
      BY <1>3, <2>1, <3>1 DEF VisitorStates
  <2>4. QED
    BY <1>2, <1>3, <2>2, <2>3, VisitorMoves DEF OnItsWay
<1>6. CASE LeavesUnrecorded(v) \/ Records(v) \/ RecordsStatus(v)
  <2>1. PICK x : /\ visitor' = [visitor EXCEPT ![v] = x]
                 /\ \/ x = Gone
                    \/ x = [Nowhere EXCEPT !.at = "recorded", !.record = visitor[v].record]
    BY <1>6 DEF LeavesUnrecorded, Records, RecordsStatus, Leaves
  <2>2. Gone \in VisitorStates /\ Gone.at = "gone" /\ Gone.taken_to = None
    BY DEF Gone, Nowhere, VisitorStates
  <2>3. /\ [Nowhere EXCEPT !.at = "recorded", !.record = visitor[v].record] \in VisitorStates
        /\ [Nowhere EXCEPT !.at = "recorded", !.record = visitor[v].record].at = "recorded"
        /\ [Nowhere EXCEPT !.at = "recorded", !.record = visitor[v].record].taken_to = None
    <3>1. visitor[v].record \in Nat
      BY <1>3 DEF VisitorStates
    <3>2. QED
      BY <3>1 DEF Nowhere, VisitorStates
  <2>4. QED
    BY <1>2, <2>1, <2>2, <2>3, VisitorMoves DEF OnItsWay
<1>7. QED
  BY <1>4, <1>5, <1>6

-----------------------------------------------------------------------------
(* The theorems. *)

\* The invariant holds in every state: what goes with an id is the name it was
\* given out for, opens are made one at a time, promises have their routes, and
\* the channels hold what the two ends do not agree on yet.
THEOREM LinkInvariant == Spec => []LinkInv
<1>1. Init => LinkInv
  <2> SUFFICES ASSUME Init PROVE LinkInv
    OBVIOUS
  <2> USE DEF Init
  <2>1. PICK home : home = [i \in Ids |-> None]
    OBVIOUS
  <2>2. home \in [Ids -> Names \cup {None}] /\ 1 \in Nat \ {0} /\ LinkAssumption
    BY <2>1, LinkAssumption
  <2>3. LinkTypeOK
    BY <2>2 DEF LinkTypeOK, InspectorInit, Nowhere, NoTunnel, VisitorStates
  <2>4. Homes(home)
    BY <2>1 DEF Homes, Nowhere, OnItsWay, AllHonest, NoTunnel
  <2>5. OneOpen /\ Promises /\ Ends
    BY DEF OneOpen, Promises, Ends, Has, HasAny, AtMostOne, Nowhere, OnItsWay
  <2>6. DeliveredHome
    BY DEF DeliveredHome, Nowhere
  <2>7. QED
    BY <2>2, <2>3, <2>4, <2>5, <2>6 DEF LinkInv, Consistent
<1>2. LinkInv /\ [Next]_vars => LinkInv'
  <2> SUFFICES ASSUME NEW home \in [Ids -> Names \cup {None}], Consistent(home), [Next]_vars
               PROVE  \E h \in [Ids -> Names \cup {None}] : Consistent(h)'
    BY DEF LinkInv
  <2>1. CASE \E n \in Names : CallClose(n) \/ \E h \in HostsOf[n] : CallOpen(n, h)
    BY <2>1, CallOpenKeeps, CallCloseKeeps
  <2>2. CASE Disconnect \/ DataPlaneEnds \/ UserClears \/ UNCHANGED vars
    BY <2>2, AsideKeeps
  <2>3. CASE ControlLoop
    BY <2>3, ControlLoopKeeps
  <2>4. CASE ServerOpens \/ ServerRefuses \/ ServerCloses \/ ServerKicks
    BY <2>4, ServerAnswersKeeps, ServerClosesKeeps, ServerKicksKeeps
  <2>5. CASE ServerLeaves \/ Breaks
    BY <2>5, SessionEndsKeeps
  <2>6. ASSUME NEW v \in Visitors, Visitor(v)
        PROVE  \E h \in [Ids -> Names \cup {None}] : Consistent(h)'
    <3>1. CASE \E h \in AsksFor[v] : Arrives(v, h)
      BY <3>1, ArrivesKeeps
    <3>2. CASE DriverStops(v)
      BY <3>2, SessionEndsKeeps
    <3>3. CASE Routes(v)
      BY <3>3, RoutesKeeps
    <3>4. CASE Accepts(v) \/ LeavesUnrecorded(v) \/ DrawsRecord(v) \/ Records(v) \/ RecordsStatus(v)
      BY <3>4, VisitKeeps
    <3>5. QED
      BY <2>6, <3>1, <3>2, <3>3, <3>4 DEF Visitor
  <2>7. QED
    BY <2>1, <2>2, <2>3, <2>4, <2>5, <2>6 DEF Next, Engine, Server
<1>3. QED
  BY <1>1, <1>2, PTL DEF Spec

\* A visitor is taken to the local port of the tunnel it asked for and to no
\* other, whatever has been closed and opened since it was looked up
\* (forward() goes by the id, and an id is never used for two names).
THEOREM VisitorsGoHome == Spec => []DeliveredHome
<1>1. LinkInv => DeliveredHome
  BY DEF LinkInv, Consistent
<1>2. QED
  BY <1>1, LinkInvariant, PTL

\* No visitor of an announced address is dropped as one for an unknown tunnel
\* while the engine has not closed the tunnel: the control loop has the route
\* before it replies, and a failed open takes no route away.
THEOREM AnnouncedAreServed == Spec => []AnnouncedIsServed
<1>1. LinkInv => AnnouncedIsServed
  <2> SUFFICES ASSUME NEW home, Consistent(home), NEW v \in Visitors,
                      visitor[v].at = "dropped", visitor[v].promised
               PROVE  visitor[v].id \notin superseded \cup {promised[visitor[v].name]}
    BY DEF LinkInv, AnnouncedIsServed
  <2>1. /\ visitor[v].id \in Ids /\ visitor[v].name \in Names
        /\ ports[visitor[v].id] = None
    BY DEF Consistent, Homes, Promises, OnItsWay
  <2>2. visitor[v].id # NoId /\ None \notin Names
    BY <2>1, LinkAssumption DEF Ids, NoId
  <2>3. QED
    BY <2>1, <2>2 DEF Consistent, Promises, Ends
<1>2. QED
  BY <1>1, LinkInvariant, PTL

\* The client's tunnels and the server's are the same, but for the opens and the
\* closes on their way and the tunnels that lost their name to another host.
THEOREM TwoEndsAgree == Spec => []EndsAgree
<1>1. LinkInv => EndsAgree
  <2> SUFFICES ASSUME NEW home, Consistent(home), server = "up", mux = "up", control # "ended"
               PROVE  /\ \A h \in Hosts : tunnels[h] # NoTunnel =>
                           \/ by_name[tunnels[h].name] = tunnels[h].id
                           \/ pending[tunnels[h].id] # None
                           \/ Has(to_server, "close", tunnels[h].id)
                           \/ tunnels[h].id \in superseded
                      /\ \A n \in Names : by_name[n] # NoId => Serves(by_name[n]) /\ ports[by_name[n]] = n
                      /\ \A id \in superseded : Serves(id) /\ ports[id] # None
    BY DEF LinkInv, EndsAgree, Has
  <2>1. QED
    BY DEF Consistent, Ends
<1>2. QED
  BY <1>1, LinkInvariant, PTL
=============================================================================
