--------------------------- MODULE FileCopyProofs ---------------------------
(***************************************************************************)
(* Copies of files of any length, any number of them one after another,    *)
(* over a link that loses packets, with a client that gives up at any      *)
(* moment and flash operations that fail.                                  *)
(***************************************************************************)
EXTENDS FileCopy, TLAPS

-----------------------------------------------------------------------------
(***************************************************************************)
(* Types.                                                                  *)
(***************************************************************************)
Blocks == Files \X Nat
Command == [t : {"CMD"}, id : Nat, file : Files, action : Actions, crc : Seq(Blocks),
            rx_ack_period : Nat]
DataPacket == [t : {"DATA"}, id : Nat, offset : Nat, payload : Blocks]
Response == [t : {"RSP"}, id : Nat, ok : BOOLEAN, recv_len : Nat, recv_crc : Seq(Blocks)]
Upward == Command \cup DataPacket
Downward == [t : {"ACK"}, id : Nat] \cup Response

LinkType == toServer \in Seq(Upward) /\ toClient \in Seq(Downward)

Early == {"sending", "ack_find", "ack_take", "early", "update", "load"}
Sending == {"send_find", "send_take"}
Late == {"final", "cleanup", "succeed"}

CmdCtx == [request_id : Nat, tx_tokens : Nat, tx_tokens_on_ack : Nat, armed : BOOLEAN,
           tx_result : {0, -1}]

ClientType ==
    /\ cpc \in {"idle"} \cup Early \cup Sending \cup Late
    /\ copies \in Nat /\ offset \in Nat
    /\ cpc # "idle" => copy \in Copies
    /\ c \in CmdCtx
    /\ tx \in Seq(Command)
    /\ rx = NoPacket \/ rx \in [packet : Downward, of : Nat]
    /\ returned \in Seq(BOOLEAN)

Partitions == {"slot1", "file"}
Contents == Seq(Blocks) \cup {Patched(f) : f \in Files}
Context == [received : Seq(Blocks), crc : Seq(Blocks), expected_offset : Nat,
            needs_cleanup : BOOLEAN]
Record == [id : Nat, file : Files, content : Contents]

ServerType ==
    /\ command_fifo \in Seq(Command) /\ data_fifo \in Seq(DataPacket)
    /\ spc \in {"poll", "start", "pull", "check", "finish", "deferred", "end"}
    /\ spc # "poll" => req \in Command
    /\ ctx \in Context
    /\ areas \in Int /\ erasing \in Int
    /\ dfu_reboot \in BOOLEAN /\ faulted \in BOOLEAN
    /\ flash \in [Partitions -> Contents]
    /\ written \in Seq(Record)

-----------------------------------------------------------------------------
(***************************************************************************)
(* The packets on their way.  A command says what its data is, and the     *)
(* data of a command comes in the order of its offsets.                    *)
(***************************************************************************)
\* The elements of a queue.
Members(q) == {q[i] : i \in DOMAIN q}

Commands == Members(tx) \cup {m \in Members(toServer) : m.t = "CMD"} \cup Members(command_fifo)
                \cup (IF spc = "poll" THEN {} ELSE {req})
Datas == Members(data_fifo) \cup {m \in Members(toServer) : m.t = "DATA"}

CommandInv ==
    \A m \in Commands : /\ m.id \in 1..copies
                        /\ m.crc \in {NoCrc, Whole(m.file)}
                        /\ m.id = copies /\ cpc # "idle" => m.file = copy.file

DataInv ==
    \A d \in Datas :
        /\ d.id <= copies
        /\ \A m \in Commands :
               m.id = d.id => d.payload = Block(m.file, d.offset) /\ d.offset < FileLen[m.file]

Same(d, e) == d.t = "DATA" /\ e.t = "DATA" /\ d.id = e.id
Ordered(q) == \A i, k \in 1..Len(q) : i < k /\ Same(q[i], q[k]) => q[i].offset < q[k].offset
Before(q, r) == \A d \in Members(q), e \in Members(r) : Same(d, e) => d.offset < e.offset

OrderInv == Ordered(data_fifo) /\ Ordered(toServer) /\ Before(data_fifo, toServer)

\* The client has sent the data below its offset.
SenderInv ==
    /\ cpc \in Early => \A d \in Datas : d.id # copies
    /\ cpc \in Sending => \A d \in Datas : d.id = copies => d.offset < offset
    /\ cpc = "send_find" => offset <= FileLen[copy.file]
    /\ cpc = "send_take" => offset < FileLen[copy.file]

-----------------------------------------------------------------------------
(***************************************************************************)
(* What the server has received.  It does not look for gaps; but data that *)
(* comes in order has as many blocks as the file only without a gap.       *)
(***************************************************************************)
Gapless(s, f) == \A k \in 1..Len(s) : s[k] = Block(f, k - 1)

ReceiveInv ==
    spc \in {"start", "pull", "check"} =>
        /\ Len(ctx.received) <= ctx.expected_offset
        /\ ctx.expected_offset <= FileLen[req.file]
        /\ Len(ctx.received) = ctx.expected_offset => Gapless(ctx.received, req.file)
        /\ ctx.crc = ctx.received
        /\ \A d \in Datas : d.id = req.id => ctx.expected_offset <= d.offset
        /\ req.id = copies /\ cpc \in Early => ctx.expected_offset = 0
        /\ req.id = copies /\ cpc \in Sending => ctx.expected_offset <= offset
        /\ spc = "start" => ctx = FreshCtx
        /\ spc = "check" => ctx.expected_offset = FileLen[req.file]
        /\ spc # "start" /\ HasArea(req) => flash[Partition[req.action]] = ctx.received

FinishInv ==
    /\ spc = "finish" => IsWhole(ContentOf(req), req.file)
    /\ spc = "deferred" => req.action = "APP_CPATCH" /\ req.file \in ValidPatches

\* The flash areas that are open, at each step of a command.
AreaInv ==
    ~faulted =>
        /\ areas = IF (spc \in {"pull", "check", "finish"} /\ HasArea(req)) \/ spc = "deferred"
                   THEN 1 ELSE 0
        /\ erasing = IF spc \in {"pull", "check", "finish"} /\ ctx.needs_cleanup THEN 1 ELSE 0

-----------------------------------------------------------------------------
(***************************************************************************)
(* What the client is told: a response of success to a request comes after *)
(* the request was accepted.                                               *)
(***************************************************************************)
Accepted(id) == \E i \in DOMAIN written : written[i].id = id
Honest(m) == m.id >= 1 /\ (m.t = "RSP" /\ m.ok => Accepted(m.id))

CopyInv ==
    /\ Len(returned) = IF cpc = "idle" THEN copies ELSE copies - 1
    /\ cpc # "idle" => c.request_id \in {0, copies}
    /\ \A m \in Members(toClient) : Honest(m)
    /\ rx # NoPacket => Honest(rx.packet) /\ rx.packet.id = rx.of
    /\ cpc # "idle" /\ outcome.ok => Accepted(copies)
    /\ cpc = "succeed" => Accepted(copies)

Inv ==
    /\ LinkType /\ ClientType /\ ServerType
    /\ CommandInv /\ DataInv /\ OrderInv /\ SenderInv
    /\ ReceiveInv /\ FinishInv /\ AreaInv /\ CopyInv
    /\ AcceptedWhole /\ CopySound

-----------------------------------------------------------------------------
(***************************************************************************)
(* Queues.                                                                 *)
(***************************************************************************)
\* A queue gets one more element.
LEMMA AppendFacts ==
  ASSUME NEW S, NEW q \in Seq(S), NEW x \in S
  PROVE  Append(q, x) \in Seq(S) /\ Members(Append(q, x)) = Members(q) \cup {x}
<1>1. /\ Append(q, x) \in Seq(S) /\ Len(Append(q, x)) = Len(q) + 1
      /\ \A i \in 1..Len(q) : Append(q, x)[i] = q[i]
      /\ Append(q, x)[Len(q) + 1] = x /\ Len(q) \in Nat
  OBVIOUS
<1>2. DOMAIN q = 1..Len(q) /\ DOMAIN Append(q, x) = 1..(Len(q) + 1)
  BY <1>1
<1> DEFINE r == Append(q, x)
<1>3. ASSUME NEW i \in DOMAIN r PROVE r[i] \in Members(q) \cup {x}
  <2>1. i \in DOMAIN q \/ i = Len(q) + 1
    BY <1>1, <1>2
  <2> QED
    BY <1>1, <1>2, <2>1, Zenon DEF Members
<1>4. ASSUME NEW i \in DOMAIN q PROVE q[i] \in Members(r)
  <2>1. i \in DOMAIN r /\ r[i] = q[i]
    BY <1>1, <1>2
  <2> QED
    BY <2>1, Zenon DEF Members
<1>5. x \in Members(r)
  <2>1. Len(q) + 1 \in DOMAIN r /\ r[Len(q) + 1] = x
    BY <1>1, <1>2
  <2> QED
    BY <2>1, Zenon DEF Members
<1> HIDE DEF r
<1>6. Members(r) = Members(q) \cup {x}
  BY <1>3, <1>4, <1>5, Zenon DEF Members
<1> QED
  BY <1>1, <1>6, Zenon DEF r

\* A queue loses its first element.
LEMMA TailFacts ==
  ASSUME NEW S, NEW q \in Seq(S), q # <<>>
  PROVE  Head(q) \in S /\ Tail(q) \in Seq(S) /\ Members(q) = Members(Tail(q)) \cup {Head(q)}
<1>1. /\ Tail(q) \in Seq(S) /\ Len(Tail(q)) = Len(q) - 1 /\ Len(q) \in Nat /\ Len(q) > 0
      /\ \A i \in 1..(Len(q) - 1) : Tail(q)[i] = q[i + 1]
      /\ Head(q) = q[1] /\ Head(q) \in S
  OBVIOUS
<1>2. DOMAIN q = 1..Len(q) /\ DOMAIN Tail(q) = 1..(Len(q) - 1)
  BY <1>1
<1> DEFINE r == Tail(q)
<1>3. ASSUME NEW i \in DOMAIN q PROVE q[i] \in Members(r) \cup {Head(q)}
  <2>1. i = 1 \/ (i - 1 \in DOMAIN r /\ r[i - 1] = q[i])
    BY <1>1, <1>2
  <2> QED
    BY <1>1, <2>1, Zenon DEF Members
<1>4. ASSUME NEW i \in DOMAIN r PROVE r[i] \in Members(q)
  <2>1. i + 1 \in DOMAIN q /\ r[i] = q[i + 1]
    BY <1>1, <1>2
  <2> QED
    BY <2>1, Zenon DEF Members
<1>5. Head(q) \in Members(q)
  <2>1. 1 \in DOMAIN q
    BY <1>1, <1>2
  <2> QED
    BY <1>1, <2>1, Zenon DEF Members
<1> HIDE DEF r
<1>6. Members(q) = Members(r) \cup {Head(q)}
  BY <1>3, <1>4, <1>5, Zenon DEF Members
<1> QED
  BY <1>1, <1>6, Zenon DEF r

\* An element is a member; the last one of a longer queue is the new one.
LEMMA MemberFacts ==
  ASSUME NEW S, NEW q \in Seq(S), NEW i \in 1..Len(q)
  PROVE  q[i] \in Members(q)
BY DEF Members

\* Data that is sent later than all before it keeps a queue in order.
LEMMA OrderedAppend ==
  ASSUME NEW S, NEW q \in Seq(S), NEW x \in S, Ordered(q),
         \A d \in Members(q) : Same(d, x) => d.offset < x.offset
  PROVE  Ordered(Append(q, x))
<1> DEFINE r == Append(q, x)
<1>1. /\ Len(r) = Len(q) + 1 /\ Len(q) \in Nat /\ r[Len(q) + 1] = x
      /\ \A i \in 1..Len(q) : r[i] = q[i]
  OBVIOUS
<1> HIDE DEF r
<1>2. ASSUME NEW i \in 1..Len(r), NEW k \in 1..Len(r), i < k, Same(r[i], r[k])
      PROVE  r[i].offset < r[k].offset
  <2>1. i \in 1..Len(q) /\ r[i] = q[i]
    BY <1>1, <1>2
  <2>2. CASE k \in 1..Len(q)
    <3>1. r[k] = q[k]
      BY <1>1, <2>2, Zenon
    <3> QED
      BY <1>2, <2>1, <2>2, <3>1, Zenon DEF Ordered
  <2>3. CASE k = Len(q) + 1
    BY <1>1, <1>2, <2>1, <2>3, MemberFacts, Zenon
  <2> QED
    BY <1>1, <2>2, <2>3
<1> QED
  BY <1>2, Zenon DEF Ordered, r

\* The first data of a queue in order comes before the rest.
LEMMA OrderedTail ==
  ASSUME NEW S, NEW q \in Seq(S), q # <<>>, Ordered(q)
  PROVE  /\ Ordered(Tail(q))
         /\ \A d \in Members(Tail(q)) : Same(Head(q), d) => Head(q).offset < d.offset
<1> DEFINE r == Tail(q)
<1>1. /\ r \in Seq(S) /\ Len(r) = Len(q) - 1 /\ Len(q) \in Nat /\ Len(q) > 0 /\ Head(q) = q[1]
      /\ \A i \in 1..Len(r) : r[i] = q[i + 1]
  OBVIOUS
<1>2. DOMAIN r = 1..Len(r)
  BY <1>1
<1> HIDE DEF r
<1>3. \A i \in 1..Len(r) : i + 1 \in 1..Len(q) /\ 1 < i + 1 /\ r[i] = q[i + 1]
  BY <1>1
<1>4. \A i, k \in 1..Len(r) : i < k => i + 1 < k + 1
  BY <1>1
<1>5. Ordered(r)
  BY <1>3, <1>4, Zenon DEF Ordered
<1>6. 1 \in 1..Len(q)
  BY <1>1
<1>7. ASSUME NEW d \in Members(r), Same(Head(q), d) PROVE Head(q).offset < d.offset
  <2>1. PICK i \in 1..Len(r) : d = r[i]
    BY <1>2, Zenon DEF Members
  <2> QED
    BY <1>1, <1>3, <1>6, <1>7, <2>1, Zenon DEF Ordered
<1> QED
  BY <1>5, <1>7, Zenon DEF r

\* An empty queue.
LEMMA EmptyQueue ==
  Members(<<>>) = {} /\ Ordered(<<>>) /\ \A S : <<>> \in Seq(S)
BY DEF Members, Ordered

\* The blocks of a file.
LEMMA WholeFacts ==
  ASSUME NEW f \in Files
  PROVE  /\ FileLen[f] \in Nat /\ 0 < FileLen[f]
         /\ Whole(f) \in Seq(Blocks) /\ Len(Whole(f)) = FileLen[f]
<1>1. FileLen[f] \in Nat /\ 0 < FileLen[f]
  BY FilesAssumption
<1>2. \A i \in 1..FileLen[f] : Block(f, i - 1) \in Blocks
  BY <1>1 DEF Block, Blocks
<1>3. Whole(f) \in [1..FileLen[f] -> Blocks]
  BY <1>2, Zenon DEF Whole
<1> QED
  BY <1>1, <1>3

\* As many blocks as the file has, in order, are the file.
LEMMA GaplessIsWhole ==
  ASSUME NEW f \in Files, NEW s \in Seq(Blocks), Gapless(s, f), Len(s) = FileLen[f]
  PROVE  s = Whole(f) /\ IsWhole(s, f)
<1>1. FileLen[f] \in Nat /\ DOMAIN s = 1..FileLen[f] /\ s = [i \in DOMAIN s |-> s[i]]
  BY WholeFacts
<1>2. s = Whole(f)
  BY <1>1, Zenon DEF Gapless, Whole
<1> QED
  BY <1>2, WholeFacts DEF IsWhole, StartsWith

-----------------------------------------------------------------------------
(***************************************************************************)
(* The server takes packets and answers.                                   *)
(***************************************************************************)
Shrinks == Commands' \subseteq Commands /\ Datas' \subseteq Datas /\ OrderInv'

\* The packets on their way are packets.
LEMMA PacketTypes ==
  ASSUME LinkType, ClientType, ServerType
  PROVE  Commands \subseteq Command /\ Datas \subseteq DataPacket
<1>1. /\ Members(tx) \subseteq Command /\ Members(command_fifo) \subseteq Command
      /\ Members(data_fifo) \subseteq DataPacket /\ Members(toServer) \subseteq Upward
  <2>1. ASSUME NEW S, NEW q \in Seq(S) PROVE Members(q) \subseteq S
    BY DEF Members
  <2> QED
    BY <2>1, Zenon DEF LinkType, ClientType, ServerType
<1>2. ASSUME NEW m \in Upward
      PROVE  (m.t = "CMD" => m \in Command) /\ (m.t = "DATA" => m \in DataPacket)
  BY Zenon DEF Upward, Command, DataPacket
<1>3. spc = "poll" \/ req \in Command
  BY Zenon DEF ServerType
<1> QED
  BY <1>1, <1>2, <1>3, Zenon DEF Commands, Datas

\* A step of the server thread takes at most the first packet of each queue.
Turn ==
    /\ toServer' = toServer
    /\ data_fifo' = data_fifo \/ (data_fifo # <<>> /\ data_fifo' = Tail(data_fifo))
    /\ \/ command_fifo' = command_fifo /\ (spc' = "poll" \/ (spc # "poll" /\ req' = req))
       \/ command_fifo # <<>> /\ command_fifo' = Tail(command_fifo) /\ req' = Head(command_fifo)

\* What is left of two queues is still one before the other.
LEMMA BeforeSubset ==
  ASSUME NEW q, NEW r, NEW u, NEW v, Before(q, r),
         Members(u) \subseteq Members(q), Members(v) \subseteq Members(r)
  PROVE  Before(u, v)
BY Zenon DEF Before

\* A step of the server only takes packets.
LEMMA TurnShrinks ==
  ASSUME LinkType, ServerType, OrderInv, Turn, tx' = tx
  PROVE  /\ Shrinks
         /\ command_fifo' \in Seq(Command) /\ data_fifo' \in Seq(DataPacket)
<1>1. /\ data_fifo' \in Seq(DataPacket) /\ Members(data_fifo') \subseteq Members(data_fifo)
      /\ Ordered(data_fifo')
  <2>1. data_fifo \in Seq(DataPacket) /\ Ordered(data_fifo)
    BY Zenon DEF ServerType, OrderInv
  <2>2. data_fifo # <<>> => /\ Tail(data_fifo) \in Seq(DataPacket) /\ Ordered(Tail(data_fifo))
                            /\ Members(data_fifo) = Members(Tail(data_fifo)) \cup {Head(data_fifo)}
    BY <2>1, TailFacts, OrderedTail, Zenon
  <2> QED
    BY <2>1, <2>2, Zenon DEF Turn
<1>2. /\ command_fifo' \in Seq(Command) /\ Members(command_fifo') \subseteq Members(command_fifo)
      /\ spc' = "poll" \/ req' \in Members(command_fifo) \/ (spc # "poll" /\ req' = req)
  <2>1. command_fifo \in Seq(Command)
    BY Zenon DEF ServerType
  <2>2. command_fifo # <<>> =>
            /\ Tail(command_fifo) \in Seq(Command)
            /\ Members(command_fifo) = Members(Tail(command_fifo)) \cup {Head(command_fifo)}
    BY <2>1, TailFacts, Zenon
  <2> QED
    BY <2>1, <2>2, Zenon DEF Turn
<1>3. OrderInv'
  BY <1>1, BeforeSubset, Zenon DEF OrderInv, Turn
<1>4. Commands' \subseteq Commands
  BY <1>2, Zenon DEF Commands, Turn
<1>5. Datas' \subseteq Datas
  BY <1>1, Zenon DEF Datas, Turn
<1> QED
  BY <1>1, <1>2, <1>3, <1>4, <1>5, Zenon DEF Shrinks

\* What is said of the packets on their way holds of those that are left.
LEMMA ShrinkKeeps ==
  ASSUME CommandInv, DataInv, SenderInv, Shrinks, UNCHANGED clientVars
  PROVE  CommandInv' /\ DataInv' /\ SenderInv'
<1>1. UNCHANGED <<cpc, copy, copies, offset>>
  BY Zenon DEF clientVars, run
<1>2. CommandInv'
  BY <1>1, Zenon DEF CommandInv, Shrinks
<1>3. DataInv'
  BY <1>1, Zenon DEF DataInv, Shrinks
<1>4. SenderInv'
  BY <1>1, Zenon DEF SenderInv, Shrinks
<1> QED
  BY <1>2, <1>3, <1>4, Zenon

\* The server tells of success only what it has recorded.
Tells ==
    \/ UNCHANGED <<written, toClient>>
    \/ \E m \in Downward :
          /\ toClient' = Append(toClient, m) /\ m.id >= 1
          /\ \/ written' = written /\ (m.t = "RSP" => ~m.ok)
             \/ \E w \in Record : written' = Append(written, w) /\ w.id = m.id

\* Accepting a file adds to what was accepted.
LEMMA RecordFacts ==
  ASSUME written \in Seq(Record), NEW w \in Record, written' = Append(written, w)
  PROVE  /\ written' \in Seq(Record)
         /\ \A id : Accepted(id) => Accepted(id)'
         /\ Accepted(w.id)'
         /\ AcceptedWhole /\ IsWhole(w.content, w.file) => AcceptedWhole'
<1>1. /\ written' \in Seq(Record) /\ Len(written) \in Nat
      /\ DOMAIN written = 1..Len(written) /\ DOMAIN written' = 1..(Len(written) + 1)
      /\ \A i \in 1..Len(written) : written'[i] = written[i]
      /\ written'[Len(written) + 1] = w
  OBVIOUS
<1>2. /\ \A i \in DOMAIN written : i \in DOMAIN written' /\ written'[i] = written[i]
      /\ \A i \in DOMAIN written' : i \in DOMAIN written \/ i = Len(written) + 1
      /\ Len(written) + 1 \in DOMAIN written'
  BY <1>1
<1>3. \A id : Accepted(id) => Accepted(id)'
  BY <1>2, Zenon DEF Accepted
<1>4. Accepted(w.id)'
  BY <1>1, <1>2, Zenon DEF Accepted
<1>5. AcceptedWhole /\ IsWhole(w.content, w.file) => AcceptedWhole'
  <2> SUFFICES ASSUME AcceptedWhole, IsWhole(w.content, w.file), NEW i \in DOMAIN written'
               PROVE  IsWhole(written'[i].content, written'[i].file)
    BY Zenon DEF AcceptedWhole, IsWhole, StartsWith, Whole
  <2> QED
    BY <1>1, <1>2, Zenon DEF AcceptedWhole
<1> QED
  BY <1>1, <1>3, <1>4, <1>5, Zenon

\* What the server tells the client is honest.
LEMMA TellKeeps ==
  ASSUME LinkType, ServerType, CopyInv, CopySound, Tells, UNCHANGED clientVars
  PROVE  CopyInv' /\ CopySound' /\ toClient' \in Seq(Downward) /\ written' \in Seq(Record)
<1>1. UNCHANGED <<cpc, copies, c, outcome, rx, returned>>
  BY Zenon DEF clientVars, run, completion
<1>2. toClient \in Seq(Downward) /\ written \in Seq(Record)
  BY Zenon DEF LinkType, ServerType
<1> DEFINE Told == /\ toClient' \in Seq(Downward) /\ written' \in Seq(Record)
                   /\ \A id : Accepted(id) => Accepted(id)'
                   /\ \A m \in Members(toClient') : m \in Members(toClient) \/ Honest(m)'
<1>3. Told
  <2>1. CASE UNCHANGED <<written, toClient>>
    BY <1>2, <2>1, Zenon DEF Accepted
  <2>2. ASSUME NEW m \in Downward, toClient' = Append(toClient, m), m.id >= 1,
               written' = written, m.t = "RSP" => ~m.ok
        PROVE  Told
    <3>1. toClient' \in Seq(Downward) /\ Members(toClient') = Members(toClient) \cup {m}
      <4>1. Append(toClient, m) \in Seq(Downward) /\ Members(Append(toClient, m)) = Members(toClient) \cup {m}
        BY <1>2, <2>2, AppendFacts
      <4> QED
        BY <2>2, <4>1, Zenon
    <3> QED
      BY <1>2, <2>2, <3>1, Zenon DEF Accepted, Honest
  <2>3. ASSUME NEW m \in Downward, toClient' = Append(toClient, m), m.id >= 1,
               NEW w \in Record, written' = Append(written, w), w.id = m.id
        PROVE  Told
    <3>1. toClient' \in Seq(Downward) /\ Members(toClient') = Members(toClient) \cup {m}
      <4>1. Append(toClient, m) \in Seq(Downward) /\ Members(Append(toClient, m)) = Members(toClient) \cup {m}
        BY <1>2, <2>3, AppendFacts
      <4> QED
        BY <2>3, <4>1, Zenon
    <3>2. written' \in Seq(Record) /\ (\A id : Accepted(id) => Accepted(id)') /\ Accepted(w.id)'
      BY <1>2, <2>3, RecordFacts, Zenon
    <3>3. Honest(m)'
      BY <2>3, <3>2, Zenon DEF Honest
    <3> QED
      BY <3>1, <3>2, <3>3, Zenon
  <2> QED
    BY <2>1, <2>2, <2>3, Zenon DEF Tells
<1>4. \A m : Honest(m) => Honest(m)'
  BY <1>3, Zenon DEF Honest
<1>5. CopyInv'
  BY <1>1, <1>3, <1>4, Zenon DEF CopyInv
<1>6. CopySound'
  BY <1>1, <1>3, Zenon DEF CopySound, Accepted
<1> QED
  BY <1>3, <1>5, <1>6, Zenon

-----------------------------------------------------------------------------
(***************************************************************************)
(* The steps of the server thread.                                         *)
(***************************************************************************)
ServerRest == LinkType' /\ ServerType' /\ ReceiveInv' /\ FinishInv' /\ AreaInv' /\ AcceptedWhole'
ServerGoal == Turn /\ Tells /\ ServerRest

\* What a command that was taken is.
LEMMA ReqFacts ==
  ASSUME Inv, spc # "poll"
  PROVE  /\ req \in Command /\ req.id \in Nat /\ req.id >= 1 /\ req.file \in Files
         /\ req.crc \in {NoCrc, Whole(req.file)}
         /\ FileLen[req.file] \in Nat /\ 0 < FileLen[req.file]
<1>1. req \in Command
  BY Zenon DEF Inv, ServerType
<1>2. req \in Commands
  BY Zenon DEF Commands
<1>3. req.id \in 1..copies /\ req.crc \in {NoCrc, Whole(req.file)}
  BY <1>2, Zenon DEF Inv, CommandInv
<1>4. copies \in Nat
  BY Zenon DEF Inv, ClientType
<1> QED
  BY <1>1, <1>3, <1>4, WholeFacts DEF Command

\* A response, and an acknowledgement.
LEMMA ReplyTypes ==
  ASSUME Inv, spc # "poll", NEW x \in Context
  PROVE  /\ Rsp(req.id, FALSE, Len(x.received), x.crc) \in Downward
         /\ Rsp(req.id, TRUE, Len(x.received), x.crc) \in Downward
         /\ Ack(req.id) \in Downward
BY ReqFacts DEF Rsp, Ack, Downward, Response, Context

\* A command that fails closes what it opened.
LEMMA ErrorKeeps ==
  ASSUME Inv, spc \in {"start", "pull", "check"}, NEW x \in Context,
         x.needs_cleanup = ctx.needs_cleanup,
         faulted' = TRUE \/ (faulted' = faulted /\ spc # "start")
            \/ (faulted' = faulted /\ ~HasArea(req)),
         error_cleanup(x, areas, erasing), written' = written, UNCHANGED clientVars,
         req' = req, Turn, dfu_reboot' = dfu_reboot, flash' \in [Partitions -> Contents]
  PROVE  ServerGoal
<1>1. /\ toServer' = toServer /\ ctx' = x /\ spc' = "end"
      /\ toClient' = Append(toClient, Rsp(req.id, FALSE, Len(x.received), x.crc))
      /\ areas' = IF HasArea(req) THEN areas - 1 ELSE areas
      /\ erasing' = IF x.needs_cleanup THEN erasing - 1 ELSE erasing
  BY Zenon DEF error_cleanup, Respond
<1>2. spc # "poll" /\ areas \in Int /\ erasing \in Int
  BY Zenon DEF Inv, ServerType
<1>3. Tells
  <2> DEFINE m == Rsp(req.id, FALSE, Len(x.received), x.crc)
  <2>1. m \in Downward /\ m.id >= 1 /\ ~m.ok
    BY <1>2, ReplyTypes, ReqFacts, Zenon DEF Rsp
  <2> HIDE DEF m
  <2> QED
    BY <1>1, <2>1, Zenon DEF Tells, m
<1>4. LinkType' /\ ServerType'
  <2>1. command_fifo' \in Seq(Command) /\ data_fifo' \in Seq(DataPacket)
    BY TurnShrinks, Zenon DEF Inv, clientVars
  <2>2. toClient' \in Seq(Downward) /\ written' \in Seq(Record)
    BY <1>3, TellKeeps, Zenon DEF Inv
  <2>3. req' \in Command
    BY <1>2, ReqFacts, Zenon
  <2>4. toServer' \in Seq(Upward) /\ faulted' \in BOOLEAN /\ dfu_reboot' \in BOOLEAN
    BY <1>1, Zenon DEF Inv, LinkType, ServerType
  <2>5. areas' \in Int /\ erasing' \in Int
    BY <1>1, <1>2
  <2> QED
    BY <1>1, <2>1, <2>2, <2>3, <2>4, <2>5, Zenon DEF LinkType, ServerType
<1>5. ReceiveInv' /\ FinishInv'
  BY <1>1, Zenon DEF ReceiveInv, FinishInv
<1>6. AreaInv'
  <2> SUFFICES ASSUME ~faulted' PROVE areas' = 0 /\ erasing' = 0
    BY <1>1, Zenon DEF AreaInv
  <2>1. ~(faulted' = TRUE)
    BY Zenon
  <2>2. ~faulted /\ AreaInv
    BY <2>1, Zenon DEF Inv
  <2>3. spc = "start" => ~HasArea(req) /\ ctx = FreshCtx
    BY <2>1, Zenon DEF Inv, ReceiveInv
  <2> QED
    BY <1>1, <2>2, <2>3 DEF AreaInv, FreshCtx
<1>7. AcceptedWhole'
  BY Zenon DEF Inv, AcceptedWhole, IsWhole, StartsWith, Whole
<1> QED
  BY <1>3, <1>4, <1>5, <1>6, <1>7, Zenon DEF ServerGoal, ServerRest

\* What every step of the server thread has in common.
LEMMA TurnTypes ==
  ASSUME Inv, Turn, Tells, UNCHANGED clientVars
  PROVE  /\ LinkType' /\ Datas' \subseteq Datas
         /\ command_fifo' \in Seq(Command) /\ data_fifo' \in Seq(DataPacket) /\ written' \in Seq(Record)
         /\ UNCHANGED <<cpc, copies, offset>>
<1>1. tx' = tx /\ UNCHANGED <<cpc, copies, offset>>
  BY Zenon DEF clientVars, run
<1>2. Shrinks /\ command_fifo' \in Seq(Command) /\ data_fifo' \in Seq(DataPacket)
  BY <1>1, TurnShrinks, Zenon DEF Inv
<1>3. toClient' \in Seq(Downward) /\ written' \in Seq(Record)
  BY TellKeeps, Zenon DEF Inv
<1>4. toServer' \in Seq(Upward)
  BY Zenon DEF Turn, Inv, LinkType
<1> QED
  BY <1>1, <1>2, <1>3, <1>4, Zenon DEF LinkType, Shrinks

\* A step that accepts nothing keeps what was accepted whole.
LEMMA QuietAccepted ==
  ASSUME AcceptedWhole, written' = written
  PROVE  AcceptedWhole'
BY Zenon DEF AcceptedWhole, IsWhole, StartsWith, Whole

\* A command starts with nothing received.
LEMMA FreshFacts ==
  /\ FreshCtx \in Context /\ FreshCtx.received = <<>> /\ FreshCtx.crc = <<>>
  /\ FreshCtx.expected_offset = 0 /\ ~FreshCtx.needs_cleanup
  /\ Len(<<>>) = 0 /\ \A f : Gapless(<<>>, f)
BY DEF FreshCtx, Context, Gapless

\* rpc_server takes a command.
LEMMA CommandKeeps ==
  ASSUME Inv, rpc_server_command, UNCHANGED clientVars
  PROVE  ServerGoal
<1>1. /\ spc = "poll" /\ spc' = "start" /\ ctx' = FreshCtx
      /\ command_fifo # <<>> /\ req' = Head(command_fifo)
      /\ UNCHANGED <<toClient, areas, erasing, flash, dfu_reboot, faulted, written>>
  BY Zenon DEF rpc_server_command, link, storage
<1>2. Turn /\ Tells
  BY Zenon DEF rpc_server_command, link, Turn, Tells
<1>3. req' \in Command
  BY <1>1, TailFacts, Zenon DEF Inv, ServerType
<1>4. FileLen[req'.file] \in Nat
  BY <1>3, WholeFacts, Zenon DEF Command
<1>5. ServerType'
  BY <1>1, <1>2, <1>3, TurnTypes, FreshFacts, Zenon DEF Inv, ServerType
<1>6. ReceiveInv'
  <2>1. \A d \in Datas' : d.offset \in Nat
    BY <1>2, TurnTypes, PacketTypes, Zenon DEF Inv, DataPacket
  <2>2. offset' \in Nat
    BY <1>2, TurnTypes, Zenon DEF Inv, ClientType
  <2> QED
    BY <1>1, <1>4, <2>1, <2>2, FreshFacts DEF ReceiveInv
<1>7. FinishInv'
  BY <1>1, Zenon DEF FinishInv
<1>8. AreaInv'
  BY <1>1, Zenon DEF Inv, AreaInv
<1> QED
  BY <1>1, <1>2, <1>5, <1>6, <1>7, <1>8, TurnTypes, QuietAccepted, Zenon DEF ServerGoal, ServerRest, Inv

\* The data received so far stays as it is.
LEMMA ReceiveSame ==
  ASSUME Inv, Turn, Tells, UNCHANGED clientVars, spc \in {"start", "pull"}, spc' = "pull", req' = req,
         ctx'.received = ctx.received, ctx'.crc = ctx.crc, ctx'.expected_offset = ctx.expected_offset,
         HasArea(req) => flash'[Partition[req.action]] = ctx.received
  PROVE  ReceiveInv' /\ FinishInv'
<1>1. ReceiveInv
  BY Zenon DEF Inv
<1>2. UNCHANGED <<cpc, copies, offset>> /\ Datas' \subseteq Datas
  BY TurnTypes, Zenon
<1>3. ReceiveInv'
  BY <1>1, <1>2, Zenon DEF ReceiveInv, HasArea
<1>4. FinishInv'
  BY Zenon DEF FinishInv
<1> QED
  BY <1>3, <1>4, Zenon

\* An acknowledgement says nothing of success.
LEMMA AckTells ==
  ASSUME Inv, spc # "poll", toClient' = Append(toClient, Ack(req.id)), written' = written
  PROVE  Tells
<1>1. Ack(req.id) \in Downward /\ Ack(req.id).id >= 1 /\ Ack(req.id).t # "RSP"
  <2>1. ctx \in Context
    BY Zenon DEF Inv, ServerType
  <2> QED
    BY <2>1, ReplyTypes, ReqFacts, Zenon DEF Ack
<1> QED
  BY <1>1, Zenon DEF Tells

\* The partition of an action, and the content of the partitions.
LEMMA PartitionFacts ==
  ASSUME NEW r, HasArea(r)
  PROVE  Partition[r.action] \in Partitions
BY DEF HasArea, Partition, Partitions

\* A partition gets new contents.
LEMMA FlashTypes ==
  ASSUME ServerType, NEW p \in Partitions, NEW x \in Contents, flash' = [flash EXCEPT ![p] = x]
  PROVE  flash' \in [Partitions -> Contents] /\ flash'[p] = x
BY Zenon DEF ServerType

\* rpc_common_file_actions_start.
LEMMA StartKeeps ==
  ASSUME Inv, rpc_common_file_actions_start, UNCHANGED clientVars
  PROVE  ServerGoal
<1>1. /\ spc = "start" /\ req' = req /\ spc' # "poll"
      /\ UNCHANGED <<toServer, command_fifo, data_fifo, written, dfu_reboot>>
  BY Zenon DEF rpc_common_file_actions_start, start_simple, start_present, start_erase, start_fails,
         fail, error_cleanup, Respond, ack_data_ready, link, fifos, storage
<1>2. Turn
  BY <1>1, Zenon DEF Turn
<1>3. ctx = FreshCtx /\ ctx \in Context /\ spc # "poll"
  BY <1>1, Zenon DEF Inv, ReceiveInv, ServerType
<1>4. <<>> \in Contents
  BY EmptyQueue, Zenon DEF Contents
<1>5. CASE start_simple /\ req.action # "DISCARD"
  BY <1>1, <1>2, <1>3, <1>5, ErrorKeeps, Zenon DEF start_simple, fail, Inv, ServerType
<1>6. CASE start_fails
  <2>1. flash' \in [Partitions -> Contents]
    BY <1>4, <1>6, PartitionFacts, FlashTypes, Zenon DEF start_fails, Inv, ServerType
  <2> QED
    BY <1>1, <1>2, <1>3, <1>6, <2>1, ErrorKeeps, ZenonT(40) DEF start_fails
<1>7. CASE start_simple /\ req.action = "DISCARD"
  <2>1. /\ ~HasArea(req) /\ spc' = "pull" /\ toClient' = Append(toClient, Ack(req.id))
        /\ UNCHANGED <<ctx, areas, erasing, flash, faulted>>
    BY <1>7, Zenon DEF start_simple, ack_data_ready, storage, fail, error_cleanup, Respond
  <2>2. Tells
    BY <1>1, <1>3, <2>1, AckTells, Zenon
  <2>3. ReceiveInv' /\ FinishInv'
    BY <1>1, <1>2, <2>1, <2>2, ReceiveSame, Zenon
  <2>4. ServerType'
    BY <1>1, <1>2, <2>1, <2>2, TurnTypes, ZenonT(40) DEF Inv, ServerType
  <2>5. AreaInv'
    BY <1>1, <1>3, <2>1, FreshFacts, Zenon DEF Inv, AreaInv, HasArea
  <2> QED
    BY <1>1, <1>2, <2>2, <2>3, <2>4, <2>5, TurnTypes, QuietAccepted, Zenon DEF ServerGoal, ServerRest, Inv
<1>8. CASE start_erase
  <2> DEFINE p == Partition[req.action]
  <2>1. /\ HasArea(req) /\ spc' = "pull" /\ toClient' = Append(toClient, Ack(req.id))
        /\ areas' = areas + 1 /\ erasing' = erasing + 1 /\ faulted' = faulted
        /\ flash' = [flash EXCEPT ![p] = <<>>] /\ ctx' = [ctx EXCEPT !.needs_cleanup = TRUE]
    BY <1>8, Zenon DEF start_erase, ack_data_ready
  <2>2. Tells
    BY <1>1, <1>3, <2>1, AckTells, Zenon
  <2>3. ctx' \in Context /\ ctx'.received = ctx.received /\ ctx'.crc = ctx.crc
        /\ ctx'.expected_offset = ctx.expected_offset /\ ctx'.needs_cleanup
    BY <1>3, <2>1, Zenon DEF Context
  <2>4. flash' \in [Partitions -> Contents] /\ flash'[p] = <<>>
    BY <1>4, <2>1, PartitionFacts, FlashTypes, Zenon DEF Inv
  <2>5. ReceiveInv' /\ FinishInv'
    BY <1>1, <1>2, <1>3, <2>1, <2>2, <2>3, <2>4, ReceiveSame, FreshFacts, ZenonT(40)
  <2>6. ServerType'
    <3>1. areas' \in Int /\ erasing' \in Int
      BY <2>1, SMTT(30) DEF Inv, ServerType
    <3> QED
      BY <1>1, <1>2, <2>1, <2>2, <2>3, <2>4, <3>1, TurnTypes, ZenonT(40) DEF Inv, ServerType
  <2>7. AreaInv'
    BY <1>1, <1>3, <2>1, <2>3, FreshFacts DEF Inv, AreaInv, HasArea
  <2> QED
    BY <1>1, <1>2, <2>2, <2>5, <2>6, <2>7, TurnTypes, QuietAccepted, Zenon DEF ServerGoal, ServerRest, Inv
<1>9. CASE start_present
  <2> DEFINE p == Partition[req.action]
  <2>1. /\ HasArea(req) /\ Present(req) /\ spc' = "finish"
        /\ areas' = areas + 1 /\ ctx' = [ctx EXCEPT !.crc = req.crc]
        /\ UNCHANGED <<toClient, erasing, faulted, flash>>
    BY <1>9, Zenon DEF start_present, link
  <2>2. Tells
    BY <1>1, <2>1, Zenon DEF Tells
  <2>3. req \in Command /\ req.crc = Whole(req.file)
    BY <1>3, <2>1, ReqFacts, Zenon DEF Present
  <2>4. ctx' \in Context /\ ctx'.needs_cleanup = ctx.needs_cleanup
    BY <1>3, <2>1, <2>3, Zenon DEF Context, Command
  <2>5. IsWhole(flash[p], req.file)
    BY <2>1, <2>3, Zenon DEF Present, IsWhole
  <2>6. FinishInv' /\ ReceiveInv'
    BY <1>1, <2>1, <2>5, Zenon DEF FinishInv, ReceiveInv, ContentOf, HasArea, IsWhole, StartsWith, Whole, Block
  <2>7. ServerType'
    BY <1>1, <1>2, <2>1, <2>2, <2>3, <2>4, TurnTypes DEF Inv, ServerType
  <2>8. AreaInv'
    BY <1>1, <1>3, <2>1, <2>4, FreshFacts, SMTT(30) DEF Inv, AreaInv, HasArea
  <2> QED
    BY <1>1, <1>2, <2>2, <2>6, <2>7, <2>8, TurnTypes, QuietAccepted, Zenon DEF ServerGoal, ServerRest, Inv
<1> QED
  BY <1>5, <1>6, <1>7, <1>8, <1>9, Zenon DEF rpc_common_file_actions_start

\* The next block leaves no gap.
LEMMA GaplessAppend ==
  ASSUME NEW f, NEW s \in Seq(Blocks), Gapless(s, f), NEW x \in Blocks, x = Block(f, Len(s))
  PROVE  Gapless(Append(s, x), f)
<1> DEFINE r == Append(s, x)
<1>1. /\ Len(s) \in Nat /\ Len(r) = Len(s) + 1 /\ r[Len(s) + 1] = x
      /\ \A k \in 1..Len(s) : r[k] = s[k]
  OBVIOUS
<1> HIDE DEF r
<1>2. ASSUME NEW k \in 1..Len(r) PROVE r[k] = Block(f, k - 1)
  <2>1. CASE k \in 1..Len(s)
    BY <1>1, <2>1, Zenon DEF Gapless
  <2>2. CASE k = Len(s) + 1
    <3>1. k - 1 = Len(s)
      BY <1>1, <2>2, SMTT(30)
    <3> QED
      BY <1>1, <2>2, <3>1, Zenon
  <2> QED
    BY <1>1, <2>1, <2>2
<1> QED
  BY <1>2, Zenon DEF Gapless, r

\* The next packet of the command: it is of the file that was announced, comes
\* after those received and before those that follow.
LEMMA NextPacket ==
  ASSUME Inv, spc = "pull", data_fifo # <<>>, Mine(Head(data_fifo)), data_fifo' = Tail(data_fifo),
         toServer' = toServer
  PROVE  /\ Head(data_fifo) \in DataPacket
         /\ Head(data_fifo).payload = Block(req.file, Head(data_fifo).offset)
         /\ Head(data_fifo).offset < FileLen[req.file]
         /\ ctx.expected_offset <= Head(data_fifo).offset
         /\ \A e \in Datas' : e.id = req.id => Head(data_fifo).offset < e.offset
         /\ req.id = copies => cpc \notin Early
         /\ req.id = copies /\ cpc \in Sending => Head(data_fifo).offset < offset
<1> DEFINE d == Head(data_fifo)
<1>1. data_fifo \in Seq(DataPacket)
  BY Zenon DEF Inv, ServerType
<1>2. /\ d \in DataPacket /\ Tail(data_fifo) \in Seq(DataPacket)
      /\ Members(data_fifo) = Members(Tail(data_fifo)) \cup {d}
  BY <1>1, TailFacts, Zenon
<1>3. d \in Datas /\ req \in Commands /\ d.id = req.id
  BY <1>2, Zenon DEF Datas, Commands, Mine
<1>4. d.payload = Block(req.file, d.offset) /\ d.offset < FileLen[req.file]
  BY <1>3, Zenon DEF Inv, DataInv
<1>5. ctx.expected_offset <= d.offset
  BY <1>3, Zenon DEF Inv, ReceiveInv
<1>6. \A e \in Members(Tail(data_fifo)) : Same(d, e) => d.offset < e.offset
  BY <1>1, OrderedTail, Zenon DEF Inv, OrderInv
<1>7. \A e \in Members(toServer) : Same(d, e) => d.offset < e.offset
  BY <1>2, Zenon DEF Inv, OrderInv, Before
<1>8. \A e \in Datas' : e.t = "DATA" /\ e \in Members(Tail(data_fifo)) \cup Members(toServer)
  <2>1. Members(Tail(data_fifo)) \subseteq DataPacket
    BY <1>2 DEF Members
  <2>2. \A e \in DataPacket : e.t = "DATA"
    BY Zenon DEF DataPacket
  <2> QED
    BY <2>1, <2>2, Zenon DEF Datas
<1>9. d.t = "DATA"
  BY <1>2, Zenon DEF DataPacket
<1>10. \A e \in Datas' : e.id = req.id => d.offset < e.offset
  BY <1>3, <1>6, <1>7, <1>8, <1>9, Zenon DEF Same
<1>11. /\ req.id = copies => cpc \notin Early
       /\ req.id = copies /\ cpc \in Sending => d.offset < offset
  BY <1>3, Zenon DEF Inv, SenderInv
<1> QED
  BY <1>2, <1>4, <1>5, <1>10, <1>11, Zenon

\* rpc_server_pull_data returns a packet of the command, and it is stored.
LEMMA PullKeeps ==
  ASSUME Inv, pull_data, UNCHANGED clientVars
  PROVE  ServerGoal
<1> DEFINE d == Head(data_fifo)
           p == Partition[req.action]
           more == d.offset + 1 < FileLen[req.file]
<1>1. /\ spc = "pull" /\ data_fifo # <<>> /\ Mine(d) /\ data_fifo' = Tail(data_fifo)
      /\ UNCHANGED <<toServer, command_fifo, req>> /\ spc' # "poll"
      /\ UNCHANGED <<dfu_reboot, faulted, written>>
  BY Zenon DEF pull_data, error_cleanup, Respond, ack_data, link
<1>2. Turn
  BY <1>1, Zenon DEF Turn
<1>3. /\ d \in DataPacket /\ d.payload = Block(req.file, d.offset) /\ d.offset < FileLen[req.file]
      /\ ctx.expected_offset <= d.offset
      /\ \A e \in Datas' : e.id = req.id => d.offset < e.offset
      /\ req.id = copies => cpc \notin Early
      /\ req.id = copies /\ cpc \in Sending => d.offset < offset
  BY <1>1, NextPacket, Zenon
<1>4. d.payload \in Blocks /\ d.offset \in Nat
  BY <1>3, Zenon DEF DataPacket
<1>5. ctx \in Context /\ spc # "poll"
  BY <1>1, Zenon DEF Inv, ServerType
<1>6. /\ Received(d) \in Context
      /\ Received(d).received = Append(ctx.received, d.payload)
      /\ Received(d).crc = Append(ctx.crc, d.payload)
      /\ Received(d).expected_offset = d.offset + 1
      /\ Received(d).needs_cleanup = ctx.needs_cleanup
  <2> DEFINE off == d.offset + 1
             data == Append(ctx.received, d.payload)
             crc == Append(ctx.crc, d.payload)
  <2>1. /\ off \in Nat /\ data \in Seq(Blocks) /\ crc \in Seq(Blocks)
    BY <1>4, <1>5 DEF Context
  <2>2. Received(d) = [ctx EXCEPT !.received = data, !.crc = crc, !.expected_offset = off]
    BY Zenon DEF Received
  <2> HIDE DEF off, data, crc
  <2> QED
    BY <1>5, <2>1, <2>2, Zenon DEF Context, off, data, crc
<1>7. CASE HasArea(req) /\ error_cleanup(Received(d), areas, erasing) /\ flash' = flash
  BY <1>1, <1>2, <1>6, <1>7, ErrorKeeps, ZenonT(40) DEF Inv, ServerType
<1>8. CASE /\ ctx' = Received(d) /\ ack_data(more)
           /\ flash' = IF HasArea(req) THEN [flash EXCEPT ![p] = Append(@, d.payload)] ELSE flash
           /\ spc' = IF more THEN "pull" ELSE "check"
           /\ UNCHANGED <<areas, erasing>>
  <2>1. Tells
    <3>1. toClient' = toClient \/ toClient' = Append(toClient, Ack(req.id))
      BY <1>8, Zenon DEF ack_data, link
    <3> QED
      BY <1>1, <1>5, <3>1, AckTells, Zenon DEF Tells
  <2>2. ReceiveInv
    BY ZenonT(40) DEF Inv
  <2>3. /\ ctx.received \in Seq(Blocks) /\ ctx.crc = ctx.received /\ ctx.expected_offset \in Nat
        /\ Len(ctx.received) <= ctx.expected_offset /\ Len(ctx.received) \in Nat
        /\ Len(ctx.received) = ctx.expected_offset => Gapless(ctx.received, req.file)
        /\ HasArea(req) => flash[p] = ctx.received
    BY <1>1, <1>5, <2>2 DEF ReceiveInv, Context
  <2> DEFINE r == Append(ctx.received, d.payload)
  <2>4. r \in Seq(Blocks) /\ Len(r) = Len(ctx.received) + 1
    BY <1>4, <2>3
  <2>5. HasArea(req) => flash' = [flash EXCEPT ![p] = r]
    BY <1>8, <2>3, Zenon
  <2>6. flash' \in [Partitions -> Contents] /\ (HasArea(req) => flash'[p] = r)
    <3>1. r \in Contents
      BY <2>4, Zenon DEF Contents
    <3> QED
      BY <1>8, <2>5, <3>1, PartitionFacts, FlashTypes, Zenon DEF Inv, ServerType
  <2> HIDE DEF r
  <2>7. ctx'.received = r /\ ctx'.crc = r /\ ctx'.expected_offset = d.offset + 1
        /\ ctx'.needs_cleanup = ctx.needs_cleanup
    BY <1>6, <1>8, <2>3, Zenon DEF r
  <2>8. Len(r) = d.offset + 1 => Gapless(r, req.file)
    <3> SUFFICES ASSUME Len(r) = d.offset + 1 PROVE Gapless(r, req.file)
      BY Zenon
    <3>1. Len(ctx.received) = d.offset /\ Len(ctx.received) = ctx.expected_offset
      BY <1>3, <1>4, <2>3, <2>4, SMTT(30)
    <3> QED
      BY <1>3, <1>4, <2>3, <3>1, GaplessAppend, Zenon DEF r
  <2>9. FileLen[req.file] \in Nat /\ req \in Command
    BY <1>5, ReqFacts, Zenon
  <2>10. UNCHANGED <<cpc, copies, offset>> /\ offset \in Nat
    BY <1>2, <2>1, TurnTypes, Zenon DEF Inv, ClientType
  <2>11. \A e \in Datas' : e.offset \in Nat
    <3>1. Datas' \subseteq Datas /\ Datas \subseteq DataPacket
      BY <1>2, <2>1, TurnTypes, PacketTypes, Zenon DEF Inv
    <3> QED
      BY <3>1, Zenon DEF DataPacket
  <2>12. /\ Len(r) <= d.offset + 1 /\ d.offset + 1 <= FileLen[req.file]
         /\ \A e \in Datas' : e.id = req.id => d.offset + 1 <= e.offset
         /\ req.id = copies /\ cpc \in Sending => d.offset + 1 <= offset
         /\ ~more => d.offset + 1 = FileLen[req.file]
    <3>1. Len(r) <= d.offset + 1
      BY <1>3, <1>4, <2>3, <2>4, SMTT(30)
    <3>2. d.offset + 1 <= FileLen[req.file] /\ (~more => d.offset + 1 = FileLen[req.file])
      BY <1>3, <1>4, <2>9
    <3>3. \A n \in Nat : d.offset < n => d.offset + 1 <= n
      BY <1>4
    <3> QED
      BY <1>3, <2>10, <2>11, <3>1, <3>2, <3>3, ZenonT(40)
  <2>13. spc' \in {"pull", "check"} /\ (spc' = "check" => ~more)
    BY <1>8, Zenon
  <2> HIDE DEF more
  <2>14. ReceiveInv'
    BY <1>1, <1>3, <2>6, <2>7, <2>8, <2>10, <2>12, <2>13, Zenon DEF ReceiveInv, HasArea
  <2>15. FinishInv'
    BY <2>13, Zenon DEF FinishInv
  <2>16. AreaInv'
    BY <1>1, <1>8, <2>7, <2>13, Zenon DEF Inv, AreaInv, HasArea
  <2>17. ServerType'
    BY <1>1, <1>2, <1>6, <1>8, <2>1, <2>6, <2>9, <2>13, TurnTypes, ZenonT(40) DEF Inv, ServerType
  <2> QED
    BY <1>1, <1>2, <2>1, <2>14, <2>15, <2>16, <2>17, TurnTypes, QuietAccepted, Zenon DEF ServerGoal, ServerRest, Inv
<1> QED
  BY <1>7, <1>8, Zenon DEF pull_data

\* Packets of other commands are dropped, and a wait for data may time out.
LEMMA PullOtherKeeps ==
  ASSUME Inv, pull_data_other \/ pull_data_timeout, UNCHANGED clientVars
  PROVE  ServerGoal
<1>1. CASE pull_data_other
  <2>1. /\ spc = "pull" /\ UNCHANGED <<spc, req, ctx, toServer, toClient, written, command_fifo>>
        /\ UNCHANGED <<areas, erasing, flash, dfu_reboot, faulted>>
        /\ data_fifo # <<>> /\ data_fifo' = Tail(data_fifo)
    BY <1>1, Zenon DEF pull_data_other, link, storage
  <2>2. Turn /\ Tells
    BY <2>1, Zenon DEF Turn, Tells
  <2>3. HasArea(req) => flash'[Partition[req.action]] = ctx.received
    BY <2>1, Zenon DEF Inv, ReceiveInv
  <2>4. ReceiveInv' /\ FinishInv'
    BY <2>1, <2>2, <2>3, ReceiveSame, Zenon
  <2>5. ServerType'
    BY <2>1, <2>2, TurnTypes, Zenon DEF Inv, ServerType
  <2>6. AreaInv'
    BY <2>1, Zenon DEF Inv, AreaInv, HasArea
  <2> QED
    BY <2>1, <2>2, <2>4, <2>5, <2>6, TurnTypes, QuietAccepted, Zenon DEF ServerGoal, ServerRest, Inv
<1>2. CASE pull_data_timeout
  <2>1. /\ spc = "pull" /\ error_cleanup(ctx, areas, erasing) /\ faulted' = faulted /\ written' = written
        /\ req' = req /\ dfu_reboot' = dfu_reboot /\ flash' = flash /\ UNCHANGED <<command_fifo, data_fifo>>
    BY <1>2, Zenon DEF pull_data_timeout, fail, fifos
  <2>2. Turn
    BY <2>1, Zenon DEF Turn, error_cleanup, Respond
  <2> QED
    BY <2>1, <2>2, ErrorKeeps, Zenon DEF Inv, ServerType
<1> QED
  BY <1>1, <1>2, Zenon

\* The number of blocks and the CRC are checked.
LEMMA CheckKeeps ==
  ASSUME Inv, check_received, UNCHANGED clientVars
  PROVE  ServerGoal
<1>1. spc = "check" /\ req' = req /\ UNCHANGED <<command_fifo, data_fifo>>
  BY Zenon DEF check_received, fifos
<1>2. CASE fail
  <2>1. Turn
    BY <1>1, <1>2, Zenon DEF Turn, fail, error_cleanup, Respond
  <2> QED
    BY <1>1, <1>2, <2>1, ErrorKeeps, Zenon DEF fail, Inv, ServerType
<1>3. CASE /\ Complete /\ spc' = "finish"
           /\ UNCHANGED <<toServer, toClient, ctx, written, areas, erasing, flash, dfu_reboot, faulted>>
  <2>1. Turn /\ Tells
    BY <1>1, <1>3, Zenon DEF Turn, Tells
  <2>2. req \in Command /\ req.file \in Files /\ FileLen[req.file] \in Nat
    BY <1>1, ReqFacts, Zenon
  <2>3. /\ ctx \in Context /\ ctx.received \in Seq(Blocks)
    BY Zenon DEF Inv, ServerType, Context
  <2>4. /\ Len(ctx.received) = FileLen[req.file] /\ Gapless(ctx.received, req.file)
        /\ HasArea(req) => flash[Partition[req.action]] = ctx.received
    BY <1>1, <1>3, Zenon DEF Inv, ReceiveInv, Complete
  <2>5. IsWhole(ctx.received, req.file)
    BY <2>2, <2>3, <2>4, GaplessIsWhole, Zenon
  <2>6. ContentOf(req) = ctx.received
    BY <2>4, Zenon DEF ContentOf
  <2>7. ContentOf(req)' = ContentOf(req)
    BY <1>1, <1>3, Zenon DEF ContentOf, HasArea
  <2>8. FinishInv' /\ ReceiveInv'
    BY <1>1, <1>3, <2>5, <2>6, <2>7, Zenon DEF FinishInv, ReceiveInv, IsWhole, StartsWith, Whole, Block
  <2>9. ServerType'
    BY <1>1, <1>3, <2>1, <2>2, TurnTypes, Zenon DEF Inv, ServerType
  <2>10. AreaInv'
    BY <1>1, <1>3, Zenon DEF Inv, AreaInv, HasArea
  <2> QED
    BY <1>3, <2>1, <2>8, <2>9, <2>10, TurnTypes, QuietAccepted, Zenon DEF ServerGoal, ServerRest, Inv
<1> QED
  BY <1>2, <1>3, Zenon DEF check_received, link, storage

\* rpc_common_file_actions_finish.
LEMMA FinishKeeps ==
  ASSUME Inv, rpc_common_file_actions_finish, UNCHANGED clientVars
  PROVE  ServerGoal
<1>1. spc = "finish" /\ req' = req /\ UNCHANGED <<command_fifo, data_fifo>>
  BY Zenon DEF rpc_common_file_actions_finish, fifos
<1>2. ctx \in Context /\ areas \in Int /\ erasing \in Int
  BY Zenon DEF Inv, ServerType
<1>3. spc # "poll" /\ req \in Command /\ req.id \in Nat /\ req.id >= 1 /\ req.file \in Files
  BY <1>1, ReqFacts, Zenon
<1>4. ASSUME NEW open \in Int, NEW erases \in Int, finish_error(open, erases), faulted' \in BOOLEAN,
             ~faulted' => open = 0 /\ erases = 0
      PROVE  ServerGoal
  <2> DEFINE m == Rsp(req.id, FALSE, Len(ctx.received), ctx.crc)
  <2>1. /\ areas' = open /\ erasing' = erases /\ toClient' = Append(toClient, m) /\ spc' = "end"
        /\ UNCHANGED <<toServer, ctx, flash, dfu_reboot, written>>
    BY <1>4, Zenon DEF finish_error, Respond
  <2>2. m \in Downward /\ m.id >= 1 /\ ~m.ok
    BY <1>2, <1>3, ReplyTypes, Zenon DEF Rsp
  <2> HIDE DEF m
  <2>3. Turn /\ Tells
    BY <1>1, <2>1, <2>2, Zenon DEF Turn, Tells
  <2>4. ServerType'
    BY <1>1, <1>3, <1>4, <2>1, <2>3, TurnTypes, Zenon DEF Inv, ServerType
  <2>5. ReceiveInv' /\ FinishInv' /\ AreaInv'
    BY <1>4, <2>1, Zenon DEF ReceiveInv, FinishInv, AreaInv
  <2> QED
    BY <2>1, <2>3, <2>4, <2>5, TurnTypes, QuietAccepted, Zenon DEF ServerGoal, ServerRest, Inv
<1>5. ~faulted => (HasArea(req) => areas - 1 = 0) /\ (~HasArea(req) => areas = 0) /\ Erased = 0
  BY <1>1, <1>2 DEF Inv, AreaInv, Erased
<1>6. areas - 1 \in Int /\ Erased \in Int
  BY <1>2 DEF Erased
<1>7. CASE finish_flush_fails
  <2>1. finish_error(areas - 1, erasing) /\ faulted' \in BOOLEAN /\ ~(~faulted')
    BY <1>7, Zenon DEF finish_flush_fails
  <2> QED
    BY <1>2, <1>4, <1>6, <2>1, Zenon
<1>8. CASE finish_invalid
  <2>1. HasArea(req) /\ finish_error(areas - 1, Erased) /\ faulted' = faulted
    BY <1>8, Zenon DEF finish_invalid
  <2>2. faulted' \in BOOLEAN
    BY <2>1, Zenon DEF Inv, ServerType
  <2> QED
    BY <1>4, <1>5, <1>6, <2>1, <2>2, Zenon
<1>9. CASE finish_ok
  <2> DEFINE m == Rsp(req.id, TRUE, Len(ctx.received), ctx.crc)
             w == [id |-> req.id, file |-> req.file, content |-> ContentOf(req)]
  <2>1. /\ toClient' = Append(toClient, m) /\ written' = Append(written, w)
        /\ erasing' = Erased /\ ctx' = [ctx EXCEPT !.needs_cleanup = FALSE]
        /\ areas' = IF req.action \in {"APP_IMG", "FILE_FOR_COPY"} THEN areas - 1 ELSE areas
        /\ dfu_reboot' = (dfu_reboot \/ req.action = "APP_IMG")
        /\ spc' = IF req.action = "APP_CPATCH" THEN "deferred" ELSE "end"
        /\ UNCHANGED <<toServer, flash, faulted>>
        /\ req.action = "APP_CPATCH" => req.file \in ValidPatches
    BY <1>9, Zenon DEF finish_ok, Respond
  <2>2. ContentOf(req) \in Contents
    <3>1. ctx.received \in Contents
      BY <1>2, Zenon DEF Context, Contents
    <3>2. flash \in [Partitions -> Contents]
      BY Zenon DEF Inv, ServerType
    <3> QED
      BY <3>1, <3>2, PartitionFacts, Zenon DEF ContentOf
  <2>3. m \in Downward /\ m.id = req.id
    BY <1>2, <1>3, ReplyTypes, Zenon DEF Rsp
  <2>4. w \in Record /\ w.id = req.id /\ w.content = ContentOf(req) /\ w.file = req.file
    BY <1>3, <2>2, Zenon DEF Record
  <2> HIDE DEF m, w
  <2>5. spc' \in {"deferred", "end"} /\ (spc' = "deferred" <=> req.action = "APP_CPATCH")
    BY <2>1, Zenon
  <2>6. Turn /\ Tells
    <3>1. Turn
      BY <1>1, <1>3, <2>1, Zenon DEF Turn
    <3>2. m.id >= 1
      BY <1>3, <2>3, Zenon
    <3> QED
      BY <2>1, <2>3, <2>4, <3>1, <3>2, Zenon DEF Tells
  <2>7. AcceptedWhole'
    <3>1. IsWhole(w.content, w.file) /\ AcceptedWhole /\ written \in Seq(Record)
      BY <1>1, <2>4, Zenon DEF Inv, FinishInv, ServerType
    <3> QED
      BY <2>1, <2>4, <3>1, RecordFacts, Zenon
  <2>8. ctx' \in Context
    BY <1>2, <2>1, Zenon DEF Context
  <2>9. dfu_reboot' \in BOOLEAN /\ faulted' \in BOOLEAN
    BY <2>1, Zenon DEF Inv, ServerType
  <2>10. areas' \in Int /\ erasing' \in Int
    BY <1>2, <1>6, <2>1, Zenon
  <2>11. ServerType'
    BY <1>1, <1>3, <2>1, <2>5, <2>6, <2>8, <2>9, <2>10, TurnTypes, Zenon DEF Inv, ServerType
  <2>12. ReceiveInv' /\ FinishInv'
    BY <1>1, <2>1, <2>5, Zenon DEF ReceiveInv, FinishInv
  <2>13. AreaInv'
    <3>1. HasArea(req) <=> req.action \in {"APP_IMG", "APP_CPATCH", "FILE_FOR_COPY"}
      BY Zenon DEF HasArea, Partition
    <3>2. ~faulted /\ HasArea(req) => areas = 1
      BY <1>2, <1>5, SMTT(30)
    <3> QED
      BY <1>5, <2>1, <2>5, <3>1, <3>2, Zenon DEF AreaInv
  <2> QED
    BY <2>6, <2>7, <2>11, <2>12, <2>13, TurnTypes, Zenon DEF ServerGoal, ServerRest
<1> QED
  BY <1>7, <1>8, <1>9, Zenon DEF rpc_common_file_actions_finish

\* The deferred work, the end of a turn, and data without a command.
LEMMA EndKeeps ==
  ASSUME Inv, rpc_common_file_actions_deferred \/ rpc_server_end \/ rpc_server_data, UNCHANGED clientVars
  PROVE  ServerGoal
<1>1. CASE rpc_common_file_actions_deferred
  <2>1. /\ spc = "deferred" /\ areas' = areas - 1 /\ spc' = "end"
        /\ \/ \E x \in {Patched(req.file), <<>>} : flash' = [flash EXCEPT !["slot1"] = x]
           \/ flash' = flash
        /\ UNCHANGED <<toServer, toClient, command_fifo, data_fifo, req, ctx, erasing, faulted, written>>
    BY <1>1, Zenon DEF rpc_common_file_actions_deferred, link, fifos
  <2>2. Turn /\ Tells
    BY <2>1, Zenon DEF Turn, Tells
  <2>3. req \in Command /\ req.file \in Files
    BY <2>1, ReqFacts, Zenon
  <2>4. flash' \in [Partitions -> Contents]
    <3>1. Patched(req.file) \in Contents /\ <<>> \in Contents /\ "slot1" \in Partitions
      BY <2>3, EmptyQueue, Zenon DEF Contents, Partitions
    <3> QED
      BY <2>1, <3>1, FlashTypes, Zenon DEF Inv, ServerType
  <2>5. dfu_reboot' \in BOOLEAN
    BY <1>1, Zenon DEF rpc_common_file_actions_deferred, Inv, ServerType
  <2>6. ServerType'
    BY <2>1, <2>2, <2>3, <2>4, <2>5, TurnTypes DEF Inv, ServerType
  <2>7. ReceiveInv' /\ FinishInv' /\ AreaInv'
    <3>1. spc' \notin {"start", "pull", "check", "finish", "deferred"}
      BY <2>1, Zenon
    <3>2. ~faulted => areas = 1 /\ erasing = 0
      BY <2>1, Zenon DEF AreaInv, Inv
    <3>3. areas = 1 => areas' = 0
      BY <2>1
    <3>4. ReceiveInv' /\ FinishInv'
      BY <3>1, Zenon DEF ReceiveInv, FinishInv
    <3> QED
      BY <2>1, <3>1, <3>2, <3>3, <3>4, Zenon DEF AreaInv
  <2> QED
    BY <2>1, <2>2, <2>6, <2>7, TurnTypes, QuietAccepted, Zenon DEF ServerGoal, ServerRest, Inv
<1>2. CASE rpc_server_end \/ rpc_server_data
  <2>1. /\ spc \in {"end", "poll"} /\ spc' = "poll" /\ (ctx' = FreshCtx \/ ctx' = ctx)
        /\ data_fifo' = data_fifo \/ (data_fifo # <<>> /\ data_fifo' = Tail(data_fifo))
        /\ UNCHANGED <<toServer, toClient, command_fifo, areas, erasing, flash, dfu_reboot, faulted, written>>
    BY <1>2, Zenon DEF rpc_server_end, rpc_server_data, link, storage
  <2>2. Turn /\ Tells
    BY <2>1, Zenon DEF Turn, Tells
  <2>3. ServerType'
    BY <2>1, <2>2, TurnTypes, FreshFacts, Zenon DEF Inv, ServerType
  <2>4. ReceiveInv' /\ FinishInv' /\ AreaInv'
    BY <2>1, Zenon DEF ReceiveInv, FinishInv, AreaInv, Inv
  <2> QED
    BY <2>1, <2>2, <2>3, <2>4, TurnTypes, QuietAccepted, Zenon DEF ServerGoal, ServerRest, Inv
<1> QED
  BY <1>1, <1>2, Zenon

\* A step of the server thread keeps the invariant.
LEMMA ServerKeeps ==
  ASSUME Inv, rpc_server, UNCHANGED clientVars
  PROVE  Inv'
<1>1. ServerGoal
  BY CommandKeeps, StartKeeps, PullKeeps, PullOtherKeeps, CheckKeeps, FinishKeeps, EndKeeps, Zenon
     DEF rpc_server
<1>2. tx' = tx /\ Turn /\ Tells
  BY <1>1, Zenon DEF clientVars, ServerGoal
<1>3. Shrinks
  BY <1>2, TurnShrinks, Zenon DEF Inv
<1>4. ClientType'
  BY Zenon DEF Inv, ClientType, clientVars, run
<1> QED
  BY <1>1, <1>2, <1>3, <1>4, ShrinkKeeps, TellKeeps, Zenon DEF Inv, ServerGoal, ServerRest, Shrinks

-----------------------------------------------------------------------------
(***************************************************************************)
(* Packets arrive or are lost.                                             *)
(***************************************************************************)
\* Nothing but packets moves.
LEMMA TransportKeeps ==
  ASSUME Inv, Shrinks, UNCHANGED <<clientVars, spc, req, ctx, storage, written>>, LinkType',
         command_fifo' \in Seq(Command), data_fifo' \in Seq(DataPacket),
         Members(toClient') \subseteq Members(toClient)
  PROVE  Inv'
<1>1. /\ UNCHANGED <<cpc, copy, copies, c, offset, outcome, tx, rx, returned>>
      /\ UNCHANGED <<areas, erasing, flash, dfu_reboot, faulted>>
  BY Zenon DEF clientVars, run, completion, storage
<1>2. ClientType' /\ ServerType'
  BY <1>1 DEF Inv, ClientType, ServerType
<1>3. CommandInv' /\ DataInv' /\ SenderInv' /\ OrderInv'
  BY ShrinkKeeps, Zenon DEF Inv, Shrinks
<1>4. ReceiveInv'
  BY <1>1, Zenon DEF Inv, ReceiveInv, Shrinks, HasArea
<1>5. FinishInv' /\ AreaInv'
  BY <1>1, Zenon DEF Inv, FinishInv, AreaInv, HasArea, ContentOf, IsWhole, StartsWith, Whole
<1>6. CopyInv' /\ CopySound'
  BY <1>1, Zenon DEF Inv, CopyInv, CopySound, Honest, Accepted
<1> QED
  BY <1>2, <1>3, <1>4, <1>5, <1>6, QuietAccepted, Zenon DEF Inv

\* rpc_server_queue keeps the invariant.
LEMMA ReceiveKeeps ==
  ASSUME Inv, rpc_server_queue, UNCHANGED clientVars
  PROVE  Inv'
<1> DEFINE m == Head(toServer)
<1>1. /\ toServer # <<>> /\ toServer' = Tail(toServer) /\ toClient' = toClient
      /\ UNCHANGED <<spc, req, ctx, storage, written, tx>>
  BY Zenon DEF rpc_server_queue, clientVars
<1>2. /\ toServer \in Seq(Upward) /\ command_fifo \in Seq(Command) /\ data_fifo \in Seq(DataPacket)
      /\ Ordered(data_fifo) /\ Ordered(toServer) /\ Before(data_fifo, toServer)
  BY Zenon DEF Inv, LinkType, ServerType, OrderInv
<1>3. /\ m \in Upward /\ toServer' \in Seq(Upward)
      /\ Members(toServer) = Members(toServer') \cup {m}
  BY <1>1, <1>2, TailFacts, Zenon
<1>4. /\ Ordered(toServer')
      /\ \A e \in Members(toServer') : Same(m, e) => m.offset < e.offset
  BY <1>1, <1>2, OrderedTail, Zenon
<1>5. LinkType'
  BY <1>1, <1>3, Zenon DEF Inv, LinkType
<1>6. CASE m.t = "CMD" /\ command_fifo' = Append(command_fifo, m) /\ data_fifo' = data_fifo
  <2>1. m \in Command
    BY <1>3, <1>6, Zenon DEF Upward, DataPacket
  <2>2. command_fifo' \in Seq(Command) /\ Members(command_fifo') = Members(command_fifo) \cup {m}
    <3>1. Append(command_fifo, m) \in Seq(Command) /\ Members(Append(command_fifo, m)) = Members(command_fifo) \cup {m}
      BY <1>2, <2>1, AppendFacts
    <3> QED
      BY <1>6, <3>1, Zenon
  <2>3. OrderInv'
    <3>1. Members(toServer') \subseteq Members(toServer)
      BY <1>3, Zenon
    <3> QED
      BY <1>2, <1>4, <1>6, <3>1, BeforeSubset, Zenon DEF OrderInv
  <2> HIDE DEF m
  <2>4. Commands' \subseteq Commands
    <3> SUFFICES ASSUME NEW x \in Commands' PROVE x \in Commands
      BY Zenon
    <3>1. \/ x \in Members(tx) \/ (x \in Members(toServer') /\ x.t = "CMD")
          \/ x \in Members(command_fifo') \/ (spc # "poll" /\ x = req)
      BY <1>1, Zenon DEF Commands
    <3> QED
      BY <1>3, <1>6, <2>2, <3>1, Zenon DEF Commands
  <2>5. Datas' \subseteq Datas
    BY <1>3, <1>6, Zenon DEF Datas
  <2> QED
    BY <1>1, <1>2, <1>5, <1>6, <2>2, <2>3, <2>4, <2>5, TransportKeeps, Zenon DEF Shrinks
<1>7. CASE m.t = "DATA" /\ data_fifo' = Append(data_fifo, m) /\ command_fifo' = command_fifo
  <2>1. m \in DataPacket
    BY <1>3, <1>7, Zenon DEF Upward, Command
  <2>2. data_fifo' \in Seq(DataPacket) /\ Members(data_fifo') = Members(data_fifo) \cup {m}
    <3>1. Append(data_fifo, m) \in Seq(DataPacket) /\ Members(Append(data_fifo, m)) = Members(data_fifo) \cup {m}
      BY <1>2, <2>1, AppendFacts
    <3> QED
      BY <1>7, <3>1, Zenon
  <2>3. \A d \in Members(data_fifo) : Same(d, m) => d.offset < m.offset
    BY <1>2, <1>3, Zenon DEF Before
  <2>4. Ordered(data_fifo')
    BY <1>2, <1>7, <2>1, <2>3, OrderedAppend, Zenon
  <2>5. Before(data_fifo', toServer')
    BY <1>2, <1>3, <1>4, <2>2, Zenon DEF Before
  <2>6. OrderInv'
    BY <1>4, <2>4, <2>5, Zenon DEF OrderInv
  <2>7. Commands' \subseteq Commands
    <3> SUFFICES ASSUME NEW x \in Commands' PROVE x \in Commands
      BY Zenon
    <3>1. \/ x \in Members(tx) \/ (x \in Members(toServer') /\ x.t = "CMD")
          \/ x \in Members(command_fifo') \/ (spc # "poll" /\ x = req)
      BY <1>1, Zenon DEF Commands
    <3> QED
      BY <1>3, <1>7, <3>1, Zenon DEF Commands
  <2>8. Datas' \subseteq Datas
    BY <1>3, <1>7, <2>2, Zenon DEF Datas
  <2> QED
    BY <1>1, <1>2, <1>5, <1>7, <2>2, <2>6, <2>7, <2>8, TransportKeeps, Zenon DEF Shrinks
<1> QED
  BY <1>6, <1>7, Zenon DEF rpc_server_queue

\* A lost packet keeps the invariant.
LEMMA LoseKeeps ==
  ASSUME Inv, LoseToServer \/ LoseToClient, UNCHANGED <<clientVars, serverVars>>
  PROVE  Inv'
<1>1. UNCHANGED <<spc, req, ctx, storage, written, tx, command_fifo, data_fifo>>
  BY Zenon DEF serverVars, clientVars, fifos
<1>2. /\ toServer \in Seq(Upward) /\ toClient \in Seq(Downward)
      /\ command_fifo \in Seq(Command) /\ data_fifo \in Seq(DataPacket)
      /\ Ordered(data_fifo) /\ Ordered(toServer) /\ Before(data_fifo, toServer)
  BY Zenon DEF Inv, LinkType, ServerType, OrderInv
<1>3. /\ toServer' \in Seq(Upward) /\ toClient' \in Seq(Downward) /\ Ordered(toServer')
      /\ Members(toServer') \subseteq Members(toServer) /\ Members(toClient') \subseteq Members(toClient)
  <2>1. CASE LoseToServer
    <3>1. toServer # <<>> /\ toServer' = Tail(toServer) /\ toClient' = toClient
      BY <2>1, Zenon DEF LoseToServer
    <3>2. toServer' \in Seq(Upward) /\ Members(toServer) = Members(toServer') \cup {Head(toServer)}
      BY <1>2, <3>1, TailFacts, Zenon
    <3> QED
      BY <1>2, <3>1, <3>2, OrderedTail, Zenon
  <2>2. CASE LoseToClient
    <3>1. toClient # <<>> /\ toClient' = Tail(toClient) /\ toServer' = toServer
      BY <2>2, Zenon DEF LoseToClient
    <3>2. toClient' \in Seq(Downward) /\ Members(toClient) = Members(toClient') \cup {Head(toClient)}
      BY <1>2, <3>1, TailFacts, Zenon
    <3> QED
      BY <1>2, <3>1, <3>2, Zenon
  <2> QED
    BY <2>1, <2>2, Zenon
<1>4. OrderInv'
  BY <1>1, <1>2, <1>3, BeforeSubset, Zenon DEF OrderInv
<1>5. Commands' \subseteq Commands
  <2> SUFFICES ASSUME NEW x \in Commands' PROVE x \in Commands
    BY Zenon
  <2>1. \/ x \in Members(tx) \/ (x \in Members(toServer') /\ x.t = "CMD")
        \/ x \in Members(command_fifo') \/ (spc # "poll" /\ x = req)
    BY <1>1, Zenon DEF Commands
  <2> QED
    BY <1>1, <1>3, <2>1, Zenon DEF Commands
<1>6. Datas' \subseteq Datas
  BY <1>1, <1>3, Zenon DEF Datas
<1> QED
  BY <1>1, <1>2, <1>3, <1>4, <1>5, <1>6, TransportKeeps, Zenon DEF Shrinks, LinkType

-----------------------------------------------------------------------------
(***************************************************************************)
(* The client.                                                             *)
(***************************************************************************)
\* The server does not move.
LEMMA ServerSame ==
  ASSUME Inv, UNCHANGED serverVars
  PROVE  ServerType' /\ FinishInv' /\ AreaInv' /\ AcceptedWhole'
<1>1. UNCHANGED <<command_fifo, data_fifo, spc, req, ctx, areas, erasing, flash, dfu_reboot, faulted, written>>
  BY Zenon DEF serverVars, fifos, storage
<1>2. ServerType'
  BY <1>1, Zenon DEF Inv, ServerType
<1>3. FinishInv' /\ AreaInv'
  BY <1>1, Zenon DEF Inv, FinishInv, AreaInv, HasArea, ContentOf, IsWhole, StartsWith, Whole
<1> QED
  BY <1>1, <1>2, <1>3, QuietAccepted, Zenon DEF Inv

\* Steps that send nothing.
Still ==
    /\ UNCHANGED <<tx, toServer, copies>>
    /\ cpc' # "idle" => cpc # "idle" /\ copy' = copy
    /\ cpc' \in Early => cpc \in Early
    /\ cpc' \in Sending => (cpc \in Sending /\ offset' = offset) \/ (cpc \in Early /\ offset' = 0)
    /\ cpc' = "send_find" => offset' <= FileLen[copy.file]
    /\ cpc' = "send_take" => offset' < FileLen[copy.file]

\* A step of the client that sends nothing keeps what is known of packets.
LEMMA StillKeeps ==
  ASSUME Inv, Still, UNCHANGED serverVars
  PROVE  CommandInv' /\ DataInv' /\ OrderInv' /\ SenderInv' /\ ReceiveInv'
<1>1. UNCHANGED <<command_fifo, data_fifo, spc, req, ctx, flash>>
  BY Zenon DEF serverVars, fifos, storage
<1>2. Commands' = Commands /\ Datas' = Datas
  BY <1>1, Zenon DEF Still, Commands, Datas
<1>3. CommandInv'
  BY <1>2, Zenon DEF Inv, CommandInv, Still
<1>4. DataInv'
  BY <1>2, Zenon DEF Inv, DataInv, Still
<1>5. OrderInv'
  BY <1>1, Zenon DEF Inv, OrderInv, Still
<1>6. Early \cap Sending = {} /\ "idle" \notin Sending
  BY Zenon DEF Early, Sending
<1>7. cpc' \in Sending => copy' = copy
  BY <1>6, Zenon DEF Still
<1>8. SenderInv'
  <2>1. SenderInv
    BY Zenon DEF Inv
  <2>2. cpc' \in {"send_find", "send_take"} => copy' = copy
    BY <1>7, Zenon DEF Sending
  <2>3. /\ cpc' \in Early => \A d \in Datas' : d.id # copies'
        /\ cpc' \in Sending => \A d \in Datas' : d.id = copies' => d.offset < offset'
    BY <1>2, <2>1, Zenon DEF SenderInv, Still
  <2> QED
    BY <2>2, <2>3, Zenon DEF SenderInv, Still
<1>9. ReceiveInv'
  <2>1. ReceiveInv
    BY Zenon DEF Inv
  <2>2. /\ req.id = copies /\ cpc' \in Early => cpc \in Early
        /\ cpc' \in Sending => (cpc \in Sending /\ offset' = offset) \/ (cpc \in Early /\ offset' = 0)
        /\ copies' = copies
    BY Zenon DEF Still
  <2>3. 0 <= 0
    OBVIOUS
  <2>4. spc \in {"start", "pull", "check"} /\ req.id = copies /\ cpc' \in Sending =>
            ctx.expected_offset <= offset'
    BY <2>1, <2>2, <2>3, Zenon DEF ReceiveInv
  <2> QED
    BY <1>1, <1>2, <2>1, <2>2, <2>4, Zenon DEF ReceiveInv, HasArea
<1> QED
  BY <1>3, <1>4, <1>5, <1>8, <1>9, Zenon

\* The thread that copies moves on, without a packet.
Move ==
    /\ cpc # "idle" /\ cpc' \in Early \cup Sending \cup Late /\ copy' = copy
    /\ UNCHANGED <<link, returned, rx, outcome>> /\ Still
    /\ c' \in CmdCtx /\ c'.request_id = c.request_id /\ offset' \in Nat
    /\ cpc' = "succeed" => outcome.ok

\* A step of the client that only moves on keeps the invariant.
LEMMA MoveKeeps ==
  ASSUME Inv, Move, UNCHANGED serverVars
  PROVE  Inv'
<1>1. UNCHANGED <<toServer, toClient, returned, rx, outcome, copies, tx, written>> /\ Still
  BY Zenon DEF Move, Still, serverVars, link
<1>2. LinkType'
  BY <1>1, Zenon DEF Inv, LinkType
<1>3. cpc # "idle" /\ cpc' # "idle"
  BY Zenon DEF Move, Early, Sending, Late
<1>4. ClientType'
  BY <1>1, <1>3, Zenon DEF Inv, ClientType, Move
<1>5. CopyInv'
  <2>1. CopyInv
    BY Zenon DEF Inv
  <2>2. /\ c'.request_id \in {0, copies'}
        /\ outcome'.ok => Accepted(copies)
        /\ cpc' = "succeed" => Accepted(copies)
    BY <1>1, <1>3, <2>1, Zenon DEF Move, CopyInv
  <2>3. Len(returned') = IF cpc' = "idle" THEN copies' ELSE copies' - 1
    BY <1>1, <1>3, <2>1, Zenon DEF CopyInv
  <2>4. \A id : Accepted(id)' <=> Accepted(id)
    BY <1>1, Zenon DEF Accepted
  <2>5. \A m : Honest(m)' <=> Honest(m)
    BY <2>4, Zenon DEF Honest
  <2> QED
    BY <1>1, <2>1, <2>2, <2>3, <2>4, <2>5, Zenon DEF CopyInv
<1>6. CopySound'
  BY <1>1, Zenon DEF Inv, CopySound
<1> QED
  BY <1>1, <1>2, <1>4, <1>5, <1>6, StillKeeps, ServerSame, Zenon DEF Inv

\* The changes of the context, field by field.
LEMMA CtxFacts ==
  ASSUME c \in CmdCtx
  PROVE  /\ TakeToken => c' \in CmdCtx /\ c'.request_id = c.request_id
         /\ c' = [c EXCEPT !.armed = TRUE] => c' \in CmdCtx /\ c'.request_id = c.request_id
         /\ \A n, k \in Nat : c' = [c EXCEPT !.tx_tokens = n, !.tx_tokens_on_ack = k] =>
                c' \in CmdCtx /\ c'.request_id = c.request_id
         /\ \A r \in {0, -1} : c' = [c EXCEPT !.tx_result = r, !.tx_tokens = @ + 1] =>
                c' \in CmdCtx /\ c'.request_id = c.request_id
         /\ c' = [c EXCEPT !.armed = TRUE, !.tx_tokens = @ + c.tx_tokens_on_ack] =>
                c' \in CmdCtx /\ c'.request_id = c.request_id
         /\ c' = [c EXCEPT !.armed = FALSE, !.request_id = 0, !.tx_tokens = @ + 1] =>
                c' \in CmdCtx /\ c'.request_id = 0
<1>1. TakeToken => c' \in CmdCtx /\ c'.request_id = c.request_id
  BY DEF TakeToken, CmdCtx
<1>2. c' = [c EXCEPT !.armed = TRUE] => c' \in CmdCtx /\ c'.request_id = c.request_id
  BY Zenon DEF CmdCtx
<1>3. \A n, k \in Nat : c' = [c EXCEPT !.tx_tokens = n, !.tx_tokens_on_ack = k] =>
          c' \in CmdCtx /\ c'.request_id = c.request_id
  BY Zenon DEF CmdCtx
<1>4. \A r \in {0, -1} : c' = [c EXCEPT !.tx_result = r, !.tx_tokens = @ + 1] =>
          c' \in CmdCtx /\ c'.request_id = c.request_id
  <2> DEFINE n == c.tx_tokens + 1
  <2>1. n \in Nat
    BY DEF CmdCtx
  <2>2. \A r : [c EXCEPT !.tx_result = r, !.tx_tokens = @ + 1] = [c EXCEPT !.tx_result = r, !.tx_tokens = n]
    BY Zenon
  <2> HIDE DEF n
  <2>3. \A r \in {0, -1} : c' = [c EXCEPT !.tx_result = r, !.tx_tokens = n] =>
          c' \in CmdCtx /\ c'.request_id = c.request_id
    BY <2>1, Zenon DEF CmdCtx
  <2> QED
    BY <2>2, <2>3, Zenon
<1>5. c' = [c EXCEPT !.armed = TRUE, !.tx_tokens = @ + c.tx_tokens_on_ack] =>
          c' \in CmdCtx /\ c'.request_id = c.request_id
  <2> DEFINE n == c.tx_tokens + c.tx_tokens_on_ack
  <2>1. n \in Nat
    BY DEF CmdCtx
  <2>2. [c EXCEPT !.armed = TRUE, !.tx_tokens = @ + c.tx_tokens_on_ack] = [c EXCEPT !.armed = TRUE, !.tx_tokens = n]
    BY Zenon
  <2> HIDE DEF n
  <2>3. c' = [c EXCEPT !.armed = TRUE, !.tx_tokens = n] => c' \in CmdCtx /\ c'.request_id = c.request_id
    BY <2>1, Zenon DEF CmdCtx
  <2> QED
    BY <2>2, <2>3, Zenon
<1>6. c' = [c EXCEPT !.armed = FALSE, !.request_id = 0, !.tx_tokens = @ + 1] =>
          c' \in CmdCtx /\ c'.request_id = 0
  <2> DEFINE none == 0
             n == c.tx_tokens + 1
  <2>1. n \in Nat /\ none \in Nat
    BY DEF CmdCtx
  <2>2. [c EXCEPT !.armed = FALSE, !.request_id = none, !.tx_tokens = @ + 1]
          = [c EXCEPT !.armed = FALSE, !.request_id = none, !.tx_tokens = n]
    BY Zenon
  <2> HIDE DEF none, n
  <2>3. c' = [c EXCEPT !.armed = FALSE, !.request_id = none, !.tx_tokens = n] =>
          c' \in CmdCtx /\ c'.request_id = none
    BY <2>1, Zenon DEF CmdCtx
  <2> QED
    BY <2>2, <2>3, Zenon DEF none, n
<1> QED
  BY <1>1, <1>2, <1>3, <1>4, <1>5, <1>6, Zenon

\* What is copied.
LEMMA CopyFacts ==
  ASSUME Inv, cpc # "idle"
  PROVE  /\ copy \in Copies /\ copy.file \in Files /\ FileLen[copy.file] \in Nat
         /\ copy.ack_period \in Nat /\ copy.pipelining \in Nat
<1>1. copy \in Copies
  BY Zenon DEF Inv, ClientType
<1>2. copy \in [file : Files, action : Actions, crc : BOOLEAN, ack_period : Nat, pipelining : Nat]
  BY <1>1, CopiesAssumption, Zenon
<1> QED
  BY <1>1, <1>2, WholeFacts, Zenon

\* The steps of the thread that copies that only move it on.
Waits ==
    \/ command_sent \/ ack_wait \/ check_early \/ rpc_client_update_response_timeout
    \/ auto_load_start \/ auto_load_wait \/ final_response
    \/ auto_load_send /\ UNCHANGED link

\* Waiting and giving up only move on.
LEMMA WaitsMove ==
  ASSUME Inv, Waits
  PROVE  Move
<1> USE DEF Goto
<1>1. c \in CmdCtx /\ offset \in Nat
  BY Zenon DEF Inv, ClientType
<1>2. CASE command_sent
  BY <1>1, <1>2, CtxFacts, ZenonT(40) DEF command_sent, GiveUp, Move, Still, Early, Sending, Late, link, completion
<1>3. CASE ack_wait
  BY <1>1, <1>3, CtxFacts, Zenon DEF ack_wait, GiveUp, Move, Still, Early, Sending, Late, link, completion
<1>4. CASE check_early
  BY <1>1, <1>4, ZenonT(40) DEF check_early, Move, Still, Early, Sending, Late, link
<1>5. CASE rpc_client_update_response_timeout
  BY <1>1, <1>5, CtxFacts, Zenon DEF rpc_client_update_response_timeout, GiveUp, Move, Still, Early, Sending, Late,
                              link, completion
<1>6. CASE auto_load_start
  <2>1. cpc = "load"
    BY <1>6, Zenon DEF auto_load_start
  <2>2. StartTokens \in Nat /\ OnAck \in Nat /\ 0 <= FileLen[copy.file]
    <3>1. OnAck \in Nat /\ copy.pipelining \in Nat /\ 0 <= FileLen[copy.file]
      BY <2>1, CopyFacts DEF OnAck
    <3> DEFINE k == IF copy.pipelining > 1 THEN copy.pipelining ELSE 1
    <3>2. k \in Nat
      BY <3>1, Zenon
    <3> HIDE DEF k
    <3>3. OnAck * k \in Nat
      BY <3>1, <3>2
    <3> QED
      BY <3>1, <3>3, Zenon DEF StartTokens, k
  <2>3. c' = c \/ (c' \in CmdCtx /\ c'.request_id = c.request_id)
    BY <1>1, <1>6, <2>2, CtxFacts, ZenonT(40) DEF auto_load_start
  <2> QED
    BY <1>1, <1>6, <2>1, <2>2, <2>3, SMTT(30) DEF auto_load_start, Move, Still, Early, Sending, Late, link, completion
<1>7. CASE auto_load_wait
  <2>1. cpc = "send_find" /\ offset <= FileLen[copy.file]
    BY <1>7, Zenon DEF auto_load_wait, Inv, SenderInv
  <2>2. FileLen[copy.file] \in Nat
    BY <2>1, CopyFacts, Zenon
  <2> QED
    BY <1>1, <1>7, <2>1, <2>2 DEF auto_load_wait, Move, Still, Early, Sending, Late, link, completion
<1>8. CASE final_response
  BY <1>1, <1>8, ZenonT(40) DEF final_response, AsSent, Move, Still, Early, Sending, Late, link
<1>9. CASE auto_load_send /\ UNCHANGED link
  <2>1. cpc = "send_take"
    BY <1>9, Zenon DEF auto_load_send
  <2>2. toServer \in Seq(Upward)
    BY Zenon DEF Inv, LinkType
  <2>3. toServer' # Append(toServer, Data(copies, copy.file, offset))
    <3> DEFINE x == Data(copies, copy.file, offset)
    <3> HIDE DEF x
    <3>1. Len(Append(toServer, x)) = Len(toServer) + 1 /\ Len(toServer) \in Nat
      BY <2>2
    <3>2. Append(toServer, x) # toServer
      BY <3>1, SMTT(30)
    <3> QED
      BY <1>9, <3>2, Zenon DEF link, x
  <2> QED
    BY <1>1, <1>9, <2>1, <2>3, Zenon DEF auto_load_send, Move, Still, Early, Sending, Late, link, completion
<1> QED
  BY <1>2, <1>3, <1>4, <1>5, <1>6, <1>7, <1>8, <1>9, Zenon DEF Waits

\* The context of a command, free and in use.
LEMMA FreeFacts ==
  /\ FreeCtx \in CmdCtx /\ ~TimedOut.ok
  /\ \A b \in BOOLEAN : [FreeCtx EXCEPT !.armed = b] \in CmdCtx
  /\ \A n \in Nat : /\ [FreeCtx EXCEPT !.request_id = n, !.tx_tokens_on_ack = 1, !.armed = TRUE] \in CmdCtx
                    /\ [FreeCtx EXCEPT !.request_id = n, !.tx_tokens_on_ack = 1, !.armed = TRUE].request_id = n
<1>1. FreeCtx \in CmdCtx /\ ~TimedOut.ok
  BY Zenon DEF FreeCtx, CmdCtx, TimedOut
<1> DEFINE one == 1
<1>2. one \in Nat
  BY Zenon
<1> HIDE DEF one
<1>3. \A n \in Nat : /\ [FreeCtx EXCEPT !.request_id = n, !.tx_tokens_on_ack = one, !.armed = TRUE] \in CmdCtx
                     /\ [FreeCtx EXCEPT !.request_id = n, !.tx_tokens_on_ack = one, !.armed = TRUE].request_id = n
  BY <1>1, <1>2, Zenon DEF CmdCtx
<1>4. \A b \in BOOLEAN : [FreeCtx EXCEPT !.armed = b] \in CmdCtx
  BY <1>1, Zenon DEF CmdCtx
<1> QED
  BY <1>1, <1>3, <1>4, Zenon DEF one

\* A new copy: no packet carries its number yet.
LEMMA QueueKeeps ==
  ASSUME Inv, rpc_client_command_queue, UNCHANGED serverVars
  PROVE  Inv'
<1>1. PICK cp \in Copies : copy' = cp /\ tx' = Append(tx, CmdOf(cp, copies + 1))
  BY Zenon DEF rpc_client_command_queue
<1> DEFINE m == CmdOf(cp, copies + 1)
<1>2. /\ cpc = "idle" /\ cpc' = "sending" /\ copies' = copies + 1 /\ outcome' = TimedOut
      /\ c' = [FreeCtx EXCEPT !.request_id = copies + 1, !.tx_tokens_on_ack = 1, !.armed = TRUE]
      /\ UNCHANGED <<toServer, toClient, offset, rx, returned>>
  BY Zenon DEF rpc_client_command_queue, link
<1>3. copies \in Nat /\ copies + 1 \in Nat /\ tx \in Seq(Command) /\ offset \in Nat
  BY DEF Inv, ClientType
<1>4. /\ m \in Command /\ m.id = copies + 1 /\ m.file = cp.file
      /\ m.crc \in {NoCrc, Whole(m.file)}
  <2>1. cp.file \in Files /\ cp.action \in Actions
    BY CopiesAssumption, Zenon
  <2>2. NoCrc \in Seq(Blocks) /\ Whole(cp.file) \in Seq(Blocks)
    BY <2>1, WholeFacts, EmptyQueue, Zenon DEF NoCrc
  <2> HIDE DEF NoCrc
  <2> QED
    BY <1>3, <2>1, <2>2, Zenon DEF CmdOf, Cmd, Command
<1> HIDE DEF m
<1>5. tx' \in Seq(Command) /\ Members(tx') = Members(tx) \cup {m}
  <2>1. tx' = Append(tx, m)
    BY <1>1, Zenon DEF m
  <2>2. Append(tx, m) \in Seq(Command) /\ Members(Append(tx, m)) = Members(tx) \cup {m}
    BY <1>3, <1>4, AppendFacts
  <2> QED
    BY <2>1, <2>2, Zenon
<1>6. UNCHANGED <<command_fifo, data_fifo, spc, req, ctx, flash, written>>
  BY Zenon DEF serverVars, fifos, storage
<1>7. Commands' \subseteq Commands \cup {m} /\ Datas' = Datas
  BY <1>2, <1>5, <1>6, Zenon DEF Commands, Datas
<1>8. /\ \A x \in Commands : x.id \in 1..copies /\ x.crc \in {NoCrc, Whole(x.file)}
      /\ \A d \in Datas : d.id <= copies /\ d.id \in Nat
  <2>1. \A d \in Datas : d.id \in Nat
    BY PacketTypes, Zenon DEF Inv, DataPacket
  <2> QED
    BY <2>1, Zenon DEF Inv, CommandInv, DataInv
<1>9. CommandInv'
  <2>1. \A x \in Commands : x.id \in 1..(copies + 1) /\ x.id # copies + 1
    BY <1>3, <1>8, SMTT(30)
  <2>2. m.id \in 1..(copies + 1)
    BY <1>3, <1>4, SMTT(30)
  <2> QED
    BY <1>1, <1>2, <1>4, <1>7, <1>8, <2>1, <2>2, ZenonT(40) DEF CommandInv
<1>10. \A d \in Datas : d.id <= copies' /\ d.id # copies'
  BY <1>2, <1>3, <1>8
<1>11. DataInv'
  BY <1>2, <1>4, <1>7, <1>10, ZenonT(40) DEF Inv, DataInv
<1>12. OrderInv'
  BY <1>2, <1>6, Zenon DEF Inv, OrderInv
<1>13. SenderInv'
  BY <1>2, <1>7, <1>10, ZenonT(40) DEF SenderInv, Sending
<1>14. ReceiveInv'
  <2>1. spc # "poll" => req.id # copies'
    <3>1. spc # "poll" => req \in Commands
      BY Zenon DEF Commands
    <3> QED
      BY <1>2, <1>3, <1>8, <3>1, SMTT(30)
  <2>2. spc \in {"start", "pull", "check"} => spc # "poll"
    BY ZenonT(40)
  <2> QED
    BY <1>6, <1>7, <2>1, <2>2, Zenon DEF Inv, ReceiveInv, HasArea
<1>15. LinkType' /\ ClientType'
  BY <1>1, <1>2, <1>3, <1>5, FreeFacts, Zenon DEF Inv, LinkType, ClientType, Early
<1>16. CopyInv' /\ CopySound'
  <2>1. c'.request_id = copies'
    BY <1>2, <1>3, FreeFacts, Zenon
  <2>2. Len(returned') = copies' - 1 /\ cpc' # "idle" /\ cpc' # "succeed"
    BY <1>2, <1>3, SMTT(30) DEF Inv, CopyInv
  <2>3. ~outcome'.ok
    BY <1>2, FreeFacts, Zenon
  <2>4. \A x : Honest(x)' <=> Honest(x)
    BY <1>6, ZenonT(40) DEF Honest, Accepted
  <2>5. CopyInv'
    BY <1>2, <2>1, <2>2, <2>3, <2>4, Zenon DEF Inv, CopyInv
  <2> QED
    BY <1>2, <1>6, <2>5, ZenonT(40) DEF Inv, CopySound
<1> QED
  BY <1>9, <1>11, <1>12, <1>13, <1>14, <1>15, <1>16, ServerSame, ZenonT(40) DEF Inv

\* A data packet is sent: it comes after all the data of its copy.
LEMMA SendKeeps ==
  ASSUME Inv, auto_load_send, toServer' = Append(toServer, Data(copies, copy.file, offset)),
         offset' = offset + 1, Goto("send_find"), toClient' = toClient,
         c' = c \/ TakeToken, UNCHANGED serverVars
  PROVE  Inv'
<1> DEFINE d == Data(copies, copy.file, offset)
<1>1. /\ cpc = "send_take" /\ cpc' = "send_find"
      /\ UNCHANGED <<copy, copies, returned, outcome, tx, rx>>
  BY Zenon DEF auto_load_send, Goto, completion
<1>2. UNCHANGED <<command_fifo, data_fifo, spc, req, ctx, flash, written>>
  BY ZenonT(40) DEF serverVars, fifos, storage
<1>3. copy.file \in Files /\ FileLen[copy.file] \in Nat /\ offset \in Nat /\ copies \in Nat /\ c \in CmdCtx
  BY <1>1, CopyFacts, Zenon DEF Inv, ClientType
<1>4. /\ d \in DataPacket /\ d.id = copies /\ d.offset = offset /\ d.payload = Block(copy.file, offset)
      /\ d.t = "DATA" /\ toServer' = Append(toServer, d)
  BY <1>3, Zenon DEF Data, DataPacket, Block, Blocks
<1> HIDE DEF d
<1>5. toServer \in Seq(Upward) /\ d \in Upward /\ data_fifo \in Seq(DataPacket)
  BY <1>4, Zenon DEF Inv, LinkType, ServerType, Upward
<1>6. toServer' \in Seq(Upward) /\ Members(toServer') = Members(toServer) \cup {d}
  <2>1. Append(toServer, d) \in Seq(Upward) /\ Members(Append(toServer, d)) = Members(toServer) \cup {d}
    BY <1>5, AppendFacts
  <2> QED
    BY <1>4, <2>1, Zenon
<1>7. Commands' \subseteq Commands
  BY <1>1, <1>2, <1>4, <1>6, ZenonT(40) DEF Commands
<1>8. Datas' \subseteq Datas \cup {d}
  BY <1>2, <1>6, Zenon DEF Datas
<1>9. /\ \A e \in Datas : e.id = copies => e.offset < offset
      /\ offset < FileLen[copy.file]
  BY <1>1, Zenon DEF Inv, SenderInv, Sending
<1>10. CommandInv'
  BY <1>1, <1>7, Zenon DEF Inv, CommandInv
<1>11. DataInv'
  <2>1. /\ d.id <= copies
        /\ \A m \in Commands : m.id = d.id => d.payload = Block(m.file, d.offset) /\ d.offset < FileLen[m.file]
    <3>1. \A m \in Commands : m.id = copies => m.file = copy.file
      BY <1>1, Zenon DEF Inv, CommandInv
    <3>2. copies <= copies
      BY <1>3
    <3> QED
      BY <1>4, <1>9, <3>1, <3>2, Zenon
  <2> QED
    BY <1>1, <1>7, <1>8, <2>1, ZenonT(40) DEF Inv, DataInv
<1>12. OrderInv'
  <2>1. \A e \in Members(data_fifo) \cup Members(toServer) : Same(e, d) => e.offset < d.offset
    <3>1. \A e \in Members(data_fifo) \cup Members(toServer) : e.t = "DATA" => e \in Datas
      BY Zenon DEF Datas
    <3> QED
      BY <1>4, <1>9, <3>1, Zenon DEF Same
  <2>2. Ordered(toServer')
    BY <1>4, <1>5, <2>1, OrderedAppend, Zenon DEF Inv, OrderInv
  <2>3. Before(data_fifo', toServer')
    BY <1>2, <1>6, <2>1, ZenonT(40) DEF Inv, OrderInv, Before
  <2> QED
    BY <1>2, <2>2, <2>3, ZenonT(40) DEF Inv, OrderInv
<1>13. \A e \in Datas' : e.id = copies => e.offset < offset'
  <2>1. \A e \in Datas : e.offset \in Nat
    BY PacketTypes, ZenonT(40) DEF Inv, DataPacket
  <2> QED
    BY <1>3, <1>4, <1>8, <1>9, <2>1
<1>14. SenderInv'
  BY <1>1, <1>3, <1>9, <1>13, SMTT(30) DEF SenderInv, Early
<1>15. ReceiveInv'
  <2>1. spc \in {"start", "pull", "check"} /\ req.id = copies =>
            ctx.expected_offset <= offset /\ ctx.expected_offset <= offset'
    <3>1. ctx.expected_offset \in Nat
      BY Zenon DEF Inv, ServerType, Context
    <3> QED
      BY <1>1, <1>3, <3>1, SMTT(30) DEF Inv, ReceiveInv, Sending
  <2>2. spc \in {"start", "pull", "check"} => \A e \in Datas' : e.id = req.id => ctx.expected_offset <= e.offset
    BY <1>4, <1>8, <2>1, ZenonT(40) DEF Inv, ReceiveInv
  <2>3. cpc' \notin Early
    BY <1>1, Zenon DEF Early
  <2> QED
    BY <1>1, <1>2, <2>1, <2>2, <2>3, ZenonT(40) DEF Inv, ReceiveInv, HasArea
<1>16. c' \in CmdCtx /\ c'.request_id = c.request_id
  BY <1>3, CtxFacts, ZenonT(40)
<1>17. LinkType' /\ ClientType'
  BY <1>1, <1>3, <1>6, <1>16, SMTT(30) DEF Inv, LinkType, ClientType, Sending
<1>18. CopyInv' /\ CopySound'
  BY <1>1, <1>2, <1>16, ZenonT(40) DEF Inv, CopyInv, CopySound, Honest, Accepted
<1> QED
  BY <1>10, <1>11, <1>12, <1>14, <1>15, <1>17, <1>18, ServerSame, ZenonT(40) DEF Inv

\* rpc_client_cleanup, and what the copy returns.
LEMMA CleanupKeeps ==
  ASSUME Inv, rpc_client_cleanup, UNCHANGED serverVars
  PROVE  Inv'
<1> DEFINE ok == (cpc = "succeed")
<1>1. /\ cpc \in {"cleanup", "succeed"} /\ cpc' = "idle" /\ returned' = Append(returned, ok)
      /\ offset' = 0 /\ c' = [FreeCtx EXCEPT !.armed = c.armed /\ c.request_id = 0]
      /\ UNCHANGED <<toServer, toClient, copies, tx, rx>>
  BY Zenon DEF rpc_client_cleanup, link, Goto
<1>2. returned \in Seq(BOOLEAN) /\ copies \in Nat /\ Len(returned) = copies - 1
  BY <1>1, Zenon DEF Inv, ClientType, CopyInv
<1>3. ok \in BOOLEAN /\ (ok => Accepted(copies))
  BY Zenon DEF Inv, CopyInv
<1> HIDE DEF ok
<1>4. /\ returned' \in Seq(BOOLEAN) /\ Len(returned') = copies /\ DOMAIN returned' = 1..copies
      /\ DOMAIN returned = 1..(copies - 1) /\ returned'[copies] = ok
      /\ \A id \in 1..(copies - 1) : returned'[id] = returned[id]
  BY <1>1, <1>2, <1>3
<1>5. written' = written
  BY Zenon DEF serverVars
<1>6. CopySound'
  <2> SUFFICES ASSUME NEW id \in DOMAIN returned', returned'[id] PROVE Accepted(id)
    BY <1>5, Zenon DEF CopySound, Accepted
  <2>1. id \in DOMAIN returned \/ id = copies
    BY <1>2, <1>4
  <2>2. CASE id = copies
    BY <1>3, <1>4, <2>2, Zenon
  <2>3. CASE id \in DOMAIN returned
    BY <1>4, <2>3, Zenon DEF Inv, CopySound, Accepted
  <2> QED
    BY <2>1, <2>2, <2>3, Zenon
<1>7. CopyInv'
  <2>1. \A m : Honest(m)' <=> Honest(m)
    BY <1>5, Zenon DEF Honest, Accepted
  <2>2. /\ \A m \in Members(toClient) : Honest(m)
        /\ rx # NoPacket => Honest(rx.packet) /\ rx.packet.id = rx.of
    BY Zenon DEF Inv, CopyInv
  <2> QED
    BY <1>1, <1>4, <2>1, <2>2, Zenon DEF CopyInv, Members
<1>8. c' \in CmdCtx
  <2> DEFINE b == c.armed /\ c.request_id = 0
  <2>1. b \in BOOLEAN
    BY Zenon
  <2>2. c' = [FreeCtx EXCEPT !.armed = b]
    BY <1>1, Zenon
  <2> HIDE DEF b
  <2> QED
    BY <2>1, <2>2, FreeFacts, Zenon
<1>9. LinkType' /\ ClientType'
  BY <1>1, <1>4, <1>8, Zenon DEF Inv, LinkType, ClientType
<1>10. Still
  BY <1>1, Zenon DEF Still, Early, Sending
<1> QED
  BY <1>6, <1>7, <1>9, <1>10, StillKeeps, ServerSame, Zenon DEF Inv

\* command_tx_done_cb: a command leaves for the server, or it is not sent.
LEMMA SentKeeps ==
  ASSUME Inv, command_tx_done_cb, UNCHANGED serverVars
  PROVE  Inv'
<1> DEFINE m == Head(tx)
<1>1. /\ tx # <<>> /\ tx' = Tail(tx) /\ (toServer' = toServer \/ toServer' = Append(toServer, m))
      /\ UNCHANGED <<toClient, cpc, copy, copies, offset, returned, outcome, rx>>
  BY Zenon DEF command_tx_done_cb, run, completion
<1>2. UNCHANGED <<command_fifo, data_fifo, spc, req, ctx, flash, written>>
  BY Zenon DEF serverVars, fifos, storage
<1>3. tx \in Seq(Command) /\ toServer \in Seq(Upward) /\ c \in CmdCtx
  BY Zenon DEF Inv, ClientType, LinkType
<1>4. m \in Command /\ tx' \in Seq(Command) /\ Members(tx) = Members(tx') \cup {m}
  BY <1>1, <1>3, TailFacts, Zenon
<1>5. m \in Upward /\ m.t = "CMD" /\ m.t # "DATA"
  BY <1>4, Zenon DEF Upward, Command
<1> HIDE DEF m
<1>6. toServer' \in Seq(Upward) /\ Members(toServer') \subseteq Members(toServer) \cup {m}
  <2>1. Append(toServer, m) \in Seq(Upward) /\ Members(Append(toServer, m)) = Members(toServer) \cup {m}
    BY <1>3, <1>5, AppendFacts
  <2> QED
    BY <1>1, <1>3, <2>1, Zenon
<1>7. Commands' \subseteq Commands
  BY <1>2, <1>4, <1>6, ZenonT(40) DEF Commands
<1>8. Datas' \subseteq Datas
  BY <1>2, <1>5, <1>6, Zenon DEF Datas
<1>9. OrderInv'
  <2>1. \A e : ~Same(e, m)
    BY <1>5, Zenon DEF Same
  <2>2. Ordered(toServer')
    BY <1>1, <1>3, <1>5, <2>1, OrderedAppend, ZenonT(40) DEF Inv, OrderInv
  <2>3. Before(data_fifo', toServer')
    BY <1>2, <1>6, <2>1, Zenon DEF Inv, OrderInv, Before
  <2> QED
    BY <1>2, <2>2, <2>3, Zenon DEF Inv, OrderInv
<1>10. CommandInv' /\ DataInv'
  BY <1>1, <1>7, <1>8, ZenonT(40) DEF Inv, CommandInv, DataInv
<1>11. SenderInv' /\ ReceiveInv'
  BY <1>1, <1>2, <1>8, ZenonT(40) DEF Inv, SenderInv, ReceiveInv, HasArea
<1>12. c' \in CmdCtx /\ c'.request_id = c.request_id
  <2>1. c' = c \/ \E r \in {0, -1} : c' = [c EXCEPT !.tx_result = r, !.tx_tokens = @ + 1]
    BY Zenon DEF command_tx_done_cb
  <2> QED
    BY <1>3, <2>1, CtxFacts, Zenon
<1>13. LinkType' /\ ClientType'
  BY <1>1, <1>4, <1>6, <1>12, Zenon DEF Inv, LinkType, ClientType
<1>14. CopyInv' /\ CopySound'
  BY <1>1, <1>2, <1>12, ZenonT(40) DEF Inv, CopyInv, CopySound, Honest, Accepted
<1> QED
  BY <1>9, <1>10, <1>11, <1>13, <1>14, ServerSame, Zenon DEF Inv

\* The response timer, and the thread that receives.
LEMMA AnswerKeeps ==
  ASSUME Inv, command_timeout \/ packet_received \/ packet_apply, UNCHANGED serverVars
  PROVE  Inv'
<1>1. UNCHANGED <<tx, toServer, copies, cpc, copy, offset, returned, written>>
  BY Zenon DEF command_timeout, packet_received, packet_apply, run, link, serverVars
<1>2. Still
  BY <1>1, Zenon DEF Still, Inv, SenderInv
<1>3. c \in CmdCtx /\ toClient \in Seq(Downward) /\ CopyInv
  BY Zenon DEF Inv, ClientType, LinkType
<1>4. \A m : Honest(m)' <=> Honest(m)
  BY <1>1, Zenon DEF Honest, Accepted
<1>5. \A id : Accepted(id)' <=> Accepted(id)
  BY <1>1, ZenonT(40) DEF Accepted
<1>6. ASSUME c' \in CmdCtx, cpc # "idle" => c'.request_id \in {0, copies},
             toClient' \in Seq(Downward), Members(toClient') \subseteq Members(toClient),
             rx' = NoPacket \/ rx' \in [packet : Downward, of : Nat],
             rx' # NoPacket => Honest(rx'.packet) /\ rx'.packet.id = rx'.of,
             cpc # "idle" /\ outcome'.ok => Accepted(copies)
      PROVE  Inv'
  <2>1. LinkType' /\ ClientType'
    BY <1>1, <1>6, ZenonT(40) DEF Inv, LinkType, ClientType
  <2>2. CopyInv'
    BY <1>1, <1>3, <1>4, <1>5, <1>6, Zenon DEF CopyInv
  <2>3. CopySound'
    BY <1>1, Zenon DEF Inv, CopySound
  <2> QED
    BY <1>2, <2>1, <2>2, <2>3, StillKeeps, ServerSame, ZenonT(40) DEF Inv
<1>7. ASSUME NEW o, run_callback(o) PROVE c' \in CmdCtx /\ c'.request_id = 0 /\ outcome' = o
  BY <1>3, <1>7, CtxFacts, Zenon DEF run_callback
<1>8. CASE command_timeout
  <2>1. UNCHANGED <<toClient, rx>>
    BY <1>8, Zenon DEF command_timeout, link
  <2>2. CASE cpc = "idle"
    <3>1. c' = FreeCtx
      BY <1>8, <2>2, ZenonT(40) DEF command_timeout
    <3> QED
      BY <1>3, <1>4, <1>6, <2>1, <2>2, <3>1, FreeFacts, ZenonT(40) DEF CopyInv, Inv, ClientType
  <2>3. CASE cpc # "idle"
    <3>1. run_callback(TimedOut)
      BY <1>8, <2>3, Zenon DEF command_timeout
    <3> QED
      BY <1>3, <1>6, <1>7, <2>1, <3>1, FreeFacts, ZenonT(40) DEF CopyInv, Inv, ClientType
  <2> QED
    BY <2>2, <2>3, Zenon
<1>9. CASE packet_received
  <2> DEFINE m == Head(toClient)
  <2>1. /\ toClient # <<>> /\ toClient' = Tail(toClient)
        /\ rx' = IF Known(m) THEN [packet |-> m, of |-> copies] ELSE NoPacket
        /\ UNCHANGED <<c, outcome>>
    BY <1>9, Zenon DEF packet_received, completion
  <2>2. m \in Downward /\ toClient' \in Seq(Downward) /\ Members(toClient) = Members(toClient') \cup {m}
    BY <1>3, <2>1, TailFacts, Zenon
  <2>3. Honest(m) /\ copies \in Nat
    BY <1>3, <2>2, ZenonT(40) DEF CopyInv, Inv, ClientType
  <2> HIDE DEF m
  <2>4. CASE Known(m)
    <3>1. rx' = [packet |-> m, of |-> copies]
      BY <2>1, <2>4, ZenonT(40)
    <3>2. rx' \in [packet : Downward, of : Nat] /\ rx'.packet = m /\ rx'.of = copies
      BY <2>2, <2>3, <3>1, Zenon
    <3>3. m.id = copies
      <4>1. m.id >= 1 /\ c.request_id = m.id /\ c.request_id \in {0, copies}
        BY <1>3, <2>3, <2>4, Zenon DEF Honest, Known, CopyInv
      <4> QED
        BY <4>1, SMTT(30)
    <3> QED
      BY <1>3, <1>6, <2>1, <2>2, <2>3, <3>2, <3>3, Zenon DEF CopyInv
  <2>5. CASE ~Known(m)
    BY <1>3, <1>6, <2>1, <2>2, <2>5, ZenonT(40) DEF CopyInv
  <2> QED
    BY <2>4, <2>5, Zenon
<1>10. CASE packet_apply
  <2>1. /\ rx # NoPacket /\ rx' = NoPacket /\ UNCHANGED <<toClient>>
    BY <1>10, ZenonT(40) DEF packet_apply, link
  <2>2. Honest(rx.packet) /\ rx.packet.id = rx.of
    BY <1>3, <2>1, Zenon DEF CopyInv
  <2>3. CASE UNCHANGED <<c, outcome>>
    BY <1>3, <1>6, <2>1, <2>3, ZenonT(40) DEF CopyInv
  <2>4. CASE c' = [c EXCEPT !.armed = TRUE, !.tx_tokens = @ + c.tx_tokens_on_ack] /\ outcome' = outcome
    <3>1. c' \in CmdCtx /\ c'.request_id = c.request_id
      BY <1>3, <2>4, CtxFacts, ZenonT(40)
    <3> QED
      BY <1>3, <1>6, <2>1, <2>4, <3>1, Zenon DEF CopyInv
  <2>5. CASE Running(rx.of) /\ rx.packet.t = "RSP" /\ run_callback(rx.packet)
    <3>1. c' \in CmdCtx /\ c'.request_id = 0 /\ outcome' = rx.packet
      BY <1>7, <2>5, ZenonT(40)
    <3>2. outcome'.ok => Accepted(copies)
      BY <2>2, <2>5, <3>1, ZenonT(40) DEF Honest, Running
    <3> QED
      BY <1>3, <1>6, <2>1, <3>1, <3>2, Zenon
  <2> QED
    BY <1>10, <2>3, <2>4, <2>5, Zenon DEF packet_apply, completion
<1> QED
  BY <1>8, <1>9, <1>10, Zenon

-----------------------------------------------------------------------------
(***************************************************************************)
(* The theorems.                                                           *)
(***************************************************************************)
\* The invariant holds at the start.
LEMMA InitInv == Init => Inv
<1> SUFFICES ASSUME Init PROVE Inv
  BY Zenon
<1>1. /\ toServer = <<>> /\ toClient = <<>> /\ tx = <<>> /\ command_fifo = <<>> /\ data_fifo = <<>>
      /\ returned = <<>> /\ written = <<>> /\ spc = "poll" /\ cpc = "idle" /\ ctx = FreshCtx
      /\ copies = 0 /\ offset = 0 /\ c = FreeCtx /\ rx = NoPacket
      /\ areas = 0 /\ erasing = 0 /\ dfu_reboot = FALSE /\ faulted = FALSE
      /\ flash = [slot1 |-> <<>>, file |-> <<>>]
  BY Zenon DEF Init, ClientInit, ServerInit
<1>2. LinkType /\ ClientType
  BY <1>1, EmptyQueue, FreeFacts, Zenon DEF LinkType, ClientType
<1>3. flash \in [Partitions -> Contents]
  <2>1. <<>> \in Contents
    BY EmptyQueue, Zenon DEF Contents
  <2> DEFINE x == <<>>
  <2>2. x \in Contents /\ flash = [slot1 |-> x, file |-> x]
    BY <1>1, <2>1, ZenonT(40)
  <2> HIDE DEF x
  <2> QED
    BY <2>2 DEF Partitions
<1>4. ServerType
  <2>1. /\ command_fifo \in Seq(Command) /\ data_fifo \in Seq(DataPacket) /\ written \in Seq(Record)
        /\ ctx \in Context /\ dfu_reboot \in BOOLEAN /\ faulted \in BOOLEAN
    BY <1>1, EmptyQueue, FreshFacts, Zenon
  <2>2. areas \in Int /\ erasing \in Int
    BY <1>1
  <2> QED
    BY <1>1, <1>3, <2>1, <2>2, Zenon DEF ServerType
<1>5. Commands = {} /\ Datas = {}
  BY <1>1, EmptyQueue, Zenon DEF Commands, Datas
<1>6. CommandInv /\ DataInv /\ SenderInv
  BY <1>1, <1>5, Zenon DEF CommandInv, DataInv, SenderInv, Early, Sending
<1>7. OrderInv
  BY <1>1, EmptyQueue, ZenonT(40) DEF OrderInv, Before
<1>8. ReceiveInv /\ FinishInv /\ AreaInv
  BY <1>1, Zenon DEF ReceiveInv, FinishInv, AreaInv
<1>9. CopyInv /\ CopySound /\ AcceptedWhole
  BY <1>1, EmptyQueue, SMTT(30) DEF CopyInv, CopySound, AcceptedWhole
<1> QED
  BY <1>2, <1>4, <1>6, <1>7, <1>8, <1>9, ZenonT(40) DEF Inv

\* A step of the client keeps the invariant.
LEMMA ClientKeeps ==
  ASSUME Inv, rpc_client, UNCHANGED serverVars
  PROVE  Inv'
<1>1. CASE Waits
  BY <1>1, WaitsMove, MoveKeeps, ZenonT(40)
<1>2. CASE auto_load_send
  <2>1. \/ UNCHANGED link
        \/ /\ toServer' = Append(toServer, Data(copies, copy.file, offset)) /\ offset' = offset + 1
           /\ Goto("send_find") /\ toClient' = toClient /\ (c' = c \/ TakeToken)
    BY <1>2, ZenonT(40) DEF auto_load_send
  <2> QED
    BY <1>1, <1>2, <2>1, SendKeeps, Zenon DEF Waits
<1> QED
  BY <1>1, <1>2, QueueKeeps, CleanupKeeps, SentKeeps, AnswerKeeps, ZenonT(40)
     DEF rpc_client, rpc_command_bt_file_copy_basic_run, Waits

\* Every step keeps the invariant.
LEMMA NextInv == Inv /\ [Next]_vars => Inv'
<1> SUFFICES ASSUME Inv, [Next]_vars PROVE Inv'
  BY Zenon
<1>1. CASE Client
  BY <1>1, ClientKeeps, Zenon DEF Client, ClientStep
<1>2. CASE Server
  BY <1>2, ServerKeeps, ZenonT(40) DEF Server, ServerStep
<1>3. CASE Receive
  BY <1>3, ReceiveKeeps, Zenon DEF Receive, ServerStep
<1>4. CASE Lose
  BY <1>4, LoseKeeps, ZenonT(40) DEF Lose
<1>5. CASE UNCHANGED vars
  <2>1. UNCHANGED <<toServer, toClient, clientVars, serverVars>>
    BY <1>5, Zenon DEF vars, link
  <2>2. UNCHANGED <<command_fifo, data_fifo, spc, req, ctx, storage, written, tx>>
    BY <2>1, Zenon DEF serverVars, clientVars, fifos
  <2>3. Shrinks
    BY <2>1, <2>2, Zenon DEF Shrinks, Commands, Datas, Inv, OrderInv
  <2> QED
    BY <2>1, <2>2, <2>3, TransportKeeps, ZenonT(40) DEF Inv, LinkType, ServerType
<1> QED
  BY <1>1, <1>2, <1>3, <1>4, <1>5, Zenon DEF Next, Stop

\* rpc_command_file_write_impl: for files of any length, any loss and any rest of
\* earlier copies, a write that is answered with success has left the whole file
\* in its partition.  The server looks for no gap; the order of the packets and
\* the number of blocks exclude one.
THEOREM WritesAreWhole == Spec => []AcceptedWhole
<1>1. Inv => AcceptedWhole
  BY ZenonT(40) DEF Inv
<1> QED
  BY <1>1, InitInv, NextInv, PTL DEF Spec

\* rpc_command_bt_file_copy_basic_run: a copy reports success only if the other
\* device has accepted this very request, whatever responses and timeouts race.
THEOREM SuccessIsAccepted == Spec => []CopySound
<1>1. Inv => CopySound
  BY Zenon DEF Inv
<1> QED
  BY <1>1, InitInv, NextInv, PTL DEF Spec

\* rpc_common_file_actions: unless opening, erasing or flushing failed, every
\* area that a command opened is closed when it has ended, on every path.
THEOREM AreasClosed == Spec => []AreasBalanced
<1>1. Inv => AreasBalanced
  BY ZenonT(40) DEF Inv, AreaInv, AreasBalanced
<1> QED
  BY <1>1, InitInv, NextInv, PTL DEF Spec

\* rpc_common_file_actions_finish and _deferred: a restart into a new image is
\* asked for only when slot1 holds a whole image, received or patched.
THEOREM RestartsAreWhole == Spec => RebootWhole
<1> DEFINE Held == \/ \E f \in Files : IsWhole(flash'.slot1, f)
                   \/ flash'.slot1 \in {Patched(f) : f \in ValidPatches}
<1>1. ASSUME Inv, [Next]_vars, ~dfu_reboot, dfu_reboot' PROVE Held
  <2>1. dfu_reboot' # dfu_reboot
    BY <1>1, Zenon
  <2>2. rpc_server
    <3>1. CASE Server
      BY <3>1, Zenon DEF Server, ServerStep
    <3>2. CASE Receive
      BY <2>1, <3>2, Zenon DEF Receive, ServerStep, rpc_server_queue, storage
    <3>3. CASE Client \/ Lose \/ UNCHANGED vars
      BY <2>1, <3>3, Zenon DEF Client, ClientStep, Lose, vars, serverVars, storage
    <3> QED
      BY <1>1, <3>1, <3>2, <3>3, Zenon DEF Next, Stop
  <2>3. CASE rpc_common_file_actions_deferred
    <3>1. /\ spc = "deferred" /\ flash' = [flash EXCEPT !["slot1"] = Patched(req.file)]
      BY <1>1, <2>1, <2>3, Zenon DEF rpc_common_file_actions_deferred
    <3>2. req.file \in ValidPatches /\ flash \in [Partitions -> Contents]
      BY <1>1, <3>1, Zenon DEF Inv, FinishInv, ServerType
    <3>3. "slot1" \in Partitions
      BY Zenon DEF Partitions
    <3>4. flash'["slot1"] = Patched(req.file)
      BY <3>1, <3>2, <3>3, Zenon
    <3> QED
      BY <3>2, <3>4, Zenon
  <2>4. CASE rpc_common_file_actions_finish
    <3>1. spc = "finish" /\ finish_ok
      BY <2>1, <2>4, Zenon DEF rpc_common_file_actions_finish, finish_flush_fails, finish_invalid, finish_error
    <3>2. req.action = "APP_IMG" /\ flash' = flash
      BY <1>1, <3>1, Zenon DEF finish_ok
    <3>3. HasArea(req) /\ Partition[req.action] = "slot1"
      BY <3>2, SMTT(30) DEF HasArea, Partition
    <3>4. IsWhole(flash["slot1"], req.file)
      BY <1>1, <3>1, <3>3, Zenon DEF Inv, FinishInv, ContentOf
    <3>5. req.file \in Files
      BY <1>1, <3>1, ReqFacts, ZenonT(40)
    <3> QED
      BY <3>2, <3>4, <3>5, Zenon
  <2>5. rpc_common_file_actions_deferred \/ rpc_common_file_actions_finish
    BY <2>1, <2>2, Zenon DEF rpc_server, rpc_server_command, rpc_common_file_actions_start, start_simple,
       start_present, start_erase, start_fails, pull_data, pull_data_other, pull_data_timeout, check_received,
       rpc_server_end, rpc_server_data, fail, storage
  <2> QED
    BY <2>3, <2>4, <2>5, ZenonT(40)
<1>2. Inv /\ [Next]_vars => [(~dfu_reboot /\ dfu_reboot') => Held]_vars
  BY <1>1, Zenon
<1> QED
  BY <1>2, InitInv, NextInv, PTL DEF Spec, RebootWhole

=============================================================================
