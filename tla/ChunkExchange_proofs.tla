------------------------ MODULE ChunkExchange_proofs ------------------------
(***************************************************************************)
(* What ChunkExchange stores and pays for, for any number of seeders,      *)
(* chunks, slices and failing connections.                                 *)
(*                                                                         *)
(* A payment is made long after the seeder looked into its storage: the    *)
(* demand crosses the channel, meets whatever attempt is under way, and    *)
(* the payment outlives that attempt.  The invariant follows the chunk     *)
(* along that way: the handler that waits for the storage serves its own   *)
(* seeder (MapInv), a demand in a channel is for a chunk its seeder has    *)
(* (Sound), the attempt that listens is one with the seeder of its         *)
(* connection (LoopInv), so what is signed is held (PayInv).               *)
(*                                                                         *)
(* A seeder is paid once for a chunk because what leads to a payment is    *)
(* like a token that is in one place: the attempt that was not made, the   *)
(* question in a channel, the handler that looks the chunk up, the demand  *)
(* in a channel, the payment (TokenInv).                                   *)
(***************************************************************************)
EXTENDS ChunkExchange, TLAPS

DownloadType ==
    /\ held \subseteq Chunk
    /\ stored \in [Chunk -> {"nothing", "genuine", "garbled"}]
    /\ loop \in Loop
    /\ status \in {"running", "complete", "error", "idle"}
    /\ cancelled \in BOOLEAN

AttemptsType ==
    /\ used \in [Attempt -> Attempt \cup {None}]
    /\ payment \in [Attempt -> {"none", "signing", "confirmed", "failed"}]
    /\ paid \in [Attempt -> Nat]
    /\ saving \in [Attempt -> SUBSET {"genuine", "garbled"}]

SeedingType ==
    /\ answering \in [Seeder -> Attempt \cup {None}]
    /\ pending \in [Seeder -> Chunk \cup {None}]
    /\ fetching \in [Attempt -> Attempt \cup {None}]
    /\ verifying \in [Attempt -> [conn : Attempt, chunk : Chunk] \cup {None}]
    /\ streaming \in [Attempt -> [conn : Attempt, chunk : Chunk,
                                 next : 0..(NumSlices - 1)] \cup {None}]
    /\ refused \subseteq Attempt

\* What seeder s sends.
Answer(s) == {m \in Message : m.type = "payment-required" => m.chunk \in Holds[s]}

\* Connections that carry nothing else.
Sound(c) ==
    /\ c \in [Attempt -> Connection]
    /\ \A k \in Attempt : c[k].toDownloader \in Seq(Answer(k[1]))

NetworkInv ==
    /\ Sound(conn)
    /\ pcs \in [Seeder -> Attempt \cup {None}]
    /\ drops \in 0..MaxDrops

\* The attempt under way is one, and listens to a connection to its seeder.
LoopInv ==
    /\ loop.at \in {"choosing", "connecting", "waiting"} => loop.chunk \in Chunk
    /\ loop.at \in {"connecting", "waiting"} =>
          /\ loop.seeder \in Seeder
          /\ loop.conn \in Attempt
          /\ loop.conn[1] = loop.seeder
    /\ loop.at = "connecting" => loop.conn = Current /\ loop.seeder \in loop.left
    /\ loop.at = "waiting" => used[Current] = loop.conn

\* Connections and handlers are filed under their own seeder.
MapInv ==
    /\ \A s \in Seeder : pcs[s] # None => pcs[s][1] = s
    /\ \A a \in Attempt : fetching[a] # None => fetching[a][1] = a[1]

\* A payment under way, or made, is for a chunk its seeder has, and was asked
\* for on a connection.
PayInv ==
    /\ \A a \in Attempt :
          payment[a] # "none" => used[a] \in Attempt /\ a[2] \in Holds[a[1]]
    /\ PaidOnlyForHeld

ExchangeInv ==
    /\ DownloadType /\ AttemptsType /\ SeedingType
    /\ NetworkInv /\ LoopInv /\ MapInv /\ PayInv /\ OnlyGenuine

-----------------------------------------------------------------------------
(* Attempts, messages and connections.                                     *)

\* The parts of an attempt.
LEMMA Attempts ==
    /\ \A k \in Attempt : k[1] \in Seeder /\ k[2] \in Chunk /\ k = <<k[1], k[2]>>
    /\ \A s \in Seeder, i \in Chunk : <<s, i>> \in Attempt
BY DEF Attempt

\* None is nothing else.
LEMMA Nothing == None \notin Seeder /\ None \notin Attempt /\ None \notin Chunk
                 /\ None \notin Reassembly
BY ExchangeAssumption

\* What a message of each type carries.
LEMMA Messages ==
    ASSUME NEW m \in Message
    PROVE  /\ m.type \in {"request-chunk", "payment-required", "chunk-data", "slice"}
                => m.chunk \in Chunk
           /\ m.type = "payment-proof" => m.tx \in Attempt
BY DEF Message

\* A connection may be replaced by any that carries its seeder's answers.
LEMMA Replace ==
    ASSUME NEW c, Sound(c), NEW k \in Attempt, NEW r \in Connection,
           r.toDownloader \in Seq(Answer(k[1]))
    PROVE  Sound([c EXCEPT ![k] = r])
BY DEF Sound

\* Sending to the seeder keeps the connections sound.
LEMMA SendUp ==
    ASSUME NEW c, Sound(c), NEW k \in Attempt, NEW m \in Message
    PROVE  Sound(ToSeeder(c, k, m))
<1> DEFINE r == [c[k] EXCEPT !.toSeeder = Append(@, m)]
<1>1. c[k] \in Connection /\ Append(c[k].toSeeder, m) \in Seq(Message)
  BY DEF Sound, Connection
<1>2. r \in Connection /\ r.toDownloader = c[k].toDownloader
  BY <1>1 DEF Connection
<1>3. Sound([c EXCEPT ![k] = r])
  <2> HIDE DEF r
  <2> QED BY <1>2, Replace DEF Sound
<1>4. [c EXCEPT ![k].toSeeder = Append(@, m)] = [c EXCEPT ![k] = r]
  BY DEF Sound
<1> QED BY <1>3, <1>4 DEF ToSeeder

\* So does sending one of its seeder's answers to the downloader.
LEMMA SendDown ==
    ASSUME NEW c, Sound(c), NEW k \in Attempt, NEW m \in Answer(k[1])
    PROVE  Sound(ToDownloader(c, k, m))
<1> DEFINE q == Append(c[k].toDownloader, m)
           r == [c[k] EXCEPT !.toDownloader = q]
<1>1. c[k] \in Connection /\ m \in Message
  BY DEF Sound, Answer
<1>2. q \in Seq(Message) /\ q \in Seq(Answer(k[1]))
  BY <1>1 DEF Sound, Connection
<1>3. r \in Connection /\ r.toDownloader = q
  <2> HIDE DEF q
  <2> QED BY <1>1, <1>2 DEF Connection
<1>4. Sound([c EXCEPT ![k] = r])
  <2> HIDE DEF r
  <2> QED BY <1>2, <1>3, Replace
<1>5. [c EXCEPT ![k].toDownloader = Append(@, m)] = [c EXCEPT ![k] = r]
  BY DEF Sound
<1> QED BY <1>4, <1>5 DEF ToDownloader

\* Every message but a demand for payment is an answer of any seeder.
LEMMA Answers ==
    ASSUME NEW s \in Seeder
    PROVE  /\ [type |-> "error"] \in Answer(s)
           /\ \A i \in Chunk : [type |-> "chunk-data", chunk |-> i] \in Answer(s)
           /\ \A i \in Chunk, n \in 0..(NumSlices - 1) :
                 [type |-> "slice", chunk |-> i, index |-> n] \in Answer(s)
           /\ \A i \in Chunk \cap Holds[s] :
                 [type |-> "payment-required", chunk |-> i] \in Answer(s)
BY DEF Answer, Message

\* So does taking the next message to the downloader, which is an answer.
LEMMA Taken ==
    ASSUME Sound(conn), NEW k \in Attempt, conn[k].toDownloader # <<>>
    PROVE  /\ Sound(Rest(k))
           /\ Head(conn[k].toDownloader) \in Answer(k[1])
           /\ Head(conn[k].toDownloader) \in Message
<1> DEFINE q == Tail(conn[k].toDownloader)
           r == [conn[k] EXCEPT !.toDownloader = q]
<1>1. conn[k] \in Connection
  BY DEF Sound
<1>2. q \in Seq(Message) /\ q \in Seq(Answer(k[1])) /\ Head(conn[k].toDownloader) \in Answer(k[1])
  BY <1>1 DEF Sound, Connection
<1>3. r \in Connection /\ r.toDownloader = q
  <2> HIDE DEF q
  <2> QED BY <1>1, <1>2 DEF Connection
<1>4. Sound([conn EXCEPT ![k] = r])
  <2> HIDE DEF r
  <2> QED BY <1>2, <1>3, Replace
<1>5. Rest(k) = [conn EXCEPT ![k] = r]
  BY DEF Sound, Rest
<1> QED BY <1>2, <1>4, <1>5 DEF Answer

\* So does taking the next message to the seeder.
LEMMA TakenUp ==
    ASSUME Sound(conn), NEW k \in Attempt, conn[k].toSeeder # <<>>
    PROVE  /\ Sound(Handled(k))
           /\ Head(conn[k].toSeeder) \in Message
<1> DEFINE q == Tail(conn[k].toSeeder)
           r == [conn[k] EXCEPT !.toSeeder = q]
<1>1. conn[k] \in Connection
  BY DEF Sound
<1>2. q \in Seq(Message) /\ Head(conn[k].toSeeder) \in Message
  BY <1>1 DEF Connection
<1>3. r \in Connection /\ r.toDownloader = conn[k].toDownloader
  <2> HIDE DEF q
  <2> QED BY <1>1, <1>2 DEF Connection
<1>4. Sound([conn EXCEPT ![k] = r])
  <2> HIDE DEF r
  <2> QED BY <1>3, Replace DEF Sound
<1>5. Handled(k) = [conn EXCEPT ![k] = r]
  BY DEF Sound, Handled
<1> QED BY <1>2, <1>4, <1>5

\* So does closing any of them.
LEMMA Closed ==
    ASSUME Sound(conn), NEW ks
    PROVE  Sound(CloseNear(ks))
<1> SUFFICES ASSUME NEW k \in Attempt
             PROVE  /\ CloseNear(ks)[k] \in Connection
                    /\ CloseNear(ks)[k].toDownloader \in Seq(Answer(k[1]))
  BY DEF Sound, CloseNear
<1> DEFINE r == [conn[k] EXCEPT !.near = "closing", !.toDownloader = <<>>, !.rx = None]
<1>1. conn[k] \in Connection /\ conn[k].toDownloader \in Seq(Answer(k[1]))
  BY DEF Sound
<1>2. r \in Connection /\ r.toDownloader \in Seq(Answer(k[1]))
  <2>1. <<>> \in Seq(Message) /\ <<>> \in Seq(Answer(k[1]))
    OBVIOUS
  <2> QED BY <1>1, <2>1 DEF Connection
<1>3. CloseNear(ks)[k] = conn[k] \/ CloseNear(ks)[k] = r
  BY DEF CloseNear
<1> QED
  <2> HIDE DEF r
  <2> QED BY <1>1, <1>2, <1>3

-----------------------------------------------------------------------------
(* The loop.                                                               *)

\* Abandoning an attempt keeps the loop in order.
LEMMA Abandoned ==
    ASSUME loop \in Loop, LoopInv, loop.at \in {"connecting", "waiting"}, Abandon
    PROVE  loop' \in Loop /\ LoopInv'
BY DEF Loop, LoopInv, Abandon

\* Going on to the next missing chunk, or to the end, keeps the loop in order;
\* it ends as complete only when every chunk is genuine.
LEMMA Advanced ==
    ASSUME DownloadType, NEW content \in [Chunk -> {"nothing", "genuine"}],
           \/ End("idle")
           \/ End(IF \E j \in Chunk : content[j] = "nothing" THEN "error" ELSE "complete")
           \/ /\ \E next \in Chunk :
                    loop' = [at |-> "choosing", chunk |-> next, left |-> Seeder,
                             seeder |-> None, conn |-> None]
              /\ UNCHANGED status
    PROVE  /\ loop' \in Loop /\ LoopInv'
           /\ status' \in {"running", "complete", "error", "idle"}
           /\ status' = "complete" =>
                 status = "complete" \/ \A j \in Chunk : content[j] = "genuine"
<1>1. CASE End("idle")
  BY <1>1 DEF End, DownloadType, Loop, LoopInv
<1>2. CASE End(IF \E j \in Chunk : content[j] = "nothing" THEN "error" ELSE "complete")
  BY <1>2 DEF End, DownloadType, Loop, LoopInv
<1>3. CASE /\ \E next \in Chunk :
                 loop' = [at |-> "choosing", chunk |-> next, left |-> Seeder,
                          seeder |-> None, conn |-> None]
           /\ UNCHANGED status
  <2>1. PICK next \in Chunk : loop' = [at |-> "choosing", chunk |-> next, left |-> Seeder,
                                       seeder |-> None, conn |-> None]
    BY <1>3
  <2>2. next \in 0..NumChunks
    BY ExchangeAssumption DEF Chunk
  <2> QED BY <1>3, <2>1, <2>2 DEF DownloadType, Loop, LoopInv
<1> QED BY <1>1, <1>2, <1>3

-----------------------------------------------------------------------------
(* Every action keeps ExchangeInv.                                         *)

\* The initial states satisfy ExchangeInv.
LEMMA InitExchange == Init => ExchangeInv
<1> SUFFICES ASSUME Init PROVE ExchangeInv
  OBVIOUS
<1>1. DownloadType /\ OnlyGenuine
  <2>1. 0 \in 0..NumChunks
    BY ExchangeAssumption
  <2> QED BY <2>1 DEF Init, DownloadType, Loop, OnlyGenuine
<1>2. AttemptsType /\ SeedingType /\ MapInv /\ LoopInv /\ PayInv
  BY DEF Init, AttemptsType, SeedingType, MapInv, LoopInv, PayInv, PaidOnlyForHeld
<1>3. NetworkInv
  <2> DEFINE r == [near |-> "new", far |-> "new", toSeeder |-> <<>>,
                   toDownloader |-> <<>>, rx |-> None, timer |-> FALSE]
  <2>1. r \in Connection /\ \A k \in Attempt : r.toDownloader \in Seq(Answer(k[1]))
    BY DEF Connection
  <2>2. conn = [k \in Attempt |-> r]
    BY DEF Init
  <2>3. Sound(conn)
    <3> HIDE DEF r
    <3> QED BY <2>1, <2>2 DEF Sound
  <2> QED BY <2>3, ExchangeAssumption DEF Init, NetworkInv
<1> QED BY <1>1, <1>2, <1>3 DEF ExchangeInv

\* A step that leaves the download and its payments alone.
LEMMA DownloadAlone ==
    ASSUME ExchangeInv, UNCHANGED <<download, used, payment, paid>>
    PROVE  DownloadType' /\ LoopInv' /\ PayInv' /\ OnlyGenuine'
<1> USE DEF ExchangeInv, download
<1>1. DownloadType'
  BY DEF DownloadType
<1>2. LoopInv'
  BY DEF LoopInv, Current
<1>3. PayInv' /\ OnlyGenuine'
  BY DEF PayInv, PaidOnlyForHeld, OnlyGenuine
<1> QED BY <1>1, <1>2, <1>3

\* A step of the loop that leaves what is stored and paid alone.
LEMMA LoopMoves ==
    ASSUME ExchangeInv, UNCHANGED <<held, stored, status, payment, paid>>,
           loop' \in Loop, cancelled' \in BOOLEAN
    PROVE  DownloadType' /\ OnlyGenuine' /\ PaidOnlyForHeld'
BY DEF ExchangeInv, DownloadType, OnlyGenuine, PayInv, PaidOnlyForHeld

\* A step that leaves the attempts alone.
LEMMA AttemptsAlone ==
    ASSUME ExchangeInv, UNCHANGED attempts
    PROVE  AttemptsType' /\ PayInv'
BY DEF ExchangeInv, AttemptsType, PayInv, PaidOnlyForHeld, attempts

\* A step that leaves the seeders alone.
LEMMA SeedingAlone ==
    ASSUME ExchangeInv, UNCHANGED seeding
    PROVE  SeedingType'
BY DEF ExchangeInv, SeedingType, seeding

\* A step that leaves the network alone.
LEMMA NetworkAlone ==
    ASSUME ExchangeInv, UNCHANGED network
    PROVE  NetworkInv'
BY DEF ExchangeInv, NetworkInv, Sound, network

\* A step that leaves both maps of connections alone.
LEMMA MapsAlone ==
    ASSUME ExchangeInv, UNCHANGED <<pcs, fetching>>
    PROVE  MapInv'
BY DEF ExchangeInv, MapInv

\* Start and NoSeeders keep ExchangeInv.
LEMMA StartStep ==
    ASSUME ExchangeInv, Start \/ NoSeeders
    PROVE  ExchangeInv'
<1> USE DEF ExchangeInv
<1>1. (AttemptsType /\ SeedingType /\ NetworkInv /\ MapInv /\ PayInv)'
  BY DEF Start, NoSeeders, network, attempts, seeding, AttemptsType, SeedingType, NetworkInv,
         Sound, MapInv, PayInv, PaidOnlyForHeld
<1>2. stored \in [Chunk -> {"nothing", "genuine"}]
  BY DEF DownloadType, OnlyGenuine
<1>3. CASE Start
  <2> DEFINE have == {i \in Chunk : stored[i] # "nothing"}
  <2>1. have' = have /\ stored' = stored /\ cancelled' = cancelled /\ held' = have
    BY <1>3 DEF Start
  <2>2. CASE have = Chunk /\ End("complete")
    <3>1. DownloadType'
      BY <2>1, <2>2 DEF End, DownloadType, Loop
    <3>2. LoopInv'
      BY <2>2 DEF End, LoopInv
    <3>3. OnlyGenuine'
      BY <1>2, <2>1, <2>2 DEF OnlyGenuine
    <3> QED BY <1>1, <3>1, <3>2, <3>3
  <2>3. CASE Advance(have, 0, stored)
    <3>1. /\ loop' \in Loop /\ LoopInv'
          /\ status' \in {"running", "complete", "error", "idle"}
          /\ status' = "complete" => status = "complete" \/ \A j \in Chunk : stored[j] = "genuine"
      BY <1>2, <2>3, Advanced DEF Advance
    <3>2. DownloadType'
      BY <2>1, <3>1 DEF DownloadType
    <3>3. OnlyGenuine'
      BY <1>2, <2>1, <3>1 DEF OnlyGenuine
    <3> QED BY <1>1, <3>1, <3>2, <3>3
  <2>4. (have = Chunk /\ End("complete")) \/ Advance(have, 0, stored)
    BY <1>3 DEF Start
  <2> QED BY <2>2, <2>3, <2>4
<1>4. CASE NoSeeders
  <2>1. DownloadType' /\ LoopInv' /\ OnlyGenuine'
    BY <1>4 DEF NoSeeders, End, DownloadType, Loop, LoopInv, OnlyGenuine
  <2> QED BY <1>1, <2>1
<1> QED BY <1>3, <1>4

\* Choose keeps ExchangeInv.
LEMMA ChooseStep ==
    ASSUME ExchangeInv, NEW s \in Seeder, Choose(s)
    PROVE  ExchangeInv'
<1> USE DEF ExchangeInv
<1> DEFINE a == <<s, loop.chunk>>
           k == pcs[s]
<1>1. SeedingType' /\ UNCHANGED <<held, stored, status, cancelled, payment, paid, saving, drops>>
  BY SeedingAlone DEF Choose
<1>2. a \in Attempt /\ a[1] = s /\ loop.chunk \in Chunk /\ loop.at = "choosing"
      /\ s \in loop.left
  BY Attempts DEF Choose, LoopInv
<1>3. UNCHANGED fetching
  BY DEF Choose, seeding
<1>4. CASE /\ k # None
           /\ Request(a, k)
           /\ conn' = ToSeeder(conn, k, [type |-> "request-chunk", chunk |-> loop.chunk])
           /\ UNCHANGED pcs
  <2>1. k \in Attempt /\ k[1] = s
    BY <1>4 DEF NetworkInv, MapInv
  <2>2. loop' \in Loop /\ LoopInv'
    BY <1>2, <1>4, <2>1 DEF Request, DownloadType, AttemptsType, Loop, LoopInv, Current
  <2>3. AttemptsType' /\ PayInv'
    <3>1. used' = [used EXCEPT ![a] = k]
      BY <1>4 DEF Request
    <3> HIDE DEF a, k
    <3>2. AttemptsType'
      BY <1>1, <2>1, <3>1 DEF AttemptsType
    <3>3. PayInv'
      BY <1>1, <2>1, <3>1 DEF AttemptsType, PayInv, PaidOnlyForHeld
    <3> QED BY <3>2, <3>3
  <2>4. NetworkInv'
    <3>1. [type |-> "request-chunk", chunk |-> loop.chunk] \in Message
      BY <1>2 DEF Message
    <3>2. Sound(ToSeeder(conn, k, [type |-> "request-chunk", chunk |-> loop.chunk]))
      BY <2>1, <3>1, SendUp DEF NetworkInv
    <3> QED BY <1>1, <1>4, <3>2 DEF NetworkInv
  <2> QED BY <1>1, <1>3, <1>4, <2>2, <2>3, <2>4, LoopMoves, MapsAlone DEF DownloadType
<1>5. CASE /\ loop' = [loop EXCEPT !.at = "connecting", !.seeder = s, !.conn = a]
           /\ pcs' = [pcs EXCEPT ![s] = a]
           /\ conn' = [conn EXCEPT ![a].near = "connecting", ![a].timer = TRUE]
           /\ UNCHANGED used
  <2>1. loop' \in Loop /\ LoopInv'
    BY <1>2, <1>5 DEF DownloadType, AttemptsType, Loop, LoopInv, Current
  <2>2. AttemptsType' /\ PayInv'
    BY <1>1, <1>5, AttemptsAlone DEF attempts
  <2>3. MapInv' /\ pcs' \in [Seeder -> Attempt \cup {None}]
    <3> HIDE DEF a
    <3> QED BY <1>2, <1>3, <1>5 DEF MapInv, NetworkInv
  <2>4. Sound(conn')
    <3> DEFINE r == [conn[a] EXCEPT !.near = "connecting", !.timer = TRUE]
    <3>1. r \in Connection /\ r.toDownloader \in Seq(Answer(a[1]))
      BY <1>2 DEF NetworkInv, Sound, Connection
    <3>2. Sound([conn EXCEPT ![a] = r])
      <4> HIDE DEF r, a
      <4> QED BY <1>2, <3>1, Replace DEF NetworkInv
    <3>3. conn' = [conn EXCEPT ![a] = r]
      <4> HIDE DEF a
      <4> QED BY <1>2, <1>5 DEF NetworkInv, Sound
    <3> QED BY <3>2, <3>3 DEF Sound
  <2> QED BY <1>1, <2>1, <2>2, <2>3, <2>4, LoopMoves DEF DownloadType, NetworkInv
<1> QED BY <1>4, <1>5 DEF Choose

\* GiveUp keeps ExchangeInv.
LEMMA GiveUpStep ==
    ASSUME ExchangeInv, GiveUp
    PROVE  ExchangeInv'
<1> USE DEF ExchangeInv
<1>1. NetworkInv' /\ AttemptsType' /\ PayInv' /\ SeedingType' /\ MapInv'
  BY NetworkAlone, AttemptsAlone, SeedingAlone, MapsAlone DEF GiveUp, network, seeding
<1>2. DownloadType' /\ LoopInv' /\ OnlyGenuine'
  BY DEF GiveUp, End, DownloadType, Loop, LoopInv, OnlyGenuine
<1> QED BY <1>1, <1>2

\* Cancel keeps ExchangeInv.
LEMMA CancelStep ==
    ASSUME ExchangeInv, Cancel
    PROVE  ExchangeInv'
<1> USE DEF ExchangeInv
<1>1. AttemptsType' /\ PayInv' /\ SeedingType'
  BY AttemptsAlone, SeedingAlone DEF Cancel
<1>2. DownloadType' /\ OnlyGenuine' /\ LoopInv'
  BY DEF Cancel, DownloadType, OnlyGenuine, LoopInv, Current, attempts
<1>3. NetworkInv' /\ MapInv'
  <2>1. Sound(CloseNear(Attempt))
    BY Closed DEF NetworkInv
  <2> QED BY <2>1 DEF Cancel, NetworkInv, Sound, MapInv, seeding
<1> QED BY <1>1, <1>2, <1>3

\* ChunkTimeout keeps ExchangeInv.
LEMMA ChunkTimeoutStep ==
    ASSUME ExchangeInv, ChunkTimeout
    PROVE  ExchangeInv'
<1> USE DEF ExchangeInv
<1>1. NetworkInv' /\ AttemptsType' /\ PayInv' /\ SeedingType' /\ MapInv'
  BY NetworkAlone, AttemptsAlone, SeedingAlone, MapsAlone DEF ChunkTimeout, network, seeding
<1>2. loop' \in Loop /\ LoopInv'
  BY Abandoned DEF ChunkTimeout, DownloadType
<1> QED BY <1>1, <1>2, LoopMoves DEF ChunkTimeout, DownloadType, attempts

\* Opens keeps ExchangeInv.
LEMMA OpensStep ==
    ASSUME ExchangeInv, NEW k \in Attempt, Opens(k)
    PROVE  ExchangeInv'
<1> USE DEF ExchangeInv
<1> DEFINE m == [type |-> "request-chunk", chunk |-> loop.chunk]
           r == [conn[k] EXCEPT !.near = "open", !.far = "open", !.toSeeder = <<m>>]
<1>1. loop.at = "connecting" /\ k = Current /\ loop.chunk \in Chunk /\ k[1] \in Seeder
  BY Attempts DEF Opens, LoopInv
<1>2. loop' \in Loop /\ LoopInv' /\ used' = [used EXCEPT ![k] = k]
  <2>1. /\ loop' = [loop EXCEPT !.at = "waiting", !.seeder = k[1], !.conn = k]
        /\ used' = [used EXCEPT ![k] = k]
    BY DEF Opens, Request
  <2>2. loop' \in Loop
    BY <1>1, <2>1 DEF DownloadType, Loop
  <2>3. Current' = k /\ loop'.conn = k /\ loop'.at = "waiting" /\ loop'.seeder = k[1]
        /\ loop'.chunk = loop.chunk
    BY <1>1, <2>1 DEF DownloadType, Loop, Current
  <2>4. used'[k] = k
    BY <2>1 DEF AttemptsType
  <2> QED BY <1>1, <2>1, <2>2, <2>3, <2>4 DEF LoopInv
<1>3. AttemptsType' /\ PayInv'
  BY <1>2 DEF Opens, AttemptsType, PayInv, PaidOnlyForHeld
<1>4. SeedingType' /\ MapInv'
  BY <1>1 DEF Opens, SeedingType, MapInv
<1>5. Sound(conn')
  <2>1. <<m>> \in Seq(Message)
    BY <1>1 DEF Message
  <2>2. r \in Connection /\ r.toDownloader \in Seq(Answer(k[1]))
    <3> HIDE DEF m
    <3> QED BY <2>1 DEF NetworkInv, Sound, Connection
  <2>3. Sound([conn EXCEPT ![k] = r])
    <3> HIDE DEF r
    <3> QED BY <2>2, Replace DEF NetworkInv
  <2>4. conn' = [conn EXCEPT ![k] = r]
    BY DEF Opens, NetworkInv, Sound
  <2> QED BY <2>3, <2>4 DEF Sound
<1> QED BY <1>2, <1>3, <1>4, <1>5, LoopMoves DEF Opens, DownloadType, NetworkInv

\* ConnectTimeout keeps ExchangeInv.
LEMMA ConnectTimeoutStep ==
    ASSUME ExchangeInv, NEW k \in Attempt, ConnectTimeout(k)
    PROVE  ExchangeInv'
<1> USE DEF ExchangeInv
<1>1. /\ AttemptsType' /\ PayInv' /\ SeedingType'
      /\ UNCHANGED <<held, stored, status, cancelled, payment, paid, used, drops, fetching>>
  BY AttemptsAlone, SeedingAlone DEF ConnectTimeout, attempts, seeding
<1>2. loop' \in Loop /\ LoopInv'
  <2>1. CASE UNCHANGED loop
    BY <1>1, <2>1 DEF DownloadType, LoopInv, Current
  <2>2. CASE loop.at = "connecting" /\ Abandon
    BY <2>2, Abandoned DEF DownloadType
  <2> QED BY <2>1, <2>2 DEF ConnectTimeout
<1>3. Sound(conn')
  <2>1. PICK c \in {conn, CloseNear({k})} : conn' = [c EXCEPT ![k].timer = FALSE]
    BY DEF ConnectTimeout
  <2>2. Sound(c)
    BY Closed DEF NetworkInv
  <2> DEFINE r == [c[k] EXCEPT !.timer = FALSE]
  <2>3. r \in Connection /\ r.toDownloader \in Seq(Answer(k[1]))
    BY <2>2 DEF Sound, Connection
  <2>4. Sound([c EXCEPT ![k] = r])
    <3> HIDE DEF r
    <3> QED BY <2>2, <2>3, Replace
  <2>5. conn' = [c EXCEPT ![k] = r]
    BY <2>1, <2>2 DEF Sound
  <2> QED BY <2>4, <2>5 DEF Sound
<1>4. MapInv' /\ pcs' \in [Seeder -> Attempt \cup {None}]
  BY <1>1 DEF ConnectTimeout, Forget, MapInv, NetworkInv
<1> QED BY <1>1, <1>2, <1>3, <1>4, LoopMoves DEF DownloadType, NetworkInv

\* What a step of the network that leaves the download and its attempts alone
\* must see to.
LEMMA NetworkStep ==
    ASSUME ExchangeInv, UNCHANGED <<download, attempts>>,
           Sound(conn'), pcs' \in [Seeder -> Attempt \cup {None}], drops' \in 0..MaxDrops,
           SeedingType', MapInv'
    PROVE  ExchangeInv'
BY DownloadAlone, AttemptsAlone DEF ExchangeInv, NetworkInv, Sound, attempts

\* NearCloses and NearClosed keep ExchangeInv.
LEMMA NearStep ==
    ASSUME ExchangeInv, NEW k \in Attempt, NearCloses(k) \/ NearClosed(k)
    PROVE  ExchangeInv'
<1> USE DEF ExchangeInv
<1>1. SeedingType' /\ UNCHANGED <<download, attempts, fetching>>
  BY SeedingAlone DEF NearCloses, NearClosed, seeding
<1>2. MapInv' /\ pcs' \in [Seeder -> Attempt \cup {None}]
  BY <1>1 DEF NearCloses, NearClosed, Forget, MapInv, NetworkInv
<1>3. drops' \in 0..MaxDrops
  BY ExchangeAssumption DEF NearCloses, NearClosed, NetworkInv
<1>4. CASE NearCloses(k)
  <2>1. Sound(CloseNear({k}))
    BY Closed DEF NetworkInv
  <2>2. Sound(conn')
    BY <1>4, <2>1 DEF NearCloses, Sound
  <2> QED BY <1>1, <1>2, <1>3, <2>2, NetworkStep
<1>5. CASE NearClosed(k)
  <2> DEFINE r == [conn[k] EXCEPT !.near = "closed", !.toDownloader = <<>>, !.rx = None]
  <2>1. <<>> \in Seq(Message) /\ <<>> \in Seq(Answer(k[1]))
    OBVIOUS
  <2>2. r \in Connection /\ r.toDownloader \in Seq(Answer(k[1]))
    BY <2>1 DEF NetworkInv, Sound, Connection
  <2>3. Sound([conn EXCEPT ![k] = r])
    <3> HIDE DEF r
    <3> QED BY <2>2, Replace DEF NetworkInv
  <2>4. conn' = [conn EXCEPT ![k] = r]
    BY <1>5 DEF NearClosed, NetworkInv, Sound
  <2>5. Sound(conn')
    BY <2>3, <2>4 DEF Sound
  <2> QED BY <1>1, <1>2, <1>3, <2>5, NetworkStep
<1> QED BY <1>4, <1>5

\* FarCloses and FarClosed keep ExchangeInv.
LEMMA FarStep ==
    ASSUME ExchangeInv, NEW k \in Attempt, FarCloses(k) \/ FarClosed(k)
    PROVE  ExchangeInv'
<1> USE DEF ExchangeInv
<1>1. UNCHANGED <<download, attempts, pcs, fetching>>
  BY DEF FarCloses, FarClosed
<1>2. SeedingType' /\ MapInv'
  BY <1>1, MapsAlone DEF FarCloses, FarClosed, Drop, SeedingType
<1>3. drops' \in 0..MaxDrops
  BY ExchangeAssumption DEF FarCloses, FarClosed, NetworkInv
<1>4. Sound(conn')
  <2>1. PICK f \in {"closing", "closed"} :
           conn' = [conn EXCEPT ![k].far = f, ![k].toSeeder = <<>>]
    BY DEF FarCloses, FarClosed
  <2> DEFINE r == [conn[k] EXCEPT !.far = f, !.toSeeder = <<>>]
  <2>2. <<>> \in Seq(Message)
    OBVIOUS
  <2>3. r \in Connection /\ r.toDownloader = conn[k].toDownloader
    BY <2>2 DEF NetworkInv, Sound, Connection
  <2>4. Sound([conn EXCEPT ![k] = r])
    <3> HIDE DEF r
    <3> QED BY <2>3, Replace DEF NetworkInv, Sound
  <2>5. conn' = [conn EXCEPT ![k] = r]
    BY <2>1 DEF NetworkInv, Sound
  <2> QED BY <2>4, <2>5 DEF Sound
<1> QED BY <1>1, <1>2, <1>3, <1>4, NetworkStep DEF NetworkInv

\* GetError keeps ExchangeInv.
LEMMA GetErrorStep ==
    ASSUME ExchangeInv, NEW k \in Attempt, GetError(k)
    PROVE  ExchangeInv'
<1> USE DEF ExchangeInv
<1>1. AttemptsType' /\ PayInv' /\ SeedingType' /\ MapInv'
  BY AttemptsAlone, SeedingAlone, MapsAlone DEF GetError, seeding
<1>2. loop' \in Loop /\ LoopInv'
  <2>1. CASE UNCHANGED loop
    BY <2>1 DEF GetError, attempts, DownloadType, LoopInv, Current
  <2>2. CASE loop.at = "waiting" /\ Abandon
    BY <2>2, Abandoned DEF DownloadType
  <2> QED BY <2>1, <2>2 DEF GetError, Listening
<1>3. Sound(conn')
  BY Taken DEF GetError, Receives, NetworkInv, Sound
<1> QED BY <1>1, <1>2, <1>3, LoopMoves DEF GetError, attempts, DownloadType, NetworkInv

\* GetPaymentRequired: the demand came from the seeder of the running attempt.
LEMMA GetPaymentRequiredStep ==
    ASSUME ExchangeInv, NEW k \in Attempt, GetPaymentRequired(k)
    PROVE  ExchangeInv'
<1> USE DEF ExchangeInv
<1> DEFINE m == Head(conn[k].toDownloader)
<1>1. SeedingType' /\ MapInv' /\ UNCHANGED <<download, pcs, drops, used, paid, saving>>
  BY SeedingAlone, MapsAlone DEF GetPaymentRequired, seeding
<1>2. Sound(Rest(k)) /\ m \in Answer(k[1]) /\ m.type = "payment-required"
  BY Taken DEF GetPaymentRequired, Receives, NetworkInv
<1>3. m.chunk \in Holds[k[1]]
  BY <1>2 DEF Answer
<1>4. Sound(conn')
  BY <1>2 DEF GetPaymentRequired, Sound
<1>5. CASE UNCHANGED payment
  BY <1>1, <1>4, <1>5, NetworkStep, AttemptsAlone DEF NetworkInv, attempts
<1>6. CASE /\ Listening(k) /\ m.chunk = loop.chunk
           /\ payment' = [payment EXCEPT ![Current] = "signing"]
  <2>1. /\ Current \in Attempt /\ used[Current] = k /\ Current[2] \in Holds[Current[1]]
    BY <1>3, <1>6, Attempts DEF Listening, LoopInv, Current
  <2>2. AttemptsType' /\ PayInv'
    <3>1. AttemptsType'
      BY <1>1, <1>6, <2>1 DEF AttemptsType
    <3>2. PayInv'
      BY <1>1, <1>6, <2>1 DEF AttemptsType, PayInv, PaidOnlyForHeld
    <3> QED BY <3>1, <3>2
  <2>3. DownloadType' /\ LoopInv' /\ OnlyGenuine'
    BY <1>1 DEF download, DownloadType, LoopInv, Current, OnlyGenuine
  <2>4. NetworkInv'
    BY <1>1, <1>4 DEF NetworkInv
  <2> QED BY <1>1, <2>2, <2>3, <2>4
<1> QED BY <1>5, <1>6 DEF GetPaymentRequired

\* PaymentConfirmed keeps ExchangeInv.
LEMMA PaymentConfirmedStep ==
    ASSUME ExchangeInv, NEW a \in Attempt, PaymentConfirmed(a)
    PROVE  ExchangeInv'
<1> USE DEF ExchangeInv
<1>1. SeedingType' /\ MapInv'
  BY SeedingAlone, MapsAlone DEF PaymentConfirmed, seeding
<1>2. used[a] \in Attempt /\ a[2] \in Holds[a[1]]
  BY DEF PaymentConfirmed, PayInv
<1>3. AttemptsType'
  BY DEF PaymentConfirmed, AttemptsType
<1>4. PayInv'
  BY <1>2 DEF PaymentConfirmed, AttemptsType, PayInv, PaidOnlyForHeld
<1>5. NetworkInv'
  <2>1. [type |-> "payment-proof", tx |-> a] \in Message
    BY DEF Message
  <2>2. Sound(ToSeeder(conn, used[a], [type |-> "payment-proof", tx |-> a]))
    BY <1>2, <2>1, SendUp DEF NetworkInv
  <2> QED BY <2>2 DEF PaymentConfirmed, NetworkInv
<1>6. DownloadType' /\ LoopInv' /\ OnlyGenuine'
  BY DEF PaymentConfirmed, download, DownloadType, LoopInv, Current, OnlyGenuine
<1> QED BY <1>1, <1>3, <1>4, <1>5, <1>6

\* fail() of an attempt keeps the loop in order.
LEMMA Failed ==
    ASSUME DownloadType, LoopInv, NEW a \in Attempt, Fail(a), UNCHANGED used
    PROVE  loop' \in Loop /\ LoopInv'
<1>1. CASE UNCHANGED loop
  BY <1>1 DEF DownloadType, LoopInv, Current
<1>2. CASE Active(a) /\ Abandon
  BY <1>2, Abandoned DEF Active, DownloadType
<1> QED BY <1>1, <1>2 DEF Fail

\* PaymentFails keeps ExchangeInv.
LEMMA PaymentFailsStep ==
    ASSUME ExchangeInv, NEW a \in Attempt, PaymentFails(a)
    PROVE  ExchangeInv'
<1> USE DEF ExchangeInv
<1>1. NetworkInv' /\ SeedingType' /\ MapInv'
  BY NetworkAlone, SeedingAlone, MapsAlone DEF PaymentFails, network, seeding
<1>2. loop' \in Loop /\ LoopInv'
  BY Failed DEF PaymentFails
<1>3. AttemptsType'
  BY DEF PaymentFails, AttemptsType
<1>4. PayInv'
  BY DEF PaymentFails, AttemptsType, PayInv, PaidOnlyForHeld
<1>5. DownloadType' /\ OnlyGenuine'
  BY <1>2 DEF PaymentFails, DownloadType, OnlyGenuine
<1> QED BY <1>1, <1>2, <1>3, <1>4, <1>5

\* GetMeta keeps ExchangeInv.
LEMMA GetMetaStep ==
    ASSUME ExchangeInv, NEW k \in Attempt, GetMeta(k)
    PROVE  ExchangeInv'
<1> USE DEF ExchangeInv
<1> DEFINE m == Head(conn[k].toDownloader)
           rx == [chunk |-> m.chunk, got |-> 0, pure |-> TRUE]
           c == Rest(k)
           r == [c[k] EXCEPT !.rx = rx]
<1>1. SeedingType' /\ MapInv' /\ UNCHANGED <<download, pcs, drops, attempts>>
  BY SeedingAlone, MapsAlone DEF GetMeta, seeding
<1>2. Sound(c) /\ m \in Message /\ m.type = "chunk-data"
  BY Taken DEF GetMeta, Receives, NetworkInv
<1>3. rx \in Reassembly
  BY <1>2, Messages, ExchangeAssumption DEF Reassembly
<1>4. r \in Connection /\ r.toDownloader \in Seq(Answer(k[1]))
  <2> HIDE DEF rx, c
  <2> QED BY <1>2, <1>3 DEF Sound, Connection
<1>5. Sound([c EXCEPT ![k] = r])
  <2> HIDE DEF c, r
  <2> QED BY <1>2, <1>4, Replace
<1>6. conn' = [c EXCEPT ![k] = r]
  <2>1. conn' = [c EXCEPT ![k].rx = rx]
    BY DEF GetMeta
  <2> HIDE DEF c, rx
  <2> QED BY <1>2, <2>1 DEF Sound
<1>7. Sound(conn')
  BY <1>5, <1>6 DEF Sound
<1> QED BY <1>1, <1>7, NetworkStep DEF NetworkInv

\* GetSlice keeps ExchangeInv.
LEMMA GetSliceStep ==
    ASSUME ExchangeInv, NEW k \in Attempt, GetSlice(k)
    PROVE  ExchangeInv'
<1> USE DEF ExchangeInv
<1> DEFINE m == Head(conn[k].toDownloader)
           rx == conn[k].rx
           now == [rx EXCEPT !.got = @ + 1, !.pure = @ /\ m.chunk = rx.chunk /\ m.index = rx.got]
           whole == rx # None /\ now.got = NumSlices
           c == Rest(k)
           next == IF rx = None \/ whole THEN None ELSE now
           r == [c[k] EXCEPT !.rx = next]
<1>1. SeedingType' /\ MapInv' /\ UNCHANGED <<download, pcs, drops, used, payment, paid>>
  BY SeedingAlone, MapsAlone DEF GetSlice, seeding
<1>2. Sound(c)
  BY Taken DEF GetSlice, Receives, NetworkInv
<1>3. next \in Reassembly \cup {None}
  <2>1. rx \in Reassembly \cup {None}
    BY DEF NetworkInv, Sound, Connection
  <2>2. CASE rx \in Reassembly /\ ~whole
    <3>1. /\ rx \in [chunk : Chunk, got : 0..(NumSlices - 1), pure : BOOLEAN]
          /\ rx # None
      BY <2>2, Nothing DEF Reassembly
    <3> HIDE DEF rx
    <3> DEFINE got == rx.got + 1
               pure == rx.pure /\ m.chunk = rx.chunk /\ m.index = rx.got
    <3>2. now = [rx EXCEPT !.got = got, !.pure = pure] /\ now.got = got
      BY <3>1
    <3>3. got \in 0..(NumSlices - 1)
      <4> HIDE DEF now
      <4> QED BY <2>2, <3>1, <3>2, ExchangeAssumption
    <3>4. pure \in BOOLEAN
      BY <3>1
    <3> HIDE DEF now, got, pure
    <3>5. now \in Reassembly
      BY <3>1, <3>2, <3>3, <3>4 DEF Reassembly
    <3> QED BY <2>2, <3>5
  <2> QED BY <2>1, <2>2
<1>4. r \in Connection /\ r.toDownloader \in Seq(Answer(k[1]))
  <2> HIDE DEF next, c
  <2> QED BY <1>2, <1>3 DEF Sound, Connection
<1>5. Sound([c EXCEPT ![k] = r])
  <2> HIDE DEF c, r
  <2> QED BY <1>2, <1>4, Replace
<1>6. conn' = [c EXCEPT ![k] = r]
  <2>1. conn' = [c EXCEPT ![k].rx = next]
    BY DEF GetSlice
  <2> HIDE DEF c, next
  <2> QED BY <1>2, <2>1 DEF Sound
<1>7. NetworkInv'
  BY <1>1, <1>5, <1>6 DEF NetworkInv, Sound
<1>8. AttemptsType'
  <2>1. CASE UNCHANGED saving
    BY <1>1, <2>1 DEF AttemptsType
  <2>2. CASE /\ Listening(k)
             /\ saving' = [saving EXCEPT ![Current] = @ \cup {IF now.pure THEN "genuine" ELSE "garbled"}]
    <3>1. Current \in Attempt
      BY <2>2, Attempts DEF Listening, LoopInv, Current
    <3> HIDE DEF now
    <3> QED BY <1>1, <2>2, <3>1 DEF AttemptsType
  <2>3. UNCHANGED saving \/ (/\ Listening(k)
             /\ saving' = [saving EXCEPT ![Current] = @ \cup {IF now.pure THEN "genuine" ELSE "garbled"}])
    BY DEF GetSlice
  <2> QED BY <2>1, <2>2, <2>3
<1> QED BY <1>1, <1>7, <1>8, DownloadAlone

\* Stored keeps ExchangeInv.
LEMMA StoredStep ==
    ASSUME ExchangeInv, NEW a \in Attempt, Stored(a)
    PROVE  ExchangeInv'
<1> USE DEF ExchangeInv
<1>1. NetworkInv' /\ SeedingType' /\ MapInv'
  BY NetworkAlone, SeedingAlone, MapsAlone DEF Stored, network, seeding
<1>2. AttemptsType' /\ PayInv'
  BY DEF Stored, AttemptsType, PayInv, PaidOnlyForHeld
<1>3. /\ stored' = [stored EXCEPT ![a[2]] = "genuine"]
      /\ a[2] \in Chunk /\ a[2] \in Nat /\ UNCHANGED <<cancelled, used>>
      /\ stored \in [Chunk -> {"nothing", "genuine"}]
      /\ stored' \in [Chunk -> {"nothing", "genuine"}]
  BY Attempts DEF Stored, DownloadType, OnlyGenuine, Chunk
<1>4. CASE held' = held \cup {a[2]} /\ Advance(held', a[2] + 1, stored')
  <2>1. /\ loop' \in Loop /\ LoopInv'
        /\ status' \in {"running", "complete", "error", "idle"}
        /\ status' = "complete" => status = "complete" \/ \A j \in Chunk : stored'[j] = "genuine"
    BY <1>3, <1>4, Advanced DEF Advance
  <2>2. DownloadType'
    BY <1>3, <1>4, <2>1 DEF DownloadType
  <2>3. OnlyGenuine'
    BY <1>3, <1>4, <2>1 DEF OnlyGenuine
  <2> QED BY <1>1, <1>2, <2>1, <2>2, <2>3
<1>5. CASE UNCHANGED <<held, loop, status>>
  <2>1. DownloadType' /\ OnlyGenuine'
    BY <1>3, <1>5 DEF DownloadType, OnlyGenuine
  <2>2. LoopInv'
    BY <1>3, <1>5 DEF LoopInv, Current
  <2> QED BY <1>1, <1>2, <2>1, <2>2
<1> QED BY <1>4, <1>5 DEF Stored

\* NotStored keeps ExchangeInv.
LEMMA NotStoredStep ==
    ASSUME ExchangeInv, NEW a \in Attempt, NotStored(a)
    PROVE  ExchangeInv'
<1> USE DEF ExchangeInv
<1>1. NetworkInv' /\ SeedingType' /\ MapInv'
  BY NetworkAlone, SeedingAlone, MapsAlone DEF NotStored, network, seeding
<1>2. AttemptsType' /\ PayInv'
  BY DEF NotStored, AttemptsType, PayInv, PaidOnlyForHeld
<1>3. loop' \in Loop /\ LoopInv'
  BY Failed DEF NotStored
<1> QED BY <1>1, <1>2, <1>3, LoopMoves DEF NotStored, DownloadType

\* What a step of the seeder that changes one channel and its own state must
\* see to.
LEMMA SeederStep ==
    ASSUME ExchangeInv, UNCHANGED <<download, pcs, drops, attempts>>, Sound(conn'),
           SeedingType', \A a \in Attempt : fetching'[a] # None => fetching'[a][1] = a[1]
    PROVE  ExchangeInv'
<1> USE DEF ExchangeInv
<1>1. MapInv'
  BY DEF MapInv
<1> QED BY <1>1, NetworkStep DEF NetworkInv

\* GetRequest keeps ExchangeInv.
LEMMA GetRequestStep ==
    ASSUME ExchangeInv, NEW k \in Attempt, GetRequest(k)
    PROVE  ExchangeInv'
<1> USE DEF ExchangeInv
<1> DEFINE m == Head(conn[k].toSeeder)
           a == <<k[1], m.chunk>>
<1>1. Sound(Handled(k)) /\ m \in Message /\ m.type = "request-chunk"
  BY TakenUp DEF GetRequest, Gets, NetworkInv
<1>2. a \in Attempt /\ a[1] = k[1]
  BY <1>1, Messages, Attempts
<1>3. fetching' = [fetching EXCEPT ![a] = k] /\ conn' = Handled(k)
  BY DEF GetRequest
<1>4. SeedingType'
  <2> HIDE DEF a
  <2> QED BY ZenonT(40), <1>2, <1>3 DEF GetRequest, SeedingType
<1>5. \A b \in Attempt : fetching'[b] # None => fetching'[b][1] = b[1]
  <2> HIDE DEF a
  <2> QED BY <1>2, <1>3 DEF MapInv, SeedingType
<1>6. Sound(conn')
  BY <1>1, <1>3 DEF Sound
<1> QED BY <1>4, <1>5, <1>6, SeederStep DEF GetRequest

\* Fetched and NotFetched keep ExchangeInv.
LEMMA FetchedStep ==
    ASSUME ExchangeInv, NEW a \in Attempt, Fetched(a) \/ NotFetched(a)
    PROVE  ExchangeInv'
<1> USE DEF ExchangeInv
<1>1. a[1] \in Seeder /\ a[2] \in Chunk /\ fetching[a] \in Attempt /\ fetching[a][1] = a[1]
  BY Attempts DEF Fetched, NotFetched, SeedingType, MapInv
<1>2. SeedingType'
  BY <1>1 DEF Fetched, NotFetched, SeedingType
<1>3. \A b \in Attempt : fetching'[b] # None => fetching'[b][1] = b[1]
  BY DEF Fetched, NotFetched, SeedingType, MapInv
<1>4. PICK m \in Answer(a[1]) : conn' = ToDownloader(conn, fetching[a], m)
  <2>1. CASE Fetched(a)
    <3>1. a[2] \in Chunk \cap Holds[a[1]]
      BY <1>1, <2>1 DEF Fetched
    <3> QED BY <1>1, <2>1, <3>1, Answers DEF Fetched
  <2>2. CASE NotFetched(a)
    BY <1>1, <2>2, Answers DEF NotFetched
  <2> QED BY <2>1, <2>2
<1>5. Sound(ToDownloader(conn, fetching[a], m))
  BY <1>1, SendDown DEF NetworkInv
<1>6. Sound(conn')
  BY <1>4, <1>5 DEF Sound
<1> QED BY <1>2, <1>3, <1>6, SeederStep DEF Fetched, NotFetched

\* GetProof keeps ExchangeInv.
LEMMA GetProofStep ==
    ASSUME ExchangeInv, NEW k \in Attempt, GetProof(k)
    PROVE  ExchangeInv'
<1> USE DEF ExchangeInv
<1> DEFINE tx == Head(conn[k].toSeeder).tx
<1>1. Sound(Handled(k)) /\ tx \in Attempt /\ k[1] \in Seeder
  BY TakenUp, Messages, Attempts DEF GetProof, Gets, NetworkInv
<1>2. SeedingType'
  <2>1. UNCHANGED <<answering, pending, fetching, streaming>>
    BY DEF GetProof
  <2>2. CASE refused' = refused \cup {tx} /\ UNCHANGED verifying
    BY <1>1, <2>1, <2>2 DEF SeedingType
  <2>3. CASE /\ pending[k[1]] # None
             /\ verifying' = [verifying EXCEPT ![tx] = [conn |-> k, chunk |-> pending[k[1]]]]
             /\ UNCHANGED refused
    <3>1. [conn |-> k, chunk |-> pending[k[1]]] \in [conn : Attempt, chunk : Chunk]
      BY <1>1, <2>3 DEF SeedingType
    <3> HIDE DEF tx
    <3> QED BY <1>1, <2>1, <2>3, <3>1 DEF SeedingType
  <2> QED BY <2>2, <2>3 DEF GetProof
<1>3. Sound(conn')
  <2>1. Sound(ToDownloader(Handled(k), k, [type |-> "error"]))
    BY <1>1, Answers, SendDown
  <2> QED BY <1>1, <2>1 DEF GetProof, Sound
<1> QED BY <1>2, <1>3, SeederStep DEF GetProof, MapInv

\* Verified keeps ExchangeInv.
LEMMA VerifiedStep ==
    ASSUME ExchangeInv, NEW a \in Attempt, Verified(a)
    PROVE  ExchangeInv'
<1> USE DEF ExchangeInv
<1> DEFINE v == verifying[a]
<1>1. /\ v.conn \in Attempt /\ v.conn[1] \in Seeder /\ v.chunk \in Chunk
      /\ a[1] \in Seeder
  BY Attempts DEF Verified, SeedingType
<1>2. SeedingType'
  <2>1. /\ pending' = [pending EXCEPT ![a[1]] = None]
        /\ verifying' = [verifying EXCEPT ![a] = None]
        /\ UNCHANGED <<answering, fetching, refused>>
    BY DEF Verified
  <2>2. streaming' \in [Attempt -> [conn : Attempt, chunk : Chunk,
                                    next : 0..(NumSlices - 1)] \cup {None}]
    <3>1. [conn |-> v.conn, chunk |-> v.chunk, next |-> 0]
             \in [conn : Attempt, chunk : Chunk, next : 0..(NumSlices - 1)]
      BY <1>1, ExchangeAssumption
    <3>2. UNCHANGED streaming \/
          streaming' = [streaming EXCEPT ![a] = [conn |-> v.conn, chunk |-> v.chunk, next |-> 0]]
      BY DEF Verified
    <3> HIDE DEF v
    <3> QED BY <3>1, <3>2 DEF SeedingType
  <2> QED BY <1>1, <2>1, <2>2 DEF SeedingType
<1>3. Sound(conn')
  <2>1. Sound(ToDownloader(conn, v.conn, [type |-> "chunk-data", chunk |-> v.chunk]))
    BY <1>1, Answers, SendDown DEF NetworkInv
  <2>2. UNCHANGED conn \/
        conn' = ToDownloader(conn, v.conn, [type |-> "chunk-data", chunk |-> v.chunk])
    BY DEF Verified
  <2> QED BY <2>1, <2>2 DEF Sound, NetworkInv
<1> QED BY <1>2, <1>3, SeederStep DEF Verified, MapInv

\* NotVerified keeps ExchangeInv.
LEMMA NotVerifiedStep ==
    ASSUME ExchangeInv, NEW a \in Attempt, NotVerified(a)
    PROVE  ExchangeInv'
<1> USE DEF ExchangeInv
<1>1. verifying[a].conn \in Attempt /\ verifying[a].conn[1] \in Seeder
  BY Attempts DEF NotVerified, SeedingType
<1>2. SeedingType'
  BY DEF NotVerified, SeedingType
<1>3. Sound(ToDownloader(conn, verifying[a].conn, [type |-> "error"]))
  BY <1>1, Answers, SendDown DEF NetworkInv
<1>4. Sound(conn')
  BY <1>3 DEF NotVerified, Sound
<1> QED BY <1>2, <1>4, SeederStep DEF NotVerified, MapInv

\* StreamSlice and StreamAborts keep ExchangeInv.
LEMMA StreamStep ==
    ASSUME ExchangeInv, NEW a \in Attempt, StreamSlice(a) \/ StreamAborts(a)
    PROVE  ExchangeInv'
<1> USE DEF ExchangeInv
<1> DEFINE r == streaming[a]
           Stream == [conn : Attempt, chunk : Chunk, next : 0..(NumSlices - 1)]
<1>1. r \in Stream /\ r.conn[1] \in Seeder
  BY Attempts DEF StreamSlice, StreamAborts, SeedingType
<1>2. SeedingType'
  <2>1. UNCHANGED <<answering, pending, fetching, verifying, refused>>
    BY DEF StreamSlice, StreamAborts
  <2>2. PICK q : streaming' = [streaming EXCEPT ![a] = q] /\ (q = None \/ q \in Stream)
    <3>1. CASE StreamAborts(a)
      BY <3>1 DEF StreamAborts
    <3>2. CASE StreamSlice(a)
      <4>1. CASE r.next + 1 = NumSlices
        BY <3>2, <4>1 DEF StreamSlice
      <4>2. CASE r.next + 1 # NumSlices
        <5>1. [r EXCEPT !.next = @ + 1] \in Stream
          <6>1. r.next + 1 \in 0..(NumSlices - 1)
            BY <1>1, <4>2, ExchangeAssumption
          <6> HIDE DEF r
          <6> QED BY <1>1, <6>1
        <5>2. streaming' = [streaming EXCEPT ![a] = [r EXCEPT !.next = @ + 1]]
          BY <3>2, <4>2 DEF StreamSlice
        <5> QED BY <5>1, <5>2
      <4> QED BY <4>1, <4>2
    <3> QED BY <3>1, <3>2
  <2> QED BY <2>1, <2>2 DEF SeedingType
<1>3. Sound(conn')
  <2>1. Sound(ToDownloader(conn, r.conn, [type |-> "slice", chunk |-> r.chunk, index |-> r.next]))
    BY <1>1, Answers, SendDown DEF NetworkInv
  <2>2. CASE StreamSlice(a)
    BY <2>1, <2>2 DEF StreamSlice, Sound
  <2>3. CASE StreamAborts(a)
    BY <2>3 DEF StreamAborts, network, Sound, NetworkInv
  <2> QED BY <2>2, <2>3
<1> QED BY <1>2, <1>3, SeederStep DEF StreamSlice, StreamAborts, MapInv, network

-----------------------------------------------------------------------------
(* At most one payment per attempt.  start() makes an attempt once; its    *)
(* request, the seeder's look into its storage, and the demand are one     *)
(* token that is at one place at a time, and is spent when payment begins. *)

Contains(q, m) == \E i \in DOMAIN q : q[i] = m
Once(q, m) == \A i, j \in DOMAIN q : q[i] = m /\ q[j] = m => i = j

Asks(i) == [type |-> "request-chunk", chunk |-> i]
Demands(i) == [type |-> "payment-required", chunk |-> i]

\* The attempts start() may still make.
Ahead(a) ==
    \/ loop.at = "start"
    \/ /\ loop.at \in {"choosing", "connecting", "waiting"}
       /\ \/ a[2] > loop.chunk
          \/ /\ a[2] = loop.chunk
             /\ a[1] \in loop.left
             /\ loop.at = "waiting" => a[1] # loop.seeder

\* The token of attempt a on connection k.
OneToken(a, k) ==
    /\ Once(conn[k].toSeeder, Asks(a[2]))
    /\ Once(conn[k].toDownloader, Demands(a[2]))
    /\ Contains(conn[k].toSeeder, Asks(a[2])) =>
          /\ used[a] = k
          /\ fetching[a] = None
          /\ ~Contains(conn[k].toDownloader, Demands(a[2]))
          /\ payment[a] = "none"
    /\ Contains(conn[k].toDownloader, Demands(a[2])) =>
          /\ used[a] = k
          /\ fetching[a] = None
          /\ payment[a] = "none"

TokenInv ==
    \A a \in Attempt :
        /\ Ahead(a) => used[a] = None
        /\ \A k \in Attempt : k[1] = a[1] => OneToken(a, k)
        /\ fetching[a] # None => used[a] = fetching[a] /\ payment[a] = "none"
        /\ payment[a] # "none" => used[a] # None
        /\ paid[a] = IF payment[a] = "confirmed" THEN 1 ELSE 0

\* A queue with no new message m.
Fewer(q2, q, m) == /\ Contains(q2, m) => Contains(q, m)
                   /\ Once(q, m) => Once(q2, m)

\* Connections on which nothing new is asked for or demanded.
Quiet(c2, c) ==
    \A k \in Attempt, i \in Chunk :
        /\ Fewer(c2[k].toSeeder, c[k].toSeeder, Asks(i))
        /\ Fewer(c2[k].toDownloader, c[k].toDownloader, Demands(i))

\* Sending another message than m adds no m, and sending the first m leaves one.
LEMMA QueueAppend ==
    ASSUME NEW M, NEW q \in Seq(M), NEW n \in M, NEW m
    PROVE  /\ n # m => Fewer(Append(q, n), q, m)
           /\ ~Contains(q, m) => Once(Append(q, n), m)
<1>1. /\ DOMAIN Append(q, n) = 1..(Len(q) + 1) /\ DOMAIN q = 1..Len(q) /\ Len(q) \in Nat
      /\ \A i \in 1..Len(q) : Append(q, n)[i] = q[i]
      /\ Append(q, n)[Len(q) + 1] = n
  OBVIOUS
<1> DEFINE q2 == Append(q, n)
<1> HIDE DEF q2
<1> QED BY <1>1 DEF Fewer, Contains, Once, q2

\* Taking the head adds nothing, and takes the only m.
LEMMA QueueTail ==
    ASSUME NEW M, NEW q \in Seq(M), q # <<>>, NEW m
    PROVE  /\ Fewer(Tail(q), q, m)
           /\ Once(q, m) /\ Head(q) = m => ~Contains(Tail(q), m)
<1>1. /\ DOMAIN Tail(q) = 1..(Len(q) - 1) /\ DOMAIN q = 1..Len(q) /\ Len(q) \in Nat /\ Len(q) > 0
      /\ \A i \in 1..(Len(q) - 1) : Tail(q)[i] = q[i + 1]
      /\ Head(q) = q[1]
  OBVIOUS
<1> DEFINE q2 == Tail(q)
<1> HIDE DEF q2
<1>2. ASSUME NEW i \in 1..(Len(q) - 1) PROVE i + 1 \in 1..Len(q) /\ i + 1 # 1 /\ q2[i] = q[i + 1]
  BY <1>1 DEF q2
<1>3. DOMAIN q2 = 1..(Len(q) - 1)
  BY <1>1 DEF q2
<1>4. Contains(q2, m) => Contains(q, m)
  BY <1>1, <1>2, <1>3 DEF Contains
<1>5. Once(q, m) => Once(q2, m)
  <2> SUFFICES ASSUME Once(q, m), NEW i \in 1..(Len(q) - 1), NEW j \in 1..(Len(q) - 1),
                      q2[i] = m, q2[j] = m
               PROVE  i = j
    BY <1>3 DEF Once
  <2>1. i + 1 = j + 1
    BY <1>1, <1>2 DEF Once
  <2> QED BY <2>1
<1>6. Once(q, m) /\ Head(q) = m => ~Contains(q2, m)
  <2> SUFFICES ASSUME Once(q, m), q[1] = m, NEW i \in 1..(Len(q) - 1), q2[i] = m
               PROVE  FALSE
    BY <1>1, <1>3 DEF Contains
  <2>1. i + 1 = 1
    BY <1>1, <1>2 DEF Once
  <2> QED BY <2>1
<1> QED BY <1>4, <1>5, <1>6 DEF Fewer, q2

LEMMA QueueSame == ASSUME NEW q, NEW m PROVE Fewer(q, q, m) /\ Fewer(<<>>, q, m)
BY DEF Fewer, Contains, Once

\* A change of one connection is quiet when its queues are.
LEMMA QuietOne ==
    ASSUME NEW c, Sound(c), NEW c2, NEW k \in Attempt, NEW r, c2 = [c EXCEPT ![k] = r],
           \A i \in Chunk : /\ Fewer(r.toSeeder, c[k].toSeeder, Asks(i))
                            /\ Fewer(r.toDownloader, c[k].toDownloader, Demands(i))
    PROVE  Quiet(c2, c)
<1> SUFFICES ASSUME NEW j \in Attempt, NEW i \in Chunk
             PROVE  /\ Fewer(c2[j].toSeeder, c[j].toSeeder, Asks(i))
                    /\ Fewer(c2[j].toDownloader, c[j].toDownloader, Demands(i))
  BY DEF Quiet
<1>1. CASE j = k
  BY <1>1 DEF Sound
<1>2. CASE j # k
  BY <1>2, QueueSame DEF Sound
<1> QED BY <1>1, <1>2

\* Sending the seeder anything but a request is quiet.
LEMMA QuietUp ==
    ASSUME NEW c, Sound(c), NEW k \in Attempt, NEW m \in Message, m.type # "request-chunk"
    PROVE  Quiet(ToSeeder(c, k, m), c)
<1> DEFINE q == Append(c[k].toSeeder, m)
           r == [c[k] EXCEPT !.toSeeder = q]
           c2 == [c EXCEPT ![k] = r]
<1>1. c[k] \in Connection /\ c[k].toSeeder \in Seq(Message)
  BY DEF Sound, Connection
<1>2. \A i \in Chunk : m # Asks(i)
  BY DEF Asks
<1>3. \A i \in Chunk : Fewer(q, c[k].toSeeder, Asks(i))
  BY <1>1, <1>2, QueueAppend
<1>4. r.toSeeder = q /\ r.toDownloader = c[k].toDownloader
  <2> HIDE DEF q
  <2> QED BY <1>1 DEF Connection
<1>5. Quiet(c2, c)
  <2> HIDE DEF r, q
  <2> QED BY <1>3, <1>4, QueueSame, QuietOne
<1>6. [c EXCEPT ![k].toSeeder = Append(@, m)] = c2
  BY DEF Sound
<1>7. Quiet(c, c)
  BY QueueSame DEF Quiet
<1> QED BY <1>5, <1>6, <1>7 DEF ToSeeder

\* Sending the downloader anything but a demand is quiet.
LEMMA QuietDown ==
    ASSUME NEW c, Sound(c), NEW k \in Attempt, NEW m \in Message, m.type # "payment-required"
    PROVE  Quiet(ToDownloader(c, k, m), c)
<1> DEFINE q == Append(c[k].toDownloader, m)
           r == [c[k] EXCEPT !.toDownloader = q]
           c2 == [c EXCEPT ![k] = r]
<1>1. c[k] \in Connection /\ c[k].toDownloader \in Seq(Message)
  BY DEF Sound, Connection
<1>2. \A i \in Chunk : m # Demands(i)
  BY DEF Demands
<1>3. \A i \in Chunk : Fewer(q, c[k].toDownloader, Demands(i))
  BY <1>1, <1>2, QueueAppend
<1>4. r.toDownloader = q /\ r.toSeeder = c[k].toSeeder
  <2> HIDE DEF q
  <2> QED BY <1>1 DEF Connection
<1>5. Quiet(c2, c)
  <2> HIDE DEF r, q
  <2> QED BY <1>3, <1>4, QueueSame, QuietOne
<1>6. [c EXCEPT ![k].toDownloader = Append(@, m)] = c2
  BY DEF Sound
<1>7. Quiet(c, c)
  BY QueueSame DEF Quiet
<1> QED BY <1>5, <1>6, <1>7 DEF ToDownloader

\* So is taking a message, closing, and a change of anything else.
LEMMA QuietTaken ==
    ASSUME Sound(conn), NEW k \in Attempt
    PROVE  /\ conn[k].toDownloader # <<>> => Quiet(Rest(k), conn)
           /\ conn[k].toSeeder # <<>> => Quiet(Handled(k), conn)
<1>1. /\ conn[k] \in Connection /\ conn[k].toSeeder \in Seq(Message)
      /\ conn[k].toDownloader \in Seq(Message)
  BY DEF Sound, Connection
<1>2. ASSUME conn[k].toDownloader # <<>> PROVE Quiet(Rest(k), conn)
  <2> DEFINE q == Tail(conn[k].toDownloader)
             r == [conn[k] EXCEPT !.toDownloader = q]
  <2>1. \A i \in Chunk : Fewer(q, conn[k].toDownloader, Demands(i))
    BY <1>1, <1>2, QueueTail
  <2>2. r.toDownloader = q /\ r.toSeeder = conn[k].toSeeder
    <3> HIDE DEF q
    <3> QED BY <1>1 DEF Connection
  <2>3. Rest(k) = [conn EXCEPT ![k] = r]
    BY DEF Rest, Sound
  <2> HIDE DEF q, r
  <2> QED BY <2>1, <2>2, <2>3, QueueSame, QuietOne
<1>3. ASSUME conn[k].toSeeder # <<>> PROVE Quiet(Handled(k), conn)
  <2> DEFINE q == Tail(conn[k].toSeeder)
             r == [conn[k] EXCEPT !.toSeeder = q]
  <2>1. \A i \in Chunk : Fewer(q, conn[k].toSeeder, Asks(i))
    BY <1>1, <1>3, QueueTail
  <2>2. r.toSeeder = q /\ r.toDownloader = conn[k].toDownloader
    <3> HIDE DEF q
    <3> QED BY <1>1 DEF Connection
  <2>3. Handled(k) = [conn EXCEPT ![k] = r]
    BY DEF Handled, Sound
  <2> HIDE DEF q, r
  <2> QED BY <2>1, <2>2, <2>3, QueueSame, QuietOne
<1> QED BY <1>2, <1>3

LEMMA QuietClosed ==
    ASSUME Sound(conn), NEW ks
    PROVE  Quiet(CloseNear(ks), conn)
<1> SUFFICES ASSUME NEW k \in Attempt
             PROVE  /\ CloseNear(ks)[k].toSeeder = conn[k].toSeeder
                    /\ CloseNear(ks)[k].toDownloader \in {<<>>, conn[k].toDownloader}
  BY QueueSame DEF Quiet
<1> DEFINE r == [conn[k] EXCEPT !.near = "closing", !.toDownloader = <<>>, !.rx = None]
<1>1. conn[k] \in Connection
  BY DEF Sound
<1>2. r.toSeeder = conn[k].toSeeder /\ r.toDownloader = <<>>
  BY <1>1 DEF Connection
<1>3. CloseNear(ks)[k] = conn[k] \/ CloseNear(ks)[k] = r
  BY DEF CloseNear
<1> QED
  <2> HIDE DEF r
  <2> QED BY <1>2, <1>3

LEMMA QuietTransitive ==
    ASSUME NEW c1, NEW c2, NEW c3, Quiet(c3, c2), Quiet(c2, c1)
    PROVE  Quiet(c3, c1)
BY DEF Quiet, Fewer

LEMMA QuietSame == ASSUME NEW c PROVE Quiet(c, c)
BY QueueSame DEF Quiet

-----------------------------------------------------------------------------
(* Every action keeps TokenInv.                                            *)

\* No attempt comes to lie ahead.
Onwards == \A a \in Attempt : Ahead(a)' => Ahead(a)

\* A payment under way may end.
Pays(a) ==
    \/ payment'[a] = payment[a] /\ paid'[a] = paid[a]
    \/ payment[a] = "signing" /\ payment'[a] = "failed" /\ paid'[a] = paid[a]
    \/ payment[a] = "signing" /\ payment'[a] = "confirmed" /\ paid'[a] = paid[a] + 1

\* A step that asks and demands nothing keeps the tokens.
LEMMA QuietStep ==
    ASSUME TokenInv, UNCHANGED used, Quiet(conn', conn), Onwards,
           \A a \in Attempt : fetching'[a] \in {fetching[a], None} /\ Pays(a)
    PROVE  TokenInv'
<1> SUFFICES ASSUME NEW a \in Attempt
             PROVE  /\ Ahead(a)' => used'[a] = None
                    /\ \A k \in Attempt : k[1] = a[1] => OneToken(a, k)'
                    /\ fetching'[a] # None => used'[a] = fetching'[a] /\ payment'[a] = "none"
                    /\ payment'[a] # "none" => used'[a] # None
                    /\ paid'[a] = IF payment'[a] = "confirmed" THEN 1 ELSE 0
  BY DEF TokenInv
<1>1. Ahead(a)' => used'[a] = None
  BY DEF TokenInv, Onwards
<1>2. ASSUME NEW k \in Attempt, k[1] = a[1] PROVE OneToken(a, k)'
  <2>1. OneToken(a, k)
    BY <1>2 DEF TokenInv
  <2>2. a[2] \in Chunk
    BY Attempts
  <2>3. /\ Fewer(conn'[k].toSeeder, conn[k].toSeeder, Asks(a[2]))
        /\ Fewer(conn'[k].toDownloader, conn[k].toDownloader, Demands(a[2]))
    BY <2>2 DEF Quiet
  <2>4. payment[a] = "none" => payment'[a] = "none"
    BY DEF Pays
  <2>5. fetching[a] = None => fetching'[a] = None
    OBVIOUS
  <2>6. Once(conn'[k].toSeeder, Asks(a[2])) /\ Once(conn'[k].toDownloader, Demands(a[2]))
    BY <2>1, <2>3 DEF OneToken, Fewer
  <2>7. /\ Contains(conn'[k].toSeeder, Asks(a[2])) => Contains(conn[k].toSeeder, Asks(a[2]))
        /\ Contains(conn'[k].toDownloader, Demands(a[2]))
              => Contains(conn[k].toDownloader, Demands(a[2]))
    BY <2>3 DEF Fewer
  <2> QED BY <2>1, <2>4, <2>5, <2>6, <2>7 DEF OneToken
<1>3. fetching'[a] # None => used'[a] = fetching'[a] /\ payment'[a] = "none"
  BY DEF TokenInv, Pays
<1>4. payment'[a] # "none" => used'[a] # None
  BY DEF TokenInv, Pays
<1>5. paid'[a] = IF payment'[a] = "confirmed" THEN 1 ELSE 0
  BY DEF TokenInv, Pays
<1> QED BY <1>1, <1>2, <1>3, <1>4, <1>5

\* The same, when only the loop and the connections move.
LEMMA QuietMove ==
    ASSUME TokenInv, UNCHANGED <<used, fetching, payment, paid>>, Quiet(conn', conn), Onwards
    PROVE  TokenInv'
BY QuietStep DEF Pays

\* The loop only goes on.
LEMMA OnwardsSame == ASSUME UNCHANGED loop PROVE Onwards
BY DEF Onwards, Ahead

LEMMA OnwardsAbandon ==
    ASSUME loop \in Loop, loop.at \in {"connecting", "waiting"}, Abandon
    PROVE  Onwards
BY DEF Onwards, Ahead, Abandon, Loop

LEMMA OnwardsEnd == ASSUME NEW outcome, End(outcome) PROVE Onwards
BY DEF Onwards, Ahead, End

LEMMA OnwardsAdvance ==
    ASSUME NEW have, NEW i, NEW content, Advance(have, i, content),
           \/ loop.at = "start"
           \/ loop.at = "waiting" /\ loop.chunk \in Chunk /\ i = loop.chunk + 1
    PROVE  Onwards
<1> DEFINE missing == {j \in Chunk : j >= i /\ j \notin have}
<1>1. CASE \E outcome : End(outcome)
  BY <1>1, OnwardsEnd
<1>2. CASE \E next \in missing : loop' = [at |-> "choosing", chunk |-> next, left |-> Seeder,
                                          seeder |-> None, conn |-> None]
  <2>1. PICK next \in missing : loop' = [at |-> "choosing", chunk |-> next, left |-> Seeder,
                                         seeder |-> None, conn |-> None]
    BY <1>2
  <2>2. loop'.at = "choosing" /\ loop'.chunk = next
    BY <2>1
  <2>3. CASE loop.at = "start"
    BY <2>3 DEF Onwards, Ahead
  <2>4. CASE loop.at = "waiting" /\ loop.chunk \in Chunk /\ i = loop.chunk + 1
    <3> SUFFICES ASSUME NEW a \in Attempt, a[2] >= next PROVE Ahead(a)
      <4>1. \A a \in Attempt : a[2] \in Nat
        BY Attempts DEF Chunk
      <4>2. next \in Nat
        BY DEF Chunk
      <4> QED BY <2>2, <4>1, <4>2 DEF Onwards, Ahead
    <3>1. a[2] \in Nat /\ next \in Nat /\ loop.chunk \in Nat /\ next >= loop.chunk + 1
      BY <2>4, Attempts DEF Chunk
    <3> QED BY <2>4, <3>1 DEF Ahead
  <2> QED BY <2>3, <2>4
<1> QED BY <1>1, <1>2 DEF Advance

\* The steps of the loop that begin no attempt.
LEMMA LoopTokens ==
    ASSUME ExchangeInv, TokenInv, Start \/ NoSeeders \/ GiveUp \/ Cancel \/ ChunkTimeout
    PROVE  TokenInv'
<1> USE DEF ExchangeInv
<1>1. UNCHANGED <<used, fetching, payment, paid>>
  BY DEF Start, NoSeeders, GiveUp, Cancel, ChunkTimeout, attempts, seeding
<1>2. Quiet(conn', conn)
  BY QuietSame, QuietClosed DEF Start, NoSeeders, GiveUp, Cancel, ChunkTimeout, network, NetworkInv
<1>3. Onwards
  <2>1. CASE Start
    BY <2>1, OnwardsEnd, OnwardsAdvance DEF Start
  <2>2. CASE NoSeeders \/ GiveUp
    BY <2>2, OnwardsEnd DEF NoSeeders, GiveUp
  <2>3. CASE Cancel
    BY <2>3, OnwardsSame DEF Cancel
  <2>4. CASE ChunkTimeout
    BY <2>4, OnwardsAbandon DEF ChunkTimeout, DownloadType
  <2> QED BY <2>1, <2>2, <2>3, <2>4
<1> QED BY <1>1, <1>2, <1>3, QuietMove

\* A request on k takes attempt a from those ahead; it is the only request of a.
LEMMA Requested ==
    ASSUME ExchangeInv, TokenInv, NEW a \in Attempt, NEW k \in Attempt, k[1] = a[1],
           Ahead(a), Request(a, k), loop.at \in {"choosing", "connecting"}, a[2] = loop.chunk,
           UNCHANGED <<fetching, payment, paid>>,
           \A j \in Attempt, i \in Chunk :
              /\ j # k \/ i # a[2] => Fewer(conn'[j].toSeeder, conn[j].toSeeder, Asks(i))
              /\ Fewer(conn'[j].toDownloader, conn[j].toDownloader, Demands(i)),
           Once(conn'[k].toSeeder, Asks(a[2]))
    PROVE  TokenInv'
<1> USE DEF ExchangeInv
<1>1. /\ loop' = [loop EXCEPT !.at = "waiting", !.seeder = a[1], !.conn = k]
      /\ used' = [used EXCEPT ![a] = k]
  BY DEF Request
<1>2. used'[a] = k /\ \A b \in Attempt : b # a => used'[b] = used[b]
  BY <1>1 DEF AttemptsType
<1>3. /\ loop'.at = "waiting" /\ loop'.seeder = a[1] /\ loop'.chunk = loop.chunk
      /\ loop'.left = loop.left
  BY <1>1 DEF DownloadType, Loop
<1>4. ~Ahead(a)'
  <2>1. a[2] \in Nat
    BY Attempts DEF Chunk
  <2> QED BY <1>3, <2>1 DEF Ahead
<1>5. \A b \in Attempt : Ahead(b)' => Ahead(b)
  BY <1>3 DEF Ahead
<1>6. k # None /\ used[a] = None
  BY Nothing DEF TokenInv
<1>7. /\ fetching[a] = None /\ payment[a] = "none"
      /\ \A j \in Attempt : j[1] = a[1] =>
            /\ ~Contains(conn[j].toSeeder, Asks(a[2]))
            /\ ~Contains(conn[j].toDownloader, Demands(a[2]))
  BY <1>6, Nothing DEF TokenInv, OneToken
<1> SUFFICES ASSUME NEW b \in Attempt
             PROVE  /\ Ahead(b)' => used'[b] = None
                    /\ \A j \in Attempt : j[1] = b[1] => OneToken(b, j)'
                    /\ fetching'[b] # None => used'[b] = fetching'[b] /\ payment'[b] = "none"
                    /\ payment'[b] # "none" => used'[b] # None
                    /\ paid'[b] = IF payment'[b] = "confirmed" THEN 1 ELSE 0
  BY DEF TokenInv
<1>8. ASSUME NEW j \in Attempt, j[1] = b[1] PROVE OneToken(b, j)'
  <2>1. OneToken(b, j) /\ b[2] \in Chunk
    BY <1>8, Attempts DEF TokenInv
  <2>2. CASE b = a
    <3>1. ~Contains(conn'[j].toDownloader, Demands(a[2])) /\ Once(conn'[j].toDownloader, Demands(a[2]))
      BY <1>7, <1>8, <2>1, <2>2 DEF Fewer, OneToken
    <3>2. j # k => ~Contains(conn'[j].toSeeder, Asks(a[2])) /\ Once(conn'[j].toSeeder, Asks(a[2]))
      BY <1>7, <1>8, <2>1, <2>2 DEF Fewer, OneToken
    <3> QED BY <1>2, <1>7, <2>2, <3>1, <3>2 DEF OneToken
  <2>3. CASE b # a
    <3>1. j # k \/ b[2] # a[2]
      BY <1>8, <2>3, Attempts
    <3>2. /\ Fewer(conn'[j].toSeeder, conn[j].toSeeder, Asks(b[2]))
          /\ Fewer(conn'[j].toDownloader, conn[j].toDownloader, Demands(b[2]))
      BY <2>1, <3>1
    <3> QED BY <1>2, <2>1, <2>3, <3>2 DEF OneToken, Fewer
  <2> QED BY <2>2, <2>3
<1>9. Ahead(b)' => used'[b] = None
  BY <1>2, <1>4, <1>5 DEF TokenInv
<1>10. /\ fetching'[b] # None => used'[b] = fetching'[b] /\ payment'[b] = "none"
       /\ payment'[b] # "none" => used'[b] # None
       /\ paid'[b] = IF payment'[b] = "confirmed" THEN 1 ELSE 0
  BY <1>2, <1>6, <1>7 DEF TokenInv
<1> QED BY <1>8, <1>9, <1>10

\* Choose, on a connection that is open or on a new one.
LEMMA ChooseTokens ==
    ASSUME ExchangeInv, TokenInv, NEW s \in Seeder, Choose(s)
    PROVE  TokenInv'
<1> USE DEF ExchangeInv
<1> DEFINE a == <<s, loop.chunk>>
           k == pcs[s]
           m == Asks(loop.chunk)
<1>1. /\ a \in Attempt /\ a[1] = s /\ a[2] = loop.chunk /\ loop.chunk \in Chunk
      /\ loop.at = "choosing" /\ s \in loop.left
      /\ UNCHANGED <<fetching, payment, paid>>
  BY Attempts DEF Choose, LoopInv, seeding
<1>2. Ahead(a)
  BY <1>1 DEF Ahead
<1>3. CASE k # None /\ Request(a, k) /\ conn' = ToSeeder(conn, k, m)
  <2>1. k \in Attempt /\ k[1] = s
    BY <1>3 DEF NetworkInv, MapInv
  <2>2. conn[k] \in Connection /\ conn[k].toSeeder \in Seq(Message) /\ m \in Message
    BY <1>1, <2>1 DEF NetworkInv, Sound, Connection, Message, Asks
  <2>3. ~Contains(conn[k].toSeeder, Asks(a[2])) /\ Once(conn[k].toSeeder, Asks(a[2]))
    BY <1>1, <1>2, <2>1, Nothing DEF TokenInv, OneToken
  <2>4. CASE conn' = conn
    <3>1. Quiet(conn', conn) /\ Once(conn'[k].toSeeder, Asks(a[2]))
      BY <2>3, <2>4, QuietSame
    <3> HIDE DEF a, k, m
    <3> QED BY <1>1, <1>2, <1>3, <2>1, <3>1, Requested DEF Quiet
  <2>5. CASE conn' = [conn EXCEPT ![k].toSeeder = Append(@, m)]
    <3> DEFINE q == Append(conn[k].toSeeder, m)
               r == [conn[k] EXCEPT !.toSeeder = q]
    <3>1. r.toSeeder = q /\ r.toDownloader = conn[k].toDownloader
      <4> HIDE DEF q
      <4> QED BY <2>2 DEF Connection
    <3>2. conn' = [conn EXCEPT ![k] = r]
      BY <2>1, <2>5 DEF NetworkInv, Sound
    <3>3. \A i \in Chunk : i # a[2] => m # Asks(i)
      BY <1>1 DEF Asks
    <3>4. /\ \A i \in Chunk : i # a[2] => Fewer(q, conn[k].toSeeder, Asks(i))
          /\ Once(q, Asks(a[2]))
      BY <2>2, <2>3, <3>3, QueueAppend
    <3> HIDE DEF q, r, a, k, m
    <3>5. /\ conn'[k] = r
          /\ \A j \in Attempt : j # k => conn'[j] = conn[j]
      BY <2>1, <3>2 DEF NetworkInv, Sound
    <3>6. \A j \in Attempt, i \in Chunk :
            /\ j # k \/ i # a[2] => Fewer(conn'[j].toSeeder, conn[j].toSeeder, Asks(i))
            /\ Fewer(conn'[j].toDownloader, conn[j].toDownloader, Demands(i))
      <4> SUFFICES ASSUME NEW j \in Attempt, NEW i \in Chunk
                   PROVE  /\ j # k \/ i # a[2] =>
                                Fewer(conn'[j].toSeeder, conn[j].toSeeder, Asks(i))
                          /\ Fewer(conn'[j].toDownloader, conn[j].toDownloader, Demands(i))
        OBVIOUS
      <4>1. CASE j = k
        BY <4>1, <3>1, <3>4, <3>5, QueueSame
      <4>2. CASE j # k
        BY <4>2, <3>5, QueueSame
      <4> QED BY <4>1, <4>2
    <3>7. Once(conn'[k].toSeeder, Asks(a[2]))
      BY <3>1, <3>4, <3>5
    <3> QED BY <1>1, <1>2, <1>3, <2>1, <3>6, <3>7, Requested
  <2> QED BY <1>3, <2>4, <2>5 DEF ToSeeder
<1>4. CASE /\ loop' = [loop EXCEPT !.at = "connecting", !.seeder = s, !.conn = a]
           /\ conn' = [conn EXCEPT ![a].near = "connecting", ![a].timer = TRUE]
           /\ UNCHANGED used
  <2>1. Onwards
    BY <1>1, <1>4 DEF Onwards, Ahead, DownloadType, Loop
  <2>2. Quiet(conn', conn)
    <3> DEFINE r == [conn[a] EXCEPT !.near = "connecting", !.timer = TRUE]
    <3>1. r.toSeeder = conn[a].toSeeder /\ r.toDownloader = conn[a].toDownloader
      BY <1>1 DEF NetworkInv, Sound, Connection
    <3>2. conn' = [conn EXCEPT ![a] = r]
      <4> HIDE DEF a
      <4> QED BY <1>1, <1>4 DEF NetworkInv, Sound
    <3> HIDE DEF r, a
    <3> QED BY <1>1, <3>1, <3>2, QueueSame, QuietOne DEF NetworkInv
  <2> QED BY <1>1, <1>4, <2>1, <2>2, QuietMove
<1> QED BY <1>3, <1>4 DEF Choose, Asks

\* Opens: the request is the only message of the new connection.
LEMMA OpensTokens ==
    ASSUME ExchangeInv, TokenInv, NEW k \in Attempt, Opens(k)
    PROVE  TokenInv'
<1> USE DEF ExchangeInv
<1> DEFINE m == Asks(loop.chunk)
           q == <<m>>
           r == [conn[k] EXCEPT !.near = "open", !.far = "open", !.toSeeder = q]
<1>1. /\ loop.at = "connecting" /\ k = Current /\ loop.chunk \in Chunk
      /\ k[1] = loop.seeder /\ k[2] = loop.chunk
      /\ Request(k, k) /\ UNCHANGED <<fetching, payment, paid>>
  BY DEF Opens, LoopInv, Current
<1>2. conn' = [conn EXCEPT ![k] = r]
  BY DEF Opens, Asks, NetworkInv, Sound
<1>3. r.toSeeder = q /\ r.toDownloader = conn[k].toDownloader
  <2> HIDE DEF q
  <2> QED BY DEF NetworkInv, Sound, Connection
<1>4. \A i \in Chunk : i # k[2] => Fewer(q, conn[k].toSeeder, Asks(i))
  <2>1. \A i \in Chunk : i # k[2] => m # Asks(i)
    BY <1>1 DEF Asks
  <2>2. DOMAIN q = {1} /\ q[1] = m
    OBVIOUS
  <2> HIDE DEF q, m
  <2> QED BY <2>1, <2>2 DEF Fewer, Contains, Once
<1>5. Once(q, Asks(k[2]))
  <2>1. DOMAIN q = {1}
    OBVIOUS
  <2> QED BY <2>1 DEF Once
<1> HIDE DEF q, r, m
<1>6. conn'[k] = r /\ \A j \in Attempt : j # k => conn'[j] = conn[j]
  BY <1>2 DEF NetworkInv, Sound
<1>7. \A j \in Attempt, i \in Chunk :
        /\ j # k \/ i # k[2] => Fewer(conn'[j].toSeeder, conn[j].toSeeder, Asks(i))
        /\ Fewer(conn'[j].toDownloader, conn[j].toDownloader, Demands(i))
  <2> SUFFICES ASSUME NEW j \in Attempt, NEW i \in Chunk
               PROVE  /\ j # k \/ i # k[2] =>
                            Fewer(conn'[j].toSeeder, conn[j].toSeeder, Asks(i))
                      /\ Fewer(conn'[j].toDownloader, conn[j].toDownloader, Demands(i))
    OBVIOUS
  <2>1. CASE j = k
    BY <2>1, <1>3, <1>4, <1>6, QueueSame
  <2>2. CASE j # k
    BY <2>2, <1>6, QueueSame
  <2> QED BY <2>1, <2>2
<1>8. Once(conn'[k].toSeeder, Asks(k[2]))
  BY <1>3, <1>5, <1>6
<1>9. CASE Ahead(k)
  BY <1>1, <1>7, <1>8, <1>9, Requested
<1>10. k[1] \in loop.left
  BY <1>1 DEF LoopInv
<1> QED BY <1>1, <1>9, <1>10 DEF Ahead

\* What ends connections or an attempt asks and demands nothing.
LEMMA NetworkTokens ==
    ASSUME ExchangeInv, TokenInv, NEW k \in Attempt,
           \/ ConnectTimeout(k) \/ NearCloses(k) \/ NearClosed(k)
           \/ FarCloses(k) \/ FarClosed(k)
    PROVE  TokenInv'
<1> USE DEF ExchangeInv
<1>1. UNCHANGED <<used, fetching, payment, paid>>
  BY DEF ConnectTimeout, NearCloses, NearClosed, FarCloses, FarClosed, attempts, seeding
<1>2. Onwards
  BY OnwardsSame, OnwardsAbandon
     DEF ConnectTimeout, NearCloses, NearClosed, FarCloses, FarClosed, download, DownloadType
<1>3. Quiet(conn', conn)
  <2>1. CASE NearCloses(k)
    BY <2>1, QuietClosed DEF NearCloses, NetworkInv
  <2>2. CASE ConnectTimeout(k)
    <3>1. PICK c \in {conn, CloseNear({k})} : conn' = [c EXCEPT ![k].timer = FALSE]
      BY <2>2 DEF ConnectTimeout
    <3>2. Sound(c) /\ Quiet(c, conn)
      BY Closed, QuietClosed, QuietSame DEF NetworkInv
    <3> DEFINE r == [c[k] EXCEPT !.timer = FALSE]
    <3>3. r.toSeeder = c[k].toSeeder /\ r.toDownloader = c[k].toDownloader
      BY <3>2 DEF Sound, Connection
    <3>4. conn' = [c EXCEPT ![k] = r]
      BY <3>1, <3>2 DEF Sound
    <3>5. Quiet(conn', c)
      <4> HIDE DEF r
      <4> QED BY <3>2, <3>3, <3>4, QueueSame, QuietOne
    <3> QED BY <3>2, <3>5, QuietTransitive
  <2>3. CASE NearClosed(k)
    <3> DEFINE r == [conn[k] EXCEPT !.near = "closed", !.toDownloader = <<>>, !.rx = None]
    <3>1. r.toSeeder = conn[k].toSeeder /\ r.toDownloader = <<>>
      BY DEF NetworkInv, Sound, Connection
    <3>2. conn' = [conn EXCEPT ![k] = r]
      BY <2>3 DEF NearClosed, NetworkInv, Sound
    <3> HIDE DEF r
    <3>3. \A i \in Chunk : /\ Fewer(r.toSeeder, conn[k].toSeeder, Asks(i))
                           /\ Fewer(r.toDownloader, conn[k].toDownloader, Demands(i))
      BY <3>1, QueueSame
    <3> QED BY <3>2, <3>3, QuietOne DEF NetworkInv
  <2>4. CASE FarCloses(k) \/ FarClosed(k)
    <3>1. PICK f \in {"closing", "closed"} :
             conn' = [conn EXCEPT ![k].far = f, ![k].toSeeder = <<>>]
      BY <2>4 DEF FarCloses, FarClosed
    <3> DEFINE r == [conn[k] EXCEPT !.far = f, !.toSeeder = <<>>]
    <3>2. r.toSeeder = <<>> /\ r.toDownloader = conn[k].toDownloader
      BY DEF NetworkInv, Sound, Connection
    <3>3. conn' = [conn EXCEPT ![k] = r]
      BY <3>1 DEF NetworkInv, Sound
    <3> HIDE DEF r
    <3>4. \A i \in Chunk : /\ Fewer(r.toSeeder, conn[k].toSeeder, Asks(i))
                           /\ Fewer(r.toDownloader, conn[k].toDownloader, Demands(i))
      BY <3>2, QueueSame
    <3> QED BY <3>3, <3>4, QuietOne DEF NetworkInv
  <2> QED BY <2>1, <2>2, <2>3, <2>4
<1> QED BY <1>1, <1>2, <1>3, QuietMove

\* Nor do the answers that are no demand.
LEMMA AnswerTokens ==
    ASSUME ExchangeInv, TokenInv, NEW k \in Attempt, GetError(k) \/ GetMeta(k) \/ GetSlice(k)
    PROVE  TokenInv'
<1> USE DEF ExchangeInv
<1>1. UNCHANGED <<used, fetching, payment, paid>>
  BY DEF GetError, GetMeta, GetSlice, attempts, seeding
<1>2. Onwards
  BY OnwardsSame, OnwardsAbandon
     DEF GetError, GetMeta, GetSlice, Listening, download, DownloadType
<1>3. Sound(Rest(k)) /\ Quiet(Rest(k), conn)
  BY Taken, QuietTaken DEF GetError, GetMeta, GetSlice, Receives, NetworkInv
<1>4. CASE conn' = Rest(k)
  BY <1>1, <1>2, <1>3, <1>4, QuietMove
<1>5. ASSUME NEW x, conn' = [Rest(k) EXCEPT ![k].rx = x] PROVE TokenInv'
  <2> DEFINE c == Rest(k)
             r == [c[k] EXCEPT !.rx = x]
  <2> HIDE DEF c
  <2>1. r.toSeeder = c[k].toSeeder /\ r.toDownloader = c[k].toDownloader
    BY <1>3 DEF Sound, Connection, c
  <2>2. conn' = [c EXCEPT ![k] = r]
    BY <1>3, <1>5 DEF Sound, c
  <2>3. Sound(c) /\ Quiet(c, conn)
    BY <1>3 DEF c
  <2>4. Quiet(conn', c)
    <3> HIDE DEF r
    <3> QED BY <2>1, <2>2, <2>3, QueueSame, QuietOne
  <2> QED BY <1>1, <1>2, <2>3, <2>4, QuietTransitive, QuietMove
<1> QED BY <1>4, <1>5 DEF GetError, GetMeta, GetSlice

\* A demand that is heard is spent.
LEMMA DemandTokens ==
    ASSUME ExchangeInv, TokenInv, NEW k \in Attempt, GetPaymentRequired(k)
    PROVE  TokenInv'
<1> USE DEF ExchangeInv
<1> DEFINE m == Head(conn[k].toDownloader)
           a == Current
<1>1. UNCHANGED <<used, fetching, paid, loop>> /\ conn' = Rest(k)
  BY DEF GetPaymentRequired, download, seeding
<1>2. Onwards /\ Quiet(conn', conn)
  BY <1>1, OnwardsSame, QuietTaken DEF GetPaymentRequired, Receives, NetworkInv
<1>3. CASE UNCHANGED payment
  BY <1>1, <1>2, <1>3, QuietMove
<1>4. CASE /\ Listening(k) /\ m.chunk = loop.chunk
           /\ payment' = [payment EXCEPT ![a] = "signing"]
  <2>1. /\ a \in Attempt /\ a[1] = k[1] /\ a[2] = loop.chunk /\ loop.chunk \in Chunk
    BY <1>4, Attempts DEF Listening, LoopInv, Current
  <2>2. conn[k].toDownloader \in Seq(Message) /\ conn[k].toDownloader # <<>>
        /\ m \in Message /\ m.type = "payment-required"
    BY Taken DEF GetPaymentRequired, Receives, NetworkInv, Sound, Connection
  <2>3. m = Demands(a[2])
    BY <1>4, <2>1, <2>2 DEF Message, Demands
  <2>4. Contains(conn[k].toDownloader, Demands(a[2]))
    <3>1. 1 \in DOMAIN conn[k].toDownloader /\ conn[k].toDownloader[1] = m
      BY <2>2
    <3> QED BY <2>3, <3>1 DEF Contains
  <2>5. OneToken(a, k)
    BY <2>1 DEF TokenInv
  <2>6. used[a] = k /\ fetching[a] = None /\ payment[a] = "none"
        /\ ~Contains(conn[k].toSeeder, Asks(a[2]))
    BY <2>4, <2>5 DEF OneToken
  <2>7. ~Contains(conn'[k].toDownloader, Demands(a[2]))
    <3>1. Once(conn[k].toDownloader, Demands(a[2]))
      BY <2>5 DEF OneToken
    <3>2. conn'[k].toDownloader = Tail(conn[k].toDownloader)
      BY <1>1 DEF Rest, NetworkInv, Sound, Connection
    <3> HIDE DEF a, m
    <3> QED BY <2>2, <2>3, <3>1, <3>2, QueueTail DEF m
  <2>8. \A j \in Attempt : j[1] = a[1] =>
           /\ ~Contains(conn'[j].toSeeder, Asks(a[2]))
           /\ ~Contains(conn'[j].toDownloader, Demands(a[2]))
    <3> SUFFICES ASSUME NEW j \in Attempt, j[1] = a[1]
                 PROVE  /\ ~Contains(conn'[j].toSeeder, Asks(a[2]))
                        /\ ~Contains(conn'[j].toDownloader, Demands(a[2]))
      OBVIOUS
    <3>1. /\ Fewer(conn'[j].toSeeder, conn[j].toSeeder, Asks(a[2]))
          /\ Fewer(conn'[j].toDownloader, conn[j].toDownloader, Demands(a[2]))
      BY <1>2, <2>1 DEF Quiet
    <3>2. OneToken(a, j)
      BY <2>1 DEF TokenInv
    <3>3. CASE j = k
      BY <2>6, <2>7, <3>1, <3>3 DEF Fewer
    <3>4. CASE j # k
      BY <2>6, <3>1, <3>2, <3>4 DEF Fewer, OneToken
    <3> QED BY <3>3, <3>4
  <2> HIDE DEF a, m
  <2>9. payment'[a] = "signing" /\ \A b \in Attempt : b # a => payment'[b] = payment[b]
    BY <1>4, <2>1 DEF AttemptsType
  <2> SUFFICES ASSUME NEW b \in Attempt
               PROVE  /\ Ahead(b)' => used'[b] = None
                      /\ \A j \in Attempt : j[1] = b[1] => OneToken(b, j)'
                      /\ fetching'[b] # None => used'[b] = fetching'[b] /\ payment'[b] = "none"
                      /\ payment'[b] # "none" => used'[b] # None
                      /\ paid'[b] = IF payment'[b] = "confirmed" THEN 1 ELSE 0
    BY DEF TokenInv
  <2>10. Ahead(b)' => used'[b] = None
    BY <1>1, <1>2 DEF Onwards, TokenInv
  <2>11. ASSUME NEW j \in Attempt, j[1] = b[1] PROVE OneToken(b, j)'
    <3>1. OneToken(b, j) /\ b[2] \in Chunk
      BY <2>11, Attempts DEF TokenInv
    <3>2. /\ Fewer(conn'[j].toSeeder, conn[j].toSeeder, Asks(b[2]))
          /\ Fewer(conn'[j].toDownloader, conn[j].toDownloader, Demands(b[2]))
      BY <1>2, <3>1 DEF Quiet
    <3>3. CASE b = a
      BY <2>8, <2>11, <3>1, <3>2, <3>3 DEF OneToken, Fewer
    <3>4. CASE b # a
      BY <1>1, <2>9, <3>1, <3>2, <3>4 DEF OneToken, Fewer
    <3> QED BY <3>3, <3>4
  <2>12. /\ fetching'[b] # None => used'[b] = fetching'[b] /\ payment'[b] = "none"
         /\ payment'[b] # "none" => used'[b] # None
         /\ paid'[b] = IF payment'[b] = "confirmed" THEN 1 ELSE 0
    BY <1>1, <2>1, <2>6, <2>9, Nothing DEF TokenInv
  <2> QED BY <2>10, <2>11, <2>12
<1> QED BY <1>3, <1>4 DEF GetPaymentRequired

\* The end of a payment.
LEMMA PaymentTokens ==
    ASSUME ExchangeInv, TokenInv, NEW a \in Attempt, PaymentConfirmed(a) \/ PaymentFails(a)
    PROVE  TokenInv'
<1> USE DEF ExchangeInv
<1>1. UNCHANGED <<used, fetching>>
  BY DEF PaymentConfirmed, PaymentFails, seeding
<1>2. \A b \in Attempt : Pays(b)
  BY DEF PaymentConfirmed, PaymentFails, Pays, AttemptsType
<1>3. Onwards
  BY OnwardsSame, OnwardsAbandon
     DEF PaymentConfirmed, PaymentFails, Fail, Active, download, DownloadType
<1>4. Quiet(conn', conn)
  <2>1. CASE PaymentConfirmed(a)
    <3>1. used[a] \in Attempt
      BY <2>1 DEF PaymentConfirmed, PayInv
    <3>2. [type |-> "payment-proof", tx |-> a] \in Message
      BY DEF Message
    <3> QED BY <2>1, <3>1, <3>2, QuietUp DEF PaymentConfirmed, NetworkInv
  <2>2. CASE PaymentFails(a)
    BY <2>2, QuietSame DEF PaymentFails, network
  <2> QED BY <2>1, <2>2
<1> QED BY <1>1, <1>2, <1>3, <1>4, QuietStep

\* What is received is stored, or not.
LEMMA SavingTokens ==
    ASSUME ExchangeInv, TokenInv, NEW a \in Attempt, Stored(a) \/ NotStored(a)
    PROVE  TokenInv'
<1> USE DEF ExchangeInv
<1>1. UNCHANGED <<used, fetching, payment, paid, conn>>
  BY DEF Stored, NotStored, network, seeding
<1>2. Onwards
  <2>1. CASE UNCHANGED loop
    BY <2>1, OnwardsSame
  <2>2. CASE Active(a) /\ Advance(held', a[2] + 1, stored')
    <3>1. a[2] = loop.chunk /\ loop.at = "waiting" /\ loop.chunk \in Chunk
      BY <2>2 DEF Active, Current, LoopInv
    <3> QED BY <2>2, <3>1, OnwardsAdvance
  <2>3. CASE Active(a) /\ Abandon
    BY <2>3, OnwardsAbandon DEF Active, DownloadType
  <2> QED BY <2>1, <2>2, <2>3 DEF Stored, NotStored, Fail
<1> QED BY <1>1, <1>2, QuietSame, QuietMove

\* A request that reaches the seeder is no longer in the channel.
LEMMA RequestTokens ==
    ASSUME ExchangeInv, TokenInv, NEW k \in Attempt, GetRequest(k)
    PROVE  TokenInv'
<1> USE DEF ExchangeInv
<1> DEFINE m == Head(conn[k].toSeeder)
           a == <<k[1], m.chunk>>
<1>1. /\ UNCHANGED <<used, payment, paid, loop>> /\ conn' = Handled(k)
      /\ fetching' = [fetching EXCEPT ![a] = k]
      /\ Onwards /\ Quiet(conn', conn)
  BY OnwardsSame, QuietTaken DEF GetRequest, Gets, download, attempts, NetworkInv
<1>2. /\ conn[k].toSeeder \in Seq(Message) /\ conn[k].toSeeder # <<>>
      /\ m \in Message /\ m.type = "request-chunk"
  BY TakenUp DEF GetRequest, Gets, NetworkInv, Sound, Connection
<1>3. a \in Attempt /\ a[1] = k[1] /\ a[2] = m.chunk /\ a[2] \in Chunk
  BY <1>2, Messages, Attempts
<1>4. m = Asks(a[2])
  BY <1>2, <1>3 DEF Message, Asks
<1>5. Contains(conn[k].toSeeder, Asks(a[2]))
  <2>1. 1 \in DOMAIN conn[k].toSeeder /\ conn[k].toSeeder[1] = m
    BY <1>2
  <2> QED BY <1>4, <2>1 DEF Contains
<1>6. OneToken(a, k)
  BY <1>3 DEF TokenInv
<1>7. /\ used[a] = k /\ payment[a] = "none"
      /\ ~Contains(conn[k].toDownloader, Demands(a[2]))
  BY <1>5, <1>6 DEF OneToken
<1>8. ~Contains(conn'[k].toSeeder, Asks(a[2]))
  <2>1. Once(conn[k].toSeeder, Asks(a[2]))
    BY <1>6 DEF OneToken
  <2>2. conn'[k].toSeeder = Tail(conn[k].toSeeder)
    BY <1>1 DEF Handled, NetworkInv, Sound, Connection
  <2> HIDE DEF a, m
  <2> QED BY <1>2, <1>4, <2>1, <2>2, QueueTail DEF m
<1>9. \A j \in Attempt : j[1] = a[1] =>
         /\ ~Contains(conn'[j].toSeeder, Asks(a[2]))
         /\ ~Contains(conn'[j].toDownloader, Demands(a[2]))
  <2> SUFFICES ASSUME NEW j \in Attempt, j[1] = a[1]
               PROVE  /\ ~Contains(conn'[j].toSeeder, Asks(a[2]))
                      /\ ~Contains(conn'[j].toDownloader, Demands(a[2]))
    OBVIOUS
  <2>1. /\ Fewer(conn'[j].toSeeder, conn[j].toSeeder, Asks(a[2]))
        /\ Fewer(conn'[j].toDownloader, conn[j].toDownloader, Demands(a[2]))
    BY <1>1, <1>3 DEF Quiet
  <2>2. OneToken(a, j)
    BY <1>3 DEF TokenInv
  <2>3. CASE j = k
    BY <1>7, <1>8, <2>1, <2>3 DEF Fewer
  <2>4. CASE j # k
    BY <1>7, <2>1, <2>2, <2>4 DEF Fewer, OneToken
  <2> QED BY <2>3, <2>4
<1> HIDE DEF a, m
<1>10. fetching'[a] = k /\ \A b \in Attempt : b # a => fetching'[b] = fetching[b]
  BY <1>1, <1>3 DEF SeedingType
<1> SUFFICES ASSUME NEW b \in Attempt
             PROVE  /\ Ahead(b)' => used'[b] = None
                    /\ \A j \in Attempt : j[1] = b[1] => OneToken(b, j)'
                    /\ fetching'[b] # None => used'[b] = fetching'[b] /\ payment'[b] = "none"
                    /\ payment'[b] # "none" => used'[b] # None
                    /\ paid'[b] = IF payment'[b] = "confirmed" THEN 1 ELSE 0
  BY DEF TokenInv
<1>11. Ahead(b)' => used'[b] = None
  BY <1>1 DEF Onwards, TokenInv
<1>12. ASSUME NEW j \in Attempt, j[1] = b[1] PROVE OneToken(b, j)'
  <2>1. OneToken(b, j) /\ b[2] \in Chunk
    BY <1>12, Attempts DEF TokenInv
  <2>2. /\ Fewer(conn'[j].toSeeder, conn[j].toSeeder, Asks(b[2]))
        /\ Fewer(conn'[j].toDownloader, conn[j].toDownloader, Demands(b[2]))
    BY <1>1, <2>1 DEF Quiet
  <2>3. CASE b = a
    BY <1>9, <1>12, <2>1, <2>2, <2>3 DEF OneToken, Fewer
  <2>4. CASE b # a
    BY <1>1, <1>10, <2>1, <2>2, <2>4 DEF OneToken, Fewer
  <2> QED BY <2>3, <2>4
<1>13. /\ fetching'[b] # None => used'[b] = fetching'[b] /\ payment'[b] = "none"
       /\ payment'[b] # "none" => used'[b] # None
       /\ paid'[b] = IF payment'[b] = "confirmed" THEN 1 ELSE 0
  BY <1>1, <1>3, <1>7, <1>10 DEF TokenInv
<1> QED BY <1>11, <1>12, <1>13

\* A chunk that was fetched is demanded for, once.
LEMMA FetchedTokens ==
    ASSUME ExchangeInv, TokenInv, NEW a \in Attempt, Fetched(a)
    PROVE  TokenInv'
<1> USE DEF ExchangeInv
<1> DEFINE k == fetching[a]
           m == Demands(a[2])
<1>1. /\ UNCHANGED <<used, payment, paid, loop>> /\ conn' = ToDownloader(conn, k, m)
      /\ fetching' = [fetching EXCEPT ![a] = None] /\ k # None
      /\ Onwards
  BY OnwardsSame DEF Fetched, download, attempts, Demands
<1>2. k \in Attempt /\ k[1] = a[1] /\ a[2] \in Chunk /\ m \in Message
  BY <1>1, Attempts DEF SeedingType, MapInv, Message, Demands
<1>3. /\ used[a] = k /\ payment[a] = "none"
      /\ \A j \in Attempt : j[1] = a[1] => OneToken(a, j)
  BY <1>1 DEF TokenInv
<1>4. \A j \in Attempt : j[1] = a[1] =>
         /\ ~Contains(conn[j].toSeeder, Asks(a[2]))
         /\ ~Contains(conn[j].toDownloader, Demands(a[2]))
  BY <1>1, <1>3 DEF OneToken
<1>5. \A j \in Attempt, i \in Chunk :
         /\ conn'[j].toSeeder = conn[j].toSeeder
         /\ j # k \/ i # a[2] => Fewer(conn'[j].toDownloader, conn[j].toDownloader, Demands(i))
         /\ Once(conn'[k].toDownloader, Demands(a[2]))
  <2>1. CASE conn' = conn
    BY <1>2, <1>3, <2>1, QueueSame DEF OneToken
  <2>2. CASE conn' = [conn EXCEPT ![k].toDownloader = Append(@, m)]
    <3> DEFINE q == Append(conn[k].toDownloader, m)
               r == [conn[k] EXCEPT !.toDownloader = q]
    <3>1. conn[k] \in Connection /\ conn[k].toDownloader \in Seq(Message)
      BY <1>2 DEF NetworkInv, Sound, Connection
    <3>2. r.toDownloader = q /\ r.toSeeder = conn[k].toSeeder
      <4> HIDE DEF q
      <4> QED BY <3>1 DEF Connection
    <3>3. conn' = [conn EXCEPT ![k] = r]
      BY <1>2, <2>2 DEF NetworkInv, Sound
    <3>4. \A i \in Chunk : i # a[2] => m # Demands(i)
      BY DEF Demands
    <3>5. /\ \A i \in Chunk : i # a[2] => Fewer(q, conn[k].toDownloader, Demands(i))
          /\ Once(q, Demands(a[2]))
      BY <1>2, <1>4, <3>1, <3>4, QueueAppend
    <3> HIDE DEF q, r, k, m
    <3>6. conn'[k] = r /\ \A j \in Attempt : j # k => conn'[j] = conn[j]
      BY <1>2, <3>3 DEF NetworkInv, Sound
    <3> SUFFICES ASSUME NEW j \in Attempt, NEW i \in Chunk
                 PROVE  /\ conn'[j].toSeeder = conn[j].toSeeder
                        /\ j # k \/ i # a[2] =>
                              Fewer(conn'[j].toDownloader, conn[j].toDownloader, Demands(i))
                        /\ Once(conn'[k].toDownloader, Demands(a[2]))
      OBVIOUS
    <3>7. CASE j = k
      BY <3>2, <3>5, <3>6, <3>7
    <3>8. CASE j # k
      BY <3>2, <3>5, <3>6, <3>8, QueueSame
    <3> QED BY <3>7, <3>8
  <2> QED BY <1>1, <2>1, <2>2 DEF ToDownloader
<1> HIDE DEF k, m
<1>6. fetching'[a] = None /\ \A b \in Attempt : b # a => fetching'[b] = fetching[b]
  BY <1>1 DEF SeedingType
<1> SUFFICES ASSUME NEW b \in Attempt
             PROVE  /\ Ahead(b)' => used'[b] = None
                    /\ \A j \in Attempt : j[1] = b[1] => OneToken(b, j)'
                    /\ fetching'[b] # None => used'[b] = fetching'[b] /\ payment'[b] = "none"
                    /\ payment'[b] # "none" => used'[b] # None
                    /\ paid'[b] = IF payment'[b] = "confirmed" THEN 1 ELSE 0
  BY DEF TokenInv
<1>7. Ahead(b)' => used'[b] = None
  BY <1>1 DEF Onwards, TokenInv
<1>8. ASSUME NEW j \in Attempt, j[1] = b[1] PROVE OneToken(b, j)'
  <2>1. OneToken(b, j) /\ b[2] \in Chunk
    BY <1>8, Attempts DEF TokenInv
  <2>2. conn'[j].toSeeder = conn[j].toSeeder
    BY <1>2, <1>5
  <2>3. CASE b = a
    <3>1. CASE j = k
      <4>1. /\ ~Contains(conn'[j].toSeeder, Asks(a[2]))
            /\ Once(conn'[j].toDownloader, Demands(a[2]))
        BY <1>2, <1>4, <1>5, <1>8, <2>2, <2>3, <3>1
      <4> QED BY <1>1, <1>3, <1>6, <2>1, <2>2, <2>3, <3>1, <4>1 DEF OneToken
    <3>2. CASE j # k
      <4>1. /\ ~Contains(conn'[j].toSeeder, Asks(a[2]))
            /\ Fewer(conn'[j].toDownloader, conn[j].toDownloader, Demands(a[2]))
        BY <1>2, <1>4, <1>5, <1>8, <2>2, <2>3, <3>2
      <4> QED BY <1>4, <1>8, <2>1, <2>2, <2>3, <4>1 DEF OneToken, Fewer
    <3> QED BY <3>1, <3>2
  <2>4. CASE b # a
    <3>1. j # k \/ b[2] # a[2]
      BY <1>2, <1>8, <2>4, Attempts
    <3>2. Fewer(conn'[j].toDownloader, conn[j].toDownloader, Demands(b[2]))
      BY <1>5, <2>1, <3>1
    <3> QED BY <1>1, <1>6, <2>1, <2>2, <2>4, <3>2 DEF OneToken, Fewer
  <2> QED BY <2>3, <2>4
<1>9. /\ fetching'[b] # None => used'[b] = fetching'[b] /\ payment'[b] = "none"
      /\ payment'[b] # "none" => used'[b] # None
      /\ paid'[b] = IF payment'[b] = "confirmed" THEN 1 ELSE 0
  BY <1>1, <1>6 DEF TokenInv
<1> QED BY <1>7, <1>8, <1>9

\* The rest of what a seeder does asks and demands nothing.
LEMMA SeederTokens ==
    ASSUME ExchangeInv, TokenInv, NEW a \in Attempt,
           \/ NotFetched(a) \/ GetProof(a) \/ Verified(a) \/ NotVerified(a)
           \/ StreamSlice(a) \/ StreamAborts(a)
    PROVE  TokenInv'
<1> USE DEF ExchangeInv
<1>1. /\ UNCHANGED <<used, payment, paid, loop>> /\ Onwards
      /\ \A b \in Attempt : fetching'[b] \in {fetching[b], None} /\ Pays(b)
  BY OnwardsSame DEF NotFetched, GetProof, Verified, NotVerified, StreamSlice, StreamAborts,
                     download, attempts, SeedingType, Pays
<1>2. Sound(conn) /\ Quiet(conn, conn)
  BY QuietSame DEF NetworkInv
<1>3. ASSUME NEW k \in Attempt, NEW m \in Answer(k[1]), m.type # "payment-required",
             conn' = ToDownloader(conn, k, m)
      PROVE  Quiet(conn', conn)
  BY <1>2, <1>3, QuietDown DEF Answer
<1>4. CASE NotFetched(a)
  <2>1. fetching[a] \in Attempt /\ fetching[a][1] \in Seeder
    BY <1>4, Attempts DEF NotFetched, SeedingType
  <2>2. conn' = ToDownloader(conn, fetching[a], [type |-> "error"])
    BY <1>4 DEF NotFetched
  <2>3. [type |-> "error"] \in Answer(fetching[a][1])
    BY <2>1, Answers
  <2> QED BY <1>1, <1>3, <2>1, <2>2, <2>3, QuietStep
<1>5. CASE GetProof(a)
  <2>1. Sound(Handled(a)) /\ Quiet(Handled(a), conn)
    BY <1>2, <1>5, TakenUp, QuietTaken DEF GetProof, Gets
  <2>2. a[1] \in Seeder /\ [type |-> "error"] \in Message
    BY Attempts DEF Message
  <2>3. Quiet(ToDownloader(Handled(a), a, [type |-> "error"]), Handled(a))
    BY <2>1, <2>2, QuietDown
  <2>4. Quiet(ToDownloader(Handled(a), a, [type |-> "error"]), conn)
    BY <2>1, <2>3, QuietTransitive
  <2> QED BY <1>1, <1>5, <2>1, <2>4, QuietStep DEF GetProof
<1>6. CASE Verified(a)
  <2> DEFINE v == verifying[a]
  <2>1. v.conn \in Attempt /\ v.conn[1] \in Seeder /\ v.chunk \in Chunk
    BY <1>6, Attempts DEF Verified, SeedingType
  <2>2. [type |-> "chunk-data", chunk |-> v.chunk] \in Answer(v.conn[1])
    BY <2>1, Answers
  <2>3. conn' = conn \/ conn' = ToDownloader(conn, v.conn, [type |-> "chunk-data", chunk |-> v.chunk])
    BY <1>6 DEF Verified
  <2> HIDE DEF v
  <2>4. Quiet(conn', conn)
    BY <1>2, <1>3, <2>1, <2>2, <2>3
  <2> QED BY <1>1, <2>4, QuietStep
<1>7. CASE NotVerified(a)
  <2>1. verifying[a].conn \in Attempt /\ verifying[a].conn[1] \in Seeder
    BY <1>7, Attempts DEF NotVerified, SeedingType
  <2>2. conn' = ToDownloader(conn, verifying[a].conn, [type |-> "error"])
    BY <1>7 DEF NotVerified
  <2>3. [type |-> "error"] \in Answer(verifying[a].conn[1])
    BY <2>1, Answers
  <2> QED BY <1>1, <1>3, <2>1, <2>2, <2>3, QuietStep
<1>8. CASE StreamSlice(a)
  <2> DEFINE r == streaming[a]
             m == [type |-> "slice", chunk |-> r.chunk, index |-> r.next]
  <2>1. r.conn \in Attempt /\ r.conn[1] \in Seeder /\ r.chunk \in Chunk /\ r.next \in 0..(NumSlices - 1)
    BY <1>8, Attempts DEF StreamSlice, SeedingType
  <2>2. m \in Answer(r.conn[1]) /\ m.type # "payment-required"
    BY <2>1, Answers
  <2>3. conn' = ToDownloader(conn, r.conn, m)
    BY <1>8 DEF StreamSlice
  <2> HIDE DEF r, m
  <2> QED BY <1>1, <1>3, <2>1, <2>2, <2>3, QuietStep
<1>9. CASE StreamAborts(a)
  BY <1>1, <1>2, <1>9, QuietStep DEF StreamAborts, network
<1> QED BY <1>4, <1>5, <1>6, <1>7, <1>8, <1>9

\* At first every attempt lies ahead.
LEMMA InitTokens == Init => TokenInv
BY DEF Init, TokenInv, Ahead, OneToken, Contains, Once

LEMMA NextTokens == ASSUME ExchangeInv, TokenInv, [Next]_vars PROVE TokenInv'
<1>1. CASE UNCHANGED vars
  <2>1. UNCHANGED <<used, fetching, payment, paid, conn, loop>>
    BY <1>1 DEF vars, download, network, attempts, seeding
  <2> QED BY <2>1, OnwardsSame, QuietSame, QuietMove
<1>2. CASE Start \/ NoSeeders \/ GiveUp \/ Cancel \/ ChunkTimeout
  BY <1>2, LoopTokens
<1>3. CASE \E s \in Seeder : Choose(s)
  BY <1>3, ChooseTokens
<1>4. ASSUME NEW k \in Attempt,
             \/ Opens(k) \/ ConnectTimeout(k)
             \/ NearCloses(k) \/ NearClosed(k) \/ FarCloses(k) \/ FarClosed(k)
             \/ GetError(k) \/ GetPaymentRequired(k) \/ GetMeta(k) \/ GetSlice(k)
             \/ GetRequest(k) \/ GetProof(k)
      PROVE  TokenInv'
  BY <1>4, OpensTokens, NetworkTokens, AnswerTokens, DemandTokens, RequestTokens, SeederTokens
<1>5. ASSUME NEW a \in Attempt,
             \/ PaymentConfirmed(a) \/ PaymentFails(a)
             \/ Stored(a) \/ NotStored(a)
             \/ Fetched(a) \/ NotFetched(a)
             \/ Verified(a) \/ NotVerified(a)
             \/ StreamSlice(a) \/ StreamAborts(a)
      PROVE  TokenInv'
  BY <1>5, PaymentTokens, SavingTokens, FetchedTokens, SeederTokens
<1> QED BY <1>1, <1>2, <1>3, <1>4, <1>5 DEF Next


-----------------------------------------------------------------------------
(* The theorems.                                                           *)

\* Every step, and every stuttering step, keeps ExchangeInv.
LEMMA NextExchange == ExchangeInv /\ [Next]_vars => ExchangeInv'
<1> SUFFICES ASSUME ExchangeInv, [Next]_vars PROVE ExchangeInv'
  OBVIOUS
<1>1. CASE UNCHANGED vars
  <2>1. /\ UNCHANGED <<download, network, attempts, seeding>>
        /\ UNCHANGED <<used, payment, paid, pcs, fetching>>
    BY <1>1 DEF vars, network, attempts, seeding
  <2> QED BY <2>1, DownloadAlone, AttemptsAlone, SeedingAlone, NetworkAlone, MapsAlone
          DEF ExchangeInv
<1>2. CASE Start \/ NoSeeders \/ GiveUp \/ Cancel \/ ChunkTimeout
  BY <1>2, StartStep, GiveUpStep, CancelStep, ChunkTimeoutStep
<1>3. CASE \E s \in Seeder : Choose(s)
  BY <1>3, ChooseStep
<1>4. ASSUME NEW k \in Attempt,
             \/ Opens(k) \/ ConnectTimeout(k)
             \/ NearCloses(k) \/ NearClosed(k) \/ FarCloses(k) \/ FarClosed(k)
             \/ GetError(k) \/ GetPaymentRequired(k) \/ GetMeta(k) \/ GetSlice(k)
             \/ GetRequest(k) \/ GetProof(k)
      PROVE  ExchangeInv'
  BY <1>4, OpensStep, ConnectTimeoutStep, NearStep, FarStep, GetErrorStep,
     GetPaymentRequiredStep, GetMetaStep, GetSliceStep, GetRequestStep, GetProofStep
<1>5. ASSUME NEW a \in Attempt,
             \/ PaymentConfirmed(a) \/ PaymentFails(a)
             \/ Stored(a) \/ NotStored(a)
             \/ Fetched(a) \/ NotFetched(a)
             \/ Verified(a) \/ NotVerified(a)
             \/ StreamSlice(a) \/ StreamAborts(a)
      PROVE  ExchangeInv'
  BY <1>5, PaymentConfirmedStep, PaymentFailsStep, StoredStep, NotStoredStep, FetchedStep,
     VerifiedStep, NotVerifiedStep, StreamStep
<1> QED BY <1>1, <1>2, <1>3, <1>4, <1>5 DEF Next

\* ExchangeInv holds in every reachable state, for any number of seeders,
\* chunks, slices and failures.
THEOREM ExchangeInvariant == Spec => []ExchangeInv
<1>1. Init => ExchangeInv
  BY InitExchange
<1>2. ExchangeInv /\ [Next]_vars => ExchangeInv'
  BY NextExchange
<1> QED BY <1>1, <1>2, PTL DEF Spec

\* Every variable keeps its type: no handler of downloader.ts, seeder.ts or
\* peer-connection.ts leaves the states the module lists.
THEOREM TypeCorrect == Spec => []TypeOK
<1>1. ExchangeInv => TypeOK
  BY DEF ExchangeInv, DownloadType, AttemptsType, SeedingType, NetworkInv, Sound, TypeOK
<1> QED BY <1>1, ExchangeInvariant, PTL

\* Only genuine chunks are stored by downloadChunk (downloader.ts:406-430), and
\* a complete download has them all.
THEOREM StoredCorrect == Spec => []OnlyGenuine
<1>1. ExchangeInv => OnlyGenuine
  BY DEF ExchangeInv
<1> QED BY <1>1, ExchangeInvariant, PTL

\* makePayment pays no seeder for a chunk it does not have, whichever attempt
\* its demand meets (downloader.ts:359).
THEOREM PaidCorrect == Spec => []PaidOnlyForHeld
<1>1. ExchangeInv => PaidOnlyForHeld
  BY DEF ExchangeInv, PayInv
<1> QED BY <1>1, ExchangeInvariant, PTL

\* No seeder is paid twice for a chunk: however late its demand comes, and
\* whatever became of the attempt, makePayment is called for it once
\* (downloader.ts:359-375).
THEOREM PaidOnceCorrect == Spec => []PaidOncePerSeeder
<1>1. Init => ExchangeInv /\ TokenInv
  BY InitExchange, InitTokens
<1>2. ExchangeInv /\ TokenInv /\ [Next]_vars => (ExchangeInv /\ TokenInv)'
  BY NextExchange, NextTokens
<1>3. TokenInv => PaidOncePerSeeder
  BY DEF TokenInv, PaidOncePerSeeder
<1> QED BY <1>1, <1>2, <1>3, PTL DEF Spec

=============================================================================
