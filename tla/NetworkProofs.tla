----------------------------- MODULE NetworkProofs -----------------------------
(***************************************************************************)
(* The network for every size of its tables, buffers and rings: the layers *)
(* below TCP (frames find their host, names mean their hosts), then TCP    *)
(* (the stream is read in order, sequence numbers are true) as long as     *)
(* fewer bytes are sent than there are sequence numbers, then the rings of *)
(* the cards, which implement a queue of frames in either direction.       *)
(***************************************************************************)
EXTENDS Network, SequenceTheorems, FiniteSetTheorems, WellFoundedInduction, TLAPS

Address == Hosts \cup {Nobody}
Phases  == {"idle", "arping", "query", "dns", "echo", "wait", "polled", "flush", "judge"}
JobType == [at : Phases, name : Names \cup {NoName}, ip : Address, seq : Nat]
Sending == [on : BOOLEAN, direct : BOOLEAN, polls : BOOLEAN]
Query   == [name : Names, id : Nat]

IpKinds ==
  /\ cache \in Seq([name : Names, ip : Hosts])
  /\ query \in [id : Nat, on : BOOLEAN, ip : Address]
  /\ pending \in [on : BOOLEAN, dst : Address]
  /\ sending \in Sending
  /\ job \in JobType
  /\ asked \subseteq [to : Address, seq : Nat] \cup Query

(* Every ARP frame says the truth about its sender. *)
ArpIsTrue ==
  /\ DOMAIN arp \subseteq Subnet
  /\ \A h \in DOMAIN arp : arp[h] = h

(* The way ip_send chose is still the right one when it sends, unless its
   destination is pending_dst. *)
WayIsRight ==
  sending.on =>
    /\ job.at \in {"query", "echo", "flush"}
    /\ job.at # "flush" => (sending.direct <=> Dst \in Subnet)

(* Query numbers are not used again, so what dns_rx takes answers the name
   that is asked for. *)
AnswersFit ==
  /\ query.on <=> job.at \in {"query", "dns"}
  /\ query.on => job.name \in Names
  /\ query.on /\ query.ip # Nobody => query.ip \in Answers(job.name)
  /\ \A a \in asked \cap Query :
       a.id <= query.id /\ (query.on /\ a.id = query.id => a.name = job.name)

IpInv == IpKinds /\ ArpIsTrue /\ WayIsRight /\ AnswersFit /\ NamesMeanTheirHosts

-------------------------------------------------------------------------------
(* An answer for a name is an address of that name, and of what is kept of it. *)
LEMMA AnswersAreAddresses ==
  ASSUME NEW n \in Names, NEW ip \in Answers(n)
  PROVE  ip \in AddressesOf(n) /\ ip \in AddressesOf(Cut(n)) /\ ip \in Hosts /\ Cut(n) \in Names
BY IpAssumption DEF AddressesOf, Hosts

LEMMA QueriesAreNoEchoes ==
  ASSUME NEW a \in [to : Address, seq : Nat] \cup Query
  PROVE  "name" \in DOMAIN a <=> a \in Query
BY DEF Query

LEMMA IdleIsAJob == Idle \in JobType /\ Idle.ip = Nobody /\ Idle.name = NoName /\ Idle.at = "idle" /\ Idle.seq = 0
BY DEF Idle, JobType, Address, Phases

LEMMA SendStarts ==
  ASSUME NEW dst, IpSend(dst)
  PROVE  sending' \in Sending /\ sending'.on /\ (sending'.direct <=> dst \in Subnet)
<1> DEFINE direct == dst \in Subnet
           polls  == (IF direct THEN dst ELSE Gw) \notin DOMAIN arp
<1>1. sending' = [on |-> TRUE, direct |-> direct, polls |-> polls]
  BY DEF IpSend
<1>2. direct \in BOOLEAN /\ polls \in BOOLEAN
  OBVIOUS
<1>3. direct <=> dst \in Subnet
  OBVIOUS
<1> HIDE DEF direct, polls
<1>4. sending' \in Sending
  BY <1>1, <1>2 DEF Sending
<1>5. sending'.on = TRUE /\ sending'.direct = direct
  BY <1>1
<1> QED
  BY <1>3, <1>4, <1>5, Zenon

LEMMA EchoOrEnd ==
  ASSUME IpKinds, NEW j \in JobType, NextEcho(j)
  PROVE  /\ job' \in JobType /\ sending' \in Sending
         /\ \/ job' = Idle /\ ~sending'.on
            \/ /\ job'.at = "echo" /\ job'.name = j.name /\ job'.ip = j.ip
               /\ sending'.on /\ (sending'.direct <=> job'.ip \in Subnet)
<1>1. CASE j.seq + 1 < Pings
  <2>1. job' = [j EXCEPT !.at = "echo", !.seq = @ + 1] /\ IpSend(j.ip)
    BY <1>1 DEF NextEcho
  <2>2. job' = [at |-> "echo", name |-> j.name, ip |-> j.ip, seq |-> j.seq + 1]
    BY <2>1 DEF JobType
  <2>4. job' \in JobType /\ job'.at = "echo" /\ job'.name = j.name /\ job'.ip = j.ip
    BY <2>2 DEF JobType, Phases
  <2>3. sending' \in Sending /\ sending'.on /\ (sending'.direct <=> j.ip \in Subnet)
    BY <2>1, SendStarts
  <2> QED
    BY <2>3, <2>4
<1>2. CASE ~(j.seq + 1 < Pings)
  BY <1>2, IdleIsAJob DEF NextEcho, IpKinds, Sending
<1> QED
  BY <1>1, <1>2

LEMMA PingStarts ==
  ASSUME NEW j \in JobType, StartPing(j)
  PROVE  /\ job' \in JobType /\ job'.at = "echo" /\ job'.name = j.name /\ job'.ip = j.ip
         /\ sending' \in Sending /\ sending'.on /\ (sending'.direct <=> job'.ip \in Subnet)
<1>1. job' = [j EXCEPT !.at = "echo"] /\ IpSend(j.ip)
  BY DEF StartPing
<1>2. job' \in JobType /\ job'.at = "echo" /\ job'.name = j.name /\ job'.ip = j.ip
  BY <1>1 DEF JobType, Phases
<1> QED
  BY <1>1, <1>2, SendStarts

(* What the command in progress leaves alone. *)
LEMMA QuietTables ==
  ASSUME IpInv, UNCHANGED <<arp, cache>>
  PROVE  /\ ArpIsTrue'
         /\ (\A s \in DOMAIN cache : cache[s].ip \in AddressesOf(cache[s].name))'
BY DEF IpInv, ArpIsTrue, NamesMeanTheirHosts, AddressesOf

(* A step after which no answer is waited for, and whose command, if any,
   pings an address or has the name's address. *)
LEMMA NotAsking ==
  ASSUME IpInv, UNCHANGED <<arp, cache, query, asked>>, IpKinds',
         ~query.on, job'.at \notin {"query", "dns"},
         job'.name # NoName /\ job'.ip # Nobody => job'.ip \in AddressesOf(job'.name),
         WayIsRight'
  PROVE  IpInv'
<1>1. AnswersFit'
  BY DEF IpInv, AnswersFit
<1>2. NamesMeanTheirHosts'
  BY QuietTables DEF NamesMeanTheirHosts, AddressesOf
<1> QED
  BY <1>1, <1>2, QuietTables DEF IpInv

(* The next echo request of a ping command. *)
LEMMA EchoKeeps ==
  ASSUME IpInv, NextEcho(job), ~query.on, UNCHANGED <<arp, cache, query, pending, asked>>
  PROVE  IpInv'
<1>1. /\ job' \in JobType /\ sending' \in Sending
      /\ \/ job' = Idle /\ ~sending'.on
         \/ /\ job'.at = "echo" /\ job'.name = job.name /\ job'.ip = job.ip
            /\ sending'.on /\ (sending'.direct <=> job'.ip \in Subnet)
  BY EchoOrEnd DEF IpInv, IpKinds
<1>2. IpKinds'
  BY <1>1 DEF IpInv, IpKinds
<1>3. WayIsRight'
  BY <1>1 DEF WayIsRight, Dst
<1>4. job'.name # NoName /\ job'.ip # Nobody => job'.ip \in AddressesOf(job'.name)
  BY <1>1, IdleIsAJob DEF IpInv, NamesMeanTheirHosts
<1>5. job'.at \notin {"query", "dns"}
  BY <1>1, IdleIsAJob
<1> QED
  BY <1>2, <1>3, <1>4, <1>5, NotAsking

-------------------------------------------------------------------------------
(* What arrives. *)
LEMMA ArpHandleKeeps ==
  ASSUME ArpIsTrue, NEW h \in Subnet, ArpHandle(h)
  PROVE  ArpIsTrue'
<1>1. CASE arp' = arp
  BY <1>1 DEF ArpIsTrue
<1>2. CASE arp' = [x \in DOMAIN arp \cup {h} |-> IF x = h THEN h ELSE arp[x]]
  BY <1>2 DEF ArpIsTrue
<1> QED
  BY <1>1, <1>2 DEF ArpHandle

LEMMA UdpHandleKeeps ==
  ASSUME IpInv, NEW a \in asked, "name" \in DOMAIN a, UdpHandle(a)
  PROVE  /\ query' \in [id : Nat, on : BOOLEAN, ip : Address]
         /\ query'.id = query.id /\ query'.on = query.on
         /\ query'.on /\ query'.ip # Nobody => query'.ip \in Answers(job.name)
         /\ arp' = arp /\ pending' = pending
<1>1. a \in Query /\ query \in [id : Nat, on : BOOLEAN, ip : Address]
  BY QueriesAreNoEchoes DEF IpInv, IpKinds
<1>2. arp' = arp /\ pending' = pending
  BY DEF UdpHandle
<1>3. CASE UNCHANGED query
  BY <1>1, <1>2, <1>3 DEF IpInv, AnswersFit
<1>4. CASE query.on /\ a.id = query.id
  <2>1. PICK ip \in Answers(a.name) : query' = [query EXCEPT !.ip = ip]
    BY <1>4 DEF UdpHandle, DnsRx
  <2>2. a.name = job.name /\ a.name \in Names
    BY <1>1, <1>4 DEF IpInv, AnswersFit, Query
  <2>3. ip \in Address
    BY <2>2, AnswersAreAddresses DEF Address
  <2> QED
    BY <1>1, <1>2, <2>1, <2>2, <2>3
<1> QED
  BY <1>3, <1>4 DEF UdpHandle, DnsRx

LEMMA PollKeeps ==
  ASSUME IpInv, Poll
  PROVE  IpInv'
<1> DEFINE Arrived ==
      /\ query' \in [id : Nat, on : BOOLEAN, ip : Address]
      /\ query'.id = query.id /\ query'.on = query.on
      /\ query'.on /\ query'.ip # Nobody => query'.ip \in Answers(job.name)
      /\ ArpIsTrue' /\ pending' \in [on : BOOLEAN, dst : Address]
<1>1. /\ job' = [job EXCEPT !.at = IF @ = "wait" THEN "polled" ELSE @]
      /\ UNCHANGED <<cache, sending, frame, asked>>
  BY DEF Poll
<1>2. /\ query \in [id : Nat, on : BOOLEAN, ip : Address] /\ pending \in [on : BOOLEAN, dst : Address]
      /\ query.on /\ query.ip # Nobody => query.ip \in Answers(job.name)
      /\ ArpIsTrue /\ job \in JobType
  BY DEF IpInv, IpKinds, AnswersFit
<1>3. ASSUME NEW h \in Subnet, ArpHandle(h) PROVE Arrived
  BY <1>2, <1>3, ArpHandleKeeps DEF ArpHandle
<1>4. ASSUME NEW h \in Hosts, EchoRequest(h) PROVE Arrived
  BY <1>2, <1>4 DEF EchoRequest, ArpIsTrue, Address
<1>5. ASSUME NEW a \in asked, EchoReply(a) PROVE Arrived
  BY <1>2, <1>5 DEF EchoReply, ArpIsTrue
<1>6. ASSUME NEW a \in asked, "name" \in DOMAIN a, UdpHandle(a) PROVE Arrived
  BY <1>2, <1>6, UdpHandleKeeps DEF ArpIsTrue
<1>7. Arrived
  BY <1>3, <1>4, <1>5, <1>6 DEF Poll, IpHandle
<1>8. /\ job' \in JobType /\ job'.name = job.name /\ job'.ip = job.ip
      /\ job'.at = job.at \/ (job.at = "wait" /\ job'.at = "polled")
  BY <1>1, <1>2 DEF JobType, Phases
<1>9. IpKinds'
  BY <1>1, <1>7, <1>8 DEF IpInv, IpKinds
<1>10. WayIsRight'
  BY <1>1, <1>8 DEF IpInv, WayIsRight, Dst
<1>11. AnswersFit'
  BY <1>1, <1>7, <1>8 DEF IpInv, AnswersFit
<1>12. NamesMeanTheirHosts'
  BY <1>1, <1>8 DEF IpInv, NamesMeanTheirHosts, AddressesOf
<1> QED
  BY <1>7, <1>9, <1>10, <1>11, <1>12 DEF IpInv

-------------------------------------------------------------------------------
(* What ip_send does once it knows the MAC, or gives up. *)
LEMMA SentKeeps ==
  ASSUME IpInv, IpSent
  PROVE  IpInv'
<1>1. /\ job.at \in {"query", "echo", "flush"} /\ job \in JobType /\ sending \in Sending
      /\ sending' = [sending EXCEPT !.on = FALSE] /\ job' = [job EXCEPT !.at = After(@)]
      /\ UNCHANGED <<arp, cache, query, pending>> /\ asked' = asked \cup Body
  BY DEF IpSent, IpInv, WayIsRight, IpKinds
<1>2. /\ job' \in JobType /\ job'.name = job.name /\ job'.ip = job.ip
      /\ job'.at = "dns" <=> job.at = "query"
      /\ job'.at \in {"dns", "wait", "judge"}
  BY <1>1 DEF JobType, Phases, After
<1>3. sending' \in Sending /\ ~sending'.on
  BY <1>1 DEF Sending
<1>4. \A a \in Body : \/ a \in [to : Address, seq : Nat] /\ a \notin Query
                      \/ /\ a \in Query /\ query.on
                         /\ a.id = query.id /\ a.name = job.name
  <2>1. CASE job.at = "query"
    BY <2>1 DEF Body, Query, IpInv, IpKinds, AnswersFit
  <2>2. CASE job.at = "echo"
    <3>1. Body = {[to |-> job.ip, seq |-> job.seq]}
      BY <2>2 DEF Body
    <3>2. [to |-> job.ip, seq |-> job.seq] \in [to : Address, seq : Nat]
      BY <1>1 DEF JobType
    <3>3. \A a \in [to : Address, seq : Nat] : a \notin Query
      BY DEF Query
    <3> QED
      BY <3>1, <3>2, <3>3
  <2>3. CASE job.at = "flush"
    BY <2>3 DEF Body
  <2> QED
    BY <1>1, <2>1, <2>2, <2>3
<1>5. IpKinds'
  BY <1>1, <1>2, <1>3, <1>4 DEF IpInv, IpKinds
<1>6. AnswersFit'
  <2>1. (query.on <=> job.at \in {"query", "dns"})'
    BY <1>1, <1>2 DEF IpInv, AnswersFit
  <2>2. \A a \in asked' \cap Query :
           a.id <= query.id /\ (query.on /\ a.id = query.id => a.name = job.name)
    <3>1. query.id \in Nat
      BY DEF IpInv, IpKinds
    <3> QED
      BY <1>1, <1>4, <3>1 DEF IpInv, AnswersFit
  <2> QED
    BY <1>1, <1>2, <2>1, <2>2 DEF IpInv, AnswersFit
<1>7. NamesMeanTheirHosts'
  BY <1>1, <1>2 DEF IpInv, NamesMeanTheirHosts, AddressesOf
<1> QED
  BY <1>1, <1>3, <1>5, <1>6, <1>7, QuietTables DEF IpInv, WayIsRight

LEMMA FailsKeeps ==
  ASSUME IpInv, IpFails
  PROVE  IpInv'
<1>1. CASE job.at = "echo"
  <2>1. NextEcho(job) /\ UNCHANGED <<arp, cache, query, pending, asked>> /\ ~query.on
    BY <1>1 DEF IpFails, IpInv, AnswersFit
  <2> QED
    BY <2>1, EchoKeeps
<1>2. CASE job.at # "echo"
  <2>1. /\ job.at \in {"query", "flush"} /\ job \in JobType /\ sending \in Sending
        /\ sending' = [sending EXCEPT !.on = FALSE] /\ job' = [job EXCEPT !.at = After(@)]
        /\ UNCHANGED <<arp, cache, query, pending, asked>>
    BY <1>2 DEF IpFails, IpInv, WayIsRight, IpKinds
  <2>2. /\ job' \in JobType /\ job'.name = job.name /\ job'.ip = job.ip
        /\ job'.at = "dns" <=> job.at = "query"
        /\ job'.at \in {"dns", "judge"}
    BY <2>1 DEF JobType, Phases, After
  <2>3. sending' \in Sending /\ ~sending'.on
    BY <2>1 DEF Sending
  <2>4. IpKinds'
    BY <2>1, <2>2, <2>3 DEF IpInv, IpKinds
  <2>5. AnswersFit'
    BY <2>1, <2>2 DEF IpInv, AnswersFit
  <2>6. NamesMeanTheirHosts'
    BY <2>1, <2>2 DEF IpInv, NamesMeanTheirHosts, AddressesOf
  <2> QED
    BY <2>1, <2>3, <2>4, <2>5, <2>6, QuietTables DEF IpInv, WayIsRight
<1> QED
  BY <1>1, <1>2

-------------------------------------------------------------------------------
(* The steps of ping and arping that ask for no name. *)
LEMMA ArpingKeeps ==
  ASSUME IpInv, ArpingEnds \/ \E h \in Subnet : Arping(h)
  PROVE  IpInv'
<1>1. /\ UNCHANGED <<arp, cache, query, pending, sending, asked>>
      /\ job.at \in {"idle", "arping"}
  BY IdleIsAJob DEF Arping, ArpingEnds
<1>2. ~query.on /\ ~sending.on
  BY <1>1 DEF IpInv, AnswersFit, WayIsRight
<1>3. job' \in JobType /\ job'.name = NoName /\ job'.at \in {"idle", "arping"}
  <2>1. CASE ArpingEnds
    BY <2>1, IdleIsAJob DEF ArpingEnds
  <2>2. ASSUME NEW h \in Subnet, Arping(h)
        PROVE  job' \in JobType /\ job'.name = NoName /\ job'.at \in {"idle", "arping"}
    <3>1. job' = [at |-> "arping", name |-> NoName, ip |-> h, seq |-> 0]
      BY <2>2 DEF Arping, Idle
    <3> QED
      BY <3>1 DEF JobType, Phases, Address, Hosts
  <2> QED
    BY <2>1, <2>2
<1>4. IpKinds'
  BY <1>1, <1>3 DEF IpInv, IpKinds
<1> QED
  BY <1>1, <1>2, <1>3, <1>4, NotAsking DEF WayIsRight

LEMMA PingKeeps ==
  ASSUME IpInv, NEW j \in JobType, StartPing(j), UNCHANGED <<arp, cache, query, pending, asked>>,
         ~query.on, j.name # NoName /\ j.ip # Nobody => j.ip \in AddressesOf(j.name)
  PROVE  IpInv'
<1>1. /\ job' \in JobType /\ job'.at = "echo" /\ job'.name = j.name /\ job'.ip = j.ip
      /\ sending' \in Sending /\ sending'.on /\ (sending'.direct <=> job'.ip \in Subnet)
  BY PingStarts
<1>2. IpKinds'
  BY <1>1 DEF IpInv, IpKinds
<1>3. WayIsRight'
  BY <1>1 DEF WayIsRight, Dst
<1> QED
  BY <1>1, <1>2, <1>3, NotAsking

LEMMA FlushKeeps ==
  ASSUME IpInv, Flush
  PROVE  IpInv'
<1>1. /\ ~sending.on /\ job.at \in {"wait", "polled"} /\ ~query.on
      /\ UNCHANGED <<arp, cache, query, asked>> /\ pending' = [pending EXCEPT !.on = FALSE]
      /\ job \in JobType /\ pending \in [on : BOOLEAN, dst : Address] /\ sending \in Sending
  BY DEF Flush, IpInv, IpKinds, AnswersFit
<1>2. /\ job' \in JobType /\ job'.name = job.name /\ job'.ip = job.ip
      /\ job'.at \in {"flush", "judge"}
  BY <1>1 DEF Flush, JobType, Phases
<1>3. sending' \in Sending /\ (sending'.on => job'.at = "flush")
  <2>1. CASE pending.on
    BY <2>1, <1>1, SendStarts DEF Flush, JobType
  <2>2. CASE ~pending.on
    BY <2>2, <1>1 DEF Flush
  <2> QED
    BY <2>1, <2>2
<1>4. IpKinds'
  BY <1>1, <1>2, <1>3 DEF IpInv, IpKinds
<1>5. job'.name # NoName /\ job'.ip # Nobody => job'.ip \in AddressesOf(job'.name)
  BY <1>2 DEF IpInv, NamesMeanTheirHosts
<1> QED
  BY <1>1, <1>2, <1>3, <1>4, <1>5, NotAsking DEF WayIsRight

LEMMA PingWaitsKeeps ==
  ASSUME IpInv, PingWaits
  PROVE  IpInv'
<1>1. /\ job.at = "judge" /\ job \in JobType /\ ~query.on /\ ~sending.on
      /\ job' = [job EXCEPT !.at = "wait"]
      /\ UNCHANGED <<arp, cache, query, pending, sending, asked>>
  BY DEF PingWaits, IpInv, IpKinds, AnswersFit, WayIsRight
<1>2. job' \in JobType /\ job'.name = job.name /\ job'.ip = job.ip /\ job'.at = "wait"
  BY <1>1 DEF JobType, Phases
<1>3. IpKinds'
  BY <1>1, <1>2 DEF IpInv, IpKinds
<1>4. job'.name # NoName /\ job'.ip # Nobody => job'.ip \in AddressesOf(job'.name)
  BY <1>2 DEF IpInv, NamesMeanTheirHosts
<1> QED
  BY <1>1, <1>2, <1>3, <1>4, NotAsking DEF WayIsRight

-------------------------------------------------------------------------------
(* The steps of dns_resolve. *)
LEMMA ResolvedKeeps ==
  ASSUME IpInv, NEW j \in JobType, Resolved(j), UNCHANGED <<arp, pending, asked>>,
         ~sending.on, ~query'.on, query'.id = query.id,
         query' \in [id : Nat, on : BOOLEAN, ip : Address],
         cache' \in Seq([name : Names, ip : Hosts]),
         \A s \in DOMAIN cache' : cache'[s].ip \in AddressesOf(cache'[s].name),
         j.name # NoName /\ j.ip # Nobody => j.ip \in AddressesOf(j.name)
  PROVE  IpInv'
<1>1. /\ job' \in JobType /\ sending' \in Sending
      /\ \/ job' = Idle /\ ~sending'.on
         \/ /\ job'.at = "echo" /\ job'.name = j.name /\ job'.ip = j.ip
            /\ sending'.on /\ (sending'.direct <=> job'.ip \in Subnet)
  <2>1. CASE StartPing(j)
    BY <2>1, PingStarts
  <2>2. CASE job' = Idle /\ UNCHANGED sending
    BY <2>2, IdleIsAJob DEF IpInv, IpKinds
  <2> QED
    BY <2>1, <2>2 DEF Resolved
<1>2. IpKinds'
  BY <1>1 DEF IpInv, IpKinds
<1>3. ArpIsTrue'
  BY DEF IpInv, ArpIsTrue
<1>4. WayIsRight'
  BY <1>1 DEF WayIsRight, Dst
<1>5. AnswersFit'
  <2>1. job'.at \notin {"query", "dns"}
    BY <1>1, IdleIsAJob
  <2> QED
    BY <2>1 DEF IpInv, AnswersFit
<1>6. NamesMeanTheirHosts'
  BY <1>1, IdleIsAJob DEF NamesMeanTheirHosts, AddressesOf
<1> QED
  BY <1>2, <1>3, <1>4, <1>5, <1>6 DEF IpInv

LEMMA ResolveCachedKeeps ==
  ASSUME IpInv, NEW n \in Names, ResolveCached(n)
  PROVE  IpInv'
<1>1. PICK s \in DOMAIN cache :
        cache[s].name = n /\ Resolved([Idle EXCEPT !.name = n, !.ip = cache[s].ip])
  BY DEF ResolveCached, First, Cached
<1>2. /\ UNCHANGED <<arp, cache, query, pending, asked>> /\ ~query.on /\ ~sending.on
      /\ query \in [id : Nat, on : BOOLEAN, ip : Address] /\ cache \in Seq([name : Names, ip : Hosts])
      /\ \A t \in DOMAIN cache : cache[t].ip \in AddressesOf(cache[t].name)
  <2>1. UNCHANGED <<arp, cache, query, pending, asked>> /\ job = Idle
    BY DEF ResolveCached
  <2> QED
    BY <2>1, IdleIsAJob DEF IpInv, IpKinds, AnswersFit, WayIsRight, NamesMeanTheirHosts
<1>3. cache[s].ip \in AddressesOf(n) /\ cache[s].ip \in Hosts
  <2>1. cache[s] \in [name : Names, ip : Hosts]
    BY <1>2, LenProperties, ElementOfSeq
  <2> QED
    BY <1>1, <1>2, <2>1
<1>4. PICK ip : ip = cache[s].ip
  OBVIOUS
<1>5. PICK j : j = [Idle EXCEPT !.name = n, !.ip = ip]
  OBVIOUS
<1>6. ip \in Address /\ ip \in AddressesOf(n) /\ Resolved(j)
  BY <1>1, <1>3, <1>4, <1>5 DEF Address
<1>7. j \in JobType /\ j.name = n /\ j.ip = ip
  BY <1>5, <1>6, IdleIsAJob DEF JobType
<1> QED
  BY <1>2, <1>6, <1>7, ResolvedKeeps

LEMMA ResolveKeeps ==
  ASSUME IpInv, NEW n \in Names, Resolve(n)
  PROVE  IpInv'
<1>0. (query.id + 1) % IdMod = query.id + 1
  <2>1. PICK k \in Nat, m \in Nat, w \in Nat : k = query.id /\ m = MaxQueries /\ w = IdMod
    BY IpAssumption DEF IpInv, IpKinds
  <2>2. k < m /\ m < w
    BY <2>1, IpAssumption DEF Resolve
  <2>3. (k + 1) % w = k + 1
    BY <2>2
  <2> QED
    BY <2>1, <2>3
<1>1. /\ UNCHANGED <<arp, cache, pending, asked>> /\ IpSend(Server)
      /\ query' = [id |-> query.id + 1, on |-> TRUE, ip |-> Nobody]
      /\ job' = [at |-> "query", name |-> n, ip |-> Nobody, seq |-> 0]
  BY <1>0 DEF Resolve, Listen, Idle
<1>2. sending' \in Sending /\ sending'.on /\ (sending'.direct <=> Server \in Subnet)
  BY <1>1, SendStarts
<1>3. query.id \in Nat
  BY DEF IpInv, IpKinds
<1>4. job' \in JobType /\ query' \in [id : Nat, on : BOOLEAN, ip : Address]
  BY <1>1, <1>3 DEF JobType, Phases, Address
<1>5. IpKinds'
  BY <1>1, <1>2, <1>4 DEF IpInv, IpKinds
<1>6. WayIsRight'
  BY <1>1, <1>2 DEF WayIsRight, Dst
<1>7. AnswersFit'
  <2>1. \A a \in asked \cap Query : a.id \in Nat /\ a.id <= query.id
    BY DEF IpInv, AnswersFit, Query
  <2> QED
    BY <1>1, <1>3, <2>1 DEF AnswersFit
<1>8. NamesMeanTheirHosts'
  BY <1>1, QuietTables DEF NamesMeanTheirHosts, AddressesOf
<1> QED
  BY <1>1, <1>5, <1>6, <1>7, <1>8, QuietTables DEF IpInv

LEMMA DnsAnsweredKeeps ==
  ASSUME IpInv, DnsAnswered
  PROVE  IpInv'
<1>1. /\ job.at = "dns" /\ query.ip # Nobody /\ job \in JobType /\ ~sending.on
      /\ query \in [id : Nat, on : BOOLEAN, ip : Address]
      /\ query' = [query EXCEPT !.on = FALSE] /\ UNCHANGED <<arp, pending, asked>>
      /\ cache \in Seq([name : Names, ip : Hosts]) /\ CacheStore(job.name, query.ip)
      /\ \A s \in DOMAIN cache : cache[s].ip \in AddressesOf(cache[s].name)
  BY DEF DnsAnswered, IpInv, IpKinds, WayIsRight, NamesMeanTheirHosts
<1>2. job.name \in Names /\ query.ip \in Answers(job.name)
  BY <1>1 DEF IpInv, AnswersFit
<1>3. /\ query.ip \in AddressesOf(job.name) /\ query.ip \in AddressesOf(Cut(job.name))
      /\ query.ip \in Hosts /\ Cut(job.name) \in Names
  BY <1>2, AnswersAreAddresses
<1> DEFINE entry == [name |-> Cut(job.name), ip |-> query.ip]
<1>4. entry \in [name : Names, ip : Hosts] /\ entry.ip \in AddressesOf(entry.name)
  BY <1>3
<1>5. CacheSize \in Nat \ {0} /\ Len(cache) \in Nat /\ DOMAIN cache = 1 .. Len(cache)
  BY <1>1, IpAssumption, LenProperties
<1>6. \/ cache' = Append(cache, entry)
      \/ cache' = [cache EXCEPT ![1] = entry] /\ 1 \in DOMAIN cache
  <2>1. CASE Len(cache) < CacheSize
    BY <1>1, <2>1 DEF CacheStore
  <2>2. CASE ~(Len(cache) < CacheSize)
    <3>1. 1 \in DOMAIN cache
      BY <1>5, <2>2
    <3> QED
      BY <1>1, <2>2, <3>1 DEF CacheStore
  <2> QED
    BY <2>1, <2>2
<1> HIDE DEF entry
<1>7. /\ cache' \in Seq([name : Names, ip : Hosts])
      /\ \A s \in DOMAIN cache' : cache'[s] = entry \/ (s \in DOMAIN cache /\ cache'[s] = cache[s])
  <2>1. CASE cache' = Append(cache, entry)
    BY <1>1, <1>4, <2>1, AppendProperties, LenProperties
  <2>2. CASE cache' = [cache EXCEPT ![1] = entry] /\ 1 \in DOMAIN cache
    BY <1>1, <1>4, <2>2, ExceptSeq, LenProperties
  <2> QED
    BY <1>6, <2>1, <2>2
<1>10. \A s \in DOMAIN cache' : cache'[s].ip \in AddressesOf(cache'[s].name)
  BY <1>1, <1>4, <1>7
<1> DEFINE j == [job EXCEPT !.ip = query.ip]
<1>8. j \in JobType /\ j.name = job.name /\ j.ip = query.ip /\ Resolved(j)
  BY <1>1, <1>3 DEF JobType, Address, DnsAnswered
<1> HIDE DEF j
<1>9. ~query'.on /\ query'.id = query.id /\ query' \in [id : Nat, on : BOOLEAN, ip : Address]
  BY <1>1
<1> QED
  BY <1>1, <1>3, <1>7, <1>8, <1>9, <1>10, ResolvedKeeps

LEMMA DnsTimeoutKeeps ==
  ASSUME IpInv, DnsTimeout
  PROVE  IpInv'
<1>1. /\ query' = [query EXCEPT !.on = FALSE] /\ job' = Idle /\ job.at = "dns"
      /\ UNCHANGED <<arp, cache, pending, sending, asked>>
      /\ query \in [id : Nat, on : BOOLEAN, ip : Address]
  BY DEF DnsTimeout, IpInv, IpKinds
<1>2. ~sending.on /\ ~query'.on /\ query'.id = query.id /\ query' \in [id : Nat, on : BOOLEAN, ip : Address]
  BY <1>1 DEF IpInv, WayIsRight
<1>3. IpKinds'
  BY <1>1, <1>2, IdleIsAJob DEF IpInv, IpKinds
<1>4. AnswersFit'
  BY <1>1, <1>2, IdleIsAJob DEF IpInv, AnswersFit
<1>5. NamesMeanTheirHosts'
  BY <1>1, QuietTables, IdleIsAJob DEF NamesMeanTheirHosts, AddressesOf
<1> QED
  BY <1>1, <1>2, <1>3, <1>4, <1>5, QuietTables DEF IpInv, WayIsRight

-------------------------------------------------------------------------------
LEMMA IpFirst == IpInit => IpInv
<1> SUFFICES ASSUME IpInit PROVE IpInv
  OBVIOUS
<1>1. IpKinds
  BY IdleIsAJob DEF IpInit, IpKinds, Address, Sending
<1>2. ArpIsTrue
  BY DEF IpInit, ArpIsTrue
<1>3. WayIsRight /\ AnswersFit
  BY IdleIsAJob DEF IpInit, WayIsRight, AnswersFit
<1>4. NamesMeanTheirHosts
  BY IdleIsAJob DEF IpInit, NamesMeanTheirHosts
<1> QED
  BY <1>1, <1>2, <1>3, <1>4 DEF IpInv

LEMMA IpStep == IpInv /\ [IpNext]_ipVars => IpInv'
<1> SUFFICES ASSUME IpInv, [IpNext]_ipVars PROVE IpInv'
  OBVIOUS
<1>1. CASE UNCHANGED ipVars
  BY <1>1 DEF ipVars, IpInv, IpKinds, ArpIsTrue, WayIsRight, Dst, AnswersFit, NamesMeanTheirHosts, AddressesOf
<1>2. CASE PingAnswered \/ PingTimeout
  BY <1>2, EchoKeeps DEF PingAnswered, PingTimeout, IpInv, AnswersFit
<1>3. ASSUME NEW h \in Pinged, Ping(h) PROVE IpInv'
  <2> DEFINE j == [Idle EXCEPT !.ip = h]
  <2>1. j = [at |-> "idle", name |-> NoName, ip |-> h, seq |-> 0]
    BY DEF Idle
  <2>2. j \in JobType /\ j.name = NoName
    BY <2>1, IpAssumption DEF JobType, Phases, Address, Hosts
  <2>3. StartPing(j) /\ ~query.on /\ UNCHANGED <<arp, cache, query, pending, asked>>
    BY <1>3, IdleIsAJob DEF Ping, IpInv, AnswersFit
  <2> HIDE DEF j
  <2> QED
    BY <2>2, <2>3, PingKeeps
<1> QED
  BY <1>1, <1>2, <1>3, PollKeeps, SentKeeps, FailsKeeps, ArpingKeeps, FlushKeeps, PingWaitsKeeps,
     ResolveCachedKeeps, ResolveKeeps, DnsAnsweredKeeps, DnsTimeoutKeeps DEF IpNext

LEMMA IpInvHolds == IpSpec => []IpInv
BY IpFirst, IpStep, PTL DEF IpSpec

(* A name is never given the address of another, be the answer late, repeated
   or cached, as long as the two names differ in their first 63 characters
   (net/dns.c:46, 95, 118). *)
THEOREM NamesAreNotMixedUp == IpSpec => []NamesMeanTheirHosts
<1>1. IpInv => NamesMeanTheirHosts
  BY DEF IpInv
<1> QED
  BY <1>1, IpInvHolds, PTL

(* However long ip_send waited and whatever came in meanwhile, a frame goes
   to the host it is meant for, or to the gateway when that host is far; an
   echo reply at worst takes the way by the gateway (net/ip.c:26-29). *)
THEOREM FramesAreWellAddressed == IpSpec => FramesFindTheirHost
<1>1. IpInv /\ [IpNext]_ipVars =>
        [frame' # frame =>
           \/ frame'.mac = IF frame'.dst \in Subnet THEN frame'.dst ELSE Gw
           \/ job.at = "flush" /\ frame'.mac = Gw]_ipVars
  <2> SUFFICES ASSUME IpInv, IpNext, frame' # frame
               PROVE  \/ frame'.mac = IF frame'.dst \in Subnet THEN frame'.dst ELSE Gw
                      \/ job.at = "flush" /\ frame'.mac = Gw
    OBVIOUS
  <2>1. IpSent
    BY DEF IpNext, Poll, IpFails, Arping, ArpingEnds, Ping, Flush, PingAnswered, PingWaits, PingTimeout,
           ResolveCached, Resolve, DnsAnswered, DnsTimeout
  <2>2. frame' = [dst |-> Dst, mac |-> arp[Target]] /\ Target \in DOMAIN arp /\ sending.on
    BY <2>1 DEF IpSent
  <2>3. arp[Target] = Target /\ Target \in Subnet
    BY <2>2 DEF IpInv, ArpIsTrue
  <2>4. job.at # "flush" => (sending.direct <=> Dst \in Subnet)
    BY <2>2 DEF IpInv, WayIsRight
  <2> QED
    BY <2>2, <2>3, <2>4 DEF Target
<1> QED
  BY <1>1, IpInvHolds, PTL DEF IpSpec, FramesFindTheirHost

-------------------------------------------------------------------------------
(* The two tables keep to their sizes, and ip_send is in progress whenever the
   command is one that sends. *)
TablesFit ==
  /\ IsFiniteSet(DOMAIN arp) /\ Cardinality(DOMAIN arp) <= ArpSize
  /\ Len(cache) <= CacheSize
  /\ pending.on => pending.dst \in Hosts
  /\ job.at \in {"query", "echo", "flush"} => sending.on

LEMMA ArpFits ==
  ASSUME TablesFit, NEW h \in Subnet, ArpHandle(h)
  PROVE  IsFiniteSet(DOMAIN arp') /\ Cardinality(DOMAIN arp') <= ArpSize
<1>1. IsFiniteSet(DOMAIN arp) /\ Cardinality(DOMAIN arp) <= ArpSize /\ Cardinality(DOMAIN arp) \in Nat
      /\ ArpSize \in Nat
  BY FS_CardinalityType, IpAssumption DEF TablesFit
<1>2. CASE arp' = arp
  BY <1>1, <1>2
<1>3. CASE /\ h \in DOMAIN arp \/ Cardinality(DOMAIN arp) < ArpSize
           /\ arp' = [x \in DOMAIN arp \cup {h} |-> IF x = h THEN h ELSE arp[x]]
  <2>1. DOMAIN arp' = DOMAIN arp \cup {h}
    BY <1>3
  <2>2. /\ IsFiniteSet(DOMAIN arp \cup {h})
        /\ Cardinality(DOMAIN arp \cup {h})
             = IF h \in DOMAIN arp THEN Cardinality(DOMAIN arp) ELSE Cardinality(DOMAIN arp) + 1
    BY <1>1, FS_AddElement
  <2> QED
    BY <1>1, <1>3, <2>1, <2>2
<1> QED
  BY <1>2, <1>3 DEF ArpHandle

LEMMA ArpStaysSmall ==
  ASSUME TablesFit, IpNext
  PROVE  IsFiniteSet(DOMAIN arp') /\ Cardinality(DOMAIN arp') <= ArpSize
<1>1. arp' = arp \/ \E h \in Subnet : ArpHandle(h)
  BY DEF IpNext, Poll, IpHandle, EchoRequest, EchoReply, UdpHandle, IpSent, IpFails, Arping,
         ArpingEnds, Ping, Flush, PingAnswered, PingWaits, PingTimeout, ResolveCached, Resolve,
         DnsAnswered, DnsTimeout
<1> QED
  BY <1>1, ArpFits DEF TablesFit

LEMMA CacheStaysSmall ==
  ASSUME IpInv, TablesFit, IpNext
  PROVE  Len(cache') <= CacheSize
<1>1. cache' = cache \/ CacheStore(job.name, query.ip)
  BY DEF IpNext, Poll, IpSent, IpFails, Arping, ArpingEnds, Ping, Flush, PingAnswered, PingWaits,
         PingTimeout, ResolveCached, Resolve, DnsAnswered, DnsTimeout
<1>2. CASE CacheStore(job.name, query.ip)
  <2> DEFINE entry == [name |-> Cut(job.name), ip |-> query.ip]
  <2>1. cache' = IF Len(cache) < CacheSize THEN Append(cache, entry) ELSE [cache EXCEPT ![1] = entry]
    BY <1>2 DEF CacheStore
  <2> HIDE DEF entry
  <2>2. cache \in Seq([name : Names, ip : Hosts]) /\ Len(cache) \in Nat /\ CacheSize \in Nat
    BY LenProperties, IpAssumption DEF IpInv, IpKinds
  <2>3. CASE Len(cache) < CacheSize
    <3>1. cache' = Append(cache, entry)
      BY <2>1, <2>3
    <3>2. Len(cache') = Len(cache) + 1
      BY <2>2, <3>1
    <3> QED
      BY <2>2, <2>3, <3>2
  <2>4. CASE ~(Len(cache) < CacheSize)
    <3>1. cache' = [cache EXCEPT ![1] = entry]
      BY <2>1, <2>4
    <3>2. Len(cache') = Len(cache)
      BY <2>2, <3>1
    <3> QED
      BY <3>2 DEF TablesFit
  <2> QED
    BY <2>3, <2>4
<1> QED
  BY <1>1, <1>2 DEF TablesFit

LEMMA PendingIsAHost ==
  ASSUME IpInv, TablesFit, IpNext
  PROVE  pending'.on => pending'.dst \in Hosts
<1>1. \/ pending' = pending \/ pending' = [pending EXCEPT !.on = FALSE]
      \/ \E h \in Hosts : pending' = [on |-> TRUE, dst |-> h]
  BY DEF IpNext, Poll, IpHandle, ArpHandle, EchoRequest, EchoReply, UdpHandle, IpSent, IpFails,
         Arping, ArpingEnds, Ping, Flush, PingAnswered, PingWaits, PingTimeout, ResolveCached,
         Resolve, DnsAnswered, DnsTimeout
<1>2. pending \in [on : BOOLEAN, dst : Address]
  BY DEF IpInv, IpKinds
<1> QED
  BY <1>1, <1>2 DEF TablesFit

(* An ip_send begins with the command's move to a phase that sends, and ends
   with its move on. *)
LEMMA SendersSend ==
  ASSUME IpInv, TablesFit, IpNext
  PROVE  job'.at \in {"query", "echo", "flush"} => sending'.on
<1>1. job \in JobType /\ sending \in Sending
  BY DEF IpInv, IpKinds
<1>2. \A dst : IpSend(dst) => sending'.on
  BY SendStarts
<1>3. CASE Poll \/ PingWaits
  <2>1. sending' = sending /\ (job'.at = job.at \/ job'.at \in {"polled", "wait"})
    BY <1>1, <1>3 DEF Poll, PingWaits, JobType
  <2> QED
    BY <2>1 DEF TablesFit
<1>4. CASE IpSent \/ (IpFails /\ job.at # "echo")
  <2>1. job' = [job EXCEPT !.at = After(@)] /\ job.at \in {"query", "echo", "flush"}
    BY <1>4 DEF IpSent, IpFails, IpInv, WayIsRight
  <2>2. job'.at = After(job.at)
    BY <1>1, <2>1 DEF JobType
  <2> QED
    BY <2>1, <2>2 DEF After
<1>5. CASE (IpFails /\ job.at = "echo") \/ PingAnswered \/ PingTimeout
  <2>1. NextEcho(job)
    BY <1>5 DEF IpFails, PingAnswered, PingTimeout
  <2>2. job' = Idle \/ sending'.on
    BY <1>1, <2>1, EchoOrEnd DEF IpInv
  <2> QED
    BY <2>2, IdleIsAJob
<1>6. CASE Flush
  <2>1. CASE pending.on
    BY <1>2, <1>6, <2>1 DEF Flush
  <2>2. CASE ~pending.on
    <3>1. job' = [job EXCEPT !.at = "judge"]
      BY <1>6, <2>2 DEF Flush
    <3> QED
      BY <1>1, <3>1 DEF JobType
  <2> QED
    BY <2>1, <2>2
<1>7. ASSUME NEW j, Resolved(j) PROVE job' = Idle \/ sending'.on
  BY <1>2, <1>7 DEF Resolved, StartPing
<1>8. CASE ArpingEnds \/ DnsAnswered \/ DnsTimeout
  <2>1. job' = Idle \/ sending'.on
    BY <1>7, <1>8 DEF ArpingEnds, DnsAnswered, DnsTimeout
  <2> QED
    BY <2>1, IdleIsAJob
<1>9. CASE \E n \in Names : ResolveCached(n) \/ Resolve(n)
  <2>1. job' = Idle \/ sending'.on
    BY <1>2, <1>7, <1>9 DEF ResolveCached, Resolve
  <2> QED
    BY <2>1, IdleIsAJob
<1>10. CASE (\E h \in Subnet : Arping(h)) \/ (\E h \in Pinged : Ping(h))
  <2>1. job'.at = "arping" \/ sending'.on
    BY <1>2, <1>10 DEF Arping, Ping, StartPing, Idle
  <2> QED
    BY <2>1
<1> QED
  BY <1>3, <1>4, <1>5, <1>6, <1>8, <1>9, <1>10 DEF IpNext

LEMMA TablesStep == IpInv /\ TablesFit /\ [IpNext]_ipVars => TablesFit'
<1> SUFFICES ASSUME IpInv, TablesFit, [IpNext]_ipVars PROVE TablesFit'
  OBVIOUS
<1>1. CASE UNCHANGED ipVars
  BY <1>1 DEF ipVars, TablesFit
<1>2. CASE IpNext
  <2>1. (IsFiniteSet(DOMAIN arp) /\ Cardinality(DOMAIN arp) <= ArpSize)'
    BY <1>2, ArpStaysSmall
  <2>2. (Len(cache) <= CacheSize)'
    BY <1>2, CacheStaysSmall
  <2>3. (pending.on => pending.dst \in Hosts)'
    BY <1>2, PendingIsAHost
  <2>4. (job.at \in {"query", "echo", "flush"} => sending.on)'
    BY <1>2, SendersSend
  <2> QED
    BY <2>1, <2>2, <2>3, <2>4 DEF TablesFit
<1> QED
  BY <1>1, <1>2

LEMMA TablesFirst == IpInit => TablesFit
<1> SUFFICES ASSUME IpInit PROVE TablesFit
  OBVIOUS
<1>1. DOMAIN arp = {} /\ cache = <<>>
  BY DEF IpInit
<1>2. Len(cache) = 0
  BY <1>1
<1>3. IsFiniteSet(DOMAIN arp) /\ Cardinality(DOMAIN arp) = 0
  BY <1>1, FS_EmptySet
<1>4. ArpSize \in Nat /\ CacheSize \in Nat
  BY IpAssumption
<1>5. job.at = "idle" /\ ~pending.on
  BY IdleIsAJob DEF IpInit
<1> QED
  BY <1>2, <1>3, <1>4, <1>5 DEF TablesFit

LEMMA IpTypesStay == IpSpec => []IpTypeOK
<1>1. IpInv /\ TablesFit => IpTypeOK
  BY DEF IpInv, IpKinds, ArpIsTrue, WayIsRight, AnswersFit, TablesFit, IpTypeOK
<1> QED
  BY <1>1, IpFirst, IpStep, TablesFirst, TablesStep, PTL DEF IpSpec

-------------------------------------------------------------------------------
(* TCP. *)
Numbers == 0 .. (NumMod - 1)

LEMMA Sizes ==
  /\ NumMod \in Nat /\ NumMod > 0 /\ RxBuf \in Nat /\ MaxLen \in Nat /\ MaxLen > 0
  /\ NumBytes \in Nat /\ MaxSends \in Nat /\ Isns \subseteq Numbers
BY TcpAssumption DEF Numbers

(* Sequence numbers wrap round. *)
LEMMA ModIsNumber == ASSUME NEW x \in Int PROVE x % NumMod \in Numbers
BY Sizes DEF Numbers

LEMMA ModOf ==
  ASSUME NEW x \in Int
  PROVE  /\ 0 <= x /\ x < NumMod => x % NumMod = x
         /\ NumMod <= x /\ x < 2 * NumMod => x % NumMod = x - NumMod
         /\ -NumMod <= x /\ x < 0 => x % NumMod = x + NumMod
<1>1. CASE 0 <= x /\ x < NumMod
  BY <1>1, Sizes
<1>2. CASE NumMod <= x /\ x < 2 * NumMod
  BY <1>2, Sizes
<1>3. CASE -NumMod <= x /\ x < 0
  BY <1>3, Sizes
<1> QED
  BY <1>1, <1>2, <1>3, Sizes

LEMMA MinOf ==
  ASSUME NEW a \in Int, NEW b \in Int
  PROVE  Min({a, b}) = IF a <= b THEN a ELSE b
BY DEF Min

(* What SubSeq and Bytes return. *)
LEMMA PartOf ==
  ASSUME NEW S, NEW s \in Seq(S), NEW m \in Nat \ {0}, NEW k \in 0 .. Len(s), m <= k + 1
  PROVE  /\ SubSeq(s, m, k) \in Seq(S) /\ Len(SubSeq(s, m, k)) = k - m + 1
         /\ \A i \in 1 .. (k - m + 1) : SubSeq(s, m, k)[i] = s[m + i - 1]
<1>1. m \in Int /\ k \in Int /\ Len(s) \in Nat /\ (\A i \in m .. k : s[i] \in S)
  OBVIOUS
<1>2. /\ SubSeq(s, m, k) \in Seq(S) /\ Len(SubSeq(s, m, k)) = IF m <= k THEN k - m + 1 ELSE 0
      /\ \A i \in 1 .. (k - m + 1) : SubSeq(s, m, k)[i] = s[m + i - 1]
  BY <1>1, SubSeqProperties
<1>3. m <= k \/ (~(m <= k) /\ k - m + 1 = 0)
  BY <1>1
<1> QED
  BY <1>2, <1>3

LEMMA BytesAre ==
  ASSUME NEW a \in Nat \ {0}, NEW b \in 0 .. NumBytes, a <= b + 1
  PROVE  /\ Bytes(a, b) \in Seq(1 .. NumBytes) /\ Len(Bytes(a, b)) = b - a + 1
         /\ \A k \in 1 .. (b - a + 1) : Bytes(a, b)[k] = a + k - 1
BY Sizes DEF Bytes

-------------------------------------------------------------------------------
States   == {"closed", "syn_sent", "established", "fin_wait_1", "fin_wait_2", "close_wait", "last_ack"}
ConnType == [state : States, snd : Numbers, rcv : Numbers, fin : BOOLEAN,
             rx : Seq(1 .. NumBytes), on : BOOLEAN]
Flags    == {"SYN", "ACK", "PSH", "FIN"}
SentType == [flags : SUBSET Flags, seq : Numbers, ack : Numbers, len : {0, 1}]

TcpTyped ==
  /\ conn \in ConnType /\ Len(conn.rx) <= RxBuf
  /\ call \in {"start", "connect", "open", "recv", "eof", "close", "done"}
  /\ got \in Seq(1 .. NumBytes) /\ ended \in BOOLEAN /\ hole \in BOOLEAN
  /\ toPeer \subseteq SentType /\ IsFiniteSet(toPeer)
  /\ peer \in [isn : Numbers, sent : 0 .. NumBytes, fin : BOOLEAN]
  /\ peer.fin => peer.sent = NumBytes

(* What may come: a RST, the answer to our SYN, or bytes the peer has sent,
   with its FIN after the last. *)
Came(seg) ==
  \/ seg.flags = {"RST"} /\ seg.data = <<>> /\ seg.seq \in Numbers
  \/ /\ seg.flags = {"SYN", "ACK"} /\ seg.seq = NumOf(0) /\ seg.data = <<>>
     /\ Sent("SYN") # {}
  \/ \E a \in 1 .. (peer.sent + 1), b \in 0 .. peer.sent :
       /\ a <= b + 1 /\ AckedBytes # {}
       /\ seg.seq = NumOf(a) /\ seg.data = Bytes(a, b)
       /\ \/ seg.flags = {"ACK"}
          \/ seg.flags = {"FIN", "ACK"} /\ peer.fin /\ b = NumBytes

LEMMA WhatComes ==
  ASSUME TcpTyped, NEW seg \in ToUs
  PROVE  Came(seg) /\ seg.seq \in Numbers /\ seg.data \in Seq(1 .. NumBytes)
<1>1. peer.isn \in Int /\ peer.sent \in 0 .. NumBytes
  BY DEF TcpTyped, Numbers
<1>2. \A n \in Int : NumOf(n) \in Numbers
  BY <1>1, ModIsNumber DEF NumOf, Plus
<1>3. CASE seg = Seg({"RST"}, 0, <<>>)
  <2>1. seg.flags = {"RST"} /\ seg.data = <<>> /\ seg.seq = NumOf(0)
    BY <1>3 DEF Seg
  <2> QED
    BY <1>2, <2>1 DEF Came
<1>4. CASE seg \in {Seg({"SYN", "ACK"}, 0, <<>>) : s \in Sent("SYN")}
  <2>1. seg = Seg({"SYN", "ACK"}, 0, <<>>) /\ Sent("SYN") # {}
    BY <1>4
  <2>2. seg.flags = {"SYN", "ACK"} /\ seg.data = <<>> /\ seg.seq = NumOf(0)
    BY <2>1 DEF Seg
  <2>3. Came(seg)
    BY <2>1, <2>2, Zenon DEF Came
  <2> QED
    BY <1>2, <2>2, <2>3
<1>5. ASSUME AckedBytes # {}, NEW ab \in Pieces, NEW f \in {{"ACK"}, {"FIN", "ACK"}},
             f = {"FIN", "ACK"} => peer.fin /\ ab[2] = NumBytes,
             seg = Seg(f, ab[1], Bytes(ab[1], ab[2]))
      PROVE  Came(seg) /\ seg.seq \in Numbers /\ seg.data \in Seq(1 .. NumBytes)
  <2>1. /\ ab[1] \in 1 .. (peer.sent + 1) /\ ab[2] \in 0 .. peer.sent /\ ab[1] <= ab[2] + 1
    BY DEF Pieces
  <2>2. ab[1] \in Nat \ {0} /\ ab[2] \in 0 .. NumBytes /\ ab[1] \in Int
    BY <1>1, <2>1, Sizes
  <2>3. Bytes(ab[1], ab[2]) \in Seq(1 .. NumBytes)
    BY <2>1, <2>2, BytesAre
  <2>4. /\ seg.flags = f /\ seg.seq = NumOf(ab[1]) /\ seg.data = Bytes(ab[1], ab[2])
    BY <1>5 DEF Seg
  <2>5. \/ seg.flags = {"ACK"}
        \/ seg.flags = {"FIN", "ACK"} /\ peer.fin /\ ab[2] = NumBytes
    BY <1>5, <2>4
  <2>6. Came(seg)
    BY <1>5, <2>1, <2>4, <2>5, Zenon DEF Came
  <2> QED
    BY <1>2, <2>2, <2>3, <2>4, <2>6
<1>6. CASE AckedBytes # {} /\ seg \in {Seg({"ACK"}, ab[1], Bytes(ab[1], ab[2])) : ab \in Pieces}
  BY <1>5, <1>6
<1>7. CASE AckedBytes # {} /\ seg \in {Seg({"FIN", "ACK"}, ab[1], Bytes(ab[1], ab[2])) :
                     ab \in {p \in Pieces : peer.fin /\ p[2] = NumBytes}}
  BY <1>5, <1>7
<1> QED
  BY <1>3, <1>4, <1>6, <1>7 DEF ToUs

(* A segment of ours is well formed. *)
LEMMA OutTyped ==
  ASSUME NEW f \in SUBSET Flags, NEW c, c.snd \in Numbers, c.rcv \in Numbers, NEW len \in {0, 1}
  PROVE  Out(f, c, len) \subseteq SentType /\ IsFiniteSet(Out(f, c, len))
<1>1. 0 \in Numbers
  BY Sizes DEF Numbers
<1>2. Out(f, c, len) \subseteq SentType
  BY <1>1 DEF Out, SentType
<1>3. IsFiniteSet(Out(f, c, len))
  BY FS_Singleton DEF Out
<1> QED
  BY <1>2, <1>3

-------------------------------------------------------------------------------
(* What is kept of the data of a segment. *)
Room(c, seg) == IF Len(seg.data) <= RxBuf - Len(c.rx) THEN Len(seg.data) ELSE RxBuf - Len(c.rx)

LEMMA TakenData ==
  ASSUME NEW c \in ConnType, Len(c.rx) <= RxBuf, NEW seg, seg.data \in Seq(1 .. NumBytes), Wanted(c, seg)
  PROVE  /\ Room(c, seg) \in 0 .. Len(seg.data)
         /\ TakeData(c, seg) = [c EXCEPT !.rx = c.rx \o SubSeq(seg.data, 1, Room(c, seg)),
                                         !.rcv = Plus(c.rcv, Len(seg.data))]
         /\ SubSeq(seg.data, 1, Room(c, seg)) \in Seq(1 .. NumBytes)
         /\ Len(SubSeq(seg.data, 1, Room(c, seg))) = Room(c, seg)
<1>1. c.rx \in Seq(1 .. NumBytes) /\ Len(c.rx) \in Nat /\ Len(seg.data) \in Nat
  BY DEF ConnType
<1>2. Min({Len(seg.data), RxBuf - Len(c.rx)}) = Room(c, seg) /\ Room(c, seg) \in 0 .. Len(seg.data)
  <2>1. Len(seg.data) \in Int /\ RxBuf - Len(c.rx) \in Nat
    BY <1>1, Sizes
  <2>2. Min({Len(seg.data), RxBuf - Len(c.rx)}) = Room(c, seg)
    BY <2>1, MinOf DEF Room
  <2> QED
    BY <1>1, <2>1, <2>2 DEF Room
<1>3. TakeData(c, seg) = [c EXCEPT !.rx = c.rx \o SubSeq(seg.data, 1, Room(c, seg)),
                                   !.rcv = Plus(c.rcv, Len(seg.data))]
  BY <1>2 DEF TakeData
<1>4. SubSeq(seg.data, 1, Room(c, seg)) \in Seq(1 .. NumBytes)
      /\ Len(SubSeq(seg.data, 1, Room(c, seg))) = Room(c, seg)
  <2> DEFINE k == Room(c, seg)
  <2>1. k \in 0 .. Len(seg.data) /\ 1 <= k + 1 /\ k - 1 + 1 = k /\ 1 \in Nat \ {0}
    BY <1>1, <1>2
  <2> HIDE DEF k
  <2>2. SubSeq(seg.data, 1, k) \in Seq(1 .. NumBytes) /\ Len(SubSeq(seg.data, 1, k)) = k - 1 + 1
    BY <1>1, <2>1, PartOf, Zenon
  <2> QED
    BY <2>1, <2>2 DEF k
<1> QED
  BY <1>2, <1>3, <1>4

LEMMA TakeTyped ==
  ASSUME NEW c \in ConnType, Len(c.rx) <= RxBuf, NEW seg, seg.data \in Seq(1 .. NumBytes)
  PROVE  /\ TakeData(c, seg) \in ConnType /\ Len(TakeData(c, seg).rx) <= RxBuf
         /\ \A d \in ConnType : /\ TakeAck(d, seg) \in ConnType /\ TakeAck(d, seg).rx = d.rx
                                /\ TakeFin(d, seg) \in ConnType /\ TakeFin(d, seg).rx = d.rx
<1>1. TakeData(c, seg) \in ConnType /\ Len(TakeData(c, seg).rx) <= RxBuf
  <2>1. CASE ~Wanted(c, seg)
    BY <2>1 DEF TakeData
  <2>2. CASE Wanted(c, seg)
    <3> DEFINE s == SubSeq(seg.data, 1, Room(c, seg))
               r == Plus(c.rcv, Len(seg.data))
    <3>1. /\ TakeData(c, seg) = [c EXCEPT !.rx = c.rx \o s, !.rcv = r]
          /\ s \in Seq(1 .. NumBytes) /\ Len(s) = Room(c, seg)
      BY <2>2, TakenData
    <3>2. c.rx \in Seq(1 .. NumBytes) /\ c.rcv \in Int /\ Len(seg.data) \in Nat /\ Len(c.rx) \in Nat
      BY DEF ConnType, Numbers
    <3>3. r \in Numbers
      BY <3>2, ModIsNumber DEF Plus
    <3>4. c.rx \o s \in Seq(1 .. NumBytes) /\ Len(c.rx \o s) = Len(c.rx) + Room(c, seg)
      BY <3>1, <3>2, ConcatProperties
    <3>5. Len(c.rx) + Room(c, seg) <= RxBuf
      <4> DEFINE have == Len(c.rx)
                 come == Len(seg.data)
      <4>1. have \in Int /\ come \in Int /\ RxBuf \in Int
        BY <3>2, Sizes
      <4>2. Room(c, seg) = IF come <= RxBuf - have THEN come ELSE RxBuf - have
        BY DEF Room
      <4> HIDE DEF have, come
      <4>3. have + Room(c, seg) <= RxBuf
        BY <4>1, <4>2
      <4> QED
        BY <4>3 DEF have
    <3> HIDE DEF s, r
    <3> QED
      BY <3>1, <3>3, <3>4, <3>5 DEF ConnType
  <2> QED
    BY <2>1, <2>2
<1>2. ASSUME NEW d \in ConnType
      PROVE  /\ TakeAck(d, seg) \in ConnType /\ TakeAck(d, seg).rx = d.rx
             /\ TakeFin(d, seg) \in ConnType /\ TakeFin(d, seg).rx = d.rx
  <2>1. TakeAck(d, seg) \in ConnType /\ TakeAck(d, seg).rx = d.rx
    BY DEF TakeAck, ConnType, States
  <2>2. Plus(d.rcv, 1) \in Numbers
    <3>1. d.rcv + 1 \in Int
      BY DEF ConnType, Numbers
    <3> QED
      BY <3>1, ModIsNumber DEF Plus
  <2>3. TakeFin(d, seg) \in ConnType /\ TakeFin(d, seg).rx = d.rx
    BY <2>2 DEF TakeFin, ConnType, States
  <2> QED
    BY <2>1, <2>3
<1> QED
  BY <1>1, <1>2

(* A field of the connection changes and keeps its type. *)
LEMMA ConnFields ==
  ASSUME NEW c \in ConnType
  PROVE  /\ c.snd \in Numbers /\ c.rcv \in Numbers /\ c.fin \in BOOLEAN
         /\ c.state \in States /\ c.rx \in Seq(1 .. NumBytes) /\ Len(c.rx) \in Nat
         /\ Plus(c.snd, 1) \in Numbers
         /\ \A st \in States : [c EXCEPT !.state = st] \in ConnType
<1>1. /\ c.snd \in Numbers /\ c.rcv \in Numbers /\ c.fin \in BOOLEAN
      /\ c.state \in States /\ c.rx \in Seq(1 .. NumBytes)
      /\ \A st \in States : [c EXCEPT !.state = st] \in ConnType
  BY DEF ConnType
<1>2. Plus(c.snd, 1) \in Numbers
  <2>1. c.snd + 1 \in Int
    BY <1>1 DEF Numbers
  <2> QED
    BY <2>1, ModIsNumber DEF Plus
<1>3. Len(c.rx) \in Nat
  BY <1>1
<1> QED
  BY <1>1, <1>2, <1>3

LEMMA MoreSent ==
  ASSUME TcpTyped, NEW f \in SUBSET Flags, NEW c \in ConnType, NEW len \in {0, 1}
  PROVE  /\ toPeer \cup Out(f, c, len) \subseteq SentType
         /\ IsFiniteSet(toPeer \cup Out(f, c, len))
<1>1. Out(f, c, len) \subseteq SentType /\ IsFiniteSet(Out(f, c, len))
  BY ConnFields, OutTyped
<1>2. IsFiniteSet(toPeer \cup Out(f, c, len))
  BY <1>1, FS_Union DEF TcpTyped
<1> QED
  BY <1>1, <1>2 DEF TcpTyped

(* A segment that comes leaves everything of its type. *)
LEMMA ArriveTyped ==
  ASSUME TcpTyped, NEW seg \in ToUs, Arrive(seg)
  PROVE  TcpTyped'
<1>1. seg.seq \in Numbers /\ seg.data \in Seq(1 .. NumBytes) /\ conn \in ConnType
      /\ Len(conn.rx) <= RxBuf
  BY WhatComes DEF TcpTyped
<1>2. UNCHANGED <<call, got, ended, peer>>
  BY DEF Arrive
<1>3. CASE Rst(seg)
  <2>1. conn' \in ConnType /\ conn'.rx = conn.rx
    BY <1>1, <1>3 DEF Rst, ConnType, States
  <2> QED
    BY <1>2, <1>3, <2>1 DEF Rst, TcpTyped
<1>4. CASE SynAck(seg)
  <2>1. Plus(seg.seq, 1) \in Numbers
    <3>1. seg.seq + 1 \in Int
      BY <1>1 DEF Numbers
    <3> QED
      BY <3>1, ModIsNumber DEF Plus
  <2>2. conn' \in ConnType /\ conn'.rx = conn.rx
    BY <1>1, <1>4, <2>1 DEF SynAck, ConnType, States
  <2>3. /\ toPeer' \subseteq SentType /\ IsFiniteSet(toPeer')
    <3>1. {"ACK"} \in SUBSET Flags /\ 0 \in {0, 1} /\ toPeer' = toPeer \cup Out({"ACK"}, conn', 0)
      BY <1>4 DEF SynAck, Flags
    <3> QED
      BY <2>2, <3>1, MoreSent
  <2> QED
    BY <1>2, <1>4, <2>2, <2>3 DEF SynAck, TcpTyped
<1>5. CASE Exchange(seg)
  <2> DEFINE c1 == TakeData(conn, seg)
             c2 == TakeAck(c1, seg)
             c3 == TakeFin(c2, seg)
             a1 == IF c1 # conn THEN Out({"ACK"}, c1, 0) ELSE {}
             a3 == IF c3 # c2 THEN Out({"ACK"}, c3, 0) ELSE {}
  <2>1. c1 \in ConnType /\ Len(c1.rx) <= RxBuf
    BY <1>1, TakeTyped
  <2>2. c2 \in ConnType /\ c2.rx = c1.rx
    BY <1>1, <2>1, TakeTyped
  <2>3. c3 \in ConnType /\ c3.rx = c1.rx
    BY <1>1, <2>2, TakeTyped
  <2>4. /\ conn' = c3 /\ toPeer' = toPeer \cup a1 \cup a3
        /\ hole' \in BOOLEAN
    BY <1>5 DEF Exchange
  <2>5. a1 \subseteq SentType /\ IsFiniteSet(a1)
    <3>1. {"ACK"} \in SUBSET Flags /\ 0 \in {0, 1}
      BY DEF Flags
    <3>2. Out({"ACK"}, c1, 0) \subseteq SentType /\ IsFiniteSet(Out({"ACK"}, c1, 0))
      BY <2>1, <3>1, ConnFields, OutTyped
    <3> QED
      BY <3>2, FS_EmptySet
  <2>6. a3 \subseteq SentType /\ IsFiniteSet(a3)
    <3>1. {"ACK"} \in SUBSET Flags /\ 0 \in {0, 1}
      BY DEF Flags
    <3>2. Out({"ACK"}, c3, 0) \subseteq SentType /\ IsFiniteSet(Out({"ACK"}, c3, 0))
      BY <2>3, <3>1, ConnFields, OutTyped
    <3> QED
      BY <3>2, FS_EmptySet
  <2> HIDE DEF c1, c2, c3, a1, a3
  <2>7. IsFiniteSet(toPeer \cup a1)
    BY <2>5, FS_Union DEF TcpTyped
  <2>8. IsFiniteSet(toPeer') /\ toPeer' \subseteq SentType
    BY <2>4, <2>5, <2>6, <2>7, FS_Union DEF TcpTyped
  <2> QED
    BY <1>2, <2>1, <2>3, <2>4, <2>8 DEF TcpTyped
<1>6. CASE LastAck(seg)
  <2>1. conn' \in ConnType /\ conn'.rx = conn.rx
    BY <1>1, <1>6 DEF LastAck, ConnType, States
  <2> QED
    BY <1>2, <1>6, <2>1 DEF LastAck, TcpTyped
<1> QED
  BY <1>3, <1>4, <1>5, <1>6 DEF Arrive

(* The flags our segments carry. *)
LEMMA SentFlags ==
  /\ {"SYN"} \in SUBSET Flags /\ {"PSH", "ACK"} \in SUBSET Flags
  /\ {"FIN", "ACK"} \in SUBSET Flags /\ {"ACK"} \in SUBSET Flags
BY DEF Flags

(* tcp_recv takes the first bytes of the buffer. *)
LEMMA Taken ==
  ASSUME TcpTyped, RecvData
  PROVE  /\ got' \in Seq(1 .. NumBytes) /\ conn' \in ConnType /\ Len(conn'.rx) <= RxBuf
         /\ got' \o conn'.rx = got \o conn.rx
         /\ conn' = [conn EXCEPT !.rx = conn'.rx]
         /\ conn.rx # <<>>
<1> DEFINE x == conn.rx
           n == Min({Len(x), MaxLen})
           p == SubSeq(x, 1, n)
           q == SubSeq(x, n + 1, Len(x))
<1>1. /\ x \in Seq(1 .. NumBytes) /\ Len(x) \in Nat /\ Len(x) <= RxBuf /\ conn \in ConnType
      /\ got \in Seq(1 .. NumBytes)
  BY ConnFields DEF TcpTyped
<1>2. n \in 0 .. Len(x)
  <2>1. Len(x) \in Int /\ MaxLen \in Int /\ 0 <= MaxLen
    BY <1>1, Sizes
  <2> QED
    BY <1>1, <2>1, MinOf
<1>3. got' = got \o p /\ conn' = [conn EXCEPT !.rx = q] /\ x # <<>>
  BY DEF RecvData
<1> HIDE DEF x, n
<1>4. /\ 1 \in Nat \ {0} /\ n + 1 \in Nat \ {0} /\ Len(x) \in 0 .. Len(x)
      /\ 1 <= n + 1 /\ n + 1 <= Len(x) + 1
  BY <1>1, <1>2
<1>5. /\ p \in Seq(1 .. NumBytes) /\ Len(p) = n - 1 + 1
      /\ \A i \in 1 .. (n - 1 + 1) : p[i] = x[1 + i - 1]
  BY <1>1, <1>2, <1>4, PartOf, Zenon
<1>6. /\ q \in Seq(1 .. NumBytes) /\ Len(q) = Len(x) - (n + 1) + 1
      /\ \A i \in 1 .. (Len(x) - (n + 1) + 1) : q[i] = x[(n + 1) + i - 1]
  BY <1>1, <1>2, <1>4, PartOf, Zenon
<1> HIDE DEF p, q
<1>7. p \o q = x
  <2>1. /\ Len(p) = n /\ Len(q) = Len(x) - n /\ n \in Nat /\ p \o q \in Seq(1 .. NumBytes)
    BY <1>1, <1>2, <1>5, <1>6, ConcatProperties
  <2>2. Len(p \o q) = Len(x)
    <3>1. Len(p \o q) = Len(p) + Len(q)
      BY <1>5, <1>6, ConcatProperties
    <3> QED
      BY <1>1, <2>1, <3>1
  <2>3. ASSUME NEW i \in 1 .. Len(x) PROVE (p \o q)[i] = x[i]
    <3>1. CASE i <= n
      <4>1. (p \o q)[i] = p[i]
        BY <1>1, <1>2, <1>5, <1>6, <2>1, <3>1, ConcatProperties
      <4>2. i \in 1 .. (n - 1 + 1) /\ 1 + i - 1 = i
        BY <1>1, <1>2, <3>1
      <4> QED
        BY <1>5, <4>1, <4>2
    <3>2. CASE ~(i <= n)
      <4>1. (p \o q)[i] = q[i - n]
        BY <1>1, <1>2, <1>5, <1>6, <2>1, <3>2, ConcatProperties
      <4>2. i - n \in 1 .. (Len(x) - (n + 1) + 1) /\ (n + 1) + (i - n) - 1 = i
        BY <1>1, <1>2, <3>2
      <4>3. q[i - n] = x[(n + 1) + (i - n) - 1]
        BY <1>6, <4>2
      <4> QED
        BY <4>1, <4>2, <4>3
    <3> QED
      BY <3>1, <3>2
  <2> QED
    BY <1>1, <2>1, <2>2, <2>3, SeqEqual
<1>8. (got \o p) \o q = got \o (p \o q)
  <2>1. got \in Seq(1 .. NumBytes) /\ p \in Seq(1 .. NumBytes) /\ q \in Seq(1 .. NumBytes)
    BY <1>1, <1>5, <1>6
  <2> QED
    BY <2>1, ConcatAssociative
<1>9. conn' \in ConnType /\ conn'.rx = q
  BY <1>1, <1>3, <1>6 DEF ConnType
<1>10. Len(q) <= RxBuf
  BY <1>1, <1>2, <1>6, Sizes
<1>11. got' \in Seq(1 .. NumBytes)
  BY <1>1, <1>3, <1>5, ConcatProperties
<1> QED
  BY <1>3, <1>7, <1>8, <1>9, <1>10, <1>11 DEF x

(* The calls of tcp.c, and the peer, leave everything of its type. *)
LEMMA CallsTyped ==
  ASSUME TcpTyped, Calls
  PROVE  TcpTyped'
<1>1. /\ conn \in ConnType /\ conn.snd \in Numbers /\ Plus(conn.snd, 1) \in Numbers
      /\ Len(conn.rx) <= RxBuf
  BY ConnFields DEF TcpTyped
<1>2. CASE Connect
  <2>1. conn' \in ConnType /\ conn'.rx = conn.rx
    BY <1>1, <1>2 DEF Connect, ConnType, States
  <2>2. toPeer' = toPeer \cup Out({"SYN"}, conn, 0)
    BY <1>2 DEF Connect
  <2>3. toPeer' \subseteq SentType /\ IsFiniteSet(toPeer')
    BY <1>1, <2>2, SentFlags, MoreSent
  <2> QED
    BY <1>2, <2>1, <2>3 DEF Connect, TcpTyped
<1>3. CASE Connected \/ Refused \/ Recv \/ RecvEnd \/ RecvTimeout
  <2>1. UNCHANGED <<conn, got, hole, toPeer, peer>> /\ ended' \in BOOLEAN
        /\ call' \in {"start", "connect", "open", "recv", "eof", "close", "done"}
    BY <1>3 DEF Connected, Refused, Recv, RecvEnd, RecvTimeout, TcpTyped
  <2> QED
    BY <2>1 DEF TcpTyped
<1>4. CASE ConnectTimeout \/ Closed
  <2>1. conn' \in ConnType /\ conn'.rx = conn.rx
    BY <1>1, <1>4 DEF ConnectTimeout, Closed, ConnType, States
  <2>2. UNCHANGED <<got, ended, hole, toPeer, peer>> /\ call' = "done"
    BY <1>4 DEF ConnectTimeout, Closed
  <2> QED
    BY <2>1, <2>2 DEF TcpTyped
<1>5. CASE SendByte
  <2>1. conn' \in ConnType /\ conn'.rx = conn.rx
    BY <1>1, <1>5 DEF SendByte, ConnType, States
  <2>2. toPeer' = toPeer \cup Out({"PSH", "ACK"}, conn, 1)
    BY <1>5 DEF SendByte
  <2>3. toPeer' \subseteq SentType /\ IsFiniteSet(toPeer')
    BY <1>1, <2>2, SentFlags, MoreSent
  <2> QED
    BY <1>5, <2>1, <2>3 DEF SendByte, TcpTyped
<1>6. CASE RecvData
  <2>1. /\ got' \in Seq(1 .. NumBytes) /\ conn' \in ConnType /\ Len(conn'.rx) <= RxBuf
    BY <1>6, Taken
  <2> QED
    BY <1>6, <2>1 DEF RecvData, TcpTyped
<1>7. CASE Close
  <2>1. conn' \in ConnType /\ conn'.rx = conn.rx
    BY <1>1, <1>7 DEF Close, ConnType, States
  <2>2. toPeer' \in {toPeer, toPeer \cup Out({"FIN", "ACK"}, conn, 0)}
    BY <1>7 DEF Close
  <2>3. toPeer' \subseteq SentType /\ IsFiniteSet(toPeer')
    BY <1>1, <2>2, SentFlags, MoreSent DEF TcpTyped
  <2> QED
    BY <1>7, <2>1, <2>3 DEF Close, TcpTyped
<1> QED
  BY <1>2, <1>3, <1>4, <1>5, <1>6, <1>7 DEF Calls

LEMMA PeerTyped ==
  ASSUME TcpTyped, Peer
  PROVE  /\ TcpTyped' /\ peer'.isn = peer.isn /\ peer.sent <= peer'.sent
         /\ (peer.fin => peer'.fin)
<1>1. peer \in [isn : Numbers, sent : 0 .. NumBytes, fin : BOOLEAN]
      /\ (peer.fin => peer.sent = NumBytes)
  BY DEF TcpTyped
<1>2. CASE PeerSends
  <2>1. peer.sent \in Int /\ peer.sent < NumBytes /\ 0 <= peer.sent /\ ~peer.fin
        /\ peer' = [peer EXCEPT !.sent = peer.sent + 1]
    BY <1>1, <1>2, Sizes DEF PeerSends
  <2>2. peer.sent + 1 \in 0 .. NumBytes
    BY <2>1, Sizes
  <2>3. /\ peer' \in [isn : Numbers, sent : 0 .. NumBytes, fin : BOOLEAN]
        /\ peer'.isn = peer.isn /\ peer'.sent = peer.sent + 1 /\ peer'.fin = peer.fin
    BY <1>1, <2>1, <2>2
  <2> QED
    BY <1>1, <2>1, <2>3 DEF Peer, TcpTyped
<1>3. CASE PeerCloses
  <2>1. /\ peer' \in [isn : Numbers, sent : 0 .. NumBytes, fin : BOOLEAN]
        /\ peer'.isn = peer.isn /\ peer'.sent = peer.sent /\ peer'.fin /\ peer'.sent = NumBytes
    BY <1>1, <1>3 DEF PeerCloses
  <2>2. peer.sent <= peer'.sent
    BY <1>1, <2>1, Sizes
  <2> QED
    BY <2>1, <2>2 DEF Peer, TcpTyped
<1> QED
  BY <1>2, <1>3 DEF Peer

LEMMA FirstTyped == TcpInit => TcpTyped
<1> SUFFICES ASSUME TcpInit PROVE TcpTyped
  OBVIOUS
<1>1. 0 \in Numbers /\ 0 \in 0 .. NumBytes
  BY Sizes DEF Numbers
<1>2. <<>> \in Seq(1 .. NumBytes) /\ Len(<<>>) = 0
  BY EmptySeq
<1>3. conn \in ConnType /\ conn.rx = <<>>
  BY <1>1, <1>2 DEF TcpInit, ConnType, States
<1>4. PICK isn \in Isns : peer = [isn |-> isn, sent |-> 0, fin |-> FALSE]
  BY DEF TcpInit
<1>5. /\ peer \in [isn : Numbers, sent : 0 .. NumBytes, fin : BOOLEAN]
      /\ ~peer.fin
  BY <1>1, <1>4, Sizes
<1>6. /\ call = "start" /\ got = <<>> /\ ended \in BOOLEAN /\ hole \in BOOLEAN /\ toPeer = {}
  BY DEF TcpInit
<1>7. Len(conn.rx) <= RxBuf
  BY <1>2, <1>3, Sizes
<1> QED
  BY <1>2, <1>3, <1>5, <1>6, <1>7, FS_EmptySet DEF TcpTyped

LEMMA TypedStep == TcpTyped /\ [TcpNext]_tcpVars => TcpTyped'
<1> SUFFICES ASSUME TcpTyped, [TcpNext]_tcpVars PROVE TcpTyped'
  OBVIOUS
<1>1. CASE UNCHANGED tcpVars
  BY <1>1 DEF tcpVars, TcpTyped
<1> QED
  BY <1>1, ArriveTyped, CallsTyped, PeerTyped DEF TcpNext

-------------------------------------------------------------------------------
(* Fewer bytes are sent than there are sequence numbers, in either direction:
   2^32 of them.  Otherwise a segment the network repeats after 2^32 bytes
   would be taken for a new one, and nothing in tcp_handle could tell. *)
FewBytes == NumBytes + 1 < NumMod /\ MaxSends + 1 < NumMod

(* What has been sent with a flag, after one segment more or none. *)
LEMMA SentMore ==
  ASSUME NEW f, NEW c, NEW len, toPeer' = toPeer \cup Out(f, c, len), NEW x
  PROVE  Sent(x)' = IF x \in f THEN Sent(x) \cup Out(f, c, len) ELSE Sent(x)
<1>1. \A s \in Out(f, c, len) : s.flags = f
  BY DEF Out
<1>2. Sent(x)' = {s \in toPeer' : x \in s.flags} /\ Sent(x) = {s \in toPeer : x \in s.flags}
  BY DEF Sent
<1> QED
  BY <1>1, <1>2

LEMMA SentSame ==
  ASSUME UNCHANGED toPeer, NEW x
  PROVE  Sent(x)' = Sent(x)
BY DEF Sent

(* Acknowledgements are the only segments sent for one that comes. *)
LEMMA AcksOnly ==
  ASSUME TcpTyped, NEW seg, Arrive(seg), NEW x \in {"SYN", "PSH", "FIN"}
  PROVE  Sent(x)' = Sent(x) /\ conn'.snd = conn.snd /\ call' = call /\ call # "start"
<1>1. call' = call /\ call # "start" /\ conn \in ConnType
  BY DEF Arrive, Polling, TcpTyped
<1>2. CASE Rst(seg) \/ LastAck(seg)
  <2>1. conn'.snd = conn.snd /\ UNCHANGED toPeer
    BY <1>1, <1>2 DEF Rst, LastAck, ConnType
  <2> QED
    BY <1>1, <2>1, SentSame
<1>3. CASE SynAck(seg)
  <2>1. conn'.snd = conn.snd /\ toPeer' = toPeer \cup Out({"ACK"}, conn', 0)
    BY <1>1, <1>3 DEF SynAck, ConnType
  <2>2. \A s \in toPeer' : x \in s.flags => s \in toPeer
    BY <2>1 DEF Out
  <2>3. toPeer \subseteq toPeer'
    BY <2>1
  <2> QED
    BY <1>1, <2>1, <2>2, <2>3 DEF Sent
<1>4. CASE Exchange(seg)
  <2> DEFINE c1 == TakeData(conn, seg)
             c2 == TakeAck(c1, seg)
             c3 == TakeFin(c2, seg)
             a1 == IF c1 # conn THEN Out({"ACK"}, c1, 0) ELSE {}
             a3 == IF c3 # c2 THEN Out({"ACK"}, c3, 0) ELSE {}
  <2>1. conn' = c3 /\ toPeer' = toPeer \cup a1 \cup a3
    BY <1>4 DEF Exchange
  <2>2. \A s \in a1 \cup a3 : s.flags = {"ACK"}
    BY DEF Out
  <2>3. \A s \in toPeer' : x \in s.flags => s \in toPeer
    BY <2>1, <2>2
  <2>4. toPeer \subseteq toPeer'
    BY <2>1
  <2>5. c1.snd = conn.snd
    BY <1>1 DEF TakeData, ConnType
  <2>6. c2.snd = c1.snd
    BY DEF TakeAck
  <2>7. c3.snd = c2.snd
    BY DEF TakeFin
  <2> HIDE DEF c1, c2, c3, a1, a3
  <2> QED
    BY <1>1, <2>1, <2>3, <2>4, <2>5, <2>6, <2>7 DEF Sent
<1> QED
  BY <1>2, <1>3, <1>4 DEF Arrive

(* The bytes we have sent lie one after the other, and our FIN after them. *)
OurNumbers ==
  /\ \A s \in Sent("PSH") : s.len = 1 /\ (Sent("FIN") = {} => s.seq + 1 <= conn.snd)
  /\ \A s, t \in Sent("PSH") : s.seq = t.seq => s = t
  /\ \A s \in Sent("PSH"), f \in Sent("FIN") : s.seq + s.len <= f.seq
  /\ call = "start" => Sent("PSH") = {} /\ Sent("FIN") = {} /\ conn.snd = 0
  /\ call # "start" /\ Sent("FIN") = {} =>
       /\ conn.snd = 1 + Cardinality(Sent("PSH")) /\ Cardinality(Sent("PSH")) <= MaxSends
  /\ Sent("FIN") # {} => call \in {"close", "done"}

LEMMA NumbersStay ==
  ASSUME OurNumbers, Sent("PSH")' = Sent("PSH"), Sent("FIN")' = Sent("FIN"),
         conn'.snd = conn.snd, call # "start", call' # "start",
         call \in {"close", "done"} => call' \in {"close", "done"}
  PROVE  OurNumbers'
<1>1. Cardinality(Sent("PSH"))' = Cardinality(Sent("PSH"))
  OBVIOUS
<1> QED
  BY <1>1 DEF OurNumbers

LEMMA SentFinite ==
  ASSUME TcpTyped, NEW x
  PROVE  IsFiniteSet(Sent(x)) /\ Sent(x) \subseteq SentType /\ Cardinality(Sent(x)) \in Nat
<1>1. Sent(x) \subseteq toPeer /\ IsFiniteSet(toPeer) /\ toPeer \subseteq SentType
  BY DEF Sent, TcpTyped
<1>2. IsFiniteSet(Sent(x))
  BY <1>1, FS_Subset
<1> QED
  BY <1>1, <1>2, FS_CardinalityType

LEMMA SendByteNumbers ==
  ASSUME FewBytes, TcpTyped, OurNumbers, SendByte
  PROVE  OurNumbers'
<1> DEFINE P == Sent("PSH")
           o == [flags |-> {"PSH", "ACK"}, seq |-> conn.snd, ack |-> conn.rcv, len |-> 1]
<1>1. /\ conn \in ConnType /\ conn.snd \in Int /\ Sent("FIN") = {} /\ call = "open" /\ call' = "open"
      /\ Cardinality(P) < MaxSends /\ conn.snd = 1 + Cardinality(P)
      /\ toPeer' = toPeer \cup Out({"PSH", "ACK"}, conn, 1)
      /\ conn' = [conn EXCEPT !.snd = Plus(@, 1)]
  BY ConnFields DEF SendByte, OurNumbers, TcpTyped, Numbers
<1>2. IsFiniteSet(P) /\ Cardinality(P) \in Nat /\ P \subseteq SentType
  BY SentFinite
<1>3. Out({"PSH", "ACK"}, conn, 1) = {o}
  BY DEF Out
<1>4. P' = P \cup {o} /\ Sent("FIN")' = {}
  BY <1>1, <1>3, SentMore
<1>5. Plus(conn.snd, 1) = conn.snd + 1
  BY <1>1, <1>2, ModOf, Sizes DEF Plus, FewBytes
<1>6. conn'.snd = conn.snd + 1
  BY <1>1, <1>5 DEF ConnType
<1>7. \A s \in P : s.seq \in Int /\ s.len = 1 /\ s.seq + 1 <= conn.snd
  BY <1>1, <1>2 DEF OurNumbers, SentType, Numbers
<1>8. o \notin P /\ o.seq = conn.snd /\ o.len = 1
  BY <1>1, <1>7
<1>9. Cardinality(P') = Cardinality(P) + 1
  BY <1>2, <1>4, <1>8, FS_AddElement
<1> HIDE DEF o
<1>10. \A s \in P' : s.len = 1 /\ s.seq + 1 <= conn'.snd
  BY <1>1, <1>4, <1>6, <1>7, <1>8
<1>11. \A s, t \in P' : s.seq = t.seq => s = t
  <2>1. \A s, t \in P : s.seq = t.seq => s = t
    BY DEF OurNumbers
  <2>2. \A s \in P : s.seq # o.seq
    BY <1>1, <1>7, <1>8
  <2> QED
    BY <1>4, <2>1, <2>2
<1>12. conn'.snd = 1 + Cardinality(P') /\ Cardinality(P') <= MaxSends
  BY <1>1, <1>2, <1>6, <1>9, Sizes
<1> QED
  BY <1>1, <1>4, <1>10, <1>11, <1>12 DEF OurNumbers

LEMMA CloseNumbers ==
  ASSUME FewBytes, TcpTyped, OurNumbers, Close
  PROVE  OurNumbers'
<1>1. /\ conn \in ConnType /\ Sent("FIN") = {} /\ call \in {"open", "eof"} /\ call' = "close"
  BY DEF Close, OurNumbers, TcpTyped
<1>2. CASE UNCHANGED <<conn, toPeer>>
  BY <1>1, <1>2, SentSame, NumbersStay
<1>3. CASE toPeer' = toPeer \cup Out({"FIN", "ACK"}, conn, 0)
  <2>1. Sent("PSH")' = Sent("PSH") /\ Sent("FIN")' = Out({"FIN", "ACK"}, conn, 0)
    BY <1>1, <1>3, SentMore
  <2>2. \A f \in Sent("FIN")' : f.seq = conn.snd
    BY <2>1 DEF Out
  <2>3. Sent("FIN")' # {}
    BY <2>1 DEF Out
  <2>4. \A s \in Sent("PSH") : s.len = 1 /\ s.seq + 1 <= conn.snd
    BY <1>1 DEF OurNumbers
  <2>5. \A s, t \in Sent("PSH")' : s.seq = t.seq => s = t
    BY <2>1 DEF OurNumbers
  <2>6. \A s \in Sent("PSH")', f \in Sent("FIN")' : s.len = 1 /\ s.seq + s.len <= f.seq
    BY <2>1, <2>2, <2>4
  <2> QED
    BY <1>1, <2>1, <2>3, <2>4, <2>5, <2>6 DEF OurNumbers
<1> QED
  BY <1>2, <1>3 DEF Close

LEMMA NumbersStep ==
  ASSUME FewBytes, TcpTyped, OurNumbers, TcpNext
  PROVE  OurNumbers'
<1>1. CASE Peer
  <2>1. UNCHANGED <<conn, call, toPeer>>
    BY <1>1 DEF Peer
  <2>2. Sent("PSH")' = Sent("PSH") /\ Sent("FIN")' = Sent("FIN")
    BY <2>1, SentSame
  <2> QED
    BY <2>1, <2>2 DEF OurNumbers
<1>2. ASSUME NEW seg, Arrive(seg) PROVE OurNumbers'
  BY <1>2, AcksOnly, NumbersStay
<1>3. CASE Connect
  <2>1. toPeer' = toPeer \cup Out({"SYN"}, conn, 0) /\ call = "start" /\ call' = "connect"
        /\ conn \in ConnType
    BY <1>3 DEF Connect, TcpTyped
  <2>2. Sent("PSH")' = {} /\ Sent("FIN")' = {} /\ conn.snd = 0
    BY <2>1, SentMore DEF OurNumbers
  <2>3. Plus(0, 1) = 1
    BY ModOf, Sizes DEF Plus, FewBytes
  <2>4. conn'.snd = 1
    BY <1>3, <2>1, <2>2, <2>3 DEF Connect, ConnType
  <2>5. Cardinality(Sent("PSH")') = 0
    BY <2>2, FS_EmptySet
  <2> QED
    BY <2>1, <2>2, <2>4, <2>5, Sizes DEF OurNumbers
<1>4. CASE Connected \/ Refused \/ Recv \/ RecvEnd \/ RecvTimeout \/ RecvData \/ ConnectTimeout \/ Closed
  <2>1. UNCHANGED toPeer /\ call # "start" /\ call' # "start" /\ conn'.snd = conn.snd
        /\ (call \in {"close", "done"} => call' \in {"close", "done"})
    BY <1>4 DEF Connected, Refused, Recv, RecvEnd, RecvTimeout, RecvData, ConnectTimeout, Closed,
                TcpTyped, ConnType
  <2> QED
    BY <2>1, SentSame, NumbersStay
<1> QED
  BY <1>1, <1>2, <1>3, <1>4, SendByteNumbers, CloseNumbers DEF TcpNext, Calls

LEMMA FirstNumbers == TcpInit => OurNumbers
<1> SUFFICES ASSUME TcpInit PROVE OurNumbers
  OBVIOUS
<1>1. toPeer = {} /\ call = "start" /\ conn.snd = 0
  BY DEF TcpInit
<1>2. \A x : Sent(x) = {}
  BY <1>1 DEF Sent
<1> QED
  BY <1>1, <1>2 DEF OurNumbers

-------------------------------------------------------------------------------
(* A byte of the peer has a sequence number, and no other byte has it; an
   acknowledgement of that number tells how many bytes were kept. *)
LEMMA NumOfIs ==
  ASSUME peer.isn \in Numbers, NEW n \in 0 .. NumMod
  PROVE  NumOf(n) = IF peer.isn + n < NumMod THEN peer.isn + n ELSE peer.isn + n - NumMod
<1>1. peer.isn \in Int /\ n \in Int /\ peer.isn + n \in Int
      /\ 0 <= peer.isn + n /\ peer.isn + n < 2 * NumMod
  BY Sizes DEF Numbers
<1> QED
  BY <1>1, ModOf, Sizes DEF NumOf, Plus

LEMMA NumOfOnce ==
  ASSUME peer.isn \in Numbers, NEW m \in 1 .. NumMod, NEW n \in 1 .. NumMod, NumOf(m) = NumOf(n)
  PROVE  m = n
<1>1. m \in 0 .. NumMod /\ n \in 0 .. NumMod
  BY Sizes
<1>2. /\ NumOf(m) = IF peer.isn + m < NumMod THEN peer.isn + m ELSE peer.isn + m - NumMod
      /\ NumOf(n) = IF peer.isn + n < NumMod THEN peer.isn + n ELSE peer.isn + n - NumMod
  BY <1>1, NumOfIs
<1>3. /\ peer.isn \in Int /\ 0 <= peer.isn /\ peer.isn < NumMod /\ NumMod \in Int
      /\ m \in Int /\ 1 <= m /\ m <= NumMod /\ n \in Int /\ 1 <= n /\ n <= NumMod
  BY Sizes DEF Numbers
<1> DEFINE x == peer.isn
<1> HIDE DEF x
<1>4. /\ x \in Int /\ 0 <= x /\ x < NumMod
      /\ (IF x + m < NumMod THEN x + m ELSE x + m - NumMod)
         = (IF x + n < NumMod THEN x + n ELSE x + n - NumMod)
  BY <1>2, <1>3 DEF x
<1>5. CASE x + m < NumMod
  <2>1. CASE x + n < NumMod
    BY <1>3, <1>4, <1>5, <2>1
  <2>2. CASE ~(x + n < NumMod)
    BY <1>3, <1>4, <1>5, <2>2
  <2> QED
    BY <2>1, <2>2
<1>6. CASE ~(x + m < NumMod)
  <2>1. CASE x + n < NumMod
    BY <1>3, <1>4, <1>6, <2>1
  <2>2. CASE ~(x + n < NumMod)
    BY <1>3, <1>4, <1>6, <2>2
  <2> QED
    BY <2>1, <2>2
<1> QED
  BY <1>5, <1>6

LEMMA NumOfPlus ==
  ASSUME peer.isn \in Numbers, NEW m \in 0 .. NumMod, NEW k \in 0 .. NumMod, m + k <= NumMod
  PROVE  Plus(NumOf(m), k) = NumOf(m + k)
<1>1. m + k \in 0 .. NumMod
  BY Sizes
<1>2. /\ NumOf(m) = IF peer.isn + m < NumMod THEN peer.isn + m ELSE peer.isn + m - NumMod
      /\ NumOf(m + k) = IF peer.isn + (m + k) < NumMod THEN peer.isn + (m + k)
                        ELSE peer.isn + (m + k) - NumMod
  BY <1>1, NumOfIs
<1>3. NumOf(m) \in Int /\ NumOf(m) + k \in Int /\ 0 <= NumOf(m) + k /\ NumOf(m) + k < 2 * NumMod
  BY <1>2, Sizes DEF Numbers
<1>4. Plus(NumOf(m), k) = IF NumOf(m) + k < NumMod THEN NumOf(m) + k ELSE NumOf(m) + k - NumMod
  BY <1>3, ModOf, Sizes DEF Plus
<1> QED
  BY <1>2, <1>3, <1>4, Sizes DEF Numbers

AckOf(s) == (s.ack - peer.isn - 1) % NumMod

LEMMA AckBack ==
  ASSUME peer.isn \in Numbers, NEW n \in 1 .. NumMod, NEW s, s.ack = NumOf(n)
  PROVE  AckOf(s) = n - 1
<1>1. NumOf(n) = IF peer.isn + n < NumMod THEN peer.isn + n ELSE peer.isn + n - NumMod
  <2>1. n \in 0 .. NumMod
    BY Sizes
  <2> QED
    BY <2>1, NumOfIs
<1> DEFINE d == s.ack - peer.isn - 1
<1>2. d \in Int /\ (d = n - 1 \/ d = n - 1 - NumMod)
  BY <1>1, Sizes DEF Numbers
<1> HIDE DEF d
<1>3. d % NumMod = n - 1
  <2>1. CASE d = n - 1
    <3>1. 0 <= d /\ d < NumMod
      BY <2>1, Sizes
    <3> QED
      BY <1>2, <2>1, <3>1, ModOf
  <2>2. CASE d = n - 1 - NumMod
    <3>1. -NumMod <= d /\ d < 0 /\ d + NumMod = n - 1
      BY <2>2, Sizes
    <3> QED
      BY <1>2, <3>1, ModOf
  <2> QED
    BY <1>2, <2>1, <2>2
<1> QED
  BY <1>3 DEF AckOf, d

-------------------------------------------------------------------------------
Fin(c) == IF c.fin THEN 1 ELSE 0

Ordered(g, x) == \A k \in 1 .. (Len(g) + Len(x)) : (g \o x)[k] = k

(* The inductive part of StreamInOrder and NumbersAreTrue that is about the
   peer's bytes. *)
StreamHolds ==
  /\ Len(got) + Len(conn.rx) <= peer.sent /\ Ordered(got, conn.rx)
  /\ Sent("ACK") # {} => conn.rcv = NumOf(Len(got) + Len(conn.rx) + 1 + Fin(conn))
  /\ conn.fin => peer.fin /\ Len(got) + Len(conn.rx) = NumBytes
  /\ ended => call \in {"eof", "close", "done"} /\ got = Bytes(1, NumBytes)
  /\ conn.state \in {"established", "fin_wait_1", "fin_wait_2", "close_wait"} => Sent("ACK") # {}
  /\ call = "start" \/ conn.state = "syn_sent" =>
       /\ conn.state \in {"closed", "syn_sent"} /\ call \in {"start", "connect"}
       /\ got = <<>> /\ conn.rx = <<>> /\ ~conn.fin /\ Sent("ACK") = {}
  /\ \A s \in Sent("ACK") : AckOf(s) <= peer.sent + Fin(peer)

(* What is acknowledged is what is kept, so it has been sent. *)
LEMMA GoodAck ==
  ASSUME FewBytes, TcpTyped, NEW g \in Nat, g <= peer.sent, NEW c, c.fin \in BOOLEAN,
         c.fin => peer.fin, c.rcv = NumOf(g + 1 + Fin(c)),
         NEW s, s.ack = c.rcv
  PROVE  AckOf(s) <= peer.sent + Fin(peer)
<1>1. /\ peer.isn \in Numbers /\ peer.sent \in 0 .. NumBytes /\ peer.fin \in BOOLEAN
  BY DEF TcpTyped
<1>2. Fin(c) \in {0, 1} /\ Fin(c) <= Fin(peer) /\ Fin(peer) \in {0, 1}
  BY <1>1 DEF Fin
<1>3. PICK n \in 1 .. NumMod : n = g + 1 + Fin(c)
  <2>1. g + 1 + Fin(c) \in 1 .. NumMod
    BY <1>1, <1>2, Sizes DEF FewBytes
  <2> QED
    BY <2>1
<1>4. AckOf(s) = n - 1
  BY <1>1, <1>3, AckBack
<1> QED
  BY <1>1, <1>2, <1>3, <1>4, Sizes

(* The data taken are the next. *)
LEMMA TakenInOrder ==
  ASSUME FewBytes, TcpTyped, StreamHolds, NEW seg, Sent("ACK") # {},
         NEW a \in 1 .. (peer.sent + 1), NEW b \in 0 .. peer.sent, a <= b + 1,
         seg.seq = NumOf(a), seg.data = Bytes(a, b),
         TakeData(conn, seg).rcv = Plus(conn.rcv, Len(TakeData(conn, seg).rx) - Len(conn.rx))
  PROVE  LET c == TakeData(conn, seg)
         IN  /\ Len(got) + Len(c.rx) <= peer.sent /\ Ordered(got, c.rx)
             /\ c.rcv = NumOf(Len(got) + Len(c.rx) + 1 + Fin(c))
             /\ c.fin = conn.fin /\ c.state = conn.state
             /\ c.fin => Len(got) + Len(c.rx) = NumBytes
<1> DEFINE c == TakeData(conn, seg)
           k == Room(conn, seg)
           L == Len(got) + Len(conn.rx)
<1>1. CASE ~Wanted(conn, seg)
  BY <1>1 DEF TakeData, StreamHolds
<1>2. CASE Wanted(conn, seg)
  <2>1. /\ conn \in ConnType /\ got \in Seq(1 .. NumBytes) /\ conn.rx \in Seq(1 .. NumBytes)
        /\ Len(got) \in Nat /\ Len(conn.rx) \in Nat /\ conn.fin \in BOOLEAN
        /\ peer.isn \in Numbers /\ peer.sent \in 0 .. NumBytes /\ Len(conn.rx) <= RxBuf
    BY ConnFields DEF TcpTyped
  <2>2. /\ a \in Nat \ {0} /\ b \in 0 .. NumBytes /\ a \in 1 .. NumMod /\ a <= NumBytes + 1
    BY <2>1, Sizes DEF FewBytes
  <2>3. /\ seg.data \in Seq(1 .. NumBytes) /\ Len(seg.data) = b - a + 1
        /\ \A i \in 1 .. (b - a + 1) : seg.data[i] = a + i - 1
    BY <2>2, BytesAre
  <2>4. L \in Nat /\ L <= peer.sent /\ (conn.fin => L = NumBytes)
        /\ conn.rcv = NumOf(L + 1 + Fin(conn)) /\ Fin(conn) \in {0, 1}
    <3>1. L \in Nat /\ Fin(conn) \in {0, 1}
      BY <2>1 DEF Fin
    <3>2. L <= peer.sent /\ (conn.fin => L = NumBytes)
      BY DEF StreamHolds
    <3>3. conn.rcv = NumOf(L + 1 + Fin(conn))
      BY DEF StreamHolds
    <3> QED
      BY <3>1, <3>2, <3>3
  <2> HIDE DEF L
  <2>5. L + 1 + Fin(conn) \in 1 .. NumMod
    BY <2>1, <2>4, Sizes DEF FewBytes
  <2>6. a = L + 1 + Fin(conn)
    <3>1. NumOf(a) = NumOf(L + 1 + Fin(conn))
      BY <1>2, <2>4 DEF Wanted
    <3> QED
      BY <2>1, <2>2, <2>5, <3>1, NumOfOnce
  <2>7. a = L + 1 /\ ~conn.fin
    BY <2>1, <2>2, <2>4, <2>6, Sizes DEF Fin
  <2>8. /\ k \in 0 .. Len(seg.data)
        /\ c = [conn EXCEPT !.rx = conn.rx \o SubSeq(seg.data, 1, k),
                            !.rcv = Plus(conn.rcv, Len(seg.data))]
        /\ SubSeq(seg.data, 1, k) \in Seq(1 .. NumBytes) /\ Len(SubSeq(seg.data, 1, k)) = k
    BY <1>2, <2>1, <2>3, TakenData
  <2> DEFINE d == SubSeq(seg.data, 1, k)
  <2>9. /\ c.rx = conn.rx \o d /\ c.rcv = Plus(conn.rcv, Len(seg.data))
        /\ c.fin = conn.fin /\ c.state = conn.state
    BY <2>1, <2>8 DEF ConnType
  <2>10. \A i \in 1 .. k : d[i] = a + i - 1
    <3>1. k \in 0 .. Len(seg.data) /\ 1 \in Nat \ {0} /\ 1 <= k + 1 /\ k - 1 + 1 = k
      BY <2>3, <2>8
    <3>2. \A i \in 1 .. (k - 1 + 1) : SubSeq(seg.data, 1, k)[i] = seg.data[1 + i - 1]
      BY <2>3, <3>1, PartOf, Zenon
    <3> QED
      BY <2>3, <3>1, <3>2
  <2> HIDE DEF k, c, d
  <2>11. d \in Seq(1 .. NumBytes) /\ Len(d) = k /\ k \in Nat
    BY <2>3, <2>8 DEF d
  <2>12. conn.rx \o d \in Seq(1 .. NumBytes) /\ Len(conn.rx \o d) = Len(conn.rx) + k
    BY <2>1, <2>11, ConcatProperties
  <2>13. k = Len(seg.data)
    <3>1. Plus(NumOf(L + 1), Len(seg.data)) = Plus(NumOf(L + 1), k)
      <4>1. c.rcv = Plus(conn.rcv, Len(c.rx) - Len(conn.rx))
        BY DEF c
      <4>2. Len(c.rx) - Len(conn.rx) = k
        BY <2>1, <2>9, <2>11, <2>12
      <4>3. conn.rcv = NumOf(L + 1)
        BY <2>4, <2>6, <2>7
      <4> QED
        BY <2>9, <4>1, <4>2, <4>3
    <3>2. /\ L + 1 \in 0 .. NumMod /\ k \in 0 .. NumMod /\ L + 1 + k \in 1 .. NumMod
          /\ Len(seg.data) \in 0 .. NumMod /\ L + 1 + Len(seg.data) \in 1 .. NumMod
      <4>1. PICK m \in Nat : m = Len(seg.data)
        BY <2>3
      <4>2. L \in Int /\ 0 <= L /\ k \in Int /\ 0 <= k /\ k <= m /\ m = b - (L + 1) + 1
        BY <2>3, <2>4, <2>7, <2>8, <2>11, <4>1
      <4>3. b \in Int /\ b <= NumBytes /\ NumBytes + 1 < NumMod /\ NumMod \in Int /\ NumBytes \in Int
        BY <2>2, Sizes DEF FewBytes
      <4>4. /\ L + 1 \in 0 .. NumMod /\ k \in 0 .. NumMod /\ L + 1 + k \in 1 .. NumMod
            /\ m \in 0 .. NumMod /\ L + 1 + m \in 1 .. NumMod
        BY <4>1, <4>2, <4>3
      <4> QED
        BY <4>1, <4>4
    <3>3. NumOf(L + 1 + Len(seg.data)) = NumOf(L + 1 + k)
      BY <2>1, <3>1, <3>2, NumOfPlus
    <3>4. L + 1 + Len(seg.data) = L + 1 + k
      BY <2>1, <3>2, <3>3, NumOfOnce
    <3> QED
      BY <2>3, <2>4, <2>11, <3>4
  <2>14. L + k = b /\ Len(got) + Len(c.rx) = b
    <3>1. L + k = b
      BY <2>2, <2>3, <2>4, <2>7, <2>13
    <3>2. Len(c.rx) = Len(conn.rx) + k /\ Len(got) + (Len(conn.rx) + k) = L + k
      BY <2>1, <2>9, <2>11, <2>12 DEF L
    <3> QED
      BY <3>1, <3>2
  <2>15. c.rcv = NumOf(b + 1)
    <3>1. /\ L + 1 \in 0 .. NumMod /\ k \in 0 .. NumMod /\ L + 1 + k <= NumMod /\ L + 1 + k = b + 1
      BY <2>1, <2>2, <2>4, <2>11, <2>14, Sizes DEF FewBytes
    <3>2. c.rcv = Plus(NumOf(L + 1), k)
      BY <2>4, <2>6, <2>7, <2>9, <2>13
    <3> QED
      BY <2>1, <3>1, <3>2, NumOfPlus
  <2>16. Ordered(got, c.rx)
    <3> SUFFICES ASSUME NEW i \in 1 .. (Len(got) + Len(c.rx)) PROVE (got \o c.rx)[i] = i
      BY DEF Ordered
    <3>1. (got \o conn.rx) \o d = got \o c.rx /\ (got \o conn.rx) \in Seq(1 .. NumBytes)
          /\ Len(got \o conn.rx) = L
      <4>1. (got \o conn.rx) \o d = got \o (conn.rx \o d)
        <5>1. got \in Seq(1 .. NumBytes) /\ d \in Seq(1 .. NumBytes)
          BY <2>1, <2>11
        <5>2. PICK x \in Seq(1 .. NumBytes) : x = conn.rx
          BY <2>1
        <5>3. (got \o x) \o d = got \o (x \o d)
          BY <5>1, ConcatAssociative
        <5> QED
          BY <5>2, <5>3
      <4>2. (got \o conn.rx) \in Seq(1 .. NumBytes) /\ Len(got \o conn.rx) = Len(got) + Len(conn.rx)
        BY <2>1, ConcatProperties
      <4> QED
        BY <2>9, <4>1, <4>2 DEF L
    <3>2. i \in Nat /\ 1 <= i /\ i <= L + k
      BY <2>1, <2>4, <2>11, <2>14
    <3>3. CASE i <= L
      <4>1. ((got \o conn.rx) \o d)[i] = (got \o conn.rx)[i]
        BY <2>11, <3>1, <3>2, <3>3, ConcatProperties
      <4>2. (got \o conn.rx)[i] = i
        BY <3>2, <3>3 DEF StreamHolds, Ordered, L
      <4> QED
        BY <3>1, <4>1, <4>2
    <3>4. CASE ~(i <= L)
      <4>1. ((got \o conn.rx) \o d)[i] = d[i - L]
        <5>1. PICK h \in Seq(1 .. NumBytes) : h = got \o conn.rx
          BY <3>1
        <5>2. Len(h) = L /\ i \in (Len(h) + 1) .. (Len(h) + Len(d))
          BY <2>4, <2>11, <3>1, <3>2, <3>4, <5>1
        <5>3. (h \o d)[i] = d[i - Len(h)]
          BY <2>11, <5>2, ConcatProperties
        <5> QED
          BY <5>1, <5>2, <5>3
      <4>2. i - L \in 1 .. k /\ a + (i - L) - 1 = i
        BY <2>4, <2>7, <2>11, <3>2, <3>4
      <4> QED
        BY <2>10, <3>1, <4>1, <4>2
    <3> QED
      BY <3>3, <3>4
  <2>17. c.rcv = NumOf(Len(got) + Len(c.rx) + 1 + Fin(c))
    <3>1. Fin(c) = 0 /\ Len(got) + Len(c.rx) + 1 + Fin(c) = b + 1
      BY <2>2, <2>7, <2>9, <2>14 DEF Fin
    <3> QED
      BY <2>15, <3>1
  <2> QED
    BY <2>7, <2>9, <2>14, <2>16, <2>17 DEF c
<1> QED
  BY <1>1, <1>2

Flowing == {"established", "fin_wait_1", "fin_wait_2", "close_wait"}
Over    == {"eof", "close", "done"}

LEMMA StreamTyped ==
  ASSUME TcpTyped
  PROVE  /\ conn \in ConnType /\ got \in Seq(1 .. NumBytes) /\ conn.rx \in Seq(1 .. NumBytes)
         /\ Len(got) \in Nat /\ Len(conn.rx) \in Nat /\ conn.fin \in BOOLEAN
         /\ peer.isn \in Numbers /\ peer.sent \in 0 .. NumBytes /\ peer.fin \in BOOLEAN
BY ConnFields DEF TcpTyped

(* What is known of the acknowledgements sent. *)
LEMMA AcksHold ==
  ASSUME FewBytes, TcpTyped, StreamHolds, Sent("ACK") # {}, NEW s, s.ack = conn.rcv
  PROVE  AckOf(s) <= peer.sent + Fin(peer)
<1>1. /\ Len(got) + Len(conn.rx) \in Nat /\ Len(got) + Len(conn.rx) <= peer.sent
      /\ conn.fin \in BOOLEAN /\ (conn.fin => peer.fin)
  BY StreamTyped DEF StreamHolds
<1>2. conn.rcv = NumOf(Len(got) + Len(conn.rx) + 1 + Fin(conn))
  BY DEF StreamHolds
<1> DEFINE g == Len(got) + Len(conn.rx)
<1> HIDE DEF g
<1>3. g \in Nat /\ g <= peer.sent /\ conn.rcv = NumOf(g + 1 + Fin(conn))
  BY <1>1, <1>2 DEF g
<1> QED
  BY <1>1, <1>3, GoodAck

(* Nothing is read or kept. *)
LEMMA SameStream ==
  ASSUME FewBytes, TcpTyped, StreamHolds, UNCHANGED <<got, ended, peer>>,
         conn'.rx = conn.rx, conn'.rcv = conn.rcv, conn'.fin = conn.fin,
         conn'.state # "syn_sent", conn'.state \in Flowing => conn.state \in Flowing,
         call' # "start", call \in Over => call' \in Over,
         toPeer' = toPeer
           \/ (Sent("ACK") # {} /\ \E f, len : "ACK" \in f /\ toPeer' = toPeer \cup Out(f, conn, len))
  PROVE  StreamHolds'
<1>1. /\ Sent("ACK") \subseteq Sent("ACK")' /\ (Sent("ACK") = {} => Sent("ACK")' = {})
      /\ \A s \in Sent("ACK")' : AckOf(s) <= peer.sent + Fin(peer)
  <2>0. \A s \in Sent("ACK") : AckOf(s) <= peer.sent + Fin(peer)
    BY DEF StreamHolds
  <2>1. CASE toPeer' = toPeer
    BY <2>0, <2>1, SentSame
  <2>2. CASE Sent("ACK") # {} /\ \E f, len : "ACK" \in f /\ toPeer' = toPeer \cup Out(f, conn, len)
    <3>1. PICK f, len : "ACK" \in f /\ toPeer' = toPeer \cup Out(f, conn, len)
      BY <2>2
    <3>2. Sent("ACK")' = Sent("ACK") \cup Out(f, conn, len)
      BY <3>1, SentMore
    <3>3. \A s \in Out(f, conn, len) : s.ack = conn.rcv
      BY <3>1 DEF Out
    <3>4. \A s \in Out(f, conn, len) : AckOf(s) <= peer.sent + Fin(peer)
      BY <2>2, <3>3, AcksHold
    <3> QED
      BY <2>0, <2>2, <3>2, <3>4
  <2> QED
    BY <2>1, <2>2
<1>2. \A s \in Sent("ACK")' : AckOf(s)' <= peer'.sent + Fin(peer')
  BY <1>1 DEF AckOf
<1>3. Fin(conn') = Fin(conn)
  BY DEF Fin
<1>4. Sent("ACK")' # {} => conn'.rcv = Plus(peer'.isn, Len(got') + Len(conn'.rx) + 1 + Fin(conn'))
  BY <1>1, <1>3 DEF StreamHolds, NumOf
<1>5. /\ Len(got') + Len(conn'.rx) <= peer'.sent /\ Ordered(got', conn'.rx)
      /\ (conn'.fin => peer'.fin /\ Len(got') + Len(conn'.rx) = NumBytes)
      /\ (ended' => call' \in Over /\ got' = Bytes(1, NumBytes))
      /\ (conn'.state \in Flowing => Sent("ACK")' # {})
  BY <1>1 DEF StreamHolds, Flowing, Over
<1> QED
  BY <1>2, <1>4, <1>5 DEF StreamHolds, NumOf, Flowing, Over

LEMMA SynAckStream ==
  ASSUME FewBytes, TcpTyped, StreamHolds, NEW seg \in ToUs, SynAck(seg), call # "start",
         UNCHANGED <<call, got, ended, peer>>
  PROVE  StreamHolds'
<1>1. /\ got = <<>> /\ conn.rx = <<>> /\ ~conn.fin /\ Sent("ACK") = {} /\ ~ended
  <2>1. conn.state = "syn_sent"
    BY DEF SynAck
  <2>2. call \in {"start", "connect"} /\ got = <<>> /\ conn.rx = <<>> /\ ~conn.fin /\ Sent("ACK") = {}
    BY <2>1 DEF StreamHolds
  <2>3. ~ended
    BY <2>2 DEF StreamHolds
  <2> QED
    BY <2>2, <2>3
<1>2. seg.seq = NumOf(0)
  <2>1. Came(seg) /\ "SYN" \in seg.flags
    BY WhatComes DEF SynAck
  <2> QED
    BY <2>1 DEF Came
<1>3. /\ conn \in ConnType /\ conn' = [conn EXCEPT !.rcv = Plus(seg.seq, 1), !.state = "established"]
      /\ toPeer' = toPeer \cup Out({"ACK"}, conn', 0)
  BY StreamTyped DEF SynAck
<1>4. /\ conn'.rcv = Plus(NumOf(0), 1) /\ conn'.state = "established" /\ conn'.rx = <<>>
      /\ ~conn'.fin
  BY <1>1, <1>2, <1>3 DEF ConnType
<1>5. peer.isn \in Numbers /\ peer.sent \in 0 .. NumBytes /\ peer.fin \in BOOLEAN
  BY StreamTyped
<1>6. conn'.rcv = NumOf(1)
  <2>1. 0 \in 0 .. NumMod /\ 1 \in 0 .. NumMod /\ 0 + 1 = 1 /\ 0 + 1 <= NumMod
    BY Sizes
  <2> QED
    BY <1>4, <1>5, <2>1, NumOfPlus
<1>7. Sent("ACK")' = Out({"ACK"}, conn', 0)
  <2>1. PICK c : c = conn'
    OBVIOUS
  <2>2. toPeer' = toPeer \cup Out({"ACK"}, c, 0)
    BY <1>3, <2>1
  <2>3. Sent("ACK")' = Sent("ACK") \cup Out({"ACK"}, c, 0)
    BY <2>2, SentMore
  <2> QED
    BY <1>1, <2>1, <2>3
<1>8. ASSUME NEW s \in Sent("ACK")' PROVE AckOf(s) <= peer.sent + Fin(peer)
  <2>1. s.ack = NumOf(1)
    BY <1>6, <1>7 DEF Out
  <2>2. 1 \in 1 .. NumMod
    BY Sizes
  <2>3. AckOf(s) = 1 - 1
    BY <1>5, <2>1, <2>2, AckBack
  <2> QED
    BY <1>5, <2>3 DEF Fin
<1>9. Len(<<>>) = 0
  BY EmptySeq
<1>10. \A s \in Sent("ACK")' : AckOf(s)' <= peer'.sent + Fin(peer')
  BY <1>8 DEF AckOf
<1>11. Sent("ACK")' # {}
  BY <1>7 DEF Out
<1>12. Ordered(got', conn'.rx) /\ Len(got') + Len(conn'.rx) <= peer'.sent
  BY <1>1, <1>4, <1>5, <1>9 DEF Ordered
<1>13. conn'.rcv = Plus(peer'.isn, Len(got') + Len(conn'.rx) + 1 + Fin(conn'))
  <2>1. Fin(conn') = 0 /\ Len(got') + Len(conn'.rx) + 1 + Fin(conn') = 1
    BY <1>1, <1>4, <1>9 DEF Fin
  <2> QED
    BY <1>6, <2>1 DEF NumOf
<1> QED
  BY <1>1, <1>4, <1>10, <1>11, <1>12, <1>13 DEF StreamHolds, NumOf

(* A state of the connection is as full as the bytes kept and the FIN seen. *)
InStep(c) ==
  /\ Len(got) + Len(c.rx) <= peer.sent /\ Ordered(got, c.rx)
  /\ c.rcv = NumOf(Len(got) + Len(c.rx) + 1 + Fin(c))
  /\ c.fin => peer.fin /\ Len(got) + Len(c.rx) = NumBytes

LEMMA InStepAck ==
  ASSUME FewBytes, TcpTyped, NEW c \in ConnType, InStep(c), NEW s, s.ack = c.rcv
  PROVE  AckOf(s) <= peer.sent + Fin(peer)
<1> DEFINE g == Len(got) + Len(c.rx)
<1>1. g \in Nat /\ g <= peer.sent /\ c.rcv = NumOf(g + 1 + Fin(c)) /\ c.fin \in BOOLEAN
      /\ (c.fin => peer.fin)
  BY StreamTyped, ConnFields DEF InStep
<1> HIDE DEF g
<1> QED
  BY <1>1, GoodAck

(* The peer's FIN is taken when its last byte has been. *)
LEMMA FinInStep ==
  ASSUME FewBytes, TcpTyped, NEW c \in ConnType, InStep(c), NEW seg, "FIN" \in seg.flags, peer.fin,
         c.rcv = NumOf(NumBytes + 1)
  PROVE  InStep(TakeFin(c, seg))
<1> DEFINE d == TakeFin(c, seg)
           g == Len(got) + Len(c.rx)
<1>1. /\ g \in Nat /\ g <= peer.sent /\ c.rcv = NumOf(g + 1 + Fin(c)) /\ c.fin \in BOOLEAN
      /\ (c.fin => g = NumBytes) /\ Fin(c) \in {0, 1}
      /\ peer.isn \in Numbers /\ peer.sent \in 0 .. NumBytes /\ Ordered(got, c.rx)
  BY StreamTyped, ConnFields DEF InStep, Fin
<1>2. /\ d.rcv = Plus(c.rcv, 1) /\ d.fin = TRUE /\ d.rx = c.rx
  BY DEF TakeFin, ConnType
<1>3. Len(got) + Len(d.rx) = g /\ Fin(d) = 1
  BY <1>2 DEF Fin
<1> HIDE DEF d, g
<1>4. g + 1 + Fin(c) \in 1 .. NumMod /\ NumBytes + 1 \in 1 .. NumMod
  BY <1>1, Sizes DEF FewBytes
<1>5. g + 1 + Fin(c) = NumBytes + 1
  <2>1. NumOf(g + 1 + Fin(c)) = NumOf(NumBytes + 1)
    BY <1>1
  <2> QED
    BY <1>1, <1>4, <2>1, NumOfOnce
<1>6. ~c.fin /\ g = NumBytes
  BY <1>1, <1>5, Sizes DEF Fin
<1>7. d.rcv = NumOf(NumBytes + 1 + 1)
  <2>1. NumBytes + 1 \in 0 .. NumMod /\ 1 \in 0 .. NumMod /\ NumBytes + 1 + 1 <= NumMod
    BY Sizes DEF FewBytes
  <2>2. Plus(NumOf(NumBytes + 1), 1) = NumOf(NumBytes + 1 + 1)
    BY <1>1, <2>1, NumOfPlus
  <2> QED
    BY <1>2, <2>2
<1>8. InStep(d)
  <2>1. Ordered(got, d.rx) /\ Len(got) + Len(d.rx) <= peer.sent
    BY <1>1, <1>2, <1>3
  <2>2. d.rcv = NumOf(Len(got) + Len(d.rx) + 1 + Fin(d))
    BY <1>3, <1>6, <1>7
  <2> QED
    BY <1>3, <1>6, <2>1, <2>2 DEF InStep
<1> QED
  BY <1>8 DEF d

LEMMA ExchangeStream ==
  ASSUME FewBytes, TcpTyped, StreamHolds, NEW seg \in ToUs, Exchange(seg), ~hole', call # "start",
         UNCHANGED <<call, got, ended, peer>>
  PROVE  StreamHolds'
<1> DEFINE c1 == TakeData(conn, seg)
           c2 == TakeAck(c1, seg)
           c3 == TakeFin(c2, seg)
           a1 == IF c1 # conn THEN Out({"ACK"}, c1, 0) ELSE {}
           a3 == IF c3 # c2 THEN Out({"ACK"}, c3, 0) ELSE {}
<1>1. /\ conn.state \in Flowing /\ "RST" \notin seg.flags
      /\ conn' = c3 /\ toPeer' = toPeer \cup a1 \cup a3
      /\ c1.rcv = Plus(conn.rcv, Len(c1.rx) - Len(conn.rx))
      /\ "FIN" \in seg.flags => c1.rcv = NumOf(NumBytes + 1)
  BY DEF Exchange, Flowing
<1>2. /\ Sent("ACK") # {} /\ Came(seg) /\ conn \in ConnType /\ Len(conn.rx) <= RxBuf
      /\ seg.data \in Seq(1 .. NumBytes)
  BY <1>1, WhatComes, StreamTyped DEF StreamHolds, Flowing, TcpTyped
<1>3. InStep(conn)
  BY <1>2 DEF StreamHolds, InStep
<1>4. /\ InStep(c1) /\ c1.state = conn.state
      /\ "FIN" \in seg.flags => peer.fin
  <2>1. CASE seg.flags = {"SYN", "ACK"} /\ seg.data = <<>>
    BY <1>3, <2>1 DEF TakeData, Wanted
  <2>2. CASE \E a \in 1 .. (peer.sent + 1), b \in 0 .. peer.sent :
               /\ a <= b + 1 /\ seg.seq = NumOf(a) /\ seg.data = Bytes(a, b)
               /\ (seg.flags = {"ACK"} \/ (seg.flags = {"FIN", "ACK"} /\ peer.fin))
    <3>1. PICK a \in 1 .. (peer.sent + 1), b \in 0 .. peer.sent :
               /\ a <= b + 1 /\ seg.seq = NumOf(a) /\ seg.data = Bytes(a, b)
               /\ (seg.flags = {"ACK"} \/ (seg.flags = {"FIN", "ACK"} /\ peer.fin))
      BY <2>2
    <3>2. /\ Len(got) + Len(c1.rx) <= peer.sent /\ Ordered(got, c1.rx)
          /\ c1.rcv = NumOf(Len(got) + Len(c1.rx) + 1 + Fin(c1))
          /\ c1.fin = conn.fin /\ c1.state = conn.state
          /\ (c1.fin => Len(got) + Len(c1.rx) = NumBytes)
      BY <1>1, <1>2, <3>1, TakenInOrder
    <3>3. conn.fin => peer.fin
      BY DEF StreamHolds
    <3> QED
      BY <3>1, <3>2, <3>3 DEF InStep
  <2> QED
    BY <1>1, <1>2, <2>1, <2>2 DEF Came
<1>5. c1 \in ConnType
  BY <1>2, TakeTyped
<1>6. c2 \in ConnType
  BY <1>2, <1>5, TakeTyped
<1>7. c3 \in ConnType
  BY <1>2, <1>6, TakeTyped
<1>8. /\ c2.rx = c1.rx /\ c2.rcv = c1.rcv /\ c2.fin = c1.fin /\ c2.state \in Flowing
  BY <1>1, <1>4, <1>5 DEF TakeAck, Flowing, ConnType
<1> HIDE DEF c2
<1>9. InStep(c2)
  BY <1>4, <1>8 DEF InStep, Fin
<1>10. InStep(c3) /\ c3.state # "syn_sent"
  <2>1. CASE "FIN" \in seg.flags
    <3>1. InStep(c3)
      BY <1>1, <1>4, <1>6, <1>8, <1>9, <2>1, FinInStep
    <3>2. c3.state # "syn_sent"
      BY <1>6, <2>1 DEF TakeFin, ConnType
    <3> QED
      BY <3>1, <3>2
  <2>2. CASE "FIN" \notin seg.flags
    BY <1>8, <1>9, <2>2 DEF TakeFin, Flowing
  <2> QED
    BY <2>1, <2>2
<1> HIDE DEF c1, c3
<1>11. ASSUME NEW s \in a1 \cup a3 PROVE "ACK" \in s.flags /\ AckOf(s) <= peer.sent + Fin(peer)
  <2>1. "ACK" \in s.flags /\ (s.ack = c1.rcv \/ s.ack = c3.rcv)
    BY <1>11 DEF Out
  <2> QED
    BY <1>4, <1>5, <1>7, <1>10, <2>1, InStepAck
<1> HIDE DEF a1, a3
<1>12. \A s \in Sent("ACK")' : AckOf(s)' <= peer'.sent + Fin(peer')
  <2>1. \A s \in Sent("ACK") : AckOf(s) <= peer.sent + Fin(peer)
    BY DEF StreamHolds
  <2>2. \A s \in Sent("ACK")' : s \in Sent("ACK") \/ s \in a1 \cup a3
    BY <1>1 DEF Sent
  <2>3. \A s \in Sent("ACK")' : AckOf(s) <= peer.sent + Fin(peer)
    BY <1>11, <2>1, <2>2
  <2> QED
    BY <2>3 DEF AckOf
<1>13. Sent("ACK")' # {}
  <2>1. \A s \in Sent("ACK") : s \in Sent("ACK")'
    BY <1>1 DEF Sent
  <2> QED
    BY <1>2, <2>1
<1>14. /\ Len(got') + Len(conn'.rx) <= peer'.sent /\ Ordered(got', conn'.rx)
       /\ conn'.rcv = Plus(peer'.isn, Len(got') + Len(conn'.rx) + 1 + Fin(conn'))
       /\ (conn'.fin => peer'.fin /\ Len(got') + Len(conn'.rx) = NumBytes)
       /\ conn'.state # "syn_sent"
  BY <1>1, <1>10 DEF InStep, NumOf
<1>15. ended' => call' \in {"eof", "close", "done"} /\ got' = Bytes(1, NumBytes)
  BY DEF StreamHolds
<1> QED
  BY <1>12, <1>13, <1>14, <1>15 DEF StreamHolds, NumOf

StreamInv == ~hole => StreamHolds

-------------------------------------------------------------------------------
(* No step before a hole breaks StreamHolds. *)
LEMMA QuietStream ==
  ASSUME FewBytes, TcpTyped, StreamHolds, UNCHANGED <<got, ended, peer>>, UNCHANGED toPeer,
         conn'.rx = conn.rx, conn'.rcv = conn.rcv, conn'.fin = conn.fin,
         conn'.state \in {conn.state, "closed"}, conn'.state # "syn_sent",
         call' # "start", call \in Over => call' \in Over
  PROVE  StreamHolds'
<1>1. conn'.state \in Flowing => conn.state \in Flowing
  BY DEF Flowing
<1>2. toPeer' = toPeer
           \/ (Sent("ACK") # {} /\ \E f, len : "ACK" \in f /\ toPeer' = toPeer \cup Out(f, conn, len))
  OBVIOUS
<1> QED
  BY <1>1, <1>2, SameStream

LEMMA ArriveStream ==
  ASSUME FewBytes, TcpTyped, StreamInv, NEW seg \in ToUs, Arrive(seg)
  PROVE  StreamInv'
<1> SUFFICES ASSUME ~hole' PROVE StreamHolds'
  BY DEF StreamInv
<1>1. ~hole /\ UNCHANGED <<call, got, ended, peer>> /\ call # "start" /\ conn \in ConnType
  <2>1. UNCHANGED <<call, got, ended, peer>> /\ call # "start" /\ conn \in ConnType
    BY DEF Arrive, Polling, TcpTyped
  <2>2. CASE Exchange(seg)
    <3>1. hole => hole'
      BY <2>2, Zenon DEF Exchange
    <3> QED
      BY <2>1, <3>1
  <2>3. CASE Rst(seg) \/ SynAck(seg) \/ LastAck(seg)
    BY <2>1, <2>3 DEF Rst, SynAck, LastAck
  <2> QED
    BY <2>2, <2>3 DEF Arrive
<1>2. StreamHolds
  BY <1>1 DEF StreamInv
<1>3. CASE Rst(seg) \/ LastAck(seg)
  <2>1. /\ conn'.state = "closed" /\ conn'.rx = conn.rx /\ conn'.rcv = conn.rcv
        /\ conn'.fin = conn.fin /\ UNCHANGED toPeer
    BY <1>1, <1>3 DEF Rst, LastAck, ConnType
  <2> QED
    BY <1>1, <1>2, <2>1, QuietStream
<1>4. CASE SynAck(seg)
  BY <1>1, <1>2, <1>4, SynAckStream
<1>5. CASE Exchange(seg)
  BY <1>1, <1>2, <1>5, ExchangeStream
<1> QED
  BY <1>3, <1>4, <1>5 DEF Arrive

LEMMA ConnectStream ==
  ASSUME FewBytes, TcpTyped, StreamHolds, Connect
  PROVE  StreamHolds'
<1>1. /\ got = <<>> /\ conn.rx = <<>> /\ ~conn.fin /\ Sent("ACK") = {} /\ conn \in ConnType
      /\ ~ended
  BY StreamTyped DEF Connect, StreamHolds
<1>2. conn'.state = "syn_sent" /\ conn'.rx = <<>> /\ ~conn'.fin
  BY <1>1 DEF Connect, ConnType
<1>3. Sent("ACK")' = {}
  <2>1. toPeer' = toPeer \cup Out({"SYN"}, conn, 0)
    BY DEF Connect
  <2> QED
    BY <1>1, <2>1, SentMore
<1>4. Ordered(got', conn'.rx) /\ Len(got') + Len(conn'.rx) <= peer'.sent
  <2>1. Len(<<>>) = 0 /\ got' = <<>> /\ peer' = peer /\ peer.sent \in Nat
    BY <1>1, EmptySeq, StreamTyped DEF Connect
  <2> QED
    BY <1>2, <2>1 DEF Ordered
<1>5. call' = "connect" /\ ~ended'
  BY <1>1 DEF Connect
<1> QED
  BY <1>1, <1>2, <1>3, <1>4, <1>5 DEF Connect, StreamHolds

(* Before a byte is sent or the connection closed, something was acknowledged. *)
LEMMA SendsStream ==
  ASSUME FewBytes, TcpTyped, StreamHolds, SendByte \/ Close
  PROVE  StreamHolds'
<1>1. /\ UNCHANGED <<got, ended, peer>> /\ conn \in ConnType
      /\ call \in {"open", "eof"} /\ call' \in {"open", "close"} /\ (call' = "open" => call = "open")
  BY StreamTyped DEF SendByte, Close
<1>2. conn.state # "syn_sent"
  BY <1>1 DEF StreamHolds
<1>3. CASE UNCHANGED <<conn, toPeer>>
  <2>1. call \in Over => call' \in Over
    BY <1>1 DEF Over
  <2> QED
    BY <1>1, <1>2, <1>3, <2>1, QuietStream
<1>4. CASE SendByte
  <2>1. /\ conn'.rx = conn.rx /\ conn'.rcv = conn.rcv /\ conn'.fin = conn.fin
        /\ conn'.state = conn.state /\ conn.state = "established"
        /\ toPeer' = toPeer \cup Out({"PSH", "ACK"}, conn, 1) /\ call' = "open" /\ call = "open"
    BY <1>1, <1>4 DEF SendByte, ConnType
  <2>2. Sent("ACK") # {} /\ \E f, len : "ACK" \in f /\ toPeer' = toPeer \cup Out(f, conn, len)
    BY <2>1 DEF StreamHolds
  <2> QED
    BY <1>1, <2>1, <2>2, SameStream DEF Flowing, Over
<1>5. CASE Close /\ conn.state \in {"established", "close_wait"}
  <2>1. /\ conn'.rx = conn.rx /\ conn'.rcv = conn.rcv /\ conn'.fin = conn.fin
        /\ conn'.state \in {"last_ack", "fin_wait_1"}
        /\ toPeer' = toPeer \cup Out({"FIN", "ACK"}, conn, 0) /\ call' = "close"
    BY <1>1, <1>5 DEF Close, ConnType
  <2>2. Sent("ACK") # {} /\ \E f, len : "ACK" \in f /\ toPeer' = toPeer \cup Out(f, conn, len)
    BY <1>5, <2>1 DEF StreamHolds
  <2> QED
    BY <1>1, <1>5, <2>1, <2>2, SameStream DEF Flowing, Over
<1> QED
  BY <1>3, <1>4, <1>5 DEF Close

LEMMA RecvDataStream ==
  ASSUME FewBytes, TcpTyped, StreamHolds, RecvData
  PROVE  StreamHolds'
<1>1. /\ got' \in Seq(1 .. NumBytes) /\ conn' \in ConnType
      /\ got' \o conn'.rx = got \o conn.rx /\ conn' = [conn EXCEPT !.rx = conn'.rx]
  BY Taken
<1>2. /\ UNCHANGED <<ended, toPeer, peer>> /\ call = "recv" /\ call' = "open"
  BY DEF RecvData
<1>3. /\ conn'.rcv = conn.rcv /\ conn'.fin = conn.fin /\ conn'.state = conn.state
  <2>1. conn \in ConnType
    BY StreamTyped
  <2>2. PICK r : conn' = [conn EXCEPT !.rx = r]
    BY <1>1
  <2> QED
    BY <2>1, <2>2 DEF ConnType
<1>4. Len(got') + Len(conn'.rx) = Len(got) + Len(conn.rx)
  <2>1. PICK g \in Seq(1 .. NumBytes), x \in Seq(1 .. NumBytes) : g = got' /\ x = conn'.rx
    BY <1>1 DEF ConnType
  <2>2. PICK h \in Seq(1 .. NumBytes), y \in Seq(1 .. NumBytes) : h = got /\ y = conn.rx
    BY StreamTyped
  <2>3. Len(g \o x) = Len(g) + Len(x) /\ Len(h \o y) = Len(h) + Len(y) /\ g \o x = h \o y
    BY <1>1, <2>1, <2>2, ConcatProperties
  <2> QED
    BY <2>1, <2>2, <2>3
<1>5. Ordered(got', conn'.rx)
  BY <1>1, <1>4 DEF Ordered, StreamHolds
<1>6. conn.state # "syn_sent" /\ ~ended
  BY <1>2 DEF StreamHolds
<1>7. Sent("ACK")' = Sent("ACK") /\ Fin(conn') = Fin(conn)
  BY <1>2, <1>3, SentSame DEF Fin
<1>8. \A s \in Sent("ACK")' : AckOf(s)' <= peer'.sent + Fin(peer')
  BY <1>2, <1>7 DEF StreamHolds, AckOf
<1>9. Sent("ACK")' # {} => conn'.rcv = Plus(peer'.isn, Len(got') + Len(conn'.rx) + 1 + Fin(conn'))
  BY <1>2, <1>3, <1>4, <1>7 DEF StreamHolds, NumOf
<1>10. /\ Len(got') + Len(conn'.rx) <= peer'.sent
       /\ (conn'.fin => peer'.fin /\ Len(got') + Len(conn'.rx) = NumBytes)
       /\ (conn'.state \in {"established", "fin_wait_1", "fin_wait_2", "close_wait"}
             => Sent("ACK")' # {})
  BY <1>2, <1>3, <1>4, <1>7 DEF StreamHolds
<1> QED
  BY <1>2, <1>3, <1>5, <1>6, <1>8, <1>9, <1>10 DEF StreamHolds, NumOf

LEMMA RecvEndStream ==
  ASSUME FewBytes, TcpTyped, StreamHolds, RecvEnd
  PROVE  StreamHolds'
<1>1. /\ UNCHANGED <<conn, got, toPeer, peer>> /\ conn.fin /\ conn.rx = <<>>
      /\ call = "recv" /\ call' = "eof"
  BY DEF RecvEnd
<1>2. Len(got) = NumBytes
  BY <1>1, StreamTyped, EmptySeq DEF StreamHolds
<1>3. got = Bytes(1, NumBytes)
  <2>1. got \in Seq(1 .. NumBytes) /\ got \o <<>> = got
    BY StreamTyped, ConcatEmptySeq
  <2>2. \A k \in 1 .. Len(got) : got[k] = k
    <3>1. Len(got) + Len(conn.rx) = Len(got)
      BY <1>1, StreamTyped, EmptySeq
    <3> QED
      BY <1>1, <2>1, <3>1 DEF StreamHolds, Ordered
  <2>3. /\ 1 \in Nat \ {0} /\ NumBytes \in 0 .. NumBytes /\ 1 <= NumBytes + 1
        /\ NumBytes - 1 + 1 = NumBytes /\ \A k \in 1 .. NumBytes : 1 + k - 1 = k
    BY Sizes
  <2>4. /\ Bytes(1, NumBytes) \in Seq(1 .. NumBytes) /\ Len(Bytes(1, NumBytes)) = NumBytes - 1 + 1
        /\ \A k \in 1 .. (NumBytes - 1 + 1) : Bytes(1, NumBytes)[k] = 1 + k - 1
    BY <2>3, BytesAre, Zenon
  <2>5. \A k \in 1 .. Len(got) : got[k] = Bytes(1, NumBytes)[k]
    BY <1>2, <2>2, <2>3, <2>4
  <2> QED
    BY <1>2, <2>1, <2>3, <2>4, <2>5, SeqEqual
<1>4. conn.state # "syn_sent"
  BY <1>1 DEF StreamHolds
<1>5. Sent("ACK")' = Sent("ACK")
  BY <1>1, SentSame
<1>6. \A s \in Sent("ACK")' : AckOf(s)' <= peer'.sent + Fin(peer')
  BY <1>1, <1>5 DEF StreamHolds, AckOf
<1> QED
  BY <1>1, <1>3, <1>4, <1>5, <1>6 DEF StreamHolds, NumOf

LEMMA PeerStream ==
  ASSUME FewBytes, TcpTyped, StreamHolds, Peer
  PROVE  StreamHolds'
<1>1. /\ UNCHANGED <<conn, call, got, ended, toPeer>> /\ peer'.isn = peer.isn
      /\ peer.sent <= peer'.sent /\ (peer.fin => peer'.fin)
      /\ peer.sent \in Int /\ peer'.sent \in Int
  BY PeerTyped DEF Peer, TcpTyped
<1>2. Sent("ACK")' = Sent("ACK") /\ Fin(peer) <= Fin(peer') /\ Fin(peer) \in Int /\ Fin(peer') \in Int
  BY <1>1, SentSame DEF Fin
<1>3. \A s \in Sent("ACK")' : AckOf(s)' <= peer'.sent + Fin(peer')
  <2> SUFFICES ASSUME NEW s \in Sent("ACK") PROVE AckOf(s)' <= peer'.sent + Fin(peer')
    BY <1>2
  <2>1. AckOf(s) <= peer.sent + Fin(peer)
    BY DEF StreamHolds
  <2>2. AckOf(s)' = AckOf(s)
    BY <1>1 DEF AckOf
  <2>3. AckOf(s) \in Int
    <3>1. s \in SentType /\ peer.isn \in Numbers
      BY SentFinite, StreamTyped
    <3>2. s.ack - peer.isn - 1 \in Int
      BY <3>1 DEF SentType, Numbers
    <3> QED
      BY <3>2, ModIsNumber DEF AckOf, Numbers
  <2> QED
    BY <1>1, <1>2, <2>1, <2>2, <2>3
<1>4. Len(got') + Len(conn'.rx) <= peer'.sent
  BY <1>1, StreamTyped DEF StreamHolds
<1>5. Sent("ACK")' # {} => conn'.rcv = Plus(peer'.isn, Len(got') + Len(conn'.rx) + 1 + Fin(conn'))
  BY <1>1, <1>2 DEF StreamHolds, NumOf
<1> QED
  BY <1>1, <1>2, <1>3, <1>4, <1>5 DEF StreamHolds, NumOf

LEMMA StreamStep ==
  ASSUME FewBytes, TcpTyped, StreamInv, TcpNext
  PROVE  StreamInv'
<1>1. ASSUME NEW seg \in ToUs, Arrive(seg) PROVE StreamInv'
  BY <1>1, ArriveStream
<1>2. CASE Calls \/ Peer
  <2> SUFFICES ASSUME ~hole' PROVE StreamHolds'
    BY DEF StreamInv
  <2>1. StreamHolds
    BY <1>2 DEF StreamInv, Calls, Peer, Connect, Connected, Refused, Recv, RecvEnd, RecvTimeout,
                RecvData, ConnectTimeout, Closed, SendByte, Close
  <2>2. CASE Connected \/ Refused \/ Recv \/ RecvTimeout \/ ConnectTimeout \/ Closed
    <3>1. /\ UNCHANGED <<got, ended, peer, toPeer>> /\ call # "start" /\ call' # "start"
          /\ (call \in Over => call' \in Over) /\ conn \in ConnType
      BY <2>2, StreamTyped DEF Connected, Refused, Recv, RecvTimeout, ConnectTimeout, Closed, Over
    <3>2. /\ conn'.rx = conn.rx /\ conn'.rcv = conn.rcv /\ conn'.fin = conn.fin
          /\ (conn'.state = "closed" \/ conn' = conn)
      BY <2>2, <3>1 DEF Connected, Refused, Recv, RecvTimeout, ConnectTimeout, Closed, ConnType
    <3>3. conn' = conn => conn.state # "syn_sent"
      <4>1. CASE Connected \/ Refused
        BY <4>1 DEF Connected, Refused
      <4>2. CASE Recv \/ RecvTimeout \/ Closed
        BY <2>1, <4>2 DEF Recv, RecvTimeout, Closed, StreamHolds
      <4>3. CASE ConnectTimeout
        BY <3>1, <4>3 DEF ConnectTimeout, ConnType
      <4> QED
        BY <2>2, <4>1, <4>2, <4>3
    <3> QED
      BY <2>1, <3>1, <3>2, <3>3, QuietStream
  <2> QED
    BY <1>2, <2>1, <2>2, ConnectStream, SendsStream, RecvDataStream, RecvEndStream, PeerStream DEF Calls
<1> QED
  BY <1>1, <1>2 DEF TcpNext

LEMMA FirstStream == TcpInit => StreamInv
<1> SUFFICES ASSUME TcpInit PROVE StreamHolds
  BY DEF StreamInv
<1>1. /\ got = <<>> /\ conn.rx = <<>> /\ ~conn.fin /\ conn.state = "closed" /\ call = "start" /\ ~ended
  BY DEF TcpInit
<1>2. Sent("ACK") = {}
  BY DEF TcpInit, Sent
<1>3. Len(<<>>) = 0 /\ peer.sent \in Nat
  BY FirstTyped, StreamTyped, EmptySeq
<1> QED
  BY <1>1, <1>2, <1>3 DEF StreamHolds, Ordered

-------------------------------------------------------------------------------
TcpInv == TcpTyped /\ OurNumbers /\ StreamInv

LEMMA TcpStays ==
  ASSUME UNCHANGED tcpVars, TcpInv
  PROVE  TcpInv'
<1>1. UNCHANGED <<conn, call, got, ended, hole, toPeer, peer>>
  BY DEF tcpVars
<1>2. \A x : Sent(x)' = Sent(x)
  BY <1>1 DEF Sent
<1>3. \A s : AckOf(s)' = AckOf(s)
  BY <1>1 DEF AckOf
<1>4. TcpTyped'
  BY <1>1 DEF TcpInv, TcpTyped
<1>5. OurNumbers'
  BY <1>1, <1>2 DEF TcpInv, OurNumbers
<1>6. StreamHolds => StreamHolds'
  <2> SUFFICES ASSUME StreamHolds PROVE StreamHolds'
    OBVIOUS
  <2>1. \A s \in Sent("ACK")' : AckOf(s)' <= peer'.sent + Fin(peer')
    BY <1>1, <1>2, <1>3 DEF StreamHolds
  <2>2. Sent("ACK")' = Sent("ACK")
    BY <1>2
  <2> QED
    BY <1>1, <2>1, <2>2 DEF StreamHolds, NumOf
<1> QED
  BY <1>1, <1>4, <1>5, <1>6 DEF TcpInv, StreamInv

(* What is acknowledged is what a segment of ours acknowledges. *)
LEMMA Acked ==
  /\ AckedBytes = {AckOf(s) : s \in Sent("ACK")}
  /\ AckedBytes # {} <=> Sent("ACK") # {}
BY DEF AckedBytes, AckOf

(* Bytes in order, each once, are the first bytes of the peer. *)
LEMMA InOrderAre ==
  ASSUME NEW g \in Seq(1 .. NumBytes), NEW x \in Seq(1 .. NumBytes), Ordered(g, x),
         Len(g) + Len(x) <= NumBytes
  PROVE  g \o x = Bytes(1, Len(g \o x))
<1>1. PICK all \in Seq(1 .. NumBytes) : all = g \o x /\ Len(all) = Len(g) + Len(x)
  BY ConcatProperties
<1>2. PICK n \in 0 .. NumBytes : n = Len(all)
  BY <1>1
<1>3. 1 \in Nat \ {0} /\ 1 <= n + 1 /\ n - 1 + 1 = n /\ \A k \in 1 .. n : 1 + k - 1 = k
  BY <1>2
<1>4. /\ Bytes(1, n) \in Seq(1 .. NumBytes) /\ Len(Bytes(1, n)) = n - 1 + 1
      /\ \A k \in 1 .. (n - 1 + 1) : Bytes(1, n)[k] = 1 + k - 1
  BY <1>2, <1>3, BytesAre, Zenon
<1>5. \A k \in 1 .. n : all[k] = Bytes(1, n)[k]
  BY <1>1, <1>2, <1>3, <1>4 DEF Ordered
<1>6. all = Bytes(1, n)
  BY <1>2, <1>3, <1>4, <1>5, SeqEqual
<1> QED
  BY <1>1, <1>2, <1>6

LEMMA StreamIs ==
  ASSUME TcpInv
  PROVE  StreamInOrder
<1> SUFFICES ASSUME ~hole
             PROVE  /\ got \o conn.rx = Bytes(1, Len(got \o conn.rx))
                    /\ AckedBytes # {} => conn.rcv = NumOf(Len(got \o conn.rx) + 1 + Fin(conn))
                    /\ ended => got = Bytes(1, NumBytes)
  BY DEF StreamInOrder, Fin
<1>1. StreamHolds /\ TcpTyped
  BY DEF TcpInv, StreamInv
<1>2. PICK x \in Seq(1 .. NumBytes) : x = conn.rx
  BY <1>1 DEF TcpTyped, ConnType
<1>3. got \in Seq(1 .. NumBytes) /\ peer.sent \in 0 .. NumBytes
  BY <1>1 DEF TcpTyped
<1>4. Len(got \o x) = Len(got) + Len(x)
  BY <1>2, <1>3, ConcatProperties
<1>5. Ordered(got, x) /\ Len(got) + Len(x) <= NumBytes
  BY <1>1, <1>2, <1>3, LenProperties, Sizes DEF StreamHolds
<1>6. got \o x = Bytes(1, Len(got \o x))
  BY <1>2, <1>3, <1>5, InOrderAre
<1>7. AckedBytes # {} => conn.rcv = NumOf(Len(got) + Len(conn.rx) + 1 + Fin(conn))
  BY <1>1, Acked DEF StreamHolds
<1> QED
  BY <1>1, <1>2, <1>4, <1>6, <1>7 DEF StreamHolds

LEMMA NumbersAre ==
  ASSUME TcpInv
  PROVE  NumbersAreTrue
<1>1. ~hole => \A n \in AckedBytes : n <= peer.sent + (IF peer.fin THEN 1 ELSE 0)
  BY Acked DEF TcpInv, StreamInv, StreamHolds, Fin
<1> QED
  BY <1>1 DEF NumbersAreTrue, TcpInv, OurNumbers

LEMMA TcpTypesStay == TcpSpec => []TcpTyped
BY FirstTyped, TypedStep, PTL DEF TcpSpec

LEMMA TcpInvariant ==
  ASSUME FewBytes
  PROVE  TcpSpec => []TcpInv
<1>1. TcpInit => TcpInv
  BY FirstTyped, FirstNumbers, FirstStream DEF TcpInv
<1>2. TcpInv /\ [TcpNext]_tcpVars => TcpInv'
  <2> SUFFICES ASSUME TcpInv, [TcpNext]_tcpVars PROVE TcpInv'
    OBVIOUS
  <2>1. CASE TcpNext
    <3>1. TcpTyped'
      BY <2>1, TypedStep DEF TcpInv
    <3>2. OurNumbers' /\ StreamInv'
      BY <2>1, NumbersStep, StreamStep DEF TcpInv
    <3> QED
      BY <3>1, <3>2 DEF TcpInv
  <2> QED
    BY <2>1, TcpStays
<1> QED
  BY <1>1, <1>2, PTL DEF TcpSpec

(* Whatever the network loses, repeats or reorders, the caller reads the
   peer's bytes in order and each once, as long as nothing was acknowledged
   that was not kept (net/tcp.c:128, 202).  The network may repeat a segment
   however old it is, so no sequence number may come round again. *)
THEOREM StreamStaysInOrder ==
  ASSUME FewBytes
  PROVE  TcpSpec => []StreamInOrder
<1>1. TcpInv => StreamInOrder
  BY StreamIs
<1> QED
  BY <1>1, TcpInvariant, PTL

(* No segment acknowledges what the peer has not sent; the bytes of the
   segments sent do not overlap, and the FIN comes after all of them
   (net/tcp.c:109, 138, 189, 208, 218). *)
THEOREM NumbersStayTrue ==
  ASSUME FewBytes
  PROVE  TcpSpec => []NumbersAreTrue
<1>1. TcpInv => NumbersAreTrue
  BY NumbersAre
<1> QED
  BY <1>1, TcpInvariant, PTL

-------------------------------------------------------------------------------
(* The room that a queue of frames takes, for both directions. *)

(* A non-empty set of naturals has a least element. *)
LEMMA LeastNat ==
  ASSUME NEW T, T \subseteq Nat, T # {}
  PROVE  \E x \in T : \A y \in T : x <= y
<1> DEFINE R == {ss \in Nat \X Nat : ss[1] < ss[2]}
<1>1. IsWellFoundedOn(R, Nat)
  BY NatLessThanWellFounded, Zenon DEF OpToRel
<1>2. \A x, y \in Nat : <<y, x>> \in R <=> y < x
  OBVIOUS
<1> HIDE DEF R
<1>3. \E x \in T : \A y \in T : ~ (<<y, x>> \in R)
  BY <1>1, WFMin
<1>4. PICK x \in T : \A y \in T : ~ (<<y, x>> \in R)
  BY <1>3
<1>5. \A y \in T : ~ (y < x)
  BY <1>2, <1>4
<1>6. \A y \in T : x <= y
  <2> TAKE y \in T
  <2>1. x \in Nat /\ y \in Nat /\ ~ (y < x)
    BY <1>5
  <2> QED
    BY <2>1
<1> QED
  BY <1>6

(* The room the first frames of a queue take, frame by frame. *)
Sums(q, w) == CHOOSE g : g = [n \in 0 .. Len(q) |-> IF n = 0 THEN 0 ELSE g[n - 1] + w[q[n]]]

LEMMA TxUsed == ASSUME NEW q PROVE TxRing!Used(q) = Sums(q, [f \in TxFrames |-> 1])[Len(q)]
BY DEF TxRing!Used, Sums

LEMMA RxUsed == ASSUME NEW q PROVE RxRing!Used(q) = Sums(q, [f \in Frames |-> Size(f)])[Len(q)]
BY DEF RxRing!Used, Sums

(* A set with 0 and with every successor, up to N, has all numbers up to N. *)
LEMMA Stepwise ==
  ASSUME NEW N \in Nat, NEW G, 0 \in G, \A n \in 1 .. N : n - 1 \in G => n \in G
  PROVE  0 .. N \subseteq G
<1> DEFINE T == {n \in 0 .. N : n \notin G}
<1> SUFFICES ASSUME T # {} PROVE FALSE
  OBVIOUS
<1>1. T \subseteq Nat
  OBVIOUS
<1>2. PICK n \in T : \A m \in T : n <= m
  <2> HIDE DEF T
  <2> QED
    BY <1>1, LeastNat
<1>3. n \in 1 .. N /\ n - 1 \in 0 .. N
  BY <1>2
<1>4. n - 1 \in G
  BY <1>2, <1>3
<1> QED
  BY <1>2, <1>3, <1>4

LEMMA SumsExist ==
  ASSUME NEW S, NEW q \in Seq(S), NEW w \in [S -> Nat]
  PROVE  \E g : g = [n \in 0 .. Len(q) |-> IF n = 0 THEN 0 ELSE g[n - 1] + w[q[n]]]
<1> DEFINE Upto(n) == \E g \in [0 .. n -> Nat] : g[0] = 0 /\ \A k \in 1 .. n : g[k] = g[k - 1] + w[q[k]]
           G == {n \in Nat : Upto(n)}
<1>1. Len(q) \in Nat /\ \A k \in 1 .. Len(q) : w[q[k]] \in Nat
  OBVIOUS
<1>2. 0 \in G
  <2> DEFINE z == [k \in 0 .. 0 |-> 0]
  <2>1. z \in [0 .. 0 -> Nat] /\ z[0] = 0 /\ \A k \in 1 .. 0 : z[k] = z[k - 1] + w[q[k]]
    OBVIOUS
  <2> QED
    BY <2>1
<1>3. ASSUME NEW n \in 1 .. Len(q), n - 1 \in G PROVE n \in G
  <2>1. PICK g \in [0 .. (n - 1) -> Nat] : g[0] = 0 /\ \A k \in 1 .. (n - 1) : g[k] = g[k - 1] + w[q[k]]
    BY <1>3
  <2> DEFINE h == [k \in 0 .. n |-> IF k = n THEN g[n - 1] + w[q[n]] ELSE g[k]]
  <2>2. w[q[n]] \in Nat /\ g[n - 1] \in Nat /\ n \in Nat
    BY <1>1, <2>1
  <2>3. h \in [0 .. n -> Nat] /\ h[0] = 0
    BY <2>1, <2>2
  <2>4. ASSUME NEW k \in 1 .. n PROVE h[k] = h[k - 1] + w[q[k]]
    <3>1. CASE k = n
      <4>1. h[n] = g[n - 1] + w[q[n]] /\ h[n - 1] = g[n - 1]
        BY <2>2
      <4> QED
        BY <3>1, <4>1
    <3>2. CASE k # n
      <4>1. k \in 1 .. (n - 1) /\ h[k] = g[k] /\ h[k - 1] = g[k - 1]
        BY <2>2, <3>2
      <4> QED
        BY <2>1, <4>1
    <3> QED
      BY <3>1, <3>2
  <2> HIDE DEF h
  <2> QED
    BY <2>2, <2>3, <2>4
<1>4. Len(q) \in G
  <2> HIDE DEF G
  <2>1. 0 .. Len(q) \subseteq G
    BY <1>1, <1>2, <1>3, Stepwise
  <2> QED
    BY <1>1, <2>1
<1>5. PICK g \in [0 .. Len(q) -> Nat] : g[0] = 0 /\ \A k \in 1 .. Len(q) : g[k] = g[k - 1] + w[q[k]]
  BY <1>4
<1>6. g = [n \in 0 .. Len(q) |-> IF n = 0 THEN 0 ELSE g[n - 1] + w[q[n]]]
  BY <1>1, <1>5
<1> QED
  BY <1>6

LEMMA SumsAre ==
  ASSUME NEW S, NEW q \in Seq(S), NEW w \in [S -> Nat]
  PROVE  /\ Sums(q, w) \in [0 .. Len(q) -> Nat] /\ Sums(q, w)[0] = 0
         /\ \A n \in 1 .. Len(q) : Sums(q, w)[n] = Sums(q, w)[n - 1] + w[q[n]]
<1>1. Sums(q, w) = [n \in 0 .. Len(q) |-> IF n = 0 THEN 0 ELSE Sums(q, w)[n - 1] + w[q[n]]]
  BY SumsExist DEF Sums
<1>2. PICK g : g = Sums(q, w)
  OBVIOUS
<1>3. g = [n \in 0 .. Len(q) |-> IF n = 0 THEN 0 ELSE g[n - 1] + w[q[n]]]
  BY <1>1, <1>2
<1>4. /\ g[0] = 0 /\ (\A n \in 1 .. Len(q) : g[n] = g[n - 1] + w[q[n]])
      /\ DOMAIN g = 0 .. Len(q) /\ Len(q) \in Nat
  BY <1>3
<1> DEFINE G == {n \in Nat : g[n] \in Nat}
<1>5. 0 \in G
  BY <1>4
<1>6. ASSUME NEW n \in 1 .. Len(q), n - 1 \in G PROVE n \in G
  <2>1. w[q[n]] \in Nat /\ g[n - 1] \in Nat /\ n \in Nat
    BY <1>4, <1>6
  <2> QED
    BY <1>4, <2>1
<1>7. 0 .. Len(q) \subseteq G
  <2> HIDE DEF G
  <2> QED
    BY <1>4, <1>5, <1>6, Stepwise
<1>8. g \in [0 .. Len(q) -> Nat]
  <2>1. \A n \in 0 .. Len(q) : g[n] \in Nat
    BY <1>7
  <2>2. g = [n \in 0 .. Len(q) |-> g[n]]
    BY <1>3, <1>4
  <2> QED
    BY <2>1, <2>2
<1> QED
  BY <1>2, <1>4, <1>8

LEMMA SumsAppend ==
  ASSUME NEW S, NEW q \in Seq(S), NEW w \in [S -> Nat], NEW f \in S
  PROVE  /\ \A n \in 0 .. Len(q) : Sums(Append(q, f), w)[n] = Sums(q, w)[n]
         /\ Sums(Append(q, f), w)[Len(q) + 1] = Sums(q, w)[Len(q)] + w[f]
<1>1. PICK r : r = Append(q, f)
  OBVIOUS
<1>2. /\ r \in Seq(S) /\ Len(r) = Len(q) + 1 /\ r[Len(q) + 1] = f /\ Len(q) \in Nat
      /\ \A n \in 1 .. Len(q) : r[n] = q[n]
  BY <1>1
<1>3. PICK g : g = Sums(q, w)
  OBVIOUS
<1>4. PICK h : h = Sums(r, w)
  OBVIOUS
<1>5. g[0] = 0 /\ \A n \in 1 .. Len(q) : g[n] = g[n - 1] + w[q[n]]
  BY <1>3, SumsAre
<1>6. h[0] = 0 /\ \A n \in 1 .. (Len(q) + 1) : h[n] = h[n - 1] + w[r[n]]
  <2>1. h[0] = 0 /\ \A n \in 1 .. Len(r) : h[n] = h[n - 1] + w[r[n]]
    BY <1>2, <1>4, SumsAre
  <2> QED
    BY <1>2, <2>1
<1> DEFINE G == {n \in Nat : h[n] = g[n]}
<1>7. 0 \in G
  BY <1>5, <1>6
<1>8. ASSUME NEW n \in 1 .. Len(q), n - 1 \in G PROVE n \in G
  <2>1. g[n] = g[n - 1] + w[q[n]]
    BY <1>5
  <2>2. n \in 1 .. (Len(q) + 1) /\ r[n] = q[n]
    BY <1>2
  <2>3. h[n] = h[n - 1] + w[r[n]]
    BY <1>6, <2>2
  <2> QED
    BY <1>8, <2>1, <2>2, <2>3
<1>9. 0 .. Len(q) \subseteq G
  <2> HIDE DEF G
  <2> QED
    BY <1>2, <1>7, <1>8, Stepwise
<1>10. \A n \in 0 .. Len(q) : h[n] = g[n]
  BY <1>9
<1>11. h[Len(q) + 1] = g[Len(q)] + w[f]
  BY <1>2, <1>6, <1>10
<1> QED
  BY <1>1, <1>3, <1>4, <1>10, <1>11

LEMMA SumsTail ==
  ASSUME NEW S, NEW q \in Seq(S), q # <<>>, NEW w \in [S -> Nat]
  PROVE  \A n \in 0 .. (Len(q) - 1) : Sums(Tail(q), w)[n] = Sums(q, w)[n + 1] - w[q[1]]
<1>1. PICK r : r = Tail(q)
  OBVIOUS
<1>2. /\ r \in Seq(S) /\ Len(r) = Len(q) - 1 /\ Len(q) \in Nat \ {0} /\ q[1] \in S
      /\ \A n \in 1 .. (Len(q) - 1) : r[n] = q[n + 1]
  BY <1>1
<1>3. PICK g : g = Sums(q, w)
  OBVIOUS
<1>4. PICK h : h = Sums(r, w)
  OBVIOUS
<1>5. g[0] = 0 /\ (\A n \in 1 .. Len(q) : g[n] = g[n - 1] + w[q[n]]) /\ g \in [0 .. Len(q) -> Nat]
  BY <1>3, SumsAre
<1>6. h[0] = 0 /\ (\A n \in 1 .. (Len(q) - 1) : h[n] = h[n - 1] + w[r[n]])
  <2>1. h[0] = 0 /\ \A n \in 1 .. Len(r) : h[n] = h[n - 1] + w[r[n]]
    BY <1>2, <1>4, SumsAre
  <2> QED
    BY <1>2, <2>1
<1>7. w[q[1]] \in Nat
  BY <1>2
<1> DEFINE G == {n \in Nat : h[n] = g[n + 1] - w[q[1]]}
<1>8. 0 \in G
  <2>1. g[1] = g[0] + w[q[1]]
    BY <1>2, <1>5
  <2> QED
    BY <1>5, <1>6, <1>7, <2>1
<1>9. ASSUME NEW n \in 1 .. (Len(q) - 1), n - 1 \in G PROVE n \in G
  <2>1. h[n] = h[n - 1] + w[r[n]] /\ r[n] = q[n + 1]
    BY <1>2, <1>6
  <2>2. n + 1 \in 1 .. Len(q) /\ n \in 0 .. Len(q) /\ n + 1 - 1 = n /\ n - 1 + 1 = n
    BY <1>2
  <2>3. g[n + 1] = g[n] + w[q[n + 1]] /\ g[n] \in Nat /\ w[q[n + 1]] \in Nat
    BY <1>5, <2>2
  <2>4. h[n - 1] = g[n] - w[q[1]]
    BY <1>9, <2>2
  <2> QED
    BY <1>7, <2>1, <2>3, <2>4
<1>10. 0 .. (Len(q) - 1) \subseteq G
  <2> HIDE DEF G
  <2>1. Len(q) - 1 \in Nat
    BY <1>2
  <2> QED
    BY <1>8, <1>9, <2>1, Stepwise
<1> QED
  BY <1>1, <1>3, <1>4, <1>10

(* More frames take more room. *)
LEMMA SumsGrow ==
  ASSUME NEW S, NEW q \in Seq(S), NEW w \in [S -> Nat], NEW m \in 0 .. Len(q), NEW n \in m .. Len(q)
  PROVE  Sums(q, w)[m] <= Sums(q, w)[n]
<1>1. PICK g : g = Sums(q, w)
  OBVIOUS
<1>2. (\A k \in 1 .. Len(q) : g[k] = g[k - 1] + w[q[k]]) /\ g \in [0 .. Len(q) -> Nat] /\ Len(q) \in Nat
  BY <1>1, SumsAre
<1> DEFINE G == {k \in Nat : m <= k => g[m] <= g[k]}
<1>3. 0 \in G
  <2>1. m <= 0 => m = 0
    BY <1>2
  <2>2. g[0] \in Nat
    BY <1>2
  <2> QED
    BY <2>1, <2>2
<1>4. ASSUME NEW k \in 1 .. Len(q), k - 1 \in G PROVE k \in G
  <2>1. g[k] = g[k - 1] + w[q[k]] /\ g[k - 1] \in Nat /\ w[q[k]] \in Nat /\ g[m] \in Nat /\ g[k] \in Nat
    <3>1. k \in 0 .. Len(q) /\ k - 1 \in 0 .. Len(q) /\ q[k] \in S
      BY <1>2
    <3> QED
      BY <1>2, <3>1
  <2>2. CASE m <= k - 1
    BY <1>4, <2>1, <2>2
  <2>3. CASE ~(m <= k - 1)
    <3>1. m <= k => m = k
      BY <2>3
    <3> QED
      BY <2>1, <3>1
  <2> QED
    BY <2>2, <2>3
<1>5. 0 .. Len(q) \subseteq G
  <2> HIDE DEF G
  <2> QED
    BY <1>2, <1>3, <1>4, Stepwise
<1>6. n \in G /\ m <= n
  <2>1. m \in Nat /\ n \in m .. Len(q)
    BY <1>2
  <2>2. n \in 0 .. Len(q) /\ m <= n
    BY <1>2, <2>1
  <2> HIDE DEF G
  <2> QED
    BY <1>5, <2>2
<1> QED
  BY <1>1, <1>6

-------------------------------------------------------------------------------
(* Sending. *)

(* Positions go round. *)
Round(i, k, n) == (i + k) % n

LEMMA RoundIs ==
  ASSUME NEW n \in Nat \ {0}, NEW i \in 0 .. (n - 1), NEW k \in 0 .. n
  PROVE  Round(i, k, n) = IF i + k < n THEN i + k ELSE i + k - n
<1>1. CASE i + k < n
  BY <1>1 DEF Round
<1>2. CASE ~(i + k < n)
  <2>1. PICK x \in Int : x = i + k
    OBVIOUS
  <2>2. n <= x /\ x < 2 * n
    BY <1>2, <2>1
  <2>3. x % n = x - n
    BY <2>1, <2>2
  <2> QED
    BY <1>2, <2>1, <2>3 DEF Round
<1> QED
  BY <1>1, <1>2

LEMMA RoundAgain ==
  ASSUME NEW n \in Nat \ {0}, NEW i \in 0 .. (n - 1), NEW k \in 0 .. (n - 1)
  PROVE  /\ Round(i, k, n) \in 0 .. (n - 1) /\ Round(i, 0, n) = i /\ Round(i, n, n) = i
         /\ Round(i, 1, n) \in 0 .. (n - 1)
         /\ Round(Round(i, 1, n), k, n) = Round(i, k + 1, n)
         /\ Round(Round(i, k, n), 1, n) = Round(i, k + 1, n)
<1>1. \A j \in 0 .. (n - 1), m \in 0 .. n : Round(j, m, n) = IF j + m < n THEN j + m ELSE j + m - n
  BY RoundIs
<1>2. /\ k \in 0 .. n /\ 0 \in 0 .. n /\ n \in 0 .. n /\ 1 \in 0 .. n /\ k + 1 \in 0 .. n
  OBVIOUS
<1>3. Round(i, k, n) \in 0 .. (n - 1) /\ Round(i, 1, n) \in 0 .. (n - 1)
  BY <1>1, <1>2
<1>4. Round(i, 0, n) = i /\ Round(i, n, n) = i
  BY <1>1, <1>2
<1>5. PICK a \in 0 .. (n - 1) : a = Round(i, k, n)
  BY <1>3
<1>6. PICK b \in 0 .. (n - 1) : b = Round(i, 1, n)
  BY <1>3
<1>7. /\ Round(a, 1, n) = IF a + 1 < n THEN a + 1 ELSE a + 1 - n
      /\ Round(b, k, n) = IF b + k < n THEN b + k ELSE b + k - n
      /\ Round(i, k + 1, n) = IF i + (k + 1) < n THEN i + (k + 1) ELSE i + (k + 1) - n
      /\ a = (IF i + k < n THEN i + k ELSE i + k - n)
      /\ b = (IF i + 1 < n THEN i + 1 ELSE i + 1 - n)
  BY <1>1, <1>2, <1>5, <1>6
<1>8. Round(a, 1, n) = Round(i, k + 1, n) /\ Round(b, k, n) = Round(i, k + 1, n)
  BY <1>7
<1> QED
  BY <1>3, <1>4, <1>5, <1>6, <1>8

LEMMA RoundOnce ==
  ASSUME NEW n \in Nat \ {0}, NEW i \in 0 .. (n - 1), NEW j \in 0 .. (n - 1), NEW k \in 0 .. (n - 1),
         Round(i, j, n) = Round(i, k, n)
  PROVE  j = k
<1>1. j \in 0 .. n /\ k \in 0 .. n
  OBVIOUS
<1>2. (IF i + j < n THEN i + j ELSE i + j - n) = (IF i + k < n THEN i + k ELSE i + k - n)
  BY <1>1, RoundIs
<1> QED
  BY <1>2

-------------------------------------------------------------------------------
(* Every frame to send takes one buffer. *)
LEMMA TxUsedIs ==
  ASSUME NEW q \in Seq(TxFrames)
  PROVE  TxRing!Used(q) = Len(q)
<1> DEFINE w == [f \in TxFrames |-> 1]
<1>1. w \in [TxFrames -> Nat] /\ Len(q) \in Nat
  OBVIOUS
<1>2. TxRing!Used(q) = Sums(q, w)[Len(q)]
  BY TxUsed
<1>3. \A n \in 1 .. Len(q) : w[q[n]] = 1
  OBVIOUS
<1> HIDE DEF w
<1>4. PICK g : g = Sums(q, w)
  OBVIOUS
<1>5. g[0] = 0 /\ \A n \in 1 .. Len(q) : g[n] = g[n - 1] + w[q[n]]
  BY <1>1, <1>4, SumsAre
<1> DEFINE G == {n \in Nat : g[n] = n}
<1>6. 0 \in G
  BY <1>5
<1>7. ASSUME NEW n \in 1 .. Len(q), n - 1 \in G PROVE n \in G
  BY <1>1, <1>3, <1>5, <1>7
<1>8. 0 .. Len(q) \subseteq G
  <2> HIDE DEF G
  <2> QED
    BY <1>1, <1>6, <1>7, Stepwise
<1>9. Len(q) \in 0 .. Len(q)
  BY <1>1
<1> QED
  BY <1>2, <1>4, <1>8, <1>9

Drivers == {"e1000", "pcnet", "rtl8139", "ne2000"}
Ahead(k) == Round(tdh, k, Slots)   \* the card's buffers, from its next one on

TxTyped ==
  /\ txCard \in TxCards /\ Len(handed) <= Slots
  /\ tx_buf \in [0 .. (Buffers - 1) -> TxFrames \cup {NoTxFrame}]
  /\ tdh \in 0 .. (Slots - 1) /\ tx_head \in 0 .. (Slots - 1)
  /\ sendAt \in {"no", "free?", "copy", "hand", "done?"}
  /\ sendAt # "no" => txFrame \in TxFrames
  /\ handed \in Seq(TxFrames)

(* What has been handed over lies in the buffers from the card's next one on,
   in order; the driver's next buffer is the one behind them. *)
TxOrder ==
  /\ \A k \in 1 .. Len(handed) : tx_buf[Ahead(k - 1)] = handed[k]
  /\ Ahead(Len(handed)) = IF sendAt = "done?" THEN Following(tx_head) ELSE tx_head
  /\ sendAt \in {"copy", "hand"} => Len(handed) < Slots
  /\ sendAt = "hand" => tx_buf[tx_head] = txFrame

(* The card is done with the buffers it has not got, ne2000's flag tells that
   what it had has left. *)
TxFlags ==
  /\ txCard = "e1000" => tdt = Ahead(Len(handed))
  /\ txCard # "ne2000" => \A k \in 1 .. Slots : Ahead(k - 1) \in done <=> k > Len(handed)
  /\ txCard = "ne2000" /\ sendAt # "done?" => done = {}
  /\ txCard = "ne2000" /\ done # {} => handed = <<>>
  /\ txCard \in {"rtl8139", "ne2000"} =>
       Len(handed) <= 1 /\ sendAt # "free?" /\ (sendAt # "done?" => handed = <<>>)

TxInv == TxTyped /\ TxOrder /\ TxFlags

(* rtl8139_send waits until its frame has left, and the NE2000 is quick enough. *)
Patient == Slow \cap {"rtl8139", "ne2000"} = {}

LEMMA TxSizes ==
  ASSUME TxTyped
  PROVE  Slots \in Nat \ {0} /\ Slots <= Buffers /\ txCard \in Drivers /\ Buffers \in Nat
         /\ (txCard = "ne2000" => Slots = 1) /\ (txCard # "ne2000" => Slots = Buffers)
BY TxAssumption DEF TxTyped, Slots, Drivers

(* The positions from tdh on, and the one after each. *)
LEMMA TxPlaces ==
  ASSUME TxTyped
  PROVE  /\ \A k \in 0 .. Slots : Ahead(k) \in 0 .. (Slots - 1)
         /\ Ahead(0) = tdh /\ Ahead(Slots) = tdh
         /\ \A j, k \in 0 .. (Slots - 1) : Ahead(j) = Ahead(k) => j = k
         /\ \A k \in 0 .. (Slots - 1) : Following(Ahead(k)) = Ahead(k + 1)
         /\ \A k \in 0 .. (Slots - 1) : Round(Following(tdh), k, Slots) = Ahead(k + 1)
         /\ \A i \in 0 .. (Slots - 1) : Following(i) \in 0 .. (Slots - 1)
         /\ \A i, j \in 0 .. (Slots - 1) : Following(i) = Following(j) => i = j
<1>1. PICK n \in Nat \ {0} : n = Slots
  BY TxSizes
<1>2. PICK h \in 0 .. (n - 1) : h = tdh
  BY <1>1 DEF TxTyped
<1>3. /\ \A k : Ahead(k) = Round(h, k, n)
      /\ \A i : Following(i) = Round(i, 1, n)
  BY <1>1, <1>2 DEF Ahead, Following, Round
<1>4. \A i, k \in 0 .. (n - 1) :
        /\ Round(i, k, n) \in 0 .. (n - 1) /\ Round(i, 0, n) = i /\ Round(i, n, n) = i
        /\ Round(i, 1, n) \in 0 .. (n - 1)
        /\ Round(Round(i, 1, n), k, n) = Round(i, k + 1, n)
        /\ Round(Round(i, k, n), 1, n) = Round(i, k + 1, n)
  BY RoundAgain
<1>5. \A k \in 0 .. n : k = n \/ k \in 0 .. (n - 1)
  OBVIOUS
<1>6. \A k \in 0 .. n : Round(h, k, n) \in 0 .. (n - 1)
  BY <1>4, <1>5
<1>7. \A j, k \in 0 .. (n - 1) : Round(h, j, n) = Round(h, k, n) => j = k
  BY RoundOnce
<1>8. ASSUME NEW i \in 0 .. (n - 1), NEW j \in 0 .. (n - 1), Round(i, 1, n) = Round(j, 1, n)
      PROVE  i = j
  <2>1. /\ Round(i, 1, n) = IF i + 1 < n THEN i + 1 ELSE i + 1 - n
        /\ Round(j, 1, n) = IF j + 1 < n THEN j + 1 ELSE j + 1 - n
    <3>1. 1 \in 0 .. n
      OBVIOUS
    <3> QED
      BY <3>1, RoundIs
  <2> QED
    BY <1>8, <2>1
<1>9. \A k \in 0 .. (n - 1) : Round(Round(h, k, n), 1, n) = Round(h, k + 1, n)
                              /\ Round(Round(h, 1, n), k, n) = Round(h, k + 1, n)
  BY <1>4
<1>10. Round(h, 0, n) = h /\ Round(h, n, n) = h
  BY <1>4
<1>12. (\A k \in 0 .. n : Ahead(k) \in 0 .. (n - 1)) /\ Ahead(0) = h /\ Ahead(n) = h
  BY <1>3, <1>6, <1>10
<1>13. \A j, k \in 0 .. (n - 1) : Ahead(j) = Ahead(k) => j = k
  BY <1>3, <1>7
<1>14. \A k \in 0 .. (n - 1) : Following(Ahead(k)) = Ahead(k + 1) /\ Round(Following(h), k, n) = Ahead(k + 1)
  BY <1>3, <1>9
<1>15. \A i \in 0 .. (n - 1) : Following(i) \in 0 .. (n - 1)
  BY <1>3, <1>4
<1>16. \A i, j \in 0 .. (n - 1) : Following(i) = Following(j) => i = j
  BY <1>3, <1>8
<1> QED
  BY <1>1, <1>2, <1>12, <1>13, <1>14, <1>15, <1>16, Zenon

LEMMA TxBegins == TxInit => TxInv
<1> SUFFICES ASSUME TxInit PROVE TxInv
  OBVIOUS
<1>1. TxTyped
  BY TxAssumption DEF TxInit, TxTyped, Slots
<1>2. PICK n \in Nat \ {0} : n = Slots
  BY <1>1, TxSizes
<1>3. Ahead(0) = 0 /\ (\A k \in 0 .. n : Ahead(k) \in 0 .. (n - 1)) /\ Len(handed) = 0
  BY <1>1, <1>2, TxPlaces DEF TxInit
<1>4. TxOrder
  BY <1>2, <1>3 DEF TxInit, TxOrder
<1>5. \A k \in 1 .. n : k - 1 \in 0 .. n /\ k > 0
  OBVIOUS
<1>6. txCard # "ne2000" => n = Buffers
  BY <1>1, <1>2, TxSizes
<1>7. TxFlags
  BY <1>2, <1>3, <1>5, <1>6 DEF TxInit, TxFlags
<1> QED
  BY <1>1, <1>4, <1>7 DEF TxInv

(* What the steps that only move sendAt leave alone. *)
LEMMA TxSend == TxInv /\ (\E f \in TxFrames : Send(f)) => TxInv'
<1> SUFFICES ASSUME TxInv, NEW f \in TxFrames, Send(f) PROVE TxInv'
  OBVIOUS
<1>1. Slots' = Slots /\ \A k : Ahead(k)' = Ahead(k)
  BY DEF Send, Slots, Ahead
<1>2. TxTyped'
  BY <1>1 DEF Send, TxInv, TxTyped
<1>3. TxOrder'
  <2>1. Len(handed)' = Len(handed) /\ (sendAt' = "copy" => Len(handed) = 0) /\ sendAt = "no" /\ 0 < Slots
    BY TxSizes DEF Send, TxInv, TxFlags, TxTyped, Drivers
  <2> QED
    BY <1>1, <2>1 DEF Send, TxInv, TxOrder
<1>4. TxFlags'
  BY <1>1 DEF Send, TxInv, TxFlags
<1> QED
  BY <1>2, <1>3, <1>4 DEF TxInv

(* The driver's next buffer is behind all that is handed over, so it is the
   card's exactly when all are. *)
LEMMA TxFreeMeans ==
  ASSUME TxInv, sendAt = "free?"
  PROVE  tx_head \in done <=> Len(handed) < Slots
<1>1. PICK n \in Nat \ {0} : n = Slots
  BY TxSizes DEF TxInv
<1>2. PICK l \in 0 .. n : l = Len(handed)
  BY <1>1 DEF TxInv, TxTyped
<1>3. Ahead(l) = tx_head /\ txCard # "ne2000"
  BY <1>2 DEF TxInv, TxOrder, TxFlags
<1>4. \A k \in 1 .. n : Ahead(k - 1) \in done <=> k > l
  BY <1>1, <1>2, <1>3 DEF TxInv, TxFlags
<1>5. CASE l < n
  <2>1. l + 1 \in 1 .. n /\ l + 1 - 1 = l /\ l + 1 > l
    BY <1>5
  <2>2. Ahead(l) \in done
    BY <1>4, <2>1
  <2> QED
    BY <1>1, <1>2, <1>3, <1>5, <2>2
<1>6. CASE l = n
  <2>1. Ahead(n) = Ahead(0)
    BY <1>1, TxPlaces DEF TxInv
  <2>2. 1 \in 1 .. n /\ ~(1 > l) /\ 1 - 1 = 0
    BY <1>6
  <2>3. ~(Ahead(0) \in done)
    BY <1>4, <2>2
  <2>4. ~(l < n)
    BY <1>6
  <2> QED
    BY <1>1, <1>2, <1>3, <1>6, <2>1, <2>3, <2>4
<1> QED
  BY <1>5, <1>6

LEMMA TxIsFree == TxInv /\ IsFree => TxInv'
<1> SUFFICES ASSUME TxInv, IsFree PROVE TxInv'
  OBVIOUS
<1>1. Slots' = Slots /\ \A k : Ahead(k)' = Ahead(k)
  BY DEF IsFree, Slots, Ahead
<1>2. sendAt = "free?" /\ sendAt' = "copy" /\ Len(handed) < Slots
  BY TxFreeMeans DEF IsFree, Free
<1>3. TxTyped'
  BY <1>1, <1>2 DEF IsFree, TxInv, TxTyped
<1>4. TxOrder'
  BY <1>1, <1>2 DEF IsFree, TxInv, TxOrder
<1>5. TxFlags'
  BY <1>1, <1>2 DEF IsFree, TxInv, TxFlags
<1> QED
  BY <1>3, <1>4, <1>5 DEF TxInv

LEMMA TxNotFree == TxInv /\ NotFree => TxInv'
<1> SUFFICES ASSUME TxInv, NotFree PROVE TxInv'
  OBVIOUS
<1>1. Slots' = Slots /\ \A k : Ahead(k)' = Ahead(k)
  BY DEF NotFree, Slots, Ahead
<1>2. TxTyped'
  BY <1>1 DEF NotFree, TxInv, TxTyped
<1>3. TxOrder'
  BY <1>1 DEF NotFree, TxInv, TxOrder
<1>4. TxFlags'
  BY <1>1 DEF NotFree, TxInv, TxFlags
<1> QED
  BY <1>2, <1>3, <1>4 DEF TxInv

LEMMA TxCopy == TxInv /\ Copy => TxInv'
<1> SUFFICES ASSUME TxInv, Copy PROVE TxInv'
  OBVIOUS
<1>1. Slots' = Slots /\ \A k : Ahead(k)' = Ahead(k)
  BY DEF Copy, Slots, Ahead
<1>2. tx_head \in 0 .. (Buffers - 1) /\ txFrame \in TxFrames
  BY TxSizes DEF Copy, TxInv, TxTyped
<1>3. TxTyped'
  BY <1>1, <1>2 DEF Copy, TxInv, TxTyped
<1>4. TxFlags'
  BY <1>1 DEF Copy, TxInv, TxFlags
<1>5. PICK n \in Nat \ {0} : n = Slots
  BY TxSizes DEF TxInv
<1>6. PICK l \in 0 .. (n - 1) : l = Len(handed)
  BY <1>5 DEF TxInv, TxTyped, TxOrder, Copy
<1>7. Ahead(l) = tx_head
  BY <1>6 DEF TxInv, TxOrder, Copy
<1>8. ASSUME NEW k \in 1 .. l PROVE tx_buf'[Ahead(k - 1)] = handed[k]
  <2>1. k - 1 \in 0 .. (n - 1) /\ l \in 0 .. (n - 1) /\ k - 1 # l
    BY <1>6
  <2>2. Ahead(k - 1) # tx_head
    BY <1>5, <1>7, <2>1, TxPlaces DEF TxInv
  <2>3. tx_buf[Ahead(k - 1)] = handed[k]
    BY <1>6 DEF TxInv, TxOrder
  <2>4. Ahead(k - 1) \in DOMAIN tx_buf
    <3>1. k - 1 \in 0 .. n
      BY <2>1
    <3>2. Ahead(k - 1) \in 0 .. (n - 1) /\ n <= Buffers /\ Buffers \in Nat
      BY <1>5, <3>1, TxPlaces, TxSizes DEF TxInv
    <3> QED
      BY <3>2 DEF TxInv, TxTyped
  <2> QED
    BY <2>2, <2>3, <2>4 DEF Copy
<1>9. tx_buf'[tx_head] = txFrame
  BY <1>2 DEF Copy, TxInv, TxTyped
<1>10. TxOrder'
  <2>1. Len(handed)' = l /\ Slots' = n /\ l < n
    BY <1>1, <1>5, <1>6 DEF Copy
  <2> QED
    BY <1>1, <1>7, <1>8, <1>9, <2>1 DEF Copy, TxOrder
<1> QED
  BY <1>3, <1>4, <1>10 DEF TxInv

LEMMA TxHand == TxInv /\ Hand => TxInv'
<1> SUFFICES ASSUME TxInv, Hand PROVE TxInv'
  OBVIOUS
<1>1. Slots' = Slots /\ \A k : Ahead(k)' = Ahead(k)
  BY DEF Hand, Slots, Ahead
<1>2. PICK n \in Nat \ {0} : n = Slots
  BY TxSizes DEF TxInv
<1>3. PICK l \in 0 .. (n - 1) : l = Len(handed)
  BY <1>2 DEF TxInv, TxTyped, TxOrder, Hand
<1>4. Ahead(l) = tx_head /\ tx_buf[tx_head] = txFrame /\ txFrame \in TxFrames /\ handed \in Seq(TxFrames)
  BY <1>3 DEF TxInv, TxOrder, TxTyped, Hand
<1>5. /\ handed' \in Seq(TxFrames) /\ Len(handed') = l + 1 /\ handed'[l + 1] = txFrame
      /\ \A k \in 1 .. l : handed'[k] = handed[k]
  BY <1>3, <1>4 DEF Hand
<1>6. Following(tx_head) = Ahead(l + 1) /\ Following(tx_head)' = Ahead(l + 1)
  <2>1. Following(Ahead(l)) = Ahead(l + 1)
    BY <1>2, TxPlaces DEF TxInv
  <2>2. tx_head' = tx_head /\ Following(tx_head)' = Following(tx_head')
    BY <1>1 DEF Hand, Following
  <2> QED
    BY <1>1, <1>4, <2>1, <2>2 DEF Following, Hand
<1>7. tx_head' = tx_head /\ tdh' = tdh /\ txCard' = txCard /\ tx_buf' = tx_buf /\ txFrame' = txFrame
      /\ sendAt' = "done?" /\ sendAt = "hand"
  BY DEF Hand
<1>8. TxTyped'
  BY <1>1, <1>2, <1>4, <1>5, <1>7 DEF TxInv, TxTyped
<1>9. TxOrder'
  <2>1. ASSUME NEW k \in 1 .. (l + 1) PROVE tx_buf[Ahead(k - 1)] = handed'[k]
    <3>1. CASE k = l + 1
      BY <1>4, <1>5, <3>1
    <3>2. CASE k # l + 1
      <4>1. k \in 1 .. l
        BY <3>2
      <4> QED
        BY <1>3, <1>5, <4>1 DEF TxInv, TxOrder
    <3> QED
      BY <3>1, <3>2
  <2> QED
    BY <1>1, <1>5, <1>6, <1>7, <2>1 DEF TxOrder
<1>10. ASSUME txCard # "ne2000", NEW k \in 1 .. n PROVE Ahead(k - 1) \in done' <=> k > l + 1
  <2>1. done' = done \ {tx_head}
    BY <1>10 DEF Hand, E1000Hand, PcnetHand, Rtl8139Hand, Ne2000Hand
  <2>2. Ahead(k - 1) \in done <=> k > l
    BY <1>2, <1>3, <1>10 DEF TxInv, TxFlags
  <2>3. Ahead(k - 1) = Ahead(l) => k - 1 = l
    <3>1. k - 1 \in 0 .. (n - 1)
      OBVIOUS
    <3> QED
      BY <1>2, <3>1, TxPlaces DEF TxInv
  <2>4. (k - 1 = l => ~(k > l + 1) /\ k > l /\ k = l + 1) /\ (k - 1 # l => (k > l <=> k > l + 1))
    OBVIOUS
  <2> QED
    BY <1>4, <2>1, <2>2, <2>3, <2>4
<1>11. TxFlags'
  <2>1. txCard = "e1000" => tdt' = Ahead(l + 1)
    BY <1>6 DEF Hand, E1000Hand, PcnetHand, Rtl8139Hand, Ne2000Hand
  <2>2. txCard = "ne2000" => done' = {} /\ n = 1
    BY <1>2, TxSizes DEF Hand, E1000Hand, PcnetHand, Rtl8139Hand, Ne2000Hand, TxInv, TxFlags
  <2>3. txCard \in {"rtl8139", "ne2000"} => l = 0
    BY <1>3 DEF Hand, TxInv, TxFlags
  <2> QED
    BY <1>1, <1>2, <1>5, <1>7, <1>10, <2>1, <2>2, <2>3 DEF TxFlags
<1> QED
  BY <1>8, <1>9, <1>11 DEF TxInv

(* A driver that waits long enough finds everything sent. *)
LEMMA TxEnds ==
  ASSUME Patient PROVE TxInv /\ Ends => TxInv'
<1> SUFFICES ASSUME TxInv, Ends PROVE TxInv'
  OBVIOUS
<1>1. Slots' = Slots /\ \A k : Ahead(k)' = Ahead(k)
  BY DEF Ends, Slots, Ahead
<1>2. PICK n \in Nat \ {0} : n = Slots
  BY TxSizes DEF TxInv
<1>3. PICK l \in 0 .. n : l = Len(handed)
  BY <1>2 DEF TxInv, TxTyped
<1>4. Ahead(l) = Following(tx_head) /\ tx_head \in 0 .. (n - 1)
  BY <1>2, <1>3 DEF TxInv, TxOrder, TxTyped, Ends
<1>5. tx_head' = Following(tx_head)
  <2>1. CASE txCard # "ne2000"
    BY <2>1 DEF Ends, E1000Ends, PcnetEnds, Rtl8139Ends, Ne2000Ends
  <2>2. CASE txCard = "ne2000"
    <3>1. n = 1 /\ tx_head' = tx_head
      BY <1>2, <2>2, TxSizes DEF Ends, E1000Ends, PcnetEnds, Rtl8139Ends, Ne2000Ends, TxInv
    <3>2. Following(tx_head) \in 0 .. (n - 1)
      BY <1>2, <1>4, TxPlaces DEF TxInv
    <3> QED
      BY <1>4, <3>1, <3>2
  <2> QED
    BY <2>1, <2>2
<1>6. txCard \in {"rtl8139", "ne2000"} => l = 0
  <2> SUFFICES ASSUME txCard \in {"rtl8139", "ne2000"} PROVE l = 0
    OBVIOUS
  <2>1. tx_head \in done /\ l <= 1
    BY <1>3 DEF Patient, Ends, TxInv, TxFlags
  <2>2. CASE txCard = "ne2000"
    BY <1>3, <2>1, <2>2 DEF TxInv, TxFlags, TxTyped
  <2>3. CASE txCard = "rtl8139" /\ l = 1
    <3>1. Following(Ahead(0)) = Ahead(1) /\ Ahead(0) \in 0 .. (n - 1)
      <4>1. 0 \in 0 .. (n - 1) /\ 0 \in 0 .. n /\ 0 + 1 = 1
        OBVIOUS
      <4> QED
        BY <1>2, <4>1, TxPlaces DEF TxInv
    <3>2. Ahead(0) = tx_head
      BY <1>2, <1>4, <2>3, <3>1, TxPlaces DEF TxInv
    <3>3. Ahead(1 - 1) \in done <=> 1 > l
      <4>1. 1 \in 1 .. n
        OBVIOUS
      <4> QED
        BY <1>2, <1>3, <2>3, <4>1 DEF TxInv, TxFlags
    <3> QED
      BY <2>1, <2>3, <3>2, <3>3
  <2> QED
    BY <2>1, <2>2, <2>3
<1>7. handed' = handed /\ tdh' = tdh /\ tdt' = tdt /\ txCard' = txCard /\ tx_buf' = tx_buf /\ txFrame' = txFrame
      /\ sendAt' = "no" /\ sendAt = "done?" /\ (txCard # "ne2000" => done' = done) /\ (txCard = "ne2000" => done' = {})
  BY DEF Ends, E1000Ends, PcnetEnds, Rtl8139Ends, Ne2000Ends
<1>8. TxTyped'
  <2>1. Following(tx_head) \in 0 .. (n - 1)
    BY <1>2, <1>4, TxPlaces DEF TxInv
  <2> QED
    BY <1>1, <1>2, <1>5, <1>7, <2>1 DEF TxInv, TxTyped
<1>9. TxOrder'
  BY <1>1, <1>3, <1>4, <1>5, <1>7 DEF TxInv, TxOrder
<1>10. TxFlags'
  <2>1. l = 0 => handed = <<>>
    <3>1. handed \in Seq(TxFrames)
      BY DEF TxInv, TxTyped
    <3> QED
      BY <1>3, <3>1, EmptySeq
  <2> QED
    BY <1>1, <1>3, <1>6, <1>7, <2>1 DEF TxInv, TxFlags
<1> QED
  BY <1>8, <1>9, <1>10 DEF TxInv

(* The card has something to do only when something is handed over. *)
LEMMA TxSees ==
  ASSUME TxInv, CardSees
  PROVE  handed # <<>> /\ tx_buf[tdh] = Head(handed)
<1>1. PICK n \in Nat \ {0} : n = Slots
  BY TxSizes DEF TxInv
<1>2. PICK l \in 0 .. n : l = Len(handed)
  BY <1>1 DEF TxInv, TxTyped
<1>3. Ahead(0) = tdh
  BY TxPlaces DEF TxInv
<1>4. l # 0
  <2>1. CASE txCard = "e1000"
    <3>1. tdt = Ahead(l) /\ tdh # tdt
      BY <1>2, <2>1 DEF CardSees, TxInv, TxFlags
    <3> QED
      BY <1>3, <3>1
  <2>2. CASE txCard = "ne2000"
    BY <1>2, <2>2 DEF CardSees, TxInv, TxTyped
  <2>3. CASE txCard \notin {"e1000", "ne2000"}
    <3>1. tdh \notin done
      BY <2>3 DEF CardSees
    <3>2. 1 \in 1 .. n /\ 1 - 1 = 0
      OBVIOUS
    <3>3. Ahead(0) \in done <=> 1 > l
      BY <1>1, <1>2, <2>3, <3>2 DEF TxInv, TxFlags
    <3> QED
      BY <1>3, <3>1, <3>3
  <2> QED
    BY <2>1, <2>2, <2>3
<1>5. 1 \in 1 .. l /\ 1 - 1 = 0
  BY <1>4
<1>6. tx_buf[Ahead(0)] = handed[1]
  BY <1>2, <1>5 DEF TxInv, TxOrder
<1> QED
  BY <1>2, <1>3, <1>4, <1>6 DEF TxInv, TxTyped

LEMMA TxTransmit == TxInv /\ Transmit => TxInv'
<1> SUFFICES ASSUME TxInv, Transmit PROVE TxInv'
  OBVIOUS
<1>1. PICK n \in Nat \ {0} : n = Slots /\ n = Slots'
  BY TxSizes DEF TxInv, Transmit, Slots
<1>2. handed # <<>>
  BY TxSees DEF Transmit
<1>3. PICK l \in 1 .. n : l = Len(handed)
  <2>1. Len(handed) # 0 /\ Len(handed) \in Nat /\ Len(handed) <= n
    BY <1>1, <1>2 DEF TxInv, TxTyped
  <2> QED
    BY <2>1
<1>4. /\ handed' \in Seq(TxFrames) /\ Len(handed') = l - 1
      /\ \A k \in 1 .. (l - 1) : handed'[k] = handed[k + 1]
  BY <1>2, <1>3 DEF Transmit, TxInv, TxTyped
<1>5. \A k \in 0 .. (n - 1) : Ahead(k)' = Ahead(k + 1)
  <2>1. \A k : Ahead(k)' = Round(Following(tdh), k, n)
    BY <1>1 DEF Ahead, Transmit
  <2>2. \A k \in 0 .. (n - 1) : Round(Following(tdh), k, n) = Ahead(k + 1)
    BY <1>1, TxPlaces DEF TxInv
  <2> QED
    BY <2>1, <2>2
<1>6. tx_head' = tx_head /\ tdt' = tdt /\ txCard' = txCard /\ tx_buf' = tx_buf /\ txFrame' = txFrame
      /\ sendAt' = sendAt /\ done' = done \cup {tdh} /\ tdh' = Following(tdh)
  BY DEF Transmit
<1>7. Ahead(l - 1)' = Ahead(l)
  <2>1. l - 1 \in 0 .. (n - 1) /\ l - 1 + 1 = l
    OBVIOUS
  <2> QED
    BY <1>5, <2>1
<1>8. TxTyped'
  <2>1. tdh' \in 0 .. (n - 1)
    BY <1>1, <1>6, TxPlaces DEF TxInv, TxTyped
  <2>2. l - 1 <= n
    OBVIOUS
  <2> QED
    BY <1>1, <1>4, <1>6, <2>1, <2>2 DEF TxInv, TxTyped
<1>9. TxOrder'
  <2>1. ASSUME NEW k \in 1 .. (l - 1) PROVE tx_buf[Ahead(k - 1)'] = handed'[k]
    <3>1. k - 1 \in 0 .. (n - 1) /\ k - 1 + 1 = k /\ k + 1 \in 1 .. l /\ k + 1 - 1 = k
      OBVIOUS
    <3>2. tx_buf[Ahead(k)] = handed[k + 1]
      BY <1>3, <3>1 DEF TxInv, TxOrder
    <3> QED
      BY <1>4, <1>5, <3>1, <3>2
  <2>2. Ahead(l) = IF sendAt = "done?" THEN Following(tx_head) ELSE tx_head
    BY <1>3 DEF TxInv, TxOrder
  <2>3. Following(tx_head)' = Following(tx_head)
    BY <1>1, <1>6 DEF Following
  <2>4. (sendAt \in {"copy", "hand"} => l - 1 < n) /\ (sendAt = "hand" => tx_buf[tx_head] = txFrame)
    BY DEF TxInv, TxOrder
  <2> QED
    BY <1>1, <1>4, <1>6, <1>7, <2>1, <2>2, <2>3, <2>4 DEF TxOrder
<1>10. ASSUME txCard # "ne2000", NEW k \in 1 .. n PROVE Ahead(k - 1)' \in done' <=> k > l - 1
  <2>1. Ahead(k - 1)' = Ahead(k)
    <3>1. k - 1 \in 0 .. (n - 1) /\ k - 1 + 1 = k
      OBVIOUS
    <3> QED
      BY <1>5, <3>1
  <2>2. Ahead(0) = tdh /\ Ahead(n) = tdh
    BY <1>1, TxPlaces DEF TxInv
  <2>3. CASE k = n
    <3>1. n > l - 1
      OBVIOUS
    <3> QED
      BY <1>6, <2>1, <2>2, <2>3, <3>1
  <2>4. CASE k # n
    <3>1. k + 1 \in 1 .. n /\ k + 1 - 1 = k /\ k \in 0 .. (n - 1) /\ 0 \in 0 .. (n - 1) /\ k # 0
          /\ (k + 1 > l <=> k > l - 1)
      BY <2>4
    <3>2. Ahead(k) \in done <=> k + 1 > l
      BY <1>1, <1>3, <1>10, <3>1 DEF TxInv, TxFlags
    <3>3. Ahead(k) # Ahead(0)
      BY <1>1, <3>1, TxPlaces DEF TxInv
    <3> QED
      BY <1>6, <2>1, <2>2, <3>1, <3>2, <3>3
  <2> QED
    BY <2>3, <2>4
<1>11. TxFlags'
  <2>1. txCard = "e1000" => tdt' = Ahead(l)
    BY <1>3, <1>6 DEF TxInv, TxFlags
  <2>2. txCard \in {"rtl8139", "ne2000"} => l = 1 /\ sendAt = "done?"
    <3> SUFFICES ASSUME txCard \in {"rtl8139", "ne2000"} PROVE l = 1 /\ sendAt = "done?"
      OBVIOUS
    <3>1. Len(handed) <= 1 /\ sendAt # "free?" /\ (sendAt # "done?" => handed = <<>>)
      BY DEF TxInv, TxFlags
    <3> QED
      BY <1>2, <1>3, <3>1
  <2>3. l = 1 => handed' = <<>> /\ Len(handed') <= 1
    BY <1>4
  <2> QED
    BY <1>1, <1>4, <1>6, <1>7, <1>10, <2>1, <2>2, <2>3 DEF TxFlags
<1> QED
  BY <1>8, <1>9, <1>11 DEF TxInv

(* The invariant holds, and under it every step is one of the queue or none. *)
LEMMA TxKeeps ==
  ASSUME Patient PROVE TxSpec => []TxInv
<1>1. TxInv /\ [TxNext]_txVars => TxInv'
  <2> SUFFICES ASSUME TxInv, [TxNext]_txVars PROVE TxInv'
    OBVIOUS
  <2>1. CASE \E f \in TxFrames : Send(f)
    BY <2>1, TxSend
  <2>2. CASE IsFree
    BY <2>2, TxIsFree
  <2>3. CASE NotFree
    BY <2>3, TxNotFree
  <2>4. CASE Copy
    BY <2>4, TxCopy
  <2>5. CASE Hand
    BY <2>5, TxHand
  <2>6. CASE Ends
    BY <2>6, TxEnds
  <2>7. CASE Transmit
    BY <2>7, TxTransmit
  <2>8. CASE UNCHANGED txVars
    BY <2>8 DEF txVars, TxInv, TxTyped, TxOrder, TxFlags, Slots, Ahead, Following
  <2> QED
    BY <2>1, <2>2, <2>3, <2>4, <2>5, <2>6, <2>7, <2>8 DEF TxNext
<1> QED
  BY <1>1, TxBegins, PTL DEF TxSpec

LEMMA TxRefines ==
  ASSUME TxInv, [TxNext]_txVars
  PROVE  [TxRing!Next /\ UNCHANGED <<Slots, [f \in TxFrames |-> 1]>>]_<<handed, tries, wire>>
<1>0. UNCHANGED <<Slots, [f \in TxFrames |-> 1]>>
  BY DEF TxNext, txVars, Slots, Send, IsFree, NotFree, Copy, Hand, Ends, Transmit
<1>1. CASE \E f \in TxFrames : Send(f)
  BY <1>1 DEF Send
<1>2. CASE IsFree
  BY <1>2 DEF IsFree
<1>3. CASE NotFree
  <2>1. TxRing!Refuse(txFrame) /\ txFrame \in TxFrames
    <3>1. txFrame \in TxFrames /\ handed \in Seq(TxFrames) /\ Slots \in Nat /\ Len(handed) \in Nat /\ Len(handed) <= Slots
      BY <1>3, TxSizes DEF NotFree, TxInv, TxTyped
    <3>2. ~(Len(handed) < Slots)
      BY <1>3, TxFreeMeans DEF NotFree
    <3>3. TxRing!Used(handed) = Len(handed)
      BY <3>1, TxUsedIs
    <3>4. TxRing!Used(handed) + [f \in TxFrames |-> 1][txFrame] > Slots
      BY <3>1, <3>2, <3>3
    <3> QED
      BY <1>3, <3>1, <3>4 DEF TxRing!Refuse, NotFree
  <2> QED
    BY <1>0, <2>1 DEF TxRing!Next
<1>4. CASE Copy
  BY <1>4 DEF Copy
<1>5. CASE Hand
  <2>1. TxRing!Accept(txFrame) /\ txFrame \in TxFrames
    <3>1. txFrame \in TxFrames /\ handed \in Seq(TxFrames) /\ Slots \in Nat /\ Len(handed) \in Nat /\ Len(handed) < Slots
      BY <1>5, TxSizes DEF Hand, TxInv, TxTyped, TxOrder
    <3>3. TxRing!Used(handed) = Len(handed)
      BY <3>1, TxUsedIs
    <3>4. TxRing!Used(handed) + [f \in TxFrames |-> 1][txFrame] <= Slots
      BY <3>1, <3>3
    <3> QED
      BY <1>5, <3>1, <3>4 DEF TxRing!Accept, Hand
  <2> QED
    BY <1>0, <2>1 DEF TxRing!Next
<1>6. CASE Ends
  BY <1>6 DEF Ends
<1>7. CASE Transmit
  <2>1. TxRing!Deliver
    BY <1>7, TxSees DEF TxRing!Deliver, Transmit
  <2> QED
    BY <1>0, <2>1 DEF TxRing!Next
<1>8. CASE UNCHANGED txVars
  BY <1>8 DEF txVars
<1> QED
  BY <1>1, <1>2, <1>3, <1>4, <1>5, <1>6, <1>7, <1>8 DEF TxNext

(* What the programs send leaves on the wire in that order, each frame once
   and unaltered, and a send fails only when all buffers are taken: for any
   number of buffers, whatever waits e1000_send and pcnet_send give up.  It
   needs an NE2000 that sends within its wait (ne2000.c:150); rtl8139_send
   waits for ever (e1000.c:250, pcnet.c:229, rtl8139.c:84). *)
THEOREM FramesLeaveInOrder ==
  ASSUME Patient PROVE TxSpec => FramesGoInOrder
<1>1. TxInit => TxRing!Init
  BY DEF TxInit, TxRing!Init
<1>2. TxInv /\ [TxNext]_txVars
      => [TxRing!Next /\ UNCHANGED <<Slots, [f \in TxFrames |-> 1]>>]_<<handed, tries, wire>>
  BY TxRefines
<1> QED
  BY <1>1, <1>2, TxKeeps, PTL DEF TxSpec, FramesGoInOrder, TxRing!Spec

-------------------------------------------------------------------------------
(* Receiving. *)

Flagged == card \in {"e1000", "pcnet"}   \* descriptors, each for one frame
RingRoom == IF card = "pcnet" THEN Positions ELSE Positions - 1
Takes   == [f \in Frames |-> Size(f)]
Upto(k) == Sums(stored, Takes)[k]        \* the room the oldest k frames take

(* Where the oldest frame that is not given back lies. *)
Oldest == CASE card = "rtl8139" -> limit [] card = "ne2000" -> On(limit, 1) [] OTHER -> rx_head

RxTyped ==
  /\ card \in Drivers
  /\ ring \in [0 .. (Positions - 1) -> Frames \cup {NoFrame, Blank}]
  /\ {rdh, limit, rx_head} \subseteq 0 .. (Positions - 1)
  /\ step \in {"look", "release", "return"}
  /\ stored \in Seq(Frames)
  /\ step # "look" => stored # <<>> /\ hand = Head(stored)

(* The frames lie behind each other from Oldest on, the card stores behind them. *)
RxOrder ==
  /\ Upto(Len(stored)) <= RingRoom
  /\ rdh = On(Oldest, Upto(Len(stored)))
  /\ rx_head = IF step = "return" /\ ~Flagged THEN On(Oldest, Size(hand)) ELSE Oldest
  /\ card = "e1000" => limit = On(Oldest, -1)
  /\ \A k \in 1 .. Len(stored) :
       (k = 1 /\ step = "return" /\ Flagged) \/ ring[On(Oldest, Upto(k - 1))] = stored[k]

(* The flags tell which descriptors are empty. *)
RxFlags ==
  Flagged =>
    /\ \A n \in Len(stored) .. (Positions - 1) : ring[On(Oldest, n)] = NoFrame
    /\ step = "return" => ring[Oldest] = IF card = "pcnet" THEN Blank ELSE NoFrame

RxInv == RxTyped /\ RxOrder /\ RxFlags

LEMMA ModBelow ==
  ASSUME NEW n \in Nat \ {0}, NEW x \in Int, x < 2 * n, -n <= x
  PROVE  x % n = IF x < 0 THEN x + n ELSE IF x < n THEN x ELSE x - n
<1>1. CASE x < 0
  BY <1>1
<1>2. CASE 0 <= x /\ x < n
  BY <1>2
<1>3. CASE n <= x
  BY <1>3
<1> QED
  BY <1>1, <1>2, <1>3

(* The positions of a ring. *)
LEMMA PlacesOn ==
  ASSUME NEW p \in 0 .. (Positions - 1), NEW n \in 0 .. Positions
  PROVE  /\ On(p, n) \in 0 .. (Positions - 1)
         /\ On(p, n) = IF p + n < Positions THEN p + n ELSE p + n - Positions
<1>1. Positions \in Nat \ {0}
  BY RxAssumption
<1>2. PICK x \in Int : x = p + n
  OBVIOUS
<1>3. x < 2 * Positions /\ 0 <= x /\ - Positions <= x
  BY <1>1, <1>2
<1>4. x % Positions = IF x < Positions THEN x ELSE x - Positions
  <2>1. PICK m \in Nat \ {0} : m = Positions
    BY <1>1
  <2>2. x % m = IF x < 0 THEN x + m ELSE IF x < m THEN x ELSE x - m
    BY <1>3, <2>1, ModBelow
  <2> QED
    BY <1>3, <2>1, <2>2
<1>5. On(p, n) = x % Positions
  BY <1>2 DEF On
<1>6. (IF x < Positions THEN x ELSE x - Positions) \in 0 .. (Positions - 1)
  BY <1>1, <1>2
<1>7. PICK y : y = On(p, n)
  OBVIOUS
<1>8. y = IF x < Positions THEN x ELSE x - Positions
  BY <1>4, <1>5, <1>7
<1> QED
  BY <1>1, <1>2, <1>6, <1>7, <1>8

LEMMA PlacesBefore ==
  ASSUME NEW p \in 0 .. (Positions - 1)
  PROVE  /\ On(p, -1) \in 0 .. (Positions - 1)
         /\ On(p, -1) = IF p = 0 THEN Positions - 1 ELSE p - 1
<1>1. Positions \in Nat \ {0}
  BY RxAssumption
<1>2. PICK x \in Int : x = p + (-1)
  OBVIOUS
<1>3. x < Positions /\ x < 2 * Positions /\ - Positions <= x
  BY <1>1, <1>2
<1>4. x % Positions = IF x < 0 THEN x + Positions ELSE x
  BY <1>1, <1>3, ModBelow
<1>5. On(p, -1) = x % Positions
  BY <1>2 DEF On
<1>7. PICK y : y = On(p, -1)
  OBVIOUS
<1>8. y = IF x < 0 THEN x + Positions ELSE x
  BY <1>4, <1>5, <1>7
<1> QED
  BY <1>1, <1>2, <1>7, <1>8

LEMMA PlacesAgain ==
  ASSUME NEW p \in 0 .. (Positions - 1), NEW m \in 0 .. Positions, NEW n \in 0 .. Positions, m + n <= Positions
  PROVE  /\ On(On(p, m), n) = On(p, m + n)
         /\ On(p, 0) = p
<1>1. Positions \in Nat \ {0} /\ 0 \in 0 .. Positions /\ m + n \in 0 .. Positions
  BY RxAssumption
<1>2. PICK b \in 0 .. (Positions - 1) : b = On(p, m)
  BY PlacesOn
<1>3. b = IF p + m < Positions THEN p + m ELSE p + m - Positions
  BY <1>2, PlacesOn
<1>4. PICK c \in 0 .. (Positions - 1) : c = On(b, n)
  BY PlacesOn
<1>5. c = IF b + n < Positions THEN b + n ELSE b + n - Positions
  BY <1>4, PlacesOn
<1>6. PICK l \in 0 .. Positions : l = m + n
  BY <1>1
<1>7. PICK d \in 0 .. (Positions - 1) : d = On(p, l)
  BY PlacesOn
<1>8. d = IF p + l < Positions THEN p + l ELSE p + l - Positions
  BY <1>7, PlacesOn
<1>9. On(p, 0) = IF p + 0 < Positions THEN p + 0 ELSE p + 0 - Positions
  BY <1>1, PlacesOn
<1>10. On(p, 0) = p
  BY <1>1, <1>9
<1>11. c = d
  BY <1>1, <1>3, <1>5, <1>6, <1>8
<1> QED
  BY <1>2, <1>4, <1>6, <1>7, <1>10, <1>11

LEMMA PlacesBack ==
  ASSUME NEW p \in 0 .. (Positions - 1)
  PROVE  On(On(p, 1), -1) = p /\ On(On(p, -1), 1) = p
<1>1. Positions \in Nat \ {0} /\ 1 \in 0 .. Positions
  BY RxAssumption
<1>2. PICK a \in 0 .. (Positions - 1) : a = On(p, 1)
  BY <1>1, PlacesOn
<1>3. PICK b \in 0 .. (Positions - 1) : b = On(p, -1)
  BY PlacesBefore
<1>4. a = IF p + 1 < Positions THEN p + 1 ELSE p + 1 - Positions
  BY <1>1, <1>2, PlacesOn
<1>5. b = IF p = 0 THEN Positions - 1 ELSE p - 1
  BY <1>3, PlacesBefore
<1>6. On(a, -1) = IF a = 0 THEN Positions - 1 ELSE a - 1
  BY PlacesBefore
<1>7. On(b, 1) = IF b + 1 < Positions THEN b + 1 ELSE b + 1 - Positions
  BY <1>1, PlacesOn
<1>8. (IF a = 0 THEN Positions - 1 ELSE a - 1) = p
  BY <1>1, <1>4
<1>9. (IF b + 1 < Positions THEN b + 1 ELSE b + 1 - Positions) = p
  BY <1>1, <1>5
<1> QED
  BY <1>2, <1>3, <1>6, <1>7, <1>8, <1>9

LEMMA PlacesOnce ==
  ASSUME NEW p \in 0 .. (Positions - 1), NEW m \in 0 .. (Positions - 1), NEW n \in 0 .. (Positions - 1),
         On(p, m) = On(p, n)
  PROVE  m = n
<1>1. Positions \in Nat \ {0} /\ m \in 0 .. Positions /\ n \in 0 .. Positions
  BY RxAssumption
<1>2. PICK a : a = On(p, m) /\ a = On(p, n)
  OBVIOUS
<1>3. a = IF p + m < Positions THEN p + m ELSE p + m - Positions
  BY <1>1, <1>2, PlacesOn
<1>4. a = IF p + n < Positions THEN p + n ELSE p + n - Positions
  BY <1>1, <1>2, PlacesOn
<1> QED
  BY <1>1, <1>3, <1>4

(* How far the card may still go. *)
LEMMA PlacesFree ==
  ASSUME NEW p \in 0 .. (Positions - 1), NEW n \in 0 .. (Positions - 1)
  PROVE  /\ (On(p, -1) - On(p, n)) % Positions = Positions - 1 - n
         /\ (p - On(p, n)) % Positions = IF n = 0 THEN 0 ELSE Positions - n
<1>1. Positions \in Nat \ {0} /\ n \in 0 .. Positions
  BY RxAssumption
<1>2. PICK a \in 0 .. (Positions - 1) : a = On(p, -1)
  BY PlacesBefore
<1>3. PICK b \in 0 .. (Positions - 1) : b = On(p, n)
  BY <1>1, PlacesOn
<1>4. a = (IF p = 0 THEN Positions - 1 ELSE p - 1) /\ b = (IF p + n < Positions THEN p + n ELSE p + n - Positions)
  <2>1. a = (IF p = 0 THEN Positions - 1 ELSE p - 1)
    BY <1>2, PlacesBefore
  <2>2. b = (IF p + n < Positions THEN p + n ELSE p + n - Positions)
    BY <1>1, <1>3, PlacesOn
  <2> QED
    BY <2>1, <2>2
<1>5. PICK x \in Int : x = a - b
  OBVIOUS
<1>6. x % Positions = IF x < 0 THEN x + Positions ELSE IF x < Positions THEN x ELSE x - Positions
  <2>1. x < 2 * Positions /\ - Positions <= x
    BY <1>1, <1>5
  <2> QED
    BY <1>1, <2>1, ModBelow
<1>7. PICK y \in Int : y = p - b
  OBVIOUS
<1>8. y % Positions = IF y < 0 THEN y + Positions ELSE IF y < Positions THEN y ELSE y - Positions
  <2>1. y < 2 * Positions /\ - Positions <= y
    BY <1>1, <1>7
  <2> QED
    BY <1>1, <2>1, ModBelow
<1>9. x % Positions = Positions - 1 - n
  <2>1. (IF x < 0 THEN x + Positions ELSE IF x < Positions THEN x ELSE x - Positions) = Positions - 1 - n
    BY <1>1, <1>4, <1>5
  <2> QED
    BY <1>6, <2>1
<1>10. y % Positions = IF n = 0 THEN 0 ELSE Positions - n
  <2>1. (IF y < 0 THEN y + Positions ELSE IF y < Positions THEN y ELSE y - Positions)
        = IF n = 0 THEN 0 ELSE Positions - n
    BY <1>1, <1>4, <1>7
  <2> QED
    BY <1>8, <2>1
<1> QED
  BY <1>2, <1>3, <1>5, <1>7, <1>9, <1>10

(* The sizes. *)
LEMMA FrameSizes ==
  /\ Takes \in [Frames -> Nat]
  /\ \A f \in Frames : Takes[f] = Size(f) /\ Size(f) \in 1 .. (Positions - 1)
  /\ Flagged => \A f \in Frames : Size(f) = 1
BY RxAssumption DEF Takes, Size, Flagged

LEMMA UptoIs ==
  ASSUME stored \in Seq(Frames)
  PROVE  /\ \A k \in 0 .. Len(stored) : Upto(k) \in Nat /\ Upto(k) <= Upto(Len(stored))
         /\ Upto(0) = 0
         /\ \A k \in 1 .. Len(stored) : Upto(k) = Upto(k - 1) + Size(stored[k]) /\ Upto(k - 1) < Upto(Len(stored))
         /\ Flagged => \A k \in 0 .. Len(stored) : Upto(k) = k
         /\ RxRing!Used(stored) = Upto(Len(stored))
<1>1. PICK g : g = Sums(stored, Takes)
  OBVIOUS
<1>2. PICK w \in [Frames -> Nat] : w = Takes
  BY FrameSizes
<1>3. Len(stored) \in Nat /\ \A k \in 1 .. Len(stored) : stored[k] \in Frames /\ w[stored[k]] \in Nat \ {0}
  BY <1>2, FrameSizes
<1>4. /\ g \in [0 .. Len(stored) -> Nat] /\ g[0] = 0
      /\ \A n \in 1 .. Len(stored) : g[n] = g[n - 1] + w[stored[n]]
  BY <1>1, <1>2, SumsAre
<1>5. \A k \in 0 .. Len(stored) : g[k] \in Nat /\ g[k] <= g[Len(stored)]
  <2> TAKE k \in 0 .. Len(stored)
  <2>1. Len(stored) \in k .. Len(stored)
    BY <1>3
  <2>2. Sums(stored, w)[k] <= Sums(stored, w)[Len(stored)]
    BY <2>1, SumsGrow
  <2> QED
    BY <1>1, <1>2, <1>4, <2>2
<1>6. ASSUME NEW k \in 1 .. Len(stored) PROVE g[k] = g[k - 1] + Size(stored[k]) /\ g[k - 1] < g[Len(stored)]
  <2>1. w[stored[k]] = Size(stored[k]) /\ w[stored[k]] \in Nat \ {0} /\ k \in 0 .. Len(stored) /\ k - 1 \in 0 .. Len(stored)
    BY <1>2, <1>3, FrameSizes
  <2>2. g[k] = g[k - 1] + w[stored[k]] /\ g[k] \in Nat /\ g[k - 1] \in Nat /\ g[Len(stored)] \in Nat
        /\ g[k] <= g[Len(stored)]
    BY <1>3, <1>4, <1>5, <2>1
  <2> QED
    BY <2>1, <2>2
<1>7. ASSUME Flagged PROVE \A k \in 0 .. Len(stored) : g[k] = k
  <2> DEFINE G == {k \in Nat : g[k] = k}
  <2>1. 0 \in G
    BY <1>4
  <2>2. ASSUME NEW k \in 1 .. Len(stored), k - 1 \in G PROVE k \in G
    <3>1. Size(stored[k]) = 1
      BY <1>3, <1>7, FrameSizes
    <3> QED
      BY <1>3, <1>6, <2>2, <3>1
  <2>3. 0 .. Len(stored) \subseteq G
    <3> HIDE DEF G
    <3> QED
      BY <1>3, <2>1, <2>2, Stepwise
  <2> QED
    BY <2>3
<1>8. RxRing!Used(stored) = g[Len(stored)]
  BY <1>1, RxUsed DEF Takes
<1> QED
  BY <1>1, <1>4, <1>5, <1>6, <1>7, <1>8 DEF Upto

LEMMA UptoGrows ==
  ASSUME stored \in Seq(Frames), NEW f \in Frames, stored' = Append(stored, f), card' = card
  PROVE  /\ \A k \in 0 .. Len(stored) : Upto(k)' = Upto(k)
         /\ \A k : k = Len(stored) + 1 => Upto(k)' = Upto(Len(stored)) + Size(f)
<1>1. PICK w \in [Frames -> Nat] : w = Takes /\ w[f] = Size(f)
  BY FrameSizes
<1>2. Takes' = w
  BY <1>1 DEF Takes, Size
<1>3. PICK r : r = Append(stored, f)
  OBVIOUS
<1>4. \A k : Upto(k)' = Sums(r, w)[k]
  BY <1>2, <1>3 DEF Upto
<1>5. \A k : Upto(k) = Sums(stored, w)[k]
  BY <1>1 DEF Upto
<1>6. /\ \A n \in 0 .. Len(stored) : Sums(r, w)[n] = Sums(stored, w)[n]
      /\ Sums(r, w)[Len(stored) + 1] = Sums(stored, w)[Len(stored)] + w[f]
  BY <1>3, SumsAppend
<1>7. PICK l : l = Len(stored)
  OBVIOUS
<1>8. \A k \in 0 .. l : Upto(k)' = Upto(k)
  BY <1>4, <1>5, <1>6, <1>7
<1>9. ASSUME NEW k, k = l + 1 PROVE Upto(k)' = Upto(l) + Size(f)
  <2>1. Sums(r, w)[k] = Sums(stored, w)[l] + Size(f)
    BY <1>1, <1>6, <1>7, <1>9
  <2>2. Upto(k)' = Sums(r, w)[k] /\ Upto(l) = Sums(stored, w)[l]
    BY <1>4, <1>5
  <2> QED
    BY <2>1, <2>2
<1> QED
  BY <1>7, <1>8, <1>9

LEMMA UptoIsNat == (stored \in Seq(Frames) => \A k \in 0 .. Len(stored) : Upto(k) \in Nat)'
<1>1. stored \in Seq(Frames) => \A k \in 0 .. Len(stored) : Upto(k) \in Nat
  BY UptoIs
<1> QED
  BY <1>1, PTL

LEMMA UptoShrinks ==
  ASSUME stored \in Seq(Frames), stored # <<>>, stored' = Tail(stored), card' = card
  PROVE  \A k \in 0 .. (Len(stored) - 1) : Upto(k)' = Upto(k + 1) - Size(stored[1])
<1>1. PICK w \in [Frames -> Nat] : w = Takes /\ w[stored[1]] = Size(stored[1])
  <2>1. stored[1] \in Frames
    OBVIOUS
  <2> QED
    BY <2>1, FrameSizes
<1>2. Takes' = w
  BY <1>1 DEF Takes, Size
<1>3. PICK r : r = Tail(stored)
  OBVIOUS
<1>4. \A k : Upto(k)' = Sums(r, w)[k]
  BY <1>2, <1>3 DEF Upto
<1>5. \A k : Upto(k) = Sums(stored, w)[k]
  BY <1>1 DEF Upto
<1>6. \A n \in 0 .. (Len(stored) - 1) : Sums(r, w)[n] = Sums(stored, w)[n + 1] - w[stored[1]]
  BY <1>3, SumsTail
<1> QED
  BY <1>1, <1>4, <1>5, <1>6

LEMMA RxPlaces ==
  ASSUME RxTyped
  PROVE  /\ Oldest \in 0 .. (Positions - 1) /\ On(Oldest, 0) = Oldest /\ On(Oldest, Positions) = Oldest
         /\ \A n \in 0 .. Positions : On(Oldest, n) \in 0 .. (Positions - 1)
         /\ \A m, n \in 0 .. (Positions - 1) : On(Oldest, m) = On(Oldest, n) => m = n
         /\ RingRoom \in {Positions - 1, Positions} /\ Positions \in Nat /\ Positions > 1
         /\ card # "pcnet" => RingRoom = Positions - 1
         /\ card = "pcnet" => RingRoom = Positions
<1>1. Positions \in Nat /\ Positions > 1 /\ 1 \in 0 .. Positions /\ 0 \in 0 .. Positions /\ Positions \in 0 .. Positions
  BY RxAssumption
<1>2. limit \in 0 .. (Positions - 1) /\ rx_head \in 0 .. (Positions - 1)
  BY DEF RxTyped
<1>3. On(limit, 1) \in 0 .. (Positions - 1)
  BY <1>1, <1>2, PlacesOn
<1>4. PICK b \in 0 .. (Positions - 1) : b = Oldest
  BY <1>2, <1>3 DEF Oldest
<1>5. \A n \in 0 .. Positions : On(b, n) \in 0 .. (Positions - 1)
  BY PlacesOn
<1>6. On(b, 0) = b
  BY <1>1, PlacesAgain
<1>7. On(b, Positions) = b
  <2>1. On(b, Positions) = IF b + Positions < Positions THEN b + Positions ELSE b + Positions - Positions
    BY <1>1, PlacesOn
  <2> QED
    BY <1>1, <2>1
<1>8. \A m, n \in 0 .. (Positions - 1) : On(b, m) = On(b, n) => m = n
  BY PlacesOnce
<1>9. RingRoom = IF card = "pcnet" THEN Positions ELSE Positions - 1
  BY DEF RingRoom
<1> QED
  BY <1>1, <1>4, <1>5, <1>6, <1>7, <1>8, <1>9

(* The card finds room exactly when there is. *)
LEMMA RoomIsTrue ==
  ASSUME RxInv, NEW f \in Frames
  PROVE  HasRoom(f) <=> Upto(Len(stored)) + Size(f) <= RingRoom
<1>1. RxTyped /\ RxOrder /\ RxFlags
  BY DEF RxInv
<1>2. PICK b \in 0 .. (Positions - 1) : b = Oldest
  BY <1>1, RxPlaces
<1>3. stored \in Seq(Frames) /\ Len(stored) \in Nat
  BY <1>1 DEF RxTyped
<1>4. PICK u \in 0 .. RingRoom : u = Upto(Len(stored))
  <2>1. Len(stored) \in 0 .. Len(stored)
    BY <1>3
  <2>2. Upto(Len(stored)) \in Nat
    BY <1>3, <2>1, UptoIs
  <2>3. RingRoom \in Nat
    BY <1>1, RxPlaces
  <2> QED
    BY <1>1, <2>2, <2>3 DEF RxOrder
<1>5. rdh = On(b, u)
  BY <1>1, <1>2, <1>4 DEF RxOrder
<1>6. PICK s \in 1 .. (Positions - 1) : s = Size(f)
  BY FrameSizes
<1>7. Positions \in Nat /\ Positions > 1 /\ (card # "pcnet" => RingRoom = Positions - 1)
      /\ (card = "pcnet" => RingRoom = Positions)
  BY <1>1, RxPlaces
<1>8. card # "pcnet" => /\ (On(b, -1) - On(b, u)) % Positions = Positions - 1 - u
                        /\ (b - On(b, u)) % Positions = IF u = 0 THEN 0 ELSE Positions - u
  <2> SUFFICES ASSUME card # "pcnet" PROVE /\ (On(b, -1) - On(b, u)) % Positions = Positions - 1 - u
                        /\ (b - On(b, u)) % Positions = IF u = 0 THEN 0 ELSE Positions - u
    OBVIOUS
  <2>1. u \in 0 .. (Positions - 1)
    BY <1>7
  <2> QED
    BY <2>1, PlacesFree
<1>9. CASE card = "e1000"
  <2>1. limit = On(b, -1) /\ s = 1
    BY <1>1, <1>2, <1>6, <1>9, FrameSizes DEF RxOrder, Flagged
  <2>2. (limit - rdh) % Positions = Positions - 1 - u
    BY <1>5, <1>8, <1>9, <2>1
  <2>3. HasRoom(f) <=> Positions - 1 - u # 0
    BY <1>9, <2>2 DEF HasRoom
  <2>4. Positions - 1 - u # 0 <=> u + s <= RingRoom
    BY <1>7, <1>9, <2>1
  <2> QED
    BY <1>4, <1>6, <2>3, <2>4
<1>10. CASE card = "rtl8139"
  <2>1. limit = b
    BY <1>2, <1>10 DEF Oldest
  <2>2. PICK d \in Int : d = IF u = 0 THEN 0 ELSE Positions - u
    <3>1. u \in Int /\ Positions - u \in Int /\ 0 \in Int
      BY <1>7
    <3>2. (IF u = 0 THEN 0 ELSE Positions - u) \in Int
      BY <3>1
    <3> QED
      BY <3>2
  <2>3. (limit - rdh) % Positions = d
    BY <1>5, <1>8, <1>10, <2>1, <2>2
  <2>4. HasRoom(f) <=> d = 0 \/ s < d
    BY <1>6, <1>10, <2>3 DEF HasRoom
  <2>5. (d = 0 \/ s < d) <=> u + s <= RingRoom
    BY <1>7, <1>10, <2>2
  <2> QED
    BY <1>4, <1>6, <2>4, <2>5
<1>11. CASE card = "ne2000"
  <2>1. limit = On(b, -1)
    <3>1. b = On(limit, 1) /\ limit \in 0 .. (Positions - 1)
      BY <1>1, <1>2, <1>11 DEF Oldest, RxTyped
    <3> QED
      BY <3>1, PlacesBack
  <2>2. (limit - rdh) % Positions = Positions - 1 - u
    BY <1>5, <1>8, <1>11, <2>1
  <2>3. HasRoom(f) <=> s <= Positions - 1 - u
    BY <1>6, <1>11, <2>2 DEF HasRoom
  <2>4. s <= Positions - 1 - u <=> u + s <= RingRoom
    BY <1>7, <1>11
  <2> QED
    BY <1>4, <1>6, <2>3, <2>4
<1>12. CASE card = "pcnet"
  <2>1. s = 1 /\ u = Len(stored) /\ Flagged
    <3>1. Flagged /\ Len(stored) \in 0 .. Len(stored)
      BY <1>3, <1>12 DEF Flagged
    <3> QED
      BY <1>3, <1>4, <1>6, <3>1, FrameSizes, UptoIs
  <2>2. HasRoom(f) <=> ring[rdh] = NoFrame
    BY <1>12 DEF HasRoom
  <2>3. CASE u < Positions
    <3>1. u \in Len(stored) .. (Positions - 1)
      BY <1>7, <2>1, <2>3
    <3>2. ring[On(b, u)] = NoFrame
      BY <1>1, <1>2, <2>1, <3>1 DEF RxFlags
    <3>3. u + s <= RingRoom
      BY <1>7, <1>12, <2>1, <2>3
    <3> QED
      BY <1>4, <1>5, <1>6, <2>2, <3>2, <3>3
  <2>4. CASE u = Positions
    <3>1. On(b, u) = b /\ On(b, 0) = b
      BY <1>1, <1>2, <2>4, RxPlaces
    <3>2. ~(u + s <= RingRoom)
      BY <1>7, <1>12, <2>1, <2>4
    <3>3. ring[b] # NoFrame
      <4>1. CASE step = "return"
        <5>1. ring[b] = Blank
          BY <1>1, <1>2, <1>12, <2>1, <4>1 DEF RxFlags
        <5> QED
          BY <5>1, RxAssumption
      <4>2. CASE step # "return"
        <5>1. 1 \in 1 .. Len(stored) /\ 1 - 1 = 0 /\ Upto(0) = 0
          BY <1>3, <1>7, <2>1, <2>4, UptoIs
        <5>2. ring[On(b, 0)] = stored[1] /\ stored[1] \in Frames
          BY <1>1, <1>2, <1>3, <4>2, <5>1 DEF RxOrder
        <5> QED
          BY <3>1, <5>2, RxAssumption
      <4> QED
        BY <4>1, <4>2
    <3> QED
      BY <1>4, <1>5, <1>6, <2>2, <3>1, <3>2, <3>3
  <2> QED
    BY <1>7, <1>12, <2>3, <2>4
<1> QED
  BY <1>1, <1>9, <1>10, <1>11, <1>12 DEF RxTyped, Drivers

LEMMA RxBegins == RxInit => RxInv
<1> SUFFICES ASSUME RxInit PROVE RxInv
  OBVIOUS
<1>1. Positions \in Nat /\ Positions > 1 /\ {0, 1} \subseteq 0 .. Positions /\ 0 \in 0 .. (Positions - 1)
  BY RxAssumption
<1>2. stored = <<>> /\ step = "look" /\ ring = [p \in 0 .. (Positions - 1) |-> NoFrame]
  BY DEF RxInit
<1>3. RxTyped
  <2>1. {rdh, limit, rx_head} \subseteq 0 .. (Positions - 1)
    BY <1>1 DEF RxInit, E1000Starts, PcnetStarts, Rtl8139Starts, Ne2000Starts
  <2>2. card \in Drivers
    BY DEF RxInit, E1000Starts, PcnetStarts, Rtl8139Starts, Ne2000Starts, Drivers
  <2> QED
    BY <1>2, <2>1, <2>2 DEF RxTyped
<1>4. Oldest = rx_head /\ rdh = rx_head
  <2>1. On(0, 1) = IF 0 + 1 < Positions THEN 0 + 1 ELSE 0 + 1 - Positions
    BY <1>1, PlacesOn
  <2>2. On(0, 1) = 1
    BY <1>1, <2>1
  <2> QED
    BY <2>2 DEF RxInit, E1000Starts, PcnetStarts, Rtl8139Starts, Ne2000Starts, Oldest
<1>5. Len(stored) = 0 /\ Upto(0) = 0 /\ 0 <= RingRoom /\ On(Oldest, 0) = Oldest
  <2>1. Len(stored) = 0 /\ stored \in Seq(Frames)
    BY <1>2
  <2>2. Upto(0) = 0
    BY <2>1, UptoIs
  <2>3. 0 <= RingRoom
    BY <1>1 DEF RingRoom
  <2>4. On(Oldest, 0) = Oldest
    BY <1>3, RxPlaces
  <2> QED
    BY <2>1, <2>2, <2>3, <2>4
<1>6. card = "e1000" => limit = On(Oldest, -1)
  <2>1. On(0, -1) = Positions - 1
    BY <1>1, PlacesBefore
  <2> QED
    BY <1>4, <2>1 DEF RxInit, E1000Starts, PcnetStarts, Rtl8139Starts, Ne2000Starts
<1>7. RxOrder
  BY <1>2, <1>4, <1>5, <1>6 DEF RxOrder
<1>8. RxFlags
  <2>1. ASSUME NEW n \in 0 .. (Positions - 1) PROVE ring[On(Oldest, n)] = NoFrame
    <3>1. n \in 0 .. Positions
      BY <1>1
    <3> QED
      BY <1>2, <1>3, <3>1, RxPlaces
  <2> QED
    BY <1>2, <1>5, <2>1 DEF RxFlags
<1> QED
  BY <1>3, <1>7, <1>8 DEF RxInv

(* What the driver sees is the oldest frame. *)
LEMMA SeesOldest ==
  ASSUME RxInv, step = "look", SeesFrame
  PROVE  stored # <<>> /\ ring[rx_head] = Head(stored) /\ Head(stored) \in Frames
<1>1. RxTyped /\ RxOrder /\ RxFlags
  BY DEF RxInv
<1>2. stored \in Seq(Frames) /\ Len(stored) \in Nat /\ Upto(0) = 0 /\ On(Oldest, 0) = Oldest /\ 0 \in 0 .. (Positions - 1)
  BY <1>1, UptoIs, RxPlaces DEF RxTyped
<1>3. rx_head = Oldest
  BY <1>1 DEF RxOrder
<1>4. Len(stored) # 0
  <2> SUFFICES ASSUME Len(stored) = 0 PROVE FALSE
    OBVIOUS
  <2>1. CASE Flagged
    <3>1. 0 \in Len(stored) .. (Positions - 1)
      BY <1>2
    <3>2. ring[On(Oldest, 0)] = NoFrame
      BY <1>1, <2>1, <3>1 DEF RxFlags
    <3> QED
      BY <1>2, <1>3, <2>1, <3>2 DEF SeesFrame, Flagged
  <2>2. CASE ~Flagged
    <3>1. rdh = Oldest
      BY <1>1, <1>2 DEF RxOrder
    <3> QED
      BY <1>3, <2>2, <3>1 DEF SeesFrame, Flagged
  <2> QED
    BY <2>1, <2>2
<1>5. 1 \in 1 .. Len(stored) /\ 1 - 1 = 0
  BY <1>2, <1>4
<1>6. ring[On(Oldest, 0)] = stored[1]
  BY <1>1, <1>2, <1>5 DEF RxOrder
<1> QED
  BY <1>2, <1>3, <1>4, <1>6

LEMMA RxLook == RxInv /\ Look => RxInv' /\ step' = "release"
<1> SUFFICES ASSUME RxInv, Look PROVE RxInv' /\ step' = "release"
  OBVIOUS
<1>1. stored # <<>> /\ ring[rx_head] = Head(stored) /\ Head(stored) \in Frames
  BY SeesOldest DEF Look
<1>2. step = "look" /\ step' = "release" /\ hand' = Head(stored) /\ UNCHANGED <<card, ring, rdh, limit, rx_head, stored>>
  BY <1>1 DEF Look
<1>3. Oldest' = Oldest /\ Flagged' = Flagged /\ RingRoom' = RingRoom /\ \A k : Upto(k)' = Upto(k)
  BY <1>2 DEF Oldest, Flagged, RingRoom, Upto, Takes, Size, On
<1>4. \A p, n : On(p, n)' = On(p, n)
  BY DEF On
<1>5. RxTyped'
  BY <1>1, <1>2 DEF RxInv, RxTyped
<1>6. RxOrder'
  <2>1. Upto(Len(stored))' = Upto(Len(stored))
    BY <1>2 DEF Upto, Takes, Size
  <2> QED
    BY <1>2, <1>3, <2>1 DEF RxInv, RxOrder, On
<1>7. RxFlags'
  BY <1>2, <1>3 DEF RxInv, RxFlags, On
<1> QED
  BY <1>2, <1>5, <1>6, <1>7 DEF RxInv

LEMMA RxRelease == RxInv /\ Release => RxInv'
<1> SUFFICES ASSUME RxInv, Release PROVE RxInv'
  OBVIOUS
<1>1. step = "release" /\ step' = "return" /\ UNCHANGED <<card, rdh, limit, hand, stored>>
  BY DEF Release
<1>2. RxTyped /\ RxOrder /\ RxFlags
  BY DEF RxInv
<1>3. PICK b \in 0 .. (Positions - 1) : b = Oldest /\ b = rx_head
  BY <1>1, <1>2, RxPlaces DEF RxOrder
<1>4. PICK l \in Nat \ {0} : l = Len(stored) /\ l = Len(stored')
  BY <1>1, <1>2 DEF RxTyped
<1>5. stored \in Seq(Frames) /\ stored' = stored /\ hand = stored[1] /\ stored[1] \in Frames
  BY <1>1, <1>2 DEF RxTyped
<1>6. Flagged' = Flagged /\ RingRoom' = RingRoom /\ Upto(Len(stored))' = Upto(Len(stored))
      /\ (\A k : Upto(k)' = Upto(k)) /\ Size(hand)' = Size(hand)
  BY <1>1 DEF Flagged, RingRoom, Upto, Takes, Size
<1>7. CASE Flagged
  <2>1. rx_head' = rx_head
        /\ ring' = [ring EXCEPT ![b] = IF card = "pcnet" THEN Blank ELSE NoFrame]
    BY <1>3, <1>7 DEF Release, E1000Release, PcnetRelease, Advance, Flagged
  <2>2. Oldest' = b
    BY <1>1, <1>3, <1>7, <2>1 DEF Oldest, Flagged
  <2>3. RxTyped'
    BY <1>1, <1>2, <1>3, <2>1 DEF RxTyped
  <2>4. ring'[b] = (IF card = "pcnet" THEN Blank ELSE NoFrame)
        /\ \A p \in 0 .. (Positions - 1) : p # b => ring'[p] = ring[p]
    BY <1>2, <2>1 DEF RxTyped
  <2>5. \A n \in 1 .. (Positions - 1) : On(b, n) \in 0 .. (Positions - 1) /\ On(b, n) # b
    <3> TAKE n \in 1 .. (Positions - 1)
    <3>1. n \in 0 .. Positions /\ n \in 0 .. (Positions - 1) /\ 0 \in 0 .. (Positions - 1) /\ n # 0
      BY <1>2, RxPlaces
    <3>2. On(b, 0) = b
      BY <1>2, <1>3, RxPlaces
    <3> QED
      BY <1>2, <1>3, <3>1, <3>2, RxPlaces
  <2>6. \A k \in 0 .. l : Upto(k) = k
    BY <1>4, <1>5, <1>7, UptoIs
  <2>7. l <= Positions /\ Positions \in Nat
    <3>1. l \in 0 .. l
      BY <1>4
    <3>2. l <= RingRoom
      BY <1>2, <1>4, <2>6, <3>1 DEF RxOrder
    <3> QED
      BY <1>2, <3>2, RxPlaces
  <2>8. ASSUME NEW k \in 1 .. l, k # 1 PROVE ring'[On(b, Upto(k - 1))] = stored[k]
    <3>1. Upto(k - 1) = k - 1 /\ k - 1 \in 1 .. (Positions - 1)
      <4>1. k - 1 \in 0 .. l /\ k - 1 \in 1 .. (Positions - 1)
        BY <2>7, <2>8
      <4> QED
        BY <2>6, <4>1
    <3>2. ring[On(b, Upto(k - 1))] = stored[k]
      BY <1>2, <1>3, <1>4, <2>8 DEF RxOrder
    <3> QED
      BY <2>4, <2>5, <3>1, <3>2
  <2>9. RxOrder'
    BY <1>1, <1>2, <1>3, <1>4, <1>5, <1>6, <1>7, <2>1, <2>2, <2>8 DEF RxOrder, On
  <2>10. ASSUME NEW n \in l .. (Positions - 1) PROVE ring'[On(b, n)] = NoFrame
    <3>1. n \in 1 .. (Positions - 1)
      BY <1>4
    <3>2. ring[On(b, n)] = NoFrame
      BY <1>2, <1>3, <1>4, <1>7, <2>10 DEF RxFlags
    <3> QED
      BY <2>4, <2>5, <3>1, <3>2
  <2>11. RxFlags'
    BY <1>1, <1>4, <2>2, <2>4, <2>10 DEF RxFlags, On
  <2> QED
    BY <2>3, <2>9, <2>11 DEF RxInv
<1>8. CASE ~Flagged
  <2>1. rx_head' = On(rx_head, Size(hand)) /\ ring' = ring
    BY <1>8 DEF Release, E1000Release, PcnetRelease, Advance, Flagged
  <2>2. Oldest' = b
    BY <1>1, <1>2, <1>3, <1>8 DEF Oldest, Flagged, On, RxTyped, Drivers
  <2>3. On(rx_head, Size(hand)) \in 0 .. (Positions - 1)
    <3>1. Size(hand) \in 0 .. Positions
      BY <1>2, <1>5, FrameSizes, RxPlaces
    <3> QED
      BY <1>3, <3>1, PlacesOn
  <2>4. RxTyped'
    BY <1>1, <1>2, <2>1, <2>3 DEF RxTyped
  <2>5. RxOrder'
    BY <1>1, <1>2, <1>3, <1>5, <1>6, <1>8, <2>1, <2>2 DEF RxOrder, On, Flagged
  <2>6. RxFlags'
    BY <1>6, <1>8 DEF RxFlags
  <2> QED
    BY <2>4, <2>5, <2>6 DEF RxInv
<1> QED
  BY <1>7, <1>8

LEMMA RxReturn == RxInv /\ Return => RxInv'
<1> SUFFICES ASSUME RxInv, Return PROVE RxInv'
  OBVIOUS
<1>1. step = "return" /\ step' = "look" /\ stored' = Tail(stored) /\ card' = card /\ rdh' = rdh
  BY DEF Return
<1>2. RxTyped /\ RxOrder /\ RxFlags
  BY DEF RxInv
<1>3. PICK b \in 0 .. (Positions - 1) : b = Oldest
  BY <1>2, RxPlaces
<1>4. PICK l \in Nat \ {0} : l = Len(stored) /\ l - 1 = Len(stored')
  BY <1>1, <1>2 DEF RxTyped
<1>5. stored \in Seq(Frames) /\ hand = stored[1] /\ stored[1] \in Frames /\ stored # <<>> /\ stored' \in Seq(Frames)
      /\ \A k \in 1 .. (l - 1) : stored'[k] = stored[k + 1]
  BY <1>1, <1>2, <1>4 DEF RxTyped
<1>6. Flagged' = Flagged /\ RingRoom' = RingRoom
  BY <1>1 DEF Flagged, RingRoom
<1>7. PICK s \in 1 .. (Positions - 1) : s = Size(hand)
  BY <1>5, FrameSizes
<1>8. \A k \in 0 .. (l - 1) : Upto(k)' = Upto(k + 1) - s
  BY <1>1, <1>4, <1>5, <1>7, UptoShrinks
<1>9. Positions \in Nat /\ Positions > 1 /\ RingRoom \in {Positions - 1, Positions}
  BY <1>2, RxPlaces
<1>10. /\ \A k \in 0 .. l : Upto(k) \in Nat /\ Upto(k) <= Upto(l)
       /\ Upto(1) = s
       /\ Flagged => \A k \in 0 .. l : Upto(k) = k
  <2>1. 1 \in 1 .. l /\ 1 - 1 = 0
    BY <1>4
  <2>2. Upto(1) = Upto(0) + s /\ Upto(0) = 0
    BY <1>4, <1>5, <1>7, <2>1, UptoIs
  <2>3. Upto(1) = s
    BY <2>2
  <2>4. \A k \in 0 .. l : Upto(k) \in Nat /\ Upto(k) <= Upto(l)
    BY <1>4, <1>5, UptoIs
  <2>5. Flagged => \A k \in 0 .. l : Upto(k) = k
    BY <1>4, <1>5, UptoIs
  <2> QED
    BY <2>3, <2>4, <2>5
<1>11. PICK u \in s .. Positions : u = Upto(l)
  <2>1. 1 \in 0 .. l /\ l \in 0 .. l
    BY <1>4
  <2>2. Upto(l) \in Nat /\ s <= Upto(l)
    BY <1>10, <2>1
  <2>3. Upto(l) <= Positions
    BY <1>2, <1>4, <1>9, <2>2 DEF RxOrder
  <2> QED
    BY <1>9, <2>2, <2>3
<1>12. PICK c \in 0 .. (Positions - 1) : c = On(b, s)
  <2>1. s \in 0 .. Positions
    BY <1>9
  <2> QED
    BY <2>1, PlacesOn
<1>13. \A n \in s .. Positions : On(c, n - s) = On(b, n)
  <2> TAKE n \in s .. Positions
  <2>1. s \in 0 .. Positions /\ n - s \in 0 .. Positions /\ s + (n - s) <= Positions /\ s + (n - s) = n
    BY <1>9
  <2>2. On(On(b, s), n - s) = On(b, s + (n - s))
    BY <2>1, PlacesAgain
  <2> QED
    BY <1>12, <2>1, <2>2
<1>14. Flagged => s = 1 /\ rx_head = b /\ u = l /\ rx_head' = On(rx_head, 1)
  <2> SUFFICES ASSUME Flagged PROVE s = 1 /\ rx_head = b /\ u = l /\ rx_head' = On(rx_head, 1)
    OBVIOUS
  <2>1. s = 1
    BY <1>5, <1>7, FrameSizes
  <2>2. rx_head = b
    BY <1>2, <1>3 DEF RxOrder
  <2>3. u = l
    <3>1. l \in 0 .. l
      BY <1>4
    <3> QED
      BY <1>10, <1>11, <3>1
  <2>4. rx_head' = On(rx_head, 1)
    BY DEF Return, E1000Return, PcnetReturn, Rtl8139Return, Ne2000Return, Flagged
  <2> QED
    BY <2>1, <2>2, <2>3, <2>4
<1>15. ~Flagged => rx_head = c /\ rx_head' = c /\ ring' = ring
  BY <1>1, <1>2, <1>3, <1>7, <1>12 DEF Return, E1000Return, PcnetReturn, Rtl8139Return, Ne2000Return, Flagged, RxOrder
<1>16. rx_head' = c
  BY <1>12, <1>14, <1>15
<1>17. limit' \in 0 .. (Positions - 1) /\ Oldest' = c /\ (card = "e1000" => limit' = On(c, -1))
  <2>1. CASE card = "e1000"
    <3>1. limit' = b /\ Flagged
      BY <1>14, <2>1 DEF Return, E1000Return, PcnetReturn, Rtl8139Return, Ne2000Return, Flagged
    <3>2. On(On(b, 1), -1) = b
      BY PlacesBack
    <3>3. Oldest' = c
      BY <1>1, <1>16, <2>1 DEF Oldest
    <3> QED
      BY <1>12, <1>14, <3>1, <3>2, <3>3
  <2>2. CASE card = "pcnet"
    <3>1. limit' = limit
      BY <2>2 DEF Return, E1000Return, PcnetReturn, Rtl8139Return, Ne2000Return
    <3>2. Oldest' = c
      BY <1>1, <1>16, <2>2 DEF Oldest
    <3> QED
      BY <1>2, <2>2, <3>1, <3>2 DEF RxTyped
  <2>3. CASE card = "rtl8139"
    <3>1. limit' = rx_head /\ ~Flagged
      BY <2>3 DEF Return, E1000Return, PcnetReturn, Rtl8139Return, Ne2000Return, Flagged
    <3>2. Oldest' = c
      BY <1>1, <1>15, <2>3, <3>1 DEF Oldest
    <3> QED
      BY <1>15, <2>3, <3>1, <3>2
  <2>4. CASE card = "ne2000"
    <3>1. limit' = On(rx_head, -1) /\ ~Flagged
      BY <2>4 DEF Return, E1000Return, PcnetReturn, Rtl8139Return, Ne2000Return, Flagged
    <3>2. On(c, -1) \in 0 .. (Positions - 1) /\ On(On(c, -1), 1) = c
      BY PlacesBefore, PlacesBack
    <3>3. Oldest' = c
      BY <1>1, <1>15, <2>4, <3>1, <3>2 DEF Oldest, On
    <3> QED
      BY <1>15, <2>4, <3>1, <3>2, <3>3
  <2> QED
    BY <1>2, <2>1, <2>2, <2>3, <2>4 DEF RxTyped, Drivers
<1>18. /\ ring' \in [0 .. (Positions - 1) -> Frames \cup {NoFrame, Blank}]
       /\ \A p \in 0 .. (Positions - 1) : p # b => ring'[p] = ring[p]
       /\ Flagged => ring'[b] = NoFrame
  <2>1. CASE card = "pcnet"
    <3>1. ring' = [ring EXCEPT ![b] = NoFrame]
      BY <1>14, <2>1 DEF Return, E1000Return, PcnetReturn, Rtl8139Return, Ne2000Return, Flagged
    <3> QED
      BY <1>2, <3>1 DEF RxTyped
  <2>2. CASE card # "pcnet"
    <3>1. ring' = ring
      BY <2>2 DEF Return, E1000Return, PcnetReturn, Rtl8139Return, Ne2000Return
    <3>2. Flagged => ring[b] = NoFrame
      BY <1>1, <1>2, <1>3, <2>2 DEF RxFlags
    <3> QED
      BY <1>2, <3>1, <3>2 DEF RxTyped
  <2> QED
    BY <2>1, <2>2
<1>19. RxTyped'
  <2>1. {rdh', limit', rx_head'} \subseteq 0 .. (Positions - 1)
    BY <1>1, <1>2, <1>16, <1>17 DEF RxTyped
  <2> QED
    BY <1>1, <1>2, <1>5, <1>18, <2>1 DEF RxTyped
<1>20. Upto(Len(stored))' = u - s
  <2>1. Upto(Len(stored))' = Upto(l - 1)'
    BY <1>4
  <2>2. l - 1 \in 0 .. (l - 1) /\ l - 1 + 1 = l
    BY <1>4
  <2>3. \A k : k = l - 1 => Upto(k)' = u - s
    BY <1>8, <1>11, <2>2
  <2> QED
    BY <2>1, <2>3
<1>21. ASSUME NEW k \in 1 .. (l - 1) PROVE ring'[On(c, Upto(k - 1)')] = stored'[k]
  <2>1. k - 1 \in 0 .. (l - 1) /\ k - 1 + 1 = k /\ k \in 0 .. l /\ k + 1 \in 1 .. l /\ k + 1 - 1 = k /\ 1 \in 0 .. l /\ k # 0
    BY <1>4
  <2>2. Upto(k - 1)' = Upto(k) - s
    BY <1>8, <2>1
  <2>3. PICK v \in s .. Positions : v = Upto(k) /\ v < Upto(l)
    <3>1. Upto(k) \in Nat /\ Upto(k) < Upto(l)
      BY <1>4, <1>5, <1>10, <2>1, UptoIs
    <3>2. s <= Upto(k)
      <4>1. Upto(k - 1)' \in Nat
        <5>1. k - 1 \in 0 .. Len(stored')
          BY <1>4, <2>1
        <5>2. \A j \in 0 .. Len(stored') : Upto(j)' \in Nat
          <6>1. (stored \in Seq(Frames))'
            BY <1>5
          <6> QED
            BY <6>1, UptoIsNat
        <5> QED
          BY <5>1, <5>2
      <4> QED
        BY <1>9, <2>2, <3>1, <4>1
    <3> QED
      BY <1>9, <1>11, <3>1, <3>2
  <2>4. On(c, Upto(k - 1)') = On(b, v)
    BY <1>13, <2>2, <2>3
  <2>5. On(b, v) # b /\ On(b, v) \in 0 .. (Positions - 1)
    <3>1. v \in 0 .. (Positions - 1) /\ 0 \in 0 .. (Positions - 1) /\ v # 0 /\ v \in 0 .. Positions
      BY <1>9, <1>11, <2>3
    <3>2. On(b, 0) = b
      BY <1>2, <1>3, RxPlaces
    <3> QED
      BY <1>2, <1>3, <3>1, <3>2, RxPlaces
  <2>6. ring[On(b, Upto(k + 1 - 1))] = stored[k + 1]
    <3>1. k + 1 # 1
      BY <2>1
    <3> QED
      BY <1>2, <1>3, <1>4, <2>1, <3>1 DEF RxOrder
  <2> QED
    BY <1>5, <1>18, <2>1, <2>3, <2>4, <2>5, <2>6
<1>22. RxOrder'
  <2>1. rdh = On(c, u - s)
    BY <1>2, <1>3, <1>4, <1>11, <1>13 DEF RxOrder
  <2>2. u - s <= RingRoom
    BY <1>2, <1>4, <1>9, <1>11 DEF RxOrder
  <2> QED
    BY <1>1, <1>4, <1>6, <1>16, <1>17, <1>20, <1>21, <2>1, <2>2 DEF RxOrder, On
<1>23. ASSUME Flagged, NEW n \in (l - 1) .. (Positions - 1) PROVE ring'[On(c, n)] = NoFrame
  <2>1. n + 1 \in s .. Positions /\ n + 1 - s = n /\ s = 1 /\ n + 1 \in l .. Positions
    BY <1>4, <1>9, <1>14, <1>23
  <2>2. On(c, n) = On(b, n + 1)
    BY <1>13, <2>1
  <2>3. CASE n + 1 = Positions
    <3>1. On(b, Positions) = b
      BY <1>2, <1>3, RxPlaces
    <3> QED
      BY <1>18, <1>23, <2>2, <2>3, <3>1
  <2>4. CASE n + 1 # Positions
    <3>1. n + 1 \in l .. (Positions - 1) /\ n + 1 \in 0 .. Positions
      BY <1>4, <1>9, <2>1, <2>4
    <3>2. ring[On(b, n + 1)] = NoFrame
      BY <1>2, <1>3, <1>4, <1>23, <3>1 DEF RxFlags
    <3>3. On(b, n + 1) \in 0 .. (Positions - 1)
      BY <3>1, PlacesOn
    <3> QED
      BY <1>18, <1>23, <2>2, <3>2, <3>3
  <2> QED
    BY <2>3, <2>4
<1>24. RxFlags'
  BY <1>1, <1>4, <1>6, <1>17, <1>23 DEF RxFlags, On
<1> QED
  BY <1>19, <1>22, <1>24 DEF RxInv

LEMMA RxStores ==
  ASSUME RxInv, NEW f \in Frames, Arrives(f), HasRoom(f)
  PROVE  RxInv'
<1>1. /\ ring' = [ring EXCEPT ![rdh] = f] /\ rdh' = On(rdh, Size(f)) /\ stored' = Append(stored, f)
      /\ UNCHANGED <<card, limit, rx_head, hand, step>>
  BY DEF Arrives
<1>2. RxTyped /\ RxOrder /\ RxFlags
  BY DEF RxInv
<1>3. PICK b \in 0 .. (Positions - 1) : b = Oldest /\ b = Oldest'
  <2>1. Oldest' = Oldest
    BY <1>1 DEF Oldest, On
  <2> QED
    BY <1>2, <2>1, RxPlaces
<1>4. PICK l \in Nat : l = Len(stored)
  BY <1>2 DEF RxTyped
<1>5. stored \in Seq(Frames) /\ stored' \in Seq(Frames) /\ Len(stored') = l + 1 /\ stored'[l + 1] = f
      /\ \A k \in 1 .. l : stored'[k] = stored[k]
  BY <1>1, <1>2, <1>4 DEF RxTyped
<1>6. Flagged' = Flagged /\ RingRoom' = RingRoom /\ Size(hand)' = Size(hand)
  BY <1>1 DEF Flagged, RingRoom, Size
<1>7. PICK s \in 1 .. (Positions - 1) : s = Size(f)
  BY FrameSizes
<1>8. Positions \in Nat /\ Positions > 1 /\ RingRoom \in {Positions - 1, Positions}
  BY <1>2, RxPlaces
<1>9. /\ \A k \in 0 .. l : Upto(k)' = Upto(k)
      /\ \A k : k = l + 1 => Upto(k)' = Upto(l) + s
  BY <1>1, <1>4, <1>5, <1>7, UptoGrows
<1>10. /\ \A k \in 1 .. l : Upto(k - 1) \in Nat /\ Upto(k - 1) < Upto(l)
       /\ Upto(l) \in Nat
       /\ Flagged => Upto(l) = l
  <2>1. l \in 0 .. l /\ \A k \in 1 .. l : k - 1 \in 0 .. l
    BY <1>4
  <2> QED
    BY <1>4, <1>5, <2>1, UptoIs
<1>11. PICK u \in 0 .. (Positions - 1) : u = Upto(l) /\ u + s <= RingRoom /\ u + s \in 0 .. Positions
  <2>1. Upto(l) + s <= RingRoom
    BY <1>2, <1>4, <1>7, RoomIsTrue
  <2> QED
    BY <1>8, <1>10, <2>1
<1>12. rdh = On(b, u) /\ rdh \in 0 .. (Positions - 1)
  BY <1>2, <1>3, <1>4, <1>11 DEF RxOrder, RxTyped
<1>13. rdh' = On(b, u + s) /\ rdh' \in 0 .. (Positions - 1)
  <2>1. s \in 0 .. Positions /\ u \in 0 .. Positions /\ u + s <= Positions
    BY <1>8, <1>11
  <2>2. On(On(b, u), s) = On(b, u + s)
    BY <2>1, PlacesAgain
  <2>3. On(b, u + s) \in 0 .. (Positions - 1)
    BY <1>11, PlacesOn
  <2> QED
    BY <1>1, <1>7, <1>12, <2>2, <2>3
<1>14. Upto(Len(stored))' = u + s
  <2>1. Upto(Len(stored))' = Upto(l + 1)'
    BY <1>5
  <2>2. \A k : k = l + 1 => Upto(k)' = u + s
    BY <1>9, <1>11
  <2> QED
    BY <2>1, <2>2
<1>15. ring'[rdh] = f /\ \A n \in 0 .. (Positions - 1) : n # u => ring'[On(b, n)] = ring[On(b, n)]
  <2>1. \A n \in 0 .. (Positions - 1) : n # u => On(b, n) # rdh /\ On(b, n) \in 0 .. (Positions - 1)
    <3> TAKE n \in 0 .. (Positions - 1)
    <3>1. n \in 0 .. Positions
      BY <1>8
    <3> QED
      BY <1>12, <3>1, PlacesOn, PlacesOnce
  <2> QED
    BY <1>1, <1>2, <1>12, <2>1 DEF RxTyped
<1>16. RxTyped'
  <2>1. step # "look" => stored' # <<>> /\ hand = Head(stored')
    BY <1>1, <1>2 DEF RxTyped
  <2>2. ring' \in [0 .. (Positions - 1) -> Frames \cup {NoFrame, Blank}]
    BY <1>1, <1>2 DEF RxTyped
  <2> QED
    BY <1>1, <1>2, <1>5, <1>13, <2>1, <2>2 DEF RxTyped
<1>17. ASSUME NEW k \in 1 .. (l + 1)
       PROVE  (k = 1 /\ step = "return" /\ Flagged) \/ ring'[On(b, Upto(k - 1)')] = stored'[k]
  <2>1. CASE k = l + 1
    <3>1. k - 1 = l /\ l \in 0 .. l
      BY <1>4, <2>1
    <3>2. \A j : j = l => Upto(j)' = u
      BY <1>9, <1>11, <3>1
    <3>3. On(b, Upto(k - 1)') = rdh
      BY <1>12, <3>1, <3>2
    <3> QED
      BY <1>5, <1>15, <2>1, <3>3
  <2>2. CASE k # l + 1
    <3>1. k \in 1 .. l /\ k - 1 \in 0 .. l
      BY <1>4, <2>2
    <3>2. Upto(k - 1)' = Upto(k - 1)
      BY <1>9, <3>1
    <3>3. Upto(k - 1) \in 0 .. (Positions - 1) /\ Upto(k - 1) # u
      BY <1>8, <1>10, <1>11, <3>1
    <3>4. (k = 1 /\ step = "return" /\ Flagged) \/ ring[On(b, Upto(k - 1))] = stored[k]
      BY <1>2, <1>3, <1>4, <3>1 DEF RxOrder
    <3> QED
      BY <1>5, <1>15, <3>1, <3>2, <3>3, <3>4
  <2> QED
    BY <2>1, <2>2
<1>18. RxOrder'
  <2>1. rx_head' = IF step' = "return" /\ ~Flagged THEN On(b, Size(hand)) ELSE b
    BY <1>1, <1>2, <1>3 DEF RxOrder
  <2>2. card = "e1000" => limit' = On(b, -1)
    BY <1>1, <1>2, <1>3 DEF RxOrder
  <2> QED
    BY <1>1, <1>3, <1>5, <1>6, <1>11, <1>13, <1>14, <1>17, <2>1, <2>2 DEF RxOrder, On
<1>19. ASSUME Flagged, NEW n \in (l + 1) .. (Positions - 1) PROVE ring'[On(b, n)] = NoFrame
  <2>1. n \in l .. (Positions - 1) /\ n \in 0 .. (Positions - 1) /\ n # u
    BY <1>4, <1>10, <1>11, <1>19
  <2>2. ring[On(b, n)] = NoFrame
    BY <1>2, <1>3, <1>4, <1>19, <2>1 DEF RxFlags
  <2> QED
    BY <1>15, <2>1, <2>2
<1>20. Flagged /\ step = "return" => ring'[b] = ring[b]
  <2> SUFFICES ASSUME Flagged, step = "return" PROVE ring'[b] = ring[b]
    OBVIOUS
  <2>1. l # 0
    BY <1>2, <1>4 DEF RxTyped
  <2>2. 0 # u /\ 0 \in 0 .. (Positions - 1) /\ On(b, 0) = b
    BY <1>2, <1>3, <1>8, <1>10, <1>11, <2>1, RxPlaces
  <2> QED
    BY <1>15, <2>2
<1>21. RxFlags'
  BY <1>1, <1>2, <1>3, <1>5, <1>6, <1>19, <1>20 DEF RxFlags, On
<1> QED
  BY <1>16, <1>18, <1>21 DEF RxInv

LEMMA RxStays == RxInv /\ UNCHANGED <<card, ring, rdh, limit, rx_head, hand, step, stored>> => RxInv'
BY DEF RxInv, RxTyped, RxOrder, RxFlags, Oldest, Flagged, RingRoom, Upto, Takes, Size, On

(* The invariant holds, and under it every step is one of the queue or none. *)
LEMMA RxKeeps == RxSpec => []RxInv
<1>1. RxInv /\ [RxNext]_rxVars => RxInv'
  <2> SUFFICES ASSUME RxInv, [RxNext]_rxVars PROVE RxInv'
    OBVIOUS
  <2>1. ASSUME NEW f \in Frames, Arrives(f) PROVE RxInv'
    <3>1. CASE HasRoom(f)
      BY <2>1, <3>1, RxStores
    <3>2. CASE ~HasRoom(f)
      BY <2>1, <3>2, RxStays DEF Arrives
    <3> QED
      BY <3>1, <3>2
  <2>2. CASE Look
    BY <2>2, RxLook
  <2>3. CASE Release
    BY <2>3, RxRelease
  <2>4. CASE Return
    BY <2>4, RxReturn
  <2>5. CASE UNCHANGED rxVars
    BY <2>5, RxStays DEF rxVars
  <2> QED
    BY <2>1, <2>2, <2>3, <2>4, <2>5 DEF RxNext
<1> QED
  BY <1>1, RxBegins, PTL DEF RxSpec

LEMMA RxRefines ==
  ASSUME RxInv, [RxNext]_rxVars
  PROVE  [RxRing!Next /\ UNCHANGED <<IF card = "pcnet" THEN Positions ELSE Positions - 1, [f \in Frames |-> Size(f)]>>]_<<stored, offered, given>>
<1>0. UNCHANGED <<IF card = "pcnet" THEN Positions ELSE Positions - 1, [f \in Frames |-> Size(f)]>>
  BY DEF RxNext, rxVars, Size, Arrives, Look, Release, Return
<1>1. ASSUME NEW f \in Frames, Arrives(f) PROVE RxRing!Next
  <2>1. RxRing!Used(stored) = Upto(Len(stored)) /\ [h \in Frames |-> Size(h)][f] = Size(f)
    BY UptoIs DEF RxInv, RxTyped
  <2>2. HasRoom(f) <=> RxRing!Used(stored) + [h \in Frames |-> Size(h)][f] <= RingRoom
    BY <2>1, RoomIsTrue
  <2>3. RxRing!Used(stored) + [h \in Frames |-> Size(h)][f] > RingRoom
        <=> ~(RxRing!Used(stored) + [h \in Frames |-> Size(h)][f] <= RingRoom)
    <3>1. Upto(Len(stored)) \in Nat
      <4>1. Len(stored) \in 0 .. Len(stored) /\ stored \in Seq(Frames)
        BY DEF RxInv, RxTyped
      <4> QED
        BY <4>1, UptoIs
    <3>2. Size(f) \in Nat /\ RingRoom \in Nat
      BY FrameSizes, RxPlaces DEF RxInv
    <3> QED
      BY <2>1, <3>1, <3>2
  <2>4. CASE HasRoom(f)
    <3>1. RxRing!Accept(f)
      BY <1>1, <2>2, <2>4 DEF RxRing!Accept, Arrives, RingRoom
    <3> QED
      BY <3>1 DEF RxRing!Next
  <2>5. CASE ~HasRoom(f)
    <3>1. RxRing!Refuse(f)
      BY <1>1, <2>2, <2>3, <2>5 DEF RxRing!Refuse, Arrives, RingRoom
    <3> QED
      BY <3>1 DEF RxRing!Next
  <2> QED
    BY <2>4, <2>5
<1>2. CASE Look
  BY <1>2 DEF Look
<1>3. CASE Release
  BY <1>3 DEF Release
<1>4. CASE Return
  <2>1. RxRing!Deliver
    BY <1>4 DEF RxRing!Deliver, Return, RxInv, RxTyped
  <2> QED
    BY <1>0, <2>1 DEF RxRing!Next
<1>5. CASE UNCHANGED rxVars
  BY <1>5 DEF rxVars
<1> QED
  BY <1>0, <1>1, <1>2, <1>3, <1>4, <1>5 DEF RxNext

(* Whenever the card stores and the driver gives back, frames reach
   eth_dispatch in the order in which they came, each once, and one is lost
   only when the ring has no room for it: for a ring of any length and frames
   of any sizes that fit in it (rtl8139.c:115, e1000.c:301, pcnet.c:287,
   ne2000.c:244). *)
THEOREM FramesArriveInOrder == RxSpec => FramesComeInOrder
<1>1. RxInit => RxRing!Init
  BY DEF RxInit, RxRing!Init
<1>2. RxInv /\ [RxNext]_rxVars
      => [RxRing!Next /\ UNCHANGED <<IF card = "pcnet" THEN Positions ELSE Positions - 1, [f \in Frames |-> Size(f)]>>]_<<stored, offered, given>>
  BY RxRefines
<1> QED
  BY <1>1, <1>2, RxKeeps, PTL DEF RxSpec, FramesComeInOrder, RxRing!Spec

-------------------------------------------------------------------------------
(* A behaviour of the whole network is one of each layer, whatever the others
   do between two of its steps. *)
LEMMA LayersStandAlone == NetSpec => TcpSpec /\ IpSpec /\ RxSpec /\ TxSpec
<1>1. NetInit => TcpInit /\ IpInit /\ RxInit /\ TxInit
  BY DEF NetInit
<1>2. [NetNext]_netVars => [TcpNext]_tcpVars /\ [IpNext]_ipVars /\ [RxNext]_rxVars /\ [TxNext]_txVars
  BY Zenon DEF NetNext, Of, netVars
<1> QED
  BY <1>1, <1>2, PTL DEF NetSpec, TcpSpec, IpSpec, RxSpec, TxSpec

(* The receive buffer, the ARP table and the name cache keep to their sizes, a
   UDP port is listened to while a name is asked for and no longer, and an
   ip_send is in progress exactly in the phases that send (net/tcp.c:203,
   arp.c:35, dns.c:36, 150, icmp.c:57). *)
THEOREM NetworkTyped == NetSpec => []NetTypeOK
<1>1. TcpTyped => TcpTypeOK
  BY DEF TcpTyped, TcpTypeOK, ConnType, States, Numbers
<1> QED
  BY <1>1, LayersStandAlone, TcpTypesStay, IpTypesStay, PTL DEF NetTypeOK
===============================================================================
