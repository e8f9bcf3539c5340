-------------------------------- MODULE IpStack --------------------------------
(***************************************************************************)
(* The network stack below TCP (net/arp.c, ip.c, icmp.c, udp.c, dns.c,     *)
(* net.c) under the shell commands arping, ping and resolve.  Nothing runs *)
(* in the background: a frame is looked at when the command in progress    *)
(* polls the card, and what was sent to us may arrive late, again and      *)
(* again, or never.                                                        *)
(*                                                                         *)
(* A host is its IP address and its MAC address.  Time is not counted: a   *)
(* wait may end whenever the code looks at the clock.                      *)
(***************************************************************************)
EXTENDS Naturals, FiniteSets, SequencesExt

CONSTANTS Subnet, Far,   \* hosts we reach directly, and by Gw
          Gw, Server,    \* net_gw; dns_server
          Pinged,        \* hosts the user pings by their address
          Names, Cut(_), \* host names; a name's first 63 characters
          Answers(_),    \* the addresses the server has for a name
          ArpSize,       \* ARP_TABLE_SIZE
          CacheSize,     \* DNS_CACHE_SIZE
          Pings,         \* echo requests of a ping command
          IdMod,         \* 2^16: query_id is a uint16_t
          MaxQueries     \* bound: queries sent, fewer than there are ids

ASSUME IpAssumption ==
  /\ Gw \in Subnet /\ Server \in Subnet /\ Pinged \subseteq Subnet \cup Far
  /\ {ArpSize, CacheSize, Pings, IdMod} \subseteq Nat \ {0}
  /\ MaxQueries \in Nat /\ MaxQueries < IdMod
  /\ \A n \in Names : /\ Cut(n) \in Names /\ Cut(Cut(n)) = Cut(n)
                    /\ Answers(n) \subseteq Subnet \cup Far

VARIABLES arp,      \* arp_table: address |-> MAC
          cache,    \* dns_cache: its valid slots, slot 0 first
          query,    \* query_id; port 1053 is listened to; got_reply and reply_ip
          echo,     \* icmp.c's got_reply and reply_seq, and who replied
          pending,  \* pending_reply, pending_dst
          sending,  \* the ip_send in progress
          job,      \* the command in progress
          frame,    \* history: the last IP frame sent
          asked     \* history: echo requests and queries sent

ipVars == <<arp, cache, query, echo, pending, sending, job, frame, asked>>

Nobody == "nobody"   \* no address yet
NoName == "no name"
Hosts  == Subnet \cup Far
Idle   == [at |-> "idle", name |-> NoName, ip |-> Nobody, seq |-> 0]

IpInit ==
  /\ arp = <<>> /\ cache = <<>>
  /\ query = [id |-> 0, on |-> FALSE, ip |-> Nobody]
  /\ echo = [got |-> FALSE, seq |-> 0, from |-> Nobody]
  /\ pending = [on |-> FALSE, dst |-> Nobody]
  /\ sending = [on |-> FALSE, direct |-> FALSE, polls |-> FALSE]
  /\ job = Idle /\ frame = [dst |-> Nobody, mac |-> Nobody] /\ asked = {}

-------------------------------------------------------------------------------
(* ip_send.  Its dst is a pointer: for an echo reply it points to
   pending_dst, which the next echo request overwrites. *)
Dst == CASE job.at = "query" -> Server [] job.at = "flush" -> pending.dst
         [] OTHER -> job.ip

(* A mistake the properties have to catch: everything goes to the gateway. *)
Target_Gw == IF sending.direct THEN Gw ELSE Gw

(* What arp_resolve looks up. *)
Target == IF sending.direct THEN Dst ELSE Gw

(* ip_send(dst, ...) begins: the first arp_lookup finds the MAC, or a
   request is sent and the card polled. *)
IpSend(dst) ==
  LET direct == dst \in Subnet
  IN  sending' = [on |-> TRUE, direct |-> direct,
                  polls |-> (IF direct THEN dst ELSE Gw) \notin DOMAIN arp]

Body == CASE job.at = "query" -> {[name |-> job.name, id |-> query.id]}
          [] job.at = "echo" -> {[to |-> job.ip, seq |-> job.seq]}
          [] OTHER -> {}

After(at) == CASE at = "query" -> "dns" [] at = "echo" -> "wait" [] at = "flush" -> "judge"

IpSent ==
  /\ sending.on /\ Target \in DOMAIN arp
  /\ frame' = [dst |-> Dst, mac |-> arp[Target]]
  /\ asked' = asked \cup Body
  /\ sending' = [sending EXCEPT !.on = FALSE]
  /\ job' = [job EXCEPT !.at = After(@)]
  /\ UNCHANGED <<arp, cache, query, echo, pending>>

(* The next echo request, or the end of the command. *)
NextEcho(j) ==
  IF j.seq + 1 < Pings
    THEN /\ job' = [j EXCEPT !.at = "echo", !.seq = @ + 1]
         /\ echo' = [echo EXCEPT !.got = FALSE]
         /\ IpSend(j.ip)
    ELSE job' = Idle /\ sending' = [sending EXCEPT !.on = FALSE] /\ UNCHANGED echo

(* No ARP reply in two seconds: only icmp_ping looks at what ip_send
   returned for its own packet. *)
IpFails ==
  /\ sending.on /\ sending.polls /\ Target \notin DOMAIN arp
  /\ IF job.at = "echo" THEN NextEcho(job)
     ELSE /\ sending' = [sending EXCEPT !.on = FALSE]
          /\ job' = [job EXCEPT !.at = After(@)]
          /\ UNCHANGED echo
  /\ UNCHANGED <<arp, cache, query, pending, frame, asked>>

-------------------------------------------------------------------------------
(* What arrives: a host of the subnet asks for an address or says its own;
   anybody pings us; an answer to what was once asked. *)
ArpHandle(h) ==
  /\ arp' = IF h \in DOMAIN arp \/ Cardinality(DOMAIN arp) < ArpSize
              THEN [x \in DOMAIN arp \cup {h} |-> IF x = h THEN h ELSE arp[x]] ELSE arp
  /\ UNCHANGED <<query, echo, pending>>

EchoRequest(h) ==
  /\ pending' = [on |-> TRUE, dst |-> h]
  /\ UNCHANGED <<arp, query, echo>>

(* Every ping has the same id. *)
EchoReply(a) ==
  /\ echo' = [got |-> TRUE, seq |-> a.seq, from |-> a.to]
  /\ UNCHANGED <<arp, query, pending>>

(* dns_rx: of an answer, its first address. *)
DnsRx(a, ip) == query' = IF a.id = query.id THEN [query EXCEPT !.ip = ip] ELSE query

(* udp_handle: dns_rx is called as long as the port is listened to. *)
UdpHandle(a) ==
  /\ IF query.on THEN \E ip \in Answers(a.name) : DnsRx(a, ip) ELSE UNCHANGED query
  /\ UNCHANGED <<arp, echo, pending>>

(* ip_handle, for the protocols of this module. *)
IpHandle ==
  \/ \E h \in Hosts : EchoRequest(h)
  \/ \E a \in asked : \/ "to" \in DOMAIN a /\ EchoReply(a)
                      \/ "name" \in DOMAIN a /\ UdpHandle(a)

(* net_poll finds a frame; one call may find several.  A program polls while
   it waits, here or below in arp_resolve. *)
Poll ==
  /\ IF sending.on THEN sending.polls ELSE job.at \in {"arping", "dns", "wait", "polled"}
  /\ IpHandle \/ \E h \in Subnet : ArpHandle(h)
  /\ job' = [job EXCEPT !.at = IF @ = "wait" THEN "polled" ELSE @]
  /\ UNCHANGED <<cache, sending, frame, asked>>

-------------------------------------------------------------------------------
(* arping: arp_resolve, for the user. *)
Arping(h) ==
  /\ job = Idle /\ h \notin DOMAIN arp
  /\ job' = [Idle EXCEPT !.at = "arping", !.ip = h]
  /\ UNCHANGED <<arp, cache, query, echo, pending, sending, frame, asked>>

ArpingEnds ==   \* the MAC, or "Timeout."
  /\ job.at = "arping" /\ job' = Idle
  /\ UNCHANGED <<arp, cache, query, echo, pending, sending, frame, asked>>

-------------------------------------------------------------------------------
(* icmp_ping, from its top. *)
StartPing(j) ==
  /\ job' = [j EXCEPT !.at = "echo"]
  /\ echo' = [echo EXCEPT !.got = FALSE]
  /\ IpSend(j.ip)

Ping(h) ==
  /\ job = Idle /\ StartPing([Idle EXCEPT !.ip = h])
  /\ UNCHANGED <<arp, cache, query, pending, frame, asked>>

(* The card had no frame, or no more: what is pending is sent now. *)
Flush ==
  /\ ~sending.on /\ job.at \in {"wait", "polled"}
  /\ IF pending.on
       THEN IpSend(pending.dst) /\ job' = [job EXCEPT !.at = "flush"]
       ELSE UNCHANGED sending /\ job' = [job EXCEPT !.at = "judge"]
  /\ pending' = [pending EXCEPT !.on = FALSE]
  /\ UNCHANGED <<arp, cache, query, echo, frame, asked>>

Accepted == echo.got /\ echo.seq = job.seq

PingAnswered ==
  /\ job.at = "judge" /\ Accepted
  /\ NextEcho(job)
  /\ UNCHANGED <<arp, cache, query, pending, frame, asked>>

PingWaits ==
  /\ job.at = "judge" /\ ~Accepted
  /\ job' = [job EXCEPT !.at = "wait"]
  /\ UNCHANGED <<arp, cache, query, echo, pending, sending, frame, asked>>

PingTimeout ==
  /\ ~sending.on /\ job.at = "wait"
  /\ NextEcho(job)
  /\ UNCHANGED <<arp, cache, query, pending, frame, asked>>

-------------------------------------------------------------------------------
(* dns_resolve, for `resolve' and for `ping' of a name. *)
Cached(n) == {s \in DOMAIN cache : cache[s].name = n}
First(slots) == {s \in slots : \A t \in slots : s <= t}

(* It returns 1 with an address: `ping' goes on, `resolve' prints it. *)
Resolved(j) ==
  \/ StartPing(j)
  \/ job' = Idle /\ UNCHANGED <<echo, sending>>

ResolveCached(n) ==
  /\ job = Idle
  /\ \E s \in First(Cached(n)) : Resolved([Idle EXCEPT !.name = n, !.ip = cache[s].ip])
  /\ UNCHANGED <<arp, cache, query, pending, frame, asked>>

(* udp_listen: port 1053 is listened to, and dns_rx waits for the answer id. *)
Listen(id) == query' = [id |-> id, on |-> TRUE, ip |-> Nobody]

(* A mistake the properties have to catch: every query has the same number. *)
Resolve_SameId(n) ==
  /\ job = Idle /\ Cached(n) = {} /\ query.id < MaxQueries
  /\ job' = [Idle EXCEPT !.at = "query", !.name = n]
  /\ Listen(1)
  /\ IpSend(Server)
  /\ UNCHANGED <<arp, cache, echo, pending, frame, asked>>

Resolve(n) ==
  /\ job = Idle /\ Cached(n) = {} /\ query.id < MaxQueries
  /\ job' = [Idle EXCEPT !.at = "query", !.name = n]
  /\ Listen((query.id + 1) % IdMod)
  /\ IpSend(Server)
  /\ UNCHANGED <<arp, cache, echo, pending, frame, asked>>

(* cache_store: the first slot that is free, or slot 0. *)
CacheStore(n, ip) ==
  LET entry == [name |-> Cut(n), ip |-> ip]
  IN  cache' = IF Len(cache) < CacheSize THEN Append(cache, entry)
               ELSE [cache EXCEPT ![1] = entry]

DnsAnswered ==
  /\ job.at = "dns" /\ query.ip # Nobody
  /\ CacheStore(job.name, query.ip)
  /\ query' = [query EXCEPT !.on = FALSE]
  /\ Resolved([job EXCEPT !.ip = query.ip])
  /\ UNCHANGED <<arp, pending, frame, asked>>

DnsTimeout ==
  /\ job.at = "dns" /\ query.ip = Nobody
  /\ query' = [query EXCEPT !.on = FALSE] /\ job' = Idle
  /\ UNCHANGED <<arp, cache, echo, pending, sending, frame, asked>>

IpNext ==
  \/ Poll \/ IpSent \/ IpFails
  \/ (\E h \in Subnet : Arping(h)) \/ ArpingEnds
  \/ (\E h \in Pinged : Ping(h)) \/ Flush \/ PingAnswered \/ PingWaits \/ PingTimeout
  \/ (\E n \in Names : ResolveCached(n) \/ Resolve(n)) \/ DnsAnswered \/ DnsTimeout

IpSpec == IpInit /\ [][IpNext]_ipVars

-------------------------------------------------------------------------------
IpTypeOK ==
  /\ Cardinality(DOMAIN arp) <= ArpSize /\ \A h \in DOMAIN arp : h \in Subnet /\ arp[h] \in Subnet
  /\ Len(cache) <= CacheSize
  /\ cache \in Seq([name : Names, ip : Hosts])
  /\ query.on <=> job.at \in {"query", "dns"}
  /\ pending.on => pending.dst \in Hosts
  /\ sending.on <=> job.at \in {"query", "echo", "flush"}

(* However long ip_send waited and whatever came in meanwhile, a frame goes
   to the host it is meant for, or to the gateway when that host is far; an
   echo reply, whose address may change while it waits, at worst takes the
   way by the gateway (net/ip.c:26-29). *)
FramesFindTheirHost ==
  [][frame' # frame =>
       \/ frame'.mac = IF frame'.dst \in Subnet THEN frame'.dst ELSE Gw
       \/ job.at = "flush" /\ frame'.mac = Gw]_ipVars

(* A name is never given the address of another, be the answer late, repeated
   or cached, as long as the two names differ in their first 63 characters
   (net/dns.c:46, 95, 118). *)
AddressesOf(n) == UNION {Answers(m) : m \in {m \in Names : Cut(m) = Cut(n)}}
NamesMeanTheirHosts ==
  /\ \A s \in DOMAIN cache : cache[s].ip \in AddressesOf(cache[s].name)
  /\ job.name # NoName /\ job.ip # Nobody => job.ip \in AddressesOf(job.name)
===============================================================================
