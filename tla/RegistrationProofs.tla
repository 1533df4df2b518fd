-------------------------- MODULE RegistrationProofs --------------------------
(***************************************************************************)
(* Proofs about Registration, for any protocols, configurations and        *)
(* bounds: the master's two maps always agree, the info it has of a server *)
(* never gets older, and the status of a protocol is that of its newest    *)
(* request.                                                                *)
(***************************************************************************)
EXTENDS Registration, TLAPS

IsList(m) == m = [addresses |-> m.addresses, servers |-> m.servers]
AddrsKnown(m) == \A a \in DOMAIN m.addresses : m.addresses[a].secret <= life

Open == {"sent"} \cup Answers

\* The requests are of this life or an earlier one; only this life gets answers.
Lived(p) ==
    \A r \in reqs[p] :
        /\ r.life <= life
        /\ up /\ r.life = life => r.serial <= infoSerial
        /\ r.stage # "sent" => up /\ r.life = life

\* A protocol does not have two requests of the same age.
OneOfAge(p) ==
    up => \A q, r \in reqs[p] : q.life = life /\ r.life = life /\ q.age = r.age => q = r

Newest(m, p) == p \in DOMAIN m.addresses /\ m.addresses[p] = [secret |-> life, behind |-> 0]

\* The entry of the newest request is there because it was accepted.
Accepted(m, p) ==
    up /\ Newest(m, p) =>
        \A r \in reqs[p] : r.life = life /\ r.age = 0 => r.stage \in {"ok", "counted_ok"}

\* When the newest answer is the one to the newest request, that was noted.
Noted(p) ==
    up /\ last[p] = 0 => \A r \in reqs[p] : r.life = life /\ r.age = 0 => r.stage \notin Open

StatusTrue(m, p) == up /\ last[p] = 0 /\ Newest(m, p) => status[p] \in {"ok", "none"}

IInv ==
    /\ TypeOK
    /\ IsList(master)
    /\ M!Agrees(master)
    /\ AddrsKnown(master)
    /\ \A p \in Protocols : /\ Lived(p) /\ OneOfAge(p) /\ Noted(p)
                            /\ Accepted(master, p) /\ StatusTrue(master, p)

-----------------------------------------------------------------------------
(* The list of the master.                                                  *)

LEMMA PutIs ==
    ASSUME NEW f, NEW k, NEW v
    PROVE  /\ DOMAIN M!Put(f, k, v) = DOMAIN f \cup {k}
           /\ M!Put(f, k, v)[k] = v
           /\ \A x \in DOMAIN f \ {k} : M!Put(f, k, v)[x] = f[x]
BY DEF M!Put

LEMMA NoServersAgree ==
    /\ M!Agrees(M!NoServers) /\ IsList(M!NoServers)
    /\ DOMAIN M!NoServers.addresses = {} /\ DOMAIN M!NoServers.servers = {}
<1>1. DOMAIN M!NoServers.addresses = {} /\ DOMAIN M!NoServers.servers = {}
  BY DEF M!NoServers, Restrict, M!Restrict
<1>2. IsList(M!NoServers)
  BY DEF M!NoServers, IsList
<1>3. QED
  BY <1>1, <1>2 DEF M!Agrees

\* The server that had the address a goes on without it, or goes.
LEMMA UnlinkedIs ==
    ASSUME NEW m, M!Agrees(m), NEW a \in DOMAIN m.addresses
    PROVE  LET u == M!Unlinked(m, a)
           IN  /\ DOMAIN u \subseteq DOMAIN m.servers
               /\ \A t \in DOMAIN m.servers : t \in DOMAIN u <=> m.servers[t].addresses # {a}
               /\ \A t \in DOMAIN u : /\ u[t] \in M!ServerInfos
                                       /\ u[t].addresses = m.servers[t].addresses \ {a}
                                       /\ u[t].serial = m.servers[t].serial
<1> DEFINE s == m.addresses[a].secret
           rest == m.servers[s].addresses \ {a}
           u == M!Unlinked(m, a)
<1>1. /\ s \in DOMAIN m.servers /\ a \in m.servers[s].addresses
      /\ \A t \in DOMAIN m.servers : m.servers[t] \in M!ServerInfos
      /\ \A t \in DOMAIN m.servers \ {s} : a \notin m.servers[t].addresses
                                         /\ m.servers[t].addresses # {}
  BY DEF M!Agrees
<1>2. CASE rest = {}
  <2>1. u = M!Without(m.servers, s)
    BY <1>2 DEF M!Unlinked
  <2>2. /\ DOMAIN u = DOMAIN m.servers \ {s} /\ \A t \in DOMAIN u : u[t] = m.servers[t]
    BY <2>1 DEF M!Without, Restrict, M!Restrict
  <2> HIDE DEF u, s
  <2>3. m.servers[s].addresses = {a}
    BY <1>1, <1>2
  <2>4. QED
    BY <1>1, <2>2, <2>3 DEF u
<1>3. CASE rest # {}
  <2>1. u = [m.servers EXCEPT ![s].addresses = rest]
    BY <1>3 DEF M!Unlinked
  <2>2. /\ DOMAIN u = DOMAIN m.servers /\ \A t \in DOMAIN u \ {s} : u[t] = m.servers[t]
        /\ u[s] = [m.servers[s] EXCEPT !.addresses = rest]
    BY <1>1, <2>1
  <2>3. /\ u[s].addresses = rest /\ u[s].serial = m.servers[s].serial
        /\ u[s] \in M!ServerInfos
    <3> DEFINE i == m.servers[s]
               v == [i EXCEPT !.addresses = rest]
    <3>1. i \in M!ServerInfos /\ u[s] = v /\ rest \subseteq i.addresses /\ rest # {}
      BY <1>1, <1>3, <2>2
    <3> HIDE DEF i, rest
    <3>2. v.addresses = rest /\ v.serial = i.serial /\ v \in M!ServerInfos
      BY <3>1 DEF M!ServerInfos
    <3>3. QED
      BY <3>1, <3>2 DEF i
  <2> HIDE DEF u, s
  <2>4. QED
    BY <1>1, <1>3, <2>2, <2>3 DEF u
<1>4. QED
  BY <1>2, <1>3

LEMMA RemovedAgrees ==
    ASSUME NEW m, M!Agrees(m), IsList(m), NEW a, NEW s
    PROVE  LET r == M!Removed(m, a, s)
           IN  /\ M!Agrees(r) /\ IsList(r)
               /\ DOMAIN r.addresses \subseteq DOMAIN m.addresses
               /\ \A b \in DOMAIN r.addresses : r.addresses[b] = m.addresses[b]
               /\ \A t \in DOMAIN r.servers \cap DOMAIN m.servers :
                     r.servers[t].serial = m.servers[t].serial
<1> DEFINE r == M!Removed(m, a, s)
           u == M!Unlinked(m, a)
<1>1. CASE ~(a \in DOMAIN m.addresses /\ m.addresses[a].secret = s)
  BY <1>1 DEF M!Removed
<1>2. CASE a \in DOMAIN m.addresses /\ m.addresses[a].secret = s
  <2>1. r.addresses = M!Without(m.addresses, a) /\ r.servers = u
    BY <1>2 DEF M!Removed
  <2>2. /\ DOMAIN r.addresses = DOMAIN m.addresses \ {a}
        /\ \A b \in DOMAIN r.addresses : r.addresses[b] = m.addresses[b]
    BY <2>1 DEF M!Without, Restrict, M!Restrict
  <2>3. /\ DOMAIN u \subseteq DOMAIN m.servers
        /\ \A t \in DOMAIN m.servers : t \in DOMAIN u <=> m.servers[t].addresses # {a}
        /\ \A t \in DOMAIN u : /\ u[t] \in M!ServerInfos
                                /\ u[t].addresses = m.servers[t].addresses \ {a}
                                /\ u[t].serial = m.servers[t].serial
    BY <1>2, UnlinkedIs
  <2> HIDE DEF r, u
  <2>4. \A b \in DOMAIN r.addresses :
           r.addresses[b] \in M!AddrInfos /\ r.addresses[b].secret \in DOMAIN u
    <3> TAKE b \in DOMAIN r.addresses
    <3>1. /\ m.addresses[b] \in M!AddrInfos /\ m.addresses[b].secret \in DOMAIN m.servers
          /\ b \in m.servers[m.addresses[b].secret].addresses /\ b # a
      BY <2>2 DEF M!Agrees
    <3>2. QED
      BY <2>2, <2>3, <3>1
  <2>5. \A t \in DOMAIN u : /\ u[t].addresses # {}
                            /\ u[t].addresses = {b \in DOMAIN r.addresses : r.addresses[b].secret = t}
    <3> TAKE t \in DOMAIN u
    <3>1. /\ m.servers[t].addresses # {} /\ m.servers[t].addresses # {a}
          /\ m.servers[t].addresses = {b \in DOMAIN m.addresses : m.addresses[b].secret = t}
          /\ u[t].addresses = m.servers[t].addresses \ {a}
      BY <2>3 DEF M!Agrees
    <3>2. QED
      BY <2>2, <3>1
  <2>6. M!Agrees(r)
    BY <2>1, <2>2, <2>3, <2>4, <2>5 DEF M!Agrees
  <2>7. IsList(r)
    BY <1>2 DEF r, M!Removed, IsList
  <2>8. QED
    BY <2>1, <2>2, <2>3, <2>6, <2>7 DEF r
<1>3. QED
  BY <1>1, <1>2

LEMMA PrunedAgrees ==
    ASSUME NEW m, M!Agrees(m), NEW A
    PROVE  LET r == M!Pruned(m, A)
           IN  /\ M!Agrees(r) /\ IsList(r)
               /\ DOMAIN r.addresses \subseteq DOMAIN m.addresses
               /\ \A b \in DOMAIN r.addresses : r.addresses[b] = m.addresses[b]
               /\ \A t \in DOMAIN r.servers \cap DOMAIN m.servers :
                     r.servers[t].serial = m.servers[t].serial
<1> DEFINE r == M!Pruned(m, A)
<1>1. /\ DOMAIN r.addresses = DOMAIN m.addresses \ A
      /\ \A b \in DOMAIN r.addresses : r.addresses[b] = m.addresses[b]
  BY DEF M!Pruned, Restrict, M!Restrict
<1>2. /\ DOMAIN r.servers = {t \in DOMAIN m.servers : ~(m.servers[t].addresses \subseteq A)}
      /\ \A t \in DOMAIN r.servers : r.servers[t] = [m.servers[t] EXCEPT !.addresses = @ \ A]
  BY DEF M!Pruned
<1> HIDE DEF r
<1>3. \A t \in DOMAIN r.servers : /\ r.servers[t] \in M!ServerInfos
                                  /\ r.servers[t].addresses = m.servers[t].addresses \ A
                                  /\ r.servers[t].serial = m.servers[t].serial
  <2> TAKE t \in DOMAIN r.servers
  <2>1. m.servers[t] \in M!ServerInfos
    BY <1>2 DEF M!Agrees
  <2>2. QED
    BY <1>2, <2>1 DEF M!ServerInfos
<1>4. \A b \in DOMAIN r.addresses :
         r.addresses[b] \in M!AddrInfos /\ r.addresses[b].secret \in DOMAIN r.servers
  <2> TAKE b \in DOMAIN r.addresses
  <2>1. /\ m.addresses[b] \in M!AddrInfos /\ m.addresses[b].secret \in DOMAIN m.servers
        /\ b \in m.servers[m.addresses[b].secret].addresses /\ b \notin A
    BY <1>1 DEF M!Agrees
  <2>2. QED
    BY <1>1, <1>2, <2>1
<1>5. \A t \in DOMAIN r.servers :
         /\ r.servers[t].addresses # {}
         /\ r.servers[t].addresses = {b \in DOMAIN r.addresses : r.addresses[b].secret = t}
  <2> TAKE t \in DOMAIN r.servers
  <2>1. /\ m.servers[t].addresses = {b \in DOMAIN m.addresses : m.addresses[b].secret = t}
        /\ ~(m.servers[t].addresses \subseteq A)
    BY <1>2 DEF M!Agrees
  <2>2. QED
    BY <1>1, <1>3, <2>1
<1>6. M!Agrees(r)
  BY <1>1, <1>2, <1>3, <1>4, <1>5 DEF M!Agrees
<1>7. IsList(r)
  BY DEF r, M!Pruned, IsList
<1>8. QED
  BY <1>1, <1>3, <1>6, <1>7 DEF r

\* The address a joins the server s, whatever server it belonged to.
LEMMA AddedAgrees ==
    ASSUME NEW m, M!Agrees(m), NEW a \in Protocols, NEW s \in Lives,
           NEW serial \in 0 .. MaxSerial, NEW behind \in 0 .. MaxBehind
    PROVE  LET r == M!Added(m, a, s, serial, behind)
           IN  /\ M!Agrees(r) /\ IsList(r)
               /\ DOMAIN r.addresses = DOMAIN m.addresses \cup {a}
               /\ r.addresses[a] = [secret |-> s, behind |-> behind]
               /\ \A b \in DOMAIN m.addresses \ {a} : r.addresses[b] = m.addresses[b]
               /\ \A t \in DOMAIN r.servers \cap DOMAIN m.servers :
                     m.servers[t].serial <= r.servers[t].serial
<1> DEFINE known == a \in DOMAIN m.addresses
           insert == ~known \/ m.addresses[a].secret # s
           servers == IF known /\ insert THEN M!Unlinked(m, a) ELSE m.servers
           old == IF s \in DOMAIN servers THEN servers[s]
                  ELSE [addresses |-> {}, serial |-> serial]
           new == [addresses |-> old.addresses \cup (IF insert THEN {a} ELSE {}),
                   serial |-> IF serial > old.serial THEN serial ELSE old.serial]
           r == M!Added(m, a, s, serial, behind)
<1>1. /\ r.addresses = M!Put(m.addresses, a, [secret |-> s, behind |-> behind])
      /\ r.servers = M!Put(servers, s, new)
  BY DEF M!Added
<1>2. /\ DOMAIN r.addresses = DOMAIN m.addresses \cup {a}
      /\ r.addresses[a] = [secret |-> s, behind |-> behind]
      /\ \A b \in DOMAIN m.addresses \ {a} : r.addresses[b] = m.addresses[b]
  BY <1>1 DEF M!Put
<1>3. /\ DOMAIN r.servers = DOMAIN servers \cup {s}
      /\ r.servers[s] = new
      /\ \A t \in DOMAIN servers \ {s} : r.servers[t] = servers[t]
  BY <1>1 DEF M!Put
\* What is left of the servers when a has left the one it belonged to.
<1>4. /\ DOMAIN servers \subseteq DOMAIN m.servers
      /\ \A t \in DOMAIN m.servers \ DOMAIN servers : m.servers[t].addresses = {a}
      /\ \A t \in DOMAIN servers :
           /\ servers[t] \in M!ServerInfos
           /\ servers[t].addresses = IF insert THEN m.servers[t].addresses \ {a}
                                     ELSE m.servers[t].addresses
           /\ servers[t].addresses # {}
           /\ servers[t].serial = m.servers[t].serial
  <2>1. \A t \in DOMAIN m.servers :
          /\ m.servers[t] \in M!ServerInfos
          /\ m.servers[t].addresses # {}
          /\ m.servers[t].addresses = {b \in DOMAIN m.addresses : m.addresses[b].secret = t}
    BY DEF M!Agrees
  <2>2. CASE known /\ insert
    <3> DEFINE u == M!Unlinked(m, a)
    <3>1. /\ DOMAIN u \subseteq DOMAIN m.servers
          /\ \A t \in DOMAIN m.servers : t \in DOMAIN u <=> m.servers[t].addresses # {a}
          /\ \A t \in DOMAIN u : /\ u[t] \in M!ServerInfos
                                  /\ u[t].addresses = m.servers[t].addresses \ {a}
                                  /\ u[t].serial = m.servers[t].serial
      BY <2>2, UnlinkedIs
    <3>2. servers = u
      BY <2>2
    <3> HIDE DEF u, servers
    <3>3. \A t \in DOMAIN u : u[t].addresses # {}
      BY <2>1, <3>1
    <3>4. QED
      BY <2>2, <3>1, <3>2, <3>3
  <2>3. CASE ~(known /\ insert)
    <3>1. servers = m.servers
      BY <2>3
    <3> HIDE DEF servers
    <3>2. insert => \A t \in DOMAIN m.servers : a \notin m.servers[t].addresses
      BY <2>1, <2>3
    <3>3. QED
      BY <2>1, <3>1, <3>2
  <2>4. QED
    BY <2>2, <2>3
<1> HIDE DEF r, servers
<1>5. /\ old \in M!ServerInfos
      /\ s \in DOMAIN servers => old = servers[s]
      /\ s \notin DOMAIN servers => old.addresses = {} /\ old.serial = serial
  BY <1>4 DEF M!ServerInfos
<1>6. ~insert => s \in DOMAIN servers /\ a \in servers[s].addresses
  <2>1. SUFFICES ASSUME ~insert PROVE s \in DOMAIN servers /\ a \in servers[s].addresses
    OBVIOUS
  <2>2. servers = m.servers
    BY <2>1 DEF servers
  <2>3. QED
    BY <2>1, <2>2 DEF M!Agrees
<1> HIDE DEF old
<1>7. /\ new \in M!ServerInfos /\ a \in new.addresses
      /\ new.addresses = old.addresses \cup {a}
      /\ old.serial <= new.serial
  <2>1. old.addresses \in SUBSET Protocols /\ old.serial \in 0 .. MaxSerial
    BY <1>5 DEF M!ServerInfos
  <2>2. a \in new.addresses /\ new.addresses = old.addresses \cup {a}
    BY <1>5, <1>6
  <2>3. new.serial \in 0 .. MaxSerial /\ old.serial <= new.serial
    BY <2>1
  <2>4. QED
    BY <2>1, <2>2, <2>3 DEF M!ServerInfos
<1> HIDE DEF new
<1>8. \A t \in DOMAIN m.servers \ {s} : a \notin m.servers[t].addresses \/ insert
  BY DEF M!Agrees
<1>9. \A t \in DOMAIN r.servers :
        /\ t \in Lives /\ r.servers[t] \in M!ServerInfos /\ r.servers[t].addresses # {}
        /\ r.servers[t].addresses = {b \in DOMAIN r.addresses : r.addresses[b].secret = t}
  <2> TAKE t \in DOMAIN r.servers
  <2>1. CASE t = s
    <3>1. r.servers[t] = new
      BY <1>3, <2>1
    <3>2. \A b \in Protocols \ {a} :
            b \in new.addresses <=> b \in DOMAIN m.addresses /\ m.addresses[b].secret = s
      <4>1. CASE s \in DOMAIN servers
        <5>1. old.addresses = IF insert THEN m.servers[s].addresses \ {a} ELSE m.servers[s].addresses
          BY <1>4, <1>5, <4>1
        <5>2. m.servers[s].addresses = {b \in DOMAIN m.addresses : m.addresses[b].secret = s}
          BY <1>4, <4>1 DEF M!Agrees
        <5>3. QED
          BY <1>7, <5>1, <5>2
      <4>2. CASE s \notin DOMAIN servers
        <5>1. old.addresses = {}
          BY <1>5, <4>2
        <5>2. \A b \in DOMAIN m.addresses \ {a} : m.addresses[b].secret # s
          BY <1>4, <4>2 DEF M!Agrees
        <5>3. QED
          BY <1>7, <5>1, <5>2
      <4>3. QED
        BY <4>1, <4>2
    <3>3. new.addresses \subseteq Protocols /\ DOMAIN m.addresses \subseteq Protocols
      BY <1>7 DEF M!ServerInfos, M!Agrees
    <3>4. QED
      BY <1>2, <1>7, <2>1, <3>1, <3>2, <3>3
  <2>2. CASE t # s
    <3>1. t \in DOMAIN servers /\ r.servers[t] = servers[t] /\ t \in DOMAIN m.servers
      BY <1>3, <1>4, <2>2
    <3>2. /\ t \in Lives
          /\ m.servers[t].addresses = {b \in DOMAIN m.addresses : m.addresses[b].secret = t}
      BY <3>1 DEF M!Agrees
    <3>3. servers[t].addresses = m.servers[t].addresses \ {a}
      BY <1>4, <1>8, <2>2, <3>1
    <3>4. r.addresses[a].secret = s
      BY <1>2
    <3>5. \A b \in DOMAIN r.addresses : r.addresses[b].secret = t <=> b \in servers[t].addresses
      <4> TAKE b \in DOMAIN r.addresses
      <4>1. CASE b = a
        BY <2>2, <3>3, <3>4, <4>1
      <4>2. CASE b # a
        BY <1>2, <3>2, <3>3, <4>2
      <4>3. QED
        BY <4>1, <4>2
    <3>6. servers[t].addresses \subseteq DOMAIN r.addresses
      BY <1>2, <3>2, <3>3
    <3>7. QED
      BY <1>4, <3>1, <3>2, <3>5, <3>6
  <2>3. QED
    BY <2>1, <2>2
<1>10. \A b \in DOMAIN r.addresses :
         /\ b \in Protocols /\ r.addresses[b] \in M!AddrInfos
         /\ r.addresses[b].secret \in DOMAIN r.servers
  <2> TAKE b \in DOMAIN r.addresses
  <2>1. CASE b = a
    BY <1>2, <1>3, <2>1 DEF M!AddrInfos
  <2>2. CASE b # a
    <3>1. /\ b \in DOMAIN m.addresses /\ r.addresses[b] = m.addresses[b]
          /\ b \in Protocols /\ m.addresses[b] \in M!AddrInfos
          /\ m.addresses[b].secret \in DOMAIN m.servers
          /\ b \in m.servers[m.addresses[b].secret].addresses
      BY <1>2, <2>2 DEF M!Agrees
    <3>2. m.addresses[b].secret \in DOMAIN servers
      BY <1>4, <2>2, <3>1
    <3>3. QED
      BY <1>3, <3>1, <3>2
  <2>3. QED
    BY <2>1, <2>2
<1>11. M!Agrees(r)
  BY <1>9, <1>10 DEF M!Agrees
<1>12. \A t \in DOMAIN r.servers \cap DOMAIN m.servers :
         m.servers[t].serial <= r.servers[t].serial
  <2> TAKE t \in DOMAIN r.servers \cap DOMAIN m.servers
  <2>1. m.servers[t].serial \in 0 .. MaxSerial
    BY DEF M!Agrees, M!ServerInfos
  <2>2. CASE t # s
    <3>1. t \in DOMAIN servers /\ r.servers[t] = servers[t]
      BY <1>3, <2>2
    <3>2. r.servers[t].serial = m.servers[t].serial
      BY <1>4, <3>1
    <3>3. QED
      BY <2>1, <3>2
  <2>3. CASE t = s /\ s \in DOMAIN servers
    BY <1>3, <1>4, <1>5, <1>7, <2>3
  <2>4. CASE t = s /\ s \notin DOMAIN servers
    <3>1. m.servers[s].addresses = {a}
      BY <1>4, <2>4
    <3>2. a \in DOMAIN m.addresses /\ m.addresses[a].secret = s
      BY <2>4, <3>1 DEF M!Agrees
    <3>3. QED
      BY <1>6, <2>4, <3>2
  <2>5. QED
    BY <2>2, <2>3, <2>4
<1>13. IsList(r)
  BY DEF r, M!Added, IsList
<1>14. QED
  BY <1>2, <1>11, <1>12, <1>13 DEF r

\* The entries of this life at the addresses P get older by one registration.
LEMMA OlderAgrees ==
    ASSUME NEW m, IsList(m), M!Agrees(m), NEW P
    PROVE  LET r == Older(m, P)
           IN  /\ M!Agrees(r) /\ IsList(r)
               /\ r.servers = m.servers /\ DOMAIN r.addresses = DOMAIN m.addresses
               /\ \A a \in DOMAIN m.addresses : r.addresses[a].secret = m.addresses[a].secret
               /\ \A p \in Protocols : Newest(r, p) => p \notin P /\ Newest(m, p)
<1> DEFINE older == [a \in DOMAIN m.addresses |->
                       IF /\ a \in P /\ m.addresses[a].secret = life
                          /\ m.addresses[a].behind < MaxBehind
                       THEN [m.addresses[a] EXCEPT !.behind = m.addresses[a].behind + 1]
                       ELSE m.addresses[a]]
           r == Older(m, P)
<1>1. r = [addresses |-> older, servers |-> m.servers]
  BY DEF Older, IsList
<1>2. r.addresses = older /\ r.servers = m.servers /\ IsList(r)
  BY <1>1 DEF IsList
<1>3. \A a \in DOMAIN m.addresses : m.addresses[a] \in M!AddrInfos
  BY DEF M!Agrees
<1>4. DOMAIN older = DOMAIN m.addresses
  OBVIOUS
<1>5. \A a \in DOMAIN m.addresses :
        /\ older[a] \in M!AddrInfos /\ older[a].secret = m.addresses[a].secret
        /\ older[a].behind = 0 =>
              m.addresses[a].behind = 0 /\ ~(a \in P /\ m.addresses[a].secret = life)
  <2> TAKE a \in DOMAIN m.addresses
  <2> DEFINE e == m.addresses[a]
             g == [e EXCEPT !.behind = e.behind + 1]
  <2>1. e \in M!AddrInfos /\ e.behind \in 0 .. 2
    BY <1>3 DEF M!AddrInfos, MaxBehind
  <2>2. CASE a \in P /\ e.secret = life /\ e.behind < MaxBehind
    <3>1. older[a] = g
      BY <2>2
    <3>2. g.secret = e.secret /\ g.behind = e.behind + 1
      BY <2>1 DEF M!AddrInfos
    <3>3. e.behind + 1 \in 0 .. MaxBehind /\ e.behind + 1 # 0
      BY <2>1, <2>2 DEF MaxBehind
    <3>4. g \in M!AddrInfos
      BY <2>1, <3>3 DEF M!AddrInfos
    <3> HIDE DEF g, older, e
    <3>5. QED
      BY <3>1, <3>2, <3>3, <3>4 DEF e
  <2>3. CASE ~(a \in P /\ e.secret = life /\ e.behind < MaxBehind)
    <3>1. older[a] = e
      BY <2>3
    <3> HIDE DEF older
    <3>2. QED
      BY <2>1, <2>3, <3>1 DEF MaxBehind
  <2>4. QED
    BY <2>2, <2>3
<1> HIDE DEF r, older
<1>6. M!Agrees(r)
  BY <1>2, <1>4, <1>5 DEF M!Agrees
<1>7. ASSUME NEW p \in Protocols, Newest(r, p) PROVE p \notin P /\ Newest(m, p)
  <2>1. /\ p \in DOMAIN m.addresses /\ older[p] = [secret |-> life, behind |-> 0]
    BY <1>2, <1>4, <1>7 DEF Newest
  <2>2. older[p].secret = life /\ older[p].behind = 0
    BY <2>1
  <2>3. m.addresses[p].secret = life /\ m.addresses[p].behind = 0 /\ p \notin P
    BY <1>5, <2>1, <2>2
  <2>4. m.addresses[p] = [secret |-> life, behind |-> 0]
    BY <1>3, <2>1, <2>3 DEF M!AddrInfos
  <2>5. QED
    BY <2>1, <2>3, <2>4 DEF Newest
<1>8. QED
  BY <1>2, <1>4, <1>5, <1>6, <1>7 DEF r

-----------------------------------------------------------------------------
(* The steps.                                                               *)

LEMMA Here ==
    ASSUME IInv, NEW p \in Protocols
    PROVE  /\ Lived(p) /\ OneOfAge(p) /\ Noted(p) /\ Accepted(master, p) /\ StatusTrue(master, p)
           /\ reqs[p] \subseteq Requests /\ last[p] \in 0 .. (MaxAge + 1)
           /\ reqs \in [Protocols -> SUBSET Requests]
BY DEF IInv, TypeOK

LEMMA InitInv == ASSUME Init PROVE IInv
<1>1. TypeOK
  BY RegistrationAssumption DEF Init, TypeOK, Lives, Tokens, NoToken
<1>2. IsList(master) /\ M!Agrees(master) /\ DOMAIN master.addresses = {}
  BY NoServersAgree DEF Init
<1>3. \A p \in Protocols : reqs[p] = {} /\ ~Newest(master, p)
  BY <1>2 DEF Init, Newest
<1>4. QED
  BY <1>1, <1>2, <1>3 DEF IInv, AddrsKnown, Lived, OneOfAge, Noted, Accepted, StatusTrue

\* Steps of the master and of the timers that leave the requests alone.
LEMMA QuietInv ==
    ASSUME IInv, TypeOK', UNCHANGED <<up, life, infoSerial, status, last, reqs>>,
           M!Agrees(master'), IsList(master'),
           DOMAIN master'.addresses \subseteq DOMAIN master.addresses,
           \A a \in DOMAIN master'.addresses : master'.addresses[a] = master.addresses[a]
    PROVE  IInv'
<1>1. AddrsKnown(master)'
  BY DEF IInv, AddrsKnown
<1>2. \A p \in Protocols : Newest(master, p)' => Newest(master, p)
  BY DEF Newest
<1>3. ASSUME NEW p \in Protocols
      PROVE  (Lived(p) /\ OneOfAge(p) /\ Noted(p) /\ Accepted(master, p) /\ StatusTrue(master, p))'
  <2>1. Lived(p)' /\ OneOfAge(p)' /\ Noted(p)'
    BY Here DEF Lived, OneOfAge, Noted
  <2>2. Accepted(master, p)' /\ StatusTrue(master, p)'
    BY <1>2, Here DEF Accepted, StatusTrue
  <2>3. QED
    BY <2>1, <2>2
<1>4. QED
  BY <1>1, <1>3 DEF IInv

LEMMA HandleDeleteInv == ASSUME IInv, NEW d \in deletes, HandleDelete(d) PROVE IInv'
<1>1. TypeOK'
  BY DEF HandleDelete, localVars, sharedVars, IInv, TypeOK
<1>2. QED
  BY <1>1, RemovedAgrees, QuietInv DEF HandleDelete, localVars, sharedVars, IInv

LEMMA WriteoutInv == ASSUME IInv, NEW A, Writeout(A) PROVE IInv'
<1>1. TypeOK'
  BY DEF Writeout, localVars, sharedVars, netVars, IInv, TypeOK
<1>2. QED
  BY <1>1, PrunedAgrees, QuietInv DEF Writeout, localVars, sharedVars, netVars, IInv

LEMMA MasterRestartInv == ASSUME IInv, MasterRestart PROVE IInv'
<1>1. TypeOK'
  BY RegistrationAssumption DEF MasterRestart, Trouble, localVars, sharedVars, netVars, IInv, TypeOK
<1>2. QED
  BY <1>1, NoServersAgree, QuietInv DEF MasterRestart, localVars, sharedVars, netVars

LEMMA ElapseInv == ASSUME IInv, NEW p \in Protocols, Elapse(p) PROVE IInv'
<1>1. TypeOK'
  BY RegistrationAssumption DEF Elapse, Trouble, sharedVars, netVars, IInv, TypeOK
<1>2. QED
  BY <1>1, QuietInv DEF Elapse, sharedVars, netVars, IInv

LEMMA LoseInv ==
    ASSUME IInv,
           \/ \E d \in deletes : LoseDelete(d)
           \/ \E p \in Protocols, t \in Tokens : LoseChallenge(p, t)
    PROVE  IInv'
<1>1. TypeOK'
  <2>1. /\ deletes' \subseteq [life : Lives, protocol : Protocols]
        /\ chals' \in [Protocols -> SUBSET Tokens] /\ trouble' \in 0 .. MaxTrouble
    BY RegistrationAssumption DEF LoseDelete, LoseChallenge, Trouble, IInv, TypeOK
  <2>2. QED
    BY <2>1 DEF LoseDelete, LoseChallenge, localVars, sharedVars, IInv, TypeOK
<1>2. /\ UNCHANGED <<up, life, infoSerial, status, last, reqs, master>>
  BY DEF LoseDelete, LoseChallenge, localVars, sharedVars
<1>3. QED
  BY <1>1, <1>2, QuietInv DEF IInv

\* The request r goes on to the stage x, or goes.
LEMMA ReplaceInv ==
    ASSUME IInv, NEW p \in Protocols, NEW r \in reqs[p], NEW x \in Stages,
           NEW S \in {{}, {[r EXCEPT !.stage = x]}},
           reqs' = [reqs EXCEPT ![p] = (@ \ {r}) \cup S],
           reqs' \in [Protocols -> SUBSET Requests] => TypeOK',
           UNCHANGED <<up, life, infoSerial>>,
           M!Agrees(master'), IsList(master'), AddrsKnown(master'),
           S # {} => up /\ r.life = life,
           \A i \in Protocols : up /\ Newest(master', i) =>
               \/ Newest(master, i)
               \/ i = p /\ r.life = life /\ r.age = 0 /\ x \in {"ok", "counted_ok"},
           r.stage = "ok" => x \in {"ok", "counted_ok"},
           S # {} => r.stage # "counted_ok",
           \A i \in Protocols \ {p} : last'[i] = last[i],
           up /\ last'[p] = 0 => last[p] = 0 \/ (r.life = life /\ r.age = 0),
           S # {} /\ last'[p] = 0 /\ r.age = 0 => x \notin Open,
           \A i \in Protocols : StatusTrue(master, i)'
    PROVE  IInv'
<1> DEFINE q == [r EXCEPT !.stage = x]
<1>1. reqs \in [Protocols -> SUBSET Requests] /\ r \in Requests
  BY Here
<1>2. /\ q \in Requests /\ q.life = r.life /\ q.age = r.age /\ q.serial = r.serial /\ q.stage = x
  BY <1>1 DEF Requests
<1> HIDE DEF q
<1>3. /\ reqs'[p] = (reqs[p] \ {r}) \cup S /\ S \in {{}, {q}}
      /\ \A i \in Protocols \ {p} : reqs'[i] = reqs[i]
  BY <1>1 DEF q
<1>4. TypeOK'
  BY <1>1, <1>2, <1>3
<1>5. Lived(p)'
  <2>1. \A u \in reqs[p] : /\ u.life <= life /\ (up /\ u.life = life => u.serial <= infoSerial)
                           /\ (u.stage # "sent" => up /\ u.life = life)
    BY Here DEF Lived
  <2>2. \A u \in S : /\ u.life <= life /\ (up /\ u.life = life => u.serial <= infoSerial)
                     /\ (u.stage # "sent" => up /\ u.life = life)
    BY <1>2, <1>3, <2>1
  <2>3. QED
    BY <1>3, <2>1, <2>2 DEF Lived
<1>6. OneOfAge(p)'
  <2>1. up => \A u, v \in reqs[p] : u.life = life /\ v.life = life /\ u.age = v.age => u = v
    BY Here DEF OneOfAge
  <2>2. QED
    BY <1>2, <1>3, <2>1 DEF OneOfAge
<1>7. Noted(p)'
  <2> SUFFICES ASSUME up, last'[p] = 0, NEW u \in reqs'[p], u.life = life, u.age = 0
               PROVE  u.stage \notin Open
    BY DEF Noted
  <2>1. CASE u \in S
    BY <1>2, <1>3, <2>1
  <2>2. CASE u \in reqs[p] \ {r} /\ last[p] = 0
    BY <2>2, Here DEF Noted
  <2>3. CASE u \in reqs[p] \ {r} /\ r.life = life /\ r.age = 0
    BY <2>3, Here DEF OneOfAge
  <2>4. QED
    BY <1>3, <2>1, <2>2, <2>3
<1>8. Accepted(master, p)'
  <2> SUFFICES ASSUME up, Newest(master', p), NEW u \in reqs'[p], u.life = life, u.age = 0
               PROVE  u.stage \in {"ok", "counted_ok"}
    BY DEF Accepted, Newest
  <2>1. CASE u \in S
    <3>1. u = q /\ r.life = life /\ r.age = 0
      BY <1>2, <1>3, <2>1
    <3>2. Newest(master, p) => r.stage = "ok"
      BY <2>1, <3>1, Here DEF Accepted
    <3>3. QED
      BY <1>2, <3>1, <3>2
  <2>2. CASE u \in reqs[p] \ {r} /\ Newest(master, p)
    BY <2>2, Here DEF Accepted
  <2>3. CASE u \in reqs[p] \ {r} /\ r.life = life /\ r.age = 0
    BY <2>3, Here DEF OneOfAge
  <2>4. QED
    BY <1>3, <2>1, <2>2, <2>3
<1>9. ASSUME NEW i \in Protocols \ {p}
      PROVE  (Lived(i) /\ OneOfAge(i) /\ Noted(i) /\ Accepted(master, i))'
  <2>1. reqs'[i] = reqs[i] /\ last'[i] = last[i]
    BY <1>3
  <2>2. Lived(i)' /\ OneOfAge(i)' /\ Noted(i)'
    BY <2>1, Here DEF Lived, OneOfAge, Noted
  <2>3. up /\ Newest(master', i) => Newest(master, i)
    OBVIOUS
  <2>4. Accepted(master, i)'
    BY <2>1, <2>3, Here DEF Accepted, Newest
  <2>5. QED
    BY <2>2, <2>4
<1>10. QED
  BY <1>4, <1>5, <1>6, <1>7, <1>8, <1>9 DEF IInv, AddrsKnown

\* The master accepts only what it answers with ok.
LEMMA HandleRegisterInv ==
    ASSUME IInv, NEW p \in Protocols, NEW r \in reqs[p], HandleRegister(p, r)
    PROVE  IInv'
<1> DEFINE correct == p \in Exempt \/ r.token \in {0, 1}
           needInfo == M!NeedsInfo(master, r.life, r.serial) /\ ~r.info
           behind == IF r.life # life THEN MaxBehind
                     ELSE IF r.age < MaxBehind THEN r.age ELSE MaxBehind
           answer == CASE ~correct -> "needchallenge"
                       [] correct /\ needInfo -> "needinfo"
                       [] OTHER -> "ok"
           S == IF up /\ r.life = life THEN {[r EXCEPT !.stage = answer]} ELSE {}
           added == M!Added(master, p, r.life, r.serial, behind)
<1>1. /\ reqs \in [Protocols -> SUBSET Requests] /\ r \in Requests /\ r.stage = "sent"
      /\ r.life <= life
  BY Here DEF HandleRegister, Lived
<1>2. answer \in {"needchallenge", "needinfo", "ok"}
  OBVIOUS
<1>3. /\ master' = (IF answer = "ok" THEN added ELSE master)
      /\ reqs' = [reqs EXCEPT ![p] = (@ \ {r}) \cup S]
      /\ chals' = IF p \notin Exempt /\ r.token # 0 /\ up /\ r.life = life
                  THEN [chals EXCEPT ![p] = {0}] ELSE chals
      /\ UNCHANGED <<localVars, sharedVars, deletes, trouble>>
  BY DEF HandleRegister
<1>4. /\ behind \in 0 .. MaxBehind /\ r.age \in 0 .. MaxAge
      /\ behind = 0 => r.age = 0 /\ r.life = life
  BY <1>1 DEF Requests, MaxBehind
<1> HIDE DEF answer, behind
<1>5. /\ M!Agrees(added) /\ IsList(added)
      /\ DOMAIN added.addresses = DOMAIN master.addresses \cup {p}
      /\ added.addresses[p] = [secret |-> r.life, behind |-> behind]
      /\ \A b \in DOMAIN master.addresses \ {p} : added.addresses[b] = master.addresses[b]
  BY <1>1, <1>4, AddedAgrees DEF Requests, IInv
<1> HIDE DEF added
<1>6. M!Agrees(master') /\ IsList(master') /\ AddrsKnown(master')
  BY <1>1, <1>3, <1>5 DEF IInv, AddrsKnown
<1>7. chals' \in [Protocols -> SUBSET Tokens]
  BY <1>3 DEF IInv, TypeOK, Tokens, NoToken
<1>8. reqs' \in [Protocols -> SUBSET Requests] => TypeOK'
  BY <1>3, <1>7 DEF IInv, TypeOK, localVars, sharedVars
<1>9. \A i \in Protocols : Newest(master', i) =>
         \/ Newest(master, i)
         \/ i = p /\ r.life = life /\ r.age = 0 /\ answer = "ok"
  <2> SUFFICES ASSUME NEW i \in Protocols, Newest(master', i), ~Newest(master, i)
               PROVE  i = p /\ r.life = life /\ r.age = 0 /\ answer = "ok"
    OBVIOUS
  <2>1. answer = "ok" /\ master' = added
    BY <1>3
  <2>2. i = p
    BY <1>5, <2>1 DEF Newest
  <2>3. [secret |-> r.life, behind |-> behind] = [secret |-> life, behind |-> 0]
    BY <1>5, <2>1, <2>2 DEF Newest
  <2>4. behind = 0
    BY <2>3
  <2>5. QED
    BY <1>4, <2>1, <2>2, <2>4
<1>10. \A i \in Protocols : StatusTrue(master, i)'
  <2> SUFFICES ASSUME NEW i \in Protocols, up, last[i] = 0, Newest(master', i)
               PROVE  status[i] \in {"ok", "none"}
    BY <1>3 DEF StatusTrue, Newest, localVars, sharedVars
  <2>1. CASE Newest(master, i)
    BY <2>1, Here DEF StatusTrue
  <2>2. CASE i = p /\ r.life = life /\ r.age = 0
    BY <1>1, <2>2, Here DEF Noted, Open
  <2>3. QED
    BY <1>9, <2>1, <2>2
<1>11. /\ answer \in Stages /\ (answer = "ok" => answer \in {"ok", "counted_ok"})
       /\ S \in {{}, {[r EXCEPT !.stage = answer]}} /\ (S # {} => up /\ r.life = life)
  BY <1>2 DEF Stages
<1>12. /\ UNCHANGED <<up, life, infoSerial>> /\ last' = last
  BY <1>3 DEF localVars, sharedVars
<1>13. S # {} /\ last'[p] = 0 /\ r.age = 0 => answer \notin Open
  BY <1>1, <1>11, <1>12, Here DEF Noted, Open
<1> HIDE DEF S
<1>14. QED
  BY <1>1, <1>3, <1>6, <1>8, <1>9, <1>10, <1>11, <1>12, <1>13, ReplaceInv

LEMMA NoteStatusInv ==
    ASSUME IInv, NEW p \in Protocols, NEW r \in reqs[p], NoteStatus(p, r)
    PROVE  IInv'
<1> DEFINE x == IF r.stage = "ok" THEN "counted_ok" ELSE "counted_needinfo"
           S == CASE r.stage = "ok"       -> {[r EXCEPT !.stage = "counted_ok"]}
                  [] r.stage = "needinfo" -> {[r EXCEPT !.stage = "counted_needinfo"]}
                  [] OTHER                -> {}
<1>1. /\ reqs \in [Protocols -> SUBSET Requests] /\ r \in Requests /\ r.stage \in Answers
      /\ last \in [Protocols -> 0 .. (MaxAge + 1)] /\ status \in [Protocols -> {"none"} \cup Answers]
  BY Here DEF NoteStatus, IInv, TypeOK
<1>2. up /\ r.life = life /\ r.age \in 0 .. MaxAge
  BY <1>1, Here DEF Lived, Answers, Requests
<1>3. /\ reqs' = [reqs EXCEPT ![p] = (@ \ {r}) \cup S]
      /\ UNCHANGED <<localVars, deletes, chals, master, trouble>>
  BY DEF NoteStatus
<1>4. /\ x \in Stages /\ S \in {{}, {[r EXCEPT !.stage = x]}}
      /\ (r.stage = "ok" => x \in {"ok", "counted_ok"}) /\ x \notin Open
      /\ r.stage # "counted_ok"
  BY <1>1 DEF Stages, Answers, Open
<1> HIDE DEF x, S
<1>5. \/ /\ r.age < last[p] /\ last' = [last EXCEPT ![p] = r.age]
         /\ status' = [status EXCEPT ![p] = r.stage]
      \/ last' = last /\ status' = status
  BY DEF NoteStatus, sharedVars
<1>6. /\ last' \in [Protocols -> 0 .. (MaxAge + 1)]
      /\ status' \in [Protocols -> {"none"} \cup Answers]
  BY <1>1, <1>2, <1>5, RegistrationAssumption
<1>7. reqs' \in [Protocols -> SUBSET Requests] => TypeOK'
  BY <1>3, <1>6 DEF IInv, TypeOK, localVars
<1>8. /\ UNCHANGED <<up, life, infoSerial, master>>
  BY <1>3 DEF localVars
<1>9. M!Agrees(master') /\ IsList(master') /\ AddrsKnown(master')
  BY <1>8 DEF IInv
<1>10. \A i \in Protocols \ {p} : last'[i] = last[i] /\ status'[i] = status[i]
  BY <1>1, <1>5
<1>11. last'[p] = 0 => last[p] = 0 \/ r.age = 0
  BY <1>1, <1>5
<1>12. \A i \in Protocols : StatusTrue(master, i)'
  <2> SUFFICES ASSUME NEW i \in Protocols, last'[i] = 0, Newest(master, i)
               PROVE  status'[i] \in {"ok", "none"}
    BY <1>8 DEF StatusTrue, Newest
  <2>1. CASE last'[i] = last[i] /\ status'[i] = status[i]
    BY <1>2, <2>1, Here DEF StatusTrue
  <2>2. CASE i = p /\ r.age = 0 /\ status'[p] = r.stage
    BY <1>1, <1>2, <2>2, Here DEF Accepted, Answers
  <2>3. QED
    BY <1>1, <1>5, <1>10, <2>1, <2>2
<1>13. QED
  BY <1>2, <1>3, <1>4, <1>7, <1>8, <1>9, <1>10, <1>11, <1>12, ReplaceInv

\* An answer is counted, or the request fails.
LEMMA LeaveInv ==
    ASSUME IInv, NEW p \in Protocols, NEW r \in reqs[p], NoteSerial(p, r) \/ Fail(p, r)
    PROVE  IInv'
<1>1. /\ reqs \in [Protocols -> SUBSET Requests] /\ r \in Requests
      /\ r.stage \in {"counted_ok", "counted_needinfo"} => up /\ r.life = life /\ r.serial <= infoSerial
  BY Here DEF Lived
<1>2. /\ UNCHANGED <<up, life, enabled, infoSerial, due, token, newToken, sharedVars, deletes,
                      chals, master>>
      /\ reqs' = [reqs EXCEPT ![p] = @ \ {r}]
  BY DEF NoteSerial, Fail, localVars
<1>3. okSerial' \in Int /\ okSerial' <= infoSerial
  <2>1. okSerial \in Int /\ okSerial <= infoSerial /\ infoSerial \in Int /\ r.serial \in Int
    BY <1>1 DEF IInv, TypeOK, Requests
  <2>2. CASE Fail(p, r)
    BY <2>1, <2>2 DEF Fail, localVars
  <2>3. CASE NoteSerial(p, r)
    BY <1>1, <2>1, <2>3 DEF NoteSerial
  <2>4. QED
    BY <2>2, <2>3
<1>4. trouble' \in 0 .. MaxTrouble
  BY RegistrationAssumption DEF NoteSerial, Fail, Trouble, IInv, TypeOK
<1>5. reqs' \in [Protocols -> SUBSET Requests] => TypeOK'
  BY <1>2, <1>3, <1>4 DEF IInv, TypeOK, sharedVars
<1>6. M!Agrees(master') /\ IsList(master') /\ AddrsKnown(master')
  BY <1>2 DEF IInv
<1>7. \A i \in Protocols : StatusTrue(master, i)'
  <2> TAKE i \in Protocols
  <2>1. StatusTrue(master, i)
    BY Here
  <2>2. QED
    BY <1>2, <2>1 DEF StatusTrue, Newest, sharedVars
<1> DEFINE x == IF r.stage = "ok" THEN "ok" ELSE "counted_ok"
           S == {}
<1>8. /\ reqs' = [reqs EXCEPT ![p] = (@ \ {r}) \cup S] /\ S \in {{}, {[r EXCEPT !.stage = x]}}
      /\ x \in Stages /\ x \in {"ok", "counted_ok"} /\ S = {}
  BY <1>1, <1>2 DEF Stages
<1> HIDE DEF x, S
<1>9. last' = last /\ UNCHANGED <<up, life, infoSerial, master>>
  BY <1>2 DEF sharedVars
<1>10. QED
  BY <1>5, <1>6, <1>7, <1>8, <1>9, ReplaceInv

\* What SendRegister changes has its type.
LEMMA SendTypes ==
    ASSUME IInv, up, NEW P \in SUBSET Protocols, NEW tok \in [Protocols -> Tokens],
           NEW n \in 0 .. MaxSerial, SendRegister(P, tok, n)
    PROVE  /\ reqs' \in [Protocols -> SUBSET Requests]
           /\ last' \in [Protocols -> 0 .. (MaxAge + 1)]
           /\ newToken' \in [Protocols -> BOOLEAN] /\ due' \in [Protocols -> BOOLEAN]
<1>1. /\ reqs \in [Protocols -> SUBSET Requests] /\ life \in Lives
      /\ last \in [Protocols -> 0 .. (MaxAge + 1)]
      /\ newToken \in [Protocols -> BOOLEAN] /\ due \in [Protocols -> BOOLEAN]
  BY DEF IInv, TypeOK
<1>2. \A p \in P : \A r \in reqs[p] : r.life = life => r.age < MaxAge
  BY DEF SendRegister, MaySend, Mine
<1>3. ASSUME NEW p \in Protocols PROVE reqs'[p] \subseteq Requests
  <2>1. CASE p \notin P
    BY <1>1, <2>1 DEF SendRegister
  <2>2. CASE p \in P
    <3> DEFINE old == {IF r.life = life THEN [r EXCEPT !.age = @ + 1] ELSE r : r \in reqs[p]}
               new == [life |-> life, age |-> 0, serial |-> n, info |-> n > okSerial,
                       token |-> tok[p], stage |-> "sent"]
    <3>1. reqs'[p] = old \cup {new}
      BY <2>2 DEF SendRegister
    <3>2. new \in Requests
      BY <1>1, RegistrationAssumption DEF Requests, Stages
    <3>3. old \subseteq Requests
      <4> SUFFICES ASSUME NEW r \in reqs[p]
                   PROVE  (IF r.life = life THEN [r EXCEPT !.age = @ + 1] ELSE r) \in Requests
        OBVIOUS
      <4>1. r \in Requests
        BY <1>1
      <4>2. CASE r.life = life
        <5>1. r.age + 1 \in 0 .. MaxAge
          BY <1>2, <2>2, <4>1, <4>2, RegistrationAssumption DEF Requests
        <5>2. QED
          BY <4>1, <4>2, <5>1 DEF Requests
      <4>3. CASE r.life # life
        BY <4>1, <4>3
      <4>4. QED
        BY <4>2, <4>3
    <3> HIDE DEF old, new
    <3>4. QED
      BY <3>1, <3>2, <3>3
  <2>3. QED
    BY <2>1, <2>2
<1>4. reqs' \in [Protocols -> SUBSET Requests]
  <2>1. reqs' = [p \in Protocols |-> reqs'[p]]
    BY DEF SendRegister
  <2>2. QED
    BY <1>3, <2>1
<1>5. last' \in [Protocols -> 0 .. (MaxAge + 1)]
  BY <1>1, RegistrationAssumption DEF SendRegister
<1>6. newToken' \in [Protocols -> BOOLEAN] /\ due' \in [Protocols -> BOOLEAN]
  BY <1>1 DEF SendRegister
<1>7. QED
  BY <1>4, <1>5, <1>6

\* The requests get older by the new one, and the newest answer with them.
LEMMA SendInv ==
    ASSUME IInv, TypeOK', up, UNCHANGED <<up, life>>, infoSerial <= infoSerial',
           NEW P \in SUBSET Protocols, NEW tok, NEW n \in 0 .. MaxSerial, n <= infoSerial',
           SendRegister(P, tok, n),
           \A p \in Protocols : status'[p] \in {status[p], "none"}
    PROVE  IInv'
<1>1. /\ reqs \in [Protocols -> SUBSET Requests]
      /\ last \in [Protocols -> 0 .. (MaxAge + 1)]
      /\ IsList(master) /\ M!Agrees(master)
  BY DEF IInv, TypeOK
<1>2. /\ M!Agrees(master') /\ IsList(master')
      /\ DOMAIN master'.addresses = DOMAIN master.addresses
      /\ \A a \in DOMAIN master.addresses : master'.addresses[a].secret = master.addresses[a].secret
      /\ \A p \in Protocols : Newest(master', p) => p \notin P /\ Newest(master, p)
  <2>1. master' = Older(master, P)
    BY DEF SendRegister
  <2>2. QED
    BY <1>1, <2>1, OlderAgrees
<1>3. AddrsKnown(master)'
  BY <1>2 DEF IInv, AddrsKnown
<1>4. ASSUME NEW p \in Protocols
      PROVE  (Lived(p) /\ OneOfAge(p) /\ Noted(p) /\ Accepted(master, p) /\ StatusTrue(master, p))'
  <2>1. CASE p \notin P
    <3>1. reqs'[p] = reqs[p] /\ last'[p] = last[p]
      BY <2>1 DEF SendRegister
    <3>2. Lived(p)'
      <4>1. \A r \in reqs[p] : r.serial \in Int
        BY <1>1 DEF Requests
      <4>2. infoSerial \in Int /\ infoSerial' \in Int
        BY DEF IInv, TypeOK
      <4>3. QED
        BY <3>1, <4>1, <4>2, Here DEF Lived
    <3>3. OneOfAge(p)' /\ Noted(p)'
      BY <3>1, Here DEF OneOfAge, Noted
    <3>4. Newest(master, p)' => Newest(master, p)
      BY <1>2 DEF Newest
    <3>5. Accepted(master, p)' /\ StatusTrue(master, p)'
      BY <3>1, <3>4, Here DEF Accepted, StatusTrue
    <3>6. QED
      BY <3>2, <3>3, <3>5
  <2>2. CASE p \in P
    <3> DEFINE aged(r) == IF r.life = life THEN [r EXCEPT !.age = @ + 1] ELSE r
               new == [life |-> life, age |-> 0, serial |-> n, info |-> n > okSerial,
                       token |-> tok[p], stage |-> "sent"]
    <3>1. reqs'[p] = {aged(r) : r \in reqs[p]} \cup {new} /\ last'[p] # 0
      <4>1. reqs'[p] = {aged(r) : r \in reqs[p]} \cup {new}
        BY <2>2 DEF SendRegister
      <4>2. last'[p] # 0
        BY <1>1, <2>2, RegistrationAssumption DEF SendRegister
      <4>3. QED
        BY <4>1, <4>2
    <3>2. /\ new.life = life /\ new.age = 0 /\ new.serial = n /\ new.stage = "sent"
      OBVIOUS
    <3>3. \A r \in reqs[p] :
            /\ r.age \in Nat /\ r.serial \in Int
            /\ aged(r).life = r.life /\ aged(r).serial = r.serial /\ aged(r).stage = r.stage
            /\ r.life = life => aged(r).age = r.age + 1
      <4> TAKE r \in reqs[p]
      <4>1. r \in Requests
        BY <1>1
      <4>2. r.age \in Nat /\ r.serial \in Int
        BY <4>1 DEF Requests
      <4>3. QED
        BY <4>1, <4>2 DEF Requests
    <3> HIDE DEF aged, new
    <3>4. infoSerial \in Int /\ infoSerial' \in Int
      BY DEF IInv, TypeOK
    <3>5. Lived(p)'
      <4>1. \A r \in reqs[p] : /\ r.life <= life /\ (r.life = life => r.serial <= infoSerial)
                               /\ (r.stage # "sent" => r.life = life)
        BY Here DEF Lived
      <4>2. life <= life
        BY DEF IInv, TypeOK, Lives
      <4>3. QED
        BY <3>1, <3>2, <3>3, <3>4, <4>1, <4>2 DEF Lived
    <3>6. OneOfAge(p)'
      <4> SUFFICES ASSUME NEW u \in reqs'[p], NEW v \in reqs'[p], u.life = life, v.life = life,
                          u.age = v.age
                   PROVE  u = v
        BY DEF OneOfAge
      <4>1. CASE u = new /\ v = new
        BY <4>1
      <4>2. CASE u # new /\ v # new
        <5>1. PICK q \in reqs[p] : u = aged(q)
          BY <3>1, <4>2
        <5>2. PICK r \in reqs[p] : v = aged(r)
          BY <3>1, <4>2
        <5>3. q.life = life /\ r.life = life /\ q.age = r.age
          BY <3>3, <5>1, <5>2
        <5>4. q = r
          BY <5>3, Here DEF OneOfAge
        <5>5. QED
          BY <5>1, <5>2, <5>4
      <4>3. CASE (u = new) # (v = new)
        BY <3>1, <3>2, <3>3, <4>3
      <4>4. QED
        BY <4>1, <4>2, <4>3
    <3>7. Noted(p)' /\ Accepted(master, p)' /\ StatusTrue(master, p)'
      BY <1>2, <2>2, <3>1 DEF Noted, Accepted, StatusTrue, Newest
    <3>8. QED
      BY <3>5, <3>6, <3>7
  <2>3. QED
    BY <2>1, <2>2
<1>5. QED
  BY <1>2, <1>3, <1>4 DEF IInv

LEMMA SerialType == ASSUME IInv PROVE infoSerial \in 0 .. MaxSerial /\ infoSerial <= infoSerial
BY DEF IInv, TypeOK

LEMMA UpdateInv == ASSUME IInv, NEW p \in Protocols, Update(p) PROVE IInv'
<1>1. /\ up /\ SendRegister({p}, token, infoSerial)
      /\ UNCHANGED <<up, life, enabled, infoSerial, okSerial, token, status, deletes, chals, trouble>>
  BY DEF Update
<1>2. token \in [Protocols -> Tokens] /\ {p} \in SUBSET Protocols
  BY DEF IInv, TypeOK
<1>3. /\ reqs' \in [Protocols -> SUBSET Requests] /\ last' \in [Protocols -> 0 .. (MaxAge + 1)]
      /\ newToken' \in [Protocols -> BOOLEAN] /\ due' \in [Protocols -> BOOLEAN]
  BY <1>1, <1>2, SerialType, SendTypes
<1>4. TypeOK'
  BY <1>1, <1>3 DEF IInv, TypeOK
<1>5. QED
  BY <1>1, <1>2, <1>4, SerialType, SendInv

LEMMA OnTokenInv ==
    ASSUME IInv, NEW p \in Protocols, NEW t \in Tokens, OnToken(p, t)
    PROVE  IInv'
<1>1. /\ up /\ token' \in [Protocols -> Tokens] /\ chals' \in [Protocols -> SUBSET Tokens]
      /\ UNCHANGED <<up, life, enabled, infoSerial, okSerial, status, deletes, trouble>>
  BY DEF OnToken, IInv, TypeOK
<1>2. CASE SendRegister({p}, token', infoSerial)
  <2>1. {p} \in SUBSET Protocols
    OBVIOUS
  <2>2. /\ reqs' \in [Protocols -> SUBSET Requests] /\ last' \in [Protocols -> 0 .. (MaxAge + 1)]
        /\ newToken' \in [Protocols -> BOOLEAN] /\ due' \in [Protocols -> BOOLEAN]
    BY <1>1, <1>2, <2>1, SerialType, SendTypes
  <2>3. TypeOK'
    BY <1>1, <2>2 DEF IInv, TypeOK
  <2>4. QED
    BY <1>1, <1>2, <2>1, <2>3, SerialType, SendInv
<1>3. CASE newToken' = [newToken EXCEPT ![p] = TRUE] /\ UNCHANGED <<due, last, reqs, master>>
  <2>1. TypeOK'
    BY <1>1, <1>3 DEF IInv, TypeOK
  <2>2. QED
    BY <1>1, <1>3, <2>1, QuietInv DEF IInv
<1>4. QED
  BY <1>2, <1>3 DEF OnToken

LEMMA OnNewInfoInv == ASSUME IInv, OnNewInfo PROVE IInv'
<1>1. /\ up /\ infoSerial < MaxSerial /\ infoSerial' = infoSerial + 1
      /\ UNCHANGED <<up, life, enabled, okSerial, token, status, deletes, chals, trouble>>
  BY DEF OnNewInfo
<1>2. /\ infoSerial' \in 0 .. MaxSerial /\ infoSerial <= infoSerial' /\ infoSerial' <= infoSerial'
      /\ okSerial <= infoSerial'
  BY <1>1, RegistrationAssumption DEF IInv, TypeOK
<1>3. PICK P \in SUBSET Protocols : SendRegister(P, token, infoSerial')
  BY DEF OnNewInfo
<1>4. token \in [Protocols -> Tokens]
  BY DEF IInv, TypeOK
<1>5. /\ reqs' \in [Protocols -> SUBSET Requests] /\ last' \in [Protocols -> 0 .. (MaxAge + 1)]
      /\ newToken' \in [Protocols -> BOOLEAN] /\ due' \in [Protocols -> BOOLEAN]
  BY <1>1, <1>2, <1>3, <1>4, SendTypes
<1>6. TypeOK'
  BY <1>1, <1>2, <1>5 DEF IInv, TypeOK
<1>7. QED
  BY <1>1, <1>2, <1>3, <1>6, SendInv

LEMMA DeletesType ==
    ASSUME IInv, NEW P \in SUBSET Protocols
    PROVE  Deletes(P) \subseteq [life : Lives, protocol : Protocols]
BY DEF Deletes, IInv, TypeOK

LEMMA OnConfigChangeInv ==
    ASSUME IInv, NEW E \in Configs, OnConfigChange(E)
    PROVE  IInv'
<1> DEFINE on == {p \in E : ~enabled[p]}
           off == {p \in Protocols \ E : enabled[p]}
<1>1. /\ up /\ enabled' = [p \in Protocols |-> p \in E] /\ SendRegister(on, token, infoSerial)
      /\ deletes' = deletes \cup Deletes(off)
      /\ status' = [p \in Protocols |-> IF p \in off THEN "none" ELSE status[p]]
      /\ UNCHANGED <<up, life, infoSerial, okSerial, token, chals>>
  BY DEF OnConfigChange
<1>2. on \in SUBSET Protocols /\ off \in SUBSET Protocols /\ token \in [Protocols -> Tokens]
  BY RegistrationAssumption DEF IInv, TypeOK
<1> HIDE DEF on, off
<1>3. trouble' \in 0 .. MaxTrouble
  BY RegistrationAssumption DEF OnConfigChange, Trouble, IInv, TypeOK
<1>4. /\ reqs' \in [Protocols -> SUBSET Requests] /\ last' \in [Protocols -> 0 .. (MaxAge + 1)]
      /\ newToken' \in [Protocols -> BOOLEAN] /\ due' \in [Protocols -> BOOLEAN]
  BY <1>1, <1>2, SerialType, SendTypes
<1>5. /\ deletes' \subseteq [life : Lives, protocol : Protocols]
      /\ status' \in [Protocols -> {"none"} \cup Answers]
      /\ enabled' \in [Protocols -> BOOLEAN]
  BY <1>1, <1>2, DeletesType DEF IInv, TypeOK
<1>6. TypeOK'
  BY <1>1, <1>3, <1>4, <1>5 DEF IInv, TypeOK
<1>7. \A p \in Protocols : status'[p] \in {status[p], "none"}
  BY <1>1
<1>8. QED
  BY <1>1, <1>2, <1>6, <1>7, SerialType, SendInv

\* The end of the process: what is on its way stays so.
LEMMA GoneInv ==
    ASSUME IInv, Gone, trouble' \in 0 .. MaxTrouble,
           deletes' \subseteq [life : Lives, protocol : Protocols]
    PROVE  IInv'
<1>1. /\ up' = FALSE /\ infoSerial' = 0 /\ life' = life /\ master' = master
      /\ reqs' = [p \in Protocols |->
                    {[r EXCEPT !.age = 0] : r \in {q \in reqs[p] : q.stage = "sent"}}]
  BY DEF Gone
<1>2. reqs \in [Protocols -> SUBSET Requests]
  BY DEF IInv, TypeOK
<1>3. ASSUME NEW p \in Protocols, NEW u \in reqs'[p]
      PROVE  u \in Requests /\ u.stage = "sent" /\ u.life <= life
  <2>1. PICK r \in reqs[p] : r.stage = "sent" /\ u = [r EXCEPT !.age = 0]
    BY <1>1, <1>3
  <2>2. r \in Requests /\ r.life <= life
    BY <1>2, Here DEF Lived
  <2>3. u \in Requests /\ u.stage = r.stage /\ u.life = r.life
    BY <2>1, <2>2, RegistrationAssumption DEF Requests
  <2>4. QED
    BY <2>1, <2>2, <2>3
<1>4. reqs' \in [Protocols -> SUBSET Requests]
  BY <1>1, <1>3
<1>5. TypeOK'
  <2>1. /\ infoSerial' \in 0 .. MaxSerial /\ okSerial' \in Int /\ okSerial' <= infoSerial'
    BY RegistrationAssumption DEF Gone
  <2>2. last' \in [Protocols -> 0 .. (MaxAge + 1)]
    BY RegistrationAssumption DEF Gone
  <2>3. /\ up' \in BOOLEAN /\ life' \in Lives
        /\ enabled' \in [Protocols -> BOOLEAN] /\ due' \in [Protocols -> BOOLEAN]
        /\ newToken' \in [Protocols -> BOOLEAN]
    BY DEF Gone, IInv, TypeOK
  <2>4. /\ token' \in [Protocols -> Tokens] /\ chals' \in [Protocols -> SUBSET Tokens]
        /\ status' \in [Protocols -> {"none"} \cup Answers]
    BY RegistrationAssumption DEF Gone, Tokens, NoToken
  <2>5. QED
    BY <1>4, <2>1, <2>2, <2>3, <2>4 DEF TypeOK
<1>6. AddrsKnown(master)' /\ IsList(master') /\ M!Agrees(master')
  BY <1>1 DEF IInv, AddrsKnown
<1>7. \A p \in Protocols :
        (Lived(p) /\ OneOfAge(p) /\ Noted(p) /\ Accepted(master, p) /\ StatusTrue(master, p))'
  BY <1>1, <1>3 DEF Lived, OneOfAge, Noted, Accepted, StatusTrue
<1>8. QED
  BY <1>5, <1>6, <1>7 DEF IInv

LEMMA EndInv == ASSUME IInv, OnShutdown \/ Crash PROVE IInv'
<1>1. Gone /\ trouble' \in 0 .. MaxTrouble
  BY RegistrationAssumption DEF OnShutdown, Crash, Trouble, IInv, TypeOK
<1>2. deletes' \subseteq [life : Lives, protocol : Protocols]
  BY DeletesType DEF OnShutdown, Crash, IInv, TypeOK
<1>3. QED
  BY <1>1, <1>2, GoneInv

\* A new secret: no request and no entry is of this life.
LEMMA RestartInv == ASSUME IInv, Restart PROVE IInv'
<1>1. /\ ~up /\ life < MaxLife /\ up' = TRUE /\ life' = life + 1 /\ life \in Lives
      /\ UNCHANGED <<enabled, infoSerial, okSerial, due, token, newToken,
                     status, last, reqs, deletes, chals, master, trouble>>
  BY DEF Restart, sharedVars, netVars, IInv, TypeOK
<1>2. life' \in Lives /\ life \in Int
  BY <1>1, RegistrationAssumption DEF Lives
<1>3. TypeOK'
  BY <1>1, <1>2 DEF IInv, TypeOK
<1>4. \A a \in DOMAIN master.addresses : /\ master.addresses[a].secret <= life
                                         /\ master.addresses[a].secret \in Int
  BY DEF IInv, AddrsKnown, M!Agrees, M!AddrInfos, Lives
<1>5. AddrsKnown(master)' /\ \A p \in Protocols : ~Newest(master, p)'
  <2>1. \A a \in DOMAIN master.addresses : /\ master.addresses[a].secret <= life'
                                           /\ master.addresses[a].secret # life'
    BY <1>1, <1>2, <1>4
  <2>2. QED
    BY <1>1, <2>1 DEF AddrsKnown, Newest
<1>6. \A p \in Protocols : \A r \in reqs[p] :
        r.life <= life' /\ r.life # life' /\ r.stage = "sent"
  <2> TAKE p \in Protocols
  <2> TAKE r \in reqs[p]
  <2>1. r.life <= life /\ r.stage = "sent" /\ r \in Requests
    BY <1>1, Here DEF Lived
  <2>2. r.life \in Int
    BY <2>1 DEF Requests, Lives
  <2>3. QED
    BY <1>1, <1>2, <2>1, <2>2
<1>7. \A p \in Protocols :
        (Lived(p) /\ OneOfAge(p) /\ Noted(p) /\ Accepted(master, p) /\ StatusTrue(master, p))'
  BY <1>1, <1>5, <1>6 DEF Lived, OneOfAge, Noted, Accepted, StatusTrue
<1>8. IsList(master') /\ M!Agrees(master')
  BY <1>1 DEF IInv
<1>9. QED
  BY <1>3, <1>5, <1>7, <1>8 DEF IInv

LEMMA AgedType == \A t \in Tokens : Aged(t) \in Tokens
BY DEF Tokens, NoToken, Aged

\* A new seed only makes the tokens older.
LEMMA ReseedInv == ASSUME IInv, Reseed PROVE IInv'
<1>1. /\ token' = [p \in Protocols |-> Aged(token[p])]
      /\ reqs' = [p \in Protocols |-> {[r EXCEPT !.token = Aged(@)] : r \in reqs[p]}]
      /\ chals' = [p \in Protocols |-> {Aged(t) : t \in chals[p]}]
      /\ UNCHANGED <<up, life, enabled, infoSerial, okSerial, due, newToken, status, last,
                     deletes, master>>
  BY DEF Reseed, sharedVars
<1>2. trouble' \in 0 .. MaxTrouble
  BY RegistrationAssumption DEF Reseed, Trouble, IInv, TypeOK
<1>3. ASSUME NEW p \in Protocols, NEW r \in reqs[p]
      PROVE  LET u == [r EXCEPT !.token = Aged(@)]
             IN  /\ u \in Requests /\ u.life = r.life /\ u.age = r.age /\ u.serial = r.serial
                 /\ u.stage = r.stage
  <2>1. r \in Requests
    BY Here
  <2>2. Aged(r.token) \in Tokens
    BY <2>1, AgedType DEF Requests
  <2>3. QED
    BY <2>1, <2>2 DEF Requests
<1>4. ASSUME NEW p \in Protocols, NEW u \in reqs'[p]
      PROVE  \E r \in reqs[p] : /\ u \in Requests /\ u.life = r.life /\ u.age = r.age
                                /\ u.serial = r.serial /\ u.stage = r.stage
                                /\ u = [r EXCEPT !.token = Aged(@)]
  <2>1. PICK r \in reqs[p] : u = [r EXCEPT !.token = Aged(@)]
    BY <1>1, <1>4
  <2>2. QED
    BY <1>3, <2>1
<1>5. TypeOK'
  <2>1. token' \in [Protocols -> Tokens]
    BY <1>1, AgedType DEF IInv, TypeOK
  <2>2. chals' \in [Protocols -> SUBSET Tokens]
    BY <1>1, AgedType DEF IInv, TypeOK
  <2>3. reqs' \in [Protocols -> SUBSET Requests]
    BY <1>1, <1>4
  <2>4. QED
    BY <1>1, <1>2, <2>1, <2>2, <2>3 DEF IInv, TypeOK
<1>6. IsList(master') /\ M!Agrees(master') /\ AddrsKnown(master)'
  BY <1>1 DEF IInv, AddrsKnown
<1>7. ASSUME NEW p \in Protocols
      PROVE  (Lived(p) /\ OneOfAge(p) /\ Noted(p) /\ Accepted(master, p) /\ StatusTrue(master, p))'
  <2>1. Lived(p)' /\ Noted(p)'
    BY <1>1, <1>4, Here DEF Lived, Noted
  <2>2. Accepted(master, p)' /\ StatusTrue(master, p)'
    BY <1>1, <1>4, Here DEF Accepted, StatusTrue, Newest
  <2>3. OneOfAge(p)'
    <3> SUFFICES ASSUME up, NEW u \in reqs'[p], NEW v \in reqs'[p], u.life = life, v.life = life,
                        u.age = v.age
                 PROVE  u = v
      BY <1>1 DEF OneOfAge
    <3>1. PICK q \in reqs[p] : u.life = q.life /\ u.age = q.age /\ u = [q EXCEPT !.token = Aged(@)]
      BY <1>4
    <3>2. PICK r \in reqs[p] : v.life = r.life /\ v.age = r.age /\ v = [r EXCEPT !.token = Aged(@)]
      BY <1>4
    <3>3. q = r
      BY <3>1, <3>2, Here DEF OneOfAge
    <3>4. QED
      BY <3>1, <3>2, <3>3
  <2>4. QED
    BY <2>1, <2>2, <2>3
<1>8. QED
  BY <1>5, <1>6, <1>7 DEF IInv

-----------------------------------------------------------------------------
(* The theorems.                                                            *)

LEMMA NextInv == ASSUME IInv, Next PROVE IInv'
<1>1. CASE \E p \in Protocols :
             \/ Update(p) \/ Elapse(p)
             \/ \E t \in Tokens : OnToken(p, t) \/ LoseChallenge(p, t)
             \/ \E r \in reqs[p] : \/ HandleRegister(p, r) \/ Fail(p, r)
                                   \/ NoteStatus(p, r) \/ NoteSerial(p, r)
  BY <1>1, UpdateInv, ElapseInv, OnTokenInv, LoseInv, HandleRegisterInv, LeaveInv, NoteStatusInv
<1>2. CASE OnNewInfo \/ OnShutdown \/ Crash \/ Restart \/ MasterRestart \/ Reseed
  BY <1>2, OnNewInfoInv, EndInv, RestartInv, MasterRestartInv, ReseedInv
<1>3. CASE \E E \in Configs : OnConfigChange(E)
  BY <1>3, OnConfigChangeInv
<1>4. CASE \E d \in deletes : HandleDelete(d) \/ LoseDelete(d)
  BY <1>4, HandleDeleteInv, LoseInv
<1>5. CASE \E a \in Silent(master) : Writeout({a})
  BY <1>5, WriteoutInv
<1>6. QED
  BY <1>1, <1>2, <1>3, <1>4, <1>5 DEF Next

LEMMA StutterInv == ASSUME IInv, UNCHANGED vars PROVE IInv'
<1>1. TypeOK'
  BY DEF vars, localVars, sharedVars, netVars, IInv, TypeOK
<1>2. QED
  BY <1>1, QuietInv DEF vars, localVars, sharedVars, netVars, IInv

\* The inductive invariant of the registration.
THEOREM Invariance == Spec => []IInv
<1>1. Init => IInv
  BY InitInv
<1>2. IInv /\ [Next]_vars => IInv'
  BY NextInv, StutterInv
<1>3. QED
  BY <1>1, <1>2, PTL DEF Spec

\* The two maps of the master (main.rs, Servers) lead to each other: nothing
\* its code unwraps is missing.
THEOREM ListsAlwaysAgree == Spec => []ListsAgree
<1>1. IInv => ListsAgree
  BY DEF IInv, ListsAgree
<1>2. QED
  BY <1>1, Invariance, PTL

\* When the newest request of a protocol has been accepted and answered, the
\* status says so (register.cpp): the deletion at shutdown depends on it.
THEOREM StatusAlwaysOfNewest == Spec => []StatusOfNewest
<1>1. IInv => StatusOfNewest
  BY DEF IInv, StatusTrue, Newest, StatusOfNewest
<1>2. QED
  BY <1>1, Invariance, PTL

LEMMA NextAdvances ==
    ASSUME IInv, Next
    PROVE  \A s \in DOMAIN master.servers \cap DOMAIN master'.servers :
             master.servers[s].serial <= master'.servers[s].serial
<1>1. \A s \in DOMAIN master.servers : master.servers[s].serial \in Int
  BY DEF IInv, M!Agrees, M!ServerInfos
<1>2. IsList(master) /\ M!Agrees(master)
  BY DEF IInv
<1>3. CASE master' = master
  BY <1>1, <1>3
<1>4. CASE \E P : master' = Older(master, P)
  BY <1>1, <1>2, <1>4, OlderAgrees
<1>5. CASE \E p \in Protocols : \E r \in reqs[p] : HandleRegister(p, r)
  <2>0. PICK p \in Protocols : \E r \in reqs[p] : HandleRegister(p, r)
    BY <1>5
  <2>1. PICK r \in reqs[p] : HandleRegister(p, r)
    BY <2>0
  <2> DEFINE behind == IF r.life # life THEN MaxBehind
                       ELSE IF r.age < MaxBehind THEN r.age ELSE MaxBehind
  <2>2. master' = master \/ master' = M!Added(master, p, r.life, r.serial, behind)
    BY <2>1 DEF HandleRegister
  <2>3. r \in Requests
    BY Here
  <2>4. behind \in 0 .. MaxBehind
    BY <2>3 DEF Requests, MaxBehind
  <2> HIDE DEF behind
  <2>5. r.life \in Lives /\ r.serial \in 0 .. MaxSerial
    BY <2>3 DEF Requests
  <2>6. CASE master' = M!Added(master, p, r.life, r.serial, behind)
    <3>1. \A s \in DOMAIN master.servers \cap DOMAIN M!Added(master, p, r.life, r.serial, behind).servers :
             master.servers[s].serial
               <= M!Added(master, p, r.life, r.serial, behind).servers[s].serial
      BY <1>2, <2>4, <2>5, AddedAgrees
    <3>2. QED
      BY <2>6, <3>1
  <2>7. QED
    BY <1>3, <2>2, <2>6
<1>6. CASE \E d \in deletes : HandleDelete(d)
  BY <1>1, <1>2, <1>6, RemovedAgrees DEF HandleDelete
<1>7. CASE \E a \in Silent(master) : Writeout({a})
  BY <1>1, <1>2, <1>7, PrunedAgrees DEF Writeout
<1>8. CASE MasterRestart
  BY <1>8, NoServersAgree DEF MasterRestart
<1>9. CASE \/ \E p \in Protocols : \/ Update(p) \/ \E t \in Tokens : OnToken(p, t)
           \/ OnNewInfo \/ \E E \in Configs : OnConfigChange(E)
  BY <1>3, <1>4, <1>9 DEF Update, OnToken, OnNewInfo, OnConfigChange, SendRegister
<1>10. CASE \/ \E p \in Protocols :
                \/ Elapse(p) \/ \E t \in Tokens : LoseChallenge(p, t)
                \/ \E r \in reqs[p] : Fail(p, r) \/ NoteStatus(p, r) \/ NoteSerial(p, r)
            \/ \E d \in deletes : LoseDelete(d)
            \/ OnShutdown \/ Crash \/ Restart \/ Reseed
  BY <1>3, <1>10 DEF Elapse, LoseChallenge, Fail, NoteStatus, NoteSerial, LoseDelete, OnShutdown,
                     Crash, Gone, Restart, Reseed
<1>11. QED
  BY <1>5, <1>6, <1>7, <1>8, <1>9, <1>10 DEF Next

\* While a server is listed its info never gets older, in whatever order its
\* requests arrive (main.rs, Servers::add).
THEOREM InfoAlwaysAdvances == Spec => InfoAdvances
<1>1. IInv /\ [Next]_vars =>
        [\A s \in DOMAIN master.servers \cap DOMAIN master'.servers :
            master.servers[s].serial <= master'.servers[s].serial]_vars
  BY NextAdvances
<1>2. QED
  BY <1>1, Invariance, PTL DEF Spec, InfoAdvances
=============================================================================
