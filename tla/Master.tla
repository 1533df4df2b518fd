------------------------------- MODULE Master -------------------------------
(***************************************************************************)
(* What the master server (mastersrv/src/main.rs, struct Servers) knows:   *)
(* addresses leads from an address to the secret of the server that        *)
(* registered it, servers from a secret to the addresses and the serial    *)
(* number of the newest info.  Both are maps that have to agree: the code  *)
(* unwraps what it looks up in one by what it found in the other.          *)
(*                                                                         *)
(* An entry of addresses also has a ping time.  behind stands for its age, *)
(* counted in registrations the server has sent for the address since the  *)
(* one that was heard.  Entries are replaced by newer ones only, since the *)
(* clock of the master does not go back: the result Obsolete is that of    *)
(* lists merged from other masters, which are not part of the model.       *)
(***************************************************************************)
EXTENDS Integers, Functions

CONSTANTS Addrs, Secrets, MaxSerial, MaxBehind

Without(f, k) == Restrict(f, DOMAIN f \ {k})
Put(f, k, v) == [x \in DOMAIN f \cup {k} |-> IF x = k THEN v ELSE f[x]]

AddrInfos == [secret : Secrets, behind : 0..MaxBehind]
ServerInfos == [addresses : SUBSET Addrs, serial : 0..MaxSerial]

NoServers == [addresses |-> Restrict(<<>>, {}), servers |-> Restrict(<<>>, {})]

(* Mutant: a server without addresses is kept. *)
Unlinked_KeepEmpty(m, a) ==
    LET s == m.addresses[a].secret
    IN [m.servers EXCEPT ![s].addresses = @ \ {a}]

(* The address a leaves the server it belonged to. *)
Unlinked(m, a) ==
    LET s == m.addresses[a].secret
        rest == m.servers[s].addresses \ {a}
    IN IF rest = {} THEN Without(m.servers, s)
       ELSE [m.servers EXCEPT ![s].addresses = rest]

(* Mutant: the info of whatever request comes last. *)
Added_LastInfo(m, a, s, serial, behind) ==
    LET known == a \in DOMAIN m.addresses
        insert == ~known \/ m.addresses[a].secret # s
        servers == IF known /\ insert THEN Unlinked(m, a) ELSE m.servers
        old == IF s \in DOMAIN servers THEN servers[s].addresses ELSE {}
    IN [addresses |-> Put(m.addresses, a, [secret |-> s, behind |-> behind]),
        servers |-> Put(servers, s,
            [addresses |-> old \cup (IF insert THEN {a} ELSE {}),
             serial |-> serial])]

(* Servers::add when it gets as far as storing the entry. *)
Added(m, a, s, serial, behind) ==
    LET known == a \in DOMAIN m.addresses
        insert == ~known \/ m.addresses[a].secret # s
        servers == IF known /\ insert THEN Unlinked(m, a) ELSE m.servers
        old == IF s \in DOMAIN servers THEN servers[s]
               ELSE [addresses |-> {}, serial |-> serial]
    IN [addresses |-> Put(m.addresses, a, [secret |-> s, behind |-> behind]),
        servers |-> Put(servers, s,
            [addresses |-> old.addresses \cup (IF insert THEN {a} ELSE {}),
             serial |-> IF serial > old.serial THEN serial ELSE old.serial])]

(* Servers::add asks for the info when it does not have it. *)
NeedsInfo(m, s, serial) ==
    s \notin DOMAIN m.servers \/ serial > m.servers[s].serial

(* Servers::remove. *)
Removed(m, a, s) ==
    IF a \in DOMAIN m.addresses /\ m.addresses[a].secret = s
    THEN [addresses |-> Without(m.addresses, a), servers |-> Unlinked(m, a)]
    ELSE m

(* Servers::prune_before, the addresses A being those that are too old. *)
Pruned(m, A) ==
    [addresses |-> Restrict(m.addresses, DOMAIN m.addresses \ A),
     servers |-> [s \in {t \in DOMAIN m.servers : ~(m.servers[t].addresses \subseteq A)} |->
                    [m.servers[s] EXCEPT !.addresses = @ \ A]]]

(* The two maps lead to each other, and no server is without an address.   *)
Agrees(m) ==
    /\ DOMAIN m.addresses \subseteq Addrs /\ DOMAIN m.servers \subseteq Secrets
    /\ \A a \in DOMAIN m.addresses :
         /\ m.addresses[a] \in AddrInfos
         /\ m.addresses[a].secret \in DOMAIN m.servers
    /\ \A s \in DOMAIN m.servers :
         /\ m.servers[s] \in ServerInfos
         /\ m.servers[s].addresses # {}
         /\ m.servers[s].addresses =
              {a \in DOMAIN m.addresses : m.addresses[a].secret = s}
=============================================================================
