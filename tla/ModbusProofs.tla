---------------------------- MODULE ModbusProofs ----------------------------
(***************************************************************************)
(* The safety properties of Modbus, for any set of clients, any table      *)
(* size, threshold, length of a ban and backlog.                           *)
(***************************************************************************)
EXTENDS Modbus, WellFoundedInduction, TLAPS

-----------------------------------------------------------------------------
(* The client that is served has an entry from its first illegal request   *)
(* on; until then nothing was counted in this connection.                  *)
CountNeedsEntry ==
  serving \in Clients /\ SlotsOf(serving) = {} => illegal = 0

(* An announced ban is in the table, with at least as many seconds left as *)
(* were announced, unless its entry was given away.                        *)
BanHolds ==
  \A ip \in Clients :
    announced[ip] > 0 =>
      \/ ip \in evicted
      \/ \E s \in SlotsOf(ip) : g_blacklist[s].ban_left >= announced[ip]

IInv ==
  /\ TypeOK
  /\ OneEntryPerClient
  /\ BanHolds
  /\ CountIsThisConnections
  /\ CountNeedsEntry

-----------------------------------------------------------------------------
(* Slots and counts. *)

(* The first slot of a set is one of its slots. *)
LEMMA FirstIsMember ==
  ASSUME NEW S, S \subseteq Slots, S # {}
  PROVE  First(S) \in S
<1>1. S \subseteq Nat
  BY ModbusAssumption DEF Slots
<1>2. \E s \in S : \A t \in S : ~ (<<t, s>> \in OpToRel(<, Nat))
  BY <1>1, WFMin, NatLessThanWellFounded, Zenon
<1>3. PICK s \in S : \A t \in S : ~ (<<t, s>> \in OpToRel(<, Nat))
  BY <1>2
<1>4. \A t \in S : s <= t
  <2> SUFFICES ASSUME NEW t \in S, ~(s <= t) PROVE FALSE
    OBVIOUS
  <2>1. <<t, s>> \in Nat \X Nat /\ t < s
    BY <1>1
  <2>2. <<t, s>> \in OpToRel(<, Nat)
    BY <2>1 DEF OpToRel
  <2> QED BY <1>3, <2>2
<1> QED BY <1>4 DEF First

(* An address is counted in its own entry if it has one, and else in a     *)
(* slot that is unused, or the first one.                                  *)
LEMMA SlotFacts ==
  ASSUME TypeOK, NEW ip \in Clients
  PROVE  /\ SlotFor(ip) \in Slots
         /\ SlotsOf(ip) # {} => SlotFor(ip) \in SlotsOf(ip)
<1>1. SlotsOf(ip) \subseteq Slots /\ SlotsOf(NoClient) \subseteq Slots
  BY DEF SlotsOf
<1>2. CASE SlotsOf(ip) # {}
  <2>1. First(SlotsOf(ip)) \in SlotsOf(ip)
    BY <1>1, <1>2, FirstIsMember
  <2> QED BY <1>1, <1>2, <2>1 DEF SlotFor
<1>3. CASE SlotsOf(ip) = {} /\ SlotsOf(NoClient) # {}
  <2>1. First(SlotsOf(NoClient)) \in SlotsOf(NoClient)
    BY <1>1, <1>3, FirstIsMember
  <2> QED BY <1>1, <1>3, <2>1 DEF SlotFor
<1>4. CASE SlotsOf(ip) = {} /\ SlotsOf(NoClient) = {}
  <2>1. 1 \in Slots
    BY ModbusAssumption DEF Slots
  <2> QED BY <1>4, <2>1 DEF SlotFor
<1> QED BY <1>2, <1>3, <1>4

(* Entries are records of three fields. *)
LEMMA EntryExcept ==
  ASSUME NEW e \in Entries, NEW x, NEW y
  PROVE  /\ [e EXCEPT !.err_count = x, !.ban_left = y]
              = [ip_addr |-> e.ip_addr, err_count |-> x, ban_left |-> y]
         /\ [e EXCEPT !.err_count = x]
              = [ip_addr |-> e.ip_addr, err_count |-> x,
                 ban_left |-> e.ban_left]
<1>1. e = [ip_addr |-> e.ip_addr, err_count |-> e.err_count,
           ban_left |-> e.ban_left]
  BY DEF Entries
<1>2. [e EXCEPT !.err_count = x]
        = [ip_addr |-> e.ip_addr, err_count |-> x, ban_left |-> e.ban_left]
  BY <1>1
<1>3. [e EXCEPT !.err_count = x, !.ban_left = y]
        = [ip_addr |-> e.ip_addr, err_count |-> x, ban_left |-> y]
  <2> DEFINE f == [e EXCEPT !.err_count = x]
  <2>1. [e EXCEPT !.err_count = x, !.ban_left = y] = [f EXCEPT !.ban_left = y]
    OBVIOUS
  <2>2. f = [ip_addr |-> e.ip_addr, err_count |-> x, ban_left |-> e.ban_left]
    BY <1>2
  <2> HIDE DEF f
  <2>3. [f EXCEPT !.ban_left = y]
          = [ip_addr |-> e.ip_addr, err_count |-> x, ban_left |-> y]
    BY <2>2
  <2> QED BY <2>1, <2>3, Zenon
<1> QED BY <1>2, <1>3

(* What the entry of an address holds before a request is counted in it.   *)
LEMMA EntryFacts ==
  ASSUME TypeOK, NEW ip \in Clients
  PROVE  /\ EntryFor(ip) \in Entries
         /\ EntryFor(ip).ip_addr = ip
         /\ SlotsOf(ip) # {} => EntryFor(ip) = g_blacklist[SlotFor(ip)]
         /\ SlotsOf(ip) = {} => EntryFor(ip).err_count = 0
<1>1. SlotFor(ip) \in Slots /\ g_blacklist[SlotFor(ip)] \in Entries
  BY SlotFacts DEF TypeOK
<1>2. [Unused EXCEPT !.ip_addr = ip]
        = [ip_addr |-> ip, err_count |-> 0, ban_left |-> 0]
  BY DEF Unused
<1>3. [ip_addr |-> ip, err_count |-> 0, ban_left |-> 0] \in Entries
  BY ModbusAssumption DEF Entries
<1>4. CASE SlotsOf(ip) # {}
  <2>1. g_blacklist[SlotFor(ip)].ip_addr = ip
    BY <1>4, SlotFacts DEF SlotsOf
  <2> QED BY <1>1, <1>4, <2>1 DEF EntryFor
<1>5. CASE SlotsOf(ip) = {}
  <2>1. g_blacklist[SlotFor(ip)].ip_addr # ip
    BY <1>1, <1>5 DEF SlotsOf
  <2> QED BY <1>2, <1>3, <1>5, <2>1 DEF EntryFor
<1> QED BY <1>4, <1>5

(* Counting up modulo d. *)
LEMMA ModSucc ==
  ASSUME NEW n \in Nat, NEW d \in Nat \ {0}
  PROVE  /\ (n % d) + 1 < d => (n + 1) % d = (n % d) + 1
         /\ (n % d) + 1 >= d => (n + 1) % d = 0
<1> DEFINE a == n \div d
           b == (n + 1) \div d
           r == n % d
           s == (n + 1) % d
<1>1. /\ a \in Nat /\ r \in 0 .. d - 1 /\ n = d * a + r
      /\ b \in Nat /\ s \in 0 .. d - 1 /\ n + 1 = d * b + s
  OBVIOUS
<1> HIDE DEF a, b, r, s
<1>2. d * (b - a) = 1 + (r - s)
  BY <1>1
<1>3. b - a = 0 \/ b - a = 1
  <2>1. CASE b - a >= 2
    <3>1. d * (b - a) >= d * 2
      BY <1>1, <2>1
    <3> QED BY <1>1, <1>2, <3>1
  <2>2. CASE b - a <= -1
    <3>1. d * (b - a) <= d * (-1)
      BY <1>1, <2>2
    <3> QED BY <1>1, <1>2, <3>1
  <2> QED BY <1>1, <2>1, <2>2
<1>4. s = r + 1 \/ (s = 0 /\ r = d - 1)
  <2>1. CASE b - a = 0
    BY <1>1, <1>2, <2>1
  <2>2. CASE b - a = 1
    BY <1>1, <1>2, <2>2
  <2> QED BY <1>3, <2>1, <2>2
<1>5. /\ r + 1 < d => s = r + 1
      /\ r + 1 >= d => s = 0
  BY <1>1, <1>4
<1> QED BY <1>5 DEF r, s

(* Counting one more request modulo the threshold. *)
LEMMA CountMod ==
  ASSUME NEW n \in Nat, NEW m \in Nat, m = n % BLACKLIST_THRESHOLD
  PROVE  (n + 1) % BLACKLIST_THRESHOLD
           = IF m + 1 >= BLACKLIST_THRESHOLD THEN 0 ELSE m + 1
<1> DEFINE d == BLACKLIST_THRESHOLD
<1>1. d \in Nat \ {0}
  BY ModbusAssumption
<1> HIDE DEF d
<1>2. /\ (n % d) + 1 < d => (n + 1) % d = (n % d) + 1
      /\ (n % d) + 1 >= d => (n + 1) % d = 0
  BY <1>1, ModSucc
<1>3. m = n % d
  BY DEF d
<1>4. CASE m + 1 >= d
  BY <1>2, <1>3, <1>4 DEF d
<1>5. CASE ~(m + 1 >= d)
  <2>1. m + 1 < d
    BY <1>1, <1>5
  <2>2. (n + 1) % d = m + 1
    BY <1>2, <1>3, <2>1
  <2> QED BY <1>5, <2>2 DEF d
<1> QED BY <1>4, <1>5

(* The count of the client that is served is the number of its illegal     *)
(* requests in this connection, modulo the threshold.                      *)
LEMMA CountFacts ==
  ASSUME IInv, serving \in Clients
  PROVE  EntryFor(serving).err_count = illegal % BLACKLIST_THRESHOLD
<1>1. CASE SlotsOf(serving) # {}
  <2>1. SlotFor(serving) \in SlotsOf(serving)
    BY <1>1, SlotFacts DEF IInv
  <2>2. /\ SlotFor(serving) \in Slots
        /\ g_blacklist[SlotFor(serving)].ip_addr = serving
    BY <2>1 DEF SlotsOf
  <2>3. EntryFor(serving) = g_blacklist[SlotFor(serving)]
    BY <1>1, EntryFacts DEF IInv
  <2> QED BY <2>2, <2>3 DEF IInv, CountIsThisConnections
<1>2. CASE SlotsOf(serving) = {}
  <2>1. illegal = 0
    BY <1>2 DEF IInv, CountNeedsEntry
  <2>2. EntryFor(serving).err_count = 0
    BY <1>2, EntryFacts DEF IInv
  <2> QED BY <2>1, <2>2, ModbusAssumption
<1> QED BY <1>1, <1>2

-----------------------------------------------------------------------------
(* The invariant holds when the server starts with an empty table, whether *)
(* or not the packet filter has rules left from an earlier process.        *)

LEMMA EmptyTable ==
  ASSUME IInv \/ Init,
         g_blacklist' = [s \in Slots |-> Unused],
         backlog' = << >>, serving' = NoClient, illegal' = 0,
         announced' = [ip \in Clients |-> 0], evicted' = {},
         rules' \in {rules, {}}
  PROVE  IInv'
<1>1. rules \subseteq Clients
  BY DEF IInv, TypeOK, Init
<1>2. TypeOK'
  <2>1. Unused \in Entries
    BY ModbusAssumption DEF Unused, Entries
  <2>2. << >> \in Seq(Clients) /\ Len(<< >>) = 0
    OBVIOUS
  <2>3. 0 <= Backlog /\ 0 \in 0 .. MaxIllegal /\ 0 \in 0 .. BLACKLIST_BAN_SEC
    BY ModbusAssumption
  <2> QED BY <1>1, <2>1, <2>2, <2>3 DEF TypeOK
<1>3. \A ip \in Clients : SlotsOf(ip)' = {}
  BY ModbusAssumption DEF SlotsOf, Unused
<1>4. OneEntryPerClient' /\ BanHolds'
  BY <1>3 DEF OneEntryPerClient, BanHolds
<1>5. CountIsThisConnections' /\ CountNeedsEntry'
  BY ModbusAssumption DEF CountIsThisConnections, CountNeedsEntry
<1> QED BY <1>2, <1>4, <1>5 DEF IInv

LEMMA InitInv == Init => IInv
<1> SUFFICES ASSUME Init PROVE IInv
  OBVIOUS
<1>1. TypeOK
  <2>1. Unused \in Entries
    BY ModbusAssumption DEF Unused, Entries
  <2>2. << >> \in Seq(Clients) /\ Len(<< >>) = 0
    OBVIOUS
  <2>3. 0 <= Backlog /\ 0 \in 0 .. MaxIllegal /\ 0 \in 0 .. BLACKLIST_BAN_SEC
    BY ModbusAssumption
  <2> QED BY <2>1, <2>2, <2>3 DEF Init, TypeOK
<1>2. \A ip \in Clients : SlotsOf(ip) = {} /\ announced[ip] = 0
  BY ModbusAssumption DEF Init, SlotsOf, Unused
<1>3. OneEntryPerClient /\ BanHolds
  BY <1>2 DEF OneEntryPerClient, BanHolds
<1>4. CountIsThisConnections /\ CountNeedsEntry
  BY ModbusAssumption DEF Init, CountIsThisConnections, CountNeedsEntry
<1> QED BY <1>1, <1>3, <1>4 DEF IInv

LEMMA RestartKeepsInv == IInv /\ (Restart \/ Reboot) => IInv'
<1> SUFFICES ASSUME IInv, Restart \/ Reboot PROVE IInv'
  OBVIOUS
<1>1. /\ g_blacklist' = [s \in Slots |-> Unused]
      /\ backlog' = << >> /\ serving' = NoClient /\ illegal' = 0
      /\ announced' = [ip \in Clients |-> 0] /\ evicted' = {}
      /\ rules' \in {rules, {}}
  BY DEF Restart, Reboot
<1> QED BY <1>1, EmptyTable

-----------------------------------------------------------------------------
(* Connections. *)

(* Only the queue of connections changes. *)
LEMMA QueueKeepsInv ==
  ASSUME IInv, backlog' \in Seq(Clients), Len(backlog') <= Backlog,
         UNCHANGED <<g_blacklist, rules, serving, illegal, bans>>
  PROVE  IInv'
<1>1. TypeOK' /\ UNCHANGED <<announced, evicted>>
  BY DEF IInv, TypeOK, bans
<1>2. \A ip : SlotsOf(ip)' = SlotsOf(ip)
  BY DEF SlotsOf
<1>3. OneEntryPerClient' /\ BanHolds'
  BY <1>1, <1>2 DEF IInv, OneEntryPerClient, BanHolds
<1>4. CountIsThisConnections' /\ CountNeedsEntry'
  BY DEF IInv, CountIsThisConnections, CountNeedsEntry, SlotsOf
<1> QED BY <1>1, <1>3, <1>4 DEF IInv

LEMMA ConnectKeepsInv ==
  ASSUME NEW ip \in Clients PROVE IInv /\ Connect(ip) => IInv'
<1> SUFFICES ASSUME IInv, Connect(ip) PROVE IInv'
  OBVIOUS
<1>1. backlog' \in Seq(Clients) /\ Len(backlog') <= Backlog
  BY ModbusAssumption DEF IInv, TypeOK, Connect
<1> QED BY <1>1, QueueKeepsInv DEF Connect

(* What every accept takes from the queue. *)
LEMMA AcceptFacts ==
  ASSUME TypeOK, Accept
  PROVE  /\ Head(backlog) \in Clients
         /\ backlog' \in Seq(Clients) /\ Len(backlog') <= Backlog
<1>1. backlog \in Seq(Clients) /\ backlog # << >> /\ Len(backlog) <= Backlog
  BY DEF TypeOK, Accept
<1>2. /\ Head(backlog) \in Clients /\ Tail(backlog) \in Seq(Clients)
      /\ Len(Tail(backlog)) = Len(backlog) - 1
  BY <1>1
<1>3. Len(backlog) \in Nat
  BY <1>1
<1> QED BY <1>1, <1>2, <1>3, ModbusAssumption DEF Accept

LEMMA AcceptBannedKeepsInv == IInv /\ AcceptBanned => IInv'
<1> SUFFICES ASSUME IInv, AcceptBanned PROVE IInv'
  OBVIOUS
<1>1. backlog' \in Seq(Clients) /\ Len(backlog') <= Backlog
  BY AcceptFacts DEF IInv, AcceptBanned
<1> QED BY <1>1, QueueKeepsInv DEF AcceptBanned

(* What serving a client does to each entry. *)
LEMMA AcceptServedEntries ==
  ASSUME IInv, AcceptServed, NEW s \in Slots
  PROVE  /\ g_blacklist'[s] \in Entries
         /\ g_blacklist'[s].ip_addr = g_blacklist[s].ip_addr
         /\ g_blacklist'[s].ban_left > 0 => g_blacklist[s].ban_left > 0
         /\ IF g_blacklist[s].ip_addr = Head(backlog)
              THEN g_blacklist'[s].err_count = 0
              ELSE g_blacklist'[s] = g_blacklist[s]
<1> DEFINE ip == Head(backlog)
<1>2. g_blacklist' =
        [t \in Slots |->
           IF t \in SlotsOf(ip)
             THEN [g_blacklist[t] EXCEPT !.err_count = 0, !.ban_left = 0]
             ELSE g_blacklist[t]]
  BY DEF AcceptServed
<1> HIDE DEF ip
<1>1. g_blacklist[s] \in Entries
  BY DEF IInv, TypeOK
<1>3. CASE s \in SlotsOf(ip)
  <2>1. g_blacklist'[s]
          = [g_blacklist[s] EXCEPT !.err_count = 0, !.ban_left = 0]
    BY <1>2, <1>3
  <2>2. 0 \in 0 .. BLACKLIST_THRESHOLD - 1 /\ 0 \in 0 .. BLACKLIST_BAN_SEC
    BY ModbusAssumption
  <2>3. g_blacklist'[s] = [ip_addr   |-> g_blacklist[s].ip_addr,
                           err_count |-> 0, ban_left |-> 0]
    <3>1. [g_blacklist[s] EXCEPT !.err_count = 0, !.ban_left = 0]
            = [ip_addr   |-> g_blacklist[s].ip_addr,
               err_count |-> 0, ban_left |-> 0]
      BY <1>1, EntryExcept, ZenonT(30)
    <3> QED BY <2>1, <3>1, Zenon
  <2>4. g_blacklist[s].ip_addr \in Clients \cup {NoClient}
    BY <1>1 DEF Entries
  <2>5. g_blacklist'[s] \in Entries
    BY <2>2, <2>3, <2>4 DEF Entries
  <2>6. /\ g_blacklist'[s].ip_addr = g_blacklist[s].ip_addr
        /\ g_blacklist'[s].err_count = 0 /\ g_blacklist'[s].ban_left = 0
    BY <2>3
  <2>7. g_blacklist[s].ip_addr = Head(backlog)
    BY <1>3 DEF SlotsOf, ip
  <2> QED BY <2>5, <2>6, <2>7
<1>4. CASE s \notin SlotsOf(ip)
  <2>1. g_blacklist'[s] = g_blacklist[s] /\ g_blacklist[s].ip_addr # ip
    BY <1>2, <1>4 DEF SlotsOf
  <2> QED BY <1>1, <2>1 DEF ip
<1> QED BY <1>3, <1>4

(* A client that is served starts with a fresh entry, or with none. *)
LEMMA AcceptServedKeepsInv == IInv /\ AcceptServed => IInv'
<1> SUFFICES ASSUME IInv, AcceptServed PROVE IInv'
  OBVIOUS
<1> DEFINE ip == Head(backlog)
<1>1. /\ ip \in Clients
      /\ backlog' \in Seq(Clients) /\ Len(backlog') <= Backlog
  BY AcceptFacts DEF IInv, AcceptServed
<1>2. /\ serving' = ip /\ illegal' = 0
      /\ announced' = announced /\ evicted' = evicted /\ rules' = rules
      /\ ~Banned(ip)
  BY DEF AcceptServed, bans
<1>3. \A s \in Slots :
        /\ g_blacklist'[s] \in Entries
        /\ g_blacklist'[s].ip_addr = g_blacklist[s].ip_addr
        /\ g_blacklist'[s].ban_left > 0 => g_blacklist[s].ban_left > 0
        /\ IF g_blacklist[s].ip_addr = ip
             THEN g_blacklist'[s].err_count = 0
             ELSE g_blacklist'[s] = g_blacklist[s]
  BY AcceptServedEntries
<1> HIDE DEF ip
<1>4. TypeOK'
  <2>1. g_blacklist' \in [Slots -> Entries]
    BY <1>3 DEF AcceptServed
  <2>2. illegal' \in 0 .. MaxIllegal
    <3>1. illegal' = 0
      BY <1>2, Zenon
    <3> QED BY <3>1, ModbusAssumption
  <2>3. serving' \in Clients \cup {NoClient}
    BY <1>1, <1>2
  <2>4. /\ rules' \subseteq Clients /\ evicted' \subseteq Clients
        /\ announced' \in [Clients -> 0 .. BLACKLIST_BAN_SEC]
    BY <1>2 DEF IInv, TypeOK
  <2> QED BY <1>1, <2>1, <2>2, <2>3, <2>4 DEF TypeOK
<1>5. \A c : SlotsOf(c)' = SlotsOf(c)
  BY <1>3 DEF SlotsOf
<1>6. OneEntryPerClient' /\ BanHolds'
  <2>1. OneEntryPerClient'
    BY <1>5 DEF IInv, OneEntryPerClient
  <2>2. ASSUME NEW c \in Clients, announced[c] > 0, c \notin evicted
        PROVE  \E s \in SlotsOf(c) : g_blacklist'[s].ban_left >= announced[c]
    <3>1. PICK s \in SlotsOf(c) : g_blacklist[s].ban_left >= announced[c]
      BY <2>2 DEF IInv, BanHolds
    <3>2. s \in Slots /\ g_blacklist[s].ip_addr = c
      BY DEF SlotsOf
    <3>3. g_blacklist[s].ban_left \in Nat /\ announced[c] \in Nat
      BY <3>2, ModbusAssumption DEF IInv, TypeOK, Entries
    <3>4. Banned(c)
      BY <2>2, <3>1, <3>3 DEF Banned
    <3>5. g_blacklist'[s] = g_blacklist[s]
      BY <1>2, <1>3, <3>2, <3>4
    <3> QED BY <3>1, <3>5
  <2>3. BanHolds'
    BY <1>2, <1>5, <2>2 DEF BanHolds
  <2> QED BY <2>1, <2>3
<1>7. CountIsThisConnections' /\ CountNeedsEntry'
  <2>1. 0 % BLACKLIST_THRESHOLD = 0
    BY ModbusAssumption
  <2> QED BY <1>2, <1>3, <2>1 DEF CountIsThisConnections, CountNeedsEntry
<1> QED BY <1>4, <1>6, <1>7 DEF IInv

LEMMA EndKeepsInv ==
  IInv /\ (ConnectionEnds \/ ConnectionTimesOut) => IInv'
<1> SUFFICES ASSUME IInv, ConnectionEnds \/ ConnectionTimesOut PROVE IInv'
  OBVIOUS
<1>1. /\ serving' = NoClient /\ illegal' = 0
      /\ UNCHANGED <<g_blacklist, rules, backlog, announced, evicted>>
  BY DEF ConnectionEnds, ConnectionTimesOut, bans
<1>2. TypeOK'
  BY <1>1, ModbusAssumption DEF IInv, TypeOK
<1>3. \A ip : SlotsOf(ip)' = SlotsOf(ip)
  BY <1>1 DEF SlotsOf
<1>4. OneEntryPerClient' /\ BanHolds'
  BY <1>1, <1>3 DEF IInv, OneEntryPerClient, BanHolds
<1>5. CountIsThisConnections' /\ CountNeedsEntry'
  BY <1>1, ModbusAssumption DEF CountIsThisConnections, CountNeedsEntry
<1> QED BY <1>2, <1>4, <1>5 DEF IInv

(* Bans only ever run out, a second at a time. *)
LEMMA TickEntries ==
  ASSUME IInv, Tick, NEW s \in Slots
  PROVE  /\ g_blacklist'[s] \in Entries
         /\ g_blacklist'[s].ip_addr = g_blacklist[s].ip_addr
         /\ g_blacklist'[s].err_count = g_blacklist[s].err_count
         /\ g_blacklist'[s].ban_left > 0 => g_blacklist[s].ban_left > 0
         /\ g_blacklist'[s].ban_left >= g_blacklist[s].ban_left - 1
<1> DEFINE b == g_blacklist[s].ban_left
           c == IF b > 0 THEN b - 1 ELSE 0
<1>1. g_blacklist[s] \in Entries
  BY DEF IInv, TypeOK
<1>2. c \in 0 .. BLACKLIST_BAN_SEC /\ (c > 0 => b > 0) /\ c >= b - 1
  BY <1>1, ModbusAssumption DEF Entries
<1>3. g_blacklist'[s] = [g_blacklist[s] EXCEPT !.ban_left = c]
  BY DEF Tick
<1> HIDE DEF c
<1> QED BY <1>1, <1>2, <1>3 DEF Entries

LEMMA TickKeepsInv == IInv /\ Tick => IInv'
<1> SUFFICES ASSUME IInv, Tick PROVE IInv'
  OBVIOUS
<1>1. UNCHANGED <<rules, backlog, serving, illegal, evicted>>
  BY DEF Tick
<1>2. \A s \in Slots :
        /\ g_blacklist'[s] \in Entries
        /\ g_blacklist'[s].ip_addr = g_blacklist[s].ip_addr
        /\ g_blacklist'[s].err_count = g_blacklist[s].err_count
        /\ g_blacklist'[s].ban_left >= g_blacklist[s].ban_left - 1
  BY TickEntries
<1>3. \A ip \in Clients :
        /\ announced[ip] \in 0 .. BLACKLIST_BAN_SEC
        /\ announced'[ip] = IF announced[ip] > 0 THEN announced[ip] - 1 ELSE 0
  BY DEF IInv, TypeOK, Tick
<1>4. TypeOK'
  <2>1. g_blacklist' \in [Slots -> Entries]
    BY <1>2 DEF Tick
  <2>2. \A ip \in Clients : announced'[ip] \in 0 .. BLACKLIST_BAN_SEC
    BY <1>3, ModbusAssumption
  <2>3. announced' \in [Clients -> 0 .. BLACKLIST_BAN_SEC]
    BY <2>2 DEF Tick
  <2> QED BY <1>1, <2>1, <2>3 DEF IInv, TypeOK
<1>5. OneEntryPerClient' /\ BanHolds'
  <2>1. \A ip : SlotsOf(ip)' = SlotsOf(ip)
    BY <1>2 DEF SlotsOf
  <2>2. ASSUME NEW ip \in Clients, announced'[ip] > 0, ip \notin evicted
        PROVE  \E s \in SlotsOf(ip) :
                 g_blacklist'[s].ban_left >= announced'[ip]
    <3>1. announced[ip] > 0 /\ announced'[ip] = announced[ip] - 1
      BY <1>3, <2>2
    <3>2. PICK s \in SlotsOf(ip) : g_blacklist[s].ban_left >= announced[ip]
      BY <2>2, <3>1 DEF IInv, BanHolds
    <3>3. s \in Slots
      BY DEF SlotsOf
    <3>4. g_blacklist[s].ban_left \in Nat /\ g_blacklist'[s].ban_left \in Nat
      BY <1>2, <3>3, ModbusAssumption DEF IInv, TypeOK, Entries
    <3>5. g_blacklist'[s].ban_left >= announced'[ip]
      BY <1>2, <1>3, <3>1, <3>2, <3>3, <3>4
    <3> QED BY <3>5
  <2>3. BanHolds'
    BY <1>1, <2>1, <2>2 DEF BanHolds
  <2> QED BY <2>1, <2>3 DEF IInv, OneEntryPerClient
<1>6. CountIsThisConnections'
  BY <1>1, <1>2 DEF IInv, CountIsThisConnections
<1>7. CountNeedsEntry'
  BY <1>1, <1>2 DEF IInv, CountNeedsEntry, SlotsOf
<1> QED BY <1>4, <1>5, <1>6, <1>7 DEF IInv

-----------------------------------------------------------------------------
(* Illegal requests. *)

(* An illegal request changes one entry, the client's own, and a ban is    *)
(* announced exactly when its count reaches the threshold.                 *)
LEMMA IllegalRequestFacts ==
  ASSUME IInv, IllegalRequest
  PROVE  LET e  == EntryFor(serving)
             s0 == SlotFor(serving)
             n  == IF e.err_count + 1 >= BLACKLIST_THRESHOLD THEN 0
                   ELSE e.err_count + 1
             b  == IF e.err_count + 1 >= BLACKLIST_THRESHOLD
                     THEN BLACKLIST_BAN_SEC ELSE e.ban_left
         IN  /\ s0 \in Slots /\ serving \in Clients
             /\ e.err_count \in Nat
             /\ e.err_count = illegal % BLACKLIST_THRESHOLD
             /\ g_blacklist' = [g_blacklist EXCEPT ![s0] =
                  [ip_addr |-> serving, err_count |-> n, ban_left |-> b]]
             /\ [ip_addr |-> serving, err_count |-> n, ban_left |-> b]
                  \in Entries
             /\ b > 0 => \/ e.err_count + 1 >= BLACKLIST_THRESHOLD
                         \/ Banned(serving)
             /\ IF e.err_count + 1 >= BLACKLIST_THRESHOLD
                  THEN /\ rules' \subseteq rules \cup {serving}
                       /\ announced' = [announced EXCEPT
                                          ![serving] = BLACKLIST_BAN_SEC]
                       /\ evicted' = (evicted \cup Evicted(serving))
                                       \ {serving}
                  ELSE /\ UNCHANGED <<rules, announced>>
                       /\ evicted' = evicted \cup Evicted(serving)
             /\ illegal' = illegal + 1 /\ illegal < MaxIllegal
             /\ UNCHANGED <<backlog, serving>>
<1> DEFINE e  == EntryFor(serving)
           s0 == SlotFor(serving)
           full == e.err_count + 1 >= BLACKLIST_THRESHOLD
           n  == IF full THEN 0 ELSE e.err_count + 1
           b  == IF full THEN BLACKLIST_BAN_SEC ELSE e.ban_left
           r  == [ip_addr |-> serving, err_count |-> n, ban_left |-> b]
<1>1. /\ serving \in Clients
      /\ illegal' = illegal + 1 /\ illegal < MaxIllegal
      /\ UNCHANGED <<backlog, serving>>
  BY DEF IllegalRequest
<1>2. /\ s0 \in Slots /\ e \in Entries /\ e.ip_addr = serving
      /\ SlotsOf(serving) # {} => s0 \in SlotsOf(serving) /\ e = g_blacklist[s0]
      /\ e.err_count = illegal % BLACKLIST_THRESHOLD
  BY <1>1, SlotFacts, EntryFacts, CountFacts DEF IInv
<1>3. /\ e.err_count \in 0 .. BLACKLIST_THRESHOLD - 1
      /\ e.ban_left \in 0 .. BLACKLIST_BAN_SEC
  BY <1>2 DEF Entries
<1>4. g_blacklist' = [g_blacklist EXCEPT ![s0] = r]
  <2>1. CASE full
    <3>1. g_blacklist' =
            [g_blacklist EXCEPT ![s0] =
               [e EXCEPT !.err_count = 0, !.ban_left = BLACKLIST_BAN_SEC]]
      BY <2>1 DEF IllegalRequest, Ban
    <3>2. [e EXCEPT !.err_count = 0, !.ban_left = BLACKLIST_BAN_SEC]
            = [ip_addr |-> e.ip_addr, err_count |-> 0,
               ban_left |-> BLACKLIST_BAN_SEC]
      BY <1>2, EntryExcept, Zenon
    <3> QED BY <1>2, <2>1, <3>1, <3>2, Zenon
  <2>2. CASE ~full
    <3>1. g_blacklist' =
            [g_blacklist EXCEPT ![s0] = [e EXCEPT !.err_count = @ + 1]]
      BY <2>2 DEF IllegalRequest
    <3>2. [e EXCEPT !.err_count = @ + 1]
            = [ip_addr |-> e.ip_addr, err_count |-> e.err_count + 1,
               ban_left |-> e.ban_left]
      BY <1>2, EntryExcept, Zenon
    <3> QED BY <1>2, <2>2, <3>1, <3>2, Zenon
  <2> QED BY <2>1, <2>2
<1>5. n \in 0 .. BLACKLIST_THRESHOLD - 1 /\ b \in 0 .. BLACKLIST_BAN_SEC
  BY <1>3, ModbusAssumption
<1>6. IF full
        THEN /\ rules' \subseteq rules \cup {serving}
             /\ announced' = [announced EXCEPT ![serving] = BLACKLIST_BAN_SEC]
             /\ evicted' = (evicted \cup Evicted(serving)) \ {serving}
        ELSE /\ UNCHANGED <<rules, announced>>
             /\ evicted' = evicted \cup Evicted(serving)
  BY DEF IllegalRequest, Ban
<1>7. b > 0 => full \/ Banned(serving)
  <2> SUFFICES ASSUME ~full, e.ban_left > 0 PROVE Banned(serving)
    OBVIOUS
  <2>1. CASE SlotsOf(serving) # {}
    BY <1>2, <2>1 DEF Banned
  <2>2. CASE SlotsOf(serving) = {}
    <3>1. g_blacklist[s0].ip_addr # serving
      BY <1>2, <2>2 DEF SlotsOf
    <3>2. e.ban_left = 0
      BY <3>1, ModbusAssumption DEF EntryFor, Unused
    <3> QED BY <3>2
  <2> QED BY <2>1, <2>2
<1> HIDE DEF n, b
<1>8. r \in Entries
  BY <1>1, <1>5 DEF Entries
<1>9. e.err_count \in Nat
  BY <1>3, ModbusAssumption
<1> HIDE DEF e, s0, full, r
<1> QED
  BY <1>1, <1>2, <1>4, <1>6, <1>7, <1>8, <1>9, Zenon DEF e, s0, full, r, n, b

(* So the client gains a slot only if it has none, nobody else gains one,  *)
(* and only the count that reaches the threshold bans anybody.             *)
LEMMA IllegalRequestTable ==
  ASSUME IInv, IllegalRequest
  PROVE  LET full == EntryFor(serving).err_count + 1 >= BLACKLIST_THRESHOLD
         IN  /\ SlotFor(serving) \in SlotsOf(serving)'
             /\ \A s \in SlotsOf(serving)' : s = SlotFor(serving)
             /\ \A c \in Clients \ {serving} :
                  /\ SlotsOf(c)' \subseteq SlotsOf(c)
                  /\ Banned(c)' => Banned(c)
             /\ Banned(serving)' => full \/ Banned(serving)
<1> DEFINE s0 == SlotFor(serving)
           e  == EntryFor(serving)
           full == e.err_count + 1 >= BLACKLIST_THRESHOLD
           n  == IF full THEN 0 ELSE e.err_count + 1
           b  == IF full THEN BLACKLIST_BAN_SEC ELSE e.ban_left
           r  == [ip_addr |-> serving, err_count |-> n, ban_left |-> b]
<1>1. /\ s0 \in Slots /\ serving \in Clients /\ serving' = serving
      /\ g_blacklist' = [g_blacklist EXCEPT ![s0] = r]
      /\ b > 0 => full \/ Banned(serving)
  BY IllegalRequestFacts
<1>2. SlotsOf(serving) # {} => s0 \in SlotsOf(serving)
  BY <1>1, SlotFacts DEF IInv
<1>3. g_blacklist \in [Slots -> Entries]
  BY DEF IInv, TypeOK
<1>4. r.ip_addr = serving /\ r.ban_left = b
  OBVIOUS
<1> HIDE DEF s0, e, full, n, b, r
<1>5. /\ g_blacklist'[s0] = r
      /\ \A s \in Slots \ {s0} : g_blacklist'[s] = g_blacklist[s]
  BY <1>1, <1>3
<1>6. s0 \in SlotsOf(serving)'
  BY <1>1, <1>4, <1>5 DEF SlotsOf
<1>7. ASSUME NEW s \in SlotsOf(serving)' PROVE s = s0
  <2> SUFFICES ASSUME s # s0 PROVE FALSE
    OBVIOUS
  <2>1. s \in SlotsOf(serving)
    BY <1>1, <1>5, <1>7 DEF SlotsOf
  <2> QED BY <1>1, <1>2, <2>1 DEF IInv, OneEntryPerClient
<1>8. ASSUME NEW c \in Clients \ {serving}
      PROVE  SlotsOf(c)' \subseteq SlotsOf(c) /\ (Banned(c)' => Banned(c))
  BY <1>1, <1>4, <1>5 DEF SlotsOf, Banned
<1>9. Banned(serving)' => full \/ Banned(serving)
  <2> SUFFICES ASSUME Banned(serving)' PROVE full \/ Banned(serving)
    OBVIOUS
  <2>1. PICK s \in SlotsOf(serving)' : g_blacklist'[s].ban_left > 0
    BY DEF Banned
  <2>2. s = s0
    BY <1>7
  <2> QED BY <1>1, <1>4, <1>5, <2>1, <2>2
<1> QED BY <1>6, <1>7, <1>8, <1>9 DEF s0, e, full

LEMMA IllegalRequestKeepsInv == IInv /\ IllegalRequest => IInv'
<1> SUFFICES ASSUME IInv, IllegalRequest PROVE IInv'
  OBVIOUS
<1> DEFINE s0 == SlotFor(serving)
           e  == EntryFor(serving)
           full == e.err_count + 1 >= BLACKLIST_THRESHOLD
           n  == IF full THEN 0 ELSE e.err_count + 1
           b  == IF full THEN BLACKLIST_BAN_SEC ELSE e.ban_left
           r  == [ip_addr |-> serving, err_count |-> n, ban_left |-> b]
<1>1. /\ s0 \in Slots /\ serving \in Clients /\ serving' = serving
      /\ g_blacklist' = [g_blacklist EXCEPT ![s0] = r] /\ r \in Entries
      /\ e.err_count \in Nat /\ e.err_count = illegal % BLACKLIST_THRESHOLD
      /\ illegal' = illegal + 1 /\ illegal < MaxIllegal
      /\ backlog' = backlog
  BY IllegalRequestFacts
<1>11. IF full
         THEN /\ rules' \subseteq rules \cup {serving}
              /\ announced' = [announced EXCEPT ![serving] = BLACKLIST_BAN_SEC]
              /\ evicted' = (evicted \cup Evicted(serving)) \ {serving}
         ELSE /\ UNCHANGED <<rules, announced>>
              /\ evicted' = evicted \cup Evicted(serving)
  BY IllegalRequestFacts
<1>12. full => b = BLACKLIST_BAN_SEC /\ BLACKLIST_BAN_SEC > 0
  BY ModbusAssumption
<1>13. ~full => b = e.ban_left
  OBVIOUS
<1>2. /\ s0 \in SlotsOf(serving)'
      /\ \A s \in SlotsOf(serving)' : s = s0
      /\ \A c \in Clients \ {serving} :
           SlotsOf(c)' \subseteq SlotsOf(c) /\ (Banned(c)' => Banned(c))
      /\ Banned(serving)' => full \/ Banned(serving)
  BY IllegalRequestTable
<1>3. illegal \in Nat /\ g_blacklist \in [Slots -> Entries]
  BY ModbusAssumption DEF IInv, TypeOK
<1>4. r.err_count = n
  OBVIOUS
<1>5. n = (illegal + 1) % BLACKLIST_THRESHOLD
  BY <1>1, <1>3, CountMod, Zenon
<1> HIDE DEF s0, e, full, n, b, r
<1>6. TypeOK'
  <2>1. g_blacklist' \in [Slots -> Entries]
    BY <1>1, <1>3
  <2>2. illegal' \in 0 .. MaxIllegal
    BY <1>1, <1>3, ModbusAssumption
  <2>3. rules' \subseteq Clients
    BY <1>1, <1>11 DEF IInv, TypeOK
  <2>4. Evicted(serving) \subseteq Clients
    BY <1>1 DEF IInv, TypeOK, Entries, Evicted, s0
  <2>5. evicted' \subseteq Clients
    BY <1>11, <2>4 DEF IInv, TypeOK
  <2>6. announced' \in [Clients -> 0 .. BLACKLIST_BAN_SEC]
    BY <1>11, ModbusAssumption DEF IInv, TypeOK
  <2> QED BY <1>1, <2>1, <2>2, <2>3, <2>5, <2>6 DEF IInv, TypeOK
<1>7. OneEntryPerClient'
  <2> SUFFICES ASSUME NEW c \in Clients,
                      NEW s \in SlotsOf(c)', NEW t \in SlotsOf(c)'
               PROVE  s = t
    BY DEF OneEntryPerClient
  <2>1. CASE c = serving
    <3>1. SlotsOf(c)' = SlotsOf(serving)'
      BY <1>1, <2>1 DEF SlotsOf
    <3> QED BY <1>2, <3>1
  <2>2. CASE c # serving
    BY <1>2, <2>2 DEF IInv, OneEntryPerClient
  <2> QED BY <2>1, <2>2
<1>8. BanHolds'
  <2> SUFFICES ASSUME NEW c \in Clients, announced'[c] > 0, c \notin evicted'
               PROVE  \E s \in SlotsOf(c)' :
                        g_blacklist'[s].ban_left >= announced'[c]
    BY DEF BanHolds
  <2>0. /\ announced \in [Clients -> 0 .. BLACKLIST_BAN_SEC]
        /\ g_blacklist'[s0] = r
        /\ \A s \in Slots \ {s0} : g_blacklist'[s] = g_blacklist[s]
    BY <1>1, <1>3 DEF IInv, TypeOK
  <2>1. CASE c = serving /\ full
    <3>1. announced'[c] = BLACKLIST_BAN_SEC
      BY <1>11, <2>0, <2>1
    <3>2. g_blacklist'[s0].ban_left = BLACKLIST_BAN_SEC
      BY <1>12, <2>0, <2>1 DEF r
    <3>3. s0 \in SlotsOf(c)'
      BY <1>1, <1>2, <2>1 DEF SlotsOf
    <3> QED BY <3>1, <3>2, <3>3, ModbusAssumption
  <2>2. CASE ~(c = serving /\ full)
    <3>1. announced'[c] = announced[c] /\ c \notin evicted
          /\ (c # serving => c \notin Evicted(serving))
      BY <1>11, <2>0, <2>2
    <3>2. PICK s \in SlotsOf(c) : g_blacklist[s].ban_left >= announced[c]
      BY <3>1 DEF IInv, BanHolds
    <3>3. s \in Slots /\ g_blacklist[s].ip_addr = c
      BY DEF SlotsOf
    <3>4. CASE c = serving
      <4>1. ~full /\ s = s0 /\ e = g_blacklist[s0]
        <5>1. SlotsOf(serving) # {} /\ s \in SlotsOf(serving)
          BY <3>4
        <5>2. s0 \in SlotsOf(serving)
          BY <5>1, SlotFacts, <1>1 DEF IInv, s0
        <5>3. e = g_blacklist[s0]
          BY <5>1, EntryFacts, <1>1 DEF IInv, s0, e
        <5> QED BY <1>1, <2>2, <3>4, <5>1, <5>2, <5>3
                DEF IInv, OneEntryPerClient
      <4>2. g_blacklist'[s0].ban_left = g_blacklist[s0].ban_left
        BY <1>13, <2>0, <4>1 DEF r
      <4>3. s0 \in SlotsOf(c)'
        BY <1>1, <1>2, <3>4 DEF SlotsOf
      <4> QED BY <3>1, <3>2, <4>1, <4>2, <4>3
    <3>5. CASE c # serving
      <4>1. c # NoClient
        BY ModbusAssumption
      <4>2. s # s0
        BY <3>1, <3>3, <3>5, <4>1 DEF Evicted, s0
      <4>3. g_blacklist'[s] = g_blacklist[s] /\ s \in SlotsOf(c)'
        BY <2>0, <3>3, <4>2 DEF SlotsOf
      <4> QED BY <3>1, <3>2, <4>3
    <3> QED BY <3>4, <3>5
  <2> QED BY <2>1, <2>2
<1>9. CountIsThisConnections'
  <2> SUFFICES ASSUME NEW s \in Slots, g_blacklist'[s].ip_addr = serving'
               PROVE  g_blacklist'[s].err_count
                        = illegal' % BLACKLIST_THRESHOLD
    BY DEF CountIsThisConnections
  <2>1. s \in SlotsOf(serving)'
    BY <1>1 DEF SlotsOf
  <2>2. s = s0
    BY <1>2, <2>1
  <2>3. g_blacklist'[s] = r
    BY <1>1, <1>3, <2>2
  <2> QED BY <1>1, <1>4, <1>5, <2>3, Zenon
<1>10. CountNeedsEntry'
  BY <1>1, <1>2 DEF CountNeedsEntry
<1> QED BY <1>6, <1>7, <1>8, <1>9, <1>10 DEF IInv

-----------------------------------------------------------------------------
(* The theorems. *)

(* Every step keeps the invariant. *)
LEMMA NextKeepsInv == IInv /\ [Next]_vars => IInv'
<1> SUFFICES ASSUME IInv, [Next]_vars PROVE IInv'
  OBVIOUS
<1>1. CASE \E ip \in Clients : Connect(ip)
  BY <1>1, ConnectKeepsInv, Zenon
<1>2. CASE Server
  BY <1>2, AcceptBannedKeepsInv, AcceptServedKeepsInv,
     IllegalRequestKeepsInv, EndKeepsInv, Zenon DEF Server
<1>3. CASE Tick
  BY <1>3, TickKeepsInv, Zenon
<1>4. CASE Restart \/ Reboot
  BY <1>4, RestartKeepsInv, Zenon
<1>5. CASE UNCHANGED vars
  <2>1. UNCHANGED <<g_blacklist, rules, backlog, serving, illegal, bans>>
    BY <1>5 DEF vars
  <2>2. backlog' \in Seq(Clients) /\ Len(backlog') <= Backlog
    BY <2>1 DEF IInv, TypeOK
  <2> QED BY <2>1, <2>2, QueueKeepsInv
<1> QED BY <1>1, <1>2, <1>3, <1>4, <1>5, Zenon DEF Next

(* The types of the variables hold at every step. *)
THEOREM ModbusTypeOK == Spec => []TypeOK
<1>1. IInv => TypeOK
  BY DEF IInv
<1> QED BY <1>1, InitInv, NextKeepsInv, PTL DEF Spec

(* However large the table and whoever it evicts, no address ever has two  *)
(* entries.                                                                *)
THEOREM ModbusOneEntryPerClient == Spec => []OneEntryPerClient
<1>1. IInv => OneEntryPerClient
  BY DEF IInv
<1> QED BY <1>1, InitInv, NextKeepsInv, PTL DEF Spec

(* While an announced ban lasts no connection of its address is served,    *)
(* whatever became of the packet filter's rule, unless the table had to    *)
(* give the entry away, or the process was restarted.                      *)
THEOREM ModbusBannedNotServed == Spec => BannedNotServed
<1> DEFINE Kept ==
      serving' # serving /\ serving' \in Clients =>
        announced[serving'] = 0 \/ serving' \in evicted
<1>1. IInv /\ [Next]_vars => [Kept]_vars
  <2> SUFFICES ASSUME IInv, Next, serving' # serving, serving' \in Clients,
                      announced[serving'] # 0, serving' \notin evicted
               PROVE  FALSE
    OBVIOUS
  <2>1. announced[serving'] \in Nat
    BY ModbusAssumption DEF IInv, TypeOK
  <2>2. AcceptServed
    BY ModbusAssumption
       DEF Next, Server, Connect, AcceptBanned, IllegalRequest,
           ConnectionEnds, ConnectionTimesOut, Tick, Restart, Reboot
  <2>3. PICK s \in SlotsOf(serving') :
          g_blacklist[s].ban_left >= announced[serving']
    BY <2>1 DEF IInv, BanHolds
  <2>4. g_blacklist[s].ban_left \in Nat
    BY ModbusAssumption DEF IInv, TypeOK, Entries, SlotsOf
  <2>5. Banned(serving')
    BY <2>1, <2>3, <2>4 DEF Banned
  <2> QED BY <2>2, <2>5 DEF AcceptServed
<1> QED BY <1>1, InitInv, NextKeepsInv, PTL DEF Spec, BannedNotServed

(* The count of the client that is served is that of its present           *)
(* connection.                                                             *)
THEOREM ModbusCountIsThisConnections == Spec => []CountIsThisConnections
<1>1. IInv => CountIsThisConnections
  BY DEF IInv
<1> QED BY <1>1, InitInv, NextKeepsInv, PTL DEF Spec

(* Only the illegal request that completes BLACKLIST_THRESHOLD of them in  *)
(* one connection bans anybody, and only its own client.                   *)
THEOREM ModbusBannedForCause == Spec => BannedForCause
<1> DEFINE Cause ==
      \A ip \in Clients :
        (Banned(ip)' /\ ~Banned(ip)) \/ ip \in rules' \ rules =>
          ip = serving /\ illegal' >= BLACKLIST_THRESHOLD
<1>1. IInv /\ [Next]_vars => [Cause]_vars
  <2> SUFFICES ASSUME IInv, Next, NEW ip \in Clients,
                      (Banned(ip)' /\ ~Banned(ip)) \/ ip \in rules' \ rules
               PROVE  ip = serving /\ illegal' >= BLACKLIST_THRESHOLD
    OBVIOUS
  <2>1. CASE IllegalRequest
    <3> DEFINE full == EntryFor(serving).err_count + 1 >= BLACKLIST_THRESHOLD
    <3>1. /\ EntryFor(serving).err_count = illegal % BLACKLIST_THRESHOLD
          /\ IF full THEN rules' \subseteq rules \cup {serving}
             ELSE rules' = rules
          /\ illegal' = illegal + 1 /\ serving' = serving
      BY <2>1, IllegalRequestFacts
    <3>2. /\ \A c \in Clients \ {serving} : Banned(c)' => Banned(c)
          /\ Banned(serving)' => full \/ Banned(serving)
      BY <2>1, IllegalRequestTable
    <3>3. ip = serving /\ full
      <4>1. ip = serving => (Banned(ip)' <=> Banned(serving)')
        BY <3>1 DEF Banned, SlotsOf
      <4> HIDE DEF full
      <4>2. CASE ip \in rules' \ rules
        BY <3>1, <4>2
      <4>3. CASE Banned(ip)' /\ ~Banned(ip)
        BY <3>2, <4>1, <4>3, Zenon
      <4> QED BY <4>2, <4>3
    <3>4. illegal \in Nat
      BY ModbusAssumption DEF IInv, TypeOK
    <3>5. illegal % BLACKLIST_THRESHOLD <= illegal
      <4> DEFINE d == BLACKLIST_THRESHOLD
      <4>1. d \in Nat \ {0}
        BY ModbusAssumption
      <4> HIDE DEF d
      <4>2. PICK q \in Nat : /\ illegal = d * q + (illegal % d)
                             /\ illegal % d \in 0 .. d - 1
        <5>1. /\ illegal \div d \in Nat
              /\ illegal = d * (illegal \div d) + (illegal % d)
              /\ illegal % d \in 0 .. d - 1
          BY <3>4, <4>1
        <5> QED BY <5>1
      <4>3. d * q \in Nat
        BY <4>1
      <4>4. illegal % d <= illegal
        BY <3>4, <4>1, <4>2, <4>3
      <4> QED BY <4>4 DEF d
    <3> QED BY <3>1, <3>3, <3>4, <3>5, ModbusAssumption
  <2>2. CASE ~IllegalRequest
    <3>1. rules' \subseteq rules /\ (Banned(ip)' => Banned(ip))
      <4>1. CASE Connect(ip) \/ \E c \in Clients : Connect(c)
        BY <4>1 DEF Connect, Banned, SlotsOf
      <4>2. CASE AcceptBanned \/ ConnectionEnds \/ ConnectionTimesOut
        BY <4>2 DEF AcceptBanned, ConnectionEnds, ConnectionTimesOut,
                    Banned, SlotsOf
      <4>3. CASE AcceptServed
        BY <4>3, AcceptServedEntries DEF AcceptServed, Banned, SlotsOf
      <4>4. CASE Tick
        BY <4>4, TickEntries DEF Tick, Banned, SlotsOf
      <4>5. CASE Restart \/ Reboot
        BY <4>5 DEF Restart, Reboot, Banned, SlotsOf, Unused
      <4> QED BY <2>2, <4>1, <4>2, <4>3, <4>4, <4>5, Zenon DEF Next, Server
    <3> QED BY <3>1
  <2> QED BY <2>1, <2>2
<1> QED BY <1>1, InitInv, NextKeepsInv, PTL DEF Spec, BannedForCause

=============================================================================
