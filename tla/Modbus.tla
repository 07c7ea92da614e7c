------------------------------- MODULE Modbus ------------------------------
(***************************************************************************)
(* The Modbus TCP server of app/modbus/modbus_server.c: one thread that    *)
(* serves one connection at a time, and the two bans it keeps, a table of  *)
(* addresses in memory and a rule per address in the kernel's packet       *)
(* filter (iptables).                                                      *)
(*                                                                         *)
(* Time passes in seconds (Tick); an entry's ban_until is kept as the      *)
(* seconds still left.  A legal request changes nothing that is modelled   *)
(* here: it answers with the four registers and the loop goes on.          *)
(***************************************************************************)
EXTENDS Naturals, Sequences

CONSTANTS
  Clients,              (* client addresses                                *)
  NoClient,             (* the zero address of an unused entry             *)
  BLACKLIST_MAX,        (* entries of the table: 16                        *)
  BLACKLIST_THRESHOLD,  (* illegal requests that earn a ban: 5             *)
  BLACKLIST_BAN_SEC,    (* seconds of a ban: 300                           *)
  Backlog,              (* connections the kernel queues: 5                *)
  MaxIllegal            (* bound: illegal requests in one connection       *)

ASSUME ModbusAssumption ==
  /\ NoClient \notin Clients
  /\ BLACKLIST_MAX \in Nat \ {0}
  /\ BLACKLIST_THRESHOLD \in Nat \ {0}
  /\ BLACKLIST_BAN_SEC \in Nat \ {0}
  /\ Backlog \in Nat \ {0}
  /\ MaxIllegal \in Nat /\ MaxIllegal >= BLACKLIST_THRESHOLD

VARIABLES
  g_blacklist,   (* the table                                              *)
  rules,         (* the addresses the packet filter drops                  *)
  backlog,       (* connections waiting for accept                         *)
  serving,       (* the client handle_client is serving                    *)
  illegal,       (* ghost: illegal requests in the present connection      *)
  announced,     (* ghost: seconds left of the ban this process announced  *)
  evicted        (* ghost: addresses that lost their entry since then      *)

bans == <<announced, evicted>>
vars == <<g_blacklist, rules, backlog, serving, illegal, bans>>

Slots   == 1 .. BLACKLIST_MAX
Entries == [ip_addr   : Clients \cup {NoClient},
            err_count : 0 .. BLACKLIST_THRESHOLD - 1,
            ban_left  : 0 .. BLACKLIST_BAN_SEC]

Unused == [ip_addr |-> NoClient, err_count |-> 0, ban_left |-> 0]

SlotsOf(ip) == {s \in Slots : g_blacklist[s].ip_addr = ip}

Banned(ip) == \E s \in SlotsOf(ip) : g_blacklist[s].ban_left > 0

First(S) == CHOOSE s \in S : \A t \in S : s <= t

-----------------------------------------------------------------------------
Init ==
  /\ g_blacklist = [s \in Slots |-> Unused]
  /\ rules = {}
  /\ backlog = << >>
  /\ serving = NoClient
  /\ illegal = 0
  /\ announced = [ip \in Clients |-> 0]
  /\ evicted = {}

(* A client's connection reaches the kernel, unless its packets are        *)
(* dropped.                                                                *)
Connect(ip) ==
  /\ ip \notin rules
  /\ Len(backlog) < Backlog
  /\ backlog' = Append(backlog, ip)
  /\ UNCHANGED <<g_blacklist, rules, serving, illegal, bans>>

-----------------------------------------------------------------------------
(* The server thread takes the next connection. *)

Accept ==
  /\ serving = NoClient
  /\ backlog # << >>
  /\ backlog' = Tail(backlog)

(* Variant: clears the entry before it looks at the time. *)
AcceptBannedClears ==
  /\ Accept
  /\ Banned(Head(backlog))
  /\ g_blacklist' =
       [s \in Slots |->
          IF s \in SlotsOf(Head(backlog))
            THEN [g_blacklist[s] EXCEPT !.err_count = 0, !.ban_left = 0]
            ELSE g_blacklist[s]]
  /\ UNCHANGED <<rules, serving, illegal, bans>>

(* is_ip_banned: closed at once. *)
AcceptBanned ==
  /\ Accept
  /\ Banned(Head(backlog))
  /\ UNCHANGED <<g_blacklist, rules, serving, illegal, bans>>

(* Variant: keeps the count of earlier connections. *)
AcceptKeepsCount ==
  /\ Accept
  /\ ~Banned(Head(backlog))
  /\ serving' = Head(backlog)
  /\ illegal' = 0
  /\ UNCHANGED <<g_blacklist, rules, bans>>

(* Not banned, or not any more: its entry, if it has one, starts afresh.   *)
AcceptServed ==
  /\ Accept
  /\ ~Banned(Head(backlog))
  /\ serving' = Head(backlog)
  /\ illegal' = 0
  /\ g_blacklist' =
       [s \in Slots |->
          IF s \in SlotsOf(Head(backlog))
            THEN [g_blacklist[s] EXCEPT !.err_count = 0, !.ban_left = 0]
            ELSE g_blacklist[s]]
  /\ UNCHANGED <<rules, bans>>

-----------------------------------------------------------------------------
(* handle_client *)

(* Variant: always takes a new slot. *)
SlotWithoutSearch(ip) ==
  IF SlotsOf(NoClient) # {} THEN First(SlotsOf(NoClient)) ELSE 1

(* The slot record_illegal_request uses: the address's own, else the first *)
(* unused one, else the first one, whatever it holds.                      *)
SlotFor(ip) ==
  IF SlotsOf(ip) # {} THEN First(SlotsOf(ip))
  ELSE IF SlotsOf(NoClient) # {} THEN First(SlotsOf(NoClient))
  ELSE 1

(* Variant: an evicted slot keeps the count of the address it held. *)
EntryInherited(ip) == [g_blacklist[SlotFor(ip)] EXCEPT !.ip_addr = ip]

(* The entry before this request: one that belongs to another address is   *)
(* cleared first.                                                          *)
EntryFor(ip) ==
  IF g_blacklist[SlotFor(ip)].ip_addr = ip THEN g_blacklist[SlotFor(ip)]
  ELSE [Unused EXCEPT !.ip_addr = ip]

(* Whoever loses the slot to the address.                                  *)
Evicted(ip) == {g_blacklist[SlotFor(ip)].ip_addr} \ {ip, NoClient}

(* The table is told, then iptables, and the ban is announced whether or   *)
(* not that call succeeded: its result is ignored.                         *)
Ban(ip) ==
  /\ g_blacklist' = [g_blacklist EXCEPT ![SlotFor(ip)] =
                      [EntryFor(ip) EXCEPT !.err_count = 0,
                                           !.ban_left = BLACKLIST_BAN_SEC]]
  /\ rules' \in {rules, rules \cup {ip}}
  /\ announced' = [announced EXCEPT ![ip] = BLACKLIST_BAN_SEC]
  /\ evicted' = (evicted \cup Evicted(ip)) \ {ip}

(* Variant: compares with > instead of >=. *)
IllegalRequestLate ==
  /\ serving \in Clients
  /\ illegal < MaxIllegal
  /\ illegal' = illegal + 1
  /\ LET e == EntryFor(serving)
     IN IF e.err_count + 1 > BLACKLIST_THRESHOLD THEN Ban(serving)
        ELSE /\ g_blacklist' = [g_blacklist EXCEPT ![SlotFor(serving)] =
                                 [e EXCEPT !.err_count = @ + 1]]
             /\ UNCHANGED <<rules, announced>>
             /\ evicted' = evicted \cup Evicted(serving)
  /\ UNCHANGED <<backlog, serving>>

(* An illegal function code or address: counted, answered with an          *)
(* exception, and at the threshold the address is banned; the connection   *)
(* stays open, and requests that reached the socket before the rule, or    *)
(* that no rule stops, are still served, and counted.                      *)
IllegalRequest ==
  /\ serving \in Clients
  /\ illegal < MaxIllegal
  /\ illegal' = illegal + 1
  /\ LET e == EntryFor(serving)
     IN IF e.err_count + 1 >= BLACKLIST_THRESHOLD THEN Ban(serving)
        ELSE /\ g_blacklist' = [g_blacklist EXCEPT ![SlotFor(serving)] =
                                 [e EXCEPT !.err_count = @ + 1]]
             /\ UNCHANGED <<rules, announced>>
             /\ evicted' = evicted \cup Evicted(serving)
  /\ UNCHANGED <<backlog, serving>>

(* The client closes, or a reply cannot be sent. *)
ConnectionEnds ==
  /\ serving \in Clients
  /\ serving' = NoClient
  /\ illegal' = 0
  /\ UNCHANGED <<g_blacklist, rules, backlog, bans>>

(* Of a client whose packets are dropped the server hears nothing more     *)
(* once it has read what arrived before, not even the close:               *)
(* modbus_receive waits until the kernel gives up the connection because   *)
(* the exception reply is never acknowledged.                              *)
ConnectionTimesOut ==
  /\ serving \in rules
  /\ serving' = NoClient
  /\ illegal' = 0
  /\ UNCHANGED <<g_blacklist, rules, backlog, bans>>

-----------------------------------------------------------------------------
Tick ==
  /\ \E s \in Slots : g_blacklist[s].ban_left > 0
  /\ g_blacklist' =
       [s \in Slots |->
          [g_blacklist[s] EXCEPT !.ban_left = IF @ > 0 THEN @ - 1 ELSE 0]]
  /\ announced' = [ip \in Clients |->
                     IF announced[ip] > 0 THEN announced[ip] - 1 ELSE 0]
  /\ UNCHANGED <<rules, backlog, serving, illegal, evicted>>

(* The process is restarted: modbus_server_start clears the table, while   *)
(* the packet filter is the kernel's and keeps its rules.                  *)
Restart ==
  /\ g_blacklist' = [s \in Slots |-> Unused]
  /\ backlog' = << >>
  /\ serving' = NoClient
  /\ illegal' = 0
  /\ announced' = [ip \in Clients |-> 0] /\ evicted' = {}
  /\ UNCHANGED rules

Reboot ==
  /\ g_blacklist' = [s \in Slots |-> Unused]
  /\ rules' = {}
  /\ backlog' = << >>
  /\ serving' = NoClient
  /\ illegal' = 0
  /\ announced' = [ip \in Clients |-> 0] /\ evicted' = {}

Server ==
  \/ AcceptBanned \/ AcceptServed
  \/ IllegalRequest \/ ConnectionEnds \/ ConnectionTimesOut

Next ==
  \/ \E ip \in Clients : Connect(ip)
  \/ Server
  \/ Tick \/ Restart \/ Reboot

(* Time passes, and the kernel does give up dead connections. *)
Spec == Init /\ [][Next]_vars /\ WF_vars(Tick) /\ WF_vars(ConnectionTimesOut)

-----------------------------------------------------------------------------
(* The types of the variables. *)
TypeOK ==
  /\ g_blacklist \in [Slots -> Entries]
  /\ rules \subseteq Clients
  /\ backlog \in Seq(Clients) /\ Len(backlog) <= Backlog
  /\ serving \in Clients \cup {NoClient}
  /\ illegal \in 0 .. MaxIllegal
  /\ announced \in [Clients -> 0 .. BLACKLIST_BAN_SEC]
  /\ evicted \subseteq Clients

(* However the table fills up and evicts, no address has two entries, of   *)
(* which is_ip_banned would only see the first.                            *)
OneEntryPerClient ==
  \A ip \in Clients : \A s, t \in SlotsOf(ip) : s = t

(* The table keeps a banned address out by itself, also when the call of   *)
(* iptables failed, or the connection was queued before: for as long as    *)
(* was announced no connection of it is served, unless another address was *)
(* given its entry in the meantime, or the process was restarted.          *)
BannedNotServed ==
  [][serving' # serving /\ serving' \in Clients =>
       announced[serving'] = 0 \/ serving' \in evicted]_vars

(* The count that leads to a ban is that of the present connection only:   *)
(* nothing is carried over from earlier connections of the address, from   *)
(* an earlier owner of the slot, or across a ban that ran out.             *)
CountIsThisConnections ==
  \A s \in Slots :
    serving \in Clients /\ g_blacklist[s].ip_addr = serving =>
      g_blacklist[s].err_count = illegal % BLACKLIST_THRESHOLD

(* Nobody is banned who has not sent BLACKLIST_THRESHOLD illegal requests  *)
(* in one connection.                                                      *)
BannedForCause ==
  [][\A ip \in Clients :
       (Banned(ip)' /\ ~Banned(ip)) \/ ip \in rules' \ rules =>
         ip = serving /\ illegal' >= BLACKLIST_THRESHOLD]_vars

(* "IP banned for 300 sec": a ban ends. *)
BanEnds == \A ip \in Clients : ip \in rules ~> ip \notin rules

=============================================================================
