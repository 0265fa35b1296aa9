------------------------------- MODULE Network -------------------------------
(***************************************************************************)
(* Addresses (internal/app/ipam/service.go), the firewall and the          *)
(* interface of one instance (internal/app/network/service.go), their      *)
(* tables, the commands the gateway makes of them and the agent's driver.  *)
(* Addresses are offsets in the pool's block.                              *)
(***************************************************************************)
EXTENDS Naturals, Sequences, FiniteSets, FiniteSetsExt

CONSTANTS
  HostBits,       \* 32 minus the prefix length of the pool
  Gateway,        \* the pool's gateway
  Allocators,     \* calls of AllocateIP
  Firewalls,      \* calls of ApplyFirewallRules; each has its own rules
  Configurers,    \* calls of ConfigureNetwork; each has its own address
  MaxRows,        \* rows of the allocations table
  MaxPower,       \* changes of the instance's status by other calls
  TableInMemory   \* the allocations table is the in-memory one

VARIABLES
  pool,       \* the pool's row: none, or the spelling its gateway was written in
  allocs,     \* the allocations table: a sequence of [ip, released]
  allocator,  \* the allocating calls
  rules,      \* the firewall table's rules of the instance
  nodeRules,  \* the rules the node's driver was given last
  firewall,   \* the firewall calls
  inst,       \* the instance's row: [status, ip]
  nodeIp,     \* the address the node's driver was given last
  config,     \* the configuring calls
  power

netVars == <<pool, allocs, allocator, rules, nodeRules, firewall, inst, nodeIp, config, power>>
ipamRest == <<rules, nodeRules, firewall, inst, nodeIp, config, power>>

Init ==
  /\ pool = "none" /\ allocs = <<>>
  /\ allocator = [c \in Allocators |-> [pc |-> "idle", ip |-> 0]]
  /\ rules = "none" /\ nodeRules = "none" /\ firewall = [c \in Firewalls |-> "idle"]
  /\ inst = [status |-> "running", ip |-> "old"] /\ nodeIp = "old"
  /\ config = [c \in Configurers |-> [pc |-> "idle", copy |-> [status |-> "running", ip |-> "old"]]]
  /\ power = 0

(***************************************************************************)
(* Addresses.                                                              *)
(***************************************************************************)
\* CreatePool: the gateway is inside the block; the block is new.  The gateway
\* is parsed for that test, and stored as it was written: the same address may
\* be spelled as net.IP prints it or otherwise (::ffff:10.0.0.1).
CreatePool(spelling) ==
  /\ pool = "none" /\ Gateway \in 0 .. 2^HostBits - 1
  /\ pool' = spelling
  /\ UNCHANGED <<allocs, allocator, ipamRest>>

\* ListByPoolID: the addresses in use.
Taken == {allocs[i].ip : i \in {j \in DOMAIN allocs : ~allocs[j].released}}

\* findNextAvailableIP: not the network's address, nor the broadcast one.
HostAddresses == 1 .. 2^HostBits - 2

\* The gateway's string, which is compared with the addresses' own.
Reserved == IF pool = "respelled" THEN {} ELSE {Gateway}

Available(taken) == HostAddresses \ (taken \cup Reserved)

findNextAvailableIP(taken) == IF Available(taken) = {} THEN 0 ELSE Min(Available(taken))

AllocateIP(c) ==
  /\ allocator[c].pc = "idle" /\ pool # "none"
  /\ allocator' = [allocator EXCEPT ![c] = IF findNextAvailableIP(Taken) = 0
       THEN [pc |-> "exhausted", ip |-> 0] ELSE [pc |-> "insert", ip |-> findNextAvailableIP(Taken)]]
  /\ UNCHANGED <<pool, allocs, ipamRest>>

\* Create in postgres: the column of the address is unique over all rows,
\* the released ones included.  The repository's statements name the columns
\* of migrations/000004:18-29; where 000001:180-188 made the table first,
\* every INSERT fails (AllocateEnds).
SqlInsertable(ip) == \A i \in DOMAIN allocs : allocs[i].ip # ip

\* Mutant: no test of the address.
InsertableAlways(ip) == TRUE

\* Create in memory: no allocation in use has the address.
MemInsertable(ip) == ip \notin Taken

Insertable(ip) == IF TableInMemory THEN MemInsertable(ip) ELSE SqlInsertable(ip)

AllocationCreate(c) ==
  /\ allocator[c].pc = "insert" /\ Len(allocs) < MaxRows
  /\ allocs' = IF Insertable(allocator[c].ip)
       THEN Append(allocs, [ip |-> allocator[c].ip, released |-> FALSE]) ELSE allocs
  /\ allocator' = [allocator EXCEPT ![c].pc = "idle"]
  /\ UNCHANGED <<pool, ipamRest>>

\* The call returns an error: no address is free, or the INSERT failed.
AllocateEnds(c) ==
  /\ allocator[c].pc = "exhausted" \/ (allocator[c].pc = "insert" /\ ~TableInMemory)
  /\ allocator' = [allocator EXCEPT ![c].pc = "idle"]
  /\ UNCHANGED <<pool, allocs, ipamRest>>

\* The row stays, with the time of its release.
ReleaseIP(i) ==
  /\ i \in DOMAIN allocs /\ ~allocs[i].released
  /\ allocs' = [allocs EXCEPT ![i].released = TRUE]
  /\ UNCHANGED <<pool, allocator, ipamRest>>

\* GetPoolUtilization and calculateTotalHostIPs: the gateway counts as free.
TotalHostIPs == IF HostBits <= 1 THEN 2 ELSE 2^HostBits - 2

FreeIPs == IF Cardinality(Taken) > TotalHostIPs THEN 0 ELSE TotalHostIPs - Cardinality(Taken)

(***************************************************************************)
(* The firewall: the table first, then the node, whose error is dropped.   *)
(* The command the gateway builds carries no rules (gateway.go:360).       *)
(***************************************************************************)
fwRest == <<pool, allocs, allocator, inst, nodeIp, config, power>>

\* ReplaceInstanceRules, one transaction.
ReplaceInstanceRules(c) ==
  /\ firewall[c] = "idle"
  /\ rules' = c
  /\ firewall' = [firewall EXCEPT ![c] = "send"]
  /\ UNCHANGED <<nodeRules, fwRest>>

CommandRules(c) == "none"

ApplyFirewallRules(c, sent) ==
  /\ firewall[c] = "send"
  /\ nodeRules' = IF sent THEN CommandRules(c) ELSE nodeRules
  /\ firewall' = [firewall EXCEPT ![c] = "done"]
  /\ UNCHANGED <<rules, fwRest>>

(***************************************************************************)
(* The interface: the row is read, written with the status it had, and     *)
(* the node told.                                                          *)
(***************************************************************************)
cfgRest == <<pool, allocs, allocator, rules, nodeRules, firewall>>

ConfigureReads(c) ==
  /\ config[c].pc = "idle"
  /\ config' = [config EXCEPT ![c] = [pc |-> "write", copy |-> inst]]
  /\ UNCHANGED <<inst, nodeIp, power, cfgRest>>

ConfigureWrites(c) ==
  /\ config[c].pc = "write"
  /\ inst' = [config[c].copy EXCEPT !.ip = c]
  /\ config' = [config EXCEPT ![c].pc = "send"]
  /\ UNCHANGED <<nodeIp, power, cfgRest>>

\* The node's failure is returned, and the row keeps the new address.
ConfigureNetwork(c, sent) ==
  /\ config[c].pc = "send"
  /\ nodeIp' = IF sent THEN c ELSE nodeIp
  /\ config' = [config EXCEPT ![c].pc = IF sent THEN "done" ELSE "failed"]
  /\ UNCHANGED <<inst, power, cfgRest>>

\* Another call, of the compute service, changes the status.
PowerChange ==
  /\ power < MaxPower /\ power' = power + 1
  /\ \E s \in {"running", "stopped"} \ {inst.status} : inst' = [inst EXCEPT !.status = s]
  /\ UNCHANGED <<nodeIp, config, cfgRest>>

NextAddress ==
  \/ \E spelling \in {"canonical", "respelled"} : CreatePool(spelling)
  \/ \E c \in Allocators : AllocateIP(c) \/ AllocationCreate(c) \/ AllocateEnds(c)
  \/ \E i \in 1..MaxRows : ReleaseIP(i)

NextInterface ==
  \/ \E c \in Firewalls : ReplaceInstanceRules(c) \/ \E sent \in BOOLEAN : ApplyFirewallRules(c, sent)
  \/ \E c \in Configurers :
       ConfigureReads(c) \/ ConfigureWrites(c) \/ \E sent \in BOOLEAN : ConfigureNetwork(c, sent)
  \/ PowerChange

Next == NextAddress \/ NextInterface

Spec == Init /\ [][Next]_netVars

(***************************************************************************)
(* No address is in use twice, and none in use is the network's, the       *)
(* broadcast address or a gateway written the way addresses are printed,   *)
(* though the choice and the insert are two steps that other calls         *)
(* interleave with (ipam/service.go:139).  A gateway spelled otherwise is  *)
(* handed out: :149 compares strings, :65 compared addresses.              *)
(***************************************************************************)
NoSharedAddress ==
  /\ \A i, j \in DOMAIN allocs :
       (i # j /\ ~allocs[i].released /\ ~allocs[j].released) => allocs[i].ip # allocs[j].ip
  /\ Taken \subseteq HostAddresses
  /\ pool = "canonical" => Gateway \notin Taken

(***************************************************************************)
(* While no call is between its choice and its insert, the address the     *)
(* next call would choose can be inserted: a pool with a free address      *)
(* serves it.  In postgres it does not once the lowest free address was    *)
(* ever released: every later call fails.                                  *)
(***************************************************************************)
FreeIsUsable ==
  (\A c \in Allocators : allocator[c].pc = "idle") =>
    (findNextAvailableIP(Taken) = 0 \/ Insertable(findNextAvailableIP(Taken)))

(***************************************************************************)
(* The pool reports a free address only when it has one.  It does not: the *)
(* gateway is counted, and a block of two addresses has no host at all     *)
(* (service.go:298).                                                       *)
(***************************************************************************)
FreeIsReported == FreeIPs > 0 => Available(Taken) # {}

(***************************************************************************)
(* When the last firewall call has reached the node, the node has the      *)
(* table's rules.  It never has: the command is sent without them.         *)
(***************************************************************************)
RulesReachNode ==
  [][\A c \in Firewalls : ApplyFirewallRules(c, TRUE) => nodeRules' = rules]_netVars
=============================================================================
