----------------------------- MODULE Establish ------------------------------
(***************************************************************************)
(* How __RunConnect gets from a host to a socket (tcp_client.cpp:359-384): *)
(* DnsQuery finds the addresses, ComplexConnect races attempts to them.    *)
(* The client does this again whenever it connects, so several calls of    *)
(* GetHostByName precede the race that is looked at.                       *)
(*                                                                         *)
(* The race reads nothing of the resolver but the addresses, and a query   *)
(* that is still running then does nothing it could not do in the next     *)
(* call; so the resolver is set back when the race begins.                 *)
(***************************************************************************)
EXTENDS DnsQuery, ComplexConnect

VARIABLES
    addrs,      \* addrs: for each connector the place of its address in ips
    ipNum       \* ips.size(), up to the number of attempts

establishVars == <<dnsVars, vars, addrs, ipNum>>

EstablishInit == DnsInit /\ Init /\ addrs = <<>> /\ ipNum = 0

Racing == addrs # <<>>

Resolve ==
    /\ ~Racing
    /\ DnsNext
    /\ UNCHANGED <<vars, addrs, ipNum>>

\* Mutant: ipIndex is not advanced.
AddressesOfFirst(n) == [i \in Index |-> 1]

\* ipIndex starts again when the addresses are used up.
Addresses(n) == [i \in Index |-> ((i - 1) % n) + 1]

StartRace ==
    /\ ~Racing
    /\ dpc = "answered"
    /\ addrs' = Addresses(Len(ips))
    /\ ipNum' = Min({Len(ips), N})
    /\ dpc' = "idle" /\ call' = MaxCalls /\ selRet' = "none" /\ ips' = <<>>
    /\ retb' = NewBreaker(TRUE) /\ cacheIps' = <<>> /\ crossed' = FALSE
    /\ query' = [c \in Calls |-> "none"]
    /\ found' = [c \in Calls |-> 0] /\ left' = [c \in Calls |-> 0]
    /\ UNCHANGED vars

Race ==
    /\ Racing
    /\ Next
    /\ UNCHANGED <<dnsVars, addrs, ipNum>>

EstablishNext == Resolve \/ StartRace \/ Race

EstablishSpec == EstablishInit /\ [][EstablishNext]_establishVars

\* The client thread keeps running, in GetHostByName (the http resolver
\* returns) and in the race, whose rounds take time.  Nothing is assumed of
\* the threads of queries.
EstablishFairSpec ==
    /\ EstablishSpec
    /\ WF_establishVars(~Racing /\ (CallerSteps \/ SelectEnds) /\ UNCHANGED <<vars, addrs, ipNum>>)
    /\ WF_establishVars(Racing /\ RaceSteps /\ UNCHANGED <<dnsVars, addrs, ipNum>>)
    /\ SF_establishVars(Racing /\ SlowRound /\ UNCHANGED <<dnsVars, addrs, ipNum>>)

-----------------------------------------------------------------------------
(***************************************************************************)
(* Types of the resolver's and the race's state.  A race has addresses,    *)
(* and every connector one of them: ips[ipIndex] is within the answer      *)
(* (tcp_client.cpp:375, dns_query.cpp:103-105).                            *)
(***************************************************************************)
EstablishTypeOK ==
    /\ DnsTypeOK
    /\ TypeOK
    /\ ipNum \in 0..N
    /\ Racing => ipNum > 0 /\ addrs \in [Index -> 1..ipNum]

(***************************************************************************)
(* When no connection comes about and nobody has stopped the race, an      *)
(* attempt has been made to every address of the resolver's answer, up to  *)
(* the number of attempts (tcp_client.cpp:369-380).                        *)
(***************************************************************************)
EveryIpTried ==
    (Racing /\ pc = "done" /\ result = 0 /\ ~stopped) =>
        \A p \in 1..ipNum : \E i \in 1..index : addrs[i] = p

(***************************************************************************)
(* GetHostByName ends even if the system resolver never answers            *)
(* (dns_query.cpp:74-78).                                                  *)
(***************************************************************************)
ResolveEnds == (dpc = "clear") ~> (dpc \in {"answered", "stopped", "idle"})

(***************************************************************************)
(* ConnectImpatient ends, whatever the servers do.                         *)
(***************************************************************************)
RaceEnds == Racing ~> pc = "done"
-----------------------------------------------------------------------------
\* Every address up to the number of attempts has its connector; inductive,
\* module EstablishProofs.
AddressShape == Racing => \A p \in 1..ipNum : addrs[p] = p
=============================================================================
