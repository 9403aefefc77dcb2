-------------------------------- MODULE Dhcp --------------------------------
(* Address allocation without a server (easytier-core, gateway/dhcp.rs): every node *)
(* picks an address its routes do not show as taken, has its host put it on the     *)
(* interface, and announces in its own route what the host really configured. Nodes *)
(* see each other's routes late, the host may fail with the old address in place or *)
(* removed, and the interface may be closed at any time. One family is modelled       *)
(* (IPv4); an address is a subnet and a host number in it.                          *)
EXTENDS Naturals, FiniteSets, FiniteSetsExt

CONSTANTS Hosts,          \* nodes
          Subnets,        \* subnets, in the order of their first addresses
          MaxHost,        \* a subnet has the host numbers 1 .. MaxHost to give
          WaitRounds,     \* BOOTSTRAP_WAIT_ROUNDS
          MaxUnlucky,     \* bound: random picks that hit another node's address
          MaxDhEvents     \* bound: host failures, closed interfaces and lost routes

VARIABLES
  default,    \* per node: its default_subnet
  current,    \* the allocator's current
  rounds,     \* no_address_rounds
  needsApply, \* needs_apply
  applying,   \* the address the host is asked for, or Resting
  iface,      \* what the host has configured
  ifClosed,   \* the host's interface_closed flag
  announced,  \* routes.ipv4 of the node's runtime configuration, which its route carries
  view,       \* per node: the address each other node's route shows
  unlucky,    \* picks that hit the address another node has or is being given (ghost)
  dhEvents

dhVars == <<default, current, rounds, needsApply, applying, iface, ifClosed, announced, view,
            unlucky, dhEvents>>

NoAddr == <<0, 0>>
Resting == <<0, 1>>
Addresses == Subnets \X (1 .. MaxHost)

DhInit ==
  /\ default \in [Hosts -> Subnets]
  /\ current = [n \in Hosts |-> NoAddr] /\ rounds = [n \in Hosts |-> 0]
  /\ needsApply = [n \in Hosts |-> TRUE] /\ applying = [n \in Hosts |-> Resting]
  /\ iface = [n \in Hosts |-> NoAddr] /\ ifClosed = [n \in Hosts |-> FALSE]
  /\ announced = [n \in Hosts |-> NoAddr]
  /\ view = [n \in Hosts |-> [m \in Hosts \ {n} |-> NoAddr]]
  /\ unlucky = 0 /\ dhEvents = 0

-----------------------------------------------------------------------------
\* evaluate_with.

UsedBy(n) == {view[n][m] : m \in Hosts \ {n}} \ {NoAddr}

\* The subnet it allocates from: the one it is in if others are, else the first advertised,
\* else its own, else the default one.
SubnetFor(n) ==
  LET advertised == {a[1] : a \in UsedBy(n)} IN
  IF advertised # {} THEN IF current[n][1] \in advertised THEN current[n][1] ELSE Min(advertised)
  ELSE IF current[n] # NoAddr THEN current[n][1] ELSE default[n]

Waits(n) == UsedBy(n) = {} /\ current[n] = NoAddr /\ rounds[n] < WaitRounds

\* The address it has stays unless it is in another subnet or a route shows it as taken.
Keeps(n) == current[n] # NoAddr /\ current[n][1] = SubnetFor(n) /\ current[n] \notin UsedBy(n)

PickFirst(n) ==
  LET free == {h \in 1 .. MaxHost : <<SubnetFor(n), h>> \notin UsedBy(n)} IN
  IF free = {} THEN {NoAddr} ELSE {<<SubnetFor(n), Min(free)>>}

\* What it may pick: the first free number, or any free one at the start of a network and
\* after a conflict (the search begins at a random offset); nothing when none is free.
Pick(n) ==
  LET free == {h \in 1 .. MaxHost : <<SubnetFor(n), h>> \notin UsedBy(n)}
      spread == UsedBy(n) = {} \/ current[n] # NoAddr IN
  IF free = {} THEN {NoAddr}
  ELSE {<<SubnetFor(n), h>> : h \in IF spread THEN free ELSE {Min(free)}}

\* The addresses a round may ask for.
NextAddresses(n) == IF Waits(n) \/ Keeps(n) THEN {current[n]} ELSE Pick(n)

NextRounds(n) ==
  IF UsedBy(n) # {} THEN 0 ELSE IF current[n] # NoAddr \/ rounds[n] > WaitRounds THEN rounds[n] ELSE rounds[n] + 1

-----------------------------------------------------------------------------
\* reconcile_once.

Target(n) == IF applying[n] = Resting THEN current[n] ELSE applying[n]
Collides(n, a) == a # NoAddr /\ a # current[n] /\ \E m \in Hosts \ {n} : Target(m) = a

\* Up to the host: nothing is asked of it when there is nothing new.
Evaluate(n, next) ==
  /\ applying[n] = Resting /\ next \in NextAddresses(n)
  /\ ifClosed' = [ifClosed EXCEPT ![n] = FALSE]
  /\ rounds' = [rounds EXCEPT ![n] = NextRounds(n)]
  /\ IF next = current[n] /\ ~needsApply[n] /\ ~ifClosed[n]
     THEN UNCHANGED <<applying, needsApply>>
     ELSE /\ applying' = [applying EXCEPT ![n] = next]
          /\ needsApply' = [needsApply EXCEPT ![n] = TRUE]
  /\ unlucky' = unlucky + (IF Cardinality(NextAddresses(n)) > 1 /\ Collides(n, next) THEN 1 ELSE 0)
  /\ unlucky' <= MaxUnlucky
  /\ UNCHANGED <<default, current, iface, announced, view, dhEvents>>

\* The host has done it.
HostOk(n) ==
  /\ applying[n] # Resting /\ applying' = [applying EXCEPT ![n] = Resting]
  /\ iface' = [iface EXCEPT ![n] = applying[n]]
  /\ announced' = [announced EXCEPT ![n] = applying[n]]
  /\ current' = [current EXCEPT ![n] = applying[n]]
  /\ needsApply' = [needsApply EXCEPT ![n] = FALSE]
  /\ UNCHANGED <<default, rounds, ifClosed, view, unlucky, dhEvents>>

\* The host has failed, with the old address in place or without any.
HostFails(n) ==
  /\ applying[n] # Resting /\ applying' = [applying EXCEPT ![n] = Resting]
  /\ dhEvents < MaxDhEvents /\ dhEvents' = dhEvents + 1
  /\ iface' \in {iface, [iface EXCEPT ![n] = NoAddr]}
  /\ announced' = [announced EXCEPT ![n] = iface'[n]]
  /\ UNCHANGED <<default, current, rounds, needsApply, ifClosed, view, unlucky>>

\* The interface goes away, and with it its address.
InterfaceCloses(n) ==
  /\ dhEvents < MaxDhEvents /\ dhEvents' = dhEvents + 1
  /\ iface' = [iface EXCEPT ![n] = NoAddr] /\ ifClosed' = [ifClosed EXCEPT ![n] = TRUE]
  /\ UNCHANGED <<default, current, rounds, needsApply, applying, announced, view, unlucky>>

\* The other node's route arrives, or its route is lost for a while.
Learn(n, m) ==
  /\ view[n][m] # announced[m] /\ view' = [view EXCEPT ![n][m] = announced[m]]
  /\ UNCHANGED <<default, current, rounds, needsApply, applying, iface, ifClosed, announced, unlucky, dhEvents>>

LoseRoute(n, m) ==
  /\ dhEvents < MaxDhEvents /\ dhEvents' = dhEvents + 1
  /\ view[n][m] # NoAddr /\ view' = [view EXCEPT ![n][m] = NoAddr]
  /\ UNCHANGED <<default, current, rounds, needsApply, applying, iface, ifClosed, announced, unlucky>>

DhNext ==
  \E n \in Hosts :
    \/ \E a \in NextAddresses(n) : Evaluate(n, a)
    \/ HostOk(n) \/ HostFails(n) \/ InterfaceCloses(n)
    \/ \E m \in Hosts \ {n} : Learn(n, m) \/ LoseRoute(n, m)

DhSpec == DhInit /\ [][DhNext]_dhVars

\* Rounds repeat, the host answers and routes arrive.
DhFairness ==
  \A n \in Hosts :
    /\ WF_dhVars(\E a \in NextAddresses(n) : Evaluate(n, a)) /\ WF_dhVars(HostOk(n))
    /\ \A m \in Hosts \ {n} : WF_dhVars(Learn(n, m))
DhFairSpec == DhSpec /\ DhFairness

-----------------------------------------------------------------------------

\* Every variable has its type, and no node waits longer than the rounds it grants others
\* to announce a subnet (no_address_rounds).
DhTypeOK ==
  /\ \A n \in Hosts :
       /\ {current[n], iface[n], announced[n]} \subseteq Addresses \cup {NoAddr}
       /\ applying[n] \in Addresses \cup {NoAddr, Resting} /\ rounds[n] \in 0 .. WaitRounds + 1
       /\ \A m \in Hosts \ {n} : view[n][m] \in Addresses \cup {NoAddr}
  /\ needsApply \in [Hosts -> BOOLEAN] /\ ifClosed \in [Hosts -> BOOLEAN]

\* Nodes with one default subnet and room in it end, once failures stop, with different
\* addresses that their hosts have configured, and keep them: conflicts between stale
\* views are noticed and dissolve (evaluate_with, reconcile_once).
Apart ==
  (\A n, m \in Hosts : default[n] = default[m]) =>
    \A n \in Hosts :
      /\ iface[n] = current[n] /\ announced[n] = current[n] /\ current[n] # NoAddr
      /\ \A m \in Hosts \ {n} : current[m] # current[n]
SettleApart == <>[]Apart
=============================================================================
