----------------------------- MODULE EthConnect -----------------------------
(***************************************************************************)
(* Ethernet (eth_connect.c).  The driver raises events only between        *)
(* esp_eth_start and esp_eth_stop, so connecting up to its first wait is   *)
(* one step.                                                               *)
(***************************************************************************)
EXTENDS Interfaces

EthSem(f) == IF f = "ip4" THEN "eth_ip4" ELSE "eth_ip6"
EthSems == {EthSem(f) : f \in Families}

TakePc(f) == IF f = "ip4" THEN "take_ip4" ELSE "take_ip6"

(* What example_ethernet_connect does once it has waited for fs.           *)
EthWaits(fs) ==
    CASE "ip4" \in Families \ fs -> "take_ip4"
      [] Families \ fs = {"ip6"} -> "take_ip6"
      [] OTHER -> "ok"

takeEthernet(f) ==
    /\ Goes("eth", TakePc(f), EthWaits({"ip4", f}))
    /\ Take(EthSem(f))
    /\ UNCHANGED <<build, handlers, netifs, got>>

example_ethernet_connect ==
    /\ "eth" \notin netifs
    /\ Goes("eth", "connect", EthWaits({}))
    /\ sems' = With(EthSems, "empty")
    /\ handlers' = handlers \cup {"eth"}
    /\ netifs' = netifs \cup {"eth"}
    /\ Nothing("eth")
    /\ UNCHANGED build

(* The first semaphore cannot be allocated, or the second, for which the   *)
(* first is deleted but not forgotten.                                     *)
ethernetNoMemory ==
    /\ Goes("eth", "connect", "error")
    /\ \/ "ip4" \in Families /\ sems' = With({"eth_ip4"}, "null")
       \/ "ip6" \in Families
          /\ sems' = [With(EthSems, "deleted") EXCEPT !["eth_ip6"] = "null"]
    /\ UNCHANGED <<build, handlers, netifs, got>>

(* eth_on_got_ip and eth_on_got_ipv6.  The first is registered even when   *)
(* the build has no semaphore for it.                                      *)
eth_on_got(f) ==
    /\ "eth" \in netifs
    /\ f = "ip6" => build.ipv6
    /\ Give("eth", EthSem(f))
    /\ Comes("eth", f)
    /\ UNCHANGED <<build, netifs>>

(* The link is up, and no link-local address can be made.                  *)
on_eth_event ==
    /\ Alive
    /\ build.ipv6
    /\ "eth" \in handlers \cap netifs
    /\ Abort("eth")
    /\ UNCHANGED <<build, handlers, netifs, sems, got>>

(* Without a semaphore for IPv4 there is nothing to do, it says; otherwise *)
(* the semaphores go before the handlers that give them.                   *)
example_ethernet_shutdown ==
    /\ IF sems["eth_ip4"] = "null"
       THEN Goes("eth", "shutdown", "down") /\ UNCHANGED sems
       ELSE Goes("eth", "shutdown", "stop") /\ sems' = With(EthSems, "null")
    /\ UNCHANGED <<build, handlers, netifs, got>>

eth_stop ==
    /\ Goes("eth", "stop", "down")
    /\ handlers' = handlers \ {"eth"}
    /\ netifs' = netifs \ {"eth"}
    /\ UNCHANGED <<build, sems, got>>

EthMain ==
    \/ example_ethernet_connect
    \/ ethernetNoMemory
    \/ assertNetif("eth")
    \/ \E f \in Families : takeEthernet(f)
    \/ example_ethernet_shutdown
    \/ eth_stop

EthEvents == (\E f \in {"ip4", "ip6"} : eth_on_got(f)) \/ on_eth_event
=============================================================================
