----------------------------- MODULE PppConnect -----------------------------
(***************************************************************************)
(* PPP over a serial line (ppp_connect.c).  A task of its own feeds the    *)
(* interface from the UART; the handler sets bits of an event group, on    *)
(* any of which the main task wakes up.                                    *)
(***************************************************************************)
EXTENDS Interfaces

CONSTANT PppMaxRetry    \* CONFIG_EXAMPLE_PPP_CONN_MAX_RETRY

ASSUME PppMaxRetryAssumption == PppMaxRetry \in Nat

VARIABLES
    group,      \* the bits of s_event_group, or {"null"} without one
    retryNum,   \* s_retry_num
    link,       \* the connection with the PPP server
    stopTask,   \* s_stop_task
    pppTask     \* the UART's task: "none", "receiving" from the queue,
                \* "feeding" s_netif, "ended"

pppVars == <<group, retryNum, link, stopTask, pppTask>>

PppBits == {"GOT_IPV4", "CONNECTION_FAILED"}
           \cup (IF build.ipv6 THEN {"GOT_IPV6"} ELSE {})

PppInit ==
    /\ group = {"null"}
    /\ retryNum = 0
    /\ link = "none"
    /\ stopTask = FALSE
    /\ pppTask = "none"

SetBit(b) == group' = (group \cup {b}) \ {"null"}

(* Everything up to the wait.                                              *)
example_ppp_connect ==
    /\ "ppp" \notin netifs
    /\ Goes("ppp", "connect", "wait")
    /\ group' = {}
    /\ handlers' = handlers \cup {"ppp"}
    /\ netifs' = netifs \cup {"ppp"}
    /\ Nothing("ppp")
    /\ link' = "negotiating"
    /\ stopTask' = FALSE
    /\ pppTask' = "receiving"
    /\ UNCHANGED <<build, sems, retryNum>>

(* The task cannot be created: the rest stays behind.                      *)
pppNoTask ==
    /\ "ppp" \notin netifs
    /\ Goes("ppp", "connect", "error")
    /\ group' = {}
    /\ handlers' = handlers \cup {"ppp"}
    /\ netifs' = netifs \cup {"ppp"}
    /\ stopTask' = FALSE
    /\ UNCHANGED <<build, sems, got, retryNum, link, pppTask>>

(* A broken variant: it waits for all bits.                                *)
WokenByAll == PppBits \subseteq group

(* xEventGroupWaitBits: any bit will do, and none is cleared.              *)
Woken == group \cap PppBits # {}

(* Broken variant: the reason for waking up is not looked at.              *)
waitBitsUnchecked ==
    /\ Goes("ppp", "wait", "ok")
    /\ Woken
    /\ UNCHANGED <<build, handlers, netifs, sems, got, pppVars>>

waitBits ==
    /\ Woken
    /\ Goes("ppp", "wait", IF "CONNECTION_FAILED" \in group THEN "error" ELSE "ok")
    /\ UNCHANGED <<build, handlers, netifs, sems, got, pppVars>>

(* on_ip_event: an address has come.                                       *)
pppGotAddress(f) ==
    /\ Alive
    /\ "ppp" \in handlers
    /\ link = "negotiating"
    /\ f = "ip6" => build.ipv6
    /\ SetBit(IF f = "ip4" THEN "GOT_IPV4" ELSE "GOT_IPV6")
    /\ Comes("ppp", f)
    /\ UNCHANGED <<build, pc, handlers, netifs, sems, retryNum, link, stopTask, pppTask>>

(* A broken variant: the count is not compared with the limit.             *)
pppLostUnlimited ==
    /\ Alive
    /\ "ppp" \in handlers
    /\ link = "negotiating"
    /\ retryNum' = retryNum + 1
    /\ UNCHANGED <<build, pc, handlers, netifs, sems, got, group, link, stopTask, pppTask>>

(* on_ip_event: the connection was lost; it is tried again, or given up.   *)
(* Nothing ever resets the count.                                          *)
pppLost ==
    /\ Alive
    /\ "ppp" \in handlers
    /\ link = "negotiating"
    /\ retryNum' = retryNum + 1
    /\ IF retryNum' > PppMaxRetry
       THEN SetBit("CONNECTION_FAILED") /\ link' = "given_up"
       ELSE UNCHANGED <<group, link>>
    /\ UNCHANGED <<build, pc, handlers, netifs, sems, got, stopTask, pppTask>>

(* ppp_task registers esp_netif_action_connected for its interface, and    *)
(* nobody unregisters it: an address that still was in the event loop's    *)
(* queue when the interface was destroyed makes it use what is gone.       *)
actionConnected ==
    /\ Alive
    /\ pppTask # "none"
    /\ "ppp" \notin netifs
    /\ Abort("ppp")
    /\ UNCHANGED <<build, handlers, netifs, sems, got, pppVars>>

(* ppp_task: xQueueReceive returns, after a second if not before, and what *)
(* has come is passed to s_netif.                                          *)
pppTaskReceives ==
    /\ Alive
    /\ pppTask = "receiving"
    /\ pppTask' = "feeding"
    /\ UNCHANGED <<netVars, group, retryNum, link, stopTask>>

pppTaskFeeds ==
    /\ Alive
    /\ pppTask = "feeding"
    /\ pppTask' = IF stopTask THEN "ended" ELSE "receiving"
    /\ IF "ppp" \in netifs THEN UNCHANGED pc ELSE UNCHANGED pc \/ Abort("ppp")
    /\ UNCHANGED <<build, handlers, netifs, sems, got, group, retryNum, link, stopTask>>

(* A broken variant: the handler stays registered.                         *)
pppStopsTaskOnly ==
    /\ Goes("ppp", "shutdown", "delay")
    /\ stopTask' = TRUE
    /\ UNCHANGED <<build, handlers, netifs, sems, got, group, retryNum, link, pppTask>>

(* example_ppp_shutdown asks the task to stop and waits one second ...     *)
pppStopsTask ==
    /\ Goes("ppp", "shutdown", "delay")
    /\ handlers' = handlers \ {"ppp"}
    /\ stopTask' = TRUE
    /\ UNCHANGED <<build, netifs, sems, got, group, retryNum, link, pppTask>>

(* ... which is as long as the task may wait for its queue: afterwards it  *)
(* has ended, or is in its last round.                                     *)
pppDestroys ==
    /\ Goes("ppp", "delay", "down")
    /\ pppTask # "receiving"
    /\ netifs' = netifs \ {"ppp"}
    /\ group' = {"null"}
    /\ link' = "none"
    /\ UNCHANGED <<build, handlers, sems, got, retryNum, stopTask, pppTask>>

PppMain ==
    \/ example_ppp_connect
    \/ pppNoTask
    \/ assertNetif("ppp") /\ UNCHANGED pppVars
    \/ waitBits
    \/ pppStopsTask
    \/ pppDestroys

PppEvents ==
    \/ \E f \in {"ip4", "ip6"} : pppGotAddress(f)
    \/ pppLost
    \/ actionConnected

PppTask == pppTaskReceives \/ pppTaskFeeds
=============================================================================
