--------------------------- MODULE ExampleConnect ---------------------------
(***************************************************************************)
(* connect.c over all interfaces that a build may choose: example_connect  *)
(* connects them one after the other and registers a shutdown handler for  *)
(* each, example_disconnect is its counterpart, and esp_restart runs the   *)
(* shutdown handlers, last one first.  Ethernet, Thread and PPP are in     *)
(* detail; Wi-Fi is what WifiConnect is shown to implement.                *)
(*                                                                         *)
(* The caller is app_main, which aborts when example_connect fails, and    *)
(* later code of an application, which may disconnect, connect again and   *)
(* restart.                                                                *)
(***************************************************************************)
EXTENDS EthConnect, ThreadConnect, PppConnect

VARIABLES
    wifi,               \* state of the Wi-Fi interface
    shutdownHandlers,   \* interfaces with a registered shutdown handler
    restarting          \* esp_restart has been called

vars == <<netVars, otTask, pppVars, wifi, shutdownHandlers, restarting>>

Wifi == INSTANCE Netif WITH
    state <- wifi, needed <- Families, addresses <- got["wifi"]

Init ==
    /\ build \in Builds
    /\ NetInit
    /\ otTask = "none"
    /\ PppInit
    /\ wifi = "down"
    /\ shutdownHandlers = {}
    /\ restarting = FALSE

-----------------------------------------------------------------------------
(* The order of the interfaces in connect.c.                               *)
Rank == [none |-> 0, eth |-> 1, wifi |-> 2, thread |-> 3, ppp |-> 4]

(* The main task goes on with the first of is, in order, or is done.       *)
GoesThrough(is, step, done) ==
    \/ is = {} /\ pc' = <<done, "none">>
    \/ \E i \in is : /\ \A j \in is : Rank[i] <= Rank[j]
                     /\ pc' = <<step, i>>

Later(i) == {j \in Chosen : Rank[j] > Rank[i]}

(* example_connect begins, at start-up or after example_disconnect.        *)
example_connect ==
    /\ pc \in {<<"boot", "none">>, <<"disconnected", "none">>}
    /\ GoesThrough(Chosen, "connect", "connected")
    /\ UNCHANGED <<build, handlers, netifs, sems, got, otTask, pppVars, wifi,
                   shutdownHandlers, restarting>>

(* An interface is connected; its shutdown handler must not be registered  *)
(* yet.                                                                    *)
registerShutdownHandler(i) ==
    /\ pc = <<"ok", i>>
    /\ IF i \in shutdownHandlers
       THEN Abort(i) /\ UNCHANGED shutdownHandlers
       ELSE /\ shutdownHandlers' = shutdownHandlers \cup {i}
            /\ GoesThrough(Later(i), "connect", "connected")
    /\ UNCHANGED <<build, handlers, netifs, sems, got, otTask, pppVars, wifi, restarting>>

(* ESP_ERROR_CHECK(example_connect()) in app_main.                         *)
connectFailed ==
    /\ pc[1] = "error"
    /\ Abort(pc[2])
    /\ UNCHANGED <<build, handlers, netifs, sems, got, otTask, pppVars, wifi,
                   shutdownHandlers, restarting>>

(* The interfaces that example_disconnect knows of.                        *)
Disconnects == Chosen \cap {"eth", "wifi"}

example_disconnect ==
    /\ pc = <<"connected", "none">>
    /\ GoesThrough(Disconnects, "shutdown", "disconnected")
    /\ UNCHANGED <<build, handlers, netifs, sems, got, otTask, pppVars, wifi,
                   shutdownHandlers, restarting>>

(* A broken variant: the shutdown handler stays registered.                *)
keepShutdownHandler(i) ==
    /\ pc = <<"down", i>>
    /\ ~restarting
    /\ GoesThrough(Disconnects \cap Later(i), "shutdown", "disconnected")
    /\ UNCHANGED <<build, handlers, netifs, sems, got, otTask, pppVars, wifi,
                   shutdownHandlers, restarting>>

unregisterShutdownHandler(i) ==
    /\ pc = <<"down", i>>
    /\ ~restarting
    /\ shutdownHandlers' = shutdownHandlers \ {i}
    /\ GoesThrough(Disconnects \cap Later(i), "shutdown", "disconnected")
    /\ UNCHANGED <<build, handlers, netifs, sems, got, otTask, pppVars, wifi, restarting>>

(* A broken variant: the handler registered first comes first.             *)
Earliest(is, i) == i \in is /\ \A j \in is : Rank[i] <= Rank[j]

(* esp_restart: the handler registered last comes first.                   *)
Latest(is, i) == i \in is /\ \A j \in is : Rank[j] <= Rank[i]

esp_restart ==
    /\ pc \in {<<"connected", "none">>, <<"disconnected", "none">>}
    /\ restarting' = TRUE
    /\ \/ \E i \in shutdownHandlers :
             Latest(shutdownHandlers, i) /\ pc' = <<"shutdown", i>>
       \/ shutdownHandlers = {} /\ pc' = <<"halted", "none">>
    /\ UNCHANGED <<build, handlers, netifs, sems, got, otTask, pppVars, wifi,
                   shutdownHandlers>>

(* A broken variant: the same handler is called again.                     *)
sameShutdownHandler(i) ==
    /\ pc = <<"down", i>>
    /\ restarting
    /\ pc' = <<"shutdown", i>>
    /\ UNCHANGED <<build, handlers, netifs, sems, got, otTask, pppVars, wifi,
                   shutdownHandlers, restarting>>

nextShutdownHandler(i) ==
    /\ pc = <<"down", i>>
    /\ restarting
    /\ LET left == {j \in shutdownHandlers : Rank[j] < Rank[i]}
       IN  \/ \E j \in left : Latest(left, j) /\ pc' = <<"shutdown", j>>
           \/ left = {} /\ pc' = <<"halted", "none">>
    /\ UNCHANGED <<build, handlers, netifs, sems, got, otTask, pppVars, wifi,
                   shutdownHandlers, restarting>>

(* The chip starts again, in order or after a failed assertion.            *)
boots ==
    /\ pc[1] \in {"halted", "aborted"}
    /\ pc' = <<"boot", "none">>
    /\ handlers' = {} /\ netifs' = {} /\ shutdownHandlers' = {}
    /\ sems' = With(SemNames, "null")
    /\ got' = [i \in Names |-> {}]
    /\ otTask' = "none"
    /\ group' = {"null"} /\ retryNum' = 0 /\ link' = "none"
    /\ stopTask' = FALSE /\ pppTask' = "none"
    /\ wifi' = "down"
    /\ restarting' = FALSE
    /\ UNCHANGED build

-----------------------------------------------------------------------------
(* Wi-Fi, by its promise.                                                  *)
WifiUnchanged ==
    UNCHANGED <<build, handlers, netifs, sems, otTask, pppVars,
                shutdownHandlers, restarting>>

example_wifi_connect ==
    /\ \/ Nothing("wifi") /\ Wifi!Connect
          /\ Goes("wifi", "connect", IF wifi' = "failed" THEN "error" ELSE "wait")
       \/ UNCHANGED got
          /\ \/ Goes("wifi", "wait", "ok") /\ Wifi!Succeed
             \/ Goes("wifi", "wait", "error") /\ Wifi!Fail
    /\ WifiUnchanged

wifiGotAddress ==
    /\ Alive
    /\ \E f \in Families : Comes("wifi", f)
    /\ Wifi!GetAddress
    /\ UNCHANGED pc
    /\ WifiUnchanged

example_wifi_shutdown ==
    /\ Goes("wifi", "shutdown", "down")
    /\ Nothing("wifi")
    /\ Wifi!Shutdown
    /\ WifiUnchanged

wifiAborts ==
    /\ Alive
    /\ wifi # "down"
    /\ Abort("wifi")
    /\ UNCHANGED <<wifi, got>>
    /\ WifiUnchanged

-----------------------------------------------------------------------------
Main ==
    \/ example_connect
    \/ \E i \in Chosen : registerShutdownHandler(i)
    \/ connectFailed
    \/ \E i \in Chosen : unregisterShutdownHandler(i)
    \/ \E i \in Chosen : nextShutdownHandler(i)
    \/ boots
    \/ EthMain /\ UNCHANGED <<otTask, pppVars, wifi, shutdownHandlers, restarting>>
    \/ ThreadMain /\ UNCHANGED <<pppVars, wifi, shutdownHandlers, restarting>>
    \/ PppMain /\ UNCHANGED <<otTask, wifi, shutdownHandlers, restarting>>
    \/ example_wifi_shutdown

Checks ==
    /\ \E i \in Chosen : checkFails(i)
    /\ UNCHANGED <<otTask, pppVars, wifi, shutdownHandlers, restarting>>

Application == example_disconnect \/ esp_restart

Tasks ==
    \/ (otTaskStarts \/ otTaskEnds)
       /\ UNCHANGED <<pppVars, wifi, shutdownHandlers, restarting>>
    \/ PppTask /\ UNCHANGED <<otTask, wifi, shutdownHandlers, restarting>>

EventLoop ==
    \/ EthEvents /\ UNCHANGED <<otTask, pppVars, wifi, shutdownHandlers, restarting>>
    \/ ThreadEvents /\ UNCHANGED <<pppVars, wifi, shutdownHandlers, restarting>>
    \/ PppEvents /\ UNCHANGED <<otTask, wifi, shutdownHandlers, restarting>>
    \/ wifiGotAddress
    \/ wifiAborts

Next == Main \/ example_wifi_connect \/ Checks \/ Application \/ Tasks \/ EventLoop

(* The tasks run when they can.  What comes from the networks and what an  *)
(* application asks for is up to them, and Wi-Fi promises no answer.       *)
Spec == Init /\ [][Next]_vars /\ WF_vars(Main)
             /\ WF_vars(PppTask /\ UNCHANGED <<otTask, wifi, shutdownHandlers, restarting>>)

-----------------------------------------------------------------------------
Steps == {
    "boot", "connect", "take_ip4", "take_ip6", "take_attached", "take_dns",
    "wait", "ok", "error", "connected", "shutdown", "stop", "delay", "down",
    "disconnected", "halted", "aborted" }

TypeOK ==
    /\ build \in Builds
    /\ pc \in Steps \X (Names \cup {"none"})
    /\ handlers \subseteq {"eth", "thread", "ppp"}
    /\ netifs \subseteq {"eth", "thread", "ppp"}
    /\ sems \in [SemNames -> {"null", "empty", "given", "deleted"}]
    /\ got \in [Names -> SUBSET {"ip4", "ip6", "attached", "dns"}]
    /\ otTask \in {"none", "created", "running", "ended", "deleted"}
    /\ group = {"null"} \/ group \subseteq PppBits
    /\ retryNum \in 0..(PppMaxRetry + 1)
    /\ link \in {"none", "negotiating", "given_up"}
    /\ stopTask \in BOOLEAN
    /\ pppTask \in {"none", "receiving", "feeding", "ended"}
    /\ wifi \in {"down", "connecting", "up", "failed"}
    /\ shutdownHandlers \subseteq Chosen
    /\ restarting \in BOOLEAN

(* What example_connect has waited for on interface i: every address of    *)
(* the build; over Thread, to be attached; over PPP, any one address.      *)
Promise(i) ==
    CASE i \in {"eth", "wifi"} -> Families \subseteq got[i]
      [] i = "thread" -> "attached" \in got[i]
      [] i = "ppp" -> got[i] # {}

(* ESP_OK from example_connect means that every chosen interface has been  *)
(* waited for and none has given up, in whatever order their events come.  *)
ConnectedMeansReady == pc[1] = "connected" => \A i \in Chosen : Promise(i)

(* What the help text of EXAMPLE_CONNECT_IPV6 says that it means.          *)
ConnectedMeansAddresses ==
    pc[1] = "connected" => \A i \in Chosen \ {"thread"} : Families \subseteq got[i]

Doomed == pc[1] \in {"error", "aborted"}

(* A handler never meets a semaphore, or an event group, that is gone,     *)
(* except in three places: Ethernet's shutdown deletes before it           *)
(* unregisters, Thread's never unregisters, and a build without IPv4       *)
(* registers eth_on_got_ip without its semaphore, which is not in EthSems. *)
HandlersMeetSemaphores ==
    Doomed \/
    /\ "eth" \in handlers /\ pc # <<"stop", "eth">> =>
          \A s \in EthSems : sems[s] \in {"empty", "given"}
    /\ "thread" \in handlers /\ otTask # "deleted" =>
          \A s \in ThreadSems : sems[s] \in {"empty", "given"}
    /\ "ppp" \in handlers => group # {"null"}

(* esp_register_shutdown_handler, whose failure aborts, is not asked to    *)
(* register a handler twice, although example_disconnect leaves Thread and *)
(* PPP as they are; only a Thread whose task has ended by itself gets that *)
(* far again.                                                              *)
RegisteredOnce ==
    \A i \in Chosen \ {"thread"} : pc = <<"ok", i>> => i \notin shutdownHandlers

(* When the shutdown handlers have run, no interface is left running that  *)
(* example_connect has started, whatever was disconnected before: but for  *)
(* Ethernet in a build without IPv4, whose shutdown does nothing.          *)
OrderlyRestart ==
    pc[1] = "halted" =>
        /\ wifi = "down"
        /\ netifs \subseteq IF "ip4" \in Families THEN {} ELSE {"eth"}

(* No wake-up is lost: once everything that an interface waits for has     *)
(* come, before the wait or during it, the main task goes on.              *)
Waiting(i) == pc[2] = i /\ pc[1] \in {"take_ip4", "take_ip6", "take_attached", "wait"}

NoLostWakeup ==
    \A i \in {"eth", "thread", "ppp"} :
        Waiting(i) /\ Promise(i) ~> ~Waiting(i)

(* esp_restart comes to its end: no shutdown handler waits for ever.       *)
RestartEnds == restarting ~> ~restarting
=============================================================================
