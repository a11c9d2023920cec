---------------------------- MODULE WifiConnect ----------------------------
(***************************************************************************)
(* Joining and leaving the Wi-Fi network (wifi_connect.c of                *)
(* protocol_examples_common).  Its caller is connect.c, which waits for    *)
(* addresses and aborts on failure, or the console, whose commands         *)
(* (console_cmd.c) do not wait and may come at any time.                   *)
(*                                                                         *)
(* The main task registers handlers, starts the station and waits on one   *)
(* semaphore per address family; the event loop's task runs the handlers   *)
(* one at a time, and gives the semaphores when an address has come or     *)
(* when it has given up.  The two tasks interleave between any two calls;  *)
(* registering and unregistering wait for a handler that is running.       *)
(***************************************************************************)
EXTENDS Naturals

CONSTANTS
    MaxRetry,     \* CONFIG_EXAMPLE_WIFI_CONN_MAX_RETRY
    UseIpv6,      \* CONFIG_EXAMPLE_CONNECT_IPV6
    Callers       \* who calls: "app" is connect.c, "console" the commands

ASSUME MaxRetryAssumption == MaxRetry \in Nat
ASSUME UseIpv6Assumption == UseIpv6 \in BOOLEAN
ASSUME CallersAssumption == Callers \subseteq {"app", "console"}

Families == IF UseIpv6 THEN {"ip4", "ip6"} ELSE {"ip4"}

VARIABLES
    caller,       \* which of Callers this program has
    mainPc,       \* where the main task is
    loopPc,       \* where the event loop's task is
    registered,   \* the handlers are registered
    retryNum,     \* s_retry_num
    semaphores,   \* s_semph_get_ip_addrs and s_semph_get_ip6_addrs
    station,      \* what the Wi-Fi driver is doing
    gotAddress,   \* history: families an address has come for
    attempts      \* history: calls of esp_wifi_connect since the last IPv4
                  \* address, or since connecting was last asked for

taskVars == <<caller, mainPc, loopPc>>
vars == <<taskVars, registered, retryNum, semaphores, station, gotAddress, attempts>>

MainPcs == {
    "start",      \* before example_wifi_sta_do_connect
    "take_ip4", "take_ip6",
    "connected",  \* it returned ESP_OK
    "failed",     \* it returned an error, and ESP_ERROR_CHECK aborts
    "hung" }      \* it never returns

TypeOK ==
    /\ caller \in Callers
    /\ mainPc \in MainPcs
    /\ loopPc \in {"idle", "do_disconnect"}
    /\ registered \in BOOLEAN
    /\ retryNum \in 0..(MaxRetry + 1)
    /\ semaphores \in [Families -> {"null", "empty", "given", "deleted"}]
    /\ station \in {"off", "connecting", "associated", "up"}
    /\ gotAddress \in SUBSET Families
    /\ attempts \in Nat

Init ==
    /\ caller \in Callers
    /\ mainPc = "start"
    /\ loopPc = "idle"
    /\ registered = FALSE
    /\ retryNum = 0
    /\ semaphores = [f \in Families |-> "null"]
    /\ station = "off"
    /\ gotAddress = {}
    /\ attempts = 0

(* xSemaphoreGive of a binary semaphore, guarded by the test for NULL.     *)
Given(sems, fs) ==
    [f \in Families |-> IF f \in fs /\ sems[f] # "null" THEN "given" ELSE sems[f]]

-----------------------------------------------------------------------------
(* The main task: example_wifi_sta_do_connect(wifi_config, true).          *)

do_connect ==
    /\ caller = "app"
    /\ mainPc = "start"
    /\ semaphores' = [f \in Families |-> "empty"]
    /\ retryNum' = 0
    /\ registered' = TRUE
    /\ attempts' = 1
    /\ gotAddress' = {}
    /\ \/ mainPc' = "take_ip4" /\ station' = "connecting"
       \/ mainPc' = "failed" /\ UNCHANGED station
    /\ UNCHANGED <<caller, loopPc>>

(* A semaphore cannot be allocated: the error is returned before any       *)
(* handler is registered.                                                  *)
do_connectNoMemory ==
    /\ caller = "app"
    /\ mainPc = "start"
    /\ mainPc' = "failed"
    /\ gotAddress' = {}
    /\ UNCHANGED <<caller, loopPc, registered, retryNum, semaphores, station, attempts>>

(* What comes after both semaphores.                                       *)
Result == IF retryNum > MaxRetry THEN "failed" ELSE "connected"

(* A broken variant: the retries are not looked at again after the wait.   *)
AfterTakeUnchecked(f) ==
    IF f = "ip4" /\ UseIpv6 THEN "take_ip6" ELSE "connected"

AfterTake(f) == IF f = "ip4" /\ UseIpv6 THEN "take_ip6" ELSE Result

Taking(f) == mainPc = IF f = "ip4" THEN "take_ip4" ELSE "take_ip6"

takeSemaphore(f) ==
    /\ Taking(f)
    /\ semaphores[f] = "given"
    /\ semaphores' = [semaphores EXCEPT ![f] = "empty"]
    /\ mainPc' = AfterTake(f)
    /\ UNCHANGED <<caller, loopPc, registered, retryNum, station, gotAddress, attempts>>

(* The semaphore was deleted before the take: its memory may still read as *)
(* given, as empty for ever, or fail an assertion, which resets the chip.  *)
takeDeleted(f) ==
    /\ Taking(f)
    /\ semaphores[f] = "deleted"
    /\ mainPc' \in {AfterTake(f), "hung", "failed"}
    /\ UNCHANGED <<caller, loopPc, registered, retryNum, semaphores, station,
                   gotAddress, attempts>>

Restarts ==
    /\ UNCHANGED caller
    /\ mainPc' = "start"
    /\ loopPc' = "idle"
    /\ registered' = FALSE
    /\ retryNum' = 0
    /\ semaphores' = [f \in Families |-> "null"]
    /\ station' = "off"
    /\ gotAddress' = {}
    /\ attempts' = 0

(* ESP_ERROR_CHECK(example_connect()) aborts and the chip starts again.    *)
reboot == mainPc = "failed" /\ Restarts

(* example_wifi_shutdown, by example_disconnect or esp_restart: the        *)
(* handlers go, then the semaphores, then the driver.                      *)
Deleted == [f \in Families |-> IF semaphores[f] = "null" THEN "null" ELSE "deleted"]

example_wifi_shutdown ==
    /\ mainPc = "connected"
    /\ loopPc = "idle"
    /\ mainPc' = "start"
    /\ registered' = FALSE
    /\ semaphores' = Deleted
    /\ station' = "off"
    /\ UNCHANGED <<caller, loopPc, retryNum, gotAddress, attempts>>

(* The event loop has given up meanwhile, and the semaphores are deleted   *)
(* twice: that may go well, as above, or corrupt the heap.                 *)
shutdownDeletesTwice ==
    /\ mainPc = "connected"
    /\ loopPc = "idle"
    /\ \E f \in Families : semaphores[f] = "deleted"
    /\ Restarts

-----------------------------------------------------------------------------
(* The console, which has started the station and never waits.  Its reset  *)
(* of s_retry_num may be lost to a handler that is just counting.          *)
cmd_do_wifi_connect ==
    /\ caller = "console"
    /\ loopPc = "idle"
    /\ retryNum' \in {0, retryNum}
    /\ registered' = TRUE
    /\ attempts' = 1
    /\ station' \in {station, "connecting"}
    /\ UNCHANGED <<taskVars, semaphores, gotAddress>>

cmd_do_wifi_disconnect ==
    /\ caller = "console"
    /\ loopPc = "idle"
    /\ registered' = FALSE
    /\ semaphores' = Deleted
    /\ station' = "off"
    /\ UNCHANGED <<taskVars, retryNum, gotAddress, attempts>>

-----------------------------------------------------------------------------
(* The event loop's task.                                                  *)

(* Broken variants of the disconnect handler: it does not count the        *)
(* disconnection, or it does not compare the count.                        *)
disconnectedUncounted ==
    /\ loopPc = "idle"
    /\ registered
    /\ station # "off"
    /\ UNCHANGED retryNum
    /\ station' = "connecting"
    /\ attempts' = attempts + 1
    /\ UNCHANGED <<taskVars, registered, semaphores, gotAddress>>

disconnectedUnlimited ==
    /\ loopPc = "idle"
    /\ registered
    /\ station # "off"
    /\ retryNum' = retryNum + 1
    /\ station' = "connecting"
    /\ attempts' = attempts + 1
    /\ UNCHANGED <<taskVars, registered, semaphores, gotAddress>>

(* example_handler_on_wifi_disconnect, with retries left.  A roaming       *)
(* station reconnects by itself; otherwise esp_wifi_connect is called.     *)
disconnectedRetries ==
    /\ loopPc = "idle"
    /\ registered
    /\ station # "off"
    /\ retryNum < MaxRetry
    /\ retryNum' = retryNum + 1
    /\ station' = "connecting"
    /\ \/ station = "up" /\ UNCHANGED attempts
       \/ attempts' = attempts + 1
    /\ UNCHANGED <<taskVars, registered, semaphores, gotAddress>>

(* The same handler, when ESP_ERROR_CHECK finds that esp_wifi_connect has  *)
(* failed: the chip starts again, whatever the main task is doing.         *)
disconnectedAborts ==
    /\ loopPc = "idle"
    /\ registered
    /\ station # "off"
    /\ retryNum < MaxRetry
    /\ Restarts

(* The same handler, out of retries: it gives both semaphores ...  Counts  *)
(* above the limit are all alike and kept as one.                          *)
disconnectedGivesUp ==
    /\ loopPc = "idle"
    /\ registered
    /\ station # "off"
    /\ retryNum >= MaxRetry
    /\ retryNum' = MaxRetry + 1
    /\ station' = "off"
    /\ semaphores' = Given(semaphores, Families)
    /\ loopPc' = "do_disconnect"
    /\ UNCHANGED <<caller, mainPc, registered, gotAddress, attempts>>

(* A broken variant: the disconnect handler stays registered.              *)
do_disconnectKeepsHandlers ==
    /\ loopPc = "do_disconnect"
    /\ loopPc' = "idle"
    /\ semaphores' = Deleted
    /\ UNCHANGED <<caller, mainPc, registered, retryNum, station, gotAddress, attempts>>

(* ... and calls example_wifi_sta_do_disconnect, which unregisters the     *)
(* handlers and deletes the semaphores, keeping the pointers.              *)
do_disconnect ==
    /\ loopPc = "do_disconnect"
    /\ loopPc' = "idle"
    /\ registered' = FALSE
    /\ semaphores' = Deleted
    /\ UNCHANGED <<caller, mainPc, retryNum, station, gotAddress, attempts>>

(* example_handler_on_wifi_connect only asks for a link-local address.     *)
associated ==
    /\ loopPc = "idle"
    /\ registered
    /\ station = "connecting"
    /\ station' = "associated"
    /\ UNCHANGED <<taskVars, registered, retryNum, semaphores, gotAddress, attempts>>

(* example_handler_on_sta_got_ip.                                          *)
got_ip ==
    /\ loopPc = "idle"
    /\ registered
    /\ station = "associated"
    /\ station' = "up"
    /\ retryNum' = 0
    /\ attempts' = 0
    /\ semaphores' = Given(semaphores, {"ip4"})
    /\ gotAddress' = gotAddress \cup {"ip4"}
    /\ UNCHANGED <<taskVars, registered>>

(* example_handler_on_sta_got_ipv6, for an address of the preferred type.  *)
got_ipv6 ==
    /\ loopPc = "idle"
    /\ registered
    /\ UseIpv6
    /\ station \in {"associated", "up"}
    /\ semaphores' = Given(semaphores, {"ip6"})
    /\ gotAddress' = gotAddress \cup {"ip6"}
    /\ UNCHANGED <<taskVars, registered, retryNum, station, attempts>>

MainTask ==
    \/ do_connect
    \/ do_connectNoMemory
    \/ \E f \in Families : takeSemaphore(f)
    \/ \E f \in Families : takeDeleted(f)
    \/ reboot

Teardown == example_wifi_shutdown \/ shutdownDeletesTwice

Console == cmd_do_wifi_connect \/ cmd_do_wifi_disconnect

EventLoop ==
    \/ disconnectedRetries
    \/ disconnectedAborts
    \/ disconnectedGivesUp
    \/ do_disconnect
    \/ associated
    \/ got_ip
    \/ got_ipv6

Next == MainTask \/ Teardown \/ Console \/ EventLoop

(* Both tasks run when they can; what the network does, or a user, is up   *)
(* to them.                                                                *)
Spec == Init /\ [][Next]_vars /\ WF_vars(MainTask) /\ WF_vars(do_disconnect)

-----------------------------------------------------------------------------
(* example_connect succeeds only after an address of each family has come, *)
(* although the semaphores do not say why they were given: the check of    *)
(* s_retry_num tells, whenever the main task gets to it.                   *)
OkMeansAddresses == mainPc = "connected" => gotAddress = Families

(* The retries are bounded, as the option's help text promises: between    *)
(* two addresses there are at most MaxRetry reconnections.                 *)
RetriesBounded == attempts <= MaxRetry + 1

(* The semaphores are deleted only after the handlers have stopped using   *)
(* them: no handler gives a semaphore that is gone, and the test for NULL  *)
(* is only of use to the console, which creates none.                      *)
HandlersHaveSemaphores ==
    registered => \A f \in Families :
        semaphores[f] \in IF caller = "console" THEN {"null"} ELSE {"empty", "given"}

(* The semaphores are deleted twice only after the event loop has given    *)
(* up: a connection that is in use has both.                               *)
DeletedTwiceOnlyAfterGivingUp ==
    mainPc = "connected" /\ (\E f \in Families : semaphores[f] = "deleted")
        => retryNum > MaxRetry /\ ~registered

(* What the comment in the disconnect handler expects of the two gives:    *)
(* example_wifi_sta_do_connect returns.                                    *)
GivingUpReturns ==
    retryNum > MaxRetry ~> mainPc \in {"connected", "failed", "start"}

-----------------------------------------------------------------------------
(* To connect.c this is an interface that keeps the promise of Netif.  The *)
(* console asks for none.                                                  *)
StateOf == [ start |-> "down", take_ip4 |-> "connecting", take_ip6 |-> "connecting",
             hung |-> "connecting", connected |-> "up", failed |-> "failed" ]

Interface == INSTANCE Netif WITH
    state <- StateOf[mainPc],
    needed <- Families,
    addresses <- IF mainPc = "start" THEN {} ELSE gotAddress

ImplementsNetif == Interface!Spec
=============================================================================
