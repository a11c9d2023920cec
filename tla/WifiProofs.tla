----------------------------- MODULE WifiProofs -----------------------------
(***************************************************************************)
(* Proofs about joining the Wi-Fi network, for every retry limit and with  *)
(* IPv6 or without.                                                        *)
(*                                                                         *)
(* The argument: a semaphore is given for one of two reasons, an address   *)
(* or giving up, and does not say for which.  Giving up raises s_retry_num *)
(* above its limit before it gives anything, and no handler lowers it      *)
(* again, because none runs afterwards.  So whoever has taken a semaphore  *)
(* and finds the limit respected has an address.  All of this is about     *)
(* connect.c; the console never waits, and its semaphores stay null.       *)
(***************************************************************************)
EXTENDS WifiConnect, TLAPS

GaveUp == retryNum > MaxRetry

(* What a semaphore says, given or already taken.                          *)
GivenForAReason ==
    /\ \A f \in Families :
          semaphores[f] = "given" => f \in gotAddress \/ GaveUp
    /\ mainPc = "take_ip6" => "ip4" \in gotAddress \/ GaveUp

(* Giving up is final until connecting is asked for again: no handler runs *)
(* after it.                                                               *)
GivingUpIsFinal ==
    /\ caller = "app" /\ mainPc # "start" /\ GaveUp =>
          loopPc = "do_disconnect" \/ ~registered
    /\ loopPc = "do_disconnect" => registered /\ GaveUp

(* The main task is at the start without handlers; while it waits or is    *)
(* connected, only giving up deletes.                                      *)
SemaphoreLife ==
    /\ caller = "app" /\ mainPc = "start" =>
          /\ ~registered /\ loopPc = "idle"
          /\ \A f \in Families : semaphores[f] \in {"null", "deleted"}
    /\ caller = "console" => mainPc = "start" /\ \A f \in Families : semaphores[f] = "null"
    /\ mainPc \notin {"start", "failed"} =>
          \A f \in Families : semaphores[f] = "deleted" => GaveUp /\ ~registered

AttemptsCounted ==
    /\ registered => attempts <= retryNum + 1
    /\ attempts <= MaxRetry + 1

IInv == /\ TypeOK
        /\ HandlersHaveSemaphores
        /\ OkMeansAddresses
        /\ GivenForAReason
        /\ GivingUpIsFinal
        /\ SemaphoreLife
        /\ AttemptsCounted
        /\ DeletedTwiceOnlyAfterGivingUp

(* The statics' initial values establish the inductive invariant.          *)
LEMMA InitIInv == Init => IInv
<1> SUFFICES ASSUME Init PROVE IInv
    OBVIOUS
<1> USE MaxRetryAssumption, CallersAssumption DEF Init
<1>1. TypeOK
  <2>1. registered \in BOOLEAN
        BY Zenon
  <2> QED
      BY <2>1 DEF TypeOK, MainPcs
<1>2. HandlersHaveSemaphores /\ OkMeansAddresses /\ GivenForAReason
      BY DEF HandlersHaveSemaphores, OkMeansAddresses, GivenForAReason
<1>3. GivingUpIsFinal /\ SemaphoreLife /\ AttemptsCounted /\ DeletedTwiceOnlyAfterGivingUp
      BY DEF GivingUpIsFinal, SemaphoreLife, AttemptsCounted, GaveUp,
             DeletedTwiceOnlyAfterGivingUp
<1> QED
    BY <1>1, <1>2, <1>3 DEF IInv

(* Starting again establishes it anew.                                     *)
LEMMA RestartIInv == IInv /\ Restarts => IInv'
<1> SUFFICES ASSUME IInv, Restarts PROVE IInv'
    OBVIOUS
<1> USE MaxRetryAssumption, CallersAssumption DEF Restarts, IInv
<1>1. TypeOK'
  <2>1. registered' \in BOOLEAN
        BY Zenon
  <2> QED
      BY <2>1 DEF TypeOK, MainPcs, Families
<1>2. HandlersHaveSemaphores' /\ OkMeansAddresses' /\ GivenForAReason'
      BY DEF HandlersHaveSemaphores, OkMeansAddresses, GivenForAReason, Families
<1>3. GivingUpIsFinal' /\ SemaphoreLife' /\ AttemptsCounted' /\ DeletedTwiceOnlyAfterGivingUp'
      BY DEF GivingUpIsFinal, SemaphoreLife, AttemptsCounted, GaveUp, Families,
             DeletedTwiceOnlyAfterGivingUp
<1> QED
    BY <1>1, <1>2, <1>3 DEF IInv

(* What the wait returns tells whether the event loop has given up.        *)
LEMMA ResultTells ==
    \/ Result = "failed" /\ GaveUp
    \/ Result = "connected" /\ ~GaveUp
BY Zenon DEF Result, GaveUp

(* The steps of the main task preserve it.                                 *)
LEMMA MainTaskIInv == IInv /\ MainTask => IInv'
<1> SUFFICES ASSUME IInv, MainTask PROVE IInv'
    OBVIOUS
<1> USE MaxRetryAssumption, UseIpv6Assumption, CallersAssumption
<1> USE DEF IInv, TypeOK, MainPcs, Families, HandlersHaveSemaphores,
            OkMeansAddresses, GivenForAReason, GivingUpIsFinal, SemaphoreLife,
            AttemptsCounted, GaveUp, DeletedTwiceOnlyAfterGivingUp
<1>1. CASE do_connect
      BY <1>1 DEF do_connect
<1>2. CASE do_connectNoMemory
      BY <1>2 DEF do_connectNoMemory
<1>3. CASE \E f \in Families : takeSemaphore(f)
  <2> PICK f \in Families : takeSemaphore(f)
      BY <1>3
  <2>1. f = "ip4" \/ (f = "ip6" /\ UseIpv6)
        BY DEF Families
  <2>2. f \in gotAddress \/ GaveUp
        BY DEF takeSemaphore
  <2>3. CASE AfterTake(f) = "take_ip6"
        BY <2>1, <2>2, <2>3 DEF takeSemaphore, AfterTake, Result, Taking
  <2>4. CASE AfterTake(f) = Result
    <3>1. /\ mainPc' = Result /\ mainPc = IF f = "ip4" THEN "take_ip4" ELSE "take_ip6"
          /\ semaphores' = [semaphores EXCEPT ![f] = "empty"] /\ semaphores[f] = "given"
          /\ UNCHANGED <<caller, loopPc, registered, retryNum, station, gotAddress, attempts>>
          BY <2>4 DEF takeSemaphore, Taking
    <3>2. f = "ip4" => ~UseIpv6
          BY <2>1, <2>4 DEF AfterTake, Result
    <3>3. ~GaveUp => gotAddress = Families
      <4>1. ~GaveUp /\ f = "ip6" => "ip4" \in gotAddress
            BY <3>1
      <4> QED
          BY <2>1, <2>2, <3>2, <4>1
    <3>4. \/ mainPc' = "failed" /\ GaveUp
          \/ mainPc' = "connected" /\ ~GaveUp
          BY <3>1, ResultTells
    <3>5. TypeOK'
      <4>1. mainPc' \in MainPcs
            BY <3>4
      <4>2. semaphores' \in [Families -> {"null", "empty", "given", "deleted"}]
            BY <3>1
      <4> QED
          BY <3>1, <4>1, <4>2
    <3>6. OkMeansAddresses' /\ GivenForAReason' /\ AttemptsCounted'
          BY <3>1, <3>3, <3>4
    <3>7. HandlersHaveSemaphores'
          BY <3>1
    <3>8. GivingUpIsFinal' /\ SemaphoreLife' /\ DeletedTwiceOnlyAfterGivingUp'
          BY <3>1, <3>4
    <3> QED
        BY <3>5, <3>6, <3>7, <3>8
  <2> QED
      BY <2>3, <2>4 DEF AfterTake
<1>4. CASE \E f \in Families : takeDeleted(f)
  <2> PICK f \in Families : takeDeleted(f)
      BY <1>4
  <2>1. GaveUp
        BY DEF takeDeleted, Taking
  <2>2. mainPc' \in {"take_ip6", "failed", "hung"}
        BY <2>1 DEF takeDeleted, AfterTake, Result
  <2> QED
      BY <2>1, <2>2 DEF takeDeleted
<1>5. CASE reboot
      BY <1>5, RestartIInv DEF reboot
<1> QED
    BY <1>1, <1>2, <1>3, <1>4, <1>5 DEF MainTask

(* A first attempt is within every limit.                                  *)
LEMMA FirstAttempt ==
    ASSUME NEW n, n = 1, NEW r \in Nat, NEW m \in Nat
    PROVE  n <= r + 1 /\ n <= m + 1
OBVIOUS

(* So do the teardown and the console's commands.                          *)
LEMMA CallsIInv == IInv /\ (Teardown \/ Console) => IInv'
<1> SUFFICES ASSUME IInv, Teardown \/ Console PROVE IInv'
    OBVIOUS
<1> USE MaxRetryAssumption, UseIpv6Assumption, CallersAssumption
<1> USE DEF IInv, TypeOK, MainPcs, Families, HandlersHaveSemaphores,
            OkMeansAddresses, GivenForAReason, GivingUpIsFinal, SemaphoreLife,
            AttemptsCounted, GaveUp, DeletedTwiceOnlyAfterGivingUp, taskVars
<1>1. CASE example_wifi_shutdown
      BY <1>1 DEF example_wifi_shutdown, Deleted
<1>2. CASE shutdownDeletesTwice
      BY <1>2, RestartIInv DEF shutdownDeletesTwice
<1>3. CASE cmd_do_wifi_connect
  <2>1. mainPc = "start" /\ mainPc' = "start" /\ caller' = caller /\ loopPc' = loopPc
        BY <1>3 DEF cmd_do_wifi_connect
  <2>2. TypeOK'
        BY <1>3 DEF cmd_do_wifi_connect
  <2>3. HandlersHaveSemaphores' /\ GivenForAReason' /\ OkMeansAddresses'
        BY <1>3, <2>1 DEF cmd_do_wifi_connect
  <2>4. GivingUpIsFinal' /\ SemaphoreLife' /\ DeletedTwiceOnlyAfterGivingUp'
        BY <1>3, <2>1 DEF cmd_do_wifi_connect
  <2>5. AttemptsCounted'
    <3>1. attempts' = 1 /\ retryNum' \in Nat
          BY <1>3 DEF cmd_do_wifi_connect
    <3>2. MaxRetry \in Nat
          BY MaxRetryAssumption
    <3>3. attempts' <= retryNum' + 1 /\ attempts' <= MaxRetry + 1
          BY <3>1, <3>2, FirstAttempt
    <3> QED
        BY <3>3
  <2> QED
      BY <2>2, <2>3, <2>4, <2>5
<1>4. CASE cmd_do_wifi_disconnect
      BY <1>4 DEF cmd_do_wifi_disconnect, Deleted
<1> QED
    BY <1>1, <1>2, <1>3, <1>4 DEF Teardown, Console

(* And so do the event handlers, whenever they run.                        *)
LEMMA EventLoopIInv == IInv /\ EventLoop => IInv'
<1> SUFFICES ASSUME IInv, EventLoop PROVE IInv'
    OBVIOUS
<1> USE MaxRetryAssumption, UseIpv6Assumption, CallersAssumption
<1> USE DEF IInv, TypeOK, MainPcs, Families, HandlersHaveSemaphores,
            OkMeansAddresses, GivenForAReason, GivingUpIsFinal, SemaphoreLife,
            AttemptsCounted, GaveUp, DeletedTwiceOnlyAfterGivingUp, taskVars
<1>1. CASE disconnectedRetries
      BY <1>1 DEF disconnectedRetries
<1>2. CASE disconnectedAborts
      BY <1>2, RestartIInv DEF disconnectedAborts
<1>3. CASE disconnectedGivesUp
      BY <1>3 DEF disconnectedGivesUp, Given
<1>4. CASE do_disconnect
      BY <1>4 DEF do_disconnect, Deleted
<1>5. CASE associated
      BY <1>5 DEF associated
<1>6. CASE got_ip
      BY <1>6 DEF got_ip, Given
<1>7. CASE got_ipv6
      BY <1>7 DEF got_ipv6, Given
<1> QED
    BY <1>1, <1>2, <1>3, <1>4, <1>5, <1>6, <1>7 DEF EventLoop

(* The inductive invariant holds in every reachable state.                 *)
THEOREM Inductive == Spec => []IInv
<1>1. Init => IInv
      BY InitIInv
<1>2. IInv /\ [Next]_vars => IInv'
  <2>1. ASSUME IInv, UNCHANGED vars PROVE IInv'
        BY <2>1 DEF IInv, TypeOK, MainPcs, Families, HandlersHaveSemaphores,
                    OkMeansAddresses, GivenForAReason, GivingUpIsFinal,
                    SemaphoreLife, AttemptsCounted, GaveUp,
                    DeletedTwiceOnlyAfterGivingUp, vars, taskVars
  <2> QED
      BY <2>1, MainTaskIInv, CallsIInv, EventLoopIInv DEF Next
<1> QED
    BY <1>1, <1>2, PTL DEF Spec

(* Type correctness of the Wi-Fi start-up.                                 *)
THEOREM TypeCorrect == Spec => []TypeOK
<1>1. IInv => TypeOK
      BY DEF IInv
<1> QED
    BY <1>1, Inductive, PTL

(* ESP_OK from example_wifi_sta_do_connect means an address of every       *)
(* family, however the main task and the handlers interleave.              *)
THEOREM SuccessHasAddresses == Spec => []OkMeansAddresses
<1>1. IInv => OkMeansAddresses
      BY DEF IInv
<1> QED
    BY <1>1, Inductive, PTL

(* Between two addresses esp_wifi_connect is called once and then for each *)
(* of at most MaxRetry retries.                                            *)
THEOREM BoundedRetries == Spec => []RetriesBounded
<1>1. IInv => RetriesBounded
      BY DEF IInv, AttemptsCounted, RetriesBounded
<1> QED
    BY <1>1, Inductive, PTL

(* No event handler ever gives a semaphore that has been deleted.          *)
THEOREM NoUseAfterDelete == Spec => []HandlersHaveSemaphores
<1>1. IInv => HandlersHaveSemaphores
      BY DEF IInv
<1> QED
    BY <1>1, Inductive, PTL

(* No handler gets the semaphores of a connection in use deleted under it  *)
(* other than by giving up.                                                *)
THEOREM DeletedOnce == Spec => []DeletedTwiceOnlyAfterGivingUp
<1>1. IInv => DeletedTwiceOnlyAfterGivingUp
      BY DEF IInv
<1> QED
    BY <1>1, Inductive, PTL

(* A step of the main task that ends the wait is a step of the promise.    *)
LEMMA WaitsAsPromised == IInv /\ MainTask => [Interface!Next]_(Interface!vars)
<1> SUFFICES ASSUME IInv, MainTask PROVE [Interface!Next]_(Interface!vars)
    OBVIOUS
<1> USE DEF IInv, TypeOK, MainPcs, StateOf, Interface!Next, Interface!vars
<1>1. UNCHANGED Families
      BY DEF Families
<1>2. CASE do_connect
      BY <1>1, <1>2 DEF do_connect, Interface!Connect
<1>3. CASE do_connectNoMemory
      BY <1>1, <1>3 DEF do_connectNoMemory, Interface!Connect
<1>4. CASE \E f \in Families : takeSemaphore(f)
  <2> PICK f \in Families : takeSemaphore(f)
      BY <1>4
  <2>1. mainPc \in {"take_ip4", "take_ip6"} /\ gotAddress' = gotAddress
        BY DEF takeSemaphore, Taking
  <2>2. mainPc' \in {"take_ip6", "failed", "connected"}
        BY DEF takeSemaphore, AfterTake, Result
  <2>3. OkMeansAddresses'
        BY MainTaskIInv
  <2>4. CASE mainPc' = "connected"
        BY <1>1, <2>1, <2>3, <2>4 DEF Interface!Succeed, OkMeansAddresses
  <2>5. CASE mainPc' = "failed"
        BY <1>1, <2>1, <2>5 DEF Interface!Fail
  <2>6. CASE mainPc' = "take_ip6"
        BY <1>1, <2>1, <2>6
  <2> QED
      BY <2>2, <2>4, <2>5, <2>6
<1>5. CASE \E f \in Families : takeDeleted(f)
  <2> PICK f \in Families : takeDeleted(f)
      BY <1>5
  <2>1. mainPc \in {"take_ip4", "take_ip6"} /\ gotAddress' = gotAddress
        BY DEF takeDeleted, Taking
  <2>2. mainPc' \in {"take_ip6", "failed", "hung", "connected"}
        BY DEF takeDeleted, AfterTake, Result
  <2>3. OkMeansAddresses'
        BY MainTaskIInv
  <2>4. CASE mainPc' = "connected"
        BY <1>1, <2>1, <2>3, <2>4 DEF Interface!Succeed, OkMeansAddresses
  <2>5. CASE mainPc' = "failed"
        BY <1>1, <2>1, <2>5 DEF Interface!Fail
  <2>6. CASE mainPc' \in {"take_ip6", "hung"}
        BY <1>1, <2>1, <2>6
  <2> QED
      BY <2>2, <2>4, <2>5, <2>6
<1>6. CASE reboot
      BY <1>1, <1>6 DEF reboot, Restarts, Interface!Reset
<1> QED
    BY <1>2, <1>3, <1>4, <1>5, <1>6 DEF MainTask

(* Every other step is one, too, or changes nothing that connect.c sees.   *)
LEMMA StepsAsPromised ==
    IInv /\ (Teardown \/ Console \/ EventLoop) => [Interface!Next]_(Interface!vars)
<1> SUFFICES ASSUME IInv, Teardown \/ Console \/ EventLoop
             PROVE  [Interface!Next]_(Interface!vars)
    OBVIOUS
<1> USE DEF IInv, TypeOK, MainPcs, StateOf, Interface!Next, Interface!vars
<1>1. UNCHANGED Families
      BY DEF Families
<1>2. CASE example_wifi_shutdown
      BY <1>1, <1>2 DEF example_wifi_shutdown, Interface!Shutdown
<1>3. CASE Restarts
      BY <1>1, <1>3 DEF Restarts, Interface!Reset
<1>4. CASE mainPc' = mainPc /\ gotAddress' = gotAddress
      BY <1>1, <1>4
<1>5. ASSUME NEW f \in Families, mainPc' = mainPc, gotAddress' = gotAddress \cup {f}
      PROVE  [Interface!Next]_(Interface!vars)
      BY <1>1, <1>5 DEF Interface!GetAddress
<1>6. Teardown => example_wifi_shutdown \/ Restarts
      BY DEF Teardown, shutdownDeletesTwice
<1>7. Console => mainPc' = mainPc /\ gotAddress' = gotAddress
      BY DEF Console, cmd_do_wifi_connect, cmd_do_wifi_disconnect, taskVars
<1>8. EventLoop => \/ Restarts
                   \/ mainPc' = mainPc /\ gotAddress' = gotAddress
                   \/ mainPc' = mainPc /\ \E f \in Families : gotAddress' = gotAddress \cup {f}
      BY UseIpv6Assumption
      DEF EventLoop, disconnectedRetries, disconnectedAborts, disconnectedGivesUp,
          do_disconnect, associated, got_ip, got_ipv6, taskVars, Families
<1> QED
    BY <1>2, <1>3, <1>4, <1>5, <1>6, <1>7, <1>8

(* The Wi-Fi start-up keeps the promise that connect.c relies on, for      *)
(* every retry limit and interleaving.                                     *)
THEOREM KeepsPromise == Spec => ImplementsNetif
<1>1. Init => Interface!Init
      BY DEF Init, Interface!Init, StateOf
<1>2. IInv /\ [Next]_vars => [Interface!Next]_(Interface!vars)
  <2>1. UNCHANGED vars => UNCHANGED Interface!vars
        BY DEF vars, taskVars, Interface!vars, Families
  <2> QED
      BY <2>1, WaitsAsPromised, StepsAsPromised DEF Next
<1> QED
    BY <1>1, <1>2, Inductive, PTL DEF Spec, ImplementsNetif, Interface!Spec
=============================================================================
