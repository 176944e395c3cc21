----------------------- MODULE WatchdogClients_proofs -----------------------
(***************************************************************************)
(* Types and the account of bytes of the watchdog, for any amounts and      *)
(* however many threads report them.                                       *)
(***************************************************************************)
EXTENDS WatchdogClients, TLAPS

\* The thread's local has a value only between the exchange and the report:
\* so the exchange overwrites nothing that has not been logged.
LocalFresh == counterVal # 0 => watchdogPc = "report"

Inv == TypeOK /\ LocalFresh /\ BytesAccounted

LEMMA InitInv == Init => Inv
BY WatchdogAssumption
DEF Init, WatchdogInit, Inv, TypeOK, WatchdogTypeOK, WatchdogPcs, LocalFresh, BytesAccounted

LEMMA OwnerInv ==
    ASSUME Inv, Start \/ Terminate \/ Join \/ Joined
    PROVE  Inv'
<1> USE DEF Inv, TypeOK, WatchdogTypeOK, WatchdogPcs, LocalFresh, BytesAccounted
<1>1. CASE Start
  BY <1>1 DEF Start, StartWatchdog
<1>2. CASE Terminate
  BY <1>2 DEF Terminate, TerminateWatchdog
<1>3. CASE Join
  BY <1>3 DEF Join, TerminateWatchdog
<1>4. CASE Joined
  BY <1>4 DEF Joined, watchdogVars
<1> QED
  BY <1>1, <1>2, <1>3, <1>4

LEMMA UpdateInv ==
    ASSUME Inv, NEW x \in Amounts, Update(x)
    PROVE  Inv'
<1>1. x \in Nat \ {0}
  BY WatchdogAssumption
<1> QED
  BY <1>1, WatchdogAssumption
  DEF Inv, TypeOK, WatchdogTypeOK, WatchdogPcs, LocalFresh, BytesAccounted, Update, UpdateCounter

LEMMA ThreadInv ==
    ASSUME Inv, Thread
    PROVE  Inv'
<1> USE DEF Inv, TypeOK, WatchdogTypeOK, WatchdogPcs, LocalFresh, BytesAccounted, Thread
<1>1. CASE WatchdogStart
  BY <1>1 DEF WatchdogStart
<1>2. CASE WatchdogLoop
  BY <1>2 DEF WatchdogLoop
<1>3. CASE WatchdogEnterSleep
  BY <1>3 DEF WatchdogEnterSleep
<1>4. CASE WatchdogWake
  BY <1>4 DEF WatchdogWake
<1>5. CASE WatchdogExchange
  BY <1>5 DEF WatchdogExchange
<1>6. CASE WatchdogReport
  BY <1>6 DEF WatchdogReport, LogsAmount
<1> QED
  BY <1>1, <1>2, <1>3, <1>4, <1>5, <1>6 DEF WatchdogStep

LEMMA NextInv == Inv /\ [Next]_vars => Inv'
<1> SUFFICES ASSUME Inv, [Next]_vars PROVE Inv'
  OBVIOUS
<1>1. CASE Start \/ Terminate \/ Join \/ Joined
  BY <1>1, OwnerInv
<1>2. CASE \E x \in Amounts : Update(x)
  BY <1>2, UpdateInv
<1>3. CASE Thread
  BY <1>3, ThreadInv
<1>4. CASE UNCHANGED vars
  BY <1>4 DEF vars, watchdogVars, Inv, TypeOK, WatchdogTypeOK, LocalFresh, BytesAccounted
<1> QED
  BY <1>1, <1>2, <1>3, <1>4 DEF Next

LEMMA Invariance == Spec => []Inv
BY InitInv, NextInv, PTL DEF Spec

----------------------------------------------------------------------------
\* Every variable of the watchdog and its clients keeps its type.
THEOREM TypeCorrect == Spec => []TypeOK
<1>1. Inv => TypeOK
  BY DEF Inv
<1> QED
  BY <1>1, Invariance, PTL

\* While the watchdog is wanted no reported byte is lost or logged twice.
THEOREM AccountCorrect == Spec => []BytesAccounted
<1>1. Inv => BytesAccounted
  BY DEF Inv
<1> QED
  BY <1>1, Invariance, PTL
=============================================================================
