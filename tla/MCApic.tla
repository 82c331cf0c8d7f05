------------------------------- MODULE MCApic -------------------------------
EXTENDS Apic

\* The LVT registers: CMCI, timer, thermal, performance, LINT0, LINT1, error
LvtMsrs == {2095} \cup (2098 .. 2103)

\* Registers firmware may leave: the power-up state (SVR 0xff, so software
\* disabled, and every LVT entry masked), or the APIC enabled with a
\* periodic timer of its own running on vector 0x30
FwRegsIdle ==
    [n \in X2ApicRegisterMsrs |->
        IF n = SvrMsr THEN 255 ELSE IF n \in LvtMsrs THEN 65536 ELSE 0]
FwRegsRunning ==
    [FwRegsIdle EXCEPT ![SvrMsr] = 511, ![LvtTimerMsr] = 131120,
                       ![InitCountMsr] = 500, ![2110] = 3]

FwBase(x2) == [addr |-> 1043968, enable |-> TRUE, x2 |-> x2, bsp |-> TRUE]

\* cpuid(1) bits: FPU and APIC, with or without x2APIC
MCFwStates ==
    [msr : {FwRegsIdle, FwRegsRunning}, base : {FwBase(FALSE), FwBase(TRUE)},
     pic : {184, 255}, features : {{0, 9}, {0, 9, 53}}]
=============================================================================
