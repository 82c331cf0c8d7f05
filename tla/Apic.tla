-------------------------------- MODULE Apic --------------------------------
(***************************************************************************)
(* The local APIC driver of src/bootloader/src/intel/apic.rs over the MSR  *)
(* layer of src/shared/cpu_x86: Apic::new, the IPI helpers through         *)
(* write_command_register and InterruptCommand::raw, the timer, spurious   *)
(* vector and EOI helpers, and the soft-reboot path reset / eoi_all.  new  *)
(* panics unless CPUID reports x2APIC, so Mode::X2Apic is the only mode a  *)
(* driver can be in and the xAPIC (MMIO) branches are not modelled.        *)
(*                                                                         *)
(* Every register access is get_register's offset-to-MSR conversion, then  *)
(* Msr::from (unimplemented!() for a number it does not list) and rdmsr /  *)
(* wrmsr, which panic on a write-only or read-only Msr.  The hardware      *)
(* state is the eleven read/write x2APIC registers keyed by MSR number,    *)
(* IA32_APIC_BASE as a record of its address (in 4 KiB pages: new asserts  *)
(* the base is page aligned), enable (bit 11), x2APIC (bit 10) and BSP     *)
(* (bit 8) fields, and the ICR.  `isr` and `irr` count the words of ISR   *)
(* and IRR that are not zero; `fw` is the state firmware left behind, which reset  *)
(* promises to bring back.                                                 *)
(***************************************************************************)
EXTENDS Integers, Sequences, Bitwise

CONSTANTS
    FwStates,     \* what firmware may leave: [msr, base, pic, features]
    NewBase,      \* the base address Apic::new is given, in pages
    ApicIds,      \* apic ids the IPI helpers are called with
    EntryPoints,  \* entry points sipi_id / sipi_all are called with
    Vectors,      \* vectors callers give enable_timer / enable_spurious_interrupt
    OtherSources, \* whether sources besides the timer raise interrupts
    MaxPending    \* bound on the non-zero ISR and IRR words together

ASSUME NewBase \in Nat \ {0} /\ MaxPending \in Nat \ {0}

\* Bit n of x
BitSet(x, n) == (x \div 2^n) % 2 = 1

(***************************************************************************)
(* cpu_x86: Msr::from, Msr::permissions, rdmsr / wrmsr.  The numbers are   *)
(* the u32 values of the match arms; the nine 0xc000_00xx MSRs (Efer to    *)
(* TscAux) are left out, as they do not fit TLC's integers and no x2APIC   *)
(* offset converts to them.                                                *)
(***************************************************************************)
MsrFrom ==
    {27, 58, 777, 909, 911} \cup (1152 .. 1161) \cup {1163, 1165, 1166, 1167, 1168}
    \cup {2050, 2051, 2056, 2058, 2059, 2061, 2063} \cup (2064 .. 2088)
    \cup {2095, 2096} \cup (2098 .. 2105) \cup {2110, 2111}

\* The VMX capability MSRs, x2APIC id, version, PPR, LDR, ISR, TMR, IRR, CurCount
ReadOnlyMsrs ==
    (1152 .. 1161) \cup {1163, 1165, 1166, 1167, 1168}
    \cup {2050, 2051, 2058, 2061} \cup (2064 .. 2087) \cup {2105}

\* X2apicEoi and X2apicSelfIpi
WriteOnlyMsrs == {2059, 2111}

Permission(n) ==
    CASE n \in ReadOnlyMsrs  -> "ReadOnly"
      [] n \in WriteOnlyMsrs -> "WriteOnly"
      [] OTHER               -> "ReadWrite"

\* The panic a read (rdmsr, rdmsr_u32) or a write (wrmsr) of MSR n hits
AccessFault(kind, n) ==
    CASE n \notin MsrFrom                                -> "unimplemented_msr"
      [] kind = "read"  /\ Permission(n) = "WriteOnly"   -> "write_only_msr"
      [] kind = "write" /\ Permission(n) = "ReadOnly"    -> "read_only_msr"
      [] OTHER                                           -> "none"

\* The Msr discriminants the hardware state is kept under
ApicBaseMsr == 27
SvrMsr      == 2063
EoiMsr      == 2059
LvtTimerMsr == 2098
InitCountMsr == 2104

\* The read/write x2APIC registers: TPR, SVR, LVT CMCI, LVT timer to LVT
\* error, initial count, divide configuration
X2ApicRegisterMsrs == {2056, 2063, 2095} \cup (2098 .. 2104) \cup {2110}

\* feature_information() & (feature as u64) > 0, with cpuid(1) given as the
\* set of its bits that are set (ecx in bits 32 to 63, edx in 0 to 31)
Feature == [APIC |-> 9, X2Apic |-> 53]
HasFeature(features, f) == Feature[f] \in features

(***************************************************************************)
(* apic.rs: the Register offsets the driver uses, writable_registers, and  *)
(* get_register.                                                           *)
(***************************************************************************)
Register ==
    [Id |-> 32, TaskPriority |-> 128, EndOfInterrupt |-> 176,
     SpuriousInterruptVector |-> 240, LvtCorrectedMachineCheckInterrupt |-> 752,
     InterruptCommand |-> 768, LvtTimer |-> 800, LvtThermalSensor |-> 816,
     LvtPerformanceMonitoring |-> 832, LvtLint0 |-> 848, LvtLint1 |-> 864,
     LvtError |-> 880, TimerInitialCount |-> 896, TimerCurrentCount |-> 912,
     TimerDivideConfiguration |-> 992]

\* InterruptInService0..7 and InterruptRequest0..7
InService(i)        == 256 + 16 * i
InterruptRequest(i) == 512 + 16 * i

WritableRegisters ==
    <<Register.TaskPriority, Register.SpuriousInterruptVector,
      Register.LvtCorrectedMachineCheckInterrupt, Register.LvtTimer,
      Register.LvtThermalSensor, Register.LvtPerformanceMonitoring,
      Register.LvtLint0, Register.LvtLint1, Register.LvtError,
      Register.TimerInitialCount, Register.TimerDivideConfiguration>>

\* The offset itself, without the >> 4 (mutation of GetRegister)
GetRegisterUnshifted(reg) == 2048 | reg

\* 0x800 | (reg as u32 >> 4) in x2APIC mode
GetRegister(reg) == 2048 | (reg \div 16)

(***************************************************************************)
(* A run of MSR accesses: read or write a register through get_register,   *)
(* or an Msr given directly.  A write reaches the hardware: a register     *)
(* takes the value, EOI clears the in-service word (an EOI with ISR clear *)
(* does nothing; it never touches IRR); the first panic stops the         *)
(* run.  IA32_APIC_BASE and the ICR are kept apart, so only the check of   *)
(* their access is made here.                                              *)
(***************************************************************************)
MsrRd(n)     == [op |-> "read", msr |-> n, val |-> 0]
MsrWr(n, v)  == [op |-> "write", msr |-> n, val |-> v]
RegRd(reg)    == MsrRd(GetRegister(reg))
RegWr(reg, v) == MsrWr(GetRegister(reg), v)

HwWrite(st, n, v) ==
    CASE n \in DOMAIN st.m -> [st EXCEPT !.m[n] = v]
      [] n = EoiMsr        -> [st EXCEPT !.isr = IF @ > 0 THEN @ - 1 ELSE 0]
      [] OTHER             -> st

RECURSIVE Exec(_, _)
Exec(st, ops) ==
    IF ops = <<>> \/ st.fault /= "none" THEN st
    ELSE LET o == Head(ops)
             f == AccessFault(o.op, o.msr)
         IN  Exec(CASE f /= "none"     -> [st EXCEPT !.fault = f]
                    [] o.op = "write" -> HwWrite(st, o.msr, o.val)
                    [] OTHER          -> st,
                  Tail(ops))

\* What rdmsr_u32 of a register returns; the read-only ones the driver may
\* read (id, current count) are not kept and read as 0
ReadValue(m, n) == IF n \in DOMAIN m THEN m[n] ELSE 0

(***************************************************************************)
(* The helpers as runs of accesses.  The values: software enable (1 << 8)  *)
(* | vector; TimerMode::Periodic as u32 | vector; DivideBy2; 10_000_000.   *)
(***************************************************************************)
DivideBy2  == 0
TimerCount == 10000000

TimerMode == [OneShot |-> 0, Periodic |-> 1, TscDeadline |-> 2]

DisableTimerOps == <<RegWr(Register.TimerInitialCount, 0)>>

EnableSpuriousInterrupt(v) == <<RegWr(Register.SpuriousInterruptVector, 256 | v)>>

EnableTimer(v) ==
    DisableTimerOps
    \o <<RegWr(Register.TimerDivideConfiguration, DivideBy2),
         RegWr(Register.LvtTimer, TimerMode.Periodic | v),
         RegWr(Register.TimerInitialCount, TimerCount)>>

EndOfInterrupt == <<RegWr(Register.EndOfInterrupt, 0)>>

\* in_service() then interrupt_request(): all eight words of each are read
ScanOps ==
    [i \in 1 .. 8 |-> RegRd(InService(i - 1))]
    \o [i \in 1 .. 8 |-> RegRd(InterruptRequest(i - 1))]

\* save_state: one read per writable register, in order
SaveOps == [i \in 1 .. Len(WritableRegisters) |-> RegRd(WritableRegisters[i])]

SaveState(m) ==
    [i \in 1 .. Len(WritableRegisters) |->
        <<WritableRegisters[i], ReadValue(m, GetRegister(WritableRegisters[i]))>>]

SoftwareEnabled(m) == BitSet(m[SvrMsr], 8)
TimerActive(m)     == ~BitSet(m[LvtTimerMsr], 16) /\ m[InitCountMsr] /= 0

VARIABLES
    drv,       \* "off" before new, "ready", "eoi" inside reset's drain, "done", "panicked"
    fault,     \* what a panic was about
    msr,       \* the read/write x2APIC registers, by MSR number
    base,      \* IA32_APIC_BASE
    pic,       \* the legacy PIC interrupt masks (both ports hold the same value)
    saved,     \* original_state: [regs (pairs of register and value), base, pic]
    isr,       \* non-zero In-Service Register words
    irr,       \* non-zero Interrupt Request Register words
    intFlag,   \* RFLAGS.IF
    icr,       \* the last value written to the ICR MSR 0x830
    fw         \* what firmware left behind (never changes)

vars == <<drv, fault, msr, base, pic, saved, isr, irr, intFlag, icr, fw>>

(***************************************************************************)
(* InterruptCommand and the enums of its fields, with their discriminants  *)
(* as declared (an arm without one follows the previous arm).  None is -1  *)
(* for `vector` and `apic_id`.                                             *)
(***************************************************************************)
NoValue == -1

DeliveryMode ==
    [Fixed |-> 0, LowestPriority |-> 1, SystemManagementInterrupt |-> 2, Reserved0 |-> 3,
     NonMaskableInterrupt |-> 4, Init |-> 5, StartUp |-> 6, Reserved1 |-> 7]

DestinationMode == [Physical |-> 0, Logical |-> 1]

DeliveryStatus == [Idle |-> 0, SendPending |-> 1]

Level == [DeAssert |-> 0, Assert |-> 1]

TriggerMode == [Edge |-> 0, Level |-> 1]

DestinationShorthand == [None |-> 0, Self_ |-> 1, AllIncludingSelf |-> 2, AllExcludingSelf |-> 3]

DefaultCommand ==
    [dm |-> DeliveryMode.Fixed, destMode |-> DestinationMode.Physical,
     status |-> DeliveryStatus.Idle, level |-> Level.DeAssert, trigger |-> TriggerMode.Edge,
     sh |-> DestinationShorthand.None, vector |-> NoValue, id |-> NoValue]

\* (entry_point >> 12) & 0xff
SipiVector(ep) == (ep \div 4096) % 256

\* The commands built by init_id, sipi_id, nmi_id, init_all, sipi_all, _nmi_all
InitId(id) ==
    [DefaultCommand EXCEPT !.dm = DeliveryMode.Init, !.level = Level.Assert,
                           !.id = id, !.vector = 0]
SipiId(id, v) ==
    [DefaultCommand EXCEPT !.dm = DeliveryMode.StartUp, !.level = Level.Assert,
                           !.id = id, !.vector = v]
NmiId(id) ==
    [DefaultCommand EXCEPT !.dm = DeliveryMode.NonMaskableInterrupt, !.level = Level.Assert,
                           !.id = id]
InitAll ==
    [DefaultCommand EXCEPT !.dm = DeliveryMode.Init, !.level = Level.Assert,
                           !.sh = DestinationShorthand.AllExcludingSelf]
SipiAll(v) ==
    [DefaultCommand EXCEPT !.dm = DeliveryMode.StartUp, !.level = Level.Assert,
                           !.sh = DestinationShorthand.AllExcludingSelf, !.vector = v]
NmiAll ==
    [DefaultCommand EXCEPT !.dm = DeliveryMode.NonMaskableInterrupt, !.level = Level.Assert,
                           !.sh = DestinationShorthand.AllExcludingSelf]

HelperCommands ==
    {InitId(i) : i \in ApicIds} \cup {NmiId(i) : i \in ApicIds} \cup {InitAll, NmiAll}
    \cup {SipiId(i, SipiVector(e)) : i \in ApicIds, e \in EntryPoints}
    \cup {SipiAll(SipiVector(e)) : e \in EntryPoints}

\* The asserts of InterruptCommand::raw, as written
RawPanics(c) ==
    \/ ~(c.vector /= NoValue \/ c.dm = DeliveryMode.NonMaskableInterrupt \/ c.dm = DeliveryMode.Init)
    \/ ~(c.sh = DestinationShorthand.AllIncludingSelf /\ c.id = NoValue)
    \/ ~(c.sh = DestinationShorthand.AllExcludingSelf /\ c.id = NoValue)

Or0(x) == IF x = NoValue THEN 0 ELSE x

\* An encoding with the level bit one place too low (mutation of Encode)
EncodeLevelLow(c) ==
    [hi |-> Or0(c.id),
     lo |-> c.sh * 2^18 | c.trigger * 2^15 | c.level * 2^13 | c.status * 2^12
            | c.destMode * 2^11 | c.dm * 2^8 | Or0(c.vector)]

\* The value raw returns in x2APIC mode after its asserts, as its two 32-bit halves
Encode(c) ==
    [hi |-> Or0(c.id),
     lo |-> c.sh * 2^18 | c.trigger * 2^15 | c.level * 2^14 | c.status * 2^12
            | c.destMode * 2^11 | c.dm * 2^8 | Or0(c.vector)]

\* sipi_id and sipi_all assert entry_point & 0xfff0_0fff == 0: only bits 12
\* to 19 of the u32 may be set
EntryPointOk(ep) == ep < 2^20 /\ ep % 4096 = 0

\* IF starts clear: no code of the repository executes sti outside eoi_all, and
\* no property reads IF
Init ==
    /\ fw \in FwStates
    /\ drv = "off" /\ fault = "none"
    /\ msr = fw.msr /\ base = fw.base /\ pic = fw.pic
    /\ saved = [regs |-> <<>>, base |-> fw.base, pic |-> fw.pic]
    /\ isr = 0 /\ irr = 0 /\ intFlag = FALSE
    /\ icr = [hi |-> 0, lo |-> 0]

Halt(why) == drv' = "panicked" /\ fault' = why

Run(ops) == Exec([m |-> msr, isr |-> isr, fault |-> "none"], ops)

(***************************************************************************)
(* Apic::new: read_apic_base; without x2APIC it panics before writing      *)
(* anything.  Else it writes the new base with the enable and x2APIC bits  *)
(* and firmware's BSP bit, masks the PIC (disable_pic_interrupts writes    *)
(* 0xff), THEN snapshots the PIC masks and the firmware base with the      *)
(* x2APIC bit forced on, saves the writable registers, enables the         *)
(* spurious vector 0xff and starts the timer on 0xcd.                      *)
(***************************************************************************)
\* disable_pic_interrupts: out8 of 0xff to the primary and secondary mask ports
DisablePicInterrupts == 255

\* get_primary_pic_interrupt_mask and get_secondary_pic_interrupt_mask: in8
\* of a mask port reads back the mask last written there, `p`
GetPicInterruptMask(p) == p

NewOps ==
    <<MsrRd(ApicBaseMsr), MsrWr(ApicBaseMsr, 0)>> \o SaveOps
    \o EnableSpuriousInterrupt(255) \o EnableTimer(205)

New ==
    /\ drv = "off"
    /\ IF ~HasFeature(fw.features, "X2Apic")
       THEN Halt("no_x2apic") /\ UNCHANGED <<msr, base, pic, saved, isr, irr>>
       ELSE LET st == Run(NewOps) IN
            IF st.fault /= "none"
            THEN Halt(st.fault) /\ UNCHANGED <<msr, base, pic, saved, isr, irr>>
            ELSE /\ drv' = "ready" /\ fault' = fault
                 /\ base' = [addr |-> NewBase, enable |-> TRUE, x2 |-> TRUE, bsp |-> base.bsp]
                 /\ pic' = DisablePicInterrupts
                 /\ saved' = [regs |-> SaveState(msr), base |-> [base EXCEPT !.x2 = TRUE],
                              pic |-> GetPicInterruptMask(DisablePicInterrupts)]
                 /\ msr' = st.m /\ isr' = st.isr /\ irr' = irr
    /\ UNCHANGED <<intFlag, icr, fw>>

(***************************************************************************)
(* An IPI helper: inter_process_interrupt's ensure! always holds for the  *)
(* _id helpers, which set apic_id; raw's asserts panic, or the value goes  *)
(* to the ICR with one wrmsr of get_register(InterruptCommand).            *)
(***************************************************************************)
SendIpi(c, ep) ==
    /\ drv \in {"ready", "done"}
    /\ LET wf == AccessFault("write", GetRegister(Register.InterruptCommand)) IN
       CASE ~EntryPointOk(ep) /\ c.dm = DeliveryMode.StartUp -> Halt("entry_point") /\ UNCHANGED icr
         [] RawPanics(c)                        -> Halt("raw") /\ UNCHANGED icr
         [] wf /= "none"                        -> Halt(wf) /\ UNCHANGED icr
         [] OTHER                    -> icr' = Encode(c) /\ UNCHANGED <<drv, fault>>
    /\ UNCHANGED <<msr, base, pic, saved, isr, irr, intFlag, fw>>

IpiNext ==
    \E ep \in EntryPoints :
        \E c \in {InitId(i) : i \in ApicIds} \cup {NmiId(i) : i \in ApicIds}
                 \cup {InitAll, NmiAll, SipiAll(SipiVector(ep))}
                 \cup {SipiId(i, SipiVector(ep)) : i \in ApicIds} :
            SendIpi(c, ep)

(***************************************************************************)
(* A helper the owner of the driver calls between new and reset: one of    *)
(* enable_spurious_interrupt, enable_timer, disable_timer,                 *)
(* end_of_interrupt, or the reads id, current_timer and                    *)
(* read_command_register, which change nothing but may panic.              *)
(***************************************************************************)
Call(ops) ==
    /\ drv \in {"ready", "done"}
    /\ LET st == Run(ops) IN
       IF st.fault /= "none"
       THEN Halt(st.fault) /\ UNCHANGED <<msr, isr>>
       ELSE msr' = st.m /\ isr' = st.isr /\ UNCHANGED <<drv, fault>>
    /\ UNCHANGED <<base, pic, saved, irr, intFlag, icr, fw>>

Queries ==
    {<<RegRd(Register.Id)>>, <<RegRd(Register.TimerCurrentCount)>>,
     <<RegRd(Register.InterruptCommand)>>}

CallNext ==
    \E ops \in {EnableSpuriousInterrupt(v) : v \in Vectors} \cup {EnableTimer(v) : v \in Vectors}
               \cup {DisableTimerOps, EndOfInterrupt} \cup Queries :
        Call(ops)

(***************************************************************************)
(* reset up to the drain: disable_timer, write back every saved register  *)
(* in order (every slot is Some after save_state), write 0 to SVR, wrmsr   *)
(* the saved base.                                                         *)
(***************************************************************************)
RestoreOps == [i \in 1 .. Len(saved.regs) |-> RegWr(saved.regs[i][1], saved.regs[i][2])]

ResetOps ==
    DisableTimerOps \o RestoreOps
    \o <<RegWr(Register.SpuriousInterruptVector, 0), MsrWr(ApicBaseMsr, 0)>>

\* reset with the timer disabled after the saved registers are written back
\* (mutation of ResetBegin)
ResetBeginSwapped ==
    /\ drv \in {"ready", "done"}
    /\ LET st == Run(RestoreOps \o DisableTimerOps
                     \o <<RegWr(Register.SpuriousInterruptVector, 0)>>) IN
       /\ drv' = "eoi" /\ msr' = st.m /\ base' = saved.base
    /\ UNCHANGED <<fault, pic, saved, isr, irr, intFlag, icr, fw>>

ResetBegin ==
    /\ drv \in {"ready", "done"}
    /\ LET st == Run(ResetOps) IN
       IF st.fault /= "none"
       THEN Halt(st.fault) /\ UNCHANGED <<msr, base, isr>>
       ELSE /\ drv' = "eoi" /\ fault' = fault
            /\ msr' = st.m /\ isr' = st.isr /\ base' = saved.base
    /\ UNCHANGED <<pic, saved, irr, intFlag, icr, fw>>

(***************************************************************************)
(* eoi_all: sti, then a scan of ISR and IRR, and one EOI and a fresh scan  *)
(* while a word is not zero.  The EOI retires the in-service interrupt; a  *)
(* requested one leaves IRR only when the processor takes it (Deliver).   *)
(***************************************************************************)
\* A drain whose EOI write clears nothing (mutation of EoiStep)
EoiStepMissed ==
    /\ drv = "eoi" /\ isr + irr > 0
    /\ intFlag' = TRUE
    /\ UNCHANGED <<drv, fault, msr, base, pic, saved, isr, irr, icr, fw>>

\* A drain that sends an EOI whether or not a word is set (mutation of EoiStep)
EoiStepUnguarded ==
    /\ drv = "eoi"
    /\ isr' = isr - 1 /\ intFlag' = TRUE
    /\ UNCHANGED <<drv, fault, msr, base, pic, saved, irr, icr, fw>>

EoiStep ==
    /\ drv = "eoi" /\ isr + irr > 0
    /\ intFlag' = TRUE
    /\ LET st == Run(ScanOps \o EndOfInterrupt) IN
       IF st.fault /= "none"
       THEN Halt(st.fault) /\ UNCHANGED isr
       ELSE isr' = st.isr /\ UNCHANGED <<drv, fault>>
    /\ UNCHANGED <<msr, base, pic, saved, irr, icr, fw>>

(***************************************************************************)
(* eoi_all breaks on a clean scan; reset's own scan of ISR and IRR then    *)
(* finds them clear (nothing is raised once SVR is 0, so the 100-try loop  *)
(* and its warning are not reached); cli; the saved PIC masks are written  *)
(* back.                                                                   *)
(***************************************************************************)
ResetEnd ==
    /\ drv = "eoi" /\ isr = 0 /\ irr = 0
    /\ LET st == Run(ScanOps \o ScanOps) IN
       IF st.fault /= "none"
       THEN Halt(st.fault) /\ UNCHANGED <<intFlag, pic>>
       ELSE drv' = "done" /\ intFlag' = FALSE /\ pic' = saved.pic /\ fault' = fault
    /\ UNCHANGED <<msr, base, saved, isr, irr, icr, fw>>

\* The timer or another source fires while the APIC is software enabled:
\* the vector is requested in IRR
Raise ==
    /\ drv /= "panicked"
    /\ SoftwareEnabled(msr) /\ (TimerActive(msr) \/ OtherSources)
    /\ isr + irr < MaxPending
    /\ irr' = irr + 1
    /\ UNCHANGED <<drv, fault, msr, base, pic, saved, isr, intFlag, icr, fw>>

(***************************************************************************)
(* With IF set the processor takes a requested interrupt (Intel SDM        *)
(* 10.8.3): it moves from IRR to ISR and firmware's handler runs, which    *)
(* may end it with its own EOI or leave it in service.  The APIC keeps    *)
(* IRR and ISR while software disabled (SDM 10.4.7.2), so this goes on    *)
(* after reset writes SVR 0.                                               *)
(***************************************************************************)
Deliver ==
    /\ drv /= "panicked" /\ intFlag /\ irr > 0
    /\ irr' = irr - 1
    /\ isr' \in {isr, isr + 1}
    /\ UNCHANGED <<drv, fault, msr, base, pic, saved, intFlag, icr, fw>>

Next == New \/ IpiNext \/ CallNext \/ ResetBegin \/ EoiStep \/ ResetEnd \/ Raise \/ Deliver

\* The drain runs on the core that called reset; nothing preempts it for
\* good, and the processor takes a requested interrupt while IF is set
Spec == Init /\ [][Next]_vars /\ WF_vars(EoiStep) /\ WF_vars(ResetEnd) /\ WF_vars(Deliver)

-----------------------------------------------------------------------------
MsrFaults == {"unimplemented_msr", "read_only_msr", "write_only_msr"}

TypeOK ==
    /\ drv \in {"off", "ready", "eoi", "done", "panicked"}
    /\ fault \in {"none", "no_x2apic", "entry_point", "raw"} \cup MsrFaults
    /\ isr + irr \in 0 .. MaxPending /\ isr \in Nat /\ irr \in Nat /\ intFlag \in BOOLEAN
    /\ msr \in [X2ApicRegisterMsrs -> Nat] /\ pic \in 0 .. 255
    /\ icr.hi \in Nat /\ icr.lo \in Nat

(***************************************************************************)
(* reset brings back the register state firmware left (spec.md 4.4 (b)):  *)
(* the step that ends reset leaves all eleven writable registers as        *)
(* firmware had them, except SVR, which reset leaves 0, and                *)
(* IA32_APIC_BASE holding firmware's value with the x2APIC bit on (the     *)
(* hardware refuses a direct x2APIC to xAPIC switch).  Needs new's         *)
(* snapshot to precede its own writes, whatever helpers ran between new    *)
(* and reset, and reset's restore to follow its disable_timer.             *)
(***************************************************************************)
ResetRestoresRegisters ==
    [][drv = "eoi" /\ drv' = "done" =>
          /\ msr' = [fw.msr EXCEPT ![SvrMsr] = 0]
          /\ base' = [fw.base EXCEPT !.x2 = TRUE]]_vars

(***************************************************************************)
(* reset's drain ends: eoi_all loops `continue 'try_again` with interrupts *)
(* on for as long as ISR or IRR is not clear.  An EOI only retires what   *)
(* is in service, so a requested interrupt must first be taken; the loop   *)
(* terminates only if nothing keeps raising, i.e. if SVR = 0 is written    *)
(* before the drain.                                                       *)
(***************************************************************************)
ResetCompletes == drv = "eoi" ~> drv = "done"

(***************************************************************************)
(* Every register access of the driver goes through get_register and      *)
(* cpu_x86's Msr::from and permission table: no read or write the driver  *)
(* makes, in new, save_state, reset, eoi_all or a helper, names an MSR     *)
(* that Msr::from does not list (unimplemented!()) or whose permission     *)
(* forbids the access (rdmsr / wrmsr panic).                               *)
(***************************************************************************)
NoMsrPanic == fault \notin MsrFaults

(***************************************************************************)
(* The ICR value raw builds puts every field of the command at its place   *)
(* (spec.md 4.4, Intel SDM 10.6.1): decoding the two halves gives back the *)
(* delivery mode, destination mode, status, level, trigger, shorthand,     *)
(* vector and destination of each command the IPI helpers can send in the *)
(* driver's current state.                                                 *)
(***************************************************************************)
Field(x, shift, width) == (x \div 2^shift) % 2^width

IcrLayout ==
    \A c \in IF drv \in {"ready", "done"} THEN HelperCommands ELSE {} :
        LET v == Encode(c) IN
        /\ v.hi = Or0(c.id)
        /\ Field(v.lo, 0, 8) = Or0(c.vector) /\ Field(v.lo, 8, 3) = c.dm
        /\ Field(v.lo, 11, 1) = c.destMode /\ Field(v.lo, 12, 1) = c.status
        /\ Field(v.lo, 14, 1) = c.level /\ Field(v.lo, 15, 1) = c.trigger
        /\ Field(v.lo, 18, 2) = c.sh

(***************************************************************************)
(* spec.md 4.4: the legacy PIC masks are snapshotted at construction and  *)
(* restored by reset.  Once reset is done the PIC masks are firmware's.    *)
(***************************************************************************)
ResetRestoresPicMasks == drv = "done" => pic = fw.pic

(***************************************************************************)
(* spec.md 4.4: raw only rejects a command without a vector (unless NMI or *)
(* INIT) or with an apic id and an all-cores shorthand.  The IPI helpers   *)
(* build no such command, so no IPI they send is rejected by raw.          *)
(***************************************************************************)
IpiHelpersAccepted == fault /= "raw"

=============================================================================
