--------------------------------- MODULE Boot ---------------------------------
(***************************************************************************)
(* From kmain to the idle threads: src/src/main.rs and, on every CPU,       *)
(* common_entry of arch/x86_64/init.rs with setup_tls, setup_gdt, setup_idt *)
(* and setup_lapic_timer.  kmain's CPU starts the others one by one and     *)
(* goes on concurrently with them.                                          *)
(*                                                                         *)
(* A CPU's program is a sequence of labels.  A step that uses what is not   *)
(* set up yet (an address before HHDM_OFFSET, the allocator, gs, the LAPIC's*)
(* page) is a "fault"; no frame left is a "panic"; and when map_page wrote  *)
(* to memory that is no page table, the rest is "undefined".  The page or   *)
(* table a CPU allocates for itself goes by the CPU's name.  The bootloader *)
(* is assumed to answer every request kmain makes of it.                    *)
(***************************************************************************)
EXTENDS PageMap

CONSTANTS
  Cpus,
  Bsp,         \* the CPU that runs kmain
  LapicPages,  \* the pages HHDM_OFFSET + lapic_phys_addr() may be in
  LapicPhys

ASSUME BootAssumption ==
  /\ Cpus \subseteq Nat
  /\ Bsp \in Cpus
  /\ LapicPages \subseteq Pages
  /\ LapicPhys \notin Int
  /\ NULL \notin Int /\ NULL \notin Pages

TlsPages == [cpu_id : Cpus, gdt_addr : Cpus \cup {NULL}, idt_addr : Cpus \cup {NULL},
             thread_addr : Int \cup {NULL}]

ASSUME TlsAssumption == NULL \notin TlsPages

VARIABLES
  status,   \* of each CPU: not started, on, in its idle thread, or stopped
  pc,       \* the next label of its program
  global,   \* what kmain has set up
  lapic_page,
  online,   \* CPUS: the CPUs published, each with its own TLS page
  tls,      \* the TLS pages: NULL before they are filled in
  cpu       \* the registers of each CPU

bootVars == <<status, pc, global, lapic_page, online, tls, cpu>>
vars == <<bootVars, pageVars, free>>

CpusFirst == <<"console", "hhdm", "allocator", "start", "lapic", "pdpt", "pd", "pt">>
Kmain == <<"console", "hhdm", "allocator", "lapic", "pdpt", "pd", "pt", "start">>

IdtForgotten == <<"greet", "tls", "fill", "gs", "publish", "gdt", "reload", "restore", "timer", "idle">>
TimerForgotten == <<"greet", "tls", "fill", "gs", "publish", "gdt", "reload", "restore", "idt", "idle">>
CommonEntry == <<"greet", "tls", "fill", "gs", "publish", "gdt", "reload", "restore", "idt", "timer", "idle">>

Program(c) == IF c = Bsp THEN Kmain \o CommonEntry ELSE CommonEntry

Init ==
  /\ status = [c \in Cpus |-> IF c = Bsp THEN "on" ELSE "off"]
  /\ pc = [c \in Cpus |-> 1]
  /\ PageInit
  /\ global = [console |-> FALSE, hhdm |-> FALSE, allocator |-> FALSE]
  /\ lapic_page \in LapicPages
  /\ online = {}
  /\ tls = [c \in Cpus |-> NULL]
  /\ cpu = [c \in Cpus |-> [gs_base |-> NULL, local_gs |-> NULL, gdtr |-> NULL, idtr |-> NULL,
                            lapic |-> "off", int_flag |-> FALSE]]

Label(c) == Program(c)[pc[c]]

(* What the code at a label relies on, and whether it takes a frame.  The   *)
(* allocator's init has the offset from the bootloader's response, and      *)
(* println! without a console prints nothing.                               *)
Requires(c, label) ==
  /\ label \in {"lapic", "pdpt", "pd", "pt", "tls", "fill", "gdt", "idt", "timer"} => global.hhdm
  /\ label \in {"pdpt", "pd", "tls", "fill", "gdt", "idt"} => global.allocator
  /\ label = "restore" => cpu[c].local_gs = c     \* mov gs:[gdt_addr]
  /\ label \in {"idt", "idle"} => cpu[c].gs_base = c
  /\ label = "timer" => Walk(lapic_page) = LapicPhys

TakesFrame(label) ==
  \/ label \in {"tls", "fill", "gdt", "idt"}        \* fill: the idle thread's stack
  \/ label \in {"pdpt", "pd"} /\ Entry = NULL

-----------------------------------------------------------------------------
(* kmain *)

Sets(field) == global' = [global EXCEPT ![field] = TRUE] /\ UNCHANGED <<status, online, tls, cpu>>

CallMapPage(label) ==
  \/ label = "lapic" /\ MapPage(lapic_page, LapicPhys)
  \/ label \in {"pdpt", "pd"} /\ Descend
  \/ label = "pt" /\ SetEntry

OnlyBsp == {Bsp}
Others == Cpus \ {Bsp}

(* One iteration of the loop over mp_resp.cpus().                           *)
StartCpu(d) ==
  /\ status[Bsp] = "on" /\ Label(Bsp) = "start"
  /\ d \in Others /\ status[d] = "off"
  /\ status' = [status EXCEPT ![d] = "on"]
  /\ UNCHANGED <<pc, global, lapic_page, online, tls, cpu, free, pageVars>>

Started == (\A d \in Others : status[d] # "off") /\ UNCHANGED <<status, global, online, tls, cpu>>

-----------------------------------------------------------------------------
(* setup_tls, setup_gdt, setup_idt, setup_lapic_timer *)

Writes(c, field, value) ==
  cpu' = [cpu EXCEPT ![c][field] = value] /\ UNCHANGED <<status, global, online>>

FillTls(c) ==
  /\ tls' = [tls EXCEPT ![c] = [cpu_id |-> c, gdt_addr |-> NULL, idt_addr |-> NULL, thread_addr |-> NULL]]
  /\ UNCHANGED <<status, global, online, cpu>>

Publish(c) == online' = online \cup {c} /\ UNCHANGED <<status, global, tls, cpu>>

(* The new table is loaded, and GsBase read just before GS is reloaded.     *)
LoadGdt(c) ==
  /\ cpu' = [cpu EXCEPT ![c].gdtr = c, ![c].local_gs = cpu[c].gs_base]
  /\ UNCHANGED <<status, global, online, tls>>

(* "Turns out setting GS resets GS base"                                    *)
ReloadGs(c) == Writes(c, "gs_base", NULL) /\ UNCHANGED tls

RestoreGs(c) ==
  /\ Writes(c, "gs_base", cpu[c].local_gs)
  /\ tls' = [tls EXCEPT ![c].gdt_addr = c]

LoadIdt(c) == Writes(c, "idtr", c) /\ tls' = [tls EXCEPT ![c].idt_addr = c]

IdleAddr(c) == -1 - c

(* The idle thread's frame has the interrupt flag set.                      *)
ForceSwitchToIdle(c) ==
  /\ tls' = [tls EXCEPT ![c].thread_addr = IdleAddr(c)]
  /\ cpu' = [cpu EXCEPT ![c].int_flag = TRUE]
  /\ status' = [status EXCEPT ![c] = "idle"]
  /\ UNCHANGED <<global, online>>

-----------------------------------------------------------------------------

Effect(c, label) ==
  \/ label \in {"console", "hhdm", "allocator"} /\ Sets(label)
  \/ label = "start" /\ Started
  \/ label \in {"greet", "tls"} /\ UNCHANGED <<status, global, online, tls, cpu>>
  \/ label = "fill" /\ FillTls(c)
  \/ label = "gs" /\ Writes(c, "gs_base", c) /\ UNCHANGED tls
  \/ label = "publish" /\ Publish(c)
  \/ label = "gdt" /\ LoadGdt(c)
  \/ label = "reload" /\ ReloadGs(c)
  \/ label = "restore" /\ RestoreGs(c)
  \/ label = "idt" /\ LoadIdt(c)
  \/ label = "timer" /\ Writes(c, "lapic", "armed") /\ UNCHANGED tls
  \/ label = "idle" /\ ForceSwitchToIdle(c)

Stops(c, how) ==
  /\ status' = [status EXCEPT ![c] = how]
  /\ UNCHANGED <<pc, global, lapic_page, online, tls, cpu, free, pageVars>>

Execute(c) ==
  LET label == Label(c) IN
  /\ status[c] = "on"
  /\ IF ~Requires(c, label) THEN Stops(c, "fault")
     ELSE IF ~clean THEN Stops(c, "undefined")
     ELSE IF TakesFrame(label) /\ free = {} THEN Stops(c, "panic")
     ELSE /\ \/ CallMapPage(label) /\ UNCHANGED <<status, global, online, tls, cpu>>
             \/ /\ Effect(c, label)
                /\ IF TakesFrame(label) THEN AllocFrame ELSE UNCHANGED free
                /\ UNCHANGED pageVars
          /\ pc' = [pc EXCEPT ![c] = @ + 1]
          /\ UNCHANGED lapic_page

Next == \E c \in Cpus : Execute(c) \/ StartCpu(c)

Spec == Init /\ [][Next]_vars

(* A CPU that is on executes its next step; a CPU halted is off for good.   *)
FairSpec == Spec /\ \A c \in Cpus : WF_vars(Execute(c)) /\ WF_vars(StartCpu(c))

-----------------------------------------------------------------------------
(* Properties *)

(* Nothing is used before it is set up, by whichever CPU comes first.       *)
NeverFaults == \A c \in Cpus : status[c] # "fault"

(* What a CPU's interrupt handlers use is there when they can run.  An      *)
(* exception asks current_cpu_id, from the time the IDT is loaded; a timer  *)
(* interrupt, once the flag is on, uses gs, the current thread, the kernel  *)
(* code segment, the LAPIC, and the TLS page of any CPU in CPUS.            *)
HandlersCanRun ==
  \A c \in Cpus :
    /\ cpu[c].idtr # NULL => cpu[c].gs_base = c
    /\ cpu[c].int_flag =>
         /\ cpu[c].idtr = c /\ cpu[c].gdtr = c
         /\ tls[c].thread_addr # NULL
         /\ Walk(lapic_page) = LapicPhys
         /\ \A d \in online : tls[d] # NULL /\ tls[d].cpu_id = d

Running(c) == status[c] = "idle"

(* Booting, seen from the scheduler: no thread yet, a CPU is off until it    *)
(* is published and in boot code until it runs its idle thread.              *)
Sched == INSTANCE Scheduler WITH
  QueueCap <- 0, TableCap <- 0, RandomRange <- 12,
  ready_queue <- [c \in Cpus |-> <<>>],
  thread_addr <- [c \in Cpus |-> IF tls[c] = NULL THEN NULL ELSE tls[c].thread_addr],
  sched_state <- [t \in {} |-> NULL], table <- {},
  saved <- {IdleAddr(c) : c \in {d \in online : ~Running(d)}},
  spawning <- [x \in {IdleAddr(c) : c \in Cpus} |-> NULL],
  stack <- [c \in Cpus |-> IF Running(c) THEN IdleAddr(c) ELSE NULL],
  pc <- [c \in Cpus |-> IF Running(c) THEN "run" ELSE IF c \in online THEN "boot" ELSE "off"],
  other_cpu <- [c \in Cpus |-> NULL],
  lapic <- [c \in Cpus |-> IF Running(c) THEN cpu[c].lapic ELSE "off"]

(* Boot does what Scheduler takes for granted of it, step by step.          *)
ImplementsSchedulerBoot == Sched!Spec

FramesForAll == 4 * Cardinality(Cpus) + 2

(* With frames for everyone, and map_page at work on nothing but page       *)
(* tables, every CPU gets to its idle thread; so a CPU published long before *)
(* it can run a thread does run those moved to it.                           *)
BootCompletes ==
  Cardinality(free) >= FramesForAll /\ []clean => <>(\A c \in Cpus : Running(c))
=============================================================================
